------------------------------- MODULE Scripts -------------------------------
(***************************************************************************)
(* What the maintainer scripts of a package do to a target root, carried   *)
(* out without a shell: the preinst before the unpack                      *)
(* (src/pkg_preunpack.c), the walk over the payload (src/cmd_pkg.c) and    *)
(* the postinst when the package is configured (src/pkg_configure.c).      *)
(*                                                                         *)
(* Abstractions.                                                           *)
(*  - The root is a function on a set of paths.  A path is a sequence of   *)
(*    names; the directories above it are there.  The text of a link is    *)
(*    the path it leads to.                                                *)
(*  - A script is recognised or not, and a debhelper postinst is a         *)
(*    sequence of lines of the kinds that process_postinst_fresh tells     *)
(*    apart.  The text of the other scripts is their package.              *)
(*  - Status stanzas, the queue of triggers and their interests are Pkg's; *)
(*    here a package has a state and a trigger has been queued or not.     *)
(*  - A new file appears when its writer closes it, unless nothing was     *)
(*    written; one that was there is emptied when it is opened and written *)
(*    when it is closed.  An empty file has no contents, << >>.            *)
(***************************************************************************)
EXTENDS Integers, Sequences, SequencesExt, FiniteSetsExt

CONSTANTS
    Debs,       \* packages
    Roots,      \* roots to start from, functions on one set of paths
    Menus,      \* sets of packages to choose a behaviour's packages from
    Payloads,   \* payload of each package: its TAR entries
    Preinsts,   \* "none", "known" or "other": the preinst of each package
    Postinsts,  \* lines of the postinst of each package
    Known,      \* packages whose postinst has the strings that are looked for
    Recipes,    \* lines of each tmpfiles recipe that has contents
    Promised,   \* paths that the scripts of a package see to
    SymlinkMax, \* VFS_SYMLINK_MAX, the links that one open follows
    MaxRuns,    \* bound on the commands of a behaviour
    MaxLosses   \* bound on the files that failed writes empty

ASSUME RunsAssumption == MaxRuns \in Nat /\ MaxLosses \in Nat /\ SymlinkMax \in Nat \ {0}

VARIABLES
    root,   \* path -> node
    divs,   \* /var/lib/dpkg/diversions
    lists,  \* package -> paths in info/<package>.list
    info,   \* package -> its scripts in info/: "none", "whole" or "empty"
    regd,   \* package -> "none", "unpacked" or "installed"
    fired,  \* triggers queued
    work,   \* the command under way
    menu,   \* packages of this behaviour
    runs,   \* commands given
    lost    \* history: files that a failed write, or a copy of an empty
            \* file, has emptied or removed
scriptVars == <<root, divs, lists, info, regd, fired, work, menu, runs, lost>>

Node(kind, v) == [kind |-> kind, v |-> v]
Gone == Node("absent", << >>)
FileNode(v) == Node("file", v)
LinkNode(to) == Node("link", to)
DirNode(owner) == Node("dir", owner)

NoWork == [pkg |-> "none", steps |-> << >>, list |-> {}]

ScriptsInit ==
    /\ root \in Roots
    /\ menu \in Menus
    /\ divs = << >> /\ fired = {} /\ lost = {} /\ runs = 0
    /\ lists = [d \in Debs |-> {}]
    /\ info = [d \in Debs |-> "none"]
    /\ regd = [d \in Debs |-> "none"]
    /\ work = NoWork

------------------------------------------------------------------------------
(* The root                                                                  *)

IsLink(p) == root[p].kind = "link"
\* where an open of p ends: it follows SymlinkMax links
Follow(p) == IF p \in DOMAIN root /\ IsLink(p) THEN root[p].v ELSE p
End(p) == LET hop[n \in 0 .. SymlinkMax - 1] == IF n = 0 THEN p ELSE Follow(hop[n - 1])
          IN  hop[SymlinkMax - 1]
Final(p) == IF IsLink(p) THEN End(root[p].v) ELSE p
\* an open of p for writing succeeds
Writable(p) == Final(p) \in DOMAIN root /\ root[Final(p)].kind \in {"file", "absent"}
\* exists through the link
Stats(p) == Final(p) \in DOMAIN root /\ root[Final(p)].kind \in {"file", "dir"}
IsDir(p) == Stats(p) /\ root[Final(p)].kind = "dir"
Exists(p) == Stats(p) \/ IsLink(p)
\* an open and the reads of p succeed
CanRead(p) == Stats(p) /\ ~IsDir(p)
Contents(p) == root[Final(p)].v

Usr(p) == <<"usr">> \o p
LibDir == <<"lib">>
Lib64 == <<"lib64">>
Passwd == <<"etc", "passwd">>
Group == <<"etc", "group">>
Shell == <<"usr", "bin", "sh">>
UnixProfile == <<"usr", "share", "pam-configs", "unix">>
NsswitchDefault == <<"usr", "share", "libc-bin", "nsswitch.conf">>
RecipePath(conf) == <<"usr", "lib", "tmpfiles.d", conf>>
PamTemplate(name) == <<"usr", "share", "pam", name>>
PamFile(name) == <<"etc", "pam.d", name>>

------------------------------------------------------------------------------
(* Running the steps of a command                                            *)

Done == work' = [work EXCEPT !.steps = Tail(@)]
Refused == work' = NoWork

\* the step succeeds and leaves node n at p, a path of the root
Put(p, n) ==
    /\ root' = [root EXCEPT ![p] = n]
    /\ Done
    /\ UNCHANGED <<divs, lists, info, regd, fired, lost>>

\* the step changes nothing, and the command goes on or ends
GoOn == Done /\ UNCHANGED <<root, divs, lists, info, regd, fired, lost>>
GiveUp == Refused /\ UNCHANGED <<root, divs, lists, info, regd, fired, lost>>

\* an open that creates or truncates, the writes and the close
WriteFile(p, v) ==
    IF Writable(p) THEN Put(Final(p), FileNode(v)) ELSE GiveUp
\* the same without a write: what is there is truncated, and nothing is created
TruncateFile(p) ==
    IF Writable(p)
    THEN /\ root' = [root EXCEPT ![Final(p)] = IF @.kind = "file" THEN FileNode(<< >>) ELSE @]
         /\ lost' = lost \cup {q \in {Final(p)} : root[q].kind = "file"}
         /\ Done
         /\ UNCHANGED <<divs, lists, info, regd, fired>>
    ELSE GiveUp

------------------------------------------------------------------------------
(* The preinst                                                               *)

Record(from, to, owner) == [from |-> from, to |-> to, owner |-> owner]

\* diversion_add: at most one record for a source
DivertAlways(rec) ==
    /\ divs' = Append(divs, rec)
    /\ Done
    /\ UNCHANGED <<root, lists, info, regd, fired, lost>>
Divert(rec) ==
    LET same == {i \in DOMAIN divs : divs[i].from = rec.from}
    IN  CASE same = {} -> DivertAlways(rec)
          [] same # {} /\ divs[Min(same)] = rec -> GoOn
          [] OTHER -> GiveUp

\* base_files_check_one: the link /d of a merged /usr, or nothing.  The one link
\* that is mended is /lib64 to below usr/lib: it is removed and made anew.
Mended(p) ==
    /\ p = Lib64 /\ IsLink(p) /\ root[p].v # Usr(p)
    /\ Len(root[p].v) > 2 /\ SubSeq(root[p].v, 1, 2) = Usr(LibDir)
CheckMerged(d) ==
    LET p == <<d>>
        bad == IsLink(p) /\ root[p].v # Usr(p)
        nspawn == Mended(p)
    IN  CASE bad /\ nspawn -> Put(p, IF IsDir(Usr(p)) THEN LinkNode(Usr(p)) ELSE Gone)
          [] bad /\ ~nspawn -> GiveUp
          [] IsLink(p) /\ ~bad -> IF IsDir(Usr(p)) THEN GoOn ELSE GiveUp
          [] OTHER -> IF Exists(p) THEN GiveUp ELSE GoOn

\* base_passwd_fresh, for one of its two files
CreateMaster(p) ==
    CASE Stats(p) -> GoOn
      [] ~Stats(p) /\ IsLink(p) -> GiveUp
      [] OTHER -> WriteFile(p, <<"master">>)

\* pkg_preunpack_fresh for libc6: /lib64 is a link once /lib is one.  The directory
\* is made first, then the link.
WantsLib64 == IsLink(LibDir) /\ ~Exists(Lib64)
MakeUsrLib64 ==
    CASE WantsLib64 /\ root[Usr(Lib64)] = Gone -> Put(Usr(Lib64), DirNode(<<"root">>))
      [] WantsLib64 /\ root[Usr(Lib64)] # Gone /\ ~Stats(Usr(Lib64)) -> GiveUp
      [] OTHER -> GoOn
MergeLib64 ==
    CASE WantsLib64 -> Put(Lib64, LinkNode(Usr(Lib64)))
      [] Exists(Lib64) /\ ~IsLink(Lib64) -> GiveUp
      [] OTHER -> GoOn

\* gzip_fresh: no record of zutils for one of the tools
ZTools == {"zcat", "zcmp", "zdiff", "zegrep", "zfgrep", "zgrep"}
NoZutils == IF \E i \in DOMAIN divs : divs[i].from \in {<<"bin", t>> : t \in ZTools} THEN GiveUp ELSE GoOn

Op(op, path, v) == [op |-> op, path |-> path, v |-> v]
Merged(name) == <<name, "usr-is-merged">>
Loader == Lib64 \o <<"ld-linux-x86-64.so.2">>
LibcRecords == <<Record(Lib64, Merged("lib64"), "base-files"),
                 Record(Loader, Lib64 \o <<"ld-linux-x86-64.so.2.usr-is-merged">>, "libc6")>>
Multilib == <<"lib32", "libo32", "libx32">>
BaseRecords == [i \in 1 .. 3 |-> Record(<<Multilib[i]>>, Merged(Multilib[i]), "base-files")]
CheckDirs == <<"bin", "lib", "lib32", "lib64", "libo32", "libx32", "sbin">>
Diversion(rec) == Op("divert", << >>, rec)

\* What the preinst of each audited package does to a fresh target.  Those of dash,
\* login and libpam-modules have nothing left to do there.
BaseFilesPreinst == [i \in 1 .. 7 |-> Op("merged", << >>, CheckDirs[i])]
                    \o [i \in 1 .. 3 |-> Diversion(BaseRecords[i])]
BasePasswdPreinst == <<Op("master", Passwd, ""), Op("master", Group, "")>>
DashPreinst == << >>
LoginPreinst == << >>
LibpamModulesPreinst == << >>
GzipPreinst == <<Op("zutils", << >>, "")>>
Libc6Preinst == <<Op("usrlib64", << >>, ""), Op("lib64", << >>, "")>> \o [i \in 1 .. 2 |-> Diversion(LibcRecords[i])]

\* pkg_preunpack_fresh: a script without its signature, or of another package,
\* refuses the install
Audited == {"base-files", "base-passwd", "dash", "gzip", "login", "libpam-modules", "libc6"}
PreinstSteps(p) ==
    CASE Preinsts[p] = "none" -> << >>
      [] Preinsts[p] = "other" \/ p \notin Audited -> <<Op("refuse", << >>, "")>>
      [] p = "base-files" -> BaseFilesPreinst
      [] p = "base-passwd" -> BasePasswdPreinst
      [] p = "dash" -> DashPreinst
      [] p = "gzip" -> GzipPreinst
      [] p = "login" -> LoginPreinst
      [] p = "libpam-modules" -> LibpamModulesPreinst
      [] OTHER -> Libc6Preinst

------------------------------------------------------------------------------
(* The payload                                                               *)

ClaimedByNone(p, path) == FALSE
\* path_claimed_by_other_package: a package of the status file and its list
Claimed(p, path) == \E q \in Debs \ {p} : regd[q] # "none" /\ path \in lists[q]
Diverted(path) == \E i \in DOMAIN divs : divs[i].from = path

\* dash_bootstrap_sh_handoff: the shell of the bootstrap image, which no package
\* owns, makes way for dash
MayRetire(p, path, to) ==
    /\ p = "dash" /\ path = Shell /\ to = <<"usr", "bin", "dash">>
    /\ root[path].kind # "dir"
    /\ ~Diverted(Shell) /\ ~Diverted(<<"bin", "sh">>)
    /\ ~Claimed(p, Shell)

\* install_list_add, with what the entry did to the root
Listed(path) == work' = [work EXCEPT !.steps = Tail(@), !.list = @ \cup {path}]
Unpacked(path, at, n) ==
    /\ root' = [root EXCEPT ![at] = n]
    /\ Listed(path)
    /\ UNCHANGED <<divs, lists, info, regd, fired, lost>>

\* install_cb: one entry of the archive
Directory(path) ==
    CASE Stats(path) -> Unpacked(path, path, root[path])
      [] ~Stats(path) /\ Writable(path) -> Unpacked(path, Final(path), DirNode(<<"root">>))
      [] OTHER -> GiveUp
Symlink(path, to) ==
    CASE root[path] \in {Gone, LinkNode(to)} -> Unpacked(path, path, LinkNode(to))
      [] root[path] \notin {Gone, LinkNode(to)} /\ MayRetire(work.pkg, path, to) ->
            Unpacked(path, path, LinkNode(to))
      [] OTHER -> GiveUp
Regular(path, v) ==
    IF Writable(path) THEN Unpacked(path, Final(path), FileNode(v)) ELSE GiveUp

WriteInfoList ==
    /\ lists' = [lists EXCEPT ![work.pkg] = work.list]
    /\ Done
    /\ UNCHANGED <<root, divs, info, regd, fired, lost>>
CopyScripts ==
    /\ info' = [info EXCEPT ![work.pkg] = "whole"]
    /\ Done
    /\ UNCHANGED <<root, divs, lists, regd, fired, lost>>
AddStanza ==
    /\ regd' = [regd EXCEPT ![work.pkg] = IF @ = "none" THEN "unpacked" ELSE @]
    /\ Refused
    /\ UNCHANGED <<root, divs, lists, info, fired, lost>>

\* install: preinst, payload, list, control files, stanza
InstallSteps(p) ==
    PreinstSteps(p)
        \o [i \in DOMAIN Payloads[p] |-> Op(Payloads[p][i].type, Payloads[p][i].path, Payloads[p][i].v)]
        \o <<Op("list", << >>, ""), Op("control", << >>, ""), Op("stanza", << >>, "")>>

InstallDeb(p) ==
    /\ work = NoWork /\ runs < MaxRuns
    /\ runs' = runs + 1
    /\ work' = [pkg |-> p, steps |-> InstallSteps(p), list |-> {}]
    /\ UNCHANGED <<root, divs, lists, info, regd, fired, menu, lost>>

------------------------------------------------------------------------------
(* The postinst                                                              *)

Refusal == Op("refuse", << >>, "")

\* tmpfiles_apply: the recipe is read, then its lines are applied.  One that was
\* emptied has none, and the postinst goes on.
TmpfilesLines(conf) ==
    [i \in DOMAIN Recipes[conf] |->
       IF Recipes[conf][i].type = "d"
       THEN Op("tmpdir", Recipes[conf][i].path, Recipes[conf][i].owner)
       ELSE Refusal]
ReadRecipe(p, conf) ==
    IF CanRead(p)
    THEN /\ work' = [work EXCEPT !.steps = (IF Contents(p) = << >> THEN << >> ELSE TmpfilesLines(conf)) \o Tail(@)]
         /\ UNCHANGED <<root, divs, lists, info, regd, fired, lost>>
    ELSE GiveUp

\* process_postinst_fresh: a branch for a previous version is skipped up to its
\* fi, a line that is none of the known ones refuses the script
PostinstLine(acc, line) ==
    CASE line.k = "blank" -> acc
      [] line.k = "guard" -> [acc EXCEPT !.depth = @ + 1]
      [] line.k = "fi" /\ acc.depth > 0 -> [acc EXCEPT !.depth = @ - 1]
      [] line.k \notin {"blank", "guard"} /\ ~(line.k = "fi" /\ acc.depth > 0) ->
            IF acc.depth > 0 THEN acc
            ELSE [acc EXCEPT !.steps = @ \o
                    CASE line.k \in {"outer", "fi"} -> << >>
                      [] line.k = "tmpfiles" -> <<Op("recipe", RecipePath(line.arg), line.arg)>>
                      [] line.k = "trigger" -> <<Op("trigger", << >>, line.arg)>>
                      [] OTHER -> <<Refusal>>]
TemplateSteps(lines) ==
    LET acc == FoldLeft(PostinstLine, [depth |-> 0, steps |-> << >>], lines)
    IN  IF acc.depth > 0 THEN Append(acc.steps, Refusal) ELSE acc.steps

PamNames == <<"common-auth", "common-account", "common-password", "common-session",
              "common-session-noninteractive">>
Opasswd == <<"etc", "security", "opasswd">>
Environment == <<"etc", "environment">>
Nsswitch == <<"etc", "nsswitch.conf">>
Pager == <<"usr", "bin", "pager">>
PagerMan == <<"usr", "share", "man", "man1", "pager.1.gz">>
NoOps == {"login", "login.defs", "libpam0g", "libpam-modules-bin"}

Signed(p, steps) == IF p \in Known THEN steps ELSE <<Refusal>>
Libc6Postinst == Signed("libc6", <<Op("trigger", << >>, "libc-upgrade")>>)
LibcBinPostinst == Signed("libc-bin", <<Op("default", Nsswitch, ""), Op("ldconfig", << >>, "")>>)
LibpamRuntimePostinst == <<Op("profile", UnixProfile, "")>>
                         \o [i \in DOMAIN PamNames |-> Op("pam", << >>, PamNames[i])]
LibpamModulesPostinst == <<Op("touch", Opasswd, ""), Op("touch", Environment, "")>>
UtilLinuxPostinst == Signed("util-linux", <<Op("alternative", Pager, <<"bin", "more">>),
                                            Op("alternative", PagerMan, <<"more.1.gz">>)>>)
NoOpPostinst(p) == Signed(p, << >>)

\* pkg_configure_one: the script of each package
PostinstSteps(p) ==
    CASE p = "libc6" -> Libc6Postinst
      [] p = "libc-bin" -> LibcBinPostinst
      [] p = "libpam-runtime" -> LibpamRuntimePostinst
      [] p = "libpam-modules" -> LibpamModulesPostinst
      [] p = "util-linux" -> UtilLinuxPostinst
      [] p \in NoOps /\ Postinsts[p] # << >> -> NoOpPostinst(p)
      [] OTHER -> TemplateSteps(Postinsts[p])
\* scripts that were emptied in info/ have no lines, and none of the strings
EmptySteps(p) ==
    IF p \in NoOps \cup {"libc6", "libc-bin", "util-linux"} THEN <<Refusal>>
    ELSE IF p \in {"libpam-runtime", "libpam-modules"} THEN PostinstSteps(p) ELSE << >>

\* a preinst must have been carried out, or have nothing to do
Attested(p) ==
    \/ Preinsts[p] = "none"
    \/ p = "libc6" /\ {LibcRecords[1], LibcRecords[2]} \subseteq ToSet(divs)
    \/ p \in {"login", "libpam-modules"} /\ Preinsts[p] = "known" /\ info[p] = "whole"

ConfigureDeb(p) ==
    /\ work = NoWork /\ runs < MaxRuns
    /\ regd[p] = "unpacked"
    /\ Attested(p)
    /\ runs' = runs + 1
    /\ work' = [pkg |-> p, list |-> {},
                steps |-> (IF info[p] = "whole" THEN PostinstSteps(p) ELSE EmptySteps(p))
                          \o <<Op("installed", << >>, "")>>]
    /\ UNCHANGED <<root, divs, lists, info, regd, fired, menu, lost>>

\* ensure_dir and vfs_chown: what is there is kept
TmpDir(p, owner) ==
    CASE Stats(p) -> Put(Final(p), IF IsDir(p) THEN DirNode(owner) ELSE root[Final(p)])
      [] ~Stats(p) /\ Writable(p) -> Put(Final(p), DirNode(owner))
      [] OTHER -> GiveUp
\* copy_file_preserve_if_missing: of an empty file nothing is made that its chmod
\* could be applied to
CopyDefault(src, dst) ==
    CASE Stats(dst) -> GoOn
      [] ~Stats(dst) /\ (~CanRead(src) \/ Contents(src) = << >>) -> GiveUp
      [] OTHER -> WriteFile(dst, Contents(src))
\* configure_libpam_runtime looks for three strings in the profile
CheckProfile(p) == IF CanRead(p) /\ Contents(p) # << >> THEN GoOn ELSE GiveUp
\* pam_generate_one: the template with its tokens replaced, nothing for an empty one
PamGenerate(name) ==
    CASE ~CanRead(PamTemplate(name)) -> GiveUp
      [] CanRead(PamTemplate(name)) /\ Contents(PamTemplate(name)) = << >> -> TruncateFile(PamFile(name))
      [] OTHER -> WriteFile(PamFile(name), <<"generated">>)
Touch(p) == IF Stats(p) THEN GoOn ELSE WriteFile(p, <<"blank">>)
\* configure_util_linux
Alternative(p, to) ==
    CASE Stats(p) -> GoOn
      [] ~Stats(p) /\ root[p] = Gone -> Put(p, LinkNode(to))
      [] OTHER -> GiveUp
QueueTrigger(t) ==
    /\ fired' = fired \cup {t}
    /\ Done
    /\ UNCHANGED <<root, divs, lists, info, regd, lost>>
SetInstalledState ==
    /\ regd' = [regd EXCEPT ![work.pkg] = "installed"]
    /\ Refused
    /\ UNCHANGED <<root, divs, lists, info, fired, lost>>

------------------------------------------------------------------------------

\* the step at the head of the command
PerformStep ==
    /\ work # NoWork
    /\ LET s == Head(work.steps)
       IN  CASE s.op = "divert" -> Divert(s.v)
             [] s.op = "merged" -> CheckMerged(s.v)
             [] s.op = "master" -> CreateMaster(s.path)
             [] s.op = "usrlib64" -> MakeUsrLib64
             [] s.op = "lib64" -> MergeLib64
             [] s.op = "zutils" -> NoZutils
             [] s.op = "dir" -> Directory(s.path)
             [] s.op = "link" -> Symlink(s.path, s.v)
             [] s.op = "file" -> Regular(s.path, s.v)
             [] s.op = "list" -> WriteInfoList
             [] s.op = "control" -> CopyScripts
             [] s.op = "stanza" -> AddStanza
             [] s.op = "recipe" -> ReadRecipe(s.path, s.v)
             [] s.op = "tmpdir" -> TmpDir(s.path, s.v)
             [] s.op = "trigger" -> QueueTrigger(s.v)
             [] s.op = "default" -> CopyDefault(NsswitchDefault, s.path)
             [] s.op = "profile" -> CheckProfile(s.path)
             [] s.op = "pam" -> PamGenerate(s.v)
             [] s.op = "touch" -> Touch(s.path)
             [] s.op = "alternative" -> Alternative(s.path, s.v)
             [] s.op = "installed" -> SetInstalledState
             [] s.op = "refuse" -> GiveUp
             [] OTHER -> GoOn   \* ldconfig, an entry of another type
    /\ UNCHANGED <<menu, runs>>

\* an operation fails before it has changed anything, or the process ends
StepFails == work # NoWork /\ GiveUp /\ UNCHANGED <<menu, runs>>

\* a file that was there has been emptied, or removed, when its writer fails
Rewrites(s) ==
    CASE s.op \in {"file", "pam"} ->
            LET p == IF s.op = "pam" THEN PamFile(s.v) ELSE s.path
            IN  {q \in {Final(p)} \cap DOMAIN root : root[q].kind = "file"}
      [] s.op = "link" -> {q \in {s.path} : root[q] \notin {Gone, LinkNode(s.v)} /\ MayRetire(work.pkg, q, s.v)}
      [] s.op = "merged" -> {q \in {<<s.v>>} : Mended(q) /\ IsDir(Usr(q))}
      [] OTHER -> {}
FlushFailsIn ==
    /\ work # NoWork
    /\ Cardinality(lost) < MaxLosses
    /\ LET s == Head(work.steps)
       IN  \/ \E p \in Rewrites(s) :
                 /\ root' = [root EXCEPT ![p] = IF s.op \in {"link", "merged"} THEN Gone ELSE FileNode(<< >>)]
                 /\ lost' = lost \cup {p}
                 /\ UNCHANGED <<divs, lists, info>>
           \/ /\ s.op = "divert"
              /\ s.v \notin ToSet(divs)
              /\ divs' = << >>
              /\ lost' = lost \cup {<<"diversions">>}
              /\ UNCHANGED <<root, lists, info>>
           \/ /\ s.op = "list"
              /\ lists' = [lists EXCEPT ![work.pkg] = {}]
              /\ lost' = lost \cup {<<"list", work.pkg>>}
              /\ UNCHANGED <<root, divs, info>>
           \/ /\ s.op = "control" /\ info[work.pkg] # "none"
              /\ info' = [info EXCEPT ![work.pkg] = "empty"]
              /\ lost' = lost \cup {<<"info", work.pkg>>}
              /\ UNCHANGED <<root, divs, lists>>
    /\ Refused
    /\ UNCHANGED <<regd, fired, menu, runs>>

\* install_cb does not look at what vfs_close returns: an entry whose contents were
\* not written is listed, and the walk goes on
UnpackLoses ==
    /\ work # NoWork
    /\ Cardinality(lost) < MaxLosses
    /\ \E s \in {Head(work.steps)} :
         /\ s.op = "file"
         /\ Writable(s.path)
         /\ root' = [root EXCEPT ![Final(s.path)] = IF @ = Gone THEN Gone ELSE FileNode(<< >>)]
         /\ lost' = lost \cup {Final(s.path)}
         /\ Listed(s.path)
    /\ UNCHANGED <<divs, lists, info, regd, fired, menu, runs>>

ScriptsNext ==
    \/ \E p \in menu : InstallDeb(p) \/ ConfigureDeb(p)
    \/ UnpackLoses
    \/ PerformStep
    \/ StepFails
    \/ FlushFailsIn
ScriptsSpec == ScriptsInit /\ [][ScriptsNext]_scriptVars

------------------------------------------------------------------------------
(* What the packages and the targets are                                     *)

\* the paths of the target; every root has the same ones
Paths == DOMAIN (CHOOSE r \in Roots : TRUE)
TarTypes == {"dir", "link", "file", "fifo"}
IsLinkEntry(q, i) == q \in Debs /\ i \in DOMAIN Payloads[q] /\ Payloads[q][i].type = "link"
\* where the packages put links
LinkPaths == {p \in Paths : \E q \in Debs : \E i \in DOMAIN Payloads[q] :
                               IsLinkEntry(q, i) /\ Payloads[q][i].path = p}

\* the paths that the scripts are written for, and what they are made from
ScriptPaths ==
    {Passwd, Group, Lib64, Usr(Lib64), Nsswitch, Opasswd, Environment, Pager, PagerMan}
        \cup {<<CheckDirs[i]>> : i \in 1 .. 7} \cup {PamFile(PamNames[i]) : i \in 1 .. 5}
SourceFiles == {RecipePath(c) : c \in DOMAIN Recipes} \cup {PamTemplate(PamNames[i]) : i \in 1 .. 5}
HasLine(c, p) == c \in DOMAIN Recipes /\ \E i \in DOMAIN Recipes[c] : Recipes[c][i].path = p
SourcesOf(p) ==
    {RecipePath(c) : c \in {d \in DOMAIN Recipes : HasLine(d, p)}}
        \cup {PamTemplate(PamNames[i]) : i \in {j \in 1 .. 5 : p = PamFile(PamNames[j])}}

\* A payload is a sequence of TAR entries on paths of the target, no path is in it
\* twice, and no file of it is empty.
Archived ==
    /\ \A m \in Menus : m \subseteq Debs
    /\ \A r \in Roots : DOMAIN r = Paths
    /\ ScriptPaths \cup SourceFiles \subseteq Paths
    /\ \A q \in Debs :
         /\ Payloads[q] \in Seq(ToSet(Payloads[q]))
         /\ \A i \in DOMAIN Payloads[q] :
              /\ Payloads[q][i].type \in TarTypes /\ Payloads[q][i].path \in Paths
              /\ Payloads[q][i].type = "file" => Payloads[q][i].v # << >>
              /\ \A j \in DOMAIN Payloads[q] : Payloads[q][i].path = Payloads[q][j].path => i = j

\* A package that brings /lib64 brings the link of a merged /usr.  No recipe and no
\* template is a link, and none is empty before a write fails.
Linked ==
    /\ SourceFiles \cap LinkPaths = {}
    /\ \A r \in Roots :
         /\ \A p \in SourceFiles : r[p].kind # "link"
         /\ \A p \in Paths : r[p].kind = "file" => r[p].v # << >>
    /\ \A q \in Debs : \A i \in DOMAIN Payloads[q] :
         IsLinkEntry(q, i) /\ Payloads[q][i].path = Lib64 => Payloads[q][i].v = Usr(Lib64)

\* the steps that see to a path, and the path
MakeOps == {"tmpdir", "default", "touch", "alternative", "pam"}
SeesTo(s) == IF s.op = "pam" THEN PamFile(s.v) ELSE s.path
Makes(s, p) ==
    \/ s.op \in MakeOps /\ SeesTo(s) = p
    \/ s.op = "recipe" /\ HasLine(s.v, p)

\* What a debhelper postinst comes to is a sequence of recipes, triggers and
\* refusals, the lines of a recipe are on paths of the target; what a package
\* promises, a step of its postinst makes, or the postinst is refused; and libc6 has
\* a preinst.
TemplateOps == {"recipe", "trigger", "refuse"}
Scripted ==
    /\ \A c \in DOMAIN Recipes :
         Recipes[c] \in Seq(ToSet(Recipes[c])) /\ \A i \in DOMAIN Recipes[c] : Recipes[c][i].path \in Paths
    /\ \A q \in Debs :
         LET steps == TemplateSteps(Postinsts[q])
         IN  /\ steps \in Seq(ToSet(steps))
             /\ \A s \in ToSet(steps) :
                  /\ s.op \in TemplateOps
                  /\ s.op = "recipe" => s.v \in DOMAIN Recipes /\ s.path = RecipePath(s.v)
    /\ \A q \in Debs : \A p \in Promised[q] :
         /\ p \in Paths /\ p # Lib64
         /\ \E i \in DOMAIN PostinstSteps(q) :
              Makes(PostinstSteps(q)[i], p) \/ PostinstSteps(q)[i].op = "refuse"
    /\ Preinsts["libc6"] # "none"

ASSUME PackagesAssumption == Archived /\ Linked /\ Scripted

------------------------------------------------------------------------------
(* Properties                                                                *)

(* One name has one diversion: diversion_add's comment on a second meaning   *)
(* for one pathname, whatever the order, the failures and the repetitions of *)
(* the commands that register them.                                          *)
DiversionsUnique == \A i, j \in DOMAIN divs : divs[i].from = divs[j].from => i = j

(* A registered package's symbolic link that its list names still leads      *)
(* where the package made it lead: no other package and no hand-over of the  *)
(* bootstrap shell has replaced it, unless a failed write lost the link or   *)
(* the list.                                                                 *)
ClaimsHold ==
    \A q \in Debs : \A i \in DOMAIN Payloads[q] :
        LET e == Payloads[q][i]
        IN  (regd[q] # "none" /\ e.type = "link" /\ e.path \in lists[q] /\ e.path \notin lost)
                => root[e.path] = LinkNode(e.v)

(* A package that counts as installed has had its scripts: what they see to  *)
(* is in the target, and the diversions that stand for libc6's preinst are   *)
(* on record, after any number of failed and repeated attempts.  The         *)
(* exceptions are what a failed write lost, and what is made from a recipe   *)
(* or a template that was lost: tmpfiles_apply takes an empty recipe for one *)
(* without entries, and pam_generate_one makes nothing of an empty template. *)
EffectsThere ==
    \A q \in Debs : (regd[q] = "installed" /\ <<"info", q>> \notin lost) =>
        /\ \A p \in Promised[q] : Exists(p) \/ ({p} \cup SourcesOf(p)) \cap lost # {}
        /\ q = "libc6" => /\ {LibcRecords[1], LibcRecords[2]} \subseteq ToSet(divs) \/ <<"diversions">> \in lost
                          /\ "libc-upgrade" \in fired

(* The three together.                                                       *)
ScriptsSound == DiversionsUnique /\ ClaimsHold /\ EffectsThere
=============================================================================
