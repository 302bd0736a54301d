------------------------------- MODULE Archives -------------------------------
(***************************************************************************)
(* Writing archives on the host: dpkg-deb, tar, ar and xz                  *)
(* (src/cmd_archive.c, src/deb_build.c, src/tar_write.c, src/ar_write.c),  *)
(* and reading a package back (src/deb.c, src/tar.c).                      *)
(*                                                                         *)
(* Abstractions.                                                           *)
(*  - A file is a sequence of cells.  An archive header is one cell, a TAR *)
(*    record of data is BlockSize cells.  What the XZ encoder makes of a   *)
(*    file is one cell that stands for it and a tail of any length.        *)
(*  - A path is a sequence of components; their lengths are NameLength.    *)
(*  - A write to the host may fail.  readdir gives the names in any order. *)
(***************************************************************************)
EXTENDS Integers, Sequences, SequencesExt, FiniteSetsExt

CONSTANTS
    Hosts,       \* host file systems to start from
    Commands,    \* command lines to choose from
    NameLength,  \* length of each component
    Backslashed, \* components with a backslash
    DotEnded,    \* components that end in two dots
    Blanked,     \* components with a blank or a line feed
    NameWidth,   \* 100
    PrefixWidth, \* 155
    NameBuffer,  \* 255, the room of gu_tar_write_dir
    ArWidth,     \* 15
    BlockSize,   \* TAR_BLOCK_SIZE
    XzTails      \* lengths of an encoded file, without its first cell

ASSUME TarSizes == {NameWidth, PrefixWidth, NameBuffer, ArWidth} \subseteq Nat /\ BlockSize \in Nat \ {0}

VARIABLES
    host,    \* path -> file or directory
    before,  \* host when the command was given
    job      \* the command under way: its phase, temporary files and walk
archVars == <<host, before, job>>

HostFile(cells) == [kind |-> "file", cells |-> cells]
NoJob == [cmd |-> "none", out |-> << >>, in |-> << >>, xz |-> FALSE, phase |-> "idle",
          stack |-> << >>, tars |-> << >>, nth |-> 1, opened |-> FALSE, ok |-> FALSE]

ArchivesInit ==
    /\ host \in Hosts
    /\ before = host
    /\ job = NoJob

------------------------------------------------------------------------------
(* ustar                                                                     *)

Sum(lengths) == FoldLeft(LAMBDA a, b : a + b, 0, lengths)
PathLen(p) == Sum([i \in DOMAIN p |-> NameLength[p[i]]]) + (IF p = << >> THEN 0 ELSE Len(p) - 1)

\* name_fields refuses what a reader might take for a path out of the archive: a
\* backslash, and two dots in front of a slash, also at the end of a longer name.
NameRefused(p, slash) ==
    \E i \in DOMAIN p : p[i] \in Backslashed \/ (p[i] \in DotEnded /\ (i < Len(p) \/ slash))

\* The rest of it: the last slash where both sides fit.  The slash at the end of a
\* directory is one of them.
NoFields == [name |-> << >>, prefix |-> << >>, fits |-> FALSE]
NameFields(p, slash) ==
    LET length == PathLen(p) + (IF slash THEN 1 ELSE 0)
        Left(i) == PathLen(SubSeq(p, 1, i))
        splits == {i \in 1 .. Len(p) : /\ i < Len(p) \/ slash
                                       /\ Left(i) <= PrefixWidth
                                       /\ length - Left(i) - 1 <= NameWidth}
    IN  CASE NameRefused(p, slash) -> NoFields
          [] ~NameRefused(p, slash) /\ length <= NameWidth -> [name |-> p, prefix |-> << >>, fits |-> TRUE]
          [] length > NameWidth /\ (splits = {} \/ Len(p) \in splits) -> NoFields
          [] OTHER -> [name |-> SubSeq(p, Max(splits) + 1, Len(p)),
                       prefix |-> SubSeq(p, 1, Max(splits)), fits |-> TRUE]

\* header
Header(p, slash, size, mode, type) ==
    [at |-> "header", fields |-> NameFields(p, slash), size |-> size, mode |-> mode, type |-> type]

\* gu_tar_write_file: padded to a record.
Padding(n) == (BlockSize - (n % BlockSize)) % BlockSize
ZeroCell == [at |-> "zero"]
FileRecords(p, cells, mode) ==
    <<Header(p, FALSE, Len(cells), mode, "0")>> \o cells
        \o [i \in 1 .. Padding(Len(cells)) |-> ZeroCell]

\* gu_tar_write_dir and gu_tar_write_end
DirFits(p) == PathLen(p) < NameBuffer
DirRecords(p) == <<Header(p, TRUE, 0, 755, "5")>>
EndRecords == <<ZeroCell, ZeroCell>>

\* gu_tar_walk: the entries, or an empty sequence of answers and a failure.
RECURSIVE TarFrom(_, _, _)
TarFrom(cells, pos, found) ==
    LET h == cells[pos + 1]
        room == Len(cells) - pos - 1
    IN  CASE pos >= Len(cells) -> [ok |-> TRUE, found |-> found]
          [] pos < Len(cells) /\ h.at = "zero" -> [ok |-> TRUE, found |-> found]
          [] pos < Len(cells) /\ h.at # "zero" /\ h.size + Padding(h.size) > room ->
                [ok |-> FALSE, found |-> found]
          [] OTHER -> TarFrom(cells, pos + 1 + h.size + Padding(h.size),
                Append(found, [path |-> h.fields.prefix \o h.fields.name, mode |-> h.mode, type |-> h.type,
                               cells |-> SubSeq(cells, pos + 2, pos + 1 + h.size)]))
TarWalk(cells) == TarFrom(cells, 0, << >>)

------------------------------------------------------------------------------
(* ar                                                                        *)

ArMagic == <<[at |-> "arch"]>>
ArHeader(name, size) == [at |-> "member", name |-> name, size |-> size]


\* gu_ar_write_member
Member(name, cells) ==
    <<ArHeader(name, Len(cells))>> \o cells
        \o (IF Len(cells) % 2 = 1 THEN <<[at |-> "newline"]>> ELSE << >>)

\* deb_open_fp: members one after the other; a member that is cut off is not noticed here.
NoPackage == [ok |-> FALSE, members |-> << >>]
RECURSIVE ArFrom(_, _, _)
ArFrom(cells, pos, members) ==
    LET h == cells[pos + 1]
    IN  CASE pos >= Len(cells) -> [ok |-> TRUE, members |-> members]
          [] pos < Len(cells) /\ h.at # "member" -> NoPackage
          [] OTHER -> ArFrom(cells, pos + 1 + h.size + (h.size % 2),
                             Append(members, [name |-> h.name, cells |-> SubSeq(cells, pos + 2, pos + 1 + h.size)]))
DebOpen(cells) ==
    LET p == ArFrom(cells, 1, << >>)
        Named(n) == \E i \in DOMAIN p.members : p.members[i].name = n
    IN  IF cells = << >> \/ cells[1].at # "arch" THEN NoPackage
        ELSE [p EXCEPT !.ok = @ /\ Named("debian-binary") /\ Named("control.tar") /\ Named("data.tar")]
MemberOf(p, name) == p.members[CHOOSE i \in DOMAIN p.members : p.members[i].name = name].cells

\* gu_xz_encode_file, and what the decoder makes of it.
Encoded(cells, tail) == <<[at |-> "xz", of |-> cells]>> \o [i \in 1 .. tail |-> [at |-> "tail"]]
Decoded(cells) == IF cells # << >> /\ cells[1].at = "xz" THEN cells[1].of ELSE cells

------------------------------------------------------------------------------
(* The walk over a directory                                                 *)

IsHost(p, kind) == p \in DOMAIN host /\ host[p].kind = kind
Children(p) == {Last(q) : q \in {r \in DOMAIN host : Len(r) = Len(p) + 1 /\ Front(r) = p}}

\* opendir of pack_tree, at the top without DEBIAN when data is packed.
Frame(root, rel) ==
    [rel |-> rel,
     left |-> IF rel = << >> /\ job.phase = "data" THEN Children(root) \ {"DEBIAN"} ELSE Children(root \o rel)]
WalkRoot == IF job.phase = "control" THEN Append(Head(job.in), "DEBIAN") ELSE Head(job.in)

\* The TAR stream that is written: a temporary file, or the output of tar.
WriteStream(cells, rest) ==
    IF job.cmd = "tar"
    THEN host' = [host EXCEPT ![job.out].cells = @ \o cells] /\ job' = rest
    ELSE host' = host /\ job' = [rest EXCEPT !.tars[Len(job.tars)] = @ \o cells]

Packing == job.phase \in {"control", "data", "tar"} /\ job.stack # << >>
Top == Last(job.stack)
Entered(name) == [job EXCEPT !.stack[Len(job.stack)].left = @ \ {name}]
Mode(p) == IF job.phase = "data" /\ (p[1] = "bin" \/ (p[1] = "usr" /\ Len(p) > 1 /\ p[2] = "bin")) /\ Len(p) > 1
           THEN 755 ELSE 644

Failing(j) == [j EXCEPT !.phase = "failing"]

\* How much of a file can be read: its size is taken when it is opened, and of an
\* archive that is being written any part may have reached the disk.
OnDisk(f) == IF f = job.out /\ job.opened THEN 0 .. Len(host[f].cells) ELSE {Len(host[f].cells)}

\* One name of pack_tree that is a file.
PackFile(name) ==
    LET p == Append(Top.rel, name)
        f == WalkRoot \o p
    IN  /\ Packing /\ name \in Top.left /\ IsHost(f, "file")
        /\ \E n \in OnDisk(f) :
             IF NameFields(p, FALSE).fits
             THEN WriteStream(FileRecords(p, SubSeq(host[f].cells, 1, n), Mode(p)), Entered(name))
             ELSE job' = Failing(job) /\ host' = host
        /\ UNCHANGED before
PackDir(name) ==
    LET p == Append(Top.rel, name)
    IN  /\ Packing /\ name \in Top.left /\ IsHost(WalkRoot \o p, "dir")
        /\ IF DirFits(p) /\ NameFields(p, TRUE).fits
           THEN WriteStream(DirRecords(p), [Entered(name) EXCEPT !.stack = Append(@, Frame(WalkRoot, p))])
           ELSE job' = Failing(job) /\ host' = host
        /\ UNCHANGED before
PackSpecial(name) ==
    /\ Packing /\ name \in Top.left /\ IsHost(WalkRoot \o Append(Top.rel, name), "special")
    /\ job' = Failing(job)
    /\ UNCHANGED <<host, before>>

\* The end of a directory; the end of the walk writes the end of the archive.
LeaveDirectory ==
    /\ Packing /\ Top.left = {} /\ Len(job.stack) > 1
    /\ job' = [job EXCEPT !.stack = Front(@)]
    /\ UNCHANGED <<host, before>>
EndWalk ==
    LET next == CASE job.phase = "control" -> "data" [] job.phase = "data" -> "compress" [] OTHER -> "close"
    IN  /\ Packing /\ Top.left = {} /\ Len(job.stack) = 1
        /\ WriteStream(EndRecords, [job EXCEPT !.stack = << >>, !.phase = next])
        /\ UNCHANGED before

\* pack_tree is entered.
BeginWalk ==
    /\ job.phase \in {"control", "data", "tar"} /\ job.stack = << >>
    /\ job' = IF IsHost(WalkRoot, "dir")
              THEN [job EXCEPT !.stack = <<Frame(WalkRoot, << >>)>>,
                               !.tars = IF job.cmd = "tar" THEN @ ELSE Append(@, << >>)]
              ELSE Failing(job)
    /\ UNCHANGED <<host, before>>

------------------------------------------------------------------------------
(* The commands                                                              *)

\* A command line.  dpkg-deb looks at DEBIAN/control before anything else; the
\* others open their output first, xz its input before it.
Given(c) ==
    LET j == [NoJob EXCEPT !.cmd = c.cmd, !.in = c.in, !.out = c.out, !.xz = c.xz]
        control == Head(c.in) \o <<"DEBIAN", "control">>
    IN  /\ job = NoJob
        /\ before' = host
        /\ job' = CASE c.cmd = "deb" ->
                          IF IsHost(control, "file") /\ host[control].cells # << >>
                          THEN [j EXCEPT !.phase = "control"] ELSE [j EXCEPT !.phase = "ended"]
                    [] c.cmd = "xz" -> [j EXCEPT !.phase = IF IsHost(Head(c.in), "file") THEN "open" ELSE "ended"]
                    [] OTHER -> [j EXCEPT !.phase = "open"]
        /\ UNCHANGED host

\* The XZ step of gu_deb_build_ex.
Compress ==
    /\ job.phase = "compress"
    /\ \E t \in [1 .. 2 -> XzTails] :
          job' = [job EXCEPT !.phase = "open",
                             !.tars = IF job.xz THEN [i \in 1 .. 2 |-> Encoded(@[i], t[i])] ELSE @]
    /\ UNCHANGED <<host, before>>

\* fopen(output, "wb"): what was there is gone.
OpenOutput ==
    LET next == CASE job.cmd = "tar" -> "tar" [] job.cmd = "xz" -> "encode" [] OTHER -> "members"
    IN  /\ job.phase = "open"
        /\ IF IsHost(Front(job.out), "dir") /\ ~IsHost(job.out, "dir")
           THEN /\ host' = [p \in DOMAIN host \union {job.out} |->
                              IF p = job.out THEN HostFile(IF job.cmd \in {"deb", "ar"} THEN ArMagic ELSE << >>)
                              ELSE host[p]]
                /\ job' = [job EXCEPT !.phase = next, !.opened = TRUE]
           ELSE host' = host /\ job' = [job EXCEPT !.phase = "ended"]
        /\ UNCHANGED before

\* gu_ar_write_member, one after the other.
DebMembers == <<[name |-> "debian-binary", cells |-> <<[at |-> "2.0"], [at |-> "newline"]>>],
                [name |-> "control.tar", cells |-> job.tars[1]], [name |-> "data.tar", cells |-> job.tars[2]]>>
WriteMembers ==
    LET bytes == FoldLeft(LAMBDA a, e : a \o Member(e.name, e.cells), << >>, DebMembers)
    IN  /\ job.phase = "members" /\ job.cmd = "deb"
        /\ host' = [host EXCEPT ![job.out].cells = @ \o bytes]
        /\ job' = [job EXCEPT !.phase = "close"]
        /\ UNCHANGED before

\* cmd_ar's loop: in is a sequence of files; a name that does not fit ends it.
ArNameFits(name) == NameLength[name] <= ArWidth /\ name \notin Blanked
ArAppend ==
    LET f == job.in[job.nth]
    IN  /\ job.phase = "members" /\ job.cmd = "ar" /\ job.nth <= Len(job.in)
        /\ IF IsHost(f, "file") /\ ArNameFits(Last(f))
           THEN /\ \E n \in OnDisk(f) :
                     host' = [host EXCEPT ![job.out].cells = @ \o Member(Last(f), SubSeq(host[f].cells, 1, n))]
                /\ job' = [job EXCEPT !.nth = @ + 1]
           ELSE host' = host /\ job' = Failing(job)
        /\ UNCHANGED before
ArEnd ==
    /\ job.phase = "members" /\ job.cmd = "ar" /\ job.nth > Len(job.in)
    /\ job' = [job EXCEPT !.phase = "close"]
    /\ UNCHANGED <<host, before>>

\* cmd_xz
EncodeFile ==
    /\ job.phase = "encode"
    /\ \E t \in XzTails : host' = [host EXCEPT ![job.out].cells = Encoded(host[Head(job.in)].cells, t)]
    /\ job' = [job EXCEPT !.phase = "close"]
    /\ UNCHANGED before

\* A write, or fclose, fails.
WriteFailure ==
    /\ job.phase \in {"control", "data", "tar", "compress", "members", "encode", "close"}
    /\ job' = Failing(job)
    /\ UNCHANGED <<host, before>>

CloseOutput ==
    /\ job.phase = "close"
    /\ job' = [job EXCEPT !.phase = "ended", !.ok = TRUE]
    /\ UNCHANGED <<host, before>>

\* remove(output), if it was opened.
RemoveOutput ==
    /\ job.phase = "failing"
    /\ host' = IF job.opened THEN [p \in DOMAIN host \ {job.out} |-> host[p]] ELSE host
    /\ job' = [job EXCEPT !.phase = "ended"]
    /\ UNCHANGED before

ArchivesNext ==
    \/ \E c \in Commands : Given(c)
    \/ BeginWalk
    \/ Packing /\ \E name \in Top.left : PackFile(name) \/ PackDir(name) \/ PackSpecial(name)
    \/ LeaveDirectory \/ EndWalk
    \/ Compress \/ OpenOutput \/ WriteMembers \/ ArAppend \/ ArEnd \/ EncodeFile
    \/ CloseOutput \/ WriteFailure \/ RemoveOutput

------------------------------------------------------------------------------
(* Properties                                                                *)

\* What a walk of the tree below p has to put into an archive.
Below(p, without) ==
    {[path |-> SubSeq(q, Len(p) + 1, Len(q)), dir |-> before[q].kind = "dir",
      cells |-> IF before[q].kind = "dir" THEN << >> ELSE before[q].cells] :
        q \in {r \in DOMAIN before : Len(r) > Len(p) /\ IsPrefix(p, r) /\ r[Len(p) + 1] \notin without}}
Walked(cells) ==
    LET w == TarWalk(Decoded(cells))
    IN  {[path |-> e.path, dir |-> e.type = "5", cells |-> e.cells] : e \in ToSet(w.found)}
Exactly(cells, entriesOf) ==
    /\ TarWalk(Decoded(cells)).ok
    /\ Walked(cells) = entriesOf
    /\ Len(TarWalk(Decoded(cells)).found) = Cardinality(entriesOf)
NotOutput(es) == {e \in es : Head(job.in) \o e.path # job.out}

==============================================================================
