------------------------------- MODULE Files -------------------------------
(***************************************************************************)
(* The commands that work on the mounted namespace: cp, lcp, lget, cat,    *)
(* echo, mkdir, rm, ln, readlink, mknod, chmod, cd and mount.  A command   *)
(* runs to its end before the next one starts, and may meet a volume that  *)
(* runs out of room (or an I/O error) at any of its allocations.           *)
(***************************************************************************)
EXTENDS Vfs

CONSTANTS
    Paths,        \* paths a command is given
    MountPoints,  \* paths mount is given
    Targets,      \* what ln -s is told to point to
    HostFiles,    \* files of the host, by name
    Texts,        \* what echo and the host files can hold
    Plenty,       \* room for every command
    Shortages,    \* smaller amounts of room a command may find
    MaxCommands,  \* bound: commands in a behaviour
    MaxFaults,    \* bound: commands that run out of room or are interrupted
    Steps         \* bound: components a path can expand to

ASSUME BoundAssumption == Shortages \union {Plenty, MaxCommands, MaxFaults, Steps} \subseteq Nat

VARIABLES
    host,     \* host file -> contents
    prev,     \* cmd_cd's previous directory
    left,     \* commands still allowed
    faults,   \* faults still allowed
    last      \* the last command: what it wrote to, what it was to write, how many
              \* blocks of that it can take, how it ended
filesVars == <<tree, mounts, cwd, host, prev, left, faults, last>>

NoData == << "none" >>
Quiet == [ok |-> TRUE, path |-> NoPath, follow |-> TRUE, want |-> NoData, reach |-> 0]

FilesInit ==
    /\ VfsInit
    /\ host \in [HostFiles -> Texts \ {<< >>}]
    /\ prev = << >>
    /\ left = MaxCommands
    /\ faults = MaxFaults
    /\ last = Quiet

Rooms == {Plenty} \union IF faults > 0 THEN Shortages ELSE {}
Spend(fault) ==
    /\ left > 0
    /\ left' = left - 1
    /\ faults' = IF fault THEN faults - 1 ELSE faults

\* A command that leaves the namespace as outcome o has it.  path is what it
\* named, want what the node there was to hold.
EndsWith(o, room, path, follow, want, reach) ==
    /\ Spend(room < Plenty)
    /\ tree' = o.tree
    /\ last' = [ok |-> o.ok, path |-> path, follow |-> follow, want |-> want, reach |-> reach]
    /\ UNCHANGED <<mounts, cwd, prev>>
Ends(o, room, path, follow, want) == EndsWith(o, room, path, follow, want, Len(want))

\* join_dir_file: an existing directory as destination means a file in it.
FinalDst(t, dst, name) ==
    IF IsDirectory(t, dst) THEN [dst EXCEPT !.comps = Append(@, name)] ELSE dst

------------------------------------------------------------------------------
(* Copying                                                                   *)

\* cmd_cp.  The destination is opened, and truncated, before the first read: a
\* copy of a file onto itself empties it.
Copies(src, final) ==
    \E room \in Rooms :
        EndsWith(WriteAll(Start(room), final, ReadAll(Truncated(tree, final), src), FALSE),
                 room, final, TRUE,
                 IF Resolve(tree, src) = Resolve(tree, final) THEN NoData
                 ELSE Node(tree, Resolve(tree, src)).data,
                 Len(ReadAll(tree, src)))
Cp(src, dst) ==
    /\ src.comps # << >>
    /\ Readable(tree, src)
    /\ Copies(src, FinalDst(tree, dst, Last(src.comps)))
    /\ UNCHANGED host

\* cmd_lcp
Lcp(name, dst) ==
    /\ \E room \in Rooms, final \in {FinalDst(tree, dst, name)} :
          Ends(WriteAll(Start(room), final, host[name], FALSE), room, final, TRUE, host[name])
    /\ UNCHANGED host

\* cmd_lget: any failure removes the host file, one to open the source included.
Lget(src, name) ==
    /\ Spend(FALSE)
    /\ host' = IF Readable(tree, src)
               THEN [k \in DOMAIN host \union {name} |->
                        IF k = name THEN ReadAll(tree, src) ELSE host[k]]
               ELSE [k \in DOMAIN host \ {name} |-> host[k]]
    /\ last' = Quiet
    /\ UNCHANGED vfsVars /\ UNCHANGED prev

\* cmd_cat
Cat(t, p) == IF Readable(t, p) THEN ReadAll(t, p) ELSE NoData

------------------------------------------------------------------------------
(* Writing and making nodes                                                  *)

\* cmd_echo: write_entire_file makes the parents it needs.
WithParents(o, p) ==
    IF Len(p.comps) < 2 THEN o ELSE MkdirP(o, [p EXCEPT !.comps = Front(@)])
Written(o, p, text, append) == IF o.ok THEN WriteAll(o, p, text, append) ELSE o
Echo(text, append, p) ==
    /\ p.comps # << >>
    /\ \E room \in Rooms :
          Ends(Written(WithParents(Start(room), p), p, text, append), room, p, TRUE,
               IF append /\ Readable(tree, p) THEN Existing(tree, Resolve(tree, p)) \o text ELSE text)
    /\ UNCHANGED host

\* cmd_mkdir, without and with -p
MakeDir(p) ==
    /\ \E room \in Rooms : Ends(Mkdir(Start(room), p), room, p, TRUE, NoData)
    /\ UNCHANGED host
MakeDirs(p) ==
    /\ \E room \in Rooms :
          Ends(MkdirP(Start(room), p), room, IF Len(p.comps) < 2 THEN p ELSE NoPath, TRUE, NoData)
    /\ UNCHANGED host

\* cmd_rm looks at what a link points to before it removes the link, so that a
\* dangling link cannot be removed.
Rm(p) ==
    /\ Is(tree, Resolve(tree, p), {"reg", "dev"})
    /\ Ends(Unlink(Start(Plenty), p), Plenty, p, FALSE, NoData)
    /\ UNCHANGED host

\* cmd_ln, cmd_mknod, cmd_chmod
Ln(target, p) ==
    /\ \E room \in Rooms : Ends(Symlink(Start(room), target, p), room, p, FALSE, NoData)
    /\ UNCHANGED host
MakeDevice(p) ==
    /\ \E room \in Rooms : Ends(Mknod(Start(room), p), room, p, FALSE, NoData)
    /\ UNCHANGED host
ChangeMode(mode, p) ==
    /\ Ends(Chmod(Start(Plenty), p, mode), Plenty, p, TRUE, NoData)
    /\ UNCHANGED host

------------------------------------------------------------------------------
(* The session                                                               *)

\* cmd_cd, with "-" as NoPath
ChangeDir(p) ==
    LET to == IF p = NoPath THEN prev ELSE Normalize(cwd, p)
    IN  /\ Spend(FALSE)
        /\ IsDirectory(tree, [abs |-> TRUE, comps |-> to])
        /\ cwd' = to
        /\ prev' = cwd
        /\ last' = Quiet
        /\ UNCHANGED <<tree, mounts, host>>

\* cmd_mount
MountAt(v, p) ==
    /\ Spend(FALSE)
    /\ Mount(v, Normalize(cwd, p))
    /\ last' = Quiet
    /\ UNCHANGED <<host, prev>>

FilesNext ==
    \/ \E p, q \in Paths : Cp(p, q)
    \/ \E f \in HostFiles, p \in Paths : f \in DOMAIN host /\ Lcp(f, p)
    \/ \E f \in HostFiles, p \in Paths : Lget(p, f)
    \/ \E x \in Texts, p \in Paths, append \in BOOLEAN : Echo(x, append, p)
    \/ \E p \in Paths : MakeDir(p)
    \/ \E p \in Paths : MakeDirs(p)
    \/ \E p \in Paths : Rm(p)
    \/ \E g \in Targets, p \in Paths : Ln(g, p)
    \/ \E p \in Paths : MakeDevice(p)
    \/ \E p \in Paths, mode \in {"public", "private"} : ChangeMode(mode, p)
    \/ \E p \in Paths \union {NoPath} : ChangeDir(p)
    \/ \E v \in Volumes, p \in MountPoints : MountAt(v, p)

------------------------------------------------------------------------------
(* Properties                                                                *)

\* What the walk of vfs_resolve_path_ex, which restarts from the root with a new
\* text at every link, arrives at is what a walk that goes on from where it is
\* arrives at, whenever that one reaches a node or the place of a missing one:
\* through relative and absolute links, over mount points, from any directory.
\* In both a ".." inside the text of a path or of a link takes away the name in
\* front of it, even if that is a link (vfs_normalize_path); one that a link
\* begins with leads up from the directory the link is in.
ResolveAgrees ==
    \A p \in Paths, follow \in BOOLEAN :
        LET w == Walk(tree, p, follow, Steps)
        IN  w.kind # "error" => ResolveEx(tree, p, follow) = w

Site(w) == IF w.kind = "found" THEN <<w.vol, w.rel>> ELSE <<w.vol, Append(w.dir, w.leaf)>>
Changed(v, r) ==
    \/ r \in DOMAIN tree[v] /\ r \notin DOMAIN tree'[v]
    \/ r \notin DOMAIN tree[v] /\ r \in DOMAIN tree'[v]
    \/ r \in DOMAIN tree[v] /\ r \in DOMAIN tree'[v] /\ tree[v][r] # tree'[v][r]

\* A command changes no node but the one its path leads to, whatever links and
\* mount points are on the way and wherever it fails; and when it says that it
\* wrote a file, the file holds what was to be written, of which cat shows as
\* much as vfs_read reaches.  The copy of a file on an EXT2 volume is its
\* beginning, as far as vfs_read reaches, and cp reports success all the same.
\* (Only for paths that lead to a node or to a name in a directory: at a
\* component that is missing earlier the walk stops and reports success.  And
\* not for the contents of a file on an ISO volume, which opens for writing.)
WritesLand ==
    [][ LET w == Walk(tree, last'.path, last'.follow, Steps)
        IN  left' < left /\ last'.path # NoPath /\ w.kind # "error" =>
              /\ \A v \in Volumes : \A r \in DOMAIN tree[v] \union DOMAIN tree'[v] :
                    Changed(v, r) => <<v, r>> = Site(w)
              /\ last'.ok /\ last'.want # NoData /\ Kind[w.vol] = "ext2" =>
                    LET written == Prefix(last'.want, last'.reach)
                    IN  /\ tree'[w.vol][Site(w)[2]].data = written
                        /\ Cat(tree', last'.path) = Reached(w.vol, written) ]_filesVars
============================================================================
