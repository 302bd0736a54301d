-------------------------------- MODULE Vfs --------------------------------
(***************************************************************************)
(* The mounted namespace: path normalisation, the mount table, the path    *)
(* walk with symbolic links (src/vfs.c), and what the EXT2 and ISO 9660    *)
(* drivers (src/vfs_ext2.c, src/vfs_iso.c) do with the node it ends at.    *)
(*                                                                         *)
(* Abstractions.                                                           *)
(*  - A path is a sequence of components and a flag; its length limits     *)
(*    are left out.                                                        *)
(*  - A volume is a function from its paths to nodes: no command makes a   *)
(*    hard link.  How EXT2 stores the tree is module Ext2, how an ISO      *)
(*    image does is module Directories.                                    *)
(*  - Contents are sequences of blocks; a mode is public (0644, 0755) or   *)
(*    private (0640), and times are left out.  The driver's cache of the   *)
(*    directories made in this session always agrees with the volume: no   *)
(*    command removes a directory.  No command unmounts (vfs_umount has no *)
(*    caller).                                                             *)
(***************************************************************************)
EXTENDS Integers, Sequences, FiniteSets, SequencesExt

CONSTANTS
    Volumes,      \* attached partitions
    Kind,         \* volume -> "ext2" or "iso9660"
    Images,       \* what earlier sessions left on the volumes
    Sessions,     \* mount tables to start from
    SymlinkMax,   \* VFS_SYMLINK_MAX
    ReadLimit,    \* blocks that vfs_read reaches: twelve direct blocks
    OwnerMax,     \* 65535
    MaxMounts     \* VFS_MAX_MOUNTS

ASSUME KindAssumption == Kind \in [Volumes -> {"ext2", "iso9660"}]
ASSUME LimitAssumption == SymlinkMax \in Nat /\ ReadLimit \in Nat /\ MaxMounts \in Nat

VARIABLES
    tree,     \* volume -> path below its root -> node
    mounts,   \* g_mnt: mount points and volumes, in the order of the table
    cwd       \* g_cwd
vfsVars == <<tree, mounts, cwd>>

\* A path as it is typed, and the nodes the engine makes.
NoPath == [abs |-> FALSE, comps |-> << >>]
Dir == [type |-> "dir", data |-> << >>, target |-> NoPath, uid |-> 0, mode |-> "public"]
Reg(data) == [Dir EXCEPT !.type = "reg", !.data = data]
Lnk(target) == [Dir EXCEPT !.type = "lnk", !.target = target]
Dev == [Dir EXCEPT !.type = "dev"]

Put(t, v, r, node) ==
    [t EXCEPT ![v] = [k \in DOMAIN @ \union {r} |-> IF k = r THEN node ELSE @[k]]]
Drop(t, v, r) == [t EXCEPT ![v] = [k \in DOMAIN @ \ {r} |-> @[k]]]

VfsInit ==
    /\ tree \in Images
    /\ mounts \in Sessions
    /\ cwd = << >>

------------------------------------------------------------------------------
(* Paths                                                                     *)

Prefix(s, k) == SubSeq(s, 1, k)
Rest(s, k) == SubSeq(s, k + 1, Len(s))

\* vfs_normalize_path: "." and ".." are resolved in the text of the path.
Pushed(acc, c) ==
    CASE c = "." -> acc
      [] c = ".." -> IF acc = << >> THEN acc ELSE Front(acc)
      [] OTHER -> Append(acc, c)
Normalize(base, p) == FoldLeft(Pushed, << >>, IF p.abs THEN p.comps ELSE base \o p.comps)

\* vfs_find_mount_for: the longest mount point that is a prefix of the path.
Covers(m, path) == Len(m.mp) <= Len(path) /\ Prefix(path, Len(m.mp)) = m.mp
FindMount(path) ==
    LET hits == {i \in DOMAIN mounts : Covers(mounts[i], path)}
    IN  IF hits = {} THEN 0
        ELSE CHOOSE i \in hits : \A j \in hits : Len(mounts[j].mp) <= Len(mounts[i].mp)

------------------------------------------------------------------------------
(* The walk                                                                  *)

Error == [kind |-> "error"]
Found(v, r) == [kind |-> "found", vol |-> v, rel |-> r]
Missing(v, dir, leaf) == [kind |-> "missing", vol |-> v, dir |-> dir, leaf |-> leaf]
Restart(path) == [kind |-> "restart", path |-> path]

\* i_lookup at each component of rel, and where the loop leaves: nothing is found
\* (ext2_find_child_entry), or a symbolic link that has to be followed.
HasChild(t, v, rel) == rel \in DOMAIN t[v]
Stops(t, v, rel, follow) ==
    {k \in 1 .. Len(rel) :
        \/ ~HasChild(t, v, Prefix(rel, k))
        \/ t[v][Prefix(rel, k)].type = "lnk" /\ (k < Len(rel) \/ follow)}

\* vfs_path_append
PathAppend(dst, part) == dst \o part

\* Mutant: the target of a relative link is joined with the path inside the volume.
FollowedInVolume(mp, comp, target, ahead) ==
    Restart(Normalize(Front(comp), [target EXCEPT !.comps = PathAppend(@, ahead)]))

\* A link at comp: the walk starts again with a new text.
Followed(mp, comp, target, ahead) ==
    Restart(Normalize(PathAppend(mp, Front(comp)), [target EXCEPT !.comps = PathAppend(@, ahead)]))

\* A lookup that finds nothing ends the walk with success, at whatever component it
\* happens; the ISO driver makes it an error.
NotFound(v, comp) == IF Kind[v] = "iso9660" THEN Error ELSE Missing(v, Front(comp), Last(comp))

\* One round of vfs_resolve_path_ex, from the mount router to the next symbolic link.
LeaveAt(t, m, comp, ahead) ==
    IF HasChild(t, m.vol, comp) THEN Followed(m.mp, comp, t[m.vol][comp].target, ahead)
    ELSE NotFound(m.vol, comp)
FirstStop(t, m, rel, k) == LeaveAt(t, m, Prefix(rel, k), Rest(rel, k))
WalkIn(t, m, rel, stops) ==
    IF stops = {} THEN Found(m.vol, rel)
    ELSE FirstStop(t, m, rel, CHOOSE j \in stops : \A l \in stops : j <= l)
WalkFrom(t, m, rel, follow) == WalkIn(t, m, rel, Stops(t, m.vol, rel, follow))
Route(t, m, path, follow) == WalkFrom(t, m, Rest(path, Len(m.mp)), follow)
ExpandOn(t, i, path, follow) == IF i = 0 THEN Error ELSE Route(t, mounts[i], path, follow)
Expand(t, path, follow) == ExpandOn(t, FindMount(path), path, follow)

\* The loop of vfs_resolve_path_ex: at most SymlinkMax links are followed.
ResolveEx(t, p, follow) ==
    LET next(r) == IF r.kind = "restart" THEN Expand(t, r.path, follow) ELSE r
        end(r) == IF r.kind = "restart" THEN Error ELSE r
        round[n \in 0 .. SymlinkMax] ==
            next(IF n = 0 THEN Restart(Normalize(cwd, p)) ELSE round[n - 1])
    IN  end(round[SymlinkMax])

Resolve(t, p) == ResolveEx(t, p, TRUE)
ResolveNoFinal(t, p) == ResolveEx(t, p, FALSE)

Node(t, r) == t[r.vol][r.rel]
Is(t, r, types) == r.kind = "found" /\ Node(t, r).type \in types
IsDirectory(t, p) == Is(t, Resolve(t, p), {"dir"})

------------------------------------------------------------------------------
(* Operations on files.  An outcome is the tree, whether the call succeeded, *)
(* and how many more allocations the volume has room for.                    *)

Start(room) == [tree |-> tree, ok |-> TRUE, room |-> room]
Fail(o) == [o EXCEPT !.ok = FALSE]
Allocates(o, t) == [tree |-> t, ok |-> TRUE, room |-> o.room - 1]

\* vfs_open for reading and vfs_read to the end.  The EXT2 driver stops after the
\* direct blocks, as if the file ended there.
Readable(t, p) == Is(t, Resolve(t, p), {"reg", "dev"})
Reached(v, data) ==
    IF Kind[v] = "ext2" /\ Len(data) > ReadLimit THEN Prefix(data, ReadLimit) ELSE data
ReadFrom(t, r) == Reached(r.vol, Node(t, r).data)
ReadAll(t, p) == ReadFrom(t, Resolve(t, p))

\* What vfs_open does to a regular file when it is told to truncate it.
TruncatedAt(t, r) ==
    IF Is(t, r, {"reg"}) /\ Kind[r.vol] = "ext2" THEN [t EXCEPT ![r.vol][r.rel].data = << >>] ELSE t
Truncated(t, p) == TruncatedAt(t, Resolve(t, p))

\* Mutant: the result of the flush is not looked at.
FlushUnchecked(o, r, data) ==
    IF o.room > 0 THEN Allocates(o, [o.tree EXCEPT ![r.vol][r.rel].data = data])
    ELSE [o EXCEPT !.tree[r.vol][r.rel].data = << >>]

\* f_release of a file that exists: ext2_write_existing_at frees the old contents
\* first, so that a volume without room leaves the file empty.
Flush(o, r, data) ==
    IF o.room > 0 THEN Allocates(o, [o.tree EXCEPT ![r.vol][r.rel].data = data])
    ELSE Fail([o EXCEPT !.tree[r.vol][r.rel].data = << >>])

\* i_create and f_release of a file that does not: nothing is on the disk before
\* the file is closed, and only then does anyone ask whether the parent is a directory.
FlushNew(o, r, data) ==
    IF o.room > 0 /\ o.tree[r.vol][r.dir].type = "dir"
    THEN Allocates(o, Put(o.tree, r.vol, Append(r.dir, r.leaf), Reg(data))) ELSE Fail(o)

\* i_open of a file that is to be appended to reads all of it (ext2_read_file_at,
\* through the indirect blocks too).
Existing(t, r) == Node(t, r).data

\* vfs_open with O_CREAT and O_TRUNC or O_APPEND, vfs_write of all of the data,
\* vfs_close.  A file of an ISO volume can be opened but not written; a file that
\* nothing was written to is not flushed.
WriteOld(o, opened, r, data, append) ==
    CASE Node(o.tree, r).type = "dir" -> Fail(o)
      [] Node(o.tree, r).type # "dir" /\ data = << >> -> opened
      [] Node(o.tree, r).type # "dir" /\ data # << >> /\ Kind[r.vol] = "iso9660" -> Fail(opened)
      [] OTHER -> Flush(opened, r, IF append THEN Existing(o.tree, r) \o data ELSE data)
WriteTo(o, r, data, append) ==
    CASE r.kind = "error" -> Fail(o)
      [] r.kind = "missing" -> FlushNew(o, r, data)
      [] OTHER -> WriteOld(o, IF append THEN o ELSE [o EXCEPT !.tree = TruncatedAt(o.tree, r)],
                           r, data, append)
WriteAll(o, p, data, append) == WriteTo(o, Resolve(o.tree, p), data, append)

\* vfs_mkdir: ext2_mkdir_at is content with a directory that exists.
CanMake(o, r) == r.kind = "missing" /\ o.tree[r.vol][r.dir].type = "dir" /\ o.room > 0
Made(o, r, node) == Allocates(o, Put(o.tree, r.vol, Append(r.dir, r.leaf), node))
MkdirAt(o, r) ==
    CASE CanMake(o, r) -> Made(o, r, Dir)
      [] r.kind = "found" /\ r.rel # << >> /\ Kind[r.vol] = "ext2" ->
            [o EXCEPT !.ok = Node(o.tree, r).type = "dir"]
      [] OTHER -> Fail(o)
Mkdir(o, p) == MkdirAt(o, Resolve(o.tree, p))

\* mkdir_p: every prefix of the path that is not a directory yet.
MkdirP(o, p) ==
    LET made(o1, q) == IF ~o1.ok \/ IsDirectory(o1.tree, q) THEN o1 ELSE Mkdir(o1, q)
        one(o1, k) == made(o1, [p EXCEPT !.comps = Prefix(@, k)])
    IN  FoldLeft(one, o, [k \in DOMAIN p.comps |-> k])

\* vfs_mknod and vfs_symlink make a node where there is none.
MakeNode(o, r, node) == IF CanMake(o, r) THEN Made(o, r, node) ELSE Fail(o)
Mknod(o, p) == MakeNode(o, ResolveNoFinal(o.tree, p), Dev)
Symlink(o, target, p) == MakeNode(o, ResolveNoFinal(o.tree, p), Lnk(target))

\* vfs_unlink removes the link, never what it points to.
UnlinkAt(o, r) ==
    IF Is(o.tree, r, {"reg", "lnk", "dev"}) /\ Kind[r.vol] = "ext2"
    THEN [o EXCEPT !.tree = Drop(o.tree, r.vol, r.rel)] ELSE Fail(o)
Unlink(o, p) == UnlinkAt(o, ResolveNoFinal(o.tree, p))

\* i_setattr, of the mode (ext2_write_mode_disk) or the owner (ext2_write_owner_disk);
\* identifiers are sixteen bits wide on the disk.
WriteMode(t, r, mode) == [t EXCEPT ![r.vol][r.rel].mode = mode]
WriteOwner(t, r, uid) == [t EXCEPT ![r.vol][r.rel].uid = uid]
SetAttr(o, r, fits, written) ==
    IF r.kind = "found" /\ Kind[r.vol] = "ext2" /\ fits THEN [o EXCEPT !.tree = written] ELSE Fail(o)
ModeAt(o, r, mode) == SetAttr(o, r, TRUE, WriteMode(o.tree, r, mode))
OwnerAt(o, r, uid) == SetAttr(o, r, uid <= OwnerMax, WriteOwner(o.tree, r, uid))
Chmod(o, p, mode) == ModeAt(o, Resolve(o.tree, p), mode)
Chown(o, p, uid) == OwnerAt(o, Resolve(o.tree, p), uid)

------------------------------------------------------------------------------
(* The mount table                                                           *)

\* vfs_mount_dev: nothing keeps a volume from being mounted twice.
Mount(v, mp) ==
    /\ Len(mounts) < MaxMounts
    /\ \A i \in DOMAIN mounts : mounts[i].mp # mp
    /\ mounts' = Append(mounts, [mp |-> mp, vol |-> v])
    /\ UNCHANGED <<tree, cwd>>

------------------------------------------------------------------------------
(* A walk that goes on from where it is, as a reference                      *)

\* The text of a link without the dots inside it: a ".." takes away the name in
\* front of it, be that a directory or a link, and only the ones at the front,
\* which lead up from the directory of the link, are left.
Reduced(comps) ==
    LET push(acc, c) ==
            CASE c = "." -> acc
              [] c = ".." /\ acc # << >> /\ Last(acc) # ".." -> Front(acc)
              [] OTHER -> Append(acc, c)
    IN  FoldLeft(push, << >>, comps)

\* One component: real is the path walked so far, without links; todo is ahead.
Advance(t, w, follow) ==
    LET c == Head(w.todo)
        ahead == Tail(w.todo)
        next == Append(w.real, c)
        m == mounts[FindMount(next)]
        rel == Rest(next, Len(m.mp))
        node == t[m.vol][rel]
    IN  CASE c = ".." -> [w EXCEPT !.todo = ahead, !.real = IF @ = << >> THEN @ ELSE Front(@)]
          [] OTHER ->
             IF FindMount(next) = 0 THEN [w EXCEPT !.end = "error"]
             ELSE IF rel \notin DOMAIN t[m.vol]
                  THEN [w EXCEPT !.real = next, !.todo = ahead,
                                 !.end = IF ahead = << >> THEN "missing" ELSE "error"]
             ELSE IF node.type = "lnk" /\ (ahead # << >> \/ follow)
                  THEN IF w.links = SymlinkMax THEN [w EXCEPT !.end = "error"]
                       ELSE [w EXCEPT !.links = @ + 1, !.todo = Reduced(node.target.comps) \o ahead,
                                      !.real = IF node.target.abs THEN << >> ELSE @]
             ELSE [w EXCEPT !.real = next, !.todo = ahead]

\* steps bounds the number of components a walk can meet.
Walk(t, p, follow, steps) ==
    LET at[n \in 0 .. steps] ==
            LET w == at[n - 1]
            IN  IF n = 0
                THEN [real |-> << >>, todo |-> Normalize(cwd, p), links |-> 0, end |-> "none"]
                ELSE IF w.end # "none" \/ w.todo = << >> THEN w ELSE Advance(t, w, follow)
        last == at[steps]
        m == mounts[FindMount(last.real)]
        rel == Rest(last.real, Len(m.mp))
    IN  CASE last.end = "error" \/ FindMount(last.real) = 0 \/ last.todo # << >> -> Error
          [] last.end = "missing" /\ last.todo = << >> -> IF Kind[m.vol] = "iso9660" THEN Error
                                     ELSE Missing(m.vol, Front(rel), Last(rel))
          [] OTHER -> Found(m.vol, rel)
==============================================================================
