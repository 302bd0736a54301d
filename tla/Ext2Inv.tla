----------------------------- MODULE Ext2Inv -----------------------------
(***************************************************************************)
(* The inductive invariants behind the properties of Ext2: IInv for        *)
(* ClaimedMarked, SingleOwner, RecordsSound and UniqueNames, CountInv for  *)
(* CountersExact and OnlyFailuresLeak, LinkInv for LinkCountsExact.        *)
(*                                                                         *)
(* Linked depends on the contents of the directory blocks and on who owns  *)
(* them, and a running handler holds blocks and an inode that nothing on   *)
(* disk shows yet.  The invariant says who owns what at every step: the    *)
(* linked inodes, every directory inode (one that mkdir did not get to     *)
(* link keeps its block for ever) and the inode the handler is working on. *)
(***************************************************************************)
EXTENDS Ext2

\* What the invariant needs of the callers and of the environment: i_block[] of a
\* device node or a symlink never reads as the number of a block of the image,
\* only regular files are overwritten, and no crash falls into truncate or
\* write_existing, which give blocks back before the inode forgets them.
Harmless ==
    /\ NodeNumbers \intersect Blocks \subseteq {0}
    /\ RewriteModes \subseteq {"reg"}
    /\ CrashOps \intersect {"truncate", "rewrite"} = {}

\* What TypeOK needs to be inductive: the blocks of files and directories, and
\* those a handler took, are blocks of the image.
BlocksTyped ==
    /\ \A i \in Inodes : itab[i].mode \in {"reg", "dir"} => Elems(itab[i].blks) \subseteq Blocks
    /\ op.kind \notin {"mknod", "symlink"} => Elems(op.blks) \subseteq Blocks

Removing == {"unlink", "truncate", "rewrite"}
Making == {"create", "mkdir", "mknod", "symlink"}

\* The pcs a handler can be at.
OpPath ==
    /\ op.kind = "none" <=> op.pc = "idle"
    /\ op.pc \in {"alloc_inode", "inode_meta", "append", "grow_meta", "grow_block",
                  "grow_inode"} => op.kind \in Making
    /\ op.pc \in {"alloc_block", "block_meta", "write_dirblk", "link_parent", "dirs_meta"}
          => op.kind = "mkdir"
    /\ op.pc \in {"alloc_data", "alloc_commit"} => op.kind \in {"create", "rewrite"}
    /\ op.pc = "write_inode" => op.kind \in Making \union {"rewrite"}
    /\ op.pc = "remove" => op.kind = "unlink"
    /\ op.pc \in {"release", "free_commit", "clear_inode"} => op.kind \in Removing
    /\ op.pc \in {"free_inode", "free_meta"} => op.kind \in {"unlink", "mknod"}
    /\ op.pc \notin {"alloc_commit", "free_commit"} => op.dirty = {}

TypeInv == TypeOK /\ BlocksTyped /\ OpPath

------------------------------------------------------------------------------
(* Who owns blocks                                                           *)

\* The inode of the handler, while it has claims and no record leads to it.
Active ==
    IF \/ op.kind = "unlink" /\ op.pc \in {"release", "free_commit", "clear_inode"}
       \/ op.kind = "create" /\ op.pc \in {"append", "grow_meta", "grow_block", "grow_inode"}
    THEN {op.ino} ELSE {}

Owners == Linked \union DirInodes \union Active

\* The inode whose blocks are being given back: some of its bits are cleared.
BeingFreed ==
    IF op.kind \in Removing /\ op.pc \in {"free_commit", "clear_inode"} THEN {op.ino} ELSE {}

HasBlocks(i) == itab[i].mode \in {"reg", "dir"}
MetaMarked == MetaBlocks \subseteq bbm
OwnersClean == \A i \in Owners : Claims(i) \intersect MetaBlocks = {}
OwnersMarked == \A i \in Owners \ BeingFreed : Claims(i) \subseteq bbm
OwnersDisjoint ==
    \A i, j \in Owners : HasBlocks(i) /\ HasBlocks(j) =>
        \A p \in 1 .. Len(itab[i].blks), q \in 1 .. Len(itab[j].blks) :
            itab[i].blks[p] = itab[j].blks[q] => i = j /\ p = q

OwnersAllocated == Owners \subseteq ibm /\ Reserved \subseteq ibm
RootIsDir == itab[Root].mode = "dir"
LinkedWritten == \A i \in Linked : itab[i].mode # "none"

\* i_block[] of a special node holds no block number.
SpecialHarmless ==
    \A i \in Inodes : itab[i].mode \in {"dev", "lnk"} =>
        Elems(itab[i].blks) \intersect Blocks \subseteq {0}

------------------------------------------------------------------------------
(* Records                                                                   *)

Rec(d, k, s) == dblk[itab[d].blks[k]][s]
Live(d, k, s) == Rec(d, k, s).ino # 0 /\ Rec(d, k, s).name \in Names

\* No hard links: one record leads to an inode, and none to a reserved one.
OneRecord ==
    \A d, f \in DirInodes :
        \A k \in 1 .. Len(itab[d].blks), l \in 1 .. Len(itab[f].blks), s, t \in Slots :
            /\ Live(d, k, s) /\ Live(f, l, t) /\ Rec(d, k, s).ino = Rec(f, l, t).ino
            => d = f /\ k = l /\ s = t
RecordsUnreserved ==
    \A d \in DirInodes : \A k \in 1 .. Len(itab[d].blks), s \in Slots :
        Live(d, k, s) => Rec(d, k, s).ino \notin Reserved

\* One record of a name in a directory.
NamesOnce ==
    \A d \in DirInodes : \A k, l \in 1 .. Len(itab[d].blks), s, t \in Slots :
        Live(d, k, s) /\ Live(d, l, t) /\ Rec(d, k, s).name = Rec(d, l, t).name
        => k = l /\ s = t

\* Only directory blocks, and blocks lost while a directory grew, hold live records.
Loud(b) == \E s \in Slots : dblk[b][s].ino # 0 /\ dblk[b][s].name \in Names
LoudMarked == \A b \in Blocks : Loud(b) => b \in bbm
LoudUnfiled ==
    \A b \in Blocks, i \in Owners : Loud(b) /\ itab[i].mode = "reg" => b \notin Claims(i)

\* The directory mkdir has written and not linked yet.
NewDir == IF op.kind = "mkdir" /\ op.pc \in {"append", "grow_meta", "grow_block", "grow_inode"}
          THEN {op.ino} ELSE {}

\* A directory starts with its own "." and a ".." to a directory on a path, and
\* has no other record of these names, and no record without a name.
DotsSound ==
    \A d \in LinkedDirs \union NewDir :
        /\ Len(itab[d].blks) > 0
        /\ Rec(d, 1, 0) = [ino |-> d, name |-> "."]
        /\ \E p \in LinkedDirs : Rec(d, 1, 1) = [ino |-> p, name |-> ".."]
        /\ \A k \in 1 .. Len(itab[d].blks), s \in Slots :
              \/ k = 1 /\ s \in {0, 1}
              \/ Live(d, k, s)
              \/ Rec(d, k, s).ino = 0 /\ Rec(d, k, s).name \notin {".", ".."}

------------------------------------------------------------------------------
(* The handler                                                               *)

\* It works in a directory on a path (create finds out late when that is no
\* directory), and a name it makes is not there yet.
OpDir ==
    /\ op.dir \in Linked
    /\ op.kind # "create" \/ op.pc \in {"grow_meta", "grow_block", "grow_inode"} =>
          itab[op.dir].mode = "dir"
    /\ op.kind # "none" => op.name \in Names

NamingPcs == {"alloc_inode", "inode_meta", "alloc_block", "block_meta", "alloc_data",
              "alloc_commit", "write_inode", "write_dirblk", "append", "grow_meta",
              "grow_block", "grow_inode"}
OpName ==
    op.kind \in Making /\ op.pc \in NamingPcs /\ itab[op.dir].mode = "dir" =>
        \A k \in 1 .. Len(itab[op.dir].blks), s \in Slots :
            ~(Live(op.dir, k, s) /\ Rec(op.dir, k, s).name = op.name)

\* The handler that makes a new inode owns it and leads nobody to it yet.
MakingPcs == (NamingPcs \ {"alloc_inode"}) \union {"free_inode"}
WrittenPcs == {"append", "grow_meta", "grow_block", "grow_inode"}
OpInode ==
    /\ op.kind \in Making /\ op.pc \in MakingPcs =>
          op.ino \in ibm /\ op.ino \notin Linked /\ op.ino \notin Reserved
    /\ op.kind \in Making \ {"mkdir"} => op.ino \notin DirInodes
    /\ op.kind = "mkdir" /\ op.pc \in NamingPcs \ (WrittenPcs \union {"write_dirblk"}) =>
          op.ino \notin DirInodes

\* What it wrote to its inode.
OpWritten ==
    /\ op.kind \in {"mknod", "symlink"} => Elems(op.blks) \subseteq NodeNumbers
    /\ op.pc \in WrittenPcs =>
          itab[op.ino].mode \in (CASE op.kind = "create" -> {"reg"}
                                   [] op.kind = "mkdir" -> {"dir"}
                                   [] OTHER -> {"dev", "lnk"})
    /\ op.kind = "mkdir" /\ op.pc \in {"block_meta", "write_inode", "write_dirblk"} =>
          Len(op.blks) = 1
    /\ op.pc = "write_dirblk" =>
          itab[op.ino].mode = "dir" /\ itab[op.ino].blks = op.blks /\ ~Loud(op.blks[1])

\* The inode it empties, overwrites or removes.
OpTarget ==
    /\ op.kind \in {"truncate", "rewrite"} => op.ino \in Linked /\ itab[op.ino].mode # "dir"
    /\ op.kind = "rewrite" => itab[op.ino].mode = "reg"
    /\ op.kind = "unlink" /\ op.pc # "free_meta" =>
          op.ino \in Inodes \ Reserved /\ op.ino \notin DirInodes
    /\ op.kind = "unlink" /\ op.pc \in {"remove", "release", "free_commit", "clear_inode"} =>
          itab[op.ino].mode # "none"
    /\ op.kind = "unlink" /\ op.pc = "remove" =>
          \E k \in 1 .. Len(itab[op.dir].blks), s \in Slots :
              Rec(op.dir, k, s) = [ino |-> op.ino, name |-> op.name]
    /\ op.kind = "unlink" /\ op.pc \in {"release", "free_commit", "clear_inode", "free_inode"} =>
          op.ino \notin Linked

\* The bitmap it is about to write keeps what others hold.
OpBitmap ==
    op.kind \in Removing /\ op.pc \in {"free_commit", "clear_inode"} =>
        /\ op.bm \subseteq bbm /\ MetaBlocks \subseteq op.bm
        /\ \A i \in Owners \ {op.ino} : Claims(i) \subseteq op.bm
        /\ \A b \in Blocks : Loud(b) => b \in op.bm

\* Blocks the handler took and no inode claims yet.
Held == op.kind \in {"create", "mkdir", "rewrite"}
        /\ op.pc \in {"alloc_data", "block_meta", "alloc_commit", "write_inode"}
FreshPcs == {"alloc_inode", "inode_meta", "alloc_block", "release", "free_commit", "clear_inode"}
OpBlocks ==
    /\ op.kind \in {"create", "mkdir", "rewrite"} /\ op.pc \in FreshPcs => op.blks = << >>
    /\ Held =>
        /\ Elems(op.blks) \intersect MetaBlocks = {}
        /\ \A p, q \in 1 .. Len(op.blks) : op.blks[p] = op.blks[q] => p = q
        /\ \A i \in Owners : Claims(i) \intersect Elems(op.blks) = {}
        /\ \A b \in Elems(op.blks) : ~Loud(b)
    /\ op.pc = "alloc_data" => Elems(op.blks) \intersect bbm = {}
    /\ op.pc = "alloc_commit" =>
        /\ op.bm = bbm \union Elems(op.blks)
        /\ \A b \in Elems(op.blks) : b \in bbm \/ BlockGroup(b) \in op.dirty
    /\ op.pc \in {"block_meta", "write_inode"} /\ Held => Elems(op.blks) \subseteq bbm

\* The block a directory grows by.
OpExtra ==
    /\ op.pc \in {"grow_meta", "grow_block", "grow_inode"} =>
        /\ op.extra \in bbm \ MetaBlocks
        /\ \A i \in Owners : op.extra \notin Claims(i)
    /\ op.pc = "grow_inode" => dblk[op.extra] = OneEntry(op.ino, op.name)

------------------------------------------------------------------------------
DiskInv ==
    /\ MetaMarked /\ OwnersClean /\ OwnersMarked /\ OwnersDisjoint
    /\ OwnersAllocated /\ RootIsDir /\ LinkedWritten /\ SpecialHarmless
RecordInv == OneRecord /\ RecordsUnreserved /\ NamesOnce /\ LoudMarked /\ LoudUnfiled /\ DotsSound
OpInv == /\ OpDir /\ OpName /\ OpInode /\ OpWritten /\ OpTarget /\ OpBitmap /\ OpBlocks /\ OpExtra

IInv == DiskInv /\ RecordInv /\ OpInv
------------------------------------------------------------------------------
(* Until something crashes: nothing is lost track of                         *)

\* The block bitmap as the handler knows it.
MemBitmap ==
    IF op.pc = "alloc_data" THEN bbm \union Elems(op.blks)
    ELSE IF op.pc \in {"alloc_commit", "free_commit"} THEN op.bm
    ELSE bbm

\* Free counters that count what a bitmap says.
CountBlocks(c, B) ==
    /\ c.sbB = Cardinality(Blocks \ B)
    /\ \A g \in Groups : c.gB[g] = Cardinality(GroupBlocks(g) \ B)
CountInodes(c, I) ==
    /\ c.sbI = Cardinality(Inodes \ I)
    /\ \A g \in Groups : c.gI[g] = Cardinality(GroupInodes(g) \ I)

\* The counters in memory are exact at every step, those on disk but for the time
\* between a bitmap write and ext2_store_meta.
BlockMetaPcs == {"block_meta", "alloc_commit", "grow_meta", "free_commit"}
InodeMetaPcs == {"inode_meta", "free_meta"}
MemCounted == CountBlocks(m, MemBitmap) /\ CountInodes(m, ibm)
DiskCounted ==
    /\ op.pc \notin BlockMetaPcs => CountBlocks(cnt, bbm)
    /\ op.pc \notin InodeMetaPcs => CountInodes(cnt, ibm)
CommitKnown ==
    op.pc = "free_commit" => \A b \in bbm \ op.bm : BlockGroup(b) \in op.dirty

\* bg_used_dirs_count waits for the link count of the parent, and then for
\* ext2_store_meta.
DirsCounted ==
    /\ \A g \in Groups :
          Cardinality(LinkedDirs \intersect GroupInodes(g)) =
              m.gD[g] + (IF op.pc = "link_parent" /\ InodeGroup(op.ino) = g THEN 1 ELSE 0)
    /\ op.pc # "dirs_meta" => cnt.gD = m.gD

\* The inode a handler has taken and no record leads to, or no more.
Holder ==
    IF \/ op.kind \in Making /\ op.pc \in MakingPcs
       \/ op.kind = "unlink" /\ op.pc \in {"release", "free_commit", "clear_inode", "free_inode"}
    THEN {op.ino} ELSE {}

\* Every inode that is marked used is reserved, on a path, lost by a handler that
\* failed, or the handler's; nobody frees a lost one.
InodesOwned ==
    /\ ibm = Reserved \union Linked \union lost \union Holder
    /\ lost \intersect (Reserved \union Linked \union Holder) = {}

\* Every block that is marked used is metadata, claimed by such an inode, or held.
Pending ==
    IF Held THEN Elems(op.blks)
    ELSE IF op.pc \in {"grow_meta", "grow_block", "grow_inode"} THEN {op.extra} ELSE {}
Known == (Linked \union lost \union Holder) \ BeingFreed
Settled == MetaBlocks \union UNION {Claims(i) : i \in Known}
BlocksOwned ==
    /\ MemBitmap = Settled \union Pending /\ Settled \intersect Pending = {}
    /\ \A i \in lost, j \in Linked \union lost \union Holder :
          i # j => Claims(i) \intersect Claims(j) = {}

\* An inode claims nothing before it is written, and after it was given back.
BareInodes ==
    /\ \A i \in Inodes \ ibm : ~HasBlocks(i)
    /\ op.kind \in Making
         /\ op.pc \in {"inode_meta", "alloc_block", "block_meta", "alloc_data", "alloc_commit",
                       "write_inode"} => ~HasBlocks(op.ino)
    /\ op.kind = "rewrite" /\ op.pc \in {"alloc_data", "alloc_commit", "write_inode"} =>
          Claims(op.ino) = {}
    /\ op.pc = "free_inode" => ~HasBlocks(op.ino)

Counted == MemCounted /\ DiskCounted /\ CommitKnown
Owned == InodesOwned /\ BlocksOwned /\ BareInodes

CountInv == ~crashed => Counted /\ DirsCounted /\ Owned

------------------------------------------------------------------------------
(* Until something crashes: link counts                                      *)

\* The places of the reachable directories whose record leads to an inode.
Places(i) == {p \in LinkedDirs \X (1 .. DirectSlots) \X Slots :
                 p[2] <= Len(itab[p[1]].blks) /\ Rec(p[1], p[2], p[3]).ino = i}

DirsShort ==
    /\ \A d \in DirInodes : Len(itab[d].blks) <= DirectSlots
    /\ op.pc \in {"grow_meta", "grow_block", "grow_inode"} => Len(itab[op.dir].blks) < DirectSlots

\* The inode and the block a new name will lead to.
OpLinks ==
    /\ op.pc \in WrittenPcs \union {"write_dirblk"} =>
          itab[op.ino].links = (IF op.kind = "mkdir" THEN 2 ELSE 1)
    /\ op.kind = "mkdir" /\ op.pc \in WrittenPcs =>
          Len(itab[op.ino].blks) = 1 /\ dblk[itab[op.ino].blks[1]] = DotBlock(op.ino, op.dir)

\* i_links_count counts them; the parent of a new directory waits for its own.
LinksCounted ==
    \A i \in Linked :
        Cardinality(Places(i)) =
            itab[i].links + (IF op.pc = "link_parent" /\ i = op.dir THEN 1 ELSE 0)

LinkInv == DirsShort /\ OpLinks /\ (~crashed => LinksCounted)

------------------------------------------------------------------------------
(* What fsck.ext2 relies on, whatever crashed                                *)

\* A record that is no live one is empty, the "." of its directory, or a ".."
\* to a directory on a path; and such records stand in blocks of directories
\* only, so that no block a new directory gets brings old ones along.
DotsHome ==
    \A d \in DirInodes : \A k \in 1 .. Len(itab[d].blks), s \in Slots :
        \/ Rec(d, k, s).ino = 0
        \/ Live(d, k, s)
        \/ k = 1 /\ s = 0 /\ Rec(d, k, s).ino = d
        \/ Rec(d, k, s).ino \in LinkedDirs
Dotted(b) == \E s \in Slots : dblk[b][s].ino # 0 /\ dblk[b][s].name \notin Names
DotsOwned == \A b \in Blocks : Dotted(b) => \E d \in DirInodes : b \in Claims(d)

\* A directory that no path leads to has the count mkdir gave it, which waits for
\* a name; the reserved inodes but the root are no directories.
OrphanLinks == \A d \in DirInodes \ Linked : itab[d].links = 2
ReservedPlain == DirInodes \intersect Reserved \subseteq {Root}

FsckInv == DotsHome /\ DotsOwned /\ OrphanLinks /\ ReservedPlain


==============================================================================
