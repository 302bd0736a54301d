------------------------------- MODULE Ext2 -------------------------------
(***************************************************************************)
(* The EXT2 engine of Guppy (src/ext2.c): the state an image holds and the *)
(* operations that change it, one action per disk write, so that a crash   *)
(* or a failed write can stop an operation between any two of them.        *)
(*                                                                         *)
(* On disk: the block and inode bitmaps, the free counters kept in the     *)
(* superblock and in the group descriptors, the inode table and the        *)
(* contents of directory blocks.  In memory, for one operation at a time   *)
(* (the program has one thread): ext2_meta m, the allocation context and   *)
(* the local variables of the handler, in op.                              *)
(*                                                                         *)
(* Abstractions.                                                           *)
(*  - File contents and timestamps are left out.  The pointer tree of a    *)
(*    file is the sequence of the blocks the file claims, data and         *)
(*    pointer blocks alike, in allocation order: i_block[] and what it     *)
(*    points to.  For a device node or a fast symlink i_block[] holds a    *)
(*    device number or the text of the target; here one number, the first  *)
(*    word.                                                                *)
(*  - All names have one length, so a directory record takes one slot and  *)
(*    a directory block is a function from slots to records.  A slot that  *)
(*    starts no record is slack of the record before it (its rec_len).     *)
(*  - The superblock and the group descriptors are written as one step.    *)
(***************************************************************************)
EXTENDS Integers, Sequences, FiniteSets

CONSTANTS
    GroupCount,      \* number of block groups
    BlocksPerGroup,  \* s_blocks_per_group (32768 in an image mkfs.ext2 makes)
    BlocksCount,     \* s_blocks_count; the last group may be short
    InodesPerGroup,  \* s_inodes_per_group (1024)
    DataRel,         \* metadata blocks at the head of each group (data_rel)
    FirstIno,        \* s_first_ino (11): inodes below it are reserved
    DirectSlots,     \* direct pointers of an inode (12)
    PtrsPerBlock,    \* pointers in one pointer block (1024)
    DirSlots,        \* directory records that fit in a block
    Names,           \* the file names callers use
    FileSizes,       \* file sizes callers ask for, in blocks
    NodeNumbers,     \* first word of i_block[] of device nodes and symlinks
    RewriteModes,    \* types of the inodes callers overwrite
    CrashOps         \* operations a crash or a failed write may interrupt

Root == 2
Groups == 0 .. GroupCount - 1
Blocks == 0 .. BlocksCount - 1
Inodes == 1 .. GroupCount * InodesPerGroup
Reserved == 1 .. FirstIno - 1
Slots == 0 .. DirSlots - 1

BlockGroup(b) == b \div BlocksPerGroup
InodeGroup(i) == (i - 1) \div InodesPerGroup
GroupBlocks(g) == {b \in Blocks : BlockGroup(b) = g}
GroupInodes(g) == {i \in Inodes : InodeGroup(i) = g}

\* Superblock, descriptors, bitmaps and inode table, at the head of every group.
MetaBlocks == {b \in Blocks : b % BlocksPerGroup < DataRel}
RootBlock == DataRel

ASSUME NamesAssumption == "." \notin Names /\ ".." \notin Names /\ "" \notin Names
ASSUME SizesAssumption == FileSizes \subseteq Nat /\ NodeNumbers \subseteq Nat
ASSUME PointersAssumption == DirectSlots \in Nat \ {0} /\ PtrsPerBlock \in Nat \ {0}
ASSUME SlotsAssumption == DirSlots \in Nat /\ DirSlots >= 2
\* mkfs.ext2 refuses an image whose last group has no room after its metadata.
ASSUME GeometryAssumption ==
    /\ GroupCount \in Nat \ {0} /\ BlocksPerGroup \in Nat \ {0}
    /\ BlocksCount \in Nat /\ InodesPerGroup \in Nat \ {0}
    /\ DataRel \in Nat \ {0}
    /\ (GroupCount - 1) * BlocksPerGroup + DataRel < BlocksCount
    /\ BlocksCount <= GroupCount * BlocksPerGroup
    /\ FirstIno \in Nat /\ 2 < FirstIno /\ FirstIno <= InodesPerGroup + 1

VARIABLES
    bbm,      \* block bitmap: the set of blocks marked used
    ibm,      \* inode bitmap: the set of inodes marked used
    cnt,      \* free counters in the superblock and the group descriptors
    itab,     \* inode table
    dblk,     \* directory records in each block
    m,        \* ext2_meta in memory: the counters
    op,       \* the handler that runs and its local variables
    crashed,  \* history: some operation was interrupted
    lost      \* history: inodes of operations that failed after taking one

disk == <<bbm, ibm, cnt, itab, dblk>>
vars == <<bbm, ibm, cnt, itab, dblk, m, op, crashed, lost>>

------------------------------------------------------------------------------
(* Records, directory blocks, inodes                                         *)

FreeSlot == [ino |-> 0, name |-> ""]
Record == [ino : {0} \union Inodes, name : Names \union {".", "..", ""}]
Blank == [s \in Slots |-> FreeSlot]
DotBlock(i, parent) ==
    [s \in Slots |-> IF s = 0 THEN [ino |-> i, name |-> "."]
                     ELSE IF s = 1 THEN [ino |-> parent, name |-> ".."]
                     ELSE FreeSlot]
OneEntry(i, n) == [s \in Slots |-> IF s = 0 THEN [ino |-> i, name |-> n] ELSE FreeSlot]

Modes == {"none", "reg", "dir", "dev", "lnk"}
ClearedInode == [mode |-> "none", links |-> 0, blks |-> << >>]

Elems(s) == {s[k] : k \in 1 .. Len(s)}
Least(S) == CHOOSE x \in S : \A y \in S : x <= y
Dec(n) == IF n > 0 THEN n - 1 ELSE 0

\* The blocks a file of n data blocks takes: pointer blocks are added past the
\* direct slots, one single-indirect, then a double-indirect root and its leaves.
BlocksFor(n) ==
    LET far == n - DirectSlots - PtrsPerBlock
    IN  n + (IF n > DirectSlots THEN 1 ELSE 0)
          + (IF far > 0 THEN 1 + (far + PtrsPerBlock - 1) \div PtrsPerBlock ELSE 0)
MaxDataBlocks == DirectSlots + PtrsPerBlock + PtrsPerBlock * PtrsPerBlock

DirInodes == {d \in Inodes : itab[d].mode = "dir"}
Entries(d) == {dblk[itab[d].blks[k]][s] : k \in 1 .. Len(itab[d].blks), s \in Slots}
HasEntry(d, n) == \E e \in Entries(d) : e.ino # 0 /\ e.name = n

\* Inodes a path leads to.
Linked == {Root} \union
          {i \in Inodes : \E d \in DirInodes : \E e \in Entries(d) :
                              e.ino = i /\ e.name \in Names}
LinkedDirs == {d \in Linked : itab[d].mode = "dir"}

\* Blocks an inode claims.  What a device node or a symlink keeps in i_block[]
\* is no block number.
Claims(i) == IF itab[i].mode \in {"reg", "dir"} THEN Elems(itab[i].blks) ELSE {}

------------------------------------------------------------------------------
(* mkfs_ext2_core                                                            *)

GroupBlockCount(g) ==
    LET left == BlocksCount - g * BlocksPerGroup
    IN  IF left > BlocksPerGroup THEN BlocksPerGroup ELSE left

MkfsCounters ==
    [sbB |-> BlocksCount - GroupCount * DataRel - 1,
     sbI |-> GroupCount * InodesPerGroup - (FirstIno - 1),
     gB  |-> [g \in Groups |-> GroupBlockCount(g) - DataRel - (IF g = 0 THEN 1 ELSE 0)],
     gI  |-> [g \in Groups |-> InodesPerGroup - (IF g = 0 THEN FirstIno - 1 ELSE 0)],
     gD  |-> [g \in Groups |-> IF g = 0 THEN 1 ELSE 0]]

Idle == [kind |-> "none", pc |-> "idle", dir |-> Root, name |-> "", ino |-> 0,
         size |-> 0, need |-> 0, blks |-> << >>, extra |-> 0, bm |-> {}, dirty |-> {}]

Init ==
    /\ bbm = MetaBlocks \union {RootBlock}
    /\ ibm = Reserved
    /\ cnt = MkfsCounters
    /\ itab = [i \in Inodes |-> IF i = Root
                                THEN [mode |-> "dir", links |-> 2, blks |-> <<RootBlock>>]
                                ELSE ClearedInode]
    /\ dblk = [b \in Blocks |-> IF b = RootBlock THEN DotBlock(Root, Root) ELSE Blank]
    /\ m = MkfsCounters
    /\ op = Idle
    /\ crashed = FALSE
    /\ lost = {}

------------------------------------------------------------------------------
(* Counters and allocators                                                   *)

TakeBlock(c, b) == [c EXCEPT !.sbB = Dec(@), !.gB[BlockGroup(b)] = Dec(@)]
TakeInode(c, i) == [c EXCEPT !.sbI = Dec(@), !.gI[InodeGroup(i)] = Dec(@)]
GiveInode(c, i) == [c EXCEPT !.sbI = @ + 1, !.gI[InodeGroup(i)] = @ + 1]
\* Mutant: blocks come back to the superblock's counter only.
GiveBlocksToVolume(c, S) == [c EXCEPT !.sbB = @ + Cardinality(S)]
\* Mutant: the counters go down when blocks come back.
GiveBlocksBackwards(c, S) ==
    [c EXCEPT !.sbB = @ - Cardinality(S),
              !.gB = [g \in Groups |-> c.gB[g] - Cardinality(S \intersect GroupBlocks(g))]]
GiveBlocks(c, S) ==
    [c EXCEPT !.sbB = @ + Cardinality(S),
              !.gB = [g \in Groups |-> c.gB[g] + Cardinality(S \intersect GroupBlocks(g))]]

\* First fit over the groups whose descriptor says that something is free.
FreeBlocks(bm) == {b \in Blocks \ bm : m.gB[BlockGroup(b)] > 0}
FreeInodes == {i \in Inodes \ ibm : (i >= FirstIno \/ i = Root) /\ m.gI[InodeGroup(i)] > 0}

At(pc) == op.pc = pc
Goto(pc) == op' = [op EXCEPT !.pc = pc]
Return == op' = Idle

\* The handler gives up after ext2_alloc_inode: nothing is undone.
FailAndLeak ==
    /\ Return
    /\ m' = cnt
    /\ lost' = lost \union {op.ino}
    /\ UNCHANGED <<disk, crashed>>

\* The handler gives up and leaves nothing behind.
FailClean ==
    /\ Return
    /\ m' = cnt
    /\ UNCHANGED <<disk, crashed, lost>>

------------------------------------------------------------------------------
(* Entry of the operations: load_meta, path resolution and the early returns *)

Begin(locals) ==
    /\ At("idle")
    /\ op' = locals
    /\ m' = cnt
    /\ UNCHANGED <<disk, crashed, lost>>

\* Mutant: the lookup of the name is left out.
MkdirOverExisting(d, n) ==
    /\ d \in LinkedDirs
    /\ Begin([Idle EXCEPT !.kind = "mkdir", !.pc = "alloc_inode", !.dir = d, !.name = n])

\* ext2_create_and_write: a parent that is no directory is found out by the append.
Create(d, n, size) ==
    /\ d \in Linked
    /\ itab[d].mode = "dir" => ~HasEntry(d, n)
    /\ size <= MaxDataBlocks
    /\ Begin([Idle EXCEPT !.kind = "create", !.pc = "alloc_inode", !.dir = d, !.name = n,
                           !.size = size, !.need = BlocksFor(size)])

\* ext2_mkdir_at; an existing directory is success without a change.
Mkdir(d, n) ==
    /\ d \in LinkedDirs /\ ~HasEntry(d, n)
    /\ Begin([Idle EXCEPT !.kind = "mkdir", !.pc = "alloc_inode", !.dir = d, !.name = n])

\* ext2_mknod_at: the device number goes to i_block[0] or i_block[1].
Mknod(d, n, number) ==
    /\ d \in LinkedDirs /\ ~HasEntry(d, n)
    /\ Begin([Idle EXCEPT !.kind = "mknod", !.pc = "alloc_inode", !.dir = d, !.name = n,
                           !.blks = <<number>>])

\* ext2_symlink_at: the text of the target goes to i_block[].
Symlink(d, n, word) ==
    /\ d \in LinkedDirs /\ ~HasEntry(d, n)
    /\ Begin([Idle EXCEPT !.kind = "symlink", !.pc = "alloc_inode", !.dir = d, !.name = n,
                           !.blks = <<word>>])

\* The inode a path names, for the operations on existing files.
Target(d, n) == LET e == CHOOSE e \in Entries(d) : e.ino # 0 /\ e.name = n IN e.ino

\* ext2_unlink_at; directories are refused.
Unlink(d, n) ==
    /\ d \in LinkedDirs /\ HasEntry(d, n)
    /\ itab[Target(d, n)].mode # "dir"
    /\ Begin([Idle EXCEPT !.kind = "unlink", !.pc = "remove", !.dir = d, !.name = n,
                           !.ino = Target(d, n)])

\* ext2_truncate_at; directories are refused.
Truncate(d, n) ==
    /\ d \in LinkedDirs /\ HasEntry(d, n)
    /\ itab[Target(d, n)].mode # "dir"
    /\ Begin([Idle EXCEPT !.kind = "truncate", !.pc = "release", !.dir = d, !.name = n,
                           !.ino = Target(d, n)])

\* ext2_write_existing_at: truncates first when the inode owns anything.
WriteExisting(d, n, size) ==
    /\ d \in LinkedDirs /\ HasEntry(d, n)
    /\ itab[Target(d, n)].mode \in RewriteModes \ {"dir"}
    /\ Begin([Idle EXCEPT !.kind = "rewrite", !.dir = d, !.name = n, !.ino = Target(d, n),
                           !.size = size, !.need = BlocksFor(size),
                           !.pc = IF Elems(itab[Target(d, n)].blks) \subseteq {0}
                                  THEN "alloc_data" ELSE "release"])

------------------------------------------------------------------------------
(* Steps of the handlers, one disk write each                                *)

\* ext2_alloc_inode: mark the bit; ext2_store_meta follows.
AllocInode ==
    /\ At("alloc_inode")
    /\ FreeInodes # {}
    /\ LET i == Least(FreeInodes)
       IN  /\ ibm' = ibm \union {i}
           /\ m' = TakeInode(m, i)
           /\ op' = [op EXCEPT !.ino = i, !.pc = "inode_meta"]
    /\ UNCHANGED <<bbm, cnt, itab, dblk, crashed, lost>>

AllocInodeFails == At("alloc_inode") /\ FreeInodes = {} /\ FailClean

\* Mutant: the name of a node is published before its inode is written.
AfterMetaNameFirst ==
    [inode_meta |-> IF op.kind = "create" THEN "alloc_data"
                    ELSE IF op.kind = "mkdir" THEN "alloc_block" ELSE "append",
     block_meta |-> "write_inode",
     alloc_commit |-> "write_inode",
     grow_meta |-> "grow_block",
     free_commit |-> "clear_inode",
     dirs_meta |-> "idle", free_meta |-> "idle"]

\* Where each handler goes on after ext2_store_meta.
AfterMeta ==
    [inode_meta |-> IF op.kind = "create" THEN "alloc_data"
                    ELSE IF op.kind = "mkdir" THEN "alloc_block" ELSE "write_inode",
     block_meta |-> "write_inode",
     alloc_commit |-> "write_inode",
     grow_meta |-> "grow_block",
     free_commit |-> "clear_inode",
     dirs_meta |-> "idle", free_meta |-> "idle"]

\* ext2_store_meta: the counters in memory replace those on disk.
StoreMeta ==
    /\ op.pc \in DOMAIN AfterMeta
    /\ op.dirty = {}
    /\ cnt' = m
    /\ IF AfterMeta[op.pc] = "idle" THEN Return ELSE Goto(AfterMeta[op.pc])
    /\ UNCHANGED <<bbm, ibm, itab, dblk, m, crashed, lost>>

\* ext2_alloc_block, for the first block of a new directory.
AllocBlock ==
    /\ At("alloc_block")
    /\ FreeBlocks(bbm) # {}
    /\ LET b == Least(FreeBlocks(bbm))
       IN  /\ bbm' = bbm \union {b}
           /\ m' = TakeBlock(m, b)
           /\ op' = [op EXCEPT !.blks = <<b>>, !.pc = "block_meta"]
    /\ UNCHANGED <<ibm, cnt, itab, dblk, crashed, lost>>

AllocBlockFails == At("alloc_block") /\ FreeBlocks(bbm) = {} /\ FailAndLeak

\* Mutant: the context does not see the blocks it handed out itself.
CtxBitmapStale == bbm

\* ext2_alloc_block_ctx: one turn of the loop over the blocks of the file; the
\* bitmap is the copy in the context, the counters are those in memory.
CtxBitmap == bbm \union Elems(op.blks)
AllocBlockCtx ==
    /\ At("alloc_data")
    /\ op.size <= MaxDataBlocks
    /\ Len(op.blks) < op.need
    /\ FreeBlocks(CtxBitmap) # {}
    /\ LET b == Least(FreeBlocks(CtxBitmap))
       IN  /\ m' = TakeBlock(m, b)
           /\ op' = [op EXCEPT !.blks = Append(@, b)]
    /\ UNCHANGED <<disk, crashed, lost>>

\* No space, or a file too large for the pointer tree.  ext2_write_existing_at
\* finds this out after it truncated the file.
AllocDataFails ==
    /\ At("alloc_data")
    /\ \/ op.size > MaxDataBlocks
       \/ Len(op.blks) < op.need /\ FreeBlocks(CtxBitmap) = {}
    /\ IF op.kind = "create" THEN FailAndLeak ELSE FailClean

\* Pointer blocks and ext2_write_data_runs: the blocks are still free on disk.
WriteData ==
    /\ At("alloc_data")
    /\ op.size <= MaxDataBlocks
    /\ Len(op.blks) = op.need
    /\ dblk' = [b \in Blocks |-> IF b \in Elems(op.blks) THEN Blank ELSE dblk[b]]
    /\ op' = [op EXCEPT !.pc = "alloc_commit", !.bm = CtxBitmap,
                        !.dirty = {BlockGroup(b) : b \in Elems(op.blks)}]
    /\ UNCHANGED <<bbm, ibm, cnt, itab, m, crashed, lost>>

\* ext2_alloc_ctx_commit: the bitmap of each dirty group, in order.
WriteBitmap ==
    /\ op.pc \in {"alloc_commit", "free_commit"}
    /\ op.dirty # {}
    /\ LET g == Least(op.dirty)
       IN  /\ bbm' = (bbm \ GroupBlocks(g)) \union (op.bm \intersect GroupBlocks(g))
           /\ op' = [op EXCEPT !.dirty = @ \ {g}]
    /\ UNCHANGED <<ibm, cnt, itab, dblk, m, crashed, lost>>

NewInode ==
    CASE op.kind = "create"  -> [mode |-> "reg", links |-> 1, blks |-> op.blks]
      [] op.kind = "mkdir"   -> [mode |-> "dir", links |-> 2, blks |-> op.blks]
      [] op.kind = "mknod"   -> [mode |-> "dev", links |-> 1, blks |-> op.blks]
      [] op.kind = "symlink" -> [mode |-> "lnk", links |-> 1, blks |-> op.blks]
      [] OTHER               -> [itab[op.ino] EXCEPT !.blks = op.blks]

\* ext2_write_inode_at
WriteInode ==
    /\ At("write_inode")
    /\ itab' = [itab EXCEPT ![op.ino] = NewInode]
    /\ CASE op.kind = "rewrite" -> Return
         [] op.kind = "mkdir" -> Goto("write_dirblk")
         [] OTHER -> Goto("append")
    /\ UNCHANGED <<bbm, ibm, cnt, dblk, m, crashed, lost>>

\* ext2_mkdir_at writes "." and ".." after the inode.
WriteDirBlock ==
    /\ At("write_dirblk")
    /\ dblk' = [dblk EXCEPT ![op.blks[1]] = DotBlock(op.ino, op.dir)]
    /\ Goto("append")
    /\ UNCHANGED <<bbm, ibm, cnt, itab, m, crashed, lost>>

------------------------------------------------------------------------------
(* ext2_append_dirent_at                                                     *)

\* Mutant: the last record of a block always has slack.
SlackAtEnd == {p \in (1 .. Len(itab[op.dir].blks)) \X Slots :
                  \/ dblk[itab[op.dir].blks[p[1]]][p[2]] = FreeSlot
                  \/ p[2] = DirSlots - 1}
\* Positions where a record has slack for one more, in the order of the scan.
SlackAt == {p \in (1 .. Len(itab[op.dir].blks)) \X Slots :
               dblk[itab[op.dir].blks[p[1]]][p[2]] = FreeSlot}
FirstSlack == CHOOSE p \in SlackAt : \A q \in SlackAt :
                 p[1] < q[1] \/ (p[1] = q[1] /\ p[2] <= q[2])

AfterAppend == IF op.kind = "mkdir" THEN Goto("link_parent") ELSE Return

AppendDirent ==
    /\ At("append")
    /\ itab[op.dir].mode = "dir"
    /\ SlackAt # {}
    /\ LET b == itab[op.dir].blks[FirstSlack[1]]
       IN  dblk' = [dblk EXCEPT ![b][FirstSlack[2]] = [ino |-> op.ino, name |-> op.name]]
    /\ AfterAppend
    /\ UNCHANGED <<bbm, ibm, cnt, itab, m, crashed, lost>>

CanGrow == Len(itab[op.dir].blks) < DirectSlots /\ FreeBlocks(bbm) # {}

\* Mutant: the bit of the new block is set in memory only.
GrowDirUnmarked ==
    /\ At("append")
    /\ itab[op.dir].mode = "dir"
    /\ SlackAt = {} /\ CanGrow
    /\ LET b == Least(FreeBlocks(bbm))
       IN  /\ m' = TakeBlock(m, b)
           /\ op' = [op EXCEPT !.extra = b, !.pc = "grow_meta"]
    /\ UNCHANGED <<bbm, ibm, cnt, itab, dblk, crashed, lost>>

\* All blocks are full: take one more, fill it, then hang it into the directory.
GrowDir ==
    /\ At("append")
    /\ itab[op.dir].mode = "dir"
    /\ SlackAt = {} /\ CanGrow
    /\ LET b == Least(FreeBlocks(bbm))
       IN  /\ bbm' = bbm \union {b}
           /\ m' = TakeBlock(m, b)
           /\ op' = [op EXCEPT !.extra = b, !.pc = "grow_meta"]
    /\ UNCHANGED <<ibm, cnt, itab, dblk, crashed, lost>>

WriteGrownBlock ==
    /\ At("grow_block")
    /\ dblk' = [dblk EXCEPT ![op.extra] = OneEntry(op.ino, op.name)]
    /\ Goto("grow_inode")
    /\ UNCHANGED <<bbm, ibm, cnt, itab, m, crashed, lost>>

LinkGrownBlock ==
    /\ At("grow_inode")
    /\ itab' = [itab EXCEPT ![op.dir].blks = Append(@, op.extra)]
    /\ AfterAppend
    /\ UNCHANGED <<bbm, ibm, cnt, dblk, m, crashed, lost>>

\* No directory, twelve full blocks, or no space: only ext2_mknod_at gives its
\* inode back.
AppendFails ==
    /\ At("append")
    /\ itab[op.dir].mode = "dir" => SlackAt = {} /\ ~CanGrow
    /\ IF op.kind = "mknod"
       THEN Goto("free_inode") /\ UNCHANGED <<disk, m, crashed, lost>>
       ELSE FailAndLeak

\* Mutant: the link count of the parent is forgotten.
LinkParentUncounted ==
    /\ At("link_parent")
    /\ m' = [m EXCEPT !.gD[InodeGroup(op.ino)] = @ + 1]
    /\ Goto("dirs_meta")
    /\ UNCHANGED <<bbm, ibm, cnt, itab, dblk, crashed, lost>>

\* ext2_mkdir_at: ".." is a link to the parent; one more directory in the group.
LinkParent ==
    /\ At("link_parent")
    /\ itab' = [itab EXCEPT ![op.dir].links = @ + 1]
    /\ m' = [m EXCEPT !.gD[InodeGroup(op.ino)] = @ + 1]
    /\ Goto("dirs_meta")
    /\ UNCHANGED <<bbm, ibm, cnt, dblk, crashed, lost>>

------------------------------------------------------------------------------
(* Removal: ext2_unlink_at, ext2_free_inode_data_blocks, ext2_truncate_at    *)

\* The record merges into the one before it; the first of a block has none and
\* stays as a record with inode 0.
RemoveDirent ==
    /\ At("remove")
    /\ \E k \in 1 .. Len(itab[op.dir].blks), s \in Slots :
          LET b == itab[op.dir].blks[k]
          IN  /\ dblk[b][s].ino # 0 /\ dblk[b][s].name = op.name
              /\ dblk' = [dblk EXCEPT ![b][s] = IF s = 0 THEN [@ EXCEPT !.ino = 0]
                                                         ELSE FreeSlot]
    /\ Goto("release")
    /\ UNCHANGED <<bbm, ibm, cnt, itab, m, crashed, lost>>

\* Mutant: the pointer blocks of a large file are not given back.
FreedDirectOnly ==
    {itab[op.ino].blks[k] : k \in {k \in 1 .. Len(itab[op.ino].blks) : k <= DirectSlots}} \ {0}

\* What ext2_free_inode_data_blocks takes for block numbers: every word of
\* i_block[] but 0, whatever the type of the inode.
Freed == Elems(itab[op.ino].blks) \ {0}

ReleaseBlocks ==
    /\ At("release")
    /\ Freed \subseteq Blocks
    /\ m' = GiveBlocks(m, Freed \intersect bbm)
    /\ op' = [op EXCEPT !.pc = "free_commit", !.bm = bbm \ Freed,
                        !.dirty = {BlockGroup(b) : b \in Freed \intersect bbm}]
    /\ UNCHANGED <<disk, crashed, lost>>

\* A number past the end: the handler returns; unlink has removed the record.
ReleaseFails ==
    /\ At("release")
    /\ ~(Freed \subseteq Blocks)
    /\ IF op.kind = "unlink" THEN FailAndLeak ELSE FailClean

ClearInode ==
    /\ At("clear_inode")
    /\ itab' = [itab EXCEPT ![op.ino] = IF op.kind = "unlink" THEN ClearedInode
                                        ELSE [@ EXCEPT !.blks = << >>]]
    /\ CASE op.kind = "unlink" -> Goto("free_inode")
         [] op.kind = "rewrite" -> Goto("alloc_data")
         [] OTHER -> Return
    /\ UNCHANGED <<bbm, ibm, cnt, dblk, m, crashed, lost>>

\* Mutant: the bit is cleared and the counters are not.
FreeInodeUncounted ==
    /\ At("free_inode")
    /\ ibm' = ibm \ {op.ino}
    /\ Goto("free_meta")
    /\ UNCHANGED <<bbm, cnt, itab, dblk, m, crashed, lost>>

\* ext2_free_inode_num, for unlink and for the failed mknod.
FreeInode ==
    /\ At("free_inode")
    /\ ibm' = ibm \ {op.ino}
    /\ m' = IF op.ino \in ibm THEN GiveInode(m, op.ino) ELSE m
    /\ Goto("free_meta")
    /\ UNCHANGED <<bbm, cnt, itab, dblk, crashed, lost>>

------------------------------------------------------------------------------
\* The process dies; or a disk write fails and the handler returns at once, as all
\* but ext2_mknod_at do.
Crash ==
    /\ op.kind \in CrashOps
    /\ Return
    /\ m' = cnt
    /\ crashed' = TRUE
    /\ UNCHANGED <<disk, lost>>

Start ==
    \E d \in Linked, n \in Names :
        \/ \E size \in FileSizes : Create(d, n, size)
        \/ Mkdir(d, n)
        \/ \E x \in NodeNumbers : Mknod(d, n, x)
        \/ \E x \in NodeNumbers : Symlink(d, n, x)
        \/ Unlink(d, n)
        \/ Truncate(d, n)
        \/ \E size \in FileSizes : WriteExisting(d, n, size)

Step ==
    \/ AllocInode \/ AllocInodeFails
    \/ StoreMeta
    \/ AllocBlock \/ AllocBlockFails
    \/ AllocBlockCtx \/ AllocDataFails \/ WriteData
    \/ WriteBitmap
    \/ WriteInode \/ WriteDirBlock
    \/ AppendDirent \/ GrowDir \/ WriteGrownBlock \/ LinkGrownBlock \/ AppendFails
    \/ LinkParent
    \/ RemoveDirent \/ ReleaseBlocks \/ ReleaseFails \/ ClearInode \/ FreeInode

Next == Start \/ Step \/ Crash

Spec == Init /\ [][Next]_vars

------------------------------------------------------------------------------
(* Properties                                                                *)

Counters == [sbB : Nat, sbI : Nat, gB : [Groups -> Nat], gI : [Groups -> Nat],
             gD : [Groups -> Nat]]
Kinds == {"none", "create", "mkdir", "mknod", "symlink", "unlink", "truncate", "rewrite"}
Pcs == {"idle", "alloc_inode", "inode_meta", "alloc_block", "block_meta", "alloc_data",
        "alloc_commit", "write_inode", "write_dirblk", "append", "grow_meta", "grow_block",
        "grow_inode", "link_parent", "dirs_meta", "remove", "release", "free_commit",
        "clear_inode", "free_inode", "free_meta"}
InodeRec == [mode : Modes, links : Nat, blks : Seq(Nat)]
OpRec == [kind : Kinds, pc : Pcs, dir : Inodes, name : Names \union {""},
          ino : {0} \union Inodes, size : Nat, need : Nat, blks : Seq(Nat),
          extra : Blocks, bm : SUBSET Blocks, dirty : SUBSET Groups]

\* Every variable stays in its domain: no counter leaves Nat, every record names
\* an inode of the table, and the handler's locals are well formed.
TypeOK ==
    /\ bbm \subseteq Blocks /\ ibm \subseteq Inodes
    /\ cnt \in Counters /\ m \in Counters
    /\ itab \in [Inodes -> InodeRec]
    /\ dblk \in [Blocks -> [Slots -> Record]]
    /\ op \in OpRec
    /\ crashed \in BOOLEAN /\ lost \subseteq {0} \union Inodes

\* The file that truncate or write_existing empties: its blocks are given back
\* before its inode forgets them.
Releasing ==
    IF op.kind \in {"truncate", "rewrite"} /\ op.pc \in {"free_commit", "clear_inode"}
    THEN {op.ino} ELSE {}

\* A block that a reachable file or directory claims is marked used in the
\* bitmap and is no metadata block (fsck.ext2: "not allocated", "metadata
\* block claimed"), whatever failed or crashed before.
ClaimedMarked ==
    \A i \in Linked \ Releasing : Claims(i) \subseteq bbm \ MetaBlocks

\* No two reachable files share a block, and none holds a block twice (fsck.ext2:
\* "multiply claimed"): neither the first-fit allocators nor the release of a
\* file's blocks ever hands one out again while somebody holds it.
SingleOwner ==
    \A i, j \in Linked : \A p \in 1 .. Len(itab[i].blks), q \in 1 .. Len(itab[j].blks) :
        /\ {itab[i].mode, itab[j].mode} \subseteq {"reg", "dir"}
        /\ itab[i].blks[p] = itab[j].blks[q]
        => i = j /\ p = q

\* A directory record leads to an inode that is marked used and written, and
\* every reachable directory holds its own "." and a ".." that leads to a
\* reachable directory: create and mkdir publish the name last.
RecordsSound ==
    /\ \A i \in Linked : i \in ibm /\ itab[i].mode # "none"
    /\ \A d \in LinkedDirs : \E p \in LinkedDirs :
          {[ino |-> d, name |-> "."], [ino |-> p, name |-> ".."]} \subseteq Entries(d)

\* Between operations, if none was interrupted, the free counters of every group
\* and of the superblock are what the bitmaps say, and bg_used_dirs_count counts
\* the reachable directories: also after operations that failed half way.
CountersExact ==
    op = Idle /\ ~crashed =>
        /\ cnt.sbB = Cardinality(Blocks \ bbm)
        /\ cnt.sbI = Cardinality(Inodes \ ibm)
        /\ \A g \in Groups :
              /\ cnt.gB[g] = Cardinality(GroupBlocks(g) \ bbm)
              /\ cnt.gI[g] = Cardinality(GroupInodes(g) \ ibm)
              /\ cnt.gD[g] = Cardinality(LinkedDirs \intersect GroupInodes(g))

\* Between operations, if none was interrupted, i_links_count is the number of
\* directory records that lead to the inode ("." and ".." included).
LinkCountsExact ==
    op = Idle /\ ~crashed =>
        \A i \in Linked :
            itab[i].links =
              Cardinality({p \in LinkedDirs \X (1 .. DirectSlots) \X Slots :
                             /\ p[2] <= Len(itab[p[1]].blks)
                             /\ dblk[itab[p[1]].blks[p[2]]][p[3]].ino = i})

\* Between operations, if none was interrupted, everything marked used has an
\* owner: the only inodes and blocks lost are those of operations that failed
\* after ext2_alloc_inode and return without giving them back.
OnlyFailuresLeak ==
    op = Idle /\ ~crashed =>
        /\ ibm = Reserved \union Linked \union lost
        /\ bbm = MetaBlocks \union UNION {Claims(i) : i \in Linked \union lost}

\* A directory never holds two records with one name, whichever slot the append
\* found and whatever tombstones are left.
UniqueNames ==
    \A d \in LinkedDirs : \A k, l \in 1 .. Len(itab[d].blks) : \A s, t \in Slots :
        LET e == dblk[itab[d].blks[k]][s]
            f == dblk[itab[d].blks[l]][t]
        IN  e.ino # 0 /\ f.ino # 0 /\ e.name = f.name => k = l /\ s = t

\* A name disappears only when unlink removes it: no other write of a block, an
\* inode or a directory takes a record of another name with it.
NamesSurvive ==
    [][\A d \in LinkedDirs, n \in Names :
          HasEntry(d, n) =>
             \/ HasEntry(d, n)' /\ Target(d, n)' = Target(d, n)
             \/ op.kind = "unlink" /\ op.dir = d /\ op.name = n]_vars

\* The allocators trust the counters of the group descriptors and pass over a group
\* that has none left, as the handler keeps them in memory in the middle of an
\* operation: as long as none was interrupted they give up only on a full volume, and
\* never with an inode or a block free.
RoomFound ==
    ~crashed =>
        /\ At("alloc_inode") /\ FreeInodes = {} => Inodes \subseteq ibm
        /\ op.pc \in {"alloc_block", "append"} /\ FreeBlocks(bbm) = {} => Blocks \subseteq bbm
        /\ At("alloc_data") /\ FreeBlocks(CtxBitmap) = {} => Blocks \subseteq CtxBitmap
==============================================================================
