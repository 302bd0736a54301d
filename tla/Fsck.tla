-------------------------------- MODULE Fsck --------------------------------
(***************************************************************************)
(* fsck.ext2 (src/cmd_fsck_ext2.c, src/fsck_ext2_*.c): the read-only       *)
(* check of an image, as a predicate on the disk of Ext2.                  *)
(*                                                                         *)
(* Abstractions.  The checker walks inodes and pointer blocks one by one   *)
(* and counts complaints; here a complaint is a condition on the whole     *)
(* disk, so that the order of the walk is left out and only whether there  *)
(* is one matters: the exit status.  Reads do not fail.                    *)
(***************************************************************************)
EXTENDS Ext2

\* The groups that the superblock implies, and room in each for its metadata.
FsckGeometry ==
    /\ (BlocksCount + BlocksPerGroup - 1) \div BlocksPerGroup = GroupCount
    /\ \A g \in Groups : DataRel <= GroupBlockCount(g)

\* Allocated inodes; reserved ones need not have a type.
Checked == {i \in ibm : i >= FirstIno \/ i = Root}

\* fsck_ext2_check_inodes
InodesFine == \A i \in Checked : itab[i].mode # "none" /\ itab[i].links > 0

\* fsck_check_direct: the blocks of i that are walked.  Devices and short links
\* keep other things in i_block[].
Walked(i) == IF itab[i].mode \in {"dev", "lnk"} THEN << >> ELSE itab[i].blks

\* claim: in bounds, marked used, and the first claim of a block that is no metadata
Pointers == {p \in Checked \X (1 .. BlocksCount) : p[2] <= Len(Walked(p[1]))}
BlockAt(p) == Walked(p[1])[p[2]]
ClaimsFine ==
    \A p \in Pointers :
        /\ BlockAt(p) \in bbm \ MetaBlocks
        /\ \A q \in Pointers : BlockAt(q) = BlockAt(p) => q = p

\* fsck_check_directory: the records of the directory blocks that are marked used
FsckRecords ==
    {r \in Pointers \X Slots :
        /\ itab[r[1][1]].mode = "dir"
        /\ r[1][2] <= DirectSlots
        /\ BlockAt(r[1]) \in bbm
        /\ dblk[BlockAt(r[1])][r[2]].ino # 0}
Leads(r) == dblk[BlockAt(r[1])][r[2]].ino
RecordsFine == \A r \in FsckRecords : Leads(r) \in ibm

\* Mutant: an inode passes with more links than records lead to it.
LinksAtMost ==
    \A i \in Checked : itab[i].links >= Cardinality({r \in FsckRecords : Leads(r) = i})
\* directory_refs against i_links_count
LinksFine ==
    \A i \in Checked : itab[i].links = Cardinality({r \in FsckRecords : Leads(r) = i})

\* The free counters of the groups and of the superblock, and what must be marked.
\* bg_used_dirs_count is not read.
CountersFine ==
    /\ \A g \in Groups : /\ cnt.gB[g] = Cardinality(GroupBlocks(g) \ bbm)
                         /\ cnt.gI[g] = Cardinality(GroupInodes(g) \ ibm)
    /\ cnt.sbB = Cardinality(Blocks \ bbm)
    /\ cnt.sbI = Cardinality(Inodes \ ibm)
    /\ MetaBlocks \subseteq bbm
    /\ Reserved \subseteq ibm

\* Every block that is marked used has an owner.
OwnersFine == bbm \subseteq MetaBlocks \union {BlockAt(p) : p \in Pointers}

\* ext2_fsck_phase1 returns 0.
FsckClean ==
    /\ FsckGeometry
    /\ InodesFine /\ ClaimsFine /\ RecordsFine /\ LinksFine
    /\ CountersFine /\ OwnersFine

------------------------------------------------------------------------------

\* What an image that passes must be worth: of what a path leads to, every block
\* is marked and has one owner and the link counts are right, and nothing that is
\* marked used is out of reach.
Sound ==
    /\ ClaimedMarked /\ SingleOwner /\ RecordsSound
    /\ ibm = Reserved \union Linked
    /\ bbm = MetaBlocks \union UNION {Claims(i) : i \in Linked}

\* fsck.ext2 can be believed both ways.  An image on which every operation ran to
\* its end gives no complaint, and an image without a complaint is sound, also
\* one that a crash or a failed operation has left.
FsckTruthful ==
    op = Idle =>
        /\ ~crashed /\ lost = {} => FsckClean
        /\ FsckClean => Sound
==============================================================================
