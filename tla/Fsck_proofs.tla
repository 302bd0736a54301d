---------------------------- MODULE Fsck_proofs ----------------------------
(***************************************************************************)
(* Proof that fsck.ext2 can be believed: FsckTruthful is an invariant of   *)
(* the EXT2 engine.  That an undisturbed image gives no complaint follows  *)
(* from IInv, CountInv and LinkInv; that an image without a complaint is   *)
(* sound, also after crashes, needs FsckInv of Ext2Inv: what the records   *)
(* of directories look like that no path leads to.                         *)
(***************************************************************************)
EXTENDS Ext2Count_proofs, Fsck

------------------------------------------------------------------------------
(* Records and link counts of lost directories                               *)

\* Steps that write directory blocks only.
LEMMA DotsKept ==
    ASSUME TypeInv, FsckInv, itab' = itab, LinkedDirs \subseteq LinkedDirs',
           \A d \in DirInodes : d \in Linked => d \in Linked',
           \A d \in DirInodes : \A k \in 1 .. Len(itab[d].blks), s \in Slots :
               \/ Rec(d, k, s)' = Rec(d, k, s)
               \/ Rec(d, k, s)'.ino = 0
               \/ Live(d, k, s)'
               \/ k = 1 /\ s = 0 /\ Rec(d, k, s)'.ino = d
               \/ Rec(d, k, s)'.ino \in LinkedDirs',
           \A b \in Blocks : Dotted(b)' => Dotted(b) \/ \E d \in DirInodes : b \in Claims(d)
    PROVE  FsckInv'
  <1> USE DEF FsckInv
  <1>1. DirInodes' = DirInodes /\ \A i : Claims(i)' = Claims(i) BY DEF DirInodes, Claims
  <1>2. DotsHome'
    <2> SUFFICES ASSUME NEW d \in DirInodes, NEW k \in 1 .. Len(itab[d].blks), NEW s \in Slots
                 PROVE  \/ Rec(d, k, s)'.ino = 0
                        \/ Live(d, k, s)'
                        \/ k = 1 /\ s = 0 /\ Rec(d, k, s)'.ino = d
                        \/ Rec(d, k, s)'.ino \in LinkedDirs'
      BY <1>1 DEF DotsHome
    <2>1. Rec(d, k, s)' = Rec(d, k, s) => (Live(d, k, s)' <=> Live(d, k, s)) BY DEF Live
    <2> QED BY <2>1 DEF DotsHome
  <1>3. DotsOwned' BY <1>1 DEF DotsOwned
  <1>4. OrphanLinks' BY <1>1 DEF OrphanLinks
  <1>5. ReservedPlain' BY <1>1 DEF ReservedPlain
  <1> QED BY <1>2, <1>3, <1>4, <1>5

\* Steps that write neither inodes nor directory blocks.
LEMMA FsckQuiet == ASSUME FsckInv, UNCHANGED <<itab, dblk>> PROVE FsckInv'
  <1> USE DEF FsckInv
  <1>1. \A b : Dotted(b)' <=> Dotted(b) BY DEF Dotted
  <1>2. DotsHome' BY QuietView DEF DotsHome
  <1>3. DotsOwned' BY <1>1, QuietView DEF DotsOwned
  <1>4. (OrphanLinks /\ ReservedPlain)' BY QuietView DEF OrphanLinks, ReservedPlain
  <1> QED BY <1>2, <1>3, <1>4

LEMMA FsckWriteInode ==
    ASSUME Harmless, TypeInv, TypeInv', IInv, FsckInv, WriteInode
    PROVE  FsckInv'
  <1> PICK x : x = op.ino OBVIOUS
  <1> USE DEF FsckInv
  <1>0. dblk' = dblk /\ op.pc = "write_inode" BY DEF WriteInode, At
  <1>1. /\ op.kind \in {"create", "mkdir", "mknod", "symlink", "rewrite"}
        /\ x \in Inodes /\ x \notin DirInodes
        /\ op.kind # "rewrite" => x \notin Reserved
        /\ itab'[x].blks = op.blks
        /\ op.kind # "mkdir" => itab'[x].mode # "dir"
        /\ \A i \in Inodes : i # x => itab'[i] = itab[i]
    BY NewInodeFacts
  <1>2. /\ Linked' = Linked /\ LinkedDirs' = LinkedDirs
        /\ \A d \in DirInodes : \A k, s : Rec(d, k, s)' = Rec(d, k, s) /\ (Live(d, k, s)' <=> Live(d, k, s))
    BY WriteInodeDisk
  <1>3. \A d \in DirInodes : d \in Inodes /\ d # x /\ itab'[d] = itab[d] /\ d \in DirInodes'
                             /\ Claims(d)' = Claims(d)
    BY <1>1 DEF DirInodes, Claims
  <1>4. \A d \in DirInodes' : d \in DirInodes \/ (d = x /\ op.kind = "mkdir")
    BY <1>1 DEF DirInodes
  <1>5. op.kind = "mkdir" => itab'[x].links = 2 /\ x \notin Reserved
    <2>1. op.kind = "mkdir" => itab'[x] = [mode |-> "dir", links |-> 2, blks |-> op.blks]
      BY <1>1 DEF WriteInode, NewInode, TypeInv, TypeOK
    <2> QED BY <1>1, <2>1
  <1>6. op.kind = "mkdir" => \A b \in Elems(op.blks), s \in Slots : dblk[b][s].ino = 0
    <2> SUFFICES ASSUME op.kind = "mkdir", NEW b \in Elems(op.blks), NEW s \in Slots
                 PROVE  dblk[b][s].ino = 0
      OBVIOUS
    <2>1. Held BY <1>0 DEF Held
    <2>2. ~Loud(b) /\ \A i \in Owners : b \notin Claims(i)
      BY <2>1 DEF IInv, OpInv, OpBlocks
    <2>3. b \in Blocks BY DEF TypeInv, BlocksTyped
    <2>4. ~Dotted(b) BY <2>2, <2>3 DEF DotsOwned, Owners
    <2> QED BY <2>2, <2>4 DEF Loud, Dotted
  <1>7. DotsHome'
    <2> SUFFICES ASSUME NEW d \in DirInodes', NEW k \in 1 .. Len(itab'[d].blks), NEW s \in Slots
                 PROVE  \/ Rec(d, k, s)'.ino = 0
                        \/ Live(d, k, s)'
                        \/ k = 1 /\ s = 0 /\ Rec(d, k, s)'.ino = d
                        \/ Rec(d, k, s)'.ino \in LinkedDirs'
      BY DEF DotsHome
    <2>1. CASE d \in DirInodes BY <1>2, <1>3, <2>1 DEF DotsHome
    <2>2. CASE d = x /\ op.kind = "mkdir"
      <3>1. op.blks[k] \in Elems(op.blks) /\ itab'[d].blks[k] = op.blks[k] BY <1>1, <2>2 DEF Elems
      <3>2. Rec(d, k, s)' = dblk[op.blks[k]][s] BY <1>0, <3>1 DEF Rec
      <3> QED BY <1>6, <2>2, <3>1, <3>2
    <2> QED BY <1>4, <2>1, <2>2
  <1>8. DotsOwned'
    <2>1. \A b : Dotted(b)' <=> Dotted(b) BY <1>0 DEF Dotted
    <2> QED BY <1>3, <2>1 DEF DotsOwned
  <1>9. OrphanLinks' BY <1>2, <1>3, <1>4, <1>5 DEF OrphanLinks
  <1>10. ReservedPlain' BY <1>4, <1>5 DEF ReservedPlain
  <1> QED BY <1>7, <1>8, <1>9, <1>10

LEMMA FsckClearInode ==
    ASSUME TypeInv, TypeInv', IInv, FsckInv, ClearInode
    PROVE  FsckInv'
  <1> USE DEF FsckInv
  <1>1. /\ Linked' = Linked /\ DirInodes' = DirInodes /\ LinkedDirs' = LinkedDirs
        /\ \A d \in DirInodes : \A k, s : Rec(d, k, s)' = Rec(d, k, s) /\ (Live(d, k, s)' <=> Live(d, k, s))
    BY ClearInodeDisk
  <1>2. dblk' = dblk /\ op.ino \notin DirInodes
    BY LinkedIs DEF ClearInode, At, IInv, OpInv, OpTarget, TypeInv, OpPath, Removing, DirInodes
  <1>3. \A d \in DirInodes : itab'[d] = itab[d] /\ Claims(d)' = Claims(d)
    BY <1>2 DEF ClearInode, DirInodes, TypeInv, TypeOK, Claims
  <1>4. \A b : Dotted(b)' <=> Dotted(b) BY <1>2 DEF Dotted
  <1>5. DotsHome' BY <1>1, <1>3 DEF DotsHome
  <1>6. DotsOwned' BY <1>1, <1>3, <1>4 DEF DotsOwned
  <1>7. (OrphanLinks /\ ReservedPlain)' BY <1>1, <1>3 DEF OrphanLinks, ReservedPlain
  <1> QED BY <1>5, <1>6, <1>7

LEMMA FsckLinkParent ==
    ASSUME TypeInv, TypeInv', IInv, FsckInv, LinkParent
    PROVE  FsckInv'
  <1> USE DEF FsckInv
  <1>1. Linked' = Linked /\ LinkedDirs' = LinkedDirs BY LinkParentInv
  <1>2. /\ dblk' = dblk
        /\ \A i \in Inodes : itab'[i].mode = itab[i].mode /\ itab'[i].blks = itab[i].blks
        /\ \A i \in Inodes : i # op.dir => itab'[i].links = itab[i].links
    BY DEF LinkParent, TypeInv, TypeOK, InodeRec
  <1>3. op.dir \in Linked BY DEF IInv, OpInv, OpDir
  <1>4. DirInodes' = DirInodes /\ \A d \in DirInodes : d \in Inodes /\ Claims(d)' = Claims(d)
    BY <1>2 DEF DirInodes, Claims
  <1>5. \A b : Dotted(b)' <=> Dotted(b) BY <1>2 DEF Dotted
  <1>6. \A d \in DirInodes : \A k, s : Rec(d, k, s)' = Rec(d, k, s) /\ (Live(d, k, s)' <=> Live(d, k, s))
    BY <1>2, <1>4 DEF Rec, Live
  <1>7. DotsHome' BY <1>1, <1>2, <1>4, <1>6 DEF DotsHome
  <1>8. DotsOwned' BY <1>4, <1>5 DEF DotsOwned
  <1>9. (OrphanLinks /\ ReservedPlain)' BY <1>1, <1>2, <1>3, <1>4 DEF OrphanLinks, ReservedPlain
  <1> QED BY <1>7, <1>8, <1>9

\* A new name: its record is a live one.
LEMMA FsckAppend ==
    ASSUME TypeInv, TypeInv', IInv, FsckInv, AppendDirent
    PROVE  FsckInv'
  <1> PICK D : D = op.dir OBVIOUS
  <1>0. itab' = itab /\ op.pc = "append" /\ itab[D].mode = "dir" BY DEF AppendDirent, At
  <1>1. Linked' = Linked \union {op.ino} /\ LinkedDirs' = LinkedDirs \union NewDir
    BY AppendDirentInv
  <1>2. op.name \in Names /\ op.ino \in Inodes /\ op.ino # 0 /\ D \in DirInodes
    BY <1>0, PublishFacts, RootFacts
  <1>3. PICK K \in 1 .. Len(itab[D].blks), S \in Slots : K = FirstSlack[1] /\ S = FirstSlack[2]
    BY FirstSlackFacts DEF AppendDirent
  <1> PICK c : c = itab[D].blks[K] OBVIOUS
  <1> DEFINE r == [ino |-> op.ino, name |-> op.name]
  <1>4. dblk' = [dblk EXCEPT ![c][S] = r] BY <1>3 DEF AppendDirent
  <1>5. r.ino = op.ino /\ r.name = op.name OBVIOUS
  <1>6. c \in Blocks BY <1>2, DirBlocks
  <1>7. \A b \in Blocks, s \in Slots : dblk'[b][s] = dblk[b][s] \/ dblk'[b][s] = r
    BY <1>4, <1>6 DEF TypeInv, TypeOK
  <1>8. ASSUME NEW d \in DirInodes, NEW k \in 1 .. Len(itab[d].blks), NEW s \in Slots
        PROVE  Rec(d, k, s)' = Rec(d, k, s) \/ Live(d, k, s)'
    <2>1. itab[d].blks[k] \in Blocks BY DirBlocks
    <2>2. Rec(d, k, s)' = Rec(d, k, s) \/ Rec(d, k, s)' = r BY <1>0, <1>7, <2>1 DEF Rec
    <2> HIDE DEF r
    <2> QED BY <1>2, <1>5, <2>2 DEF Live
  <1>9. ASSUME NEW b \in Blocks, Dotted(b)' PROVE Dotted(b)
    <2>1. PICK s \in Slots : dblk'[b][s].ino # 0 /\ dblk'[b][s].name \notin Names
      BY <1>9 DEF Dotted
    <2> HIDE DEF r
    <2>2. dblk'[b][s] = dblk[b][s] BY <1>2, <1>5, <1>7, <2>1
    <2> QED BY <2>1, <2>2 DEF Dotted
  <1> QED BY <1>0, <1>1, <1>8, <1>9, DotsKept

LEMMA FsckLinkGrown ==
    ASSUME TypeInv, TypeInv', IInv, FsckInv, LinkGrownBlock
    PROVE  FsckInv'
  <1> USE DEF FsckInv
  <1> PICK D : D = op.dir OBVIOUS
  <1>0. dblk' = dblk /\ op.pc = "grow_inode" BY DEF LinkGrownBlock, At
  <1>1. Linked' = Linked \union {op.ino} /\ LinkedDirs' = LinkedDirs \union NewDir
    BY LinkGrownInv
  <1>2. itab[D].mode = "dir" /\ dblk[op.extra] = OneEntry(op.ino, op.name)
    BY <1>0 DEF IInv, OpInv, OpDir, OpExtra
  <1>3. op.name \in Names /\ op.ino \in Inodes /\ op.ino # 0 /\ D \in DirInodes
    BY <1>0, <1>2, PublishFacts, RootFacts
  <1>4. itab[D].blks \in Seq(Nat) /\ op.extra \in Nat /\ D \in Inodes
    BY BlocksFinite DEF TypeInv, TypeOK, OpRec, InodeRec
  <1>5. /\ \A i \in Inodes : i # D => itab'[i] = itab[i]
        /\ itab'[D].mode = itab[D].mode /\ itab'[D].links = itab[D].links
        /\ itab'[D].blks = Append(itab[D].blks, op.extra)
    BY <1>4 DEF LinkGrownBlock, TypeInv, TypeOK, InodeRec
  <1>6. DirInodes' = DirInodes /\ \A d \in DirInodes : d \in Inodes BY <1>5 DEF DirInodes
  <1>7. \A k \in 1 .. Len(itab'[D].blks) :
           \/ k \in 1 .. Len(itab[D].blks) /\ itab'[D].blks[k] = itab[D].blks[k]
           \/ itab'[D].blks[k] = op.extra
    BY <1>4, <1>5
  <1>8. \A s \in Slots : dblk[op.extra][s].ino = 0
                         \/ (dblk[op.extra][s].ino # 0 /\ dblk[op.extra][s].name \in Names)
    <2>1. FreeSlot.ino = 0 BY DEF FreeSlot
    <2>2. \A s \in Slots : dblk[op.extra][s] = [ino |-> op.ino, name |-> op.name]
                           \/ dblk[op.extra][s] = FreeSlot
      BY <1>2 DEF OneEntry
    <2>3. [ino |-> op.ino, name |-> op.name].ino = op.ino /\ [ino |-> op.ino, name |-> op.name].name = op.name
      OBVIOUS
    <2> QED BY <1>3, <2>1, <2>2, <2>3
  <1>9. DotsHome'
    <2> SUFFICES ASSUME NEW d \in DirInodes, NEW k \in 1 .. Len(itab'[d].blks), NEW s \in Slots
                 PROVE  \/ Rec(d, k, s)'.ino = 0
                        \/ Live(d, k, s)'
                        \/ k = 1 /\ s = 0 /\ Rec(d, k, s)'.ino = d
                        \/ Rec(d, k, s)'.ino \in LinkedDirs'
      BY <1>6 DEF DotsHome
    <2>1. CASE k \in 1 .. Len(itab[d].blks) /\ itab'[d].blks[k] = itab[d].blks[k]
      <3>1. Rec(d, k, s)' = Rec(d, k, s) /\ (Live(d, k, s)' <=> Live(d, k, s))
        BY <1>0, <2>1 DEF Rec, Live
      <3> QED BY <1>1, <2>1, <3>1 DEF DotsHome
    <2>2. CASE itab'[d].blks[k] = op.extra
      <3>1. Rec(d, k, s)' = dblk[op.extra][s] BY <1>0, <2>2 DEF Rec
      <3> QED BY <1>8, <3>1 DEF Live
    <2> QED BY <1>5, <1>6, <1>7, <2>1, <2>2
  <1>10. \A d \in DirInodes : Claims(d) \subseteq Claims(d)'
    <2>1. \A k \in 1 .. Len(itab[D].blks) : k \in 1 .. Len(itab'[D].blks) /\ itab'[D].blks[k] = itab[D].blks[k]
      BY <1>4, <1>5
    <2>2. Elems(itab[D].blks) \subseteq Elems(itab'[D].blks) BY <2>1 DEF Elems
    <2> QED BY <1>5, <1>6, <2>2 DEF Claims
  <1>11. DotsOwned'
    <2>1. \A b : Dotted(b)' <=> Dotted(b) BY <1>0 DEF Dotted
    <2> QED BY <1>6, <1>10, <2>1 DEF DotsOwned
  <1>12. OrphanLinks' BY <1>1, <1>5, <1>6 DEF OrphanLinks
  <1>13. ReservedPlain' BY <1>6 DEF ReservedPlain
  <1> QED BY <1>9, <1>11, <1>12, <1>13

\* Blocks that belong to nobody are written, and nothing but live records.
LEMMA FsckWriteData ==
    ASSUME TypeInv, TypeInv', IInv, FsckInv, WriteData \/ WriteGrownBlock
    PROVE  FsckInv'
  <1>0. itab' = itab /\ Linked' = Linked /\ LinkedDirs' = LinkedDirs
    BY WriteDataInv, WriteGrownInv DEF WriteData, WriteGrownBlock
  <1>1. FreeSlot.ino = 0 BY DEF FreeSlot
  <1>2. ASSUME NEW b \in Blocks, dblk'[b] # dblk[b]
        PROVE  (\A i \in Owners : b \notin Claims(i)) /\ ~Dotted(b)'
    <2>1. CASE WriteData
      <3>1. Held BY <2>1 DEF WriteData, At, Held, TypeInv, OpPath
      <3>2. b \in Elems(op.blks) /\ dblk'[b] = Blank BY <1>2, <2>1 DEF WriteData
      <3>3. \A i \in Owners : b \notin Claims(i) BY <3>1, <3>2 DEF IInv, OpInv, OpBlocks
      <3>4. \A s \in Slots : dblk'[b][s] = FreeSlot BY <3>2 DEF Blank
      <3> QED BY <1>1, <3>3, <3>4 DEF Dotted
    <2>2. CASE WriteGrownBlock
      <3>1. op.pc = "grow_block" /\ op.kind \in Making /\ op.extra \in Blocks
        BY <2>2 DEF WriteGrownBlock, At, TypeInv, OpPath, TypeOK, OpRec
      <3>2. b = op.extra /\ dblk'[b] = OneEntry(op.ino, op.name)
        BY <1>2, <2>2, <3>1 DEF WriteGrownBlock, TypeInv, TypeOK
      <3>3. \A i \in Owners : b \notin Claims(i) BY <3>1, <3>2 DEF IInv, OpInv, OpExtra
      <3>4. \A s \in Slots : dblk'[b][s] = [ino |-> op.ino, name |-> op.name] \/ dblk'[b][s] = FreeSlot
        BY <3>2 DEF OneEntry
      <3>5. [ino |-> op.ino, name |-> op.name].name = op.name OBVIOUS
      <3>6. op.name \in Names BY <3>1 DEF IInv, OpInv, OpDir, Making
      <3> QED BY <1>1, <3>3, <3>4, <3>5, <3>6 DEF Dotted
    <2> QED BY <2>1, <2>2
  <1>3. ASSUME NEW d \in DirInodes, NEW k \in 1 .. Len(itab[d].blks), NEW s \in Slots
        PROVE  Rec(d, k, s)' = Rec(d, k, s)
    <2>1. itab[d].blks[k] \in Blocks /\ itab[d].blks[k] \in Claims(d) /\ d \in Owners BY DirBlocks
    <2> QED BY <1>0, <1>2, <2>1 DEF Rec
  <1>4. \A b \in Blocks : Dotted(b)' => Dotted(b) BY <1>2 DEF Dotted
  <1> QED BY <1>0, <1>3, <1>4, DotsKept

\* "." and ".." of a new directory.
LEMMA FsckWriteDirBlock ==
    ASSUME TypeInv, TypeInv', IInv, FsckInv, WriteDirBlock
    PROVE  FsckInv'
  <1> PICK x : x = op.ino OBVIOUS
  <1> PICK c : c = op.blks[1] OBVIOUS
  <1>0. itab' = itab /\ Linked' = Linked /\ LinkedDirs' = LinkedDirs
    BY WriteDirBlockInv DEF WriteDirBlock
  <1>1. op.pc = "write_dirblk" /\ op.kind = "mkdir" BY DEF WriteDirBlock, At, TypeInv, OpPath
  <1>2. itab[x].mode = "dir" /\ itab[x].blks = op.blks /\ Len(op.blks) = 1
    BY <1>1 DEF IInv, OpInv, OpWritten
  <1>3. x \in DirInodes /\ op.dir \in LinkedDirs
    <2>1. x \in Inodes
      BY <1>1 DEF IInv, OpInv, OpInode, MakingPcs, NamingPcs, Making, TypeInv, TypeOK
    <2> QED BY <1>1, <1>2, <2>1 DEF DirInodes, LinkedDirs, IInv, OpInv, OpDir
  <1>4. 1 \in 1 .. Len(itab[x].blks) /\ itab[x].blks[1] = c BY <1>2
  <1>5. c \in Blocks /\ c \in Claims(x) BY <1>3, <1>4, DirBlocks
  <1>6. dblk'[c] = DotBlock(x, op.dir) /\ \A b \in Blocks : b # c => dblk'[b] = dblk[b]
    BY <1>5 DEF WriteDirBlock, TypeInv, TypeOK
  <1>7. \A s \in Slots : \/ s = 0 /\ dblk'[c][s].ino = x
                         \/ dblk'[c][s].ino = op.dir
                         \/ dblk'[c][s].ino = 0
    <2>1. FreeSlot.ino = 0 BY DEF FreeSlot
    <2>2. \A s \in Slots : \/ s = 0 /\ dblk'[c][s] = [ino |-> x, name |-> "."]
                           \/ dblk'[c][s] = [ino |-> op.dir, name |-> ".."]
                           \/ dblk'[c][s] = FreeSlot
      BY <1>6 DEF DotBlock
    <2> QED BY <2>1, <2>2
  <1>8. ASSUME NEW d \in DirInodes, NEW k \in 1 .. Len(itab[d].blks), NEW s \in Slots
        PROVE  \/ Rec(d, k, s)' = Rec(d, k, s)
               \/ Rec(d, k, s)'.ino = 0
               \/ k = 1 /\ s = 0 /\ Rec(d, k, s)'.ino = d
               \/ Rec(d, k, s)'.ino \in LinkedDirs'
    <2>1. itab[d].blks[k] \in Blocks BY DirBlocks
    <2>2. CASE itab[d].blks[k] = c
      <3>1. d = x /\ k = 1 BY <1>3, <1>4, <2>2, DirPositions DEF IInv, DiskInv
      <3>2. Rec(d, k, s)' = dblk'[c][s] BY <1>0, <2>2 DEF Rec
      <3> QED BY <1>0, <1>3, <1>7, <3>1, <3>2
    <2>3. CASE itab[d].blks[k] # c BY <1>0, <1>6, <2>1, <2>3 DEF Rec
    <2> QED BY <2>2, <2>3
  <1>9. \A b \in Blocks : Dotted(b)' => Dotted(b) \/ \E d \in DirInodes : b \in Claims(d)
    BY <1>3, <1>5, <1>6 DEF Dotted
  <1> QED BY <1>0, <1>8, <1>9, DotsKept

LEMMA FsckRemove ==
    ASSUME TypeInv, TypeInv', IInv, FsckInv, RemoveDirent
    PROVE  FsckInv'
  <1>0. itab' = itab /\ op.ino \notin DirInodes /\ op.dir \in DirInodes BY RemoveFacts
  <1>1. Linked' = Linked \ {op.ino} /\ LinkedDirs' = LinkedDirs BY RemoveDirentInv
  <1>2. PICK K \in 1 .. Len(itab[op.dir].blks), S \in Slots :
           /\ \A b \in Blocks, t \in Slots :
                 b # itab[op.dir].blks[K] \/ t # S => dblk'[b][t] = dblk[b][t]
           /\ dblk'[itab[op.dir].blks[K]][S].ino = 0
    BY RemoveFacts
  <1>3. \A b \in Blocks, t \in Slots : dblk'[b][t] = dblk[b][t] \/ dblk'[b][t].ino = 0 BY <1>2
  <1>4. ASSUME NEW d \in DirInodes, NEW k \in 1 .. Len(itab[d].blks), NEW s \in Slots
        PROVE  Rec(d, k, s)' = Rec(d, k, s) \/ Rec(d, k, s)'.ino = 0
    <2>1. itab[d].blks[k] \in Blocks BY DirBlocks
    <2> QED BY <1>0, <1>3, <2>1 DEF Rec
  <1>5. \A b \in Blocks : Dotted(b)' => Dotted(b) BY <1>3 DEF Dotted
  <1> QED BY <1>0, <1>1, <1>4, <1>5, DotsKept

LEMMA FsckNext ==
    ASSUME Harmless, TypeInv, TypeInv', IInv, FsckInv, [Next]_vars
    PROVE  FsckInv'
  <1>1. CASE WriteInode BY <1>1, FsckWriteInode
  <1>2. CASE ClearInode BY <1>2, FsckClearInode
  <1>3. CASE LinkParent BY <1>3, FsckLinkParent
  <1>4. CASE LinkGrownBlock BY <1>4, FsckLinkGrown
  <1>5. CASE AppendDirent BY <1>5, FsckAppend
  <1>6. CASE WriteData \/ WriteGrownBlock BY <1>6, FsckWriteData
  <1>7. CASE WriteDirBlock BY <1>7, FsckWriteDirBlock
  <1>8. CASE RemoveDirent BY <1>8, FsckRemove
  <1>9. CASE UNCHANGED <<itab, dblk>> BY <1>9, FsckQuiet
  <1>10. Start => UNCHANGED <<itab, dblk>> BY StartQuiet
  <1>11. Crash \/ FailClean \/ FailAndLeak \/ UNCHANGED vars => UNCHANGED <<itab, dblk>>
    BY DEF Crash, FailClean, FailAndLeak, disk, vars
  <1>12. AllocInode \/ AllocBlock \/ AllocBlockCtx \/ StoreMeta \/ WriteBitmap \/ GrowDir
         \/ ReleaseBlocks \/ FreeInode => UNCHANGED <<itab, dblk>>
    BY DEF AllocInode, AllocBlock, AllocBlockCtx, StoreMeta, WriteBitmap, GrowDir, ReleaseBlocks,
           FreeInode, disk
  <1>13. AllocInodeFails \/ AllocBlockFails \/ AllocDataFails \/ ReleaseFails \/ AppendFails
         => UNCHANGED <<itab, dblk>>
    BY <1>11 DEF AllocInodeFails, AllocBlockFails, AllocDataFails, ReleaseFails, AppendFails, disk
  <1> QED BY <1>1, <1>2, <1>3, <1>4, <1>5, <1>6, <1>7, <1>8, <1>9, <1>10, <1>11, <1>12, <1>13
          DEF Next, Step

LEMMA FsckInit == Init => FsckInv
  <1> SUFFICES ASSUME Init PROVE FsckInv OBVIOUS
  <1>1. /\ Linked = {Root} /\ LinkedDirs = {Root} /\ DirInodes = {Root}
        /\ Claims(Root) = {RootBlock}
    BY InitView
  <1>2. itab[Root].blks = <<RootBlock>> /\ dblk[RootBlock] = DotBlock(Root, Root)
        /\ \A b \in Blocks : b # RootBlock => dblk[b] = Blank
    BY RootFacts, BlockFacts DEF Init
  <1>3. FreeSlot.ino = 0 BY DEF FreeSlot
  <1>4. \A k \in 1 .. Len(itab[Root].blks) : itab[Root].blks[k] = RootBlock BY <1>2
  <1>5. \A s \in Slots : dblk[RootBlock][s].ino \in {0, Root}
    <2>1. \A s \in Slots : \/ dblk[RootBlock][s] = [ino |-> Root, name |-> "."]
                           \/ dblk[RootBlock][s] = [ino |-> Root, name |-> ".."]
                           \/ dblk[RootBlock][s] = FreeSlot
      BY <1>2 DEF DotBlock
    <2> QED BY <1>3, <2>1
  <1>6. DotsHome BY <1>1, <1>4, <1>5 DEF DotsHome, Rec
  <1>7. DotsOwned
    <2>1. \A b \in Blocks : Dotted(b) => b = RootBlock BY <1>2, <1>3 DEF Dotted, Blank
    <2> QED BY <1>1, <2>1 DEF DotsOwned
  <1>8. OrphanLinks /\ ReservedPlain BY <1>1 DEF OrphanLinks, ReservedPlain
  <1> QED BY <1>6, <1>7, <1>8 DEF FsckInv

LEMMA FsckInvariant == ASSUME Harmless PROVE Spec => []FsckInv
  <1>1. Init => FsckInv BY FsckInit
  <1>2. TypeInv /\ TypeInv' /\ IInv /\ FsckInv /\ [Next]_vars => FsckInv' BY FsckNext
  <1> QED BY <1>1, <1>2, IInvCorrect, PTL DEF Spec


------------------------------------------------------------------------------
(* An image that nothing disturbed gives no complaint                        *)

\* The groups are as many as the superblock implies, and none is too short.
LEMMA GeometryFine == FsckGeometry
  <1>1. \A g \in Groups : DataRel <= GroupBlockCount(g)
    BY GroupRoom, GeometryAssumption DEF Groups
  <1> PICK r : r = BlocksCount - (GroupCount - 1) * BlocksPerGroup - 1 OBVIOUS
  <1>2. (GroupCount - 1) * BlocksPerGroup \in Nat
        /\ GroupCount * BlocksPerGroup = (GroupCount - 1) * BlocksPerGroup + BlocksPerGroup
    BY GeometryAssumption
  <1>3. r \in 0 .. BlocksPerGroup - 1 BY <1>2, GeometryAssumption
  <1>4. BlocksCount + BlocksPerGroup - 1 = GroupCount * BlocksPerGroup + r
    BY <1>2, GeometryAssumption
  <1>5. (GroupCount * BlocksPerGroup + r) \div BlocksPerGroup = GroupCount
    BY <1>3, DivMod, GeometryAssumption
  <1> QED BY <1>1, <1>4, <1>5 DEF FsckGeometry

\* What an inode on a path claims are different blocks: there are not more of
\* them than the image has, which is as far as Pointers goes.
LEMMA ClaimsBounded ==
    ASSUME TypeInv, IInv, NEW i \in Linked, HasBlocks(i)
    PROVE  Len(itab[i].blks) \in Nat /\ Len(itab[i].blks) <= BlocksCount
           /\ \A k \in 1 .. Len(itab[i].blks) : itab[i].blks[k] \in Blocks
  <1> PICK n : n = Len(itab[i].blks) OBVIOUS
  <1> PICK w : w = itab[i].blks OBVIOUS
  <1>1. i \in Inodes /\ n \in Nat /\ w \in Seq(Nat) BY LinkedIs DEF TypeInv, TypeOK, InodeRec
  <1>2. \A k \in 1 .. n : w[k] \in Blocks BY <1>1 DEF TypeInv, BlocksTyped, HasBlocks, Elems
  <1>3. \A p, q \in 1 .. n : w[p] = w[q] => p = q
    BY DEF IInv, DiskInv, OwnersDisjoint, Owners
  <1> DEFINE f == [k \in 1 .. n |-> w[k]]
  <1>4. f \in [1 .. n -> Blocks] BY <1>2
  <1>5. \A p, q \in 1 .. n : f[p] = f[q] => p = q BY <1>3
  <1>6. f \in Injection(1 .. n, Blocks)
    <2> HIDE DEF f
    <2> QED BY <1>4, <1>5, Fun_IsInj
  <1>7. IsFiniteSet(Blocks) /\ Cardinality(Blocks) = BlocksCount /\ Cardinality(1 .. n) = n
    <2>1. BlocksCount \in Nat BY GeometryAssumption
    <2>2. IsFiniteSet(0 .. BlocksCount - 1)
          /\ Cardinality(0 .. BlocksCount - 1) = IF 0 > BlocksCount - 1 THEN 0 ELSE (BlocksCount - 1) - 0 + 1
      BY <2>1, FS_Interval
    <2>3. Cardinality(1 .. n) = IF 1 > n THEN 0 ELSE n - 1 + 1
      <3>1. n \in Int /\ 1 \in Int BY <1>1
      <3> QED BY ONLY <3>1, FS_Interval
    <2>4. Cardinality(Blocks) = Cardinality(0 .. BlocksCount - 1) BY Zenon DEF Blocks
    <2>5. IsFiniteSet(Blocks) BY <2>2 DEF Blocks
    <2> QED BY <1>1, <2>1, <2>2, <2>3, <2>4, <2>5
  <1>8. Cardinality(1 .. n) <= Cardinality(Blocks)
    <2> HIDE DEF f
    <2> QED BY <1>6, <1>7, FS_Injection
  <1> QED BY <1>1, <1>2, <1>7, <1>8


\* The checker looks at every inode a path leads to.
LEMMA LinkedChecked == ASSUME TypeInv, IInv PROVE Linked \subseteq Checked
  <1> SUFFICES ASSUME NEW i \in Linked PROVE i \in Checked OBVIOUS
  <1>1. i \in ibm /\ i \in Inodes BY LinkedIs DEF IInv, DiskInv, OwnersAllocated, Owners
  <1>2. CASE i = Root BY <1>1, <1>2 DEF Checked
  <1>3. CASE i # Root
    <2>1. i \notin Reserved
      <3>1. PICK d \in DirInodes : \E k \in 1 .. Len(itab[d].blks), s \in Slots :
               Live(d, k, s) /\ Rec(d, k, s).ino = i
        BY <1>3, LinkedIs
      <3> QED BY <3>1 DEF IInv, RecordInv, RecordsUnreserved
    <2>2. i >= FirstIno BY <1>1, <2>1, GeometryAssumption DEF Reserved, Inodes
    <2> QED BY <1>1, <2>2 DEF Checked
  <1> QED BY <1>2, <1>3

\* Only with what it finds marked used, and only in directories, does it look for
\* records.
LEMMA RecordIs ==
    ASSUME TypeInv, NEW r \in FsckRecords
    PROVE  \E d \in DirInodes : \E k \in 1 .. Len(itab[d].blks), s \in Slots :
              /\ d \in Checked /\ r = <<<<d, k>>, s>>
              /\ Leads(r) = Rec(d, k, s).ino /\ Rec(d, k, s).ino # 0
  <1>1. PICK p \in Pointers, s \in Slots :
           /\ r = <<p, s>> /\ itab[p[1]].mode = "dir" /\ dblk[BlockAt(p)][s].ino # 0
    BY DEF FsckRecords
  <1>2. PICK d \in Checked, k \in 1 .. BlocksCount : p = <<d, k>> /\ k <= Len(Walked(d))
    BY DEF Pointers
  <1>3. d \in Inodes /\ itab[d].mode = "dir" BY <1>1, <1>2 DEF Checked, TypeInv, TypeOK
  <1>4. Walked(d) = itab[d].blks /\ BlockAt(p) = itab[d].blks[k]
    BY <1>2, <1>3 DEF Walked, BlockAt
  <1>5. k \in 1 .. Len(itab[d].blks)
    <2>1. Len(itab[d].blks) \in Nat BY <1>3 DEF TypeInv, TypeOK, InodeRec
    <2> QED BY <1>2, <1>4, <2>1, GeometryAssumption
  <1>6. Leads(r) = Rec(d, k, s).ino BY <1>1, <1>4 DEF Leads, Rec
  <1>7. d \in DirInodes BY <1>3 DEF DirInodes
  <1>8. Rec(d, k, s).ino # 0 BY <1>1, <1>4 DEF Rec
  <1> QED BY <1>1, <1>2, <1>5, <1>6, <1>7, <1>8

\* The walk reaches every block that a path leads to.
LEMMA PointerOf ==
    ASSUME TypeInv, IInv, NEW i \in Linked, HasBlocks(i), NEW k \in 1 .. Len(itab[i].blks)
    PROVE  <<i, k>> \in Pointers /\ BlockAt(<<i, k>>) = itab[i].blks[k]
  <1>1. i \in Checked BY LinkedChecked
  <1>2. Walked(i) = itab[i].blks BY DEF Walked, HasBlocks
  <1>3. k \in 1 .. BlocksCount /\ k <= Len(itab[i].blks) BY ClaimsBounded, GeometryAssumption
  <1>4. <<i, k>>[1] = i /\ <<i, k>>[2] = k OBVIOUS
  <1>5. <<i, k>> \in Checked \X (1 .. BlocksCount) BY <1>1, <1>3
  <1> QED BY <1>2, <1>3, <1>4, <1>5 DEF Pointers, BlockAt

LEMMA RecordOf ==
    ASSUME TypeInv, IInv, DirsShort, op = Idle, NEW d \in LinkedDirs,
           NEW k \in 1 .. Len(itab[d].blks), NEW s \in Slots, Rec(d, k, s).ino # 0
    PROVE  <<<<d, k>>, s>> \in FsckRecords /\ Leads(<<<<d, k>>, s>>) = Rec(d, k, s).ino
  <1> PICK p : p = <<d, k>> OBVIOUS
  <1>1. d \in Linked /\ itab[d].mode = "dir" /\ d \in DirInodes /\ HasBlocks(d)
    BY LinkedIs DEF LinkedDirs, DirInodes, HasBlocks
  <1>2. p \in Pointers /\ BlockAt(p) = itab[d].blks[k] BY <1>1, PointerOf
  <1>3. k <= DirectSlots
    <2>1. Len(itab[d].blks) \in Nat /\ Len(itab[d].blks) <= DirectSlots
      BY <1>1, ClaimsBounded DEF DirsShort
    <2> QED BY <2>1, PointersAssumption
  <1>4. BlockAt(p) \in bbm
    <2>1. op.kind = "none" BY DEF Idle
    <2>2. d \notin BeingFreed BY <2>1 DEF BeingFreed, Removing
    <2>3. itab[d].blks[k] \in Claims(d) /\ d \in Owners BY <1>1, DirBlocks
    <2> QED BY <1>2, <2>2, <2>3 DEF IInv, DiskInv, OwnersMarked
  <1> PICK r : r = <<p, s>> OBVIOUS
  <1>5. r[1] = p /\ r[2] = s /\ p[1] = d /\ p[2] = k OBVIOUS
  <1>6. r \in Pointers \X Slots BY <1>2
  <1>7. dblk[BlockAt(p)][s].ino = Rec(d, k, s).ino BY <1>2 DEF Rec
  <1>8. r \in FsckRecords
    BY <1>1, <1>3, <1>4, <1>5, <1>6, <1>7 DEF FsckRecords
  <1>9. Leads(r) = Rec(d, k, s).ino BY <1>5, <1>7 DEF Leads
  <1> QED BY <1>8, <1>9


\* Between operations, and before any crash or loss, what is marked used is what
\* a path leads to.
LEMMA UndisturbedView ==
    ASSUME TypeInv, IInv, CountInv, op = Idle, ~crashed, lost = {}
    PROVE  /\ ibm = Reserved \union Linked
           /\ bbm = MetaBlocks \union UNION {Claims(i) : i \in Linked}
           /\ Checked = Linked
  <1>1. op.pc = "idle" BY DEF Idle
  <1>2. Holder = {} /\ BeingFreed = {} /\ Pending = {} /\ MemBitmap = bbm BY <1>1, NobodyHolds
  <1>3. ibm = Reserved \union Linked BY <1>2 DEF CountInv, Owned, InodesOwned
  <1>4. bbm = MetaBlocks \union UNION {Claims(i) : i \in Linked}
    BY <1>2 DEF CountInv, Owned, BlocksOwned, Settled, Known
  <1>5. Checked \subseteq Linked
    <2> SUFFICES ASSUME NEW i \in Checked PROVE i \in Linked OBVIOUS
    <2>1. i \in ibm /\ i \in Inodes /\ (i >= FirstIno \/ i = Root) BY DEF Checked, TypeInv, TypeOK
    <2>2. i = Root \/ i \notin Reserved BY <2>1, GeometryAssumption DEF Reserved, Inodes
    <2> QED BY <1>3, <2>1, <2>2, LinkedIs
  <1> QED BY <1>3, <1>4, <1>5, LinkedChecked

\* Some record of a directory on a path leads to every inode on a path.
LEMMA SomeLeads ==
    ASSUME TypeInv, IInv, CountInv, FsckInv, op = Idle, ~crashed, lost = {}, NEW i \in Linked
    PROVE  \E d, k, s : LeadsTo(d, k, s, i)
  <1>1. CASE i = Root
    <2>1. Root \in LinkedDirs BY LinkedIs DEF LinkedDirs, IInv, DiskInv, RootIsDir
    <2>2. Len(itab[Root].blks) > 0 /\ Rec(Root, 1, 0) = [ino |-> Root, name |-> "."]
      BY <2>1 DEF IInv, RecordInv, DotsSound
    <2>3. Rec(Root, 1, 0).ino = Root BY <2>2
    <2>4. 1 \in 1 .. Len(itab[Root].blks)
      <3>1. Len(itab[Root].blks) \in Nat BY RootFacts DEF TypeInv, TypeOK, InodeRec
      <3> QED BY <2>2, <3>1
    <2>5. 0 \in Slots BY SlotsAssumption DEF Slots
    <2> QED BY <1>1, <2>1, <2>3, <2>4, <2>5 DEF LeadsTo
  <1>2. CASE i # Root
    <2>d. PICK d \in DirInodes : \E k \in 1 .. Len(itab[d].blks), s \in Slots :
             Live(d, k, s) /\ Rec(d, k, s).ino = i
      BY <1>2, LinkedIs
    <2>1. PICK k \in 1 .. Len(itab[d].blks), s \in Slots :
             Live(d, k, s) /\ Rec(d, k, s).ino = i
      BY <2>d
    <2>2. d \in ibm BY DEF IInv, DiskInv, OwnersAllocated, Owners
    <2>3. d \in Linked BY <2>2, UndisturbedView, LinkedIs DEF FsckInv, ReservedPlain
    <2>4. d \in LinkedDirs BY <2>3 DEF LinkedDirs, DirInodes
    <2> QED BY <2>1, <2>4 DEF LeadsTo
  <1> QED BY <1>1, <1>2

\* directory_refs is the number of places that lead to an inode.
LEMMA RefsArePlaces ==
    ASSUME TypeInv, IInv, CountInv, LinkInv, op = Idle, ~crashed, lost = {}, NEW i \in Linked
    PROVE  Cardinality({r \in FsckRecords : Leads(r) = i}) = Cardinality(Places(i))
  <1> DEFINE A == {r \in FsckRecords : Leads(r) = i}
             f == [p \in Places(i) |-> <<<<p[1], p[2]>>, p[3]>>]
  <1>0. DirsShort /\ i # 0 BY LinkedIs, RootFacts DEF LinkInv
  <1>1. \A p : p \in Places(i) <=> \E d, k, s : p = <<d, k, s>> /\ LeadsTo(d, k, s, i)
    BY <1>0, PlacesAre
  <1>2. ASSUME NEW p \in Places(i)
        PROVE  f[p] \in A /\ p = <<p[1], p[2], p[3]>>
    <2>1. PICK d, k, s : p = <<d, k, s>> /\ LeadsTo(d, k, s, i) BY <1>1
    <2>2. d \in LinkedDirs /\ k \in 1 .. Len(itab[d].blks) /\ s \in Slots /\ Rec(d, k, s).ino = i
      BY <2>1 DEF LeadsTo
    <2>3. <<<<d, k>>, s>> \in FsckRecords /\ Leads(<<<<d, k>>, s>>) = i
      BY <1>0, <2>2, RecordOf
    <2>4. p[1] = d /\ p[2] = k /\ p[3] = s BY <2>1
    <2>5. f[p] = <<<<d, k>>, s>> BY <2>4
    <2> QED BY <2>1, <2>3, <2>4, <2>5
  <1>3. f \in [Places(i) -> A] BY <1>2
  <1>4. ASSUME NEW p \in Places(i), NEW q \in Places(i), f[p] = f[q] PROVE p = q
    <2>1. f[p] = <<<<p[1], p[2]>>, p[3]>> /\ f[q] = <<<<q[1], q[2]>>, q[3]>> OBVIOUS
    <2>2. p[1] = q[1] /\ p[2] = q[2] /\ p[3] = q[3] BY <1>4, <2>1
    <2> QED BY <1>2, <2>2
  <1>5. ASSUME NEW r \in A PROVE \E p \in Places(i) : f[p] = r
    <2>d. PICK d \in DirInodes : \E k \in 1 .. Len(itab[d].blks), s \in Slots :
             d \in Checked /\ r = <<<<d, k>>, s>> /\ Leads(r) = Rec(d, k, s).ino
      BY RecordIs
    <2>1. PICK k \in 1 .. Len(itab[d].blks), s \in Slots :
             d \in Checked /\ r = <<<<d, k>>, s>> /\ Leads(r) = Rec(d, k, s).ino
      BY <2>d
    <2>2. d \in LinkedDirs BY <2>1, UndisturbedView DEF LinkedDirs, DirInodes
    <2>3. LeadsTo(d, k, s, i) BY <2>1, <2>2 DEF LeadsTo
    <2>4. <<d, k, s>> \in Places(i) BY <1>1, <2>3
    <2>5. f[<<d, k, s>>] = r BY <2>1, <2>4
    <2> QED BY <2>4, <2>5
  <1>6. f \in Bijection(Places(i), A)
    <2> HIDE DEF f, A
    <2> QED BY <1>3, <1>4, <1>5, Fun_IsBij
  <1>7. ExistsBijection(Places(i), A)
    <2> HIDE DEF f, A
    <2> QED BY <1>6 DEF ExistsBijection
  <1>8. IsFiniteSet(Places(i)) BY PlacesFinite
  <1>9. Cardinality(A) = Cardinality(Places(i))
    <2> HIDE DEF A
    <2> QED BY <1>7, <1>8, FS_Bijection
  <1> QED BY <1>9

\* Every condition of the checker holds.
LEMMA UndisturbedClean ==
    ASSUME TypeInv, IInv, CountInv, LinkInv, FsckInv, op = Idle, ~crashed, lost = {}
    PROVE  FsckClean
  <1>0. op.pc = "idle" /\ op.kind = "none" BY DEF Idle
  <1>1. Checked = Linked /\ ibm = Reserved \union Linked
        /\ bbm = MetaBlocks \union UNION {Claims(i) : i \in Linked}
    BY UndisturbedView
  <1>2. \A i \in Linked : i \in Inodes /\ itab[i].mode # "none" /\ itab[i].links \in Nat
                          /\ (itab[i].mode \notin {"dev", "lnk"} <=> HasBlocks(i))
    BY LinkedIs DEF IInv, DiskInv, LinkedWritten, TypeInv, TypeOK, InodeRec, Modes, HasBlocks
  <1>3. \A i \in Linked : Cardinality(Places(i)) = itab[i].links
    <2> SUFFICES ASSUME NEW i \in Linked PROVE Cardinality(Places(i)) = itab[i].links OBVIOUS
    <2>1. Cardinality(Places(i)) = itab[i].links + 0 BY <1>0 DEF LinkInv, LinksCounted
    <2> QED BY <1>2, <2>1
  <1>4. InodesFine
    <2> SUFFICES ASSUME NEW i \in Linked PROVE itab[i].links > 0
      BY <1>1, <1>2 DEF InodesFine
    <2>1. PICK d, k, s : LeadsTo(d, k, s, i) BY SomeLeads
    <2>2. <<d, k, s>> \in Places(i) BY <2>1, PlacesAre DEF LinkInv
    <2>3. IsFiniteSet(Places(i)) BY PlacesFinite
    <2>4. Cardinality(Places(i)) # 0
      <3>1. Places(i) # {} BY <2>2
      <3> QED BY <2>3, <3>1, FS_EmptySet
    <2> QED BY <1>2, <1>3, <2>4
  <1>5. ASSUME NEW p \in Pointers
        PROVE  \E i \in Linked : \E k \in 1 .. Len(itab[i].blks) :
                  /\ p = <<i, k>> /\ HasBlocks(i) /\ BlockAt(p) = itab[i].blks[k]
    <2>1. PICK i \in Checked, k \in 1 .. BlocksCount : p = <<i, k>> /\ k <= Len(Walked(i))
      BY DEF Pointers
    <2>2. i \in Linked /\ p[1] = i /\ p[2] = k BY <1>1, <2>1
    <2>3. k >= 1 /\ k \in Int BY GeometryAssumption
    <2>4. HasBlocks(i)
      <3> SUFFICES ASSUME itab[i].mode \in {"dev", "lnk"} PROVE FALSE BY <1>2, <2>2
      <3>1. Len(Walked(i)) = 0 BY DEF Walked
      <3> QED BY <2>1, <2>3, <3>1
    <2>5. Walked(i) = itab[i].blks BY <2>4 DEF Walked, HasBlocks
    <2>6. k \in 1 .. Len(itab[i].blks) BY <2>1, <2>2, <2>3, <2>4, <2>5, ClaimsBounded
    <2> QED BY <2>1, <2>2, <2>4, <2>5, <2>6 DEF BlockAt
  <1>6. ClaimsFine
    <2> SUFFICES ASSUME NEW p \in Pointers
                 PROVE  /\ BlockAt(p) \in bbm \ MetaBlocks
                        /\ \A q \in Pointers : BlockAt(q) = BlockAt(p) => q = p
      BY DEF ClaimsFine
    <2>i. PICK i \in Linked : \E k \in 1 .. Len(itab[i].blks) :
             p = <<i, k>> /\ HasBlocks(i) /\ BlockAt(p) = itab[i].blks[k]
      BY <1>5
    <2>1. PICK k \in 1 .. Len(itab[i].blks) :
             p = <<i, k>> /\ HasBlocks(i) /\ BlockAt(p) = itab[i].blks[k]
      BY <2>i
    <2>2. BlockAt(p) \in Claims(i) BY <2>1 DEF Claims, HasBlocks, Elems
    <2>3. i \in Owners BY DEF Owners
    <2>4. BlockAt(p) \in bbm \ MetaBlocks BY <1>1, <2>2, <2>3 DEF IInv, DiskInv, OwnersClean
    <2>5. ASSUME NEW q \in Pointers, BlockAt(q) = BlockAt(p) PROVE q = p
      <3>j. PICK j \in Linked : \E l \in 1 .. Len(itab[j].blks) :
               q = <<j, l>> /\ HasBlocks(j) /\ BlockAt(q) = itab[j].blks[l]
        BY <1>5
      <3>1. PICK l \in 1 .. Len(itab[j].blks) :
               q = <<j, l>> /\ HasBlocks(j) /\ BlockAt(q) = itab[j].blks[l]
        BY <3>j
      <3>2. j \in Owners BY DEF Owners
      <3>3. j = i /\ l = k BY <2>1, <2>3, <2>5, <3>1, <3>2 DEF IInv, DiskInv, OwnersDisjoint
      <3> QED BY <2>1, <3>1, <3>3
    <2> QED BY <2>4, <2>5
  <1>7. RecordsFine
    <2> SUFFICES ASSUME NEW r \in FsckRecords PROVE Leads(r) \in ibm BY DEF RecordsFine
    <2>d. PICK d \in DirInodes : \E k \in 1 .. Len(itab[d].blks), s \in Slots :
             Leads(r) = Rec(d, k, s).ino /\ Rec(d, k, s).ino # 0 /\ d \in Checked
      BY RecordIs
    <2>1. PICK k \in 1 .. Len(itab[d].blks), s \in Slots :
             Leads(r) = Rec(d, k, s).ino /\ Rec(d, k, s).ino # 0 /\ d \in Checked
      BY <2>d
    <2>2. Rec(d, k, s).ino \in Linked
      <3>1. Live(d, k, s) => Rec(d, k, s).ino \in Linked BY LinkedIs
      <3>2. Rec(d, k, s).ino \in LinkedDirs => Rec(d, k, s).ino \in Linked BY DEF LinkedDirs
      <3> QED BY <1>1, <2>1, <3>1, <3>2 DEF FsckInv, DotsHome
    <2> QED BY <1>1, <2>1, <2>2
  <1>8. LinksFine BY <1>1, <1>3, RefsArePlaces DEF LinksFine
  <1>9. CountersFine
    <2>1. CountBlocks(cnt, bbm) /\ CountInodes(cnt, ibm)
      BY <1>0 DEF CountInv, Counted, DiskCounted, BlockMetaPcs, InodeMetaPcs
    <2> QED BY <1>1, <2>1 DEF CountersFine, CountBlocks, CountInodes
  <1>10. OwnersFine
    <2> SUFFICES ASSUME NEW b \in bbm, b \notin MetaBlocks PROVE \E p \in Pointers : b = BlockAt(p)
      BY DEF OwnersFine
    <2>1. PICK i \in Linked : b \in Claims(i) BY <1>1
    <2>2. HasBlocks(i) BY <2>1 DEF Claims, HasBlocks
    <2>3. PICK k \in 1 .. Len(itab[i].blks) : b = itab[i].blks[k] BY <2>1, <2>2 DEF Claims, Elems, HasBlocks
    <2> QED BY <2>2, <2>3, PointerOf
  <1> QED BY <1>4, <1>6, <1>7, <1>8, <1>9, <1>10, GeometryFine DEF FsckClean


------------------------------------------------------------------------------
(* An image without a complaint is sound                                     *)

\* The records the checker finds that lead to an inode off every path: at most
\* the "." of that inode itself.
LEMMA OrphanRecords ==
    ASSUME TypeInv, FsckInv, NEW i \in Inodes, i \notin Linked, NEW r \in FsckRecords, Leads(r) = i
    PROVE  i \in DirInodes /\ r = <<<<i, 1>>, 0>>
  <1>1. PICK d \in DirInodes : \E k \in 1 .. Len(itab[d].blks), s \in Slots :
           r = <<<<d, k>>, s>> /\ Leads(r) = Rec(d, k, s).ino /\ Rec(d, k, s).ino # 0
    BY RecordIs
  <1>2. PICK k \in 1 .. Len(itab[d].blks), s \in Slots :
           r = <<<<d, k>>, s>> /\ Leads(r) = Rec(d, k, s).ino /\ Rec(d, k, s).ino # 0
    BY <1>1
  <1>3. Live(d, k, s) => i \in Linked BY <1>2, LinkedIs
  <1>4. Rec(d, k, s).ino \in LinkedDirs => i \in Linked BY <1>2 DEF LinkedDirs
  <1>5. k = 1 /\ s = 0 /\ d = i BY <1>2, <1>3, <1>4 DEF FsckInv, DotsHome
  <1> QED BY <1>2, <1>5

\* Such an inode is complained about: no record at all leads to it, or one to a
\* directory that counts two.
LEMMA CleanLinked ==
    ASSUME TypeInv, IInv, FsckInv, InodesFine, LinksFine
    PROVE  Checked \subseteq Linked /\ ibm = Reserved \union Linked
  <1>1. ASSUME NEW i \in Checked, i \notin Linked PROVE FALSE
    <2> PICK A : A = {r \in FsckRecords : Leads(r) = i} OBVIOUS
    <2> PICK e : e = <<<<i, 1>>, 0>> OBVIOUS
    <2>1. i \in Inodes BY DEF Checked, TypeInv, TypeOK
    <2>2. itab[i].links > 0 /\ itab[i].links = Cardinality(A)
      BY DEF InodesFine, LinksFine
    <2>3. A \subseteq {e} BY <1>1, <2>1, OrphanRecords
    <2>4. IsFiniteSet({e}) /\ Cardinality({e}) = 1 BY FS_Singleton
    <2>5. IsFiniteSet(A) /\ Cardinality(A) <= 1
      <3>1. A \in SUBSET {e} BY <2>3
      <3> QED BY <2>4, <3>1, FS_Subset
    <2>6. A # {}
      <3> SUFFICES ASSUME A = {} PROVE FALSE OBVIOUS
      <3>1. Cardinality(A) = 0 BY <2>5, FS_EmptySet
      <3> QED BY <2>2, <3>1
    <2>7. i \in DirInodes BY <1>1, <2>1, <2>6, OrphanRecords
    <2>8. itab[i].links = 2 BY <1>1, <2>7 DEF FsckInv, OrphanLinks
    <2> QED BY <2>2, <2>5, <2>8
  <1>2. ibm \subseteq Reserved \union Linked
    <2> SUFFICES ASSUME NEW i \in ibm, i \notin Reserved PROVE i \in Linked OBVIOUS
    <2>1. i \in Inodes BY DEF TypeInv, TypeOK
    <2>2. i >= FirstIno BY <2>1, GeometryAssumption DEF Reserved, Inodes
    <2> QED BY <1>1, <2>2 DEF Checked
  <1>3. Reserved \union Linked \subseteq ibm BY DEF IInv, DiskInv, OwnersAllocated, Owners
  <1> QED BY <1>1, <1>2, <1>3

\* Between operations every block that is marked used then has its owner on a path.
LEMMA CleanBlocks ==
    ASSUME TypeInv, IInv, FsckInv, op = Idle, InodesFine, LinksFine, OwnersFine
    PROVE  bbm = MetaBlocks \union UNION {Claims(i) : i \in Linked}
  <1>1. ASSUME NEW b \in bbm, b \notin MetaBlocks PROVE \E i \in Linked : b \in Claims(i)
    <2>1. PICK p \in Pointers : b = BlockAt(p) BY <1>1 DEF OwnersFine
    <2>2. PICK i \in Checked, k \in 1 .. BlocksCount : p = <<i, k>> /\ k <= Len(Walked(i))
      BY DEF Pointers
    <2>3. i \in Linked /\ i \in Inodes /\ k \in Int /\ k >= 1
      BY CleanLinked, LinkedIs, GeometryAssumption
    <2>4. itab[i].mode \notin {"dev", "lnk"}
      <3> SUFFICES ASSUME itab[i].mode \in {"dev", "lnk"} PROVE FALSE OBVIOUS
      <3>1. Len(Walked(i)) = 0 BY DEF Walked
      <3> QED BY <2>2, <2>3, <3>1
    <2>5. itab[i].mode \in {"reg", "dir"}
      BY <2>3, <2>4 DEF InodesFine, TypeInv, TypeOK, InodeRec, Modes
    <2>6. b = itab[i].blks[k] /\ k <= Len(itab[i].blks)
      BY <2>1, <2>2, <2>4 DEF BlockAt, Walked
    <2>7. Len(itab[i].blks) \in Nat BY <2>3 DEF TypeInv, TypeOK, InodeRec
    <2>8. k \in 1 .. Len(itab[i].blks) BY <2>3, <2>6, <2>7
    <2> QED BY <2>3, <2>5, <2>6, <2>8 DEF Claims, Elems
  <1>2. ASSUME NEW i \in Linked PROVE Claims(i) \subseteq bbm
    <2>1. op.kind = "none" BY DEF Idle
    <2>2. i \in Owners \ BeingFreed BY <2>1 DEF Owners, BeingFreed, Removing
    <2> QED BY <2>2 DEF IInv, DiskInv, OwnersMarked
  <1>3. MetaBlocks \subseteq bbm BY DEF IInv, DiskInv, MetaMarked
  <1> QED BY <1>1, <1>2, <1>3

\* fsck.ext2 can be believed both ways, for every geometry: between operations an
\* image that no crash or failed operation disturbed gives no complaint, and an
\* image without a complaint is sound, whatever happened to it.
THEOREM TruthfulCorrect == ASSUME Harmless PROVE Spec => []FsckTruthful
  <1>1. TypeInv /\ IInv /\ CountInv /\ LinkInv /\ FsckInv
        /\ ClaimedMarked /\ SingleOwner /\ RecordsSound => FsckTruthful
    <2> SUFFICES ASSUME TypeInv, IInv, CountInv, LinkInv, FsckInv,
                        ClaimedMarked, SingleOwner, RecordsSound, op = Idle
                 PROVE  (~crashed /\ lost = {} => FsckClean) /\ (FsckClean => Sound)
      BY DEF FsckTruthful
    <2>1. ~crashed /\ lost = {} => FsckClean BY UndisturbedClean
    <2>2. FsckClean => Sound BY CleanLinked, CleanBlocks DEF FsckClean, Sound
    <2> QED BY <2>1, <2>2
  <1> QED BY <1>1, IInvCorrect, CountInvariant, LinkInvariant, FsckInvariant, MarkedCorrect,
             OwnerCorrect, RecordsCorrect, PTL


==============================================================================
