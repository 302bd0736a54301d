---------------------------- MODULE Ext2_proofs ----------------------------
(***************************************************************************)
(* Proofs about Ext2 for every geometry of the image, every set of names   *)
(* and any number of operations, crashes and failures: first type          *)
(* correctness, then who owns what.                                        *)
(*                                                                         *)
(* The invariant IInv of Ext2Inv is inductive for any sequence of          *)
(* operations, failures and crashes that Harmless allows.  From it: no     *)
(* reachable file claims a free block or metadata, no block has two owners,*)
(* records lead to written inodes, and a name stands once in its directory *)
(* and leaves it only by unlink.                                           *)
(*                                                                         *)
(* Most steps leave the inode table and the directory blocks alone; the    *)
(* lemmas Quiet... say once what such a step keeps.                        *)
(***************************************************************************)
EXTENDS Ext2Inv, TLAPS, WellFoundedInduction, FiniteSetTheorems

------------------------------------------------------------------------------
(* Geometry                                                                  *)

\* The quotient of a number below c * k by k is below c.
LEMMA DivBound ==
    ASSUME NEW n \in Nat, NEW k \in Nat \ {0}, NEW c \in Nat, n < c * k
    PROVE  n \div k \in 0 .. c - 1
  OBVIOUS

\* Every block lies in a group.
LEMMA BlockGroupType == \A b \in Blocks : BlockGroup(b) \in Groups
  <1> TAKE b \in Blocks
  <1>1. b \in Nat /\ b < GroupCount * BlocksPerGroup
    BY GeometryAssumption DEF Blocks
  <1>2. b \div BlocksPerGroup \in 0 .. GroupCount - 1
    BY <1>1, DivBound, GeometryAssumption
  <1> QED BY <1>2 DEF BlockGroup, Groups

\* Every inode lies in a group.
LEMMA InodeGroupType == \A i \in Inodes : InodeGroup(i) \in Groups
  <1> TAKE i \in Inodes
  <1>1. i - 1 \in Nat /\ i - 1 < GroupCount * InodesPerGroup
    BY GeometryAssumption DEF Inodes
  <1>2. (i - 1) \div InodesPerGroup \in 0 .. GroupCount - 1
    BY <1>1, DivBound, GeometryAssumption
  <1> QED BY <1>2 DEF InodeGroup, Groups

\* The root inode is reserved, and 0 is no inode number.
LEMMA RootFacts == Root \in Inodes /\ Root \in Reserved /\ Reserved \subseteq Inodes
                   /\ 0 \notin Inodes
  BY GeometryAssumption DEF Root, Inodes, Reserved

\* Block 0 is metadata; the block of the root directory is not.
LEMMA BlockFacts == RootBlock \in Blocks /\ 0 \in Blocks /\ 0 \in MetaBlocks
                    /\ RootBlock \notin MetaBlocks
  BY GeometryAssumption DEF RootBlock, Blocks, MetaBlocks

\* The least element of a set of numbers is one of them, and none is less.
LEMMA LeastMember ==
    ASSUME NEW S \in SUBSET Nat, S # {}
    PROVE  Least(S) \in S /\ \A y \in S : Least(S) <= y
  <1>1. \E x \in S : \A y \in S : ~(<<y, x>> \in OpToRel(<, Nat))
    BY NatLessThanWellFounded, WFMin
  <1>2. PICK x \in S : \A y \in S : ~(<<y, x>> \in OpToRel(<, Nat))
    BY <1>1
  <1>3. x \in Nat /\ \A y \in S : y \in Nat /\ ~(y < x)
    BY <1>2, Zenon DEF OpToRel
  <1>4. \A y \in S : x <= y
    BY <1>3
  <1> QED BY <1>4 DEF Least

\* Sets of blocks and of inodes are finite sets of natural numbers.
LEMMA BlocksFinite ==
    /\ Blocks \subseteq Nat /\ Inodes \subseteq Nat /\ Groups \subseteq Nat
    /\ IsFiniteSet(Blocks) /\ IsFiniteSet(Inodes)
  <1>1. Blocks \subseteq Nat /\ Inodes \subseteq Nat /\ Groups \subseteq Nat
    BY GeometryAssumption DEF Blocks, Inodes, Groups
  <1>2. IsFiniteSet(Blocks)
    BY FS_Interval, GeometryAssumption DEF Blocks
  <1>3. GroupCount * InodesPerGroup \in Int
    BY GeometryAssumption
  <1>4. IsFiniteSet(Inodes)
    BY <1>3, FS_Interval DEF Inodes
  <1> QED BY <1>1, <1>2, <1>4

------------------------------------------------------------------------------
(* Types of the operators                                                    *)

LEMMA BlocksForType == \A n \in Nat : BlocksFor(n) \in Nat
  <1> TAKE n \in Nat
  <1> DEFINE far == n - DirectSlots - PtrsPerBlock
  <1>1. far \in Int BY PointersAssumption
  <1>2. far > 0 => (far + PtrsPerBlock - 1) \div PtrsPerBlock \in Nat
    <2> SUFFICES ASSUME far > 0 PROVE (far + PtrsPerBlock - 1) \div PtrsPerBlock \in Nat
      OBVIOUS
    <2>1. far + PtrsPerBlock - 1 \in Nat BY <1>1, PointersAssumption
    <2>2. \A x \in Nat : \A y \in Nat \ {0} : x \div y \in Nat OBVIOUS
    <2> QED BY <2>1, <2>2, PointersAssumption
  <1> HIDE DEF far
  <1>3. n + (IF n > DirectSlots THEN 1 ELSE 0)
          + (IF far > 0 THEN 1 + (far + PtrsPerBlock - 1) \div PtrsPerBlock ELSE 0) \in Nat
    BY <1>1, <1>2, PointersAssumption
  <1> QED BY <1>3 DEF BlocksFor, far

LEMMA IdleType == Idle \in OpRec
  BY RootFacts, BlockFacts DEF Idle, OpRec, Kinds, Pcs

LEMMA CounterTypes ==
    ASSUME NEW c \in Counters
    PROVE  /\ \A b \in Blocks : TakeBlock(c, b) \in Counters
           /\ \A i \in Inodes : TakeInode(c, i) \in Counters /\ GiveInode(c, i) \in Counters
           /\ \A S \in SUBSET Blocks : GiveBlocks(c, S) \in Counters
           /\ \A g \in Groups : [c EXCEPT !.gD[g] = @ + 1] \in Counters
  <1>0. c \in [sbB : Nat, sbI : Nat, gB : [Groups -> Nat], gI : [Groups -> Nat],
                gD : [Groups -> Nat]]
    BY DEF Counters
  <1>f. ASSUME NEW x \in Nat, NEW f \in [Groups -> Nat]
        PROVE  /\ [c EXCEPT !.sbB = x, !.gB = f] \in Counters
               /\ [c EXCEPT !.sbI = x, !.gI = f] \in Counters
    BY <1>0 DEF Counters
  <1>d. ASSUME NEW f \in [Groups -> Nat], NEW g \in Groups
        PROVE  /\ [f EXCEPT ![g] = Dec(@)] \in [Groups -> Nat]
               /\ [f EXCEPT ![g] = @ + 1] \in [Groups -> Nat]
    BY DEF Dec
  <1>n. \A x \in Nat : Dec(x) \in Nat BY DEF Dec
  <1>1. \A b \in Blocks : TakeBlock(c, b) \in Counters
    BY <1>0, <1>f, <1>d, <1>n, BlockGroupType DEF TakeBlock
  <1>2. \A i \in Inodes : TakeInode(c, i) \in Counters /\ GiveInode(c, i) \in Counters
    <2> TAKE i \in Inodes
    <2>1. InodeGroup(i) \in Groups BY InodeGroupType
    <2>2. TakeInode(c, i) \in Counters
      BY <1>0, <1>f, <1>d, <1>n, <2>1 DEF TakeInode
    <2>3. c.sbI + 1 \in Nat BY <1>0
    <2>4. GiveInode(c, i) \in Counters
      BY <1>0, <1>f, <1>d, <2>1, <2>3 DEF GiveInode
    <2> QED BY <2>2, <2>4
  <1>3. \A S \in SUBSET Blocks : GiveBlocks(c, S) \in Counters
    <2> TAKE S \in SUBSET Blocks
    <2>1. Cardinality(S) \in Nat /\ \A g \in Groups : Cardinality(S \intersect GroupBlocks(g)) \in Nat
      <3>1. IsFiniteSet(S) BY BlocksFinite, FS_Subset
      <3>2. \A g \in Groups : IsFiniteSet(S \intersect GroupBlocks(g))
        BY <3>1, FS_Intersection
      <3> QED BY <3>1, <3>2, FS_CardinalityType
    <2>2. [g \in Groups |-> c.gB[g] + Cardinality(S \intersect GroupBlocks(g))] \in [Groups -> Nat]
      BY <1>0, <2>1
    <2>3. c.sbB + Cardinality(S) \in Nat BY <1>0, <2>1
    <2> QED BY <1>f, <2>2, <2>3 DEF GiveBlocks
  <1>4. \A g \in Groups : [c EXCEPT !.gD[g] = @ + 1] \in Counters
    BY DEF Counters
  <1> QED BY <1>1, <1>2, <1>3, <1>4

\* Records and directory blocks.
LEMMA RecordTypes ==
    /\ FreeSlot \in Record
    /\ Blank \in [Slots -> Record]
    /\ \A i, j \in {0} \union Inodes : DotBlock(i, j) \in [Slots -> Record]
    /\ \A i \in {0} \union Inodes, n \in Names \union {""} :
          OneEntry(i, n) \in [Slots -> Record] /\ [ino |-> i, name |-> n] \in Record
    /\ \A r \in Record : [r EXCEPT !.ino = 0] \in Record
  BY RootFacts DEF FreeSlot, Record, Blank, DotBlock, OneEntry

\* A path that has an entry names an inode of the table.
LEMMA TargetType ==
    ASSUME TypeInv, NEW d \in DirInodes, NEW n, HasEntry(d, n)
    PROVE  /\ Target(d, n) \in Inodes
           /\ \E e \in Entries(d) : e.ino = Target(d, n) /\ e.name = n
  <1>1. Entries(d) \subseteq Record
    BY DEF TypeInv, TypeOK, BlocksTyped, DirInodes, Entries, Elems, InodeRec
  <1>2. PICK e \in Entries(d) : e.ino # 0 /\ e.name = n
    BY DEF HasEntry
  <1>3. \E f \in Entries(d) : Target(d, n) = f.ino /\ f.ino # 0 /\ f.name = n
    BY <1>2 DEF Target
  <1> QED BY <1>1, <1>3 DEF Record

\* The elements of short sequences and of an extended one.
LEMMA ElemsFacts ==
    /\ Elems(<< >>) = {}
    /\ \A x : Elems(<<x>>) = {x}
    /\ \A T : \A s \in Seq(T), x \in T : Elems(Append(s, x)) = Elems(s) \union {x}
  <1>1. Elems(<< >>) = {} BY DEF Elems
  <1>2. \A x : Elems(<<x>>) = {x} BY DEF Elems
  <1>3. ASSUME NEW T, NEW s \in Seq(T), NEW x \in T
        PROVE  Elems(Append(s, x)) = Elems(s) \union {x}
    <2>1. Len(Append(s, x)) = Len(s) + 1 /\ Len(s) \in Nat OBVIOUS
    <2>2. \A k \in 1 .. Len(s) : Append(s, x)[k] = s[k] OBVIOUS
    <2>3. Append(s, x)[Len(s) + 1] = x OBVIOUS
    <2>4. 1 .. Len(s) + 1 = (1 .. Len(s)) \union {Len(s) + 1} BY <2>1
    <2> QED BY <2>1, <2>2, <2>3, <2>4 DEF Elems
  <1> QED BY <1>1, <1>2, <1>3

------------------------------------------------------------------------------
(* Type correctness                                                          *)

\* Every group has room for a block after its metadata.
LEMMA GroupRoom ==
    \A g \in 0 .. GroupCount - 1 : GroupBlockCount(g) \in Nat /\ GroupBlockCount(g) > DataRel
  <1> TAKE g \in 0 .. GroupCount - 1
  <1>1. \A a, b, c \in Nat : a <= b => a * c <= b * c OBVIOUS
  <1>2. g * BlocksPerGroup <= (GroupCount - 1) * BlocksPerGroup
    BY <1>1, GeometryAssumption
  <1>3. g * BlocksPerGroup \in Nat /\ (GroupCount - 1) * BlocksPerGroup \in Nat
    BY GeometryAssumption
  <1>4. GroupCount * BlocksPerGroup = (GroupCount - 1) * BlocksPerGroup + BlocksPerGroup
    BY GeometryAssumption
  <1> QED BY <1>2, <1>3, <1>4, GeometryAssumption DEF GroupBlockCount

\* What mkfs.ext2 writes into the superblock counters is not negative.
LEMMA MkfsRoom ==
    /\ BlocksCount - GroupCount * DataRel - 1 \in Nat
    /\ GroupCount * InodesPerGroup - (FirstIno - 1) \in Nat
  <1>1. \A a, b, c \in Nat : a <= b => c * a <= c * b OBVIOUS
  <1>2. DataRel <= BlocksPerGroup
    BY GeometryAssumption
  <1>3. (GroupCount - 1) * DataRel <= (GroupCount - 1) * BlocksPerGroup
    BY <1>1, <1>2, GeometryAssumption
  <1>4. GroupCount * DataRel = (GroupCount - 1) * DataRel + DataRel
    BY GeometryAssumption
  <1>5. /\ (GroupCount - 1) * DataRel \in Nat
        /\ (GroupCount - 1) * BlocksPerGroup \in Nat
    BY GeometryAssumption
  <1>6. GroupCount * InodesPerGroup >= InodesPerGroup /\ GroupCount * InodesPerGroup \in Nat
    BY GeometryAssumption
  <1> QED BY <1>3, <1>4, <1>5, <1>6, GeometryAssumption

LEMMA TypeInit == Init => TypeInv
  <1> SUFFICES ASSUME Init PROVE TypeInv OBVIOUS
  <1>1. MkfsCounters \in Counters
    <2>1. \A g \in Groups : GroupBlockCount(g) - DataRel - (IF g = 0 THEN 1 ELSE 0) \in Nat
      BY GroupRoom, GeometryAssumption DEF Groups
    <2>2. /\ BlocksCount - GroupCount * DataRel - 1 \in Nat
          /\ GroupCount * InodesPerGroup - (FirstIno - 1) \in Nat
      BY MkfsRoom
    <2>3. \A g \in Groups : InodesPerGroup - (IF g = 0 THEN FirstIno - 1 ELSE 0) \in Nat
      BY GeometryAssumption
    <2> QED BY <2>1, <2>2, <2>3 DEF MkfsCounters, Counters
  <1>2. bbm \subseteq Blocks /\ ibm \subseteq Inodes /\ crashed \in BOOLEAN /\ lost = {}
    BY RootFacts, BlockFacts DEF Init, MetaBlocks
  <1>3. itab \in [Inodes -> InodeRec]
    <2>1. RootBlock \in Nat BY GeometryAssumption DEF RootBlock
    <2>2. [mode |-> "dir", links |-> 2, blks |-> <<RootBlock>>] \in InodeRec
      BY <2>1 DEF InodeRec, Modes
    <2>3. ClearedInode \in InodeRec BY DEF InodeRec, Modes, ClearedInode
    <2> QED BY <2>2, <2>3 DEF Init
  <1>4. dblk \in [Blocks -> [Slots -> Record]]
    BY RecordTypes, RootFacts DEF Init
  <1>5. BlocksTyped /\ OpPath
    <2>1. Elems(Idle.blks) = {} /\ Elems(ClearedInode.blks) = {}
      BY ElemsFacts DEF Idle, ClearedInode
    <2>2. ASSUME NEW i \in Inodes PROVE Elems(itab[i].blks) \subseteq Blocks
      <3>1. CASE i = Root BY <3>1, ElemsFacts, BlockFacts DEF Init
      <3>2. CASE i # Root BY <3>2, <2>1 DEF Init
      <3> QED BY <3>1, <3>2
    <2> QED BY <2>1, <2>2 DEF BlocksTyped, OpPath, Init, Idle
  <1> QED
    BY <1>1, <1>2, <1>3, <1>4, <1>5, IdleType DEF Init, TypeInv, TypeOK

\* A handler's locals after a step.
LEMMA OpUpdates ==
    ASSUME NEW o \in OpRec
    PROVE  /\ \A pc \in Pcs : [o EXCEPT !.pc = pc] \in OpRec
           /\ \A i \in Inodes, pc \in Pcs : [o EXCEPT !.ino = i, !.pc = pc] \in OpRec
           /\ \A s \in Seq(Nat), pc \in Pcs : [o EXCEPT !.blks = s, !.pc = pc] \in OpRec
           /\ \A s \in Seq(Nat) : [o EXCEPT !.blks = s] \in OpRec
           /\ \A b \in Blocks, pc \in Pcs : [o EXCEPT !.extra = b, !.pc = pc] \in OpRec
           /\ \A S \in SUBSET Groups : [o EXCEPT !.dirty = S] \in OpRec
           /\ \A pc \in Pcs, B \in SUBSET Blocks, S \in SUBSET Groups :
                 [o EXCEPT !.pc = pc, !.bm = B, !.dirty = S] \in OpRec
  BY DEF OpRec

\* A jump changes nothing but the program counter.
LEMMA GotoFacts ==
    ASSUME op \in OpRec, NEW pc \in Pcs, Goto(pc)
    PROVE  /\ op' \in OpRec
           /\ op'.pc = pc
           /\ op'.kind = op.kind /\ op'.dir = op.dir /\ op'.name = op.name /\ op'.ino = op.ino
           /\ op'.size = op.size /\ op'.need = op.need /\ op'.blks = op.blks
           /\ op'.extra = op.extra /\ op'.bm = op.bm /\ op'.dirty = op.dirty
  BY DEF Goto, OpRec

\* The first-fit choices are blocks and inodes that are free.
LEMMA ChoiceTypes ==
    ASSUME TypeInv
    PROVE  /\ FreeInodes # {} => Least(FreeInodes) \in Inodes \ ibm /\ Least(FreeInodes) \in FreeInodes
           /\ \A B : FreeBlocks(B) # {} => Least(FreeBlocks(B)) \in Blocks \ B
           /\ CtxBitmap = bbm \union Elems(op.blks)
  <1>1. FreeInodes \subseteq Inodes \ ibm BY DEF FreeInodes
  <1>2. \A B : FreeBlocks(B) \subseteq Blocks \ B BY DEF FreeBlocks
  <1>3. FreeInodes # {} => Least(FreeInodes) \in FreeInodes
    BY <1>1, BlocksFinite, LeastMember
  <1>4. \A B : FreeBlocks(B) # {} => Least(FreeBlocks(B)) \in FreeBlocks(B)
    BY <1>2, BlocksFinite, LeastMember
  <1> QED BY <1>1, <1>2, <1>3, <1>4 DEF CtxBitmap

\* A handler starts with well-formed locals.
LEMMA TypeBegin ==
    ASSUME TypeInv, NEW l \in OpRec, Begin(l),
           l.kind \notin {"mknod", "symlink"} => Elems(l.blks) \subseteq Blocks
    PROVE  (TypeOK /\ BlocksTyped)'
  BY DEF Begin, TypeInv, TypeOK, BlocksTyped, disk

LEMMA TypeStart == TypeInv /\ Start => (TypeOK /\ BlocksTyped)'
  <1> SUFFICES ASSUME TypeInv, NEW d \in Linked, NEW n \in Names,
                      \/ \E size \in FileSizes : Create(d, n, size)
                      \/ Mkdir(d, n)
                      \/ \E x \in NodeNumbers : Mknod(d, n, x)
                      \/ \E x \in NodeNumbers : Symlink(d, n, x)
                      \/ Unlink(d, n)
                      \/ Truncate(d, n)
                      \/ \E size \in FileSizes : WriteExisting(d, n, size)
               PROVE  (TypeOK /\ BlocksTyped)'
    BY DEF Start
  <1>0. d \in Inodes /\ Idle \in OpRec /\ Elems(Idle.blks) = {}
    BY RootFacts, IdleType, ElemsFacts DEF Linked, Idle
  <1>d. d \in LinkedDirs => d \in DirInodes BY <1>0 DEF LinkedDirs, DirInodes
  <1>1. ASSUME NEW size \in FileSizes, Create(d, n, size) PROVE (TypeOK /\ BlocksTyped)'
    <2> DEFINE l == [Idle EXCEPT !.kind = "create", !.pc = "alloc_inode", !.dir = d, !.name = n,
                                 !.size = size, !.need = BlocksFor(size)]
    <2>3. l \in OpRec /\ l.blks = Idle.blks
      BY <1>0, BlocksForType, SizesAssumption DEF OpRec, Kinds, Pcs
    <2>4. Begin(l) BY <1>1 DEF Create
    <2> HIDE DEF l
    <2> QED BY <2>3, <2>4, <1>0, TypeBegin
  <1>2. ASSUME Mkdir(d, n) PROVE (TypeOK /\ BlocksTyped)'
    <2> DEFINE l == [Idle EXCEPT !.kind = "mkdir", !.pc = "alloc_inode", !.dir = d, !.name = n]
    <2>3. l \in OpRec /\ l.blks = Idle.blks
      BY <1>0 DEF OpRec, Kinds, Pcs
    <2>4. Begin(l) BY <1>2 DEF Mkdir
    <2> HIDE DEF l
    <2> QED BY <2>3, <2>4, <1>0, TypeBegin
  <1>3. ASSUME NEW x \in NodeNumbers, Mknod(d, n, x) PROVE (TypeOK /\ BlocksTyped)'
    <2> DEFINE l == [Idle EXCEPT !.kind = "mknod", !.pc = "alloc_inode", !.dir = d, !.name = n,
                                 !.blks = <<x>>]
    <2>1. <<x>> \in Seq(Nat) BY SizesAssumption
    <2>3. l \in OpRec
      BY <2>1, <1>0 DEF OpRec, Kinds, Pcs
    <2>4. Begin(l) BY <1>3 DEF Mknod
    <2>5. l.kind \in {"mknod", "symlink"} BY <1>0 DEF OpRec
    <2> HIDE DEF l
    <2> QED BY <2>5, <2>3, <2>4, <1>0, TypeBegin
  <1>4. ASSUME NEW x \in NodeNumbers, Symlink(d, n, x) PROVE (TypeOK /\ BlocksTyped)'
    <2> DEFINE l == [Idle EXCEPT !.kind = "symlink", !.pc = "alloc_inode", !.dir = d, !.name = n,
                                 !.blks = <<x>>]
    <2>1. <<x>> \in Seq(Nat) BY SizesAssumption
    <2>3. l \in OpRec
      BY <2>1, <1>0 DEF OpRec, Kinds, Pcs
    <2>4. Begin(l) BY <1>4 DEF Symlink
    <2>5. l.kind \in {"mknod", "symlink"} BY <1>0 DEF OpRec
    <2> HIDE DEF l
    <2> QED BY <2>5, <2>3, <2>4, <1>0, TypeBegin
  <1>5. ASSUME Unlink(d, n) PROVE (TypeOK /\ BlocksTyped)'
    <2> DEFINE l == [Idle EXCEPT !.kind = "unlink", !.pc = "remove", !.dir = d, !.name = n,
                                 !.ino = Target(d, n)]
    <2>1. HasEntry(d, n) /\ d \in DirInodes BY <1>d, <1>5 DEF Unlink
    <2>2. Target(d, n) \in Inodes BY <2>1, TargetType
    <2>3. l \in OpRec /\ l.blks = Idle.blks
      BY <2>2, <1>0 DEF OpRec, Kinds, Pcs
    <2>4. Begin(l) BY <1>5 DEF Unlink
    <2> HIDE DEF l
    <2> QED BY <2>3, <2>4, <1>0, TypeBegin
  <1>6. ASSUME Truncate(d, n) PROVE (TypeOK /\ BlocksTyped)'
    <2> DEFINE l == [Idle EXCEPT !.kind = "truncate", !.pc = "release", !.dir = d, !.name = n,
                                 !.ino = Target(d, n)]
    <2>1. HasEntry(d, n) /\ d \in DirInodes BY <1>d, <1>6 DEF Truncate
    <2>2. Target(d, n) \in Inodes BY <2>1, TargetType
    <2>3. l \in OpRec /\ l.blks = Idle.blks
      BY <2>2, <1>0 DEF OpRec, Kinds, Pcs
    <2>4. Begin(l) BY <1>6 DEF Truncate
    <2> HIDE DEF l
    <2> QED BY <2>3, <2>4, <1>0, TypeBegin
  <1>7. ASSUME NEW size \in FileSizes, WriteExisting(d, n, size) PROVE (TypeOK /\ BlocksTyped)'
    <2> DEFINE l == [Idle EXCEPT !.kind = "rewrite", !.dir = d, !.name = n, !.ino = Target(d, n),
                                 !.size = size, !.need = BlocksFor(size),
                                 !.pc = IF Elems(itab[Target(d, n)].blks) \subseteq {0}
                                        THEN "alloc_data" ELSE "release"]
    <2>1. HasEntry(d, n) /\ d \in DirInodes BY <1>d, <1>7 DEF WriteExisting
    <2>2. Target(d, n) \in Inodes BY <2>1, TargetType
    <2>3. l \in OpRec /\ l.blks = Idle.blks
      BY <2>2, <1>0, BlocksForType, SizesAssumption DEF OpRec, Kinds, Pcs
    <2>4. Begin(l) BY <1>7 DEF WriteExisting
    <2> HIDE DEF l
    <2> QED BY <2>3, <2>4, <1>0, TypeBegin
  <1> QED BY <1>1, <1>2, <1>3, <1>4, <1>5, <1>6, <1>7

\* An inode with a new link count or a new pointer tree.
LEMMA InodeUpdates ==
  ASSUME NEW r \in InodeRec, NEW n \in Nat, NEW s \in Seq(Nat)
  PROVE  /\ r.links \in Nat /\ r.blks \in Seq(Nat) /\ r.mode \in Modes
         /\ [r EXCEPT !.links = n] \in InodeRec
         /\ [r EXCEPT !.links = n].mode = r.mode /\ [r EXCEPT !.links = n].blks = r.blks
         /\ [r EXCEPT !.blks = s] \in InodeRec
         /\ [r EXCEPT !.blks = s].mode = r.mode /\ [r EXCEPT !.blks = s].blks = s
  BY DEF InodeRec

\* The steps of the handlers keep the types.
LEMMA TypeStep == TypeInv /\ Step => (TypeOK /\ BlocksTyped)'
  <1> SUFFICES ASSUME TypeInv, Step PROVE (TypeOK /\ BlocksTyped)' OBVIOUS
  <1> USE DEF TypeInv, TypeOK, At, disk
  <1>i. Idle \in OpRec /\ Elems(Idle.blks) = {} BY IdleType, ElemsFacts DEF Idle
  <1>o. op \in OpRec /\ op.blks \in Seq(Nat) /\ op.ino \in {0} \union Inodes BY DEF OpRec
  <1>l. CASE FailAndLeak BY <1>l, <1>i DEF FailAndLeak, BlocksTyped, OpRec, Return
  <1>c. CASE FailClean BY <1>c, <1>i DEF FailClean, BlocksTyped, Return
  <1>1. CASE AllocInode
    <2>1. Least(FreeInodes) \in Inodes BY <1>1, ChoiceTypes DEF AllocInode
    <2>2. m' \in Counters /\ op' \in OpRec
      BY <1>1, <2>1, CounterTypes, OpUpdates DEF AllocInode, Pcs
    <2>3. op'.kind = op.kind /\ op'.blks = op.blks
      BY <1>1 DEF AllocInode, OpRec
    <2> QED BY <1>1, <2>1, <2>2, <2>3 DEF AllocInode, BlocksTyped
  <1>2. CASE StoreMeta
    <2>1. CASE op' = Idle BY <1>2, <2>1, <1>i DEF StoreMeta, BlocksTyped
    <2>2. CASE Goto(AfterMeta[op.pc]) /\ op.pc \in DOMAIN AfterMeta
      <3>1. AfterMeta[op.pc] \in Pcs BY <2>2 DEF AfterMeta, Pcs
      <3>2. op' \in OpRec /\ op'.kind = op.kind /\ op'.blks = op.blks
        BY <2>2, <3>1, GotoFacts
      <3> QED BY <1>2, <3>2 DEF StoreMeta, BlocksTyped
    <2> QED BY <1>2, <2>1, <2>2 DEF StoreMeta, Return
  <1>3. CASE AllocBlock
    <2> DEFINE b == Least(FreeBlocks(bbm))
    <2>1. b \in Blocks /\ b \in Nat BY <1>3, ChoiceTypes, BlocksFinite DEF AllocBlock
    <2>2. <<b>> \in Seq(Nat) /\ Elems(<<b>>) = {b} BY <2>1, ElemsFacts
    <2>3. m' \in Counters /\ op' \in OpRec
      BY <1>3, <2>1, <2>2, CounterTypes, OpUpdates DEF AllocBlock, Pcs
    <2>4. op'.blks = <<b>>
      BY <1>3 DEF AllocBlock, OpRec
    <2> QED BY <1>3, <2>1, <2>2, <2>3, <2>4 DEF AllocBlock, BlocksTyped
  <1>4. CASE AllocBlockCtx
    <2> DEFINE b == Least(FreeBlocks(CtxBitmap))
    <2>1. b \in Blocks /\ b \in Nat BY <1>4, ChoiceTypes, BlocksFinite DEF AllocBlockCtx
    <2>2. Append(op.blks, b) \in Seq(Nat) /\ Elems(Append(op.blks, b)) = Elems(op.blks) \union {b}
      BY <2>1, <1>o, ElemsFacts
    <2>3. m' \in Counters /\ op' \in OpRec
      BY <1>4, <2>1, <2>2, CounterTypes, OpUpdates DEF AllocBlockCtx, Pcs
    <2>4. op'.blks = Append(op.blks, b) /\ op'.kind = op.kind
      BY <1>4 DEF AllocBlockCtx, OpRec
    <2> QED BY <1>4, <2>1, <2>2, <2>3, <2>4 DEF AllocBlockCtx, BlocksTyped
  <1>5. CASE WriteData
    <2>1. dblk' \in [Blocks -> [Slots -> Record]]
      BY <1>5, RecordTypes DEF WriteData
    <2>2. op.kind \notin {"mknod", "symlink"}
      BY <1>5 DEF WriteData, OpPath
    <2>3. CtxBitmap \subseteq Blocks /\ {BlockGroup(b) : b \in Elems(op.blks)} \subseteq Groups
      BY <2>2, BlockGroupType DEF CtxBitmap, BlocksTyped
    <2>4. op' \in OpRec
      BY <1>5, <2>3, OpUpdates DEF WriteData, Pcs
    <2>5. op'.kind = op.kind /\ op'.blks = op.blks
      BY <1>5 DEF WriteData, OpRec
    <2> QED BY <1>5, <2>1, <2>4, <2>5 DEF WriteData, BlocksTyped
  <1>6. CASE WriteBitmap
    <2>1. op' \in OpRec /\ op'.kind = op.kind /\ op'.blks = op.blks
      BY <1>6, OpUpdates DEF WriteBitmap, OpRec
    <2>2. bbm' \subseteq Blocks BY <1>6 DEF WriteBitmap, GroupBlocks, OpRec
    <2> QED BY <1>6, <2>1, <2>2 DEF WriteBitmap, BlocksTyped
  <1>7. CASE WriteInode
    <2>1. op.ino \in Inodes => itab[op.ino] \in InodeRec OBVIOUS
    <2>2. op.ino \in Inodes =>
             /\ NewInode \in InodeRec
             /\ NewInode.blks = op.blks
             /\ op.kind \in {"mknod", "symlink"} => NewInode.mode \notin {"reg", "dir"}
      BY <2>1, <1>o DEF NewInode, InodeRec, Modes
    <2>3. itab' \in [Inodes -> InodeRec]
      BY <1>7, <2>2 DEF WriteInode
    <2>4. \A i \in Inodes : itab'[i] = IF i = op.ino THEN NewInode ELSE itab[i]
      BY <1>7 DEF WriteInode
    <2>5. \A i \in Inodes : itab'[i].mode \in {"reg", "dir"} => Elems(itab'[i].blks) \subseteq Blocks
      BY <2>2, <2>4 DEF BlocksTyped
    <2>6. op' = Idle \/ Goto("append") \/ Goto("write_dirblk")
      BY <1>7 DEF WriteInode, Return
    <2>7. op' \in OpRec /\ (op' = Idle \/ (op'.kind = op.kind /\ op'.blks = op.blks))
      BY <2>6, <1>i, <1>o, GotoFacts DEF Pcs
    <2> QED BY <1>7, <1>i, <2>3, <2>5, <2>7 DEF WriteInode, BlocksTyped
  <1>8. CASE WriteDirBlock
    <2>1. "append" \in Pcs /\ Goto("append") BY <1>8 DEF Pcs, WriteDirBlock
    <2>2. op' \in OpRec /\ op'.kind = op.kind /\ op'.blks = op.blks
      BY <2>1, GotoFacts
    <2>3. DotBlock(op.ino, op.dir) \in [Slots -> Record] BY RecordTypes DEF OpRec
    <2>4. dblk' \in [Blocks -> [Slots -> Record]] BY <1>8, <2>3 DEF WriteDirBlock
    <2> QED BY <1>8, <2>2, <2>4 DEF WriteDirBlock, BlocksTyped
  <1>9. CASE AppendDirent
    <2>1. op' \in OpRec /\ (op' = Idle \/ (op'.kind = op.kind /\ op'.blks = op.blks))
      BY <1>9, <1>i, <1>o, GotoFacts DEF AppendDirent, AfterAppend, Return, Pcs
    <2>2. [ino |-> op.ino, name |-> op.name] \in Record BY RecordTypes DEF OpRec
    <2>3. \A b, s : [dblk EXCEPT ![b][s] = [ino |-> op.ino, name |-> op.name]]
                       \in [Blocks -> [Slots -> Record]]
      BY <2>2
    <2>4. dblk' \in [Blocks -> [Slots -> Record]] BY <1>9, <2>3 DEF AppendDirent
    <2> QED BY <1>9, <1>i, <2>1, <2>4 DEF AppendDirent, BlocksTyped
  <1>10. CASE GrowDir
    <2> DEFINE b == Least(FreeBlocks(bbm))
    <2>1. b \in Blocks BY <1>10, ChoiceTypes DEF GrowDir, CanGrow
    <2>2. m' \in Counters /\ op' \in OpRec
      BY <1>10, <2>1, CounterTypes, OpUpdates DEF GrowDir, Pcs
    <2>3. op'.blks = op.blks /\ op'.kind = op.kind
      BY <1>10 DEF GrowDir, OpRec
    <2> QED BY <1>10, <2>1, <2>2, <2>3 DEF GrowDir, BlocksTyped
  <1>11. CASE WriteGrownBlock
    <2>1. "grow_inode" \in Pcs /\ Goto("grow_inode") BY <1>11 DEF Pcs, WriteGrownBlock
    <2>2. op' \in OpRec /\ op'.kind = op.kind /\ op'.blks = op.blks
      BY <2>1, GotoFacts
    <2>3. OneEntry(op.ino, op.name) \in [Slots -> Record] BY RecordTypes DEF OpRec
    <2>4. dblk' \in [Blocks -> [Slots -> Record]] BY <1>11, <2>3 DEF WriteGrownBlock
    <2> QED BY <1>11, <2>2, <2>4 DEF WriteGrownBlock, BlocksTyped
  <1>12. CASE LinkGrownBlock
    <2>1. op' \in OpRec /\ (op' = Idle \/ (op'.kind = op.kind /\ op'.blks = op.blks))
      BY <1>12, <1>i, <1>o, GotoFacts DEF LinkGrownBlock, AfterAppend, Return, Pcs
    <2>2. op.dir \in Inodes /\ op.extra \in Blocks /\ op.extra \in Nat
      BY BlocksFinite DEF OpRec
    <2>3. itab[op.dir] \in InodeRec /\ itab[op.dir].blks \in Seq(Nat) BY <2>2 DEF InodeRec
    <2> DEFINE r == [itab[op.dir] EXCEPT !.blks = Append(@, op.extra)]
    <2>a. Append(itab[op.dir].blks, op.extra) \in Seq(Nat) BY <2>2, <2>3
    <2>b. r \in InodeRec /\ r.mode = itab[op.dir].mode
          /\ r.blks = Append(itab[op.dir].blks, op.extra)
      BY <2>a, <2>3, InodeUpdates
    <2>4. r \in InodeRec /\ r.mode = itab[op.dir].mode
          /\ Elems(r.blks) = Elems(itab[op.dir].blks) \union {op.extra}
      BY <2>2, <2>3, <2>b, ElemsFacts
    <2>5. itab' = [itab EXCEPT ![op.dir] = r] BY <1>12 DEF LinkGrownBlock
    <2> HIDE DEF r
    <2>6. itab' \in [Inodes -> InodeRec]
          /\ \A i \in Inodes : itab'[i] = IF i = op.dir THEN r ELSE itab[i]
      BY <2>4, <2>5
    <2>7. \A i \in Inodes : itab'[i].mode \in {"reg", "dir"} => Elems(itab'[i].blks) \subseteq Blocks
      BY <2>2, <2>4, <2>6 DEF BlocksTyped
    <2> QED BY <1>12, <1>i, <2>1, <2>6, <2>7 DEF LinkGrownBlock, BlocksTyped
  <1>13. CASE AppendFails
    <2>1. CASE Goto("free_inode") /\ UNCHANGED <<disk, m, crashed, lost>>
      <3>1. op' \in OpRec /\ op'.kind = op.kind /\ op'.blks = op.blks
        BY <2>1, GotoFacts DEF Pcs
      <3> QED BY <2>1, <3>1 DEF BlocksTyped
    <2> QED BY <1>13, <1>l, <2>1 DEF AppendFails
  <1>14. CASE LinkParent
    <2>1. op' \in OpRec /\ op'.kind = op.kind /\ op'.blks = op.blks
      BY <1>14, GotoFacts DEF LinkParent, Pcs
    <2>2. op.dir \in Inodes /\ itab[op.dir] \in InodeRec BY DEF OpRec
    <2> DEFINE r == [itab[op.dir] EXCEPT !.links = @ + 1]
    <2>a. itab[op.dir].links + 1 \in Nat BY <2>2 DEF InodeRec
    <2>b. << >> \in Seq(Nat) OBVIOUS
    <2>3. r \in InodeRec /\ r.mode = itab[op.dir].mode /\ r.blks = itab[op.dir].blks
      BY <2>2, <2>a, <2>b, InodeUpdates
    <2>4. itab' = [itab EXCEPT ![op.dir] = r] BY <1>14 DEF LinkParent
    <2> HIDE DEF r
    <2>5. itab' \in [Inodes -> InodeRec]
          /\ \A i \in Inodes : itab'[i] = IF i = op.dir THEN r ELSE itab[i]
      BY <2>3, <2>4
    <2>6. \A i \in Inodes : itab'[i].mode \in {"reg", "dir"} => Elems(itab'[i].blks) \subseteq Blocks
      BY <2>2, <2>3, <2>5 DEF BlocksTyped
    <2>7. m' \in Counters
      BY <1>14 DEF LinkParent, Counters
    <2> QED BY <1>14, <2>1, <2>5, <2>6, <2>7 DEF LinkParent, BlocksTyped
  <1>15. CASE RemoveDirent
    <2>1. op' \in OpRec /\ op'.kind = op.kind /\ op'.blks = op.blks
      BY <1>15, GotoFacts DEF RemoveDirent, Pcs
    <2>2. \A b, s : [dblk EXCEPT ![b][s] = IF s = 0 THEN [@ EXCEPT !.ino = 0] ELSE FreeSlot]
                       \in [Blocks -> [Slots -> Record]]
      BY RecordTypes
    <2>a. PICK k \in 1 .. Len(itab[op.dir].blks), s \in Slots :
             dblk' = [dblk EXCEPT ![itab[op.dir].blks[k]][s] =
                        IF s = 0 THEN [@ EXCEPT !.ino = 0] ELSE FreeSlot]
      BY <1>15 DEF RemoveDirent
    <2>3. dblk' \in [Blocks -> [Slots -> Record]] BY <2>a, <2>2
    <2> QED BY <1>15, <2>1, <2>3 DEF RemoveDirent, BlocksTyped
  <1>16. CASE ReleaseBlocks
    <2>1. Freed \intersect bbm \subseteq Blocks OBVIOUS
    <2>2. {BlockGroup(b) : b \in Freed \intersect bbm} \subseteq Groups BY <2>1, BlockGroupType
    <2>3. m' \in Counters BY <1>16, <2>1, CounterTypes DEF ReleaseBlocks
    <2>4. op' \in OpRec BY <1>16, <2>2, OpUpdates DEF ReleaseBlocks, Pcs
    <2>5. op'.blks = op.blks /\ op'.kind = op.kind
      BY <1>16 DEF ReleaseBlocks, OpRec
    <2> QED BY <1>16, <2>3, <2>4, <2>5 DEF ReleaseBlocks, BlocksTyped
  <1>17. CASE ClearInode
    <2>1. op' = Idle \/ Goto("free_inode") \/ Goto("alloc_data")
      BY <1>17 DEF ClearInode, Return
    <2>2. op' \in OpRec /\ (op' = Idle \/ (op'.kind = op.kind /\ op'.blks = op.blks))
      BY <2>1, <1>i, <1>o, GotoFacts DEF Pcs
    <2> DEFINE r == IF op.kind = "unlink" THEN ClearedInode ELSE [itab[op.ino] EXCEPT !.blks = << >>]
    <2>3. itab' = [itab EXCEPT ![op.ino] = r] BY <1>17 DEF ClearInode
    <2>a. op.ino \in Inodes => itab[op.ino] \in InodeRec OBVIOUS
    <2>b. << >> \in Seq(Nat) OBVIOUS
    <2>c. ClearedInode \in InodeRec /\ ClearedInode.blks = << >>
      BY <2>b DEF ClearedInode, InodeRec, Modes
    <2>4. op.ino \in Inodes => r \in InodeRec /\ r.blks = << >>
      BY <2>a, <2>b, <2>c, InodeUpdates
    <2> HIDE DEF r
    <2>5. itab' \in [Inodes -> InodeRec]
          /\ \A i \in Inodes : itab'[i] = IF i = op.ino THEN r ELSE itab[i]
      BY <2>3, <2>4
    <2>6. \A i \in Inodes : itab'[i].mode \in {"reg", "dir"} => Elems(itab'[i].blks) \subseteq Blocks
      BY <2>4, <2>5, ElemsFacts DEF BlocksTyped
    <2> QED BY <1>17, <1>i, <2>2, <2>5, <2>6 DEF ClearInode, BlocksTyped
  <1>18. CASE FreeInode
    <2>1. op' \in OpRec /\ op'.kind = op.kind /\ op'.blks = op.blks
      BY <1>18, GotoFacts DEF FreeInode, Pcs
    <2>2. m' \in Counters BY <1>18, CounterTypes DEF FreeInode
    <2> QED BY <1>18, <2>1, <2>2 DEF FreeInode, BlocksTyped
  <1> QED
    BY <1>l, <1>c, <1>1, <1>2, <1>3, <1>4, <1>5, <1>6, <1>7, <1>8, <1>9, <1>10, <1>11, <1>12,
       <1>13, <1>14, <1>15, <1>16, <1>17, <1>18
    DEF Step, AllocInodeFails, AllocBlockFails, AllocDataFails, ReleaseFails

\* Every step leaves the handler at a pc its kind may be at.
LEMMA PathStep == TypeInv /\ [Next]_vars => OpPath'
  <1> SUFFICES ASSUME TypeInv, [Next]_vars PROVE OpPath' OBVIOUS
  <1> USE DEF TypeInv, TypeOK, At, Making, Removing
  <1>i. op' = Idle => OpPath'
    <2>1. Idle.kind = "none" /\ Idle.pc = "idle" /\ Idle.dirty = {} BY DEF Idle
    <2> QED BY <2>1 DEF OpPath
  <1>f. FailAndLeak \/ FailClean \/ Crash => OpPath'
    BY <1>i DEF FailAndLeak, FailClean, Crash, Return
  <1>g. ASSUME NEW pc \in Pcs, Goto(pc)
        PROVE  op'.kind = op.kind /\ op'.pc = pc /\ op'.dirty = op.dirty
    BY <1>g, GotoFacts
  <1>p. \A x \in {"append", "free_inode", "write_dirblk", "grow_inode", "link_parent", "dirs_meta",
                  "release", "alloc_data", "free_meta"} : x \in Pcs
    BY DEF Pcs
  <1>1. CASE UNCHANGED vars BY <1>1 DEF vars, OpPath
  <1>2. CASE Start
    <2>1. PICK d \in Linked, n \in Names :
            \/ \E size \in FileSizes : Create(d, n, size)
            \/ Mkdir(d, n)
            \/ \E x \in NodeNumbers : Mknod(d, n, x) \/ Symlink(d, n, x)
            \/ Unlink(d, n)
            \/ Truncate(d, n)
            \/ \E size \in FileSizes : WriteExisting(d, n, size)
      BY <1>2 DEF Start
    <2>2. /\ op'.dirty = {}
          /\ \/ op'.kind \in {"create", "mkdir", "mknod", "symlink"} /\ op'.pc = "alloc_inode"
             \/ op'.kind = "unlink" /\ op'.pc = "remove"
             \/ op'.kind = "truncate" /\ op'.pc = "release"
             \/ op'.kind = "rewrite" /\ op'.pc \in {"release", "alloc_data"}
      <3>1. ASSUME NEW size \in FileSizes, Create(d, n, size)
            PROVE  op'.dirty = {} /\ op'.kind = "create" /\ op'.pc = "alloc_inode"
        BY <3>1 DEF Begin, Create, Idle
      <3>2. CASE Mkdir(d, n) BY <3>2 DEF Begin, Mkdir, Idle
      <3>3. ASSUME NEW x \in NodeNumbers, Mknod(d, n, x) \/ Symlink(d, n, x)
            PROVE  op'.dirty = {} /\ op'.kind \in {"mknod", "symlink"} /\ op'.pc = "alloc_inode"
        BY <3>3 DEF Begin, Mknod, Symlink, Idle
      <3>4. CASE Unlink(d, n) BY <3>4 DEF Begin, Unlink, Idle
      <3>5. CASE Truncate(d, n) BY <3>5 DEF Begin, Truncate, Idle
      <3>6. ASSUME NEW size \in FileSizes, WriteExisting(d, n, size)
            PROVE  op'.dirty = {} /\ op'.kind = "rewrite" /\ op'.pc \in {"release", "alloc_data"}
        BY <3>6 DEF Begin, WriteExisting, Idle
      <3> QED BY <2>1, <3>1, <3>2, <3>3, <3>4, <3>5, <3>6
    <2> QED BY <2>2 DEF OpPath
  <1>3. CASE AllocInode \/ AllocBlock \/ AllocBlockCtx \/ WriteData
    <2>1. CASE AllocInode BY <2>1 DEF AllocInode, OpPath, OpRec
    <2>2. CASE AllocBlock BY <2>2 DEF AllocBlock, OpPath, OpRec
    <2>3. CASE AllocBlockCtx BY <2>3 DEF AllocBlockCtx, OpPath, OpRec
    <2>4. CASE WriteData BY <2>4 DEF WriteData, OpPath, OpRec
    <2> QED BY <1>3, <2>1, <2>2, <2>3, <2>4
  <1>4. CASE StoreMeta
    <2>1. CASE AfterMeta[op.pc] = "idle" BY <1>4, <1>i, <2>1 DEF StoreMeta, Return
    <2>2. CASE AfterMeta[op.pc] # "idle"
      <3>1. AfterMeta[op.pc] \in Pcs BY <1>4 DEF StoreMeta, AfterMeta, Pcs
      <3>2. op'.kind = op.kind /\ op'.pc = AfterMeta[op.pc] /\ op'.dirty = {} /\ op.dirty = {}
        BY <1>4, <2>2, <3>1, <1>g DEF StoreMeta
      <3>3. op.pc \in {"inode_meta", "block_meta", "alloc_commit", "grow_meta", "free_commit",
                       "dirs_meta", "free_meta"}
        BY <1>4 DEF StoreMeta, AfterMeta
      <3>4. \/ op.pc = "inode_meta" /\ op'.pc = IF op.kind = "create" THEN "alloc_data"
                                     ELSE IF op.kind = "mkdir" THEN "alloc_block" ELSE "write_inode"
            \/ op.pc \in {"block_meta", "alloc_commit"} /\ op'.pc = "write_inode"
            \/ op.pc = "grow_meta" /\ op'.pc = "grow_block"
            \/ op.pc = "free_commit" /\ op'.pc = "clear_inode"
        BY <2>2, <3>2, <3>3 DEF AfterMeta
      <3> QED BY <3>2, <3>4 DEF OpPath
    <2> QED BY <2>1, <2>2
  <1>5. CASE WriteBitmap
    BY <1>5 DEF WriteBitmap, OpPath, OpRec
  <1>6. CASE WriteInode
    <2>1. op' = Idle \/ (Goto("append") /\ op.kind \notin {"mkdir", "rewrite"})
          \/ (Goto("write_dirblk") /\ op.kind = "mkdir")
      BY <1>6 DEF WriteInode, Return
    <2> QED BY <1>6, <1>i, <1>g, <1>p, <2>1 DEF WriteInode, OpPath
  <1>7. CASE WriteDirBlock BY <1>7, <1>g, <1>p DEF WriteDirBlock, OpPath
  <1>8. CASE AppendDirent \/ LinkGrownBlock
    <2>1. op' = Idle \/ (Goto("link_parent") /\ op.kind = "mkdir")
      BY <1>8 DEF AppendDirent, LinkGrownBlock, AfterAppend, Return
    <2> QED BY <1>8, <1>i, <1>g, <1>p, <2>1 DEF AppendDirent, LinkGrownBlock, OpPath
  <1>9. CASE GrowDir BY <1>9 DEF GrowDir, OpPath, OpRec
  <1>10. CASE WriteGrownBlock BY <1>10, <1>g, <1>p DEF WriteGrownBlock, OpPath
  <1>11. CASE LinkParent BY <1>11, <1>g, <1>p DEF LinkParent, OpPath
  <1>12. CASE AppendFails BY <1>12, <1>f, <1>g, <1>p DEF AppendFails, OpPath
  <1>13. CASE RemoveDirent
    <2>1. At("remove") /\ Goto("release") BY <1>13 DEF RemoveDirent
    <2> QED BY <1>g, <1>p, <2>1 DEF OpPath
  <1>14. CASE ReleaseBlocks BY <1>14 DEF ReleaseBlocks, OpPath, OpRec
  <1>15. CASE FreeInode BY <1>15, <1>g, <1>p DEF FreeInode, OpPath
  <1>16. CASE ClearInode
    <2>1. op' = Idle \/ (Goto("free_inode") /\ op.kind = "unlink")
          \/ (Goto("alloc_data") /\ op.kind = "rewrite")
      BY <1>16 DEF ClearInode, Return
    <2> QED BY <1>16, <1>i, <1>g, <1>p, <2>1 DEF ClearInode, OpPath
  <1> QED
    BY <1>f, <1>1, <1>2, <1>3, <1>4, <1>5, <1>6, <1>7, <1>8, <1>9, <1>10, <1>11, <1>12, <1>13,
       <1>14, <1>15, <1>16
    DEF Next, Step, AllocInodeFails, AllocBlockFails, AllocDataFails, ReleaseFails

\* Types are inductive: every step of a handler, every start of one and every
\* crash keeps TypeInv.
LEMMA TypeNext == TypeInv /\ [Next]_vars => TypeInv'
  <1> SUFFICES ASSUME TypeInv, [Next]_vars PROVE TypeInv' OBVIOUS
  <1>1. OpPath' BY PathStep
  <1>2. CASE Step BY <1>1, <1>2, TypeStep DEF TypeInv
  <1>3. CASE Start BY <1>1, <1>3, TypeStart DEF TypeInv
  <1>4. CASE Crash
    BY <1>1, <1>4, IdleType, ElemsFacts DEF TypeInv, TypeOK, Crash, Return, BlocksTyped, disk, Idle
  <1>5. CASE UNCHANGED vars BY <1>5 DEF TypeInv, TypeOK, vars, BlocksTyped, OpPath
  <1> QED BY <1>2, <1>3, <1>4, <1>5 DEF Next

\* In every image mkfs.ext2 makes and whatever operations, failures and crashes
\* follow, the bitmaps, counters, inodes and directory records stay well formed.
THEOREM TypeInvCorrect == Spec => []TypeInv
  <1>1. Init => TypeInv BY TypeInit
  <1> QED BY <1>1, TypeNext, PTL DEF Spec

\* In particular no free counter ever leaves Nat, although every allocator and
\* every release computes it from the copy in memory.
THEOREM TypeCorrect == Spec => []TypeOK
  <1>1. TypeInv => TypeOK BY DEF TypeInv
  <1> QED BY <1>1, TypeInvCorrect, PTL

------------------------------------------------------------------------------
(* What the inode table and the directory blocks determine                   *)

\* The inodes on a path are the root and those a live record leads to.
LEMMA LinkedIs ==
    TypeInv =>
      /\ DirInodes \subseteq Inodes /\ Linked \subseteq Inodes /\ Root \in Linked
      /\ \A i : i \in Linked <=>
           \/ i = Root
           \/ \E d \in DirInodes : \E k \in 1 .. Len(itab[d].blks), s \in Slots :
                 Live(d, k, s) /\ Rec(d, k, s).ino = i
  <1> SUFFICES ASSUME TypeInv
               PROVE  /\ DirInodes \subseteq Inodes /\ Linked \subseteq Inodes /\ Root \in Linked
                      /\ \A i : i \in Linked <=>
                           \/ i = Root
                           \/ \E d \in DirInodes : \E k \in 1 .. Len(itab[d].blks), s \in Slots :
                                 Live(d, k, s) /\ Rec(d, k, s).ino = i
    OBVIOUS
  <1>1. DirInodes \subseteq Inodes BY DEF DirInodes
  <1>2. \A d \in DirInodes : \A k \in 1 .. Len(itab[d].blks), s \in Slots :
           Rec(d, k, s).ino \in {0} \union Inodes
    BY DEF TypeInv, TypeOK, BlocksTyped, DirInodes, Elems, Rec, Record
  <1>3. \A d : Entries(d) = {Rec(d, k, s) : k \in 1 .. Len(itab[d].blks), s \in Slots}
    BY DEF Entries, Rec
  <1>4. \A i : (\E d \in DirInodes : \E e \in Entries(d) : i \in Inodes /\ e.ino = i /\ e.name \in Names) <=>
               (\E d \in DirInodes : \E k \in 1 .. Len(itab[d].blks), s \in Slots :
                    Live(d, k, s) /\ Rec(d, k, s).ino = i)
    BY <1>2, <1>3, RootFacts DEF Live
  <1> QED BY <1>1, <1>4, RootFacts DEF Linked

\* The same after a step.
LEMMA LinkedIsNext ==
    (TypeInv =>
      /\ DirInodes \subseteq Inodes /\ Linked \subseteq Inodes /\ Root \in Linked
      /\ \A i : i \in Linked <=>
           \/ i = Root
           \/ \E d \in DirInodes : \E k \in 1 .. Len(itab[d].blks), s \in Slots :
                 Live(d, k, s) /\ Rec(d, k, s).ino = i)'
  BY LinkedIs, PTL

\* The blocks of a directory are blocks of the image and its own claims.
LEMMA DirBlocks ==
    ASSUME TypeInv, NEW d \in DirInodes, NEW k \in 1 .. Len(itab[d].blks)
    PROVE  /\ itab[d].blks[k] \in Blocks /\ itab[d].blks[k] \in Claims(d)
           /\ d \in Owners /\ HasBlocks(d)
  BY DEF TypeInv, BlocksTyped, DirInodes, Elems, Claims, Owners, HasBlocks

------------------------------------------------------------------------------
(* Steps that leave the inode table and the directory blocks alone           *)

LEMMA QuietView ==
    ASSUME UNCHANGED <<itab, dblk>>
    PROVE  /\ Linked' = Linked /\ DirInodes' = DirInodes /\ LinkedDirs' = LinkedDirs
           /\ \A i : Claims(i)' = Claims(i) /\ (HasBlocks(i)' <=> HasBlocks(i))
           /\ \A b : Loud(b)' <=> Loud(b)
           /\ \A d, k, s : Rec(d, k, s)' = Rec(d, k, s) /\ (Live(d, k, s)' <=> Live(d, k, s))
  BY DEF Linked, DirInodes, LinkedDirs, Entries, Claims, HasBlocks, Loud, Rec, Live

LEMMA QuietInv ==
    ASSUME IInv, UNCHANGED <<itab, dblk>>, Active' \subseteq Active, NewDir' \subseteq NewDir
    PROVE  /\ Owners' \subseteq Owners
           /\ (OwnersClean /\ OwnersDisjoint /\ RootIsDir /\ LinkedWritten /\ SpecialHarmless)'
           /\ (OneRecord /\ RecordsUnreserved /\ NamesOnce /\ LoudUnfiled /\ DotsSound)'
  <1> USE QuietView DEF IInv, DiskInv, RecordInv
  <1>1. Owners' \subseteq Owners BY DEF Owners
  <1>2. OwnersClean' BY <1>1 DEF OwnersClean
  <1>3. OwnersDisjoint' BY <1>1 DEF OwnersDisjoint
  <1>4. (RootIsDir /\ LinkedWritten /\ SpecialHarmless)'
    BY DEF RootIsDir, LinkedWritten, SpecialHarmless
  <1>5. OneRecord' BY DEF OneRecord
  <1>6. (RecordsUnreserved /\ NamesOnce)' BY DEF RecordsUnreserved, NamesOnce
  <1>7. LoudUnfiled' BY <1>1 DEF LoudUnfiled
  <1>8. DotsSound' BY DEF DotsSound
  <1> QED BY <1>1, <1>2, <1>3, <1>4, <1>5, <1>6, <1>7, <1>8

\* If bits are only set, and an inode being emptied stays so while it owns blocks.
LEMMA QuietDisk ==
    ASSUME IInv, UNCHANGED <<itab, dblk>>, Active' \subseteq Active, NewDir' \subseteq NewDir,
           bbm \subseteq bbm', ibm \subseteq ibm', BeingFreed \intersect Owners' \subseteq BeingFreed'
    PROVE  (DiskInv /\ RecordInv)' /\ Owners' \subseteq Owners
  <1>1. Owners' \subseteq Owners BY QuietInv
  <1> USE DEF IInv, DiskInv, RecordInv
  <1>2. (MetaMarked /\ OwnersAllocated)' BY <1>1 DEF MetaMarked, OwnersAllocated
  <1>3. OwnersMarked' BY <1>1, QuietView DEF OwnersMarked
  <1>4. LoudMarked' BY QuietView DEF LoudMarked
  <1> QED BY <1>1, <1>2, <1>3, <1>4, QuietInv

\* A handler that has returned holds nothing.
LEMMA IdleOp ==
    ASSUME op' = Idle, RootIsDir'
    PROVE  OpInv' /\ Active' = {} /\ NewDir' = {} /\ BeingFreed' = {}
  <1>1. op'.kind = "none" /\ op'.pc = "idle" /\ op'.dir = Root BY DEF Idle
  <1>2. Active' = {} /\ NewDir' = {} /\ BeingFreed' = {}
    BY <1>1 DEF Active, NewDir, BeingFreed, Removing
  <1>3. OpDir' BY <1>1 DEF OpDir, Linked, RootIsDir
  <1>4. (OpName /\ OpInode /\ OpTarget /\ OpBitmap)'
    BY <1>1 DEF OpName, OpInode, OpTarget, OpBitmap, Making, Removing
  <1>5. (OpWritten /\ OpBlocks /\ OpExtra)'
    BY <1>1 DEF OpWritten, WrittenPcs, OpBlocks, OpExtra, Held, FreshPcs
  <1> QED BY <1>2, <1>3, <1>4, <1>5 DEF OpInv


------------------------------------------------------------------------------
(* Returns and crashes                                                       *)

\* A handler that gives up, or dies, outside truncate and write_existing: what it
\* was giving back belongs to nobody any more.
LEMMA ReturnInv ==
    ASSUME Harmless, TypeInv, IInv,
           \/ (FailClean \/ FailAndLeak) /\ op.pc \notin {"free_commit", "clear_inode"}
           \/ Crash
    PROVE  IInv'
  <1>1. op' = Idle /\ UNCHANGED <<bbm, ibm, itab, dblk>>
    BY DEF FailClean, FailAndLeak, Crash, Return, disk
  <1>2. OpInv' /\ Active' = {} /\ NewDir' = {} /\ BeingFreed' = {}
    BY <1>1, IdleOp DEF IInv, DiskInv, RootIsDir
  <1>3. BeingFreed \intersect Owners' = {}
    <2>1. CASE Crash
      <3>1. op.kind \notin {"truncate", "rewrite"} BY <2>1 DEF Crash, Harmless
      <3>2. BeingFreed # {} => op.ino \notin Linked /\ op.ino \notin DirInodes /\ BeingFreed = {op.ino}
        BY <3>1 DEF BeingFreed, Removing, IInv, OpInv, OpTarget
      <3>3. Linked' = Linked /\ DirInodes' = DirInodes BY <1>1, QuietView
      <3> QED BY <1>2, <3>2, <3>3 DEF Owners
    <2>2. CASE op.pc \notin {"free_commit", "clear_inode"} BY <2>2 DEF BeingFreed
    <2> QED BY <2>1, <2>2
  <1>4. (DiskInv /\ RecordInv)' BY <1>1, <1>2, <1>3, QuietDisk
  <1> QED BY <1>2, <1>4 DEF IInv

------------------------------------------------------------------------------
(* Allocation                                                                *)

\* ext2_alloc_inode takes an inode nobody owns.
LEMMA AllocInodeInv == ASSUME TypeInv, IInv, AllocInode PROVE IInv'
  <1> DEFINE i == Least(FreeInodes)
  <1>0. op.pc = "alloc_inode" /\ op.kind \in Making /\ UNCHANGED <<bbm, itab, dblk>>
        /\ ibm' = ibm \union {i} /\ op' = [op EXCEPT !.ino = i, !.pc = "inode_meta"]
    BY DEF AllocInode, At, TypeInv, OpPath
  <1>1. i \in Inodes /\ i \notin ibm BY ChoiceTypes DEF AllocInode
  <1>2. i \notin Owners /\ i \notin Reserved /\ i \notin Linked /\ i \notin DirInodes
    BY <1>1 DEF IInv, DiskInv, OwnersAllocated, Owners
  <1> HIDE DEF i
  <1>3. /\ op'.pc = "inode_meta" /\ op'.ino = i
        /\ op'.kind = op.kind /\ op'.dir = op.dir /\ op'.name = op.name /\ op'.blks = op.blks
    BY <1>0 DEF TypeInv, TypeOK, OpRec
  <1>4. Active' = {} /\ NewDir' = {} /\ BeingFreed = {} /\ BeingFreed' = {}
    BY <1>0, <1>3 DEF Active, NewDir, BeingFreed
  <1>5. (DiskInv /\ RecordInv)' BY <1>0, <1>4, QuietDisk
  <1> USE QuietView DEF IInv, OpInv
  <1>6. OpDir' BY <1>0, <1>3 DEF OpDir
  <1>7. OpName' BY <1>0, <1>3 DEF OpName, NamingPcs
  <1>8. OpInode' BY <1>0, <1>2, <1>3 DEF OpInode, NamingPcs, MakingPcs, WrittenPcs
  <1>9. (OpWritten /\ OpTarget /\ OpBitmap)'
    BY <1>0, <1>3 DEF OpWritten, OpTarget, OpBitmap, WrittenPcs, Making, Removing
  <1>10. (OpBlocks /\ OpExtra)' BY <1>0, <1>3 DEF OpBlocks, OpExtra, Held, FreshPcs
  <1> QED BY <1>5, <1>6, <1>7, <1>8, <1>9, <1>10

\* A block that is free on disk is nobody's, holds no live record and is no metadata.
LEMMA FreeBlockFacts ==
    ASSUME TypeInv, IInv, BeingFreed = {}, NEW b \in Blocks \ bbm
    PROVE  b \notin MetaBlocks /\ ~Loud(b) /\ \A i \in Owners : b \notin Claims(i)
  BY DEF IInv, DiskInv, RecordInv, MetaMarked, OwnersMarked, LoudMarked

\* ext2_alloc_block, for the first block of a directory.
LEMMA AllocBlockInv == ASSUME TypeInv, IInv, AllocBlock PROVE IInv'
  <1> DEFINE b == Least(FreeBlocks(bbm))
  <1>0. op.pc = "alloc_block" /\ op.kind = "mkdir" /\ UNCHANGED <<ibm, itab, dblk>>
        /\ bbm' = bbm \union {b} /\ op' = [op EXCEPT !.blks = <<b>>, !.pc = "block_meta"]
    BY DEF AllocBlock, At, TypeInv, OpPath
  <1>1. b \in Blocks \ bbm BY ChoiceTypes DEF AllocBlock
  <1> HIDE DEF b
  <1>2. /\ op'.pc = "block_meta" /\ op'.blks = <<b>> /\ op'.ino = op.ino
        /\ op'.kind = op.kind /\ op'.dir = op.dir /\ op'.name = op.name
    BY <1>0 DEF TypeInv, TypeOK, OpRec
  <1>3. Active' = {} /\ NewDir' = {} /\ BeingFreed = {} /\ BeingFreed' = {}
    BY <1>0, <1>2 DEF Active, NewDir, BeingFreed, Removing
  <1>4. b \notin MetaBlocks /\ ~Loud(b) /\ \A i \in Owners : b \notin Claims(i)
    BY <1>1, <1>3, FreeBlockFacts
  <1>5. (DiskInv /\ RecordInv)' /\ Owners' \subseteq Owners BY <1>0, <1>3, QuietDisk
  <1> USE QuietView DEF IInv, OpInv
  <1>6. OpDir' BY <1>0, <1>2 DEF OpDir
  <1>7. OpName' BY <1>0, <1>2 DEF OpName, NamingPcs
  <1>8. OpInode' BY <1>0, <1>2 DEF OpInode, NamingPcs, MakingPcs, WrittenPcs, Making
  <1>9. (OpWritten /\ OpTarget /\ OpBitmap)'
    BY <1>0, <1>2 DEF OpWritten, OpTarget, OpBitmap, WrittenPcs, Removing
  <1>10. Elems(op'.blks) = {b} /\ Len(op'.blks) = 1 BY <1>2, ElemsFacts
  <1>11. OpBlocks' BY <1>0, <1>2, <1>4, <1>5, <1>10 DEF OpBlocks, Held, FreshPcs
  <1>12. OpExtra' BY <1>2 DEF OpExtra
  <1> QED BY <1>5, <1>6, <1>7, <1>8, <1>9, <1>11, <1>12

\* A sequence without repetition, extended by something new.
LEMMA AppendFresh ==
    ASSUME NEW s \in Seq(Nat), NEW x \in Nat, x \notin Elems(s),
           \A p, q \in 1 .. Len(s) : s[p] = s[q] => p = q
    PROVE  \A p, q \in 1 .. Len(Append(s, x)) : Append(s, x)[p] = Append(s, x)[q] => p = q
  <1> DEFINE t == Append(s, x)
  <1>1. Len(t) = Len(s) + 1 /\ Len(s) \in Nat /\ t[Len(s) + 1] = x
        /\ \A k \in 1 .. Len(s) : t[k] = s[k] /\ s[k] # x
    BY DEF Elems
  <1>2. \A p \in 1 .. Len(t) : p \in 1 .. Len(s) \/ p = Len(s) + 1 BY <1>1
  <1> HIDE DEF t
  <1>3. \A p, q \in 1 .. Len(t) : t[p] = t[q] => p = q BY <1>1, <1>2
  <1> QED BY <1>3 DEF t

\* ext2_alloc_block_ctx: the context knows the blocks it handed out itself.
LEMMA AllocCtxInv == ASSUME TypeInv, IInv, AllocBlockCtx PROVE IInv'
  <1> DEFINE b == Least(FreeBlocks(CtxBitmap))
  <1>0. op.pc = "alloc_data" /\ op.kind \in {"create", "rewrite"} /\ UNCHANGED <<bbm, ibm, itab, dblk>>
        /\ op' = [op EXCEPT !.blks = Append(@, b)]
    BY DEF AllocBlockCtx, At, TypeInv, OpPath, disk
  <1>1. b \in Blocks \ bbm /\ b \notin Elems(op.blks) /\ b \in Nat
    BY ChoiceTypes, BlocksFinite DEF AllocBlockCtx
  <1> HIDE DEF b
  <1>2. /\ op'.pc = op.pc /\ op'.blks = Append(op.blks, b) /\ op'.ino = op.ino
        /\ op'.kind = op.kind /\ op'.dir = op.dir /\ op'.name = op.name
        /\ op.blks \in Seq(Nat)
    BY <1>0 DEF TypeInv, TypeOK, OpRec
  <1>3. Active' = {} /\ NewDir' = {} /\ BeingFreed = {} /\ BeingFreed' = {}
    BY <1>0, <1>2 DEF Active, NewDir, BeingFreed, Removing
  <1>4. b \notin MetaBlocks /\ ~Loud(b) /\ \A i \in Owners : b \notin Claims(i)
    BY <1>1, <1>3, FreeBlockFacts
  <1>5. (DiskInv /\ RecordInv)' /\ Owners' \subseteq Owners BY <1>0, <1>3, QuietDisk
  <1> USE QuietView DEF IInv, OpInv
  <1>6. OpDir' BY <1>0, <1>2 DEF OpDir
  <1>7. OpName' BY <1>0, <1>2 DEF OpName, NamingPcs
  <1>8. OpInode' BY <1>0, <1>2 DEF OpInode, NamingPcs, MakingPcs, WrittenPcs, Making
  <1>9. (OpWritten /\ OpTarget /\ OpBitmap)'
    BY <1>0, <1>2 DEF OpWritten, OpTarget, OpBitmap, WrittenPcs, Removing
  <1>10. Elems(op'.blks) = Elems(op.blks) \union {b} BY <1>1, <1>2, ElemsFacts
  <1>11. Held /\ Held' BY <1>0, <1>2 DEF Held
  <1>12. \A p, q \in 1 .. Len(op'.blks) : op'.blks[p] = op'.blks[q] => p = q
    <2>1. \A p, q \in 1 .. Len(op.blks) : op.blks[p] = op.blks[q] => p = q BY <1>11 DEF OpBlocks
    <2>2. op.blks \in Seq(Nat) /\ b \in Nat /\ b \notin Elems(op.blks) BY <1>1, <1>2
    <2>3. \A p, q \in 1 .. Len(Append(op.blks, b)) :
             Append(op.blks, b)[p] = Append(op.blks, b)[q] => p = q
      BY <2>1, <2>2, AppendFresh
    <2> QED BY <1>2, <2>3
  <1>13. OpBlocks'
    <2> DEFINE new == Elems(op'.blks)
    <2>0. bbm' = bbm /\ op.pc = "alloc_data" /\ op'.pc = "alloc_data" /\ new = Elems(op.blks) \union {b}
      BY <1>0, <1>2, <1>10
    <2> HIDE DEF new
    <2>1. new \intersect MetaBlocks = {} /\ new \intersect bbm' = {} /\ \A x \in new : ~Loud(x)'
      BY <2>0, <1>0, <1>1, <1>4, <1>11 DEF OpBlocks
    <2>2. \A i \in Owners' : Claims(i)' \intersect new = {}
      BY <2>0, <1>0, <1>4, <1>5, <1>11 DEF OpBlocks
    <2> QED BY <2>0, <1>12, <2>1, <2>2 DEF OpBlocks, FreshPcs, new
  <1>14. OpExtra' BY <1>0, <1>2 DEF OpExtra
  <1> QED BY <1>5, <1>6, <1>7, <1>8, <1>9, <1>13, <1>14

------------------------------------------------------------------------------
(* ext2_store_meta and the bitmaps                                           *)

\* ext2_store_meta touches only counters; the handler goes on.
LEMMA StoreMetaInv == ASSUME TypeInv, IInv, StoreMeta PROVE IInv'
  <1>0. op.pc \in {"inode_meta", "block_meta", "alloc_commit", "grow_meta", "free_commit",
                   "dirs_meta", "free_meta"}
        /\ op.dirty = {} /\ UNCHANGED <<bbm, ibm, itab, dblk>> /\ op \in OpRec
        /\ IF AfterMeta[op.pc] = "idle" THEN op' = Idle ELSE Goto(AfterMeta[op.pc])
    BY DEF StoreMeta, AfterMeta, Return, TypeInv, TypeOK
  <1>1. CASE op' = Idle /\ op.pc \in {"dirs_meta", "free_meta"}
    <2>1. OpInv' /\ Active' = {} /\ NewDir' = {} /\ BeingFreed' = {}
      BY <1>0, <1>1, IdleOp DEF IInv, DiskInv, RootIsDir
    <2>2. BeingFreed = {} BY <1>1 DEF BeingFreed
    <2>3. (DiskInv /\ RecordInv)' BY <1>0, <2>1, <2>2, QuietDisk
    <2> QED BY <2>1, <2>3 DEF IInv
  <1>2. CASE op.pc \notin {"dirs_meta", "free_meta"}
    <2>1. AfterMeta[op.pc] \in Pcs /\ AfterMeta[op.pc] # "idle"
      BY <1>0, <1>2 DEF AfterMeta, Pcs
    <2>2. /\ op'.pc = AfterMeta[op.pc] /\ op'.kind = op.kind /\ op'.dir = op.dir /\ op'.name = op.name
          /\ op'.ino = op.ino /\ op'.blks = op.blks /\ op'.extra = op.extra /\ op'.bm = op.bm
      BY <1>0, <2>1, GotoFacts
    <2>3. \/ /\ op.pc = "inode_meta" /\ op.kind \in Making
             /\ op'.pc = IF op.kind = "create" THEN "alloc_data"
                         ELSE IF op.kind = "mkdir" THEN "alloc_block" ELSE "write_inode"
          \/ op.pc = "block_meta" /\ op.kind = "mkdir" /\ op'.pc = "write_inode"
          \/ op.pc = "alloc_commit" /\ op.kind \in {"create", "rewrite"} /\ op'.pc = "write_inode"
          \/ op.pc = "grow_meta" /\ op.kind \in Making /\ op'.pc = "grow_block"
          \/ op.pc = "free_commit" /\ op.kind \in Removing /\ op'.pc = "clear_inode"
      BY <1>0, <1>2, <2>2 DEF AfterMeta, TypeInv, OpPath
    <2>4. Active' = Active /\ NewDir' = NewDir /\ BeingFreed' = BeingFreed
      BY <2>2, <2>3 DEF Active, NewDir, BeingFreed
    <2>5. (DiskInv /\ RecordInv)' /\ Owners' \subseteq Owners BY <1>0, <2>4, QuietDisk
    <2> USE QuietView, <1>0 DEF IInv, OpInv
    <2>6. OpDir' BY <2>2, <2>3 DEF OpDir, Making, Removing
    <2>7. OpName' BY <2>2, <2>3 DEF OpName, NamingPcs, Making, Removing
    <2>8. OpInode' BY <2>2, <2>3 DEF OpInode, NamingPcs, MakingPcs, WrittenPcs, Making, Removing
    <2>9. OpWritten' BY <2>2, <2>3 DEF OpWritten, WrittenPcs, Making, Removing
    <2>10. OpTarget' BY <2>2, <2>3 DEF OpTarget, Making, Removing
    <2>11. OpBitmap' BY <2>2, <2>3, <2>5 DEF OpBitmap, Making, Removing
    <2>12. OpBlocks'
      <3>1. op.kind \in {"create", "mkdir", "rewrite"} /\ op'.pc \in FreshPcs => op.blks = << >>
        BY <2>3 DEF OpBlocks, FreshPcs, Making
      <3>2. Held' => Held \/ op.blks = << >>
        BY <2>2, <2>3 DEF OpBlocks, Held, FreshPcs, Making
      <3>3. op'.pc = "alloc_data" => op.blks = << >>
        BY <2>2, <2>3 DEF OpBlocks, FreshPcs
      <3>4. op'.pc = "write_inode" /\ Held' => Elems(op.blks) \subseteq bbm
        BY <2>2, <2>3 DEF OpBlocks, Held, FreshPcs, Making
      <3>5. op.blks = << >> => Elems(op.blks) = {} /\ Len(op.blks) = 0 BY ElemsFacts
      <3>6. Held' => /\ Elems(op.blks) \intersect MetaBlocks = {}
                     /\ \A p, q \in 1 .. Len(op.blks) : op.blks[p] = op.blks[q] => p = q
                     /\ \A i \in Owners' : Claims(i)' \intersect Elems(op.blks) = {}
                     /\ \A b \in Elems(op.blks) : ~Loud(b)'
        BY <2>5, <3>2, <3>5 DEF OpBlocks
      <3> QED BY <2>2, <2>3, <3>1, <3>3, <3>4, <3>5, <3>6 DEF OpBlocks
    <2>13. OpExtra' BY <2>2, <2>3, <2>5 DEF OpExtra
    <2> QED BY <2>5, <2>6, <2>7, <2>8, <2>9, <2>10, <2>11, <2>12, <2>13
  <1> QED BY <1>0, <1>1, <1>2 DEF AfterMeta

\* One group's bitmap goes to disk: new blocks become used, or freed ones free.
LEMMA WriteBitmapInv == ASSUME TypeInv, IInv, WriteBitmap PROVE IInv'
  <1> DEFINE g == Least(op.dirty)
  <1>0. op.pc \in {"alloc_commit", "free_commit"} /\ UNCHANGED <<ibm, itab, dblk>>
        /\ bbm' = (bbm \ GroupBlocks(g)) \union (op.bm \intersect GroupBlocks(g))
        /\ op' = [op EXCEPT !.dirty = @ \ {g}]
    BY DEF WriteBitmap
  <1> HIDE DEF g
  <1>1. /\ op'.pc = op.pc /\ op'.kind = op.kind /\ op'.dir = op.dir /\ op'.name = op.name
        /\ op'.ino = op.ino /\ op'.blks = op.blks /\ op'.extra = op.extra /\ op'.bm = op.bm
        /\ op'.dirty = op.dirty \ {g}
    BY <1>0 DEF TypeInv, TypeOK, OpRec
  <1>2. Active' = Active /\ NewDir' = NewDir /\ BeingFreed' = BeingFreed /\ (Held' <=> Held)
    BY <1>1 DEF Active, NewDir, BeingFreed, Held
  <1>3. Owners' \subseteq Owners BY <1>0, <1>2, QuietInv
  <1>4. /\ op.pc = "alloc_commit" => op.kind \in {"create", "rewrite"}
        /\ op.pc = "free_commit" => op.kind \in Removing
    BY DEF TypeInv, OpPath
  <1> USE QuietView DEF IInv, OpInv
  <1>5. OpDir' BY <1>0, <1>1 DEF OpDir
  <1>6. OpName' BY <1>0, <1>1 DEF OpName
  <1>7. OpInode' BY <1>0, <1>1 DEF OpInode
  <1>8. OpWritten' BY <1>0, <1>1 DEF OpWritten, WrittenPcs
  <1>9. OpTarget' BY <1>0, <1>1 DEF OpTarget
  <1>10. OpExtra' BY <1>0, <1>1 DEF OpExtra
  <1>11. CASE op.pc = "alloc_commit"
    <2>1. op.bm = bbm \union Elems(op.blks) BY <1>11 DEF OpBlocks
    <2>2. bbm \subseteq bbm' /\ op.bm = bbm' \union Elems(op.blks) BY <1>0, <2>1
    <2>3. (DiskInv /\ RecordInv)' BY <1>0, <1>2, <2>2, QuietDisk
    <2>4. Elems(op.blks) \subseteq Blocks BY <1>4, <1>11 DEF TypeInv, BlocksTyped
    <2>5. \A b \in Elems(op.blks) : b \in bbm' \/ BlockGroup(b) \in op.dirty \ {g}
      BY <1>0, <1>11, <2>1, <2>4 DEF OpBlocks, GroupBlocks
    <2>6. OpBlocks'
      BY <1>0, <1>1, <1>2, <1>3, <1>11, <2>2, <2>5 DEF OpBlocks, FreshPcs
    <2>7. OpBitmap' BY <1>1, <1>11 DEF OpBitmap
    <2> QED BY <1>5, <1>6, <1>7, <1>8, <1>9, <1>10, <2>3, <2>6, <2>7
  <1>12. CASE op.pc = "free_commit"
    <2>1. /\ op.bm \subseteq bbm /\ MetaBlocks \subseteq op.bm
          /\ \A i \in Owners \ {op.ino} : Claims(i) \subseteq op.bm
          /\ \A b \in Blocks : Loud(b) => b \in op.bm
      BY <1>4, <1>12 DEF OpBitmap
    <2>2. op.bm \subseteq bbm' BY <1>0, <2>1
    <2>3. BeingFreed = {op.ino} BY <1>4, <1>12 DEF BeingFreed
    <2>4. MetaMarked' BY <2>1, <2>2 DEF MetaMarked
    <2>5. OwnersMarked' BY <1>0, <1>2, <1>3, <2>1, <2>2, <2>3 DEF OwnersMarked
    <2>6. LoudMarked' BY <1>0, <2>1, <2>2 DEF LoudMarked
    <2>7. OwnersAllocated' BY <1>0, <1>3 DEF OwnersAllocated, DiskInv
    <2>8. (DiskInv /\ RecordInv)'
      BY <1>0, <1>2, <2>4, <2>5, <2>6, <2>7, QuietInv DEF DiskInv, RecordInv
    <2>9. OpBlocks' BY <1>1, <1>2, <1>12 DEF OpBlocks, Held
    <2>10. OpBitmap' BY <1>0, <1>1, <1>3, <2>1, <2>2 DEF OpBitmap
    <2> QED BY <1>5, <1>6, <1>7, <1>8, <1>9, <1>10, <2>8, <2>9, <2>10
  <1> QED BY <1>0, <1>11, <1>12

------------------------------------------------------------------------------
(* The rest of the steps that leave inodes and directory blocks alone        *)

\* A directory whose blocks are full takes one more.
LEMMA GrowDirInv == ASSUME TypeInv, IInv, GrowDir PROVE IInv'
  <1> DEFINE b == Least(FreeBlocks(bbm))
  <1>0. op.pc = "append" /\ op.kind \in Making /\ UNCHANGED <<ibm, itab, dblk>>
        /\ itab[op.dir].mode = "dir"
        /\ bbm' = bbm \union {b} /\ op' = [op EXCEPT !.extra = b, !.pc = "grow_meta"]
    BY DEF GrowDir, At, TypeInv, OpPath
  <1>1. b \in Blocks \ bbm BY ChoiceTypes DEF GrowDir, CanGrow
  <1> HIDE DEF b
  <1>2. /\ op'.pc = "grow_meta" /\ op'.extra = b /\ op'.blks = op.blks /\ op'.ino = op.ino
        /\ op'.kind = op.kind /\ op'.dir = op.dir /\ op'.name = op.name
    BY <1>0 DEF TypeInv, TypeOK, OpRec
  <1>3. Active' = Active /\ NewDir' = NewDir /\ BeingFreed = {} /\ BeingFreed' = {}
    BY <1>0, <1>2 DEF Active, NewDir, BeingFreed, Removing
  <1>4. b \notin MetaBlocks /\ ~Loud(b) /\ \A i \in Owners : b \notin Claims(i)
    BY <1>1, <1>3, FreeBlockFacts
  <1>5. (DiskInv /\ RecordInv)' /\ Owners' \subseteq Owners BY <1>0, <1>3, QuietDisk
  <1> USE QuietView DEF IInv, OpInv
  <1>6. OpDir' BY <1>0, <1>2 DEF OpDir
  <1>7. OpName' BY <1>0, <1>2 DEF OpName, NamingPcs
  <1>8. OpInode' BY <1>0, <1>2 DEF OpInode, NamingPcs, MakingPcs, WrittenPcs, Making
  <1>9. OpWritten' BY <1>0, <1>2 DEF OpWritten, WrittenPcs
  <1>10. (OpTarget /\ OpBitmap)' BY <1>0, <1>2 DEF OpTarget, OpBitmap, Removing, Making
  <1>11. OpBlocks' BY <1>0, <1>2 DEF OpBlocks, Held, FreshPcs
  <1>12. OpExtra' BY <1>0, <1>2, <1>4, <1>5 DEF OpExtra
  <1> QED BY <1>5, <1>6, <1>7, <1>8, <1>9, <1>10, <1>11, <1>12

\* The append fails: mknod goes on to give its inode back.
LEMMA AppendFailsInv == ASSUME Harmless, TypeInv, IInv, AppendFails PROVE IInv'
  <1>1. CASE FailAndLeak BY <1>1, ReturnInv DEF AppendFails, At
  <1>2. CASE op.kind = "mknod" /\ Goto("free_inode") /\ UNCHANGED <<disk, m, crashed, lost>>
    <2>0. op.pc = "append" /\ UNCHANGED <<bbm, ibm, itab, dblk>> BY <1>2 DEF AppendFails, At, disk
    <2>1. /\ op'.pc = "free_inode" /\ op'.kind = "mknod" /\ op'.dir = op.dir /\ op'.name = op.name
          /\ op'.ino = op.ino /\ op'.blks = op.blks
      BY <1>2, GotoFacts DEF TypeInv, TypeOK, Pcs
    <2>2. Active' = {} /\ NewDir' = {} /\ BeingFreed = {} /\ BeingFreed' = {}
      BY <2>0, <2>1 DEF Active, NewDir, BeingFreed, Removing
    <2>3. (DiskInv /\ RecordInv)' BY <2>0, <2>2, QuietDisk
    <2> USE QuietView, <1>2, <2>0, <2>1 DEF IInv, OpInv
    <2>4. OpDir' BY DEF OpDir
    <2>5. OpName' BY DEF OpName, NamingPcs
    <2>6. OpInode' BY DEF OpInode, NamingPcs, MakingPcs, Making
    <2>7. OpWritten' BY DEF OpWritten, WrittenPcs
    <2>8. (OpTarget /\ OpBitmap)' BY DEF OpTarget, OpBitmap, Removing
    <2>9. (OpBlocks /\ OpExtra)' BY DEF OpBlocks, OpExtra, Held
    <2> QED BY <2>3, <2>4, <2>5, <2>6, <2>7, <2>8, <2>9
  <1> QED BY <1>1, <1>2 DEF AppendFails

\* The inode whose blocks are given back: a file's own blocks, or nothing.
LEMMA FreedFacts ==
    ASSUME TypeInv, IInv, op.pc = "release", Freed \subseteq Blocks
    PROVE  /\ op.ino \in Owners
           /\ Freed \intersect MetaBlocks = {}
           /\ \A i \in Owners \ {op.ino} : Claims(i) \intersect Freed = {}
           /\ \A b \in Blocks : Loud(b) => b \notin Freed
  <1> USE DEF IInv, OpInv, DiskInv, RecordInv
  <1>1. op.kind \in Removing BY DEF TypeInv, OpPath
  <1>2. op.ino \in Inodes /\ op.ino \notin DirInodes /\ op.ino \in Owners
        /\ itab[op.ino].mode # "none"
    BY <1>1, LinkedIs DEF OpTarget, Removing, Owners, Active, DirInodes, LinkedWritten
  <1>3. itab[op.ino].mode \in {"reg", "dev", "lnk"} /\ itab[op.ino] \in InodeRec
    BY <1>2 DEF TypeInv, TypeOK, InodeRec, Modes, DirInodes
  <1>4. CASE itab[op.ino].mode \in {"dev", "lnk"}
    <2>1. Freed = {} BY <1>2, <1>4 DEF Freed, SpecialHarmless
    <2> QED BY <1>2, <2>1
  <1>5. CASE itab[op.ino].mode = "reg"
    <2>1. Freed \subseteq Claims(op.ino) BY <1>5 DEF Freed, Claims
    <2>2. Freed \intersect MetaBlocks = {} BY <1>2, <2>1 DEF OwnersClean
    <2>3. ASSUME NEW i \in Owners \ {op.ino} PROVE Claims(i) \intersect Freed = {}
      BY <1>2, <1>5, <2>3 DEF OwnersDisjoint, HasBlocks, Claims, Freed, Elems
    <2>4. \A b \in Blocks : Loud(b) => b \notin Freed
      BY <1>2, <1>5, <2>1 DEF LoudUnfiled
    <2> QED BY <1>2, <2>2, <2>3, <2>4
  <1> QED BY <1>3, <1>4, <1>5

\* ext2_free_inode_data_blocks prepares the bitmap in memory.
LEMMA ReleaseInv == ASSUME TypeInv, IInv, ReleaseBlocks PROVE IInv'
  <1>0. op.pc = "release" /\ op.kind \in Removing /\ UNCHANGED <<bbm, ibm, itab, dblk>>
        /\ Freed \subseteq Blocks
        /\ op' = [op EXCEPT !.pc = "free_commit", !.bm = bbm \ Freed,
                            !.dirty = {BlockGroup(b) : b \in Freed \intersect bbm}]
    BY DEF ReleaseBlocks, At, TypeInv, OpPath, disk
  <1>1. /\ op'.pc = "free_commit" /\ op'.kind = op.kind /\ op'.dir = op.dir /\ op'.name = op.name
        /\ op'.ino = op.ino /\ op'.blks = op.blks /\ op'.bm = bbm \ Freed
    BY <1>0 DEF TypeInv, TypeOK, OpRec
  <1>2. Active' = Active /\ NewDir' = {} /\ BeingFreed = {}
    BY <1>0, <1>1 DEF Active, NewDir, BeingFreed, Removing
  <1>3. (DiskInv /\ RecordInv)' /\ Owners' \subseteq Owners BY <1>0, <1>2, QuietDisk
  <1> USE QuietView DEF IInv, OpInv
  <1>4. OpDir' BY <1>0, <1>1 DEF OpDir, Removing
  <1>5. (OpName /\ OpInode /\ OpWritten)'
    BY <1>0, <1>1 DEF OpName, OpInode, OpWritten, WrittenPcs, Making, Removing
  <1>6. OpTarget' BY <1>0, <1>1 DEF OpTarget, Removing
  <1>7. op'.bm \subseteq bbm' /\ MetaBlocks \subseteq op'.bm
    BY <1>0, <1>1, FreedFacts DEF DiskInv, MetaMarked
  <1>8. ASSUME NEW i \in Owners' \ {op'.ino} PROVE Claims(i)' \subseteq op'.bm
    <2>1. i \in Owners \ {op.ino} /\ Claims(i)' = Claims(i) BY <1>0, <1>1, <1>3
    <2>2. Claims(i) \subseteq bbm BY <1>2, <2>1 DEF DiskInv, OwnersMarked
    <2> QED BY <1>0, <1>1, <2>1, <2>2, FreedFacts
  <1>9. \A b \in Blocks : Loud(b)' => b \in op'.bm
    BY <1>0, <1>1, FreedFacts DEF RecordInv, LoudMarked
  <1>10. OpBitmap' BY <1>7, <1>8, <1>9 DEF OpBitmap
  <1>11. (OpBlocks /\ OpExtra)' BY <1>0, <1>1 DEF OpBlocks, OpExtra, Held, FreshPcs
  <1> QED BY <1>3, <1>4, <1>5, <1>6, <1>10, <1>11

\* ext2_free_inode_num: the inode is nobody's.
LEMMA FreeInodeInv == ASSUME TypeInv, IInv, FreeInode PROVE IInv'
  <1>0. op.pc = "free_inode" /\ op.kind \in {"unlink", "mknod"} /\ UNCHANGED <<bbm, itab, dblk>>
        /\ ibm' = ibm \ {op.ino} /\ Goto("free_meta")
    BY DEF FreeInode, At, TypeInv, OpPath
  <1>1. /\ op'.pc = "free_meta" /\ op'.kind = op.kind /\ op'.dir = op.dir /\ op'.name = op.name
        /\ op'.ino = op.ino /\ op'.blks = op.blks
    BY <1>0, GotoFacts DEF TypeInv, TypeOK, Pcs
  <1>2. Active = {} /\ Active' = {} /\ NewDir' = {} /\ BeingFreed = {} /\ BeingFreed' = {}
    BY <1>0, <1>1 DEF Active, NewDir, BeingFreed
  <1>3. Owners' \subseteq Owners BY <1>0, <1>2, QuietInv
  <1> USE QuietView DEF IInv, OpInv
  <1>4. op.ino \notin Owners /\ op.ino \notin Reserved
    BY <1>0, <1>2 DEF Owners, OpTarget, OpInode, Making, MakingPcs
  <1>5. (MetaMarked /\ OwnersMarked /\ LoudMarked)'
    BY <1>0, <1>2, <1>3 DEF DiskInv, RecordInv, MetaMarked, OwnersMarked, LoudMarked
  <1>6. OwnersAllocated' BY <1>0, <1>3, <1>4 DEF DiskInv, OwnersAllocated
  <1>7. (DiskInv /\ RecordInv)' BY <1>0, <1>2, <1>5, <1>6, QuietInv DEF DiskInv, RecordInv
  <1>8. OpDir' BY <1>0, <1>1 DEF OpDir
  <1>9. (OpName /\ OpWritten /\ OpTarget /\ OpBitmap)'
    BY <1>0, <1>1 DEF OpName, OpWritten, OpTarget, OpBitmap, NamingPcs, WrittenPcs
  <1>10. OpInode' BY <1>0, <1>1 DEF OpInode, NamingPcs, MakingPcs, Making
  <1>11. (OpBlocks /\ OpExtra)' BY <1>1 DEF OpBlocks, OpExtra, Held, FreshPcs
  <1> QED BY <1>7, <1>8, <1>9, <1>10, <1>11


------------------------------------------------------------------------------
(* Starts                                                                    *)

\* A handler that starts has changed nothing and holds nothing.
LEMMA BeginQuiet ==
    ASSUME IInv, NEW l, Begin(l), BeingFreed = {},
           \/ l.kind \in Making /\ l.pc = "alloc_inode"
           \/ l.kind = "unlink" /\ l.pc = "remove"
           \/ l.kind \in {"truncate", "rewrite"} /\ l.pc \in {"release", "alloc_data"}
    PROVE  /\ op' = l /\ UNCHANGED <<bbm, ibm, itab, dblk>>
           /\ (DiskInv /\ RecordInv)' /\ Owners' \subseteq Owners
           /\ OpBitmap' /\ OpExtra'
  <1>1. op' = l /\ UNCHANGED <<bbm, ibm, itab, dblk>> BY DEF Begin, disk
  <1>2. Active' = {} /\ NewDir' = {} /\ BeingFreed' = {}
    BY <1>1 DEF Active, NewDir, BeingFreed, Making
  <1>3. (DiskInv /\ RecordInv)' /\ Owners' \subseteq Owners BY <1>1, <1>2, QuietDisk
  <1>4. OpBitmap' /\ OpExtra' BY <1>1 DEF OpBitmap, OpExtra
  <1> QED BY <1>1, <1>3, <1>4

\* The name a maker is given is not in the directory.
LEMMA NoSuchName ==
    ASSUME NEW d, NEW n, ~HasEntry(d, n)
    PROVE  \A k \in 1 .. Len(itab[d].blks), s \in Slots : ~(Live(d, k, s) /\ Rec(d, k, s).name = n)
  BY DEF HasEntry, Entries, Rec, Live

\* create, mkdir, mknod and symlink.
LEMMA MakeInv ==
    ASSUME TypeInv, IInv, NEW d \in Linked, NEW n \in Names, NEW l \in OpRec, Begin(l),
           l.kind \in Making, l.pc = "alloc_inode", l.dir = d, l.name = n, l.ino = 0,
           l.kind \in {"create", "mkdir"} => l.blks = << >>,
           l.kind \in {"mknod", "symlink"} => Elems(l.blks) \subseteq NodeNumbers,
           l.kind # "create" => itab[d].mode = "dir",
           itab[d].mode = "dir" => ~HasEntry(d, n)
    PROVE  IInv'
  <1>1. BeingFreed = {} BY DEF Begin, At, BeingFreed
  <1>2. /\ op' = l /\ UNCHANGED <<bbm, ibm, itab, dblk>>
        /\ (DiskInv /\ RecordInv)' /\ OpBitmap' /\ OpExtra'
    BY <1>1, BeginQuiet
  <1> USE QuietView DEF IInv, OpInv
  <1>3. OpDir' BY <1>2 DEF OpDir
  <1>4. OpName' BY <1>2, NoSuchName DEF OpName
  <1>5. 0 \notin DirInodes BY RootFacts DEF DirInodes
  <1>6. OpInode' BY <1>2, <1>5 DEF OpInode, MakingPcs, NamingPcs
  <1>7. OpWritten' BY <1>2 DEF OpWritten, WrittenPcs
  <1>8. OpTarget' BY <1>2 DEF OpTarget, Making
  <1>9. OpBlocks' BY <1>2 DEF OpBlocks, Held, FreshPcs, Making
  <1> QED BY <1>2, <1>3, <1>4, <1>6, <1>7, <1>8, <1>9

\* The inode a path names is on a path, is not reserved, and one record of its
\* directory leads to it.
LEMMA TargetFacts ==
    ASSUME TypeInv, IInv, NEW d \in LinkedDirs, NEW n \in Names, HasEntry(d, n)
    PROVE  /\ d \in DirInodes /\ Target(d, n) \in Linked /\ Target(d, n) \in Inodes \ Reserved
           /\ itab[Target(d, n)].mode # "none"
           /\ \E k \in 1 .. Len(itab[d].blks), s \in Slots :
                 Rec(d, k, s) = [ino |-> Target(d, n), name |-> n]
  <1> USE DEF IInv, DiskInv, RecordInv
  <1>1. d \in DirInodes /\ d \in Inodes BY LinkedIs DEF LinkedDirs, DirInodes
  <1>2. PICK e \in Entries(d) : e.ino = Target(d, n) /\ e.name = n /\ Target(d, n) \in Inodes
    BY <1>1, TargetType
  <1>3. PICK k \in 1 .. Len(itab[d].blks), s \in Slots : e = Rec(d, k, s)
    BY <1>2 DEF Entries, Rec
  <1>4. Rec(d, k, s) \in Record
    BY <1>1 DEF Rec, TypeInv, TypeOK, BlocksTyped, DirInodes, Elems
  <1>5. Live(d, k, s) /\ Rec(d, k, s).ino = Target(d, n) BY <1>2, <1>3, RootFacts DEF Live
  <1>6. Target(d, n) \in Linked BY <1>1, <1>5, LinkedIs
  <1>7. Target(d, n) \notin Reserved BY <1>1, <1>5 DEF RecordsUnreserved
  <1>8. Rec(d, k, s) = [ino |-> Target(d, n), name |-> n] BY <1>2, <1>3, <1>4 DEF Record
  <1> QED BY <1>1, <1>2, <1>6, <1>7, <1>8 DEF LinkedWritten

\* unlink, truncate and write_existing.
LEMMA TakeInv ==
    ASSUME TypeInv, IInv, NEW d \in LinkedDirs, NEW n \in Names, HasEntry(d, n),
           itab[Target(d, n)].mode # "dir",
           NEW l \in OpRec, Begin(l), l.dir = d, l.name = n, l.ino = Target(d, n), l.blks = << >>,
           \/ l.kind = "unlink" /\ l.pc = "remove"
           \/ l.kind = "truncate" /\ l.pc = "release"
           \/ l.kind = "rewrite" /\ l.pc \in {"release", "alloc_data"}
              /\ itab[Target(d, n)].mode = "reg"
    PROVE  IInv'
  <1>1. BeingFreed = {} BY DEF Begin, At, BeingFreed
  <1>2. /\ op' = l /\ UNCHANGED <<bbm, ibm, itab, dblk>>
        /\ (DiskInv /\ RecordInv)' /\ OpBitmap' /\ OpExtra'
    BY <1>1, BeginQuiet
  <1>3. /\ d \in DirInodes /\ Target(d, n) \in Linked /\ Target(d, n) \in Inodes \ Reserved
        /\ itab[Target(d, n)].mode # "none" /\ Target(d, n) \notin DirInodes
        /\ \E k \in 1 .. Len(itab[d].blks), s \in Slots :
              Rec(d, k, s) = [ino |-> Target(d, n), name |-> n]
    BY TargetFacts DEF DirInodes
  <1>4. itab[d].mode = "dir" /\ d \in Linked BY DEF LinkedDirs
  <1> USE QuietView DEF IInv, OpInv
  <1>5. OpDir' BY <1>2, <1>4 DEF OpDir
  <1>6. (OpName /\ OpInode /\ OpWritten)' BY <1>2 DEF OpName, OpInode, OpWritten, Making, WrittenPcs
  <1>7. OpTarget' BY <1>2, <1>3 DEF OpTarget
  <1>8. Elems(l.blks) = {} /\ Len(l.blks) = 0 BY ElemsFacts
  <1>9. OpBlocks' BY <1>2, <1>8 DEF OpBlocks, Held
  <1> QED BY <1>2, <1>5, <1>6, <1>7, <1>9

\* An operation starts without a disk write.
LEMMA StartQuiet == Start => UNCHANGED <<itab, dblk>>
  <1>1. \A locals : Begin(locals) => UNCHANGED <<itab, dblk>> BY DEF Begin, disk
  <1>2. \A d, n, x : /\ Create(d, n, x) => UNCHANGED <<itab, dblk>>
                     /\ Mknod(d, n, x) => UNCHANGED <<itab, dblk>>
                     /\ Symlink(d, n, x) => UNCHANGED <<itab, dblk>>
                     /\ WriteExisting(d, n, x) => UNCHANGED <<itab, dblk>>
    BY <1>1, Zenon DEF Create, Mknod, Symlink, WriteExisting
  <1>3. \A d, n : /\ Mkdir(d, n) => UNCHANGED <<itab, dblk>>
                  /\ Unlink(d, n) => UNCHANGED <<itab, dblk>>
                  /\ Truncate(d, n) => UNCHANGED <<itab, dblk>>
    BY <1>1, Zenon DEF Mkdir, Unlink, Truncate
  <1> QED BY <1>2, <1>3, Zenon DEF Start

LEMMA StartInv == ASSUME Harmless, TypeInv, IInv, Start PROVE IInv'
  <1> SUFFICES ASSUME NEW d \in Linked, NEW n \in Names,
                      \/ \E size \in FileSizes : Create(d, n, size)
                      \/ Mkdir(d, n)
                      \/ \E x \in NodeNumbers : Mknod(d, n, x)
                      \/ \E x \in NodeNumbers : Symlink(d, n, x)
                      \/ Unlink(d, n)
                      \/ Truncate(d, n)
                      \/ \E size \in FileSizes : WriteExisting(d, n, size)
               PROVE  IInv'
    BY DEF Start
  <1>0. d \in Inodes /\ Idle \in OpRec /\ Idle.blks = << >> /\ Idle.ino = 0
    BY LinkedIs, IdleType DEF Idle
  <1>d. d \in LinkedDirs => itab[d].mode = "dir" BY DEF LinkedDirs
  <1>t. d \in LinkedDirs /\ HasEntry(d, n) => Target(d, n) \in Inodes BY TargetFacts
  <1>1. ASSUME NEW size \in FileSizes, Create(d, n, size) PROVE IInv'
    <2> DEFINE l == [Idle EXCEPT !.kind = "create", !.pc = "alloc_inode", !.dir = d, !.name = n,
                                 !.size = size, !.need = BlocksFor(size)]
    <2>1. l \in OpRec /\ l.blks = << >> /\ l.ino = 0 /\ l.kind = "create" /\ l.pc = "alloc_inode"
          /\ l.dir = d /\ l.name = n
      BY <1>0, BlocksForType, SizesAssumption DEF OpRec, Kinds, Pcs
    <2>2. Begin(l) /\ (itab[d].mode = "dir" => ~HasEntry(d, n)) BY <1>1 DEF Create
    <2> HIDE DEF l
    <2> QED BY <2>1, <2>2, MakeInv DEF Making
  <1>2. ASSUME Mkdir(d, n) PROVE IInv'
    <2> DEFINE l == [Idle EXCEPT !.kind = "mkdir", !.pc = "alloc_inode", !.dir = d, !.name = n]
    <2>1. l \in OpRec /\ l.blks = << >> /\ l.ino = 0 /\ l.kind = "mkdir" /\ l.pc = "alloc_inode"
          /\ l.dir = d /\ l.name = n
      BY <1>0 DEF OpRec, Kinds, Pcs
    <2>2. Begin(l) /\ ~HasEntry(d, n) /\ itab[d].mode = "dir" BY <1>2, <1>d DEF Mkdir
    <2> HIDE DEF l
    <2> QED BY <2>1, <2>2, MakeInv DEF Making
  <1>3. ASSUME NEW x \in NodeNumbers, Mknod(d, n, x) PROVE IInv'
    <2> DEFINE l == [Idle EXCEPT !.kind = "mknod", !.pc = "alloc_inode", !.dir = d, !.name = n,
                                 !.blks = <<x>>]
    <2>1. <<x>> \in Seq(Nat) /\ Elems(<<x>>) = {x} BY SizesAssumption, ElemsFacts
    <2>2. l \in OpRec /\ l.blks = <<x>> /\ l.ino = 0 /\ l.kind = "mknod" /\ l.pc = "alloc_inode"
          /\ l.dir = d /\ l.name = n
      BY <1>0, <2>1 DEF OpRec, Kinds, Pcs
    <2>3. Begin(l) /\ ~HasEntry(d, n) /\ itab[d].mode = "dir" BY <1>3, <1>d DEF Mknod
    <2> HIDE DEF l
    <2> QED BY <2>1, <2>2, <2>3, MakeInv DEF Making
  <1>4. ASSUME NEW x \in NodeNumbers, Symlink(d, n, x) PROVE IInv'
    <2> DEFINE l == [Idle EXCEPT !.kind = "symlink", !.pc = "alloc_inode", !.dir = d, !.name = n,
                                 !.blks = <<x>>]
    <2>1. <<x>> \in Seq(Nat) /\ Elems(<<x>>) = {x} BY SizesAssumption, ElemsFacts
    <2>2. l \in OpRec /\ l.blks = <<x>> /\ l.ino = 0 /\ l.kind = "symlink" /\ l.pc = "alloc_inode"
          /\ l.dir = d /\ l.name = n
      BY <1>0, <2>1 DEF OpRec, Kinds, Pcs
    <2>3. Begin(l) /\ ~HasEntry(d, n) /\ itab[d].mode = "dir" BY <1>4, <1>d DEF Symlink
    <2> HIDE DEF l
    <2> QED BY <2>1, <2>2, <2>3, MakeInv DEF Making
  <1>5. ASSUME Unlink(d, n) PROVE IInv'
    <2> DEFINE l == [Idle EXCEPT !.kind = "unlink", !.pc = "remove", !.dir = d, !.name = n,
                                 !.ino = Target(d, n)]
    <2>1. Begin(l) /\ HasEntry(d, n) /\ d \in LinkedDirs /\ itab[Target(d, n)].mode # "dir"
      BY <1>5 DEF Unlink
    <2>2. l \in OpRec /\ l.blks = << >> /\ l.ino = Target(d, n) /\ l.kind = "unlink"
          /\ l.pc = "remove" /\ l.dir = d /\ l.name = n
      BY <1>0, <1>t, <2>1 DEF OpRec, Kinds, Pcs
    <2> HIDE DEF l
    <2> QED BY <2>1, <2>2, TakeInv
  <1>6. ASSUME Truncate(d, n) PROVE IInv'
    <2> DEFINE l == [Idle EXCEPT !.kind = "truncate", !.pc = "release", !.dir = d, !.name = n,
                                 !.ino = Target(d, n)]
    <2>1. Begin(l) /\ HasEntry(d, n) /\ d \in LinkedDirs /\ itab[Target(d, n)].mode # "dir"
      BY <1>6 DEF Truncate
    <2>2. l \in OpRec /\ l.blks = << >> /\ l.ino = Target(d, n) /\ l.kind = "truncate"
          /\ l.pc = "release" /\ l.dir = d /\ l.name = n
      BY <1>0, <1>t, <2>1 DEF OpRec, Kinds, Pcs
    <2> HIDE DEF l
    <2> QED BY <2>1, <2>2, TakeInv
  <1>7. ASSUME NEW size \in FileSizes, WriteExisting(d, n, size) PROVE IInv'
    <2> DEFINE pc == IF Elems(itab[Target(d, n)].blks) \subseteq {0} THEN "alloc_data" ELSE "release"
               l == [Idle EXCEPT !.kind = "rewrite", !.dir = d, !.name = n, !.ino = Target(d, n),
                                 !.size = size, !.need = BlocksFor(size), !.pc = pc]
    <2>1. Begin(l) /\ HasEntry(d, n) /\ d \in LinkedDirs /\ itab[Target(d, n)].mode = "reg"
      BY <1>7 DEF WriteExisting, Harmless
    <2>a. pc \in {"release", "alloc_data"} /\ BlocksFor(size) \in Nat /\ size \in Nat
          /\ Target(d, n) \in Inodes
      BY <1>t, <2>1, BlocksForType, SizesAssumption
    <2> HIDE DEF pc
    <2>2. l \in OpRec /\ l.blks = << >> /\ l.ino = Target(d, n) /\ l.kind = "rewrite"
          /\ l.pc \in {"release", "alloc_data"} /\ l.dir = d /\ l.name = n
      BY <1>0, <2>a DEF OpRec, Kinds, Pcs
    <2> HIDE DEF l
    <2> QED BY <2>1, <2>2, TakeInv
  <1> QED BY <1>1, <1>2, <1>3, <1>4, <1>5, <1>6, <1>7


------------------------------------------------------------------------------
(* Steps that write an inode                                                 *)

\* An inode that is no directory is written, and if it becomes one its blocks
\* hold no live record: the paths stay what they are.
LEMMA InodeView ==
    ASSUME TypeInv, TypeInv', IInv, dblk' = dblk, NEW x \in Inodes, x \notin DirInodes,
           \A i \in Inodes : i # x => itab'[i] = itab[i],
           itab'[x].mode = "dir" => \A b \in Elems(itab'[x].blks) : ~Loud(b)
    PROVE  /\ Linked' = Linked
           /\ DirInodes' = DirInodes \union (IF itab'[x].mode = "dir" THEN {x} ELSE {})
           /\ \A i \in Inodes \ {x} : Claims(i)' = Claims(i) /\ (HasBlocks(i)' <=> HasBlocks(i))
           /\ \A b : Loud(b)' <=> Loud(b)
           /\ \A d \in DirInodes : \A k, s : Rec(d, k, s)' = Rec(d, k, s) /\ (Live(d, k, s)' <=> Live(d, k, s))
           /\ (OneRecord /\ RecordsUnreserved /\ NamesOnce /\ RootIsDir)'
  <1>1. \A d \in DirInodes : d \in Inodes /\ d # x /\ itab'[d] = itab[d] BY DEF DirInodes
  <1>2. DirInodes' = DirInodes \union (IF itab'[x].mode = "dir" THEN {x} ELSE {})
    BY DEF DirInodes
  <1>3. \A i \in Inodes \ {x} : Claims(i)' = Claims(i) /\ (HasBlocks(i)' <=> HasBlocks(i))
    BY DEF Claims, HasBlocks
  <1>4. \A b : Loud(b)' <=> Loud(b) BY DEF Loud
  <1>5. \A d \in DirInodes : \A k, s : Rec(d, k, s)' = Rec(d, k, s) /\ (Live(d, k, s)' <=> Live(d, k, s))
    BY <1>1 DEF Rec, Live
  <1>6. itab'[x].mode = "dir" => \A k \in 1 .. Len(itab'[x].blks), s \in Slots : ~Live(x, k, s)'
    BY DEF Live, Rec, Loud, Elems
  <1>7. ASSUME NEW i PROVE i \in Linked' <=> i \in Linked
    BY <1>1, <1>2, <1>5, <1>6, LinkedIs, LinkedIsNext
  <1>8. Linked' = Linked BY <1>7, LinkedIs, LinkedIsNext
  <1> USE DEF IInv, RecordInv, DiskInv
  <1>9. OneRecord' BY <1>1, <1>2, <1>5, <1>6 DEF OneRecord
  <1>10. RecordsUnreserved' BY <1>1, <1>2, <1>5, <1>6 DEF RecordsUnreserved
  <1>11. NamesOnce' BY <1>1, <1>2, <1>5, <1>6 DEF NamesOnce
  <1>12. RootIsDir' BY <1>1, RootFacts DEF RootIsDir, DirInodes
  <1> QED BY <1>2, <1>3, <1>4, <1>5, <1>8, <1>9, <1>10, <1>11, <1>12

\* What ext2_write_inode_at writes, and where.
LEMMA NewInodeFacts ==
    ASSUME TypeInv, IInv, WriteInode
    PROVE  /\ op.kind \in {"create", "mkdir", "mknod", "symlink", "rewrite"}
           /\ op.ino \in Inodes /\ op.ino \in ibm /\ op.ino \notin DirInodes /\ op.ino # Root
           /\ op.kind # "rewrite" => op.ino \notin Linked /\ op.ino \notin Reserved
           /\ itab'[op.ino].blks = op.blks
           /\ op.kind = "mkdir" => itab'[op.ino].mode = "dir"
           /\ op.kind = "mknod" => itab'[op.ino].mode = "dev"
           /\ op.kind = "symlink" => itab'[op.ino].mode = "lnk"
           /\ op.kind \in {"create", "rewrite"} => itab'[op.ino].mode = "reg"
           /\ \A i \in Inodes : i # op.ino => itab'[i] = itab[i]
           /\ op.kind \in {"create", "mkdir", "rewrite"} => Held
  <1> USE DEF IInv, OpInv, DiskInv
  <1>1. op.pc = "write_inode" /\ op.kind \in Making \union {"rewrite"}
    BY DEF WriteInode, At, TypeInv, OpPath
  <1>2. op.ino \in ibm /\ op.ino \notin DirInodes
        /\ (op.kind # "rewrite" => op.ino \notin Linked /\ op.ino \notin Reserved)
    <2>1. CASE op.kind \in Making
      BY <1>1, <2>1 DEF OpInode, MakingPcs, NamingPcs, WrittenPcs, Making
    <2>2. CASE op.kind = "rewrite"
      BY <2>2 DEF OpTarget, OwnersAllocated, Owners, DirInodes
    <2> QED BY <1>1, <2>1, <2>2
  <1>3. op.ino \in Inodes BY <1>2 DEF TypeInv, TypeOK
  <1>4. Root \in DirInodes BY RootFacts DEF RootIsDir, DirInodes
  <1>5. itab[op.ino] \in InodeRec /\ (op.kind = "rewrite" => itab[op.ino].mode = "reg")
    BY <1>3 DEF TypeInv, TypeOK, OpTarget
  <1>6. /\ NewInode.blks = op.blks
        /\ op.kind = "mkdir" => NewInode.mode = "dir"
        /\ op.kind = "mknod" => NewInode.mode = "dev"
        /\ op.kind = "symlink" => NewInode.mode = "lnk"
        /\ op.kind \in {"create", "rewrite"} => NewInode.mode = "reg"
    BY <1>1, <1>5 DEF NewInode, InodeRec, Making
  <1>7. itab' = [itab EXCEPT ![op.ino] = NewInode] BY DEF WriteInode
  <1>8. \A i \in Inodes : itab'[i] = IF i = op.ino THEN NewInode ELSE itab[i]
    BY <1>7 DEF TypeInv, TypeOK
  <1> QED BY <1>1, <1>2, <1>3, <1>4, <1>6, <1>8 DEF Making, Held

\* The inode of a new or rewritten file takes over the blocks the handler holds.
LEMMA WriteInodeDisk ==
    ASSUME Harmless, TypeInv, TypeInv', IInv, WriteInode
    PROVE  /\ (DiskInv /\ RecordInv)' /\ Linked' = Linked /\ LinkedDirs' = LinkedDirs
           /\ \A d \in DirInodes : \A k, s : Rec(d, k, s)' = Rec(d, k, s) /\ (Live(d, k, s)' <=> Live(d, k, s))
           /\ \A b : Loud(b)' <=> Loud(b)
           /\ op.ino \notin DirInodes' \/ op.kind = "mkdir"
           /\ Owners' \subseteq Owners \union {op.ino}
  <1> PICK x : x = op.ino OBVIOUS
  <1>0. op.pc = "write_inode" /\ UNCHANGED <<bbm, ibm, dblk>> BY DEF WriteInode, At
  <1>1. /\ op.kind \in {"create", "mkdir", "mknod", "symlink", "rewrite"}
        /\ x \in Inodes /\ x \in ibm /\ x \notin DirInodes /\ x # Root
        /\ op.kind # "rewrite" => x \notin Linked /\ x \notin Reserved
        /\ itab'[x].blks = op.blks
        /\ op.kind = "mkdir" => itab'[x].mode = "dir"
        /\ op.kind = "mknod" => itab'[x].mode = "dev"
        /\ op.kind = "symlink" => itab'[x].mode = "lnk"
        /\ op.kind \in {"create", "rewrite"} => itab'[x].mode = "reg"
        /\ \A i \in Inodes : i # x => itab'[i] = itab[i]
        /\ op.kind \in {"create", "mkdir", "rewrite"} => Held
    BY NewInodeFacts
  <1> USE DEF IInv, DiskInv, RecordInv, OpInv
  <1>2. Held => /\ Elems(op.blks) \intersect MetaBlocks = {} /\ Elems(op.blks) \subseteq bbm
                /\ \A p, q \in 1 .. Len(op.blks) : op.blks[p] = op.blks[q] => p = q
                /\ \A i \in Owners : Claims(i) \intersect Elems(op.blks) = {}
                /\ \A b \in Elems(op.blks) : ~Loud(b)
    BY <1>0 DEF OpBlocks
  <1>3. /\ Linked' = Linked
        /\ DirInodes' = DirInodes \union (IF itab'[x].mode = "dir" THEN {x} ELSE {})
        /\ \A i \in Inodes \ {x} : Claims(i)' = Claims(i) /\ (HasBlocks(i)' <=> HasBlocks(i))
        /\ \A b : Loud(b)' <=> Loud(b)
        /\ \A d \in DirInodes : \A k, s : Rec(d, k, s)' = Rec(d, k, s) /\ (Live(d, k, s)' <=> Live(d, k, s))
        /\ (OneRecord /\ RecordsUnreserved /\ NamesOnce /\ RootIsDir)'
    <2>1. itab'[x].mode = "dir" => \A b \in Elems(itab'[x].blks) : ~Loud(b) BY <1>1, <1>2
    <2> QED BY <1>0, <1>1, <2>1, InodeView
  <1>4. op' = Idle \/ (op'.ino = x /\ op'.pc \in {"append", "write_dirblk"} /\ op'.kind = op.kind
                        /\ (op'.pc = "append" => op.kind # "mkdir"))
    BY <1>0, <1>1, GotoFacts DEF WriteInode, Return, TypeInv, TypeOK, Pcs
  <1>5. Active = {} /\ Active' \subseteq {x} /\ NewDir' = {} /\ BeingFreed = {} /\ BeingFreed' = {}
    <2>1. Active = {} /\ BeingFreed = {} BY <1>0 DEF Active, BeingFreed
    <2>2. Idle.kind = "none" /\ Idle.pc = "idle" BY DEF Idle
    <2>3. Active' \subseteq {x} /\ NewDir' = {} /\ BeingFreed' = {}
      BY <1>4, <2>2 DEF Active, NewDir, BeingFreed, Removing
    <2> QED BY <2>1, <2>3
  <1>6. Owners' \subseteq Owners \union {x} /\ Owners \subseteq Inodes
    BY <1>1, <1>3, <1>5, LinkedIs DEF Owners
  <1>7. Claims(x)' = IF op.kind \in {"mknod", "symlink"} THEN {} ELSE Elems(op.blks)
    BY <1>1 DEF Claims
  <1>8. HasBlocks(x)' => Held BY <1>1 DEF HasBlocks
  <1>9. (MetaMarked /\ LoudMarked)' BY <1>0, <1>3 DEF MetaMarked, LoudMarked
  <1>10. OwnersClean' BY <1>1, <1>2, <1>3, <1>6, <1>7 DEF OwnersClean
  <1>11. OwnersMarked' BY <1>0, <1>1, <1>2, <1>3, <1>5, <1>6, <1>7 DEF OwnersMarked
  <1>12. OwnersDisjoint'
    <2> SUFFICES ASSUME NEW i \in Owners', NEW j \in Owners', HasBlocks(i)', HasBlocks(j)',
                        NEW p \in 1 .. Len(itab'[i].blks), NEW q \in 1 .. Len(itab'[j].blks),
                        itab'[i].blks[p] = itab'[j].blks[q]
                 PROVE  i = j /\ p = q
      BY DEF OwnersDisjoint
    <2>1. CASE i # x /\ j # x
      BY <2>1, <1>1, <1>3, <1>6 DEF OwnersDisjoint
    <2>2. CASE i = x /\ j = x BY <2>2, <1>1, <1>2, <1>8
    <2>3. \A e \in Owners' : e # x /\ HasBlocks(e)' => e \in Owners /\ Claims(e) = Elems(itab'[e].blks)
      BY <1>1, <1>3, <1>6 DEF Claims, HasBlocks
    <2>4. CASE i = x /\ j # x
      <3>1. itab'[i].blks[p] \in Elems(op.blks) BY <2>4, <1>1 DEF Elems
      <3>2. itab'[j].blks[q] \in Claims(j) BY <2>3, <2>4 DEF Elems
      <3> QED BY <1>2, <1>8, <2>3, <2>4, <3>1, <3>2
    <2>5. CASE i # x /\ j = x
      <3>1. itab'[j].blks[q] \in Elems(op.blks) BY <2>5, <1>1 DEF Elems
      <3>2. itab'[i].blks[p] \in Claims(i) BY <2>3, <2>5 DEF Elems
      <3> QED BY <1>2, <1>8, <2>3, <2>5, <3>1, <3>2
    <2> QED BY <2>1, <2>2, <2>4, <2>5
  <1>13. OwnersAllocated' BY <1>0, <1>1, <1>6 DEF OwnersAllocated
  <1>14. LinkedWritten'
    <2>1. itab'[x].mode # "none" BY <1>1
    <2> QED BY <1>1, <1>3, <2>1, LinkedIs DEF LinkedWritten
  <1>15. SpecialHarmless'
    <2>1. op.kind \in {"mknod", "symlink"} => Elems(op.blks) \subseteq NodeNumbers BY DEF OpWritten
    <2>2. itab'[x].mode \in {"dev", "lnk"} => Elems(itab'[x].blks) \intersect Blocks \subseteq {0}
      BY <1>1, <2>1 DEF Harmless
    <2> QED BY <1>1, <2>2 DEF SpecialHarmless
  <1>16. LoudUnfiled' BY <1>1, <1>2, <1>3, <1>6, <1>7 DEF LoudUnfiled
  <1>17. LinkedDirs' = LinkedDirs /\ LinkedDirs \subseteq DirInodes
    <2>1. x \in Linked => itab'[x].mode # "dir" /\ itab[x].mode # "dir"
      BY <1>1 DEF DirInodes
    <2> QED BY <1>1, <1>3, <2>1, LinkedIs DEF LinkedDirs, DirInodes
  <1>18. DotsSound'
    <2>1. \A d \in LinkedDirs : itab'[d] = itab[d] BY <1>1, <1>17, LinkedIs
    <2> QED BY <1>3, <1>5, <1>17, <2>1 DEF DotsSound
  <1> QED BY <1>1, <1>3, <1>6, <1>9, <1>10, <1>11, <1>12, <1>13, <1>14, <1>15, <1>16, <1>17, <1>18


LEMMA WriteInodeInv == ASSUME Harmless, TypeInv, TypeInv', IInv, WriteInode PROVE IInv'
  <1>0. op.pc = "write_inode" /\ UNCHANGED <<bbm, ibm, dblk>> BY DEF WriteInode, At
  <1>1. /\ (DiskInv /\ RecordInv)' /\ Linked' = Linked
        /\ \A d \in DirInodes : \A k, s : Rec(d, k, s)' = Rec(d, k, s) /\ (Live(d, k, s)' <=> Live(d, k, s))
        /\ \A b : Loud(b)' <=> Loud(b)
        /\ op.ino \notin DirInodes' \/ op.kind = "mkdir"
    BY WriteInodeDisk
  <1>2. CASE op.kind = "rewrite"
    <2>1. op' = Idle BY <1>2 DEF WriteInode, Return
    <2> QED BY <1>1, <2>1, IdleOp DEF IInv, DiskInv
  <1>3. CASE op.kind \in Making
    <2>1. /\ op'.pc = IF op.kind = "mkdir" THEN "write_dirblk" ELSE "append"
          /\ op'.kind = op.kind /\ op'.dir = op.dir /\ op'.name = op.name /\ op'.ino = op.ino
          /\ op'.blks = op.blks
      BY <1>3, GotoFacts DEF WriteInode, TypeInv, TypeOK, Pcs, Making
    <2> USE DEF IInv, OpInv
    <2>2. op.ino \in ibm /\ op.ino \notin Linked /\ op.ino \notin Reserved /\ op.ino \notin DirInodes
      BY <1>0, <1>3, NewInodeFacts DEF Making
    <2>3. op.dir \in Linked /\ op.dir \in Inodes /\ op.dir # op.ino /\ itab'[op.dir] = itab[op.dir]
      BY <2>2, NewInodeFacts, LinkedIs DEF OpDir
    <2>4. OpDir' BY <1>1, <1>3, <2>1, <2>3 DEF OpDir, Making
    <2>5. OpName'
      <3>1. itab'[op.dir].mode = "dir" => op.dir \in DirInodes BY <2>3 DEF DirInodes
      <3> QED BY <1>0, <1>1, <1>3, <2>1, <2>3, <3>1 DEF OpName, NamingPcs
    <2>6. OpInode' BY <1>0, <1>1, <1>3, <2>1, <2>2 DEF OpInode, WrittenPcs, NamingPcs, MakingPcs
    <2>7. OpWritten'
      <3>1. op.kind = "mkdir" => /\ itab'[op.ino].mode = "dir" /\ itab'[op.ino].blks = op.blks
                                 /\ Len(op.blks) = 1 /\ ~Loud(op.blks[1])'
        BY <1>0, <1>1, <2>1, NewInodeFacts DEF OpWritten, OpBlocks, Held, Elems, Loud
      <3>2. /\ op.kind = "create" => itab'[op.ino].mode = "reg"
            /\ op.kind \in {"mknod", "symlink"} => itab'[op.ino].mode \in {"dev", "lnk"}
        BY NewInodeFacts
      <3> QED BY <1>3, <2>1, <3>1, <3>2 DEF OpWritten, Making, WrittenPcs
    <2>8. (OpTarget /\ OpBitmap)' BY <1>3, <2>1 DEF OpTarget, OpBitmap, Making, Removing
    <2>9. (OpBlocks /\ OpExtra)' BY <2>1 DEF OpBlocks, OpExtra, Held, FreshPcs
    <2> QED BY <1>1, <2>4, <2>5, <2>6, <2>7, <2>8, <2>9
  <1> QED BY <1>0, <1>2, <1>3 DEF TypeInv, OpPath

\* An inode is cleared or emptied: its blocks went back to the bitmap before.
LEMMA ClearInodeDisk ==
    ASSUME TypeInv, TypeInv', IInv, ClearInode
    PROVE  /\ (DiskInv /\ RecordInv)'
           /\ Linked' = Linked /\ DirInodes' = DirInodes /\ LinkedDirs' = LinkedDirs
           /\ \A d \in DirInodes : \A k, s : Rec(d, k, s)' = Rec(d, k, s) /\ (Live(d, k, s)' <=> Live(d, k, s))
           /\ \A b : Loud(b)' <=> Loud(b)
           /\ op.kind # "unlink" => itab'[op.ino].mode = itab[op.ino].mode
  <1> PICK x : x = op.ino OBVIOUS
  <1> USE DEF IInv, DiskInv, RecordInv, OpInv
  <1>0. op.pc = "clear_inode" /\ UNCHANGED <<bbm, ibm, dblk>> /\ op.kind \in Removing
    BY DEF ClearInode, At, TypeInv, OpPath
  <1>1. x \in Inodes /\ x \notin DirInodes
    BY <1>0, LinkedIs DEF OpTarget, Removing, DirInodes
  <1>2. /\ \A i \in Inodes : i # x => itab'[i] = itab[i]
        /\ itab'[x].blks = << >>
        /\ op.kind = "unlink" => itab'[x].mode = "none"
        /\ op.kind # "unlink" => itab'[x].mode = itab[x].mode
    BY <1>1 DEF ClearInode, ClearedInode, TypeInv, TypeOK, InodeRec
  <1>3. itab'[x].mode # "dir" BY <1>0, <1>1, <1>2 DEF DirInodes
  <1>4. /\ Linked' = Linked /\ DirInodes' = DirInodes
        /\ \A i \in Inodes \ {x} : Claims(i)' = Claims(i) /\ (HasBlocks(i)' <=> HasBlocks(i))
        /\ \A b : Loud(b)' <=> Loud(b)
        /\ \A d \in DirInodes : \A k, s : Rec(d, k, s)' = Rec(d, k, s) /\ (Live(d, k, s)' <=> Live(d, k, s))
        /\ (OneRecord /\ RecordsUnreserved /\ NamesOnce /\ RootIsDir)'
    BY <1>0, <1>1, <1>2, <1>3, InodeView
  <1>5. op' = Idle \/ (op'.kind = op.kind /\ op'.pc \in {"free_inode", "alloc_data"})
    BY GotoFacts DEF ClearInode, Return, TypeInv, TypeOK, Pcs
  <1>6. Active' = {} /\ NewDir' = {} /\ BeingFreed' = {} /\ BeingFreed = {x}
    <2>1. Idle.kind = "none" /\ Idle.pc = "idle" BY DEF Idle
    <2>2. BeingFreed = {x} BY <1>0 DEF BeingFreed
    <2>3. Active' = {} /\ NewDir' = {} /\ BeingFreed' = {}
      BY <1>5, <2>1 DEF Active, NewDir, BeingFreed
    <2> QED BY <2>2, <2>3
  <1>7. Owners' \subseteq Owners /\ Owners \subseteq Inodes
    BY <1>0, <1>1, <1>4, <1>6, LinkedIs DEF Owners, Active
  <1>8. Claims(x)' = {} /\ Len(itab'[x].blks) = 0 BY <1>2, ElemsFacts DEF Claims
  <1>9. (MetaMarked /\ LoudMarked)' BY <1>0, <1>4 DEF MetaMarked, LoudMarked
  <1>10. OwnersClean' BY <1>4, <1>7, <1>8 DEF OwnersClean
  <1>11. OwnersMarked' BY <1>0, <1>4, <1>6, <1>7, <1>8 DEF OwnersMarked
  <1>12. OwnersDisjoint' BY <1>2, <1>4, <1>7, <1>8 DEF OwnersDisjoint
  <1>13. OwnersAllocated' BY <1>0, <1>7 DEF OwnersAllocated
  <1>14. LinkedWritten'
    <2>1. x \in Linked => op.kind # "unlink" BY <1>0 DEF OpTarget
    <2> QED BY <1>1, <1>2, <1>4, <2>1, LinkedIs DEF LinkedWritten
  <1>15. SpecialHarmless'
    <2>1. Elems(itab'[x].blks) = {} BY <1>2, ElemsFacts
    <2> QED BY <1>2, <2>1 DEF SpecialHarmless
  <1>16. LoudUnfiled'
    <2>1. \A i \in Owners' : i # x => itab'[i].mode = itab[i].mode BY <1>2, <1>7
    <2> QED BY <1>4, <1>7, <1>8, <2>1 DEF LoudUnfiled
  <1>17. LinkedDirs' = LinkedDirs /\ LinkedDirs \subseteq DirInodes
    BY <1>1, <1>2, <1>3, <1>4, LinkedIs DEF LinkedDirs, DirInodes
  <1>18. DotsSound'
    <2>1. \A d \in LinkedDirs : itab'[d] = itab[d] BY <1>1, <1>2, <1>17, LinkedIs
    <2> QED BY <1>4, <1>6, <1>17, <2>1 DEF DotsSound
  <1> QED BY <1>2, <1>4, <1>9, <1>10, <1>11, <1>12, <1>13, <1>14, <1>15, <1>16, <1>17, <1>18

LEMMA ClearInodeInv == ASSUME TypeInv, TypeInv', IInv, ClearInode PROVE IInv'
  <1>0. op.pc = "clear_inode" /\ op.kind \in Removing /\ UNCHANGED <<bbm, ibm, dblk>>
    BY DEF ClearInode, At, TypeInv, OpPath
  <1>1. /\ (DiskInv /\ RecordInv)' /\ Linked' = Linked /\ DirInodes' = DirInodes
        /\ \A d \in DirInodes : \A k, s : Rec(d, k, s)' = Rec(d, k, s) /\ (Live(d, k, s)' <=> Live(d, k, s))
        /\ \A b : Loud(b)' <=> Loud(b)
        /\ op.kind # "unlink" => itab'[op.ino].mode = itab[op.ino].mode
    BY ClearInodeDisk
  <1>2. CASE op.kind = "truncate"
    <2>1. op' = Idle BY <1>2 DEF ClearInode, Return
    <2> QED BY <1>1, <2>1, IdleOp DEF IInv, DiskInv
  <1>3. CASE op.kind \in {"unlink", "rewrite"}
    <2>1. /\ op'.pc = IF op.kind = "unlink" THEN "free_inode" ELSE "alloc_data"
          /\ op'.kind = op.kind /\ op'.dir = op.dir /\ op'.name = op.name /\ op'.ino = op.ino
          /\ op'.blks = op.blks
      BY <1>3, GotoFacts DEF ClearInode, TypeInv, TypeOK, Pcs
    <2> USE DEF IInv, OpInv
    <2>2. OpDir'
      <3>1. op.dir \in DirInodes BY <1>3, LinkedIs DEF OpDir, DirInodes
      <3>2. itab'[op.dir].mode = "dir" BY <1>1, <3>1 DEF DirInodes
      <3> QED BY <1>1, <1>3, <2>1, <3>2 DEF OpDir
    <2>3. (OpName /\ OpInode)' BY <1>3, <2>1 DEF OpName, OpInode, Making
    <2>4. OpWritten' BY <1>3, <2>1 DEF OpWritten, WrittenPcs
    <2>5. OpTarget' BY <1>0, <1>1, <1>3, <2>1 DEF OpTarget
    <2>6. (OpBitmap /\ OpExtra)' BY <2>1 DEF OpBitmap, OpExtra
    <2>7. OpBlocks'
      <3>1. op.kind = "rewrite" => Elems(op.blks) = {} /\ Len(op.blks) = 0
        BY <1>0, ElemsFacts DEF OpBlocks, FreshPcs
      <3> QED BY <1>3, <2>1, <3>1 DEF OpBlocks, Held, FreshPcs
    <2> QED BY <1>1, <2>2, <2>3, <2>4, <2>5, <2>6, <2>7
  <1> QED BY <1>0, <1>2, <1>3 DEF Removing


\* ext2_mkdir_at counts one more link to the parent.
LEMMA LinkParentInv ==
    ASSUME TypeInv, TypeInv', IInv, LinkParent
    PROVE  IInv' /\ Linked' = Linked /\ LinkedDirs' = LinkedDirs
  <1>0. op.pc = "link_parent" /\ op.kind = "mkdir" /\ UNCHANGED <<bbm, ibm, dblk>>
    BY DEF LinkParent, At, TypeInv, OpPath
  <1>1. /\ op'.pc = "dirs_meta" /\ op'.kind = op.kind /\ op'.dir = op.dir /\ op'.name = op.name
        /\ op'.ino = op.ino /\ op'.blks = op.blks
    BY GotoFacts DEF LinkParent, TypeInv, TypeOK, Pcs
  <1>2. \A i \in Inodes : itab'[i].mode = itab[i].mode /\ itab'[i].blks = itab[i].blks
    BY DEF LinkParent, TypeInv, TypeOK, InodeRec
  <1>3. /\ DirInodes' = DirInodes /\ DirInodes \subseteq Inodes
        /\ \A i \in Inodes : Claims(i)' = Claims(i) /\ (HasBlocks(i)' <=> HasBlocks(i))
        /\ \A b : Loud(b)' <=> Loud(b)
        /\ \A d \in Inodes : \A k, s : Rec(d, k, s)' = Rec(d, k, s) /\ (Live(d, k, s)' <=> Live(d, k, s))
    BY <1>0, <1>2 DEF DirInodes, Claims, HasBlocks, Loud, Rec, Live
  <1>4. Linked' = Linked /\ Linked \subseteq Inodes
    <2>1. \A i : i \in Linked' <=> i \in Linked BY <1>2, <1>3, LinkedIs, LinkedIsNext
    <2> QED BY <2>1, LinkedIs
  <1>5. LinkedDirs' = LinkedDirs /\ LinkedDirs \subseteq Inodes BY <1>2, <1>4 DEF LinkedDirs
  <1>6. Active = {} /\ Active' = {} /\ NewDir' = {} /\ BeingFreed = {} /\ BeingFreed' = {}
    BY <1>0, <1>1 DEF Active, NewDir, BeingFreed, Removing
  <1>7. Owners' = Owners /\ Owners \subseteq Inodes BY <1>3, <1>4, <1>6 DEF Owners
  <1> USE DEF IInv, DiskInv, RecordInv, OpInv
  <1>8. (MetaMarked /\ LoudMarked)' BY <1>0, <1>3 DEF MetaMarked, LoudMarked
  <1>9. (OwnersClean /\ OwnersMarked /\ OwnersAllocated)'
    BY <1>0, <1>3, <1>6, <1>7 DEF OwnersClean, OwnersMarked, OwnersAllocated
  <1>10. OwnersDisjoint' BY <1>2, <1>3, <1>7 DEF OwnersDisjoint
  <1>11. (RootIsDir /\ LinkedWritten /\ SpecialHarmless)'
    BY <1>2, <1>4, RootFacts DEF RootIsDir, LinkedWritten, SpecialHarmless
  <1>12. OneRecord' BY <1>2, <1>3 DEF OneRecord
  <1>13. (RecordsUnreserved /\ NamesOnce)' BY <1>2, <1>3 DEF RecordsUnreserved, NamesOnce
  <1>14. LoudUnfiled' BY <1>2, <1>3, <1>7 DEF LoudUnfiled
  <1>15. DotsSound' BY <1>2, <1>3, <1>5, <1>6 DEF DotsSound
  <1>16. OpDir' BY <1>0, <1>1, <1>2, <1>4 DEF OpDir
  <1>17. (OpName /\ OpInode /\ OpTarget /\ OpBitmap)'
    BY <1>0, <1>1 DEF OpName, OpInode, OpTarget, OpBitmap, NamingPcs, MakingPcs, Making, Removing
  <1>18. (OpWritten /\ OpBlocks /\ OpExtra)'
    BY <1>0, <1>1 DEF OpWritten, OpBlocks, OpExtra, WrittenPcs, Held, FreshPcs
  <1> QED BY <1>4, <1>5, <1>8, <1>9, <1>10, <1>11, <1>12, <1>13, <1>14, <1>15, <1>16, <1>17, <1>18

------------------------------------------------------------------------------
(* Steps that publish a name                                                 *)

\* A step that adds one live record, of inode X and name N, in slot S of block K of
\* directory D, and changes no other.
Adds(D, K, S, X, N) ==
    /\ DirInodes' = DirInodes /\ D \in DirInodes /\ K \in 1 .. Len(itab'[D].blks) /\ S \in Slots
    /\ X \in Inodes /\ X \notin Linked /\ X \notin Reserved /\ N \in Names
    /\ \A d \in DirInodes : \A k \in 1 .. Len(itab[d].blks) : k \in 1 .. Len(itab'[d].blks)
    /\ Rec(D, K, S)' = [ino |-> X, name |-> N]
    /\ K \in 1 .. Len(itab[D].blks) => ~Live(D, K, S)
    /\ \A k \in 1 .. Len(itab[D].blks), s \in Slots : ~(Live(D, k, s) /\ Rec(D, k, s).name = N)
    /\ \A d \in DirInodes : \A k \in 1 .. Len(itab'[d].blks), s \in Slots :
          \/ d = D /\ k = K /\ s = S
          \/ k \in 1 .. Len(itab[d].blks) /\ Rec(d, k, s)' = Rec(d, k, s)
             /\ (Live(d, k, s)' <=> Live(d, k, s))
          \/ k \notin 1 .. Len(itab[d].blks) /\ ~Live(d, k, s)'

\* Its inode joins the paths, and no name doubles.
LEMMA AddedRecord ==
    ASSUME TypeInv, TypeInv', IInv, NEW D, NEW K, NEW S, NEW X, NEW N, Adds(D, K, S, X, N)
    PROVE  /\ Linked' = Linked \union {X}
           /\ (OneRecord /\ RecordsUnreserved /\ NamesOnce)'
  <1> USE DEF IInv, DiskInv, RecordInv, Adds
  <1>1. Live(D, K, S)' BY RootFacts DEF Live
  <1>2. \A d \in DirInodes : \A k \in 1 .. Len(itab'[d].blks), s \in Slots :
           Live(d, k, s)' =>
             \/ d = D /\ k = K /\ s = S
             \/ /\ k \in 1 .. Len(itab[d].blks) /\ Live(d, k, s) /\ Rec(d, k, s)' = Rec(d, k, s)
                /\ Rec(d, k, s).ino \in Linked
    BY LinkedIs
  <1>3. ASSUME NEW i PROVE i \in Linked' <=> i \in Linked \union {X}
    <2>1. ASSUME i \in Linked' PROVE i \in Linked \union {X}
      BY <1>2, <2>1, LinkedIs, LinkedIsNext
    <2>2. ASSUME i \in Linked PROVE i \in Linked'
      <3>1. CASE i = Root BY <3>1, LinkedIsNext
      <3>2. CASE i # Root
        <4>0. PICK d \in DirInodes : \E k \in 1 .. Len(itab[d].blks), s \in Slots :
                 Live(d, k, s) /\ Rec(d, k, s).ino = i
          BY <2>2, <3>2, LinkedIs
        <4>1. PICK k \in 1 .. Len(itab[d].blks), s \in Slots : Live(d, k, s) /\ Rec(d, k, s).ino = i
          BY <4>0
        <4>2. k \in 1 .. Len(itab'[d].blks) /\ Live(d, k, s)' /\ Rec(d, k, s)' = Rec(d, k, s)
          BY <4>1
        <4> QED BY <4>1, <4>2, LinkedIsNext
      <3> QED BY <3>1, <3>2
    <2>3. X \in Linked' BY <1>1, LinkedIsNext
    <2> QED BY <2>1, <2>2, <2>3
  <1>4. Linked' = Linked \union {X} BY <1>3
  <1>5. OneRecord'
    <2> SUFFICES ASSUME NEW d \in DirInodes, NEW f \in DirInodes,
                        NEW k \in 1 .. Len(itab'[d].blks), NEW l \in 1 .. Len(itab'[f].blks),
                        NEW s \in Slots, NEW t \in Slots, Live(d, k, s)', Live(f, l, t)',
                        Rec(d, k, s)'.ino = Rec(f, l, t)'.ino
                 PROVE  d = f /\ k = l /\ s = t
      BY DEF OneRecord
    <2>1. Rec(D, K, S)'.ino = X OBVIOUS
    <2> QED BY <1>2, <2>1 DEF OneRecord
  <1>6. RecordsUnreserved' BY <1>2 DEF RecordsUnreserved
  <1>7. NamesOnce'
    <2> SUFFICES ASSUME NEW d \in DirInodes, NEW k \in 1 .. Len(itab'[d].blks),
                        NEW l \in 1 .. Len(itab'[d].blks), NEW s \in Slots, NEW t \in Slots,
                        Live(d, k, s)', Live(d, l, t)', Rec(d, k, s)'.name = Rec(d, l, t)'.name
                 PROVE  k = l /\ s = t
      BY DEF NamesOnce
    <2>1. Rec(D, K, S)'.name = N OBVIOUS
    <2> QED BY <1>2, <2>1 DEF NamesOnce
  <1> QED BY <1>4, <1>5, <1>6, <1>7

\* The handler that publishes a name, and the inode it has written.
LEMMA PublishFacts ==
    ASSUME TypeInv, IInv, op.pc \in {"append", "grow_inode"}, itab[op.dir].mode = "dir"
    PROVE  /\ op.kind \in Making /\ op.dir \in LinkedDirs /\ op.dir \in DirInodes /\ op.name \in Names
           /\ op.ino \in Inodes /\ op.ino \in ibm /\ op.ino \notin Linked /\ op.ino \notin Reserved
           /\ \A k \in 1 .. Len(itab[op.dir].blks), s \in Slots :
                 ~(Live(op.dir, k, s) /\ Rec(op.dir, k, s).name = op.name)
           /\ itab[op.ino].mode # "none"
           /\ itab[op.ino].mode = "dir" <=> op.kind = "mkdir"
           /\ op.ino \in Owners \/ ~HasBlocks(op.ino)
           /\ Active \subseteq {op.ino} /\ BeingFreed = {}
           /\ NewDir = IF op.kind = "mkdir" THEN {op.ino} ELSE {}
  <1> USE DEF IInv, OpInv
  <1>1. op.kind \in Making /\ op.kind # "none" BY DEF TypeInv, OpPath, Making
  <1>2. op.dir \in LinkedDirs /\ op.dir \in DirInodes /\ op.name \in Names
    BY <1>1, LinkedIs DEF OpDir, LinkedDirs, DirInodes
  <1>3. op.ino \in ibm /\ op.ino \notin Linked /\ op.ino \notin Reserved /\ op.ino \in Inodes
    BY <1>1 DEF OpInode, MakingPcs, NamingPcs, TypeInv, TypeOK
  <1>4. \A k \in 1 .. Len(itab[op.dir].blks), s \in Slots :
           ~(Live(op.dir, k, s) /\ Rec(op.dir, k, s).name = op.name)
    BY <1>1 DEF OpName, NamingPcs
  <1>5. /\ op.kind = "create" => itab[op.ino].mode = "reg"
        /\ op.kind = "mkdir" => itab[op.ino].mode = "dir"
        /\ op.kind \in {"mknod", "symlink"} => itab[op.ino].mode \in {"dev", "lnk"}
    BY DEF OpWritten, WrittenPcs
  <1>6. op.ino \in Owners \/ ~HasBlocks(op.ino)
    BY <1>1, <1>3, <1>5 DEF Owners, Active, DirInodes, HasBlocks, Making
  <1>7. Active \subseteq {op.ino} /\ BeingFreed = {}
        /\ NewDir = IF op.kind = "mkdir" THEN {op.ino} ELSE {}
    BY DEF Active, BeingFreed, NewDir
  <1> QED BY <1>1, <1>2, <1>3, <1>4, <1>5, <1>6, <1>7 DEF Making

\* mkdir goes on to its parent, the others return.
LEMMA AfterAppendOp ==
    ASSUME TypeInv, IInv, op.pc \in {"append", "grow_inode"}, itab[op.dir].mode = "dir", AfterAppend,
           RootIsDir', Linked \subseteq Linked', itab'[op.dir].mode = "dir"
    PROVE  OpInv' /\ Active' = {} /\ NewDir' = {} /\ BeingFreed' = {}
  <1>1. CASE op.kind # "mkdir" BY <1>1, IdleOp DEF AfterAppend, Return
  <1>2. CASE op.kind = "mkdir"
    <2>1. /\ op'.pc = "link_parent" /\ op'.kind = "mkdir" /\ op'.dir = op.dir /\ op'.name = op.name
          /\ op'.ino = op.ino /\ op'.blks = op.blks
      BY <1>2, GotoFacts DEF AfterAppend, TypeInv, TypeOK, Pcs
    <2>2. Active' = {} /\ NewDir' = {} /\ BeingFreed' = {}
      BY <2>1 DEF Active, NewDir, BeingFreed, Removing
    <2>3. OpDir' BY <1>2, <2>1 DEF OpDir, IInv, OpInv
    <2>4. (OpName /\ OpInode /\ OpTarget /\ OpBitmap)'
      BY <2>1 DEF OpName, OpInode, OpTarget, OpBitmap, NamingPcs, MakingPcs, Making, Removing
    <2>5. (OpWritten /\ OpBlocks /\ OpExtra)'
      BY <2>1 DEF OpWritten, OpBlocks, OpExtra, WrittenPcs, Held, FreshPcs
    <2> QED BY <2>2, <2>3, <2>4, <2>5 DEF OpInv
  <1> QED BY <1>1, <1>2


\* The block a directory grew by, with the new record in it, joins the directory.
LEMMA LinkGrownInv ==
    ASSUME TypeInv, TypeInv', IInv, LinkGrownBlock
    PROVE  IInv' /\ Linked' = Linked \union {op.ino} /\ LinkedDirs' = LinkedDirs \union NewDir
  <1> PICK D : D = op.dir OBVIOUS
  <1> PICK X : X = op.ino OBVIOUS
  <1> PICK N : N = op.name OBVIOUS
  <1> PICK E : E = op.extra OBVIOUS
  <1> USE DEF IInv, DiskInv, RecordInv, OpInv
  <1>0. op.pc = "grow_inode" /\ UNCHANGED <<bbm, ibm, dblk>> /\ AfterAppend
    BY DEF LinkGrownBlock, At
  <1>1. itab[D].mode = "dir" BY <1>0 DEF OpDir
  <1>2. /\ op.kind \in Making /\ D \in LinkedDirs /\ D \in DirInodes /\ D \in Inodes /\ N \in Names
        /\ X \in Inodes /\ X \in ibm /\ X \notin Linked /\ X \notin Reserved /\ X # D
        /\ \A k \in 1 .. Len(itab[D].blks), s \in Slots : ~(Live(D, k, s) /\ Rec(D, k, s).name = N)
        /\ itab[X].mode # "none"
        /\ itab[X].mode = "dir" <=> op.kind = "mkdir"
        /\ X \in Owners \/ ~HasBlocks(X)
        /\ Active \subseteq {X} /\ BeingFreed = {}
        /\ NewDir = IF op.kind = "mkdir" THEN {X} ELSE {}
    BY <1>0, <1>1, PublishFacts DEF LinkedDirs, DirInodes
  <1>3. /\ E \in bbm \ MetaBlocks /\ \A i \in Owners : E \notin Claims(i)
        /\ dblk[E] = OneEntry(X, N) /\ E \in Nat /\ E \in Blocks
    BY <1>0, BlocksFinite DEF OpExtra, TypeInv, TypeOK
  <1>4. /\ \A i \in Inodes : i # D => itab'[i] = itab[i]
        /\ itab'[D].mode = "dir" /\ itab'[D].blks = Append(itab[D].blks, E)
        /\ itab[D].blks \in Seq(Nat) /\ Len(itab[D].blks) \in Nat
    BY <1>1, <1>2 DEF LinkGrownBlock, TypeInv, TypeOK, InodeRec
  <1> PICK n : n = Len(itab[D].blks) OBVIOUS
  <1>5. /\ n \in Nat /\ Len(itab'[D].blks) = n + 1 /\ itab'[D].blks[n + 1] = E
        /\ \A k \in 1 .. n : itab'[D].blks[k] = itab[D].blks[k] /\ k \in 1 .. (n + 1)
        /\ \A k \in 1 .. (n + 1) : k \in 1 .. n \/ k = n + 1
        /\ n + 1 \notin 1 .. n /\ n + 1 \in 1 .. (n + 1)
    <2> PICK q : q = itab[D].blks OBVIOUS
    <2>1. /\ Len(Append(q, E)) = Len(q) + 1 /\ Len(q) \in Nat /\ Append(q, E)[Len(q) + 1] = E
          /\ \A k \in 1 .. Len(q) : Append(q, E)[k] = q[k]
      BY <1>3, <1>4
    <2>2. /\ n \in Nat /\ Len(itab'[D].blks) = n + 1 /\ itab'[D].blks[n + 1] = E
          /\ \A k \in 1 .. n : itab'[D].blks[k] = itab[D].blks[k]
      BY <1>4, <2>1
    <2> QED BY <2>2
  <1>6. DirInodes' = DirInodes /\ D \in DirInodes /\ DirInodes \subseteq Inodes
    BY <1>2, <1>4 DEF DirInodes
  <1>7. 0 \in Slots /\ Rec(D, n + 1, 0)' = [ino |-> X, name |-> N]
        /\ \A s \in Slots : s # 0 => Rec(D, n + 1, s)' = FreeSlot /\ ~Live(D, n + 1, s)'
    <2>1. \A s \in Slots : Rec(D, n + 1, s)' = OneEntry(X, N)[s] BY <1>0, <1>3, <1>5 DEF Rec
    <2>2. 0 \in Slots BY SlotsAssumption DEF Slots
    <2>3. \A s \in Slots : s # 0 => Rec(D, n + 1, s)' = FreeSlot BY <2>1 DEF OneEntry
    <2>4. FreeSlot.ino = 0 BY DEF FreeSlot
    <2> QED BY <2>1, <2>2, <2>3, <2>4 DEF OneEntry, Live
  <1>8. ASSUME NEW d \in DirInodes, NEW k \in 1 .. Len(itab'[d].blks), NEW s \in Slots
        PROVE  \/ d = D /\ k = n + 1 /\ s = 0
               \/ k \in 1 .. Len(itab[d].blks) /\ Rec(d, k, s)' = Rec(d, k, s)
                  /\ (Live(d, k, s)' <=> Live(d, k, s))
               \/ k \notin 1 .. Len(itab[d].blks) /\ ~Live(d, k, s)' /\ Rec(d, k, s)' = FreeSlot
    <2>1. CASE d # D BY <2>1, <1>0, <1>4, <1>6 DEF Rec, Live
    <2>2. CASE d = D /\ k \in 1 .. n BY <2>2, <1>0, <1>5 DEF Rec, Live
    <2>3. CASE d = D /\ k = n + 1 BY <2>3, <1>5, <1>7
    <2> QED BY <1>5, <2>1, <2>2, <2>3
  <1>9. \A d \in DirInodes : \A k \in 1 .. Len(itab[d].blks) : k \in 1 .. Len(itab'[d].blks)
    BY <1>4, <1>5, <1>6
  <1>10. Linked' = Linked \union {X} /\ (OneRecord /\ RecordsUnreserved /\ NamesOnce)'
    <2> PICK K, S : K = n + 1 /\ S = 0 OBVIOUS
    <2>1. K \in 1 .. Len(itab'[D].blks) /\ S \in Slots BY <1>5, <1>7
    <2>2. K \in 1 .. Len(itab[D].blks) => ~Live(D, K, S) BY <1>5
    <2>3. \A d \in DirInodes : \A k \in 1 .. Len(itab'[d].blks), s \in Slots :
             \/ d = D /\ k = K /\ s = S
             \/ k \in 1 .. Len(itab[d].blks) /\ Rec(d, k, s)' = Rec(d, k, s)
                /\ (Live(d, k, s)' <=> Live(d, k, s))
             \/ k \notin 1 .. Len(itab[d].blks) /\ ~Live(d, k, s)'
      BY <1>8
    <2>4. Rec(D, K, S)' = [ino |-> X, name |-> N] BY <1>7
    <2>5. Adds(D, K, S, X, N) BY <1>2, <1>6, <1>9, <2>1, <2>2, <2>3, <2>4 DEF Adds
    <2> QED BY <2>5, AddedRecord
  <1>11. RootIsDir' BY <1>4, RootFacts DEF RootIsDir
  <1>12. OpInv' /\ Active' = {} /\ NewDir' = {} /\ BeingFreed' = {}
    BY <1>0, <1>1, <1>4, <1>10, <1>11, AfterAppendOp
  <1>13. Owners' \subseteq Owners \union {X} /\ Owners \subseteq Inodes /\ D \in Owners
    BY <1>2, <1>6, <1>10, <1>12, LinkedIs DEF Owners
  <1>14. /\ \A i \in Inodes : i # D => Claims(i)' = Claims(i) /\ (HasBlocks(i)' <=> HasBlocks(i))
         /\ Claims(D)' = Claims(D) \union {E} /\ HasBlocks(D) /\ HasBlocks(D)'
         /\ \A b : Loud(b)' <=> Loud(b)
    <2>1. Elems(itab'[D].blks) = Elems(itab[D].blks) \union {E} BY <1>3, <1>4, ElemsFacts
    <2> QED BY <1>0, <1>1, <1>4, <2>1 DEF Claims, HasBlocks, Loud
  <1>15. \A i \in Owners' : i \in Owners \/ (i = X /\ ~HasBlocks(X) /\ Claims(X) = {})
    BY <1>2, <1>13 DEF HasBlocks, Claims
  <1>16. (MetaMarked /\ LoudMarked)' BY <1>0, <1>14 DEF MetaMarked, LoudMarked
  <1>17. OwnersClean' BY <1>2, <1>3, <1>13, <1>14, <1>15 DEF OwnersClean
  <1>18. OwnersMarked' BY <1>0, <1>2, <1>3, <1>12, <1>13, <1>14, <1>15 DEF OwnersMarked
  <1>19. OwnersDisjoint'
    <2> SUFFICES ASSUME NEW i \in Owners', NEW j \in Owners', HasBlocks(i)', HasBlocks(j)',
                        NEW p \in 1 .. Len(itab'[i].blks), NEW q \in 1 .. Len(itab'[j].blks),
                        itab'[i].blks[p] = itab'[j].blks[q]
                 PROVE  i = j /\ p = q
      BY DEF OwnersDisjoint
    <2>1. i \in Owners /\ j \in Owners /\ HasBlocks(i) /\ HasBlocks(j) /\ i \in Inodes /\ j \in Inodes
      BY <1>2, <1>13, <1>14, <1>15
    <2>2. ASSUME NEW e \in Owners, HasBlocks(e), NEW r \in 1 .. Len(itab'[e].blks)
          PROVE  \/ e = D /\ r = n + 1 /\ itab'[e].blks[r] = E
                 \/ /\ r \in 1 .. Len(itab[e].blks) /\ itab'[e].blks[r] = itab[e].blks[r]
                    /\ itab'[e].blks[r] # E
      <3>1. CASE e = D /\ r = n + 1 BY <3>1, <1>5
      <3>2. CASE ~(e = D /\ r = n + 1)
        <4>1. r \in 1 .. Len(itab[e].blks) /\ itab'[e].blks[r] = itab[e].blks[r]
          BY <3>2, <1>4, <1>5, <1>13
        <4>2. itab[e].blks[r] \in Claims(e) BY <2>2, <4>1 DEF Claims, HasBlocks, Elems
        <4> QED BY <1>3, <4>1, <4>2
      <3> QED BY <3>1, <3>2
    <2> QED BY <2>1, <2>2 DEF OwnersDisjoint
  <1>20. OwnersAllocated' BY <1>0, <1>2, <1>13 DEF OwnersAllocated
  <1>21. LinkedWritten' BY <1>2, <1>4, <1>10, LinkedIs DEF LinkedWritten
  <1>22. SpecialHarmless' BY <1>4 DEF SpecialHarmless
  <1>23. LoudUnfiled'
    <2>1. \A i \in Owners' : itab'[i].mode = "reg" =>
             i \in Owners /\ itab[i].mode = "reg" /\ Claims(i)' = Claims(i)
      BY <1>2, <1>4, <1>13, <1>14, <1>15 DEF HasBlocks
    <2> QED BY <1>14, <2>1 DEF LoudUnfiled
  <1>24. LinkedDirs' = LinkedDirs \union NewDir
    BY <1>1, <1>2, <1>4, <1>10, LinkedIs DEF LinkedDirs
  <1>25. DotsSound'
    <2> SUFFICES ASSUME NEW d \in LinkedDirs \union NewDir
                 PROVE  /\ Len(itab'[d].blks) > 0
                        /\ Rec(d, 1, 0)' = [ino |-> d, name |-> "."]
                        /\ \E p \in LinkedDirs' : Rec(d, 1, 1)' = [ino |-> p, name |-> ".."]
                        /\ \A k \in 1 .. Len(itab'[d].blks), s \in Slots :
                              \/ k = 1 /\ s \in {0, 1}
                              \/ Live(d, k, s)'
                              \/ Rec(d, k, s)'.ino = 0 /\ Rec(d, k, s)'.name \notin {".", ".."}
      BY <1>12, <1>24 DEF DotsSound
    <2>1. d \in DirInodes BY <1>2, LinkedIs DEF LinkedDirs, DirInodes
    <2>2. /\ Len(itab[d].blks) > 0 /\ Rec(d, 1, 0) = [ino |-> d, name |-> "."]
          /\ \E p \in LinkedDirs : Rec(d, 1, 1) = [ino |-> p, name |-> ".."]
      BY DEF DotsSound
    <2>3. 1 \in 1 .. Len(itab[d].blks) /\ 0 \in Slots /\ 1 \in Slots /\ Len(itab'[d].blks) > 0
      <3>1. 0 \in Slots /\ 1 \in Slots BY SlotsAssumption DEF Slots
      <3>2. Len(itab[d].blks) \in Nat BY <1>6, <2>1 DEF TypeInv, TypeOK, InodeRec
      <3>3. 1 \in 1 .. Len(itab[d].blks) BY <2>2, <3>2
      <3>4. Len(itab'[d].blks) > 0 BY <1>4, <1>5, <1>6, <2>1, <2>2
      <3> QED BY <3>1, <3>3, <3>4
    <2>4. Rec(d, 1, 0)' = Rec(d, 1, 0) /\ Rec(d, 1, 1)' = Rec(d, 1, 1)
      BY <1>5, <1>8, <1>9, <2>1, <2>3
    <2>5. ASSUME NEW k \in 1 .. Len(itab'[d].blks), NEW s \in Slots
          PROVE  \/ k = 1 /\ s \in {0, 1}
                 \/ Live(d, k, s)'
                 \/ Rec(d, k, s)'.ino = 0 /\ Rec(d, k, s)'.name \notin {".", ".."}
      <3>1. Live(D, n + 1, 0)' BY <1>2, <1>7, RootFacts DEF Live
      <3>2. FreeSlot.ino = 0 /\ FreeSlot.name \notin {".", ".."} BY DEF FreeSlot
      <3> QED BY <1>8, <2>1, <3>1, <3>2 DEF DotsSound
    <2> QED BY <1>24, <2>2, <2>3, <2>4, <2>5
  <1> QED BY <1>10, <1>11, <1>12, <1>16, <1>17, <1>18, <1>19, <1>20, <1>21, <1>22, <1>23, <1>24, <1>25


\* The scan of ext2_append_dirent_at finds the first slack, if there is any.
LEMMA FirstSlackFacts ==
    ASSUME TypeInv, SlackAt # {}
    PROVE  /\ FirstSlack \in SlackAt
           /\ \E K \in 1 .. Len(itab[op.dir].blks), S \in Slots :
                 /\ K = FirstSlack[1] /\ S = FirstSlack[2]
                 /\ dblk[itab[op.dir].blks[K]][S] = FreeSlot
  <1>1. \A p \in SlackAt : p[1] \in Nat /\ p[2] \in Nat
    BY DEF SlackAt, Slots
  <1> DEFINE A == {p[1] : p \in SlackAt}
  <1> PICK k : k = Least(A) OBVIOUS
  <1>2. k \in A /\ \A y \in A : k <= y
    <2>1. A \in SUBSET Nat /\ A # {} BY <1>1
    <2> HIDE DEF A
    <2> QED BY <2>1, LeastMember
  <1> DEFINE B == {p[2] : p \in {q \in SlackAt : q[1] = k}}
  <1> PICK s : s = Least(B) OBVIOUS
  <1>3. s \in B /\ \A y \in B : s <= y
    <2>1. B \in SUBSET Nat /\ B # {} BY <1>1, <1>2
    <2> HIDE DEF B
    <2> QED BY <2>1, LeastMember
  <1>4. PICK p \in SlackAt : p[1] = k /\ p[2] = s BY <1>3
  <1>5. ASSUME NEW q \in SlackAt PROVE p[1] < q[1] \/ (p[1] = q[1] /\ p[2] <= q[2])
    <2>1. k <= q[1] /\ k \in Nat /\ q[1] \in Nat BY <1>1, <1>2
    <2>2. q[1] = k => s <= q[2] BY <1>3
    <2> QED BY <1>4, <2>1, <2>2
  <1>6. FirstSlack \in SlackAt BY <1>4, <1>5 DEF FirstSlack
  <1> QED BY <1>6 DEF SlackAt


\* Two positions in directories are the same block only if they are the same.
LEMMA DirPositions ==
    ASSUME TypeInv, OwnersDisjoint, NEW d \in DirInodes, NEW f \in DirInodes,
           NEW k \in 1 .. Len(itab[d].blks), NEW l \in 1 .. Len(itab[f].blks),
           itab[d].blks[k] = itab[f].blks[l]
    PROVE  d = f /\ k = l
  BY DirBlocks DEF OwnersDisjoint

\* The record of a new name goes into the first slack of its directory.
LEMMA AppendDirentInv ==
    ASSUME TypeInv, TypeInv', IInv, AppendDirent
    PROVE  IInv' /\ Linked' = Linked \union {op.ino} /\ LinkedDirs' = LinkedDirs \union NewDir
  <1> PICK D : D = op.dir OBVIOUS
  <1> PICK X : X = op.ino OBVIOUS
  <1> PICK N : N = op.name OBVIOUS
  <1>1. op.pc = "append" /\ UNCHANGED <<bbm, ibm, itab>> /\ AfterAppend /\ itab[D].mode = "dir"
    BY DEF AppendDirent, At
  <1> PICK K \in 1 .. Len(itab[D].blks), S \in Slots :
          /\ K = FirstSlack[1] /\ S = FirstSlack[2] /\ dblk[itab[D].blks[K]][S] = FreeSlot
    BY FirstSlackFacts DEF AppendDirent
  <1> PICK B : B = itab[D].blks[K] OBVIOUS
  <1> USE DEF IInv, DiskInv, RecordInv, OpInv
  <1>2. /\ op.kind \in Making /\ D \in LinkedDirs /\ D \in DirInodes /\ D \in Inodes /\ N \in Names
        /\ X \in Inodes /\ X \in ibm /\ X \notin Linked /\ X \notin Reserved /\ X # D
        /\ \A k \in 1 .. Len(itab[D].blks), s \in Slots : ~(Live(D, k, s) /\ Rec(D, k, s).name = N)
        /\ itab[X].mode # "none"
        /\ itab[X].mode = "dir" <=> op.kind = "mkdir"
        /\ X \in Owners \/ ~HasBlocks(X)
        /\ Active \subseteq {X} /\ BeingFreed = {}
        /\ NewDir = IF op.kind = "mkdir" THEN {X} ELSE {}
    BY <1>1, PublishFacts DEF LinkedDirs, DirInodes
  <1>3. B \in Blocks /\ B \in Claims(D) /\ D \in Owners /\ HasBlocks(D) BY <1>2, DirBlocks
  <1>4. /\ \A b \in Blocks : b # B => dblk'[b] = dblk[b]
        /\ \A s \in Slots : s # S => dblk'[B][s] = dblk[B][s]
        /\ dblk'[B][S] = [ino |-> X, name |-> N]
    <2>1. dblk' = [dblk EXCEPT ![B][S] = [ino |-> X, name |-> N]] BY DEF AppendDirent
    <2> QED BY <1>3, <2>1 DEF TypeInv, TypeOK
  <1>5. ASSUME NEW d \in DirInodes, NEW k \in 1 .. Len(itab[d].blks), NEW s \in Slots
        PROVE  \/ d = D /\ k = K /\ s = S
               \/ Rec(d, k, s)' = Rec(d, k, s) /\ (Live(d, k, s)' <=> Live(d, k, s))
    <2>1. itab[d].blks[k] \in Blocks BY DirBlocks
    <2>2. itab[d].blks[k] = B => d = D /\ k = K BY <1>2, DirPositions
    <2> QED BY <1>1, <1>4, <2>1, <2>2 DEF Rec, Live
  <1>6. DirInodes' = DirInodes /\ DirInodes \subseteq Inodes BY <1>1 DEF DirInodes
  <1>7. Rec(D, K, S)' = [ino |-> X, name |-> N] /\ Rec(D, K, S) = FreeSlot /\ ~Live(D, K, S)
    <2>1. Rec(D, K, S)' = [ino |-> X, name |-> N] /\ Rec(D, K, S) = FreeSlot BY <1>1, <1>4 DEF Rec
    <2>2. FreeSlot.ino = 0 BY DEF FreeSlot
    <2> QED BY <2>1, <2>2 DEF Live
  <1>8. Linked' = Linked \union {X} /\ (OneRecord /\ RecordsUnreserved /\ NamesOnce)'
    <2>1. Adds(D, K, S, X, N) BY <1>1, <1>2, <1>5, <1>6, <1>7 DEF Adds
    <2> QED BY <2>1, AddedRecord
  <1>9. RootIsDir' BY <1>1 DEF RootIsDir
  <1>10. OpInv' /\ Active' = {} /\ NewDir' = {} /\ BeingFreed' = {}
    BY <1>1, <1>8, <1>9, AfterAppendOp
  <1>11. Owners' \subseteq Owners \union {X} /\ Owners \subseteq Inodes
    BY <1>2, <1>6, <1>8, <1>10, LinkedIs DEF Owners
  <1>12. \A i : Claims(i)' = Claims(i) /\ (HasBlocks(i)' <=> HasBlocks(i))
    BY <1>1 DEF Claims, HasBlocks
  <1>13. \A i \in Owners' : i \in Owners \/ (i = X /\ ~HasBlocks(X) /\ Claims(X) = {})
    BY <1>2, <1>11 DEF HasBlocks, Claims
  <1>14. \A b \in Blocks : Loud(b)' => Loud(b) \/ b = B BY <1>4 DEF Loud
  <1>15. MetaMarked' BY <1>1 DEF MetaMarked
  <1>16. LoudMarked'
    <2>1. B \in bbm BY <1>2, <1>3 DEF OwnersMarked
    <2> QED BY <1>1, <1>14, <2>1 DEF LoudMarked
  <1>17. OwnersClean' BY <1>12, <1>13 DEF OwnersClean
  <1>18. OwnersMarked' BY <1>1, <1>2, <1>10, <1>12, <1>13 DEF OwnersMarked
  <1>19. OwnersDisjoint' BY <1>1, <1>12, <1>13 DEF OwnersDisjoint
  <1>20. OwnersAllocated' BY <1>1, <1>2, <1>11 DEF OwnersAllocated
  <1>21. (LinkedWritten /\ SpecialHarmless)' BY <1>1, <1>2, <1>8 DEF LinkedWritten, SpecialHarmless
  <1>22. LoudUnfiled'
    <2>1. \A i \in Owners : itab[i].mode = "reg" => B \notin Claims(i)
      BY <1>1, <1>3 DEF OwnersDisjoint, HasBlocks, Claims, Elems
    <2>2. \A i \in Owners' : itab'[i].mode = "reg" => i \in Owners BY <1>1, <1>13 DEF HasBlocks
    <2> QED BY <1>1, <1>12, <1>14, <2>1, <2>2 DEF LoudUnfiled
  <1>23. LinkedDirs' = LinkedDirs \union NewDir
    BY <1>1, <1>2, <1>8, LinkedIs DEF LinkedDirs
  <1>24. DotsSound'
    <2> SUFFICES ASSUME NEW d \in LinkedDirs \union NewDir
                 PROVE  /\ Len(itab'[d].blks) > 0
                        /\ Rec(d, 1, 0)' = [ino |-> d, name |-> "."]
                        /\ \E p \in LinkedDirs' : Rec(d, 1, 1)' = [ino |-> p, name |-> ".."]
                        /\ \A k \in 1 .. Len(itab'[d].blks), s \in Slots :
                              \/ k = 1 /\ s \in {0, 1}
                              \/ Live(d, k, s)'
                              \/ Rec(d, k, s)'.ino = 0 /\ Rec(d, k, s)'.name \notin {".", ".."}
      BY <1>10, <1>23 DEF DotsSound
    <2>1. d \in DirInodes BY <1>2, LinkedIs DEF LinkedDirs, DirInodes
    <2>2. /\ Len(itab[d].blks) > 0 /\ Rec(d, 1, 0) = [ino |-> d, name |-> "."]
          /\ \E p \in LinkedDirs : Rec(d, 1, 1) = [ino |-> p, name |-> ".."]
      BY DEF DotsSound
    <2>3. 1 \in 1 .. Len(itab[d].blks) /\ 0 \in Slots /\ 1 \in Slots
      <3>1. 0 \in Slots /\ 1 \in Slots BY SlotsAssumption DEF Slots
      <3>2. Len(itab[d].blks) \in Nat BY <1>6, <2>1 DEF TypeInv, TypeOK, InodeRec
      <3> QED BY <2>2, <3>1, <3>2
    <2>4. Rec(d, 1, 0)' = Rec(d, 1, 0) /\ Rec(d, 1, 1)' = Rec(d, 1, 1)
      <3>1. Rec(d, 1, 0) # FreeSlot /\ Rec(d, 1, 1) # FreeSlot
        <4>1. FreeSlot.name = "" BY DEF FreeSlot
        <4>2. Rec(d, 1, 0).name = "." /\ Rec(d, 1, 1).name = ".." BY <2>2
        <4> QED BY <4>1, <4>2
      <3> QED BY <1>5, <1>7, <2>1, <2>3, <3>1
    <2>5. ASSUME NEW k \in 1 .. Len(itab'[d].blks), NEW s \in Slots
          PROVE  \/ k = 1 /\ s \in {0, 1}
                 \/ Live(d, k, s)'
                 \/ Rec(d, k, s)'.ino = 0 /\ Rec(d, k, s)'.name \notin {".", ".."}
      <3>1. Live(D, K, S)' BY <1>2, <1>7, RootFacts DEF Live
      <3> QED BY <1>1, <1>5, <2>1, <3>1 DEF DotsSound
    <2> QED BY <1>1, <1>23, <2>2, <2>4, <2>5
  <1> QED BY <1>8, <1>9, <1>10, <1>15, <1>16, <1>17, <1>18, <1>19, <1>20, <1>21, <1>22, <1>23, <1>24

------------------------------------------------------------------------------
(* Steps that write blocks                                                   *)

\* The inode table stays, and so does every live record of a directory.
LEMMA SameRecords ==
    ASSUME TypeInv, TypeInv', IInv, itab' = itab,
           \A d \in DirInodes : \A k \in 1 .. Len(itab[d].blks), s \in Slots :
               (Live(d, k, s)' <=> Live(d, k, s)) /\ (Live(d, k, s) => Rec(d, k, s)' = Rec(d, k, s))
    PROVE  /\ Linked' = Linked /\ DirInodes' = DirInodes /\ LinkedDirs' = LinkedDirs
           /\ \A i : Claims(i)' = Claims(i) /\ (HasBlocks(i)' <=> HasBlocks(i))
           /\ (OneRecord /\ RecordsUnreserved /\ NamesOnce)'
           /\ (RootIsDir /\ LinkedWritten /\ SpecialHarmless)'
  <1> USE DEF IInv, DiskInv, RecordInv
  <1>1. DirInodes' = DirInodes BY DEF DirInodes
  <1>2. \A i : Claims(i)' = Claims(i) /\ (HasBlocks(i)' <=> HasBlocks(i)) BY DEF Claims, HasBlocks
  <1>3. \A i : i \in Linked' <=> i \in Linked BY <1>1, LinkedIs, LinkedIsNext
  <1>4. Linked' = Linked /\ LinkedDirs' = LinkedDirs BY <1>3 DEF LinkedDirs
  <1>5. OneRecord' BY <1>1 DEF OneRecord
  <1>6. (RecordsUnreserved /\ NamesOnce)' BY <1>1 DEF RecordsUnreserved, NamesOnce
  <1>7. (RootIsDir /\ LinkedWritten /\ SpecialHarmless)'
    BY <1>4 DEF RootIsDir, LinkedWritten, SpecialHarmless
  <1> QED BY <1>1, <1>2, <1>4, <1>5, <1>6, <1>7

\* The directory mkdir has written is one.
LEMMA NewDirIs == ASSUME TypeInv, IInv PROVE NewDir \subseteq DirInodes
  <1> SUFFICES ASSUME op.kind = "mkdir", op.pc \in WrittenPcs PROVE op.ino \in DirInodes
    BY DEF NewDir, WrittenPcs
  <1> USE DEF IInv, OpInv
  <1>1. op.ino \in Inodes BY DEF OpInode, WrittenPcs, MakingPcs, NamingPcs, Making, TypeInv, TypeOK
  <1>2. itab[op.ino].mode = "dir" BY DEF OpWritten
  <1> QED BY <1>1, <1>2 DEF DirInodes

\* Blocks nobody owns are written.
LEMMA UnownedWrite ==
    ASSUME TypeInv, TypeInv', IInv, UNCHANGED <<bbm, ibm, itab>>, NEW W,
           \A i \in Owners : Claims(i) \intersect W = {},
           \A b \in Blocks : b \notin W => dblk'[b] = dblk[b],
           \A b \in Blocks : Loud(b)' => Loud(b) \/ (b \in W /\ b \in bbm),
           Active' \subseteq Active, NewDir' \subseteq NewDir, BeingFreed = {}
    PROVE  /\ (DiskInv /\ RecordInv)'
           /\ Owners' \subseteq Owners /\ Linked' = Linked /\ DirInodes' = DirInodes /\ LinkedDirs' = LinkedDirs
           /\ \A i : Claims(i)' = Claims(i)
           /\ \A d \in DirInodes : \A k \in 1 .. Len(itab[d].blks), s \in Slots :
                 Rec(d, k, s)' = Rec(d, k, s) /\ (Live(d, k, s)' <=> Live(d, k, s))
  <1> USE DEF IInv, DiskInv, RecordInv
  <1>1. ASSUME NEW d \in DirInodes, NEW k \in 1 .. Len(itab[d].blks), NEW s \in Slots
        PROVE  Rec(d, k, s)' = Rec(d, k, s) /\ (Live(d, k, s)' <=> Live(d, k, s))
    <2>1. itab[d].blks[k] \in Blocks /\ itab[d].blks[k] \notin W BY DirBlocks
    <2> QED BY <2>1 DEF Rec, Live
  <1>2. /\ Linked' = Linked /\ DirInodes' = DirInodes /\ LinkedDirs' = LinkedDirs
        /\ \A i : Claims(i)' = Claims(i) /\ (HasBlocks(i)' <=> HasBlocks(i))
        /\ (OneRecord /\ RecordsUnreserved /\ NamesOnce)'
        /\ (RootIsDir /\ LinkedWritten /\ SpecialHarmless)'
    BY <1>1, SameRecords
  <1>3. Owners' \subseteq Owners BY <1>2 DEF Owners
  <1>4. (MetaMarked /\ LoudMarked)' BY DEF MetaMarked, LoudMarked
  <1>5. (OwnersClean /\ OwnersMarked /\ OwnersAllocated)'
    BY <1>2, <1>3 DEF OwnersClean, OwnersMarked, OwnersAllocated
  <1>6. OwnersDisjoint' BY <1>2, <1>3 DEF OwnersDisjoint
  <1>7. LoudUnfiled' BY <1>2, <1>3 DEF LoudUnfiled
  <1>8. DotsSound'
    <2>1. LinkedDirs' \union NewDir' \subseteq LinkedDirs \union NewDir BY <1>2
    <2>2. \A d \in LinkedDirs \union NewDir : Len(itab[d].blks) > 0 => d \in DirInodes /\ 1 \in 1 .. Len(itab[d].blks)
      <3>1. \A d \in LinkedDirs \union NewDir : d \in DirInodes /\ d \in Inodes
        BY LinkedIs, NewDirIs DEF LinkedDirs, DirInodes
      <3> QED BY <3>1 DEF TypeInv, TypeOK, InodeRec
    <2>3. 0 \in Slots /\ 1 \in Slots BY SlotsAssumption DEF Slots
    <2> QED BY <1>1, <1>2, <2>1, <2>2, <2>3 DEF DotsSound
  <1> QED BY <1>1, <1>2, <1>3, <1>4, <1>5, <1>6, <1>7, <1>8


\* The data of a file goes to blocks that are still free on disk.
LEMMA WriteDataInv ==
    ASSUME TypeInv, TypeInv', IInv, WriteData
    PROVE  IInv' /\ Linked' = Linked /\ LinkedDirs' = LinkedDirs
  <1> PICK W : W = Elems(op.blks) OBVIOUS
  <1> USE DEF IInv, OpInv
  <1>0. op.pc = "alloc_data" /\ op.kind \in {"create", "rewrite"} /\ UNCHANGED <<bbm, ibm, itab>> /\ Held
        /\ dblk' = [b \in Blocks |-> IF b \in W THEN Blank ELSE dblk[b]]
        /\ op' = [op EXCEPT !.pc = "alloc_commit", !.bm = CtxBitmap,
                            !.dirty = {BlockGroup(b) : b \in Elems(op.blks)}]
    BY DEF WriteData, At, TypeInv, OpPath, Held
  <1>1. /\ op'.pc = "alloc_commit" /\ op'.kind = op.kind /\ op'.dir = op.dir /\ op'.name = op.name
        /\ op'.ino = op.ino /\ op'.blks = op.blks /\ op'.bm = bbm \union W
        /\ op'.dirty = {BlockGroup(b) : b \in W}
    BY <1>0 DEF TypeInv, TypeOK, OpRec, CtxBitmap
  <1>2. /\ W \intersect MetaBlocks = {} /\ \A b \in W : ~Loud(b)
        /\ \A p, q \in 1 .. Len(op.blks) : op.blks[p] = op.blks[q] => p = q
        /\ \A i \in Owners : Claims(i) \intersect W = {}
    BY <1>0 DEF OpBlocks
  <1>3. Active' = {} /\ NewDir' = {} /\ BeingFreed = {}
    BY <1>0, <1>1 DEF Active, NewDir, BeingFreed
  <1>4. \A b \in Blocks : (b \notin W => dblk'[b] = dblk[b]) /\ (b \in W => ~Loud(b)')
    <2>1. \A s \in Slots : Blank[s].ino = 0 BY DEF Blank, FreeSlot
    <2> QED BY <1>0, <2>1 DEF Loud
  <1>5. \A b \in Blocks : Loud(b)' => Loud(b) BY <1>4 DEF Loud
  <1>6. /\ (DiskInv /\ RecordInv)'
        /\ Owners' \subseteq Owners /\ Linked' = Linked /\ DirInodes' = DirInodes /\ LinkedDirs' = LinkedDirs
        /\ \A i : Claims(i)' = Claims(i)
        /\ \A d \in DirInodes : \A k \in 1 .. Len(itab[d].blks), s \in Slots :
              Rec(d, k, s)' = Rec(d, k, s) /\ (Live(d, k, s)' <=> Live(d, k, s))
    BY <1>0, <1>2, <1>3, <1>4, <1>5, UnownedWrite
  <1>7. OpDir' BY <1>0, <1>1, <1>6 DEF OpDir
  <1>8. OpName'
    <2>1. itab[op.dir].mode = "dir" => op.dir \in DirInodes BY LinkedIs DEF OpDir, DirInodes
    <2> QED BY <1>0, <1>1, <1>6, <2>1 DEF OpName, NamingPcs
  <1>9. OpInode' BY <1>0, <1>1, <1>6 DEF OpInode, MakingPcs, NamingPcs, WrittenPcs, Making
  <1>10. (OpWritten /\ OpTarget /\ OpBitmap /\ OpExtra)'
    BY <1>0, <1>1, <1>6 DEF OpWritten, OpTarget, OpBitmap, OpExtra, WrittenPcs, Removing
  <1>11. OpBlocks'
    <2>1. \A b \in W : b \in Blocks /\ ~Loud(b)' BY <1>0, <1>4 DEF TypeInv, BlocksTyped
    <2>2. Elems(op'.blks) = W BY <1>1
    <2> QED BY <1>0, <1>1, <1>2, <1>6, <2>1, <2>2 DEF OpBlocks, FreshPcs
  <1> QED BY <1>6, <1>7, <1>8, <1>9, <1>10, <1>11

\* The block a directory grows by gets its record before the directory gets it.
LEMMA WriteGrownInv ==
    ASSUME TypeInv, TypeInv', IInv, WriteGrownBlock
    PROVE  IInv' /\ Linked' = Linked /\ LinkedDirs' = LinkedDirs
  <1> PICK E : E = op.extra OBVIOUS
  <1> USE DEF IInv, OpInv
  <1>0. op.pc = "grow_block" /\ op.kind \in Making /\ UNCHANGED <<bbm, ibm, itab>>
        /\ dblk' = [dblk EXCEPT ![E] = OneEntry(op.ino, op.name)]
    BY DEF WriteGrownBlock, At, TypeInv, OpPath
  <1>1. /\ op'.pc = "grow_inode" /\ op'.kind = op.kind /\ op'.dir = op.dir /\ op'.name = op.name
        /\ op'.ino = op.ino /\ op'.blks = op.blks /\ op'.extra = E
    BY GotoFacts DEF WriteGrownBlock, TypeInv, TypeOK, Pcs
  <1>2. E \in Blocks /\ E \in bbm \ MetaBlocks /\ \A i \in Owners : E \notin Claims(i)
    BY <1>0 DEF OpExtra, TypeInv, TypeOK
  <1>3. Active' = Active /\ NewDir' = NewDir /\ BeingFreed = {}
    BY <1>0, <1>1 DEF Active, NewDir, BeingFreed
  <1>4. /\ \A b \in Blocks : b # E => dblk'[b] = dblk[b]
        /\ dblk'[E] = OneEntry(op.ino, op.name)
    BY <1>0, <1>2 DEF TypeInv, TypeOK
  <1>5. /\ (DiskInv /\ RecordInv)'
        /\ Owners' \subseteq Owners /\ Linked' = Linked /\ DirInodes' = DirInodes /\ LinkedDirs' = LinkedDirs
        /\ \A i : Claims(i)' = Claims(i)
        /\ \A d \in DirInodes : \A k \in 1 .. Len(itab[d].blks), s \in Slots :
              Rec(d, k, s)' = Rec(d, k, s) /\ (Live(d, k, s)' <=> Live(d, k, s))
    <2> PICK W : W = {E} OBVIOUS
    <2>1. \A b \in Blocks : Loud(b)' => Loud(b) \/ (b \in W /\ b \in bbm)
      BY <1>2, <1>4 DEF Loud
    <2>2. \A i \in Owners : Claims(i) \intersect W = {} BY <1>2
    <2>3. \A b \in Blocks : b \notin W => dblk'[b] = dblk[b] BY <1>4
    <2> QED BY <1>0, <1>3, <2>1, <2>2, <2>3, UnownedWrite
  <1>6. OpDir' BY <1>0, <1>1, <1>5 DEF OpDir
  <1>7. OpName'
    <2>1. op.dir \in DirInodes BY <1>0, LinkedIs DEF OpDir, DirInodes
    <2> QED BY <1>0, <1>1, <1>5, <2>1 DEF OpName, NamingPcs
  <1>8. OpInode' BY <1>0, <1>1, <1>5 DEF OpInode, MakingPcs, NamingPcs, WrittenPcs, Making
  <1>9. OpWritten' BY <1>0, <1>1 DEF OpWritten, WrittenPcs
  <1>10. (OpTarget /\ OpBitmap)' BY <1>0, <1>1 DEF OpTarget, OpBitmap, Removing, Making
  <1>11. OpBlocks' BY <1>1 DEF OpBlocks, Held, FreshPcs
  <1>12. OpExtra' BY <1>0, <1>1, <1>2, <1>4, <1>5 DEF OpExtra
  <1> QED BY <1>5, <1>6, <1>7, <1>8, <1>9, <1>10, <1>11, <1>12

\* mkdir writes "." and ".." into the block of its inode.
LEMMA WriteDirBlockInv ==
    ASSUME TypeInv, TypeInv', IInv, WriteDirBlock
    PROVE  IInv' /\ Linked' = Linked /\ LinkedDirs' = LinkedDirs
  <1> PICK X : X = op.ino OBVIOUS
  <1> PICK D : D = op.dir OBVIOUS
  <1> PICK B : B = op.blks[1] OBVIOUS
  <1> USE DEF IInv, DiskInv, RecordInv, OpInv
  <1>0. op.pc = "write_dirblk" /\ op.kind = "mkdir" /\ UNCHANGED <<bbm, ibm, itab>>
        /\ dblk' = [dblk EXCEPT ![B] = DotBlock(X, D)]
    BY DEF WriteDirBlock, At, TypeInv, OpPath
  <1>1. /\ op'.pc = "append" /\ op'.kind = op.kind /\ op'.dir = D /\ op'.name = op.name
        /\ op'.ino = X /\ op'.blks = op.blks
    BY GotoFacts DEF WriteDirBlock, TypeInv, TypeOK, Pcs
  <1>2. /\ itab[X].mode = "dir" /\ itab[X].blks = op.blks /\ Len(op.blks) = 1 /\ ~Loud(B)
        /\ X \in Inodes /\ X \in DirInodes /\ X \notin Linked
    <2>1. itab[X].mode = "dir" /\ itab[X].blks = op.blks /\ Len(op.blks) = 1 /\ ~Loud(B)
      BY <1>0 DEF OpWritten
    <2>2. X \in ibm /\ X \notin Linked BY <1>0 DEF OpInode, MakingPcs, NamingPcs, Making
    <2> QED BY <2>1, <2>2 DEF DirInodes, TypeInv, TypeOK
  <1>3. 1 \in 1 .. Len(itab[X].blks) /\ B = itab[X].blks[1] BY <1>2
  <1>4. B \in Blocks BY <1>2, <1>3, DirBlocks
  <1>5. \A b \in Blocks : b # B => dblk'[b] = dblk[b] BY <1>0, <1>4 DEF TypeInv, TypeOK
  <1>6. dblk'[B] = DotBlock(X, D) BY <1>0, <1>4 DEF TypeInv, TypeOK
  <1>7. 0 \in Slots /\ 1 \in Slots BY SlotsAssumption DEF Slots
  <1>8. /\ dblk'[B][0] = [ino |-> X, name |-> "."] /\ dblk'[B][1] = [ino |-> D, name |-> ".."]
        /\ \A s \in Slots : s \notin {0, 1} => dblk'[B][s] = FreeSlot
    BY <1>6, <1>7 DEF DotBlock
  <1>9. FreeSlot.ino = 0 /\ FreeSlot.name = "" BY DEF FreeSlot
  <1>10. ~Loud(B)'
    <2> SUFFICES ASSUME NEW s \in Slots PROVE ~(dblk'[B][s].ino # 0 /\ dblk'[B][s].name \in Names)
      BY DEF Loud
    <2>1. CASE s \in {0, 1}
      <3>1. dblk'[B][0].name = "." /\ dblk'[B][1].name = ".." BY <1>8
      <3> QED BY <2>1, <3>1, NamesAssumption
    <2>2. CASE s \notin {0, 1} BY <1>8, <1>9, <2>2
    <2> QED BY <2>1, <2>2
  <1>11. \A b \in Blocks : Loud(b)' => Loud(b) BY <1>5, <1>10 DEF Loud
  <1>12. ASSUME NEW d \in DirInodes, NEW k \in 1 .. Len(itab[d].blks), NEW s \in Slots
         PROVE  /\ d # X => Rec(d, k, s)' = Rec(d, k, s)
                /\ Live(d, k, s)' <=> Live(d, k, s)
                /\ Live(d, k, s) => Rec(d, k, s)' = Rec(d, k, s)
    <2>1. CASE itab[d].blks[k] = B
      <3>1. d = X BY <1>2, <1>3, <2>1, DirPositions
      <3>2. ~Live(d, k, s) /\ ~Live(d, k, s)'
        BY <1>0, <1>2, <1>10, <2>1 DEF Live, Rec, Loud
      <3> QED BY <3>1, <3>2
    <2>2. CASE itab[d].blks[k] # B
      <3>1. itab[d].blks[k] \in Blocks BY DirBlocks
      <3> QED BY <1>0, <1>5, <2>2, <3>1 DEF Live, Rec
    <2> QED BY <2>1, <2>2
  <1>13. /\ Linked' = Linked /\ DirInodes' = DirInodes /\ LinkedDirs' = LinkedDirs
         /\ \A i : Claims(i)' = Claims(i) /\ (HasBlocks(i)' <=> HasBlocks(i))
         /\ (OneRecord /\ RecordsUnreserved /\ NamesOnce)'
         /\ (RootIsDir /\ LinkedWritten /\ SpecialHarmless)'
    BY <1>0, <1>12, SameRecords
  <1>14. Active = {} /\ Active' = {} /\ NewDir' = {X} /\ BeingFreed = {}
    BY <1>0, <1>1 DEF Active, NewDir, BeingFreed
  <1>15. Owners' = Owners BY <1>13, <1>14 DEF Owners
  <1>16. (MetaMarked /\ LoudMarked)' BY <1>0, <1>11 DEF MetaMarked, LoudMarked
  <1>17. (OwnersClean /\ OwnersMarked /\ OwnersAllocated)'
    BY <1>0, <1>13, <1>14, <1>15 DEF OwnersClean, OwnersMarked, OwnersAllocated
  <1>18. OwnersDisjoint' BY <1>0, <1>13, <1>15 DEF OwnersDisjoint
  <1>19. LoudUnfiled' BY <1>0, <1>11, <1>13, <1>15 DEF LoudUnfiled
  <1>20. D \in LinkedDirs BY <1>0 DEF OpDir, LinkedDirs
  <1>21. DotsSound'
    <2> SUFFICES ASSUME NEW d \in LinkedDirs \union {X}
                 PROVE  /\ Len(itab'[d].blks) > 0
                        /\ Rec(d, 1, 0)' = [ino |-> d, name |-> "."]
                        /\ \E p \in LinkedDirs' : Rec(d, 1, 1)' = [ino |-> p, name |-> ".."]
                        /\ \A k \in 1 .. Len(itab'[d].blks), s \in Slots :
                              \/ k = 1 /\ s \in {0, 1}
                              \/ Live(d, k, s)'
                              \/ Rec(d, k, s)'.ino = 0 /\ Rec(d, k, s)'.name \notin {".", ".."}
      BY <1>13, <1>14 DEF DotsSound
    <2>1. CASE d = X
      <3>1. \A s \in Slots : Rec(X, 1, s)' = dblk'[B][s] BY <1>0, <1>3 DEF Rec
      <3>2. \A k \in 1 .. Len(itab'[X].blks) : k = 1 BY <1>0, <1>2
      <3>3. Len(itab'[X].blks) > 0 BY <1>0, <1>2
      <3>4. Rec(X, 1, 0)' = [ino |-> X, name |-> "."] /\ Rec(X, 1, 1)' = [ino |-> D, name |-> ".."]
        BY <1>7, <1>8, <3>1
      <3>5. \A s \in Slots : s \in {0, 1} \/ (Rec(X, 1, s)'.ino = 0 /\ Rec(X, 1, s)'.name = "")
        BY <1>8, <1>9, <3>1
      <3>6. \A k \in 1 .. Len(itab'[X].blks), s \in Slots :
               \/ k = 1 /\ s \in {0, 1}
               \/ Rec(X, k, s)'.ino = 0 /\ Rec(X, k, s)'.name \notin {".", ".."}
        BY <3>2, <3>5
      <3> QED BY <1>13, <1>20, <2>1, <3>3, <3>4, <3>6
    <2>2. CASE d # X
      <3>1. d \in DirInodes /\ d \in LinkedDirs BY <2>2, LinkedIs DEF LinkedDirs, DirInodes
      <3>2. /\ Len(itab[d].blks) > 0 /\ Rec(d, 1, 0) = [ino |-> d, name |-> "."]
            /\ \E p \in LinkedDirs : Rec(d, 1, 1) = [ino |-> p, name |-> ".."]
        BY <3>1 DEF DotsSound
      <3>3. 1 \in 1 .. Len(itab[d].blks)
        BY <3>1, <3>2 DEF DirInodes, TypeInv, TypeOK, InodeRec
      <3>4. \A k \in 1 .. Len(itab[d].blks), s \in Slots :
               Rec(d, k, s)' = Rec(d, k, s) /\ (Live(d, k, s)' <=> Live(d, k, s))
        BY <1>12, <2>2, <3>1
      <3> QED BY <1>0, <1>7, <1>13, <3>1, <3>2, <3>3, <3>4 DEF DotsSound
    <2> QED BY <2>1, <2>2
  <1>22. OpDir' BY <1>0, <1>1, <1>13 DEF OpDir
  <1>23. OpName'
    <2>1. D \in DirInodes BY <1>20, LinkedIs DEF LinkedDirs, DirInodes
    <2>2. \A k \in 1 .. Len(itab[D].blks), s \in Slots : ~(Live(D, k, s) /\ Rec(D, k, s).name = op.name)
      BY <1>0, <1>20 DEF OpName, NamingPcs, Making, LinkedDirs
    <2>3. \A k \in 1 .. Len(itab[D].blks), s \in Slots : ~(Live(D, k, s)' /\ Rec(D, k, s)'.name = op.name)
      BY <1>12, <2>1, <2>2
    <2> QED BY <1>0, <1>1, <2>3 DEF OpName
  <1>24. OpInode' BY <1>0, <1>1, <1>13 DEF OpInode, MakingPcs, NamingPcs, WrittenPcs, Making
  <1>25. OpWritten' BY <1>0, <1>1, <1>2 DEF OpWritten, WrittenPcs
  <1>26. (OpTarget /\ OpBitmap)' BY <1>0, <1>1 DEF OpTarget, OpBitmap, Removing
  <1>27. (OpBlocks /\ OpExtra)' BY <1>1 DEF OpBlocks, OpExtra, Held, FreshPcs
  <1> QED BY <1>13, <1>16, <1>17, <1>18, <1>19, <1>21, <1>22, <1>23, <1>24, <1>25, <1>26, <1>27


------------------------------------------------------------------------------
(* unlink removes a record                                                   *)

\* The record unlink finds by its name is the one of its inode.
LEMMA RemoveFacts ==
    ASSUME TypeInv, IInv, RemoveDirent
    PROVE  /\ op.kind = "unlink" /\ op.pc = "remove" /\ UNCHANGED <<bbm, ibm, itab>>
           /\ op.dir \in DirInodes /\ op.dir \in LinkedDirs
           /\ op.ino \in Inodes /\ op.ino \notin Reserved /\ op.ino \notin DirInodes
           /\ \E k \in 1 .. Len(itab[op.dir].blks), s \in Slots :
                 /\ Live(op.dir, k, s) /\ Rec(op.dir, k, s) = [ino |-> op.ino, name |-> op.name]
                 /\ itab[op.dir].blks[k] \in Blocks
                 /\ \A b \in Blocks, t \in Slots :
                       b # itab[op.dir].blks[k] \/ t # s => dblk'[b][t] = dblk[b][t]
                 /\ LET r == dblk'[itab[op.dir].blks[k]][s]
                    IN  r.ino = 0 /\ r.name \notin {".", ".."}
  <1> USE DEF IInv, OpInv, RecordInv
  <1>0. op.kind = "unlink" /\ op.pc = "remove" /\ UNCHANGED <<bbm, ibm, itab>>
    BY DEF RemoveDirent, At, TypeInv, OpPath
  <1>1. op.dir \in DirInodes /\ op.dir \in LinkedDirs /\ op.name \in Names
        /\ op.ino \in Inodes /\ op.ino \notin Reserved /\ op.ino \notin DirInodes
    BY <1>0, LinkedIs DEF OpDir, OpTarget, DirInodes, LinkedDirs
  <1>2. PICK l \in 1 .. Len(itab[op.dir].blks), t \in Slots :
           Rec(op.dir, l, t) = [ino |-> op.ino, name |-> op.name]
    BY <1>0 DEF OpTarget
  <1>3. Live(op.dir, l, t) BY <1>1, <1>2, RootFacts DEF Live
  <1>4. PICK k \in 1 .. Len(itab[op.dir].blks), s \in Slots :
           LET b == itab[op.dir].blks[k]
           IN  /\ dblk[b][s].ino # 0 /\ dblk[b][s].name = op.name
               /\ dblk' = [dblk EXCEPT ![b][s] = IF s = 0 THEN [@ EXCEPT !.ino = 0] ELSE FreeSlot]
    BY DEF RemoveDirent
  <1> PICK b : b = itab[op.dir].blks[k] OBVIOUS
  <1>5. Live(op.dir, k, s) /\ Rec(op.dir, k, s).name = op.name /\ Rec(op.dir, k, s) = dblk[b][s]
    BY <1>1, <1>4 DEF Live, Rec
  <1>6. k = l /\ s = t BY <1>1, <1>2, <1>3, <1>5 DEF NamesOnce
  <1>7. b \in Blocks BY <1>1, DirBlocks
  <1>8. /\ \A c \in Blocks, u \in Slots : c # b \/ u # s => dblk'[c][u] = dblk[c][u]
        /\ dblk'[b][s] = IF s = 0 THEN [dblk[b][s] EXCEPT !.ino = 0] ELSE FreeSlot
    BY <1>4, <1>7 DEF TypeInv, TypeOK
  <1>9. dblk'[b][s].ino = 0 /\ dblk'[b][s].name \notin {".", ".."}
    <2>1. FreeSlot.ino = 0 /\ FreeSlot.name \notin {".", ".."} BY DEF FreeSlot
    <2>2. dblk[b][s] \in Record BY <1>7 DEF TypeInv, TypeOK
    <2>3. dblk[b][s].name \notin {".", ".."} BY <1>1, <1>5, NamesAssumption
    <2>4. [dblk[b][s] EXCEPT !.ino = 0].ino = 0
          /\ [dblk[b][s] EXCEPT !.ino = 0].name = dblk[b][s].name
      BY <2>2 DEF Record
    <2> QED BY <1>8, <2>1, <2>3, <2>4
  <1> QED BY <1>0, <1>1, <1>2, <1>5, <1>6, <1>7, <1>8, <1>9

LEMMA RemoveDirentInv ==
    ASSUME TypeInv, TypeInv', IInv, RemoveDirent
    PROVE  IInv' /\ Linked' = Linked \ {op.ino} /\ op.ino \in Linked /\ LinkedDirs' = LinkedDirs
  <1> PICK X : X = op.ino OBVIOUS
  <1> PICK D : D = op.dir OBVIOUS
  <1>0. /\ op.kind = "unlink" /\ op.pc = "remove" /\ UNCHANGED <<bbm, ibm, itab>>
        /\ D \in DirInodes /\ D \in LinkedDirs
        /\ X \in Inodes /\ X \notin Reserved /\ X \notin DirInodes
    BY RemoveFacts
  <1>1. PICK K \in 1 .. Len(itab[D].blks), S \in Slots :
           /\ Live(D, K, S) /\ Rec(D, K, S) = [ino |-> X, name |-> op.name]
           /\ itab[D].blks[K] \in Blocks
           /\ \A b \in Blocks, t \in Slots :
                 b # itab[D].blks[K] \/ t # S => dblk'[b][t] = dblk[b][t]
           /\ dblk'[itab[D].blks[K]][S].ino = 0
           /\ dblk'[itab[D].blks[K]][S].name \notin {".", ".."}
    BY RemoveFacts
  <1> USE DEF IInv, DiskInv, RecordInv, OpInv
  <1>2. /\ op'.pc = "release" /\ op'.kind = "unlink" /\ op'.dir = D /\ op'.name = op.name
        /\ op'.ino = X /\ op'.blks = op.blks
    BY <1>0, GotoFacts DEF RemoveDirent, TypeInv, TypeOK, Pcs
  <1>3. ASSUME NEW d \in DirInodes, NEW k \in 1 .. Len(itab[d].blks), NEW s \in Slots
        PROVE  \/ /\ d = D /\ k = K /\ s = S /\ ~Live(d, k, s)'
                  /\ Rec(d, k, s)'.ino = 0 /\ Rec(d, k, s)'.name \notin {".", ".."}
               \/ /\ ~(d = D /\ k = K /\ s = S)
                  /\ Rec(d, k, s)' = Rec(d, k, s) /\ (Live(d, k, s)' <=> Live(d, k, s))
    <2>1. itab[d].blks[k] \in Blocks BY DirBlocks
    <2>2. itab[d].blks[k] = itab[D].blks[K] => d = D /\ k = K BY <1>0, DirPositions
    <2> QED BY <1>0, <1>1, <2>1, <2>2 DEF Rec, Live
  <1>4. DirInodes' = DirInodes /\ DirInodes \subseteq Inodes BY <1>0 DEF DirInodes
  <1>5. \A i : Claims(i)' = Claims(i) /\ (HasBlocks(i)' <=> HasBlocks(i))
    BY <1>0 DEF Claims, HasBlocks
  <1>6. \A d \in DirInodes : \A k \in 1 .. Len(itab[d].blks), s \in Slots :
           Live(d, k, s)' => /\ Live(d, k, s) /\ Rec(d, k, s)' = Rec(d, k, s)
                             /\ Rec(d, k, s).ino # X
    <2>1. Rec(D, K, S).ino = X BY <1>1
    <2> QED BY <1>0, <1>1, <1>3, <2>1 DEF OneRecord
  <1>7. Linked' = Linked \ {X} /\ X \in Linked
    <2>1. X # Root BY <1>0, RootFacts
    <2>2. Rec(D, K, S).ino = X BY <1>1
    <2>3. X \in Linked BY <1>0, <1>1, <2>2, LinkedIs
    <2>4. ASSUME NEW i \in Linked' PROVE i \in Linked /\ i # X
      BY <1>0, <1>4, <1>6, <2>1, LinkedIs, LinkedIsNext
    <2>5. ASSUME NEW i \in Linked, i # X PROVE i \in Linked'
      <3>1. CASE i = Root BY <3>1, LinkedIsNext
      <3>2. CASE i # Root
        <4>0. PICK d \in DirInodes : \E k \in 1 .. Len(itab[d].blks), s \in Slots :
                 Live(d, k, s) /\ Rec(d, k, s).ino = i
          BY <3>2, LinkedIs
        <4>1. PICK k \in 1 .. Len(itab[d].blks), s \in Slots : Live(d, k, s) /\ Rec(d, k, s).ino = i
          BY <4>0
        <4>2. Live(d, k, s)' /\ Rec(d, k, s)' = Rec(d, k, s) BY <1>3, <2>2, <2>5, <4>1
        <4> QED BY <1>0, <1>4, <4>1, <4>2, LinkedIsNext
      <3> QED BY <3>1, <3>2
    <2> QED BY <2>3, <2>4, <2>5
  <1>8. Active = {} /\ Active' = {X} /\ NewDir = {} /\ NewDir' = {} /\ BeingFreed = {}
    BY <1>0, <1>2 DEF Active, NewDir, BeingFreed
  <1>9. Owners' \subseteq Owners BY <1>4, <1>7, <1>8 DEF Owners
  <1>10. LinkedDirs' = LinkedDirs BY <1>0, <1>7 DEF LinkedDirs, DirInodes
  <1>11. \A b \in Blocks : Loud(b)' => Loud(b)
    <2> SUFFICES ASSUME NEW b \in Blocks, NEW s \in Slots, dblk'[b][s].ino # 0, dblk'[b][s].name \in Names
                 PROVE  dblk[b][s].ino # 0 /\ dblk[b][s].name \in Names
      BY DEF Loud
    <2> QED BY <1>1
  <1>12. (MetaMarked /\ LoudMarked)' BY <1>0, <1>11 DEF MetaMarked, LoudMarked
  <1>13. (OwnersClean /\ OwnersMarked /\ OwnersAllocated)'
    BY <1>0, <1>5, <1>8, <1>9 DEF OwnersClean, OwnersMarked, OwnersAllocated
  <1>14. OwnersDisjoint' BY <1>0, <1>5, <1>9 DEF OwnersDisjoint
  <1>15. (RootIsDir /\ LinkedWritten /\ SpecialHarmless)'
    BY <1>0, <1>7 DEF RootIsDir, LinkedWritten, SpecialHarmless
  <1>16. OneRecord' BY <1>0, <1>4, <1>6 DEF OneRecord
  <1>17. (RecordsUnreserved /\ NamesOnce)' BY <1>0, <1>4, <1>6 DEF RecordsUnreserved, NamesOnce
  <1>18. LoudUnfiled' BY <1>0, <1>5, <1>9, <1>11 DEF LoudUnfiled
  <1>19. DotsSound'
    <2> SUFFICES ASSUME NEW d \in LinkedDirs
                 PROVE  /\ Len(itab'[d].blks) > 0
                        /\ Rec(d, 1, 0)' = [ino |-> d, name |-> "."]
                        /\ \E p \in LinkedDirs' : Rec(d, 1, 1)' = [ino |-> p, name |-> ".."]
                        /\ \A k \in 1 .. Len(itab'[d].blks), s \in Slots :
                              \/ k = 1 /\ s \in {0, 1}
                              \/ Live(d, k, s)'
                              \/ Rec(d, k, s)'.ino = 0 /\ Rec(d, k, s)'.name \notin {".", ".."}
      BY <1>8, <1>10 DEF DotsSound
    <2>1. d \in DirInodes BY LinkedIs DEF LinkedDirs, DirInodes
    <2>2. /\ Len(itab[d].blks) > 0 /\ Rec(d, 1, 0) = [ino |-> d, name |-> "."]
          /\ \E p \in LinkedDirs : Rec(d, 1, 1) = [ino |-> p, name |-> ".."]
      BY DEF DotsSound
    <2>3. 1 \in 1 .. Len(itab[d].blks) /\ 0 \in Slots /\ 1 \in Slots
      <3>1. 0 \in Slots /\ 1 \in Slots BY SlotsAssumption DEF Slots
      <3>2. Len(itab[d].blks) \in Nat BY <1>4, <2>1 DEF TypeInv, TypeOK, InodeRec
      <3> QED BY <2>2, <3>1, <3>2
    <2>4. Rec(d, 1, 0)' = Rec(d, 1, 0) /\ Rec(d, 1, 1)' = Rec(d, 1, 1)
      <3>1. Rec(d, 1, 0).name = "." /\ Rec(d, 1, 1).name = ".." BY <2>2
      <3>2. Rec(D, K, S).name \in Names BY <1>1 DEF Live
      <3> QED BY <1>3, <2>1, <2>3, <3>1, <3>2, NamesAssumption
    <2>5. ASSUME NEW k \in 1 .. Len(itab'[d].blks), NEW s \in Slots
          PROVE  \/ k = 1 /\ s \in {0, 1}
                 \/ Live(d, k, s)'
                 \/ Rec(d, k, s)'.ino = 0 /\ Rec(d, k, s)'.name \notin {".", ".."}
      BY <1>0, <1>3, <2>1 DEF DotsSound
    <2> QED BY <1>0, <1>10, <2>2, <2>4, <2>5
  <1>20. OpDir' BY <1>0, <1>2, <1>7 DEF OpDir, DirInodes
  <1>21. (OpName /\ OpInode /\ OpWritten)'
    BY <1>2 DEF OpName, OpInode, OpWritten, WrittenPcs, Making
  <1>22. OpTarget' BY <1>0, <1>2, <1>4, <1>7 DEF OpTarget
  <1>23. (OpBitmap /\ OpBlocks /\ OpExtra)' BY <1>2 DEF OpBitmap, OpBlocks, OpExtra, Held
  <1> QED BY <1>7, <1>10, <1>12, <1>13, <1>14, <1>15, <1>16, <1>17, <1>18, <1>19, <1>20, <1>21, <1>22, <1>23

------------------------------------------------------------------------------
(* The invariant                                                             *)

\* An image as mkfs.ext2 leaves it: the root directory and nothing else.
LEMMA IInvInit == Init => IInv
  <1> SUFFICES ASSUME Init PROVE IInv OBVIOUS
  <1>1. TypeInv BY TypeInit
  <1>2. op = Idle /\ op.kind = "none" /\ op.pc = "idle" BY DEF Init, Idle
  <1>3. /\ \A i \in Inodes : i # Root => itab[i].mode = "none" /\ itab[i].blks = << >>
        /\ itab[Root].mode = "dir" /\ itab[Root].blks = <<RootBlock>>
    BY RootFacts DEF Init, ClearedInode
  <1>4. DirInodes = {Root} BY <1>3, RootFacts DEF DirInodes
  <1>5. /\ dblk[RootBlock] = DotBlock(Root, Root)
        /\ \A b \in Blocks : b # RootBlock => dblk[b] = Blank
    BY BlockFacts DEF Init
  <1>6. 0 \in Slots /\ 1 \in Slots BY SlotsAssumption DEF Slots
  <1>7. FreeSlot.ino = 0 /\ FreeSlot.name = "" BY DEF FreeSlot
  <1>8. /\ dblk[RootBlock][0] = [ino |-> Root, name |-> "."]
        /\ dblk[RootBlock][1] = [ino |-> Root, name |-> ".."]
        /\ \A s \in Slots : s \notin {0, 1} => dblk[RootBlock][s] = FreeSlot
    BY <1>5, <1>6 DEF DotBlock
  <1>9. \A b \in Blocks : ~Loud(b)
    <2> SUFFICES ASSUME NEW b \in Blocks, NEW s \in Slots
                 PROVE  ~(dblk[b][s].ino # 0 /\ dblk[b][s].name \in Names)
      BY DEF Loud
    <2>1. CASE b = RootBlock /\ s \in {0, 1}
      <3>1. dblk[RootBlock][0].name = "." /\ dblk[RootBlock][1].name = ".." BY <1>8
      <3> QED BY <2>1, <3>1, NamesAssumption
    <2>2. CASE b = RootBlock /\ s \notin {0, 1} BY <1>7, <1>8, <2>2
    <2>3. CASE b # RootBlock BY <1>5, <1>7, <2>3 DEF Blank
    <2> QED BY <2>1, <2>2, <2>3
  <1>10. 1 \in 1 .. Len(itab[Root].blks) /\ \A k \in 1 .. Len(itab[Root].blks) : k = 1 /\ itab[Root].blks[k] = RootBlock
    BY <1>3
  <1>11. /\ \A k \in 1 .. Len(itab[Root].blks), s \in Slots : Rec(Root, k, s) = dblk[RootBlock][s]
         /\ \A k \in 1 .. Len(itab[Root].blks), s \in Slots : ~Live(Root, k, s)
    BY <1>9, <1>10, BlockFacts DEF Rec, Live, Loud
  <1>12. \A i : i \in Linked <=> i = Root BY <1>1, <1>4, <1>11, LinkedIs
  <1>13. Active = {} /\ NewDir = {} /\ BeingFreed = {}
    BY <1>2 DEF Active, NewDir, BeingFreed, Removing
  <1>14. Owners = {Root} /\ Linked = {Root} /\ LinkedDirs = {Root}
    BY <1>3, <1>4, <1>12, <1>13 DEF Owners, LinkedDirs
  <1>15. Claims(Root) = {RootBlock} BY <1>3, ElemsFacts DEF Claims
  <1>16. RootBlock \notin MetaBlocks /\ RootBlock \in bbm /\ MetaBlocks \subseteq bbm
    BY BlockFacts DEF Init
  <1>17. DiskInv
    <2>1. MetaMarked /\ OwnersClean /\ OwnersMarked
      BY <1>14, <1>15, <1>16 DEF MetaMarked, OwnersClean, OwnersMarked
    <2>2. OwnersDisjoint BY <1>10, <1>14 DEF OwnersDisjoint
    <2>3. OwnersAllocated BY <1>14, RootFacts DEF OwnersAllocated, Init
    <2>4. RootIsDir /\ LinkedWritten BY <1>3, <1>14 DEF RootIsDir, LinkedWritten
    <2>5. SpecialHarmless BY <1>3 DEF SpecialHarmless
    <2> QED BY <2>1, <2>2, <2>3, <2>4, <2>5 DEF DiskInv
  <1>18. RecordInv
    <2>1. OneRecord BY <1>4, <1>11 DEF OneRecord
    <2>2. RecordsUnreserved /\ NamesOnce BY <1>4, <1>11 DEF RecordsUnreserved, NamesOnce
    <2>3. LoudMarked /\ LoudUnfiled BY <1>9 DEF LoudMarked, LoudUnfiled
    <2>4. DotsSound
      <3>1. Len(itab[Root].blks) > 0 BY <1>3
      <3>2. Rec(Root, 1, 0) = [ino |-> Root, name |-> "."] /\ Rec(Root, 1, 1) = [ino |-> Root, name |-> ".."]
        BY <1>6, <1>8, <1>10, <1>11
      <3>3. \A k \in 1 .. Len(itab[Root].blks), s \in Slots :
               \/ k = 1 /\ s \in {0, 1}
               \/ Rec(Root, k, s).ino = 0 /\ Rec(Root, k, s).name \notin {".", ".."}
        BY <1>7, <1>8, <1>10, <1>11
      <3> QED BY <1>13, <1>14, <3>1, <3>2, <3>3 DEF DotsSound
    <2> QED BY <2>1, <2>2, <2>3, <2>4 DEF RecordInv
  <1>19. OpInv
    <2>1. OpDir BY <1>2, <1>3, <1>14 DEF OpDir, Idle
    <2>2. OpName /\ OpInode /\ OpTarget /\ OpBitmap
      BY <1>2 DEF OpName, OpInode, OpTarget, OpBitmap, Making, Removing
    <2>3. OpWritten /\ OpBlocks /\ OpExtra
      BY <1>2 DEF OpWritten, WrittenPcs, OpBlocks, OpExtra, Held, FreshPcs
    <2> QED BY <2>1, <2>2, <2>3 DEF OpInv
  <1> QED BY <1>17, <1>18, <1>19 DEF IInv

\* Every step, every start of a handler and every crash keeps IInv.
LEMMA IInvNext == ASSUME Harmless, TypeInv, TypeInv', IInv, [Next]_vars PROVE IInv'
  <1>1. CASE Start BY <1>1, StartInv
  <1>2. CASE Crash BY <1>2, ReturnInv
  <1>3. CASE AllocInodeFails \/ AllocBlockFails \/ AllocDataFails \/ ReleaseFails
    BY <1>3, ReturnInv DEF AllocInodeFails, AllocBlockFails, AllocDataFails, ReleaseFails, At
  <1>4. CASE AllocInode \/ AllocBlock \/ AllocBlockCtx BY <1>4, AllocInodeInv, AllocBlockInv, AllocCtxInv
  <1>5. CASE StoreMeta \/ WriteBitmap BY <1>5, StoreMetaInv, WriteBitmapInv
  <1>6. CASE WriteData \/ WriteInode \/ WriteDirBlock
    BY <1>6, WriteDataInv, WriteInodeInv, WriteDirBlockInv
  <1>7. CASE AppendDirent \/ GrowDir \/ WriteGrownBlock \/ LinkGrownBlock \/ AppendFails \/ LinkParent
    BY <1>7, AppendDirentInv, GrowDirInv, WriteGrownInv, LinkGrownInv, AppendFailsInv, LinkParentInv
  <1>8. CASE RemoveDirent \/ ReleaseBlocks \/ ClearInode \/ FreeInode
    BY <1>8, RemoveDirentInv, ReleaseInv, ClearInodeInv, FreeInodeInv
  <1>9. CASE UNCHANGED vars
    <2>0. UNCHANGED <<bbm, ibm, itab, dblk, op>> BY <1>9 DEF vars
    <2>1. Active' = Active /\ NewDir' = NewDir /\ BeingFreed' = BeingFreed
      BY <2>0 DEF Active, NewDir, BeingFreed
    <2>2. (DiskInv /\ RecordInv)' /\ Owners' \subseteq Owners BY <2>0, <2>1, QuietDisk
    <2> USE <2>0, QuietView DEF IInv, OpInv
    <2>3. (OpDir /\ OpName /\ OpInode)' BY DEF OpDir, OpName, OpInode
    <2>4. OpWritten' BY DEF OpWritten, Loud
    <2>5. OpTarget' BY DEF OpTarget
    <2>6. OpBitmap' BY <2>2 DEF OpBitmap
    <2>7. (OpBlocks /\ OpExtra)' BY <2>2 DEF OpBlocks, OpExtra, Held
    <2> QED BY <2>2, <2>3, <2>4, <2>5, <2>6, <2>7
  <1> QED BY <1>1, <1>2, <1>3, <1>4, <1>5, <1>6, <1>7, <1>8, <1>9 DEF Next, Step

\* The invariant of Ext2Inv holds in every reachable state.
THEOREM IInvCorrect == ASSUME Harmless PROVE Spec => [](TypeInv /\ IInv)
  <1>1. Init => TypeInv /\ IInv BY TypeInit, IInvInit
  <1>2. TypeInv /\ IInv /\ [Next]_vars => (TypeInv /\ IInv)' BY TypeNext, IInvNext
  <1> QED BY <1>1, <1>2, PTL DEF Spec

------------------------------------------------------------------------------
(* What the invariant says of an image                                       *)

\* Whatever operations ran, failed or were cut off by a crash: a block that a
\* reachable file claims is marked used and is no metadata (fsck.ext2's "not
\* allocated" and "metadata block claimed" never occur).
THEOREM MarkedCorrect == ASSUME Harmless PROVE Spec => []ClaimedMarked
  <1>1. TypeInv /\ IInv => ClaimedMarked
    <2> SUFFICES ASSUME TypeInv, IInv, NEW i \in Linked, i \notin Releasing
                 PROVE  Claims(i) \subseteq bbm \ MetaBlocks
      BY DEF ClaimedMarked
    <2>1. i \notin BeingFreed
      BY DEF Releasing, BeingFreed, Removing, IInv, OpInv, OpTarget
    <2> QED BY <2>1 DEF IInv, DiskInv, OwnersClean, OwnersMarked, Owners
  <1> QED BY <1>1, IInvCorrect, PTL

\* No block belongs to two reachable files, or twice to one.
THEOREM OwnerCorrect == ASSUME Harmless PROVE Spec => []SingleOwner
  <1>1. IInv => SingleOwner
    BY DEF IInv, DiskInv, OwnersDisjoint, SingleOwner, Owners, HasBlocks
  <1> QED BY <1>1, IInvCorrect, PTL

\* A record leads to an inode that is marked and written, and a reachable
\* directory has its "." and a ".." to a reachable directory.
THEOREM RecordsCorrect == ASSUME Harmless PROVE Spec => []RecordsSound
  <1>1. TypeInv /\ IInv => RecordsSound
    <2> SUFFICES ASSUME TypeInv, IInv PROVE RecordsSound OBVIOUS
    <2>1. \A i \in Linked : i \in ibm /\ itab[i].mode # "none"
      BY DEF IInv, DiskInv, OwnersAllocated, Owners, LinkedWritten
    <2>2. ASSUME NEW d \in LinkedDirs
          PROVE  \E p \in LinkedDirs :
                    {[ino |-> d, name |-> "."], [ino |-> p, name |-> ".."]} \subseteq Entries(d)
      <3>1. /\ Len(itab[d].blks) > 0 /\ Rec(d, 1, 0) = [ino |-> d, name |-> "."]
            /\ \E p \in LinkedDirs : Rec(d, 1, 1) = [ino |-> p, name |-> ".."]
        BY DEF IInv, RecordInv, DotsSound
      <3>2. d \in Inodes BY LinkedIs DEF LinkedDirs
      <3>3. Len(itab[d].blks) \in Nat BY <3>2 DEF TypeInv, TypeOK, InodeRec
      <3>4. 1 \in 1 .. Len(itab[d].blks) /\ 0 \in Slots /\ 1 \in Slots
        BY <3>1, <3>3, SlotsAssumption DEF Slots
      <3>5. Rec(d, 1, 0) \in Entries(d) /\ Rec(d, 1, 1) \in Entries(d)
        BY <3>4 DEF Entries, Rec
      <3> QED BY <3>1, <3>5
    <2> QED BY <2>1, <2>2 DEF RecordsSound
  <1> QED BY <1>1, IInvCorrect, PTL

\* A directory holds a name, "." and ".." included, at most once.
THEOREM NamesCorrect == ASSUME Harmless PROVE Spec => []UniqueNames
  <1>1. TypeInv /\ IInv => UniqueNames
    <2> SUFFICES ASSUME TypeInv, IInv, NEW d \in LinkedDirs,
                        NEW k \in 1 .. Len(itab[d].blks), NEW l \in 1 .. Len(itab[d].blks),
                        NEW s \in Slots, NEW t \in Slots,
                        Rec(d, k, s).ino # 0, Rec(d, l, t).ino # 0,
                        Rec(d, k, s).name = Rec(d, l, t).name
                 PROVE  k = l /\ s = t
      BY DEF UniqueNames, Rec
    <2>1. d \in DirInodes BY LinkedIs DEF LinkedDirs, DirInodes
    <2>2. /\ Rec(d, 1, 0).name = "." /\ Rec(d, 1, 1).name = ".."
          /\ (k = 1 /\ s \in {0, 1}) \/ Live(d, k, s)
          /\ (l = 1 /\ t \in {0, 1}) \/ Live(d, l, t)
      BY DEF IInv, RecordInv, DotsSound
    <2>3. CASE Live(d, k, s) /\ Live(d, l, t)
      BY <2>1, <2>3 DEF IInv, RecordInv, NamesOnce
    <2>4. CASE ~Live(d, k, s) \/ ~Live(d, l, t)
      BY <2>2, <2>4, NamesAssumption DEF Live
    <2> QED BY <2>3, <2>4
  <1> QED BY <1>1, IInvCorrect, PTL

------------------------------------------------------------------------------
(* Names stay                                                                *)

\* A live record is what the lookup of its name finds.
LEMMA EntryIs ==
    TypeInv /\ IInv =>
      \A d \in DirInodes, n \in Names : \A k \in 1 .. Len(itab[d].blks), s \in Slots :
          Live(d, k, s) /\ Rec(d, k, s).name = n =>
              HasEntry(d, n) /\ Target(d, n) = Rec(d, k, s).ino
  <1> SUFFICES ASSUME TypeInv, IInv, NEW d \in DirInodes, NEW n \in Names,
                      NEW k \in 1 .. Len(itab[d].blks), NEW s \in Slots,
                      Live(d, k, s), Rec(d, k, s).name = n
               PROVE  HasEntry(d, n) /\ Target(d, n) = Rec(d, k, s).ino
    OBVIOUS
  <1>1. Rec(d, k, s) \in Entries(d) /\ Rec(d, k, s).ino # 0 BY DEF Entries, Rec, Live
  <1>2. HasEntry(d, n) BY <1>1 DEF HasEntry
  <1>3. PICK e \in Entries(d) : e.ino # 0 /\ e.name = n /\ Target(d, n) = e.ino
    BY <1>1 DEF Target
  <1>4. PICK l \in 1 .. Len(itab[d].blks), t \in Slots : e = Rec(d, l, t)
    BY <1>3 DEF Entries, Rec
  <1>5. Live(d, l, t) BY <1>3, <1>4 DEF Live
  <1>6. k = l /\ s = t BY <1>3, <1>4, <1>5 DEF IInv, RecordInv, NamesOnce
  <1> QED BY <1>2, <1>3, <1>4, <1>6

LEMMA EntryIsNext ==
    (TypeInv /\ IInv =>
      \A d \in DirInodes, n \in Names : \A k \in 1 .. Len(itab[d].blks), s \in Slots :
          Live(d, k, s) /\ Rec(d, k, s).name = n =>
              HasEntry(d, n) /\ Target(d, n) = Rec(d, k, s).ino)'
  BY EntryIs, PTL

\* A step keeps every live record, but for the one unlink is removing.
Keeps ==
    \A d \in DirInodes :
        /\ d \in DirInodes'
        /\ \A k \in 1 .. Len(itab[d].blks), s \in Slots :
              Live(d, k, s) =>
                 \/ k \in 1 .. Len(itab'[d].blks) /\ Live(d, k, s)' /\ Rec(d, k, s)' = Rec(d, k, s)
                 \/ op.kind = "unlink" /\ op.dir = d /\ op.name = Rec(d, k, s).name

\* Steps that leave the directories or their blocks alone.
LEMMA KeepsQuiet == ASSUME UNCHANGED <<itab, dblk>> PROVE Keeps
  BY QuietView DEF Keeps

LEMMA KeepsStep == ASSUME Harmless, TypeInv, TypeInv', IInv, [Next]_vars PROVE Keeps
  <1> USE DEF IInv, DiskInv, RecordInv, OpInv
  <1>1. CASE WriteInode
    <2>1. op.ino \notin DirInodes /\ \A i \in Inodes : i # op.ino => itab'[i] = itab[i]
      BY <1>1, NewInodeFacts
    <2>2. \A d \in DirInodes : d \in Inodes /\ itab'[d] = itab[d] /\ d \in DirInodes'
      BY <2>1 DEF DirInodes
    <2> QED BY <1>1, <2>2, WriteInodeDisk DEF Keeps
  <1>2. CASE ClearInode
    <2>1. /\ DirInodes' = DirInodes
          /\ \A d \in DirInodes : \A k, s : Rec(d, k, s)' = Rec(d, k, s) /\ (Live(d, k, s)' <=> Live(d, k, s))
      BY <1>2, ClearInodeDisk
    <2>2. op.ino \notin DirInodes
      BY <1>2, LinkedIs DEF ClearInode, At, OpTarget, TypeInv, OpPath, Removing, DirInodes
    <2>3. \A d \in DirInodes : itab'[d] = itab[d]
      BY <1>2, <2>2 DEF ClearInode, DirInodes, TypeInv, TypeOK
    <2> QED BY <2>1, <2>3 DEF Keeps
  <1>3. CASE LinkParent
    <2>1. \A i \in Inodes : itab'[i].mode = itab[i].mode /\ itab'[i].blks = itab[i].blks
      BY <1>3 DEF LinkParent, TypeInv, TypeOK, InodeRec
    <2> QED BY <1>3, <2>1 DEF Keeps, LinkParent, DirInodes, Live, Rec
  <1>4. CASE LinkGrownBlock
    <2> PICK D : D = op.dir OBVIOUS
    <2>1. itab[D].blks \in Seq(Nat) /\ op.extra \in Nat /\ D \in Inodes
      BY BlocksFinite DEF TypeInv, TypeOK, OpRec, InodeRec
    <2>2. /\ \A i \in Inodes : i # D => itab'[i] = itab[i]
          /\ itab'[D].mode = itab[D].mode /\ itab'[D].blks = Append(itab[D].blks, op.extra)
      BY <1>4, <2>1 DEF LinkGrownBlock, TypeInv, TypeOK, InodeRec
    <2>3. \A k \in 1 .. Len(itab[D].blks) : k \in 1 .. Len(itab'[D].blks) /\ itab'[D].blks[k] = itab[D].blks[k]
      BY <2>1, <2>2
    <2>4. \A d \in DirInodes : d \in Inodes /\ d \in DirInodes' BY <2>2 DEF DirInodes
    <2>5. \A d \in DirInodes : \A k \in 1 .. Len(itab[d].blks) :
             k \in 1 .. Len(itab'[d].blks) /\ itab'[d].blks[k] = itab[d].blks[k]
      BY <2>2, <2>3, <2>4
    <2> QED BY <1>4, <2>4, <2>5 DEF Keeps, LinkGrownBlock, Live, Rec
  <1>5. CASE WriteData \/ WriteGrownBlock \/ WriteDirBlock \/ AppendDirent
    <2>0. itab' = itab /\ DirInodes' = DirInodes
      BY <1>5 DEF WriteData, WriteGrownBlock, WriteDirBlock, AppendDirent, DirInodes
    <2>1. ASSUME NEW d \in DirInodes, NEW k \in 1 .. Len(itab[d].blks), NEW s \in Slots, Live(d, k, s)
          PROVE  dblk'[itab[d].blks[k]][s] = dblk[itab[d].blks[k]][s]
      <3> PICK b : b = itab[d].blks[k] OBVIOUS
      <3>1. b \in Blocks /\ b \in Claims(d) /\ d \in Owners /\ Loud(b)
        BY <2>1, DirBlocks DEF Live, Rec, Loud
      <3>2. CASE WriteData
        <4>1. Held BY <3>2 DEF WriteData, At, Held, TypeInv, OpPath
        <4>2. b \notin Elems(op.blks) BY <3>1, <4>1 DEF OpBlocks
        <4> QED BY <3>1, <3>2, <4>2 DEF WriteData
      <3>3. CASE WriteGrownBlock
        <4>1. b # op.extra BY <3>1, <3>3 DEF OpExtra, WriteGrownBlock, At
        <4> QED BY <3>1, <3>3, <4>1 DEF WriteGrownBlock, TypeInv, TypeOK
      <3>4. CASE WriteDirBlock
        <4>1. b # op.blks[1] BY <3>1, <3>4 DEF OpWritten, WriteDirBlock, At
        <4> QED BY <3>1, <3>4, <4>1 DEF WriteDirBlock, TypeInv, TypeOK
      <3>5. CASE AppendDirent
        <4>1. PICK K \in 1 .. Len(itab[op.dir].blks), S \in Slots :
                 K = FirstSlack[1] /\ S = FirstSlack[2] /\ dblk[itab[op.dir].blks[K]][S] = FreeSlot
          BY <3>5, FirstSlackFacts DEF AppendDirent
        <4> PICK c : c = itab[op.dir].blks[K] OBVIOUS
        <4>2. dblk' = [dblk EXCEPT ![c][S] = [ino |-> op.ino, name |-> op.name]]
          BY <3>5, <4>1 DEF AppendDirent
        <4>3. dblk[b][s] # FreeSlot
          <5>1. FreeSlot.ino = 0 BY DEF FreeSlot
          <5> QED BY <2>1, <5>1 DEF Live, Rec
        <4>4. b # c \/ s # S BY <4>1, <4>3
        <4> QED BY <3>1, <4>2, <4>4 DEF TypeInv, TypeOK
      <3> QED BY <1>5, <3>2, <3>3, <3>4, <3>5
    <2> QED BY <2>0, <2>1 DEF Keeps, Live, Rec
  <1>6. CASE RemoveDirent
    <2>0. op.kind = "unlink" /\ itab' = itab /\ op.dir \in DirInodes /\ DirInodes' = DirInodes
      BY <1>6, RemoveFacts DEF DirInodes
    <2>1. PICK K \in 1 .. Len(itab[op.dir].blks), S \in Slots :
             /\ Rec(op.dir, K, S) = [ino |-> op.ino, name |-> op.name]
             /\ \A b \in Blocks, t \in Slots :
                   b # itab[op.dir].blks[K] \/ t # S => dblk'[b][t] = dblk[b][t]
      BY <1>6, RemoveFacts
    <2>2. ASSUME NEW d \in DirInodes, NEW k \in 1 .. Len(itab[d].blks), NEW s \in Slots
          PROVE  \/ dblk'[itab[d].blks[k]][s] = dblk[itab[d].blks[k]][s]
                 \/ op.dir = d /\ op.name = Rec(d, k, s).name
      <3>1. itab[d].blks[k] \in Blocks BY DirBlocks
      <3>2. itab[d].blks[k] = itab[op.dir].blks[K] => d = op.dir /\ k = K BY <2>0, DirPositions
      <3> QED BY <2>1, <3>1, <3>2
    <2> QED BY <2>0, <2>2 DEF Keeps, Live, Rec
  <1>7. CASE UNCHANGED <<itab, dblk>> BY <1>7, KeepsQuiet
  <1>8. Start => UNCHANGED <<itab, dblk>> BY StartQuiet
  <1>9. Crash \/ FailClean \/ FailAndLeak \/ UNCHANGED vars => UNCHANGED <<itab, dblk>>
    BY DEF Crash, FailClean, FailAndLeak, disk, vars
  <1>10. AllocInode \/ AllocBlock \/ AllocBlockCtx \/ StoreMeta \/ WriteBitmap \/ GrowDir
         \/ ReleaseBlocks \/ FreeInode => UNCHANGED <<itab, dblk>>
    BY DEF AllocInode, AllocBlock, AllocBlockCtx, StoreMeta, WriteBitmap, GrowDir, ReleaseBlocks,
           FreeInode, disk
  <1>11. AllocInodeFails \/ AllocBlockFails \/ AllocDataFails \/ ReleaseFails \/ AppendFails
         => UNCHANGED <<itab, dblk>>
    BY <1>9 DEF AllocInodeFails, AllocBlockFails, AllocDataFails, ReleaseFails, AppendFails, disk
  <1> QED BY <1>1, <1>2, <1>3, <1>4, <1>5, <1>6, <1>7, <1>8, <1>9, <1>10, <1>11 DEF Next, Step

\* A name that a path of a reachable directory ends in leads to the same inode
\* after every step, unless unlink is removing that very name.
THEOREM SurviveCorrect == ASSUME Harmless PROVE Spec => NamesSurvive
  <1>1. ASSUME TypeInv, IInv, [Next]_vars, (TypeInv /\ IInv)'
        PROVE  [\A d \in LinkedDirs, n \in Names :
                  HasEntry(d, n) =>
                     \/ HasEntry(d, n)' /\ Target(d, n)' = Target(d, n)
                     \/ op.kind = "unlink" /\ op.dir = d /\ op.name = n]_vars
    <2> SUFFICES ASSUME NEW d \in LinkedDirs, NEW n \in Names, HasEntry(d, n),
                        ~(op.kind = "unlink" /\ op.dir = d /\ op.name = n)
                 PROVE  HasEntry(d, n)' /\ Target(d, n)' = Target(d, n)
      OBVIOUS
    <2>1. d \in DirInodes /\ \E k \in 1 .. Len(itab[d].blks), s \in Slots :
             Rec(d, k, s) = [ino |-> Target(d, n), name |-> n] /\ Target(d, n) \in Inodes
      BY <1>1, TargetFacts
    <2>2. PICK k \in 1 .. Len(itab[d].blks), s \in Slots :
             Rec(d, k, s).ino = Target(d, n) /\ Rec(d, k, s).name = n /\ Target(d, n) # 0
      BY <2>1, RootFacts
    <2>3. Live(d, k, s) BY <2>2 DEF Live
    <2>4. d \in DirInodes' /\ k \in 1 .. Len(itab'[d].blks) /\ Live(d, k, s)' /\ Rec(d, k, s)' = Rec(d, k, s)
      BY <1>1, <2>1, <2>2, <2>3, KeepsStep DEF Keeps
    <2> QED BY <1>1, <2>2, <2>4, EntryIsNext
  <1> QED BY <1>1, IInvCorrect, PTL DEF Spec, NamesSurvive


==============================================================================
