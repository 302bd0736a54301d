------------------------ MODULE Ext2Count_proofs ------------------------
(***************************************************************************)
(* Proofs that, until something crashes, the EXT2 engine loses track of    *)
(* nothing: CountersExact, OnlyFailuresLeak and LinkCountsExact are        *)
(* invariants of Spec.  Two predicates of Ext2Inv are the inductive        *)
(* strengthenings.  CountInv relates the counters in memory to the bitmap  *)
(* as the handler knows it, and everything that is marked used to its      *)
(* owner, at every step of a handler.  LinkInv relates i_links_count to    *)
(* the directory records that lead to an inode.                            *)
(***************************************************************************)
EXTENDS Ext2_proofs, FunctionTheorems

------------------------------------------------------------------------------
(* Counting                                                                  *)

\* Taking one free element, giving it back, and giving back a set.
LEMMA CardTake ==
    ASSUME NEW S, IsFiniteSet(S), NEW B, NEW b \in S \ B
    PROVE  /\ Cardinality(S \ (B \union {b})) = Cardinality(S \ B) - 1
           /\ Cardinality(S \ B) \in Nat \ {0}
  <1>1. IsFiniteSet(S \ B) BY FS_Difference
  <1>2. Cardinality((S \ B) \ {b}) = Cardinality(S \ B) - 1
    BY <1>1, FS_RemoveElement
  <1>3. S \ (B \union {b}) = (S \ B) \ {b} OBVIOUS
  <1>4. Cardinality(S \ B) \in Nat /\ (Cardinality(S \ B) = 0 <=> S \ B = {})
    BY <1>1, FS_CardinalityType, FS_EmptySet
  <1> QED BY <1>2, <1>3, <1>4

LEMMA CardGive ==
    ASSUME NEW S, IsFiniteSet(S), NEW B, NEW F \in SUBSET B
    PROVE  Cardinality(S \ (B \ F)) = Cardinality(S \ B) + Cardinality(F \intersect S)
  <1>1. IsFiniteSet(S \ B) BY FS_Difference
  <1>2. IsFiniteSet(F \intersect S) BY FS_Subset
  <1>3. (S \ B) \intersect (F \intersect S) = {} OBVIOUS
  <1>4. Cardinality((S \ B) \union (F \intersect S)) =
          Cardinality(S \ B) + Cardinality(F \intersect S) - Cardinality({})
    BY <1>1, <1>2, <1>3, FS_Union
  <1>5. S \ (B \ F) = (S \ B) \union (F \intersect S) OBVIOUS
  <1>6. Cardinality(S \ B) \in Nat /\ Cardinality(F \intersect S) \in Nat /\ Cardinality({}) = 0
    BY <1>1, <1>2, FS_CardinalityType, FS_EmptySet
  <1>7. Cardinality(S \ (B \ F)) = Cardinality((S \ B) \union (F \intersect S))
    BY <1>5, Zenon
  <1> QED BY <1>4, <1>6, <1>7

\* The groups of an image are finite sets.
LEMMA GroupsFinite ==
    /\ \A g : IsFiniteSet(GroupBlocks(g)) /\ GroupBlocks(g) \subseteq Blocks
    /\ \A g : IsFiniteSet(GroupInodes(g)) /\ GroupInodes(g) \subseteq Inodes
    /\ \A b \in Blocks : \A g : b \in GroupBlocks(g) <=> BlockGroup(b) = g
    /\ \A i \in Inodes : \A g : i \in GroupInodes(g) <=> InodeGroup(i) = g
  <1>1. \A g : GroupBlocks(g) \subseteq Blocks /\ GroupInodes(g) \subseteq Inodes
    BY DEF GroupBlocks, GroupInodes
  <1>2. \A g : IsFiniteSet(GroupBlocks(g)) /\ IsFiniteSet(GroupInodes(g))
    BY <1>1, BlocksFinite, FS_Subset
  <1> QED BY <1>1, <1>2 DEF GroupBlocks, GroupInodes

\* The counters of the other kind stay as they are.
LEMMA CounterFields ==
    ASSUME NEW c \in Counters
    PROVE  /\ \A b \in Blocks : LET t == TakeBlock(c, b) IN
                t.sbI = c.sbI /\ t.gI = c.gI /\ t.gD = c.gD
           /\ \A i \in Inodes : LET t == TakeInode(c, i) IN
                t.sbB = c.sbB /\ t.gB = c.gB /\ t.gD = c.gD
           /\ \A i \in Inodes : LET t == GiveInode(c, i) IN
                t.sbB = c.sbB /\ t.gB = c.gB /\ t.gD = c.gD
           /\ \A S \in SUBSET Blocks : LET t == GiveBlocks(c, S) IN
                t.sbI = c.sbI /\ t.gI = c.gI /\ t.gD = c.gD
           /\ \A g \in Groups : LET t == [c EXCEPT !.gD[g] = @ + 1] IN
                /\ t.sbB = c.sbB /\ t.gB = c.gB /\ t.sbI = c.sbI /\ t.gI = c.gI
                /\ t.gD = [c.gD EXCEPT ![g] = @ + 1]
  BY DEF Counters, TakeBlock, TakeInode, GiveInode, GiveBlocks

LEMMA CountTakeBlock ==
    ASSUME NEW c \in Counters, NEW B, NEW b \in Blocks \ B, CountBlocks(c, B)
    PROVE  CountBlocks(TakeBlock(c, b), B \union {b})
  <1> DEFINE t == TakeBlock(c, b)
  <1>0. BlockGroup(b) \in Groups BY BlockGroupType
  <1>1. t.sbB = Dec(c.sbB) /\ t.gB = [c.gB EXCEPT ![BlockGroup(b)] = Dec(@)]
    BY DEF Counters, TakeBlock
  <1>2. c.gB \in [Groups -> Nat] BY DEF Counters
  <1>3. t.sbB = Cardinality(Blocks \ (B \union {b}))
    BY <1>1, CardTake, BlocksFinite DEF CountBlocks, Dec
  <1>4. ASSUME NEW g \in Groups PROVE t.gB[g] = Cardinality(GroupBlocks(g) \ (B \union {b}))
    <2>1. CASE BlockGroup(b) = g
      <3>1. b \in GroupBlocks(g) \ B BY <2>1, GroupsFinite
      <3>2. t.gB[g] = Dec(c.gB[g]) BY <1>1, <1>2, <2>1
      <3>3. /\ Cardinality(GroupBlocks(g) \ (B \union {b})) = Cardinality(GroupBlocks(g) \ B) - 1
            /\ Cardinality(GroupBlocks(g) \ B) \in Nat \ {0}
        BY <3>1, CardTake, GroupsFinite
      <3> QED BY <3>2, <3>3 DEF CountBlocks, Dec
    <2>2. CASE BlockGroup(b) # g
      <3>1. GroupBlocks(g) \ (B \union {b}) = GroupBlocks(g) \ B BY <2>2, GroupsFinite
      <3> QED BY <1>1, <1>2, <2>2, <3>1 DEF CountBlocks
    <2> QED BY <2>1, <2>2
  <1> QED BY <1>3, <1>4 DEF CountBlocks

LEMMA CountTakeInode ==
    ASSUME NEW c \in Counters, NEW I, NEW i \in Inodes \ I, CountInodes(c, I)
    PROVE  CountInodes(TakeInode(c, i), I \union {i})
  <1> DEFINE t == TakeInode(c, i)
  <1>0. InodeGroup(i) \in Groups BY InodeGroupType
  <1>1. t.sbI = Dec(c.sbI) /\ t.gI = [c.gI EXCEPT ![InodeGroup(i)] = Dec(@)]
    BY DEF Counters, TakeInode
  <1>2. c.gI \in [Groups -> Nat] BY DEF Counters
  <1>3. t.sbI = Cardinality(Inodes \ (I \union {i}))
    BY <1>1, CardTake, BlocksFinite DEF CountInodes, Dec
  <1>4. ASSUME NEW g \in Groups PROVE t.gI[g] = Cardinality(GroupInodes(g) \ (I \union {i}))
    <2>1. CASE InodeGroup(i) = g
      <3>1. i \in GroupInodes(g) \ I BY <2>1, GroupsFinite
      <3>2. t.gI[g] = Dec(c.gI[g]) BY <1>1, <1>2, <2>1
      <3>3. /\ Cardinality(GroupInodes(g) \ (I \union {i})) = Cardinality(GroupInodes(g) \ I) - 1
            /\ Cardinality(GroupInodes(g) \ I) \in Nat \ {0}
        BY <3>1, CardTake, GroupsFinite
      <3> QED BY <3>2, <3>3 DEF CountInodes, Dec
    <2>2. CASE InodeGroup(i) # g
      <3>1. GroupInodes(g) \ (I \union {i}) = GroupInodes(g) \ I BY <2>2, GroupsFinite
      <3> QED BY <1>1, <1>2, <2>2, <3>1 DEF CountInodes
    <2> QED BY <2>1, <2>2
  <1> QED BY <1>3, <1>4 DEF CountInodes

LEMMA CountGiveInode ==
    ASSUME NEW c \in Counters, NEW I, NEW i \in Inodes, i \in I, CountInodes(c, I)
    PROVE  CountInodes(GiveInode(c, i), I \ {i})
  <1> DEFINE t == GiveInode(c, i)
  <1>0. InodeGroup(i) \in Groups BY InodeGroupType
  <1>1. t.sbI = c.sbI + 1 /\ t.gI = [c.gI EXCEPT ![InodeGroup(i)] = @ + 1]
    BY DEF Counters, GiveInode
  <1>2. c.gI \in [Groups -> Nat] BY DEF Counters
  <1>s. ASSUME NEW S, i \in S PROVE Cardinality({i} \intersect S) = 1
    <2>1. {i} \intersect S = {i} BY <1>s
    <2> QED BY <2>1, FS_Singleton
  <1>3. t.sbI = Cardinality(Inodes \ (I \ {i}))
    <2>1. Cardinality(Inodes \ (I \ {i})) = Cardinality(Inodes \ I) + Cardinality({i} \intersect Inodes)
      BY CardGive, BlocksFinite
    <2> QED BY <1>1, <1>s, <2>1 DEF CountInodes
  <1>4. ASSUME NEW g \in Groups PROVE t.gI[g] = Cardinality(GroupInodes(g) \ (I \ {i}))
    <2>1. CASE InodeGroup(i) = g
      <3>1. i \in GroupInodes(g) BY <2>1, GroupsFinite
      <3>2. t.gI[g] = c.gI[g] + 1 BY <1>1, <1>2, <2>1
      <3>3. Cardinality(GroupInodes(g) \ (I \ {i})) =
              Cardinality(GroupInodes(g) \ I) + Cardinality({i} \intersect GroupInodes(g))
        BY CardGive, GroupsFinite
      <3> QED BY <3>1, <3>2, <3>3, <1>s DEF CountInodes
    <2>2. CASE InodeGroup(i) # g
      <3>1. GroupInodes(g) \ (I \ {i}) = GroupInodes(g) \ I BY <2>2, GroupsFinite
      <3> QED BY <1>1, <1>2, <2>2, <3>1 DEF CountInodes
    <2> QED BY <2>1, <2>2
  <1> QED BY <1>3, <1>4 DEF CountInodes

LEMMA CountGiveBlocks ==
    ASSUME NEW c \in Counters, NEW B \in SUBSET Blocks, NEW F \in SUBSET B, CountBlocks(c, B)
    PROVE  CountBlocks(GiveBlocks(c, F), B \ F)
  <1> DEFINE t == GiveBlocks(c, F)
  <1>1. /\ t.sbB = c.sbB + Cardinality(F)
        /\ t.gB = [g \in Groups |-> c.gB[g] + Cardinality(F \intersect GroupBlocks(g))]
    BY DEF Counters, GiveBlocks
  <1>2. F \intersect Blocks = F OBVIOUS
  <1>3. t.sbB = Cardinality(Blocks \ (B \ F))
    <2>1. Cardinality(Blocks \ (B \ F)) = Cardinality(Blocks \ B) + Cardinality(F \intersect Blocks)
      BY CardGive, BlocksFinite
    <2> QED BY <1>1, <1>2, <2>1 DEF CountBlocks
  <1>4. ASSUME NEW g \in Groups PROVE t.gB[g] = Cardinality(GroupBlocks(g) \ (B \ F))
    <2>1. t.gB[g] = c.gB[g] + Cardinality(F \intersect GroupBlocks(g)) BY <1>1
    <2>2. Cardinality(GroupBlocks(g) \ (B \ F)) =
            Cardinality(GroupBlocks(g) \ B) + Cardinality(F \intersect GroupBlocks(g))
      BY CardGive, GroupsFinite
    <2> QED BY <2>1, <2>2 DEF CountBlocks
  <1> QED BY <1>3, <1>4 DEF CountBlocks

\* Two sets of counters with the same fields count the same.
LEMMA SameCounts ==
    ASSUME NEW c, NEW d
    PROVE  /\ c.sbB = d.sbB /\ c.gB = d.gB => \A B : CountBlocks(c, B) <=> CountBlocks(d, B)
           /\ c.sbI = d.sbI /\ c.gI = d.gI => \A I : CountInodes(c, I) <=> CountInodes(d, I)
  BY DEF CountBlocks, CountInodes

------------------------------------------------------------------------------
(* The counters, step by step                                                *)

\* Steps that write no bitmap and no counter to disk.
LEMMA CountedQuiet ==
    ASSUME Counted, UNCHANGED <<bbm, ibm, cnt>>, op'.pc # "free_commit",
           \/ /\ MemBitmap' = MemBitmap
              /\ m'.sbB = m.sbB /\ m'.gB = m.gB /\ m'.sbI = m.sbI /\ m'.gI = m.gI
              /\ op'.pc \notin BlockMetaPcs => op.pc \notin BlockMetaPcs
              /\ op'.pc \notin InodeMetaPcs => op.pc \notin InodeMetaPcs
           \/ /\ MemBitmap' = bbm /\ m' = cnt
              /\ op.pc \notin BlockMetaPcs \union InodeMetaPcs
    PROVE  Counted'
  BY SameCounts DEF Counted, MemCounted, DiskCounted, CommitKnown

\* A handler that gives up forgets the counters it changed.
LEMMA CountedFails ==
    ASSUME Counted, FailClean \/ FailAndLeak, op.pc \notin BlockMetaPcs \union InodeMetaPcs
    PROVE  Counted'
  <1>1. Idle.pc = "idle" BY DEF Idle
  <1> QED BY <1>1, CountedQuiet DEF FailClean, FailAndLeak, Return, disk, MemBitmap

\* A handler that starts, with no block in hand.
LEMMA BeginFacts ==
    ASSUME Start
    PROVE  /\ op.pc = "idle" /\ m' = cnt /\ UNCHANGED <<bbm, ibm, cnt, itab, dblk, crashed, lost>>
           /\ \/ op'.kind \in Making /\ op'.pc = "alloc_inode"
              \/ op'.kind = "unlink" /\ op'.pc = "remove"
              \/ op'.kind = "truncate" /\ op'.pc = "release"
              \/ /\ op'.kind = "rewrite" /\ op'.pc \in {"release", "alloc_data"} /\ op'.blks = << >>
                 /\ \E d \in LinkedDirs, n \in Names :
                       /\ HasEntry(d, n) /\ op'.ino = Target(d, n)
                       /\ itab[op'.ino].mode \in RewriteModes
                       /\ op'.pc = "alloc_data" => Elems(itab[op'.ino].blks) \subseteq {0}
  <1>i. Idle \in OpRec /\ Idle.blks = << >> BY IdleType DEF Idle
  <1> PICK d \in Linked, n \in Names :
           \/ \E size \in FileSizes : Create(d, n, size)
           \/ Mkdir(d, n)
           \/ \E x \in NodeNumbers : Mknod(d, n, x)
           \/ \E x \in NodeNumbers : Symlink(d, n, x)
           \/ Unlink(d, n)
           \/ Truncate(d, n)
           \/ \E size \in FileSizes : WriteExisting(d, n, size)
    BY DEF Start
  <1>0. op.pc = "idle" /\ m' = cnt /\ UNCHANGED <<bbm, ibm, cnt, itab, dblk, crashed, lost>>
    BY DEF Create, Mkdir, Mknod, Symlink, Unlink, Truncate, WriteExisting, Begin, At, disk
  <1>1. CASE \E size \in FileSizes : Create(d, n, size)
    <2>1. op'.kind = "create" /\ op'.pc = "alloc_inode" BY <1>1, <1>i DEF Create, Begin, OpRec
    <2> QED BY <1>0, <2>1 DEF Making
  <1>2. CASE Mkdir(d, n)
    <2>1. op'.kind = "mkdir" /\ op'.pc = "alloc_inode" BY <1>2, <1>i DEF Mkdir, Begin, OpRec
    <2> QED BY <1>0, <2>1 DEF Making
  <1>3. CASE \E x \in NodeNumbers : Mknod(d, n, x)
    <2>1. op'.kind = "mknod" /\ op'.pc = "alloc_inode" BY <1>3, <1>i DEF Mknod, Begin, OpRec
    <2> QED BY <1>0, <2>1 DEF Making
  <1>4. CASE \E x \in NodeNumbers : Symlink(d, n, x)
    <2>1. op'.kind = "symlink" /\ op'.pc = "alloc_inode" BY <1>4, <1>i DEF Symlink, Begin, OpRec
    <2> QED BY <1>0, <2>1 DEF Making
  <1>5. CASE Unlink(d, n)
    <2>1. op'.kind = "unlink" /\ op'.pc = "remove" BY <1>5, <1>i DEF Unlink, Begin, OpRec
    <2> QED BY <1>0, <2>1
  <1>6. CASE Truncate(d, n)
    <2>1. op'.kind = "truncate" /\ op'.pc = "release" BY <1>6, <1>i DEF Truncate, Begin, OpRec
    <2> QED BY <1>0, <2>1
  <1>7. CASE \E size \in FileSizes : WriteExisting(d, n, size)
    <2>1. /\ d \in LinkedDirs /\ HasEntry(d, n) /\ itab[Target(d, n)].mode \in RewriteModes
          /\ op'.kind = "rewrite" /\ op'.blks = << >> /\ op'.ino = Target(d, n)
          /\ op'.pc = IF Elems(itab[Target(d, n)].blks) \subseteq {0} THEN "alloc_data" ELSE "release"
      BY <1>7, <1>i DEF WriteExisting, Begin, OpRec
    <2> QED BY <1>0, <2>1
  <1> QED BY <1>1, <1>2, <1>3, <1>4, <1>5, <1>6, <1>7

LEMMA CountedStart == ASSUME Counted, Start PROVE Counted'
  <1>1. MemBitmap' = bbm
    BY BeginFacts, ElemsFacts DEF MemBitmap
  <1> QED BY <1>1, BeginFacts, CountedQuiet DEF BlockMetaPcs, InodeMetaPcs


\* When the commit is done, the bitmap on disk is the one in the context; the
\* handler goes on with no other.
LEMMA StoreMetaBitmap ==
    ASSUME TypeInv, IInv, CommitKnown, StoreMeta
    PROVE  /\ MemBitmap = bbm /\ MemBitmap' = bbm
           /\ op'.pc \notin BlockMetaPcs \union InodeMetaPcs
           /\ cnt' = m /\ UNCHANGED <<bbm, ibm, itab, dblk, m, crashed, lost>>
  <1>0. /\ op.pc \in {"inode_meta", "block_meta", "alloc_commit", "grow_meta", "free_commit",
                      "dirs_meta", "free_meta"}
        /\ op.dirty = {} /\ cnt' = m /\ UNCHANGED <<bbm, ibm, itab, dblk, m, crashed, lost>>
    BY DEF StoreMeta, AfterMeta
  <1>t. op \in OpRec /\ op.bm \subseteq Blocks BY DEF TypeInv, TypeOK, OpRec
  <1>1. CASE op.pc = "alloc_commit"
    <2>1. op.bm = bbm \union Elems(op.blks) /\ Elems(op.blks) \subseteq bbm
      BY <1>0, <1>1 DEF IInv, OpInv, OpBlocks
    <2>2. op'.pc = "write_inode"
      BY <1>1, <1>t, GotoFacts DEF StoreMeta, AfterMeta, Pcs
    <2> QED BY <1>0, <1>1, <2>1, <2>2 DEF MemBitmap, BlockMetaPcs, InodeMetaPcs
  <1>2. CASE op.pc = "free_commit"
    <2>1. op.kind \in Removing BY <1>2 DEF TypeInv, OpPath
    <2>2. op.bm \subseteq bbm /\ bbm \subseteq op.bm
      BY <1>0, <1>2, <2>1 DEF IInv, OpInv, OpBitmap, CommitKnown
    <2>3. op'.pc = "clear_inode"
      BY <1>2, <1>t, GotoFacts DEF StoreMeta, AfterMeta, Pcs
    <2> QED BY <1>0, <1>2, <2>2, <2>3 DEF MemBitmap, BlockMetaPcs, InodeMetaPcs
  <1>3. CASE op.pc = "inode_meta"
    <2>1. op.kind \in Making BY <1>3 DEF TypeInv, OpPath
    <2>2. op.kind = "create" => op.blks = << >> BY <1>3 DEF IInv, OpInv, OpBlocks, FreshPcs
    <2>3. op'.pc = IF op.kind = "create" THEN "alloc_data"
                   ELSE IF op.kind = "mkdir" THEN "alloc_block" ELSE "write_inode"
      BY <1>3, <1>t, GotoFacts DEF StoreMeta, AfterMeta, Pcs
    <2>4. op'.blks = op.blks
      BY <1>3, <1>t, GotoFacts DEF StoreMeta, AfterMeta, Pcs
    <2> QED BY <1>0, <1>3, <2>2, <2>3, <2>4, ElemsFacts DEF MemBitmap, BlockMetaPcs, InodeMetaPcs
  <1>4. CASE op.pc \in {"block_meta", "grow_meta", "dirs_meta", "free_meta"}
    <2>1. Idle.pc = "idle" BY DEF Idle
    <2>2. op'.pc \in {"write_inode", "grow_block", "idle"}
      BY <1>4, <1>t, <2>1, GotoFacts DEF StoreMeta, AfterMeta, Pcs, Return
    <2> QED BY <1>0, <1>4, <2>2 DEF MemBitmap, BlockMetaPcs, InodeMetaPcs
  <1> QED BY <1>0, <1>1, <1>2, <1>3, <1>4

LEMMA CountedStep == ASSUME TypeInv, TypeInv', IInv, Counted, Step PROVE Counted'
  <1> USE DEF At, disk
  <1>t. /\ op \in OpRec /\ m \in Counters /\ bbm \subseteq Blocks /\ op.bm \subseteq Blocks
        /\ op.ino \in {0} \union Inodes /\ op.blks \in Seq(Nat)
    BY DEF TypeInv, TypeOK, OpRec
  <1>c. /\ CountBlocks(m, MemBitmap) /\ CountInodes(m, ibm)
    BY DEF Counted, MemCounted
  <1>1. CASE AllocInode
    <2> DEFINE i == Least(FreeInodes)
    <2>1. i \in Inodes \ ibm BY <1>1, ChoiceTypes DEF AllocInode
    <2>2. ibm' = ibm \union {i} /\ m' = TakeInode(m, i) /\ UNCHANGED <<bbm, cnt>>
          /\ op.pc = "alloc_inode"
      BY <1>1 DEF AllocInode
    <2>3. op'.pc = "inode_meta" BY <1>1, <1>t DEF AllocInode, OpRec
    <2> HIDE DEF i
    <2>4. CountInodes(m', ibm') BY <1>t, <1>c, <2>1, <2>2, CountTakeInode
    <2>5. MemBitmap' = bbm /\ MemBitmap = bbm BY <2>2, <2>3 DEF MemBitmap
    <2>6. CountBlocks(m', bbm) BY <1>t, <1>c, <2>1, <2>2, <2>5, CounterFields, SameCounts
    <2>7. CountBlocks(cnt, bbm) BY <2>2 DEF Counted, DiskCounted, BlockMetaPcs
    <2> QED BY <2>2, <2>3, <2>4, <2>5, <2>6, <2>7
            DEF Counted, MemCounted, DiskCounted, CommitKnown, InodeMetaPcs
  <1>2. CASE AllocInodeFails
    BY <1>2, CountedFails DEF AllocInodeFails, BlockMetaPcs, InodeMetaPcs
  <1>3. CASE StoreMeta
    <2>1. CommitKnown BY DEF Counted
    <2> QED BY <1>3, <1>c, <2>1, StoreMetaBitmap
            DEF Counted, MemCounted, DiskCounted, CommitKnown, BlockMetaPcs
  <1>4. CASE AllocBlock
    <2> DEFINE b == Least(FreeBlocks(bbm))
    <2>1. b \in Blocks \ bbm BY <1>4, ChoiceTypes DEF AllocBlock
    <2>2. bbm' = bbm \union {b} /\ m' = TakeBlock(m, b) /\ UNCHANGED <<ibm, cnt>>
          /\ op.pc = "alloc_block"
      BY <1>4 DEF AllocBlock
    <2>3. op'.pc = "block_meta" BY <1>4, <1>t DEF AllocBlock, OpRec
    <2> HIDE DEF b
    <2>4. MemBitmap' = bbm' /\ MemBitmap = bbm BY <2>2, <2>3 DEF MemBitmap
    <2>5. CountBlocks(m', bbm') BY <1>t, <1>c, <2>1, <2>2, <2>4, CountTakeBlock
    <2>6. CountInodes(m', ibm) BY <1>t, <1>c, <2>1, <2>2, CounterFields, SameCounts
    <2>7. CountInodes(cnt, ibm) BY <2>2 DEF Counted, DiskCounted, InodeMetaPcs
    <2> QED BY <2>2, <2>3, <2>4, <2>5, <2>6, <2>7
            DEF Counted, MemCounted, DiskCounted, CommitKnown, BlockMetaPcs
  <1>5. CASE AllocBlockFails
    BY <1>5, CountedFails DEF AllocBlockFails, BlockMetaPcs, InodeMetaPcs
  <1>6. CASE AllocBlockCtx
    <2> DEFINE b == Least(FreeBlocks(CtxBitmap))
    <2>1. b \in Blocks \ CtxBitmap BY <1>6, ChoiceTypes DEF AllocBlockCtx
    <2>2. UNCHANGED <<bbm, ibm, cnt>> /\ m' = TakeBlock(m, b) /\ op.pc = "alloc_data"
          /\ op' = [op EXCEPT !.blks = Append(@, b)]
      BY <1>6 DEF AllocBlockCtx
    <2> HIDE DEF b
    <2>3. op'.pc = "alloc_data" /\ op'.blks = Append(op.blks, b) BY <1>t, <2>2 DEF OpRec
    <2>4. b \in Nat BY <2>1, BlocksFinite
    <2>5. Elems(op'.blks) = Elems(op.blks) \union {b} BY <1>t, <2>3, <2>4, ElemsFacts
    <2>6. MemBitmap = CtxBitmap /\ MemBitmap' = CtxBitmap \union {b}
      BY <2>2, <2>3, <2>5 DEF MemBitmap, CtxBitmap
    <2>7. CountBlocks(m', MemBitmap') BY <1>t, <1>c, <2>1, <2>2, <2>6, CountTakeBlock
    <2>8. CountInodes(m', ibm) BY <1>t, <1>c, <2>1, <2>2, CounterFields, SameCounts
    <2> QED BY <2>2, <2>3, <2>7, <2>8
            DEF Counted, MemCounted, DiskCounted, CommitKnown, BlockMetaPcs, InodeMetaPcs
  <1>7. CASE AllocDataFails
    BY <1>7, CountedFails DEF AllocDataFails, BlockMetaPcs, InodeMetaPcs
  <1>8. CASE WriteData
    <2>1. op.pc = "alloc_data" /\ UNCHANGED <<bbm, ibm, cnt, m>> BY <1>8 DEF WriteData
    <2>2. op'.pc = "alloc_commit" /\ op'.bm = CtxBitmap BY <1>8, <1>t DEF WriteData, OpRec
    <2>3. MemBitmap' = MemBitmap BY <2>1, <2>2 DEF MemBitmap, CtxBitmap
    <2> QED BY <2>1, <2>2, <2>3, CountedQuiet DEF BlockMetaPcs, InodeMetaPcs
  <1>9. CASE WriteBitmap
    <2> DEFINE g == Least(op.dirty)
    <2>1. /\ op.pc \in {"alloc_commit", "free_commit"} /\ UNCHANGED <<ibm, cnt, m>>
          /\ bbm' = (bbm \ GroupBlocks(g)) \union (op.bm \intersect GroupBlocks(g))
          /\ op' = [op EXCEPT !.dirty = @ \ {g}]
      BY <1>9 DEF WriteBitmap
    <2> HIDE DEF g
    <2>2. op'.pc = op.pc /\ op'.bm = op.bm /\ op'.dirty = op.dirty \ {g} BY <1>t, <2>1 DEF OpRec
    <2>3. MemBitmap' = MemBitmap BY <2>1, <2>2 DEF MemBitmap
    <2>4. CommitKnown'
      <3> SUFFICES ASSUME op.pc = "free_commit", NEW b \in bbm' \ op.bm
                   PROVE  BlockGroup(b) \in op.dirty \ {g}
        BY <2>2 DEF CommitKnown
      <3>1. b \in bbm /\ b \notin GroupBlocks(g) BY <2>1
      <3>2. BlockGroup(b) \in op.dirty BY <3>1 DEF Counted, CommitKnown
      <3> QED BY <1>t, <3>1, <3>2, GroupsFinite
    <2> QED BY <1>c, <2>1, <2>2, <2>3, <2>4
            DEF Counted, MemCounted, DiskCounted, BlockMetaPcs, InodeMetaPcs
  <1>10. CASE WriteInode
    <2>0. Idle.pc = "idle" BY DEF Idle
    <2>1. op.pc = "write_inode" /\ UNCHANGED <<bbm, ibm, cnt, m>> BY <1>10 DEF WriteInode
    <2>2. op'.pc \in {"idle", "write_dirblk", "append"}
      BY <1>10, <1>t, <2>0, GotoFacts DEF WriteInode, Return, Pcs
    <2> QED BY <2>1, <2>2, CountedQuiet DEF BlockMetaPcs, InodeMetaPcs, MemBitmap
  <1>11. CASE WriteDirBlock
    <2>1. op.pc = "write_dirblk" /\ UNCHANGED <<bbm, ibm, cnt, m>> BY <1>11 DEF WriteDirBlock
    <2>2. op'.pc = "append" BY <1>11, <1>t, GotoFacts DEF WriteDirBlock, Pcs
    <2> QED BY <2>1, <2>2, CountedQuiet DEF BlockMetaPcs, InodeMetaPcs, MemBitmap
  <1>12. CASE AppendDirent \/ LinkGrownBlock
    <2>0. Idle.pc = "idle" BY DEF Idle
    <2>1. op.pc \in {"append", "grow_inode"} /\ UNCHANGED <<bbm, ibm, cnt, m>>
      BY <1>12 DEF AppendDirent, LinkGrownBlock
    <2>2. op'.pc \in {"idle", "link_parent"}
      BY <1>12, <1>t, <2>0, GotoFacts DEF AppendDirent, LinkGrownBlock, AfterAppend, Return, Pcs
    <2> QED BY <2>1, <2>2, CountedQuiet DEF BlockMetaPcs, InodeMetaPcs, MemBitmap
  <1>13. CASE GrowDir
    <2> DEFINE b == Least(FreeBlocks(bbm))
    <2>1. b \in Blocks \ bbm BY <1>13, ChoiceTypes DEF GrowDir, CanGrow
    <2>2. bbm' = bbm \union {b} /\ m' = TakeBlock(m, b) /\ UNCHANGED <<ibm, cnt>>
          /\ op.pc = "append"
      BY <1>13 DEF GrowDir
    <2>3. op'.pc = "grow_meta" BY <1>13, <1>t DEF GrowDir, OpRec
    <2> HIDE DEF b
    <2>4. MemBitmap' = bbm' /\ MemBitmap = bbm BY <2>2, <2>3 DEF MemBitmap
    <2>5. CountBlocks(m', bbm') BY <1>t, <1>c, <2>1, <2>2, <2>4, CountTakeBlock
    <2>6. CountInodes(m', ibm) BY <1>t, <1>c, <2>1, <2>2, CounterFields, SameCounts
    <2>7. CountInodes(cnt, ibm) BY <2>2 DEF Counted, DiskCounted, InodeMetaPcs
    <2> QED BY <2>2, <2>3, <2>4, <2>5, <2>6, <2>7
            DEF Counted, MemCounted, DiskCounted, CommitKnown, BlockMetaPcs
  <1>14. CASE WriteGrownBlock
    <2>1. op.pc = "grow_block" /\ UNCHANGED <<bbm, ibm, cnt, m>> BY <1>14 DEF WriteGrownBlock
    <2>2. op'.pc = "grow_inode" BY <1>14, <1>t, GotoFacts DEF WriteGrownBlock, Pcs
    <2> QED BY <2>1, <2>2, CountedQuiet DEF BlockMetaPcs, InodeMetaPcs, MemBitmap
  <1>15. CASE AppendFails
    <2>1. CASE op.kind = "mknod"
      <3>1. op.pc = "append" /\ UNCHANGED <<bbm, ibm, cnt, m>> BY <1>15, <2>1 DEF AppendFails
      <3>2. op'.pc = "free_inode" BY <1>15, <2>1, <1>t, GotoFacts DEF AppendFails, Pcs
      <3> QED BY <3>1, <3>2, CountedQuiet DEF BlockMetaPcs, InodeMetaPcs, MemBitmap
    <2>2. CASE op.kind # "mknod"
      BY <1>15, <2>2, CountedFails DEF AppendFails, BlockMetaPcs, InodeMetaPcs
    <2> QED BY <2>1, <2>2
  <1>16. CASE LinkParent
    <2>1. op.pc = "link_parent" /\ UNCHANGED <<bbm, ibm, cnt>>
          /\ m' = [m EXCEPT !.gD[InodeGroup(op.ino)] = @ + 1]
      BY <1>16 DEF LinkParent
    <2>2. op'.pc = "dirs_meta" BY <1>16, <1>t, GotoFacts DEF LinkParent, Pcs
    <2>3. m'.sbB = m.sbB /\ m'.gB = m.gB /\ m'.sbI = m.sbI /\ m'.gI = m.gI
      BY <1>t, <2>1 DEF Counters
    <2> QED BY <2>1, <2>2, <2>3, CountedQuiet DEF BlockMetaPcs, InodeMetaPcs, MemBitmap
  <1>17. CASE RemoveDirent
    <2>1. op.pc = "remove" /\ UNCHANGED <<bbm, ibm, cnt, m>> BY <1>17 DEF RemoveDirent
    <2>2. op'.pc = "release" BY <1>17, <1>t, GotoFacts DEF RemoveDirent, Pcs
    <2> QED BY <2>1, <2>2, CountedQuiet DEF BlockMetaPcs, InodeMetaPcs, MemBitmap
  <1>18. CASE ReleaseBlocks
    <2> DEFINE F == Freed \intersect bbm
    <2>1. /\ op.pc = "release" /\ UNCHANGED <<bbm, ibm, cnt>> /\ m' = GiveBlocks(m, F)
          /\ op' = [op EXCEPT !.pc = "free_commit", !.bm = bbm \ Freed,
                              !.dirty = {BlockGroup(b) : b \in F}]
      BY <1>18 DEF ReleaseBlocks
    <2>2. op'.pc = "free_commit" /\ op'.bm = bbm \ F /\ op'.dirty = {BlockGroup(b) : b \in F}
      BY <1>t, <2>1 DEF OpRec
    <2>3. F \subseteq bbm /\ F \subseteq Blocks BY <1>t
    <2> HIDE DEF F
    <2>4. MemBitmap = bbm /\ MemBitmap' = bbm \ F BY <2>1, <2>2 DEF MemBitmap
    <2>5. CountBlocks(m', bbm \ F) BY <1>t, <1>c, <2>1, <2>3, <2>4, CountGiveBlocks
    <2>6. CountInodes(m', ibm) BY <1>t, <1>c, <2>1, <2>3, CounterFields, SameCounts
    <2>7. CommitKnown' BY <2>1, <2>2, <2>3 DEF CommitKnown
    <2> QED BY <2>1, <2>2, <2>4, <2>5, <2>6, <2>7
            DEF Counted, MemCounted, DiskCounted, BlockMetaPcs, InodeMetaPcs
  <1>19. CASE ReleaseFails
    BY <1>19, CountedFails DEF ReleaseFails, BlockMetaPcs, InodeMetaPcs
  <1>20. CASE ClearInode
    <2>0. Idle.pc = "idle" BY DEF Idle
    <2>1. op.pc = "clear_inode" /\ UNCHANGED <<bbm, ibm, cnt, m>> BY <1>20 DEF ClearInode
    <2>2. op.kind \in Removing BY <2>1 DEF TypeInv, OpPath
    <2>3. /\ op.kind = "unlink" => op'.pc = "free_inode"
          /\ op.kind = "rewrite" => op'.pc = "alloc_data" /\ op'.blks = op.blks
          /\ op.kind = "truncate" => op'.pc = "idle"
      BY <1>20, <1>t, <2>0, GotoFacts DEF ClearInode, Return, Pcs
    <2>4. op.kind = "rewrite" => Elems(op.blks) = {}
      BY <2>1, ElemsFacts DEF IInv, OpInv, OpBlocks, FreshPcs
    <2>5. MemBitmap = bbm /\ MemBitmap' = bbm BY <2>1, <2>2, <2>3, <2>4 DEF MemBitmap, Removing
    <2> QED BY <2>1, <2>2, <2>3, <2>5, CountedQuiet DEF BlockMetaPcs, InodeMetaPcs, Removing
  <1>21. CASE FreeInode
    <2>1. op.pc = "free_inode" /\ UNCHANGED <<bbm, cnt>> /\ ibm' = ibm \ {op.ino}
          /\ m' = IF op.ino \in ibm THEN GiveInode(m, op.ino) ELSE m
      BY <1>21 DEF FreeInode
    <2>2. op'.pc = "free_meta" BY <1>21, <1>t, GotoFacts DEF FreeInode, Pcs
    <2>3. MemBitmap = bbm /\ MemBitmap' = bbm BY <2>1, <2>2 DEF MemBitmap
    <2>4. CountInodes(m', ibm') /\ CountBlocks(m', bbm)
      <3>1. CASE op.ino \in ibm
        <4>1. op.ino \in Inodes BY <3>1 DEF TypeInv, TypeOK
        <4>2. CountInodes(m', ibm') BY <1>t, <1>c, <2>1, <3>1, <4>1, CountGiveInode
        <4>3. CountBlocks(m', bbm) BY <1>t, <1>c, <2>1, <2>3, <3>1, <4>1, CounterFields, SameCounts
        <4> QED BY <4>2, <4>3
      <3>2. CASE op.ino \notin ibm
        <4>1. ibm' = ibm /\ m' = m BY <2>1, <3>2
        <4> QED BY <1>c, <2>3, <4>1
      <3> QED BY <3>1, <3>2
    <2>5. CountBlocks(cnt, bbm) BY <2>1 DEF Counted, DiskCounted, BlockMetaPcs
    <2> QED BY <2>1, <2>2, <2>3, <2>4, <2>5
            DEF Counted, MemCounted, DiskCounted, CommitKnown, InodeMetaPcs
  <1> QED BY <1>1, <1>2, <1>3, <1>4, <1>5, <1>6, <1>7, <1>8, <1>9, <1>10, <1>11, <1>12, <1>13,
             <1>14, <1>15, <1>16, <1>17, <1>18, <1>19, <1>20, <1>21 DEF Step


------------------------------------------------------------------------------
(* bg_used_dirs_count                                                        *)

\* Steps that publish no directory and count none.
LEMMA DirsQuiet ==
    ASSUME DirsCounted, LinkedDirs' = LinkedDirs, UNCHANGED cnt,
           op.pc \notin {"link_parent", "dirs_meta"}, op'.pc \notin {"link_parent", "dirs_meta"},
           m'.gD = m.gD \/ m' = cnt
    PROVE  DirsCounted'
  <1>1. \A g \in Groups : Cardinality(LinkedDirs \intersect GroupInodes(g)) = m.gD[g] + 0
    BY DEF DirsCounted
  <1>2. m'.gD = m.gD BY DEF DirsCounted
  <1>3. cnt'.gD = m'.gD BY <1>2 DEF DirsCounted
  <1>4. \A g \in Groups : Cardinality(LinkedDirs' \intersect GroupInodes(g)) = m'.gD[g] + 0
    BY <1>1, <1>2
  <1> QED BY <1>3, <1>4 DEF DirsCounted

LEMMA DirsStart == ASSUME DirsCounted, Start PROVE DirsCounted'
  <1>1. LinkedDirs' = LinkedDirs BY BeginFacts, QuietView
  <1> QED BY <1>1, BeginFacts, DirsQuiet

LEMMA DirsFails ==
    ASSUME DirsCounted, FailClean \/ FailAndLeak, op.pc \notin {"link_parent", "dirs_meta"}
    PROVE  DirsCounted'
  <1>1. Idle.pc = "idle" BY DEF Idle
  <1>2. UNCHANGED <<cnt, itab, dblk>> /\ m' = cnt /\ op'.pc = "idle"
    BY <1>1 DEF FailClean, FailAndLeak, Return, disk
  <1>3. LinkedDirs' = LinkedDirs BY <1>2, QuietView
  <1> QED BY <1>2, <1>3, DirsQuiet

\* The record of a new directory is written: it is counted next.
LEMMA DirsAppend ==
    ASSUME TypeInv, TypeInv', IInv, DirsCounted, AppendDirent \/ LinkGrownBlock
    PROVE  DirsCounted'
  <1>t. op \in OpRec /\ m \in Counters BY DEF TypeInv, TypeOK
  <1>0. Idle.pc = "idle" BY DEF Idle
  <1>1. op.pc \in {"append", "grow_inode"} /\ UNCHANGED <<cnt, m>> /\ AfterAppend
    BY DEF AppendDirent, LinkGrownBlock, At
  <1>2. LinkedDirs' = LinkedDirs \union NewDir BY AppendDirentInv, LinkGrownInv
  <1>3. CASE op.kind # "mkdir"
    <2>1. NewDir = {} BY <1>3 DEF NewDir
    <2>2. op'.pc = "idle" BY <1>0, <1>1, <1>3 DEF AfterAppend, Return
    <2> QED BY <1>1, <1>2, <2>1, <2>2, DirsQuiet
  <1>4. CASE op.kind = "mkdir"
    <2>1. NewDir = {op.ino} BY <1>1, <1>4 DEF NewDir
    <2>2. op'.pc = "link_parent" /\ op'.ino = op.ino
      BY <1>1, <1>4, <1>t, GotoFacts DEF AfterAppend, Pcs
    <2>3. op.ino \notin Linked /\ op.ino \in Inodes
      BY <1>1, <1>4, NewDirIs, <2>1, LinkedIs DEF IInv, OpInv, OpInode, Making, MakingPcs, NamingPcs
    <2>4. op.ino \notin LinkedDirs BY <2>3 DEF LinkedDirs
    <2>5. ASSUME NEW g \in Groups
          PROVE  Cardinality(LinkedDirs' \intersect GroupInodes(g)) =
                   m.gD[g] + (IF InodeGroup(op.ino) = g THEN 1 ELSE 0)
      <3> DEFINE D == LinkedDirs \intersect GroupInodes(g)
      <3>0. m.gD[g] \in Nat BY <1>t DEF Counters
      <3>1. IsFiniteSet(D) BY GroupsFinite, FS_Subset
      <3>2. Cardinality(D) = m.gD[g] + 0 BY <1>1 DEF DirsCounted
      <3>3. CASE InodeGroup(op.ino) = g
        <4>1. LinkedDirs' \intersect GroupInodes(g) = D \union {op.ino} /\ op.ino \notin D
          BY <1>2, <2>1, <2>3, <2>4, <3>3, GroupsFinite
        <4>2. Cardinality(D \union {op.ino}) = Cardinality(D) + 1 BY <3>1, <4>1, FS_AddElement
        <4> HIDE DEF D
        <4> QED BY <3>0, <3>2, <3>3, <4>1, <4>2
      <3>4. CASE InodeGroup(op.ino) # g
        <4>1. LinkedDirs' \intersect GroupInodes(g) = D
          BY <1>2, <2>1, <2>3, <3>4, GroupsFinite
        <4> HIDE DEF D
        <4> QED BY <3>2, <3>4, <4>1
      <3> QED BY <3>3, <3>4
    <2>6. cnt.gD = m.gD BY <1>1 DEF DirsCounted
    <2> QED BY <1>1, <2>2, <2>5, <2>6 DEF DirsCounted
  <1> QED BY <1>3, <1>4

LEMMA DirsStep == ASSUME TypeInv, TypeInv', Harmless, IInv, DirsCounted, Step PROVE DirsCounted'
  <1> USE DEF At, disk
  <1>t. op \in OpRec /\ m \in Counters /\ op.ino \in {0} \union Inodes
        /\ bbm \subseteq Blocks
    BY DEF TypeInv, TypeOK, OpRec
  <1>i. Idle.pc = "idle" BY DEF Idle
  <1>1. CASE AllocInode
    <2>1. Least(FreeInodes) \in Inodes BY <1>1, ChoiceTypes DEF AllocInode
    <2>2. m'.gD = m.gD BY <1>1, <1>t, <2>1, CounterFields DEF AllocInode
    <2>3. op.pc = "alloc_inode" /\ op'.pc = "inode_meta" BY <1>1, <1>t DEF AllocInode, OpRec
    <2>4. LinkedDirs' = LinkedDirs /\ UNCHANGED cnt BY <1>1, QuietView DEF AllocInode
    <2> QED BY <2>2, <2>3, <2>4, DirsQuiet
  <1>2. CASE AllocInodeFails BY <1>2, DirsFails DEF AllocInodeFails
  <1>3. CASE StoreMeta
    <2>1. /\ op.pc \in {"inode_meta", "block_meta", "alloc_commit", "grow_meta", "free_commit",
                        "dirs_meta", "free_meta"}
          /\ cnt' = m /\ UNCHANGED <<itab, dblk, m>>
      BY <1>3 DEF StoreMeta, AfterMeta
    <2>2. op'.pc \in {"alloc_data", "alloc_block", "write_inode", "grow_block", "clear_inode", "idle"}
      BY <1>3, <1>t, <1>i, GotoFacts DEF StoreMeta, AfterMeta, Pcs, Return
    <2>3. LinkedDirs' = LinkedDirs BY <2>1, QuietView
    <2>4. \A g \in Groups : Cardinality(LinkedDirs \intersect GroupInodes(g)) = m.gD[g] + 0
      BY <2>1 DEF DirsCounted
    <2>5. \A g \in Groups : Cardinality(LinkedDirs' \intersect GroupInodes(g)) = m'.gD[g] + 0
      BY <2>1, <2>3, <2>4
    <2> QED BY <2>1, <2>2, <2>5 DEF DirsCounted
  <1>4. CASE AllocBlock
    <2>1. Least(FreeBlocks(bbm)) \in Blocks BY <1>4, ChoiceTypes DEF AllocBlock
    <2>2. m'.gD = m.gD BY <1>4, <1>t, <2>1, CounterFields DEF AllocBlock
    <2>3. op.pc = "alloc_block" /\ op'.pc = "block_meta" BY <1>4, <1>t DEF AllocBlock, OpRec
    <2>4. LinkedDirs' = LinkedDirs /\ UNCHANGED cnt BY <1>4, QuietView DEF AllocBlock
    <2> QED BY <2>2, <2>3, <2>4, DirsQuiet
  <1>5. CASE AllocBlockFails BY <1>5, DirsFails DEF AllocBlockFails
  <1>6. CASE AllocBlockCtx
    <2>1. Least(FreeBlocks(CtxBitmap)) \in Blocks BY <1>6, ChoiceTypes DEF AllocBlockCtx
    <2>2. m'.gD = m.gD BY <1>6, <1>t, <2>1, CounterFields DEF AllocBlockCtx
    <2>3. op.pc = "alloc_data" /\ op'.pc = "alloc_data" BY <1>6, <1>t DEF AllocBlockCtx, OpRec
    <2>4. LinkedDirs' = LinkedDirs /\ UNCHANGED cnt BY <1>6, QuietView DEF AllocBlockCtx
    <2> QED BY <2>2, <2>3, <2>4, DirsQuiet
  <1>7. CASE AllocDataFails BY <1>7, DirsFails DEF AllocDataFails
  <1>8. CASE WriteData
    <2>1. op.pc = "alloc_data" /\ op'.pc = "alloc_commit" /\ UNCHANGED <<m, cnt>>
      BY <1>8, <1>t DEF WriteData, OpRec
    <2> QED BY <1>8, <2>1, WriteDataInv, DirsQuiet
  <1>9. CASE WriteBitmap
    <2>1. op.pc \in {"alloc_commit", "free_commit"} /\ op'.pc = op.pc /\ UNCHANGED <<m, cnt>>
      BY <1>9, <1>t DEF WriteBitmap, OpRec
    <2>2. LinkedDirs' = LinkedDirs BY <1>9, QuietView DEF WriteBitmap
    <2> QED BY <2>1, <2>2, DirsQuiet
  <1>10. CASE WriteInode
    <2>1. op.pc = "write_inode" /\ UNCHANGED <<m, cnt>> BY <1>10 DEF WriteInode
    <2>2. op'.pc \in {"idle", "write_dirblk", "append"}
      BY <1>10, <1>t, <1>i, GotoFacts DEF WriteInode, Return, Pcs
    <2> QED BY <1>10, <2>1, <2>2, WriteInodeDisk, DirsQuiet
  <1>11. CASE WriteDirBlock
    <2>1. op.pc = "write_dirblk" /\ op'.pc = "append" /\ UNCHANGED <<m, cnt>>
      BY <1>11, <1>t, GotoFacts DEF WriteDirBlock, Pcs
    <2> QED BY <1>11, <2>1, WriteDirBlockInv, DirsQuiet
  <1>12. CASE AppendDirent \/ LinkGrownBlock BY <1>12, DirsAppend
  <1>13. CASE GrowDir
    <2>1. Least(FreeBlocks(bbm)) \in Blocks BY <1>13, ChoiceTypes DEF GrowDir, CanGrow
    <2>2. m'.gD = m.gD BY <1>13, <1>t, <2>1, CounterFields DEF GrowDir
    <2>3. op.pc = "append" /\ op'.pc = "grow_meta" BY <1>13, <1>t DEF GrowDir, OpRec
    <2>4. LinkedDirs' = LinkedDirs /\ UNCHANGED cnt BY <1>13, QuietView DEF GrowDir
    <2> QED BY <2>2, <2>3, <2>4, DirsQuiet
  <1>14. CASE WriteGrownBlock
    <2>1. op.pc = "grow_block" /\ op'.pc = "grow_inode" /\ UNCHANGED <<m, cnt>>
      BY <1>14, <1>t, GotoFacts DEF WriteGrownBlock, Pcs
    <2> QED BY <1>14, <2>1, WriteGrownInv, DirsQuiet
  <1>15. CASE AppendFails
    <2>1. CASE op.kind = "mknod"
      <3>1. op.pc = "append" /\ UNCHANGED <<cnt, m, itab, dblk>> BY <1>15, <2>1 DEF AppendFails
      <3>2. op'.pc = "free_inode" BY <1>15, <2>1, <1>t, GotoFacts DEF AppendFails, Pcs
      <3>3. LinkedDirs' = LinkedDirs BY <3>1, QuietView
      <3> QED BY <3>1, <3>2, <3>3, DirsQuiet
    <2>2. CASE op.kind # "mknod" BY <1>15, <2>2, DirsFails DEF AppendFails
    <2> QED BY <2>1, <2>2
  <1>16. CASE LinkParent
    <2>1. op.pc = "link_parent" /\ UNCHANGED cnt
          /\ m' = [m EXCEPT !.gD[InodeGroup(op.ino)] = @ + 1]
      BY <1>16 DEF LinkParent
    <2>2. op'.pc = "dirs_meta" BY <1>16, <1>t, GotoFacts DEF LinkParent, Pcs
    <2>3. LinkedDirs' = LinkedDirs BY <1>16, LinkParentInv
    <2>4. m'.gD = [m.gD EXCEPT ![InodeGroup(op.ino)] = @ + 1] /\ m.gD \in [Groups -> Nat]
      BY <1>t, <2>1 DEF Counters
    <2>5. ASSUME NEW g \in Groups
          PROVE  Cardinality(LinkedDirs' \intersect GroupInodes(g)) = m'.gD[g] + 0
      <3>1. Cardinality(LinkedDirs \intersect GroupInodes(g)) =
              m.gD[g] + (IF InodeGroup(op.ino) = g THEN 1 ELSE 0)
        BY <2>1 DEF DirsCounted
      <3>2. m'.gD[g] = m.gD[g] + (IF InodeGroup(op.ino) = g THEN 1 ELSE 0) BY <2>4
      <3>3. m.gD[g] \in Nat BY <2>4
      <3> QED BY <2>3, <3>1, <3>2, <3>3
    <2> QED BY <2>2, <2>5 DEF DirsCounted
  <1>17. CASE RemoveDirent
    <2>1. op.pc = "remove" /\ op'.pc = "release" /\ UNCHANGED <<m, cnt>>
      BY <1>17, <1>t, GotoFacts DEF RemoveDirent, Pcs
    <2> QED BY <1>17, <2>1, RemoveDirentInv, DirsQuiet
  <1>18. CASE ReleaseBlocks
    <2>1. m'.gD = m.gD
      <3>1. Freed \intersect bbm \in SUBSET Blocks BY <1>t
      <3> QED BY <1>18, <1>t, <3>1, CounterFields DEF ReleaseBlocks
    <2>2. op.pc = "release" /\ op'.pc = "free_commit" BY <1>18, <1>t DEF ReleaseBlocks, OpRec
    <2>3. LinkedDirs' = LinkedDirs /\ UNCHANGED cnt BY <1>18, QuietView DEF ReleaseBlocks
    <2> QED BY <2>1, <2>2, <2>3, DirsQuiet
  <1>19. CASE ReleaseFails BY <1>19, DirsFails DEF ReleaseFails
  <1>20. CASE ClearInode
    <2>1. op.pc = "clear_inode" /\ UNCHANGED <<m, cnt>> BY <1>20 DEF ClearInode
    <2>2. op'.pc \in {"free_inode", "alloc_data", "idle"}
      BY <1>20, <1>t, <1>i, GotoFacts DEF ClearInode, Return, Pcs
    <2> QED BY <1>20, <2>1, <2>2, ClearInodeDisk, DirsQuiet
  <1>21. CASE FreeInode
    <2>1. m'.gD = m.gD
      <3>1. op.ino \in ibm => op.ino \in Inodes BY DEF TypeInv, TypeOK
      <3> QED BY <1>21, <1>t, <3>1, CounterFields DEF FreeInode
    <2>2. op.pc = "free_inode" /\ op'.pc = "free_meta" BY <1>21, <1>t, GotoFacts DEF FreeInode, Pcs
    <2>3. LinkedDirs' = LinkedDirs /\ UNCHANGED cnt BY <1>21, QuietView DEF FreeInode
    <2> QED BY <2>1, <2>2, <2>3, DirsQuiet
  <1> QED BY <1>1, <1>2, <1>3, <1>4, <1>5, <1>6, <1>7, <1>8, <1>9, <1>10, <1>11, <1>12, <1>13,
             <1>14, <1>15, <1>16, <1>17, <1>18, <1>19, <1>20, <1>21 DEF Step


------------------------------------------------------------------------------
(* Everything marked used has an owner                                       *)

LEMMA SettledIs ==
    \A b : b \in Settled <=> b \in MetaBlocks \/ \E i \in Known : b \in Claims(i)
  BY DEF Settled

LEMMA SettledIsNext ==
    \A b : b \in Settled' <=> b \in MetaBlocks \/ \E i \in Known' : b \in Claims(i)'
  BY DEF Settled

\* Steps after which the same inodes hold the same blocks.
LEMMA OwnedSame ==
    ASSUME InodesOwned, BlocksOwned,
           Linked' = Linked, lost' = lost, Holder' = Holder, ibm' = ibm,
           BeingFreed' = BeingFreed, Pending' = Pending, MemBitmap' = MemBitmap,
           \A i \in Linked \union lost \union Holder : Claims(i)' = Claims(i)
    PROVE  (InodesOwned /\ BlocksOwned)'
  <1>1. InodesOwned' BY DEF InodesOwned
  <1>2. Known' = Known BY DEF Known
  <1>3. \A i \in Known : Claims(i)' = Claims(i) BY DEF Known
  <1>4. Settled' = Settled BY <1>2, <1>3, SettledIs, SettledIsNext
  <1> QED BY <1>1, <1>4 DEF BlocksOwned

\* At these pcs BareInodes says nothing about the handler's inode.
BarePcs == {"inode_meta", "alloc_block", "block_meta", "alloc_data", "alloc_commit",
            "write_inode", "free_inode"}

LEMMA BareAway ==
    ASSUME BareInodes, ibm \subseteq ibm', op'.pc \notin BarePcs,
           \A i \in Inodes \ ibm : HasBlocks(i)' <=> HasBlocks(i)
    PROVE  BareInodes'
  BY DEF BareInodes, BarePcs

\* The locals of a handler that is not running.
LEMMA NobodyHolds ==
    ASSUME op.pc \in {"idle", "alloc_inode", "remove", "link_parent", "dirs_meta", "free_meta"}
    PROVE  Holder = {} /\ BeingFreed = {} /\ Pending = {} /\ MemBitmap = bbm
  BY DEF Holder, BeingFreed, Pending, Held, MemBitmap, MakingPcs, NamingPcs

LEMMA NobodyHoldsNext ==
    ASSUME op'.pc \in {"idle", "remove", "link_parent", "dirs_meta", "free_meta", "alloc_inode"}
    PROVE  Holder' = {} /\ BeingFreed' = {} /\ Pending' = {} /\ MemBitmap' = bbm'
  BY DEF Holder, BeingFreed, Pending, Held, MemBitmap, MakingPcs, NamingPcs


\* A handler that returns without giving its inode back: the inode is lost.
LEMMA LeakOwned ==
    ASSUME TypeInv, Owned, FailAndLeak, Holder = {op.ino}, BeingFreed = {}, bbm = Settled,
           op.ino \notin Reserved \union Linked,
           \A j \in Linked : Claims(op.ino) \intersect Claims(j) = {}
    PROVE  Owned'
  <1>0. Idle.pc = "idle" BY DEF Idle
  <1>1. /\ op'.pc = "idle" /\ lost' = lost \union {op.ino}
        /\ UNCHANGED <<bbm, ibm, itab, dblk>>
    BY <1>0 DEF FailAndLeak, Return, disk
  <1>2. Holder' = {} /\ BeingFreed' = {} /\ Pending' = {} /\ MemBitmap' = bbm
    BY <1>1, NobodyHoldsNext
  <1>3. Linked' = Linked /\ \A i : Claims(i)' = Claims(i) /\ (HasBlocks(i)' <=> HasBlocks(i))
    BY <1>1, QuietView
  <1>4. InodesOwned' BY <1>1, <1>2, <1>3 DEF Owned, InodesOwned
  <1>5. Known' = Known BY <1>1, <1>2, <1>3 DEF Known
  <1>6. Settled' = Settled BY <1>3, <1>5, SettledIs, SettledIsNext
  <1>7. ASSUME NEW i \in lost', NEW j \in Linked \union lost', i # j
        PROVE  Claims(i) \intersect Claims(j) = {}
    <2>1. \A x \in lost, y \in Linked \union lost \union {op.ino} :
              x # y => Claims(x) \intersect Claims(y) = {}
      BY DEF Owned, BlocksOwned
    <2> QED BY <1>1, <1>7, <2>1
  <1>8. BlocksOwned' BY <1>1, <1>2, <1>3, <1>6, <1>7 DEF BlocksOwned
  <1>9. BareInodes' BY <1>1, <1>3, BareAway DEF Owned, BarePcs
  <1> QED BY <1>4, <1>8, <1>9 DEF Owned

\* A handler that returns and holds nothing.
LEMMA CleanOwned ==
    ASSUME TypeInv, Owned, FailClean, Holder = {}, BeingFreed = {}, bbm = Settled
    PROVE  Owned'
  <1>0. Idle.pc = "idle" BY DEF Idle
  <1>1. op'.pc = "idle" /\ UNCHANGED <<bbm, ibm, itab, dblk, lost>>
    BY <1>0 DEF FailClean, Return, disk
  <1>2. Holder' = {} /\ BeingFreed' = {} /\ Pending' = {} /\ MemBitmap' = bbm
    BY <1>1, NobodyHoldsNext
  <1>3. Linked' = Linked /\ \A i : Claims(i)' = Claims(i) /\ (HasBlocks(i)' <=> HasBlocks(i))
    BY <1>1, QuietView
  <1>4. InodesOwned' BY <1>1, <1>2, <1>3 DEF Owned, InodesOwned
  <1>5. Known' = Known BY <1>1, <1>2, <1>3 DEF Known
  <1>6. Settled' = Settled BY <1>3, <1>5, SettledIs, SettledIsNext
  <1>8. BlocksOwned' BY <1>1, <1>2, <1>3, <1>6 DEF Owned, BlocksOwned
  <1>9. BareInodes' BY <1>1, <1>3, BareAway DEF Owned, BarePcs
  <1> QED BY <1>4, <1>8, <1>9 DEF Owned

LEMMA OwnedStart == ASSUME Harmless, TypeInv, IInv, Owned, Start PROVE Owned'
  <1>1. Holder = {} /\ BeingFreed = {} /\ Pending = {} /\ MemBitmap = bbm
    BY BeginFacts, NobodyHolds
  <1>2. Holder' = {} /\ BeingFreed' = {} /\ Pending' = {} /\ MemBitmap' = bbm
    BY BeginFacts, ElemsFacts
       DEF Holder, BeingFreed, Pending, Held, MemBitmap, MakingPcs, NamingPcs, Making
  <1>3. Linked' = Linked /\ \A i : Claims(i)' = Claims(i) /\ (HasBlocks(i)' <=> HasBlocks(i))
    BY BeginFacts, QuietView
  <1>4. (InodesOwned /\ BlocksOwned)'
    BY <1>1, <1>2, <1>3, BeginFacts, OwnedSame DEF Owned
  <1>5. BareInodes'
    <2>1. CASE op'.pc # "alloc_data"
      BY <1>3, <2>1, BeginFacts, BareAway DEF Owned, BarePcs
    <2>2. CASE op'.pc = "alloc_data"
      <3>1. /\ op'.kind = "rewrite"
            /\ \E d \in LinkedDirs, n \in Names :
                 /\ HasEntry(d, n) /\ op'.ino = Target(d, n)
                 /\ itab[op'.ino].mode \in RewriteModes
                 /\ Elems(itab[op'.ino].blks) \subseteq {0}
        BY <2>2, BeginFacts DEF Making
      <3>2. op'.ino \in Linked /\ itab[op'.ino].mode = "reg"
            /\ Elems(itab[op'.ino].blks) \subseteq {0}
        BY <3>1, TargetFacts DEF Harmless
      <3>3. Claims(op'.ino) \intersect MetaBlocks = {}
        BY <3>2 DEF IInv, DiskInv, OwnersClean, Owners
      <3>4. Claims(op'.ino) = {}
        BY <3>2, <3>3, BlockFacts DEF Claims
      <3>5. Claims(op.ino)' = {}
        BY <3>4, BeginFacts DEF Claims
      <3> QED BY <1>3, <2>2, <3>1, <3>5, BeginFacts DEF Owned, BareInodes, Making
    <2> QED BY <2>1, <2>2
  <1> QED BY <1>4, <1>5 DEF Owned


\* A free inode claims nothing; the handler holds it from now on.
LEMMA OwnedAllocInode == ASSUME TypeInv, IInv, Owned, AllocInode PROVE Owned'
  <1> PICK i : i = Least(FreeInodes) OBVIOUS
  <1>t. op \in OpRec BY DEF TypeInv, TypeOK
  <1>1. i \in Inodes \ ibm BY ChoiceTypes DEF AllocInode
  <1>2. op.pc = "alloc_inode" /\ ibm' = ibm \union {i} /\ UNCHANGED <<bbm, itab, dblk, lost>>
    BY DEF AllocInode, At
  <1>3. op'.pc = "inode_meta" /\ op'.ino = i /\ op'.kind = op.kind
    BY <1>t DEF AllocInode, OpRec
  <1>4. op.kind \in Making BY <1>2 DEF TypeInv, OpPath
  <1>5. Holder = {} /\ BeingFreed = {} /\ Pending = {} /\ MemBitmap = bbm
    BY <1>2, NobodyHolds
  <1>6. Holder' = {i} /\ BeingFreed' = {} /\ Pending' = {} /\ MemBitmap' = bbm
    BY <1>2, <1>3, <1>4 DEF Holder, BeingFreed, Pending, Held, MemBitmap, MakingPcs, NamingPcs
  <1>7. Linked' = Linked /\ \A j : Claims(j)' = Claims(j) /\ (HasBlocks(j)' <=> HasBlocks(j))
    BY <1>2, QuietView
  <1>8. ~HasBlocks(i) /\ Claims(i) = {}
    BY <1>1 DEF Owned, BareInodes, HasBlocks, Claims
  <1>9. InodesOwned' BY <1>1, <1>2, <1>5, <1>6, <1>7 DEF Owned, InodesOwned
  <1>10. Known' = Known \union {i} BY <1>2, <1>5, <1>6, <1>7 DEF Known
  <1>11. Settled' = Settled BY <1>7, <1>8, <1>10, SettledIs, SettledIsNext
  <1>12. BlocksOwned'
    BY <1>2, <1>5, <1>6, <1>7, <1>8, <1>11 DEF Owned, BlocksOwned
  <1>13. BareInodes' BY <1>2, <1>3, <1>4, <1>7, <1>8 DEF Owned, BareInodes, Making
  <1> QED BY <1>9, <1>12, <1>13 DEF Owned

LEMMA OwnedStoreMeta ==
    ASSUME TypeInv, IInv, CommitKnown, Owned, StoreMeta
    PROVE  Owned'
  <1>t. op \in OpRec BY DEF TypeInv, TypeOK
  <1>0. op.pc \in {"inode_meta", "block_meta", "alloc_commit", "grow_meta", "free_commit",
                   "dirs_meta", "free_meta"}
    BY DEF StoreMeta, AfterMeta
  <1>p. /\ op.pc \in {"inode_meta", "grow_meta"} => op.kind \in Making
        /\ op.pc = "block_meta" => op.kind = "mkdir"
        /\ op.pc = "alloc_commit" => op.kind \in {"create", "rewrite"}
        /\ op.pc = "free_commit" => op.kind \in Removing
    BY DEF TypeInv, OpPath
  <1>1. /\ MemBitmap = bbm /\ MemBitmap' = bbm /\ UNCHANGED <<bbm, ibm, itab, dblk, lost>>
    BY StoreMetaBitmap
  <1>2. Linked' = Linked /\ \A j : Claims(j)' = Claims(j) /\ (HasBlocks(j)' <=> HasBlocks(j))
    BY <1>1, QuietView
  <1>3. CASE op.pc \in {"dirs_meta", "free_meta"}
    <2>0. Idle.pc = "idle" BY DEF Idle
    <2>1. op'.pc = "idle" BY <1>3, <2>0 DEF StoreMeta, AfterMeta, Return
    <2>2. (InodesOwned /\ BlocksOwned)'
      BY <1>1, <1>2, <1>3, <2>1, NobodyHolds, NobodyHoldsNext, OwnedSame DEF Owned
    <2>3. BareInodes' BY <1>1, <1>2, <2>1, BareAway DEF Owned, BarePcs
    <2> QED BY <2>2, <2>3 DEF Owned
  <1>4. CASE op.pc \notin {"dirs_meta", "free_meta"}
    <2>1. /\ op'.pc = AfterMeta[op.pc] /\ op'.kind = op.kind /\ op'.ino = op.ino
          /\ op'.blks = op.blks /\ op'.extra = op.extra
      BY <1>0, <1>4, <1>t, GotoFacts DEF StoreMeta, AfterMeta, Pcs
    <2>2. /\ op.pc = "inode_meta" => op'.pc = IF op.kind = "create" THEN "alloc_data"
                       ELSE IF op.kind = "mkdir" THEN "alloc_block" ELSE "write_inode"
          /\ op.pc \in {"block_meta", "alloc_commit"} => op'.pc = "write_inode"
          /\ op.pc = "grow_meta" => op'.pc = "grow_block"
          /\ op.pc = "free_commit" => op'.pc = "clear_inode"
      BY <2>1 DEF AfterMeta
    <2>3. op.pc = "inode_meta" /\ op.kind = "create" => Elems(op.blks) = {}
      BY ElemsFacts DEF IInv, OpInv, OpBlocks, FreshPcs
    <2>4. Holder' = Holder
      BY <1>0, <1>4, <1>p, <2>1, <2>2 DEF Holder, MakingPcs, NamingPcs, Making, Removing
    <2>5. BeingFreed' = BeingFreed
      BY <1>0, <1>4, <1>p, <2>1, <2>2 DEF BeingFreed
    <2>6. Pending' = Pending
      BY <1>0, <1>4, <1>p, <2>1, <2>2, <2>3 DEF Pending, Held, Making
    <2>7. (InodesOwned /\ BlocksOwned)' BY <1>1, <1>2, <2>4, <2>5, <2>6, OwnedSame DEF Owned
    <2>8. BareInodes'
      BY <1>0, <1>1, <1>2, <1>4, <1>p, <2>1, <2>2 DEF Owned, BareInodes, Making, Removing
    <2> QED BY <2>7, <2>8 DEF Owned
  <1> QED BY <1>3, <1>4

\* mkdir takes a block that nobody claims.
LEMMA OwnedAllocBlock == ASSUME TypeInv, IInv, Owned, AllocBlock PROVE Owned'
  <1> PICK b : b = Least(FreeBlocks(bbm)) OBVIOUS
  <1>t. op \in OpRec BY DEF TypeInv, TypeOK
  <1>1. b \in Blocks \ bbm BY ChoiceTypes DEF AllocBlock
  <1>2. op.pc = "alloc_block" /\ bbm' = bbm \union {b} /\ UNCHANGED <<ibm, itab, dblk, lost>>
    BY DEF AllocBlock, At
  <1>3. op'.pc = "block_meta" /\ op'.ino = op.ino /\ op'.kind = op.kind /\ Elems(op'.blks) = {b}
    BY <1>t, ElemsFacts DEF AllocBlock, OpRec
  <1>4. op.kind = "mkdir" BY <1>2 DEF TypeInv, OpPath
  <1>5. Holder = {op.ino} /\ BeingFreed = {} /\ Pending = {} /\ MemBitmap = bbm
    BY <1>2, <1>4 DEF Holder, BeingFreed, Pending, Held, MemBitmap, MakingPcs, NamingPcs, Making
  <1>6. Holder' = {op.ino} /\ BeingFreed' = {} /\ Pending' = {b} /\ MemBitmap' = bbm \union {b}
    BY <1>2, <1>3, <1>4 DEF Holder, BeingFreed, Pending, Held, MemBitmap, MakingPcs, NamingPcs, Making
  <1>7. Linked' = Linked /\ \A j : Claims(j)' = Claims(j) /\ (HasBlocks(j)' <=> HasBlocks(j))
    BY <1>2, QuietView
  <1>8. InodesOwned' BY <1>2, <1>5, <1>6, <1>7 DEF Owned, InodesOwned
  <1>9. Known' = Known BY <1>2, <1>5, <1>6, <1>7 DEF Known
  <1>10. Settled' = Settled BY <1>7, <1>9, SettledIs, SettledIsNext
  <1>11. BlocksOwned'
    BY <1>1, <1>2, <1>5, <1>6, <1>7, <1>10 DEF Owned, BlocksOwned
  <1>12. BareInodes' BY <1>2, <1>3, <1>4, <1>7 DEF Owned, BareInodes, Making
  <1> QED BY <1>8, <1>11, <1>12 DEF Owned

\* At alloc_data the blocks in the context are free on disk and nobody claims them.
LEMMA DataFacts ==
    ASSUME TypeInv, IInv, Owned, op.pc = "alloc_data"
    PROVE  /\ op.kind \in {"create", "rewrite"} /\ Holder = (IF op.kind = "create" THEN {op.ino} ELSE {})
           /\ BeingFreed = {} /\ Pending = Elems(op.blks) /\ MemBitmap = bbm \union Elems(op.blks)
           /\ bbm = Settled /\ Elems(op.blks) \intersect bbm = {}
  <1>1. op.kind \in {"create", "rewrite"} BY DEF TypeInv, OpPath
  <1>2. /\ Holder = (IF op.kind = "create" THEN {op.ino} ELSE {})
        /\ BeingFreed = {} /\ Pending = Elems(op.blks) /\ MemBitmap = bbm \union Elems(op.blks)
    BY <1>1 DEF Holder, BeingFreed, Pending, Held, MemBitmap, MakingPcs, NamingPcs, Making
  <1>3. Elems(op.blks) \intersect bbm = {} BY DEF IInv, OpInv, OpBlocks
  <1>4. bbm = Settled BY <1>2, <1>3 DEF Owned, BlocksOwned
  <1> QED BY <1>1, <1>2, <1>3, <1>4

LEMMA OwnedAllocCtx == ASSUME TypeInv, IInv, Owned, AllocBlockCtx PROVE Owned'
  <1> PICK b : b = Least(FreeBlocks(CtxBitmap)) OBVIOUS
  <1>t. op \in OpRec /\ op.blks \in Seq(Nat) BY DEF TypeInv, TypeOK, OpRec
  <1>1. b \in Blocks \ CtxBitmap BY ChoiceTypes DEF AllocBlockCtx
  <1>2. op.pc = "alloc_data" /\ UNCHANGED <<bbm, ibm, itab, dblk, lost>>
    BY DEF AllocBlockCtx, At, disk
  <1>3. op'.pc = "alloc_data" /\ op'.ino = op.ino /\ op'.kind = op.kind /\ op'.blks = Append(op.blks, b)
    BY <1>t, <1>2 DEF AllocBlockCtx, OpRec
  <1>4. Elems(op'.blks) = Elems(op.blks) \union {b}
    BY <1>t, <1>1, <1>3, BlocksFinite, ElemsFacts
  <1>5. /\ Holder' = Holder /\ BeingFreed' = BeingFreed /\ Pending' = Pending \union {b}
        /\ MemBitmap' = MemBitmap \union {b}
    BY <1>2, <1>3, <1>4, DataFacts
       DEF Holder, BeingFreed, Pending, Held, MemBitmap, MakingPcs, NamingPcs, Making
  <1>6. b \notin MemBitmap BY <1>1, <1>2, DataFacts DEF CtxBitmap
  <1>7. Linked' = Linked /\ \A j : Claims(j)' = Claims(j) /\ (HasBlocks(j)' <=> HasBlocks(j))
    BY <1>2, QuietView
  <1>8. InodesOwned' BY <1>2, <1>5, <1>7 DEF Owned, InodesOwned
  <1>9. Known' = Known BY <1>2, <1>5, <1>7 DEF Known
  <1>10. Settled' = Settled BY <1>7, <1>9, SettledIs, SettledIsNext
  <1>11. BlocksOwned'
    BY <1>2, <1>5, <1>6, <1>7, <1>10 DEF Owned, BlocksOwned
  <1>12. BareInodes' BY <1>2, <1>3, <1>7 DEF Owned, BareInodes
  <1> QED BY <1>8, <1>11, <1>12 DEF Owned

LEMMA OwnedDataFails == ASSUME TypeInv, IInv, Owned, AllocDataFails PROVE Owned'
  <1>1. op.pc = "alloc_data" BY DEF AllocDataFails, At
  <1>2. CASE op.kind = "create"
    <2>1. Claims(op.ino) = {}
      BY <1>1, <1>2 DEF Owned, BareInodes, HasBlocks, Claims, Making
    <2>2. op.ino \notin Reserved \union Linked
      BY <1>1, <1>2 DEF IInv, OpInv, OpInode, Making, MakingPcs, NamingPcs
    <2> QED BY <1>1, <1>2, <2>1, <2>2, DataFacts, LeakOwned DEF AllocDataFails
  <1>3. CASE op.kind # "create"
    BY <1>1, <1>3, DataFacts, CleanOwned DEF AllocDataFails
  <1> QED BY <1>2, <1>3

LEMMA OwnedWriteData == ASSUME TypeInv, TypeInv', IInv, Owned, WriteData PROVE Owned'
  <1>t. op \in OpRec BY DEF TypeInv, TypeOK
  <1>1. op.pc = "alloc_data" /\ UNCHANGED <<bbm, ibm, itab, lost>> BY DEF WriteData, At
  <1>2. /\ op'.pc = "alloc_commit" /\ op'.ino = op.ino /\ op'.kind = op.kind
        /\ op'.blks = op.blks /\ op'.bm = bbm \union Elems(op.blks)
    BY <1>t DEF WriteData, OpRec, CtxBitmap
  <1>3. /\ Holder' = Holder /\ BeingFreed' = BeingFreed /\ Pending' = Pending
        /\ MemBitmap' = MemBitmap
    BY <1>1, <1>2, DataFacts
       DEF Holder, BeingFreed, Pending, Held, MemBitmap, MakingPcs, NamingPcs, Making
  <1>4. Linked' = Linked BY WriteDataInv
  <1>5. \A j : Claims(j)' = Claims(j) /\ (HasBlocks(j)' <=> HasBlocks(j))
    BY <1>1 DEF Claims, HasBlocks
  <1>6. (InodesOwned /\ BlocksOwned)' BY <1>1, <1>3, <1>4, <1>5, OwnedSame DEF Owned
  <1>7. BareInodes' BY <1>1, <1>2, <1>5 DEF Owned, BareInodes
  <1> QED BY <1>6, <1>7 DEF Owned

LEMMA OwnedWriteBitmap == ASSUME TypeInv, IInv, Owned, WriteBitmap PROVE Owned'
  <1>t. op \in OpRec BY DEF TypeInv, TypeOK
  <1>1. op.pc \in {"alloc_commit", "free_commit"} /\ UNCHANGED <<ibm, itab, dblk, lost>>
    BY DEF WriteBitmap
  <1>2. /\ op'.pc = op.pc /\ op'.ino = op.ino /\ op'.kind = op.kind
        /\ op'.blks = op.blks /\ op'.bm = op.bm /\ op'.extra = op.extra
    BY <1>t DEF WriteBitmap, OpRec
  <1>3. Holder' = Holder /\ BeingFreed' = BeingFreed /\ Pending' = Pending /\ MemBitmap' = MemBitmap
    BY <1>1, <1>2 DEF Holder, BeingFreed, Pending, Held, MemBitmap
  <1>4. Linked' = Linked /\ \A j : Claims(j)' = Claims(j) /\ (HasBlocks(j)' <=> HasBlocks(j))
    BY <1>1, QuietView
  <1>5. (InodesOwned /\ BlocksOwned)' BY <1>1, <1>3, <1>4, OwnedSame DEF Owned
  <1>6. BareInodes' BY <1>1, <1>2, <1>4 DEF Owned, BareInodes
  <1> QED BY <1>5, <1>6 DEF Owned


\* The inode is written: what the handler held is claimed.
LEMMA OwnedWriteInode ==
    ASSUME Harmless, TypeInv, TypeInv', IInv, Owned, WriteInode
    PROVE  Owned'
  <1> PICK x : x = op.ino OBVIOUS
  <1>t. op \in OpRec BY DEF TypeInv, TypeOK
  <1>i. Idle.pc = "idle" BY DEF Idle
  <1>1. op.pc = "write_inode" /\ UNCHANGED <<bbm, ibm, lost>> BY DEF WriteInode, At
  <1>2. /\ op.kind \in {"create", "mkdir", "mknod", "symlink", "rewrite"}
        /\ x \in Inodes /\ x \in ibm
        /\ itab'[x].blks = op.blks
        /\ itab'[x].mode = CASE op.kind = "mkdir" -> "dir" [] op.kind = "mknod" -> "dev"
                             [] op.kind = "symlink" -> "lnk" [] OTHER -> "reg"
        /\ \A j \in Inodes : j # x => itab'[j] = itab[j]
    BY NewInodeFacts
  <1>3. Linked' = Linked BY WriteInodeDisk
  <1>4. \A j \in Inodes : j # x => Claims(j)' = Claims(j) /\ (HasBlocks(j)' <=> HasBlocks(j))
    BY <1>2 DEF Claims, HasBlocks
  <1>5. Claims(x)' = Pending /\ MemBitmap = bbm /\ BeingFreed = {}
    BY <1>1, <1>2 DEF Claims, Pending, Held, MemBitmap, BeingFreed
  <1>6. Claims(x) = {}
    BY <1>1, <1>2 DEF Owned, BareInodes, Claims, HasBlocks, Making
  <1>7. /\ op.kind = "rewrite" => op'.pc = "idle"
        /\ op.kind = "mkdir" => op'.pc = "write_dirblk" /\ op'.kind = op.kind /\ op'.ino = x
        /\ op.kind \notin {"rewrite", "mkdir"} => op'.pc = "append" /\ op'.kind = op.kind /\ op'.ino = x
    BY <1>t, <1>i, GotoFacts DEF WriteInode, Return, Pcs
  <1>8. Holder' = Holder /\ Pending' = {} /\ BeingFreed' = {} /\ MemBitmap' = bbm
    BY <1>1, <1>2, <1>7 DEF Holder, Pending, Held, BeingFreed, MemBitmap, Making, MakingPcs, NamingPcs
  <1>9. InodesOwned' BY <1>1, <1>3, <1>8 DEF Owned, InodesOwned
  <1>10. Known' = Known /\ Known = Linked \union lost \union Holder
    BY <1>1, <1>3, <1>5, <1>8 DEF Known
  <1>11. Known \subseteq Inodes
    BY <1>10 DEF Owned, InodesOwned, TypeInv, TypeOK
  <1>12. x \in Known
    <2>1. CASE op.kind = "rewrite" BY <1>10, <2>1 DEF IInv, OpInv, OpTarget
    <2>2. CASE op.kind # "rewrite"
      BY <1>1, <1>2, <1>10, <2>2 DEF Holder, Making, MakingPcs, NamingPcs
    <2> QED BY <2>1, <2>2
  <1>13. Settled' = Settled \union Pending
    <2>1. \A b : b \in Settled' <=>
             b \in MetaBlocks \/ (\E j \in Known : j # x /\ b \in Claims(j)) \/ b \in Claims(x)'
      BY <1>4, <1>10, <1>11, <1>12, SettledIsNext
    <2>2. \A b : b \in Settled <=>
             b \in MetaBlocks \/ (\E j \in Known : j # x /\ b \in Claims(j))
      BY <1>6, SettledIs
    <2> QED BY <1>5, <2>1, <2>2
  <1>14. ASSUME NEW i \in lost, NEW j \in Known, i # j
         PROVE  Claims(i)' \intersect Claims(j)' = {}
    <2>1. Claims(i) \intersect Claims(j) = {} BY <1>10, <1>14 DEF Owned, BlocksOwned
    <2>2. \A k \in Known : Claims(k) \intersect Pending = {}
      BY SettledIs DEF Owned, BlocksOwned
    <2>3. i \in Known /\ i \in Inodes /\ j \in Inodes BY <1>10, <1>11
    <2>4. CASE i = x BY <1>4, <1>5, <1>14, <2>2, <2>3, <2>4
    <2>5. CASE j = x BY <1>4, <1>5, <1>14, <2>2, <2>3, <2>5
    <2>6. CASE i # x /\ j # x BY <1>4, <2>1, <2>3, <2>6
    <2> QED BY <2>4, <2>5, <2>6
  <1>15. BlocksOwned'
    <2>1. bbm = Settled \union Pending BY <1>5 DEF Owned, BlocksOwned
    <2> QED BY <1>1, <1>3, <1>8, <1>10, <1>13, <1>14, <2>1 DEF BlocksOwned
  <1>16. BareInodes'
    <2>1. op'.pc \notin BarePcs BY <1>2, <1>7 DEF BarePcs
    <2> QED BY <1>1, <1>2, <1>4, <2>1, BareAway DEF Owned
  <1> QED BY <1>9, <1>15, <1>16 DEF Owned

LEMMA OwnedWriteDirBlock ==
    ASSUME TypeInv, TypeInv', IInv, Owned, WriteDirBlock
    PROVE  Owned'
  <1>t. op \in OpRec BY DEF TypeInv, TypeOK
  <1>1. op.pc = "write_dirblk" /\ UNCHANGED <<bbm, ibm, itab, lost>> BY DEF WriteDirBlock, At
  <1>2. op'.pc = "append" /\ op'.ino = op.ino /\ op'.kind = op.kind
    BY <1>t, GotoFacts DEF WriteDirBlock, Pcs
  <1>3. Holder' = Holder /\ BeingFreed' = BeingFreed /\ Pending' = Pending /\ MemBitmap' = MemBitmap
    BY <1>1, <1>2 DEF Holder, BeingFreed, Pending, Held, MemBitmap, MakingPcs, NamingPcs
  <1>4. Linked' = Linked BY WriteDirBlockInv
  <1>5. \A j : Claims(j)' = Claims(j) /\ (HasBlocks(j)' <=> HasBlocks(j))
    BY <1>1 DEF Claims, HasBlocks
  <1>6. (InodesOwned /\ BlocksOwned)' BY <1>1, <1>3, <1>4, <1>5, OwnedSame DEF Owned
  <1>7. BareInodes' BY <1>1, <1>2, <1>5, BareAway DEF Owned, BarePcs
  <1> QED BY <1>6, <1>7 DEF Owned

\* The record is in place: the inode passes from the handler to the directory.
LEMMA OwnedAppendDirent ==
    ASSUME TypeInv, TypeInv', IInv, Owned, AppendDirent
    PROVE  Owned'
  <1>t. op \in OpRec BY DEF TypeInv, TypeOK
  <1>i. Idle.pc = "idle" BY DEF Idle
  <1>1. op.pc = "append" /\ UNCHANGED <<bbm, ibm, itab, lost>> BY DEF AppendDirent, At
  <1>2. op'.pc \in {"idle", "link_parent"}
    BY <1>t, <1>i, GotoFacts DEF AppendDirent, AfterAppend, Return, Pcs
  <1>3. op.kind \in Making BY <1>1 DEF TypeInv, OpPath
  <1>4. Holder = {op.ino} /\ BeingFreed = {} /\ Pending = {} /\ MemBitmap = bbm
    BY <1>1, <1>3 DEF Holder, BeingFreed, Pending, Held, MemBitmap, MakingPcs, NamingPcs
  <1>5. Holder' = {} /\ BeingFreed' = {} /\ Pending' = {} /\ MemBitmap' = bbm
    BY <1>1, <1>2, NobodyHoldsNext
  <1>6. Linked' = Linked \union {op.ino} BY AppendDirentInv
  <1>7. \A j : Claims(j)' = Claims(j) /\ (HasBlocks(j)' <=> HasBlocks(j))
    BY <1>1 DEF Claims, HasBlocks
  <1>8. InodesOwned' BY <1>1, <1>4, <1>5, <1>6 DEF Owned, InodesOwned
  <1>9. Known' = Known BY <1>1, <1>4, <1>5, <1>6 DEF Known
  <1>10. Settled' = Settled BY <1>7, <1>9, SettledIs, SettledIsNext
  <1>11. BlocksOwned' BY <1>1, <1>4, <1>5, <1>6, <1>7, <1>10 DEF Owned, BlocksOwned
  <1>12. BareInodes' BY <1>1, <1>2, <1>7, BareAway DEF Owned, BarePcs
  <1> QED BY <1>8, <1>11, <1>12 DEF Owned

LEMMA OwnedGrowDir == ASSUME TypeInv, IInv, Owned, GrowDir PROVE Owned'
  <1> PICK b : b = Least(FreeBlocks(bbm)) OBVIOUS
  <1>t. op \in OpRec BY DEF TypeInv, TypeOK
  <1>1. b \in Blocks \ bbm BY ChoiceTypes DEF GrowDir, CanGrow
  <1>2. op.pc = "append" /\ bbm' = bbm \union {b} /\ UNCHANGED <<ibm, itab, dblk, lost>>
    BY DEF GrowDir, At
  <1>3. op'.pc = "grow_meta" /\ op'.ino = op.ino /\ op'.kind = op.kind /\ op'.extra = b
    BY <1>t DEF GrowDir, OpRec
  <1>4. op.kind \in Making BY <1>2 DEF TypeInv, OpPath
  <1>5. Holder = {op.ino} /\ BeingFreed = {} /\ Pending = {} /\ MemBitmap = bbm
    BY <1>2, <1>4 DEF Holder, BeingFreed, Pending, Held, MemBitmap, MakingPcs, NamingPcs
  <1>6. Holder' = {op.ino} /\ BeingFreed' = {} /\ Pending' = {b} /\ MemBitmap' = bbm \union {b}
    BY <1>2, <1>3, <1>4 DEF Holder, BeingFreed, Pending, Held, MemBitmap, MakingPcs, NamingPcs
  <1>7. Linked' = Linked /\ \A j : Claims(j)' = Claims(j) /\ (HasBlocks(j)' <=> HasBlocks(j))
    BY <1>2, QuietView
  <1>8. InodesOwned' BY <1>2, <1>5, <1>6, <1>7 DEF Owned, InodesOwned
  <1>9. Known' = Known BY <1>2, <1>5, <1>6, <1>7 DEF Known
  <1>10. Settled' = Settled BY <1>7, <1>9, SettledIs, SettledIsNext
  <1>11. BlocksOwned'
    BY <1>1, <1>2, <1>5, <1>6, <1>7, <1>10 DEF Owned, BlocksOwned
  <1>12. BareInodes' BY <1>2, <1>3, <1>7, BareAway DEF Owned, BarePcs
  <1> QED BY <1>8, <1>11, <1>12 DEF Owned

LEMMA OwnedWriteGrown == ASSUME TypeInv, TypeInv', IInv, Owned, WriteGrownBlock PROVE Owned'
  <1>t. op \in OpRec BY DEF TypeInv, TypeOK
  <1>1. op.pc = "grow_block" /\ UNCHANGED <<bbm, ibm, itab, lost>> BY DEF WriteGrownBlock, At
  <1>2. op'.pc = "grow_inode" /\ op'.ino = op.ino /\ op'.kind = op.kind /\ op'.extra = op.extra
    BY <1>t, GotoFacts DEF WriteGrownBlock, Pcs
  <1>3. Holder' = Holder /\ BeingFreed' = BeingFreed /\ Pending' = Pending /\ MemBitmap' = MemBitmap
    BY <1>1, <1>2 DEF Holder, BeingFreed, Pending, Held, MemBitmap, MakingPcs, NamingPcs
  <1>4. Linked' = Linked BY WriteGrownInv
  <1>5. \A j : Claims(j)' = Claims(j) /\ (HasBlocks(j)' <=> HasBlocks(j))
    BY <1>1 DEF Claims, HasBlocks
  <1>6. (InodesOwned /\ BlocksOwned)' BY <1>1, <1>3, <1>4, <1>5, OwnedSame DEF Owned
  <1>7. BareInodes' BY <1>1, <1>2, <1>5, BareAway DEF Owned, BarePcs
  <1> QED BY <1>6, <1>7 DEF Owned

\* The directory claims the block it grew by, and its record the new inode.
LEMMA OwnedLinkGrown == ASSUME TypeInv, TypeInv', IInv, Owned, LinkGrownBlock PROVE Owned'
  <1> PICK x : x = op.dir OBVIOUS
  <1> PICK e : e = op.extra OBVIOUS
  <1>t. op \in OpRec /\ x \in Inodes /\ e \in Blocks BY DEF TypeInv, TypeOK, OpRec
  <1>i. Idle.pc = "idle" BY DEF Idle
  <1>1. op.pc = "grow_inode" /\ UNCHANGED <<bbm, ibm, lost>> BY DEF LinkGrownBlock, At
  <1>2. op'.pc \in {"idle", "link_parent"}
    BY <1>t, <1>i, GotoFacts DEF LinkGrownBlock, AfterAppend, Return, Pcs
  <1>3. op.kind \in Making BY <1>1 DEF TypeInv, OpPath
  <1>4. Holder = {op.ino} /\ BeingFreed = {} /\ Pending = {e} /\ MemBitmap = bbm
    BY <1>1, <1>3 DEF Holder, BeingFreed, Pending, Held, MemBitmap, MakingPcs, NamingPcs
  <1>5. Holder' = {} /\ BeingFreed' = {} /\ Pending' = {} /\ MemBitmap' = bbm
    BY <1>1, <1>2, NobodyHoldsNext
  <1>6. Linked' = Linked \union {op.ino} /\ x \in Linked BY LinkGrownInv DEF IInv, OpInv, OpDir
  <1>7. itab[x].mode = "dir" BY <1>1 DEF IInv, OpInv, OpDir
  <1>8. /\ \A j \in Inodes : j # x => itab'[j] = itab[j]
        /\ itab'[x].mode = itab[x].mode /\ itab'[x].blks = Append(itab[x].blks, e)
    BY <1>t DEF LinkGrownBlock, TypeInv, TypeOK, InodeRec
  <1>9. itab[x].blks \in Seq(Nat) /\ e \in Nat BY <1>t, BlocksFinite DEF TypeInv, TypeOK, InodeRec
  <1>10. Claims(x)' = Claims(x) \union {e} BY <1>7, <1>8, <1>9, ElemsFacts DEF Claims
  <1>11. /\ \A j \in Inodes : j # x => Claims(j)' = Claims(j)
         /\ \A j \in Inodes : HasBlocks(j)' <=> HasBlocks(j)
    BY <1>8 DEF Claims, HasBlocks
  <1>12. InodesOwned' BY <1>1, <1>4, <1>5, <1>6 DEF Owned, InodesOwned
  <1>13. Known' = Known /\ Known = Linked \union lost \union Holder
    BY <1>1, <1>4, <1>5, <1>6 DEF Known
  <1>14. Known \subseteq Inodes /\ x \in Known
    BY <1>6, <1>13 DEF Owned, InodesOwned, TypeInv, TypeOK
  <1>15. Settled' = Settled \union {e}
    BY <1>10, <1>11, <1>13, <1>14, SettledIs, SettledIsNext
  <1>16. ASSUME NEW i \in lost, NEW j \in Known, i # j
         PROVE  Claims(i)' \intersect Claims(j)' = {}
    <2>1. Claims(i) \intersect Claims(j) = {} BY <1>13, <1>16 DEF Owned, BlocksOwned
    <2>2. \A k \in Known : e \notin Claims(k)
      BY <1>4, SettledIs DEF Owned, BlocksOwned
    <2>3. i \in Known /\ i \in Inodes /\ j \in Inodes BY <1>13, <1>14
    <2> QED BY <1>10, <1>11, <1>16, <2>1, <2>2, <2>3
  <1>17. BlocksOwned'
    <2>1. bbm = Settled \union {e} BY <1>4 DEF Owned, BlocksOwned
    <2>2. Linked' \union lost' \union Holder' = Known BY <1>1, <1>4, <1>5, <1>6, <1>13
    <2> QED BY <1>1, <1>5, <1>15, <1>16, <2>1, <2>2 DEF BlocksOwned
  <1>18. BareInodes' BY <1>1, <1>2, <1>11, BareAway DEF Owned, BarePcs
  <1> QED BY <1>12, <1>17, <1>18 DEF Owned

LEMMA OwnedLinkParent == ASSUME TypeInv, TypeInv', IInv, Owned, LinkParent PROVE Owned'
  <1>t. op \in OpRec /\ op.dir \in Inodes BY DEF TypeInv, TypeOK, OpRec
  <1>1. op.pc = "link_parent" /\ UNCHANGED <<bbm, ibm, lost>> BY DEF LinkParent, At
  <1>2. op'.pc = "dirs_meta" BY <1>t, GotoFacts DEF LinkParent, Pcs
  <1>3. Linked' = Linked BY LinkParentInv
  <1>4. \A j \in Inodes : itab'[j].mode = itab[j].mode /\ itab'[j].blks = itab[j].blks
    BY <1>t DEF LinkParent, TypeInv, TypeOK, InodeRec
  <1>5. \A j \in Inodes : Claims(j)' = Claims(j) /\ (HasBlocks(j)' <=> HasBlocks(j))
    BY <1>4 DEF Claims, HasBlocks
  <1>6. Linked \union lost \union Holder \subseteq Inodes
    BY DEF Owned, InodesOwned, TypeInv, TypeOK
  <1>7. (InodesOwned /\ BlocksOwned)'
    BY <1>1, <1>2, <1>3, <1>5, <1>6, NobodyHolds, NobodyHoldsNext, OwnedSame DEF Owned
  <1>8. BareInodes' BY <1>1, <1>2, <1>5, BareAway DEF Owned, BarePcs
  <1> QED BY <1>7, <1>8 DEF Owned


\* The append failed: mknod gives its inode back, the others lose theirs with the
\* blocks it claims.
LEMMA OwnedAppendFails == ASSUME TypeInv, IInv, Owned, AppendFails PROVE Owned'
  <1>t. op \in OpRec BY DEF TypeInv, TypeOK
  <1>1. op.pc = "append" BY DEF AppendFails, At
  <1>2. op.kind \in Making BY <1>1 DEF TypeInv, OpPath
  <1>3. Holder = {op.ino} /\ BeingFreed = {} /\ Pending = {} /\ MemBitmap = bbm
    BY <1>1, <1>2 DEF Holder, BeingFreed, Pending, Held, MemBitmap, MakingPcs, NamingPcs
  <1>4. op.ino \notin Reserved \union Linked /\ op.ino \in Inodes
    BY <1>1, <1>2 DEF IInv, OpInv, OpInode, MakingPcs, NamingPcs, TypeInv, TypeOK
  <1>w. itab[op.ino].mode \in (CASE op.kind = "create" -> {"reg"}
                                 [] op.kind = "mkdir" -> {"dir"}
                                 [] OTHER -> {"dev", "lnk"})
    BY <1>1 DEF IInv, OpInv, OpWritten, WrittenPcs
  <1>5. CASE op.kind = "mknod"
    <2>1. UNCHANGED <<bbm, ibm, itab, dblk, lost>> BY <1>5 DEF AppendFails, disk
    <2>2. op'.pc = "free_inode" /\ op'.kind = op.kind /\ op'.ino = op.ino
      BY <1>5, <1>t, GotoFacts DEF AppendFails, Pcs
    <2>3. Holder' = {op.ino} /\ BeingFreed' = {} /\ Pending' = {} /\ MemBitmap' = bbm
      BY <1>2, <2>1, <2>2 DEF Holder, BeingFreed, Pending, Held, MemBitmap, MakingPcs
    <2>4. Linked' = Linked /\ \A j : Claims(j)' = Claims(j) /\ (HasBlocks(j)' <=> HasBlocks(j))
      BY <2>1, QuietView
    <2>5. (InodesOwned /\ BlocksOwned)' BY <1>3, <2>1, <2>3, <2>4, OwnedSame DEF Owned
    <2>6. ~HasBlocks(op.ino) BY <1>5, <1>w DEF HasBlocks
    <2>7. BareInodes' BY <2>1, <2>2, <2>4, <2>6 DEF Owned, BareInodes
    <2> QED BY <2>5, <2>7 DEF Owned
  <1>6. CASE op.kind # "mknod"
    <2>1. \A j \in Linked : Claims(op.ino) \intersect Claims(j) = {}
      <3> SUFFICES ASSUME NEW j \in Linked, NEW b \in Claims(op.ino), b \in Claims(j)
                   PROVE  FALSE
        OBVIOUS
      <3>1. HasBlocks(op.ino) /\ HasBlocks(j) BY DEF Claims, HasBlocks
      <3>2. op.ino \in Owners
        <4>1. CASE op.kind = "create" BY <1>1, <4>1 DEF Owners, Active
        <4>2. CASE op.kind = "mkdir" BY <1>4, <1>w, <4>2 DEF Owners, DirInodes
        <4>3. CASE op.kind = "symlink" BY <1>w, <3>1, <4>3 DEF HasBlocks
        <4> QED BY <1>2, <1>6, <4>1, <4>2, <4>3 DEF Making
      <3>3. j \in Owners BY DEF Owners
      <3>4. \E p \in 1 .. Len(itab[op.ino].blks), q \in 1 .. Len(itab[j].blks) :
               itab[op.ino].blks[p] = itab[j].blks[q]
        BY <3>1 DEF Claims, HasBlocks, Elems
      <3>5. op.ino = j BY <3>1, <3>2, <3>3, <3>4 DEF IInv, DiskInv, OwnersDisjoint
      <3> QED BY <1>4, <3>5
    <2>2. bbm = Settled BY <1>3 DEF Owned, BlocksOwned
    <2> QED BY <1>3, <1>4, <1>6, <2>1, <2>2, LeakOwned DEF AppendFails
  <1> QED BY <1>5, <1>6

\* The record is gone: the inode passes from the directory to the handler.
LEMMA OwnedRemove == ASSUME TypeInv, TypeInv', IInv, Owned, RemoveDirent PROVE Owned'
  <1>t. op \in OpRec BY DEF TypeInv, TypeOK
  <1>1. op.pc = "remove" /\ op.kind = "unlink" /\ UNCHANGED <<bbm, ibm, itab, lost>>
    BY RemoveFacts DEF RemoveDirent
  <1>2. op'.pc = "release" /\ op'.kind = op.kind /\ op'.ino = op.ino
    BY <1>t, GotoFacts DEF RemoveDirent, Pcs
  <1>3. Holder = {} /\ BeingFreed = {} /\ Pending = {} /\ MemBitmap = bbm BY <1>1, NobodyHolds
  <1>4. Holder' = {op.ino} /\ BeingFreed' = {} /\ Pending' = {} /\ MemBitmap' = bbm
    BY <1>1, <1>2 DEF Holder, BeingFreed, Pending, Held, MemBitmap
  <1>5. Linked' = Linked \ {op.ino} /\ op.ino \in Linked BY RemoveDirentInv
  <1>6. \A j : Claims(j)' = Claims(j) /\ (HasBlocks(j)' <=> HasBlocks(j))
    BY <1>1 DEF Claims, HasBlocks
  <1>7. InodesOwned' BY <1>1, <1>3, <1>4, <1>5 DEF Owned, InodesOwned
  <1>8. Known' = Known BY <1>1, <1>3, <1>4, <1>5 DEF Known
  <1>9. Settled' = Settled BY <1>6, <1>8, SettledIs, SettledIsNext
  <1>10. BlocksOwned' BY <1>1, <1>3, <1>4, <1>5, <1>6, <1>9 DEF Owned, BlocksOwned
  <1>11. BareInodes' BY <1>1, <1>2, <1>6, BareAway DEF Owned, BarePcs
  <1> QED BY <1>7, <1>10, <1>11 DEF Owned

\* At release the handler still owns everything the inode claims.
LEMMA ReleaseFacts ==
    ASSUME TypeInv, IInv, Owned, op.pc = "release"
    PROVE  /\ op.kind \in Removing /\ op.ino \in Inodes /\ op.ino \in Linked \union Holder
           /\ op.ino \notin lost
           /\ Holder = (IF op.kind = "unlink" THEN {op.ino} ELSE {})
           /\ BeingFreed = {} /\ Pending = {} /\ MemBitmap = bbm /\ bbm = Settled
           /\ ~HasBlocks(op.ino) /\ Freed \subseteq Blocks => Freed = {}
           /\ HasBlocks(op.ino) => Freed = Claims(op.ino) \ {0} /\ Freed \subseteq Blocks
  <1>1. op.kind \in Removing BY DEF TypeInv, OpPath
  <1>2. /\ Holder = (IF op.kind = "unlink" THEN {op.ino} ELSE {})
        /\ BeingFreed = {} /\ Pending = {} /\ MemBitmap = bbm
    BY <1>1 DEF Holder, BeingFreed, Pending, Held, MemBitmap, Removing, Making
  <1>3. bbm = Settled BY <1>2 DEF Owned, BlocksOwned
  <1>4. op.ino \in Linked \union Holder
    BY <1>1, <1>2 DEF Removing, IInv, OpInv, OpTarget
  <1>5. op.ino \in Inodes /\ op.ino \notin lost
    BY <1>4 DEF Owned, InodesOwned, TypeInv, TypeOK
  <1>6. itab[op.ino].mode # "none"
    BY <1>1, <1>4, <1>2 DEF Removing, IInv, OpInv, OpTarget, DiskInv, LinkedWritten
  <1>7. ~HasBlocks(op.ino) /\ Freed \subseteq Blocks => Freed = {}
    <2> SUFFICES ASSUME ~HasBlocks(op.ino), Freed \subseteq Blocks PROVE Freed = {} OBVIOUS
    <2>1. itab[op.ino].mode \in {"dev", "lnk"}
      BY <1>5, <1>6 DEF HasBlocks, TypeInv, TypeOK, InodeRec, Modes
    <2>2. Elems(itab[op.ino].blks) \intersect Blocks \subseteq {0}
      BY <1>5, <2>1 DEF IInv, DiskInv, SpecialHarmless
    <2> QED BY <2>2 DEF Freed
  <1>8. HasBlocks(op.ino) => Freed = Claims(op.ino) \ {0} /\ Freed \subseteq Blocks
    BY <1>5 DEF HasBlocks, Freed, Claims, TypeInv, BlocksTyped
  <1> QED BY <1>1, <1>2, <1>3, <1>4, <1>5, <1>7, <1>8

LEMMA OwnedRelease == ASSUME TypeInv, IInv, Owned, ReleaseBlocks PROVE Owned'
  <1> PICK x : x = op.ino OBVIOUS
  <1>t. op \in OpRec BY DEF TypeInv, TypeOK
  <1>1. op.pc = "release" /\ Freed \subseteq Blocks /\ UNCHANGED <<bbm, ibm, itab, dblk, lost>>
    BY DEF ReleaseBlocks, At, disk
  <1>2. op'.pc = "free_commit" /\ op'.kind = op.kind /\ op'.ino = x /\ op'.bm = bbm \ Freed
    BY <1>t DEF ReleaseBlocks, OpRec
  <1>r. /\ op.kind \in Removing /\ x \in Linked \union Holder /\ x \notin lost
        /\ BeingFreed = {} /\ bbm = Settled
        /\ Holder = (IF op.kind = "unlink" THEN {x} ELSE {})
    BY <1>1, ReleaseFacts
  <1>3. Holder' = Holder /\ BeingFreed' = {x} /\ Pending' = {} /\ MemBitmap' = bbm \ Freed
    BY <1>1, <1>2, <1>r DEF Holder, BeingFreed, Pending, Held, MemBitmap, Removing, Making
  <1>4. Linked' = Linked /\ \A j : Claims(j)' = Claims(j) /\ (HasBlocks(j)' <=> HasBlocks(j))
    BY <1>1, QuietView
  <1>5. InodesOwned' BY <1>1, <1>3, <1>4 DEF Owned, InodesOwned
  <1>6. Known' = Known \ {x} /\ x \in Known /\ Known = Linked \union lost \union Holder
    BY <1>1, <1>3, <1>4, <1>r DEF Known
  <1>7. \A b \in Claims(x) : b \in Freed \/ b \in MetaBlocks
    BY <1>1, ReleaseFacts, BlockFacts DEF Claims, HasBlocks
  <1>8. Freed \intersect MetaBlocks = {} BY <1>1, FreedFacts
  <1>9. ASSUME NEW j \in Known \ {x} PROVE Claims(j) \intersect Freed = {}
    <2>1. CASE j \in lost
      <3>1. Claims(j) \intersect Claims(x) = {} BY <1>6, <2>1 DEF Owned, BlocksOwned
      <3>2. Freed \subseteq Claims(x) BY <1>1, ReleaseFacts
      <3> QED BY <3>1, <3>2
    <2>2. CASE j \notin lost
      <3>1. j \in Linked BY <1>6, <1>r, <1>9, <2>2
      <3> QED BY <1>1, <1>9, <3>1, FreedFacts DEF Owners
    <2> QED BY <2>1, <2>2
  <1>10. Settled' = bbm \ Freed
    <2>1. \A b : b \in Settled' <=> b \in MetaBlocks \/ \E j \in Known \ {x} : b \in Claims(j)
      BY <1>4, <1>6, SettledIsNext
    <2>2. \A b : b \in bbm <=> b \in MetaBlocks \/ \E j \in Known : b \in Claims(j)
      BY <1>r, SettledIs
    <2>3. ASSUME NEW b \in Settled' PROVE b \in bbm \ Freed
      BY <1>8, <1>9, <2>1, <2>2
    <2>4. ASSUME NEW b \in bbm \ Freed PROVE b \in Settled'
      BY <1>7, <2>1, <2>2
    <2> QED BY <2>3, <2>4
  <1>11. BlocksOwned' BY <1>1, <1>3, <1>4, <1>10 DEF Owned, BlocksOwned
  <1>12. BareInodes' BY <1>1, <1>2, <1>4, BareAway DEF Owned, BarePcs
  <1> QED BY <1>5, <1>11, <1>12 DEF Owned

LEMMA OwnedReleaseFails == ASSUME TypeInv, IInv, Owned, ReleaseFails PROVE Owned'
  <1>1. op.pc = "release" /\ ~(Freed \subseteq Blocks) BY DEF ReleaseFails, At
  <1>2. ~HasBlocks(op.ino) /\ Claims(op.ino) = {} BY <1>1, ReleaseFacts DEF HasBlocks, Claims
  <1>3. CASE op.kind = "unlink"
    <2>1. op.ino \notin Reserved \union Linked BY <1>1, <1>3 DEF IInv, OpInv, OpTarget
    <2> QED BY <1>1, <1>2, <1>3, <2>1, ReleaseFacts, LeakOwned DEF ReleaseFails
  <1>4. CASE op.kind # "unlink"
    BY <1>1, <1>4, ReleaseFacts, CleanOwned DEF ReleaseFails
  <1> QED BY <1>3, <1>4

\* The inode forgets the blocks that were given back.
LEMMA OwnedClearInode == ASSUME TypeInv, TypeInv', IInv, Owned, ClearInode PROVE Owned'
  <1> PICK x : x = op.ino OBVIOUS
  <1>t. op \in OpRec BY DEF TypeInv, TypeOK
  <1>i. Idle.pc = "idle" BY DEF Idle
  <1>1. op.pc = "clear_inode" /\ UNCHANGED <<bbm, ibm, dblk, lost>> BY DEF ClearInode, At
  <1>2. op.kind \in Removing BY <1>1 DEF TypeInv, OpPath
  <1>3. /\ Holder = (IF op.kind = "unlink" THEN {x} ELSE {})
        /\ BeingFreed = {x} /\ Pending = {} /\ MemBitmap = bbm
    BY <1>1, <1>2 DEF Holder, BeingFreed, Pending, Held, MemBitmap, Removing, Making
  <1>4. x \in Linked \union Holder
    BY <1>1, <1>2, <1>3 DEF Removing, IInv, OpInv, OpTarget
  <1>5. x \in Inodes /\ x \notin lost /\ x \in ibm
    BY <1>4 DEF Owned, InodesOwned, TypeInv, TypeOK
  <1>6. /\ op.kind = "unlink" => itab'[x] = ClearedInode
        /\ op.kind # "unlink" => itab'[x].blks = << >>
        /\ \A j \in Inodes : j # x => itab'[j] = itab[j]
    BY <1>5 DEF ClearInode, TypeInv, TypeOK, InodeRec
  <1>7. Claims(x)' = {} /\ (op.kind = "unlink" => ~HasBlocks(x)')
    <2>1. ClearedInode.mode = "none" BY DEF ClearedInode
    <2> QED BY <1>6, <2>1, ElemsFacts DEF Claims, HasBlocks
  <1>8. \A j \in Inodes : j # x => Claims(j)' = Claims(j) /\ (HasBlocks(j)' <=> HasBlocks(j))
    BY <1>6 DEF Claims, HasBlocks
  <1>9. Linked' = Linked BY ClearInodeDisk
  <1>10. /\ op.kind = "unlink" => op'.pc = "free_inode" /\ op'.kind = "unlink" /\ op'.ino = x
         /\ op.kind = "rewrite" => op'.pc = "alloc_data" /\ op'.kind = "rewrite" /\ op'.ino = x
                                     /\ op'.blks = op.blks
         /\ op.kind = "truncate" => op'.pc = "idle"
    BY <1>t, <1>i, GotoFacts DEF ClearInode, Return, Pcs
  <1>11. op.kind = "rewrite" => Elems(op.blks) = {}
    BY <1>1, ElemsFacts DEF IInv, OpInv, OpBlocks, FreshPcs
  <1>12. Holder' = Holder /\ BeingFreed' = {} /\ Pending' = {} /\ MemBitmap' = bbm
    <2>1. CASE op.kind = "truncate" BY <1>1, <1>3, <1>10, <2>1, NobodyHoldsNext
    <2>2. CASE op.kind = "unlink"
      BY <1>1, <1>3, <1>10, <2>2 DEF Holder, BeingFreed, Pending, Held, MemBitmap
    <2>3. CASE op.kind = "rewrite"
      <3>1. Elems(op'.blks) = {} BY <1>10, <1>11, <2>3
      <3>2. Holder' = {} BY <1>10, <2>3 DEF Holder, Making
      <3> QED BY <1>1, <1>3, <1>10, <2>3, <3>1, <3>2 DEF BeingFreed, Pending, Held, MemBitmap
    <2> QED BY <1>2, <2>1, <2>2, <2>3 DEF Removing
  <1>13. InodesOwned' BY <1>1, <1>9, <1>12 DEF Owned, InodesOwned
  <1>14. Known' = Known \union {x} /\ x \notin Known /\ Known \subseteq Inodes
    BY <1>1, <1>3, <1>4, <1>9, <1>12 DEF Known, Owned, InodesOwned, TypeInv, TypeOK
  <1>15. Settled' = Settled
    <2>1. \A b : (\E j \in Known' : b \in Claims(j)') <=> (\E j \in Known : b \in Claims(j))
      BY <1>7, <1>8, <1>14
    <2> QED BY <2>1, SettledIs, SettledIsNext
  <1>16. ASSUME NEW i \in lost, NEW j \in Linked \union lost \union Holder, i # j
         PROVE  Claims(i)' \intersect Claims(j)' = {}
    <2>1. Claims(i) \intersect Claims(j) = {} BY <1>16 DEF Owned, BlocksOwned
    <2>2. i \in Inodes /\ j \in Inodes BY DEF Owned, InodesOwned, TypeInv, TypeOK
    <2> QED BY <1>5, <1>7, <1>8, <2>1, <2>2
  <1>17. BlocksOwned'
    <2>1. bbm = Settled BY <1>3 DEF Owned, BlocksOwned
    <2> QED BY <1>1, <1>9, <1>12, <1>15, <1>16, <2>1 DEF BlocksOwned
  <1>18. BareInodes'
    BY <1>1, <1>2, <1>5, <1>7, <1>8, <1>10 DEF Owned, BareInodes, Removing, Making
  <1> QED BY <1>13, <1>17, <1>18 DEF Owned

LEMMA OwnedFreeInode == ASSUME TypeInv, IInv, Owned, FreeInode PROVE Owned'
  <1> PICK x : x = op.ino OBVIOUS
  <1>t. op \in OpRec BY DEF TypeInv, TypeOK
  <1>1. op.pc = "free_inode" /\ ibm' = ibm \ {x} /\ UNCHANGED <<bbm, itab, dblk, lost>>
    BY DEF FreeInode, At
  <1>2. op.kind \in {"unlink", "mknod"} BY <1>1 DEF TypeInv, OpPath
  <1>3. op'.pc = "free_meta" BY <1>t, GotoFacts DEF FreeInode, Pcs
  <1>4. Holder = {x} /\ BeingFreed = {} /\ Pending = {} /\ MemBitmap = bbm
    BY <1>1, <1>2 DEF Holder, BeingFreed, Pending, Held, MemBitmap, Making, MakingPcs
  <1>5. Holder' = {} /\ BeingFreed' = {} /\ Pending' = {} /\ MemBitmap' = bbm
    BY <1>1, <1>3, NobodyHoldsNext
  <1>6. x \notin Linked /\ x \notin Reserved
    BY <1>1, <1>2 DEF IInv, OpInv, OpInode, OpTarget, Making, MakingPcs
  <1>7. Linked' = Linked /\ \A j : Claims(j)' = Claims(j) /\ (HasBlocks(j)' <=> HasBlocks(j))
    BY <1>1, QuietView
  <1>8. ~HasBlocks(x) /\ Claims(x) = {} BY <1>1 DEF Owned, BareInodes, HasBlocks, Claims
  <1>9. x \notin lost BY <1>4 DEF Owned, InodesOwned
  <1>10. InodesOwned' BY <1>1, <1>4, <1>5, <1>6, <1>7, <1>9 DEF Owned, InodesOwned
  <1>11. Known' = Known \ {x} BY <1>1, <1>4, <1>5, <1>6, <1>7, <1>9 DEF Known
  <1>12. Settled' = Settled BY <1>7, <1>8, <1>11, SettledIs, SettledIsNext
  <1>13. BlocksOwned' BY <1>1, <1>4, <1>5, <1>7, <1>12 DEF Owned, BlocksOwned
  <1>14. BareInodes' BY <1>1, <1>3, <1>7, <1>8 DEF Owned, BareInodes, Making
  <1> QED BY <1>10, <1>13, <1>14 DEF Owned


------------------------------------------------------------------------------
(* What mkfs.ext2 counts                                                     *)

\* Division with remainder.
LEMMA DivMod ==
    ASSUME NEW k \in Nat \ {0}
    PROVE  /\ \A g \in Nat, r \in 0 .. k - 1 : (g * k + r) \div k = g /\ (g * k + r) % k = r
           /\ \A n \in Nat : n \div k \in Nat /\ n % k \in 0 .. k - 1 /\ n = (n \div k) * k + (n % k)
  <1>1. ASSUME NEW n \in Nat
        PROVE  n \div k \in Nat /\ n % k \in 0 .. k - 1 /\ n = (n \div k) * k + (n % k)
    OBVIOUS
  <1>2. ASSUME NEW g \in Nat, NEW r \in 0 .. k - 1
        PROVE  (g * k + r) \div k = g /\ (g * k + r) % k = r
    OBVIOUS
  <1> QED BY <1>1, <1>2

\* The metadata of a group leaves room in it.
LEMMA MetaRoom ==
    /\ DataRel < BlocksPerGroup
    /\ \A g \in Groups : /\ g \in Nat /\ g * BlocksPerGroup \in Nat
                         /\ g * BlocksPerGroup <= (GroupCount - 1) * BlocksPerGroup
  <1>1. GroupCount * BlocksPerGroup = (GroupCount - 1) * BlocksPerGroup + BlocksPerGroup
        /\ (GroupCount - 1) * BlocksPerGroup \in Nat
    BY GeometryAssumption
  <1>2. DataRel < BlocksPerGroup BY <1>1, GeometryAssumption
  <1>3. \A a, b, c \in Nat : a <= b => a * c <= b * c OBVIOUS
  <1>4. \A g \in Groups : g \in Nat /\ g <= GroupCount - 1 BY GeometryAssumption DEF Groups
  <1> QED BY <1>2, <1>3, <1>4, GeometryAssumption

\* There are GroupCount * DataRel metadata blocks.
LEMMA MetaCount == IsFiniteSet(MetaBlocks) /\ Cardinality(MetaBlocks) = GroupCount * DataRel
  <1> DEFINE R == 0 .. DataRel - 1
             P == Groups \X R
             f == [p \in P |-> p[1] * BlocksPerGroup + p[2]]
  <1>1. IsFiniteSet(Groups) /\ Cardinality(Groups) = GroupCount
    BY FS_Interval, GeometryAssumption DEF Groups
  <1>2. IsFiniteSet(R) /\ Cardinality(R) = DataRel BY FS_Interval, GeometryAssumption
  <1>3. IsFiniteSet(P) /\ Cardinality(P) = GroupCount * DataRel BY <1>1, <1>2, FS_Product
  <1>4. ASSUME NEW g \in Groups, NEW r \in R
        PROVE  /\ g * BlocksPerGroup + r \in MetaBlocks
               /\ (g * BlocksPerGroup + r) \div BlocksPerGroup = g
               /\ (g * BlocksPerGroup + r) % BlocksPerGroup = r
    <2>1. g \in Nat /\ r \in 0 .. BlocksPerGroup - 1 /\ r < DataRel
          /\ g * BlocksPerGroup + r \in 0 .. BlocksCount - 1
      BY MetaRoom, GeometryAssumption
    <2>2. /\ (g * BlocksPerGroup + r) \div BlocksPerGroup = g
          /\ (g * BlocksPerGroup + r) % BlocksPerGroup = r
      BY <2>1, DivMod, GeometryAssumption
    <2> QED BY <2>1, <2>2 DEF MetaBlocks, Blocks
  <1>5. \A p \in P : p = <<p[1], p[2]>> /\ p[1] \in Groups /\ p[2] \in R OBVIOUS
  <1>6. f \in [P -> MetaBlocks] BY <1>4, <1>5
  <1>7. ASSUME NEW p \in P, NEW q \in P, f[p] = f[q] PROVE p = q
    <2>1. f[p] = p[1] * BlocksPerGroup + p[2] /\ f[q] = q[1] * BlocksPerGroup + q[2] OBVIOUS
    <2>2. p[1] = q[1] /\ p[2] = q[2] BY <1>4, <1>5, <1>7, <2>1
    <2> QED BY <1>5, <2>2
  <1>8. ASSUME NEW b \in MetaBlocks PROVE \E p \in P : f[p] = b
    <2>1. b \in Blocks /\ b \in Nat /\ b % BlocksPerGroup < DataRel
      BY BlocksFinite DEF MetaBlocks
    <2>2. b \div BlocksPerGroup \in Groups BY <2>1, BlockGroupType DEF BlockGroup
    <2>3. b % BlocksPerGroup \in R /\ b = (b \div BlocksPerGroup) * BlocksPerGroup + (b % BlocksPerGroup)
      BY <2>1, DivMod, GeometryAssumption
    <2>4. <<b \div BlocksPerGroup, b % BlocksPerGroup>> \in P BY <2>2, <2>3
    <2>5. f[<<b \div BlocksPerGroup, b % BlocksPerGroup>>] = b BY <2>3, <2>4
    <2> QED BY <2>4, <2>5
  <1> HIDE DEF f, P
  <1>9. ExistsBijection(P, MetaBlocks)
    BY <1>6, <1>7, <1>8 DEF ExistsBijection, Bijection, Injection, Surjection, IsInjective
  <1> QED BY <1>3, <1>9, FS_Bijection


\* The data blocks of a group, and the inodes of a group, are intervals.
LEMMA GroupData ==
    ASSUME NEW g \in Groups
    PROVE  Cardinality(GroupBlocks(g) \ MetaBlocks) = GroupBlockCount(g) - DataRel
  <1> DEFINE k == BlocksPerGroup
             lo == g * k
             n == GroupBlockCount(g)
  <1>0. k \in Nat \ {0} /\ BlocksCount \in Nat /\ DataRel \in Nat BY GeometryAssumption
  <1>1. g \in Nat /\ lo \in Nat /\ DataRel < k BY MetaRoom
  <1>2. n \in Nat /\ n > DataRel /\ n <= k /\ lo + n <= BlocksCount
        /\ (n = k \/ lo + n = BlocksCount)
    BY <1>0, <1>1, GroupRoom DEF GroupBlockCount, Groups
  <1> HIDE DEF n
  <1>3. ASSUME NEW b \in GroupBlocks(g) \ MetaBlocks PROVE b \in lo + DataRel .. lo + n - 1
    <2>1. b \in Nat /\ b < BlocksCount /\ b \div k = g /\ ~(b % k < DataRel)
      BY <1>0 DEF GroupBlocks, MetaBlocks, Blocks, BlockGroup
    <2>2. b % k \in 0 .. k - 1 /\ b = (b \div k) * k + (b % k) BY <1>0, <2>1, DivMod
    <2>3. b = lo + (b % k) BY <2>1, <2>2
    <2> HIDE DEF lo
    <2> QED BY <1>0, <1>1, <1>2, <2>1, <2>2, <2>3
  <1>4. ASSUME NEW b \in lo + DataRel .. lo + n - 1 PROVE b \in GroupBlocks(g) \ MetaBlocks
    <2>1. PICK r \in 0 .. k - 1 : b = lo + r /\ r >= DataRel
      <3> HIDE DEF lo
      <3>1. b - lo \in 0 .. k - 1 /\ b = lo + (b - lo) /\ b - lo >= DataRel BY <1>0, <1>1, <1>2
      <3> QED BY <3>1
    <2>2. b \div k = g /\ b % k = r BY <1>0, <1>1, <2>1, DivMod
    <2>3. b \in Blocks
      <3> HIDE DEF lo
      <3> QED BY <1>0, <1>1, <1>2 DEF Blocks
    <2> QED BY <1>0, <2>1, <2>2, <2>3 DEF GroupBlocks, MetaBlocks, BlockGroup
  <1>5. GroupBlocks(g) \ MetaBlocks = lo + DataRel .. lo + n - 1 BY <1>3, <1>4
  <1> HIDE DEF lo
  <1>6. Cardinality(lo + DataRel .. lo + n - 1) = n - DataRel
    <2>1. lo + DataRel \in Int /\ lo + n - 1 \in Int BY <1>0, <1>1, <1>2
    <2>2. Cardinality(lo + DataRel .. lo + n - 1) =
            IF lo + DataRel > lo + n - 1 THEN 0 ELSE (lo + n - 1) - (lo + DataRel) + 1
      BY <2>1, FS_Interval
    <2> QED BY <1>0, <1>1, <1>2, <2>2
  <1> QED BY <1>5, <1>6 DEF n

LEMMA GroupTable ==
    ASSUME NEW g \in Groups
    PROVE  /\ GroupInodes(g) = g * InodesPerGroup + 1 .. g * InodesPerGroup + InodesPerGroup
           /\ Cardinality(GroupInodes(g) \ Reserved) =
                InodesPerGroup - (IF g = 0 THEN FirstIno - 1 ELSE 0)
  <1> DEFINE k == InodesPerGroup
             lo == g * k
  <1>0. k \in Nat \ {0} /\ GroupCount \in Nat \ {0} /\ FirstIno \in Nat /\ FirstIno <= k + 1
        /\ 2 < FirstIno
    BY GeometryAssumption
  <1>1. g \in Nat /\ g <= GroupCount - 1 /\ lo \in Nat BY <1>0 DEF Groups
  <1>2. lo + k <= GroupCount * k
    <2>1. \A a, b, c \in Nat : a <= b => a * c <= b * c OBVIOUS
    <2>2. (g + 1) * k <= GroupCount * k BY <1>0, <1>1, <2>1
    <2>3. (g + 1) * k = lo + k BY <1>0, <1>1
    <2> QED BY <2>2, <2>3
  <1>3. ASSUME NEW i \in GroupInodes(g) PROVE i \in lo + 1 .. lo + k
    <2>1. i - 1 \in Nat /\ (i - 1) \div k = g BY <1>0 DEF GroupInodes, Inodes, InodeGroup
    <2>2. (i - 1) % k \in 0 .. k - 1 /\ i - 1 = ((i - 1) \div k) * k + ((i - 1) % k)
      BY <1>0, <2>1, DivMod
    <2>3. i - 1 = lo + ((i - 1) % k) BY <2>1, <2>2
    <2>4. i \in Int BY DEF GroupInodes, Inodes
    <2> HIDE DEF lo
    <2> QED BY <1>0, <1>1, <2>2, <2>3, <2>4
  <1>4. ASSUME NEW i \in lo + 1 .. lo + k PROVE i \in GroupInodes(g)
    <2>1. PICK r \in 0 .. k - 1 : i - 1 = lo + r
      <3> HIDE DEF lo
      <3>1. i - 1 - lo \in 0 .. k - 1 /\ i - 1 = lo + (i - 1 - lo) BY <1>0, <1>1
      <3> QED BY <3>1
    <2>2. (i - 1) \div k = g
      <3>1. (g * k + r) \div k = g BY <1>0, <1>1, DivMod
      <3> QED BY <2>1, <3>1
    <2>3. i \in Inodes
      <3> HIDE DEF lo
      <3>1. GroupCount * k \in Nat BY <1>0
      <3> QED BY <1>0, <1>1, <1>2, <3>1 DEF Inodes
    <2> QED BY <2>2, <2>3 DEF GroupInodes, InodeGroup
  <1>5. GroupInodes(g) = lo + 1 .. lo + k BY <1>3, <1>4
  <1>6. Cardinality(GroupInodes(g) \ Reserved) = k - (IF g = 0 THEN FirstIno - 1 ELSE 0)
    <2>1. CASE g = 0
      <3>1. lo = 0 BY <1>0, <2>1
      <3>2. GroupInodes(g) \ Reserved = FirstIno .. k BY <1>0, <1>5, <3>1 DEF Reserved
      <3>3. Cardinality(FirstIno .. k) = IF FirstIno > k THEN 0 ELSE k - FirstIno + 1
        BY <1>0, FS_Interval
      <3>4. Cardinality(GroupInodes(g) \ Reserved) = Cardinality(FirstIno .. k) BY <3>2, Zenon
      <3> QED BY <1>0, <2>1, <3>3, <3>4
    <2>2. CASE g # 0
      <3>1. lo >= k
        <4>1. \A a, b, c \in Nat : a <= b => a * c <= b * c OBVIOUS
        <4>2. 1 * k <= g * k BY <1>0, <1>1, <2>2, <4>1
        <4> QED BY <1>0, <4>2
      <3> HIDE DEF lo
      <3>2. GroupInodes(g) \ Reserved = lo + 1 .. lo + k BY <1>0, <1>1, <1>5, <3>1 DEF Reserved
      <3>3. Cardinality(lo + 1 .. lo + k) = IF lo + 1 > lo + k THEN 0 ELSE (lo + k) - (lo + 1) + 1
        BY <1>0, <1>1, FS_Interval
      <3>4. Cardinality(GroupInodes(g) \ Reserved) = Cardinality(lo + 1 .. lo + k) BY <3>2, Zenon
      <3> QED BY <1>0, <1>1, <2>2, <3>3, <3>4
    <2> QED BY <2>1, <2>2
  <1> QED BY <1>5, <1>6

\* mkfs_ext2_core computes the counters it writes; they are what the bitmaps say.
LEMMA MkfsCounts ==
    /\ CountBlocks(MkfsCounters, MetaBlocks \union {RootBlock})
    /\ CountInodes(MkfsCounters, Reserved)
  <1> DEFINE c == MkfsCounters
  <1>0. /\ c.sbB = BlocksCount - GroupCount * DataRel - 1
        /\ c.sbI = GroupCount * InodesPerGroup - (FirstIno - 1)
        /\ \A g \in Groups :
             /\ c.gB[g] = GroupBlockCount(g) - DataRel - (IF g = 0 THEN 1 ELSE 0)
             /\ c.gI[g] = InodesPerGroup - (IF g = 0 THEN FirstIno - 1 ELSE 0)
    BY DEF MkfsCounters
  <1> HIDE DEF c
  <1>1. c.sbB = Cardinality(Blocks \ (MetaBlocks \union {RootBlock}))
    <2>1. Cardinality(Blocks) = BlocksCount
      BY FS_Interval, GeometryAssumption DEF Blocks
    <2>2. Blocks \intersect MetaBlocks = MetaBlocks BY DEF MetaBlocks
    <2>3. Cardinality(Blocks \ MetaBlocks) = BlocksCount - GroupCount * DataRel
      <3>1. Cardinality(Blocks \ MetaBlocks) =
              Cardinality(Blocks) - Cardinality(Blocks \intersect MetaBlocks)
        BY BlocksFinite, FS_Difference
      <3>2. Cardinality(Blocks \intersect MetaBlocks) = GroupCount * DataRel BY <2>2, MetaCount, Zenon
      <3> QED BY <2>1, <3>1, <3>2
    <2>4. Cardinality(Blocks \ (MetaBlocks \union {RootBlock})) = Cardinality(Blocks \ MetaBlocks) - 1
      BY BlockFacts, BlocksFinite, CardTake
    <2> QED BY <1>0, <2>3, <2>4
  <1>2. ASSUME NEW g \in Groups
        PROVE  c.gB[g] = Cardinality(GroupBlocks(g) \ (MetaBlocks \union {RootBlock}))
    <2>0. RootBlock \in Nat /\ BlockGroup(RootBlock) = 0
      <3>1. DataRel \in 0 .. BlocksPerGroup - 1 /\ BlocksPerGroup \in Nat \ {0}
        BY MetaRoom, GeometryAssumption
      <3>2. 0 * BlocksPerGroup + DataRel = DataRel BY <3>1
      <3>3. DataRel \div BlocksPerGroup = 0 BY <3>1, <3>2, DivMod
      <3> QED BY <3>1, <3>3 DEF RootBlock, BlockGroup
    <2>1. CASE g = 0
      <3>1. RootBlock \in GroupBlocks(g) \ MetaBlocks BY <2>0, <2>1, BlockFacts, GroupsFinite
      <3>2. Cardinality(GroupBlocks(g) \ (MetaBlocks \union {RootBlock})) =
              Cardinality(GroupBlocks(g) \ MetaBlocks) - 1
        BY <3>1, GroupsFinite, CardTake
      <3> QED BY <1>0, <2>1, <3>2, GroupData
    <2>2. CASE g # 0
      <3>1. GroupBlocks(g) \ (MetaBlocks \union {RootBlock}) = GroupBlocks(g) \ MetaBlocks
        BY <2>0, <2>2, BlockFacts, GroupsFinite
      <3>2. GroupBlockCount(g) - DataRel \in Int BY GroupRoom, GeometryAssumption DEF Groups
      <3> QED BY <1>0, <2>2, <3>1, <3>2, GroupData
    <2> QED BY <2>1, <2>2
  <1>3. c.sbI = Cardinality(Inodes \ Reserved)
    <2> DEFINE n == GroupCount * InodesPerGroup
    <2>1. n \in Nat /\ n >= FirstIno - 1 BY MkfsRoom, GeometryAssumption
    <2>2. FirstIno \in Nat /\ 2 < FirstIno BY GeometryAssumption
    <2>3. Inodes = 1 .. n BY DEF Inodes
    <2> HIDE DEF n
    <2>4. Inodes \ Reserved = FirstIno .. n BY <2>1, <2>2, <2>3 DEF Reserved
    <2>5. Cardinality(FirstIno .. n) = IF FirstIno > n THEN 0 ELSE n - FirstIno + 1
      BY <2>1, <2>2, FS_Interval
    <2>6. c.sbI = n - (FirstIno - 1) BY <1>0 DEF n
    <2>7. Cardinality(Inodes \ Reserved) = Cardinality(FirstIno .. n) BY <2>4, Zenon
    <2> QED BY <2>1, <2>2, <2>5, <2>6, <2>7
  <1>4. \A g \in Groups : c.gI[g] = Cardinality(GroupInodes(g) \ Reserved) BY <1>0, GroupTable
  <1> QED BY <1>1, <1>2, <1>3, <1>4 DEF CountBlocks, CountInodes, c


------------------------------------------------------------------------------
(* The invariant                                                             *)

\* A fresh image holds the root directory and nothing else.
LEMMA InitView ==
    ASSUME Init
    PROVE  /\ Linked = {Root} /\ LinkedDirs = {Root} /\ DirInodes = {Root}
           /\ Claims(Root) = {RootBlock}
           /\ \A i \in Inodes : i # Root => ~HasBlocks(i)
  <1>1. TypeInv BY TypeInit
  <1>2. /\ \A i \in Inodes : i # Root => itab[i].mode = "none"
        /\ itab[Root].mode = "dir" /\ itab[Root].blks = <<RootBlock>>
    BY RootFacts DEF Init, ClearedInode
  <1>3. DirInodes = {Root} BY <1>2, RootFacts DEF DirInodes
  <1>4. dblk[RootBlock] = DotBlock(Root, Root) BY BlockFacts DEF Init
  <1>5. FreeSlot.name = "" BY DEF FreeSlot
  <1>6. ASSUME NEW s \in Slots PROVE dblk[RootBlock][s].name \notin Names
    <2>1. \/ dblk[RootBlock][s] = [ino |-> Root, name |-> "."]
          \/ dblk[RootBlock][s] = [ino |-> Root, name |-> ".."]
          \/ dblk[RootBlock][s] = FreeSlot
      BY <1>4 DEF DotBlock
    <2>2. CASE dblk[RootBlock][s] = [ino |-> Root, name |-> "."]
      <3>1. dblk[RootBlock][s].name = "." BY <2>2
      <3> QED BY <3>1, NamesAssumption
    <2>3. CASE dblk[RootBlock][s] = [ino |-> Root, name |-> ".."]
      <3>1. dblk[RootBlock][s].name = ".." BY <2>3
      <3> QED BY <3>1, NamesAssumption
    <2>4. CASE dblk[RootBlock][s] = FreeSlot BY <1>5, <2>4, NamesAssumption
    <2> QED BY <2>1, <2>2, <2>3, <2>4
  <1>7. \A k \in 1 .. Len(itab[Root].blks), s \in Slots : ~Live(Root, k, s)
    <2>1. \A k \in 1 .. Len(itab[Root].blks) : itab[Root].blks[k] = RootBlock BY <1>2
    <2> QED BY <1>6, <2>1 DEF Live, Rec
  <1>8. Linked = {Root}
    <2>1. \A i : i \in Linked <=> i = Root BY <1>1, <1>3, <1>7, LinkedIs
    <2> QED BY <2>1
  <1>9. LinkedDirs = {Root} BY <1>2, <1>8 DEF LinkedDirs
  <1> QED BY <1>2, <1>3, <1>8, <1>9, ElemsFacts DEF Claims, HasBlocks

LEMMA CountInit == Init => CountInv
  <1> SUFFICES ASSUME Init PROVE CountInv OBVIOUS
  <1>1. op.pc = "idle" /\ op.kind = "none" BY DEF Init, Idle
  <1>2. Holder = {} /\ BeingFreed = {} /\ Pending = {} /\ MemBitmap = bbm BY <1>1, NobodyHolds
  <1>3. bbm = MetaBlocks \union {RootBlock} /\ ibm = Reserved /\ lost = {}
        /\ m = MkfsCounters /\ cnt = MkfsCounters
    BY DEF Init
  <1>4. Counted
    BY <1>1, <1>2, <1>3, MkfsCounts
       DEF Counted, MemCounted, DiskCounted, CommitKnown
  <1>5. DirsCounted
    <2>1. InodeGroup(Root) = 0
      <3>1. 1 \in 0 .. InodesPerGroup - 1 /\ InodesPerGroup \in Nat \ {0} BY GeometryAssumption
      <3>2. 0 * InodesPerGroup + 1 = 1 BY <3>1
      <3>3. 1 \div InodesPerGroup = 0 BY <3>1, <3>2, DivMod
      <3> QED BY <3>3 DEF InodeGroup, Root
    <2>2. ASSUME NEW g \in Groups
          PROVE  Cardinality(LinkedDirs \intersect GroupInodes(g)) = m.gD[g] + 0
      <3>1. m.gD[g] = IF g = 0 THEN 1 ELSE 0 BY <1>3 DEF MkfsCounters
      <3>2. CASE g = 0
        <4>1. LinkedDirs \intersect GroupInodes(g) = {Root}
          BY <2>1, <3>2, InitView, RootFacts, GroupsFinite
        <4>2. Cardinality({Root}) = 1 BY FS_Singleton
        <4> QED BY <3>1, <3>2, <4>1, <4>2
      <3>3. CASE g # 0
        <4>1. LinkedDirs \intersect GroupInodes(g) = {}
          BY <2>1, <3>3, InitView, RootFacts, GroupsFinite
        <4> QED BY <3>1, <3>3, <4>1, FS_EmptySet
      <3> QED BY <3>2, <3>3
    <2> QED BY <1>1, <1>3, <2>2 DEF DirsCounted
  <1>6. InodesOwned BY <1>2, <1>3, InitView, RootFacts DEF InodesOwned
  <1>7. BlocksOwned
    <2>1. Known = {Root} BY <1>2, <1>3, InitView DEF Known
    <2>2. Settled = bbm BY <1>3, <2>1, InitView, SettledIs
    <2> QED BY <1>2, <1>3, <2>2 DEF BlocksOwned
  <1>8. BareInodes BY <1>1, <1>3, InitView, RootFacts DEF BareInodes, Making
  <1> QED BY <1>4, <1>5, <1>6, <1>7, <1>8 DEF CountInv, Owned

LEMMA OwnedStep ==
    ASSUME Harmless, TypeInv, TypeInv', IInv, Counted, Owned, Step
    PROVE  Owned'
  <1>t. CommitKnown BY DEF Counted
  <1>1. CASE AllocInode BY <1>1, OwnedAllocInode
  <1>2. CASE AllocInodeFails
    <2>1. op.pc = "alloc_inode" /\ FailClean BY <1>2 DEF AllocInodeFails, At
    <2>2. bbm = Settled BY <2>1, NobodyHolds DEF Owned, BlocksOwned
    <2> QED BY <2>1, <2>2, NobodyHolds, CleanOwned
  <1>3. CASE StoreMeta BY <1>3, <1>t, OwnedStoreMeta
  <1>4. CASE AllocBlock BY <1>4, OwnedAllocBlock
  <1>5. CASE AllocBlockFails
    <2>1. op.pc = "alloc_block" /\ FailAndLeak BY <1>5 DEF AllocBlockFails, At
    <2>2. op.kind = "mkdir" BY <2>1 DEF TypeInv, OpPath
    <2>3. Holder = {op.ino} /\ BeingFreed = {} /\ Pending = {} /\ MemBitmap = bbm
      BY <2>1, <2>2 DEF Holder, BeingFreed, Pending, Held, MemBitmap, MakingPcs, NamingPcs, Making
    <2>4. bbm = Settled BY <2>3 DEF Owned, BlocksOwned
    <2>5. Claims(op.ino) = {}
      BY <2>1, <2>2 DEF Owned, BareInodes, HasBlocks, Claims, Making
    <2>6. op.ino \notin Reserved \union Linked
      BY <2>1, <2>2 DEF IInv, OpInv, OpInode, Making, MakingPcs, NamingPcs
    <2> QED BY <2>1, <2>3, <2>4, <2>5, <2>6, LeakOwned
  <1>6. CASE AllocBlockCtx BY <1>6, OwnedAllocCtx
  <1>7. CASE AllocDataFails BY <1>7, OwnedDataFails
  <1>8. CASE WriteData BY <1>8, OwnedWriteData
  <1>9. CASE WriteBitmap BY <1>9, OwnedWriteBitmap
  <1>10. CASE WriteInode BY <1>10, OwnedWriteInode
  <1>11. CASE WriteDirBlock BY <1>11, OwnedWriteDirBlock
  <1>12. CASE AppendDirent BY <1>12, OwnedAppendDirent
  <1>13. CASE GrowDir BY <1>13, OwnedGrowDir
  <1>14. CASE WriteGrownBlock BY <1>14, OwnedWriteGrown
  <1>15. CASE LinkGrownBlock BY <1>15, OwnedLinkGrown
  <1>16. CASE AppendFails BY <1>16, OwnedAppendFails
  <1>17. CASE LinkParent BY <1>17, OwnedLinkParent
  <1>18. CASE RemoveDirent BY <1>18, OwnedRemove
  <1>19. CASE ReleaseBlocks BY <1>19, OwnedRelease
  <1>20. CASE ReleaseFails BY <1>20, OwnedReleaseFails
  <1>21. CASE ClearInode BY <1>21, OwnedClearInode
  <1>22. CASE FreeInode BY <1>22, OwnedFreeInode
  <1> QED BY <1>1, <1>2, <1>3, <1>4, <1>5, <1>6, <1>7, <1>8, <1>9, <1>10, <1>11, <1>12, <1>13,
             <1>14, <1>15, <1>16, <1>17, <1>18, <1>19, <1>20, <1>21, <1>22 DEF Step

\* Only a crash sets crashed, and nothing resets it.
LEMMA CrashedStays == ASSUME [Next]_vars PROVE crashed => crashed'
  BY DEF Next, Start, Create, Mkdir, Mknod, Symlink, Unlink, Truncate, WriteExisting, Begin, Step,
         AllocInode, AllocInodeFails, StoreMeta, AllocBlock, AllocBlockFails, AllocBlockCtx,
         AllocDataFails, WriteData, WriteBitmap, WriteInode, WriteDirBlock, AppendDirent, GrowDir,
         WriteGrownBlock, LinkGrownBlock, AppendFails, LinkParent, RemoveDirent, ReleaseBlocks,
         ReleaseFails, ClearInode, FreeInode, FailAndLeak, FailClean, Crash, vars

LEMMA CountNext ==
    ASSUME Harmless, TypeInv, TypeInv', IInv, CountInv, [Next]_vars
    PROVE  CountInv'
  <1> SUFFICES ASSUME ~crashed' PROVE (Counted /\ DirsCounted /\ Owned)'
    BY DEF CountInv
  <1>0. ~crashed /\ Counted /\ DirsCounted /\ Owned BY CrashedStays DEF CountInv
  <1>1. CASE Start BY <1>0, <1>1, CountedStart, DirsStart, OwnedStart
  <1>2. CASE Step BY <1>0, <1>2, CountedStep, DirsStep, OwnedStep
  <1>3. CASE Crash BY <1>3 DEF Crash
  <1>4. CASE UNCHANGED vars
    <2> USE <1>4 DEF vars
    <2>1. Linked' = Linked /\ LinkedDirs' = LinkedDirs
          /\ \A j : Claims(j)' = Claims(j) /\ (HasBlocks(j)' <=> HasBlocks(j))
      BY QuietView
    <2>2. /\ Holder' = Holder /\ BeingFreed' = BeingFreed /\ Pending' = Pending
          /\ MemBitmap' = MemBitmap
      BY DEF Holder, BeingFreed, Pending, Held, MemBitmap
    <2>3. Counted' BY <1>0, <2>2 DEF Counted, MemCounted, DiskCounted, CommitKnown
    <2>4. DirsCounted' BY <1>0, <2>1 DEF DirsCounted
    <2>5. (InodesOwned /\ BlocksOwned)' BY <1>0, <2>1, <2>2, OwnedSame DEF Owned
    <2>6. BareInodes' BY <1>0, <2>1 DEF Owned, BareInodes
    <2> QED BY <2>3, <2>4, <2>5, <2>6 DEF Owned
  <1> QED BY <1>1, <1>2, <1>3, <1>4 DEF Next

LEMMA CountInvariant == ASSUME Harmless PROVE Spec => []CountInv
  <1>1. Init => CountInv BY CountInit
  <1>2. TypeInv /\ TypeInv' /\ IInv /\ CountInv /\ [Next]_vars => CountInv' BY CountNext
  <1> QED BY <1>1, <1>2, IInvCorrect, PTL DEF Spec

\* Between operations the free counters of the superblock and of every group
\* descriptor are what the bitmaps on disk say, and bg_used_dirs_count is the number
\* of directories a path leads to: for every geometry, and also after operations
\* that failed half way with the counters in memory already changed.
THEOREM CountCorrect == ASSUME Harmless PROVE Spec => []CountersExact
  <1>1. TypeInv /\ CountInv => CountersExact
    <2> SUFFICES ASSUME TypeInv, CountInv, op = Idle, ~crashed PROVE CountersExact BY DEF CountersExact
    <2>1. op.pc = "idle" BY DEF Idle
    <2>2. CountBlocks(cnt, bbm) /\ CountInodes(cnt, ibm)
      BY <2>1 DEF CountInv, Counted, DiskCounted, BlockMetaPcs, InodeMetaPcs
    <2>3. cnt.gD = m.gD BY <2>1 DEF CountInv, DirsCounted
    <2>4. \A g \in Groups : Cardinality(LinkedDirs \intersect GroupInodes(g)) = m.gD[g] + 0
      BY <2>1 DEF CountInv, DirsCounted
    <2>5. \A g \in Groups : m.gD[g] \in Nat BY DEF TypeInv, TypeOK, Counters
    <2>6. \A g \in Groups : cnt.gD[g] = Cardinality(LinkedDirs \intersect GroupInodes(g))
      BY <2>3, <2>4, <2>5
    <2> QED BY <2>2, <2>6 DEF CountersExact, CountBlocks, CountInodes
  <1> QED BY <1>1, CountInvariant, IInvCorrect, PTL

\* Between operations everything marked used has an owner: metadata, the inodes on
\* a path and those of operations that failed after ext2_alloc_inode, and the blocks
\* these claim.  No other failure, and no order of the steps, leaks anything.
THEOREM LeakCorrect == ASSUME Harmless PROVE Spec => []OnlyFailuresLeak
  <1>1. CountInv => OnlyFailuresLeak
    <2> SUFFICES ASSUME CountInv, op = Idle, ~crashed PROVE OnlyFailuresLeak BY DEF OnlyFailuresLeak
    <2>1. op.pc = "idle" BY DEF Idle
    <2>2. Holder = {} /\ BeingFreed = {} /\ Pending = {} /\ MemBitmap = bbm BY <2>1, NobodyHolds
    <2>3. ibm = Reserved \union Linked \union lost
      BY <2>2 DEF CountInv, Owned, InodesOwned
    <2>4. Known = Linked \union lost BY <2>2 DEF Known
    <2>5. bbm = MetaBlocks \union UNION {Claims(i) : i \in Linked \union lost}
      BY <2>2, <2>4 DEF CountInv, Owned, BlocksOwned, Settled
    <2> QED BY <2>3, <2>5 DEF OnlyFailuresLeak
  <1> QED BY <1>1, CountInvariant, PTL

\* An allocator of a handler that nothing interrupted gives up only when every inode,
\* or every block that the handler does not hold itself, is marked used: for every
\* geometry, whatever sequence of allocations, releases and failures came before.
THEOREM RoomCorrect == ASSUME Harmless PROVE Spec => []RoomFound
  <1>1. ASSUME NEW B, CountBlocks(m, B), FreeBlocks(B) = {}, TypeInv PROVE Blocks \subseteq B
    <2> SUFFICES ASSUME NEW b \in Blocks, b \notin B PROVE FALSE OBVIOUS
    <2> DEFINE g == BlockGroup(b)
    <2>1. g \in Groups /\ b \in GroupBlocks(g) \ B BY BlockGroupType, GroupsFinite
    <2>2. IsFiniteSet(GroupBlocks(g) \ B) BY GroupsFinite, FS_Subset, FS_Difference
    <2>3. Cardinality(GroupBlocks(g) \ B) # 0 /\ Cardinality(GroupBlocks(g) \ B) \in Nat
      BY <2>1, <2>2, FS_EmptySet, FS_CardinalityType
    <2>4. m.gB[g] > 0 BY <1>1, <2>1, <2>3 DEF CountBlocks
    <2> QED BY <1>1, <2>4 DEF FreeBlocks
  <1>2. ASSUME CountInodes(m, ibm), InodesOwned, FreeInodes = {}, TypeInv PROVE Inodes \subseteq ibm
    <2> SUFFICES ASSUME NEW i \in Inodes, i \notin ibm PROVE FALSE OBVIOUS
    <2> DEFINE g == InodeGroup(i)
    <2>1. g \in Groups /\ i \in GroupInodes(g) \ ibm BY InodeGroupType, GroupsFinite
    <2>2. IsFiniteSet(GroupInodes(g) \ ibm) BY GroupsFinite, FS_Subset, FS_Difference
    <2>3. Cardinality(GroupInodes(g) \ ibm) # 0 /\ Cardinality(GroupInodes(g) \ ibm) \in Nat
      BY <2>1, <2>2, FS_EmptySet, FS_CardinalityType
    <2>4. m.gI[g] > 0 BY <1>2, <2>1, <2>3 DEF CountInodes
    <2>5. i >= FirstIno BY <1>2, GeometryAssumption DEF InodesOwned, Reserved, Inodes
    <2> QED BY <1>2, <2>4, <2>5 DEF FreeInodes
  <1>3. TypeInv /\ CountInv => RoomFound
    <2> SUFFICES ASSUME TypeInv, CountInv, ~crashed PROVE RoomFound BY DEF RoomFound
    <2>1. CountBlocks(m, MemBitmap) /\ CountInodes(m, ibm) /\ InodesOwned
      BY DEF CountInv, Counted, MemCounted, Owned
    <2>2. op.pc \in {"alloc_block", "append"} => MemBitmap = bbm BY DEF MemBitmap
    <2>3. op.pc = "alloc_data" => MemBitmap = CtxBitmap BY DEF MemBitmap, CtxBitmap
    <2> QED BY <1>1, <1>2, <2>1, <2>2, <2>3 DEF RoomFound, At
  <1> QED BY <1>3, CountInvariant, IInvCorrect, PTL

------------------------------------------------------------------------------
(* Link counts: the length of directories and the inode of the handler      *)

GrowPcs == {"grow_meta", "grow_block", "grow_inode"}

\* Only GrowDir leads into the growth of a directory, and only the write of the
\* inode to the steps that publish it.
LEMMA LinkPcs ==
    ASSUME TypeInv, Step, ~WriteInode
    PROVE  /\ op'.pc \in GrowPcs =>
                 /\ (op.pc = "append" /\ GrowDir) \/ op.pc \in GrowPcs
                 /\ op'.dir = op.dir
           /\ op'.pc \in WrittenPcs \union {"write_dirblk"} =>
                 /\ op.pc \in WrittenPcs \union {"write_dirblk"}
                 /\ op'.dir = op.dir /\ op'.ino = op.ino /\ op'.kind = op.kind
           /\ op'.pc \in WrittenPcs /\ op.pc = "write_dirblk" => WriteDirBlock
  <1>t. op \in OpRec BY DEF TypeInv, TypeOK
  <1>i. Idle.pc = "idle" BY DEF Idle
  <1> USE DEF WrittenPcs, GrowPcs, At
  <1>f. CASE FailClean \/ FailAndLeak BY <1>f, <1>i DEF FailClean, FailAndLeak, Return
  <1>1. CASE AllocInode BY <1>1, <1>t DEF AllocInode, OpRec
  <1>2. CASE AllocInodeFails \/ AllocBlockFails \/ AllocDataFails \/ ReleaseFails
    BY <1>2, <1>f DEF AllocInodeFails, AllocBlockFails, AllocDataFails, ReleaseFails
  <1>3. CASE StoreMeta
    <2>0. op.pc \in {"inode_meta", "block_meta", "alloc_commit", "grow_meta", "free_commit",
                     "dirs_meta", "free_meta"}
      BY <1>3 DEF StoreMeta, AfterMeta
    <2>1. CASE op.pc = "grow_meta"
      BY <1>3, <1>t, <2>1, GotoFacts DEF StoreMeta, AfterMeta, Pcs
    <2>2. CASE op.pc # "grow_meta"
      <3>1. op'.pc \in {"idle", "alloc_data", "alloc_block", "write_inode", "clear_inode"}
        BY <1>3, <1>t, <1>i, <2>0, <2>2, GotoFacts DEF StoreMeta, AfterMeta, Pcs, Return
      <3> QED BY <3>1
    <2> QED BY <2>1, <2>2
  <1>4. CASE AllocBlock BY <1>4, <1>t DEF AllocBlock, OpRec
  <1>5. CASE AllocBlockCtx BY <1>5, <1>t DEF AllocBlockCtx, OpRec
  <1>6. CASE WriteData BY <1>6, <1>t DEF WriteData, OpRec
  <1>7. CASE WriteBitmap BY <1>7, <1>t DEF WriteBitmap, OpRec
  <1>8. CASE WriteDirBlock BY <1>8, <1>t, GotoFacts DEF WriteDirBlock, Pcs
  <1>9. CASE AppendDirent \/ LinkGrownBlock
    <2>1. op'.pc \in {"idle", "link_parent"}
      BY <1>9, <1>t, <1>i, GotoFacts DEF AppendDirent, LinkGrownBlock, AfterAppend, Return, Pcs
    <2> QED BY <2>1
  <1>10. CASE GrowDir BY <1>10, <1>t DEF GrowDir, OpRec
  <1>11. CASE WriteGrownBlock BY <1>11, <1>t, GotoFacts DEF WriteGrownBlock, Pcs
  <1>12. CASE AppendFails
    <2>1. CASE op.kind = "mknod" BY <1>12, <2>1, <1>t, GotoFacts DEF AppendFails, Pcs
    <2>2. CASE op.kind # "mknod" BY <1>12, <2>2, <1>f DEF AppendFails
    <2> QED BY <2>1, <2>2
  <1>13. CASE LinkParent BY <1>13, <1>t, GotoFacts DEF LinkParent, Pcs
  <1>14. CASE RemoveDirent BY <1>14, <1>t, GotoFacts DEF RemoveDirent, Pcs
  <1>15. CASE ReleaseBlocks BY <1>15, <1>t DEF ReleaseBlocks, OpRec
  <1>16. CASE ClearInode
    <2>1. op'.pc \in {"idle", "alloc_data", "free_inode"}
      BY <1>16, <1>t, <1>i, GotoFacts DEF ClearInode, Return, Pcs
    <2> QED BY <2>1
  <1>17. CASE FreeInode BY <1>17, <1>t, GotoFacts DEF FreeInode, Pcs
  <1> QED BY <1>1, <1>2, <1>3, <1>4, <1>5, <1>6, <1>7, <1>8, <1>9, <1>10, <1>11, <1>12,
             <1>13, <1>14, <1>15, <1>16, <1>17 DEF Step

LEMMA ShortQuiet ==
    ASSUME TypeInv, DirsShort, Step, ~WriteInode, DirInodes' \subseteq DirInodes,
           \A d \in DirInodes : Len(itab'[d].blks) = Len(itab[d].blks),
           op.pc \in GrowPcs => itab'[op.dir].blks = itab[op.dir].blks,
           GrowDir => itab' = itab
    PROVE  DirsShort'
  <1>1. op'.pc \in GrowPcs => Len(itab'[op'.dir].blks) < DirectSlots
    <2> SUFFICES ASSUME op'.pc \in GrowPcs PROVE Len(itab'[op'.dir].blks) < DirectSlots OBVIOUS
    <2>1. op'.dir = op.dir /\ (GrowDir \/ op.pc \in GrowPcs) BY LinkPcs
    <2>2. CASE GrowDir BY <2>1, <2>2 DEF GrowDir, CanGrow
    <2>3. CASE op.pc \in GrowPcs BY <2>1, <2>3 DEF DirsShort, GrowPcs
    <2> QED BY <2>1, <2>2, <2>3
  <1> QED BY <1>1 DEF DirsShort, GrowPcs

LEMMA ShortStep == ASSUME TypeInv, TypeInv', IInv, DirsShort, Step PROVE DirsShort'
  <1>t. op \in OpRec /\ itab \in [Inodes -> InodeRec] /\ op.dir \in Inodes /\ op.ino \in {0} \union Inodes
    BY DEF TypeInv, TypeOK, OpRec
  <1>i. Idle.pc = "idle" BY DEF Idle
  <1>d. DirInodes \subseteq Inodes BY LinkedIs
  <1>1. CASE WriteInode
    <2>1. /\ op.ino \in Inodes /\ itab'[op.ino].blks = op.blks
          /\ \A i \in Inodes : i # op.ino => itab'[i] = itab[i]
          /\ itab'[op.ino].mode = "dir" => op.kind = "mkdir"
      BY <1>1, NewInodeFacts
    <2>2. op.kind = "mkdir" => Len(op.blks) = 1 BY <1>1 DEF WriteInode, At, IInv, OpInv, OpWritten
    <2>3. op'.pc \notin GrowPcs BY <1>1, <1>t, <1>i, GotoFacts DEF WriteInode, Return, Pcs, GrowPcs
    <2>4. 1 <= DirectSlots BY PointersAssumption
    <2> QED BY <2>1, <2>2, <2>3, <2>4 DEF DirsShort, DirInodes, GrowPcs
  <1>2. CASE LinkGrownBlock
    <2>1. op.pc = "grow_inode" /\ op'.pc \notin GrowPcs
      BY <1>2, <1>t, <1>i, GotoFacts DEF LinkGrownBlock, At, AfterAppend, Return, Pcs, GrowPcs
    <2>2. Len(itab[op.dir].blks) < DirectSlots BY <2>1 DEF DirsShort
    <2>3. /\ itab'[op.dir].blks = Append(itab[op.dir].blks, op.extra)
          /\ \A i \in Inodes : i # op.dir => itab'[i] = itab[i]
          /\ itab'[op.dir].mode = itab[op.dir].mode
      BY <1>2, <1>t DEF LinkGrownBlock, InodeRec
    <2>4. itab[op.dir].blks \in Seq(Nat) BY <1>t DEF InodeRec
    <2>5. Len(itab'[op.dir].blks) = Len(itab[op.dir].blks) + 1 /\ Len(itab[op.dir].blks) \in Nat
      BY <2>3, <2>4
    <2>6. Len(itab'[op.dir].blks) <= DirectSlots BY <2>2, <2>5, PointersAssumption
    <2> QED BY <2>1, <2>3, <2>6 DEF DirsShort, DirInodes, GrowPcs
  <1>3. CASE LinkParent
    <2>1. \A i \in Inodes : itab'[i].mode = itab[i].mode /\ itab'[i].blks = itab[i].blks
      BY <1>3, <1>t DEF LinkParent, InodeRec
    <2>2. DirInodes' = DirInodes BY <2>1 DEF DirInodes
    <2>3. op.pc = "link_parent" BY <1>3 DEF LinkParent, At
    <2>4. ~GrowDir /\ ~WriteInode BY <2>3 DEF GrowDir, WriteInode, At
    <2> QED BY <1>d, <2>1, <2>2, <2>3, <2>4, ShortQuiet DEF GrowPcs
  <1>4. CASE ClearInode
    <2>1. op.pc = "clear_inode" /\ op.kind \in Removing BY <1>4 DEF ClearInode, At, TypeInv, OpPath
    <2>2. op.ino \notin DirInodes
      <3>1. op.kind # "unlink" => itab[op.ino].mode # "dir" BY <2>1 DEF IInv, OpInv, OpTarget, Removing
      <3> QED BY <2>1, <3>1 DEF IInv, OpInv, OpTarget, Removing, DirInodes
    <2>3. \A i \in Inodes : i # op.ino => itab'[i] = itab[i] BY <1>4, <1>t DEF ClearInode
    <2>4. DirInodes' = DirInodes BY <1>4, ClearInodeDisk
    <2>5. ~GrowDir /\ ~WriteInode BY <2>1 DEF GrowDir, WriteInode, At
    <2> QED BY <1>d, <2>1, <2>2, <2>3, <2>4, <2>5, ShortQuiet DEF GrowPcs
  <1>5. CASE ~WriteInode /\ itab' = itab
    <2>1. DirInodes' = DirInodes BY <1>5 DEF DirInodes
    <2> QED BY <1>5, <2>1, ShortQuiet
  <1>6. \/ WriteInode \/ LinkGrownBlock \/ LinkParent \/ ClearInode \/ itab' = itab
    BY DEF Step, AllocInode, AllocInodeFails, StoreMeta, AllocBlock, AllocBlockFails, AllocBlockCtx,
           AllocDataFails, WriteData, WriteBitmap, WriteDirBlock, AppendDirent, GrowDir,
           WriteGrownBlock, AppendFails, RemoveDirent, ReleaseBlocks, ReleaseFails, FreeInode,
           FailAndLeak, FailClean, disk
  <1> QED BY <1>1, <1>2, <1>3, <1>4, <1>5, <1>6


\* What the handler has written to the inode and the block of its new name.
LEMMA OpLinksStep == ASSUME TypeInv, TypeInv', IInv, OpLinks, Step PROVE OpLinks'
  <1>t. op \in OpRec /\ itab \in [Inodes -> InodeRec] /\ dblk \in [Blocks -> [Slots -> Record]]
    BY DEF TypeInv, TypeOK
  <1>i. Idle.pc = "idle" BY DEF Idle
  <1>1. CASE WriteInode
    <2> PICK x : x = op.ino OBVIOUS
    <2>1. /\ op.kind \in {"create", "mkdir", "mknod", "symlink", "rewrite"} /\ x \in Inodes
      BY <1>1, NewInodeFacts
    <2>2. itab'[x] = NewInode BY <1>1, <1>t, <2>1 DEF WriteInode
    <2>3. op.kind # "rewrite" => NewInode.links = (IF op.kind = "mkdir" THEN 2 ELSE 1)
      BY <2>1 DEF NewInode
    <2>4. CASE op.kind = "rewrite"
      <3>1. op'.pc = "idle" BY <1>1, <1>i, <2>4 DEF WriteInode, Return
      <3> QED BY <3>1 DEF OpLinks, WrittenPcs
    <2>5. CASE op.kind = "mkdir"
      <3>1. op'.pc = "write_dirblk" /\ op'.ino = x /\ op'.kind = op.kind
        BY <1>1, <1>t, <2>5, GotoFacts DEF WriteInode, Pcs
      <3> QED BY <2>2, <2>3, <2>5, <3>1 DEF OpLinks, WrittenPcs
    <2>6. CASE op.kind \notin {"rewrite", "mkdir"}
      <3>1. op'.pc = "append" /\ op'.ino = x /\ op'.kind = op.kind
        BY <1>1, <1>t, <2>6, GotoFacts DEF WriteInode, Pcs
      <3> QED BY <2>2, <2>3, <2>6, <3>1 DEF OpLinks, WrittenPcs
    <2> QED BY <2>4, <2>5, <2>6
  <1>2. CASE WriteDirBlock
    <2> PICK x : x = op.ino OBVIOUS
    <2>0. op.pc = "write_dirblk" /\ op.kind = "mkdir" /\ itab' = itab
          /\ dblk' = [dblk EXCEPT ![op.blks[1]] = DotBlock(x, op.dir)]
      BY <1>2 DEF WriteDirBlock, At, TypeInv, OpPath
    <2>1. op'.pc = "append" /\ op'.ino = x /\ op'.dir = op.dir /\ op'.kind = op.kind
      BY <1>2, <1>t, GotoFacts DEF WriteDirBlock, Pcs
    <2>2. itab[x].blks = op.blks /\ Len(op.blks) = 1 /\ itab[x].links = 2
      BY <2>0 DEF IInv, OpInv, OpWritten, OpLinks
    <2>3. op.blks[1] \in Blocks BY <2>0, <2>2 DEF TypeInv, BlocksTyped, Elems
    <2>4. dblk'[op.blks[1]] = DotBlock(x, op.dir) BY <1>t, <2>0, <2>3
    <2> QED BY <2>0, <2>1, <2>2, <2>4 DEF OpLinks
  <1>3. CASE WriteGrownBlock
    <2> PICK x : x = op.ino OBVIOUS
    <2>0. op.pc = "grow_block" /\ itab' = itab /\ op.extra \in Blocks
          /\ dblk' = [dblk EXCEPT ![op.extra] = OneEntry(x, op.name)]
      BY <1>3 DEF WriteGrownBlock, At, TypeInv, TypeOK, OpRec
    <2>1. op'.pc = "grow_inode" /\ op'.ino = x /\ op'.dir = op.dir /\ op'.kind = op.kind
      BY <1>3, <1>t, GotoFacts DEF WriteGrownBlock, Pcs
    <2>2. itab[x].links = (IF op.kind = "mkdir" THEN 2 ELSE 1) BY <2>0 DEF OpLinks, WrittenPcs
    <2>3. ASSUME op.kind = "mkdir"
          PROVE  Len(itab[x].blks) = 1 /\ dblk'[itab[x].blks[1]] = DotBlock(x, op.dir)
      <3>1. x \in DirInodes BY <2>0, <2>3, NewDirIs DEF NewDir
      <3>2. Len(itab[x].blks) = 1 /\ dblk[itab[x].blks[1]] = DotBlock(x, op.dir)
        BY <2>0, <2>3 DEF OpLinks, WrittenPcs
      <3>3. 1 \in 1 .. Len(itab[x].blks) BY <3>2
      <3>4. itab[x].blks[1] \in Claims(x) /\ x \in Owners /\ itab[x].blks[1] \in Blocks
        BY <3>1, <3>3, DirBlocks
      <3>5. op.extra # itab[x].blks[1] BY <2>0, <3>4 DEF IInv, OpInv, OpExtra
      <3> QED BY <1>t, <2>0, <3>2, <3>4, <3>5
    <2> QED BY <2>0, <2>1, <2>2, <2>3 DEF OpLinks
  <1>4. CASE AppendDirent \/ LinkGrownBlock
    <2>1. op'.pc \in {"idle", "link_parent"}
      BY <1>4, <1>t, <1>i, GotoFacts DEF AppendDirent, LinkGrownBlock, AfterAppend, Return, Pcs
    <2> QED BY <2>1 DEF OpLinks, WrittenPcs
  <1>5. CASE LinkParent \/ ClearInode \/ WriteData \/ RemoveDirent
    <2>1. op.pc \notin WrittenPcs \union {"write_dirblk", "write_inode"}
      BY <1>5 DEF LinkParent, ClearInode, WriteData, RemoveDirent, At, WrittenPcs
    <2>2. ~WriteInode BY <2>1 DEF WriteInode, At
    <2>3. op'.pc \notin WrittenPcs \union {"write_dirblk"} BY <2>1, <2>2, LinkPcs
    <2> QED BY <2>3 DEF OpLinks
  <1>6. CASE ~WriteInode /\ ~WriteDirBlock /\ UNCHANGED <<itab, dblk>>
    <2> SUFFICES ASSUME op'.pc \in WrittenPcs \union {"write_dirblk"} PROVE OpLinks'
      BY DEF OpLinks
    <2>1. /\ op.pc \in WrittenPcs \union {"write_dirblk"}
          /\ op'.dir = op.dir /\ op'.ino = op.ino /\ op'.kind = op.kind
          /\ op'.pc \in WrittenPcs => op.pc \in WrittenPcs
      BY <1>6, LinkPcs
    <2> QED BY <1>6, <2>1 DEF OpLinks
  <1>7. \/ WriteInode \/ WriteDirBlock \/ WriteGrownBlock \/ AppendDirent \/ LinkGrownBlock
        \/ LinkParent \/ ClearInode \/ WriteData \/ RemoveDirent \/ UNCHANGED <<itab, dblk>>
    BY DEF Step, AllocInode, AllocInodeFails, StoreMeta, AllocBlock, AllocBlockFails, AllocBlockCtx,
           AllocDataFails, WriteBitmap, GrowDir, AppendFails, ReleaseBlocks, ReleaseFails, FreeInode,
           FailAndLeak, FailClean, disk
  <1> QED BY <1>1, <1>2, <1>3, <1>4, <1>5, <1>6, <1>7


------------------------------------------------------------------------------
(* The places a record leads from                                            *)

LeadsTo(d, k, s, i) ==
    d \in LinkedDirs /\ k \in 1 .. Len(itab[d].blks) /\ s \in Slots /\ Rec(d, k, s).ino = i

LEMMA PlacesAre ==
    TypeInv /\ DirsShort =>
        \A i, p : p \in Places(i) <=> \E d, k, s : p = <<d, k, s>> /\ LeadsTo(d, k, s, i)
  <1> SUFFICES ASSUME TypeInv, DirsShort, NEW i, NEW p
               PROVE  p \in Places(i) <=> \E d, k, s : p = <<d, k, s>> /\ LeadsTo(d, k, s, i)
    OBVIOUS
  <1>1. \A d \in LinkedDirs : d \in DirInodes /\ d \in Inodes
    BY LinkedIs DEF LinkedDirs, DirInodes
  <1>2. \A d \in LinkedDirs : Len(itab[d].blks) \in Nat /\ Len(itab[d].blks) <= DirectSlots
    BY <1>1 DEF DirsShort, TypeInv, TypeOK, InodeRec
  <1>3. DirectSlots \in Nat BY PointersAssumption
  <1>4. ASSUME p \in Places(i) PROVE \E d, k, s : p = <<d, k, s>> /\ LeadsTo(d, k, s, i)
    <2>1. PICK d \in LinkedDirs, k \in 1 .. DirectSlots, s \in Slots :
             p = <<d, k, s>> /\ k <= Len(itab[d].blks) /\ Rec(d, k, s).ino = i
      BY <1>4 DEF Places
    <2>2. k \in 1 .. Len(itab[d].blks) BY <1>2, <1>3, <2>1
    <2> QED BY <2>1, <2>2 DEF LeadsTo
  <1>5. ASSUME NEW d, NEW k, NEW s, p = <<d, k, s>>, LeadsTo(d, k, s, i) PROVE p \in Places(i)
    <2>1. d \in LinkedDirs /\ k \in 1 .. Len(itab[d].blks) /\ s \in Slots /\ Rec(d, k, s).ino = i
      BY <1>5 DEF LeadsTo
    <2>2. k \in 1 .. DirectSlots /\ k <= Len(itab[d].blks) BY <1>2, <1>3, <2>1
    <2> QED BY <1>5, <2>1, <2>2 DEF Places
  <1> QED BY <1>4, <1>5

LEMMA PlacesAreNext ==
    (TypeInv /\ DirsShort =>
        \A i, p : p \in Places(i) <=> \E d, k, s : p = <<d, k, s>> /\ LeadsTo(d, k, s, i))'
  BY PlacesAre, PTL

LEMMA PlacesFinite == TypeInv => \A i : IsFiniteSet(Places(i))
  <1> SUFFICES ASSUME TypeInv, NEW i PROVE IsFiniteSet(Places(i)) OBVIOUS
  <1> DEFINE A == LinkedDirs
             B == 1 .. DirectSlots
             T == (A \X B) \X Slots
             U == A \X B \X Slots
  <1>1. IsFiniteSet(A)
    <2>1. LinkedDirs \subseteq Inodes BY LinkedIs DEF LinkedDirs
    <2> QED BY <2>1, BlocksFinite, FS_Subset
  <1>2. IsFiniteSet(B) BY PointersAssumption, FS_Interval
  <1>3. IsFiniteSet(Slots) BY SlotsAssumption, FS_Interval DEF Slots
  <1>4. IsFiniteSet(T) BY <1>1, <1>2, <1>3, FS_Product
  <1> DEFINE g == [u \in U |-> <<<<u[1], u[2]>>, u[3]>>]
  <1>5. g \in Injection(U, T)
    <2>1. \A u \in U : u[1] \in A /\ u[2] \in B /\ u[3] \in Slots /\ u = <<u[1], u[2], u[3]>> OBVIOUS
    <2>2. g \in [U -> T] BY <2>1
    <2>3. ASSUME NEW u \in U, NEW v \in U, g[u] = g[v] PROVE u = v
      <3>1. g[u] = <<<<u[1], u[2]>>, u[3]>> /\ g[v] = <<<<v[1], v[2]>>, v[3]>> OBVIOUS
      <3>2. u[1] = v[1] /\ u[2] = v[2] /\ u[3] = v[3] BY <2>3, <3>1
      <3> QED BY <2>1, <3>2
    <2> HIDE DEF g, T, U
    <2> QED BY <2>2, <2>3, Fun_IsInj
  <1>6. IsFiniteSet(U)
    <2> HIDE DEF g, T, U
    <2> QED BY <1>4, <1>5, FS_Injection
  <1>7. Places(i) \subseteq U BY DEF Places
  <1> HIDE DEF U
  <1> QED BY <1>6, <1>7, FS_Subset


\* The same places before and after a step, and the same count.
LEMMA LinksQuiet ==
    ASSUME TypeInv, TypeInv', DirsShort, DirsShort', LinksCounted, Linked' \subseteq Linked,
           op.pc # "link_parent", op'.pc # "link_parent",
           \A i \in Linked' : \A d, k, s : LeadsTo(d, k, s, i)' <=> LeadsTo(d, k, s, i),
           \A i \in Linked' : itab'[i].links = itab[i].links
    PROVE  LinksCounted'
  <1> SUFFICES ASSUME NEW i \in Linked' PROVE Cardinality(Places(i)') = itab'[i].links + 0
    BY DEF LinksCounted
  <1>1. \A p : p \in Places(i)' <=> p \in Places(i) BY PlacesAre, PlacesAreNext
  <1>2. Places(i)' = Places(i)
    <2>1. Places(i)' \subseteq Places(i) /\ Places(i) \subseteq Places(i)' BY <1>1
    <2> QED BY <2>1
  <1>3. Cardinality(Places(i)) = itab[i].links + 0 BY DEF LinksCounted
  <1>4. Cardinality(Places(i)') = Cardinality(Places(i)) BY <1>2, Zenon
  <1> QED BY <1>3, <1>4

\* The directories on a path keep their records.
LEMMA LeadsSame ==
    ASSUME LinkedDirs' = LinkedDirs,
           \A d \in LinkedDirs : Len(itab'[d].blks) = Len(itab[d].blks),
           \A d \in LinkedDirs : \A k \in 1 .. Len(itab[d].blks), s \in Slots :
               Rec(d, k, s)' = Rec(d, k, s)
    PROVE  \A i, d, k, s : LeadsTo(d, k, s, i)' <=> LeadsTo(d, k, s, i)
  BY DEF LeadsTo

\* A record of a directory on a path leads to an inode on a path.
LEMMA LeadsLinked ==
    ASSUME TypeInv, IInv, NEW d, NEW k, NEW s, NEW i, LeadsTo(d, k, s, i), i # 0
    PROVE  i \in Linked
  <1>1. d \in LinkedDirs /\ k \in 1 .. Len(itab[d].blks) /\ s \in Slots /\ Rec(d, k, s).ino = i
    BY DEF LeadsTo
  <1>2. d \in DirInodes /\ d \in Linked BY <1>1, LinkedIs DEF LinkedDirs, DirInodes
  <1>3. /\ Rec(d, 1, 0) = [ino |-> d, name |-> "."]
        /\ \E p \in LinkedDirs : Rec(d, 1, 1) = [ino |-> p, name |-> ".."]
        /\ (k = 1 /\ s \in {0, 1}) \/ Live(d, k, s) \/ Rec(d, k, s).ino = 0
    BY <1>1 DEF IInv, RecordInv, DotsSound
  <1>4. CASE k = 1 /\ s = 0
    <2>1. Rec(d, 1, 0).ino = d BY <1>3
    <2> QED BY <1>1, <1>2, <1>4, <2>1
  <1>5. CASE k = 1 /\ s = 1
    <2>1. PICK p \in LinkedDirs : Rec(d, 1, 1) = [ino |-> p, name |-> ".."] BY <1>3
    <2>2. Rec(d, 1, 1).ino = p BY <2>1
    <2> QED BY <1>1, <1>5, <2>2 DEF LinkedDirs
  <1>6. CASE Live(d, k, s) BY <1>1, <1>2, <1>6, LinkedIs
  <1> QED BY <1>1, <1>3, <1>4, <1>5, <1>6

\* The step that publishes the record of X in slot S of block K of directory D.
Publishes(D, K, S, X) ==
    /\ D = op.dir /\ X = op.ino
    /\ op.pc \in {"append", "grow_inode"} /\ itab[D].mode = "dir" /\ AfterAppend
    /\ Linked' = Linked \union {X} /\ LinkedDirs' = LinkedDirs \union NewDir
    /\ K \in 1 .. Len(itab'[D].blks) /\ S \in Slots /\ Rec(D, K, S)'.ino = X
    /\ K \in 1 .. Len(itab[D].blks) => Rec(D, K, S).ino = 0
    /\ \A i \in Inodes : itab'[i].links = itab[i].links
    /\ \A d \in DirInodes : \A k \in 1 .. Len(itab[d].blks) : k \in 1 .. Len(itab'[d].blks)
    /\ \A d \in DirInodes : \A k \in 1 .. Len(itab'[d].blks), s \in Slots :
          \/ d = D /\ k = K /\ s = S
          \/ k \in 1 .. Len(itab[d].blks) /\ Rec(d, k, s)' = Rec(d, k, s)
          \/ k \notin 1 .. Len(itab[d].blks) /\ Rec(d, k, s)'.ino = 0

\* Where it leads from.
LEMMA PublishLeads ==
    ASSUME TypeInv, TypeInv', IInv, OpLinks, NEW D, NEW K, NEW S, NEW X, Publishes(D, K, S, X)
    PROVE  /\ D \in LinkedDirs /\ X \in Inodes /\ X \notin Linked /\ X # D
           /\ itab[X].links = (IF op.kind = "mkdir" THEN 2 ELSE 1)
           /\ \A d, k, s : LeadsTo(d, k, s, X)' <=>
                 \/ d = D /\ k = K /\ s = S
                 \/ op.kind = "mkdir" /\ d = X /\ k = 1 /\ s = 0
           /\ \A i \in Linked : \A d, k, s : LeadsTo(d, k, s, i)' <=>
                 \/ LeadsTo(d, k, s, i)
                 \/ op.kind = "mkdir" /\ i = D /\ d = X /\ k = 1 /\ s = 1
  <1> USE DEF Publishes
  <1>1. /\ D \in LinkedDirs /\ D \in DirInodes /\ X \in Inodes /\ X \notin Linked
        /\ NewDir = (IF op.kind = "mkdir" THEN {X} ELSE {}) /\ D \in Linked
    BY PublishFacts DEF LinkedDirs
  <1>2. X # D /\ X # 0 /\ 0 \notin Linked /\ X \notin LinkedDirs
    BY <1>1, BlocksFinite, LinkedIs DEF LinkedDirs, Inodes
  <1>3. itab[X].links = (IF op.kind = "mkdir" THEN 2 ELSE 1) BY DEF OpLinks, WrittenPcs
  <1>4. LinkedDirs \subseteq DirInodes /\ NewDir \subseteq DirInodes
    BY LinkedIs, NewDirIs DEF LinkedDirs, DirInodes
  <1>5. 0 \in Slots /\ 1 \in Slots BY SlotsAssumption DEF Slots
  <1>6. ASSUME op.kind = "mkdir"
        PROVE  /\ Len(itab[X].blks) = 1
               /\ Rec(X, 1, 0).ino = X /\ Rec(X, 1, 1).ino = D
               /\ \A s \in Slots : s \notin {0, 1} => Rec(X, 1, s).ino = 0
    <2>1. Len(itab[X].blks) = 1 /\ dblk[itab[X].blks[1]] = DotBlock(X, D)
      BY <1>6 DEF OpLinks, WrittenPcs
    <2>2. \A s \in Slots : Rec(X, 1, s) = DotBlock(X, D)[s] BY <2>1 DEF Rec
    <2>3. Rec(X, 1, 0) = [ino |-> X, name |-> "."] /\ Rec(X, 1, 1) = [ino |-> D, name |-> ".."]
          /\ \A s \in Slots : s \notin {0, 1} => Rec(X, 1, s) = FreeSlot
      BY <1>5, <2>2 DEF DotBlock
    <2>4. FreeSlot.ino = 0 BY DEF FreeSlot
    <2> QED BY <2>1, <2>3, <2>4
  <1>7. ASSUME NEW d, NEW k, NEW s, NEW i, i # 0, d \in LinkedDirs
        PROVE  LeadsTo(d, k, s, i)' <=> (d = D /\ k = K /\ s = S /\ i = X) \/ LeadsTo(d, k, s, i)
    <2>1. d \in LinkedDirs' /\ d \in DirInodes BY <1>4, <1>7
    <2>2. CASE d = D /\ k = K /\ s = S
      <3>1. LeadsTo(d, k, s, X)' BY <2>1, <2>2 DEF LeadsTo
      <3>2. LeadsTo(d, k, s, i)' => i = X BY <2>2 DEF LeadsTo
      <3>3. ~LeadsTo(d, k, s, i) BY <1>7, <2>2 DEF LeadsTo
      <3> QED BY <2>2, <3>1, <3>2, <3>3
    <2>3. CASE ~(d = D /\ k = K /\ s = S)
      <3>1. ASSUME LeadsTo(d, k, s, i)' PROVE LeadsTo(d, k, s, i)
        BY <1>7, <2>1, <2>3, <3>1 DEF LeadsTo
      <3>2. ASSUME LeadsTo(d, k, s, i) PROVE LeadsTo(d, k, s, i)'
        BY <1>7, <2>1, <2>3, <3>2 DEF LeadsTo
      <3> QED BY <2>3, <3>1, <3>2
    <2> QED BY <2>2, <2>3
  <1>8. ASSUME NEW k, NEW s, NEW i, i # 0, op.kind = "mkdir"
        PROVE  LeadsTo(X, k, s, i)' <=> k = 1 /\ ((s = 0 /\ i = X) \/ (s = 1 /\ i = D))
    <2>1. X \in LinkedDirs' /\ X \in DirInodes BY <1>1, <1>4, <1>8
    <2>2. 1 \in 1 .. Len(itab[X].blks) /\ (k \in 1 .. Len(itab[X].blks) => k = 1)
      <3>1. Len(itab[X].blks) = 1 BY <1>6, <1>8
      <3> QED BY <3>1
    <2>3. 1 \in 1 .. Len(itab'[X].blks) BY <2>1, <2>2
    <2>4. \A t \in Slots : Rec(X, 1, t)' = Rec(X, 1, t) BY <1>2, <2>1, <2>2, <2>3
    <2>5. k \in 1 .. Len(itab'[X].blks) /\ s \in Slots /\ k # 1 => Rec(X, k, s)'.ino = 0
      BY <1>2, <2>1, <2>2
    <2> QED BY <1>5, <1>6, <1>8, <2>1, <2>3, <2>4, <2>5 DEF LeadsTo
  <1>9. \A d, k, s, i : LeadsTo(d, k, s, i)' => d \in LinkedDirs \/ (d = X /\ op.kind = "mkdir")
    BY <1>1 DEF LeadsTo
  <1>10. \A d, k, s : ~LeadsTo(d, k, s, X) BY <1>1, <1>2, LeadsLinked
  <1>11. \A d, k, s, i : LeadsTo(d, k, s, i) => d \in LinkedDirs BY DEF LeadsTo
  <1>12. ASSUME NEW d, NEW k, NEW s
         PROVE  LeadsTo(d, k, s, X)' <=>
                 \/ d = D /\ k = K /\ s = S
                 \/ op.kind = "mkdir" /\ d = X /\ k = 1 /\ s = 0
    <2>1. CASE d \in LinkedDirs BY <1>2, <1>7, <1>10, <2>1
    <2>2. CASE d = X /\ op.kind = "mkdir" BY <1>2, <1>8, <2>2
    <2>3. CASE d \notin LinkedDirs /\ ~(d = X /\ op.kind = "mkdir") BY <1>1, <1>9, <2>3
    <2> QED BY <2>1, <2>2, <2>3
  <1>13. ASSUME NEW i \in Linked, NEW d, NEW k, NEW s
         PROVE  LeadsTo(d, k, s, i)' <=>
                 \/ LeadsTo(d, k, s, i)
                 \/ op.kind = "mkdir" /\ i = D /\ d = X /\ k = 1 /\ s = 1
    <2>0. i # 0 /\ i # X BY <1>1, <1>2
    <2>1. CASE d \in LinkedDirs BY <1>2, <1>7, <2>0, <2>1
    <2>2. CASE d = X /\ op.kind = "mkdir" BY <1>2, <1>8, <1>11, <2>0, <2>2
    <2>3. CASE d \notin LinkedDirs /\ ~(d = X /\ op.kind = "mkdir") BY <1>9, <1>11, <2>3
    <2> QED BY <2>1, <2>2, <2>3
  <1> QED BY <1>1, <1>2, <1>3, <1>12, <1>13


\* The new inode has the links it was written with; the parent of a new directory
\* has one more than its count says until LinkParent.
LEMMA PublishLinks ==
    ASSUME TypeInv, TypeInv', IInv, DirsShort, DirsShort', OpLinks, LinksCounted,
           NEW D, NEW K, NEW S, NEW X, Publishes(D, K, S, X)
    PROVE  LinksCounted'
  <1>0. /\ D = op.dir /\ X = op.ino /\ op.pc \in {"append", "grow_inode"} /\ AfterAppend
        /\ Linked' = Linked \union {X} /\ \A i \in Inodes : itab'[i].links = itab[i].links
        /\ op.pc # "link_parent"
    BY DEF Publishes
  <1>1. /\ D \in LinkedDirs /\ X \in Inodes /\ X \notin Linked /\ X # D
        /\ itab[X].links = (IF op.kind = "mkdir" THEN 2 ELSE 1)
        /\ \A d, k, s : LeadsTo(d, k, s, X)' <=>
              \/ d = D /\ k = K /\ s = S
              \/ op.kind = "mkdir" /\ d = X /\ k = 1 /\ s = 0
        /\ \A i \in Linked : \A d, k, s : LeadsTo(d, k, s, i)' <=>
              \/ LeadsTo(d, k, s, i)
              \/ op.kind = "mkdir" /\ i = D /\ d = X /\ k = 1 /\ s = 1
    BY PublishLeads
  <1>2. /\ op.kind = "mkdir" => op'.pc = "link_parent" /\ op'.dir = D
        /\ op.kind # "mkdir" => op'.pc = "idle"
    <2>1. op \in OpRec BY DEF TypeInv, TypeOK
    <2>2. Idle.pc = "idle" BY DEF Idle
    <2> QED BY <1>0, <2>1, <2>2, GotoFacts DEF AfterAppend, Return, Pcs
  <1> DEFINE More(i) == IF op.kind = "mkdir" /\ i = D THEN 1 ELSE 0
  <1> SUFFICES ASSUME NEW i \in Linked' PROVE Cardinality(Places(i)') = itab'[i].links + More(i)
    BY <1>2 DEF LinksCounted
  <1>3. itab'[i].links = itab[i].links /\ itab[i].links \in Nat
    BY <1>0, <1>1, LinkedIs DEF TypeInv, TypeOK, InodeRec
  <1>4. CASE i = X
    <2>1. Places(X)' = {<<D, K, S>>} \union (IF op.kind = "mkdir" THEN {<<X, 1, 0>>} ELSE {})
      <3>1. \A p : p \in Places(X)' <=> p = <<D, K, S>> \/ (op.kind = "mkdir" /\ p = <<X, 1, 0>>)
        BY <1>1, PlacesAreNext
      <3> QED BY <3>1
    <2>2. IsFiniteSet({<<D, K, S>>}) /\ Cardinality({<<D, K, S>>}) = 1 BY FS_Singleton
    <2>3. CASE op.kind = "mkdir"
      <3>1. <<X, 1, 0>> \notin {<<D, K, S>>} BY <1>1
      <3>2. Cardinality({<<D, K, S>>} \union {<<X, 1, 0>>}) = Cardinality({<<D, K, S>>}) + 1
        BY <2>2, <3>1, FS_AddElement
      <3>3. Places(X)' = {<<D, K, S>>} \union {<<X, 1, 0>>} BY <2>1, <2>3
      <3>4. Cardinality(Places(X)') = Cardinality({<<D, K, S>>} \union {<<X, 1, 0>>}) BY <3>3, Zenon
      <3> QED BY <1>1, <1>3, <1>4, <2>2, <2>3, <3>2, <3>4
    <2>4. CASE op.kind # "mkdir"
      <3>1. Places(X)' = {<<D, K, S>>} BY <2>1, <2>4
      <3>2. Cardinality(Places(X)') = Cardinality({<<D, K, S>>}) BY <3>1, Zenon
      <3> QED BY <1>1, <1>3, <1>4, <2>2, <2>4, <3>2
    <2> QED BY <2>3, <2>4
  <1>5. CASE i # X
    <2>0. i \in Linked BY <1>0, <1>5
    <2>1. Cardinality(Places(i)) = itab[i].links + 0 BY <1>0, <2>0 DEF LinksCounted
    <2>2. \A p : p \in Places(i)' <=>
             p \in Places(i) \/ (op.kind = "mkdir" /\ i = D /\ p = <<X, 1, 1>>)
      BY <1>1, <2>0, PlacesAre, PlacesAreNext
    <2>3. CASE op.kind = "mkdir" /\ i = D
      <3>1. <<X, 1, 1>> \notin Places(i)
        <4>1. \A d, k, s : LeadsTo(d, k, s, i) => d # X BY <1>1 DEF LeadsTo, LinkedDirs
        <4> QED BY <4>1, PlacesAre
      <3>2. Places(i)' = Places(i) \union {<<X, 1, 1>>} BY <2>2, <2>3
      <3>3. IsFiniteSet(Places(i)) BY PlacesFinite
      <3>4. Cardinality(Places(i) \union {<<X, 1, 1>>}) = Cardinality(Places(i)) + 1
        BY <3>1, <3>3, FS_AddElement
      <3>5. Cardinality(Places(i)') = Cardinality(Places(i) \union {<<X, 1, 1>>}) BY <3>2, Zenon
      <3> QED BY <1>3, <2>1, <2>3, <3>4, <3>5
    <2>4. CASE ~(op.kind = "mkdir" /\ i = D)
      <3>1. Places(i)' \subseteq Places(i) /\ Places(i) \subseteq Places(i)' BY <2>2, <2>4
      <3>2. Places(i)' = Places(i) BY <3>1
      <3>3. Cardinality(Places(i)') = Cardinality(Places(i)) BY <3>2, Zenon
      <3> QED BY <1>3, <2>1, <2>4, <3>3
    <2> QED BY <2>3, <2>4
  <1> QED BY <1>4, <1>5

LEMMA LinksAppend ==
    ASSUME TypeInv, TypeInv', IInv, DirsShort, DirsShort', OpLinks, LinksCounted, AppendDirent
    PROVE  LinksCounted'
  <1> PICK D : D = op.dir OBVIOUS
  <1> PICK X : X = op.ino OBVIOUS
  <1>1. op.pc = "append" /\ itab' = itab /\ AfterAppend /\ itab[D].mode = "dir"
    BY DEF AppendDirent, At
  <1> PICK K \in 1 .. Len(itab[D].blks), S \in Slots :
          /\ K = FirstSlack[1] /\ S = FirstSlack[2] /\ dblk[itab[D].blks[K]][S] = FreeSlot
    BY FirstSlackFacts DEF AppendDirent
  <1> PICK B : B = itab[D].blks[K] OBVIOUS
  <1>2. D \in DirInodes BY <1>1, PublishFacts
  <1>3. B \in Blocks BY <1>2, DirBlocks
  <1>4. /\ \A b \in Blocks : b # B => dblk'[b] = dblk[b]
        /\ \A s \in Slots : s # S => dblk'[B][s] = dblk[B][s]
        /\ dblk'[B][S] = [ino |-> X, name |-> op.name]
    <2>1. dblk' = [dblk EXCEPT ![B][S] = [ino |-> X, name |-> op.name]] BY DEF AppendDirent
    <2> QED BY <1>3, <2>1 DEF TypeInv, TypeOK
  <1>5. ASSUME NEW d \in DirInodes, NEW k \in 1 .. Len(itab[d].blks), NEW s \in Slots
        PROVE  (d = D /\ k = K /\ s = S) \/ Rec(d, k, s)' = Rec(d, k, s)
    <2>1. itab[d].blks[k] \in Blocks BY DirBlocks
    <2>2. itab[d].blks[k] = B => d = D /\ k = K BY <1>2, DirPositions DEF IInv, DiskInv
    <2> QED BY <1>1, <1>4, <2>1, <2>2 DEF Rec
  <1>6. Rec(D, K, S)'.ino = X /\ Rec(D, K, S).ino = 0
    <2>1. Rec(D, K, S)' = [ino |-> X, name |-> op.name] /\ Rec(D, K, S) = FreeSlot BY <1>1, <1>4 DEF Rec
    <2>2. FreeSlot.ino = 0 BY DEF FreeSlot
    <2> QED BY <2>1, <2>2
  <1>7. Linked' = Linked \union {X} /\ LinkedDirs' = LinkedDirs \union NewDir BY AppendDirentInv
  <1>8. Publishes(D, K, S, X) BY <1>1, <1>5, <1>6, <1>7 DEF Publishes
  <1> QED BY <1>8, PublishLinks

LEMMA LinksGrown ==
    ASSUME TypeInv, TypeInv', IInv, DirsShort, DirsShort', OpLinks, LinksCounted, LinkGrownBlock
    PROVE  LinksCounted'
  <1> PICK D : D = op.dir OBVIOUS
  <1> PICK X : X = op.ino OBVIOUS
  <1> PICK E : E = op.extra OBVIOUS
  <1>0. op.pc = "grow_inode" /\ dblk' = dblk /\ AfterAppend BY DEF LinkGrownBlock, At
  <1>1. itab[D].mode = "dir" BY <1>0 DEF IInv, OpInv, OpDir
  <1>2. D \in DirInodes /\ D \in Inodes BY <1>0, <1>1, PublishFacts DEF DirInodes
  <1>3. dblk[E] = OneEntry(X, op.name) /\ E \in Nat
    BY <1>0, BlocksFinite DEF IInv, OpInv, OpExtra, TypeInv, TypeOK, OpRec
  <1>4. /\ \A i \in Inodes : i # D => itab'[i] = itab[i]
        /\ itab'[D].blks = Append(itab[D].blks, E) /\ itab'[D].links = itab[D].links
        /\ itab[D].blks \in Seq(Nat)
    BY <1>2 DEF LinkGrownBlock, TypeInv, TypeOK, InodeRec
  <1> PICK n : n = Len(itab[D].blks) OBVIOUS
  <1>5. /\ n \in Nat /\ Len(itab'[D].blks) = n + 1 /\ itab'[D].blks[n + 1] = E
        /\ \A k \in 1 .. n : itab'[D].blks[k] = itab[D].blks[k]
    <2> PICK q : q = itab[D].blks OBVIOUS
    <2>1. /\ Len(Append(q, E)) = Len(q) + 1 /\ Len(q) \in Nat /\ Append(q, E)[Len(q) + 1] = E
          /\ \A k \in 1 .. Len(q) : Append(q, E)[k] = q[k]
      BY <1>3, <1>4
    <2> QED BY <1>4, <2>1
  <1>6. 0 \in Slots /\ Rec(D, n + 1, 0)'.ino = X
        /\ \A s \in Slots : s # 0 => Rec(D, n + 1, s)'.ino = 0
    <2>1. \A s \in Slots : Rec(D, n + 1, s)' = OneEntry(X, op.name)[s] BY <1>0, <1>3, <1>5 DEF Rec
    <2>2. 0 \in Slots BY SlotsAssumption DEF Slots
    <2>3. Rec(D, n + 1, 0)' = [ino |-> X, name |-> op.name]
          /\ \A s \in Slots : s # 0 => Rec(D, n + 1, s)' = FreeSlot
      BY <2>1, <2>2 DEF OneEntry
    <2>4. FreeSlot.ino = 0 BY DEF FreeSlot
    <2> QED BY <2>2, <2>3, <2>4
  <1> PICK K : K = n + 1 OBVIOUS
  <1>7. K \in 1 .. Len(itab'[D].blks) /\ K \notin 1 .. Len(itab[D].blks) BY <1>5
  <1>8. ASSUME NEW d \in DirInodes, NEW k \in 1 .. Len(itab'[d].blks), NEW s \in Slots
        PROVE  \/ d = D /\ k = K /\ s = 0
               \/ k \in 1 .. Len(itab[d].blks) /\ Rec(d, k, s)' = Rec(d, k, s)
               \/ k \notin 1 .. Len(itab[d].blks) /\ Rec(d, k, s)'.ino = 0
    <2>1. CASE d # D
      <3>1. itab'[d] = itab[d] BY <1>4, <2>1 DEF DirInodes
      <3> QED BY <1>0, <3>1 DEF Rec
    <2>2. CASE d = D /\ k \in 1 .. n BY <2>2, <1>0, <1>5 DEF Rec
    <2>3. CASE d = D /\ k = n + 1 BY <2>3, <1>6, <1>7
    <2>4. d = D => k \in 1 .. n \/ k = n + 1 BY <1>5
    <2> QED BY <2>1, <2>2, <2>3, <2>4
  <1>9. ASSUME NEW d \in DirInodes, NEW k \in 1 .. Len(itab[d].blks) PROVE k \in 1 .. Len(itab'[d].blks)
    <2>1. CASE d # D BY <1>4, <2>1 DEF DirInodes
    <2>2. CASE d = D BY <1>5, <2>2
    <2> QED BY <2>1, <2>2
  <1>10. Linked' = Linked \union {X} /\ LinkedDirs' = LinkedDirs \union NewDir BY LinkGrownInv
  <1>11. \A i \in Inodes : itab'[i].links = itab[i].links BY <1>4
  <1>12. Publishes(D, K, 0, X)
    BY <1>0, <1>1, <1>6, <1>7, <1>8, <1>9, <1>10, <1>11 DEF Publishes
  <1> QED BY <1>12, PublishLinks


\* Steps that write neither inodes nor directory blocks.
LEMMA LinksUntouched ==
    ASSUME TypeInv, TypeInv', DirsShort, DirsShort', LinksCounted, UNCHANGED <<itab, dblk>>,
           op.pc # "link_parent", op'.pc # "link_parent"
    PROVE  LinksCounted'
  <1>1. Linked' = Linked /\ LinkedDirs' = LinkedDirs /\ \A d, k, s : Rec(d, k, s)' = Rec(d, k, s)
    BY QuietView
  <1>2. \A i, d, k, s : LeadsTo(d, k, s, i)' <=> LeadsTo(d, k, s, i) BY <1>1, LeadsSame
  <1> QED BY <1>1, <1>2, LinksQuiet

\* Only the steps that publish a name wait for the parent's count.
LEMMA ParentPcs ==
    ASSUME TypeInv, Step, ~AppendDirent, ~LinkGrownBlock
    PROVE  op'.pc # "link_parent"
  <1>t. op \in OpRec BY DEF TypeInv, TypeOK
  <1>i. Idle.pc = "idle" BY DEF Idle
  <1> USE DEF At
  <1>f. CASE FailClean \/ FailAndLeak BY <1>f, <1>i DEF FailClean, FailAndLeak, Return
  <1>1. CASE AllocInode \/ AllocBlock \/ GrowDir BY <1>1, <1>t DEF AllocInode, AllocBlock, GrowDir, OpRec
  <1>2. CASE AllocInodeFails \/ AllocBlockFails \/ AllocDataFails \/ ReleaseFails
    BY <1>2, <1>f DEF AllocInodeFails, AllocBlockFails, AllocDataFails, ReleaseFails
  <1>3. CASE StoreMeta
    BY <1>3, <1>t, <1>i, GotoFacts DEF StoreMeta, AfterMeta, Pcs, Return
  <1>4. CASE AllocBlockCtx BY <1>4, <1>t DEF AllocBlockCtx, OpRec
  <1>5. CASE WriteData \/ ReleaseBlocks BY <1>5, <1>t DEF WriteData, ReleaseBlocks, OpRec
  <1>6. CASE WriteBitmap BY <1>6, <1>t DEF WriteBitmap, OpRec
  <1>7. CASE WriteInode BY <1>7, <1>t, <1>i, GotoFacts DEF WriteInode, Return, Pcs
  <1>8. CASE WriteDirBlock \/ WriteGrownBlock
    BY <1>8, <1>t, GotoFacts DEF WriteDirBlock, WriteGrownBlock, Pcs
  <1>9. CASE AppendFails
    <2>1. CASE op.kind = "mknod" BY <1>9, <2>1, <1>t, GotoFacts DEF AppendFails, Pcs
    <2>2. CASE op.kind # "mknod" BY <1>9, <2>2, <1>f DEF AppendFails
    <2> QED BY <2>1, <2>2
  <1>10. CASE LinkParent \/ RemoveDirent \/ FreeInode
    BY <1>10, <1>t, GotoFacts DEF LinkParent, RemoveDirent, FreeInode, Pcs
  <1>11. CASE ClearInode BY <1>11, <1>t, <1>i, GotoFacts DEF ClearInode, Return, Pcs
  <1> QED BY <1>1, <1>2, <1>3, <1>4, <1>5, <1>6, <1>7, <1>8, <1>9, <1>10, <1>11 DEF Step

\* The parent of the new directory gets its count.
LEMMA LinksParent ==
    ASSUME TypeInv, TypeInv', IInv, DirsShort, DirsShort', LinksCounted, LinkParent
    PROVE  LinksCounted'
  <1>0. op.pc = "link_parent" /\ dblk' = dblk /\ op.dir \in Inodes
    BY DEF LinkParent, At, TypeInv, TypeOK, OpRec
  <1>1. op'.pc = "dirs_meta" BY GotoFacts DEF LinkParent, TypeInv, TypeOK, Pcs
  <1>2. \A i \in Inodes : /\ itab'[i].blks = itab[i].blks /\ itab[i].links \in Nat
                          /\ itab'[i].links = itab[i].links + (IF i = op.dir THEN 1 ELSE 0)
    BY <1>0 DEF LinkParent, TypeInv, TypeOK, InodeRec
  <1>3. Linked' = Linked /\ LinkedDirs' = LinkedDirs BY LinkParentInv
  <1>4. Linked \subseteq Inodes /\ LinkedDirs \subseteq Inodes BY LinkedIs DEF LinkedDirs
  <1>5. \A d \in LinkedDirs : itab'[d].blks = itab[d].blks /\ \A k, s : Rec(d, k, s)' = Rec(d, k, s)
    BY <1>0, <1>2, <1>4 DEF Rec
  <1>6. \A i, d, k, s : LeadsTo(d, k, s, i)' <=> LeadsTo(d, k, s, i) BY <1>3, <1>5, LeadsSame
  <1> SUFFICES ASSUME NEW i \in Linked' PROVE Cardinality(Places(i)') = itab'[i].links + 0
    BY <1>1 DEF LinksCounted
  <1>7. \A p : p \in Places(i)' <=> p \in Places(i) BY <1>6, PlacesAre, PlacesAreNext
  <1>8. Places(i)' = Places(i)
    <2>1. Places(i)' \subseteq Places(i) /\ Places(i) \subseteq Places(i)' BY <1>7
    <2> QED BY <2>1
  <1>9. Cardinality(Places(i)') = Cardinality(Places(i)) BY <1>8, Zenon
  <1>10. Cardinality(Places(i)) = itab[i].links + (IF i = op.dir THEN 1 ELSE 0)
    BY <1>0, <1>3 DEF LinksCounted
  <1> QED BY <1>2, <1>3, <1>4, <1>9, <1>10

\* The record of the removed file goes, and nobody else's.
LEMMA LinksRemove ==
    ASSUME TypeInv, TypeInv', IInv, DirsShort, DirsShort', LinksCounted, RemoveDirent
    PROVE  LinksCounted'
  <1> PICK X : X = op.ino OBVIOUS
  <1> PICK D : D = op.dir OBVIOUS
  <1>0. op.pc = "remove" /\ itab' = itab /\ D \in DirInodes BY RemoveFacts
  <1>1. PICK K \in 1 .. Len(itab[D].blks), S \in Slots :
           /\ Rec(D, K, S) = [ino |-> X, name |-> op.name] /\ itab[D].blks[K] \in Blocks
           /\ \A b \in Blocks, t \in Slots :
                 b # itab[D].blks[K] \/ t # S => dblk'[b][t] = dblk[b][t]
           /\ dblk'[itab[D].blks[K]][S].ino = 0
    BY RemoveFacts
  <1>2. op'.pc # "link_parent" BY GotoFacts DEF RemoveDirent, TypeInv, TypeOK, Pcs
  <1>3. Linked' = Linked \ {X} /\ LinkedDirs' = LinkedDirs BY RemoveDirentInv
  <1>4. LinkedDirs \subseteq DirInodes /\ 0 \notin Linked
    BY LinkedIs, BlocksFinite DEF LinkedDirs, DirInodes, Inodes
  <1>5. ASSUME NEW i \in Linked', NEW d, NEW k, NEW s
        PROVE  LeadsTo(d, k, s, i)' <=> LeadsTo(d, k, s, i)
    <2>0. i # X /\ i # 0 BY <1>3, <1>4
    <2> SUFFICES ASSUME d \in LinkedDirs, k \in 1 .. Len(itab[d].blks), s \in Slots
                 PROVE  Rec(d, k, s)'.ino = i <=> Rec(d, k, s).ino = i
      BY <1>0, <1>3 DEF LeadsTo
    <2>1. d \in DirInodes BY <1>4
    <2>2. itab[d].blks[k] \in Blocks BY <2>1, DirBlocks
    <2>3. itab[d].blks[k] = itab[D].blks[K] => d = D /\ k = K
      BY <1>0, <2>1, DirPositions DEF IInv, DiskInv
    <2>4. CASE d = D /\ k = K /\ s = S
      <3>1. Rec(D, K, S).ino = X /\ Rec(D, K, S)'.ino = 0
        <4>1. Rec(D, K, S).ino = X BY <1>1
        <4>2. Rec(D, K, S)'.ino = 0 BY <1>0, <1>1 DEF Rec
        <4> QED BY <4>1, <4>2
      <3> QED BY <2>0, <2>4, <3>1
    <2>5. CASE ~(d = D /\ k = K /\ s = S)
      <3>1. Rec(d, k, s)' = Rec(d, k, s) BY <1>0, <1>1, <2>2, <2>3, <2>5 DEF Rec
      <3> QED BY <3>1
    <2> QED BY <2>4, <2>5
  <1> QED BY <1>0, <1>2, <1>3, <1>5, LinksQuiet


\* Blocks outside the directories on a path are written.
LEMMA LinksUnowned ==
    ASSUME TypeInv, TypeInv', DirsShort, DirsShort', LinksCounted, itab' = itab, NEW W,
           \A d \in LinkedDirs : Claims(d) \intersect W = {},
           \A b \in Blocks : b \notin W => dblk'[b] = dblk[b],
           Linked' = Linked, LinkedDirs' = LinkedDirs,
           op.pc # "link_parent", op'.pc # "link_parent"
    PROVE  LinksCounted'
  <1>1. LinkedDirs \subseteq DirInodes BY LinkedIs DEF LinkedDirs, DirInodes
  <1>2. ASSUME NEW d \in LinkedDirs, NEW k \in 1 .. Len(itab[d].blks), NEW s \in Slots
        PROVE  Rec(d, k, s)' = Rec(d, k, s)
    <2>1. itab[d].blks[k] \in Blocks /\ itab[d].blks[k] \in Claims(d) BY <1>1, DirBlocks
    <2> QED BY <2>1 DEF Rec
  <1>3. \A i, d, k, s : LeadsTo(d, k, s, i)' <=> LeadsTo(d, k, s, i) BY <1>2, LeadsSame
  <1> QED BY <1>3, LinksQuiet

\* An inode that is no directory on a path is written, with the same links if it
\* is on a path.
LEMMA LinksInode ==
    ASSUME TypeInv, TypeInv', DirsShort, DirsShort', LinksCounted, dblk' = dblk,
           NEW x \in Inodes, x \notin DirInodes, \A i \in Inodes : i # x => itab'[i] = itab[i],
           x \in Linked => itab'[x].links = itab[x].links,
           Linked' = Linked, LinkedDirs' = LinkedDirs,
           op.pc # "link_parent", op'.pc # "link_parent"
    PROVE  LinksCounted'
  <1>1. \A d \in LinkedDirs : d \in Inodes /\ d # x BY LinkedIs DEF LinkedDirs, DirInodes
  <1>2. \A d \in LinkedDirs : itab'[d] = itab[d] /\ \A k, s : Rec(d, k, s)' = Rec(d, k, s)
    BY <1>1 DEF Rec
  <1>3. \A i, d, k, s : LeadsTo(d, k, s, i)' <=> LeadsTo(d, k, s, i) BY <1>2, LeadsSame
  <1>4. \A i \in Linked : itab'[i].links = itab[i].links BY LinkedIs
  <1> QED BY <1>3, <1>4, LinksQuiet

LEMMA LinksStep ==
    ASSUME Harmless, TypeInv, TypeInv', IInv, DirsShort, DirsShort', OpLinks, LinksCounted, Step
    PROVE  LinksCounted'
  <1>t. op \in OpRec /\ itab \in [Inodes -> InodeRec] /\ dblk \in [Blocks -> [Slots -> Record]]
    BY DEF TypeInv, TypeOK
  <1>d. LinkedDirs \subseteq Owners /\ LinkedDirs \subseteq DirInodes
    BY LinkedIs DEF LinkedDirs, Owners, DirInodes
  <1>1. CASE AppendDirent BY <1>1, LinksAppend
  <1>2. CASE LinkGrownBlock BY <1>2, LinksGrown
  <1>3. CASE LinkParent BY <1>3, LinksParent
  <1>4. CASE RemoveDirent BY <1>4, LinksRemove
  <1>5. CASE WriteData
    <2> PICK W : W = Elems(op.blks) OBVIOUS
    <2>0. op.pc = "alloc_data" /\ op.kind \in {"create", "rewrite"} /\ itab' = itab
          /\ dblk' = [b \in Blocks |-> IF b \in W THEN Blank ELSE dblk[b]]
      BY <1>5 DEF WriteData, At, TypeInv, OpPath
    <2>1. Held BY <2>0 DEF Held
    <2>2. \A i \in Owners : Claims(i) \intersect W = {} BY <2>1 DEF IInv, OpInv, OpBlocks
    <2>3. Linked' = Linked /\ LinkedDirs' = LinkedDirs BY <1>5, WriteDataInv
    <2>4. op'.pc # "link_parent" BY <1>5, <1>t DEF WriteData, OpRec
    <2>5. \A b \in Blocks : b \notin W => dblk'[b] = dblk[b] BY <2>0
    <2>6. \A d \in LinkedDirs : Claims(d) \intersect W = {} BY <1>d, <2>2
    <2>7. op.pc # "link_parent" BY <2>0
    <2> QED BY <2>0, <2>3, <2>4, <2>5, <2>6, <2>7, LinksUnowned
  <1>6. CASE WriteGrownBlock
    <2> PICK W : W = {op.extra} OBVIOUS
    <2>0. op.pc = "grow_block" /\ itab' = itab /\ op.extra \in Blocks
          /\ dblk' = [dblk EXCEPT ![op.extra] = OneEntry(op.ino, op.name)]
      BY <1>6 DEF WriteGrownBlock, At, TypeInv, TypeOK, OpRec
    <2>2. \A i \in Owners : op.extra \notin Claims(i) BY <2>0 DEF IInv, OpInv, OpExtra
    <2>3. Linked' = Linked /\ LinkedDirs' = LinkedDirs BY <1>6, WriteGrownInv
    <2>4. op'.pc # "link_parent" BY <1>6, <1>t, GotoFacts DEF WriteGrownBlock, Pcs
    <2>5. \A b \in Blocks : b \notin W => dblk'[b] = dblk[b] BY <1>t, <2>0
    <2>6. \A d \in LinkedDirs : Claims(d) \intersect W = {} BY <1>d, <2>2
    <2>7. op.pc # "link_parent" BY <2>0
    <2> QED BY <2>0, <2>3, <2>4, <2>5, <2>6, <2>7, LinksUnowned
  <1>7. CASE WriteDirBlock
    <2> PICK X : X = op.ino OBVIOUS
    <2> PICK W : W = {op.blks[1]} OBVIOUS
    <2>0. op.pc = "write_dirblk" /\ op.kind = "mkdir" /\ itab' = itab
          /\ dblk' = [dblk EXCEPT ![op.blks[1]] = DotBlock(X, op.dir)]
      BY <1>7 DEF WriteDirBlock, At, TypeInv, OpPath
    <2>1. /\ itab[X].blks = op.blks /\ Len(op.blks) = 1 /\ itab[X].mode = "dir"
          /\ X \in Inodes /\ X \notin Linked
      BY <2>0 DEF IInv, OpInv, OpWritten, OpInode, Making, MakingPcs, NamingPcs, TypeInv, TypeOK
    <2>2. X \in DirInodes /\ 1 \in 1 .. Len(itab[X].blks) /\ X \notin LinkedDirs
      BY <2>1 DEF DirInodes, LinkedDirs
    <2>3. Linked' = Linked /\ LinkedDirs' = LinkedDirs BY <1>7, WriteDirBlockInv
    <2>4. op'.pc # "link_parent" BY <1>7, <1>t, GotoFacts DEF WriteDirBlock, Pcs
    <2>5. op.blks[1] \in Blocks BY <2>1, <2>2, DirBlocks
    <2>6. \A b \in Blocks : b \notin W => dblk'[b] = dblk[b] BY <1>t, <2>0, <2>5
    <2>7. ASSUME NEW d \in LinkedDirs PROVE Claims(d) \intersect W = {}
      <3>1. d \in DirInodes /\ d # X BY <1>d, <2>2
      <3>2. \A k \in 1 .. Len(itab[d].blks) : itab[d].blks[k] # op.blks[1]
        BY <2>1, <2>2, <3>1, DirPositions DEF IInv, DiskInv
      <3>3. Claims(d) \subseteq Elems(itab[d].blks) BY DEF Claims
      <3> QED BY <3>2, <3>3 DEF Elems
    <2>8. op.pc # "link_parent" BY <2>0
    <2> QED BY <2>0, <2>3, <2>4, <2>6, <2>7, <2>8, LinksUnowned
  <1>8. CASE WriteInode
    <2> PICK x : x = op.ino OBVIOUS
    <2>0. op.pc = "write_inode" /\ dblk' = dblk /\ itab' = [itab EXCEPT ![x] = NewInode]
      BY <1>8 DEF WriteInode, At
    <2>1. /\ op.kind # "rewrite" => x \notin Linked
          /\ \A i \in Inodes : i # x => itab'[i] = itab[i]
      BY <1>8, NewInodeFacts
    <2>2. x \in Inodes /\ x \notin DirInodes BY <1>8, NewInodeFacts
    <2>3. op.kind = "rewrite" => itab'[x].links = itab[x].links
      <3>1. op.kind = "rewrite" => NewInode = [itab[x] EXCEPT !.blks = op.blks] BY DEF NewInode
      <3>2. itab[x] \in InodeRec BY <1>t, <2>2
      <3> QED BY <1>t, <2>0, <2>2, <3>1, <3>2 DEF InodeRec
    <2>4. Linked' = Linked /\ LinkedDirs' = LinkedDirs BY <1>8, WriteInodeDisk
    <2>5. op'.pc # "link_parent" /\ op.pc # "link_parent"
      <3>1. ~AppendDirent /\ ~LinkGrownBlock BY <2>0 DEF AppendDirent, LinkGrownBlock, At
      <3> QED BY <2>0, <3>1, ParentPcs
    <2>6. x \in Linked => itab'[x].links = itab[x].links BY <2>1, <2>2, <2>3
    <2> QED BY <2>0, <2>1, <2>2, <2>4, <2>5, <2>6, LinksInode
  <1>9. CASE ClearInode
    <2> PICK x : x = op.ino OBVIOUS
    <2>0. op.pc = "clear_inode" /\ dblk' = dblk /\ op.kind \in Removing
      BY <1>9 DEF ClearInode, At, TypeInv, OpPath
    <2>1. x \in Inodes /\ x \notin DirInodes /\ (op.kind = "unlink" => x \notin Linked)
      BY <2>0, LinkedIs DEF IInv, OpInv, OpTarget, Removing, DirInodes
    <2>2. /\ \A i \in Inodes : i # x => itab'[i] = itab[i]
          /\ op.kind # "unlink" => itab'[x].links = itab[x].links
      BY <1>9, <1>t, <2>1 DEF ClearInode, InodeRec
    <2>3. Linked' = Linked /\ LinkedDirs' = LinkedDirs BY <1>9, ClearInodeDisk
    <2>4. op'.pc # "link_parent" /\ op.pc # "link_parent"
      <3>1. ~AppendDirent /\ ~LinkGrownBlock BY <2>0 DEF AppendDirent, LinkGrownBlock, At
      <3> QED BY <2>0, <3>1, ParentPcs
    <2> QED BY <2>0, <2>1, <2>2, <2>3, <2>4, LinksInode
  <1>10. CASE /\ ~AppendDirent /\ ~LinkGrownBlock /\ op.pc # "link_parent"
              /\ UNCHANGED <<itab, dblk>>
    BY <1>10, ParentPcs, LinksUntouched
  <1>11. \/ WriteInode \/ WriteDirBlock \/ WriteGrownBlock \/ AppendDirent \/ LinkGrownBlock
         \/ LinkParent \/ ClearInode \/ WriteData \/ RemoveDirent
         \/ op.pc # "link_parent" /\ UNCHANGED <<itab, dblk>>
    BY DEF Step, AllocInode, AllocInodeFails, StoreMeta, AfterMeta, AllocBlock, AllocBlockFails,
           AllocBlockCtx, AllocDataFails, WriteBitmap, GrowDir, AppendFails, ReleaseBlocks,
           ReleaseFails, FreeInode, FailAndLeak, FailClean, disk, At
  <1> QED BY <1>1, <1>2, <1>3, <1>4, <1>5, <1>6, <1>7, <1>8, <1>9, <1>10, <1>11

------------------------------------------------------------------------------
(* The invariant                                                             *)

LEMMA LinkInit == Init => LinkInv
  <1> SUFFICES ASSUME Init PROVE LinkInv OBVIOUS
  <1>0. op.pc = "idle" /\ op.kind = "none" BY DEF Init, Idle
  <1>1. TypeInv BY TypeInit
  <1>2. itab[Root].links = 2 /\ itab[Root].blks = <<RootBlock>>
        /\ dblk[RootBlock] = DotBlock(Root, Root)
    BY RootFacts, BlockFacts DEF Init
  <1>3. Len(itab[Root].blks) = 1 /\ itab[Root].blks[1] = RootBlock BY <1>2
  <1>4. DirsShort
    <2>1. 1 <= DirectSlots BY PointersAssumption
    <2> QED BY <1>0, <1>3, <2>1, InitView DEF DirsShort
  <1>5. OpLinks BY <1>0 DEF OpLinks, WrittenPcs
  <1>6. LinksCounted
    <2> SUFFICES Cardinality(Places(Root)) = itab[Root].links + 0
      BY <1>0, InitView DEF LinksCounted
    <2>1. 0 \in Slots /\ 1 \in Slots /\ Root # 0 BY SlotsAssumption DEF Slots, Root
    <2>2. Rec(Root, 1, 0).ino = Root /\ Rec(Root, 1, 1).ino = Root
          /\ \A s \in Slots : s \notin {0, 1} => Rec(Root, 1, s).ino = 0
      <3>1. \A s \in Slots : Rec(Root, 1, s) = DotBlock(Root, Root)[s] BY <1>2, <1>3 DEF Rec
      <3>2. Rec(Root, 1, 0) = [ino |-> Root, name |-> "."] /\ Rec(Root, 1, 1) = [ino |-> Root, name |-> ".."]
            /\ \A s \in Slots : s \notin {0, 1} => Rec(Root, 1, s) = FreeSlot
        BY <2>1, <3>1 DEF DotBlock
      <3>3. FreeSlot.ino = 0 BY DEF FreeSlot
      <3> QED BY <3>2, <3>3
    <2>3. \A d, k, s : LeadsTo(d, k, s, Root) <=> d = Root /\ k = 1 /\ s \in {0, 1}
      <3>1. \A k : k \in 1 .. Len(itab[Root].blks) => k = 1 BY <1>3
      <3>2. 1 \in 1 .. Len(itab[Root].blks) BY <1>3
      <3> QED BY <2>1, <2>2, <3>1, <3>2, InitView DEF LeadsTo
    <2>4. \A p : p \in Places(Root) <=> p = <<Root, 1, 0>> \/ p = <<Root, 1, 1>>
      BY <1>1, <1>4, <2>3, PlacesAre
    <2>5. Places(Root) = {<<Root, 1, 0>>} \union {<<Root, 1, 1>>} BY <2>4
    <2>6. IsFiniteSet({<<Root, 1, 0>>}) /\ Cardinality({<<Root, 1, 0>>}) = 1 BY FS_Singleton
    <2>7. <<Root, 1, 1>> \notin {<<Root, 1, 0>>} OBVIOUS
    <2>8. Cardinality({<<Root, 1, 0>>} \union {<<Root, 1, 1>>}) = Cardinality({<<Root, 1, 0>>}) + 1
      BY <2>6, <2>7, FS_AddElement
    <2>9. Cardinality(Places(Root)) = Cardinality({<<Root, 1, 0>>} \union {<<Root, 1, 1>>})
      BY <2>5, Zenon
    <2> QED BY <1>2, <2>6, <2>8, <2>9
  <1> QED BY <1>4, <1>5, <1>6 DEF LinkInv

\* A handler starts, or the process dies: no inode and no directory changes.
LEMMA LinkOther ==
    ASSUME TypeInv, TypeInv', LinkInv, Start \/ Crash \/ UNCHANGED vars
    PROVE  LinkInv'
  <1>1. CASE Start \/ Crash
    <2>1. op'.pc \notin WrittenPcs \union {"write_dirblk", "link_parent"} /\ UNCHANGED <<itab, dblk>>
      <3>1. Idle.pc = "idle" BY DEF Idle
      <3>2. CASE Start BY <3>2, BeginFacts DEF WrittenPcs
      <3>3. CASE Crash BY <3>1, <3>3 DEF Crash, Return, disk, WrittenPcs
      <3> QED BY <1>1, <3>2, <3>3
    <2>2. DirInodes' = DirInodes BY <2>1, QuietView
    <2>3. DirsShort' BY <2>1, <2>2 DEF LinkInv, DirsShort, WrittenPcs
    <2>4. OpLinks' BY <2>1 DEF OpLinks
    <2>5. ASSUME ~crashed' PROVE LinksCounted'
      <3>1. Start BY <1>1, <2>5 DEF Crash
      <3>2. op.pc = "idle" /\ ~crashed BY <2>5, <3>1, BeginFacts
      <3> QED BY <2>1, <2>3, <3>2, LinksUntouched DEF LinkInv
    <2> QED BY <2>3, <2>4, <2>5 DEF LinkInv
  <1>2. CASE UNCHANGED vars
    <2> USE <1>2 DEF vars
    <2>1. Linked' = Linked /\ LinkedDirs' = LinkedDirs /\ DirInodes' = DirInodes BY QuietView
    <2>2. DirsShort' BY <2>1 DEF LinkInv, DirsShort
    <2>3. OpLinks' BY DEF LinkInv, OpLinks
    <2>4. \A i : Places(i)' = Places(i) BY <2>1 DEF Places, Rec
    <2>5. ~crashed' => LinksCounted'
      <3>1. ~crashed' => LinksCounted BY DEF LinkInv
      <3>2. \A i : Cardinality(Places(i)') = Cardinality(Places(i)) BY <2>4, Zenon
      <3> QED BY <2>1, <3>1, <3>2 DEF LinksCounted
    <2> QED BY <2>2, <2>3, <2>5 DEF LinkInv
  <1> QED BY <1>1, <1>2

LEMMA LinkNext ==
    ASSUME Harmless, TypeInv, TypeInv', IInv, LinkInv, [Next]_vars
    PROVE  LinkInv'
  <1>1. CASE Step
    <2>1. DirsShort' BY <1>1, ShortStep DEF LinkInv
    <2>2. OpLinks' BY <1>1, OpLinksStep DEF LinkInv
    <2>3. ASSUME ~crashed' PROVE LinksCounted'
      <3>1. ~crashed BY <2>3, CrashedStays
      <3> QED BY <1>1, <2>1, <3>1, LinksStep DEF LinkInv
    <2> QED BY <2>1, <2>2, <2>3 DEF LinkInv
  <1>2. CASE Start \/ Crash \/ UNCHANGED vars BY <1>2, LinkOther
  <1> QED BY <1>1, <1>2 DEF Next

LEMMA LinkInvariant == ASSUME Harmless PROVE Spec => []LinkInv
  <1>1. Init => LinkInv BY LinkInit
  <1>2. TypeInv /\ TypeInv' /\ IInv /\ LinkInv /\ [Next]_vars => LinkInv' BY LinkNext
  <1> QED BY <1>1, <1>2, IInvCorrect, PTL DEF Spec

\* Between operations i_links_count of every inode on a path is the number of
\* directory records that lead to it, "." and ".." included: mkdir counts the
\* link of the parent only after it has published the name, and no failure of an
\* append and no reuse of an inode leaves a count that is off.
THEOREM LinksCorrect == ASSUME Harmless PROVE Spec => []LinkCountsExact
  <1>1. TypeInv /\ LinkInv => LinkCountsExact
    <2> SUFFICES ASSUME TypeInv, LinkInv, op = Idle, ~crashed, NEW i \in Linked
                 PROVE  itab[i].links = Cardinality(Places(i))
      BY DEF LinkCountsExact, Places, Rec
    <2>1. op.pc = "idle" BY DEF Idle
    <2>2. Cardinality(Places(i)) = itab[i].links + 0 BY <2>1 DEF LinkInv, LinksCounted
    <2>3. itab[i].links \in Nat BY LinkedIs DEF TypeInv, TypeOK, InodeRec
    <2> QED BY <2>2, <2>3
  <1> QED BY <1>1, LinkInvariant, IInvCorrect, PTL

==============================================================================
