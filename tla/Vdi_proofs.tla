----------------------------- MODULE Vdi_proofs -----------------------------
(***************************************************************************)
(* Proofs about Vdi, for every size of image and block, every set of       *)
(* contents and any sequence of calls: with one handle at a time, and      *)
(* without a crash between the publication of a block and the update of    *)
(* the header, the map never aliases, the audit of diskq passes, the       *)
(* container implements VirtualDisk and is never full while a guest block  *)
(* waits for a host block.  Types are kept with any number of handles on   *)
(* one image; and whatever the host does to an image used under one key,   *)
(* down to a crash between any two writes, it can be opened again and      *)
(* every block its map names is there.                                     *)
(***************************************************************************)
EXTENDS Vdi, TLAPS, FiniteSetTheorems

\* The block and the offset of a sector, and back.
LEMMA Addresses ==
    \A a \in Sectors : /\ BlockOf(a) \in Guest /\ Offset(a) \in InBlock
                       /\ a = BlockOf(a) * BlockSectors + Offset(a)
  <1> TAKE a \in Sectors
  <1> DEFINE q == a \div BlockSectors  r == a % BlockSectors
  <1>1. a \in Nat /\ a < BlocksCount * BlockSectors BY CountsAssumption DEF Sectors
  <1>2. q \in Int /\ r \in InBlock /\ a = q * BlockSectors + r
    BY <1>1, CountsAssumption DEF InBlock
  <1>3. q \in Guest BY <1>1, CountsAssumption DEF Guest
  <1> QED BY <1>2, <1>3 DEF BlockOf, Offset

\* Decomposing an address gives back its parts.
LEMMA Parts ==
    \A p \in Guest, s \in InBlock :
        LET a == p * BlockSectors + s
        IN  a \in Sectors /\ BlockOf(a) = p /\ Offset(a) = s
  <1> TAKE p \in Guest, s \in InBlock
  <1> DEFINE a == p * BlockSectors + s
  <1>1. a \in Nat /\ a < BlocksCount * BlockSectors
    <2>1. \A x, y, z \in Nat : x <= y => x * z <= y * z OBVIOUS
    <2>2. p + 1 \in Nat /\ p + 1 <= BlocksCount /\ s < BlockSectors /\ s \in Nat /\ p \in Nat
      BY CountsAssumption DEF Guest, InBlock
    <2>3. (p + 1) * BlockSectors <= BlocksCount * BlockSectors
      BY <2>1, <2>2, CountsAssumption
    <2>4. (p + 1) * BlockSectors = p * BlockSectors + BlockSectors
      BY <2>2, CountsAssumption
    <2> QED BY <2>2, <2>3, <2>4, CountsAssumption
  <1>2. a \div BlockSectors = p /\ a % BlockSectors = s
    BY <1>1, CountsAssumption DEF Guest, InBlock
  <1> QED BY <1>1, <1>2, CountsAssumption DEF Sectors, BlockOf, Offset

\* The number of sectors, and the first one.
LEMMA SizeFacts == BlocksCount * BlockSectors \in Nat \ {0} /\ 0 \in Guest
  BY CountsAssumption DEF Guest

------------------------------------------------------------------------------
(* Types                                                                     *)

OpRec == [pc : {"lookup", "zero", "publish", "count", "data", "direct"}, h : Handles,
          off : Sectors, end : 1 .. BlocksCount * BlockSectors, val : Values, entry : Host]

\* A jump to another pc of vdi_write keeps the types.
LEMMA GotoType ==
    ASSUME op \in OpRec, NEW pc \in {"lookup", "zero", "publish", "count", "data", "direct"}, Goto(pc)
    PROVE  /\ op' \in OpRec
           /\ op'.pc = pc /\ op'.h = op.h /\ op'.off = op.off /\ op'.end = op.end
           /\ op'.val = op.val /\ op'.entry = op.entry
  BY DEF Goto, OpRec

\* A pc other than "idle" is that of a write in progress.
LEMMA OpBusy ==
    ASSUME TypeOK, op.pc # "idle"
    PROVE  op \in OpRec /\ op # Idle
  BY DEF TypeOK, OpRec, Idle

\* The end of a stretch: past its start, and at most the end of the write.
LEMMA Stretch ==
    ASSUME op \in OpRec, op.off < op.end
    PROVE  /\ StretchEnd \in Nat /\ op.off < StretchEnd /\ StretchEnd <= op.end
           /\ StretchEnd <= (BlockOf(op.off) + 1) * BlockSectors
           /\ StretchEnd < op.end => StretchEnd \in Sectors
  <1>1. op.off \in Sectors /\ op.end \in Nat /\ op.end <= BlocksCount * BlockSectors
    BY SizeFacts DEF OpRec
  <1>2. BlockOf(op.off) \in Nat /\ Offset(op.off) \in Nat /\ Offset(op.off) < BlockSectors
        /\ op.off = BlockOf(op.off) * BlockSectors + Offset(op.off)
    BY <1>1, Addresses, CountsAssumption DEF Guest, InBlock
  <1>3. (BlockOf(op.off) + 1) * BlockSectors = BlockOf(op.off) * BlockSectors + BlockSectors
        /\ (BlockOf(op.off) + 1) * BlockSectors \in Nat
        /\ BlockOf(op.off) * BlockSectors \in Nat
    BY <1>2, CountsAssumption
  <1>4. op.off < (BlockOf(op.off) + 1) * BlockSectors
    BY <1>2, <1>3, CountsAssumption
  <1> QED BY <1>1, <1>3, <1>4, SizeFacts DEF StretchEnd, Sectors

\* A fresh image is well typed.
LEMMA FilledType == Filled(Zero) \in [InBlock -> Contents] /\ Filled(Absent) \in [InBlock -> Contents]
  BY DEF Filled, Contents

------------------------------------------------------------------------------
(* The invariant                                                             *)

Inv == TypeOK /\ VInv

\* A new image, of either type, with no write in progress.
LEMMA InitInv == Init => Inv
  <1> SUFFICES ASSUME Init PROVE Inv OBVIOUS
  <1>1. TypeOK
    BY FilledType, CountsAssumption DEF Init, TypeOK, Guest, Host, Unallocated
  <1>2. Top = allocated /\ op = Idle BY DEF Top, Init, Idle
  <1>3. OneHandle /\ OpSound /\ CountsAgree BY <1>2 DEF Init, OneHandle, OpSound, CountsAgree
  <1>4. NoDuplicates /\ FixedDirect BY DEF Init, NoDuplicates, FixedDirect
  <1>5. MapFilled BY <1>2, CountsAssumption DEF Init, MapFilled, Guest, Unallocated
  <1>6. Materialized
    BY <1>2, ValuesAssumption, CountsAssumption DEF Init, Materialized, Host, Filled
  <1> QED BY <1>1, <1>3, <1>4, <1>5, <1>6 DEF Inv, VInv

\* Creating an image while no handle is open starts over.
LEMMA CreateInv ==
    ASSUME Inv, Orderly, NEW t \in {"fixed", "dynamic"}, Create(t)
    PROVE  Inv'
  <1> USE DEF Create, Fresh
  <1>0. opened = {} /\ op = Idle /\ op' = Idle BY DEF Orderly
  <1>1. TypeOK'
    BY <1>0, FilledType, CountsAssumption DEF Inv, TypeOK, Guest, Host, Unallocated
  <1>2. Top' = allocated' BY <1>0 DEF Top, Idle
  <1>3. (OneHandle /\ OpSound /\ CountsAgree)' BY <1>0 DEF OneHandle, OpSound, CountsAgree
  <1>4. (NoDuplicates /\ FixedDirect)' BY DEF NoDuplicates, FixedDirect
  <1>5. MapFilled' BY <1>2, CountsAssumption DEF MapFilled, Guest, Unallocated
  <1>6. Materialized'
    BY <1>2, ValuesAssumption, CountsAssumption DEF Materialized, Host, Filled
  <1> QED BY <1>1, <1>3, <1>4, <1>5, <1>6 DEF Inv, VInv

\* Steps that leave the image alone.
LEMMA SameImage ==
    ASSUME Inv, UNCHANGED image, op.pc # "count", op'.pc # "count"
    PROVE  (MapFilled /\ NoDuplicates /\ FixedDirect /\ Materialized)' /\ Top' = Top
           /\ Top = allocated
  <1>1. Top' = Top /\ Top = allocated BY DEF Top, image
  <1> QED BY <1>1 DEF Inv, VInv, MapFilled, NoDuplicates, FixedDirect, Materialized, image

\* Opening, closing, starting a write and failing one.
LEMMA CallInv ==
    ASSUME Inv, Orderly, NEW h \in Handles,
           \/ Open(h) \/ Close(h)
           \/ \E off \in Sectors, last \in Sectors, v \in Values : Write(h, off, last, v)
           \/ HostWriteFails \/ Lookup \/ LookupFails
    PROVE  Inv'
  <1> USE DEF Inv, VInv
  <1>1. CASE Open(h)
    <2>0. op = Idle /\ op' = Idle /\ opened = {} /\ opened' = {h} /\ UNCHANGED image
      BY <1>1 DEF Open, Orderly
    <2>1. (MapFilled /\ NoDuplicates /\ FixedDirect /\ Materialized)' /\ Top' = Top
           /\ Top = allocated
      BY <2>0, SameImage DEF Idle
    <2>2. TypeOK' BY <1>1, <2>0 DEF Open, TypeOK, image
    <2>3. (OneHandle /\ OpSound /\ CountsAgree)'
      BY <1>1, <2>0, <2>1 DEF OneHandle, OpSound, CountsAgree, Open, TypeOK
    <2> QED BY <2>1, <2>2, <2>3
  <1>2. CASE Close(h)
    <2>0. op = Idle /\ op' = Idle /\ opened' \subseteq opened /\ UNCHANGED image
      BY <1>2 DEF Close
    <2>1. (MapFilled /\ NoDuplicates /\ FixedDirect /\ Materialized)' /\ Top' = Top
      BY <2>0, SameImage DEF Idle
    <2>2. TypeOK' BY <1>2, <2>0 DEF Close, TypeOK, image
    <2>3. (OneHandle /\ OpSound /\ CountsAgree)'
      BY <1>2, <2>0, <2>1 DEF OneHandle, OpSound, CountsAgree, Close
    <2> QED BY <2>1, <2>2, <2>3
  <1>3. CASE \E off \in Sectors, last \in Sectors, v \in Values : Write(h, off, last, v)
    <2> PICK off \in Sectors, last \in Sectors, v \in Values : Write(h, off, last, v) BY <1>3
    <2>0. op = Idle /\ UNCHANGED <<image, opened, alloc>> /\ h \in opened /\ off <= last
          /\ op' = [pc |-> IF type = "fixed" THEN "direct" ELSE "lookup",
                    h |-> h, off |-> off, end |-> last + 1, val |-> v, entry |-> 0]
      BY DEF Write
    <2>1. (MapFilled /\ NoDuplicates /\ FixedDirect /\ Materialized)' /\ Top' = Top
      BY <2>0, SameImage DEF Idle
    <2>2. last + 1 \in 1 .. BlocksCount * BlockSectors /\ 0 \in Host /\ off < last + 1
      BY <2>0, SizeFacts DEF Sectors, Host, Guest
    <2>3. op' \in OpRec BY <2>0, <2>2 DEF OpRec
    <2>4. TypeOK' BY <2>0, <2>3 DEF TypeOK, image, OpRec
    <2>5. (OneHandle /\ OpSound /\ CountsAgree)'
      BY <2>0, <2>1, <2>2, <2>3 DEF OneHandle, OpSound, CountsAgree, image, TypeOK
    <2> QED BY <2>1, <2>4, <2>5
  <1>4. CASE HostWriteFails \/ LookupFails
    <2>0. op' = Idle /\ UNCHANGED <<image, opened, alloc>> /\ op.pc # "count"
      BY <1>4 DEF HostWriteFails, LookupFails, Return, Orderly, At
    <2>1. (MapFilled /\ NoDuplicates /\ FixedDirect /\ Materialized)' /\ Top' = Top
      BY <2>0, SameImage DEF Idle
    <2>2. TypeOK' BY <2>0 DEF TypeOK, image
    <2>3. (OneHandle /\ OpSound /\ CountsAgree)'
      BY <2>0, <2>1 DEF OneHandle, OpSound, CountsAgree
    <2> QED BY <2>1, <2>2, <2>3
  <1>5. CASE Lookup
    <2>0. At("lookup") /\ op \in OpRec /\ op # Idle /\ UNCHANGED <<image, opened, alloc>>
      BY <1>5, OpBusy DEF Lookup, At
    <2>1. op.off \in Sectors /\ BlockOf(op.off) \in Guest /\ Entry \in Host \union {Unallocated}
          /\ op.h \in opened /\ alloc[op.h] = allocated /\ allocated \in 0 .. BlocksCount
      BY <2>0, Addresses DEF OpRec, Entry, TypeOK, OpSound, CountsAgree, Top, At
    <2>2. /\ op' \in OpRec
          /\ op'.h = op.h /\ op'.off = op.off /\ op'.end = op.end /\ Entry' = Entry
          /\ \/ op'.pc = "zero" /\ op'.entry = allocated /\ Entry = Unallocated
             \/ op'.pc = "data" /\ op'.entry = Entry
      <3>1. CASE Entry = Unallocated /\ alloc[op.h] < BlocksCount
                 /\ op' = [op EXCEPT !.entry = alloc[op.h], !.pc = "zero"]
        <4>1. alloc[op.h] \in Host BY <2>1, <3>1, CountsAssumption DEF Host
        <4> QED BY <2>0, <2>1, <3>1, <4>1 DEF OpRec, Entry, image
      <3>2. CASE Entry # Unallocated /\ Entry < alloc[op.h]
                 /\ op' = [op EXCEPT !.entry = Entry, !.pc = "data"]
        BY <2>0, <2>1, <3>2 DEF OpRec, Entry, image
      <3> QED BY <1>5, <3>1, <3>2 DEF Lookup
    <2>3. (MapFilled /\ NoDuplicates /\ FixedDirect /\ Materialized)' /\ Top' = Top
      BY <2>0, <2>2, SameImage DEF At
    <2>4. TypeOK' BY <2>0, <2>2 DEF TypeOK, image, OpRec
    <2>5. (OneHandle /\ OpSound /\ CountsAgree)'
      BY <2>0, <2>1, <2>2, <2>3 DEF OneHandle, OpSound, CountsAgree, image, At
    <2> QED BY <2>3, <2>4, <2>5
  <1> QED BY <1>1, <1>2, <1>3, <1>4, <1>5

\* What holds at a step of vdi_write on a dynamic image.
LEMMA BusyFacts ==
    ASSUME Inv, op.pc \in {"zero", "publish", "count", "data"}
    PROVE  /\ op \in OpRec /\ op # Idle /\ type = "dynamic" /\ op.h \in opened /\ op.off < op.end
           /\ op.off \in Sectors /\ BlockOf(op.off) \in Guest /\ op.entry \in Host
           /\ alloc[op.h] = Top /\ alloc[op.h] \in 0 .. BlocksCount /\ allocated \in Nat
           /\ \A h \in opened : h = op.h
  <1>1. op \in OpRec /\ op # Idle BY OpBusy DEF Inv
  <1>2. op.h \in opened /\ op.off < op.end /\ type # "fixed"
    BY <1>1 DEF Inv, VInv, OpSound
  <1>3. op.off \in Sectors /\ BlockOf(op.off) \in Guest /\ op.entry \in Host
    BY <1>1, Addresses DEF OpRec
  <1>4. type = "dynamic" /\ alloc[op.h] = Top /\ alloc[op.h] \in 0 .. BlocksCount /\ allocated \in Nat
    BY <1>2, CountsAssumption DEF Inv, VInv, TypeOK, CountsAgree
  <1> QED BY <1>1, <1>2, <1>3, <1>4 DEF Inv, VInv, OneHandle

\* Zeroing the next host block, which no map entry leads to yet.
LEMMA ZeroInv == ASSUME Inv, ZeroBlock PROVE Inv'
  <1> USE DEF Inv, VInv
  <1>0. op.pc = "zero" /\ Goto("publish") /\ UNCHANGED <<type, map, allocated, opened, alloc>>
        /\ data' = [data EXCEPT ![op.entry] = Filled(Zero)]
    BY DEF ZeroBlock, At
  <1>1. op \in OpRec /\ op # Idle /\ op.entry \in Host /\ op.h \in opened BY <1>0, BusyFacts
  <1>2. op' \in OpRec /\ op'.pc = "publish" /\ op'.h = op.h /\ op'.off = op.off /\ op'.end = op.end
        /\ op'.entry = op.entry
    BY <1>0, <1>1, GotoType
  <1>3. data' \in [Host -> [InBlock -> Contents]] /\ data'[op.entry] = Filled(Zero)
        /\ \A p \in Host : p # op.entry => data'[p] = data[p]
    BY <1>0, <1>1, FilledType DEF TypeOK
  <1>4. TypeOK' BY <1>0, <1>2, <1>3 DEF TypeOK, OpRec
  <1>5. Top' = Top /\ Top = allocated /\ Entry' = Entry BY <1>0, <1>2 DEF Top, Entry
  <1>6. (OneHandle /\ OpSound /\ CountsAgree)'
    BY <1>0, <1>1, <1>2, <1>3, <1>5 DEF OneHandle, OpSound, CountsAgree
  <1>7. (MapFilled /\ NoDuplicates /\ FixedDirect)'
    BY <1>0, <1>5 DEF MapFilled, NoDuplicates, FixedDirect
  <1>8. op.entry = allocated BY <1>0, <1>1 DEF OpSound
  <1>9. Materialized' BY <1>3, <1>5, <1>8, <1>1, CountsAssumption DEF Materialized, Host
  <1> QED BY <1>4, <1>6, <1>7, <1>9

\* Publishing a zeroed block: the entry is the first number no entry uses.
LEMMA PublishInv == ASSUME Inv, Publish PROVE Inv'
  <1> USE DEF Inv, VInv
  <1> DEFINE k == BlockOf(op.off)
  <1>0. op.pc = "publish" /\ Goto("count") /\ UNCHANGED <<type, allocated, data, opened>>
        /\ map' = [map EXCEPT ![k] = op.entry] /\ alloc' = [alloc EXCEPT ![op.h] = @ + 1]
    BY DEF Publish, At
  <1>1. op \in OpRec /\ op # Idle /\ op.entry \in Host /\ op.h \in opened /\ k \in Guest
        /\ type = "dynamic" /\ alloc[op.h] = Top /\ \A h \in opened : h = op.h
    BY <1>0, BusyFacts
  <1>2. op' \in OpRec /\ op'.pc = "count" /\ op'.h = op.h /\ op'.off = op.off /\ op'.end = op.end
        /\ op'.entry = op.entry
    BY <1>0, <1>1, GotoType
  <1>3. op.entry = allocated /\ map[k] = Unallocated /\ data[op.entry] = Filled(Zero)
    BY <1>0, <1>1 DEF OpSound, Entry
  <1>4. map' \in [Guest -> Host \union {Unallocated}] /\ map'[k] = op.entry
        /\ \A g \in Guest : g # k => map'[g] = map[g]
    BY <1>0, <1>1 DEF TypeOK
  <1>5. Top = allocated /\ Top' = allocated + 1 /\ allocated \in Nat /\ allocated < BlocksCount
    BY <1>0, <1>1, <1>2, <1>3, CountsAssumption DEF Top, TypeOK, Host
  <1>6. alloc' \in [Handles -> 0 .. BlocksCount] /\ alloc'[op.h] = allocated + 1
    BY <1>0, <1>1, <1>5, CountsAssumption DEF TypeOK, OpRec
  <1>7. TypeOK' BY <1>0, <1>2, <1>4, <1>6 DEF TypeOK, OpRec
  <1>8. (OneHandle /\ OpSound /\ CountsAgree)'
    BY <1>0, <1>1, <1>2, <1>4, <1>5, <1>6 DEF OneHandle, OpSound, CountsAgree, Entry
  <1>9. \A g \in Guest : map[g] # Unallocated => map[g] \in Int /\ map[g] < allocated
    BY <1>5 DEF MapFilled, TypeOK, Host
  <1>10. NoDuplicates'
    BY <1>3, <1>4, <1>5, <1>9 DEF NoDuplicates
  <1>11. MapFilled'
    <2>1. \A g \in Guest : map'[g] # Unallocated => map'[g] < Top'
      BY <1>3, <1>4, <1>5, <1>9
    <2>2. ASSUME NEW e \in 0 .. Top' - 1 PROVE \E g \in Guest : map'[g] = e
      <3>1. CASE e = op.entry BY <3>1, <1>1, <1>4
      <3>2. CASE e # op.entry
        <4>1. e \in 0 .. Top - 1 BY <3>2, <1>3, <1>5
        <4>2. PICK g \in Guest : map[g] = e BY <4>1 DEF MapFilled
        <4>3. g # k BY <4>1, <4>2, <1>3, <1>5 DEF Unallocated
        <4> QED BY <4>2, <4>3, <1>4
      <3> QED BY <3>1, <3>2
    <2> QED BY <2>1, <2>2 DEF MapFilled
  <1>12. FixedDirect' BY <1>0, <1>1 DEF FixedDirect
  <1>13. Materialized'
    BY <1>0, <1>3, <1>5, ValuesAssumption, CountsAssumption DEF Materialized, Host, Filled
  <1> QED BY <1>7, <1>8, <1>10, <1>11, <1>12, <1>13

\* The header catches up with the map.
LEMMA UpdateInv == ASSUME Inv, UpdateAllocated PROVE Inv'
  <1> USE DEF Inv, VInv
  <1>0. op.pc = "count" /\ Goto("data") /\ UNCHANGED <<type, map, data, opened, alloc>>
        /\ allocated' = alloc[op.h]
    BY DEF UpdateAllocated, At
  <1>1. op \in OpRec /\ op # Idle /\ op.h \in opened /\ alloc[op.h] = Top
        /\ alloc[op.h] \in 0 .. BlocksCount /\ type = "dynamic"
    BY <1>0, BusyFacts
  <1>2. op' \in OpRec /\ op'.pc = "data" /\ op'.h = op.h /\ op'.off = op.off /\ op'.end = op.end
        /\ op'.entry = op.entry
    BY <1>0, <1>1, GotoType
  <1>3. TypeOK' BY <1>0, <1>1, <1>2 DEF TypeOK, OpRec
  <1>4. Top' = Top /\ Entry' = Entry BY <1>0, <1>1, <1>2 DEF Top, Entry
  <1>5. (OneHandle /\ OpSound /\ CountsAgree)'
    BY <1>0, <1>1, <1>2, <1>4 DEF OneHandle, OpSound, CountsAgree
  <1>6. (MapFilled /\ NoDuplicates /\ FixedDirect /\ Materialized)'
    BY <1>0, <1>1, <1>4 DEF MapFilled, NoDuplicates, FixedDirect, Materialized
  <1> QED BY <1>3, <1>5, <1>6

\* Writing sectors of a host block that is in use.
LEMMA WriteBlockInv == ASSUME Inv, WriteBlock PROVE Inv'
  <1> USE DEF Inv, VInv
  <1> DEFINE row == [s \in InBlock |->
                       IF s >= Offset(op.off) /\ s < Offset(op.off) + StretchEnd - op.off
                       THEN op.val ELSE data[op.entry][s]]
  <1>0. op.pc = "data" /\ UNCHANGED <<type, map, allocated, opened, alloc>>
        /\ data' = [data EXCEPT ![op.entry] = row]
        /\ op' = IF StretchEnd = op.end THEN Idle ELSE [op EXCEPT !.off = StretchEnd, !.pc = "lookup"]
    BY DEF WriteBlock, At, Return
  <1>1. op \in OpRec /\ op # Idle /\ op.entry \in Host /\ op.h \in opened /\ op.off < op.end
        /\ type = "dynamic" /\ op.val \in Values
    BY <1>0, BusyFacts DEF OpRec
  <1>2. row \in [InBlock -> Contents]
    BY <1>1 DEF TypeOK, Contents
  <1>3. data' \in [Host -> [InBlock -> Contents]]
        /\ \A p \in Host : data'[p] = IF p = op.entry THEN row ELSE data[p]
    BY <1>0, <1>1, <1>2 DEF TypeOK
  <1>4. \A p \in Host, s \in InBlock : data[p][s] # Absent => data'[p][s] # Absent
    BY <1>1, <1>3, ValuesAssumption
  <1>5. CASE StretchEnd = op.end
    <2>1. op' = Idle BY <1>0, <1>5
    <2>2. Top' = Top /\ Top = allocated BY <1>0, <2>1 DEF Top, Idle
    <2>3. TypeOK' BY <1>0, <1>3, <2>1 DEF TypeOK
    <2>4. (OneHandle /\ OpSound /\ CountsAgree)'
      BY <1>0, <2>1, <2>2 DEF OneHandle, OpSound, CountsAgree
    <2>5. (MapFilled /\ NoDuplicates /\ FixedDirect)'
      BY <1>0, <2>2 DEF MapFilled, NoDuplicates, FixedDirect
    <2>6. Materialized' BY <1>4, <2>2 DEF Materialized
    <2> QED BY <2>3, <2>4, <2>5, <2>6
  <1>6. CASE StretchEnd # op.end
    <2>1. StretchEnd < op.end /\ StretchEnd \in Sectors
      BY <1>1, <1>6, Stretch DEF OpRec
    <2>2. op' \in OpRec /\ op'.pc = "lookup" /\ op'.off = StretchEnd /\ op'.end = op.end
          /\ op'.h = op.h
      BY <1>0, <1>1, <1>6, <2>1 DEF OpRec
    <2>3. Top' = Top /\ Top = allocated BY <1>0, <2>2 DEF Top
    <2>4. TypeOK' BY <1>0, <1>3, <2>2 DEF TypeOK, OpRec
    <2>5. (OneHandle /\ OpSound /\ CountsAgree)'
      BY <1>0, <1>1, <2>1, <2>2, <2>3 DEF OneHandle, OpSound, CountsAgree
    <2>6. (MapFilled /\ NoDuplicates /\ FixedDirect)'
      BY <1>0, <2>3 DEF MapFilled, NoDuplicates, FixedDirect
    <2>7. Materialized' BY <1>4, <2>3 DEF Materialized
    <2> QED BY <2>4, <2>5, <2>6, <2>7
  <1> QED BY <1>5, <1>6

\* A write to a fixed image.
LEMMA WriteFixedInv == ASSUME Inv, WriteFixed PROVE Inv'
  <1> USE DEF Inv, VInv
  <1>0. op.pc = "direct" /\ op' = Idle /\ UNCHANGED <<type, map, allocated, opened, alloc>>
    BY DEF WriteFixed, At, Return
  <1>1. op \in OpRec BY <1>0, OpBusy
  <1>2. data' \in [Host -> [InBlock -> Contents]]
    BY <1>1 DEF WriteFixed, TypeOK, Contents, OpRec
  <1>3. \A p \in Host, s \in InBlock : data[p][s] # Absent => data'[p][s] # Absent
    BY <1>1, ValuesAssumption DEF WriteFixed, OpRec
  <1>4. Top' = Top /\ Top = allocated BY <1>0 DEF Top, Idle
  <1>5. TypeOK' BY <1>0, <1>2 DEF TypeOK
  <1>6. (OneHandle /\ OpSound /\ CountsAgree)'
    BY <1>0, <1>4 DEF OneHandle, OpSound, CountsAgree
  <1>7. (MapFilled /\ NoDuplicates /\ FixedDirect)'
    BY <1>0, <1>4 DEF MapFilled, NoDuplicates, FixedDirect
  <1>8. Materialized' BY <1>3, <1>4 DEF Materialized
  <1> QED BY <1>5, <1>6, <1>7, <1>8

\* The invariant is inductive.
LEMMA NextInv == Orderly /\ Inv /\ [Next]_vars => Inv'
  <1> SUFFICES ASSUME Orderly, Inv, [Next]_vars PROVE Inv' OBVIOUS
  <1>1. CASE \E t \in {"fixed", "dynamic"} : Create(t) BY <1>1, CreateInv
  <1>2. CASE \E h \in Handles : Open(h) \/ Close(h) BY <1>2, CallInv
  <1>3. CASE \E h \in Handles, off \in Sectors, last \in Sectors, v \in Values : Write(h, off, last, v)
    BY <1>3, CallInv
  <1>4. CASE HostWriteFails \/ Lookup \/ LookupFails
    <2>1. op.pc # "idle" => op.h \in Handles BY OpBusy DEF Inv, OpRec
    <2>2. CASE op.h \in Handles BY <1>4, <2>2, CallInv
    <2>3. CASE op.pc = "idle"
      <3>1. HostWriteFails BY <1>4, <2>3 DEF Lookup, LookupFails, At
      <3>2. UNCHANGED vars
        <4>1. op = Idle BY <2>3 DEF Inv, TypeOK, Idle
        <4> QED BY <3>1, <4>1 DEF HostWriteFails, Return, vars, image
      <3> QED BY <3>2 DEF Inv, TypeOK, VInv, OneHandle, OpSound, CountsAgree, MapFilled,
                          NoDuplicates, FixedDirect, Materialized, vars, Top, Entry
    <2> QED BY <2>1, <2>2, <2>3
  <1>5. CASE ZeroBlock \/ Publish \/ UpdateAllocated \/ WriteBlock \/ WriteFixed
    BY <1>5, ZeroInv, PublishInv, UpdateInv, WriteBlockInv, WriteFixedInv
  <1>6. CASE Crash BY <1>6 DEF Crash, Orderly
  <1>7. CASE UNCHANGED vars
    BY <1>7 DEF Inv, TypeOK, VInv, OneHandle, OpSound, CountsAgree, MapFilled,
                NoDuplicates, FixedDirect, Materialized, vars, Top, Entry
  <1> QED BY <1>1, <1>2, <1>3, <1>4, <1>5, <1>6, <1>7 DEF Next, Step

\* In every reachable state of an orderly used image the invariant holds.
THEOREM InvCorrect == ASSUME Orderly PROVE Spec => []Inv
  <1>1. Init => Inv BY InitInv
  <1>2. Inv /\ [Next]_vars => Inv' BY NextInv
  <1> QED BY <1>1, <1>2, PTL DEF Spec

\* No two guest blocks ever share a host block.
THEOREM NeverAliased == ASSUME Orderly PROVE Spec => []NoDuplicates
  <1>1. Inv => NoDuplicates BY DEF Inv, VInv
  <1> QED BY <1>1, InvCorrect, PTL

\* Between calls the audit of diskq finds nothing.
THEOREM AuditCorrect == ASSUME Orderly PROVE Spec => []AuditClean
  <1>1. Inv => AuditClean
    <2> SUFFICES ASSUME Inv, op = Idle
                 PROVE  {map[g] : g \in Guest} \ {Unallocated} = 0 .. allocated - 1
      BY DEF AuditClean
    <2>1. Top = allocated BY DEF Top, Idle
    <2>2. \A g \in Guest : map[g] # Unallocated => map[g] \in 0 .. allocated - 1
      BY <2>1 DEF Inv, VInv, MapFilled, TypeOK, Host
    <2>3. \A e \in 0 .. allocated - 1 : e # Unallocated /\ \E g \in Guest : map[g] = e
      BY <2>1 DEF Inv, VInv, MapFilled, Unallocated
    <2> QED BY <2>2, <2>3
  <1> QED BY <1>1, InvCorrect, PTL

\* No read of any handle ever fails.
THEOREM ReadsSucceed == ASSUME Orderly PROVE Spec => []AllReadable
  <1>1. Inv => AllReadable
    <2> SUFFICES ASSUME Inv, NEW h \in opened, NEW a \in Sectors PROVE Readable(h, a)
      BY DEF AllReadable
    <2>1. BlockOf(a) \in Guest /\ Offset(a) \in InBlock BY Addresses
    <2>2. alloc[h] = Top /\ allocated \in 0 .. BlocksCount BY DEF Inv, VInv, CountsAgree, TypeOK
    <2>3. CASE type = "fixed"
      <3>1. BlockOf(a) < Top
        BY <2>1, <2>2, <2>3, CountsAssumption DEF Inv, VInv, FixedDirect, Guest, Top
      <3> QED BY <2>1, <2>3, <3>1 DEF Inv, VInv, Materialized, Readable, Guest, Host
    <2>4. CASE type = "dynamic" /\ map[BlockOf(a)] # Unallocated
      <3>1. map[BlockOf(a)] \in Host /\ map[BlockOf(a)] < Top
        BY <2>1, <2>4 DEF Inv, VInv, MapFilled, TypeOK
      <3> QED BY <2>1, <2>2, <2>4, <3>1 DEF Inv, VInv, Materialized, Readable
    <2> QED BY <2>3, <2>4 DEF Readable, Inv, TypeOK
  <1> QED BY <1>1, InvCorrect, PTL

------------------------------------------------------------------------------
(* The container implements VirtualDisk                                      *)

\* What a read returns, sector by sector.
LEMMA ContentIs ==
    ASSUME Inv
    PROVE  /\ Content = [a \in Sectors |-> Content[a]]
           /\ \A a \in Sectors :
                Content[a] = IF map[BlockOf(a)] = Unallocated THEN Zero
                             ELSE data[map[BlockOf(a)]][Offset(a)]
  <1>1. \A a \in Sectors : BlockOf(a) \in Guest /\ BlockOf(a) # Unallocated
    BY Addresses DEF Guest, Unallocated
  <1>2. type = "fixed" => \A g \in Guest : map[g] = g BY DEF Inv, VInv, FixedDirect
  <1> QED BY <1>1, <1>2 DEF Content, ReadSector

\* The same of the state after a step.
LEMMA ContentNext ==
    ASSUME Inv'
    PROVE  \A a \in Sectors :
              Content'[a] = IF map'[BlockOf(a)] = Unallocated THEN Zero
                            ELSE data'[map'[BlockOf(a)]][Offset(a)]
  <1>1. \A a \in Sectors : BlockOf(a) \in Guest /\ BlockOf(a) # Unallocated
    BY Addresses DEF Guest, Unallocated
  <1>2. type' = "fixed" => \A g \in Guest : map'[g] = g BY DEF Inv, VInv, FixedDirect
  <1> QED BY <1>1, <1>2 DEF Content, ReadSector

\* An image without writes reads as zeros.
LEMMA DiskInit == Init => Disk!Init
  <1> SUFFICES ASSUME Init PROVE Disk!Init OBVIOUS
  <1>1. Inv BY InitInv
  <1>2. \A a \in Sectors : BlockOf(a) \in Guest /\ Offset(a) \in InBlock BY Addresses
  <1>3. \A a \in Sectors : Content[a] = Zero
    BY <1>1, <1>2, ContentIs DEF Init, Filled, Host, Guest
  <1>4. Content = [a \in Sectors |-> Zero] BY <1>1, <1>3, ContentIs
  <1>5. Pending = [off |-> 0, end |-> 0, val |-> Zero] BY DEF Init, Pending
  <1> QED BY <1>4, <1>5 DEF Disk!Init, Disk!NoWrite

\* A write in progress has something left to do.
LEMMA PendingIs ==
    ASSUME Inv
    PROVE  /\ op = Idle => Pending = Disk!NoWrite
           /\ op # Idle => /\ Pending = [off |-> op.off, end |-> op.end, val |-> op.val]
                           /\ Pending # Disk!NoWrite /\ op.off < op.end /\ op \in OpRec
  <1>1. op # Idle => op.off < op.end /\ op \in OpRec
    BY DEF Inv, VInv, OpSound, TypeOK, OpRec
  <1>2. op # Idle => op.end # 0 BY <1>1 DEF OpRec
  <1> QED BY <1>1, <1>2 DEF Pending, Disk!NoWrite

\* Steps that change neither what a read returns nor what is left to write.
LEMMA Stutter ==
    ASSUME Inv, Inv', Pending' = Pending,
           \A a \in Sectors : Content'[a] = Content[a]
    PROVE  UNCHANGED <<Content, Pending>>
  BY ContentIs DEF Content

\* A step that reaches n sectors of the write in progress.
LEMMA PutStep ==
    ASSUME Inv, Inv', op # Idle, NEW n \in 1 .. op.end - op.off,
           \A a \in Sectors : Content'[a] = IF a >= op.off /\ a < op.off + n THEN op.val
                                            ELSE Content[a],
           op' = IF op.off + n = op.end THEN Idle
                 ELSE [op EXCEPT !.off = op.off + n, !.pc = "lookup"]
    PROVE  Disk!Put
  <1>1. Pending = [off |-> op.off, end |-> op.end, val |-> op.val] /\ op \in OpRec
    BY PendingIs
  <1>2. Content' = [a \in Sectors |-> IF a >= op.off /\ a < op.off + n THEN op.val ELSE Content[a]]
    BY DEF Content
  <1>3. CASE op.off + n = op.end
    <2>1. Pending' = Disk!NoWrite BY <1>3 DEF Pending, Disk!NoWrite
    <2> QED BY <1>1, <1>2, <1>3, <2>1 DEF Disk!Put
  <1>4. CASE op.off + n # op.end
    <2>1. op'.off = op.off + n /\ op'.end = op.end /\ op'.val = op.val /\ op'.pc = "lookup"
      BY <1>1, <1>4 DEF OpRec
    <2>2. op' # Idle BY <2>1 DEF Idle
    <2>3. Pending' = [off |-> op.off + n, end |-> op.end, val |-> op.val]
      BY <2>1, <2>2 DEF Pending
    <2>4. Pending' = [Pending EXCEPT !.off = Pending.off + n] BY <1>1, <2>3
    <2> QED BY <1>1, <1>2, <1>4, <2>4 DEF Disk!Put
  <1> QED BY <1>3, <1>4

\* The first step of a write.
LEMMA BeginStep ==
    ASSUME Inv, Inv', NEW h \in Handles, NEW off \in Sectors, NEW last \in Sectors, NEW v \in Values,
           Write(h, off, last, v)
    PROVE  Disk!Begin
  <1>1. op = Idle /\ off <= last /\ UNCHANGED image
        /\ op' = [pc |-> IF type = "fixed" THEN "direct" ELSE "lookup",
                  h |-> h, off |-> off, end |-> last + 1, val |-> v, entry |-> 0]
    BY DEF Write
  <1>2. op' # Idle
    <2>1. op'.pc # "idle" BY <1>1
    <2> QED BY <2>1 DEF Idle
  <1>3. Pending' = [off |-> off, end |-> last + 1, val |-> v] BY <1>1, <1>2 DEF Pending
  <1>4. Content' = Content BY <1>1 DEF Content, ReadSector, image
  <1> QED BY <1>1, <1>3, <1>4, PendingIs DEF Disk!Begin

\* The write of a stretch reaches the sectors of the current guest block and no
\* other: the map is injective.
LEMMA WriteBlockPuts == ASSUME Inv, Inv', WriteBlock PROVE Disk!Put
  <1> DEFINE n == StretchEnd - op.off
             k == BlockOf(op.off)
             row == [s \in InBlock |->
                       IF s >= Offset(op.off) /\ s < Offset(op.off) + StretchEnd - op.off
                       THEN op.val ELSE data[op.entry][s]]
  <1>0. op.pc = "data" /\ map' = map
        /\ data' = [data EXCEPT ![op.entry] = row]
        /\ op' = IF StretchEnd = op.end THEN Idle ELSE [op EXCEPT !.off = StretchEnd, !.pc = "lookup"]
    BY DEF WriteBlock, At, Return
  <1>1. op \in OpRec /\ op # Idle /\ op.entry \in Host /\ op.off < op.end
        /\ op.off \in Sectors /\ k \in Guest
    BY <1>0, BusyFacts
  <1>2. map[k] = op.entry /\ op.entry # Unallocated
    BY <1>0, <1>1 DEF Inv, VInv, OpSound, Entry, Host, Unallocated
  <1>3. \A g \in Guest : map[g] = op.entry => g = k
    BY <1>1, <1>2 DEF Inv, VInv, NoDuplicates
  <1>4. /\ StretchEnd \in Nat /\ op.off < StretchEnd /\ StretchEnd <= op.end
        /\ StretchEnd <= (k + 1) * BlockSectors
        /\ op.end \in Nat /\ op.off \in Nat
    BY <1>1, Stretch, SizeFacts DEF OpRec, Sectors
  <1>5. n \in 1 .. op.end - op.off /\ op.off + n = StretchEnd BY <1>4
  <1>6. data \in [Host -> [InBlock -> Contents]] /\ map \in [Guest -> Host \union {Unallocated}]
    BY DEF Inv, TypeOK
  <1>7. \A p \in Host : data'[p] = IF p = op.entry THEN row ELSE data[p]
    BY <1>0, <1>1, <1>6
  <1>8. ASSUME NEW a \in Sectors
        PROVE  Content'[a] = IF a >= op.off /\ a < op.off + n THEN op.val ELSE Content[a]
    <2>1. BlockOf(a) \in Guest /\ Offset(a) \in InBlock /\ a = BlockOf(a) * BlockSectors + Offset(a)
      BY Addresses
    <2>2. op.off = k * BlockSectors + Offset(op.off) /\ Offset(op.off) \in InBlock
      BY <1>1, Addresses
    <2>3. /\ Content[a] = IF map[BlockOf(a)] = Unallocated THEN Zero
                          ELSE data[map[BlockOf(a)]][Offset(a)]
          /\ Content'[a] = IF map[BlockOf(a)] = Unallocated THEN Zero
                           ELSE data'[map[BlockOf(a)]][Offset(a)]
      BY <1>0, ContentIs, ContentNext
    <2>4. CASE BlockOf(a) = k
      <3>1. Content[a] = data[op.entry][Offset(a)] /\ Content'[a] = row[Offset(a)]
        BY <2>3, <2>4, <1>1, <1>2, <1>7
      <3>2. k * BlockSectors \in Nat BY <1>1, CountsAssumption DEF Guest
      <3>3. (a >= op.off /\ a < op.off + n) <=>
               (Offset(a) >= Offset(op.off) /\ Offset(a) < Offset(op.off) + StretchEnd - op.off)
        BY <2>1, <2>2, <2>4, <3>2, <1>4 DEF InBlock
      <3> QED BY <3>1, <3>3, <2>1
    <2>5. CASE BlockOf(a) # k
      <3>1. ~(a >= op.off /\ a < op.off + n)
        <4>1. \A x, y, z \in Nat : x <= y => x * z <= y * z OBVIOUS
        <4>2. BlockOf(a) \in Nat /\ k \in Nat /\ Offset(a) \in Nat /\ Offset(a) < BlockSectors
              /\ Offset(op.off) \in Nat /\ BlockSectors \in Nat
          BY <2>1, <2>2, <1>1, CountsAssumption DEF Guest, InBlock
        <4>3. CASE BlockOf(a) + 1 <= k
          <5>1. (BlockOf(a) + 1) * BlockSectors <= k * BlockSectors BY <4>1, <4>2, <4>3
          <5>2. (BlockOf(a) + 1) * BlockSectors = BlockOf(a) * BlockSectors + BlockSectors
                /\ BlockOf(a) * BlockSectors \in Nat /\ k * BlockSectors \in Nat
            BY <4>2
          <5> QED BY <5>1, <5>2, <4>2, <2>1, <2>2
        <4>4. CASE k + 1 <= BlockOf(a)
          <5>1. (k + 1) * BlockSectors <= BlockOf(a) * BlockSectors BY <4>1, <4>2, <4>4
          <5>2. BlockOf(a) * BlockSectors \in Nat /\ (k + 1) * BlockSectors \in Nat BY <4>2
          <5> QED BY <5>1, <5>2, <4>2, <2>1, <1>4
        <4> QED BY <4>2, <4>3, <4>4, <2>5
      <3>2. map[BlockOf(a)] # Unallocated => map[BlockOf(a)] \in Host /\ map[BlockOf(a)] # op.entry
        BY <2>1, <2>5, <1>3, <1>6
      <3>3. Content'[a] = Content[a] BY <2>3, <3>2, <1>7
      <3> QED BY <3>1, <3>3
    <2> QED BY <2>4, <2>5
  <1>9. op' = IF op.off + n = op.end THEN Idle ELSE [op EXCEPT !.off = op.off + n, !.pc = "lookup"]
    BY <1>0, <1>5
  <1> HIDE DEF n
  <1> QED BY <1>1, <1>5, <1>8, <1>9, PutStep

\* A fixed image takes the whole of the write.
LEMMA WriteFixedPuts == ASSUME Inv, Inv', WriteFixed PROVE Disk!Put
  <1> DEFINE n == op.end - op.off
  <1>0. op.pc = "direct" /\ op' = Idle /\ map' = map /\ type' = type
    BY DEF WriteFixed, At, Return
  <1>1. op \in OpRec /\ op # Idle /\ op.off < op.end /\ type = "fixed"
    BY <1>0, OpBusy DEF Inv, VInv, OpSound
  <1>2. n \in 1 .. op.end - op.off /\ op.off + n = op.end
    BY <1>1, SizeFacts DEF OpRec, Sectors
  <1>3. ASSUME NEW a \in Sectors
        PROVE  Content'[a] = IF a >= op.off /\ a < op.off + n THEN op.val ELSE Content[a]
    <2>1. BlockOf(a) \in Guest /\ Offset(a) \in InBlock /\ a = BlockOf(a) * BlockSectors + Offset(a)
      BY Addresses
    <2>2. BlockOf(a) \in Host BY <2>1 DEF Guest, Host
    <2>3. data'[BlockOf(a)][Offset(a)] =
             IF a >= op.off /\ a < op.end THEN op.val ELSE data[BlockOf(a)][Offset(a)]
      BY <2>1, <2>2 DEF WriteFixed
    <2> QED BY <2>3, <1>0, <1>1, <1>2 DEF Content, ReadSector
  <1>4. op' = IF op.off + n = op.end THEN Idle ELSE [op EXCEPT !.off = op.off + n, !.pc = "lookup"]
    BY <1>0, <1>2
  <1> HIDE DEF n
  <1> QED BY <1>1, <1>2, <1>3, <1>4, PutStep

\* Allocating a host block changes nothing a reader can see: it is zeroed while
\* nothing leads to it, and published with the content an unmapped block has.
LEMMA AllocationHidden ==
    ASSUME Inv, Inv', Lookup \/ ZeroBlock \/ Publish \/ UpdateAllocated
    PROVE  UNCHANGED <<Content, Pending>>
  <1>1. op.pc \in {"lookup", "zero", "publish", "count"} /\ op \in OpRec /\ op # Idle
    BY OpBusy DEF Inv, Lookup, ZeroBlock, Publish, UpdateAllocated, At
  <1>2. op'.off = op.off /\ op'.end = op.end /\ op'.val = op.val /\ op'.pc # "idle"
    BY <1>1 DEF Lookup, ZeroBlock, Publish, UpdateAllocated, At, Goto, OpRec
  <1>3. op' # Idle BY <1>2 DEF Idle
  <1>4. Pending' = Pending BY <1>1, <1>2, <1>3 DEF Pending
  <1>5. \A a \in Sectors : BlockOf(a) \in Guest /\ Offset(a) \in InBlock BY Addresses
  <1>6. CASE Lookup \/ UpdateAllocated
    <2>1. UNCHANGED <<type, map, data>> BY <1>6 DEF Lookup, UpdateAllocated, image
    <2> QED BY <1>4, <2>1 DEF Content, ReadSector
  <1>7. CASE ZeroBlock
    <2>1. op.entry = allocated /\ Top = allocated /\ op.entry \in Host /\ map' = map
          /\ data' = [data EXCEPT ![op.entry] = Filled(Zero)]
      BY <1>1, <1>7, BusyFacts DEF ZeroBlock, At, Inv, VInv, OpSound, Top
    <2>2. \A g \in Guest : map[g] # Unallocated => map[g] \in Host /\ map[g] # op.entry
      BY <2>1 DEF Inv, VInv, MapFilled, TypeOK, Host
    <2>3. \A p \in Host : p # op.entry => data'[p] = data[p] BY <2>1 DEF Inv, TypeOK
    <2>4. \A a \in Sectors : Content'[a] = Content[a]
      BY <2>1, <2>2, <2>3, <1>5, ContentIs, ContentNext
    <2> QED BY <1>4, <2>4, Stutter
  <1>8. CASE Publish
    <2> DEFINE k == BlockOf(op.off)
    <2>1. /\ map[k] = Unallocated /\ data[op.entry] = Filled(Zero) /\ k \in Guest
          /\ op.entry \in Host /\ data' = data
          /\ map' = [map EXCEPT ![k] = op.entry]
      BY <1>1, <1>8, BusyFacts DEF Publish, At, Inv, VInv, OpSound, Entry
    <2>2. \A g \in Guest : map'[g] = IF g = k THEN op.entry ELSE map[g]
      BY <2>1 DEF Inv, TypeOK
    <2>3. op.entry # Unallocated BY <2>1 DEF Host, Unallocated
    <2>4. \A a \in Sectors : Content'[a] = Content[a]
      BY <2>1, <2>2, <2>3, <1>5, ContentIs, ContentNext DEF Filled
    <2> QED BY <1>4, <2>4, Stutter
  <1> QED BY <1>6, <1>7, <1>8

\* Every step of the container is a step of the disk or changes nothing it shows.
LEMMA DiskStep ==
    ASSUME Orderly, Inv, Inv', [Next]_vars
    PROVE  [Disk!Next]_<<Content, Pending>>
  <1> USE DEF Disk!Next
  <1>1. CASE \E t \in {"fixed", "dynamic"} : Create(t)
    <2>1. PICK t \in {"fixed", "dynamic"} : Create(t) BY <1>1
    <2>2. op = Idle /\ op' = Idle BY <2>1 DEF Create
    <2>3. \A a \in Sectors : BlockOf(a) \in Guest /\ Offset(a) \in InBlock BY Addresses
    <2>4. \A a \in Sectors : Content'[a] = Zero
      BY <2>1, <2>3, ContentIs, ContentNext DEF Create, Fresh, Filled, Host, Guest
    <2>5. Content' = [a \in Sectors |-> Zero] BY <2>4 DEF Content
    <2>6. Pending' = Pending BY <2>2 DEF Pending
    <2>7. Disk!Recreate BY <2>2, <2>5, <2>6, PendingIs DEF Disk!Recreate
    <2> QED BY <2>7
  <1>2. CASE \E h \in Handles : Open(h) \/ Close(h)
    <2>1. UNCHANGED <<type, map, data, op>> BY <1>2 DEF Open, Close, image
    <2> QED BY <2>1 DEF Content, Pending, ReadSector
  <1>3. CASE \E h \in Handles, off \in Sectors, last \in Sectors, v \in Values : Write(h, off, last, v)
    BY <1>3, BeginStep
  <1>4. CASE HostWriteFails \/ LookupFails
    <2>1. UNCHANGED <<type, map, data>> /\ op' = Idle
      BY <1>4 DEF HostWriteFails, LookupFails, Return, image
    <2>2. Content' = Content BY <2>1 DEF Content, ReadSector
    <2>3. CASE op = Idle BY <2>1, <2>2, <2>3 DEF Pending
    <2>4. CASE op # Idle
      <3>1. Pending' = Disk!NoWrite BY <2>1 DEF Pending, Disk!NoWrite
      <3>2. Disk!Fail BY <2>2, <2>4, <3>1, PendingIs DEF Disk!Fail
      <3> QED BY <3>2
    <2> QED BY <2>3, <2>4
  <1>5. CASE Lookup \/ ZeroBlock \/ Publish \/ UpdateAllocated BY <1>5, AllocationHidden
  <1>6. CASE WriteBlock \/ WriteFixed BY <1>6, WriteBlockPuts, WriteFixedPuts
  <1>7. CASE Crash BY <1>7 DEF Crash, Orderly
  <1>8. CASE UNCHANGED vars BY <1>8 DEF vars, Content, Pending, ReadSector
  <1> QED BY <1>1, <1>2, <1>3, <1>4, <1>5, <1>6, <1>7, <1>8 DEF Next, Step

\* The VDI container implements VirtualDisk: reads return what was written and
\* zeros elsewhere, and a write reaches the sectors it covers and no other.
THEOREM Implements == ASSUME Orderly PROVE Spec => IsVirtualDisk
  <1>1. Init => Disk!Init BY DiskInit
  <1>2. Inv /\ Inv' /\ [Next]_vars => [Disk!Next]_<<Content, Pending>> BY DiskStep
  <1> QED BY <1>1, <1>2, InvCorrect, PTL DEF Spec, IsVirtualDisk, Disk!Spec

------------------------------------------------------------------------------
(* Types, in every mode of use                                               *)

\* A new image, whatever is open.
LEMMA FreshTypes ==
    ASSUME NEW t \in {"fixed", "dynamic"}, Fresh(t)
    PROVE  /\ type' \in {"fixed", "dynamic"} /\ map' \in [Guest -> Host \union {Unallocated}]
           /\ allocated' \in 0 .. BlocksCount /\ data' \in [Host -> [InBlock -> Contents]]
  BY FilledType, CountsAssumption DEF Fresh, Guest, Host, Unallocated

\* A handle's count grows by one when a block is published: the entry it took
\* was a host block, so the count still fits.
LEMMA FitsStep ==
    ASSUME TypeOK, OpFits, [Next]_vars
    PROVE  (TypeOK /\ OpFits)'
  <1>1. ASSUME NEW t \in {"fixed", "dynamic"}, Create(t) PROVE (TypeOK /\ OpFits)'
    BY <1>1, FreshTypes DEF Create, TypeOK, OpFits
  <1>2. ASSUME NEW h \in Handles, Open(h) \/ Close(h) PROVE (TypeOK /\ OpFits)'
    BY <1>2 DEF Open, Close, TypeOK, OpFits, image
  <1>3. ASSUME NEW h \in Handles, NEW off \in Sectors, NEW last \in Sectors, NEW v \in Values,
               Write(h, off, last, v)
        PROVE  (TypeOK /\ OpFits)'
    <2>1. last + 1 \in 1 .. BlocksCount * BlockSectors /\ 0 \in Host /\ off < last + 1
      BY <1>3, SizeFacts DEF Write, Sectors, Host, Guest
    <2>2. op' \in OpRec /\ op'.off < op'.end /\ op'.pc \in {"direct", "lookup"}
      BY <1>3, <2>1 DEF Write, OpRec
    <2> QED BY <1>3, <2>2 DEF Write, TypeOK, OpFits, OpRec, image
  <1>4. CASE HostWriteFails \/ LookupFails \/ Crash
    BY <1>4 DEF HostWriteFails, LookupFails, Crash, Return, TypeOK, OpFits, image
  <1>5. CASE Lookup
    <2>0. op \in OpRec /\ op # Idle BY <1>5, OpBusy DEF Lookup, At
    <2>1. op.off \in Sectors /\ op.off < op.end /\ op.h \in Handles
          /\ Entry \in Host \union {Unallocated} /\ alloc[op.h] \in 0 .. BlocksCount
      BY <2>0, Addresses DEF OpRec, OpFits, TypeOK, Entry
    <2>2. CASE Entry = Unallocated /\ alloc[op.h] < BlocksCount
               /\ op' = [op EXCEPT !.entry = alloc[op.h], !.pc = "zero"]
      <3>1. alloc[op.h] \in Host BY <2>1, <2>2, CountsAssumption DEF Host
      <3>2. op' \in OpRec /\ op'.entry = alloc[op.h] /\ op'.h = op.h
            /\ op'.off = op.off /\ op'.end = op.end
        BY <2>0, <2>1, <2>2, <3>1 DEF OpRec
      <3> QED BY <1>5, <2>1, <3>2 DEF Lookup, TypeOK, OpFits, OpRec, image
    <2>3. CASE Entry # Unallocated /\ op' = [op EXCEPT !.entry = Entry, !.pc = "data"]
      <3>1. op' \in OpRec /\ op'.pc = "data" /\ op'.off = op.off /\ op'.end = op.end
        BY <2>0, <2>1, <2>3 DEF OpRec
      <3> QED BY <1>5, <2>1, <3>1 DEF Lookup, TypeOK, OpFits, OpRec, image
    <2> QED BY <1>5, <2>2, <2>3 DEF Lookup
  <1>6. CASE ZeroBlock \/ Publish \/ UpdateAllocated
    <2>0. op.pc \in {"zero", "publish", "count"} /\ op \in OpRec /\ op # Idle
      BY <1>6, OpBusy DEF ZeroBlock, Publish, UpdateAllocated, At
    <2>1. op.off \in Sectors /\ op.off < op.end /\ op.h \in Handles /\ op.entry \in Host
          /\ BlockOf(op.off) \in Guest /\ alloc[op.h] \in 0 .. BlocksCount
      BY <2>0, Addresses DEF OpRec, OpFits, TypeOK
    <2>2. CASE ZeroBlock
      <3>1. op' \in OpRec /\ op'.h = op.h /\ op'.off = op.off /\ op'.end = op.end
            /\ op'.entry = op.entry /\ op.entry = alloc[op.h]
        BY <2>0, <2>2, GotoType DEF ZeroBlock, At, OpFits
      <3> QED BY <2>0, <2>1, <2>2, <3>1, FilledType DEF ZeroBlock, TypeOK, OpFits, OpRec
    <2>3. CASE Publish
      <3>1. op' \in OpRec /\ op'.pc = "count" /\ op'.off = op.off /\ op'.end = op.end
            /\ op.entry = alloc[op.h]
        BY <2>0, <2>3, GotoType DEF Publish, At, OpFits
      <3>2. alloc[op.h] + 1 \in 0 .. BlocksCount BY <2>1, <3>1, CountsAssumption DEF Host
      <3> QED BY <2>0, <2>1, <2>3, <3>1, <3>2 DEF Publish, TypeOK, OpFits, OpRec
    <2>4. CASE UpdateAllocated
      <3>1. op' \in OpRec /\ op'.pc = "data" /\ op'.off = op.off /\ op'.end = op.end
        BY <2>0, <2>4, GotoType DEF UpdateAllocated, At
      <3> QED BY <2>0, <2>1, <2>4, <3>1 DEF UpdateAllocated, TypeOK, OpFits, OpRec
    <2> QED BY <1>6, <2>2, <2>3, <2>4
  <1>7. CASE WriteBlock
    <2>0. op.pc = "data" /\ op \in OpRec /\ op # Idle BY <1>7, OpBusy DEF WriteBlock, At
    <2>1. op.off < op.end /\ op.entry \in Host /\ op.val \in Values BY <2>0 DEF OpRec, OpFits
    <2>2. data' \in [Host -> [InBlock -> Contents]]
      BY <1>7, <2>1 DEF WriteBlock, TypeOK, Contents
    <2>3. CASE StretchEnd = op.end BY <1>7, <2>2, <2>3 DEF WriteBlock, Return, TypeOK, OpFits
    <2>4. CASE StretchEnd # op.end
      <3>1. StretchEnd < op.end /\ StretchEnd \in Sectors BY <2>0, <2>1, <2>4, Stretch DEF OpRec
      <3>2. op' \in OpRec /\ op'.pc = "lookup" /\ op'.off = StretchEnd /\ op'.end = op.end
        BY <1>7, <2>0, <2>4, <3>1 DEF WriteBlock, OpRec
      <3> QED BY <1>7, <2>2, <3>1, <3>2 DEF WriteBlock, TypeOK, OpFits, OpRec
    <2> QED BY <2>3, <2>4
  <1>8. CASE WriteFixed
    <2>0. op \in OpRec BY <1>8, OpBusy DEF WriteFixed, At
    <2>1. data' \in [Host -> [InBlock -> Contents]]
      BY <1>8, <2>0 DEF WriteFixed, TypeOK, Contents, OpRec
    <2> QED BY <1>8, <2>1 DEF WriteFixed, Return, TypeOK, OpFits
  <1>9. CASE UNCHANGED vars BY <1>9 DEF vars, TypeOK, OpFits
  <1> QED BY <1>1, <1>2, <1>3, <1>4, <1>5, <1>6, <1>7, <1>8, <1>9 DEF Next, Step

\* Types hold with several handles, failing writes and crashes: no count leaves
\* 0 .. blocks_count and no map entry names a host block past the last.
THEOREM TypeCorrect == Spec => []TypeOK
  <1>1. Init => TypeOK /\ OpFits BY InitInv DEF Init, Inv, OpFits
  <1>2. TypeOK /\ OpFits /\ [Next]_vars => (TypeOK /\ OpFits)' BY FitsStep
  <1> QED BY <1>1, <1>2, PTL DEF Spec

------------------------------------------------------------------------------
(* After a crash                                                             *)

\* A block that lies in the file in full stays so while the image is not
\* created anew.
LEMMA WholeStays ==
    ASSUME TypeOK, Next, ~ \E t \in {"fixed", "dynamic"} : Create(t)
    PROVE  \A p \in Host : Whole(p) => Whole(p)'
  <1>1. CASE UNCHANGED data BY <1>1 DEF Whole
  <1>2. CASE ZeroBlock
    <2>1. op \in OpRec BY <1>2, OpBusy DEF ZeroBlock, At
    <2> QED BY <1>2, <2>1, ValuesAssumption DEF ZeroBlock, Whole, Filled, TypeOK, OpRec
  <1>3. CASE WriteBlock
    <2>1. op \in OpRec BY <1>3, OpBusy DEF WriteBlock, At
    <2>2. op.val # Absent /\ op.entry \in Host BY <2>1, ValuesAssumption DEF OpRec
    <2> QED BY <1>3, <2>2 DEF WriteBlock, Whole, TypeOK
  <1>4. CASE WriteFixed
    <2>1. op \in OpRec BY <1>4, OpBusy DEF WriteFixed, At
    <2>2. op.val # Absent BY <2>1, ValuesAssumption DEF OpRec
    <2> QED BY <1>4, <2>2 DEF WriteFixed, Whole
  <1> QED BY <1>1, <1>2, <1>3, <1>4 DEF Next, Step, Open, Close, Write, Lookup, LookupFails,
             Publish, UpdateAllocated, HostWriteFails, Crash, image

\* A new image: the blocks its count or its map covers are there.
LEMMA FreshWhole ==
    ASSUME NEW t \in {"fixed", "dynamic"}, Exclusive, Create(t)
    PROVE  CrashInv'
  <1>1. op' = Idle /\ opened' = {} /\ Fresh(t) BY DEF Create
  <1>2. (OpFits /\ OpTyped /\ NewWhole)' BY <1>1 DEF OpFits, OpTyped, NewWhole, Idle
  <1>3. FixedCount' BY <1>1 DEF Fresh, FixedCount
  <1>4. CountedWhole'
    BY <1>1, ValuesAssumption, CountsAssumption DEF Fresh, CountedWhole, Whole, Filled, Host
  <1>5. MappedWhole'
    BY <1>1, ValuesAssumption DEF Fresh, MappedWhole, Whole, Filled, Host, Guest
  <1> QED BY <1>2, <1>3, <1>4, <1>5 DEF CrashInv

\* Blocks are zeroed before they are published and published before they are
\* counted, so no failure or crash in between names a block that is not there.
LEMMA CrashStep ==
    ASSUME Exclusive, TypeOK, TypeOK', OpFits', CrashInv, [Next]_vars
    PROVE  CrashInv'
  <1> USE DEF CrashInv
  <1>1. CASE \E t \in {"fixed", "dynamic"} : Create(t) BY <1>1, FreshWhole
  <1>2. CASE UNCHANGED vars
    BY <1>2 DEF vars, OpTyped, FixedCount, CountedWhole, MappedWhole, NewWhole, Whole
  <1>3. CASE Next /\ ~ \E t \in {"fixed", "dynamic"} : Create(t)
    <2>1. \A p \in Host : Whole(p) => Whole(p)' BY <1>3, WholeStays
    <2>2. CASE \E h \in Handles : Open(h) \/ Close(h)
      <3>1. PICK h \in Handles : Open(h) \/ Close(h) BY <2>2
      <3>2. (OpTyped /\ FixedCount /\ MappedWhole /\ NewWhole)'
        BY <3>1 DEF Open, Close, image, OpTyped, FixedCount, MappedWhole, NewWhole, Whole, Idle
      <3>3. CountedWhole' BY <3>1 DEF Open, Close, image, CountedWhole, Whole, TypeOK
      <3> QED BY <3>2, <3>3
    <2>3. CASE \E h \in Handles, off \in Sectors, last \in Sectors, v \in Values : Write(h, off, last, v)
      <3>1. UNCHANGED <<image, opened, alloc>> /\ op'.h \in opened /\ op # op'
            /\ op'.pc = IF type = "fixed" THEN "direct" ELSE "lookup"
        BY <2>3 DEF Write, Idle
      <3> QED BY <3>1 DEF image, OpTyped, FixedCount, CountedWhole, MappedWhole, NewWhole, Whole
    <2>4. CASE HostWriteFails \/ LookupFails \/ Crash
      <3>1. op' = Idle /\ opened' \subseteq opened /\ UNCHANGED <<image, alloc>>
        BY <2>4 DEF HostWriteFails, LookupFails, Crash, Return
      <3> QED BY <3>1 DEF image, OpTyped, FixedCount, CountedWhole, MappedWhole, NewWhole, Whole, Idle
    <2>5. CASE Lookup
      <3>1. op \in OpRec /\ op # Idle /\ op.pc = "lookup" /\ UNCHANGED <<image, opened, alloc>>
        BY <2>5, OpBusy DEF Lookup, At
      <3>2. op'.h = op.h /\ op'.pc \in {"zero", "data"}
        BY <2>5, <3>1 DEF Lookup, OpRec
      <3> QED BY <3>1, <3>2 DEF image, OpTyped, FixedCount, CountedWhole, MappedWhole, NewWhole, Whole
    <2>6. CASE ZeroBlock
      <3>1. op \in OpRec /\ op # Idle /\ op.pc = "zero" BY <2>6, OpBusy DEF ZeroBlock, At
      <3>2. op'.h = op.h /\ op'.pc = "publish" /\ op'.entry = op.entry /\ op.entry \in Host
        BY <2>6, <3>1, GotoType DEF ZeroBlock, OpRec
      <3>3. NewWhole'
        BY <2>6, <3>2, ValuesAssumption DEF ZeroBlock, NewWhole, Whole, Filled, TypeOK
      <3>4. UNCHANGED <<type, map, allocated, opened, alloc>> BY <2>6 DEF ZeroBlock
      <3>5. MappedWhole' BY <2>1, <3>4 DEF MappedWhole, TypeOK
      <3>6. CountedWhole' BY <2>1, <3>4 DEF CountedWhole
      <3> QED BY <3>1, <3>2, <3>3, <3>4, <3>5, <3>6 DEF OpTyped, FixedCount
    <2>7. CASE Publish
      <3>1. op \in OpRec /\ op # Idle /\ op.pc = "publish" BY <2>7, OpBusy DEF Publish, At
      <3>2. op'.h = op.h /\ op'.pc = "count" /\ op.entry \in Host /\ op.h \in opened
            /\ op.h \in Handles /\ BlockOf(op.off) \in Guest
        BY <2>7, <3>1, GotoType, Addresses DEF Publish, OpRec, OpTyped
      <3>3. Whole(op.entry) /\ op.entry = alloc[op.h] BY <3>1 DEF NewWhole, OpFits
      <3>4. UNCHANGED <<type, allocated, data, opened>> BY <2>7 DEF Publish
      <3>5. MappedWhole' BY <2>7, <3>2, <3>3 DEF Publish, MappedWhole, Whole, TypeOK
      <3>6. \A h \in opened : alloc'[h] = IF h = op.h THEN alloc[h] + 1 ELSE alloc[h]
        BY <2>7, <3>2 DEF Publish, TypeOK
      <3>7. alloc[op.h] \in Int BY <3>2 DEF TypeOK
      <3>8. \A p \in Host : (\E h \in opened : p < alloc'[h]) => p = op.entry \/ \E h \in opened : p < alloc[h]
        BY <3>2, <3>3, <3>6, <3>7 DEF Host
      <3>9. CountedWhole' BY <3>3, <3>4, <3>8 DEF CountedWhole, Whole
      <3> QED BY <3>1, <3>2, <3>4, <3>5, <3>9 DEF OpTyped, FixedCount, NewWhole
    <2>8. CASE UpdateAllocated
      <3>1. op \in OpRec /\ op # Idle /\ op.pc = "count" BY <2>8, OpBusy DEF UpdateAllocated, At
      <3>2. op'.h = op.h /\ op'.pc = "data" /\ op.h \in opened /\ type # "fixed"
        BY <2>8, <3>1, GotoType DEF UpdateAllocated, OpTyped
      <3>3. UNCHANGED <<type, map, data, opened, alloc>> /\ allocated' = alloc[op.h]
        BY <2>8 DEF UpdateAllocated
      <3> QED BY <3>1, <3>2, <3>3 DEF OpTyped, FixedCount, CountedWhole, MappedWhole, NewWhole, Whole
    <2>9. CASE WriteBlock \/ WriteFixed
      <3>1. op \in OpRec /\ op # Idle /\ op.pc \in {"data", "direct"}
        BY <2>9, OpBusy DEF WriteBlock, WriteFixed, At
      <3>2. UNCHANGED <<type, map, allocated, opened, alloc>>
            /\ (op' = Idle \/ (WriteBlock /\ op'.h = op.h /\ op'.pc = "lookup"))
        BY <2>9, <3>1 DEF WriteBlock, WriteFixed, Return, OpRec
      <3>3. OpTyped' BY <3>1, <3>2 DEF OpTyped, WriteBlock, At
      <3>4. MappedWhole' BY <2>1, <3>2 DEF MappedWhole, TypeOK
      <3>5. CountedWhole' BY <2>1, <3>2 DEF CountedWhole
      <3> QED BY <3>2, <3>3, <3>4, <3>5 DEF FixedCount, NewWhole, Idle
    <2> QED BY <1>3, <2>2, <2>3, <2>4, <2>5, <2>6, <2>7, <2>8, <2>9 DEF Next, Step
  <1> QED BY <1>1, <1>2, <1>3

\* With the image attached under one key at a time, whatever host write fails and
\* wherever the process dies: vdi_open accepts the image, and every block the map
\* names lies in the file.
THEOREM SurvivesCorrect == ASSUME Exclusive PROVE Spec => []SurvivesCrash
  <1> DEFINE I == TypeOK /\ CrashInv
  <1>1. Init => I
    <2> SUFFICES ASSUME Init PROVE I OBVIOUS
    <2>1. TypeOK BY InitInv DEF Inv
    <2>2. OpFits /\ OpTyped /\ FixedCount /\ NewWhole
      BY DEF Init, OpFits, OpTyped, FixedCount, NewWhole, Idle
    <2>3. CountedWhole
      BY ValuesAssumption, CountsAssumption DEF Init, CountedWhole, Whole, Filled, Host
    <2>4. MappedWhole BY ValuesAssumption DEF Init, MappedWhole, Whole, Filled, Host, Guest
    <2> QED BY <2>1, <2>2, <2>3, <2>4 DEF CrashInv
  <1>2. I /\ [Next]_vars => I'
    <2> SUFFICES ASSUME I, [Next]_vars PROVE I' OBVIOUS
    <2>1. (TypeOK /\ OpFits)' BY FitsStep DEF CrashInv
    <2> QED BY <2>1, CrashStep
  <1>3. I => SurvivesCrash
    <2> SUFFICES ASSUME I PROVE SurvivesCrash OBVIOUS
    <2> DEFINE there == {p \in Host : data[p][BlockSectors - 1] # Absent}
    <2>1. allocated \in 0 .. BlocksCount /\ BlockSectors - 1 \in InBlock
      BY CountsAssumption DEF TypeOK, InBlock
    <2>2. 0 .. allocated - 1 \in SUBSET there
      BY <2>1, CountsAssumption DEF CrashInv, CountedWhole, Whole, Host
    <2>3. IsFiniteSet(Host) BY CountsAssumption, FS_Interval DEF Host
    <2>4. IsFiniteSet(there) BY <2>3, FS_Subset
    <2>5. Cardinality(0 .. allocated - 1) = allocated /\ Cardinality(there) \in Nat
      BY <2>1, <2>4, FS_Interval, FS_CardinalityType
    <2>6. Cardinality(0 .. allocated - 1) <= Cardinality(there) BY <2>2, <2>4, FS_Subset
    <2>7. HostBlocks >= allocated BY <2>1, <2>5, <2>6 DEF HostBlocks
    <2>8. OpenAccepts BY <2>1, <2>7 DEF OpenAccepts, CrashInv, FixedCount
    <2>9. \A g \in Guest : map[g] # Unallocated => Absent \notin {data[map[g]][s] : s \in InBlock}
      BY DEF CrashInv, MappedWhole, Whole
    <2> QED BY <2>8, <2>9 DEF SurvivesCrash
  <1> QED BY <1>1, <1>2, <1>3, PTL DEF Spec

------------------------------------------------------------------------------
(* The map is never full too early                                           *)

\* allocate_block never refuses in an orderly used image.  The entries below the
\* count are all taken, each by one guest block: a count of blocks_count leaves
\* no guest block without one.
THEOREM RoomCorrect == ASSUME Orderly PROVE Spec => []NeverFull
  <1>1. Inv => NeverFull
    <2> SUFFICES ASSUME Inv, At("lookup"), Entry = Unallocated, ~(alloc[op.h] < BlocksCount)
                 PROVE  FALSE
      BY DEF NeverFull
    <2> DEFINE k == BlockOf(op.off)
               user == [e \in Host |-> CHOOSE g \in Guest : map[g] = e]
    <2>1. op \in OpRec /\ op # Idle BY OpBusy DEF Inv, At
    <2>2. k \in Guest /\ map[k] = Unallocated /\ op.h \in opened
      BY <2>1, Addresses DEF OpRec, Entry, Inv, VInv, OpSound
    <2>3. Top = BlocksCount
      BY <2>2, CountsAssumption DEF Inv, VInv, TypeOK, CountsAgree, Top, At
    <2>4. \A e \in Host : \E g \in Guest : map[g] = e
      BY <2>3 DEF Inv, VInv, MapFilled, Host
    <2>5. \A e \in Host : user[e] \in Guest /\ map[user[e]] = e BY <2>4
    <2>6. \A e \in Host : user[e] # k BY <2>2, <2>5 DEF Host, Unallocated
    <2>7. user \in [Host -> Guest \ {k}] BY <2>5, <2>6
    <2>8. IsFiniteSet(Host) /\ Cardinality(Host) = BlocksCount /\ Guest = Host
      BY CountsAssumption, FS_Interval DEF Host, Guest
    <2>9. IsFiniteSet(Guest \ {k}) /\ Cardinality(Guest \ {k}) = BlocksCount - 1
      BY <2>2, <2>8, FS_RemoveElement
    <2>10. PICK x, y \in Host : x # y /\ user[x] = user[y]
      <3> HIDE DEF user
      <3>1. Cardinality(Guest \ {k}) < Cardinality(Host) BY <2>8, <2>9, CountsAssumption
      <3> QED BY <2>7, <2>8, <2>9, <3>1, FS_PigeonHole
    <2> QED BY <2>5, <2>10
  <1> QED BY <1>1, InvCorrect, PTL
==============================================================================
