-------------------------------- MODULE Vdi --------------------------------
(***************************************************************************)
(* The VDI container of libvdisk (lib/vdisk/src/backend_vdi.c): fixed      *)
(* images, whose sectors lie in order in the data region, and dynamic      *)
(* images, which map guest blocks to host blocks and allocate one at the   *)
(* first write.  vdi_write makes one step per host write, so that it can   *)
(* fail or the process can die between any two.                            *)
(*                                                                         *)
(* A handle (vdisk_t) caches blocks_allocated when it is opened.  diskio   *)
(* opens one per device key and does not ask whether the image is open     *)
(* under another one, or whether create overwrites an attached image.      *)
(*                                                                         *)
(* Abstractions: a sector holds one value; stdio keeps the order of the    *)
(* host writes (each is preceded by a seek, which flushes); zeroing a host *)
(* block is one step, and so is the creation of an image.                  *)
(***************************************************************************)
EXTENDS Integers, FiniteSets

CONSTANTS
    BlocksCount,    \* blocks_count: guest blocks, and host blocks at most
    BlockSectors,   \* sectors in a block (2048: block_size / 512)
    Handles,        \* vdisk_t objects
    Values,         \* contents a caller writes to a sector
    Zero,           \* a zero sector
    Absent,         \* a sector past the end of the host file
    FailAt,         \* host writes that may fail, by pc
    Crashes,        \* the process may die during a write
    Exclusive       \* callers attach the image under one key at a time and
                    \* do not create it anew while it is attached

ASSUME CountsAssumption == BlocksCount \in Nat \ {0} /\ BlockSectors \in Nat \ {0}
ASSUME ValuesAssumption == Absent # Zero /\ Absent \notin Values
ASSUME ModesAssumption == Crashes \in BOOLEAN /\ Exclusive \in BOOLEAN

Guest == 0 .. BlocksCount - 1
Host == 0 .. BlocksCount - 1
InBlock == 0 .. BlockSectors - 1
Sectors == 0 .. BlocksCount * BlockSectors - 1
BlockOf(a) == a \div BlockSectors
Offset(a) == a % BlockSectors
Unallocated == -1     \* VDI_BLOCK_UNALLOCATED, 0xFFFFFFFF

VARIABLES
    type,        \* image_type of the header
    map,         \* the block map
    allocated,   \* blocks_allocated of the header
    data,        \* the data region of the host file
    opened,      \* handles in use
    alloc,       \* blocks_allocated cached in each handle
    op           \* the vdi_write in progress

image == <<type, map, allocated, data>>
vars == <<type, map, allocated, data, opened, alloc, op>>

Filled(c) == [s \in InBlock |-> c]
Idle == [pc |-> "idle", h |-> "none", off |-> 0, end |-> 0, val |-> Zero, entry |-> 0]

------------------------------------------------------------------------------
(* Creating, opening and closing                                             *)

\* vdi_create_fixed: the map is the identity, the whole data region exists.
\* vdi_create_sparse: nothing is mapped and the file ends with the map.
Fresh(t) ==
    /\ type' = t
    /\ map' = [g \in Guest |-> IF t = "fixed" THEN g ELSE Unallocated]
    /\ allocated' = IF t = "fixed" THEN BlocksCount ELSE 0
    /\ data' = [p \in Host |-> Filled(IF t = "fixed" THEN Zero ELSE Absent)]

Init ==
    /\ type \in {"fixed", "dynamic"}
    /\ map = [g \in Guest |-> IF type = "fixed" THEN g ELSE Unallocated]
    /\ allocated = IF type = "fixed" THEN BlocksCount ELSE 0
    /\ data = [p \in Host |-> Filled(IF type = "fixed" THEN Zero ELSE Absent)]
    /\ opened = {}
    /\ alloc = [h \in Handles |-> 0]
    /\ op = Idle

\* vdisk_create_ex_uuid truncates the file, whoever has it open, and closes it.
Create(t) ==
    /\ op = Idle
    /\ Exclusive => opened = {}
    /\ Fresh(t)
    /\ UNCHANGED <<opened, alloc, op>>

\* host_size: the host blocks that exist.
HostBlocks == Cardinality({p \in Host : data[p][BlockSectors - 1] # Absent})

\* The checks of vdi_open on the counts and on the size of the file.
OpenAccepts ==
    /\ allocated <= BlocksCount
    /\ type = "fixed" => allocated = BlocksCount
    /\ HostBlocks >= allocated

\* vdisk_open and vdi_open
Open(h) ==
    /\ op = Idle /\ h \notin opened
    /\ Exclusive => opened = {}
    /\ OpenAccepts
    /\ opened' = opened \union {h}
    /\ alloc' = [alloc EXCEPT ![h] = allocated]
    /\ UNCHANGED <<image, op>>

Close(h) ==
    /\ op = Idle /\ h \in opened
    /\ opened' = opened \ {h}
    /\ UNCHANGED <<image, alloc, op>>

------------------------------------------------------------------------------
(* vdi_read                                                                  *)

\* The map entries vdi_read refuses, and host sectors it cannot read.
Readable(h, a) ==
    LET e == map[BlockOf(a)]
    IN  \/ type = "dynamic" /\ e = Unallocated
        \/ type = "dynamic" /\ e < alloc[h] /\ data[e][Offset(a)] # Absent
        \/ type = "fixed" /\ data[BlockOf(a)][Offset(a)] # Absent

\* What it returns for a sector.
ReadSector(a) ==
    LET e == map[BlockOf(a)]
    IN  IF type = "fixed" THEN data[BlockOf(a)][Offset(a)]
        ELSE IF e = Unallocated THEN Zero ELSE data[e][Offset(a)]

------------------------------------------------------------------------------
(* vdi_write, one host write at a time                                       *)

At(pc) == op.pc = pc
Goto(pc) == op' = [op EXCEPT !.pc = pc]
Return == op' = Idle

\* bounds_ok holds for the sectors of the disk.
Write(h, off, last, v) ==
    /\ op = Idle /\ h \in opened
    /\ off <= last
    /\ op' = [pc |-> IF type = "fixed" THEN "direct" ELSE "lookup",
              h |-> h, off |-> off, end |-> last + 1, val |-> v, entry |-> 0]
    /\ UNCHANGED <<image, opened, alloc>>

\* A fixed image takes the whole write at once.
WriteFixed ==
    /\ At("direct")
    /\ data' = [p \in Host |-> [s \in InBlock |->
                  LET a == p * BlockSectors + s
                  IN  IF a >= op.off /\ a < op.end THEN op.val ELSE data[p][s]]]
    /\ Return
    /\ UNCHANGED <<type, map, allocated, opened, alloc>>

\* Mutant: a block is published before it is zeroed.
LookupPublishesFirst ==
    /\ At("lookup")
    /\ \/ map[BlockOf(op.off)] = Unallocated /\ alloc[op.h] < BlocksCount
          /\ op' = [op EXCEPT !.entry = alloc[op.h], !.pc = "publish"]
       \/ map[BlockOf(op.off)] # Unallocated /\ map[BlockOf(op.off)] < alloc[op.h]
          /\ op' = [op EXCEPT !.entry = map[BlockOf(op.off)], !.pc = "data"]
    /\ UNCHANGED <<image, opened, alloc>>

\* map_get, and allocate_block when the guest block has no host block.
Entry == map[BlockOf(op.off)]
Lookup ==
    /\ At("lookup")
    /\ \/ Entry = Unallocated /\ alloc[op.h] < BlocksCount
          /\ op' = [op EXCEPT !.entry = alloc[op.h], !.pc = "zero"]
       \/ Entry # Unallocated /\ Entry < alloc[op.h]
          /\ op' = [op EXCEPT !.entry = Entry, !.pc = "data"]
    /\ UNCHANGED <<image, opened, alloc>>

\* The map is full, or the entry is not one this handle knows of.
LookupFails ==
    /\ At("lookup")
    /\ ~(IF Entry = Unallocated THEN alloc[op.h] < BlocksCount ELSE Entry < alloc[op.h])
    /\ Return
    /\ UNCHANGED <<image, opened, alloc>>

\* Mutant: the new block is not zeroed.
ZeroBlockSkipped ==
    /\ At("zero")
    /\ Goto("publish")
    /\ UNCHANGED <<type, map, allocated, data, opened, alloc>>

\* "Materialize a clean VDI block before exposing it in the block map."
ZeroBlock ==
    /\ At("zero")
    /\ data' = [data EXCEPT ![op.entry] = Filled(Zero)]
    /\ Goto("publish")
    /\ UNCHANGED <<type, map, allocated, opened, alloc>>

\* Mutants: the counter in memory is not advanced, or twice.
PublishUncounted ==
    /\ At("publish")
    /\ map' = [map EXCEPT ![BlockOf(op.off)] = op.entry]
    /\ Goto("count")
    /\ UNCHANGED <<type, allocated, data, opened, alloc>>
PublishCountsTwice ==
    /\ At("publish")
    /\ map' = [map EXCEPT ![BlockOf(op.off)] = op.entry]
    /\ alloc' = [alloc EXCEPT ![op.h] = @ + 2]
    /\ Goto("count")
    /\ UNCHANGED <<type, allocated, data, opened>>

\* map_set, and the counter in memory
Publish ==
    /\ At("publish")
    /\ map' = [map EXCEPT ![BlockOf(op.off)] = op.entry]
    /\ alloc' = [alloc EXCEPT ![op.h] = @ + 1]
    /\ Goto("count")
    /\ UNCHANGED <<type, allocated, data, opened>>

\* Mutant: the header keeps the old count.
UpdateAllocatedSkipped ==
    /\ At("count")
    /\ Goto("data")
    /\ UNCHANGED <<type, map, allocated, data, opened, alloc>>

\* update_allocated
UpdateAllocated ==
    /\ At("count")
    /\ allocated' = alloc[op.h]
    /\ Goto("data")
    /\ UNCHANGED <<type, map, data, opened, alloc>>

\* Mutant: a stretch always runs to the end of its block.
StretchUnclipped == (BlockOf(op.off) + 1) * BlockSectors

\* End of the stretch of the write that lies in the current block.
StretchEnd ==
    LET blockEnd == (BlockOf(op.off) + 1) * BlockSectors
    IN  IF op.end < blockEnd THEN op.end ELSE blockEnd

\* Mutant: the loop does not advance.
WriteBlockAgain ==
    /\ At("data")
    /\ data' = [data EXCEPT ![op.entry] =
                  [s \in InBlock |-> IF s >= Offset(op.off) /\ s < Offset(op.off) + StretchEnd - op.off
                                     THEN op.val ELSE @[s]]]
    /\ Goto("lookup")
    /\ UNCHANGED <<type, map, allocated, opened, alloc>>

WriteBlock ==
    /\ At("data")
    /\ data' = [data EXCEPT ![op.entry] =
                  [s \in InBlock |-> IF s >= Offset(op.off) /\ s < Offset(op.off) + StretchEnd - op.off
                                     THEN op.val ELSE @[s]]]
    /\ IF StretchEnd = op.end THEN Return
       ELSE op' = [op EXCEPT !.off = StretchEnd, !.pc = "lookup"]
    /\ UNCHANGED <<type, map, allocated, opened, alloc>>

\* A host write fails and vdi_write returns -1; the counter in memory stays.
HostWriteFails ==
    /\ op.pc \in FailAt
    /\ Return
    /\ UNCHANGED <<image, opened, alloc>>

\* The process dies; every handle is gone.
Crash ==
    /\ Crashes
    /\ op # Idle
    /\ Return
    /\ opened' = {}
    /\ UNCHANGED <<image, alloc>>

------------------------------------------------------------------------------
Step == Lookup \/ LookupFails \/ ZeroBlock \/ Publish \/ UpdateAllocated \/ WriteBlock \/ WriteFixed

Next ==
    \/ \E t \in {"fixed", "dynamic"} : Create(t)
    \/ \E h \in Handles : Open(h) \/ Close(h)
    \/ \E h \in Handles, off \in Sectors, last \in Sectors, v \in Values : Write(h, off, last, v)
    \/ Step
    \/ HostWriteFails
    \/ Crash

\* vdi_write runs to its return.
Spec == Init /\ [][Next]_vars
FairSpec == Spec /\ WF_vars(Step)

------------------------------------------------------------------------------
(* Properties                                                                *)

Contents == Values \union {Zero, Absent}
TypeOK ==
    /\ type \in {"fixed", "dynamic"}
    /\ map \in [Guest -> Host \union {Unallocated}]
    /\ allocated \in 0 .. BlocksCount
    /\ data \in [Host -> [InBlock -> Contents]]
    /\ opened \subseteq Handles
    /\ alloc \in [Handles -> 0 .. BlocksCount]
    /\ op = Idle \/
       op \in [pc : {"lookup", "zero", "publish", "count", "data", "direct"}, h : Handles,
               off : Sectors, end : 1 .. BlocksCount * BlockSectors, val : Values, entry : Host]

\* vdisk_vdi_inspect, "CHECK(info->map_duplicate_entries==0)": no two guest
\* blocks share a host block, so a write to one never shows in another.
NoDuplicates ==
    \A g, k \in Guest : map[g] # Unallocated /\ map[g] = map[k] => g = k

\* The other checks of vdisk_vdi_inspect, between calls: the map entries are the
\* numbers below the header's count, each used once, after writes that failed
\* half way too.
AuditClean ==
    op = Idle => {map[g] : g \in Guest} \ {Unallocated} = 0 .. allocated - 1

\* No handle ever fails to read a sector of the disk: what the map publishes is
\* within the handle's own count and was written to the host file before.
AllReadable == \A h \in opened, a \in Sectors : Readable(h, a)

\* A write to a block without a host block always finds one: the map is never
\* full while a guest block is unmapped.
NeverFull == At("lookup") /\ Entry = Unallocated => alloc[op.h] < BlocksCount

\* Whatever was published before a crash was materialized before that, and the
\* image can be opened again.
SurvivesCrash ==
    /\ OpenAccepts
    /\ \A g \in Guest : map[g] # Unallocated => Absent \notin {data[map[g]][s] : s \in InBlock}

\* Every vdi_write returns.
WritesReturn == []<>(op = Idle)

\* The container as a plain disk: what a read of each sector returns, and what is
\* left of the write in progress.
Content == [a \in Sectors |-> ReadSector(a)]
Pending == IF op = Idle THEN [off |-> 0, end |-> 0, val |-> Zero]
           ELSE [off |-> op.off, end |-> op.end, val |-> op.val]
Disk == INSTANCE VirtualDisk WITH content <- Content, pending <- Pending

\* vdi_read returns what vdi_write wrote, and zeros elsewhere: a write reaches
\* the sectors it covers and no other, in order, and one that fails a prefix.
IsVirtualDisk == Disk!Spec

------------------------------------------------------------------------------
(* The inductive invariant behind NoDuplicates, AuditClean and IsVirtualDisk *)

\* What it needs of the callers and of the host: one handle at a time, no crash,
\* and no failure of the write of the header, which follows the publication.
Orderly == Exclusive /\ ~Crashes /\ "count" \notin FailAt

\* Host blocks in use: the header lags behind the map for one step.
Top == IF op.pc = "count" THEN allocated + 1 ELSE allocated

OneHandle == \A h, k \in opened : h = k
OpSound ==
    op # Idle =>
        /\ op.h \in opened /\ op.off < op.end
        /\ op.pc = "direct" <=> type = "fixed"
        /\ op.pc \in {"zero", "publish"} => Entry = Unallocated /\ op.entry = allocated
        /\ op.pc = "publish" => data[op.entry] = Filled(Zero)
        /\ op.pc \in {"count", "data"} => Entry = op.entry
CountsAgree == \A h \in opened : alloc[h] = Top
MapFilled == /\ \A g \in Guest : map[g] # Unallocated => map[g] < Top
             /\ \A e \in 0 .. Top - 1 : \E g \in Guest : map[g] = e
FixedDirect == type = "fixed" => allocated = BlocksCount /\ \A g \in Guest : map[g] = g
Materialized == \A p \in Host : p < Top => \A s \in InBlock : data[p][s] # Absent

VInv == /\ OneHandle /\ OpSound /\ CountsAgree /\ MapFilled
        /\ NoDuplicates /\ FixedDirect /\ Materialized

------------------------------------------------------------------------------
(* The inductive invariants behind TypeOK, with any number of handles, and   *)
(* behind SurvivesCrash, with crashes and failures of every host write.      *)

\* The new entry is the handle's own count: one more still fits.
OpFits ==
    op # Idle => /\ op.off < op.end
                 /\ op.pc \in {"zero", "publish"} => op.entry = alloc[op.h]

\* Host block p lies in the file in full.
Whole(p) == \A s \in InBlock : data[p][s] # Absent

OpTyped == op # Idle => op.h \in opened /\ (op.pc = "direct" <=> type = "fixed")
FixedCount == type = "fixed" => allocated = BlocksCount
CountedWhole == \A p \in Host : p < allocated \/ (\E h \in opened : p < alloc[h]) => Whole(p)
MappedWhole == \A g \in Guest : map[g] # Unallocated => Whole(map[g])
NewWhole == op.pc = "publish" => Whole(op.entry)

CrashInv == OpFits /\ OpTyped /\ FixedCount /\ CountedWhole /\ MappedWhole /\ NewWhole
==============================================================================
