--------------------------- MODULE Devices_proofs ---------------------------
(***************************************************************************)
(* Proofs about Devices, for every set of images, names and requests and   *)
(* every size of the tables.                                               *)
(*                                                                         *)
(* Rows: a row belongs to the disk with its letter, so that what a rescan  *)
(* of one disk removes and registers never meets the row of a mount on     *)
(* another (RowInv).                                                       *)
(*                                                                         *)
(* Tables: every header and array on an image is one that gpt wrote, at    *)
(* its place (ImageInv), and while gpt add replaces a table one of the two *)
(* copies is in order after every write (AddInv).                          *)
(*                                                                         *)
(* What is kept: every row belongs to an attached disk (TreeInv), the      *)
(* headers and the backup's array of a table that gpt add finished hold    *)
(* its partitions whatever is cut short later, and what write and the      *)
(* scans touch lies between them (SafeInv).                                *)
(*                                                                         *)
(* Scans: the rows of a disk's partitions are the ranges its last scan     *)
(* found, as far as the scan in progress has come (ExactInv).              *)
(***************************************************************************)
EXTENDS Devices, TLAPS, WellFoundedInduction, SequenceTheorems, FiniteSetTheorems

------------------------------------------------------------------------------
(* The registry                                                              *)

\* FirstOf is the first slot of a set of slots.
LEMMA FirstMember ==
    ASSUME NEW S \in SUBSET Nat, S # {}
    PROVE  FirstOf(S) \in S
  <1>1. PICK x \in S : \A y \in S : ~(<<y, x>> \in OpToRel(<, Nat))
    BY NatLessThanWellFounded, WFMin
  <1>2. x \in Nat /\ \A y \in S : y \in Nat /\ ~(y < x)
    BY <1>1, Zenon DEF OpToRel
  <1>3. \A y \in S : x <= y BY <1>2
  <1> QED BY <1>3 DEF FirstOf

\* use and the commands that rescan are given whole disks: a letter, no digits.
WholeDisks == \A n \in Disks \union Targets : n[2] = <<>>

\* A row in use has a letter, and its disk is that letter alone.
RowOK(r) == r = Free \/ (r.name[1] \in {"a", "b"} /\ r.dev = <<r.name[1], <<>>>>)

\* The command in progress will rescan op.name.
Rescans == op.pc \in {"attached", "scan"} \/ (op.pc = "write" /\ op.cmd # "raw")

\* The fields of the command in progress.
OpFields ==
    /\ {"pc"} \subseteq DOMAIN op
    /\ op.pc = "attached" => {"name"} \subseteq DOMAIN op
    /\ op.pc = "scan" => {"name", "found", "nth"} \subseteq DOMAIN op /\ op.nth \in Nat \ {0}
    /\ op.pc = "write" => {"name", "cmd", "todo"} \subseteq DOMAIN op

\* What the rows, the mounts and the command in progress have to do with each
\* other: a disk about to be rescanned has its row and no mount.
RowInv ==
    /\ DOMAIN rows = Slots /\ \A s \in Slots : RowOK(rows[s])
    /\ DOMAIN mounts = MountPoints
    /\ \A m \in MountPoints : mounts[m] # NoMount =>
          mounts[m].slot \in Slots /\ mounts[m].row # Free
    /\ OpFields
    /\ Rescans => /\ op.name \in Disks \union Targets
                  /\ SlotOf(rows, op.name) # {}
                  /\ ~InUse(op.name)
    /\ MountStable

\* A name given to a command is a letter and digits.
LEMMA NameShape ==
    ASSUME WholeDisks, NEW n \in Disks \union Targets
    PROVE  n = <<n[1], <<>>>> /\ n[1] \in {"a", "b"} /\ n # Free.name
  <1>1. n \in Names BY NamesAssumption
  <1>2. n = <<n[1], n[2]>> /\ n[1] \in {"a", "b"} BY <1>1 DEF Names
  <1>3. Free.name[1] = "free" BY DEF Free
  <1> QED BY <1>2, <1>3 DEF WholeDisks

\* A slot whose name is that of a free one is free.
LEMMA FreeNamed ==
    ASSUME NEW r, RowOK(r), r.name = Free.name
    PROVE  r = Free
  <1>1. Free.name[1] = "free" BY DEF Free
  <1> QED BY <1>1 DEF RowOK

\* What vblk_register may overwrite: the row of that name or a free one.
LEMMA RegisterAt ==
    ASSUME NEW rs, NEW r
    PROVE  \/ Register(rs, r) = rs
           \/ \E s \in Slots : /\ rs[s].name \in {r.name, Free.name}
                               /\ Register(rs, r) = [rs EXCEPT ![s] = r]
  <1> DEFINE here == SlotOf(rs, r.name)
             free == SlotOf(rs, Free.name)
             ss == IF here # {} THEN here ELSE free
  <1>1. CASE ~CanRegister(rs, r.name) BY <1>1 DEF Register
  <1>2. CASE CanRegister(rs, r.name)
    <2>1. here \union free # {} BY <1>2 DEF CanRegister
    <2>2. ss # {} BY <2>1
    <2>3. ss \in SUBSET Nat BY DEF SlotOf, Slots
    <2>4. FirstOf(ss) \in ss BY <2>2, <2>3, FirstMember
    <2>5. \A s \in ss : s \in Slots /\ rs[s].name \in {r.name, Free.name} BY DEF SlotOf
    <2>6. Register(rs, r) = [rs EXCEPT ![FirstOf(ss)] = r] BY <1>2 DEF Register
    <2> QED BY <2>4, <2>5, <2>6
  <1> QED BY <1>1, <1>2

\* Registering a row of a disk without mounts keeps the rows sound and the
\* mounted ones as they are.
LEMMA RegisterKeeps ==
    ASSUME RowInv, NEW n \in Disks \union Targets, WholeDisks, ~InUse(n),
           NEW r, r.name[1] = n[1], r.dev = n
    PROVE  /\ DOMAIN Register(rows, r) = Slots
           /\ \A s \in Slots : RowOK(Register(rows, r)[s])
           /\ \A m \in MountPoints : mounts[m] # NoMount =>
                 Register(rows, r)[mounts[m].slot] = mounts[m].row
           /\ SlotOf(rows, n) # {} => SlotOf(Register(rows, r), n) # {}
  <1>1. n = <<n[1], <<>>>> /\ n[1] \in {"a", "b"} /\ n # Free.name BY NameShape
  <1>2. RowOK(r) BY <1>1 DEF RowOK
  <1>3. CASE Register(rows, r) = rows BY <1>3 DEF RowInv, MountStable
  <1>4. CASE ~(Register(rows, r) = rows)
    <2>1. PICK s \in Slots : /\ rows[s].name \in {r.name, Free.name}
                             /\ Register(rows, r) = [rows EXCEPT ![s] = r]
      BY <1>4, RegisterAt
    <2>2. DOMAIN rows = Slots /\ \A t \in Slots : RowOK(rows[t]) BY DEF RowInv
    <2>3. DOMAIN Register(rows, r) = Slots
          /\ \A t \in Slots : Register(rows, r)[t] = IF t = s THEN r ELSE rows[t]
      BY <2>1, <2>2
    <2>4. \A t \in Slots : RowOK(Register(rows, r)[t]) BY <2>2, <2>3, <1>2
    <2>5. rows[s] = Free \/ rows[s].dev = n
      <3>1. CASE rows[s].name = Free.name BY <3>1, <2>2, FreeNamed
      <3>2. CASE rows[s].name = r.name BY <3>2, <2>2, <1>1 DEF RowOK
      <3> QED BY <2>1, <3>1, <3>2
    <2>6. ASSUME NEW m \in MountPoints, mounts[m] # NoMount
          PROVE  Register(rows, r)[mounts[m].slot] = mounts[m].row
      <3>1. mounts[m].slot \in Slots /\ mounts[m].row # Free
            /\ rows[mounts[m].slot] = mounts[m].row
        BY <2>6 DEF RowInv, MountStable
      <3>2. mounts[m].row.dev # n BY <2>6 DEF InUse
      <3> QED BY <3>1, <3>2, <2>5, <2>3
    <2>7. ASSUME NEW t \in Slots, rows[t].name = n
          PROVE  SlotOf(Register(rows, r), n) # {}
      <3>1. CASE t # s BY <3>1, <2>3, <2>7 DEF SlotOf
      <3>2. CASE t = s
        <4>1. r.name = n BY <3>2, <2>1, <2>7, <1>1
        <4> QED BY <4>1, <2>3 DEF SlotOf
      <3> QED BY <3>1, <3>2
    <2>8. SlotOf(rows, n) # {} => SlotOf(Register(rows, r), n) # {}
      BY <2>7 DEF SlotOf
    <2> QED BY <2>3, <2>4, <2>6, <2>8
  <1> QED BY <1>3, <1>4

\* So does taking away the rows of its partitions.
LEMMA RemoveKeeps ==
    ASSUME RowInv, NEW n \in Disks \union Targets, WholeDisks, ~InUse(n)
    PROVE  /\ DOMAIN RemoveChildren(rows, n) = Slots
           /\ \A s \in Slots : RowOK(RemoveChildren(rows, n)[s])
           /\ \A m \in MountPoints : mounts[m] # NoMount =>
                 RemoveChildren(rows, n)[mounts[m].slot] = mounts[m].row
           /\ SlotOf(rows, n) # {} => SlotOf(RemoveChildren(rows, n), n) # {}
  <1>1. n = <<n[1], <<>>>> /\ n[1] \in {"a", "b"} /\ n # Free.name BY NameShape
  <1>2. DOMAIN RemoveChildren(rows, n) = Slots
        /\ \A s \in Slots : RemoveChildren(rows, n)[s]
                              = IF ChildOf(rows[s].name, n) THEN Free ELSE rows[s]
    BY DEF RemoveChildren
  <1>3. \A s \in Slots : RowOK(rows[s]) BY DEF RowInv
  <1>4. \A s \in Slots : RowOK(RemoveChildren(rows, n)[s]) BY <1>2, <1>3 DEF RowOK
  <1>5. ASSUME NEW m \in MountPoints, mounts[m] # NoMount
        PROVE  RemoveChildren(rows, n)[mounts[m].slot] = mounts[m].row
    <2>1. mounts[m].slot \in Slots /\ mounts[m].row # Free
          /\ rows[mounts[m].slot] = mounts[m].row
      BY <1>5 DEF RowInv, MountStable
    <2>2. mounts[m].row.dev # n BY <1>5 DEF InUse
    <2>3. ~ChildOf(rows[mounts[m].slot].name, n) BY <2>1, <2>2, <1>1, <1>3 DEF ChildOf, RowOK
    <2> QED BY <2>1, <2>3, <1>2
  <1>6. ~ChildOf(n, n)
    <2>1. Len(n[2]) = 0 BY <1>1
    <2> QED BY <2>1 DEF ChildOf
  <1>7. SlotOf(rows, n) # {} => SlotOf(RemoveChildren(rows, n), n) # {}
    BY <1>2, <1>6 DEF SlotOf
  <1> QED BY <1>2, <1>4, <1>5, <1>7

------------------------------------------------------------------------------
(* The rows of mounted file systems                                          *)

\* StartScan of a disk without mounts.
LEMMA RowsStartScan ==
    ASSUME RowInv, WholeDisks, NEW n \in Disks \union Targets, NEW found,
           SlotOf(rows, n) # {}, ~InUse(n), StartScan(rows, n, found), mounts' = mounts
    PROVE  RowInv'
  <1>1. rows' = RemoveChildren(rows, n)
        /\ op' = [pc |-> "scan", name |-> n, found |-> found, nth |-> 1]
    BY DEF StartScan
  <1>2. op'.pc = "scan" /\ op'.name = n /\ op'.nth = 1
        /\ {"pc", "name", "found", "nth"} \subseteq DOMAIN op'
    BY <1>1
  <1>3. OpFields' BY <1>2 DEF OpFields
  <1>4. (\A m \in MountPoints : mounts[m] # NoMount =>
            mounts[m].slot \in Slots /\ mounts[m].row # Free) /\ DOMAIN mounts = MountPoints
    BY DEF RowInv
  <1>5. InUse(op.name)' <=> InUse(n) BY <1>2 DEF InUse
  <1>6. DOMAIN rows' = Slots /\ (\A s \in Slots : RowOK(rows'[s])) /\ SlotOf(rows', n) # {}
    BY <1>1, RemoveKeeps
  <1>7. MountStable' BY <1>1, RemoveKeeps DEF MountStable
  <1> QED BY <1>2, <1>3, <1>4, <1>5, <1>6, <1>7 DEF RowInv

\* A step that leaves the rows and the mounts alone.
LEMMA RowsSame ==
    ASSUME RowInv, rows' = rows, mounts' = mounts, OpFields',
           Rescans' => /\ op'.name \in Disks \union Targets
                       /\ SlotOf(rows, op'.name) # {}
                       /\ ~InUse(op'.name)
    PROVE  RowInv'
  <1>1. InUse(op.name)' <=> InUse(op'.name) BY DEF InUse
  <1>2. SlotOf(rows, op.name)' = SlotOf(rows, op'.name) OBVIOUS
  <1>3. MountStable' BY DEF RowInv, MountStable
  <1> QED BY <1>1, <1>2, <1>3 DEF RowInv

\* A command that ends, or that rescans nothing.
LEMMA RowsIdle ==
    ASSUME RowInv, rows' = rows, mounts' = mounts, {"pc"} \subseteq DOMAIN op',
           op'.pc \in {"idle", "create"}
    PROVE  RowInv'
  <1>1. OpFields' BY DEF OpFields
  <1>2. ~Rescans' BY DEF Rescans
  <1> QED BY <1>1, <1>2, RowsSame

\* A write of the command in progress: its name stays.
LEMMA RowsGoOn ==
    ASSUME RowInv, rows' = rows, mounts' = mounts, op.pc = "write",
           op' = [op EXCEPT !.todo = Tail(@)]
    PROVE  RowInv'
  <1>1. {"pc", "name", "cmd", "todo"} \subseteq DOMAIN op BY DEF RowInv, OpFields
  <1>2. DOMAIN op' = DOMAIN op /\ op'.pc = op.pc /\ op'.name = op.name /\ op'.cmd = op.cmd
    BY <1>1
  <1>3. OpFields' BY <1>1, <1>2 DEF OpFields
  <1>4. Rescans' <=> Rescans BY <1>2 DEF Rescans
  <1> QED BY <1>2, <1>3, <1>4, RowsSame DEF RowInv

LEMMA RowsUse ==
    ASSUME RowInv, WholeDisks, Careful, NEW k \in Disks, NEW i \in Images, Use(k, i)
    PROVE  RowInv'
  <1>1. op = Idle /\ ~InUse(k) /\ mounts' = mounts
    BY DEF Use, Command, MayRescan
  <1> DEFINE r == [name |-> k, dev |-> k, start |-> 0, size |-> OpenSize(i)]
  <1>2. CASE CanRegister(rows, k)
    <2>1. rows' = Register(rows, r) /\ op' = [pc |-> "attached", name |-> k]
      BY <1>2 DEF Use
    <2>2. op'.pc = "attached" /\ op'.name = k /\ {"pc", "name"} \subseteq DOMAIN op'
      BY <2>1
    <2>3. OpFields' BY <2>2 DEF OpFields
    <2>4. r.name[1] = k[1] /\ r.dev = k OBVIOUS
    <2>5. /\ DOMAIN rows' = Slots
          /\ \A s \in Slots : RowOK(rows'[s])
          /\ \A m \in MountPoints : mounts[m] # NoMount =>
                rows'[mounts[m].slot] = mounts[m].row
      BY <2>1, <2>4, <1>1, RegisterKeeps
    <2>6. SlotOf(rows', k) # {}
      <3> DEFINE here == SlotOf(rows, r.name)
                 free == SlotOf(rows, Free.name)
                 ss == IF here # {} THEN here ELSE free
      <3>1. ss # {} BY <1>2 DEF CanRegister
      <3>2. ss \in SUBSET Nat /\ ss \subseteq Slots BY DEF SlotOf, Slots
      <3>3. FirstOf(ss) \in Slots BY <3>1, <3>2, FirstMember
      <3>4. rows' = [rows EXCEPT ![FirstOf(ss)] = r] BY <2>1, <1>2 DEF Register
      <3>5. DOMAIN rows = Slots BY DEF RowInv
      <3>6. rows'[FirstOf(ss)] = r BY <3>3, <3>4, <3>5
      <3>7. rows'[FirstOf(ss)].name = k BY <3>6
      <3> HIDE DEF ss
      <3> QED BY <3>3, <3>7 DEF SlotOf
    <2>7. ~InUse(k)' BY <1>1 DEF InUse
    <2>8. InUse(op.name)' <=> InUse(k)' BY <2>2 DEF InUse
    <2>9. MountStable' BY <2>5, <1>1 DEF MountStable
    <2> HIDE DEF r
    <2>10. DOMAIN mounts = MountPoints /\ \A m \in MountPoints : mounts[m] # NoMount =>
                mounts[m].slot \in Slots /\ mounts[m].row # Free
      BY DEF RowInv
    <2> QED BY <2>2, <2>3, <2>5, <2>6, <2>7, <2>8, <2>9, <2>10, <1>1 DEF RowInv
  <1>3. CASE ~CanRegister(rows, k)
    <2>1. rows' = rows /\ op' = Idle BY <1>1, <1>3 DEF Use
    <2>2. {"pc"} \subseteq DOMAIN op' /\ op'.pc = "idle" BY <2>1 DEF Idle
    <2> QED BY <2>1, <2>2, <1>1, RowsIdle
  <1> QED BY <1>2, <1>3

LEMMA RowsRegisterChild ==
    ASSUME RowInv, WholeDisks, RegisterChild
    PROVE  RowInv'
  <1> DEFINE n == op.name
             p == op.found[op.nth]
             parent == RowNamed(rows, n)
             child == [name |-> <<n[1], Append(n[2], op.nth)>>, dev |-> parent.dev,
                       start |-> p[1], size |-> p[2] - p[1] + 1]
  <1>1. op.pc = "scan" /\ rows' = Register(rows, child)
        /\ op' = [op EXCEPT !.nth = @ + 1] /\ mounts' = mounts
    BY DEF RegisterChild
  <1>2. Rescans BY <1>1 DEF Rescans
  <1>3. n \in Disks \union Targets /\ SlotOf(rows, n) # {} /\ ~InUse(n)
    BY <1>2 DEF RowInv
  <1>4. n = <<n[1], <<>>>> /\ n[1] \in {"a", "b"} /\ n # Free.name BY <1>3, NameShape
  <1>5. FirstOf(SlotOf(rows, n)) \in SlotOf(rows, n)
    <2>1. SlotOf(rows, n) \in SUBSET Nat BY DEF SlotOf, Slots
    <2> QED BY <2>1, <1>3, FirstMember
  <1>6. parent.name = n /\ RowOK(parent)
    BY <1>5 DEF SlotOf, RowNamed, RowInv
  <1>7. parent.dev = n BY <1>6, <1>4 DEF RowOK
  <1> HIDE DEF p, parent
  <1>8. child.name[1] = n[1] /\ child.dev = n BY <1>7
  <1> HIDE DEF child
  <1>9. /\ DOMAIN rows' = Slots
        /\ \A s \in Slots : RowOK(rows'[s])
        /\ \A m \in MountPoints : mounts[m] # NoMount =>
              rows'[mounts[m].slot] = mounts[m].row
        /\ SlotOf(rows', n) # {}
    BY <1>1, <1>3, <1>8, RegisterKeeps
  <1>10. {"pc", "name", "found", "nth"} \subseteq DOMAIN op /\ op.nth \in Nat \ {0}
    BY <1>1 DEF RowInv, OpFields
  <1>11. DOMAIN op' = DOMAIN op /\ op'.pc = "scan" /\ op'.name = n /\ op'.nth \in Nat \ {0}
    BY <1>1, <1>10
  <1>12. OpFields' BY <1>10, <1>11 DEF OpFields
  <1>13. InUse(op.name)' <=> InUse(n) BY <1>11, <1>1 DEF InUse
  <1>14. MountStable' BY <1>9, <1>1 DEF MountStable
  <1>15. DOMAIN mounts = MountPoints /\ \A m \in MountPoints : mounts[m] # NoMount =>
              mounts[m].slot \in Slots /\ mounts[m].row # Free
    BY DEF RowInv
  <1> QED BY <1>1, <1>3, <1>9, <1>11, <1>12, <1>13, <1>14, <1>15 DEF RowInv

LEMMA RowsMount ==
    ASSUME RowInv, NEW n, NEW m \in MountPoints, Mount(n, m)
    PROVE  RowInv'
  <1>1. op = Idle /\ op' = op /\ rows' = rows /\ mounts' = [mounts EXCEPT ![m] = Ext2Mount(n)]
        /\ Opens(rows, n) # {}
    BY DEF Mount, Command
  <1>2. Opens(rows, n) \in SUBSET Nat BY DEF Opens, Slots
  <1>3. FirstOf(Opens(rows, n)) \in Opens(rows, n) BY <1>1, <1>2, FirstMember
  <1> DEFINE s == FirstOf(Opens(rows, n))
  <1>4. s \in Slots /\ rows[s] # Free BY <1>3 DEF Opens
  <1>5. Ext2Mount(n) = [slot |-> s, row |-> rows[s]] BY DEF Ext2Mount, VblkOpen
  <1>6. Ext2Mount(n).slot = s /\ Ext2Mount(n).row = rows[s] BY <1>5
  <1>7. DOMAIN mounts = MountPoints BY DEF RowInv
  <1>8. DOMAIN mounts' = MountPoints
        /\ \A x \in MountPoints : mounts'[x] = IF x = m THEN Ext2Mount(n) ELSE mounts[x]
    BY <1>1, <1>7
  <1> HIDE DEF s
  <1>9. \A x \in MountPoints : mounts'[x] # NoMount =>
            mounts'[x].slot \in Slots /\ mounts'[x].row # Free
            /\ rows[mounts'[x].slot] = mounts'[x].row
    BY <1>4, <1>6, <1>8 DEF RowInv, MountStable
  <1>10. op'.pc = "idle" /\ {"pc"} \subseteq DOMAIN op' BY <1>1 DEF Idle
  <1>11. OpFields' /\ ~Rescans' BY <1>10 DEF OpFields, Rescans
  <1>12. MountStable' BY <1>1, <1>9 DEF MountStable
  <1> QED BY <1>1, <1>8, <1>9, <1>11, <1>12 DEF RowInv

\* gpt init and gpt add begin: the disk named has its row and no mount.
LEMMA RowsBeginWrite ==
    ASSUME RowInv, NEW n, rows' = rows, mounts' = mounts,
           {"pc", "cmd", "name", "todo"} \subseteq DOMAIN op',
           op'.pc = "write", op'.name = n,
           op'.cmd # "raw" => n \in Targets /\ SlotOf(rows, n) # {} /\ ~InUse(n)
    PROVE  RowInv'
  <1>1. OpFields' BY DEF OpFields
  <1>2. Rescans' => n \in Targets /\ SlotOf(rows, n) # {} /\ ~InUse(n) BY DEF Rescans
  <1> QED BY <1>1, <1>2, RowsSame


LEMMA RowsWriteCommands ==
    ASSUME RowInv, Careful,
           \/ \E n \in Targets : GptInit(n)
           \/ \E n \in Targets, req \in Requests : GptAdd(n, req)
           \/ \E n \in Parts, f \in HostFiles : RawWrite(n, f)
    PROVE  RowInv'
  <1>1. ASSUME NEW n \in Targets, GptInit(n) PROVE RowInv'
    <2>1. SlotOf(rows, n) # {} /\ ~InUse(n) /\ rows' = rows /\ mounts' = mounts
      BY <1>1 DEF GptInit, MayRescan
    <2>2. op'.pc = "write" /\ op'.name = n /\ {"pc", "cmd", "name", "todo"} \subseteq DOMAIN op'
      BY <1>1 DEF GptInit
    <2> QED BY <2>1, <2>2, RowsBeginWrite
  <1>2. ASSUME NEW n \in Targets, NEW req \in Requests, GptAdd(n, req) PROVE RowInv'
    <2>1. SlotOf(rows, n) # {} /\ ~InUse(n) /\ rows' = rows /\ mounts' = mounts
      BY <1>2 DEF GptAdd, MayRescan
    <2>2. op'.pc = "write" /\ op'.name = n /\ {"pc", "cmd", "name", "todo"} \subseteq DOMAIN op'
      BY <1>2 DEF GptAdd
    <2> QED BY <2>1, <2>2, RowsBeginWrite
  <1>3. ASSUME NEW n \in Parts, NEW f \in HostFiles, RawWrite(n, f) PROVE RowInv'
    <2>1. rows' = rows /\ mounts' = mounts BY <1>3 DEF RawWrite
    <2>2. op'.pc = "write" /\ op'.name = n /\ op'.cmd = "raw"
          /\ {"pc", "cmd", "name", "todo"} \subseteq DOMAIN op'
      BY <1>3 DEF RawWrite
    <2> QED BY <2>1, <2>2, RowsBeginWrite
  <1> QED BY <1>1, <1>2, <1>3

LEMMA RowsInit == Init => RowInv
  <1> SUFFICES ASSUME Init PROVE RowInv OBVIOUS
  <1>1. rows = [s \in Slots |-> Free] /\ mounts = [m \in MountPoints |-> NoMount] /\ op = Idle
    BY DEF Init
  <1>2. op.pc = "idle" /\ {"pc"} \subseteq DOMAIN op BY <1>1 DEF Idle
  <1>3. OpFields /\ ~Rescans BY <1>2 DEF OpFields, Rescans
  <1> QED BY <1>1, <1>3 DEF RowInv, RowOK, MountStable

\* Every step keeps RowInv.
LEMMA RowsNext == Careful /\ WholeDisks /\ RowInv /\ [Next]_vars => RowInv'
  <1> SUFFICES ASSUME Careful, WholeDisks, RowInv, [Next]_vars PROVE RowInv' OBVIOUS
  <1>i. Idle.pc = "idle" /\ {"pc"} \subseteq DOMAIN Idle BY DEF Idle
  <1>1. ASSUME NEW k \in Disks, NEW i \in Images, Use(k, i) PROVE RowInv'
    BY <1>1, RowsUse
  <1>2. ASSUME AddDisk PROVE RowInv'
    <2>1. Rescans BY <1>2 DEF AddDisk, Rescans
    <2> QED BY <2>1, <1>2, RowsStartScan DEF AddDisk, RowInv
  <1>3. ASSUME RegisterChild PROVE RowInv' BY <1>3, RowsRegisterChild
  <1>4. ASSUME EndScan PROVE RowInv' BY <1>4, <1>i, RowsIdle DEF EndScan
  <1>5. ASSUME NEW n \in Targets, Partscan(n) PROVE RowInv'
    BY <1>5, RowsStartScan DEF Partscan, MayRescan
  <1>6. ASSUME NEW n \in Targets, MbrInstall(n) PROVE RowInv'
    BY <1>6, <1>i, RowsIdle DEF MbrInstall, Command
  <1>7. ASSUME \/ \E n \in Targets : GptInit(n)
               \/ \E n \in Targets, req \in Requests : GptAdd(n, req)
               \/ \E n \in Parts, f \in HostFiles : RawWrite(n, f)
        PROVE  RowInv'
    BY <1>7, RowsWriteCommands
  <1>8. ASSUME WriteSector PROVE RowInv' BY <1>8, RowsGoOn DEF WriteSector
  <1>9. ASSUME WriteFails PROVE RowInv'
    BY <1>9, <1>i, RowsGoOn, RowsIdle DEF WriteFails
  <1>10. ASSUME Written PROVE RowInv'
    <2>1. Rescans BY <1>10 DEF Written, Rescans
    <2> QED BY <2>1, <1>10, RowsStartScan DEF Written, RowInv
  <1>11. ASSUME NEW i \in Images, NEW n \in Sizes, NEW mbr \in BOOLEAN, Create(i, n, mbr)
         PROVE  RowInv'
    <2>1. op'.pc = "create" /\ {"pc"} \subseteq DOMAIN op' /\ rows' = rows /\ mounts' = mounts
      BY <1>11 DEF Create
    <2> QED BY <2>1, RowsIdle
  <1>12. ASSUME CreateStep PROVE RowInv'
    <2>1. op.pc = "create" /\ rows' = rows /\ mounts' = mounts
          /\ (op' = Idle \/ op' = [op EXCEPT !.todo = Tail(@)])
      BY <1>12 DEF CreateStep
    <2>2. {"pc"} \subseteq DOMAIN op BY DEF RowInv, OpFields
    <2>3. op'.pc \in {"idle", "create"} /\ {"pc"} \subseteq DOMAIN op' BY <2>1, <2>2, <1>i
    <2> QED BY <2>1, <2>3, RowsIdle
  <1>13. ASSUME CreateFails PROVE RowInv' BY <1>13, <1>i, RowsIdle DEF CreateFails
  <1>14. ASSUME RawWritten PROVE RowInv' BY <1>14, <1>i, RowsIdle DEF RawWritten
  <1>15. ASSUME NEW n \in Targets \union Parts, NEW m \in MountPoints, Mount(n, m) PROVE RowInv'
    BY <1>15, RowsMount
  <1>16. ASSUME Crash PROVE RowInv'
    <2>1. rows' = [s \in Slots |-> Free] /\ mounts' = [m \in MountPoints |-> NoMount]
          /\ op'.pc = "idle" /\ {"pc"} \subseteq DOMAIN op'
      BY <1>16, <1>i DEF Crash
    <2>2. OpFields' /\ ~Rescans' BY <2>1 DEF OpFields, Rescans
    <2> QED BY <2>1, <2>2 DEF RowInv, RowOK, MountStable
  <1>17. ASSUME UNCHANGED vars PROVE RowInv'
    <2>1. rows' = rows /\ mounts' = mounts /\ op' = op BY <1>17 DEF vars
    <2>2. OpFields' /\ (Rescans' <=> Rescans) BY <2>1 DEF OpFields, Rescans, RowInv
    <2> QED BY <2>1, <2>2, RowsSame DEF RowInv
  <1> QED BY <1>1, <1>2, <1>3, <1>4, <1>5, <1>6, <1>7, <1>8, <1>9, <1>10, <1>11, <1>12,
             <1>13, <1>14, <1>15, <1>16, <1>17 DEF Next

\* As long as no disk with a mount is rescanned, and use and the commands that
\* rescan are given whole disks: vblk_register and vblk_remove_children never
\* touch the row a mounted file system points to.
THEOREM MountsCorrect ==
    ASSUME Careful, WholeDisks
    PROVE  Spec => []MountStable
  <1>1. Init => RowInv BY RowsInit
  <1>2. RowInv /\ [Next]_vars => RowInv' BY RowsNext
  <1>3. RowInv => MountStable BY DEF RowInv
  <1> QED BY <1>1, <1>2, <1>3, PTL DEF Spec


------------------------------------------------------------------------------
(* The devices behind the rows, whatever names the commands are given        *)

\* The device behind a row is a device key, a disk about to be rescanned has
\* its row, and a command writes to an image.
DevInv ==
    /\ DOMAIN rows = Slots /\ key \in [Disks -> Images \union {NoImage}]
    /\ \A s \in Slots : rows[s] = Free \/ (rows[s].name # Free.name /\ rows[s].dev \in Disks)
    /\ OpFields
    /\ Rescans => op.name \in Disks \union Targets /\ SlotOf(rows, op.name) # {}
    /\ op.pc = "write" => {"key"} \subseteq DOMAIN op /\ op.key \in Disks

\* A row that is found by its name has a device key behind it.
LEMMA NamedDevice ==
    ASSUME DevInv, NEW n \in Disks \union Targets, SlotOf(rows, n) # {}
    PROVE  RowNamed(rows, n).name = n /\ RowNamed(rows, n).dev \in Disks
  <1>1. SlotOf(rows, n) \in SUBSET Nat BY DEF SlotOf, Slots
  <1>2. FirstOf(SlotOf(rows, n)) \in SlotOf(rows, n) BY <1>1, FirstMember
  <1>3. RowNamed(rows, n).name = n
    BY <1>2 DEF SlotOf, RowNamed
  <1>4. n[1] \in {"a", "b"} /\ Free.name[1] = "free" BY NamesAssumption DEF Names, Free
  <1>5. RowNamed(rows, n) # Free BY <1>3, <1>4
  <1> QED BY <1>2, <1>3, <1>5 DEF DevInv, SlotOf, RowNamed

LEMMA OpenedDevice ==
    ASSUME DevInv, NEW n, Opens(rows, n) # {}
    PROVE  VblkOpen(rows, n).dev \in Disks
  <1>1. Opens(rows, n) \in SUBSET Nat BY DEF Opens, Slots
  <1>2. FirstOf(Opens(rows, n)) \in Opens(rows, n) BY <1>1, FirstMember
  <1> QED BY <1>2 DEF DevInv, Opens, VblkOpen

\* Registering a row of a device key.
LEMMA RegisterDevice ==
    ASSUME DevInv, NEW r, r.name # Free.name, r.dev \in Disks
    PROVE  /\ DOMAIN Register(rows, r) = Slots
           /\ \A s \in Slots : LET x == Register(rows, r)[s]
                               IN  x = Free \/ (x.name # Free.name /\ x.dev \in Disks)
           /\ \A n : n # Free.name /\ SlotOf(rows, n) # {} => SlotOf(Register(rows, r), n) # {}
  <1>1. CASE Register(rows, r) = rows BY <1>1 DEF DevInv
  <1>2. CASE ~(Register(rows, r) = rows)
    <2>1. PICK s \in Slots : /\ rows[s].name \in {r.name, Free.name}
                             /\ Register(rows, r) = [rows EXCEPT ![s] = r]
      BY <1>2, RegisterAt
    <2>2. DOMAIN rows = Slots BY DEF DevInv
    <2>3. DOMAIN Register(rows, r) = Slots
          /\ \A t \in Slots : Register(rows, r)[t] = IF t = s THEN r ELSE rows[t]
      BY <2>1, <2>2
    <2>4. ASSUME NEW n, n # Free.name, NEW t \in Slots, rows[t].name = n
          PROVE  SlotOf(Register(rows, r), n) # {}
      <3>1. CASE t # s BY <3>1, <2>3, <2>4 DEF SlotOf
      <3>2. CASE t = s
        <4>1. r.name = n BY <3>2, <2>1, <2>4
        <4> QED BY <4>1, <2>3 DEF SlotOf
      <3> QED BY <3>1, <3>2
    <2>5. \A n : n # Free.name /\ SlotOf(rows, n) # {} => SlotOf(Register(rows, r), n) # {}
      BY <2>4 DEF SlotOf
    <2> QED BY <2>3, <2>5 DEF DevInv
  <1> QED BY <1>1, <1>2

\* A name is not its own partition, and no name is that of a free row.
LEMMA NotOwnChild ==
    ASSUME NEW n \in Disks \union Targets
    PROVE  ~ChildOf(n, n) /\ n # Free.name
  <1>1. n \in Names BY NamesAssumption
  <1>2. n[2] \in Seq(1 .. 9) /\ n[1] # "free" BY <1>1 DEF Names
  <1>3. Len(n[2]) \in Nat BY <1>2
  <1>4. Free.name[1] = "free" BY DEF Free
  <1> QED BY <1>2, <1>3, <1>4 DEF ChildOf

LEMMA DevStartScan ==
    ASSUME DevInv, NEW n \in Disks \union Targets, NEW found,
           SlotOf(rows, n) # {}, StartScan(rows, n, found), key' = key
    PROVE  DevInv'
  <1>1. rows' = RemoveChildren(rows, n)
        /\ op' = [pc |-> "scan", name |-> n, found |-> found, nth |-> 1]
    BY DEF StartScan
  <1>2. op'.pc = "scan" /\ op'.name = n /\ op'.nth = 1
        /\ {"pc", "name", "found", "nth"} \subseteq DOMAIN op'
    BY <1>1
  <1>3. OpFields' BY <1>2 DEF OpFields
  <1>4. DOMAIN rows' = Slots
        /\ \A s \in Slots : rows'[s] = IF ChildOf(rows[s].name, n) THEN Free ELSE rows[s]
    BY <1>1 DEF RemoveChildren
  <1>5. \A s \in Slots : rows'[s] = Free \/ (rows'[s].name # Free.name /\ rows'[s].dev \in Disks)
    BY <1>4 DEF DevInv
  <1>6. SlotOf(rows', n) # {} BY <1>4, NotOwnChild DEF SlotOf
  <1> QED BY <1>2, <1>3, <1>4, <1>5, <1>6 DEF DevInv

LEMMA DevSame ==
    ASSUME DevInv, rows' = rows, key' = key, OpFields',
           Rescans' => op'.name \in Disks \union Targets /\ SlotOf(rows, op'.name) # {},
           op'.pc = "write" => {"key"} \subseteq DOMAIN op' /\ op'.key \in Disks
    PROVE  DevInv'
  BY DEF DevInv

LEMMA DevIdle ==
    ASSUME DevInv, rows' = rows, key' = key, {"pc"} \subseteq DOMAIN op',
           op'.pc \in {"idle", "create"}
    PROVE  DevInv'
  <1>1. OpFields' BY DEF OpFields
  <1>2. ~Rescans' BY DEF Rescans
  <1> QED BY <1>1, <1>2, DevSame

LEMMA DevGoOn ==
    ASSUME DevInv, rows' = rows, key' = key, op.pc = "write", op' = [op EXCEPT !.todo = Tail(@)]
    PROVE  DevInv'
  <1>1. {"pc", "name", "cmd", "todo", "key"} \subseteq DOMAIN op /\ op.key \in Disks
    BY DEF DevInv, OpFields
  <1>2. DOMAIN op' = DOMAIN op /\ op'.pc = op.pc /\ op'.name = op.name /\ op'.cmd = op.cmd
        /\ op'.key = op.key
    BY <1>1
  <1>3. OpFields' BY <1>1, <1>2 DEF OpFields
  <1>4. Rescans' <=> Rescans BY <1>2 DEF Rescans
  <1> QED BY <1>1, <1>2, <1>3, <1>4, DevSame DEF DevInv

LEMMA DevUse ==
    ASSUME DevInv, NEW k \in Disks, NEW i \in Images, Use(k, i)
    PROVE  DevInv'
  <1> DEFINE r == [name |-> k, dev |-> k, start |-> 0, size |-> OpenSize(i)]
  <1>1. op = Idle /\ key' \in [Disks -> Images \union {NoImage}] BY DEF Use, Command, DevInv
  <1>2. CASE CanRegister(rows, k)
    <2>1. rows' = Register(rows, r) /\ op' = [pc |-> "attached", name |-> k]
      BY <1>2 DEF Use
    <2>2. op'.pc = "attached" /\ op'.name = k /\ {"pc", "name"} \subseteq DOMAIN op'
      BY <2>1
    <2>3. OpFields' BY <2>2 DEF OpFields
    <2>4. r.name = k /\ r.dev = k /\ k # Free.name BY NotOwnChild
    <2>5. DOMAIN rows' = Slots
          /\ \A s \in Slots : rows'[s] = Free \/ (rows'[s].name # Free.name /\ rows'[s].dev \in Disks)
      BY <2>1, <2>4, RegisterDevice
    <2>6. SlotOf(rows', k) # {}
      <3> DEFINE here == SlotOf(rows, r.name)
                 free == SlotOf(rows, Free.name)
                 ss == IF here # {} THEN here ELSE free
      <3>1. ss # {} BY <1>2 DEF CanRegister
      <3>2. ss \in SUBSET Nat /\ ss \subseteq Slots BY DEF SlotOf, Slots
      <3>3. FirstOf(ss) \in Slots BY <3>1, <3>2, FirstMember
      <3>4. rows' = [rows EXCEPT ![FirstOf(ss)] = r] BY <2>1, <1>2 DEF Register
      <3>5. DOMAIN rows = Slots BY DEF DevInv
      <3>6. rows'[FirstOf(ss)] = r BY <3>3, <3>4, <3>5
      <3>7. rows'[FirstOf(ss)].name = k BY <3>6
      <3> HIDE DEF ss
      <3> QED BY <3>3, <3>7 DEF SlotOf
    <2> HIDE DEF r
    <2> QED BY <1>1, <2>2, <2>3, <2>5, <2>6 DEF DevInv
  <1>3. CASE ~CanRegister(rows, k)
    <2>1. rows' = rows /\ op' = Idle BY <1>1, <1>3 DEF Use
    <2>2. op'.pc = "idle" /\ {"pc"} \subseteq DOMAIN op' BY <2>1 DEF Idle
    <2>3. OpFields' /\ ~Rescans' BY <2>2 DEF OpFields, Rescans
    <2> QED BY <1>1, <2>1, <2>2, <2>3 DEF DevInv
  <1> QED BY <1>2, <1>3

LEMMA DevRegisterChild ==
    ASSUME DevInv, RegisterChild
    PROVE  DevInv'
  <1> DEFINE n == op.name
             p == op.found[op.nth]
             parent == RowNamed(rows, n)
             child == [name |-> <<n[1], Append(n[2], op.nth)>>, dev |-> parent.dev,
                       start |-> p[1], size |-> p[2] - p[1] + 1]
  <1>1. op.pc = "scan" /\ rows' = Register(rows, child)
        /\ op' = [op EXCEPT !.nth = @ + 1] /\ key' = key
    BY DEF RegisterChild
  <1>2. Rescans BY <1>1 DEF Rescans
  <1>3. n \in Disks \union Targets /\ SlotOf(rows, n) # {} BY <1>2 DEF DevInv
  <1>4. n[1] \in {"a", "b"} /\ Free.name[1] = "free" /\ n # Free.name
    BY <1>3, NamesAssumption, NotOwnChild DEF Names, Free
  <1>5. parent.dev \in Disks BY <1>3, NamedDevice
  <1> HIDE DEF p, parent
  <1>6. child.name[1] = n[1] /\ child.dev \in Disks BY <1>5
  <1>7. child.name # Free.name BY <1>4, <1>6
  <1> HIDE DEF child
  <1>8. DOMAIN rows' = Slots
        /\ (\A s \in Slots : rows'[s] = Free \/ (rows'[s].name # Free.name /\ rows'[s].dev \in Disks))
        /\ SlotOf(rows', n) # {}
    BY <1>1, <1>3, <1>4, <1>6, <1>7, RegisterDevice
  <1>9. {"pc", "name", "found", "nth"} \subseteq DOMAIN op /\ op.nth \in Nat \ {0}
    BY <1>1 DEF DevInv, OpFields
  <1>10. DOMAIN op' = DOMAIN op /\ op'.pc = "scan" /\ op'.name = n /\ op'.nth \in Nat \ {0}
    BY <1>1, <1>9
  <1>11. OpFields' BY <1>9, <1>10 DEF OpFields
  <1> QED BY <1>1, <1>3, <1>8, <1>10, <1>11 DEF DevInv

LEMMA DevBeginWrite ==
    ASSUME DevInv, NEW n, rows' = rows, key' = key,
           {"pc", "cmd", "name", "todo", "key"} \subseteq DOMAIN op',
           op'.pc = "write", op'.name = n, op'.key \in Disks,
           op'.cmd # "raw" => n \in Targets /\ SlotOf(rows, n) # {}
    PROVE  DevInv'
  <1>1. OpFields' BY DEF OpFields
  <1>2. Rescans' => n \in Targets /\ SlotOf(rows, n) # {} BY DEF Rescans
  <1> QED BY <1>1, <1>2, DevSame

LEMMA DevWriteCommands ==
    ASSUME DevInv,
           \/ \E n \in Targets : GptInit(n)
           \/ \E n \in Targets, req \in Requests : GptAdd(n, req)
           \/ \E n \in Parts, f \in HostFiles : RawWrite(n, f)
    PROVE  DevInv'
  <1>1. ASSUME NEW n \in Targets, GptInit(n) PROVE DevInv'
    <2>1. SlotOf(rows, n) # {} /\ rows' = rows /\ key' = key BY <1>1 DEF GptInit
    <2>2. op'.pc = "write" /\ op'.name = n /\ op'.key = RowNamed(rows, n).dev
          /\ {"pc", "cmd", "name", "todo", "key"} \subseteq DOMAIN op'
      BY <1>1 DEF GptInit
    <2> QED BY <2>1, <2>2, NamedDevice, DevBeginWrite
  <1>2. ASSUME NEW n \in Targets, NEW req \in Requests, GptAdd(n, req) PROVE DevInv'
    <2>1. SlotOf(rows, n) # {} /\ rows' = rows /\ key' = key BY <1>2 DEF GptAdd
    <2>2. op'.pc = "write" /\ op'.name = n /\ op'.key = RowNamed(rows, n).dev
          /\ {"pc", "cmd", "name", "todo", "key"} \subseteq DOMAIN op'
      BY <1>2 DEF GptAdd
    <2> QED BY <2>1, <2>2, NamedDevice, DevBeginWrite
  <1>3. ASSUME NEW n \in Parts, NEW f \in HostFiles, RawWrite(n, f) PROVE DevInv'
    <2>1. Opens(rows, n) # {} /\ rows' = rows /\ key' = key BY <1>3 DEF RawWrite
    <2>2. op'.pc = "write" /\ op'.name = n /\ op'.cmd = "raw" /\ op'.key = VblkOpen(rows, n).dev
          /\ {"pc", "cmd", "name", "todo", "key"} \subseteq DOMAIN op'
      BY <1>3 DEF RawWrite
    <2> QED BY <2>1, <2>2, OpenedDevice, DevBeginWrite
  <1> QED BY <1>1, <1>2, <1>3

LEMMA DevNext == DevInv /\ [Next]_vars => DevInv'
  <1> SUFFICES ASSUME DevInv, [Next]_vars PROVE DevInv' OBVIOUS
  <1>i. Idle.pc = "idle" /\ {"pc"} \subseteq DOMAIN Idle BY DEF Idle
  <1>1. ASSUME NEW k \in Disks, NEW i \in Images, Use(k, i) PROVE DevInv' BY <1>1, DevUse
  <1>2. ASSUME AddDisk PROVE DevInv'
    <2>1. Rescans BY <1>2 DEF AddDisk, Rescans
    <2> QED BY <2>1, <1>2, DevStartScan DEF AddDisk, DevInv
  <1>3. ASSUME RegisterChild PROVE DevInv' BY <1>3, DevRegisterChild
  <1>4. ASSUME EndScan PROVE DevInv' BY <1>4, <1>i, DevIdle DEF EndScan
  <1>5. ASSUME NEW n \in Targets, Partscan(n) PROVE DevInv'
    BY <1>5, DevStartScan DEF Partscan
  <1>6. ASSUME NEW n \in Targets, MbrInstall(n) PROVE DevInv'
    BY <1>6, <1>i, DevIdle DEF MbrInstall, Command
  <1>7. ASSUME \/ \E n \in Targets : GptInit(n)
               \/ \E n \in Targets, req \in Requests : GptAdd(n, req)
               \/ \E n \in Parts, f \in HostFiles : RawWrite(n, f)
        PROVE  DevInv'
    BY <1>7, DevWriteCommands
  <1>8. ASSUME WriteSector PROVE DevInv' BY <1>8, DevGoOn DEF WriteSector
  <1>9. ASSUME WriteFails PROVE DevInv' BY <1>9, <1>i, DevGoOn, DevIdle DEF WriteFails
  <1>10. ASSUME Written PROVE DevInv'
    <2>1. Rescans BY <1>10 DEF Written, Rescans
    <2> QED BY <2>1, <1>10, DevStartScan DEF Written, DevInv
  <1>11. ASSUME NEW i \in Images, NEW n \in Sizes, NEW mbr \in BOOLEAN, Create(i, n, mbr)
         PROVE  DevInv'
    <2>1. op'.pc = "create" /\ {"pc"} \subseteq DOMAIN op' /\ rows' = rows /\ key' = key
      BY <1>11 DEF Create
    <2> QED BY <2>1, DevIdle
  <1>12. ASSUME CreateStep PROVE DevInv'
    <2>1. op.pc = "create" /\ rows' = rows /\ key' = key
          /\ (op' = Idle \/ op' = [op EXCEPT !.todo = Tail(@)])
      BY <1>12 DEF CreateStep
    <2>2. {"pc"} \subseteq DOMAIN op BY DEF DevInv, OpFields
    <2>3. op'.pc \in {"idle", "create"} /\ {"pc"} \subseteq DOMAIN op' BY <2>1, <2>2, <1>i
    <2> QED BY <2>1, <2>3, DevIdle
  <1>13. ASSUME CreateFails PROVE DevInv' BY <1>13, <1>i, DevIdle DEF CreateFails
  <1>14. ASSUME RawWritten PROVE DevInv' BY <1>14, <1>i, DevIdle DEF RawWritten
  <1>15. ASSUME NEW n \in Targets \union Parts, NEW m \in MountPoints, Mount(n, m) PROVE DevInv'
    BY <1>15, <1>i, DevIdle DEF Mount, Command
  <1>16. ASSUME Crash PROVE DevInv'
    <2>1. rows' = [s \in Slots |-> Free] /\ key' = [k \in Disks |-> NoImage]
          /\ op'.pc = "idle" /\ {"pc"} \subseteq DOMAIN op'
      BY <1>16, <1>i DEF Crash
    <2>2. OpFields' /\ ~Rescans' BY <2>1 DEF OpFields, Rescans
    <2> QED BY <2>1, <2>2 DEF DevInv
  <1>17. ASSUME UNCHANGED vars PROVE DevInv'
    <2>1. rows' = rows /\ key' = key /\ op' = op BY <1>17 DEF vars
    <2>2. OpFields' /\ (Rescans' <=> Rescans) BY <2>1 DEF OpFields, Rescans, DevInv
    <2> QED BY <2>1, <2>2, DevSame DEF DevInv
  <1> QED BY <1>1, <1>2, <1>3, <1>4, <1>5, <1>6, <1>7, <1>8, <1>9, <1>10, <1>11, <1>12,
             <1>13, <1>14, <1>15, <1>16, <1>17 DEF Next

LEMMA DevInit == Init => DevInv
  <1> SUFFICES ASSUME Init PROVE DevInv OBVIOUS
  <1>1. rows = [s \in Slots |-> Free] /\ key = [k \in Disks |-> NoImage] /\ op = Idle
    BY DEF Init
  <1>2. op.pc = "idle" /\ {"pc"} \subseteq DOMAIN op BY <1>1 DEF Idle
  <1>3. OpFields /\ ~Rescans BY <1>2 DEF OpFields, Rescans
  <1> QED BY <1>1, <1>2, <1>3 DEF DevInv


------------------------------------------------------------------------------
(* Tables on an image                                                        *)

Lbas == 0 .. MaxLba - 1

\* Arrays of partitions that lie inside the usable sectors of a disk of T
\* sectors and do not overlap.
Arrays == [1 .. NumEntries -> Nat \X Nat]
Tables(T) ==
    {es \in Arrays : \A p \in Ranges(es) :
        /\ 3 <= p[1] /\ p[1] <= p[2] /\ p[2] <= T - 3
        /\ \A q \in Ranges(es) : p # q => ~Overlap(p, q)}

Primary(T, es) == Header(1, T - 1, 2, T, es).body
Backup(T, es) == Header(T - 1, 1, T - 2, T, es).body

\* The headers and arrays gpt writes, each at its place.
HeaderOK(a, h) ==
    \E T \in Nat : \E es \in Tables(T) :
        /\ T >= 4
        /\ \/ a = 1 /\ h = Primary(T, es)
           \/ a = T - 1 /\ h = Backup(T, es)
SectorOK(a, s) ==
    /\ {"boot", "body"} \subseteq DOMAIN s
    /\ s.body.kind = "header" => HeaderOK(a, s.body)
    /\ s.body.kind = "entries" =>
          s.body.es \in Arrays /\ (a # 2 => s.body.es \in Tables(a + 2))

\* The images at the start fit into the model and hold no table but gpt's own.
MediaOK ==
    /\ MediaSize \in [Images -> 0 .. MaxLba] /\ Sizes \subseteq 0 .. MaxLba
    /\ DOMAIN Media = Images
    /\ \A i \in Images : DOMAIN Media[i] = Lbas /\ \A a \in Lbas : SectorOK(a, Media[i][a])

\* The options of gpt add and write are numbers.
Specs == [unit : {"none", "s", "%", "b"}, n : Nat]
OptionsOK ==
    /\ Requests \subseteq [start : Specs, end : Specs, size : Specs] /\ Sector \in Nat \ {0}
    /\ HostFiles \subseteq [at : Nat, len : Nat]

\* Every sector, and every sector still to be written, is as gpt leaves it.
TodoOK(todo) == \E S : todo \in Seq(S) /\ \A w \in S : SectorOK(w.lba, w.sector)
ImageInv ==
    /\ DOMAIN disk = Images
    /\ \A i \in Images : DOMAIN disk[i] = Lbas /\ \A a \in Lbas : SectorOK(a, disk[i][a])
    /\ len \in [Images -> 0 .. MaxLba] /\ tag \in [Images -> Nat]
    /\ op.pc = "create" =>
          {"pc", "image", "size", "todo"} \subseteq DOMAIN op /\ op.size \in 0 .. MaxLba
    /\ op.pc = "write" =>
          {"pc", "key", "todo", "cmd", "clean", "old", "new"} \subseteq DOMAIN op /\ TodoOK(op.todo)

LEMMA HeaderFields ==
    ASSUME NEW T \in Nat, NEW es
    PROVE  /\ Primary(T, es) = [kind |-> "header", current |-> 1, backup |-> T - 1, entries |-> 2,
                                first |-> 3, last |-> T - 3, crc |-> es]
           /\ Backup(T, es) = [kind |-> "header", current |-> T - 1, backup |-> 1,
                               entries |-> T - 2, first |-> 3, last |-> T - 3, crc |-> es]
  BY DEF Primary, Backup, Header, Body

\* What is written as an array is read back as that array.
LEMMA EntriesBack ==
    ASSUME NEW es
    PROVE  EntriesOf([body |-> EntriesSector(es).body]) = es /\ EntriesOf(EntriesSector(es)) = es
  BY DEF EntriesOf, EntriesSector, Body, Blank

\* Sectors without a table.
LEMMA PlainOK ==
    ASSUME NEW a
    PROVE  SectorOK(a, Blank) /\ SectorOK(a, Data) /\ \A parts : SectorOK(a, Mbr(parts))
  BY DEF SectorOK, Blank, Data, Mbr, Body

\* An array and a header are written to their places.
LEMMA ArrayOK ==
    ASSUME NEW T \in Nat, NEW es \in Tables(T), NEW a \in {2, T - 2}
    PROVE  SectorOK(a, EntriesSector(es))
  <1>1. CASE es = NoEntries BY <1>1, PlainOK DEF EntriesSector
  <1>2. CASE es # NoEntries
    <2>1. EntriesSector(es) = [boot |-> FALSE, body |-> [kind |-> "entries", es |-> es]]
      BY <1>2 DEF EntriesSector, Body
    <2>2. EntriesSector(es).body.kind = "entries" /\ EntriesSector(es).body.es = es
          /\ {"boot", "body"} \subseteq DOMAIN EntriesSector(es)
      BY <2>1
    <2>3. es \in Arrays BY DEF Tables
    <2>4. a # 2 => a + 2 = T OBVIOUS
    <2> QED BY <2>2, <2>3, <2>4 DEF SectorOK
  <1> QED BY <1>1, <1>2

LEMMA HeadersOK ==
    ASSUME NEW T \in Nat, T >= 4, NEW es \in Tables(T)
    PROVE  SectorOK(1, Body(Primary(T, es))) /\ SectorOK(T - 1, Body(Backup(T, es)))
  <1>1. Primary(T, es).kind = "header" /\ Backup(T, es).kind = "header" BY HeaderFields
  <1>2. HeaderOK(1, Primary(T, es)) /\ HeaderOK(T - 1, Backup(T, es)) BY DEF HeaderOK
  <1> HIDE DEF Primary, Backup
  <1> QED BY <1>1, <1>2 DEF SectorOK, Body

\* So what gpt_write_primary and gpt_write_backup write is fine, wherever they
\* are stopped.
LEMMA WriteBothOK ==
    ASSUME NEW T \in Nat, T >= 4, NEW es, NEW fs, NEW new \in Tables(T)
    PROVE  /\ WriteBoth(Primary(T, es), Backup(T, fs), new)
                = <<Put(2, EntriesSector(new)), Put(1, Body(Primary(T, new))),
                    Put(T - 2, EntriesSector(new)), Put(T - 1, Body(Backup(T, new)))>>
           /\ TodoOK(WriteBoth(Primary(T, es), Backup(T, fs), new))
  <1>1. [Primary(T, es) EXCEPT !.crc = new] = Primary(T, new)
        /\ [Backup(T, fs) EXCEPT !.crc = new] = Backup(T, new)
    BY HeaderFields
  <1>2. Primary(T, es).entries = 2 /\ Primary(T, es).current = 1
        /\ Backup(T, fs).entries = T - 2 /\ Backup(T, fs).current = T - 1
    BY HeaderFields
  <1> HIDE DEF Primary, Backup
  <1> DEFINE w == <<Put(2, EntriesSector(new)), Put(1, Body(Primary(T, new))),
                    Put(T - 2, EntriesSector(new)), Put(T - 1, Body(Backup(T, new)))>>
             S == {Put(2, EntriesSector(new)), Put(1, Body(Primary(T, new))),
                   Put(T - 2, EntriesSector(new)), Put(T - 1, Body(Backup(T, new)))}
  <1>3. WriteBoth(Primary(T, es), Backup(T, fs), new) = w BY <1>1, <1>2 DEF WriteBoth
  <1>4. w \in Seq(S) OBVIOUS
  <1>5. \A a, s : Put(a, s).lba = a /\ Put(a, s).sector = s BY DEF Put
  <1>6. SectorOK(2, EntriesSector(new)) /\ SectorOK(T - 2, EntriesSector(new)) BY ArrayOK
  <1>7. \A x \in S : SectorOK(x.lba, x.sector) BY <1>5, <1>6, HeadersOK
  <1>8. TodoOK(w)
    <2> HIDE DEF w, S
    <2> QED BY <1>4, <1>7 DEF TodoOK
  <1> QED BY <1>3, <1>8

\* NoEntries is a table.
LEMMA NoEntriesTable == \A T : NoEntries \in Tables(T)
  <1>1. NoEntries \in Arrays BY DEF NoEntries, Arrays, Empty
  <1>2. Ranges(NoEntries) = {} BY DEF NoEntries, Ranges
  <1> QED BY <1>1, <1>2 DEF Tables

LEMMA InitWritesOK ==
    ASSUME NEW T \in Nat, T >= 4
    PROVE  TodoOK(InitWrites(T))
  <1> DEFINE es == NoEntries
             wb == WriteBoth(Primary(T, es), Backup(T, es), es)
             c == <<TryPut(2, Blank), TryPut(T - 2, Blank), TryPut(1, Blank),
                    TryPut(T - 1, Blank), Put(0, Protective(T))>>
             C == {TryPut(2, Blank), TryPut(T - 2, Blank), TryPut(1, Blank),
                   TryPut(T - 1, Blank), Put(0, Protective(T))}
  <1>1. InitWrites(T) = c \o wb BY DEF InitWrites, Primary, Backup
  <1>2. PICK S : wb \in Seq(S) /\ \A w \in S : SectorOK(w.lba, w.sector)
    <2>1. TodoOK(wb) BY WriteBothOK, NoEntriesTable
    <2> HIDE DEF wb
    <2> QED BY <2>1 DEF TodoOK
  <1>3. \A a, s : /\ Put(a, s).lba = a /\ Put(a, s).sector = s
                  /\ TryPut(a, s).lba = a /\ TryPut(a, s).sector = s
    BY DEF Put, TryPut
  <1>4. \A w \in C : SectorOK(w.lba, w.sector)
    BY <1>3, PlainOK DEF Protective
  <1> HIDE DEF wb
  <1>5. c \in Seq(C) OBVIOUS
  <1> HIDE DEF c, C
  <1>6. c \in Seq(C \union S) /\ wb \in Seq(C \union S) BY <1>2, <1>5
  <1>7. c \o wb \in Seq(C \union S) BY <1>6
  <1>8. \A w \in C \union S : SectorOK(w.lba, w.sector) BY <1>2, <1>4
  <1> QED BY <1>1, <1>7, <1>8 DEF TodoOK


------------------------------------------------------------------------------
(* Reading a table back                                                      *)

\* What vdisk_open reports is bounded by the host file.
LEMMA SizeBound ==
    ASSUME ImageInv, DevInv, NEW k \in Disks
    PROVE  SizeOf(k) \in 0 .. MaxLba /\ (SizeOf(k) > 0 => key[k] \in Images)
  <1>1. key[k] \in Images \union {NoImage} BY DEF DevInv
  <1>2. MaxLba \in Nat BY BoundsAssumption
  <1>3. \A i \in Images : OpenSize(i) \in 0 .. MaxLba
    <2> SUFFICES ASSUME NEW i \in Images PROVE OpenSize(i) \in 0 .. MaxLba OBVIOUS
    <2>1. Format[i] \in {"raw", "vhd", "vmdk"} BY ImagesAssumption DEF Formats
    <2>2. len[i] \in 0 .. MaxLba /\ tag[i] \in Nat BY DEF ImageInv
    <2> QED BY <2>1, <2>2, <1>2 DEF OpenSize, RawOpen, VhdOpen, VmdkOpen
  <1> QED BY <1>1, <1>2, <1>3 DEF SizeOf

LEMMA WholeDiskFacts ==
    ASSUME ImageInv, DevInv, NEW k \in Disks
    PROVE  /\ WholeDisk(k).dev = k /\ WholeDisk(k).size = SizeOf(k) /\ WholeDisk(k).start = 0
           /\ \A a \in Int : Readable(WholeDisk(k), a) <=> a < SizeOf(k)
           /\ \A a \in Int : Read(WholeDisk(k), a) = disk[key[k]][a].body
  <1>1. WholeDisk(k).dev = k /\ WholeDisk(k).size = SizeOf(k) /\ WholeDisk(k).start = 0
    BY DEF WholeDisk
  <1>2. SizeOf(k) \in Int BY SizeBound, BoundsAssumption
  <1> QED BY <1>1, <1>2 DEF Readable, Read

\* A header read at a place is the one gpt writes there.
LEMMA HeaderRead ==
    ASSUME ImageInv, DevInv, NEW k \in Disks, NEW a \in Nat, HeaderAt(WholeDisk(k), a)
    PROVE  key[k] \in Images /\ a < SizeOf(k) /\ HeaderOK(a, disk[key[k]][a].body)
  <1>1. a < SizeOf(k) /\ Read(WholeDisk(k), a).kind = "header"
    BY WholeDiskFacts DEF HeaderAt
  <1>2. SizeOf(k) \in 0 .. MaxLba /\ key[k] \in Images
    BY <1>1, SizeBound, BoundsAssumption
  <1>3. a \in Lbas BY <1>1, <1>2, BoundsAssumption DEF Lbas
  <1>4. SectorOK(a, disk[key[k]][a]) BY <1>2, <1>3 DEF ImageInv
  <1>5. disk[key[k]][a].body.kind = "header" BY <1>1, WholeDiskFacts
  <1> QED BY <1>1, <1>2, <1>4, <1>5 DEF SectorOK

\* When gpt add accepts the headers, both are of one table size.
LEMMA BothHeaders ==
    ASSUME ImageInv, DevInv, NEW k \in Disks, CanAdd(WholeDisk(k))
    PROVE  /\ key[k] \in Images
           /\ \E T \in Nat : \E es, fs \in Tables(T) :
                /\ T >= 4 /\ T <= SizeOf(k)
                /\ disk[key[k]][1].body = Primary(T, es)
                /\ disk[key[k]][T - 1].body = Backup(T, fs)
  <1> DEFINE d == disk[key[k]]
  <1>1. HeaderAt(WholeDisk(k), 1) /\ HeaderAt(WholeDisk(k), Read(WholeDisk(k), 1).backup)
    BY DEF CanAdd
  <1>2. key[k] \in Images /\ HeaderOK(1, d[1].body) BY <1>1, HeaderRead
  <1>3. PICK T \in Nat : \E es \in Tables(T) :
            T >= 4 /\ (d[1].body = Primary(T, es) \/ (1 = T - 1 /\ d[1].body = Backup(T, es)))
    BY <1>2 DEF HeaderOK
  <1>4. PICK es \in Tables(T) : d[1].body = Primary(T, es) BY <1>3
  <1>5. Read(WholeDisk(k), 1).backup = T - 1 BY <1>4, HeaderFields, WholeDiskFacts
  <1>6. T - 1 < SizeOf(k) /\ HeaderOK(T - 1, d[T - 1].body) BY <1>1, <1>3, <1>5, HeaderRead
  <1>7. PICK U \in Nat : \E fs \in Tables(U) :
            U >= 4 /\ ((T - 1 = 1 /\ d[T - 1].body = Primary(U, fs))
                       \/ (T - 1 = U - 1 /\ d[T - 1].body = Backup(U, fs)))
    BY <1>6 DEF HeaderOK
  <1>8. U = T BY <1>3, <1>7
  <1>9. PICK fs \in Tables(T) : d[T - 1].body = Backup(T, fs) BY <1>3, <1>7, <1>8
  <1>10. SizeOf(k) \in Int BY SizeBound, BoundsAssumption
  <1>11. T <= SizeOf(k) BY <1>6, <1>10
  <1> HIDE DEF d
  <1>12. \E es1, fs1 \in Tables(T) : d[1].body = Primary(T, es1) /\ d[T - 1].body = Backup(T, fs1)
    BY <1>4, <1>9
  <1> QED BY <1>2, <1>3, <1>11, <1>12 DEF d

\* Every partition of a table is one that a scan keeps.
LEMMA TableScans ==
    ASSUME NEW T \in Nat, NEW n \in Int, T <= n, NEW es \in Tables(T)
    PROVE  {p \in Ranges(es) : p[1] <= p[2] /\ p[2] < n} = Ranges(es)
  <1>1. \A p \in Ranges(es) : p \in Nat \X Nat BY DEF Tables, Arrays, Ranges
  <1>2. \A p \in Ranges(es) : p[1] <= p[2] /\ p[2] < n BY <1>1 DEF Tables
  <1> QED BY <1>2

\* scan_gpt with a primary copy that is in order.
LEMMA ScanPrimary ==
    ASSUME ImageInv, DevInv, NEW k \in Disks, NEW T \in Nat, T >= 4, T <= SizeOf(k),
           NEW es \in Tables(T),
           disk[key[k]][1].body = Primary(T, es), EntriesOf(disk[key[k]][2]) = es
    PROVE  ScanGpt(WholeDisk(k)) = Ranges(es) /\ EntriesMatch(WholeDisk(k), 1)
  <1> DEFINE r == WholeDisk(k)
  <1>1. SizeOf(k) \in Int BY SizeBound, BoundsAssumption
  <1>2. Read(r, 1) = Primary(T, es) /\ Readable(r, 1) /\ Readable(r, 2)
        /\ Read(r, 2) = disk[key[k]][2].body /\ r.size = SizeOf(k)
    BY <1>1, WholeDiskFacts
  <1> HIDE DEF r
  <1>3. Read(r, 1).kind = "header" /\ Read(r, 1).current = 1 /\ Read(r, 1).backup = T - 1
        /\ Read(r, 1).last = T - 3 /\ Read(r, 1).entries = 2 /\ Read(r, 1).crc = es
    BY <1>2, HeaderFields
  <1>4. HeaderAt(r, 1) BY <1>1, <1>2, <1>3 DEF HeaderAt
  <1>5. EntriesOf([body |-> Read(r, 2)]) = es BY <1>2 DEF EntriesOf
  <1>6. EntriesMatch(r, 1) BY <1>2, <1>3, <1>5 DEF EntriesMatch
  <1>7. GptHeader(r) = {1} BY <1>4, <1>6 DEF GptHeader, ValidateAt
  <1>8. ScanGpt(r) = {p \in Ranges(Read(r, 1).crc) : p[1] <= p[2] /\ p[2] < r.size}
    BY <1>7 DEF ScanGpt
  <1>9. {p \in Ranges(es) : p[1] <= p[2] /\ p[2] < SizeOf(k)} = Ranges(es)
    BY <1>1, TableScans
  <1> QED BY <1>2, <1>3, <1>6, <1>8, <1>9 DEF r

\* scan_gpt with a primary array that does not match and a backup in order.
LEMMA ScanBackup ==
    ASSUME ImageInv, DevInv, NEW k \in Disks, NEW T \in Nat, T >= 4, T <= SizeOf(k),
           NEW es \in Tables(T),
           disk[key[k]][1].body = Primary(T, es), EntriesOf(disk[key[k]][2]) # es,
           disk[key[k]][T - 1].body = Backup(T, es), EntriesOf(disk[key[k]][T - 2]) = es
    PROVE  ScanGpt(WholeDisk(k)) = Ranges(es)
  <1> DEFINE r == WholeDisk(k)
  <1>1. SizeOf(k) \in Int BY SizeBound, BoundsAssumption
  <1>2. Read(r, 1) = Primary(T, es) /\ Read(r, T - 1) = Backup(T, es)
        /\ Readable(r, 1) /\ Readable(r, T - 1) /\ Readable(r, T - 2)
        /\ Read(r, 2) = disk[key[k]][2].body /\ Read(r, T - 2) = disk[key[k]][T - 2].body
        /\ r.size = SizeOf(k)
    BY <1>1, WholeDiskFacts
  <1> HIDE DEF r
  <1>3. Read(r, 1).kind = "header" /\ Read(r, 1).backup = T - 1
        /\ Read(r, 1).entries = 2 /\ Read(r, 1).crc = es
    BY <1>2, HeaderFields
  <1>4. Read(r, T - 1).kind = "header" /\ Read(r, T - 1).current = T - 1
        /\ Read(r, T - 1).backup = 1 /\ Read(r, T - 1).last = T - 3
        /\ Read(r, T - 1).entries = T - 2 /\ Read(r, T - 1).crc = es
    BY <1>2, HeaderFields
  <1>5. EntriesOf([body |-> Read(r, 2)]) # es /\ EntriesOf([body |-> Read(r, T - 2)]) = es
    BY <1>2 DEF EntriesOf
  <1>6. ~ValidateAt(r, 1) BY <1>3, <1>5 DEF ValidateAt, EntriesMatch
  <1>7. HeaderAt(r, T - 1) BY <1>1, <1>2, <1>4 DEF HeaderAt
  <1>8. EntriesMatch(r, T - 1) BY <1>2, <1>4, <1>5 DEF EntriesMatch
  <1>9. GptHeader(r) = {T - 1}
    BY <1>2, <1>3, <1>6, <1>7, <1>8 DEF GptHeader, ValidateAt
  <1>10. ScanGpt(r) = {p \in Ranges(Read(r, T - 1).crc) : p[1] <= p[2] /\ p[2] < r.size}
    BY <1>9 DEF ScanGpt
  <1>11. {p \in Ranges(es) : p[1] <= p[2] /\ p[2] < SizeOf(k)} = Ranges(es)
    BY <1>1, TableScans
  <1> QED BY <1>2, <1>4, <1>10, <1>11 DEF r


------------------------------------------------------------------------------
(* gpt add                                                                   *)

\* Whatever the options say, the partition starts and ends inside the usable
\* sectors or is refused for being empty.
LEMMA RequestedInside ==
    ASSUME OptionsOK, NEW h, NEW req \in Requests, h.first = 3, h.last \in Int
    PROVE  LET p == Requested(h, req)
           IN  p = <<p[1], p[2]>> /\ p[1] \in Int /\ p[2] \in Int /\ 3 <= p[1] /\ p[2] <= h.last
  <1>1. /\ req.start.n \in Nat /\ req.end.n \in Nat /\ req.size.n \in Nat
        /\ Sector \in Int /\ Sector > 0
    BY DEF OptionsOK, Specs
  <1> DEFINE sp == Span(h)
             m == req.start.n
             e == req.end.n
             z == req.size.n
  <1>2. sp \in Int BY DEF Span
  <1>3. \A x, y \in Int : x * y \in Int /\ (x * y) \div 100 \in Int OBVIOUS
  <1>4. \A x \in Int : x \div Sector \in Int BY <1>1
  <1>5. StartLba(h, req.start) \in Int /\ 3 <= StartLba(h, req.start)
    <2> DEFINE a == CASE m = 0 -> 0
                      [] req.start.unit = "s" -> m
                      [] req.start.unit = "%" -> 3 + (sp * m) \div 100
                      [] OTHER -> m \div Sector
    <2>1. (sp * m) \div 100 \in Int /\ m \div Sector \in Int BY <1>1, <1>2, <1>3, <1>4
    <2>2. a \in Int BY <2>1, <1>1
    <2>3. StartLba(h, req.start) = IF a < 3 THEN 3 ELSE a BY DEF StartLba
    <2> HIDE DEF a
    <2> QED BY <2>2, <2>3
  <1> DEFINE s == StartLba(h, req.start)
             rest == IF s <= h.last THEN h.last - s + 1 ELSE 0
  <1> HIDE DEF sp
  <1>6. EndLba(h, s, req) \in Int
    <2>1. rest \in Int BY <1>5
    <2>2. (sp * e) \div 100 \in Int /\ (rest * z) \div 100 \in Int BY <1>1, <1>2, <1>3, <2>1
    <2>3. e \div Sector \in Int /\ (z + Sector - 1) \div Sector \in Int BY <1>1, <1>4
    <2>4. ASSUME req.end.unit # "none" PROVE EndLba(h, s, req) \in Int
      <3>1. EndLba(h, s, req) =
              CASE e = 0 -> 0
                [] req.end.unit = "s" -> e
                [] req.end.unit = "%" -> 3 + (sp * e) \div 100
                [] OTHER -> IF e >= Sector THEN e \div Sector - 1 ELSE 0
        BY <2>4 DEF EndLba, sp
      <3> QED BY <3>1, <2>2, <2>3, <1>1
    <2>5. ASSUME req.end.unit = "none" PROVE EndLba(h, s, req) \in Int
      <3>1. EndLba(h, s, req) =
              CASE z = 0 -> s
                [] req.size.unit = "s" -> s + z - 1
                [] req.size.unit = "%" -> s + (rest * z) \div 100 - 1
                [] OTHER -> s + (z + Sector - 1) \div Sector - 1
        BY <2>5 DEF EndLba
      <3> HIDE DEF rest, s
      <3> QED BY <3>1, <2>2, <2>3, <1>1, <1>5 DEF s
    <2> QED BY <2>4, <2>5
  <1>7. Requested(h, req) = <<s, IF EndLba(h, s, req) > h.last THEN h.last ELSE EndLba(h, s, req)>>
    BY DEF Requested
  <1> HIDE DEF s
  <1> QED BY <1>5, <1>6, <1>7 DEF s

\* Putting a partition that overlaps none into an empty entry gives a table
\* with one more partition.
LEMMA TableGrows ==
    ASSUME NEW T \in Nat, NEW es \in Tables(T), NEW e \in 1 .. NumEntries, es[e] = Empty,
           NEW p \in Nat \X Nat, 3 <= p[1], p[1] <= p[2], p[2] <= T - 3,
           \A q \in Ranges(es) : ~Overlap(p, q)
    PROVE  /\ [es EXCEPT ![e] = p] \in Tables(T) /\ [es EXCEPT ![e] = p] # es
           /\ Ranges([es EXCEPT ![e] = p]) = Ranges(es) \union {p}
  <1> DEFINE new == [es EXCEPT ![e] = p]
  <1>1. es \in Arrays BY DEF Tables
  <1>2. new \in Arrays /\ \A x \in 1 .. NumEntries : new[x] = IF x = e THEN p ELSE es[x]
    BY <1>1 DEF Arrays
  <1>3. DOMAIN es = 1 .. NumEntries /\ DOMAIN new = 1 .. NumEntries BY <1>1, <1>2 DEF Arrays
  <1>4. p # Empty BY DEF Empty
  <1> HIDE DEF new
  <1>5. Ranges(new) = Ranges(es) \union {p}
    <2>1. \A q \in Ranges(new) : q \in Ranges(es) \union {p} BY <1>2, <1>3, <1>4 DEF Ranges
    <2>2. p \in Ranges(new) BY <1>2, <1>3, <1>4 DEF Ranges
    <2>3. ASSUME NEW q \in Ranges(es) PROVE q \in Ranges(new)
      <3>1. PICK x \in 1 .. NumEntries : q = es[x] /\ es[x] # Empty BY <1>3 DEF Ranges
      <3>2. x # e BY <3>1
      <3>3. new[x] = es[x] BY <3>2, <1>2
      <3> QED BY <3>1, <3>3, <1>3 DEF Ranges
    <2> QED BY <2>1, <2>2, <2>3
  <1>6. \A q \in Ranges(es) : q \in Nat \X Nat BY <1>1 DEF Arrays, Ranges
  <1>7. \A q \in Ranges(es) : ~Overlap(p, q) /\ ~Overlap(q, p) BY <1>6 DEF Overlap
  <1>8. \A q \in Ranges(es) : /\ 3 <= q[1] /\ q[1] <= q[2] /\ q[2] <= T - 3
                              /\ \A x \in Ranges(es) : q # x => ~Overlap(q, x)
    BY DEF Tables
  <1>9. \A q \in Ranges(new) : /\ 3 <= q[1] /\ q[1] <= q[2] /\ q[2] <= T - 3
                               /\ \A x \in Ranges(new) : q # x => ~Overlap(q, x)
    BY <1>5, <1>7, <1>8
  <1>10. new \in Tables(T) BY <1>2, <1>9 DEF Tables
  <1>11. new # es BY <1>2, <1>4
  <1> QED BY <1>5, <1>10, <1>11 DEF new

\* The entries gpt add starts from are a table of the disk's size: the
\* primary's, or what is read in the place of the backup's.
LEMMA BaseTable ==
    ASSUME ImageInv, DevInv, NEW k \in Disks, key[k] \in Images,
           NEW T \in Nat, T >= 6, T <= SizeOf(k), NEW es \in Tables(T), NEW fs \in Tables(T),
           disk[key[k]][1].body = Primary(T, es), disk[key[k]][T - 1].body = Backup(T, fs),
           Vacant(AddBase(WholeDisk(k))) # {}
    PROVE  /\ AddBase(WholeDisk(k)) \in Tables(T)
           /\ EntriesMatch(WholeDisk(k), 1) => AddBase(WholeDisk(k)) = es
  <1> DEFINE r == WholeDisk(k)
             s == disk[key[k]][T - 2]
  <1>1. SizeOf(k) \in 0 .. MaxLba /\ MaxLba \in Nat BY SizeBound, BoundsAssumption
  <1>2. Read(r, 1) = Primary(T, es) /\ Read(r, T - 1) = Backup(T, fs) /\ Read(r, T - 2) = s.body
    BY WholeDiskFacts
  <1> HIDE DEF r
  <1>3. Read(r, 1).crc = es /\ Read(r, 1).backup = T - 1 /\ Read(r, T - 1).entries = T - 2
    BY <1>2, HeaderFields
  <1>4. AddBase(r) = IF EntriesMatch(r, 1) THEN es ELSE EntriesOf([body |-> s.body])
    BY <1>2, <1>3 DEF AddBase
  <1>5. CASE EntriesMatch(r, 1) BY <1>4, <1>5 DEF r
  <1>6. CASE ~EntriesMatch(r, 1)
    <2>1. AddBase(r) = EntriesOf([body |-> s.body]) BY <1>4, <1>6
    <2>2. T - 2 \in Lbas BY <1>1 DEF Lbas
    <2>3. SectorOK(T - 2, s) BY <2>2 DEF ImageInv
    <2> HIDE DEF s
    <2>4. CASE s.body.kind = "entries"
      <3>1. s.body.es \in Tables(T - 2 + 2) BY <2>3, <2>4 DEF SectorOK
      <3>2. T - 2 + 2 = T OBVIOUS
      <3>3. EntriesOf([body |-> s.body]) = s.body.es BY <2>4 DEF EntriesOf
      <3> QED BY <3>1, <3>2, <3>3, <2>1, <1>6 DEF r
    <2>5. CASE s.body.kind = "data"
      <3>1. AddBase(r) = << >> BY <2>1, <2>5 DEF EntriesOf
      <3>2. Vacant(AddBase(r)) = {} BY <3>1 DEF Vacant
      <3> QED BY <3>2 DEF r
    <2>6. CASE s.body.kind # "entries" /\ s.body.kind # "data"
      <3>1. AddBase(r) = NoEntries BY <2>1, <2>6 DEF EntriesOf
      <3> QED BY <3>1, <1>6, NoEntriesTable DEF r
    <2> QED BY <2>4, <2>5, <2>6
  <1> QED BY <1>5, <1>6


\* How far gpt add has come with a table whose copies agreed: nothing is
\* written, the primary array is, or the primary copy is.
AddPhase(d, T, es, new, todo) ==
    \/ /\ todo = <<Put(2, EntriesSector(new)), Put(1, Body(Primary(T, new))),
                   Put(T - 2, EntriesSector(new)), Put(T - 1, Body(Backup(T, new)))>>
       /\ d[1].body = Primary(T, es) /\ EntriesOf(d[2]) = es
       /\ d[T - 1].body = Backup(T, es) /\ EntriesOf(d[T - 2]) = es
    \/ /\ todo = <<Put(1, Body(Primary(T, new))),
                   Put(T - 2, EntriesSector(new)), Put(T - 1, Body(Backup(T, new)))>>
       /\ d[1].body = Primary(T, es) /\ EntriesOf(d[2]) = new
       /\ d[T - 1].body = Backup(T, es) /\ EntriesOf(d[T - 2]) = es
    \/ /\ todo \in {<<Put(T - 2, EntriesSector(new)), Put(T - 1, Body(Backup(T, new)))>>,
                    <<Put(T - 1, Body(Backup(T, new)))>>, << >>}
       /\ d[1].body = Primary(T, new) /\ EntriesOf(d[2]) = new
Adding == op.pc = "write" /\ op.cmd = "add" /\ op.clean
AddInv ==
    Adding =>
        \E T \in Nat : \E es, new \in Tables(T) :
            /\ T >= 6 /\ T <= SizeOf(op.key)
            /\ new # es /\ op.old = Ranges(es) /\ op.new = Ranges(new)
            /\ AddPhase(disk[key[op.key]], T, es, new, op.todo)

\* gpt add begins: what it is going to write is fine, and what it starts from,
\* if the copies agree, is one table.
LEMMA AddBegins ==
    ASSUME ImageInv, DevInv, OptionsOK, NEW n \in Targets, NEW req \in Requests, GptAdd(n, req)
    PROVE  /\ TodoOK(op'.todo) /\ AddInv'
           /\ op'.pc = "write"
           /\ {"pc", "key", "todo", "cmd", "clean", "old", "new"} \subseteq DOMAIN op'
  <1>0. PICK k : k = RowNamed(rows, n).dev OBVIOUS
  <1> DEFINE r == WholeDisk(k)
             d == disk[key[k]]
             p == Requested(Read(r, 1), req)
             es == AddBase(r)
             e == FirstOf(Vacant(es))
             new == [es EXCEPT ![e] = p]
  <1>1. /\ SlotOf(rows, n) # {} /\ CanAdd(r) /\ p[1] <= p[2]
        /\ \A q \in Ranges(es) : ~Overlap(p, q)
        /\ Vacant(es) # {}
        /\ op' = [pc |-> "write", cmd |-> "add", name |-> n, key |-> k,
                  todo |-> WriteBoth(Read(r, 1), Read(r, Read(r, 1).backup), new),
                  old |-> ScanGpt(r), new |-> Ranges(new), clean |-> Clean(r)]
        /\ disk' = disk /\ len' = len /\ tag' = tag /\ key' = key
    BY <1>0 DEF GptAdd, host
  <1>2. k \in Disks BY <1>0, <1>1, NamedDevice
  <1>3. key[k] \in Images BY <1>1, <1>2, BothHeaders
  <1>4. PICK T \in Nat : \E e1, f1 \in Tables(T) :
            /\ T >= 4 /\ T <= SizeOf(k)
            /\ d[1].body = Primary(T, e1) /\ d[T - 1].body = Backup(T, f1)
    BY <1>1, <1>2, BothHeaders
  <1>5. PICK e1 \in Tables(T) : \E f1 \in Tables(T) :
            d[1].body = Primary(T, e1) /\ d[T - 1].body = Backup(T, f1)
    BY <1>4
  <1>6. PICK f1 \in Tables(T) : d[1].body = Primary(T, e1) /\ d[T - 1].body = Backup(T, f1)
    BY <1>5
  <1>7. Read(r, 1) = Primary(T, e1) /\ Read(r, T - 1) = Backup(T, f1)
        /\ Read(r, T - 2) = d[T - 2].body /\ Read(r, 2) = d[2].body
    BY <1>2, <1>6, WholeDiskFacts
  <1>8. Read(r, 1).first = 3 /\ Read(r, 1).last = T - 3 /\ Read(r, 1).backup = T - 1
        /\ Read(r, 1).crc = e1 /\ Read(r, 1).entries = 2
        /\ Read(r, T - 1).crc = f1 /\ Read(r, T - 1).entries = T - 2
    BY <1>7, HeaderFields
  <1>9. p = <<p[1], p[2]>> /\ p[1] \in Int /\ p[2] \in Int /\ 3 <= p[1] /\ p[2] <= T - 3
    BY <1>8, RequestedInside
  <1>10. T >= 6 BY <1>1, <1>9
  <1>11. es \in Tables(T) /\ (EntriesMatch(r, 1) => es = e1)
    BY <1>1, <1>2, <1>3, <1>4, <1>6, <1>10, BaseTable
  <1> HIDE DEF p, es
  <1>12. e \in 1 .. NumEntries /\ es[e] = Empty
    <2>1. DOMAIN es = 1 .. NumEntries BY <1>11 DEF Tables, Arrays
    <2>2. Vacant(es) \in SUBSET Nat BY <2>1 DEF Vacant
    <2>3. e \in Vacant(es) BY <1>1, <2>2, FirstMember
    <2> QED BY <2>1, <2>3 DEF Vacant
  <1>13. p \in Nat \X Nat BY <1>1, <1>9
  <1>14. new \in Tables(T) /\ new # es
    BY <1>1, <1>9, <1>11, <1>12, <1>13, TableGrows
  <1> DEFINE w == WriteBoth(Primary(T, e1), Backup(T, f1), new)
             W == <<Put(2, EntriesSector(new)), Put(1, Body(Primary(T, new))),
                    Put(T - 2, EntriesSector(new)), Put(T - 1, Body(Backup(T, new)))>>
  <1>15. w = W /\ TodoOK(w) BY <1>4, <1>14, WriteBothOK
  <1> HIDE DEF new, W
  <1>16. op' = [pc |-> "write", cmd |-> "add", name |-> n, key |-> k, todo |-> w,
                old |-> ScanGpt(r), new |-> Ranges(new), clean |-> Clean(r)]
    BY <1>1, <1>7, <1>8
  <1> HIDE DEF w, r, d
  <1>17. op'.pc = "write" /\ op'.cmd = "add" /\ op'.key = k /\ op'.todo = w
         /\ op'.old = ScanGpt(r) /\ op'.new = Ranges(new) /\ op'.clean = Clean(r)
         /\ {"pc", "key", "todo", "cmd", "clean", "old", "new"} \subseteq DOMAIN op'
    BY <1>16
  <1>18. ASSUME Clean(r)
         PROVE  /\ d[1].body = Primary(T, es) /\ EntriesOf(d[2]) = es
                /\ d[T - 1].body = Backup(T, es) /\ EntriesOf(d[T - 2]) = es
    <2>1. EntriesMatch(r, 1) /\ EntriesMatch(r, T - 1) /\ e1 = f1
      BY <1>18, <1>8 DEF Clean, ValidateAt
    <2>2. EntriesOf([body |-> d[2].body]) = e1 /\ EntriesOf([body |-> d[T - 2].body]) = e1
      BY <2>1, <1>7, <1>8 DEF EntriesMatch
    <2>3. EntriesOf(d[2]) = e1 /\ EntriesOf(d[T - 2]) = e1 BY <2>2 DEF EntriesOf
    <2> QED BY <2>1, <2>3, <1>6, <1>11
  <1>19. ASSUME Clean(r) PROVE ScanGpt(r) = Ranges(es)
    BY <1>18, <1>19, <1>2, <1>4, <1>11, ScanPrimary DEF r, d
  <1>20. SizeOf(k)' = SizeOf(k) /\ d = disk'[key'[k]]
    BY <1>1 DEF SizeOf, OpenSize, RawOpen, VhdOpen, VmdkOpen, d
  <1>21. AddInv'
    <2> SUFFICES ASSUME Clean(r)
                 PROVE  \E T1 \in Nat : \E es1, new1 \in Tables(T1) :
                          /\ T1 >= 6 /\ T1 <= SizeOf(op.key)'
                          /\ new1 # es1 /\ op'.old = Ranges(es1) /\ op'.new = Ranges(new1)
                          /\ AddPhase(disk'[key'[op'.key]], T1, es1, new1, op'.todo)
      BY <1>17 DEF AddInv, Adding
    <2>1. AddPhase(d, T, es, new, w) BY <1>15, <1>18 DEF AddPhase, W
    <2>2. SizeOf(op.key)' = SizeOf(k) BY <1>17, <1>20 DEF SizeOf
    <2>3. /\ T >= 6 /\ T <= SizeOf(op.key)'
          /\ new # es /\ op'.old = Ranges(es) /\ op'.new = Ranges(new)
          /\ AddPhase(disk'[key'[op'.key]], T, es, new, op'.todo)
      BY <2>1, <2>2, <1>4, <1>10, <1>14, <1>17, <1>19, <1>20
    <2> QED BY <2>3, <1>11, <1>14
  <1> QED BY <1>15, <1>17, <1>21


\* A sector that is fine at its place keeps the image fine, whatever the place.
LEMMA SectorPut ==
    ASSUME ImageInv, NEW j, NEW a, NEW s, SectorOK(a, s), disk' = [disk EXCEPT ![j][a] = s]
    PROVE  /\ DOMAIN disk' = Images
           /\ \A i \in Images : DOMAIN disk'[i] = Lbas /\ \A b \in Lbas : SectorOK(b, disk'[i][b])
  <1>1. DOMAIN disk' = Images BY DEF ImageInv
  <1>2. ASSUME NEW i \in Images
        PROVE  DOMAIN disk'[i] = Lbas /\ \A b \in Lbas : SectorOK(b, disk'[i][b])
    <2>1. DOMAIN disk[i] = Lbas /\ \A b \in Lbas : SectorOK(b, disk[i][b]) BY <1>2 DEF ImageInv
    <2>2. disk'[i] = disk[i] \/ disk'[i] = [disk[i] EXCEPT ![a] = s] BY <1>2 DEF ImageInv
    <2> QED BY <2>1, <2>2
  <1> QED BY <1>1, <1>2

LEMMA ImageSame ==
    ASSUME ImageInv, disk' = disk, len' = len, tag' = tag, op'.pc \notin {"create", "write"}
    PROVE  ImageInv'
  BY DEF ImageInv

LEMMA ImageWriteSector ==
    ASSUME ImageInv, WriteSector
    PROVE  ImageInv'
  <1>1. /\ op.pc = "write" /\ op.todo # << >> /\ len' = len /\ tag' = tag
        /\ disk' = [disk EXCEPT ![key[op.key]][Head(op.todo).lba] = Head(op.todo).sector]
        /\ op' = [op EXCEPT !.todo = Tail(@)]
    BY DEF WriteSector
  <1>2. {"pc", "key", "todo", "cmd", "clean", "old", "new"} \subseteq DOMAIN op /\ TodoOK(op.todo)
    BY <1>1 DEF ImageInv
  <1>3. PICK S : op.todo \in Seq(S) /\ \A w \in S : SectorOK(w.lba, w.sector)
    BY <1>2 DEF TodoOK
  <1>4. Head(op.todo) \in S /\ Tail(op.todo) \in Seq(S) BY <1>1, <1>3
  <1>5. DOMAIN op' = DOMAIN op /\ op'.pc = "write" /\ op'.todo = Tail(op.todo) BY <1>1, <1>2
  <1>6. TodoOK(op'.todo) BY <1>3, <1>4, <1>5 DEF TodoOK
  <1>7. SectorOK(Head(op.todo).lba, Head(op.todo).sector) BY <1>3, <1>4
  <1>8. /\ DOMAIN disk' = Images
        /\ \A i \in Images : DOMAIN disk'[i] = Lbas /\ \A b \in Lbas : SectorOK(b, disk'[i][b])
    BY <1>1, <1>7, SectorPut
  <1>9. len' \in [Images -> 0 .. MaxLba] /\ tag' \in [Images -> Nat] BY <1>1 DEF ImageInv
  <1> QED BY <1>2, <1>5, <1>6, <1>8, <1>9 DEF ImageInv

LEMMA ImageWriteFails ==
    ASSUME ImageInv, WriteFails
    PROVE  ImageInv'
  <1>1. op.pc = "write" /\ op.todo # << >> /\ len' = len /\ tag' = tag /\ disk' = disk
        /\ (op' = Idle \/ op' = [op EXCEPT !.todo = Tail(@)])
    BY DEF WriteFails, host
  <1>2. CASE op' = Idle
    <2>1. op'.pc = "idle" BY <1>2 DEF Idle
    <2> QED BY <2>1, <1>1, ImageSame
  <1>3. CASE op' = [op EXCEPT !.todo = Tail(@)]
    <2>1. {"pc", "key", "todo", "cmd", "clean", "old", "new"} \subseteq DOMAIN op /\ TodoOK(op.todo)
      BY <1>1 DEF ImageInv
    <2>2. PICK S : op.todo \in Seq(S) /\ \A w \in S : SectorOK(w.lba, w.sector)
      BY <2>1 DEF TodoOK
    <2>3. Tail(op.todo) \in Seq(S) BY <1>1, <2>2
    <2>4. DOMAIN op' = DOMAIN op /\ op'.pc = "write" /\ op'.todo = Tail(op.todo)
      BY <1>1, <1>3, <2>1
    <2>5. TodoOK(op'.todo) BY <2>2, <2>3, <2>4 DEF TodoOK
    <2> QED BY <1>1, <2>1, <2>4, <2>5 DEF ImageInv
  <1> QED BY <1>1, <1>2, <1>3

LEMMA ImageMbrInstall ==
    ASSUME ImageInv, NEW n, MbrInstall(n)
    PROVE  ImageInv'
  <1> DEFINE r == VblkOpen(rows, n)
             j == key[r.dev]
  <1>1. op = Idle /\ op' = op /\ len' = len /\ tag' = tag
        /\ disk' = [disk EXCEPT ![j][r.start].boot = TRUE]
    BY DEF MbrInstall, Command
  <1> HIDE DEF r, j
  <1>2. DOMAIN disk' = Images BY <1>1 DEF ImageInv
  <1>3. ASSUME NEW i \in Images, NEW b \in Lbas
        PROVE  DOMAIN disk'[i] = Lbas /\ SectorOK(b, disk'[i][b])
    <2>1. DOMAIN disk[i] = Lbas /\ SectorOK(b, disk[i][b]) BY <1>3 DEF ImageInv
    <2>2. \/ disk'[i] = disk[i]
          \/ disk'[i] = [disk[i] EXCEPT ![r.start].boot = TRUE]
      BY <1>1, <1>3 DEF ImageInv
    <2>3. \/ disk'[i][b] = disk[i][b]
          \/ disk'[i][b] = [disk[i][b] EXCEPT !.boot = TRUE]
      BY <2>1, <2>2
    <2>4. {"boot", "body"} \subseteq DOMAIN disk[i][b] BY <2>1 DEF SectorOK
    <2>5. DOMAIN disk'[i][b] = DOMAIN disk[i][b] /\ disk'[i][b].body = disk[i][b].body
      BY <2>3, <2>4
    <2>6. SectorOK(b, disk'[i][b]) BY <2>1, <2>5 DEF SectorOK
    <2> QED BY <2>1, <2>2, <2>6
  <1>4. \A i \in Images : DOMAIN disk'[i] = Lbas
    <2> SUFFICES ASSUME NEW i \in Images PROVE DOMAIN disk'[i] = Lbas OBVIOUS
    <2>1. \/ disk'[i] = disk[i]
          \/ disk'[i] = [disk[i] EXCEPT ![r.start].boot = TRUE]
      BY <1>1 DEF ImageInv
    <2> QED BY <2>1 DEF ImageInv
  <1>5. op'.pc = "idle" BY <1>1 DEF Idle
  <1> QED BY <1>1, <1>2, <1>3, <1>4, <1>5 DEF ImageInv

LEMMA ImageCreateStep ==
    ASSUME ImageInv, CreateStep
    PROVE  ImageInv'
  <1> DEFINE i == op.image
             step == Head(op.todo)
  <1>1. op.pc = "create"
        /\ len' = (CASE step = "data" -> [len EXCEPT ![i] = 0]
                     [] step = "size" -> [len EXCEPT ![i] = op.size]
                     [] OTHER -> len)
        /\ tag' = (CASE step = "untag" \/ (step = "data" /\ Format[i] = "vhd")
                          -> [tag EXCEPT ![i] = 0]
                     [] step = "tag" -> [tag EXCEPT ![i] = op.size]
                     [] OTHER -> tag)
        /\ disk' = (CASE step = "data" -> [disk EXCEPT ![i] = [a \in DOMAIN @ |-> Blank]]
                      [] step = "mbr" -> [disk EXCEPT ![i][0] = Mbr(<<>>)]
                      [] OTHER -> disk)
        /\ op' = IF Len(op.todo) = 1 THEN Idle ELSE [op EXCEPT !.todo = Tail(@)]
    BY DEF CreateStep
  <1>2. {"pc", "image", "size", "todo"} \subseteq DOMAIN op /\ op.size \in 0 .. MaxLba
    BY <1>1 DEF ImageInv
  <1>3. len \in [Images -> 0 .. MaxLba] /\ tag \in [Images -> Nat] BY DEF ImageInv
  <1>4. 0 \in 0 .. MaxLba /\ op.size \in Nat BY <1>2, BoundsAssumption
  <1> HIDE DEF i, step
  <1>5. len' \in [Images -> 0 .. MaxLba]
    <2>1. len' \in {[len EXCEPT ![i] = 0], [len EXCEPT ![i] = op.size], len} BY <1>1
    <2> QED BY <2>1, <1>2, <1>3, <1>4
  <1>6. tag' \in [Images -> Nat]
    <2>1. tag' \in {[tag EXCEPT ![i] = 0], [tag EXCEPT ![i] = op.size], tag} BY <1>1
    <2> QED BY <2>1, <1>3, <1>4
  <1>7. /\ DOMAIN disk' = Images
        /\ \A x \in Images : DOMAIN disk'[x] = Lbas /\ \A b \in Lbas : SectorOK(b, disk'[x][b])
    <2>1. CASE step = "data"
      <3>1. disk' = [disk EXCEPT ![i] = [a \in DOMAIN disk[i] |-> Blank]] BY <1>1, <2>1
      <3> QED BY <3>1, PlainOK DEF ImageInv
    <2>2. CASE step = "mbr"
      <3>1. disk' = [disk EXCEPT ![i][0] = Mbr(<<>>)] BY <1>1, <2>2
      <3>2. SectorOK(0, Mbr(<<>>)) BY PlainOK
      <3> QED BY <3>1, <3>2, SectorPut
    <2>3. CASE step # "data" /\ step # "mbr"
      <3>1. disk' = disk BY <1>1, <2>3
      <3> QED BY <3>1 DEF ImageInv
    <2> QED BY <2>1, <2>2, <2>3
  <1>8. op'.pc = "idle"
        \/ (op'.pc = "create" /\ DOMAIN op' = DOMAIN op /\ op'.size = op.size)
    <2>1. CASE op' = Idle BY <2>1 DEF Idle
    <2>2. CASE op' = [op EXCEPT !.todo = Tail(@)] BY <2>2, <1>1, <1>2
    <2> QED BY <1>1, <2>1, <2>2
  <1> QED BY <1>2, <1>5, <1>6, <1>7, <1>8 DEF ImageInv

LEMMA ImageInit == MediaOK /\ Init => ImageInv
  <1> SUFFICES ASSUME MediaOK, Init PROVE ImageInv OBVIOUS
  <1>1. op.pc = "idle" BY DEF Init, Idle
  <1>2. disk = Media /\ len = MediaSize
        /\ tag = [i \in Images |-> IF Format[i] = "raw" THEN 0 ELSE MediaSize[i]]
    BY DEF Init
  <1>3. \A i \in Images : MediaSize[i] \in Nat BY BoundsAssumption DEF MediaOK
  <1>4. tag \in [Images -> Nat] BY <1>2, <1>3
  <1> QED BY <1>1, <1>2, <1>4 DEF ImageInv, MediaOK


LEMMA ImageGptInit ==
    ASSUME ImageInv, DevInv, NEW n \in Targets, GptInit(n)
    PROVE  ImageInv' /\ ~Adding'
  <1> DEFINE k == RowNamed(rows, n).dev
  <1>1. /\ SlotOf(rows, n) # {} /\ SizeOf(k) >= 4
        /\ op' = [pc |-> "write", cmd |-> "init", name |-> n, key |-> k,
                  todo |-> InitWrites(SizeOf(k)), old |-> {}, new |-> {}, clean |-> FALSE]
        /\ disk' = disk /\ len' = len /\ tag' = tag
    BY DEF GptInit, host
  <1>2. k \in Disks BY <1>1, NamedDevice
  <1> HIDE DEF k
  <1>3. SizeOf(k) \in Nat BY <1>2, SizeBound, BoundsAssumption
  <1>4. TodoOK(InitWrites(SizeOf(k))) BY <1>1, <1>3, InitWritesOK
  <1>5. op'.pc = "write" /\ op'.todo = InitWrites(SizeOf(k)) /\ op'.cmd = "init"
        /\ {"pc", "key", "todo", "cmd", "clean", "old", "new"} \subseteq DOMAIN op'
    BY <1>1
  <1> QED BY <1>1, <1>4, <1>5 DEF ImageInv, Adding

LEMMA ImageRawWrite ==
    ASSUME ImageInv, OptionsOK, NEW n, NEW f \in HostFiles, RawWrite(n, f)
    PROVE  ImageInv' /\ ~Adding'
  <1> DEFINE at(j) == VblkOpen(rows, n).start + f.at + j - 1
             todo == [j \in 1 .. f.len |-> Put(at(j), Data)]
             S == {Put(at(j), Data) : j \in 1 .. f.len}
  <1>1. /\ op' = [pc |-> "write", cmd |-> "raw", name |-> n, key |-> VblkOpen(rows, n).dev,
                  todo |-> todo, old |-> {}, new |-> {}, clean |-> FALSE]
        /\ disk' = disk /\ len' = len /\ tag' = tag
    BY DEF RawWrite, host
  <1>2. f.len \in Nat BY DEF OptionsOK
  <1>3. TodoOK(todo)
    <2> HIDE DEF at
    <2>1. todo \in [1 .. f.len -> S] OBVIOUS
    <2>2. \A a, s : Put(a, s).lba = a /\ Put(a, s).sector = s BY DEF Put
    <2>3. \A w \in S : SectorOK(w.lba, w.sector) BY <2>2, PlainOK
    <2> HIDE DEF S, todo
    <2>4. todo \in Seq(S) BY <2>1, <1>2
    <2> QED BY <2>3, <2>4 DEF TodoOK
  <1> HIDE DEF todo
  <1>4. op'.pc = "write" /\ op'.todo = todo /\ op'.cmd = "raw"
        /\ {"pc", "key", "todo", "cmd", "clean", "old", "new"} \subseteq DOMAIN op'
    BY <1>1
  <1> QED BY <1>1, <1>3, <1>4 DEF ImageInv, Adding

\* The sizes and the keys stay while a command writes.
LEMMA SizeSame ==
    ASSUME len' = len, tag' = tag, key' = key, NEW k
    PROVE  SizeOf(k)' = SizeOf(k)
  BY DEF SizeOf, OpenSize, RawOpen, VhdOpen, VmdkOpen

\* One sector of gpt add is written: the phase is the next one.
LEMMA PhaseNext ==
    ASSUME NEW T \in Nat, T >= 6, NEW es, NEW new, NEW d, NEW d1, NEW todo,
           DOMAIN d = Lbas, T <= MaxLba, todo # << >>,
           AddPhase(d, T, es, new, todo),
           d1 = [d EXCEPT ![Head(todo).lba] = Head(todo).sector]
    PROVE  AddPhase(d1, T, es, new, Tail(todo))
  <1> DEFINE w1 == Put(2, EntriesSector(new))
             w2 == Put(1, Body(Primary(T, new)))
             w3 == Put(T - 2, EntriesSector(new))
             w4 == Put(T - 1, Body(Backup(T, new)))
  <1>1. /\ w1.lba = 2 /\ w1.sector = EntriesSector(new)
        /\ w2.lba = 1 /\ w2.sector = Body(Primary(T, new))
        /\ w3.lba = T - 2 /\ w4.lba = T - 1
    BY DEF Put
  <1>2. {1, 2, T - 2, T - 1} \subseteq Lbas BY BoundsAssumption DEF Lbas
  <1>3. Body(Primary(T, new)).body = Primary(T, new) BY DEF Body
  <1> HIDE DEF w1, w2, w3, w4
  <1>4. CASE /\ todo = <<w1, w2, w3, w4>>
             /\ d[1].body = Primary(T, es) /\ EntriesOf(d[2]) = es
             /\ d[T - 1].body = Backup(T, es) /\ EntriesOf(d[T - 2]) = es
    <2>1. Head(todo) = w1 /\ Tail(todo) = <<w2, w3, w4>> BY <1>4
    <2>2. d1[1] = d[1] /\ d1[T - 1] = d[T - 1] /\ d1[T - 2] = d[T - 2]
          /\ d1[2] = EntriesSector(new)
      BY <2>1, <1>1, <1>2
    <2>3. EntriesOf(d1[2]) = new BY <2>2, EntriesBack
    <2> QED BY <2>1, <2>2, <2>3, <1>4 DEF AddPhase, w1, w2, w3, w4
  <1>5. CASE /\ todo = <<w2, w3, w4>>
             /\ d[1].body = Primary(T, es) /\ EntriesOf(d[2]) = new
    <2>1. Head(todo) = w2 /\ Tail(todo) = <<w3, w4>> BY <1>5
    <2>2. d1[2] = d[2] /\ d1[1].body = Primary(T, new) BY <2>1, <1>1, <1>2, <1>3
    <2> QED BY <2>1, <2>2, <1>5 DEF AddPhase, w3, w4
  <1>6. CASE /\ todo = <<w3, w4>> \/ todo = <<w4>>
             /\ d[1].body = Primary(T, new) /\ EntriesOf(d[2]) = new
    <2>1. \/ Head(todo) = w3 /\ Tail(todo) = <<w4>>
          \/ Head(todo) = w4 /\ Tail(todo) = << >>
      <3>1. CASE todo = <<w3, w4>> BY <3>1
      <3>2. CASE todo = <<w4>>
        <4>1. todo \in Seq({w4}) /\ Len(todo) = 1 /\ Head(todo) = w4 BY <3>2
        <4>2. Tail(todo) \in Seq({w4}) /\ Len(Tail(todo)) = 0 BY <4>1
        <4> QED BY <4>1, <4>2, EmptySeq
      <3> QED BY <3>1, <3>2, <1>6
    <2>2. d1[1] = d[1] /\ d1[2] = d[2] BY <2>1, <1>1, <1>2
    <2> QED BY <2>1, <2>2, <1>6 DEF AddPhase, w4
  <1> QED BY <1>4, <1>5, <1>6 DEF AddPhase, w1, w2, w3, w4

LEMMA AddWriteSector ==
    ASSUME ImageInv, DevInv, AddInv, WriteSector
    PROVE  AddInv'
  <1>1. /\ op.pc = "write" /\ op.todo # << >> /\ len' = len /\ tag' = tag /\ key' = key
        /\ disk' = [disk EXCEPT ![key[op.key]][Head(op.todo).lba] = Head(op.todo).sector]
        /\ op' = [op EXCEPT !.todo = Tail(@)]
    BY DEF WriteSector
  <1>2. {"pc", "key", "todo", "cmd", "clean", "old", "new"} \subseteq DOMAIN op
        /\ op.key \in Disks
    BY <1>1 DEF ImageInv, DevInv
  <1>3. /\ op'.pc = op.pc /\ op'.key = op.key /\ op'.cmd = op.cmd /\ op'.clean = op.clean
        /\ op'.old = op.old /\ op'.new = op.new /\ op'.todo = Tail(op.todo)
    BY <1>1, <1>2
  <1> SUFFICES ASSUME Adding
               PROVE  \E T \in Nat : \E es, new \in Tables(T) :
                        /\ T >= 6 /\ T <= SizeOf(op.key)'
                        /\ new # es /\ op'.old = Ranges(es) /\ op'.new = Ranges(new)
                        /\ AddPhase(disk'[key'[op'.key]], T, es, new, op'.todo)
    BY <1>3 DEF AddInv, Adding
  <1>4. PICK T \in Nat : \E es, new \in Tables(T) :
            /\ T >= 6 /\ T <= SizeOf(op.key)
            /\ new # es /\ op.old = Ranges(es) /\ op.new = Ranges(new)
            /\ AddPhase(disk[key[op.key]], T, es, new, op.todo)
    BY DEF AddInv
  <1>5. PICK es \in Tables(T) : \E new \in Tables(T) :
            /\ T >= 6 /\ T <= SizeOf(op.key)
            /\ new # es /\ op.old = Ranges(es) /\ op.new = Ranges(new)
            /\ AddPhase(disk[key[op.key]], T, es, new, op.todo)
    BY <1>4
  <1>6. PICK new \in Tables(T) :
            /\ T >= 6 /\ T <= SizeOf(op.key)
            /\ new # es /\ op.old = Ranges(es) /\ op.new = Ranges(new)
            /\ AddPhase(disk[key[op.key]], T, es, new, op.todo)
    BY <1>5
  <1> DEFINE d == disk[key[op.key]]
  <1>7. SizeOf(op.key) \in 0 .. MaxLba /\ key[op.key] \in Images
    <2>1. SizeOf(op.key) \in 0 .. MaxLba /\ (SizeOf(op.key) > 0 => key[op.key] \in Images)
      BY <1>2, SizeBound
    <2>2. SizeOf(op.key) > 0 BY <2>1, <1>6, BoundsAssumption
    <2> QED BY <2>1, <2>2
  <1>8. T <= MaxLba BY <1>6, <1>7, BoundsAssumption
  <1>9. DOMAIN d = Lbas /\ DOMAIN disk = Images BY <1>7 DEF ImageInv
  <1>10. disk'[key[op.key]] = [d EXCEPT ![Head(op.todo).lba] = Head(op.todo).sector]
    BY <1>1, <1>7, <1>9
  <1>11. AddPhase(disk'[key[op.key]], T, es, new, Tail(op.todo))
    BY <1>1, <1>6, <1>8, <1>9, <1>10, PhaseNext
  <1>12. SizeOf(op.key)' = SizeOf(op.key)
    <2>1. PICK k : k = op.key OBVIOUS
    <2>2. SizeOf(k)' = SizeOf(k) BY <1>1, SizeSame
    <2>3. SizeOf(op.key)' = SizeOf(k)' BY <2>1, <1>3 DEF SizeOf
    <2> QED BY <2>1, <2>2, <2>3
  <1>13. /\ T >= 6 /\ T <= SizeOf(op.key)'
         /\ new # es /\ op'.old = Ranges(es) /\ op'.new = Ranges(new)
         /\ AddPhase(disk'[key'[op'.key]], T, es, new, op'.todo)
    BY <1>1, <1>3, <1>6, <1>11, <1>12
  <1> QED BY <1>13

\* Every write of gpt add must succeed: one that fails ends the command.
LEMMA AddWriteFails ==
    ASSUME ImageInv, DevInv, AddInv, WriteFails
    PROVE  AddInv'
  <1>1. op.pc = "write" /\ op.todo # << >>
        /\ op' = IF Head(op.todo).must THEN Idle ELSE [op EXCEPT !.todo = Tail(@)]
    BY DEF WriteFails
  <1>2. {"pc", "key", "todo", "cmd", "clean", "old", "new"} \subseteq DOMAIN op
    BY <1>1 DEF ImageInv
  <1>3. CASE ~Adding
    <2>1. CASE op' = Idle BY <2>1 DEF AddInv, Adding, Idle
    <2>2. CASE op' = [op EXCEPT !.todo = Tail(@)]
      <3>1. op'.pc = op.pc /\ op'.cmd = op.cmd /\ op'.clean = op.clean BY <2>2, <1>2
      <3> QED BY <3>1, <1>3 DEF AddInv, Adding
    <2> QED BY <1>1, <2>1, <2>2
  <1>4. CASE Adding
    <2>1. PICK T \in Nat : \E es, new \in Tables(T) :
              AddPhase(disk[key[op.key]], T, es, new, op.todo)
      BY <1>4 DEF AddInv
    <2>2. PICK es \in Tables(T), new \in Tables(T) :
              AddPhase(disk[key[op.key]], T, es, new, op.todo)
      BY <2>1
    <2>3. \A a, s : Put(a, s).must = TRUE BY DEF Put
    <2>4. Head(op.todo) \in {Put(2, EntriesSector(new)), Put(1, Body(Primary(T, new))),
                             Put(T - 2, EntriesSector(new)), Put(T - 1, Body(Backup(T, new)))}
      <3> DEFINE w1 == Put(2, EntriesSector(new))
                 w2 == Put(1, Body(Primary(T, new)))
                 w3 == Put(T - 2, EntriesSector(new))
                 w4 == Put(T - 1, Body(Backup(T, new)))
      <3>1. op.todo \in {<<w1, w2, w3, w4>>, <<w2, w3, w4>>, <<w3, w4>>, <<w4>>}
        BY <1>1, <2>2 DEF AddPhase
      <3> HIDE DEF w1, w2, w3, w4
      <3>2. Head(op.todo) \in {w1, w2, w3, w4} BY <3>1
      <3> QED BY <3>2 DEF w1, w2, w3, w4
    <2>5. Head(op.todo).must = TRUE BY <2>3, <2>4
    <2>6. op' = Idle BY <1>1, <2>5
    <2> QED BY <2>6 DEF AddInv, Adding, Idle
  <1> QED BY <1>3, <1>4


\* A step that does not go on with gpt add, on images that stay.
LEMMA AddNothing ==
    ASSUME ImageInv, disk' = disk, len' = len, tag' = tag, op'.pc \notin {"create", "write"}
    PROVE  ImageInv' /\ AddInv'
  BY ImageSame DEF AddInv, Adding

\* Every step keeps ImageInv and AddInv.
LEMMA AddNext ==
    MediaOK /\ OptionsOK /\ DevInv /\ ImageInv /\ AddInv /\ [Next]_vars => ImageInv' /\ AddInv'
  <1> SUFFICES ASSUME MediaOK, OptionsOK, DevInv, ImageInv, AddInv, [Next]_vars
               PROVE  ImageInv' /\ AddInv'
    OBVIOUS
  <1>i. Idle.pc = "idle" BY DEF Idle
  <1>1. ASSUME NEW k \in Disks, NEW i \in Images, Use(k, i) PROVE ImageInv' /\ AddInv'
    <2>1. disk' = disk /\ len' = len /\ tag' = tag /\ op = Idle
          /\ (op' = op \/ op' = [pc |-> "attached", name |-> k])
      BY <1>1 DEF Use, host, Command
    <2>2. op'.pc \in {"idle", "attached"} BY <2>1, <1>i
    <2> QED BY <2>1, <2>2, AddNothing
  <1>2. ASSUME AddDisk PROVE ImageInv' /\ AddInv'
    <2>1. disk' = disk /\ len' = len /\ tag' = tag /\ op'.pc = "scan"
      BY <1>2 DEF AddDisk, StartScan, host
    <2> QED BY <2>1, AddNothing
  <1>3. ASSUME RegisterChild PROVE ImageInv' /\ AddInv'
    <2>1. disk' = disk /\ len' = len /\ tag' = tag /\ op.pc = "scan"
          /\ op' = [op EXCEPT !.nth = @ + 1]
      BY <1>3 DEF RegisterChild, host
    <2>2. {"pc"} \subseteq DOMAIN op BY DEF DevInv, OpFields
    <2>3. op'.pc = "scan" BY <2>1, <2>2
    <2> QED BY <2>1, <2>3, AddNothing
  <1>4. ASSUME EndScan PROVE ImageInv' /\ AddInv'
    BY <1>4, <1>i, AddNothing DEF EndScan, host
  <1>5. ASSUME NEW n \in Targets, Partscan(n) PROVE ImageInv' /\ AddInv'
    <2>1. disk' = disk /\ len' = len /\ tag' = tag /\ op'.pc = "scan"
      BY <1>5 DEF Partscan, StartScan, host
    <2> QED BY <2>1, AddNothing
  <1>6. ASSUME NEW n \in Targets, MbrInstall(n) PROVE ImageInv' /\ AddInv'
    <2>1. op'.pc = "idle" BY <1>6, <1>i DEF MbrInstall, Command
    <2> QED BY <2>1, <1>6, ImageMbrInstall DEF AddInv, Adding
  <1>7. ASSUME NEW n \in Targets, GptInit(n) PROVE ImageInv' /\ AddInv'
    BY <1>7, ImageGptInit DEF AddInv
  <1>8. ASSUME NEW n \in Targets, NEW req \in Requests, GptAdd(n, req) PROVE ImageInv' /\ AddInv'
    <2>1. disk' = disk /\ len' = len /\ tag' = tag BY <1>8 DEF GptAdd, host
    <2>2. TodoOK(op'.todo) /\ AddInv' /\ op'.pc = "write"
          /\ {"pc", "key", "todo", "cmd", "clean", "old", "new"} \subseteq DOMAIN op'
      BY <1>8, AddBegins
    <2> QED BY <2>1, <2>2 DEF ImageInv
  <1>9. ASSUME WriteSector PROVE ImageInv' /\ AddInv'
    BY <1>9, ImageWriteSector, AddWriteSector
  <1>10. ASSUME WriteFails PROVE ImageInv' /\ AddInv'
    BY <1>10, ImageWriteFails, AddWriteFails
  <1>11. ASSUME Written PROVE ImageInv' /\ AddInv'
    <2>1. disk' = disk /\ len' = len /\ tag' = tag /\ op'.pc = "scan"
      BY <1>11 DEF Written, StartScan, host
    <2> QED BY <2>1, AddNothing
  <1>12. ASSUME NEW i \in Images, NEW n \in Sizes, NEW mbr \in BOOLEAN, Create(i, n, mbr)
         PROVE  ImageInv' /\ AddInv'
    <2>1. disk' = disk /\ len' = len /\ tag' = tag
          /\ op' = [pc |-> "create", image |-> i, size |-> n, todo |-> CreateSteps(i, mbr)]
      BY <1>12 DEF Create, host
    <2>2. op'.pc = "create" /\ op'.size = n /\ {"pc", "image", "size", "todo"} \subseteq DOMAIN op'
      BY <2>1
    <2>3. n \in 0 .. MaxLba BY <1>12 DEF MediaOK
    <2> QED BY <2>1, <2>2, <2>3 DEF ImageInv, AddInv, Adding
  <1>13. ASSUME CreateStep PROVE ImageInv' /\ AddInv'
    <2>1. op.pc = "create" /\ (op' = Idle \/ op' = [op EXCEPT !.todo = Tail(@)])
      BY <1>13 DEF CreateStep
    <2>2. {"pc"} \subseteq DOMAIN op BY DEF DevInv, OpFields
    <2>3. op'.pc # "write" BY <2>1, <2>2, <1>i
    <2> QED BY <1>13, <2>3, ImageCreateStep DEF AddInv, Adding
  <1>14. ASSUME CreateFails PROVE ImageInv' /\ AddInv'
    BY <1>14, <1>i, AddNothing DEF CreateFails, host
  <1>15. ASSUME NEW n \in Parts, NEW f \in HostFiles, RawWrite(n, f) PROVE ImageInv' /\ AddInv'
    BY <1>15, ImageRawWrite DEF AddInv
  <1>16. ASSUME RawWritten PROVE ImageInv' /\ AddInv'
    BY <1>16, <1>i, AddNothing DEF RawWritten, host
  <1>17. ASSUME NEW n \in Targets \union Parts, NEW m \in MountPoints, Mount(n, m)
         PROVE  ImageInv' /\ AddInv'
    BY <1>17, <1>i, AddNothing DEF Mount, Command, host
  <1>18. ASSUME Crash PROVE ImageInv' /\ AddInv'
    BY <1>18, <1>i, AddNothing DEF Crash, host
  <1>19. ASSUME UNCHANGED vars PROVE ImageInv' /\ AddInv'
    <2>1. disk' = disk /\ len' = len /\ tag' = tag /\ key' = key /\ op' = op BY <1>19 DEF vars
    <2>2. ImageInv' BY <2>1 DEF ImageInv
    <2>3. PICK k : k = op.key OBVIOUS
    <2>4. SizeOf(k)' = SizeOf(k) BY <2>1, SizeSame
    <2>5. SizeOf(op.key)' = SizeOf(op.key) BY <2>1, <2>3, <2>4 DEF SizeOf
    <2>6. AddInv' BY <2>1, <2>5 DEF AddInv, Adding
    <2> QED BY <2>2, <2>6
  <1> QED BY <1>1, <1>2, <1>3, <1>4, <1>5, <1>6, <1>7, <1>8, <1>9, <1>10, <1>11, <1>12,
             <1>13, <1>14, <1>15, <1>16, <1>17, <1>18, <1>19 DEF Next

LEMMA AddScans == ImageInv /\ DevInv /\ AddInv => AddAtomic
  <1> SUFFICES ASSUME ImageInv, DevInv, AddInv, Adding
               PROVE  ScanGpt(WholeDisk(op.key)) \in {op.old, op.new}
    BY DEF AddAtomic, Adding
  <1>1. PICK T \in Nat : \E es, new \in Tables(T) :
            /\ T >= 6 /\ T <= SizeOf(op.key)
            /\ new # es /\ op.old = Ranges(es) /\ op.new = Ranges(new)
            /\ AddPhase(disk[key[op.key]], T, es, new, op.todo)
    BY DEF AddInv
  <1>2. PICK es \in Tables(T), new \in Tables(T) :
            /\ T >= 6 /\ T <= SizeOf(op.key)
            /\ new # es /\ op.old = Ranges(es) /\ op.new = Ranges(new)
            /\ AddPhase(disk[key[op.key]], T, es, new, op.todo)
    BY <1>1
  <1>3. op.key \in Disks BY DEF DevInv, Adding
  <1> DEFINE d == disk[key[op.key]]
  <1>4. CASE d[1].body = Primary(T, es) /\ EntriesOf(d[2]) = es
    BY <1>2, <1>3, <1>4, ScanPrimary
  <1>5. CASE /\ d[1].body = Primary(T, es) /\ EntriesOf(d[2]) = new
             /\ d[T - 1].body = Backup(T, es) /\ EntriesOf(d[T - 2]) = es
    BY <1>2, <1>3, <1>5, ScanBackup
  <1>6. CASE d[1].body = Primary(T, new) /\ EntriesOf(d[2]) = new
    BY <1>2, <1>3, <1>6, ScanPrimary
  <1> QED BY <1>2, <1>4, <1>5, <1>6 DEF AddPhase

\* Whatever images, names and requests there are, and whatever write fails or
\* wherever the process dies: after every write of gpt add to a table whose
\* copies agreed, scan_gpt finds the old table or the new one.  It rests on the
\* primary copy being written, entries first, before the backup is touched.
THEOREM AddCorrect ==
    ASSUME MediaOK, OptionsOK
    PROVE  Spec => []AddAtomic
  <1> DEFINE Inv == DevInv /\ ImageInv /\ AddInv
  <1>1. Init => Inv
    <2>1. Init => AddInv BY DEF Init, AddInv, Adding, Idle
    <2> QED BY <2>1, DevInit, ImageInit
  <1>2. Inv /\ [Next]_vars => Inv' BY DevNext, AddNext
  <1>3. Inv => AddAtomic BY AddScans
  <1> QED BY <1>1, <1>2, <1>3, PTL DEF Spec

\* What sort_pairs leaves in the place of the j-th range is a range: the places
\* are one for each.
LEMMA SortedMember ==
    ASSUME NEW ps \in SUBSET (Int \X Int), IsFiniteSet(ps)
    PROVE  Sorted(ps) \in Seq(ps)
  <1> DEFINE N == Cardinality(ps)
             Below(p) == {q \in ps : Before(q, p)}
             rank == [p \in ps |-> Cardinality(Below(p))]
  <1>1. N \in Nat BY FS_CardinalityType
  <1>2. ASSUME NEW p \in ps PROVE IsFiniteSet(Below(p)) /\ Cardinality(Below(p)) \in 0 .. N - 1
    <2>1. Below(p) \in SUBSET ps OBVIOUS
    <2>2. IsFiniteSet(Below(p)) BY <2>1, FS_Subset
    <2>3. p \in Int \X Int BY <1>2
    <2>4. p \notin Below(p) BY <2>3 DEF Before
    <2>5. Below(p) # ps BY <2>4
    <2>6. Cardinality(Below(p)) <= N /\ (N = Cardinality(Below(p)) => ps = Below(p))
      BY <2>1, FS_Subset
    <2>7. Cardinality(Below(p)) \in Nat BY <2>2, FS_CardinalityType
    <2> HIDE DEF Below, N
    <2> QED BY <1>1, <2>2, <2>5, <2>6, <2>7
  <1>3. ASSUME NEW p \in ps, NEW q \in ps, Before(p, q)
        PROVE  Cardinality(Below(p)) # Cardinality(Below(q))
    <2>1. Below(p) \in SUBSET Below(q)
      <3>1. p \in Int \X Int /\ q \in Int \X Int /\ \A x \in ps : x \in Int \X Int BY <1>3
      <3>2. \A x \in ps : Before(x, p) => Before(x, q) BY <3>1, <1>3 DEF Before
      <3> QED BY <3>2
    <2>2. p \in Below(q) /\ p \notin Below(p)
      <3>1. p \in Int \X Int BY <1>3
      <3>2. ~Before(p, p) BY <3>1 DEF Before
      <3> QED BY <3>2, <1>3
    <2>3. IsFiniteSet(Below(q)) BY <1>2
    <2>4. Cardinality(Below(q)) = Cardinality(Below(p)) => Below(q) = Below(p)
      BY <2>1, <2>3, FS_Subset
    <2> QED BY <2>2, <2>4
  <1>4. ASSUME NEW p \in ps, NEW q \in ps, p # q
        PROVE  Cardinality(Below(p)) # Cardinality(Below(q))
    <2>1. p \in Int \X Int /\ q \in Int \X Int BY <1>4
    <2>2. Before(p, q) \/ Before(q, p) BY <2>1, <1>4 DEF Before
    <2> QED BY <2>2, <1>3
  <1>5. rank \in [ps -> 0 .. N - 1] BY <1>2
  <1>6. \A p \in ps : rank[p] = Cardinality(Below(p)) OBVIOUS
  <1> HIDE DEF rank, Below
  <1>7. rank \in Injection(ps, 0 .. N - 1) BY <1>4, <1>5, <1>6 DEF Injection, IsInjective
  <1>8. IsFiniteSet(0 .. N - 1) /\ Cardinality(0 .. N - 1) = N
    <2>1. 0 \in Int /\ N - 1 \in Int BY <1>1
    <2> HIDE DEF N
    <2>2. IsFiniteSet(0 .. N - 1) /\ Cardinality(0 .. N - 1) = IF 0 > N - 1 THEN 0 ELSE N - 1 - 0 + 1
      BY <2>1, FS_Interval
    <2> QED BY <2>2, <1>1
  <1>9. rank \in Surjection(ps, 0 .. N - 1) BY <1>7, <1>8, FS_Injection DEF N
  <1>10. ASSUME NEW j \in 1 .. N PROVE \E p \in ps : Cardinality(Below(p)) = j - 1
    <2>1. j - 1 \in 0 .. N - 1 BY <1>1
    <2>2. \E p \in ps : rank[p] = j - 1 BY <2>1, <1>9 DEF Surjection
    <2> QED BY <2>2, <1>6
  <1>11. Sorted(ps) = [j \in 1 .. N |-> CHOOSE p \in ps : Cardinality(Below(p)) = j - 1]
    BY DEF Sorted, Below
  <1>12. ASSUME NEW j \in 1 .. N PROVE Sorted(ps)[j] \in ps
    <2>1. Sorted(ps)[j] = CHOOSE p \in ps : Cardinality(Below(p)) = j - 1 BY <1>11
    <2> QED BY <2>1, <1>10
  <1> HIDE DEF N
  <1>13. Sorted(ps) \in [1 .. N -> ps] BY <1>11, <1>12
  <1> QED BY <1>1, <1>13

------------------------------------------------------------------------------
(* The rows of a disk                                                        *)

\* Every row is the one of its disk, which is attached and has its row, or one
\* of a numbered partition of it.
RowOf(s) ==
    /\ rows[s].dev \in Attached /\ SlotOf(rows, rows[s].dev) # {}
    /\ \/ rows[s] = WholeDisk(rows[s].dev)
       \/ \E j \in Nat \ {0} : rows[s].name = <<rows[s].dev[1], <<j>>>>

\* A name has one row, an image one key, and the command in progress creates
\* no attached image and writes to no other.
TreeInv ==
    /\ \A s \in Slots : rows[s] # Free => RowOf(s)
    /\ \A s, t \in Slots : rows[s] # Free /\ rows[s].name = rows[t].name => s = t
    /\ \A k, l \in Attached : key[k] = key[l] => k = l
    /\ op.pc = "create" => \A k \in Attached : key[k] # op.image
    /\ op.pc = "write" => op.key \in Attached /\ (op.cmd # "raw" => op.name = op.key)

\* What vblk_register overwrites: the row of that name, or a free one when
\* there is none.
LEMMA RegisterPlace ==
    ASSUME NEW rs, NEW r, CanRegister(rs, r.name)
    PROVE  \E s \in Slots :
              /\ rs[s].name = r.name \/ (SlotOf(rs, r.name) = {} /\ rs[s].name = Free.name)
              /\ Register(rs, r) = [rs EXCEPT ![s] = r]
  <1> DEFINE here == SlotOf(rs, r.name)
             free == SlotOf(rs, Free.name)
             ss == IF here # {} THEN here ELSE free
  <1>1. here \union free # {} BY DEF CanRegister
  <1>2. ss # {} BY <1>1
  <1>3. ss \in SUBSET Nat BY DEF SlotOf, Slots
  <1>4. FirstOf(ss) \in ss BY <1>2, <1>3, FirstMember
  <1>5. \A s \in ss : s \in Slots /\ (rs[s].name = r.name \/ (here = {} /\ rs[s].name = Free.name))
    BY DEF SlotOf
  <1>6. Register(rs, r) = [rs EXCEPT ![FirstOf(ss)] = r] BY DEF Register
  <1> HIDE DEF ss
  <1> QED BY <1>4, <1>5, <1>6

\* A whole disk is a letter, a partition of it is not it.
LEMMA NumberedName ==
    ASSUME NEW c, NEW j \in Nat
    PROVE  <<c, <<j>>>> # <<c, <<>>>> /\ ChildOf(<<c, <<j>>>>, <<c, <<>>>>)
  <1>1. <<j>> \in Seq(Nat) /\ Len(<<j>>) = 1 OBVIOUS
  <1>2. SubSeq(<<j>>, 1, 0) \in Seq(Nat) /\ Len(SubSeq(<<j>>, 1, 0)) = 0 BY <1>1
  <1>3. SubSeq(<<j>>, 1, 0) = <<>> BY <1>2, EmptySeq
  <1>4. Len(<<>>) = 0 OBVIOUS
  <1>5. <<j>> # <<>> BY <1>1, <1>4
  <1> QED BY <1>1, <1>3, <1>4, <1>5 DEF ChildOf

\* The row a command finds under a name it was given is the disk's own.
LEMMA NamedDisk ==
    ASSUME DevInv, TreeInv, WholeDisks, NEW n \in Disks \union Targets, SlotOf(rows, n) # {}
    PROVE  n \in Attached /\ RowNamed(rows, n) = WholeDisk(n)
  <1>1. RowNamed(rows, n).name = n /\ RowNamed(rows, n).dev \in Disks BY NamedDevice
  <1>2. FirstOf(SlotOf(rows, n)) \in SlotOf(rows, n)
    <2>1. SlotOf(rows, n) \in SUBSET Nat BY DEF SlotOf, Slots
    <2> QED BY <2>1, FirstMember
  <1>3. PICK s \in Slots : rows[s] = RowNamed(rows, n) BY <1>2 DEF SlotOf, RowNamed
  <1>4. n = <<n[1], <<>>>> /\ n # Free.name BY NameShape
  <1>5. rows[s] # Free BY <1>1, <1>3, <1>4
  <1>6. RowOf(s) BY <1>5 DEF TreeInv
  <1>7. ASSUME NEW j \in Nat \ {0}, rows[s].name = <<rows[s].dev[1], <<j>>>> PROVE FALSE
    <2>1. n[1] = rows[s].dev[1] BY <1>1, <1>3, <1>7
    <2> QED BY <2>1, <1>1, <1>3, <1>4, <1>7, NumberedName
  <1>8. rows[s] = WholeDisk(rows[s].dev) BY <1>6, <1>7 DEF RowOf
  <1>9. rows[s].dev = n BY <1>8, <1>1, <1>3 DEF WholeDisk
  <1> QED BY <1>3, <1>6, <1>8, <1>9 DEF RowOf

\* A row of a disk that is not the disk's own is one a rescan of it removes.
LEMMA ChildRow ==
    ASSUME DevInv, TreeInv, WholeDisks, NEW s \in Slots, NEW k \in Disks
    PROVE  ChildOf(rows[s].name, k) <=> rows[s].dev = k /\ rows[s].name # k
  <1>1. k = <<k[1], <<>>>> /\ k[1] \in {"a", "b"} /\ k # Free.name BY NameShape
  <1>2. Free.name = <<"free", <<>>>> /\ Free.dev = <<"free", <<>>>> BY DEF Free
  <1>3. CASE rows[s] = Free
    <2>1. Free.name[1] = "free" /\ Free.dev # k BY <1>1, <1>2
    <2> QED BY <2>1, <1>1, <1>3 DEF ChildOf
  <1>4. CASE rows[s] # Free
    <2>1. RowOf(s) /\ rows[s].dev \in Disks BY <1>4 DEF TreeInv, DevInv
    <2> DEFINE e == rows[s].dev
    <2>2. e = <<e[1], <<>>>> BY <2>1, NameShape
    <2>3. CASE rows[s] = WholeDisk(e)
      <3>1. rows[s].name = e BY <2>3 DEF WholeDisk
      <3>2. ~ChildOf(e, k)
        <4>1. Len(e[2]) = 0 /\ Len(k[2]) = 0 BY <2>2, <1>1
        <4> HIDE DEF e
        <4> QED BY <4>1 DEF ChildOf
      <3> QED BY <3>1, <3>2
    <2>4. ASSUME NEW j \in Nat \ {0}, rows[s].name = <<e[1], <<j>>>>
          PROVE  ChildOf(rows[s].name, k) <=> rows[s].dev = k /\ rows[s].name # k
      <3> HIDE DEF e
      <3>1. ChildOf(<<e[1], <<j>>>>, e) /\ <<e[1], <<j>>>> # e BY <2>2, NumberedName
      <3>2. ChildOf(<<e[1], <<j>>>>, k) => e[1] = k[1] BY DEF ChildOf
      <3>3. e[1] = k[1] => e = k BY <2>2, <1>1
      <3> QED BY <3>1, <3>2, <3>3, <2>4 DEF e
    <2> QED BY <2>1, <2>3, <2>4 DEF RowOf
  <1> QED BY <1>3, <1>4

\* A step that leaves the rows, the keys and the sizes of attached images alone.
LEMMA TreeSame ==
    ASSUME TreeInv, rows' = rows, key' = key, \A k \in Attached : SizeOf(k)' = SizeOf(k),
           op'.pc = "create" => \A k \in Attached : key[k] # op'.image,
           op'.pc = "write" => op'.key \in Attached /\ (op'.cmd # "raw" => op'.name = op'.key)
    PROVE  TreeInv'
  <1>1. Attached' = Attached BY DEF Attached
  <1>2. ASSUME NEW s \in Slots, rows[s] # Free PROVE RowOf(s)'
    <2>1. RowOf(s) BY <1>2 DEF TreeInv
    <2>2. SlotOf(rows, rows[s].dev)' = SlotOf(rows, rows[s].dev) OBVIOUS
    <2>3. PICK k : k = rows[s].dev OBVIOUS
    <2>4. k \in Attached BY <2>1, <2>3 DEF RowOf
    <2>5. WholeDisk(k)' = WholeDisk(k) BY <2>4 DEF WholeDisk
    <2>6. WholeDisk(rows[s].dev)' = WholeDisk(rows[s].dev) BY <2>3, <2>5 DEF WholeDisk
    <2> QED BY <1>1, <2>1, <2>2, <2>6 DEF RowOf
  <1> QED BY <1>1, <1>2 DEF TreeInv

\* The partitions' rows of a disk go, the others and all disks' own stay.
LEMMA TreeRemove ==
    ASSUME DevInv, TreeInv, WholeDisks, NEW n \in Disks, rows' = RemoveChildren(rows, n),
           key' = key, len' = len, tag' = tag, op'.pc = "scan"
    PROVE  TreeInv'
  <1>1. Attached' = Attached BY DEF Attached
  <1>2. \A s \in Slots : rows'[s] = IF ChildOf(rows[s].name, n) THEN Free ELSE rows[s]
    BY DEF RemoveChildren
  <1>3. ASSUME NEW s \in Slots, rows'[s] # Free PROVE RowOf(s)'
    <2>1. rows[s] = rows'[s] /\ RowOf(s) /\ rows[s].dev \in Disks
      BY <1>2, <1>3 DEF TreeInv, DevInv
    <2>2. PICK k : k = rows[s].dev OBVIOUS
    <2>3. PICK t \in Slots : rows[t].name = k BY <2>1, <2>2 DEF RowOf, SlotOf
    <2>4. ~ChildOf(k, n)
      <3>1. k[2] = <<>> /\ n[2] = <<>> BY <2>1, <2>2 DEF WholeDisks
      <3>2. Len(<<>>) = 0 OBVIOUS
      <3> QED BY <3>1, <3>2 DEF ChildOf
    <2>5. rows'[t] = rows[t] BY <1>2, <2>3, <2>4
    <2>6. SlotOf(rows', k) # {} BY <2>3, <2>5 DEF SlotOf
    <2>7. SizeOf(k)' = SizeOf(k) BY SizeSame
    <2>8. WholeDisk(k)' = WholeDisk(k) BY <2>7 DEF WholeDisk
    <2>9. WholeDisk(rows[s].dev)' = WholeDisk(rows[s].dev) BY <2>1, <2>2, <2>8 DEF WholeDisk
    <2>10. SlotOf(rows, rows[s].dev)' # {} BY <2>1, <2>2, <2>6
    <2> QED BY <1>1, <2>1, <2>9, <2>10 DEF RowOf
  <1>4. \A s, t \in Slots : rows'[s] # Free /\ rows'[s].name = rows'[t].name => s = t
    <2> SUFFICES ASSUME NEW s \in Slots, NEW t \in Slots, rows'[s] # Free,
                        rows'[s].name = rows'[t].name
                 PROVE  s = t
      OBVIOUS
    <2>1. rows'[s] = rows[s] BY <1>2
    <2>2. rows[s].name # Free.name BY <2>1 DEF DevInv
    <2>3. rows'[t] # Free BY <2>1, <2>2
    <2>4. rows'[t] = rows[t] BY <1>2, <2>3
    <2> QED BY <2>1, <2>4 DEF TreeInv
  <1> QED BY <1>1, <1>3, <1>4 DEF TreeInv

\* Registering a row keeps the names apart.
LEMMA RegisterUnique ==
    ASSUME DevInv, TreeInv, NEW r, r.name # Free.name, CanRegister(rows, r.name)
    PROVE  \E s \in Slots :
              /\ rows[s].name = r.name \/ (SlotOf(rows, r.name) = {} /\ rows[s].name = Free.name)
              /\ DOMAIN Register(rows, r) = Slots
              /\ \A t \in Slots : Register(rows, r)[t] = IF t = s THEN r ELSE rows[t]
              /\ \A t \in Slots : t # s => rows[t].name # r.name
  <1>1. PICK s \in Slots :
            /\ rows[s].name = r.name \/ (SlotOf(rows, r.name) = {} /\ rows[s].name = Free.name)
            /\ Register(rows, r) = [rows EXCEPT ![s] = r]
    BY RegisterPlace
  <1>2. DOMAIN rows = Slots BY DEF DevInv
  <1>3. DOMAIN Register(rows, r) = Slots
        /\ \A t \in Slots : Register(rows, r)[t] = IF t = s THEN r ELSE rows[t]
    BY <1>1, <1>2
  <1>4. ASSUME NEW t \in Slots, t # s, rows[t].name = r.name PROVE FALSE
    <2>1. rows[t] # Free BY <1>4
    <2>2. rows[s].name = r.name BY <1>1, <1>4 DEF SlotOf
    <2> QED BY <2>1, <2>2, <1>4 DEF TreeInv
  <1> QED BY <1>1, <1>3, <1>4

\* use registers the disk's own row, or detaches a disk that has none.
LEMMA TreeUse ==
    ASSUME DevInv, TreeInv, WholeDisks, NEW k \in Disks, NEW i \in Images, Use(k, i)
    PROVE  TreeInv'
  <1> DEFINE r == [name |-> k, dev |-> k, start |-> 0, size |-> OpenSize(i)]
  <1>1. op = Idle /\ len' = len /\ tag' = tag /\ \A d \in Attached \ {k} : key[d] # i
    BY DEF Use, Command, host
  <1>2. key \in [Disks -> Images \union {NoImage}] /\ i # NoImage BY ImagesAssumption DEF DevInv
  <1>3. k # Free.name BY NotOwnChild
  <1>4. CASE CanRegister(rows, k)
    <2>1. rows' = Register(rows, r) /\ op' = [pc |-> "attached", name |-> k]
          /\ key' = [key EXCEPT ![k] = i]
      BY <1>4 DEF Use
    <2>2. op'.pc = "attached" BY <2>1
    <2>3. r.name = k /\ r.dev = k OBVIOUS
    <2>4. Attached' = Attached \union {k} /\ \A d \in Disks : key'[d] = IF d = k THEN i ELSE key[d]
      BY <1>2, <2>1 DEF Attached
    <2>5. OpenSize(i)' = OpenSize(i) BY <1>1 DEF OpenSize, RawOpen, VhdOpen, VmdkOpen
    <2>6. SizeOf(k)' = OpenSize(i) BY <1>2, <2>4, <2>5 DEF SizeOf
    <2>7. r = WholeDisk(k)' BY <2>6 DEF WholeDisk
    <2> HIDE DEF r
    <2>8. PICK s \in Slots :
              /\ rows[s].name = k \/ (SlotOf(rows, k) = {} /\ rows[s].name = Free.name)
              /\ \A t \in Slots : rows'[t] = IF t = s THEN r ELSE rows[t]
              /\ \A t \in Slots : t # s => rows[t].name # k
      BY <2>1, <2>3, <1>3, <1>4, RegisterUnique
    <2>9. ASSUME NEW t \in Slots, rows'[t] # Free PROVE RowOf(t)'
      <3>1. CASE t = s
        <4>1. rows'[t] = r BY <3>1, <2>8
        <4>2. SlotOf(rows, k)' # {} BY <4>1, <2>3 DEF SlotOf
        <4>3. rows'[t].dev = k BY <4>1, <2>3
        <4>4. SlotOf(rows, rows[t].dev)' # {} BY <4>2, <4>3
        <4>5. rows'[t] = WholeDisk(rows[t].dev)' BY <4>1, <4>3, <2>7 DEF WholeDisk
        <4> QED BY <4>3, <4>4, <4>5, <2>4 DEF RowOf
      <3>2. CASE t # s
        <4>1. rows'[t] = rows[t] /\ RowOf(t) BY <3>2, <2>8, <2>9 DEF TreeInv
        <4>2. PICK e : e = rows[t].dev OBVIOUS
        <4>3. e \in Attached /\ SlotOf(rows, e) # {} BY <4>1, <4>2 DEF RowOf
        <4>4. PICK x \in Slots : rows[x].name = e BY <4>3 DEF SlotOf
        <4>5. e # Free.name BY <4>3, NotOwnChild DEF Attached
        <4>6. rows'[x].name = e
          <5>1. CASE x # s BY <5>1, <4>4, <2>8
          <5>2. CASE x = s
            <6>1. e = k BY <5>2, <4>4, <4>5, <2>8
            <6> QED BY <6>1, <5>2, <2>3, <2>8
          <5> QED BY <5>1, <5>2
        <4>7. SlotOf(rows', e) # {} BY <4>6 DEF SlotOf
        <4>8. ASSUME rows[t] = WholeDisk(e) PROVE rows[t] = WholeDisk(e)'
          <5>1. rows[t].name = e BY <4>8 DEF WholeDisk
          <5>2. e # k BY <5>1, <3>2, <2>8
          <5>3. key'[e] = key[e] BY <5>2, <4>3, <2>4 DEF Attached
          <5>4. SizeOf(e)' = SizeOf(e)
            BY <5>3, <1>1 DEF SizeOf, OpenSize, RawOpen, VhdOpen, VmdkOpen
          <5> QED BY <4>8, <5>4 DEF WholeDisk
        <4>9. WholeDisk(rows[t].dev)' = WholeDisk(e)' BY <4>1, <4>2 DEF WholeDisk
        <4>10. SlotOf(rows, rows[t].dev)' # {} BY <4>1, <4>2, <4>7
        <4> QED BY <4>1, <4>2, <4>3, <4>8, <4>9, <4>10, <2>4 DEF RowOf
      <3> QED BY <3>1, <3>2
    <2>10. \A x, t \in Slots : rows'[x] # Free /\ rows'[x].name = rows'[t].name => x = t
      BY <2>3, <2>8 DEF TreeInv
    <2>11. \A d, l \in Attached' : key'[d] = key'[l] => d = l
      BY <2>4, <1>1 DEF TreeInv, Attached
    <2> QED BY <2>2, <2>9, <2>10, <2>11 DEF TreeInv
  <1>5. CASE ~CanRegister(rows, k)
    <2>1. rows' = rows /\ op' = Idle /\ key' = [key EXCEPT ![k] = NoImage] BY <1>1, <1>5 DEF Use
    <2>2. op'.pc = "idle" BY <2>1 DEF Idle
    <2>3. SlotOf(rows, k) = {} BY <1>5 DEF CanRegister
    <2>4. Attached' = Attached \ {k} /\ \A d \in Disks : d # k => key'[d] = key[d]
      BY <1>2, <2>1 DEF Attached
    <2>5. ASSUME NEW t \in Slots, rows[t] # Free PROVE RowOf(t)'
      <3>1. RowOf(t) BY <2>5 DEF TreeInv
      <3>2. PICK e : e = rows[t].dev OBVIOUS
      <3>3. e \in Attached /\ e # k BY <2>3, <3>1, <3>2 DEF RowOf
      <3>4. key'[e] = key[e] BY <3>3, <2>4 DEF Attached
      <3>5. SizeOf(e)' = SizeOf(e)
        BY <3>4, <1>1 DEF SizeOf, OpenSize, RawOpen, VhdOpen, VmdkOpen
      <3>6. WholeDisk(e)' = WholeDisk(e) BY <3>5 DEF WholeDisk
      <3>7. WholeDisk(rows[t].dev)' = WholeDisk(rows[t].dev) BY <2>1, <3>2, <3>6 DEF WholeDisk
      <3>8. SlotOf(rows, rows[t].dev)' = SlotOf(rows, rows[t].dev) BY <2>1
      <3> QED BY <2>1, <2>4, <3>1, <3>2, <3>3, <3>7, <3>8 DEF RowOf
    <2>6. \A d, l \in Attached' : key'[d] = key'[l] => d = l
      BY <2>4 DEF TreeInv, Attached
    <2> QED BY <2>1, <2>2, <2>5, <2>6 DEF TreeInv
  <1> QED BY <1>4, <1>5

\* The row of the j-th partition of a disk.
Child(k, j, p) ==
    [name |-> <<k[1], <<j>>>>, dev |-> k, start |-> p[1], size |-> p[2] - p[1] + 1]

\* What register_child registers.
LEMMA ChildRegistered ==
    ASSUME DevInv, TreeInv, WholeDisks, RegisterChild
    PROVE  /\ op.pc = "scan" /\ op.name \in Attached /\ op.nth \in Nat \ {0}
           /\ op.nth <= Len(op.found)
           /\ rows' = Register(rows, Child(op.name, op.nth, op.found[op.nth]))
           /\ scanned' = IF CanRegister(rows, <<op.name[1], <<op.nth>>>>) THEN scanned
                         ELSE [scanned EXCEPT ![op.name]
                                 = SubSeq(@, 1, Min({Len(@), op.nth - 1}))]
           /\ op'.pc = "scan" /\ op'.name = op.name /\ op'.found = op.found
           /\ op'.nth = op.nth + 1
           /\ key' = key /\ disk' = disk /\ len' = len /\ tag' = tag /\ kept' = kept
  <1> DEFINE n == op.name
             p == op.found[op.nth]
             parent == RowNamed(rows, n)
             child == [name |-> <<n[1], Append(n[2], op.nth)>>, dev |-> parent.dev,
                       start |-> p[1], size |-> p[2] - p[1] + 1]
  <1>1. /\ op.pc = "scan" /\ op.nth <= Len(op.found) /\ rows' = Register(rows, child)
        /\ scanned' = IF CanRegister(rows, child.name) THEN scanned
                      ELSE [scanned EXCEPT ![n] = SubSeq(@, 1, Min({Len(@), op.nth - 1}))]
        /\ op' = [op EXCEPT !.nth = @ + 1] /\ key' = key
        /\ disk' = disk /\ len' = len /\ tag' = tag /\ kept' = kept
    BY DEF RegisterChild, host
  <1>2. Rescans BY <1>1 DEF Rescans
  <1>3. n \in Disks \union Targets /\ SlotOf(rows, n) # {} BY <1>2 DEF DevInv
  <1>4. n \in Attached /\ parent = WholeDisk(n) BY <1>3, NamedDisk
  <1>5. parent.dev = n BY <1>4 DEF WholeDisk
  <1>6. n[2] = <<>> BY <1>3 DEF WholeDisks
  <1>7. Append(n[2], op.nth) = <<op.nth>> BY <1>6
  <1>8. {"pc", "name", "found", "nth"} \subseteq DOMAIN op /\ op.nth \in Nat \ {0}
    BY <1>1 DEF DevInv, OpFields
  <1>9. op'.pc = "scan" /\ op'.name = n /\ op'.nth = op.nth + 1 /\ op'.found = op.found
    BY <1>1, <1>8
  <1> HIDE DEF p, parent
  <1>10. child = Child(n, op.nth, p) BY <1>5, <1>7 DEF Child
  <1>11. child.name = <<n[1], <<op.nth>>>> BY <1>7
  <1> HIDE DEF child, n
  <1> QED BY <1>1, <1>4, <1>8, <1>9, <1>10, <1>11 DEF n, p

\* A partition's name is no free row's.
LEMMA ChildNamed ==
    ASSUME NEW n \in Disks, NEW j, NEW p
    PROVE  Child(n, j, p).name # Free.name /\ Child(n, j, p).name = <<n[1], <<j>>>>
           /\ Child(n, j, p).dev = n /\ Child(n, j, p) # Free
  <1>1. n[1] \in {"a", "b"} /\ Free.name[1] = "free" BY NamesAssumption DEF Names, Free
  <1>2. Child(n, j, p).name = <<n[1], <<j>>>> /\ Child(n, j, p).dev = n BY DEF Child
  <1>3. Child(n, j, p).name # Free.name BY <1>1, <1>2
  <1> QED BY <1>2, <1>3

\* register_child adds a numbered partition of the disk scanned.
LEMMA TreeRegisterChild ==
    ASSUME DevInv, TreeInv, WholeDisks, RegisterChild
    PROVE  TreeInv'
  <1>1. PICK n : n = op.name OBVIOUS
  <1>2. PICK j : j = op.nth OBVIOUS
  <1> DEFINE r == Child(n, j, op.found[j])
  <1>3. /\ n \in Attached /\ j \in Nat \ {0} /\ rows' = Register(rows, r) /\ op'.pc = "scan"
        /\ key' = key /\ len' = len /\ tag' = tag
    BY <1>1, <1>2, ChildRegistered
  <1>4. n \in Disks BY <1>3 DEF Attached
  <1>5. r.name # Free.name /\ r.name = <<n[1], <<j>>>> /\ r.dev = n BY <1>4, ChildNamed
  <1> HIDE DEF r
  <1>6. Attached' = Attached BY <1>3 DEF Attached
  <1>7. \A e : SizeOf(e)' = SizeOf(e) BY <1>3, SizeSame
  <1>8. CASE ~CanRegister(rows, r.name)
    <2>1. rows' = rows BY <1>3, <1>8 DEF Register
    <2> QED BY <2>1, <1>3, <1>7, TreeSame
  <1>9. CASE CanRegister(rows, r.name)
    <2>1. PICK s \in Slots :
              /\ rows[s].name = r.name \/ (SlotOf(rows, r.name) = {} /\ rows[s].name = Free.name)
              /\ \A t \in Slots : rows'[t] = IF t = s THEN r ELSE rows[t]
              /\ \A t \in Slots : t # s => rows[t].name # r.name
      <3>1. \E s \in Slots :
              /\ rows[s].name = r.name \/ (SlotOf(rows, r.name) = {} /\ rows[s].name = Free.name)
              /\ DOMAIN Register(rows, r) = Slots
              /\ \A t \in Slots : Register(rows, r)[t] = IF t = s THEN r ELSE rows[t]
              /\ \A t \in Slots : t # s => rows[t].name # r.name
        BY <1>5, <1>9, RegisterUnique
      <3> QED BY <3>1, <1>3
    <2>2. ASSUME NEW e \in Disks, SlotOf(rows, e) # {} PROVE SlotOf(rows', e) # {}
      <3>1. PICK x \in Slots : rows[x].name = e BY <2>2 DEF SlotOf
      <3>2. x # s
        <4>1. e = <<e[1], <<>>>> /\ e # Free.name BY NameShape
        <4>2. r.name # <<n[1], <<>>>> BY <1>3, <1>5, NumberedName
        <4>3. e = r.name => e[1] = n[1] BY <1>5
        <4>4. e # r.name BY <4>1, <4>2, <4>3
        <4> QED BY <3>1, <4>1, <4>4, <2>1
      <3> QED BY <3>1, <3>2, <2>1 DEF SlotOf
    <2>3. SlotOf(rows, n) # {}
      <3>1. Rescans BY ChildRegistered DEF Rescans
      <3> QED BY <3>1, <1>1 DEF DevInv
    <2>4. ASSUME NEW t \in Slots, rows'[t] # Free PROVE RowOf(t)'
      <3>1. CASE t = s
        <4>1. rows'[t] = r BY <3>1, <2>1
        <4>2. SlotOf(rows', n) # {} BY <2>2, <2>3, <1>4
        <4>3. rows'[t].dev = n /\ rows'[t].name = <<n[1], <<j>>>> BY <4>1, <1>5
        <4>4. SlotOf(rows, rows[t].dev)' # {} BY <4>2, <4>3
        <4> QED BY <4>3, <4>4, <1>3, <1>6 DEF RowOf
      <3>2. CASE t # s
        <4>1. rows'[t] = rows[t] /\ RowOf(t) BY <3>2, <2>1, <2>4 DEF TreeInv
        <4>2. PICK e : e = rows[t].dev OBVIOUS
        <4>3. e \in Disks /\ SlotOf(rows, e) # {} BY <4>1, <4>2 DEF RowOf, Attached
        <4>4. SlotOf(rows', e) # {} BY <4>3, <2>2
        <4>5. WholeDisk(e)' = WholeDisk(e) BY <1>7 DEF WholeDisk
        <4>6. WholeDisk(rows[t].dev)' = WholeDisk(rows[t].dev) BY <4>1, <4>2, <4>5 DEF WholeDisk
        <4>7. SlotOf(rows, rows[t].dev)' # {} BY <4>1, <4>2, <4>4
        <4> QED BY <4>1, <4>6, <4>7, <1>6 DEF RowOf
      <3> QED BY <3>1, <3>2
    <2>5. \A x, t \in Slots : rows'[x] # Free /\ rows'[x].name = rows'[t].name => x = t
      BY <2>1 DEF TreeInv
    <2> QED BY <2>4, <2>5, <1>3, <1>6 DEF TreeInv
  <1> QED BY <1>8, <1>9

\* StartScan of a disk that has its row.
LEMMA TreeStartScan ==
    ASSUME DevInv, TreeInv, WholeDisks, NEW n \in Disks \union Targets, NEW found,
           SlotOf(rows, n) # {}, StartScan(rows, n, found), key' = key, len' = len, tag' = tag
    PROVE  TreeInv'
  <1>1. n \in Disks BY NamedDisk DEF Attached
  <1>2. rows' = RemoveChildren(rows, n) /\ op'.pc = "scan" BY DEF StartScan
  <1> QED BY <1>1, <1>2, TreeRemove

\* A step of a command that writes, or its end.
LEMMA TreeQuiet ==
    ASSUME TreeInv, rows' = rows, key' = key, len' = len, tag' = tag,
           \/ op'.pc \in {"idle", "scan"}
           \/ op.pc = "write" /\ {"pc", "name", "cmd", "todo", "key"} \subseteq DOMAIN op
              /\ op' = [op EXCEPT !.todo = Tail(@)]
    PROVE  TreeInv'
  <1>1. \A k \in Attached : SizeOf(k)' = SizeOf(k) BY SizeSame
  <1>2. CASE op'.pc \in {"idle", "scan"} BY <1>1, <1>2, TreeSame
  <1>3. CASE /\ op.pc = "write" /\ {"pc", "name", "cmd", "todo", "key"} \subseteq DOMAIN op
             /\ op' = [op EXCEPT !.todo = Tail(@)]
    <2>1. op'.pc = "write" /\ op'.key = op.key /\ op'.cmd = op.cmd /\ op'.name = op.name BY <1>3
    <2>2. op.key \in Attached /\ (op.cmd # "raw" => op.name = op.key) BY <1>3 DEF TreeInv
    <2> QED BY <1>1, <2>1, <2>2, TreeSame
  <1> QED BY <1>2, <1>3

\* The row that mbr, write and mount find is one of an attached image.
LEMMA OpenedRow ==
    ASSUME DevInv, TreeInv, NEW n, Opens(rows, n) # {}
    PROVE  \E s \in Slots : /\ VblkOpen(rows, n) = rows[s] /\ rows[s] # Free /\ RowOf(s)
                            /\ rows[s].dev \in Attached /\ (rows[s].name = n \/ rows[s].dev = n)
  <1>1. Opens(rows, n) \in SUBSET Nat BY DEF Opens, Slots
  <1>2. FirstOf(Opens(rows, n)) \in Opens(rows, n) BY <1>1, FirstMember
  <1>3. PICK s \in Slots : VblkOpen(rows, n) = rows[s] /\ s \in Opens(rows, n)
    BY <1>2 DEF Opens, VblkOpen
  <1>4. rows[s] # Free /\ (rows[s].name = n \/ rows[s].dev = n) BY <1>3 DEF Opens
  <1>5. RowOf(s) BY <1>4 DEF TreeInv
  <1>6. rows[s].dev \in Attached BY <1>5 DEF RowOf
  <1> QED BY <1>3, <1>4, <1>5, <1>6

\* gpt init, gpt add and write begin on an attached image.
LEMMA TreeWriteCommands ==
    ASSUME DevInv, TreeInv, WholeDisks,
           \/ \E n \in Targets : GptInit(n)
           \/ \E n \in Targets, req \in Requests : GptAdd(n, req)
           \/ \E n \in Parts, f \in HostFiles : RawWrite(n, f)
    PROVE  TreeInv'
  <1>1. ASSUME NEW n \in Targets, GptInit(n) PROVE TreeInv'
    <2>1. SlotOf(rows, n) # {} /\ rows' = rows /\ key' = key /\ len' = len /\ tag' = tag
      BY <1>1 DEF GptInit, host
    <2>2. op'.pc = "write" /\ op'.name = n /\ op'.key = RowNamed(rows, n).dev
      BY <1>1 DEF GptInit
    <2>3. n \in Attached /\ RowNamed(rows, n).dev = n BY <2>1, NamedDisk DEF WholeDisk
    <2>4. \A k \in Attached : SizeOf(k)' = SizeOf(k) BY <2>1, SizeSame
    <2> QED BY <2>1, <2>2, <2>3, <2>4, TreeSame
  <1>2. ASSUME NEW n \in Targets, NEW req \in Requests, GptAdd(n, req) PROVE TreeInv'
    <2>1. SlotOf(rows, n) # {} /\ rows' = rows /\ key' = key /\ len' = len /\ tag' = tag
      BY <1>2 DEF GptAdd, host
    <2>2. op'.pc = "write" /\ op'.name = n /\ op'.key = RowNamed(rows, n).dev
      BY <1>2 DEF GptAdd
    <2>3. n \in Attached /\ RowNamed(rows, n).dev = n BY <2>1, NamedDisk DEF WholeDisk
    <2>4. \A k \in Attached : SizeOf(k)' = SizeOf(k) BY <2>1, SizeSame
    <2> QED BY <2>1, <2>2, <2>3, <2>4, TreeSame
  <1>3. ASSUME NEW n \in Parts, NEW f \in HostFiles, RawWrite(n, f) PROVE TreeInv'
    <2>1. Opens(rows, n) # {} /\ rows' = rows /\ key' = key /\ len' = len /\ tag' = tag
      BY <1>3 DEF RawWrite, host
    <2>2. op'.pc = "write" /\ op'.cmd = "raw" /\ op'.key = VblkOpen(rows, n).dev
      BY <1>3 DEF RawWrite
    <2>3. VblkOpen(rows, n).dev \in Attached BY <2>1, OpenedRow
    <2>4. \A k \in Attached : SizeOf(k)' = SizeOf(k) BY <2>1, SizeSame
    <2> QED BY <2>1, <2>2, <2>3, <2>4, TreeSame
  <1> QED BY <1>1, <1>2, <1>3

\* create touches no attached image.
LEMMA TreeCreateStep ==
    ASSUME DevInv, ImageInv, TreeInv, CreateStep
    PROVE  TreeInv'
  <1> DEFINE i == op.image
             step == Head(op.todo)
  <1>1. op.pc = "create" /\ rows' = rows /\ key' = key
        /\ len' = (CASE step = "data" -> [len EXCEPT ![i] = 0]
                     [] step = "size" -> [len EXCEPT ![i] = op.size]
                     [] OTHER -> len)
        /\ tag' = (CASE step = "untag" \/ (step = "data" /\ Format[i] = "vhd")
                          -> [tag EXCEPT ![i] = 0]
                     [] step = "tag" -> [tag EXCEPT ![i] = op.size]
                     [] OTHER -> tag)
        /\ op' = IF Len(op.todo) = 1 THEN Idle ELSE [op EXCEPT !.todo = Tail(@)]
    BY DEF CreateStep
  <1>2. {"pc", "image", "size", "todo"} \subseteq DOMAIN op BY <1>1 DEF ImageInv
  <1>3. \A k \in Attached : key[k] # i BY <1>1 DEF TreeInv
  <1> HIDE DEF i, step
  <1>4. ASSUME NEW x \in Images, x # i PROVE len'[x] = len[x] /\ tag'[x] = tag[x]
    <2>1. len' \in {[len EXCEPT ![i] = 0], [len EXCEPT ![i] = op.size], len} BY <1>1
    <2>2. tag' \in {[tag EXCEPT ![i] = 0], [tag EXCEPT ![i] = op.size], tag} BY <1>1
    <2> QED BY <1>4, <2>1, <2>2 DEF ImageInv
  <1>5. ASSUME NEW k \in Attached PROVE SizeOf(k)' = SizeOf(k)
    <2>1. key[k] \in Images BY DEF DevInv, Attached
    <2>2. len'[key[k]] = len[key[k]] /\ tag'[key[k]] = tag[key[k]] BY <1>3, <1>4, <2>1
    <2>3. key'[k] = key[k] /\ Format[key[k]] \in {"raw", "vhd", "vmdk"}
      BY <1>1, <2>1, ImagesAssumption DEF Formats
    <2> QED BY <2>2, <2>3 DEF SizeOf, OpenSize, RawOpen, VhdOpen, VmdkOpen
  <1>6. op'.pc = "idle" \/ (op'.pc = "create" /\ op'.image = op.image)
    <2>1. CASE op' = Idle BY <2>1 DEF Idle
    <2>2. CASE op' = [op EXCEPT !.todo = Tail(@)] BY <2>2, <1>1, <1>2
    <2> QED BY <1>1, <2>1, <2>2
  <1> QED BY <1>1, <1>3, <1>5, <1>6, TreeSame DEF i

\* Every step keeps the rows a tree.
LEMMA TreeNext == WholeDisks /\ DevInv /\ ImageInv /\ TreeInv /\ [Next]_vars => TreeInv'
  <1> SUFFICES ASSUME WholeDisks, DevInv, ImageInv, TreeInv, [Next]_vars PROVE TreeInv' OBVIOUS
  <1>i. Idle.pc = "idle" BY DEF Idle
  <1>1. ASSUME NEW k \in Disks, NEW i \in Images, Use(k, i) PROVE TreeInv' BY <1>1, TreeUse
  <1>2. ASSUME AddDisk PROVE TreeInv'
    <2>1. Rescans BY <1>2 DEF AddDisk, Rescans
    <2>2. op.name \in Disks \union Targets /\ SlotOf(rows, op.name) # {} BY <2>1 DEF DevInv
    <2> QED BY <2>2, <1>2, TreeStartScan DEF AddDisk, host
  <1>3. ASSUME RegisterChild PROVE TreeInv' BY <1>3, TreeRegisterChild
  <1>4. ASSUME EndScan PROVE TreeInv' BY <1>4, <1>i, TreeQuiet DEF EndScan, host
  <1>5. ASSUME NEW n \in Targets, Partscan(n) PROVE TreeInv'
    BY <1>5, TreeStartScan DEF Partscan, host
  <1>6. ASSUME NEW n \in Targets, MbrInstall(n) PROVE TreeInv'
    BY <1>6, <1>i, TreeQuiet DEF MbrInstall, Command
  <1>7. ASSUME \/ \E n \in Targets : GptInit(n)
               \/ \E n \in Targets, req \in Requests : GptAdd(n, req)
               \/ \E n \in Parts, f \in HostFiles : RawWrite(n, f)
        PROVE  TreeInv'
    BY <1>7, TreeWriteCommands
  <1>f. op.pc = "write" => {"pc", "name", "cmd", "todo", "key"} \subseteq DOMAIN op
    BY DEF DevInv, OpFields
  <1>8. ASSUME WriteSector PROVE TreeInv' BY <1>8, <1>f, TreeQuiet DEF WriteSector
  <1>9. ASSUME WriteFails PROVE TreeInv' BY <1>9, <1>f, <1>i, TreeQuiet DEF WriteFails, host
  <1>10. ASSUME Written PROVE TreeInv'
    <2>1. Rescans BY <1>10 DEF Written, Rescans
    <2>2. op.name \in Disks \union Targets /\ SlotOf(rows, op.name) # {} BY <2>1 DEF DevInv
    <2> QED BY <2>2, <1>10, TreeStartScan DEF Written, host
  <1>11. ASSUME NEW i \in Images, NEW n \in Sizes, NEW mbr \in BOOLEAN, Create(i, n, mbr)
         PROVE  TreeInv'
    <2>1. op'.pc = "create" /\ op'.image = i /\ rows' = rows /\ key' = key
          /\ len' = len /\ tag' = tag /\ \A d \in Attached : key[d] # i
      BY <1>11 DEF Create, host
    <2>2. \A k \in Attached : SizeOf(k)' = SizeOf(k) BY <2>1, SizeSame
    <2> QED BY <2>1, <2>2, TreeSame
  <1>12. ASSUME CreateStep PROVE TreeInv' BY <1>12, TreeCreateStep
  <1>13. ASSUME CreateFails PROVE TreeInv' BY <1>13, <1>i, TreeQuiet DEF CreateFails, host
  <1>14. ASSUME RawWritten PROVE TreeInv' BY <1>14, <1>i, TreeQuiet DEF RawWritten, host
  <1>15. ASSUME NEW n \in Targets \union Parts, NEW m \in MountPoints, Mount(n, m) PROVE TreeInv'
    BY <1>15, <1>i, TreeQuiet DEF Mount, Command, host
  <1>16. ASSUME Crash PROVE TreeInv'
    <2>1. rows' = [s \in Slots |-> Free] /\ key' = [k \in Disks |-> NoImage] /\ op'.pc = "idle"
      BY <1>16, <1>i DEF Crash
    <2>2. Attached' = {} BY <2>1 DEF Attached
    <2>3. \A s \in Slots : rows'[s] = Free BY <2>1
    <2> QED BY <2>1, <2>2, <2>3 DEF TreeInv
  <1>17. ASSUME UNCHANGED vars PROVE TreeInv'
    <2>1. rows' = rows /\ key' = key /\ op' = op /\ len' = len /\ tag' = tag BY <1>17 DEF vars
    <2>2. \A k \in Attached : SizeOf(k)' = SizeOf(k) BY <2>1, SizeSame
    <2> QED BY <2>1, <2>2, TreeSame DEF TreeInv
  <1> QED BY <1>1, <1>2, <1>3, <1>4, <1>5, <1>6, <1>7, <1>8, <1>9, <1>10, <1>11, <1>12,
             <1>13, <1>14, <1>15, <1>16, <1>17 DEF Next

\* There are no rows at the start.
LEMMA TreeInit == Init => TreeInv
  <1> SUFFICES ASSUME Init PROVE TreeInv OBVIOUS
  <1>1. rows = [s \in Slots |-> Free] /\ key = [k \in Disks |-> NoImage] /\ op.pc = "idle"
    BY DEF Init, Idle
  <1>2. Attached = {} BY <1>1 DEF Attached
  <1> QED BY <1>1, <1>2 DEF TreeInv

------------------------------------------------------------------------------
(* Tables that hold what was kept                                            *)

\* Sector 0 holds no MBR, or the protective one: a scan goes on to the GPT.
MbrSafe(s) == s.body.kind = "mbr" => \E t \in Nat : t >= 4 /\ s.body = Protective(t).body

\* A table lies behind such a sector.  The smallest one, whose two copies share
\* their array, has no partition in it.
TableSafe(d) ==
    d[1].body.kind = "header" =>
        MbrSafe(d[0]) /\ (d[1].body.last = 1 => d[2].body.kind # "entries")

\* Both headers are there, and gpt add finds K in the primary header and in
\* the backup's array.
HasPrimary(d, T, K) == \E es \in Tables(T) : d[1].body = Primary(T, es) /\ K \subseteq Ranges(es)
HasBackup(d, T) == \E fs \in Tables(T) : d[T - 1].body = Backup(T, fs)
HasArray(d, T, K) == EntriesOf(d[T - 2]) \in Tables(T) /\ K \subseteq Ranges(EntriesOf(d[T - 2]))
Guard(d, T, K) ==
    T >= 6 /\ T <= MaxLba /\ HasPrimary(d, T, K) /\ HasBackup(d, T) /\ HasArray(d, T, K)
Guarded(d, K) == \E T \in Nat : Guard(d, T, K)

\* The images at the start have room for a table and are safe in that sense.
MediaTables == MaxLba >= 4 /\ \A i \in Images : TableSafe(Media[i])

\* Partitions have numbers: write is not given a whole disk.
PartNames == \A n \in Parts : n[2] # <<>>

\* The ranges a table in place may hold.
Insiders(d) == {p \in Nat \X Nat : 3 <= p[1] /\ p[1] <= p[2] /\ p[2] <= d[1].body.last}

ImagesSafe ==
    /\ DOMAIN kept = Images
    /\ \A i \in Images : TableSafe(disk[i]) /\ (kept[i] # {} => Guarded(disk[i], kept[i]))

\* The rows of partitions lie inside the table in place, unless the disk is
\* about to be scanned.
RowsInside ==
    \A k \in Attached : kept[key[k]] # {} /\ ~(op.pc = "attached" /\ op.name = k) =>
        \A s \in Slots : rows[s].dev = k /\ rows[s].name # k =>
            \E p \in Insiders(disk[key[k]]) :
                rows[s].start = p[1] /\ rows[s].size = p[2] - p[1] + 1

\* What a scan is going to register.
ScanSafe ==
    kept[key[op.name]] # {} => op.found \in Seq(Insiders(disk[key[op.name]]))

\* What write is going to overwrite.
RawSafe ==
    \E A : /\ op.todo \in Seq({Put(a, Data) : a \in A})
           /\ kept[key[op.key]] # {} => A \subseteq 3 .. disk[key[op.key]][1].body.last

\* How far gpt add has come, whatever it started from.
AddStage(d, T, new, todo) ==
    \/ todo = <<Put(2, EntriesSector(new)), Put(1, Body(Primary(T, new))),
                Put(T - 2, EntriesSector(new)), Put(T - 1, Body(Backup(T, new)))>>
    \/ todo = <<Put(1, Body(Primary(T, new))),
                Put(T - 2, EntriesSector(new)), Put(T - 1, Body(Backup(T, new)))>>
    \/ /\ todo = <<Put(T - 2, EntriesSector(new)), Put(T - 1, Body(Backup(T, new)))>>
       /\ d[1].body = Primary(T, new)
    \/ /\ todo \in {<<Put(T - 1, Body(Backup(T, new)))>>, << >>}
       /\ d[1].body = Primary(T, new) /\ EntriesOf(d[T - 2]) = new
AddSafe ==
    \E T \in Nat : \E new \in Tables(T) :
        /\ T >= 6 /\ T <= MaxLba
        /\ op.new = Ranges(new) /\ kept[key[op.key]] \subseteq Ranges(new)
        /\ HasPrimary(disk[key[op.key]], T, {}) /\ HasBackup(disk[key[op.key]], T)
        /\ AddStage(disk[key[op.key]], T, new, op.todo)

\* How far gpt init has come: the protective MBR and the array are there before
\* the header is.
InitStage(d, T, todo) ==
    LET c1 == TryPut(2, Blank)
        c2 == TryPut(T - 2, Blank)
        c3 == TryPut(1, Blank)
        c4 == TryPut(T - 1, Blank)
        m == Put(0, Protective(T))
        e1 == Put(2, Blank)
        h1 == Put(1, Body(Primary(T, NoEntries)))
        e2 == Put(T - 2, Blank)
        h2 == Put(T - 1, Body(Backup(T, NoEntries)))
    IN  \/ todo \in {<<c1, c2, c3, c4, m, e1, h1, e2, h2>>, <<c2, c3, c4, m, e1, h1, e2, h2>>,
                     <<c3, c4, m, e1, h1, e2, h2>>, <<c4, m, e1, h1, e2, h2>>,
                     <<m, e1, h1, e2, h2>>}
        \/ todo = <<e1, h1, e2, h2>> /\ MbrSafe(d[0])
        \/ todo = <<h1, e2, h2>> /\ MbrSafe(d[0]) /\ d[2].body.kind = "blank"
        \/ todo \in {<<e2, h2>>, <<h2>>, << >>}
InitSafe ==
    /\ kept[key[op.key]] = {} /\ op.new = {}
    /\ \E T \in Nat : T >= 4 /\ T <= MaxLba /\ InitStage(disk[key[op.key]], T, op.todo)

StepNames == {"untag", "tag", "data", "size", "mbr"}

\* create works on an image of which nothing is kept, and has no table in it
\* from the step that empties the file on.  The MBR, if any, comes last.
CreateSafe ==
    /\ op.image \in Images /\ kept[op.image] = {} /\ op.todo \in Seq(StepNames) /\ op.todo # << >>
    /\ \A j \in 1 .. Len(op.todo) : op.todo[j] = "mbr" => j = Len(op.todo)
    /\ (\A j \in 1 .. Len(op.todo) : op.todo[j] # "data") => disk[op.image][1].body.kind # "header"

OpSafe ==
    /\ op.pc = "scan" => ScanSafe
    /\ op.pc = "write" => \/ op.cmd = "raw" /\ RawSafe
                          \/ op.cmd = "add" /\ AddSafe
                          \/ op.cmd = "init" /\ InitSafe
    /\ op.pc = "create" => CreateSafe

\* The number of entries bounds the ranges.
LEMMA RangesFinite ==
    ASSUME NEW es \in Arrays
    PROVE  IsFiniteSet(Ranges(es)) /\ Ranges(es) \subseteq Nat \X Nat
  <1> DEFINE D == {x \in DOMAIN es : es[x] # Empty}
             f == [x \in D |-> es[x]]
  <1>1. DOMAIN es = 1 .. NumEntries /\ NumEntries \in Int BY BoundsAssumption DEF Arrays
  <1>2. IsFiniteSet(1 .. NumEntries) BY <1>1, FS_Interval
  <1>3. D \in SUBSET (1 .. NumEntries) BY <1>1
  <1>4. IsFiniteSet(D) BY <1>2, <1>3, FS_Subset
  <1>5. Ranges(es) = {es[x] : x \in D} BY DEF Ranges
  <1>6. f \in Surjection(D, Ranges(es)) BY <1>5 DEF Surjection
  <1>7. IsFiniteSet(Ranges(es)) BY <1>4, <1>6, FS_Surjection
  <1>8. \A x \in D : es[x] \in Nat \X Nat BY <1>1 DEF Arrays
  <1> QED BY <1>5, <1>7, <1>8

\* Sector 0 sends a scan to the GPT.
LEMMA SafeToGpt ==
    ASSUME ImageInv, DevInv, NEW k \in Disks, MbrSafe(disk[key[k]][0])
    PROVE  Scan(WholeDisk(k)) = Sorted(ScanGpt(WholeDisk(k)))
  <1> DEFINE r == WholeDisk(k)
  <1>1. Read(r, 0) = disk[key[k]][0].body BY WholeDiskFacts
  <1>2. CASE ~HasMbr(r)
    <2>1. ScanMbr(r) = <<>> BY <1>2, Zenon DEF ScanMbr
    <2> QED BY <2>1 DEF Scan, TakesMbr
  <1>3. CASE HasMbr(r)
    <2>1. Read(r, 0).kind = "mbr" BY <1>3 DEF HasMbr
    <2>2. PICK t \in Nat : t >= 4 /\ Read(r, 0) = Protective(t).body BY <1>1, <2>1 DEF MbrSafe
    <2> DEFINE q == [type |-> "ee", lba |-> 1, count |-> t - 1]
    <2>3. Read(r, 0).parts = <<q>> BY <2>2 DEF Protective, Mbr, Body
    <2>4. q.type = "ee" /\ q.count > 0 BY <2>2
    <2>5. q \in Range(<<q>>) BY DEF Range
    <2> HIDE DEF q
    <2>6. IsProtective(r) BY <1>3, <2>3, <2>4, <2>5 DEF IsProtective
    <2> QED BY <2>6 DEF Scan, TakesMbr
  <1> QED BY <1>2, <1>3

\* The last usable sector is the table's, whatever its entries.
LEMMA InsidersOf ==
    ASSUME NEW T \in Nat, NEW d, HasPrimary(d, T, {})
    PROVE  d[1].body.last = T - 3 /\ d[1].body.kind = "header"
           /\ \A es \in Tables(T) : Ranges(es) \subseteq Insiders(d)
  <1>1. PICK es \in Tables(T) : d[1].body = Primary(T, es) BY DEF HasPrimary
  <1>2. d[1].body.last = T - 3 /\ d[1].body.kind = "header" BY <1>1, HeaderFields
  <1>3. ASSUME NEW fs \in Tables(T), NEW p \in Ranges(fs) PROVE p \in Insiders(d)
    <2>1. fs \in Arrays BY DEF Tables
    <2>2. p \in Nat \X Nat BY <2>1, RangesFinite
    <2>3. 3 <= p[1] /\ p[1] <= p[2] /\ p[2] <= T - 3 BY DEF Tables
    <2> QED BY <1>2, <2>2, <2>3 DEF Insiders
  <1> QED BY <1>2, <1>3

\* A scan of a disk with a table in place finds ranges inside it.
LEMMA ScanInTable ==
    ASSUME ImageInv, DevInv, NEW k \in Disks, NEW T \in Nat, T >= 4,
           HasPrimary(disk[key[k]], T, {}), HasBackup(disk[key[k]], T),
           MbrSafe(disk[key[k]][0])
    PROVE  Scan(WholeDisk(k)) \in Seq(Insiders(disk[key[k]]))
  <1> DEFINE r == WholeDisk(k)
             d == disk[key[k]]
  <1>1. Scan(r) = Sorted(ScanGpt(r)) BY SafeToGpt
  <1>2. PICK es \in Tables(T) : d[1].body = Primary(T, es) BY DEF HasPrimary
  <1>3. PICK fs \in Tables(T) : d[T - 1].body = Backup(T, fs) BY DEF HasBackup
  <1>4. Read(r, 1) = Primary(T, es) /\ Read(r, T - 1) = Backup(T, fs)
    BY <1>2, <1>3, WholeDiskFacts
  <1>5. Ranges(es) \subseteq Insiders(d) /\ Ranges(fs) \subseteq Insiders(d) BY InsidersOf
  <1>6. IsFiniteSet(Ranges(es)) /\ IsFiniteSet(Ranges(fs))
    <2>1. es \in Arrays /\ fs \in Arrays BY DEF Tables
    <2> QED BY <2>1, RangesFinite
  <1> HIDE DEF r, d
  <1>7. Read(r, 1).backup = T - 1 /\ Read(r, 1).crc = es /\ Read(r, T - 1).crc = fs
    BY <1>4, HeaderFields
  <1>8. GptHeader(r) = {1} \/ GptHeader(r) = {T - 1} \/ GptHeader(r) = {}
    BY <1>7 DEF GptHeader
  <1>9. ScanGpt(r) \subseteq Ranges(es) \/ ScanGpt(r) \subseteq Ranges(fs)
    <2>1. CASE GptHeader(r) = {1}
      <3>1. ScanGpt(r) = {p \in Ranges(Read(r, 1).crc) : p[1] <= p[2] /\ p[2] < r.size}
        BY <2>1 DEF ScanGpt
      <3> QED BY <3>1, <1>7
    <2>2. CASE GptHeader(r) = {T - 1}
      <3>1. ScanGpt(r) = {p \in Ranges(Read(r, T - 1).crc) : p[1] <= p[2] /\ p[2] < r.size}
        BY <2>2 DEF ScanGpt
      <3> QED BY <3>1, <1>7
    <2>3. CASE GptHeader(r) = {}
      <3>1. ScanGpt(r) = {} BY <2>3 DEF ScanGpt
      <3> QED BY <3>1
    <2> QED BY <1>8, <2>1, <2>2, <2>3
  <1>10. IsFiniteSet(ScanGpt(r)) /\ ScanGpt(r) \subseteq Insiders(d)
    <2>1. CASE ScanGpt(r) \subseteq Ranges(es)
      <3>1. IsFiniteSet(ScanGpt(r)) BY <2>1, <1>6, FS_Subset
      <3> QED BY <3>1, <2>1, <1>5
    <2>2. CASE ScanGpt(r) \subseteq Ranges(fs)
      <3>1. IsFiniteSet(ScanGpt(r)) BY <2>2, <1>6, FS_Subset
      <3> QED BY <3>1, <2>2, <1>5
    <2> QED BY <1>9, <2>1, <2>2
  <1>11. ScanGpt(r) \in SUBSET (Int \X Int) BY <1>10 DEF Insiders
  <1>12. Sorted(ScanGpt(r)) \in Seq(ScanGpt(r)) BY <1>10, <1>11, SortedMember
  <1> QED BY <1>1, <1>10, <1>12 DEF r, d

\* The entries gpt add starts from: what is kept is among them, and they are a
\* table of the disk's size, or none can be read.
LEMMA BaseSafe ==
    ASSUME ImageInv, DevInv, ImagesSafe, NEW k \in Disks, CanAdd(WholeDisk(k))
    PROVE  /\ key[k] \in Images
           /\ kept[key[k]] \subseteq Ranges(AddBase(WholeDisk(k)))
           /\ \E T \in Nat :
                /\ T >= 4 /\ T <= SizeOf(k)
                /\ HasPrimary(disk[key[k]], T, {}) /\ HasBackup(disk[key[k]], T)
                /\ AddBase(WholeDisk(k)) \in Tables(T) \/ AddBase(WholeDisk(k)) = << >>
  <1> DEFINE r == WholeDisk(k)
             d == disk[key[k]]
             K == kept[key[k]]
  <1>1. key[k] \in Images BY BothHeaders
  <1>2. PICK T \in Nat : \E e1, f1 \in Tables(T) :
            /\ T >= 4 /\ T <= SizeOf(k)
            /\ d[1].body = Primary(T, e1) /\ d[T - 1].body = Backup(T, f1)
    BY BothHeaders
  <1>3. PICK es \in Tables(T) : \E f1 \in Tables(T) :
            d[1].body = Primary(T, es) /\ d[T - 1].body = Backup(T, f1)
    BY <1>2
  <1>4. PICK fs \in Tables(T) : d[1].body = Primary(T, es) /\ d[T - 1].body = Backup(T, fs)
    BY <1>3
  <1>5. SizeOf(k) \in 0 .. MaxLba /\ MaxLba \in Nat BY SizeBound, BoundsAssumption
  <1> DEFINE t == d[T - 2]
  <1>6. Read(r, 1) = Primary(T, es) /\ Read(r, T - 1) = Backup(T, fs) /\ Read(r, T - 2) = t.body
    BY <1>4, WholeDiskFacts
  <1> HIDE DEF r
  <1>7. Read(r, 1).crc = es /\ Read(r, 1).backup = T - 1 /\ Read(r, T - 1).entries = T - 2
        /\ d[1].body.kind = "header" /\ d[1].body.last = T - 3 /\ d[1].body.crc = es
    BY <1>4, <1>6, HeaderFields
  <1>8. AddBase(r) = IF EntriesMatch(r, 1) THEN es ELSE EntriesOf([body |-> t.body])
    BY <1>6, <1>7 DEF AddBase
  <1>9. EntriesOf([body |-> t.body]) = EntriesOf(t) BY DEF EntriesOf
  <1>10. HasPrimary(d, T, {}) /\ HasBackup(d, T)
    BY <1>4 DEF HasPrimary, HasBackup
  <1>11. K \subseteq Ranges(AddBase(r))
    <2>1. CASE K = {} BY <2>1
    <2>2. CASE K # {}
      <3>1. PICK U \in Nat : Guard(d, U, K) BY <1>1, <2>2 DEF ImagesSafe, Guarded
      <3>2. PICK e2 \in Tables(U) : d[1].body = Primary(U, e2) /\ K \subseteq Ranges(e2)
        BY <3>1 DEF Guard, HasPrimary
      <3>3. d[1].body.last = U - 3 /\ d[1].body.crc = e2 BY <3>2, HeaderFields
      <3>4. U = T /\ e2 = es BY <3>3, <1>7
      <3>5. K \subseteq Ranges(es) BY <3>2, <3>4
      <3>6. K \subseteq Ranges(EntriesOf(t)) BY <3>1, <3>4 DEF Guard, HasArray
      <3> HIDE DEF K, d, t
      <3> QED BY <3>5, <3>6, <1>8, <1>9
    <2> QED BY <2>1, <2>2
  <1>12. AddBase(r) \in Tables(T) \/ AddBase(r) = << >>
    <2>1. CASE EntriesMatch(r, 1) BY <2>1, <1>8
    <2>2. CASE ~EntriesMatch(r, 1)
      <3>1. AddBase(r) = EntriesOf(t) BY <2>2, <1>8, <1>9
      <3>2. T - 2 \in Lbas BY <1>2, <1>5 DEF Lbas
      <3>3. SectorOK(T - 2, t) BY <1>1, <3>2 DEF ImageInv
      <3>4. T = 4 => t.body.kind # "entries"
        <4>1. TableSafe(d) BY <1>1 DEF ImagesSafe
        <4> QED BY <4>1, <1>7 DEF TableSafe
      <3> HIDE DEF t
      <3>5. CASE t.body.kind = "entries"
        <4>1. T - 2 # 2 BY <3>4, <3>5
        <4>2. t.body.es \in Tables(T - 2 + 2) BY <3>3, <3>5, <4>1 DEF SectorOK
        <4>3. T - 2 + 2 = T OBVIOUS
        <4>4. EntriesOf(t) = t.body.es BY <3>5 DEF EntriesOf
        <4> QED BY <3>1, <4>2, <4>3, <4>4
      <3>6. CASE t.body.kind = "data"
        <4>1. EntriesOf(t) = << >> BY <3>6 DEF EntriesOf
        <4> QED BY <4>1, <3>1
      <3>7. CASE t.body.kind # "entries" /\ t.body.kind # "data"
        <4>1. EntriesOf(t) = NoEntries BY <3>7 DEF EntriesOf
        <4> QED BY <4>1, <3>1, NoEntriesTable
      <3> QED BY <3>5, <3>6, <3>7
    <2> QED BY <2>1, <2>2
  <1> HIDE DEF d, K
  <1>13. \E T1 \in Nat : /\ T1 >= 4 /\ T1 <= SizeOf(k) /\ HasPrimary(d, T1, {}) /\ HasBackup(d, T1)
                         /\ AddBase(r) \in Tables(T1) \/ AddBase(r) = << >>
    BY <1>2, <1>10, <1>12
  <1> QED BY <1>1, <1>11, <1>13 DEF d, K, r

\* Images that are safe in this sense have lost nothing.
LEMMA SafeLoses == ImageInv /\ DevInv /\ ImagesSafe => NothingLost
  <1> SUFFICES ASSUME ImageInv, DevInv, ImagesSafe, NEW k \in Attached, CanAdd(WholeDisk(k))
               PROVE  LET r == WholeDisk(k)
                      IN  /\ kept[key[k]] \subseteq Ranges(AddBase(r))
                          /\ \A p \in Ranges(AddBase(r)) :
                                /\ Read(r, 1).first <= p[1] /\ p[2] <= Read(r, 1).last
                                /\ \A q \in Ranges(AddBase(r)) : p # q => ~Overlap(p, q)
    BY DEF NothingLost
  <1> DEFINE r == WholeDisk(k)
             d == disk[key[k]]
  <1>1. k \in Disks BY DEF Attached
  <1>2. kept[key[k]] \subseteq Ranges(AddBase(r)) BY <1>1, BaseSafe
  <1>3. PICK T \in Nat : HasPrimary(d, T, {}) /\ (AddBase(r) \in Tables(T) \/ AddBase(r) = << >>)
    BY <1>1, BaseSafe
  <1>4. PICK es \in Tables(T) : d[1].body = Primary(T, es) BY <1>3 DEF HasPrimary
  <1>5. Read(r, 1) = Primary(T, es) BY <1>1, <1>4, WholeDiskFacts
  <1> HIDE DEF r
  <1>6. Read(r, 1).first = 3 /\ Read(r, 1).last = T - 3 BY <1>5, HeaderFields
  <1>7. CASE AddBase(r) \in Tables(T)
    <2>1. \A p \in Ranges(AddBase(r)) :
              /\ 3 <= p[1] /\ p[2] <= T - 3
              /\ \A q \in Ranges(AddBase(r)) : p # q => ~Overlap(p, q)
      BY <1>7 DEF Tables
    <2> QED BY <2>1, <1>2, <1>6 DEF r
  <1>8. CASE AddBase(r) = << >>
    <2>1. Ranges(AddBase(r)) = {} BY <1>8 DEF Ranges
    <2> QED BY <2>1, <1>2 DEF r
  <1> QED BY <1>3, <1>7, <1>8

\* What keeps the partitions of the last finished gpt add on every image.
SafeInv == ImagesSafe /\ RowsInside /\ OpSafe

\* A sector is written: what a table stands on must not be disturbed.
LEMMA SafePut ==
    ASSUME MaxLba >= 4, NEW d, DOMAIN d = Lbas, TableSafe(d), NEW a, NEW s, NEW d1,
           d1 = [d EXCEPT ![a] = s],
           a = 0 => MbrSafe(s),
           a = 1 /\ s.body.kind = "header" =>
               MbrSafe(d[0]) /\ (s.body.last = 1 => d[2].body.kind # "entries"),
           a = 2 /\ s.body.kind = "entries" => d[1].body.last # 1
    PROVE  TableSafe(d1)
  <1>1. {0, 1, 2} \subseteq Lbas BY BoundsAssumption DEF Lbas
  <1>2. CASE a = 0 BY <1>1, <1>2 DEF TableSafe
  <1>3. CASE a = 1 BY <1>1, <1>3 DEF TableSafe
  <1>4. CASE a = 2 BY <1>1, <1>4 DEF TableSafe
  <1>5. CASE a \notin {0, 1, 2} BY <1>1, <1>5 DEF TableSafe
  <1> QED BY <1>2, <1>3, <1>4, <1>5

\* Sectors without a table.
LEMMA PlainKinds ==
    /\ Blank.body.kind = "blank" /\ Data.body.kind = "data" /\ MbrSafe(Blank) /\ MbrSafe(Data)
    /\ \A t \in Nat : t >= 4 => MbrSafe(Protective(t)) /\ Protective(t).body.kind = "mbr"
  BY DEF Blank, Data, Body, MbrSafe, Protective, Mbr

\* The table is where it was when other sectors are written.
LEMMA GuardPut ==
    ASSUME NEW d, DOMAIN d = Lbas, NEW T \in Nat, NEW K, Guard(d, T, K), NEW a, NEW s, NEW d1,
           d1 = [d EXCEPT ![a] = s],
           a \notin {1, T - 2, T - 1}
    PROVE  Guard(d1, T, K) /\ d1[1] = d[1]
  <1>1. {1, T - 2, T - 1} \subseteq Lbas BY BoundsAssumption DEF Lbas, Guard
  <1>2. d1[1] = d[1] /\ d1[T - 2] = d[T - 2] /\ d1[T - 1] = d[T - 1] BY <1>1
  <1> QED BY <1>2 DEF Guard, HasPrimary, HasBackup, HasArray

\* A step that leaves the images and what is kept of them alone, and the rows.
LEMMA SafeSame ==
    ASSUME SafeInv, disk' = disk, kept' = kept, rows' = rows, key' = key,
           op.pc # "attached" \/ op' = op, OpSafe'
    PROVE  SafeInv'
  <1>1. ImagesSafe' BY DEF SafeInv, ImagesSafe
  <1>2. Attached' = Attached BY DEF Attached
  <1>3. RowsInside' BY <1>2 DEF SafeInv, RowsInside
  <1> QED BY <1>1, <1>3 DEF SafeInv

\* The end of a command.
LEMMA SafeIdle ==
    ASSUME SafeInv, disk' = disk, kept' = kept, rows' = rows, key' = key,
           op.pc # "attached", op'.pc = "idle"
    PROVE  SafeInv'
  <1>1. OpSafe' BY DEF OpSafe
  <1> QED BY <1>1, SafeSame

\* use attaches an image: no row of its partitions is relied on before the scan.
LEMMA SafeUse ==
    ASSUME DevInv, TreeInv, SafeInv, WholeDisks, NEW k \in Disks, NEW i \in Images, Use(k, i)
    PROVE  SafeInv'
  <1> DEFINE r == [name |-> k, dev |-> k, start |-> 0, size |-> OpenSize(i)]
  <1>1. op = Idle /\ disk' = disk /\ kept' = kept
    BY DEF Use, Command, host
  <1>2. op.pc = "idle" BY <1>1 DEF Idle
  <1>3. ImagesSafe' BY <1>1 DEF SafeInv, ImagesSafe
  <1>4. key \in [Disks -> Images \union {NoImage}] /\ i # NoImage BY ImagesAssumption DEF DevInv
  <1>5. CASE CanRegister(rows, k)
    <2>1. rows' = Register(rows, r) /\ op' = [pc |-> "attached", name |-> k]
          /\ key' = [key EXCEPT ![k] = i]
      BY <1>5 DEF Use
    <2>2. op'.pc = "attached" /\ op'.name = k BY <2>1
    <2>3. Attached' = Attached \union {k} /\ \A d \in Disks : d # k => key'[d] = key[d]
      BY <1>4, <2>1 DEF Attached
    <2>4. r.name = k /\ r.dev = k /\ k # Free.name BY NotOwnChild
    <2> HIDE DEF r
    <2>5. \A t \in Slots : rows'[t] = r \/ rows'[t] = rows[t]
      <3>1. DOMAIN rows = Slots BY DEF DevInv
      <3>2. \/ rows' = rows \/ \E s \in Slots : rows' = [rows EXCEPT ![s] = r]
        BY <2>1, RegisterAt
      <3> QED BY <3>1, <3>2
    <2>6. ASSUME NEW e \in Attached', e # k, kept'[key'[e]] # {}, NEW t \in Slots,
                 rows'[t].dev = e, rows'[t].name # e
          PROVE  \E p \in Insiders(disk'[key'[e]]) :
                    rows'[t].start = p[1] /\ rows'[t].size = p[2] - p[1] + 1
      <3>1. e \in Attached /\ key'[e] = key[e] BY <2>3, <2>6 DEF Attached
      <3>2. rows'[t] = rows[t] BY <2>4, <2>5, <2>6
      <3> QED BY <3>1, <3>2, <2>6, <1>1, <1>2 DEF SafeInv, RowsInside
    <2>7. RowsInside' BY <2>2, <2>6 DEF RowsInside
    <2>8. OpSafe' BY <2>2 DEF OpSafe
    <2> QED BY <1>3, <2>7, <2>8 DEF SafeInv
  <1>6. CASE ~CanRegister(rows, k)
    <2>1. rows' = rows /\ op' = op /\ key' = [key EXCEPT ![k] = NoImage] BY <1>6 DEF Use
    <2>2. Attached' = Attached \ {k} /\ \A d \in Disks : d # k => key'[d] = key[d]
      BY <1>4, <2>1 DEF Attached
    <2>3. \A d \in Attached' : d \in Attached /\ key'[d] = key[d] BY <2>2 DEF Attached
    <2>4. RowsInside' BY <2>1, <2>3, <1>1 DEF SafeInv, RowsInside
    <2>5. OpSafe' BY <2>1, <1>2 DEF OpSafe
    <2> QED BY <1>3, <2>4, <2>5 DEF SafeInv
  <1> QED BY <1>5, <1>6

\* A scan of a disk that has its row begins.
LEMMA SafeStartScan ==
    ASSUME DevInv, ImageInv, TreeInv, RowsInside, WholeDisks,
           NEW n \in Disks \union Targets, SlotOf(rows, n) # {},
           StartScan(rows, n, Scan(RowNamed(rows, n))),
           op.pc = "attached" => op.name = n,
           disk' = disk, len' = len, tag' = tag, key' = key, ImagesSafe',
           \A i \in Images : i # key[n] => kept'[i] = kept[i]
    PROVE  SafeInv'
  <1>1. n \in Attached /\ RowNamed(rows, n) = WholeDisk(n) BY NamedDisk
  <1>2. n \in Disks /\ key[n] \in Images BY <1>1 DEF Attached, DevInv
  <1>3. rows' = RemoveChildren(rows, n)
        /\ op' = [pc |-> "scan", name |-> n, found |-> Scan(WholeDisk(n)), nth |-> 1]
    BY <1>1 DEF StartScan
  <1>4. op'.pc = "scan" /\ op'.name = n /\ op'.found = Scan(WholeDisk(n)) BY <1>3
  <1>5. Attached' = Attached BY DEF Attached
  <1>6. \A s \in Slots : rows'[s] = IF ChildOf(rows[s].name, n) THEN Free ELSE rows[s]
    BY <1>3 DEF RemoveChildren
  <1>7. ASSUME NEW e \in Attached, kept'[key[e]] # {}, NEW t \in Slots,
               rows'[t].dev = e, rows'[t].name # e
        PROVE  \E p \in Insiders(disk[key[e]]) :
                  rows'[t].start = p[1] /\ rows'[t].size = p[2] - p[1] + 1
    <2>1. e \in Disks /\ key[e] \in Images BY DEF Attached, DevInv
    <2>2. rows'[t] # Free
      <3>1. e = <<e[1], <<>>>> /\ e[1] \in {"a", "b"} BY <2>1, NameShape
      <3>2. Free.dev[1] = "free" BY DEF Free
      <3> QED BY <3>1, <3>2, <1>7
    <2>3. rows'[t] = rows[t] /\ ~ChildOf(rows[t].name, n) BY <2>2, <1>6
    <2>4. e # n BY <2>3, <1>2, <1>7, ChildRow
    <2>5. key[e] # key[n] BY <2>4, <1>1 DEF TreeInv
    <2>6. kept[key[e]] # {} BY <2>1, <2>5, <1>7
    <2>7. ~(op.pc = "attached" /\ op.name = e) BY <2>4
    <2> QED BY <2>3, <2>6, <2>7, <1>7 DEF RowsInside
  <1>8. RowsInside' BY <1>5, <1>7 DEF RowsInside
  <1>9. ASSUME kept'[key[n]] # {} PROVE Scan(WholeDisk(n)) \in Seq(Insiders(disk[key[n]]))
    <2>1. TableSafe(disk[key[n]]) /\ Guarded(disk[key[n]], kept'[key[n]])
      BY <1>2, <1>9 DEF ImagesSafe
    <2>2. PICK T \in Nat : Guard(disk[key[n]], T, kept'[key[n]]) BY <2>1 DEF Guarded
    <2>3. T >= 4 /\ HasPrimary(disk[key[n]], T, {}) /\ HasBackup(disk[key[n]], T)
      BY <2>2 DEF Guard, HasPrimary
    <2>4. MbrSafe(disk[key[n]][0]) BY <2>1, <2>3, InsidersOf DEF TableSafe
    <2> QED BY <1>2, <2>3, <2>4, ScanInTable
  <1>10. ScanSafe' BY <1>4, <1>9 DEF ScanSafe
  <1>11. OpSafe' BY <1>4, <1>10 DEF OpSafe
  <1> QED BY <1>8, <1>11 DEF SafeInv

\* register_child adds a row inside the table the scan read.
LEMMA SafeRegisterChild ==
    ASSUME DevInv, TreeInv, SafeInv, WholeDisks, RegisterChild
    PROVE  SafeInv'
  <1>1. PICK n : n = op.name OBVIOUS
  <1>2. PICK j : j = op.nth OBVIOUS
  <1> DEFINE r == Child(n, j, op.found[j])
             I == Insiders(disk[key[n]])
  <1>3. /\ op.pc = "scan" /\ n \in Attached /\ j \in Nat \ {0} /\ j <= Len(op.found)
        /\ rows' = Register(rows, r)
        /\ op'.pc = "scan" /\ op'.name = n /\ op'.found = op.found
        /\ key' = key /\ disk' = disk /\ kept' = kept
    BY <1>1, <1>2, ChildRegistered
  <1>4. n \in Disks /\ DOMAIN rows = Slots BY <1>3 DEF Attached, DevInv
  <1>5. r.dev = n BY <1>4, ChildNamed
  <1>6. \A t \in Slots : rows'[t] = r \/ rows'[t] = rows[t]
    <2> HIDE DEF r
    <2>1. \/ rows' = rows \/ \E s \in Slots : rows' = [rows EXCEPT ![s] = r] BY <1>3, RegisterAt
    <2> QED BY <2>1, <1>4
  <1>7. ASSUME kept[key[n]] # {}
        PROVE  \E p \in I : r.start = p[1] /\ r.size = p[2] - p[1] + 1
    <2>1. op.found \in Seq(I) BY <1>1, <1>3, <1>7 DEF SafeInv, OpSafe, ScanSafe
    <2> HIDE DEF I
    <2>2. op.found[j] \in I BY <2>1, <1>3
    <2>3. r.start = op.found[j][1] /\ r.size = op.found[j][2] - op.found[j][1] + 1 BY DEF Child
    <2> QED BY <2>2, <2>3
  <1> HIDE DEF r
  <1>8. Attached' = Attached BY <1>3 DEF Attached
  <1>9. ASSUME NEW e \in Attached, kept[key[e]] # {}, NEW t \in Slots,
               rows'[t].dev = e, rows'[t].name # e
        PROVE  \E p \in Insiders(disk[key[e]]) :
                  rows'[t].start = p[1] /\ rows'[t].size = p[2] - p[1] + 1
    <2>1. CASE rows'[t] = r BY <2>1, <1>5, <1>7, <1>9
    <2>2. CASE rows'[t] = rows[t] BY <2>2, <1>3, <1>9 DEF SafeInv, RowsInside
    <2> QED BY <1>6, <2>1, <2>2
  <1>10. RowsInside' BY <1>3, <1>8, <1>9 DEF RowsInside
  <1>11. ImagesSafe' BY <1>3 DEF SafeInv, ImagesSafe
  <1>12. ScanSafe => ScanSafe' BY <1>1, <1>3 DEF ScanSafe
  <1>13. OpSafe' BY <1>3, <1>12 DEF SafeInv, OpSafe
  <1> QED BY <1>10, <1>11, <1>13 DEF SafeInv

\* What counts of a sector is its body.
LEMMA BodySafe ==
    ASSUME MaxLba >= 4, NEW d, NEW d1, \A a \in Lbas : d1[a].body = d[a].body
    PROVE  /\ TableSafe(d) => TableSafe(d1)
           /\ \A K : Guarded(d, K) => Guarded(d1, K)
           /\ d1[1].body.last = d[1].body.last
  <1>1. d1[0].body = d[0].body /\ d1[1].body = d[1].body /\ d1[2].body = d[2].body
    BY BoundsAssumption DEF Lbas
  <1>2. TableSafe(d) => TableSafe(d1) BY <1>1 DEF TableSafe, MbrSafe
  <1>3. ASSUME NEW K, Guarded(d, K) PROVE Guarded(d1, K)
    <2>1. PICK T \in Nat : Guard(d, T, K) BY <1>3 DEF Guarded
    <2>2. T >= 6 /\ T <= MaxLba BY <2>1 DEF Guard
    <2>3. d1[T - 1].body = d[T - 1].body /\ d1[T - 2].body = d[T - 2].body
      BY <2>2, BoundsAssumption DEF Lbas
    <2>4. EntriesOf(d1[T - 2]) = EntriesOf(d[T - 2]) BY <2>3 DEF EntriesOf
    <2>5. Guard(d1, T, K) BY <1>1, <2>1, <2>3, <2>4 DEF Guard, HasPrimary, HasBackup, HasArray
    <2> QED BY <2>5 DEF Guarded
  <1> QED BY <1>1, <1>2, <1>3

\* A table in place has one size.
LEMMA OneSize ==
    ASSUME NEW d, NEW T \in Nat, NEW U \in Nat, NEW K, HasPrimary(d, T, {}), HasPrimary(d, U, K)
    PROVE  U = T
  <1>1. HasPrimary(d, U, {}) BY DEF HasPrimary
  <1>2. d[1].body.last = T - 3 /\ d[1].body.last = U - 3 BY <1>1, InsidersOf
  <1> QED BY <1>2

\* One sector of gpt add is written.
LEMMA AddStageNext ==
    ASSUME NEW T \in Nat, T >= 6, T <= MaxLba, NEW new \in Tables(T), NEW d, DOMAIN d = Lbas,
           HasPrimary(d, T, {}), HasBackup(d, T), TableSafe(d),
           NEW K, K \subseteq Ranges(new), K # {} => Guard(d, T, K),
           NEW todo, todo # << >>, AddStage(d, T, new, todo),
           NEW d1, d1 = [d EXCEPT ![Head(todo).lba] = Head(todo).sector]
    PROVE  /\ HasPrimary(d1, T, {}) /\ HasBackup(d1, T) /\ TableSafe(d1)
           /\ K # {} => Guard(d1, T, K)
           /\ AddStage(d1, T, new, Tail(todo))
  <1> DEFINE w1 == Put(2, EntriesSector(new))
             w2 == Put(1, Body(Primary(T, new)))
             w3 == Put(T - 2, EntriesSector(new))
             w4 == Put(T - 1, Body(Backup(T, new)))
  <1>1. /\ w1.lba = 2 /\ w1.sector = EntriesSector(new)
        /\ w2.lba = 1 /\ w2.sector = Body(Primary(T, new))
        /\ w3.lba = T - 2 /\ w3.sector = EntriesSector(new)
        /\ w4.lba = T - 1 /\ w4.sector = Body(Backup(T, new))
    BY DEF Put
  <1>2. {0, 1, 2, T - 2, T - 1} \subseteq Lbas BY BoundsAssumption DEF Lbas
  <1>3. Body(Primary(T, new)).body = Primary(T, new) /\ Body(Backup(T, new)).body = Backup(T, new)
    BY DEF Body
  <1>4. d[1].body.last = T - 3 /\ d[1].body.kind = "header" BY InsidersOf
  <1>5. Primary(T, new).last = T - 3 /\ Primary(T, new).kind = "header" BY HeaderFields
  <1>6. MbrSafe(d[0]) BY <1>4 DEF TableSafe
  <1>8. EntriesOf(EntriesSector(new)) = new BY EntriesBack
  <1>w. \/ todo = <<w1, w2, w3, w4>>
        \/ todo = <<w2, w3, w4>>
        \/ todo = <<w3, w4>> /\ d[1].body = Primary(T, new)
        \/ todo = <<w4>> /\ d[1].body = Primary(T, new) /\ EntriesOf(d[T - 2]) = new
    BY DEF AddStage
  <1>g. Guard(d, T, K) => HasPrimary(d, T, K) /\ HasArray(d, T, K) BY DEF Guard
  <1>h. /\ HasPrimary(d1, T, K) /\ HasBackup(d1, T) /\ HasArray(d1, T, K) => Guard(d1, T, K)
        /\ d1[1].body = Primary(T, new) => HasPrimary(d1, T, {}) /\ HasPrimary(d1, T, K)
        /\ d1[T - 1].body = Backup(T, new) => HasBackup(d1, T)
        /\ EntriesOf(d1[T - 2]) = new => HasArray(d1, T, K)
        /\ d1[1] = d[1] => HasPrimary(d1, T, {}) /\ (HasPrimary(d, T, K) => HasPrimary(d1, T, K))
        /\ d1[T - 1] = d[T - 1] => HasBackup(d1, T)
        /\ d1[T - 2] = d[T - 2] => (HasArray(d, T, K) => HasArray(d1, T, K))
    BY DEF Guard, HasPrimary, HasBackup, HasArray
  <1> HIDE DEF w1, w2, w3, w4
  <1>9. CASE todo = <<w1, w2, w3, w4>>
    <2>1. Head(todo) = w1 /\ Tail(todo) = <<w2, w3, w4>> BY <1>9
    <2>2. d1 = [d EXCEPT ![2] = EntriesSector(new)] BY <2>1, <1>1
    <2>3. d1[1] = d[1] /\ d1[T - 1] = d[T - 1] /\ d1[T - 2] = d[T - 2] BY <2>2, <1>2
    <2>6. d1[0] = d[0] BY <2>2, <1>2
    <2>4. TableSafe(d1) BY <2>3, <2>6, <1>4 DEF TableSafe
    <2>5. AddStage(d1, T, new, Tail(todo)) BY <2>1 DEF AddStage, w2, w3, w4
    <2> QED BY <2>1, <2>3, <2>4, <2>5, <1>1, <1>g, <1>h
  <1>10. CASE todo = <<w2, w3, w4>>
    <2>1. Head(todo) = w2 /\ Tail(todo) = <<w3, w4>> BY <1>10
    <2>2. d1 = [d EXCEPT ![1] = Body(Primary(T, new))] BY <2>1, <1>1
    <2>3. d1[1].body = Primary(T, new) /\ d1[T - 1] = d[T - 1] /\ d1[T - 2] = d[T - 2]
      BY <2>2, <1>2, <1>3
    <2>4. d1[0] = d[0] BY <2>2, <1>2
    <2>5. TableSafe(d1) BY <2>3, <2>4, <1>5, <1>6 DEF TableSafe
    <2>6. AddStage(d1, T, new, Tail(todo)) BY <2>1, <2>3 DEF AddStage, w3, w4
    <2> QED BY <2>1, <2>3, <2>5, <2>6, <1>1, <1>4, <1>5, <1>g, <1>h
  <1>11. CASE todo = <<w3, w4>> /\ d[1].body = Primary(T, new)
    <2>1. Head(todo) = w3 /\ Tail(todo) = <<w4>> BY <1>11
    <2>2. d1 = [d EXCEPT ![T - 2] = EntriesSector(new)] BY <2>1, <1>1
    <2>3. d1[1] = d[1] /\ d1[T - 1] = d[T - 1] /\ EntriesOf(d1[T - 2]) = new
      BY <2>2, <1>2, <1>8
    <2>4. d1[0] = d[0] BY <2>2, <1>2
    <2>5. TableSafe(d1) BY <2>3, <2>4, <1>4 DEF TableSafe
    <2>6. AddStage(d1, T, new, Tail(todo)) BY <1>11, <2>1, <2>3 DEF AddStage, w4
    <2> QED BY <2>1, <2>3, <2>5, <2>6, <1>1, <1>g, <1>h
  <1>12. CASE todo = <<w4>> /\ d[1].body = Primary(T, new) /\ EntriesOf(d[T - 2]) = new
    <2>1. todo \in Seq({w4}) /\ Len(todo) = 1 /\ Head(todo) = w4 BY <1>12
    <2>2. Tail(todo) \in Seq({w4}) /\ Len(Tail(todo)) = 0 BY <2>1
    <2>3. Tail(todo) = << >> BY <2>2, EmptySeq
    <2>4. d1 = [d EXCEPT ![T - 1] = Body(Backup(T, new))] BY <2>1, <1>1
    <2>5. d1[1] = d[1] /\ d1[T - 2] = d[T - 2] /\ d1[T - 1].body = Backup(T, new)
      BY <2>4, <1>2, <1>3
    <2>6. d1[0] = d[0] BY <2>4, <1>2
    <2>7. TableSafe(d1) BY <2>5, <2>6, <1>4 DEF TableSafe
    <2>8. AddStage(d1, T, new, Tail(todo)) BY <1>12, <2>3, <2>5 DEF AddStage
    <2> QED BY <2>1, <2>5, <2>7, <2>8, <1>1, <1>g, <1>h
  <1> QED BY <1>w, <1>9, <1>10, <1>11, <1>12

\* One sector of gpt init is written.
LEMMA InitStageNext ==
    ASSUME NEW T \in Nat, T >= 4, T <= MaxLba, NEW d, DOMAIN d = Lbas, TableSafe(d),
           NEW todo, todo # << >>, InitStage(d, T, todo),
           NEW d1, d1 = [d EXCEPT ![Head(todo).lba] = Head(todo).sector]
    PROVE  TableSafe(d1) /\ InitStage(d1, T, Tail(todo))
  <1> DEFINE c1 == TryPut(2, Blank)
             c2 == TryPut(T - 2, Blank)
             c3 == TryPut(1, Blank)
             c4 == TryPut(T - 1, Blank)
             m == Put(0, Protective(T))
             e1 == Put(2, Blank)
             h1 == Put(1, Body(Primary(T, NoEntries)))
             e2 == Put(T - 2, Blank)
             h2 == Put(T - 1, Body(Backup(T, NoEntries)))
             rest == {<<e2, h2>>, <<h2>>, << >>}
             first == {<<c2, c3, c4, m, e1, h1, e2, h2>>, <<c3, c4, m, e1, h1, e2, h2>>,
                       <<c4, m, e1, h1, e2, h2>>, <<m, e1, h1, e2, h2>>}
  <1>1. /\ c1.lba = 2 /\ c2.lba = T - 2 /\ c3.lba = 1 /\ c4.lba = T - 1
        /\ c1.sector = Blank /\ c2.sector = Blank /\ c3.sector = Blank /\ c4.sector = Blank
        /\ m.lba = 0 /\ m.sector = Protective(T)
        /\ e1.lba = 2 /\ e1.sector = Blank
        /\ h1.lba = 1 /\ h1.sector = Body(Primary(T, NoEntries))
        /\ e2.lba = T - 2 /\ e2.sector = Blank
        /\ h2.lba = T - 1 /\ h2.sector = Body(Backup(T, NoEntries))
    BY DEF Put, TryPut
  <1>2. \A x, t : /\ t \in first \/ t \in rest => InitStage(x, T, t)
                  /\ t = <<e1, h1, e2, h2>> /\ MbrSafe(x[0]) => InitStage(x, T, t)
                  /\ t = <<h1, e2, h2>> /\ MbrSafe(x[0]) /\ x[2].body.kind = "blank"
                       => InitStage(x, T, t)
    BY DEF InitStage
  <1>3. \/ todo = <<c1, c2, c3, c4, m, e1, h1, e2, h2>>
        \/ todo = <<c2, c3, c4, m, e1, h1, e2, h2>>
        \/ todo = <<c3, c4, m, e1, h1, e2, h2>>
        \/ todo = <<c4, m, e1, h1, e2, h2>>
        \/ todo = <<m, e1, h1, e2, h2>>
        \/ todo = <<e1, h1, e2, h2>> /\ MbrSafe(d[0])
        \/ todo = <<h1, e2, h2>> /\ MbrSafe(d[0]) /\ d[2].body.kind = "blank"
        \/ todo = <<e2, h2>>
        \/ todo = <<h2>>
    BY DEF InitStage
  <1>4. {0, 1, 2} \subseteq Lbas /\ MaxLba >= 4 BY BoundsAssumption DEF Lbas
  <1>5. Blank.body.kind = "blank" /\ MbrSafe(Blank) /\ MbrSafe(Protective(T)) BY PlainKinds
  <1> HIDE DEF c1, c2, c3, c4, m, e1, h1, e2, h2
  <1>6. ASSUME d1 = [d EXCEPT ![Head(todo).lba] = Blank] PROVE TableSafe(d1)
    BY <1>4, <1>5, <1>6, SafePut
  <1>7. CASE todo = <<c1, c2, c3, c4, m, e1, h1, e2, h2>>
    <2>1. Head(todo) = c1 /\ Tail(todo) = <<c2, c3, c4, m, e1, h1, e2, h2>> BY <1>7
    <2>2. Tail(todo) \in first BY <2>1
    <2> QED BY <2>1, <2>2, <1>1, <1>2, <1>6
  <1>8. CASE todo = <<c2, c3, c4, m, e1, h1, e2, h2>>
    <2>1. Head(todo) = c2 /\ Tail(todo) = <<c3, c4, m, e1, h1, e2, h2>> BY <1>8
    <2>2. Tail(todo) \in first BY <2>1
    <2> QED BY <2>1, <2>2, <1>1, <1>2, <1>6
  <1>9. CASE todo = <<c3, c4, m, e1, h1, e2, h2>>
    <2>1. Head(todo) = c3 /\ Tail(todo) = <<c4, m, e1, h1, e2, h2>> BY <1>9
    <2>2. Tail(todo) \in first BY <2>1
    <2> QED BY <2>1, <2>2, <1>1, <1>2, <1>6
  <1>10. CASE todo = <<c4, m, e1, h1, e2, h2>>
    <2>1. Head(todo) = c4 /\ Tail(todo) = <<m, e1, h1, e2, h2>> BY <1>10
    <2>2. Tail(todo) \in first BY <2>1
    <2> QED BY <2>1, <2>2, <1>1, <1>2, <1>6
  <1>11. CASE todo = <<m, e1, h1, e2, h2>>
    <2>1. Head(todo) = m /\ Tail(todo) = <<e1, h1, e2, h2>> BY <1>11
    <2>2. d1 = [d EXCEPT ![0] = Protective(T)] BY <2>1, <1>1
    <2>3. d1[0] = Protective(T) BY <2>2, <1>4
    <2>4. TableSafe(d1) BY <2>2, <2>3, <1>4, <1>5 DEF TableSafe
    <2> QED BY <2>1, <2>3, <2>4, <1>1, <1>2, <1>5
  <1>12. CASE todo = <<e1, h1, e2, h2>> /\ MbrSafe(d[0])
    <2>1. Head(todo) = e1 /\ Tail(todo) = <<h1, e2, h2>> BY <1>12
    <2>2. d1 = [d EXCEPT ![2] = Blank] BY <2>1, <1>1
    <2>3. d1[0] = d[0] /\ d1[2] = Blank BY <2>2, <1>4
    <2>4. TableSafe(d1) BY <2>1, <1>1, <1>6
    <2> QED BY <2>1, <2>3, <2>4, <1>1, <1>2, <1>5, <1>12
  <1>13. CASE todo = <<h1, e2, h2>> /\ MbrSafe(d[0]) /\ d[2].body.kind = "blank"
    <2>1. Head(todo) = h1 /\ Tail(todo) = <<e2, h2>> BY <1>13
    <2>2. d1 = [d EXCEPT ![1] = Body(Primary(T, NoEntries))] BY <2>1, <1>1
    <2>3. TableSafe(d1) BY <2>2, <1>4, <1>13 DEF TableSafe
    <2>4. Tail(todo) \in rest BY <2>1
    <2> QED BY <2>1, <2>3, <2>4, <1>1, <1>2
  <1>14. CASE todo = <<e2, h2>>
    <2>1. Head(todo) = e2 /\ Tail(todo) = <<h2>> BY <1>14
    <2>2. Tail(todo) \in rest BY <2>1
    <2> QED BY <2>1, <2>2, <1>1, <1>2, <1>6
  <1>15. CASE todo = <<h2>>
    <2>1. todo \in Seq({h2}) /\ Len(todo) = 1 /\ Head(todo) = h2 BY <1>15
    <2>2. Tail(todo) \in Seq({h2}) /\ Len(Tail(todo)) = 0 BY <2>1
    <2>3. Tail(todo) = << >> BY <2>2, EmptySeq
    <2>4. d1 = [d EXCEPT ![T - 1] = Body(Backup(T, NoEntries))] BY <2>1, <1>1
    <2>5. TableSafe(d1)
      <3>1. d1[0] = d[0] /\ d1[1] = d[1] /\ d1[2] = d[2] BY <2>4, <1>4
      <3> QED BY <3>1 DEF TableSafe
    <2>6. Tail(todo) \in rest BY <2>3
    <2> QED BY <2>1, <2>5, <2>6, <1>1, <1>2
  <1> QED BY <1>3, <1>7, <1>8, <1>9, <1>10, <1>11, <1>12, <1>13, <1>14, <1>15

\* It goes on when it could not clear a sector.
LEMMA InitStageFails ==
    ASSUME NEW T, NEW d, NEW todo, todo # << >>, InitStage(d, T, todo), ~Head(todo).must
    PROVE  InitStage(d, T, Tail(todo))
  <1> DEFINE c1 == TryPut(2, Blank)
             c2 == TryPut(T - 2, Blank)
             c3 == TryPut(1, Blank)
             c4 == TryPut(T - 1, Blank)
             m == Put(0, Protective(T))
             e1 == Put(2, Blank)
             h1 == Put(1, Body(Primary(T, NoEntries)))
             e2 == Put(T - 2, Blank)
             h2 == Put(T - 1, Body(Backup(T, NoEntries)))
             first == {<<c2, c3, c4, m, e1, h1, e2, h2>>, <<c3, c4, m, e1, h1, e2, h2>>,
                       <<c4, m, e1, h1, e2, h2>>, <<m, e1, h1, e2, h2>>}
  <1>1. m.must = TRUE /\ e1.must = TRUE /\ h1.must = TRUE /\ e2.must = TRUE /\ h2.must = TRUE
    BY DEF Put
  <1>2. \A t \in first : InitStage(d, T, t) BY DEF InitStage
  <1>3. \/ todo = <<c1, c2, c3, c4, m, e1, h1, e2, h2>> \/ todo = <<c2, c3, c4, m, e1, h1, e2, h2>>
        \/ todo = <<c3, c4, m, e1, h1, e2, h2>> \/ todo = <<c4, m, e1, h1, e2, h2>>
        \/ todo = <<m, e1, h1, e2, h2>> \/ todo = <<e1, h1, e2, h2>>
        \/ todo = <<h1, e2, h2>> \/ todo = <<e2, h2>> \/ todo = <<h2>>
    BY DEF InitStage
  <1> HIDE DEF c1, c2, c3, c4, m, e1, h1, e2, h2
  <1>5. CASE todo = <<c1, c2, c3, c4, m, e1, h1, e2, h2>>
    <2>1. Tail(todo) = <<c2, c3, c4, m, e1, h1, e2, h2>> BY <1>5
    <2> QED BY <2>1, <1>2
  <1>6. CASE todo = <<c2, c3, c4, m, e1, h1, e2, h2>>
    <2>1. Tail(todo) = <<c3, c4, m, e1, h1, e2, h2>> BY <1>6
    <2> QED BY <2>1, <1>2
  <1>7. CASE todo = <<c3, c4, m, e1, h1, e2, h2>>
    <2>1. Tail(todo) = <<c4, m, e1, h1, e2, h2>> BY <1>7
    <2> QED BY <2>1, <1>2
  <1>8. CASE todo = <<c4, m, e1, h1, e2, h2>>
    <2>1. Tail(todo) = <<m, e1, h1, e2, h2>> BY <1>8
    <2> QED BY <2>1, <1>2
  <1>4. CASE \/ todo = <<m, e1, h1, e2, h2>> \/ todo = <<e1, h1, e2, h2>>
             \/ todo = <<h1, e2, h2>> \/ todo = <<e2, h2>> \/ todo = <<h2>>
    <2>1. Head(todo) \in {m, e1, h1, e2, h2} BY <1>4
    <2> QED BY <2>1, <1>1
  <1> QED BY <1>3, <1>4, <1>5, <1>6, <1>7, <1>8

\* A step that changes at most one image, and of what is kept at most that
\* image's, and takes no row away from under it.
LEMMA SafeStep ==
    ASSUME SafeInv, DevInv, rows' = rows, key' = key, op.pc # "attached",
           NEW j \in Images, DOMAIN kept' = Images,
           \A i \in Images : i # j => disk'[i] = disk[i] /\ kept'[i] = kept[i],
           TableSafe(disk'[j]),
           kept'[j] # {} => /\ Guarded(disk'[j], kept'[j]) /\ kept[j] # {}
                            /\ disk'[j][1].body.last = disk[j][1].body.last,
           OpSafe'
    PROVE  SafeInv'
  <1>1. ImagesSafe'
    <2>1. ASSUME NEW i \in Images
          PROVE  TableSafe(disk'[i]) /\ (kept'[i] # {} => Guarded(disk'[i], kept'[i]))
      BY DEF SafeInv, ImagesSafe
    <2> QED BY <2>1 DEF ImagesSafe
  <1>2. Attached' = Attached BY DEF Attached
  <1>3. ASSUME NEW k \in Attached, kept'[key[k]] # {}
        PROVE  kept[key[k]] # {} /\ Insiders(disk'[key[k]]) = Insiders(disk[key[k]])
    <2>1. key[k] \in Images BY DEF Attached, DevInv
    <2>2. CASE key[k] = j BY <1>3, <2>2 DEF Insiders
    <2>3. CASE key[k] # j BY <1>3, <2>1, <2>3
    <2> QED BY <2>2, <2>3
  <1>4. RowsInside' BY <1>2, <1>3 DEF SafeInv, RowsInside
  <1> QED BY <1>1, <1>4 DEF SafeInv

\* mbr install only touches the boot code of a sector.
LEMMA SafeMbrInstall ==
    ASSUME MaxLba >= 4, DevInv, ImageInv, TreeInv, SafeInv, NEW n, MbrInstall(n)
    PROVE  SafeInv'
  <1>1. PICK r : r = VblkOpen(rows, n) OBVIOUS
  <1>2. PICK j : j = key[r.dev] OBVIOUS
  <1>3. /\ op = Idle /\ op' = op /\ rows' = rows /\ key' = key /\ kept' = kept
        /\ Opens(rows, n) # {} /\ disk' = [disk EXCEPT ![j][r.start].boot = TRUE]
    BY <1>1, <1>2 DEF MbrInstall, Command
  <1>4. r.dev \in Attached BY <1>1, <1>3, OpenedRow
  <1>5. j \in Images BY <1>2, <1>4 DEF Attached, DevInv
  <1>6. DOMAIN disk = Images /\ DOMAIN disk[j] = Lbas
        /\ \A a \in Lbas : {"boot", "body"} \subseteq DOMAIN disk[j][a]
    BY <1>5 DEF ImageInv, SectorOK
  <1>7. disk'[j] = [disk[j] EXCEPT ![r.start].boot = TRUE]
        /\ \A i \in Images : i # j => disk'[i] = disk[i]
    BY <1>3, <1>5, <1>6
  <1>8. \A a \in Lbas : disk'[j][a].body = disk[j][a].body BY <1>6, <1>7
  <1>9. TableSafe(disk'[j]) /\ (\A K : Guarded(disk[j], K) => Guarded(disk'[j], K))
        /\ disk'[j][1].body.last = disk[j][1].body.last
    BY <1>5, <1>8, BodySafe DEF SafeInv, ImagesSafe
  <1>10. kept[j] # {} => Guarded(disk[j], kept[j]) BY <1>5 DEF SafeInv, ImagesSafe
  <1>11. op.pc = "idle" /\ op'.pc = "idle" BY <1>3 DEF Idle
  <1>12. OpSafe' BY <1>11 DEF OpSafe
  <1>13. DOMAIN kept' = Images BY <1>3 DEF SafeInv, ImagesSafe
  <1>14. kept'[j] # {} => /\ Guarded(disk'[j], kept'[j]) /\ kept[j] # {}
                          /\ disk'[j][1].body.last = disk[j][1].body.last
    BY <1>3, <1>9, <1>10
  <1>15. \A i \in Images : i # j => disk'[i] = disk[i] /\ kept'[i] = kept[i] BY <1>3, <1>7
  <1> QED BY <1>3, <1>5, <1>9, <1>11, <1>12, <1>13, <1>14, <1>15, SafeStep

\* What gpt init is going to write.
LEMMA InitWritesStage ==
    ASSUME NEW T \in Nat, T >= 4, NEW d
    PROVE  InitStage(d, T, InitWrites(T))
  <1> DEFINE c == <<TryPut(2, Blank), TryPut(T - 2, Blank), TryPut(1, Blank),
                    TryPut(T - 1, Blank), Put(0, Protective(T))>>
             w == <<Put(2, Blank), Put(1, Body(Primary(T, NoEntries))),
                    Put(T - 2, Blank), Put(T - 1, Body(Backup(T, NoEntries)))>>
  <1>1. InitWrites(T) = c \o WriteBoth(Primary(T, NoEntries), Backup(T, NoEntries), NoEntries)
    BY DEF InitWrites, Primary, Backup
  <1>2. EntriesSector(NoEntries) = Blank BY DEF EntriesSector
  <1>3. NoEntries \in Tables(T) BY NoEntriesTable
  <1>4. WriteBoth(Primary(T, NoEntries), Backup(T, NoEntries), NoEntries)
          = <<Put(2, EntriesSector(NoEntries)), Put(1, Body(Primary(T, NoEntries))),
              Put(T - 2, EntriesSector(NoEntries)), Put(T - 1, Body(Backup(T, NoEntries)))>>
    BY <1>3, WriteBothOK
  <1>5. InitWrites(T) = c \o w BY <1>1, <1>2, <1>4
  <1>6. ASSUME NEW x1, NEW x2, NEW x3, NEW x4, NEW x5, NEW y1, NEW y2, NEW y3, NEW y4
        PROVE  <<x1, x2, x3, x4, x5>> \o <<y1, y2, y3, y4>>
                 = <<x1, x2, x3, x4, x5, y1, y2, y3, y4>>
    <2> DEFINE S == {x1, x2, x3, x4, x5, y1, y2, y3, y4}
               u == <<x1, x2, x3, x4, x5>>
               v == <<y1, y2, y3, y4>>
               x == <<x1, x2, x3, x4, x5, y1, y2, y3, y4>>
    <2>1. u \in Seq(S) /\ v \in Seq(S) /\ x \in Seq(S) OBVIOUS
    <2>2. Len(u) = 5 /\ Len(v) = 4 /\ Len(x) = 9 OBVIOUS
    <2>3. /\ u[1] = x[1] /\ u[2] = x[2] /\ u[3] = x[3] /\ u[4] = x[4] /\ u[5] = x[5]
          /\ v[1] = x[6] /\ v[2] = x[7] /\ v[3] = x[8] /\ v[4] = x[9]
      OBVIOUS
    <2> HIDE DEF S, u, v, x
    <2>4. /\ u \o v \in Seq(S) /\ Len(u \o v) = Len(u) + Len(v)
          /\ \A i \in 1 .. Len(u) + Len(v) :
               (u \o v)[i] = IF i <= Len(u) THEN u[i] ELSE v[i - Len(u)]
      BY <2>1, ConcatProperties
    <2>5. Len(u \o v) = 9 /\ \A i \in 1 .. 9 : (u \o v)[i] = IF i <= 5 THEN u[i] ELSE v[i - 5]
      BY <2>2, <2>4
    <2>6. ASSUME NEW i \in 1 .. 9 PROVE (u \o v)[i] = x[i]
      <3>1. CASE i <= 5
        <4>1. i \in {1, 2, 3, 4, 5} BY <3>1
        <4>2. (u \o v)[i] = u[i] BY <3>1, <2>5
        <4> QED BY <4>1, <4>2, <2>3
      <3>2. CASE ~(i <= 5)
        <4>1. i \in {6, 7, 8, 9} BY <3>2
        <4>2. (u \o v)[i] = v[i - 5] BY <3>2, <2>5
        <4> QED BY <4>1, <4>2, <2>3
      <3> QED BY <3>1, <3>2
    <2>7. u \o v = x BY <2>1, <2>2, <2>4, <2>5, <2>6, SeqEqual
    <2> QED BY <2>7 DEF u, v, x
  <1>7. c \o w = <<TryPut(2, Blank), TryPut(T - 2, Blank), TryPut(1, Blank),
                   TryPut(T - 1, Blank), Put(0, Protective(T)),
                   Put(2, Blank), Put(1, Body(Primary(T, NoEntries))),
                   Put(T - 2, Blank), Put(T - 1, Body(Backup(T, NoEntries)))>>
    BY <1>6
  <1> QED BY <1>5, <1>7 DEF InitStage

\* gpt init begins: nothing is kept of the image from here on.
LEMMA SafeGptInit ==
    ASSUME WholeDisks, DevInv, ImageInv, TreeInv, SafeInv, NEW n \in Targets, GptInit(n)
    PROVE  SafeInv'
  <1>1. PICK k : k = RowNamed(rows, n).dev OBVIOUS
  <1>2. PICK T : T = SizeOf(k) OBVIOUS
  <1>3. /\ op = Idle /\ SlotOf(rows, n) # {} /\ T >= 4
        /\ kept' = [kept EXCEPT ![key[k]] = {}]
        /\ op' = [pc |-> "write", cmd |-> "init", name |-> n, key |-> k,
                  todo |-> InitWrites(T), old |-> {}, new |-> {}, clean |-> FALSE]
        /\ disk' = disk /\ key' = key /\ rows' = rows
    BY <1>1, <1>2 DEF GptInit, host, Command
  <1>4. k \in Attached /\ k \in Disks
    <2>1. n \in Attached /\ RowNamed(rows, n) = WholeDisk(n) BY <1>3, NamedDisk
    <2> QED BY <2>1, <1>1 DEF WholeDisk, Attached
  <1>5. T \in Nat /\ T <= MaxLba BY <1>2, <1>4, SizeBound, BoundsAssumption
  <1>6. PICK j \in Images : j = key[k] BY <1>4 DEF Attached, DevInv
  <1>7. DOMAIN kept = Images /\ TableSafe(disk[j]) BY <1>6 DEF SafeInv, ImagesSafe
  <1>8. DOMAIN kept' = Images /\ kept'[j] = {} /\ \A i \in Images : i # j => kept'[i] = kept[i]
    BY <1>3, <1>6, <1>7
  <1>9. op'.pc = "write" /\ op'.cmd = "init" /\ op'.key = k /\ op'.todo = InitWrites(T)
        /\ op'.new = {}
    BY <1>3
  <1>10. InitStage(disk'[j], T, op'.todo) BY <1>3, <1>5, <1>9, InitWritesStage
  <1>11. InitSafe' BY <1>3, <1>5, <1>6, <1>8, <1>9, <1>10 DEF InitSafe
  <1>12. OpSafe' BY <1>9, <1>11 DEF OpSafe
  <1>13. op.pc = "idle" BY <1>3 DEF Idle
  <1> QED BY <1>3, <1>7, <1>8, <1>12, <1>13, SafeStep

\* gpt add begins from entries that hold what is kept.
LEMMA SafeGptAdd ==
    ASSUME WholeDisks, OptionsOK, DevInv, ImageInv, TreeInv, SafeInv,
           NEW n \in Targets, NEW req \in Requests, GptAdd(n, req)
    PROVE  SafeInv'
  <1>0. PICK k : k = RowNamed(rows, n).dev OBVIOUS
  <1> DEFINE r == WholeDisk(k)
             d == disk[key[k]]
             p == Requested(Read(r, 1), req)
             es == AddBase(r)
             e == FirstOf(Vacant(es))
             new == [es EXCEPT ![e] = p]
  <1>1. /\ op = Idle /\ SlotOf(rows, n) # {} /\ CanAdd(r) /\ p[1] <= p[2]
        /\ \A q \in Ranges(es) : ~Overlap(p, q)
        /\ Vacant(es) # {}
        /\ op' = [pc |-> "write", cmd |-> "add", name |-> n, key |-> k,
                  todo |-> WriteBoth(Read(r, 1), Read(r, Read(r, 1).backup), new),
                  old |-> ScanGpt(r), new |-> Ranges(new), clean |-> Clean(r)]
        /\ disk' = disk /\ key' = key /\ rows' = rows /\ kept' = kept
    BY <1>0 DEF GptAdd, host, Command
  <1>2. k \in Disks BY <1>0, <1>1, NamedDevice
  <1>3. ImagesSafe BY DEF SafeInv
  <1>4. kept[key[k]] \subseteq Ranges(es) BY <1>1, <1>2, <1>3, BaseSafe
  <1>5. PICK T \in Nat : /\ T >= 4 /\ T <= SizeOf(k)
                         /\ HasPrimary(d, T, {}) /\ HasBackup(d, T)
                         /\ es \in Tables(T) \/ es = << >>
    BY <1>1, <1>2, <1>3, BaseSafe
  <1>6. es \in Tables(T)
    <2>1. Vacant(<< >>) = {} BY DEF Vacant
    <2> QED BY <2>1, <1>1, <1>5
  <1>7. PICK e1 \in Tables(T) : d[1].body = Primary(T, e1) BY <1>5 DEF HasPrimary
  <1>8. PICK f1 \in Tables(T) : d[T - 1].body = Backup(T, f1) BY <1>5 DEF HasBackup
  <1>9. Read(r, 1) = Primary(T, e1) /\ Read(r, T - 1) = Backup(T, f1)
    BY <1>2, <1>7, <1>8, WholeDiskFacts
  <1>10. Read(r, 1).first = 3 /\ Read(r, 1).last = T - 3 /\ Read(r, 1).backup = T - 1
    BY <1>9, HeaderFields
  <1>11. p = <<p[1], p[2]>> /\ p[1] \in Int /\ p[2] \in Int /\ 3 <= p[1] /\ p[2] <= T - 3
    BY <1>10, RequestedInside
  <1>12. T >= 6 /\ p \in Nat \X Nat BY <1>1, <1>11
  <1> HIDE DEF p, es
  <1>13. e \in 1 .. NumEntries /\ es[e] = Empty
    <2>1. DOMAIN es = 1 .. NumEntries BY <1>6 DEF Tables, Arrays
    <2>2. Vacant(es) \in SUBSET Nat BY <2>1 DEF Vacant
    <2>3. e \in Vacant(es) BY <1>1, <2>2, FirstMember
    <2> QED BY <2>1, <2>3 DEF Vacant
  <1>14. new \in Tables(T) /\ Ranges(new) = Ranges(es) \union {p}
    <2> HIDE DEF e
    <2>1. PICK x : x = es OBVIOUS
    <2>2. PICK b : b = e OBVIOUS
    <2>3. PICK q : q = p OBVIOUS
    <2>4. x \in Tables(T) /\ b \in 1 .. NumEntries /\ x[b] = Empty BY <1>6, <1>13, <2>1, <2>2
    <2>5. q \in Nat \X Nat /\ 3 <= q[1] /\ q[1] <= q[2] /\ q[2] <= T - 3
      BY <1>1, <1>11, <1>12, <2>3
    <2>6. \A y \in Ranges(x) : ~Overlap(q, y) BY <1>1, <2>1, <2>3
    <2>7. [x EXCEPT ![b] = q] \in Tables(T) BY <2>4, <2>5, <2>6, TableGrows
    <2>8. Ranges([x EXCEPT ![b] = q]) = Ranges(x) \union {q} BY <2>4, <2>5, <2>6, TableGrows
    <2> QED BY <2>1, <2>2, <2>3, <2>7, <2>8
  <1> DEFINE W == <<Put(2, EntriesSector(new)), Put(1, Body(Primary(T, new))),
                    Put(T - 2, EntriesSector(new)), Put(T - 1, Body(Backup(T, new)))>>
  <1>15. WriteBoth(Primary(T, e1), Backup(T, f1), new) = W BY <1>5, <1>14, WriteBothOK
  <1> HIDE DEF new, W, r
  <1>16. op'.pc = "write" /\ op'.cmd = "add" /\ op'.key = k /\ op'.new = Ranges(new)
    BY <1>1
  <1>17. op'.todo = W BY <1>1, <1>9, <1>10, <1>15
  <1>18. AddStage(d, T, new, W) BY DEF AddStage, W
  <1>19. SizeOf(k) \in 0 .. MaxLba BY <1>2, SizeBound
  <1>20. T <= MaxLba BY <1>5, <1>19, BoundsAssumption
  <1>21. kept[key[k]] \subseteq Ranges(new) BY <1>4, <1>14
  <1>22. AddSafe'
    <2>1. key'[op'.key] = key[k] /\ disk'[key'[op'.key]] = d BY <1>1, <1>16
    <2>2. /\ T >= 6 /\ T <= MaxLba
          /\ op'.new = Ranges(new) /\ kept'[key'[op'.key]] \subseteq Ranges(new)
          /\ HasPrimary(disk'[key'[op'.key]], T, {}) /\ HasBackup(disk'[key'[op'.key]], T)
          /\ AddStage(disk'[key'[op'.key]], T, new, op'.todo)
      BY <1>1, <1>5, <1>12, <1>16, <1>17, <1>18, <1>20, <1>21, <2>1
    <2> QED BY <1>14, <2>2 DEF AddSafe
  <1>23. OpSafe' BY <1>16, <1>22 DEF OpSafe
  <1>24. op.pc = "idle" BY <1>1 DEF Idle
  <1> QED BY <1>1, <1>23, <1>24, SafeSame

\* write is given a partition: it stays between the two copies of the table.
LEMMA SafeRawWrite ==
    ASSUME WholeDisks, PartNames, OptionsOK, DevInv, TreeInv, SafeInv,
           NEW n \in Parts, NEW f \in HostFiles, RawWrite(n, f)
    PROVE  SafeInv'
  <1>1. PICK r : r = VblkOpen(rows, n) OBVIOUS
  <1> DEFINE d == disk[key[r.dev]]
             at(j) == r.start + f.at + j - 1
             A == {at(j) : j \in 1 .. f.len}
             S == {Put(a, Data) : a \in A}
             todo == [j \in 1 .. f.len |-> Put(at(j), Data)]
  <1>2. /\ op = Idle /\ Opens(rows, n) # {} /\ f.at <= r.size /\ f.len <= r.size - f.at
        /\ op' = [pc |-> "write", cmd |-> "raw", name |-> n, key |-> r.dev,
                  todo |-> todo, old |-> {}, new |-> {}, clean |-> FALSE]
        /\ disk' = disk /\ key' = key /\ rows' = rows /\ kept' = kept
    BY <1>1 DEF RawWrite, host, Command
  <1>3. f.at \in Nat /\ f.len \in Nat BY DEF OptionsOK
  <1>4. PICK s \in Slots : r = rows[s] /\ rows[s].dev \in Attached
                           /\ (rows[s].name = n \/ rows[s].dev = n)
    BY <1>1, <1>2, OpenedRow
  <1>5. rows[s].name # rows[s].dev
    <2>1. rows[s].dev[2] = <<>> BY <1>4 DEF Attached, WholeDisks
    <2>2. n[2] # <<>> BY DEF PartNames
    <2> QED BY <2>1, <2>2, <1>4
  <1>6. op.pc = "idle" BY <1>2 DEF Idle
  <1>7. ASSUME kept[key[r.dev]] # {} PROVE A \subseteq 3 .. d[1].body.last
    <2>1. PICK p \in Insiders(d) : r.start = p[1] /\ r.size = p[2] - p[1] + 1
      BY <1>4, <1>5, <1>6, <1>7 DEF SafeInv, RowsInside
    <2>2. PICK last : last = d[1].body.last OBVIOUS
    <2>3. last \in Int
      <3>1. key[r.dev] \in Images BY <1>4 DEF Attached, DevInv
      <3>2. PICK T \in Nat : Guard(d, T, kept[key[r.dev]])
        BY <3>1, <1>7 DEF SafeInv, ImagesSafe, Guarded
      <3>3. HasPrimary(d, T, {}) BY <3>2 DEF Guard, HasPrimary
      <3> QED BY <3>3, <2>2, InsidersOf
    <2>4. p[1] \in Nat /\ p[2] \in Nat /\ 3 <= p[1] /\ p[2] <= last BY <2>1, <2>2 DEF Insiders
    <2>5. ASSUME NEW j \in 1 .. f.len PROVE at(j) \in 3 .. last
      <3> HIDE DEF d
      <3>1. PICK lo \in Nat, hi \in Nat : lo = p[1] /\ hi = p[2] BY <2>4
      <3>2. r.start = lo /\ r.size = hi - lo + 1 /\ 3 <= lo /\ hi <= last BY <2>1, <2>4, <3>1
      <3>3. f.at + f.len <= hi - lo + 1 BY <1>2, <1>3, <3>2
      <3>4. lo + f.at + j - 1 \in 3 .. last BY <1>3, <2>3, <3>2, <3>3
      <3> QED BY <3>2, <3>4
    <2> HIDE DEF at, d
    <2> QED BY <2>2, <2>5
  <1> HIDE DEF at
  <1>8. todo \in Seq(S)
    <2>1. todo \in [1 .. f.len -> S] OBVIOUS
    <2> HIDE DEF todo, S
    <2> QED BY <2>1, <1>3
  <1> HIDE DEF todo, A
  <1>9. op'.pc = "write" /\ op'.cmd = "raw" /\ op'.key = r.dev /\ op'.todo = todo BY <1>2
  <1>10. RawSafe' BY <1>2, <1>7, <1>8, <1>9 DEF RawSafe
  <1>11. OpSafe' BY <1>9, <1>10 DEF OpSafe
  <1> QED BY <1>2, <1>6, <1>11, SafeSame

\* A sector of write.
LEMMA RawPut ==
    ASSUME MaxLba >= 4, NEW d, DOMAIN d = Lbas, TableSafe(d), NEW K, K # {} => Guarded(d, K),
           NEW A, K # {} => A \subseteq 3 .. d[1].body.last, NEW a \in A,
           NEW d1, d1 = [d EXCEPT ![a] = Data]
    PROVE  /\ TableSafe(d1)
           /\ K # {} => Guarded(d1, K) /\ d1[1].body.last = d[1].body.last
  <1>1. Data.body.kind = "data" /\ MbrSafe(Data) BY PlainKinds
  <1>2. TableSafe(d1) BY <1>1, SafePut
  <1>3. ASSUME K # {} PROVE Guarded(d1, K) /\ d1[1].body.last = d[1].body.last
    <2>1. PICK T \in Nat : Guard(d, T, K) BY <1>3 DEF Guarded
    <2>2. HasPrimary(d, T, {}) /\ T >= 6 BY <2>1 DEF Guard, HasPrimary
    <2>3. d[1].body.last = T - 3 BY <2>2, InsidersOf
    <2>4. a \in 3 .. T - 3 BY <1>3, <2>3
    <2>5. a \notin {1, T - 2, T - 1} BY <2>2, <2>4
    <2>6. Guard(d1, T, K) BY <2>1, <2>5, GuardPut
    <2>7. d1[1] = d[1] BY <2>1, <2>5, GuardPut
    <2> QED BY <2>6, <2>7 DEF Guarded
  <1> QED BY <1>2, <1>3

\* One sector of gpt or write is written.
LEMMA SafeWriteSector ==
    ASSUME MaxLba >= 4, DevInv, ImageInv, TreeInv, SafeInv, WriteSector
    PROVE  SafeInv'
  <1>1. PICK k : k = op.key OBVIOUS
  <1>2. PICK w : w = Head(op.todo) OBVIOUS
  <1>3. /\ op.pc = "write" /\ op.todo # << >>
        /\ disk' = [disk EXCEPT ![key[k]][w.lba] = w.sector]
        /\ op' = [op EXCEPT !.todo = Tail(@)]
        /\ key' = key /\ rows' = rows /\ kept' = kept
    BY <1>1, <1>2 DEF WriteSector
  <1>4. k \in Attached BY <1>1, <1>3 DEF TreeInv
  <1>5. PICK j \in Images : j = key[k] BY <1>4 DEF Attached, DevInv
  <1>6. PICK d : d = disk[j] OBVIOUS
  <1>7. PICK d1 : d1 = disk'[j] OBVIOUS
  <1>8. PICK K : K = kept[j] OBVIOUS
  <1>9. DOMAIN disk = Images /\ DOMAIN d = Lbas BY <1>6 DEF ImageInv
  <1>10. d1 = [d EXCEPT ![w.lba] = w.sector] /\ \A i \in Images : i # j => disk'[i] = disk[i]
    BY <1>3, <1>5, <1>6, <1>7, <1>9
  <1>11. {"pc", "key", "todo", "cmd", "new"} \subseteq DOMAIN op BY <1>3 DEF ImageInv
  <1>12. op'.pc = "write" /\ op'.cmd = op.cmd /\ op'.key = k /\ op'.todo = Tail(op.todo)
         /\ op'.new = op.new
    BY <1>1, <1>3, <1>11
  <1>13. TableSafe(d) /\ (K # {} => Guarded(d, K)) BY <1>6, <1>8 DEF SafeInv, ImagesSafe
  <1>14. /\ key[op.key] = j /\ disk[key[op.key]] = d /\ kept[key[op.key]] = K
         /\ key'[op'.key] = j /\ disk'[key'[op'.key]] = d1 /\ kept'[key'[op'.key]] = K
    BY <1>1, <1>3, <1>5, <1>6, <1>7, <1>8, <1>12
  <1> SUFFICES /\ TableSafe(d1)
               /\ K # {} => Guarded(d1, K) /\ d1[1].body.last = d[1].body.last
               /\ OpSafe'
    <2>1. DOMAIN kept' = Images BY <1>3 DEF SafeInv, ImagesSafe
    <2>2. \A i \in Images : i # j => disk'[i] = disk[i] /\ kept'[i] = kept[i] BY <1>3, <1>10
    <2>3. kept'[j] = K /\ kept[j] = K BY <1>3, <1>8
    <2> QED BY <2>1, <2>2, <2>3, <1>3, <1>6, <1>7, SafeStep
  <1>15. CASE op.cmd = "raw" /\ RawSafe
    <2>1. PICK A : /\ op.todo \in Seq({Put(a, Data) : a \in A})
                   /\ K # {} => A \subseteq 3 .. d[1].body.last
      BY <1>14, <1>15 DEF RawSafe
    <2> DEFINE S == {Put(a, Data) : a \in A}
    <2>2. w \in S /\ Tail(op.todo) \in Seq(S)
      <3> HIDE DEF S
      <3>1. op.todo \in Seq(S) BY <2>1 DEF S
      <3> QED BY <3>1, <1>2, <1>3
    <2>3. PICK a \in A : w = Put(a, Data) BY <2>2
    <2>4. w.lba = a /\ w.sector = Data BY <2>3 DEF Put
    <2>5. TableSafe(d1) /\ (K # {} => Guarded(d1, K) /\ d1[1].body.last = d[1].body.last)
      <3>1. d1 = [d EXCEPT ![a] = Data] BY <1>10, <2>4
      <3>2. K # {} => A \subseteq 3 .. d[1].body.last BY <2>1
      <3>3. DOMAIN d = Lbas BY <1>9
      <3>4. TableSafe(d1) BY <1>13, <3>1, <3>2, <3>3, RawPut
      <3>5. K # {} => Guarded(d1, K) BY <1>13, <3>1, <3>2, <3>3, RawPut
      <3>6. K # {} => d1[1].body.last = d[1].body.last BY <1>13, <3>1, <3>2, <3>3, RawPut
      <3> QED BY <3>4, <3>5, <3>6
    <2>6. RawSafe' BY <1>12, <1>14, <2>1, <2>2, <2>5 DEF RawSafe
    <2>7. OpSafe' BY <1>12, <1>15, <2>6 DEF OpSafe
    <2> QED BY <2>5, <2>7
  <1>16. CASE op.cmd = "add" /\ AddSafe
    <2>1. PICK T \in Nat : \E new \in Tables(T) :
              /\ T >= 6 /\ T <= MaxLba
              /\ op.new = Ranges(new) /\ K \subseteq Ranges(new)
              /\ HasPrimary(d, T, {}) /\ HasBackup(d, T) /\ AddStage(d, T, new, op.todo)
      BY <1>14, <1>16 DEF AddSafe
    <2>2. PICK new \in Tables(T) :
              /\ T >= 6 /\ T <= MaxLba
              /\ op.new = Ranges(new) /\ K \subseteq Ranges(new)
              /\ HasPrimary(d, T, {}) /\ HasBackup(d, T) /\ AddStage(d, T, new, op.todo)
      BY <2>1
    <2>3. ASSUME K # {} PROVE Guard(d, T, K)
      <3>1. PICK U \in Nat : Guard(d, U, K) BY <1>13, <2>3 DEF Guarded
      <3>2. HasPrimary(d, U, K) BY <3>1 DEF Guard
      <3>3. U = T BY <2>2, <3>2, OneSize
      <3> QED BY <3>1, <3>3
    <2>4. PICK todo : todo = op.todo OBVIOUS
    <2>5. /\ HasPrimary(d1, T, {}) /\ HasBackup(d1, T) /\ TableSafe(d1)
          /\ K # {} => Guard(d1, T, K)
          /\ AddStage(d1, T, new, Tail(todo))
          /\ d1[1].body.last = d[1].body.last
      <3>1. todo # << >> /\ AddStage(d, T, new, todo) BY <1>3, <2>2, <2>4
      <3>2. d1 = [d EXCEPT ![Head(todo).lba] = Head(todo).sector] BY <1>2, <1>10, <2>4
      <3>3. DOMAIN d = Lbas BY <1>9
      <3>4. T >= 6 /\ T <= MaxLba /\ K \subseteq Ranges(new) /\ HasPrimary(d, T, {}) /\ HasBackup(d, T)
        BY <2>2
      <3>5. HasPrimary(d1, T, {}) BY <1>13, <2>3, <3>1, <3>2, <3>3, <3>4, AddStageNext
      <3>6. HasBackup(d1, T) BY <1>13, <2>3, <3>1, <3>2, <3>3, <3>4, AddStageNext
      <3>7. TableSafe(d1) BY <1>13, <2>3, <3>1, <3>2, <3>3, <3>4, AddStageNext
      <3>8. K # {} => Guard(d1, T, K) BY <1>13, <2>3, <3>1, <3>2, <3>3, <3>4, AddStageNext
      <3>9. AddStage(d1, T, new, Tail(todo)) BY <1>13, <2>3, <3>1, <3>2, <3>3, <3>4, AddStageNext
      <3>10. d1[1].body.last = T - 3 /\ d[1].body.last = T - 3 BY <3>4, <3>5, InsidersOf
      <3> QED BY <3>5, <3>6, <3>7, <3>8, <3>9, <3>10
    <2>6. AddSafe' BY <1>12, <1>14, <2>2, <2>4, <2>5 DEF AddSafe
    <2>7. OpSafe' BY <1>12, <1>16, <2>6 DEF OpSafe
    <2> QED BY <2>5, <2>7 DEF Guarded
  <1>17. CASE op.cmd = "init" /\ InitSafe
    <2>1. K = {} /\ op.new = {} BY <1>14, <1>17 DEF InitSafe
    <2>2. PICK T \in Nat : T >= 4 /\ T <= MaxLba /\ InitStage(d, T, op.todo)
      BY <1>14, <1>17 DEF InitSafe
    <2>3. PICK todo : todo = op.todo OBVIOUS
    <2>4. TableSafe(d1) /\ InitStage(d1, T, Tail(todo))
      <3>1. todo # << >> /\ InitStage(d, T, todo) BY <1>3, <2>2, <2>3
      <3>2. d1 = [d EXCEPT ![Head(todo).lba] = Head(todo).sector] BY <1>2, <1>10, <2>3
      <3> QED BY <1>9, <1>13, <2>2, <3>1, <3>2, InitStageNext
    <2>5. InitSafe' BY <1>12, <1>14, <2>1, <2>2, <2>3, <2>4 DEF InitSafe
    <2>6. OpSafe' BY <1>12, <1>17, <2>5 DEF OpSafe
    <2> QED BY <2>1, <2>4, <2>6
  <1> QED BY <1>3, <1>15, <1>16, <1>17 DEF SafeInv, OpSafe

\* gpt add does not go on after a write that failed.
LEMMA AddMust ==
    ASSUME NEW T, NEW new, NEW d, NEW todo, todo # << >>, AddStage(d, T, new, todo)
    PROVE  Head(todo).must = TRUE
  <1> DEFINE w1 == Put(2, EntriesSector(new))
             w2 == Put(1, Body(Primary(T, new)))
             w3 == Put(T - 2, EntriesSector(new))
             w4 == Put(T - 1, Body(Backup(T, new)))
  <1>1. todo \in {<<w1, w2, w3, w4>>, <<w2, w3, w4>>, <<w3, w4>>, <<w4>>} BY DEF AddStage
  <1>2. w1.must = TRUE /\ w2.must = TRUE /\ w3.must = TRUE /\ w4.must = TRUE BY DEF Put
  <1> HIDE DEF w1, w2, w3, w4
  <1>3. Head(todo) \in {w1, w2, w3, w4} BY <1>1
  <1> QED BY <1>2, <1>3

\* A write of gpt or write fails: the command ends, or init goes on clearing.
LEMMA SafeWriteFails ==
    ASSUME DevInv, ImageInv, TreeInv, SafeInv, WriteFails
    PROVE  SafeInv'
  <1>1. /\ op.pc = "write" /\ op.todo # << >>
        /\ op' = IF Head(op.todo).must THEN Idle ELSE [op EXCEPT !.todo = Tail(@)]
        /\ disk' = disk /\ key' = key /\ rows' = rows /\ kept' = kept
    BY DEF WriteFails, host
  <1>2. Idle.pc = "idle" BY DEF Idle
  <1>3. ASSUME Head(op.todo).must = TRUE PROVE SafeInv'
    <2>1. op' = Idle BY <1>1, <1>3
    <2> QED BY <1>1, <1>2, <2>1, SafeIdle
  <1>4. PICK todo : todo = op.todo OBVIOUS
  <1>5. CASE op.cmd = "raw" /\ RawSafe
    <2>1. PICK A : todo \in Seq({Put(a, Data) : a \in A}) BY <1>4, <1>5 DEF RawSafe
    <2> DEFINE S == {Put(a, Data) : a \in A}
    <2>2. \A w \in S : w.must = TRUE BY DEF Put
    <2>3. todo \in Seq(S) BY <2>1
    <2> HIDE DEF S
    <2>4. Head(todo) \in S BY <2>3, <1>1, <1>4
    <2> QED BY <2>2, <2>4, <1>3, <1>4
  <1>6. CASE op.cmd = "add" /\ AddSafe
    <2>1. PICK T \in Nat : \E new \in Tables(T) : AddStage(disk[key[op.key]], T, new, op.todo)
      BY <1>6 DEF AddSafe
    <2>2. PICK new \in Tables(T) : AddStage(disk[key[op.key]], T, new, op.todo) BY <2>1
    <2>3. Head(op.todo).must = TRUE BY <1>1, <2>2, AddMust
    <2> QED BY <2>3, <1>3
  <1>7. CASE op.cmd = "init" /\ InitSafe
    <2>1. PICK d : d = disk[key[op.key]] OBVIOUS
    <2>2. PICK T \in Nat : T >= 4 /\ T <= MaxLba /\ InitStage(d, T, todo)
      BY <1>4, <1>7, <2>1 DEF InitSafe
    <2>3. CASE Head(op.todo).must BY <2>3, <1>1, <1>2, SafeIdle
    <2>4. CASE ~Head(op.todo).must
      <3>1. op' = [op EXCEPT !.todo = Tail(@)] BY <1>1, <2>4
      <3>2. {"pc", "key", "todo", "cmd", "new"} \subseteq DOMAIN op BY <1>1 DEF ImageInv
      <3>3. op'.pc = "write" /\ op'.cmd = op.cmd /\ op'.key = op.key /\ op'.todo = Tail(todo)
            /\ op'.new = op.new
        BY <1>1, <1>4, <3>1, <3>2
      <3>4. InitStage(d, T, Tail(todo)) BY <1>1, <1>4, <2>2, <2>4, InitStageFails
      <3>5. InitSafe' BY <1>1, <1>7, <2>1, <2>2, <3>3, <3>4 DEF InitSafe
      <3>6. OpSafe' BY <1>7, <3>3, <3>5 DEF OpSafe
      <3> QED BY <1>1, <3>6, SafeSame
    <2> QED BY <2>3, <2>4
  <1> QED BY <1>1, <1>5, <1>6, <1>7 DEF SafeInv, OpSafe

\* gpt add has written both copies.
LEMMA AddComplete ==
    ASSUME NEW T \in Nat, T >= 6, T <= MaxLba, NEW new \in Tables(T), NEW d, HasBackup(d, T),
           AddStage(d, T, new, << >>)
    PROVE  Guarded(d, Ranges(new))
  <1> DEFINE w1 == Put(2, EntriesSector(new))
             w2 == Put(1, Body(Primary(T, new)))
             w3 == Put(T - 2, EntriesSector(new))
             w4 == Put(T - 1, Body(Backup(T, new)))
  <1>1. \/ << >> = <<w1, w2, w3, w4>> \/ << >> = <<w2, w3, w4>> \/ << >> = <<w3, w4>>
        \/ d[1].body = Primary(T, new) /\ EntriesOf(d[T - 2]) = new
    BY DEF AddStage
  <1> HIDE DEF w1, w2, w3, w4
  <1>2. Len(<< >>) = 0 /\ Len(<<w1, w2, w3, w4>>) = 4 /\ Len(<<w2, w3, w4>>) = 3
        /\ Len(<<w3, w4>>) = 2
    OBVIOUS
  <1>3. d[1].body = Primary(T, new) /\ EntriesOf(d[T - 2]) = new BY <1>1, <1>2
  <1>4. HasPrimary(d, T, Ranges(new)) BY <1>3 DEF HasPrimary
  <1>5. HasArray(d, T, Ranges(new)) BY <1>3 DEF HasArray
  <1> QED BY <1>4, <1>5 DEF Guarded, Guard

\* The last write was made: what gpt add wrote is kept from here on.
LEMMA SafeWritten ==
    ASSUME WholeDisks, DevInv, ImageInv, TreeInv, SafeInv, Written
    PROVE  SafeInv'
  <1>1. PICK k : k = op.key OBVIOUS
  <1>2. /\ op.pc = "write" /\ op.cmd # "raw" /\ op.todo = << >>
        /\ kept' = [kept EXCEPT ![key[k]] = op.new]
        /\ StartScan(rows, op.name, Scan(RowNamed(rows, op.name)))
        /\ disk' = disk /\ len' = len /\ tag' = tag /\ key' = key
    BY <1>1 DEF Written, host
  <1>3. k \in Attached /\ op.name = k BY <1>1, <1>2 DEF TreeInv
  <1>4. PICK j \in Images : j = key[k] BY <1>3 DEF Attached, DevInv
  <1>5. Rescans BY <1>2 DEF Rescans
  <1>6. k \in Disks \union Targets /\ SlotOf(rows, k) # {} BY <1>3, <1>5 DEF DevInv
  <1>7. DOMAIN kept = Images BY DEF SafeInv, ImagesSafe
  <1>8. DOMAIN kept' = Images /\ kept'[j] = op.new /\ \A i \in Images : i # j => kept'[i] = kept[i]
    BY <1>2, <1>4, <1>7
  <1>9. ASSUME op.new # {} PROVE Guarded(disk[j], op.new)
    <2>1. op.cmd = "add" /\ AddSafe BY <1>2, <1>9 DEF SafeInv, OpSafe, InitSafe
    <2>2. PICK T \in Nat : \E new \in Tables(T) :
              /\ T >= 6 /\ T <= MaxLba /\ op.new = Ranges(new)
              /\ HasBackup(disk[j], T) /\ AddStage(disk[j], T, new, << >>)
      BY <1>1, <1>2, <1>4, <2>1 DEF AddSafe
    <2>3. PICK new \in Tables(T) :
              /\ T >= 6 /\ T <= MaxLba /\ op.new = Ranges(new)
              /\ HasBackup(disk[j], T) /\ AddStage(disk[j], T, new, << >>)
      BY <2>2
    <2>4. Guarded(disk[j], Ranges(new)) BY <2>3, AddComplete
    <2> QED BY <2>3, <2>4
  <1>10. ImagesSafe'
    <2>1. ASSUME NEW i \in Images
          PROVE  TableSafe(disk'[i]) /\ (kept'[i] # {} => Guarded(disk'[i], kept'[i]))
      <3>1. CASE i = j BY <3>1, <1>2, <1>8, <1>9 DEF SafeInv, ImagesSafe
      <3>2. CASE i # j BY <3>2, <1>2, <1>8 DEF SafeInv, ImagesSafe
      <3> QED BY <3>1, <3>2
    <2> QED BY <1>8, <2>1 DEF ImagesSafe
  <1>11. StartScan(rows, k, Scan(RowNamed(rows, k))) BY <1>2, <1>3
  <1>12. op.pc = "attached" => op.name = k BY <1>2
  <1>13. RowsInside BY DEF SafeInv
  <1>14. \A i \in Images : i # key[k] => kept'[i] = kept[i] BY <1>4, <1>8
  <1> QED BY <1>2, <1>6, <1>10, <1>11, <1>12, <1>13, <1>14, SafeStartScan

\* create empties the file at some step, and writes an MBR last.
LEMMA CreateStepsShape ==
    ASSUME NEW i \in Images, NEW mbr \in BOOLEAN
    PROVE  LET todo == CreateSteps(i, mbr)
           IN  /\ todo \in Seq(StepNames) /\ todo # << >>
               /\ \A j \in 1 .. Len(todo) : todo[j] = "mbr" => j = Len(todo)
               /\ \E j \in 1 .. Len(todo) : todo[j] = "data"
  <1> DEFINE b == CASE Format[i] = "raw"  -> RawCreate
                    [] Format[i] = "vhd"  -> VhdCreate
                    [] Format[i] = "vmdk" -> VmdkCreate
             t == IF mbr THEN <<"mbr">> ELSE <<>>
             n == Len(b)
             m == Len(t)
  <1>1. Format[i] \in {"raw", "vhd", "vmdk"} BY ImagesAssumption DEF Formats
  <1>2. b \in {RawCreate, VhdCreate, VmdkCreate} BY <1>1
  <1>3. /\ b \in Seq(StepNames) /\ n \in {2, 3, 4}
        /\ \A j \in 1 .. n : b[j] # "mbr"
        /\ \E j \in 1 .. n : b[j] = "data"
    <2> HIDE DEF b, n
    <2>1. CASE b = RawCreate
      <3>1. n = 2 /\ b \in Seq(StepNames) /\ b[1] = "data" /\ b[2] = "size"
        BY <2>1 DEF RawCreate, n, StepNames
      <3>2. \A j \in 1 .. 2 : j = 1 \/ j = 2 OBVIOUS
      <3> QED BY <3>1, <3>2
    <2>2. CASE b = VhdCreate
      <3>1. n = 3 /\ b \in Seq(StepNames) /\ b[1] = "data" /\ b[2] = "size" /\ b[3] = "tag"
        BY <2>2 DEF VhdCreate, n, StepNames
      <3>2. \A j \in 1 .. 3 : j = 1 \/ j = 2 \/ j = 3 OBVIOUS
      <3> QED BY <3>1, <3>2
    <2>3. CASE b = VmdkCreate
      <3>1. n = 4 /\ b \in Seq(StepNames) /\ b[1] = "untag" /\ b[2] = "tag" /\ b[3] = "data"
            /\ b[4] = "size"
        BY <2>3 DEF VmdkCreate, n, StepNames
      <3>2. \A j \in 1 .. 4 : j = 1 \/ j = 2 \/ j = 3 \/ j = 4 OBVIOUS
      <3> QED BY <3>1, <3>2
    <2> QED BY <1>2, <2>1, <2>2, <2>3
  <1>4. t \in Seq(StepNames) /\ m \in {0, 1}
    <2> HIDE DEF m
    <2>1. CASE mbr
      <3>1. t = <<"mbr">> BY <2>1
      <3>2. <<"mbr">> \in Seq(StepNames) /\ Len(<<"mbr">>) = 1 BY DEF StepNames
      <3> QED BY <3>1, <3>2 DEF m
    <2>2. CASE ~mbr
      <3>1. t = <<>> BY <2>2
      <3> QED BY <3>1 DEF m
    <2> QED BY <2>1, <2>2
  <1>5. CreateSteps(i, mbr) = b \o t BY DEF CreateSteps
  <1> HIDE DEF b, t
  <1>6. /\ b \o t \in Seq(StepNames) /\ Len(b \o t) = n + m
        /\ \A j \in 1 .. n + m : (b \o t)[j] = IF j <= n THEN b[j] ELSE t[j - n]
    BY <1>3, <1>4, ConcatProperties
  <1> HIDE DEF n, m
  <1>7. b \o t # << >>
    <2>1. n + m > 0 BY <1>3, <1>4
    <2>2. Len(<< >>) = 0 OBVIOUS
    <2> QED BY <2>1, <2>2, <1>6
  <1>8. ASSUME NEW j \in 1 .. n + m, (b \o t)[j] = "mbr" PROVE j = n + m
    <2>1. ~(j <= n) BY <1>3, <1>4, <1>6, <1>8
    <2> QED BY <2>1, <1>3, <1>4
  <1>9. \E j \in 1 .. n + m : (b \o t)[j] = "data"
    <2>1. PICK j \in 1 .. n : b[j] = "data" BY <1>3
    <2>2. j \in 1 .. n + m /\ j <= n BY <1>3, <1>4
    <2> QED BY <2>1, <2>2, <1>6
  <1> QED BY <1>5, <1>6, <1>7, <1>8, <1>9

\* create begins: nothing is kept of the image from here on.
LEMMA SafeCreate ==
    ASSUME DevInv, SafeInv, NEW i \in Images, NEW n, NEW mbr \in BOOLEAN, Create(i, n, mbr)
    PROVE  SafeInv'
  <1>1. PICK todo : todo = CreateSteps(i, mbr) OBVIOUS
  <1>2. /\ op = Idle /\ kept' = [kept EXCEPT ![i] = {}]
        /\ op' = [pc |-> "create", image |-> i, size |-> n, todo |-> todo]
        /\ disk' = disk /\ key' = key /\ rows' = rows
    BY <1>1 DEF Create, host, Command
  <1>3. DOMAIN kept = Images /\ TableSafe(disk[i]) BY DEF SafeInv, ImagesSafe
  <1>4. DOMAIN kept' = Images /\ kept'[i] = {} /\ \A x \in Images : x # i => kept'[x] = kept[x]
    BY <1>2, <1>3
  <1>5. op'.pc = "create" /\ op'.image = i /\ op'.todo = todo BY <1>2
  <1>6. /\ todo \in Seq(StepNames) /\ todo # << >>
        /\ \A j \in 1 .. Len(todo) : todo[j] = "mbr" => j = Len(todo)
        /\ \E j \in 1 .. Len(todo) : todo[j] = "data"
    BY <1>1, CreateStepsShape
  <1>7. CreateSafe' BY <1>4, <1>5, <1>6 DEF CreateSafe
  <1>8. OpSafe' BY <1>5, <1>7 DEF OpSafe
  <1>9. op.pc = "idle" BY <1>2 DEF Idle
  <1>10. \A x \in Images : x # i => disk'[x] = disk[x] /\ kept'[x] = kept[x] BY <1>2, <1>4
  <1>11. TableSafe(disk'[i]) BY <1>2, <1>3
  <1> QED BY <1>2, <1>4, <1>8, <1>9, <1>10, <1>11, SafeStep

\* create empties the image, gives it its size or writes its MBR.
LEMMA SafeCreateStep ==
    ASSUME MaxLba >= 4, DevInv, ImageInv, SafeInv, CreateStep
    PROVE  SafeInv'
  <1>1. PICK i : i = op.image OBVIOUS
  <1>2. PICK todo : todo = op.todo OBVIOUS
  <1>3. PICK step : step = Head(todo) OBVIOUS
  <1>4. /\ op.pc = "create" /\ key' = key /\ rows' = rows /\ kept' = kept
        /\ disk' = (CASE step = "data" -> [disk EXCEPT ![i] = [a \in DOMAIN @ |-> Blank]]
                      [] step = "mbr" -> [disk EXCEPT ![i][0] = Mbr(<<>>)]
                      [] OTHER -> disk)
        /\ op' = IF Len(todo) = 1 THEN Idle ELSE [op EXCEPT !.todo = Tail(@)]
    BY <1>1, <1>2, <1>3 DEF CreateStep
  <1>5. CreateSafe BY <1>4 DEF SafeInv, OpSafe
  <1>6. /\ i \in Images /\ kept[i] = {} /\ todo \in Seq(StepNames) /\ todo # << >>
        /\ \A j \in 1 .. Len(todo) : todo[j] = "mbr" => j = Len(todo)
        /\ (\A j \in 1 .. Len(todo) : todo[j] # "data") => disk[i][1].body.kind # "header"
    BY <1>1, <1>2, <1>5 DEF CreateSafe
  <1>7. Len(todo) \in Nat /\ Len(todo) >= 1 /\ step = todo[1]
    <2>1. Len(todo) \in Nat /\ Len(todo) # 0 BY <1>6, EmptySeq
    <2> QED BY <2>1, <1>3, <1>6
  <1>8. DOMAIN disk = Images /\ DOMAIN disk[i] = Lbas BY <1>6 DEF ImageInv
  <1>9. {0, 1, 2} \subseteq Lbas BY BoundsAssumption DEF Lbas
  <1>10. TableSafe(disk[i]) BY <1>6 DEF SafeInv, ImagesSafe
  <1>11. /\ \A x \in Images : x # i => disk'[x] = disk[x]
         /\ TableSafe(disk'[i])
         /\ disk'[i][1].body.kind = "header" => disk[i][1].body.kind = "header" /\ step # "data"
    <2>1. CASE step = "data"
      <3>1. disk' = [disk EXCEPT ![i] = [a \in DOMAIN disk[i] |-> Blank]] BY <1>4, <2>1
      <3>2. disk'[i][1] = Blank /\ \A x \in Images : x # i => disk'[x] = disk[x]
        BY <3>1, <1>6, <1>8, <1>9
      <3>3. disk'[i][1].body.kind = "blank" BY <3>2, PlainKinds
      <3> QED BY <3>2, <3>3 DEF TableSafe
    <2>2. CASE step = "mbr"
      <3>1. disk' = [disk EXCEPT ![i][0] = Mbr(<<>>)] BY <1>4, <2>2
      <3>2. disk'[i][1] = disk[i][1] /\ \A x \in Images : x # i => disk'[x] = disk[x]
        BY <3>1, <1>6, <1>8, <1>9
      <3>3. 1 \in 1 .. Len(todo) /\ todo[1] = "mbr" BY <1>7, <2>2
      <3>4. Len(todo) = 1 BY <3>3, <1>6
      <3>5. ASSUME NEW j \in 1 .. Len(todo) PROVE todo[j] # "data"
        <4>1. j = 1 BY <3>4
        <4> QED BY <4>1, <3>3
      <3>6. disk'[i][1].body.kind # "header" BY <3>2, <3>5, <1>6
      <3> QED BY <3>2, <3>6 DEF TableSafe
    <2>3. CASE step # "data" /\ step # "mbr"
      <3>1. disk' = disk BY <1>4, <2>3
      <3> QED BY <3>1, <1>10, <2>3
    <2> QED BY <2>1, <2>2, <2>3
  <1>12. OpSafe'
    <2>1. CASE Len(todo) = 1
      <3>1. op'.pc = "idle" BY <1>4, <2>1 DEF Idle
      <3> QED BY <3>1 DEF OpSafe
    <2>2. CASE Len(todo) # 1
      <3>1. {"pc", "image", "size", "todo"} \subseteq DOMAIN op BY <1>4 DEF ImageInv
      <3>2. op'.pc = "create" /\ op'.image = i /\ op'.todo = Tail(todo)
        BY <1>1, <1>2, <1>4, <2>2, <3>1
      <3>3. /\ Tail(todo) \in Seq(StepNames) /\ Len(Tail(todo)) = Len(todo) - 1
            /\ \A j \in 1 .. Len(Tail(todo)) : Tail(todo)[j] = todo[j + 1]
        BY <1>6
      <3>4. Tail(todo) # << >>
        <4>1. Len(<< >>) = 0 OBVIOUS
        <4>2. Len(Tail(todo)) # 0 BY <3>3, <1>7, <2>2
        <4> QED BY <4>1, <4>2
      <3>5. ASSUME NEW j \in 1 .. Len(Tail(todo)), Tail(todo)[j] = "mbr" PROVE j = Len(Tail(todo))
        <4>1. j + 1 \in 1 .. Len(todo) /\ todo[j + 1] = "mbr" BY <3>3, <3>5, <1>7
        <4>2. j + 1 = Len(todo) BY <4>1, <1>6
        <4> QED BY <4>2, <3>3, <1>7
      <3>6. ASSUME \A j \in 1 .. Len(Tail(todo)) : Tail(todo)[j] # "data"
            PROVE  disk'[i][1].body.kind # "header"
        <4>1. CASE step = "data" BY <4>1, <1>11
        <4>2. CASE step # "data"
          <5>1. ASSUME NEW j \in 1 .. Len(todo) PROVE todo[j] # "data"
            <6>1. CASE j = 1 BY <6>1, <4>2, <1>7
            <6>2. CASE j # 1
              <7>1. j - 1 \in 1 .. Len(Tail(todo)) /\ (j - 1) + 1 = j BY <6>2, <3>3, <1>7
              <7> QED BY <7>1, <3>3, <3>6
            <6> QED BY <6>1, <6>2
          <5> QED BY <5>1, <1>6, <1>11
        <4> QED BY <4>1, <4>2
      <3>7. CreateSafe' BY <1>4, <1>6, <3>2, <3>3, <3>4, <3>5, <3>6 DEF CreateSafe
      <3> QED BY <3>2, <3>7 DEF OpSafe
    <2> QED BY <2>1, <2>2
  <1>13. DOMAIN kept' = Images BY <1>4 DEF SafeInv, ImagesSafe
  <1>14. \A x \in Images : x # i => disk'[x] = disk[x] /\ kept'[x] = kept[x] BY <1>4, <1>11
  <1>15. kept'[i] = {} BY <1>4, <1>6
  <1> QED BY <1>4, <1>6, <1>11, <1>12, <1>13, <1>14, <1>15, SafeStep

\* Every step keeps what is kept safe.
LEMMA SafeNext ==
    /\ MaxLba >= 4 /\ OptionsOK /\ WholeDisks /\ PartNames
    /\ DevInv /\ ImageInv /\ TreeInv /\ SafeInv /\ [Next]_vars
    => SafeInv'
  <1> SUFFICES ASSUME MaxLba >= 4, OptionsOK, WholeDisks, PartNames,
                      DevInv, ImageInv, TreeInv, SafeInv, [Next]_vars
               PROVE  SafeInv'
    OBVIOUS
  <1>i. Idle.pc = "idle" BY DEF Idle
  <1>s. ImagesSafe /\ RowsInside BY DEF SafeInv
  <1>t. disk' = disk /\ kept' = kept => ImagesSafe' BY <1>s DEF ImagesSafe
  <1>1. ASSUME NEW k \in Disks, NEW i \in Images, Use(k, i) PROVE SafeInv' BY <1>1, SafeUse
  <1>2. ASSUME AddDisk PROVE SafeInv'
    <2>1. Rescans BY <1>2 DEF AddDisk, Rescans
    <2>2. PICK n \in Disks \union Targets : n = op.name /\ SlotOf(rows, n) # {} BY <2>1 DEF DevInv
    <2>3. /\ StartScan(rows, n, Scan(RowNamed(rows, n)))
          /\ disk' = disk /\ len' = len /\ tag' = tag /\ key' = key /\ kept' = kept
      BY <1>2, <2>2 DEF AddDisk, host
    <2> QED BY <2>2, <2>3, <1>s, <1>t, SafeStartScan
  <1>3. ASSUME RegisterChild PROVE SafeInv' BY <1>3, SafeRegisterChild
  <1>4. ASSUME EndScan PROVE SafeInv' BY <1>4, <1>i, SafeIdle DEF EndScan, host
  <1>5. ASSUME NEW n \in Targets, Partscan(n) PROVE SafeInv'
    <2>1. /\ op = Idle /\ SlotOf(rows, n) # {} /\ StartScan(rows, n, Scan(RowNamed(rows, n)))
          /\ disk' = disk /\ len' = len /\ tag' = tag /\ key' = key /\ kept' = kept
      BY <1>5 DEF Partscan, host, Command
    <2> QED BY <2>1, <1>i, <1>s, <1>t, SafeStartScan
  <1>6. ASSUME NEW n \in Targets, MbrInstall(n) PROVE SafeInv' BY <1>6, SafeMbrInstall
  <1>7. ASSUME NEW n \in Targets, GptInit(n) PROVE SafeInv' BY <1>7, SafeGptInit
  <1>8. ASSUME NEW n \in Targets, NEW req \in Requests, GptAdd(n, req) PROVE SafeInv'
    BY <1>8, SafeGptAdd
  <1>9. ASSUME WriteSector PROVE SafeInv' BY <1>9, SafeWriteSector
  <1>10. ASSUME WriteFails PROVE SafeInv' BY <1>10, SafeWriteFails
  <1>11. ASSUME Written PROVE SafeInv' BY <1>11, SafeWritten
  <1>12. ASSUME NEW i \in Images, NEW n \in Sizes, NEW mbr \in BOOLEAN, Create(i, n, mbr)
         PROVE  SafeInv'
    BY <1>12, SafeCreate
  <1>13. ASSUME CreateStep PROVE SafeInv' BY <1>13, SafeCreateStep
  <1>14. ASSUME CreateFails PROVE SafeInv' BY <1>14, <1>i, SafeIdle DEF CreateFails, host
  <1>15. ASSUME NEW n \in Parts, NEW f \in HostFiles, RawWrite(n, f) PROVE SafeInv'
    BY <1>15, SafeRawWrite
  <1>16. ASSUME RawWritten PROVE SafeInv' BY <1>16, <1>i, SafeIdle DEF RawWritten, host
  <1>17. ASSUME NEW n \in Targets \union Parts, NEW m \in MountPoints, Mount(n, m)
         PROVE  SafeInv'
    BY <1>17, <1>i, SafeIdle DEF Mount, Command, host
  <1>18. ASSUME Crash PROVE SafeInv'
    <2>1. disk' = disk /\ kept' = kept /\ key' = [k \in Disks |-> NoImage] /\ op'.pc = "idle"
      BY <1>18, <1>i DEF Crash, host
    <2>2. Attached' = {} BY <2>1 DEF Attached
    <2>3. RowsInside' BY <2>2 DEF RowsInside
    <2>4. OpSafe' BY <2>1 DEF OpSafe
    <2> QED BY <2>1, <2>3, <2>4, <1>t DEF SafeInv
  <1>19. ASSUME UNCHANGED vars PROVE SafeInv'
    <2>1. disk' = disk /\ kept' = kept /\ rows' = rows /\ key' = key /\ op' = op BY <1>19 DEF vars
    <2>2. OpSafe'
      BY <2>1 DEF SafeInv, OpSafe, ScanSafe, RawSafe, AddSafe, InitSafe, CreateSafe
    <2> QED BY <2>1, <2>2, SafeSame
  <1> QED BY <1>1, <1>2, <1>3, <1>4, <1>5, <1>6, <1>7, <1>8, <1>9, <1>10, <1>11, <1>12,
             <1>13, <1>14, <1>15, <1>16, <1>17, <1>18, <1>19 DEF Next

\* Nothing is kept at the start.
LEMMA SafeInit == MediaTables /\ Init => SafeInv
  <1> SUFFICES ASSUME MediaTables, Init PROVE SafeInv OBVIOUS
  <1>1. disk = Media /\ key = [k \in Disks |-> NoImage] /\ kept = [i \in Images |-> {}]
        /\ op.pc = "idle"
    BY DEF Init, Idle
  <1>2. Attached = {} BY <1>1 DEF Attached
  <1>3. ImagesSafe BY <1>1 DEF MediaTables, ImagesSafe
  <1>4. RowsInside BY <1>2 DEF RowsInside
  <1>5. OpSafe BY <1>1 DEF OpSafe
  <1> QED BY <1>3, <1>4, <1>5 DEF SafeInv

\* Whatever number of gpt commands, writes into partitions and crashes there
\* were: the entries gpt_add_by_range starts from hold every partition of the
\* last gpt add that was finished, inside the usable sectors and without
\* overlap, although the backup's array is taken without its checksum.
THEOREM NothingLostCorrect ==
    ASSUME MediaOK, MediaTables, OptionsOK, WholeDisks, PartNames
    PROVE  Spec => []NothingLost
  <1> DEFINE Inv == DevInv /\ ImageInv /\ AddInv /\ TreeInv /\ SafeInv
  <1>1. Init => Inv
    <2>1. Init => AddInv BY DEF Init, AddInv, Adding, Idle
    <2> QED BY <2>1, DevInit, ImageInit, TreeInit, SafeInit
  <1>2. Inv /\ [Next]_vars => Inv'
    <2>1. MaxLba >= 4 BY DEF MediaTables
    <2> QED BY <2>1, DevNext, AddNext, TreeNext, SafeNext
  <1>3. Inv => NothingLost BY SafeLoses DEF SafeInv
  <1> QED BY <1>1, <1>2, <1>3, PTL DEF Spec

------------------------------------------------------------------------------
(* The rows are what the last scan found                                     *)

\* Ranges of sectors inside a disk of n sectors.
Within(n) == {p \in Nat \X Nat : p[1] <= p[2] /\ p[2] < n}

\* The partitions an MBR and its EBRs state are ranges of sectors, wherever
\* they lie: the fields of an entry are numbers and their sums do not overflow.
MbrRanges ==
    \A k \in Attached :
        ~IsProtective(WholeDisk(k)) =>
            \E n \in Nat : Range(ScanMbr(WholeDisk(k))) \subseteq Within(n)

\* Where the partitions of a disk lie: inside it, unless an MBR stated them.
Somewhere == {p \in Nat \X Nat : p[1] <= p[2]}
Home(k) == IF k \in mbrDisks THEN Somewhere ELSE Within(SizeOf(k))

\* There are finitely many ranges on a disk.
LEMMA WithinFinite ==
    ASSUME NEW n \in Nat, NEW S \in SUBSET Within(n)
    PROVE  IsFiniteSet(S) /\ S \in SUBSET (Int \X Int)
  <1>1. IsFiniteSet(0 .. n) BY FS_Interval
  <1>2. IsFiniteSet((0 .. n) \X (0 .. n)) BY <1>1, FS_Product
  <1>3. Within(n) \subseteq (0 .. n) \X (0 .. n) BY DEF Within
  <1>4. S \subseteq (0 .. n) \X (0 .. n) BY <1>3
  <1>5. IsFiniteSet(S) BY <1>2, <1>4, FS_Subset
  <1>6. Within(n) \subseteq Int \X Int BY DEF Within
  <1> QED BY <1>5, <1>6

\* scan_gpt reads a header that gpt wrote, and keeps the ranges on the disk.
LEMMA GptWithin ==
    ASSUME ImageInv, DevInv, NEW k \in Disks
    PROVE  ScanGpt(WholeDisk(k)) \subseteq Within(SizeOf(k))
  <1> DEFINE r == WholeDisk(k)
  <1>1. SizeOf(k) \in Nat BY SizeBound, BoundsAssumption
  <1>2. r.size = SizeOf(k) BY WholeDiskFacts
  <1>3. ASSUME NEW a \in Nat, HeaderAt(r, a), NEW p \in Ranges(Read(r, a).crc),
               p[1] <= p[2], p[2] < r.size
        PROVE  p \in Within(SizeOf(k))
    <2>1. HeaderOK(a, disk[key[k]][a].body) BY <1>3, HeaderRead
    <2>2. Read(r, a) = disk[key[k]][a].body BY WholeDiskFacts
    <2>3. PICK T \in Nat : \E es \in Tables(T) :
              Read(r, a) = Primary(T, es) \/ Read(r, a) = Backup(T, es)
      BY <2>1, <2>2 DEF HeaderOK
    <2>4. PICK es \in Tables(T) : Read(r, a) = Primary(T, es) \/ Read(r, a) = Backup(T, es)
      BY <2>3
    <2> HIDE DEF r
    <2>5. Read(r, a).crc = es BY <2>4, HeaderFields
    <2>6. es \in Arrays BY DEF Tables
    <2>7. p \in Nat \X Nat BY <2>5, <2>6, <1>3, RangesFinite
    <2> QED BY <2>7, <1>2, <1>3 DEF Within
  <1>4. ASSUME Readable(r, 1), Read(r, 1).kind = "header" PROVE Read(r, 1).backup \in Nat
    <2>1. 1 < SizeOf(k) BY <1>4, WholeDiskFacts
    <2>2. key[k] \in Images /\ SizeOf(k) <= MaxLba BY <2>1, <1>1, SizeBound, BoundsAssumption
    <2>3. 1 \in Lbas BY <2>1, <2>2, <1>1, BoundsAssumption DEF Lbas
    <2>4. SectorOK(1, disk[key[k]][1]) BY <2>2, <2>3 DEF ImageInv
    <2>5. Read(r, 1) = disk[key[k]][1].body BY WholeDiskFacts
    <2>6. HeaderOK(1, Read(r, 1)) BY <1>4, <2>4, <2>5 DEF SectorOK
    <2> HIDE DEF r
    <2>7. PICK T \in Nat : \E es \in Tables(T) : T >= 4 /\ Read(r, 1) = Primary(T, es)
      BY <2>6 DEF HeaderOK
    <2> QED BY <2>7, HeaderFields
  <1> HIDE DEF r
  <1>5. \A a \in GptHeader(r) : a \in Nat /\ HeaderAt(r, a)
    BY <1>4 DEF GptHeader, ValidateAt
  <1>6. \A a \in GptHeader(r) :
            {p \in Ranges(Read(r, a).crc) : p[1] <= p[2] /\ p[2] < r.size} \subseteq Within(SizeOf(k))
    BY <1>3, <1>5
  <1> QED BY <1>6 DEF ScanGpt, r

\* What a scan finds lies on the disk, unless it is what an MBR states.
LEMMA ScanWithin ==
    ASSUME ImageInv, DevInv, MbrRanges, NEW k \in Attached
    PROVE  Scan(WholeDisk(k)) \in
              Seq(IF TakesMbr(WholeDisk(k)) THEN Somewhere ELSE Within(SizeOf(k)))
  <1>k. k \in Disks BY DEF Attached
  <1>1. CASE TakesMbr(WholeDisk(k))
    <2>1. PICK n \in Nat : Range(ScanMbr(WholeDisk(k))) \subseteq Within(n)
      BY <1>1 DEF TakesMbr, MbrRanges
    <2>2. PICK S : S = Range(ScanMbr(WholeDisk(k))) OBVIOUS
    <2>3. Scan(WholeDisk(k)) = Sorted(S) BY <1>1, <2>2 DEF Scan
    <2>4. S \in SUBSET Within(n) BY <2>1, <2>2
    <2>5. IsFiniteSet(S) /\ S \in SUBSET (Int \X Int) BY <2>4, WithinFinite
    <2>6. Sorted(S) \in Seq(S) BY <2>5, SortedMember
    <2>7. S \subseteq Somewhere BY <2>4 DEF Within, Somewhere
    <2> QED BY <1>1, <2>3, <2>6, <2>7
  <1>2. CASE ~TakesMbr(WholeDisk(k))
    <2>1. SizeOf(k) \in Nat BY <1>k, SizeBound, BoundsAssumption
    <2>2. PICK S : S = ScanGpt(WholeDisk(k)) OBVIOUS
    <2>3. Scan(WholeDisk(k)) = Sorted(S) BY <1>2, <2>2 DEF Scan
    <2>4. S \in SUBSET Within(SizeOf(k)) BY <1>k, <2>2, GptWithin
    <2>5. IsFiniteSet(S) /\ S \in SUBSET (Int \X Int) BY <2>1, <2>4, WithinFinite
    <2>6. Sorted(S) \in Seq(S) BY <2>5, SortedMember
    <2> QED BY <1>2, <2>3, <2>4, <2>6
  <1> QED BY <1>1, <1>2

\* How many of the ranges found have their row: all of them, or the ones that
\* the scan in progress has come past.
Done(k) ==
    IF op.pc = "scan" /\ op.name = k /\ op.nth - 1 < Len(scanned[k])
    THEN op.nth - 1 ELSE Len(scanned[k])

\* The rows of the partitions of a disk are those of the first n ranges of q.
RowsAre(rs, k, q, n) ==
    /\ \A s \in Slots : ChildOf(rs[s].name, k) => \E j \in 1 .. n : rs[s] = Child(k, j, q[j])
    /\ \A j \in 1 .. n : \E s \in Slots : rs[s] = Child(k, j, q[j])

ExactOn(k) ==
    /\ scanned[k] \in Seq(Home(k))
    /\ RowsAre(rows, k, scanned[k], Done(k))

\* Every disk but the one that was just attached has the rows of its last scan.
\* A scan in progress has found what is recorded, or has met a full registry
\* and will register nothing more.
ExactInv ==
    /\ DOMAIN scanned = Disks \union Targets
    /\ \A k \in Disks : ~(op.pc = "attached" /\ op.name = k) => ExactOn(k)
    /\ op.pc = "scan" =>
          \/ scanned[op.name] = op.found
          \/ Len(scanned[op.name]) < op.nth /\ SlotOf(rows, Free.name) = {}

\* The rows of a disk's partitions only depend on the rows with such names.
LEMMA RowsAreSame ==
    ASSUME WholeDisks, NEW k \in Disks, NEW rs, NEW rt, NEW q, NEW n \in Nat, RowsAre(rs, k, q, n),
           \A s \in Slots : ChildOf(rs[s].name, k) \/ ChildOf(rt[s].name, k) => rt[s] = rs[s]
    PROVE  RowsAre(rt, k, q, n)
  <1>1. ASSUME NEW s \in Slots, ChildOf(rt[s].name, k)
        PROVE  \E j \in 1 .. n : rt[s] = Child(k, j, q[j])
    <2>1. rt[s] = rs[s] BY <1>1
    <2>2. ChildOf(rs[s].name, k) BY <1>1, <2>1
    <2> QED BY <2>1, <2>2 DEF RowsAre
  <1>2. ASSUME NEW j \in 1 .. n PROVE \E s \in Slots : rt[s] = Child(k, j, q[j])
    <2>1. PICK s \in Slots : rs[s] = Child(k, j, q[j]) BY DEF RowsAre
    <2>2. k = <<k[1], <<>>>> BY NameShape
    <2>3. j \in Nat OBVIOUS
    <2>4. ChildOf(<<k[1], <<j>>>>, k) BY <2>2, <2>3, NumberedName
    <2>5. ChildOf(rs[s].name, k) BY <2>1, <2>4, ChildNamed
    <2> QED BY <2>1, <2>5
  <1> QED BY <1>1, <1>2 DEF RowsAre

\* Names that are no partitions: a disk's own and that of a free row.
LEMMA NoChild ==
    ASSUME WholeDisks, NEW k \in Disks
    PROVE  ~ChildOf(Free.name, k) /\ \A d \in Disks \union Targets : ~ChildOf(d, k)
  <1>1. k[1] \in {"a", "b"} BY NameShape
  <1>2. Free.name[1] = "free" BY DEF Free
  <1>3. ASSUME NEW d \in Disks \union Targets PROVE ~ChildOf(d, k)
    <2>1. d[2] = <<>> /\ k[2] = <<>> BY DEF WholeDisks
    <2>2. Len(<<>>) = 0 OBVIOUS
    <2> QED BY <2>1, <2>2 DEF ChildOf
  <1> QED BY <1>1, <1>2, <1>3 DEF ChildOf

\* No name is a partition of two disks.
LEMMA OneParent ==
    ASSUME WholeDisks, NEW k \in Disks, NEW d \in Disks, NEW m, ChildOf(m, k), ChildOf(m, d)
    PROVE  k = d
  <1>1. k = <<k[1], <<>>>> /\ d = <<d[1], <<>>>> BY NameShape
  <1>2. k[1] = d[1] BY DEF ChildOf
  <1> QED BY <1>1, <1>2

\* The rows registered are some of the ranges found.
LEMMA DoneType ==
    ASSUME DevInv, NEW k \in Disks, NEW S, scanned[k] \in Seq(S)
    PROVE  Done(k) \in 0 .. Len(scanned[k])
  <1>1. Len(scanned[k]) \in Nat OBVIOUS
  <1>2. op.pc = "scan" => op.nth \in Nat \ {0} BY DEF DevInv, OpFields
  <1> QED BY <1>1, <1>2 DEF Done

\* A step that leaves the rows, the keys and the sizes of attached images alone.
LEMMA ExactSame ==
    ASSUME DevInv, ExactInv, rows' = rows, key' = key, scanned' = scanned, mbrDisks' = mbrDisks,
           \A k \in Attached : SizeOf(k)' = SizeOf(k),
           op.pc \notin {"attached", "scan"}, op'.pc \notin {"attached", "scan"}
    PROVE  ExactInv'
  <1>1. ASSUME NEW k \in Disks PROVE ExactOn(k)'
    <2>1. ExactOn(k) BY DEF ExactInv
    <2>2. SizeOf(k)' = SizeOf(k)
      <3>1. CASE k \in Attached BY <3>1
      <3>2. CASE k \notin Attached
        <4>1. key[k] = NoImage BY <3>2 DEF Attached
        <4> QED BY <4>1 DEF SizeOf
      <3> QED BY <3>1, <3>2
    <2>3. Done(k)' = Done(k) BY DEF Done
    <2>4. Home(k)' = Home(k) BY <2>2 DEF Home
    <2> QED BY <2>1, <2>3, <2>4 DEF ExactOn
  <1> QED BY <1>1 DEF ExactInv

\* A scan begins: the disk has no rows of partitions, the others keep theirs.
LEMMA ExactStartScan ==
    ASSUME DevInv, ImageInv, TreeInv, WholeDisks, MbrRanges, ExactInv,
           NEW n \in Disks \union Targets, SlotOf(rows, n) # {},
           StartScan(rows, n, Scan(RowNamed(rows, n))), key' = key, len' = len, tag' = tag,
           op.pc = "attached" => op.name = n, op.pc # "scan"
    PROVE  ExactInv'
  <1>1. n \in Attached /\ RowNamed(rows, n) = WholeDisk(n) BY NamedDisk
  <1>2. n \in Disks BY <1>1 DEF Attached
  <1>3. PICK found : found = Scan(WholeDisk(n)) OBVIOUS
  <1>4. found \in Seq(IF TakesMbr(WholeDisk(n)) THEN Somewhere ELSE Within(SizeOf(n)))
    BY <1>1, <1>3, ScanWithin
  <1>5. /\ rows' = RemoveChildren(rows, n) /\ scanned' = [scanned EXCEPT ![n] = found]
        /\ op' = [pc |-> "scan", name |-> n, found |-> found, nth |-> 1]
        /\ mbrDisks' = IF TakesMbr(WholeDisk(n)) THEN mbrDisks \union {n} ELSE mbrDisks \ {n}
    BY <1>1, <1>3 DEF StartScan
  <1>6. op'.pc = "scan" /\ op'.name = n /\ op'.found = found /\ op'.nth = 1 BY <1>5
  <1>7. DOMAIN scanned' = Disks \union Targets /\ scanned'[n] = found
        /\ \A k \in Disks : k # n => scanned'[k] = scanned[k]
    BY <1>5 DEF ExactInv
  <1>8. \A s \in Slots : rows'[s] = IF ChildOf(rows[s].name, n) THEN Free ELSE rows[s]
    BY <1>5 DEF RemoveChildren
  <1>9. ExactOn(n)'
    <2>1. SizeOf(n)' = SizeOf(n) BY SizeSame
    <2>2. Len(found) \in Nat BY <1>4
    <2>3. Done(n)' = 0 BY <1>6, <1>7, <2>2 DEF Done
    <2>4. \A s \in Slots : ~ChildOf(rows'[s].name, n) BY <1>2, <1>8, NoChild
    <2>5. RowsAre(rows', n, scanned'[n], 0) BY <2>4 DEF RowsAre
    <2>6. Home(n)' = IF TakesMbr(WholeDisk(n)) THEN Somewhere ELSE Within(SizeOf(n))
      BY <1>5, <2>1 DEF Home
    <2> QED BY <1>4, <1>7, <2>3, <2>5, <2>6 DEF ExactOn
  <1>10. ASSUME NEW k \in Disks, k # n PROVE ExactOn(k)'
    <2>1. ExactOn(k) BY <1>10 DEF ExactInv
    <2>2. SizeOf(k)' = SizeOf(k) BY SizeSame
    <2>3. Done(k)' = Done(k) /\ Done(k) = Len(scanned[k]) BY <1>6, <1>7, <1>10 DEF Done
    <2>4. \A s \in Slots : ChildOf(rows[s].name, k) \/ ChildOf(rows'[s].name, k)
                => rows'[s] = rows[s]
      BY <1>2, <1>8, <1>10, OneParent, NoChild
    <2>5. Done(k) \in Nat /\ RowsAre(rows, k, scanned[k], Done(k))
      BY <2>1, <2>3 DEF ExactOn
    <2>6. RowsAre(rows', k, scanned[k], Done(k)) BY <2>4, <2>5, RowsAreSame
    <2>7. Home(k)' = Home(k) BY <2>2, <1>5, <1>10 DEF Home
    <2> QED BY <2>1, <2>3, <2>6, <2>7, <1>7, <1>10 DEF ExactOn
  <1> QED BY <1>6, <1>7, <1>9, <1>10 DEF ExactInv

\* use: the disk's own row is registered, or no row of the disk was there.
LEMMA ExactUse ==
    ASSUME DevInv, TreeInv, WholeDisks, ExactInv, NEW k \in Disks, NEW i \in Images, Use(k, i)
    PROVE  ExactInv'
  <1> DEFINE r == [name |-> k, dev |-> k, start |-> 0, size |-> OpenSize(i)]
  <1>1. op.pc = "idle" /\ len' = len /\ tag' = tag /\ scanned' = scanned /\ mbrDisks' = mbrDisks
    BY DEF Use, Command, Idle, host
  <1>2. key \in [Disks -> Images \union {NoImage}] BY DEF DevInv
  <1>3. DOMAIN scanned = Disks \union Targets /\ \A d \in Disks : ExactOn(d)
    BY <1>1 DEF ExactInv
  <1>4. ASSUME NEW d \in Disks, key'[d] = key[d] PROVE Home(d)' = Home(d)
    <2>1. SizeOf(d)' = SizeOf(d)
      BY <1>1, <1>4 DEF SizeOf, OpenSize, RawOpen, VhdOpen, VmdkOpen
    <2> QED BY <1>1, <2>1 DEF Home
  <1>5. \A d \in Disks : Done(d) = Len(scanned[d]) BY <1>1 DEF Done
  <1>6. CASE CanRegister(rows, k)
    <2>1. rows' = Register(rows, r) /\ op' = [pc |-> "attached", name |-> k]
          /\ key' = [key EXCEPT ![k] = i]
      BY <1>6 DEF Use
    <2>2. op'.pc = "attached" /\ op'.name = k BY <2>1
    <2>3. r.name = k /\ k # Free.name BY NotOwnChild
    <2> HIDE DEF r
    <2>4. PICK s \in Slots :
              /\ rows[s].name = k \/ (SlotOf(rows, k) = {} /\ rows[s].name = Free.name)
              /\ \A t \in Slots : rows'[t] = IF t = s THEN r ELSE rows[t]
      BY <2>1, <2>3, <1>6, RegisterUnique
    <2>5. ASSUME NEW d \in Disks, d # k PROVE ExactOn(d)'
      <3>1. ExactOn(d) BY <1>3
      <3>2. key'[d] = key[d] BY <2>1, <2>5, <1>2
      <3>3. Home(d)' = Home(d) BY <3>2, <1>4
      <3>4. ~ChildOf(k, d) /\ ~ChildOf(Free.name, d) BY NoChild
      <3>5. \A t \in Slots : ChildOf(rows[t].name, d) \/ ChildOf(rows'[t].name, d)
                  => rows'[t] = rows[t]
        BY <2>3, <2>4, <3>4
      <3>6. Done(d)' = Done(d) /\ Done(d) \in Nat
        BY <1>1, <1>5, <2>2, <3>1 DEF Done, ExactOn
      <3>7. RowsAre(rows, d, scanned[d], Done(d)) BY <3>1 DEF ExactOn
      <3>8. RowsAre(rows', d, scanned[d], Done(d)) BY <3>5, <3>6, <3>7, RowsAreSame
      <3> QED BY <1>1, <3>1, <3>3, <3>6, <3>8 DEF ExactOn
    <2> QED BY <1>1, <1>3, <2>2, <2>5 DEF ExactInv
  <1>7. CASE ~CanRegister(rows, k)
    <2>1. rows' = rows /\ op'.pc = "idle" /\ key' = [key EXCEPT ![k] = NoImage]
      BY <1>7, <1>1 DEF Use
    <2>2. SlotOf(rows, k) = {} BY <1>7 DEF CanRegister
    <2>3. ASSUME NEW s \in Slots PROVE ~ChildOf(rows[s].name, k)
      <3>1. CASE rows[s] = Free BY <3>1, NoChild
      <3>2. CASE rows[s] # Free
        <4>1. RowOf(s) BY <3>2 DEF TreeInv
        <4>2. rows[s].dev # k BY <4>1, <2>2 DEF RowOf
        <4> QED BY <4>2, ChildRow
      <3> QED BY <3>1, <3>2
    <2>4. scanned[k] \in Seq(Home(k)) /\ RowsAre(rows, k, scanned[k], Len(scanned[k]))
      BY <1>3, <1>5 DEF ExactOn
    <2>5. Len(scanned[k]) \in Nat BY <2>4
    <2>6. Len(scanned[k]) = 0
      <3> SUFFICES ASSUME Len(scanned[k]) > 0 PROVE FALSE BY <2>5
      <3>1. 1 \in 1 .. Len(scanned[k]) BY <2>5
      <3>2. PICK s \in Slots : rows[s] = Child(k, 1, scanned[k][1]) BY <2>4, <3>1 DEF RowsAre
      <3>3. rows[s].name = <<k[1], <<1>>>> BY <3>2, ChildNamed
      <3>4. k = <<k[1], <<>>>> BY NameShape
      <3>5. ChildOf(<<k[1], <<1>>>>, k) BY <3>4, NumberedName
      <3> QED BY <2>3, <3>3, <3>5
    <2>7. ExactOn(k)'
      <3>1. scanned[k] = <<>> BY <2>4, <2>6, EmptySeq
      <3>2. PICK W : W = Home(k)' OBVIOUS
      <3>3. <<>> \in Seq(W) OBVIOUS
      <3>4. scanned'[k] \in Seq(Home(k)') BY <3>1, <3>2, <3>3, <1>1
      <3>5. Done(k)' = 0 BY <1>1, <2>1, <2>6 DEF Done
      <3>6. RowsAre(rows', k, scanned'[k], 0) BY <2>1, <2>3 DEF RowsAre
      <3> QED BY <3>4, <3>5, <3>6 DEF ExactOn
    <2>8. ASSUME NEW d \in Disks, d # k PROVE ExactOn(d)'
      <3>1. key'[d] = key[d] BY <2>1, <2>8, <1>2
      <3>2. Home(d)' = Home(d) BY <3>1, <1>4
      <3>3. Done(d)' = Done(d) BY <1>1, <1>5, <2>1 DEF Done
      <3> QED BY <1>1, <1>3, <2>1, <3>2, <3>3 DEF ExactOn
    <2> QED BY <1>1, <1>3, <2>1, <2>7, <2>8 DEF ExactInv
  <1> QED BY <1>6, <1>7

\* One more partition is registered, or the registry is full.
LEMMA ExactRegisterChild ==
    ASSUME DevInv, TreeInv, WholeDisks, ExactInv, RegisterChild
    PROVE  ExactInv'
  <1>1. PICK n : n = op.name OBVIOUS
  <1>2. PICK j : j = op.nth OBVIOUS
  <1>3. PICK found : found = op.found OBVIOUS
  <1>4. PICK q : q = scanned[n] OBVIOUS
  <1>5. PICK c : c = Child(n, j, found[j]) OBVIOUS
  <1>6. /\ op.pc = "scan" /\ n \in Attached /\ j \in Nat \ {0} /\ j <= Len(found)
        /\ rows' = Register(rows, c)
        /\ op'.pc = "scan" /\ op'.name = n /\ op'.found = found /\ op'.nth = j + 1
        /\ key' = key /\ len' = len /\ tag' = tag
    BY <1>1, <1>2, <1>3, <1>5, ChildRegistered
  <1>7. n \in Disks BY <1>6 DEF Attached
  <1>8. c.name = <<n[1], <<j>>>> /\ c.name # Free.name BY <1>5, <1>7, ChildNamed
  <1>9. scanned' = IF CanRegister(rows, c.name) THEN scanned
                   ELSE [scanned EXCEPT ![n] = SubSeq(q, 1, Min({Len(q), j - 1}))]
    BY <1>1, <1>2, <1>4, <1>8, ChildRegistered
  <1>10. \A d \in Disks : ExactOn(d) BY <1>6 DEF ExactInv
  <1>11. q \in Seq(Home(n)) /\ RowsAre(rows, n, q, Done(n))
    BY <1>4, <1>7, <1>10 DEF ExactOn
  <1>12. Len(q) \in Nat /\ Done(n) = IF j - 1 < Len(q) THEN j - 1 ELSE Len(q)
    BY <1>1, <1>2, <1>4, <1>6, <1>11 DEF Done
  <1>13. q = found \/ (Len(q) < j /\ SlotOf(rows, Free.name) = {})
    BY <1>1, <1>2, <1>3, <1>4, <1>6 DEF ExactInv
  <1>14. DOMAIN scanned' = Disks \union Targets /\ \A d \in Disks : d # n => scanned'[d] = scanned[d]
    BY <1>9 DEF ExactInv
  <1>15. \A d : Home(d)' = Home(d)
    <2>1. mbrDisks' = mbrDisks BY DEF RegisterChild
    <2>2. \A d : SizeOf(d)' = SizeOf(d) BY <1>6, SizeSame
    <2> QED BY <2>1, <2>2 DEF Home
  <1>16. n = <<n[1], <<>>>> BY <1>7, NameShape
  <1>17. ChildOf(c.name, n) BY <1>6, <1>8, <1>16, NumberedName
  <1>18. SlotOf(rows, c.name) = {}
    <2> SUFFICES ASSUME NEW s \in Slots, rows[s].name = c.name PROVE FALSE BY DEF SlotOf
    <2>1. PICK i \in 1 .. Done(n) : rows[s] = Child(n, i, q[i]) BY <1>11, <1>17 DEF RowsAre
    <2>2. rows[s].name = <<n[1], <<i>>>> BY <2>1, <1>7, ChildNamed
    <2>3. <<n[1], <<i>>>> = <<n[1], <<j>>>> BY <2>2, <1>8
    <2>4. <<n[1], <<i>>>>[2] = <<i>> /\ <<n[1], <<j>>>>[2] = <<j>> OBVIOUS
    <2>5. <<i>> = <<j>> BY <2>3, <2>4
    <2>6. i = j
      <3>1. <<i>>[1] = <<j>>[1] BY <2>5
      <3> QED BY <3>1
    <2> QED BY <2>6, <1>6, <1>12
  <1>19. CASE CanRegister(rows, c.name)
    <2>1. SlotOf(rows, Free.name) # {} BY <1>18, <1>19 DEF CanRegister
    <2>2. q = found /\ scanned' = scanned BY <2>1, <1>9, <1>13, <1>19
    <2>3. PICK s \in Slots :
              /\ rows[s].name = Free.name
              /\ \A t \in Slots : rows'[t] = IF t = s THEN c ELSE rows[t]
      <3>1. \E s \in Slots :
              /\ rows[s].name = c.name \/ (SlotOf(rows, c.name) = {} /\ rows[s].name = Free.name)
              /\ DOMAIN Register(rows, c) = Slots
              /\ \A t \in Slots : Register(rows, c)[t] = IF t = s THEN c ELSE rows[t]
              /\ \A t \in Slots : t # s => rows[t].name # c.name
        BY <1>8, <1>19, RegisterUnique
      <3> QED BY <3>1, <1>6, <1>18 DEF SlotOf
    <2>4. Done(n) = j - 1 /\ Done(n)' = j
      <3>1. j <= Len(q) BY <2>2, <1>6
      <3>2. Done(n) = j - 1 BY <3>1, <1>6, <1>12
      <3>3. scanned'[n] = q BY <2>2, <1>4
      <3>4. Done(n)' = IF (j + 1) - 1 < Len(q) THEN (j + 1) - 1 ELSE Len(q)
        BY <3>3, <1>6 DEF Done
      <3> QED BY <3>1, <3>2, <3>4, <1>6, <1>12
    <2>5. RowsAre(rows', n, q, j)
      <3>1. ASSUME NEW t \in Slots, ChildOf(rows'[t].name, n)
            PROVE  \E i \in 1 .. j : rows'[t] = Child(n, i, q[i])
        <4>1. CASE t = s
          <5>1. rows'[t] = Child(n, j, q[j]) BY <4>1, <2>2, <2>3, <1>5
          <5>2. j \in 1 .. j BY <1>6
          <5> QED BY <5>1, <5>2
        <4>2. CASE t # s
          <5>1. rows'[t] = rows[t] BY <4>2, <2>3
          <5>2. PICK i \in 1 .. Done(n) : rows[t] = Child(n, i, q[i])
            BY <5>1, <3>1, <1>11 DEF RowsAre
          <5>3. i \in 1 .. j BY <2>4, <1>6
          <5> QED BY <5>1, <5>2, <5>3
        <4> QED BY <4>1, <4>2
      <3>2. ASSUME NEW i \in 1 .. j PROVE \E t \in Slots : rows'[t] = Child(n, i, q[i])
        <4>1. CASE i = j
          <5>1. rows'[s] = Child(n, i, q[i]) BY <4>1, <2>2, <2>3, <1>5
          <5> QED BY <5>1
        <4>2. CASE i # j
          <5>1. i \in 1 .. Done(n) BY <4>2, <2>4, <1>6
          <5>2. PICK t \in Slots : rows[t] = Child(n, i, q[i]) BY <5>1, <1>11 DEF RowsAre
          <5>3. rows[t].name # Free.name BY <5>2, <1>7, ChildNamed
          <5>4. rows'[t] = rows[t] BY <5>3, <2>3
          <5> QED BY <5>2, <5>4
        <4> QED BY <4>1, <4>2
      <3> QED BY <3>1, <3>2 DEF RowsAre
    <2>6. ExactOn(n)'
      <3>1. scanned'[n] = q BY <2>2, <1>4
      <3> QED BY <3>1, <2>4, <2>5, <1>11, <1>15 DEF ExactOn
    <2>7. ASSUME NEW d \in Disks, d # n PROVE ExactOn(d)'
      <3>1. scanned[d] \in Seq(Home(d)) /\ RowsAre(rows, d, scanned[d], Done(d))
        BY <1>10 DEF ExactOn
      <3>2. Done(d)' = Done(d) /\ Done(d) = Len(scanned[d])
        BY <2>2, <2>7, <1>1, <1>6 DEF Done
      <3>3. Done(d) \in Nat BY <3>1, <3>2
      <3>4. ~ChildOf(Free.name, d) /\ ~ChildOf(c.name, d) BY <1>7, <1>17, <2>7, OneParent, NoChild
      <3>5. \A t \in Slots : ChildOf(rows[t].name, d) \/ ChildOf(rows'[t].name, d)
                  => rows'[t] = rows[t]
        BY <2>3, <3>4
      <3>6. RowsAre(rows', d, scanned[d], Done(d)) BY <3>1, <3>3, <3>5, RowsAreSame
      <3> QED BY <2>2, <3>1, <3>2, <3>6, <1>15 DEF ExactOn
    <2>8. scanned'[op'.name] = op'.found BY <2>2, <1>4, <1>6
    <2> QED BY <1>6, <1>14, <2>6, <2>7, <2>8 DEF ExactInv
  <1>20. CASE ~CanRegister(rows, c.name)
    <2>1. rows' = rows /\ SlotOf(rows, Free.name) = {}
      BY <1>6, <1>20 DEF Register, CanRegister
    <2>2. PICK m : m = Min({Len(q), j - 1}) OBVIOUS
    <2>3. m = Done(n) /\ m \in 0 .. Len(q) /\ m < j
      <3>1. m = IF j - 1 < Len(q) THEN j - 1 ELSE Len(q) BY <2>2, <1>6, <1>12 DEF Min
      <3> QED BY <3>1, <1>6, <1>12
    <2>4. scanned'[n] = SubSeq(q, 1, m)
      <3>1. n \in DOMAIN scanned BY <1>7 DEF ExactInv
      <3> QED BY <3>1, <2>2, <1>9, <1>20
    <2>5. SubSeq(q, 1, m) \in Seq(Home(n)) /\ Len(SubSeq(q, 1, m)) = m
          /\ \A i \in 1 .. m : SubSeq(q, 1, m)[i] = q[i]
      <3>1. PICK W : W = Home(n) OBVIOUS
      <3>2. q \in Seq(W) BY <3>1, <1>11
      <3>3. SubSeq(q, 1, m) \in Seq(W) /\ Len(SubSeq(q, 1, m)) = m
        BY <3>2, <2>3
      <3>4. \A i \in 1 .. m : SubSeq(q, 1, m)[i] = q[i] BY <3>2, <2>3
      <3> QED BY <3>1, <3>3, <3>4
    <2>6. Done(n)' = m BY <2>3, <2>4, <2>5, <1>6 DEF Done
    <2>7. RowsAre(rows', n, SubSeq(q, 1, m), m) BY <2>1, <2>3, <2>5, <1>11 DEF RowsAre
    <2>8. ExactOn(n)' BY <2>4, <2>5, <2>6, <2>7, <1>15 DEF ExactOn
    <2>9. ASSUME NEW d \in Disks, d # n PROVE ExactOn(d)'
      <3>1. ExactOn(d) /\ scanned'[d] = scanned[d] BY <1>10, <1>14, <2>9
      <3>2. Done(d)' = Done(d) BY <3>1, <2>9, <1>1, <1>6 DEF Done
      <3> QED BY <3>1, <3>2, <2>1, <1>15 DEF ExactOn
    <2>10. Len(scanned'[n]) < op'.nth BY <2>3, <2>4, <2>5, <1>6
    <2> QED BY <1>6, <1>14, <2>1, <2>8, <2>9, <2>10 DEF ExactInv
  <1> QED BY <1>19, <1>20

\* The scan is over: every range that is recorded has its row.
LEMMA ExactEndScan ==
    ASSUME DevInv, ExactInv, EndScan
    PROVE  ExactInv'
  <1>1. op.pc = "scan" /\ op.nth > Len(op.found) /\ op'.pc = "idle" /\ rows' = rows /\ key' = key
        /\ len' = len /\ tag' = tag /\ scanned' = scanned /\ mbrDisks' = mbrDisks
    BY DEF EndScan, Idle, host
  <1>2. op.nth \in Nat BY <1>1 DEF DevInv, OpFields
  <1>3. ASSUME NEW k \in Disks PROVE ExactOn(k)'
    <2>1. ExactOn(k) BY <1>1 DEF ExactInv
    <2>2. Home(k)' = Home(k)
      <3>1. SizeOf(k)' = SizeOf(k) BY <1>1, SizeSame
      <3> QED BY <1>1, <3>1 DEF Home
    <2>3. Len(scanned[k]) \in Nat BY <2>1 DEF ExactOn
    <2>4. op.name = k => op.nth > Len(scanned[k]) BY <1>1, <1>2, <2>3 DEF ExactInv
    <2>5. Done(k) = Len(scanned[k]) BY <2>3, <2>4, <1>2 DEF Done
    <2>6. Done(k)' = Len(scanned[k]) BY <1>1 DEF Done
    <2> QED BY <1>1, <2>1, <2>2, <2>5, <2>6 DEF ExactOn
  <1> QED BY <1>1, <1>3 DEF ExactInv

\* create leaves the sizes of attached images alone.
LEMMA CreateSizes ==
    ASSUME DevInv, ImageInv, TreeInv, CreateStep, NEW k \in Attached
    PROVE  SizeOf(k)' = SizeOf(k)
  <1> DEFINE i == op.image
             step == Head(op.todo)
  <1>1. op.pc = "create" /\ key' = key
        /\ len' = (CASE step = "data" -> [len EXCEPT ![i] = 0]
                     [] step = "size" -> [len EXCEPT ![i] = op.size]
                     [] OTHER -> len)
        /\ tag' = (CASE step = "untag" \/ (step = "data" /\ Format[i] = "vhd")
                          -> [tag EXCEPT ![i] = 0]
                     [] step = "tag" -> [tag EXCEPT ![i] = op.size]
                     [] OTHER -> tag)
    BY DEF CreateStep
  <1>2. key[k] # i BY <1>1 DEF TreeInv
  <1> HIDE DEF i, step
  <1>3. key[k] \in Images BY DEF DevInv, Attached
  <1>4. len' \in {[len EXCEPT ![i] = 0], [len EXCEPT ![i] = op.size], len} BY <1>1
  <1>5. tag' \in {[tag EXCEPT ![i] = 0], [tag EXCEPT ![i] = op.size], tag} BY <1>1
  <1>6. len'[key[k]] = len[key[k]] /\ tag'[key[k]] = tag[key[k]]
    BY <1>2, <1>3, <1>4, <1>5 DEF ImageInv
  <1>7. key'[k] = key[k] /\ Format[key[k]] \in {"raw", "vhd", "vmdk"}
    BY <1>1, <1>3, ImagesAssumption DEF Formats
  <1> QED BY <1>6, <1>7 DEF SizeOf, OpenSize, RawOpen, VhdOpen, VmdkOpen

\* Every step keeps the rows those of the last scan.
LEMMA ExactNext ==
    WholeDisks /\ DevInv /\ ImageInv /\ TreeInv /\ MbrRanges /\ ExactInv /\ [Next]_vars => ExactInv'
  <1> SUFFICES ASSUME WholeDisks, DevInv, ImageInv, TreeInv, MbrRanges, ExactInv, [Next]_vars
               PROVE  ExactInv'
    OBVIOUS
  <1>i. Idle.pc = "idle" BY DEF Idle
  <1>1. ASSUME NEW k \in Disks, NEW i \in Images, Use(k, i) PROVE ExactInv' BY <1>1, ExactUse
  <1>2. ASSUME AddDisk PROVE ExactInv'
    <2>1. PICK n : n = op.name OBVIOUS
    <2>2. op.pc = "attached" /\ StartScan(rows, n, Scan(RowNamed(rows, n)))
          /\ key' = key /\ len' = len /\ tag' = tag
      BY <1>2, <2>1 DEF AddDisk, host
    <2>3. Rescans BY <2>2 DEF Rescans
    <2>4. n \in Disks \union Targets /\ SlotOf(rows, n) # {} BY <2>1, <2>3 DEF DevInv
    <2> QED BY <2>1, <2>2, <2>4, ExactStartScan
  <1>3. ASSUME RegisterChild PROVE ExactInv' BY <1>3, ExactRegisterChild
  <1>4. ASSUME EndScan PROVE ExactInv' BY <1>4, ExactEndScan
  <1>5. ASSUME NEW n \in Targets, Partscan(n) PROVE ExactInv'
    <2>1. op.pc = "idle" /\ SlotOf(rows, n) # {} /\ StartScan(rows, n, Scan(RowNamed(rows, n)))
          /\ key' = key /\ len' = len /\ tag' = tag
      BY <1>5, <1>i DEF Partscan, Command, host
    <2> QED BY <2>1, ExactStartScan
  <1>6. ASSUME Written PROVE ExactInv'
    <2>1. PICK n : n = op.name OBVIOUS
    <2>2. op.pc = "write" /\ op.cmd # "raw" /\ StartScan(rows, n, Scan(RowNamed(rows, n)))
          /\ key' = key /\ len' = len /\ tag' = tag
      BY <1>6, <2>1 DEF Written, host
    <2>3. Rescans BY <2>2 DEF Rescans
    <2>4. n \in Disks \union Targets /\ SlotOf(rows, n) # {} BY <2>1, <2>3 DEF DevInv
    <2> QED BY <2>2, <2>4, ExactStartScan
  <1>q. ASSUME rows' = rows, key' = key, scanned' = scanned, mbrDisks' = mbrDisks,
               len' = len, tag' = tag,
               op.pc \notin {"attached", "scan"}, op'.pc \notin {"attached", "scan"}
        PROVE  ExactInv'
    <2>1. \A k \in Attached : SizeOf(k)' = SizeOf(k) BY <1>q, SizeSame
    <2> QED BY <2>1, <1>q, ExactSame
  <1>f. op.pc = "write" => {"pc", "name", "cmd", "todo", "key"} \subseteq DOMAIN op
    BY DEF DevInv, OpFields
  <1>7. ASSUME NEW n \in Targets, MbrInstall(n) PROVE ExactInv'
    BY <1>7, <1>i, <1>q DEF MbrInstall, Command
  <1>8. ASSUME NEW n \in Targets, GptInit(n) PROVE ExactInv'
    BY <1>8, <1>i, <1>q DEF GptInit, Command, host
  <1>9. ASSUME NEW n \in Targets, NEW req \in Requests, GptAdd(n, req) PROVE ExactInv'
    BY <1>9, <1>i, <1>q DEF GptAdd, Command, host
  <1>10. ASSUME WriteSector PROVE ExactInv'
    <2>1. op.pc = "write" /\ op' = [op EXCEPT !.todo = Tail(@)] BY <1>10 DEF WriteSector
    <2>2. op'.pc = "write" BY <2>1, <1>f
    <2> QED BY <2>1, <2>2, <1>10, <1>q DEF WriteSector
  <1>11. ASSUME WriteFails PROVE ExactInv'
    <2>1. op.pc = "write" /\ (op' = Idle \/ op' = [op EXCEPT !.todo = Tail(@)])
      BY <1>11 DEF WriteFails
    <2>2. op'.pc = "write" \/ op'.pc = "idle" BY <2>1, <1>f, <1>i
    <2> QED BY <2>1, <2>2, <1>11, <1>q DEF WriteFails, host
  <1>12. ASSUME NEW i \in Images, NEW n \in Sizes, NEW mbr \in BOOLEAN, Create(i, n, mbr)
         PROVE  ExactInv'
    <2>1. op'.pc = "create" BY <1>12 DEF Create
    <2> QED BY <2>1, <1>12, <1>i, <1>q DEF Create, Command, host
  <1>13. ASSUME CreateStep PROVE ExactInv'
    <2>1. op.pc = "create" /\ rows' = rows /\ key' = key /\ scanned' = scanned
          /\ mbrDisks' = mbrDisks
          /\ op' = IF Len(op.todo) = 1 THEN Idle ELSE [op EXCEPT !.todo = Tail(@)]
      BY <1>13 DEF CreateStep
    <2>2. {"pc", "image", "size", "todo"} \subseteq DOMAIN op BY <2>1 DEF ImageInv
    <2>3. op'.pc = "create" \/ op'.pc = "idle"
      <3>1. CASE op' = Idle BY <3>1, <1>i
      <3>2. CASE op' = [op EXCEPT !.todo = Tail(@)] BY <3>2, <2>1, <2>2
      <3> QED BY <2>1, <3>1, <3>2
    <2>4. \A k \in Attached : SizeOf(k)' = SizeOf(k) BY <1>13, CreateSizes
    <2> QED BY <2>1, <2>3, <2>4, ExactSame
  <1>14. ASSUME CreateFails PROVE ExactInv' BY <1>14, <1>i, <1>q DEF CreateFails, host
  <1>15. ASSUME NEW n \in Parts, NEW f \in HostFiles, RawWrite(n, f) PROVE ExactInv'
    <2>1. op'.pc = "write" BY <1>15 DEF RawWrite
    <2> QED BY <2>1, <1>15, <1>i, <1>q DEF RawWrite, Command, host
  <1>16. ASSUME RawWritten PROVE ExactInv' BY <1>16, <1>i, <1>q DEF RawWritten, host
  <1>17. ASSUME NEW n \in Targets \union Parts, NEW m \in MountPoints, Mount(n, m)
         PROVE  ExactInv'
    BY <1>17, <1>i, <1>q DEF Mount, Command, host
  <1>18. ASSUME Crash PROVE ExactInv'
    <2>1. rows' = [s \in Slots |-> Free] /\ op'.pc = "idle"
          /\ scanned' = [n \in DOMAIN scanned |-> <<>>]
      BY <1>18, <1>i DEF Crash
    <2>2. DOMAIN scanned' = Disks \union Targets /\ \A k \in Disks : scanned'[k] = <<>>
      BY <2>1 DEF ExactInv
    <2>3. ASSUME NEW k \in Disks PROVE ExactOn(k)'
      <3>1. PICK W : W = Home(k)' OBVIOUS
      <3>2. <<>> \in Seq(W) /\ Len(<<>>) = 0 OBVIOUS
      <3>3. Done(k)' = 0 BY <2>1, <2>2, <3>2 DEF Done
      <3>4. \A s \in Slots : ~ChildOf(rows'[s].name, k) BY <2>1, NoChild
      <3>5. RowsAre(rows', k, scanned'[k], 0) BY <3>4 DEF RowsAre
      <3> QED BY <2>2, <3>1, <3>2, <3>3, <3>5 DEF ExactOn
    <2> QED BY <2>1, <2>2, <2>3 DEF ExactInv
  <1>19. ASSUME UNCHANGED vars PROVE ExactInv'
    <2>1. rows' = rows /\ key' = key /\ op' = op /\ len' = len /\ tag' = tag /\ scanned' = scanned
          /\ mbrDisks' = mbrDisks
      BY <1>19 DEF vars
    <2>2. \A k \in Disks : Home(k)' = Home(k)
      <3>1. \A k \in Disks : SizeOf(k)' = SizeOf(k) BY <2>1, SizeSame
      <3> QED BY <2>1, <3>1 DEF Home
    <2>3. \A k \in Disks : ExactOn(k)' <=> ExactOn(k) BY <2>1, <2>2 DEF ExactOn, Done
    <2> QED BY <2>1, <2>3 DEF ExactInv
  <1> QED BY <1>1, <1>2, <1>3, <1>4, <1>5, <1>6, <1>7, <1>8, <1>9, <1>10, <1>11, <1>12,
             <1>13, <1>14, <1>15, <1>16, <1>17, <1>18, <1>19 DEF Next

\* No disk has been scanned at the start.
LEMMA ExactInit == WholeDisks /\ Init => ExactInv
  <1> SUFFICES ASSUME WholeDisks, Init PROVE ExactInv OBVIOUS
  <1>1. rows = [s \in Slots |-> Free] /\ op.pc = "idle"
        /\ scanned = [n \in Disks \union Targets |-> <<>>]
    BY DEF Init, Idle
  <1>2. ASSUME NEW k \in Disks PROVE ExactOn(k)
    <2>1. PICK W : W = Home(k) OBVIOUS
    <2>2. <<>> \in Seq(W) /\ Len(<<>>) = 0 /\ scanned[k] = <<>> BY <1>1
    <2>3. Done(k) = 0 BY <1>1, <2>2 DEF Done
    <2>4. \A s \in Slots : ~ChildOf(rows[s].name, k) BY <1>1, NoChild
    <2>5. RowsAre(rows, k, scanned[k], 0) BY <2>4 DEF RowsAre
    <2> QED BY <2>1, <2>2, <2>3, <2>5 DEF ExactOn
  <1> QED BY <1>1, <1>2 DEF ExactInv

\* Between commands the rows are as RowsExact says.
LEMMA ExactShows ==
    ASSUME WholeDisks, DevInv, ImageInv, TreeInv, ExactInv
    PROVE  RowsExact
  <1> SUFFICES ASSUME op = Idle PROVE RowsExact BY DEF RowsExact
  <1>1. op.pc = "idle" BY DEF Idle
  <1>2. ASSUME NEW k \in Disks
        PROVE  /\ scanned[k] \in Seq(Home(k))
               /\ RowsAre(rows, k, scanned[k], Len(scanned[k])) /\ SizeOf(k) \in Nat
    <2>1. ExactOn(k) /\ Done(k) = Len(scanned[k]) BY <1>1 DEF ExactInv, Done
    <2>2. SizeOf(k) \in Nat BY SizeBound, BoundsAssumption
    <2> QED BY <2>1, <2>2 DEF ExactOn
  <1>3. ASSUME NEW k \in Disks, NEW j \in 1 .. Len(scanned[k])
        PROVE  scanned[k][j] \in Home(k)
    <2>1. PICK W : W = Home(k) OBVIOUS
    <2>2. scanned[k] \in Seq(W) BY <1>2, <2>1
    <2>3. scanned[k][j] \in W BY <2>2
    <2> QED BY <2>1, <2>3
  <1>4. ASSUME NEW s \in Slots, rows[s] # Free
        PROVE  /\ rows[s].dev \in Attached
               /\ \/ rows[s].start + rows[s].size <= SizeOf(rows[s].dev)
                  \/ rows[s].name # rows[s].dev /\ rows[s].dev \in mbrDisks
    <2>1. RowOf(s) BY <1>4 DEF TreeInv
    <2>2. PICK k : k = rows[s].dev OBVIOUS
    <2>3. k \in Attached /\ k \in Disks BY <2>1, <2>2 DEF RowOf, Attached
    <2>4. CASE rows[s] = WholeDisk(k)
      <3>1. rows[s].start = 0 /\ rows[s].size = SizeOf(k) BY <2>4 DEF WholeDisk
      <3>2. SizeOf(k) \in Nat BY <1>2, <2>3
      <3> QED BY <3>1, <3>2, <2>2, <2>3
    <2>5. CASE rows[s] # WholeDisk(k)
      <3>1. PICK i \in Nat \ {0} : rows[s].name = <<k[1], <<i>>>> BY <2>1, <2>2, <2>5 DEF RowOf
      <3>2. k = <<k[1], <<>>>> BY <2>3, NameShape
      <3>3. ChildOf(rows[s].name, k) BY <3>1, <3>2, NumberedName
      <3>4. PICK j \in 1 .. Len(scanned[k]) : rows[s] = Child(k, j, scanned[k][j])
        BY <3>3, <2>3, <1>2 DEF RowsAre
      <3>5. PICK p : p = scanned[k][j] OBVIOUS
      <3>6. p \in Home(k) BY <3>5, <2>3, <1>3
      <3>7. rows[s].start = p[1] /\ rows[s].size = p[2] - p[1] + 1 BY <3>4, <3>5 DEF Child
      <3>8. SizeOf(k) \in Nat BY <1>2, <2>3
      <3>9. CASE k \in mbrDisks
        <4>1. rows[s].name # k BY <3>3, <2>3, NoChild
        <4> QED BY <3>9, <4>1, <2>2, <2>3
      <3>10. CASE k \notin mbrDisks
        <4>1. p \in Within(SizeOf(k)) BY <3>6, <3>10 DEF Home
        <4> QED BY <4>1, <3>7, <3>8, <2>2, <2>3 DEF Within
      <3> QED BY <3>9, <3>10
    <2> QED BY <2>4, <2>5
  <1>5. ASSUME NEW k \in Disks
        PROVE  {<<rows[s].name[2], rows[s].start, rows[s].start + rows[s].size - 1>> :
                    s \in {x \in Slots : ChildOf(rows[x].name, k)}}
               = {<<Append(k[2], j), scanned[k][j][1], scanned[k][j][2]>> :
                    j \in 1 .. Len(scanned[k])}
    <2> DEFINE F(s) == <<rows[s].name[2], rows[s].start, rows[s].start + rows[s].size - 1>>
               G(j) == <<Append(k[2], j), scanned[k][j][1], scanned[k][j][2]>>
    <2>1. k = <<k[1], <<>>>> BY NameShape
    <2>2. ASSUME NEW s \in Slots, NEW j \in 1 .. Len(scanned[k]),
                 rows[s] = Child(k, j, scanned[k][j])
          PROVE  F(s) = G(j) /\ ChildOf(rows[s].name, k)
      <3>1. PICK p : p = scanned[k][j] OBVIOUS
      <3>2. p \in Home(k) BY <3>1, <1>3
      <3>3. p \in Nat \X Nat BY <3>2 DEF Home, Somewhere, Within
      <3>4. rows[s].start = p[1] /\ rows[s].size = p[2] - p[1] + 1
            /\ rows[s].name = <<k[1], <<j>>>>
        BY <2>2, <3>1 DEF Child
      <3>5. rows[s].start + rows[s].size - 1 = p[2] BY <3>3, <3>4
      <3>6. k[2] = <<>> BY <2>1
      <3>7. Append(k[2], j) = <<j>> BY <3>6
      <3>8. rows[s].name[2] = <<j>> BY <3>4
      <3>9. ChildOf(rows[s].name, k) BY <2>1, <3>4, NumberedName
      <3> QED BY <3>1, <3>4, <3>5, <3>7, <3>8, <3>9
    <2> HIDE DEF F, G
    <2>3. \A s \in Slots : ChildOf(rows[s].name, k) =>
              \E j \in 1 .. Len(scanned[k]) : F(s) = G(j)
      BY <1>2, <2>2 DEF RowsAre
    <2>4. \A j \in 1 .. Len(scanned[k]) :
              \E s \in {x \in Slots : ChildOf(rows[x].name, k)} : F(s) = G(j)
      BY <1>2, <2>2 DEF RowsAre
    <2>5. {F(s) : s \in {x \in Slots : ChildOf(rows[x].name, k)}} = {G(j) : j \in 1 .. Len(scanned[k])}
      BY <2>3, <2>4
    <2> QED BY <2>5 DEF F, G
  <1>6. \A s, t \in Slots : rows[s] # Free /\ rows[s].name = rows[t].name => s = t BY DEF TreeInv
  <1> QED BY <1>4, <1>5, <1>6 DEF RowsExact

\* Whatever commands, failed writes and crashes there were, as long as use and
\* the commands that rescan are given whole disks: between commands
\* vblk_register and vblk_remove_children have left exactly one row per
\* partition the last disk_scan_partitions found and had room for, each on an
\* attached image and, unless an MBR stated it, inside it.
THEOREM RowsExactCorrect ==
    ASSUME MediaOK, OptionsOK, WholeDisks
    PROVE  Spec /\ []MbrRanges => []RowsExact
  <1> DEFINE Inv == DevInv /\ ImageInv /\ AddInv /\ TreeInv /\ ExactInv
  <1>1. Init => Inv
    <2>1. Init => AddInv BY DEF Init, AddInv, Adding, Idle
    <2> QED BY <2>1, DevInit, ImageInit, TreeInit, ExactInit
  <1>2. Inv /\ MbrRanges /\ [Next]_vars => Inv' BY DevNext, AddNext, TreeNext, ExactNext
  <1>3. Inv => RowsExact BY ExactShows
  <1> QED BY <1>1, <1>2, <1>3, PTL DEF Spec

==============================================================================
