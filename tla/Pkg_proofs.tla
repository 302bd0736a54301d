----------------------------- MODULE Pkg_proofs -----------------------------
(***************************************************************************)
(* Proofs about Pkg, for every set of packages, triggers and scripts, with *)
(* commands that stop at any step, walks that lose files and rewrites that *)
(* empty the file they write: PkgInv is inductive.  It says how far the    *)
(* running command has come, which is what the order of its writes is for. *)
(***************************************************************************)
EXTENDS Pkg, WellFoundedInduction, TLAPS

Stanzas == [pkg : Packages, state : {"unpacked", "installed"}]
Ops == [pc : Pcs, pkg : Packages, todo : SUBSET Items]
Losts == [lists : SUBSET Packages, control : SUBSET (Packages \X ControlFiles),
          interests : SUBSET (Triggers \X Packages), diversions : SUBSET Diversions,
          triggers : SUBSET Triggers, cache : SUBSET Packages]

------------------------------------------------------------------------------
(* The status file                                                           *)

\* What vfs_read reads of the status file is a prefix of it.
LEMMA ReadPrefix ==
    ASSUME TypeOK
    PROVE  /\ ReadStatus \in Seq(Stanzas) /\ Len(ReadStatus) <= Len(status)
           /\ \A k \in 1 .. Len(ReadStatus) : ReadStatus[k] = status[k]
  <1> DEFINE n == IF Len(status) < ReadLimit THEN Len(status) ELSE ReadLimit
  <1>1. status \in Seq(Stanzas) /\ n \in 0 .. Len(status)
    BY LimitsAssumption DEF TypeOK, Stanzas
  <1>2. ReadStatus = SubSeq(status, 1, n) BY DEF ReadStatus
  <1> HIDE DEF n
  <1> QED BY <1>1, <1>2

\* pkg_state_set_installed keeps the packages and the order of what it read, and
\* changes the state of the one package only.
LEMMA MarkFacts ==
    ASSUME NEW s \in Seq(Stanzas), NEW p \in Packages
    PROVE  /\ MarkInstalled(s, p) \in Seq(Stanzas)
           /\ Len(MarkInstalled(s, p)) = Len(s)
           /\ \A k \in 1 .. Len(s) :
                 /\ MarkInstalled(s, p)[k].pkg = s[k].pkg
                 /\ MarkInstalled(s, p)[k].state = IF s[k].pkg = p THEN "installed" ELSE s[k].state
  <1>1. \A k \in 1 .. Len(s) : s[k] \in Stanzas OBVIOUS
  <1>2. \A k \in 1 .. Len(s) : (IF s[k].pkg = p THEN Stanza(p, "installed") ELSE s[k]) \in Stanzas
    BY <1>1 DEF Stanza, Stanzas
  <1>3. MarkInstalled(s, p) \in [1 .. Len(s) -> Stanzas] BY <1>2 DEF MarkInstalled
  <1>4. MarkInstalled(s, p) \in Seq(Stanzas) /\ Len(MarkInstalled(s, p)) = Len(s)
    BY <1>3
  <1> QED BY <1>1, <1>4 DEF MarkInstalled, Stanza, Stanzas

\* The same for the file as a whole.
LEMMA RewriteFacts ==
    ASSUME TypeOK, NEW p \in Packages
    PROVE  LET s == MarkInstalled(ReadStatus, p)
           IN  /\ s \in Seq(Stanzas) /\ Len(s) <= Len(status)
               /\ \A k \in 1 .. Len(s) :
                     /\ s[k].pkg = status[k].pkg
                     /\ s[k].state = IF status[k].pkg = p THEN "installed" ELSE status[k].state
  <1>1. /\ ReadStatus \in Seq(Stanzas) /\ Len(ReadStatus) <= Len(status)
        /\ \A k \in 1 .. Len(ReadStatus) : ReadStatus[k] = status[k]
    BY ReadPrefix
  <1> DEFINE r == ReadStatus
  <1>2. r \in Seq(Stanzas) BY <1>1
  <1> HIDE DEF r
  <1>3. /\ MarkInstalled(r, p) \in Seq(Stanzas)
        /\ Len(MarkInstalled(r, p)) = Len(r)
        /\ \A k \in 1 .. Len(r) :
              /\ MarkInstalled(r, p)[k].pkg = r[k].pkg
              /\ MarkInstalled(r, p)[k].state = IF r[k].pkg = p THEN "installed" ELSE r[k].state
    BY <1>2, MarkFacts
  <1> QED BY <1>1, <1>3 DEF r

------------------------------------------------------------------------------
(* The inductive invariant                                                   *)

LEMMA InitInv == Init => PkgInv
  BY LdAssumption, LimitsAssumption
  DEF Init, Idle, PkgInv, TypeOK, Pcs, RegisteredComplete, LibrariesCached,
     InstallPhase, ConfigurePhase, Installing, Places

\* An idle program has no phase to be in.
LEMMA IdlePhases == op' = Idle => op' \in Ops /\ op'.todo = {} /\ InstallPhase' /\ ConfigurePhase'
  BY LdAssumption DEF Idle, Ops, Pcs, InstallPhase, ConfigurePhase, Installing

\* While one command writes files other than the status file, registered packages
\* lose nothing as long as a record is only ever added, restored or noted as lost.
LEMMA GrowKeeps ==
    ASSUME PkgInv, status' = status,
           payload \union damaged \subseteq payload' \union damaged', damaged \subseteq damaged',
           listed \union lost.lists \subseteq listed' \union lost'.lists,
           control \union lost.control \subseteq control' \union lost'.control,
           interests \union lost.interests \subseteq interests' \union lost'.interests,
           diverted \union lost.diversions \subseteq diverted' \union lost'.diversions,
           pending \union lost.triggers \subseteq pending' \union lost'.triggers,
           cache \union lost.cache \subseteq cache' \union lost'.cache
    PROVE  RegisteredComplete' /\ LibrariesCached'
  <1>1. RegisteredComplete' BY DEF PkgInv, RegisteredComplete
  <1>2. LibrariesCached' BY DEF PkgInv, LibrariesCached
  <1> QED BY <1>1, <1>2

\* The actions of pkg install that write, or read what they write.
LEMMA InstallStep ==
    ASSUME PkgInv,
           \/ \E p \in Packages : Install(p)
           \/ Divert \/ Unpack \/ UnpackDamages \/ WriteList \/ CopyControl \/ ReadInterests
           \/ RegisterInterest
    PROVE  PkgInv'
  <1> USE ScriptsAssumption DEF Ops, Losts, Items
  <1>0. TypeOK /\ op \in Ops /\ lost \in Losts /\ InstallPhase BY DEF PkgInv, TypeOK
  <1>1. ASSUME NEW p \in Packages, Install(p) PROVE PkgInv'
    <2>1. TypeOK' BY <1>0, <1>1 DEF Install, Begin, files, TypeOK, Pcs
    <2>2. RegisteredComplete' /\ LibrariesCached' BY <1>1, GrowKeeps DEF Install, files
    <2>3. InstallPhase' /\ ConfigurePhase'
      BY <1>0, <1>1 DEF Install, Begin, files, InstallPhase, ConfigurePhase, Installing
    <2> QED BY <2>1, <2>2, <2>3 DEF PkgInv
  <1>2. ASSUME Divert PROVE PkgInv'
    <2> PICK d \in op.todo :
          /\ diverted' = diverted \union {d} /\ lost' = [lost EXCEPT !.diversions = @ \ {d}]
          /\ Did(d)
      BY <1>2 DEF Divert
    <2>0. d \in Diversions BY <1>0, <1>2 DEF Divert, At, TypeOK
    <2>1. TypeOK' BY <1>0, <1>2, <2>0 DEF Divert, Did, At, TypeOK, Pcs
    <2>2. RegisteredComplete' /\ LibrariesCached' BY <1>0, <1>2, GrowKeeps DEF Divert
    <2>3. InstallPhase' /\ ConfigurePhase'
      BY <1>0, <1>2 DEF Divert, Did, At, InstallPhase, ConfigurePhase, Installing
    <2> QED BY <2>1, <2>2, <2>3 DEF PkgInv
  <1>3. CASE Unpack
    <2>1. TypeOK' BY <1>0, <1>3 DEF Unpack, Goto, TypeOK, Pcs
    <2>2. RegisteredComplete' /\ LibrariesCached' BY <1>3, GrowKeeps DEF Unpack
    <2>3. InstallPhase' /\ ConfigurePhase'
      BY <1>0, <1>3 DEF Unpack, Goto, At, InstallPhase, ConfigurePhase, Installing
    <2> QED BY <2>1, <2>2, <2>3 DEF PkgInv
  <1>4. CASE UnpackDamages
    <2>1. RegisteredComplete' /\ LibrariesCached' BY <1>4, GrowKeeps DEF UnpackDamages
    <2>2. op' \in Ops /\ op'.todo = {} /\ InstallPhase' /\ ConfigurePhase'
      <3>1. CASE Return BY <3>1, IdlePhases DEF Return
      <3>2. CASE Goto("list", {})
        BY <1>0, <1>4, <3>2
        DEF UnpackDamages, Goto, At, InstallPhase, ConfigurePhase, Installing, Pcs
      <3> QED BY <1>4, <3>1, <3>2 DEF UnpackDamages
    <2>3. TypeOK' BY <1>0, <1>4, <2>2 DEF UnpackDamages, TypeOK
    <2> QED BY <2>1, <2>2, <2>3 DEF PkgInv
  <1>5. CASE WriteList
    <2>1. TypeOK' BY <1>0, <1>5 DEF WriteList, Goto, TypeOK, Pcs
    <2>2. RegisteredComplete' /\ LibrariesCached' BY <1>0, <1>5, GrowKeeps DEF WriteList
    <2>3. InstallPhase' /\ ConfigurePhase'
      BY <1>0, <1>5 DEF WriteList, Goto, At, InstallPhase, ConfigurePhase, Installing
    <2> QED BY <2>1, <2>2, <2>3 DEF PkgInv
  <1>6. ASSUME CopyControl PROVE PkgInv'
    <2> PICK f \in op.todo :
          /\ control' = control \union {<<op.pkg, f>>}
          /\ lost' = [lost EXCEPT !.control = @ \ {<<op.pkg, f>>}]
          /\ Did(f)
      BY <1>6 DEF CopyControl
    <2>0. f \in ControlFiles BY <1>0, <1>6 DEF CopyControl, At, TypeOK
    <2>1. TypeOK'
      <3>1. op' \in Ops /\ op'.pc = "control" /\ op'.todo \subseteq ControlFiles
        BY <1>0, <1>6 DEF CopyControl, Did, At, TypeOK
      <3>2. lost' \in Losts BY <1>0
      <3>3. control' \subseteq Packages \X ControlFiles BY <1>0, <2>0 DEF TypeOK
      <3> QED BY <1>0, <1>6, <3>1, <3>2, <3>3 DEF CopyControl, TypeOK
    <2>2. RegisteredComplete' /\ LibrariesCached' BY <1>0, <1>6, GrowKeeps DEF CopyControl
    <2>3. InstallPhase' /\ ConfigurePhase'
      BY <1>0, <1>6 DEF CopyControl, Did, At, InstallPhase, ConfigurePhase, Installing
    <2> QED BY <2>1, <2>2, <2>3 DEF PkgInv
  <1>7. CASE ReadInterests
    <2>1. TypeOK' BY <1>0, <1>7 DEF ReadInterests, files, Goto, TypeOK, Pcs
    <2>2. RegisteredComplete' /\ LibrariesCached' BY <1>7, GrowKeeps DEF ReadInterests, files
    <2>3. InstallPhase' /\ ConfigurePhase'
      BY <1>0, <1>7
      DEF ReadInterests, files, Goto, At, InstallPhase, ConfigurePhase, Installing
    <2> QED BY <2>1, <2>2, <2>3 DEF PkgInv
  <1>8. ASSUME RegisterInterest PROVE PkgInv'
    <2> PICK t \in op.todo :
          /\ interests' = interests \union {<<t, op.pkg>>}
          /\ lost' = [lost EXCEPT !.interests = @ \ {<<t, op.pkg>>}]
          /\ Did(t)
      BY <1>8 DEF RegisterInterest
    <2>0. t \in Triggers BY <1>0, <1>8 DEF RegisterInterest, At, TypeOK
    <2>1. TypeOK'
      <3>1. op' \in Ops /\ op'.pc = "interests" /\ op'.todo \subseteq Triggers
        BY <1>0, <1>8 DEF RegisterInterest, Did, At, TypeOK
      <3>2. lost' \in Losts BY <1>0
      <3>3. interests' \subseteq Triggers \X Packages BY <1>0, <2>0 DEF TypeOK
      <3> QED BY <1>0, <1>8, <3>1, <3>2, <3>3 DEF RegisterInterest, TypeOK
    <2>2. RegisteredComplete' /\ LibrariesCached' BY <1>0, <1>8, GrowKeeps DEF RegisterInterest
    <2>3. InstallPhase' /\ ConfigurePhase'
      BY <1>0, <1>8 DEF RegisterInterest, Did, At, InstallPhase, ConfigurePhase, Installing
    <2> QED BY <2>1, <2>2, <2>3 DEF PkgInv
  <1> QED BY <1>1, <1>2, <1>3, <1>4, <1>5, <1>6, <1>7, <1>8

\* A rewrite that empties its file: what was in it is lost, and no more.
LEMMA FailStep ==
    ASSUME PkgInv,
           DivertFails \/ ListFails \/ ControlFails \/ InterestFails \/ QueueFails \/ CacheFails
    PROVE  PkgInv'
  <1> USE DEF Losts
  <1>0. TypeOK /\ lost \in Losts BY DEF PkgInv, TypeOK
  <1>1. op' \in Ops /\ op'.todo = {} /\ InstallPhase' /\ ConfigurePhase'
    BY IdlePhases
    DEF Loses, Return, DivertFails, ListFails, ControlFails, InterestFails, QueueFails, CacheFails
  <1>2. losses' \in 0 .. MaxLosses
    <2>1. losses < MaxLosses /\ losses' = losses + 1
      BY DEF Loses, DivertFails, ListFails, ControlFails, InterestFails, QueueFails, CacheFails
    <2> QED BY <1>0, <2>1, LimitsAssumption DEF TypeOK
  <1>3. CASE DivertFails
    <2>1. TypeOK' BY <1>0, <1>1, <1>2, <1>3 DEF DivertFails, Loses, TypeOK, Ops
    <2>2. RegisteredComplete' /\ LibrariesCached' BY <1>0, <1>3, GrowKeeps DEF DivertFails, Loses
    <2> QED BY <1>1, <2>1, <2>2 DEF PkgInv
  <1>4. CASE ListFails
    <2>1. TypeOK' BY <1>0, <1>1, <1>2, <1>4 DEF ListFails, Loses, TypeOK, Ops
    <2>2. RegisteredComplete' /\ LibrariesCached' BY <1>0, <1>4, GrowKeeps DEF ListFails, Loses
    <2> QED BY <1>1, <2>1, <2>2 DEF PkgInv
  <1>5. ASSUME ControlFails PROVE PkgInv'
    <2> PICK f \in op.todo :
          /\ control' = control \ {<<op.pkg, f>>}
          /\ Loses([lost EXCEPT !.control = @ \union (control \intersect {<<op.pkg, f>>})])
      BY <1>5 DEF ControlFails
    <2>1. TypeOK' BY <1>0, <1>1, <1>2, <1>5 DEF ControlFails, Loses, TypeOK, Ops
    <2>2. RegisteredComplete' /\ LibrariesCached' BY <1>0, <1>5, GrowKeeps DEF ControlFails, Loses
    <2> QED BY <1>1, <2>1, <2>2 DEF PkgInv
  <1>6. ASSUME InterestFails PROVE PkgInv'
    <2> PICK t \in op.todo :
          /\ interests' = interests \ InFile(t)
          /\ Loses([lost EXCEPT !.interests = @ \union InFile(t)])
      BY <1>6 DEF InterestFails
    <2>0. InFile(t) \subseteq interests BY DEF InFile
    <2>1. TypeOK' BY <1>0, <1>1, <1>2, <1>6, <2>0 DEF InterestFails, Loses, TypeOK, Ops
    <2>2. RegisteredComplete' /\ LibrariesCached' BY <1>0, <1>6, GrowKeeps DEF InterestFails, Loses
    <2> QED BY <1>1, <2>1, <2>2 DEF PkgInv
  <1>7. CASE QueueFails
    <2>1. TypeOK' BY <1>0, <1>1, <1>2, <1>7 DEF QueueFails, Loses, TypeOK, Ops
    <2>2. RegisteredComplete' /\ LibrariesCached' BY <1>0, <1>7, GrowKeeps DEF QueueFails, Loses
    <2> QED BY <1>1, <2>1, <2>2 DEF PkgInv
  <1>8. CASE CacheFails
    <2>1. TypeOK' BY <1>0, <1>1, <1>2, <1>8 DEF CacheFails, Loses, TypeOK, Ops
    <2>2. RegisteredComplete' /\ LibrariesCached' BY <1>0, <1>8, GrowKeeps DEF CacheFails, Loses
    <2> QED BY <1>1, <2>1, <2>2 DEF PkgInv
  <1> QED BY <1>3, <1>4, <1>5, <1>6, <1>7, <1>8

\* The stanza is written when everything else is there.
LEMMA AppendStep == ASSUME PkgInv, AppendStatus PROVE PkgInv'
  <1>0. TypeOK /\ op \in Ops /\ InstallPhase /\ RegisteredComplete /\ LibrariesCached
    BY DEF PkgInv, TypeOK, Ops
  <1> DEFINE x == Stanza(op.pkg, "unpacked")
  <1>1. x \in Stanzas /\ x.pkg = op.pkg /\ x.state = "unpacked"
    BY <1>0 DEF Ops, Stanza, Stanzas
  <1>2. status \in Seq(Stanzas) /\ status' = Append(status, x)
    BY <1>0 DEF AppendStatus, TypeOK, Stanzas
  <1> HIDE DEF x
  <1>3. /\ status' \in Seq(Stanzas) /\ Len(status') = Len(status) + 1
        /\ \A k \in 1 .. Len(status) : status'[k] = status[k]
        /\ status'[Len(status) + 1] = x
    BY <1>1, <1>2
  <1>4. \A k \in 1 .. Len(status') : k \in 1 .. Len(status) \/ k = Len(status) + 1
    BY <1>2, <1>3
  <1>5. op' \in Ops /\ op'.todo = {} /\ InstallPhase' /\ ConfigurePhase'
    BY IdlePhases DEF AppendStatus, Return
  <1>6. TypeOK' BY <1>0, <1>3, <1>5 DEF AppendStatus, TypeOK, Ops, Stanzas
  <1>7. LET p == op.pkg
        IN  /\ p \in payload \union damaged /\ p \in listed
            /\ {p} \X Control[p] \subseteq control
            /\ Preinst[p] \subseteq diverted /\ \A t \in Interests[p] : <<t, p>> \in interests
    BY <1>0 DEF AppendStatus, At, InstallPhase
  <1>8. RegisteredComplete'
    BY <1>0, <1>1, <1>3, <1>4, <1>7 DEF AppendStatus, RegisteredComplete
  <1>9. LibrariesCached'
    BY <1>0, <1>1, <1>3, <1>4 DEF AppendStatus, LibrariesCached
  <1> QED BY <1>5, <1>6, <1>8, <1>9 DEF PkgInv

\* A stanza that Lookup finds is in the file.
LEMMA LookupRegistered ==
    ASSUME TypeOK, NEW p \in Packages, Lookup(ReadStatus, p) # "none"
    PROVE  Places(status, p) # {}
  BY ReadPrefix DEF Lookup, Places, TypeOK, Stanzas

\* The actions of pkg configure before the last one.
LEMMA ConfigureStep ==
    ASSUME PkgInv,
           \/ \E p \in Packages : Configure(p)
           \/ PostinstTrigger \/ FinishPostinst \/ Activate
    PROVE  PkgInv'
  <1> USE ScriptsAssumption DEF Ops, Losts, Items
  <1>0. /\ TypeOK /\ op \in Ops /\ lost \in Losts
        /\ RegisteredComplete /\ LibrariesCached /\ InstallPhase /\ ConfigurePhase
    BY DEF PkgInv, TypeOK
  <1>1. ASSUME NEW p \in Packages, Configure(p) PROVE PkgInv'
    <2>1. TypeOK' BY <1>0, <1>1 DEF Configure, Begin, files, TypeOK, Pcs
    <2>2. RegisteredComplete' /\ LibrariesCached' BY <1>1, GrowKeeps DEF Configure, files
    <2>3. Places(status, p) # {}
      BY <1>0, <1>1, LookupRegistered DEF Configure
    <2>4. InstallPhase' /\ ConfigurePhase'
      BY <1>0, <1>1, <2>3
      DEF Configure, Begin, files, InstallPhase, ConfigurePhase, Installing, Places
    <2> QED BY <2>1, <2>2, <2>4 DEF PkgInv
  <1>2. ASSUME PostinstTrigger \/ Activate PROVE PkgInv'
    <2> PICK t \in op.todo :
          /\ pending' = pending \union {t} /\ lost' = [lost EXCEPT !.triggers = @ \ {t}]
          /\ Did(t)
      BY <1>2 DEF PostinstTrigger, Activate, Queue
    <2>0. t \in Triggers BY <1>0, <1>2 DEF PostinstTrigger, Activate, At, TypeOK
    <2>1. TypeOK' BY <1>0, <1>2, <2>0 DEF PostinstTrigger, Activate, Queue, Did, At, TypeOK, Pcs
    <2>2. RegisteredComplete' /\ LibrariesCached'
      BY <1>0, <1>2, GrowKeeps DEF PostinstTrigger, Activate, Queue
    <2>3. InstallPhase' /\ ConfigurePhase'
      BY <1>0, <1>2
      DEF PostinstTrigger, Activate, Queue, Did, At, InstallPhase, ConfigurePhase, Installing,
          Places
    <2> QED BY <2>1, <2>2, <2>3 DEF PkgInv
  <1>3. CASE FinishPostinst
    <2> DEFINE known == <<op.pkg, "triggers">> \in control
               C == IF op.pkg = Consumer THEN {} ELSE lost.cache
               T == IF known THEN lost.triggers ELSE lost.triggers \union (Activates[op.pkg] \ pending)
    <2>0. /\ lost' \in Losts /\ lost'.cache = C /\ lost'.triggers = T
          /\ lost'.lists = lost.lists /\ lost'.control = lost.control
          /\ lost'.interests = lost.interests /\ lost'.diversions = lost.diversions
      BY <1>0, <1>3 DEF FinishPostinst
    <2>1. TypeOK' BY <1>0, <1>3, <2>0 DEF FinishPostinst, Goto, TypeOK, Pcs, Scanned
    <2>2. RegisteredComplete' BY <1>0, <1>3, <2>0 DEF FinishPostinst, RegisteredComplete
    <2>3. LibrariesCached'
      BY <1>0, <1>3, <2>0 DEF FinishPostinst, RegisteredComplete, LibrariesCached, Scanned
    <2>4. op' = [op EXCEPT !.pc = "activate", !.todo = IF known THEN Activates[op.pkg] ELSE {}]
      BY <1>3 DEF FinishPostinst, Goto
    <2>5. InstallPhase' /\ ConfigurePhase'
      BY <1>0, <1>3, <2>0, <2>4
      DEF FinishPostinst, At, InstallPhase, ConfigurePhase, Installing, Places
    <2> QED BY <2>1, <2>2, <2>3, <2>5 DEF PkgInv
  <1> QED BY <1>1, <1>2, <1>3

\* A package becomes installed when its triggers are pending.
LEMMA SetInstalledStep == ASSUME PkgInv, SetInstalled PROVE PkgInv'
  <1>0. /\ TypeOK /\ op \in Ops
        /\ RegisteredComplete /\ LibrariesCached /\ ConfigurePhase
    BY DEF PkgInv, TypeOK, Ops
  <1>1. op.pkg \in Packages BY <1>0 DEF Ops
  <1>2. /\ status' \in Seq(Stanzas) /\ Len(status') <= Len(status)
        /\ \A k \in 1 .. Len(status') :
              /\ status'[k].pkg = status[k].pkg
              /\ status'[k].state = IF status[k].pkg = op.pkg THEN "installed" ELSE status[k].state
    BY <1>0, <1>1, RewriteFacts DEF SetInstalled
  <1>3. \A k \in 1 .. Len(status') : k \in 1 .. Len(status)
    BY <1>0, <1>2 DEF TypeOK
  <1>4. op' \in Ops /\ op'.todo = {} /\ InstallPhase' /\ ConfigurePhase'
    BY IdlePhases DEF SetInstalled, Return
  <1>5. TypeOK' BY <1>0, <1>2, <1>4 DEF SetInstalled, TypeOK, Ops, Stanzas
  <1>6. RegisteredComplete' BY <1>0, <1>2, <1>3 DEF SetInstalled, RegisteredComplete
  <1>7. Activates[op.pkg] \subseteq pending \union lost.triggers BY <1>0 DEF SetInstalled, At, ConfigurePhase
  <1>8. LibrariesCached' BY <1>0, <1>2, <1>3, <1>7 DEF SetInstalled, LibrariesCached
  <1> QED BY <1>4, <1>5, <1>6, <1>8 DEF PkgInv

\* trigger-process builds the cache before it retires the trigger.
LEMMA ProcessStep ==
    ASSUME PkgInv, Process \/ RunLdconfig \/ Retire \/ RetireFails
    PROVE  PkgInv'
  <1> USE LdAssumption DEF Ops, Losts, Items
  <1>0. /\ TypeOK /\ op \in Ops /\ lost \in Losts
        /\ RegisteredComplete /\ LibrariesCached /\ InstallPhase /\ ConfigurePhase
    BY DEF PkgInv, TypeOK
  <1>1. CASE Process
    <2>1. TypeOK' BY <1>0, <1>1 DEF Process, Begin, files, TypeOK, Pcs
    <2>2. RegisteredComplete' /\ LibrariesCached' BY <1>1, GrowKeeps DEF Process, files
    <2>3. InstallPhase' /\ ConfigurePhase'
      BY <1>0, <1>1 DEF Process, Begin, files, InstallPhase, ConfigurePhase, Installing
    <2> QED BY <2>1, <2>2, <2>3 DEF PkgInv
  <1>2. CASE RunLdconfig
    <2>1. TypeOK' BY <1>0, <1>2 DEF RunLdconfig, Goto, TypeOK, Pcs, Scanned
    <2>2. RegisteredComplete' BY <1>0, <1>2 DEF RunLdconfig, RegisteredComplete
    <2>3. LibrariesCached'
      BY <1>0, <1>2 DEF RunLdconfig, RegisteredComplete, LibrariesCached, Scanned
    <2>4. InstallPhase' /\ ConfigurePhase'
      BY <1>0, <1>2 DEF RunLdconfig, Goto, InstallPhase, ConfigurePhase, Installing, Scanned
    <2> QED BY <2>1, <2>2, <2>3, <2>4 DEF PkgInv
  <1>3. CASE Retire \/ RetireFails
    <2>1. op' \in Ops /\ op'.todo = {} /\ InstallPhase' /\ ConfigurePhase'
      BY <1>3, IdlePhases DEF Retire, RetireFails, Loses, Return
    <2>2. /\ status' = status /\ payload' = payload /\ damaged' = damaged /\ listed' = listed
          /\ control' = control /\ interests' = interests /\ diverted' = diverted
          /\ cache' = cache /\ pending' \subseteq pending /\ losses' \in 0 .. MaxLosses
          /\ lost' \in Losts /\ lost'.lists = lost.lists /\ lost'.control = lost.control
          /\ lost'.interests = lost.interests /\ lost'.diversions = lost.diversions
          /\ lost'.cache = lost.cache
      <3>1. CASE Retire BY <1>0, <3>1 DEF Retire, TypeOK
      <3>2. CASE RetireFails BY <1>0, <3>2, LimitsAssumption DEF RetireFails, Loses, TypeOK
      <3> QED BY <1>3, <3>1, <3>2
    <2>3. TypeOK' BY <1>0, <2>1, <2>2 DEF TypeOK
    <2>4. RegisteredComplete' BY <1>0, <2>2 DEF RegisteredComplete
    <2>5. Scanned \subseteq cache
      BY <1>0, <1>3 DEF Retire, RetireFails, At, ConfigurePhase
    <2>6. LibrariesCached'
      BY <1>0, <2>2, <2>5 DEF RegisteredComplete, LibrariesCached, Scanned
    <2> QED BY <2>1, <2>3, <2>4, <2>6 DEF PkgInv
  <1> QED BY <1>1, <1>2, <1>3

\* A command that stops, and the loss of the status file.
LEMMA StopStep == ASSUME PkgInv, Abort \/ FlushFails PROVE PkgInv'
  <1>0. TypeOK /\ op' \in Ops /\ op'.todo = {} /\ InstallPhase' /\ ConfigurePhase'
    BY IdlePhases DEF PkgInv, Abort, FlushFails, Loses, Return
  <1>1. CASE Abort
    <2>1. TypeOK' BY <1>0, <1>1 DEF Abort, files, TypeOK, Ops
    <2>2. RegisteredComplete' /\ LibrariesCached' BY <1>1, GrowKeeps DEF Abort, files
    <2> QED BY <1>0, <2>1, <2>2 DEF PkgInv
  <1>2. CASE FlushFails
    <2>1. status' = << >> BY <1>2 DEF FlushFails
    <2>2. TypeOK' BY <1>0, <1>2, <2>1, LimitsAssumption DEF FlushFails, Loses, TypeOK, Ops
    <2>3. RegisteredComplete' /\ LibrariesCached'
      BY <2>1 DEF RegisteredComplete, LibrariesCached
    <2> QED BY <1>0, <2>2, <2>3 DEF PkgInv
  <1> QED BY <1>1, <1>2

LEMMA StepInv == PkgInv /\ [Next]_vars => PkgInv'
  <1> SUFFICES ASSUME PkgInv, [Next]_vars PROVE PkgInv' OBVIOUS
  <1>1. CASE UNCHANGED vars
    BY <1>1 DEF vars, PkgInv, TypeOK, RegisteredComplete, LibrariesCached, InstallPhase,
       ConfigurePhase, Installing, Places, Scanned
  <1>2. CASE Next
    BY <1>2, InstallStep, FailStep, AppendStep, ConfigureStep, SetInstalledStep, ProcessStep, StopStep
    DEF Next
  <1> QED BY <1>1, <1>2

LEMMA InvCorrect == Spec => []PkgInv
  BY InitInv, StepInv, PTL DEF Spec

------------------------------------------------------------------------------
(* Theorems                                                                  *)

\* Wherever an install stops, and whichever rewrite empties its file on the way, the
\* database names no package that lacks something install writes, but for what was in
\* the emptied file: the status stanza comes last.
THEOREM CompleteCorrect == Spec => []RegisteredComplete
  <1>1. PkgInv => RegisteredComplete BY DEF PkgInv
  <1> QED BY <1>1, InvCorrect, PTL

\* The libraries of an installed package that ldconfig can read are in the linker
\* cache, or a trigger is pending that will put them there, or the one or the other
\* went with a file whose rewrite failed: configure queues the trigger before it sets
\* the state, and trigger-process retires it after the cache is built.
THEOREM CachedCorrect == Spec => []LibrariesCached
  <1>1. PkgInv => LibrariesCached BY DEF PkgInv
  <1> QED BY <1>1, InvCorrect, PTL

\* No command takes a trigger other than ldconfig out of the pending ones, unless the
\* rewrite of their file fails; and none takes ldconfig out before the cache holds every
\* library that ldconfig can read in full.
THEOREM RetiredCorrect == Spec => OnlyLdconfigRetired
  <1> DEFINE A == \A t \in pending \ pending' :
                     t \in lost'.triggers \/ (t = LdTrigger /\ Scanned \subseteq cache')
  <1>1. PkgInv /\ [Next]_vars => [A]_vars
    <2> SUFFICES ASSUME PkgInv, Next PROVE A OBVIOUS
    <2>0. lost \in Losts BY DEF PkgInv, TypeOK, Losts
    <2>1. CASE Retire BY <2>1 DEF Retire, At, PkgInv, ConfigurePhase
    <2>2. CASE RetireFails
      <3>1. lost'.triggers = lost.triggers \union (pending \ {LdTrigger}) /\ cache' = cache
        BY <2>0, <2>2 DEF RetireFails, Loses, Losts
      <3>2. Scanned \subseteq cache BY <2>2 DEF RetireFails, At, PkgInv, ConfigurePhase
      <3> QED BY <3>1, <3>2
    <2>3. CASE QueueFails BY <2>0, <2>3 DEF QueueFails, Loses, Losts
    <2>4. CASE ~Retire /\ ~RetireFails /\ ~QueueFails
      <3>1. pending \subseteq pending'
        BY <2>4 DEF Next, files, Install, Divert, Unpack, UnpackDamages, WriteList, CopyControl,
           ReadInterests, RegisterInterest, AppendStatus, Configure, PostinstTrigger,
           FinishPostinst, Activate, Queue, SetInstalled, Process, RunLdconfig, Abort, FlushFails,
           DivertFails, ListFails, ControlFails, InterestFails, CacheFails
      <3> QED BY <3>1
    <2> QED BY <2>1, <2>2, <2>3, <2>4
  <1> QED BY <1>1, InvCorrect, PTL DEF Spec, OnlyLdconfigRetired

------------------------------------------------------------------------------
(* Registered packages stay registered                                       *)

\* A set of natural numbers has a least element.
LEMMA LeastExists ==
    ASSUME NEW S, S \subseteq Nat, S # {}
    PROVE  \E x \in S : \A y \in S : x <= y
  <1> DEFINE R == {p \in Nat \X Nat : p[1] < p[2]}
  <1>1. IsWellFoundedOn(R, Nat) BY NatLessThanWellFounded DEF OpToRel
  <1>2. PICK x \in S : \A y \in S : <<y, x>> \notin R BY <1>1, WFMin
  <1>3. \A y \in S : ~(y < x) BY <1>2
  <1> QED BY <1>3

\* The status that Lookup returns is the one of the first stanza.
LEMMA LookupFirst ==
    ASSUME NEW s \in Seq(Stanzas), NEW p, NEW k \in Places(s, p),
           \A j \in Places(s, p) : k <= j
    PROVE  Lookup(s, p) = s[k].state
  <1> DEFINE c == CHOOSE i \in Places(s, p) : \A j \in Places(s, p) : i <= j
  <1>1. c \in Places(s, p) /\ \A j \in Places(s, p) : c <= j OBVIOUS
  <1>2. c = k BY <1>1 DEF Places
  <1> QED BY <1>2 DEF Lookup

\* The status file stays within its bound.
Bounded == Len(status) <= MaxStanzas

LEMMA BoundedStep == PkgInv /\ Bounded /\ [Next]_vars => Bounded'
  <1> SUFFICES ASSUME PkgInv, Bounded, [Next]_vars PROVE Bounded' OBVIOUS
  <1>0. TypeOK /\ op.pkg \in Packages /\ Len(status) \in Nat BY DEF PkgInv, TypeOK
  <1>1. CASE AppendStatus BY <1>0, <1>1, LimitsAssumption DEF AppendStatus, Bounded, TypeOK
  <1>2. CASE SetInstalled
    <2>1. Len(status') <= Len(status) /\ Len(status') \in Nat
      BY <1>0, <1>2, RewriteFacts DEF SetInstalled
    <2> QED BY <1>0, <2>1, LimitsAssumption DEF Bounded
  <1>3. CASE FlushFails BY <1>3, LimitsAssumption DEF FlushFails, Bounded
  <1>4. CASE ~AppendStatus /\ ~SetInstalled /\ ~FlushFails
    <2>1. status' = status
      BY <1>4 DEF Next, vars, files, Install, Divert, Unpack, UnpackDamages, WriteList,
         CopyControl, ReadInterests, RegisterInterest, Configure, PostinstTrigger,
         FinishPostinst, Activate, Queue, Process, RunLdconfig, Retire, Abort, DivertFails,
         ListFails, ControlFails, InterestFails, QueueFails, CacheFails, RetireFails
    <2> QED BY <2>1 DEF Bounded
  <1> QED BY <1>1, <1>2, <1>3, <1>4

\* Where vfs_read reads the whole of the status file, no command takes a package out of
\* it or sets one back from installed: an install appends behind the stanza that
\* pkg_state_lookup finds, and pkg_state_set_installed writes back every stanza.  (The
\* run with a longer file shows that the assumption is needed.)
THEOREM SurviveCorrect ==
    ASSUME MaxStanzas <= ReadLimit
    PROVE  Spec => StanzasSurvive
  <1> DEFINE A == \A p \in Packages :
                     status' # << >> =>
                        /\ Places(status, p) # {} => Places(status', p) # {}
                        /\ Lookup(status, p) = "installed" => Lookup(status', p) = "installed"
  <1>1. Init => Bounded BY LimitsAssumption DEF Init, Bounded
  <1>2. PkgInv /\ Bounded /\ [Next]_vars => [A]_vars
    <2> SUFFICES ASSUME PkgInv, Bounded, Next, NEW p \in Packages, status' # << >>
                 PROVE  /\ Places(status, p) # {} => Places(status', p) # {}
                        /\ Lookup(status, p) = "installed" => Lookup(status', p) = "installed"
      OBVIOUS
    <2>0. TypeOK /\ status \in Seq(Stanzas) /\ op.pkg \in Packages
      BY DEF PkgInv, TypeOK, Stanzas
    <2>1. ASSUME status' \in Seq(Stanzas), Len(status) <= Len(status'),
                 \A k \in 1 .. Len(status) :
                    /\ status'[k].pkg = status[k].pkg
                    /\ status[k].state = "installed" => status'[k].state = "installed"
          PROVE  /\ Places(status, p) # {} => Places(status', p) # {}
                 /\ Lookup(status, p) = "installed" => Lookup(status', p) = "installed"
      <3> SUFFICES ASSUME Places(status, p) # {}
                   PROVE  /\ Places(status', p) # {}
                          /\ Lookup(status, p) = "installed" => Lookup(status', p) = "installed"
        BY DEF Lookup
      <3>1. Places(status, p) \subseteq Nat BY DEF Places
      <3>2. PICK k \in Places(status, p) : \A j \in Places(status, p) : k <= j
        BY <3>1, LeastExists
      <3>3. k \in Places(status', p) BY <2>0, <2>1 DEF Places
      <3>4. \A j \in Places(status', p) : k <= j
        BY <2>0, <2>1, <3>2 DEF Places
      <3>5. Lookup(status, p) = status[k].state BY <2>0, <3>2, LookupFirst
      <3>6. Lookup(status', p) = status'[k].state BY <2>1, <3>3, <3>4, LookupFirst
      <3>7. k \in 1 .. Len(status) BY DEF Places
      <3> QED BY <2>1, <3>3, <3>5, <3>6, <3>7
    <2>2. CASE AppendStatus
      <3> DEFINE x == Stanza(op.pkg, "unpacked")
      <3>1. x \in Stanzas BY <2>0 DEF Stanza, Stanzas
      <3>2. status' = Append(status, x) BY <2>2 DEF AppendStatus
      <3> HIDE DEF x
      <3>3. /\ status' \in Seq(Stanzas) /\ Len(status) <= Len(status')
            /\ \A k \in 1 .. Len(status) : status'[k] = status[k]
        BY <2>0, <3>1, <3>2
      <3> QED BY <2>1, <3>3
    <2>3. CASE SetInstalled
      <3>1. Len(status) \in Nat /\ Len(status) <= ReadLimit
        BY <2>0, LimitsAssumption DEF Bounded
      <3>2. ReadStatus = SubSeq(status, 1, Len(status))
        BY <3>1, LimitsAssumption DEF ReadStatus
      <3>3. ReadStatus = status BY <2>0, <3>2
      <3>4. status' = MarkInstalled(status, op.pkg) BY <2>3, <3>3 DEF SetInstalled
      <3>5. /\ status' \in Seq(Stanzas) /\ Len(status') = Len(status)
            /\ \A k \in 1 .. Len(status) :
                  /\ status'[k].pkg = status[k].pkg
                  /\ status'[k].state = IF status[k].pkg = op.pkg THEN "installed" ELSE status[k].state
        BY <2>0, <3>4, MarkFacts
      <3> QED BY <2>1, <3>1, <3>5
    <2>4. CASE ~AppendStatus /\ ~SetInstalled
      <3>1. status' = status
        BY <2>4 DEF Next, files, Install, Divert, Unpack, UnpackDamages, WriteList,
           CopyControl, ReadInterests, RegisterInterest, Configure, PostinstTrigger,
           FinishPostinst, Activate, Queue, Process, RunLdconfig, Retire, Abort, FlushFails,
           DivertFails, ListFails, ControlFails, InterestFails, QueueFails, CacheFails,
           RetireFails
      <3> QED BY <3>1 DEF Places, Lookup
    <2> QED BY <2>2, <2>3, <2>4
  <1> QED BY <1>1, <1>2, BoundedStep, InvCorrect, PTL DEF Spec, StanzasSurvive
==============================================================================
