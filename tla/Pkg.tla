-------------------------------- MODULE Pkg --------------------------------
(***************************************************************************)
(* The dpkg database that `pkg` keeps in a target root: `pkg install` of   *)
(* one archive (src/cmd_pkg.c, src/pkg_preunpack.c), `pkg configure`       *)
(* (src/pkg_configure.c, src/pkg_state.c) and `pkg trigger-process`        *)
(* (src/pkg_triggers.c, src/pkg_ldconfig.c).  One action per file that is  *)
(* rewritten: a command may stop, or the process die, between any two.     *)
(*                                                                         *)
(* A file is rewritten by an open that truncates and a close that flushes. *)
(* Every rewrite is two actions: one that does both, and one (...Fails)    *)
(* that stops after the truncation, which empties the file and ends the    *)
(* command.  The history variable `lost` has the records that went so.     *)
(*                                                                         *)
(* Abstractions.                                                           *)
(*  - The status file is a sequence of stanzas, package and state; the     *)
(*    version matters to the planner only, which is another module.        *)
(*  - The contents of scripts are constants: which diversions the preinst  *)
(*    of a package registers, which triggers its postinst and its          *)
(*    .triggers file name.  A script that the program does not recognise   *)
(*    stops the command (Abort) or its package is in Opaque.               *)
(*  - The files of a package are in the target or not; a walk that stops   *)
(*    half way, or loses a file, damages them.                             *)
(*  - Of the files of the database only status outgrows what vfs_read      *)
(*    reaches; of the packages' libraries those of Long do.                *)
(***************************************************************************)
EXTENDS Integers, Sequences

CONSTANTS
    Packages,     \* package names
    Triggers,     \* trigger names
    PathTriggers, \* those that are paths: they share the file triggers/File
    Diversions,   \* records a preinst may register
    Preinst,      \* diversions the preinst of each package registers
    Interests,    \* triggers each package's .triggers file declares interest in
    Activates,    \* triggers it activates without waiting
    Postinst,     \* triggers the postinst of each package activates
    Control,      \* the control files that each package has
    Signed,       \* those of them whose text configure asks for
    Opaque,       \* packages whose scripts configure does not recognise
    Libs,         \* packages that ship shared libraries
    Long,         \* those of them with a library that vfs_read cannot read in full
    LdTrigger,    \* the trigger "ldconfig"
    Consumer,     \* the package "libc-bin", which processes it
    ReadLimit,    \* stanzas that vfs_read reaches: twelve direct blocks
    MaxStanzas,   \* bound on the length of the status file
    MaxLosses     \* bound on the rewrites that fail

ControlFiles == {"preinst", "postinst", "triggers"}

ASSUME ScriptsAssumption ==
    /\ Preinst \in [Packages -> SUBSET Diversions]
    /\ Interests \in [Packages -> SUBSET Triggers]
    /\ Activates \in [Packages -> SUBSET Triggers]
    /\ Postinst \in [Packages -> SUBSET Triggers]
    /\ Control \in [Packages -> SUBSET ControlFiles]
    /\ Signed \in [Packages -> SUBSET ControlFiles]
    /\ \A p \in Packages : Activates[p] # {} => "triggers" \in Control[p]
ASSUME LdAssumption ==
    Libs \subseteq Packages /\ LdTrigger \in Triggers /\ Consumer \in Packages
ASSUME LimitsAssumption ==
    ReadLimit \in Nat /\ MaxStanzas \in Nat /\ MaxLosses \in Nat

VARIABLES
    status,      \* /var/lib/dpkg/status
    payload,     \* packages whose files are all in the target
    damaged,     \* history: packages of which an unpack lost a file
    listed,      \* packages with info/<package>.list
    control,     \* <<package, file>>: the control files in info/ with what is in them
    interests,   \* <<trigger, package>> in triggers/<trigger> or triggers/File
    diverted,    \* records of /var/lib/dpkg/diversions
    pending,     \* triggers in triggers/Unincorp
    cache,       \* packages whose libraries are in /etc/ld.so.cache
    lost,        \* history: what went with a file that was emptied and is not back
    losses,      \* the number of such files so far
    op           \* the command that runs and its local variables

files == <<status, payload, damaged, listed, control, interests, diverted, pending, cache,
           lost, losses>>
vars == <<status, payload, damaged, listed, control, interests, diverted, pending, cache,
          lost, losses, op>>

Idle == [pc |-> "idle", pkg |-> Consumer, todo |-> {}]
At(pc) == op.pc = pc
Begin(p, pc, todo) == op' = [pc |-> pc, pkg |-> p, todo |-> todo]
Goto(pc, todo) == op' = [op EXCEPT !.pc = pc, !.todo = todo]
Did(x) == op' = [op EXCEPT !.todo = @ \ {x}]
Return == op' = Idle

\* The rewrite of a file stops after the truncation: what was in it is lost.
Loses(l) ==
    /\ losses < MaxLosses /\ losses' = losses + 1
    /\ lost' = l
    /\ Return

Init ==
    /\ status = << >>
    /\ payload = {} /\ damaged = {} /\ listed = {} /\ control = {}
    /\ interests = {} /\ diverted = {} /\ pending = {} /\ cache = {}
    /\ lost = [lists |-> {}, control |-> {}, interests |-> {}, diversions |-> {},
                triggers |-> {}, cache |-> {}]
    /\ losses = 0
    /\ op = Idle

------------------------------------------------------------------------------
(* The status file                                                           *)

Stanza(p, state) == [pkg |-> p, state |-> state]

\* read_status, through vfs_read
ReadStatus == SubSeq(status, 1, IF Len(status) < ReadLimit THEN Len(status) ELSE ReadLimit)

\* pkg_state_lookup returns the first stanza of a package.
Places(s, p) == {k \in 1 .. Len(s) : s[k].pkg = p}
Lookup(s, p) ==
    IF Places(s, p) = {} THEN "none"
    ELSE s[CHOOSE k \in Places(s, p) : \A j \in Places(s, p) : k <= j].state

\* Mutant: only the stanza that changes is written back.
MarkInstalledAlone(s, p) == <<Stanza(p, "installed")>>

\* pkg_state_set_installed writes back what it read, with every stanza of the
\* package changed.
MarkInstalled(s, p) ==
    [k \in 1 .. Len(s) |-> IF s[k].pkg = p THEN Stanza(p, "installed") ELSE s[k]]

------------------------------------------------------------------------------
(* pkg install <package.deb> <root>                                          *)

Install(p) ==
    /\ op = Idle
    /\ Begin(p, "preinst", Preinst[p])
    /\ UNCHANGED files

\* diversion_add, one record at a time; a record that is there is not written again.
Divert ==
    /\ At("preinst")
    /\ \E d \in op.todo :
          /\ diverted' = diverted \union {d}
          /\ lost' = [lost EXCEPT !.diversions = @ \ {d}]
          /\ Did(d)
    /\ UNCHANGED <<status, payload, damaged, listed, control, interests, pending, cache, losses>>

DivertFails ==
    /\ At("preinst") /\ ~(op.todo \subseteq diverted)
    /\ diverted' = {}
    /\ Loses([lost EXCEPT !.diversions = @ \union diverted])
    /\ UNCHANGED <<status, payload, damaged, listed, control, interests, pending, cache>>

\* Mutant: the stanza is written as soon as the files are there.
UnpackRegisters ==
    /\ At("preinst") /\ op.todo = {}
    /\ payload' = payload \union {op.pkg}
    /\ status' = Append(status, Stanza(op.pkg, "unpacked"))
    /\ Goto("list", {})
    /\ UNCHANGED <<damaged, listed, control, interests, diverted, pending, cache, lost, losses>>

\* The walk over data.tar with install_cb.
Unpack ==
    /\ At("preinst") /\ op.todo = {}
    /\ payload' = payload \union {op.pkg}
    /\ Goto("list", {})
    /\ UNCHANGED <<status, damaged, listed, control, interests, diverted, pending, cache,
                   lost, losses>>

\* A file is truncated and not written: the walk stops, or goes on to the end since
\* install_cb ignores the result of vfs_close, which does all the writing.
UnpackDamages ==
    /\ At("preinst") /\ op.todo = {}
    /\ payload' = payload \ {op.pkg}
    /\ damaged' = damaged \union {op.pkg}
    /\ Return \/ Goto("list", {})
    /\ UNCHANGED <<status, listed, control, interests, diverted, pending, cache, lost, losses>>

\* vfs_write_blob of info/<package>.list
WriteList ==
    /\ At("list")
    /\ listed' = listed \union {op.pkg}
    /\ lost' = [lost EXCEPT !.lists = @ \ {op.pkg}]
    /\ Goto("control", Control[op.pkg])
    /\ UNCHANGED <<status, payload, damaged, control, interests, diverted, pending, cache, losses>>

ListFails ==
    /\ At("list")
    /\ listed' = listed \ {op.pkg}
    /\ Loses([lost EXCEPT !.lists = @ \union (listed \intersect {op.pkg})])
    /\ UNCHANGED <<status, payload, damaged, control, interests, diverted, pending, cache>>

\* control_info_copy_cb, one member of control.tar at a time
CopyControl ==
    /\ At("control")
    /\ \E f \in op.todo :
          /\ control' = control \union {<<op.pkg, f>>}
          /\ lost' = [lost EXCEPT !.control = @ \ {<<op.pkg, f>>}]
          /\ Did(f)
    /\ UNCHANGED <<status, payload, damaged, listed, interests, diverted, pending, cache, losses>>

ControlFails ==
    /\ At("control")
    /\ \E f \in op.todo :
          /\ control' = control \ {<<op.pkg, f>>}
          /\ Loses([lost EXCEPT !.control = @ \union (control \intersect {<<op.pkg, f>>})])
    /\ UNCHANGED <<status, payload, damaged, listed, interests, diverted, pending, cache>>

\* pkg_triggers_register_interests reads the .triggers file that was just copied.
ReadInterests ==
    /\ At("control") /\ op.todo = {}
    /\ Goto("interests", Interests[op.pkg])
    /\ UNCHANGED files

\* append_unique_line of one interest; a line that is there is not written again.
RegisterInterest ==
    /\ At("interests")
    /\ \E t \in op.todo :
          /\ interests' = interests \union {<<t, op.pkg>>}
          /\ lost' = [lost EXCEPT !.interests = @ \ {<<t, op.pkg>>}]
          /\ Did(t)
    /\ UNCHANGED <<status, payload, damaged, listed, control, diverted, pending, cache, losses>>

\* The interests in the file that names trigger t.
InFile(t) == {i \in interests : i[1] = t \/ {i[1], t} \subseteq PathTriggers}

InterestFails ==
    /\ At("interests")
    /\ \E t \in op.todo :
          /\ <<t, op.pkg>> \notin interests
          /\ interests' = interests \ InFile(t)
          /\ Loses([lost EXCEPT !.interests = @ \union InFile(t)])
    /\ UNCHANGED <<status, payload, damaged, listed, control, diverted, pending, cache>>

\* write_status_stanza appends, whether or not the package has a stanza already.
AppendStatus ==
    /\ At("interests") /\ op.todo = {}
    /\ Len(status) < MaxStanzas
    /\ status' = Append(status, Stanza(op.pkg, "unpacked"))
    /\ Return
    /\ UNCHANGED <<payload, damaged, listed, control, interests, diverted, pending, cache,
                   lost, losses>>

------------------------------------------------------------------------------
(* pkg configure <package> <root>                                            *)

\* The early returns: not registered, installed already, a script that is not
\* known (one that was emptied is not, where its text is asked for), or a preinst of
\* which there is no evidence that it was applied.  An emptied postinst has no lines.
Configure(p) ==
    /\ op = Idle
    /\ Lookup(ReadStatus, p) = "unpacked"
    /\ p \notin Opaque
    /\ {p} \X Signed[p] \subseteq control
    /\ Preinst[p] \subseteq diverted
    /\ Begin(p, "postinst", IF <<p, "postinst">> \in control THEN Postinst[p] ELSE {})
    /\ UNCHANGED files

\* pkg_trigger_activate_noawait; a line that is there is not written again.
Queue ==
    /\ \E t \in op.todo :
          /\ pending' = pending \union {t}
          /\ lost' = [lost EXCEPT !.triggers = @ \ {t}]
          /\ Did(t)
    /\ UNCHANGED <<status, payload, damaged, listed, control, interests, diverted, cache, losses>>

\* dpkg-trigger --no-await in a postinst
PostinstTrigger == At("postinst") /\ Queue

\* What the scan of the library directories finds: a library that cannot be read in
\* full is passed over without an error.
Scanned == (payload \intersect Libs) \ Long

\* The rest of the postinst; that of libc-bin builds the linker cache.  Then the file
\* .triggers is read: the triggers of one that was emptied are not queued.
FinishPostinst ==
    LET known == <<op.pkg, "triggers">> \in control
    IN  /\ At("postinst") /\ op.todo = {}
        /\ cache' = IF op.pkg = Consumer THEN Scanned ELSE cache
        /\ lost' = [lost EXCEPT
              !.cache = IF op.pkg = Consumer THEN {} ELSE @,
              !.triggers = IF known THEN @ ELSE @ \union (Activates[op.pkg] \ pending)]
        /\ Goto("activate", IF known THEN Activates[op.pkg] ELSE {})
        /\ UNCHANGED <<status, payload, damaged, listed, control, interests, diverted, pending,
                       losses>>

\* pkg_triggers_activate_package, one line at a time
Activate == At("activate") /\ Queue

QueueFails ==
    /\ op.pc \in {"postinst", "activate"} /\ ~(op.todo \subseteq pending)
    /\ pending' = {}
    /\ Loses([lost EXCEPT !.triggers = @ \union pending])
    /\ UNCHANGED <<status, payload, damaged, listed, control, interests, diverted, cache>>

SetInstalled ==
    /\ At("activate") /\ op.todo = {}
    /\ status' = MarkInstalled(ReadStatus, op.pkg)
    /\ Return
    /\ UNCHANGED <<payload, damaged, listed, control, interests, diverted, pending, cache,
                   lost, losses>>

------------------------------------------------------------------------------
(* pkg trigger-process <root>                                                *)

\* What process_ldconfig_trigger asks for; other triggers are left pending.
CanProcess ==
    /\ LdTrigger \in pending
    /\ <<LdTrigger, Consumer>> \in interests
    /\ Lookup(ReadStatus, Consumer) = "installed"

\* Mutant: the trigger is retired before the cache is built.
ProcessRetiresFirst ==
    /\ op = Idle
    /\ CanProcess
    /\ pending' = pending \ {LdTrigger}
    /\ Begin(Consumer, "ldconfig", {})
    /\ UNCHANGED <<status, payload, damaged, listed, control, interests, diverted, cache,
                   lost, losses>>

Process ==
    /\ op = Idle
    /\ CanProcess
    /\ Begin(Consumer, "ldconfig", {})
    /\ UNCHANGED files

\* pkg_ldconfig_run scans the library directories anew.
RunLdconfig ==
    /\ At("ldconfig")
    /\ cache' = Scanned
    /\ lost' = [lost EXCEPT !.cache = {}]
    /\ Goto("retire", {})
    /\ UNCHANGED <<status, payload, damaged, listed, control, interests, diverted, pending, losses>>

\* The rewrite of /etc/ld.so.cache, here or in the postinst of libc-bin.
CacheFails ==
    /\ At("ldconfig") \/ (At("postinst") /\ op.todo = {} /\ op.pkg = Consumer)
    /\ cache' = {}
    /\ Loses([lost EXCEPT !.cache = @ \union cache])
    /\ UNCHANGED <<status, payload, damaged, listed, control, interests, diverted, pending>>

\* Mutant: the file of pending triggers is emptied.
RetireAll ==
    /\ At("retire")
    /\ pending' = {}
    /\ Return
    /\ UNCHANGED <<status, payload, damaged, listed, control, interests, diverted, cache,
                   lost, losses>>

\* remove_trigger_pending
Retire ==
    /\ At("retire")
    /\ pending' = pending \ {LdTrigger}
    /\ Return
    /\ UNCHANGED <<status, payload, damaged, listed, control, interests, diverted, cache,
                   lost, losses>>

\* The other pending triggers are lost with the file; ldconfig has been processed.
RetireFails ==
    /\ At("retire")
    /\ pending' = {}
    /\ Loses([lost EXCEPT !.triggers = @ \union (pending \ {LdTrigger})])
    /\ UNCHANGED <<status, payload, damaged, listed, control, interests, diverted, cache>>

------------------------------------------------------------------------------
\* A step fails before it opens the file it rewrites and the command returns, or the
\* process dies between two steps.
Abort ==
    /\ op # Idle
    /\ Return
    /\ UNCHANGED files

\* The rewrite of the status file stops after the truncation: the append finds
\* that out and fails, pkg_state_set_installed ignores the result of the close.
FlushFails ==
    /\ op.pc \in {"interests", "activate"} /\ op.todo = {}
    /\ status' = << >>
    /\ Loses(lost)
    /\ UNCHANGED <<payload, damaged, listed, control, interests, diverted, pending, cache>>

Next ==
    \/ \E p \in Packages : Install(p) \/ Configure(p)
    \/ Divert \/ Unpack \/ UnpackDamages \/ WriteList \/ CopyControl \/ ReadInterests
    \/ RegisterInterest \/ AppendStatus
    \/ PostinstTrigger \/ FinishPostinst \/ Activate \/ SetInstalled
    \/ Process \/ RunLdconfig \/ Retire
    \/ DivertFails \/ ListFails \/ ControlFails \/ InterestFails \/ QueueFails \/ CacheFails
    \/ RetireFails \/ Abort \/ FlushFails

Spec == Init /\ [][Next]_vars

------------------------------------------------------------------------------
(* Properties                                                                *)

Pcs == {"idle", "preinst", "list", "control", "interests", "postinst", "activate",
        "ldconfig", "retire"}
Items == Triggers \union Diversions \union ControlFiles
TypeOK ==
    /\ status \in Seq([pkg : Packages, state : {"unpacked", "installed"}])
    /\ payload \subseteq Packages /\ damaged \subseteq Packages
    /\ listed \subseteq Packages /\ control \subseteq Packages \X ControlFiles
    /\ interests \subseteq Triggers \X Packages
    /\ diverted \subseteq Diversions
    /\ pending \subseteq Triggers
    /\ cache \subseteq Packages
    /\ lost \in [lists : SUBSET Packages, control : SUBSET (Packages \X ControlFiles),
                  interests : SUBSET (Triggers \X Packages), diversions : SUBSET Diversions,
                  triggers : SUBSET Triggers, cache : SUBSET Packages]
    /\ losses \in 0 .. MaxLosses
    /\ op \in [pc : Pcs, pkg : Packages, todo : SUBSET Items]
    /\ op.todo \subseteq CASE op.pc = "preinst" -> Diversions
                          [] op.pc = "control" -> ControlFiles
                          [] OTHER -> Triggers

\* A package that the status file names was unpacked, and is there with everything
\* else that install writes: its list, its control files, its trigger interests and
\* the diversions of its preinst.  The stanza is written last, whatever stopped.
\* What is missing is what a rewrite that failed emptied, of this or another package
\* (lost), and what nothing wrote again since; files, where a walk lost them (damaged).
RegisteredComplete ==
    \A k \in 1 .. Len(status) :
        LET p == status[k].pkg
        IN  /\ p \in payload \union damaged
            /\ p \in listed \union lost.lists
            /\ {p} \X Control[p] \subseteq control \union lost.control
            /\ Preinst[p] \subseteq diverted \union lost.diversions
            /\ \A t \in Interests[p] : <<t, p>> \in interests \union lost.interests

\* The libraries of an installed package that activates ldconfig are in the
\* linker cache, or the trigger is still pending: it is queued before the
\* package counts as installed and retired after the cache is built.  Left out are
\* libraries that ldconfig cannot read in full and passes over (Long); a cache or a
\* pending trigger that went with a file whose rewrite failed, until the cache is
\* built or the trigger is queued again (lost); and packages that were ever damaged:
\* a reinstall that brings their files back does not activate the trigger again.
LibrariesCached ==
    \A k \in 1 .. Len(status) :
        LET p == status[k].pkg
        IN  status[k].state = "installed" /\ p \in Libs \ Long /\ LdTrigger \in Activates[p]
              => \/ p \in cache \union damaged \union lost.cache
                 \/ LdTrigger \in pending \union lost.triggers

\* Unless the file is lost as a whole, no command takes a package out of the status
\* file, and none sets one back from installed to unpacked, not even a reinstall.
StanzasSurvive ==
    [][\A p \in Packages :
          status' # << >> =>
             /\ Places(status, p) # {} => Places(status', p) # {}
             /\ Lookup(status, p) = "installed" => Lookup(status', p) = "installed"]_vars

\* "successful ldconfig processing retires only ldconfig", and only when the cache
\* holds every library that is in the target and that ldconfig can read in full.
\* Other triggers go only with the file, when its rewrite fails.
OnlyLdconfigRetired ==
    [][\A t \in pending \ pending' :
          t \in lost'.triggers \/ (t = LdTrigger /\ Scanned \subseteq cache')]_vars

------------------------------------------------------------------------------
(* The inductive invariant                                                   *)

Installing == op.pc \in {"preinst", "list", "control", "interests"}

\* How far install has come.
InstallPhase ==
    /\ Installing => Preinst[op.pkg] \subseteq diverted \union op.todo
    /\ op.pc \in {"list", "control", "interests"} =>
          op.pkg \in payload \union damaged /\ Preinst[op.pkg] \subseteq diverted
    /\ op.pc \in {"control", "interests"} => op.pkg \in listed
    /\ op.pc = "control" => {op.pkg} \X (Control[op.pkg] \ op.todo) \subseteq control
    /\ op.pc = "interests" =>
          /\ {op.pkg} \X Control[op.pkg] \subseteq control
          /\ \A t \in Interests[op.pkg] \ op.todo : <<t, op.pkg>> \in interests

\* How far configure and trigger-process have come.
ConfigurePhase ==
    /\ op.pc \in {"postinst", "activate"} => Places(status, op.pkg) # {}
    /\ op.pc = "activate" => Activates[op.pkg] \subseteq pending \union op.todo \union lost.triggers
    /\ op.pc = "retire" => Scanned \subseteq cache

PkgInv == TypeOK /\ RegisteredComplete /\ LibrariesCached /\ InstallPhase /\ ConfigurePhase
==============================================================================
