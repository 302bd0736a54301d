------------------------------ MODULE MCFiles ------------------------------
(* Two EXT2 volumes and an ISO image, links within and between them.  A      *)
(* behaviour is either a few file commands or a few account commands.        *)
EXTENDS Accounts

VARIABLE part
vars == <<accountVars, part>>

CONSTANTS v1, v2, iso, x, y

MCVolumes == {v1, v2, iso}
MCKind == [v \in MCVolumes |-> IF v = iso THEN "iso9660" ELSE "ext2"]

Abs(comps) == [abs |-> TRUE, comps |-> comps]
Rel(comps) == [abs |-> FALSE, comps |-> comps]

\* /l leads to /a, whose file is longer than vfs_read reaches; /m is where v2 is
\* mounted, and /m/d/k leads back out of it, so that /m/d/k/.. is /m/d by its text
\* and the root by the directories it passes.
Tree1 ==
    [r \in {<< >>, <<"a">>, <<"a", "f">>, <<"l">>} |->
        CASE r = <<"a", "f">> -> Reg(<<x, y, x, y, x>>)
          [] r = <<"l">> -> Lnk(Rel(<<"a">>))
          [] OTHER -> Dir]
Tree2 ==
    [r \in {<< >>, <<"d">>, <<"d", "k">>} |->
        IF r = <<"d", "k">> THEN Lnk(Rel(<<"..", "..", "l">>)) ELSE Dir]
TreeIso == [r \in {<< >>, <<"f">>} |-> IF r = << >> THEN Dir ELSE Reg(<<y>>)]
StartImages == {[v \in MCVolumes |-> IF v = v1 THEN Tree1 ELSE IF v = v2 THEN Tree2 ELSE TreeIso]}
StartSessions == {<<[mp |-> << >>, vol |-> v1], [mp |-> <<"m">>, vol |-> v2]>>}

MCPaths ==
    {Abs(<<"a">>), Abs(<<"l", "f">>), Abs(<<"m", "d", "k", "g">>), Abs(<<"m", "d">>),
     Abs(<<"m", "d", "k", "..", "g">>), Abs(<<"i", "f">>), Abs(<<"i">>), Rel(<<"g">>)}
MCMountPoints == {Abs(<<"i">>), Abs(<<"a">>)}
MCTargets == {Rel(<<"a", "g">>), Abs(<<"m", "d", "k">>), Rel(<<"..", "d", "k", "..", "k">>)}
MCTexts == {<< >>, <<x>>}
MCHostFiles == {"h"}
MCRoot == Abs(<<"m">>)

MCInit == AccountInit /\ part \in {"files", "accounts"}
FileCommand ==
    /\ part = "files"
    /\ left > MaxCommands - 2
    /\ FilesNext
    /\ UNCHANGED <<created, damaged>>
AccountCommand == part = "accounts" /\ AccountNext
MCNext == (FileCommand \/ AccountCommand) /\ UNCHANGED part
MCSpec == MCInit /\ [][MCNext]_vars
============================================================================
