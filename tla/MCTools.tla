------------------------------- MODULE MCTools -------------------------------
(***************************************************************************)
(* The parts of guppy that share no state with one another, as one         *)
(* instance: a behaviour belongs to the part that its first state names,   *)
(* and the variables of the other parts keep one of their initial values.  *)
(***************************************************************************)
EXTENDS MCDirectories, MCPlanner, MCMetadata, MCLdconfig,
        MCXzStream, MCArchives, MCInflate, MCScripts, MCFormats

VARIABLE part
Some(set) == CHOOSE e \in set : TRUE

ToolsInit ==
    /\ part \in {"directories", "planner", "metadata", "ldconfig", "xz", "archives", "inflate", "scripts",
                "formats"}
    /\ IF part = "directories" THEN TRUE ELSE image = Some(IsoImages)
    /\ IF part = "planner" THEN TRUE ELSE status = Some(Statuses)
    /\ IF part = "archives" THEN TRUE ELSE host = Some(Hosts)
    /\ IF part = "scripts" THEN TRUE ELSE root = Some(Roots) /\ menu = Some(Menus)
    /\ IF part = "ldconfig" THEN TRUE ELSE target = Some(Targets)
    /\ IF part = "xz" THEN TRUE ELSE member = Intact(0, << >>) /\ bufs = [in |-> 1, out |-> 1]
    /\ IF part = "inflate" THEN TRUE ELSE gz = FixedGz
    /\ DirectoriesInit /\ PlannerInit /\ MetadataInit /\ ArchivesInit /\ ScriptsInit /\ LdconfigInit
    /\ FormatsInit
    /\ inflated = NotInflated /\ XzStart
    /\ IF part = "inflate" THEN InflateInit ELSE TRUE
    /\ IF part = "xz" THEN MemberGiven ELSE TRUE

ToolsNext ==
    \/ /\ part = "directories" /\ DirectoriesNext
       /\ UNCHANGED <<part, planVars, metaVars, ldVars, xzVars, archVars, gzVars, scriptVars, formatVars>>
    \/ /\ part = "planner" /\ PlannerNext
       /\ UNCHANGED <<part, isoVars, metaVars, ldVars, xzVars, archVars, gzVars, scriptVars, formatVars>>
    \/ /\ part = "metadata" /\ MetadataNext
       /\ UNCHANGED <<part, isoVars, planVars, ldVars, xzVars, archVars, gzVars, scriptVars, formatVars>>
    \/ /\ part = "ldconfig" /\ LdconfigNext
       /\ UNCHANGED <<part, isoVars, planVars, metaVars, xzVars, archVars, gzVars, scriptVars, formatVars>>
    \/ /\ part = "xz" /\ XzNext
       /\ UNCHANGED <<part, isoVars, planVars, metaVars, ldVars, archVars, gzVars, scriptVars, formatVars>>
    \/ /\ part = "archives" /\ ArchivesNext
       /\ UNCHANGED <<part, isoVars, planVars, metaVars, ldVars, xzVars, gzVars, scriptVars, formatVars>>
    \/ /\ part = "inflate" /\ InflateNext
       /\ UNCHANGED <<part, isoVars, planVars, metaVars, ldVars, xzVars, archVars, scriptVars, formatVars>>
    \/ /\ part = "scripts" /\ ScriptsNext
       /\ UNCHANGED <<part, isoVars, planVars, metaVars, ldVars, xzVars, archVars, gzVars, formatVars>>
    \/ /\ part = "formats" /\ FormatsNext
       /\ UNCHANGED <<part, isoVars, planVars, metaVars, ldVars, xzVars, archVars, gzVars, scriptVars>>

allVars == <<part, isoVars, planVars, metaVars, ldVars, xzVars, archVars, gzVars, scriptVars, formatVars>>
ToolsSpec == ToolsInit /\ [][ToolsNext]_allVars
==============================================================================
