------------------------------- MODULE Planner -------------------------------
(***************************************************************************)
(* Repositories and dependency plans of `pkg`: the registry of Packages    *)
(* indexes (src/pkg_repo.c), and the plan that `pkg install <name>`, `pkg  *)
(* plan` and `pkg audit` build and walk (src/pkg_plan.c).                  *)
(*                                                                         *)
(* Abstractions.                                                           *)
(*  - A version is a number; how version texts are ordered, and how a      *)
(*    Depends field is split into groups of alternatives, is module        *)
(*    Metadata.                                                            *)
(*  - Unpacking one archive is one step that registers the package, fails, *)
(*    or registers it and reports entries it skipped; module Pkg has its   *)
(*    parts.  The status file is the sequence of its stanzas.              *)
(*  - Paths and the texts of conflicts are left out.                       *)
(***************************************************************************)
EXTENDS Integers, Sequences, SequencesExt, FiniteSetsExt

CONSTANTS
    Repositories,  \* root -> indexes found under dists/: readable?, stanzas
    Requested,     \* names that are asked for
    Statuses,      \* initial status files
    MaxRepos,      \* PKG_REPO_MAX
    MaxNodes,      \* MAX_NODES
    MaxEdges,      \* MAX_EDGES
    MaxStatus      \* bound: stanzas in the status file

ASSUME PlannerLimits == {MaxRepos, MaxNodes, MaxEdges, MaxStatus} \subseteq Nat

VARIABLES
    entries,  \* g_entries
    roots,    \* g_roots
    status,   \* stanzas of the target: package and version
    plan,     \* plan_t of the command that runs, or NoPlan
    todo,     \* nodes its walk has still to handle
    report    \* how the last command ended
planVars == <<entries, roots, status, plan, todo, report>>

NoPlan == [nodes |-> << >>, edges |-> << >>, valid |-> FALSE, comps |-> << >>, order |-> << >>]

PlannerInit ==
    /\ entries = << >> /\ roots = << >>
    /\ status \in Statuses
    /\ plan = NoPlan /\ todo = << >>
    /\ report = "none"

------------------------------------------------------------------------------
(* The registry                                                              *)

\* append_entry: a stanza without its three main fields is dropped, and so is one
\* that the same root has given before.
SameRecord(a, b) ==
    a.root = b.root /\ a.pkg = b.pkg /\ a.ver = b.ver /\ a.file = b.file
AppendEntry(es, s, root) ==
    LET e == [root |-> root, pkg |-> s.pkg, ver |-> s.ver, file |-> s.file,
              pre |-> s.pre, dep |-> s.dep, provides |-> s.provides]
    IN  IF ~s.complete \/ \E k \in DOMAIN es : SameRecord(es[k], e) THEN es ELSE Append(es, e)

\* load_index: nothing comes from an index that cannot be read.
LoadIndex(es, index, root) ==
    IF ~index.readable THEN es ELSE FoldLeft(LAMBDA t, s : AppendEntry(t, s, root), es, index.stanzas)

\* scan_dir and pkg_repo_add
Idle == plan = NoPlan
RepoAdd(root) ==
    /\ Idle
    /\ root \notin ToSet(roots)
    /\ Len(roots) < MaxRepos
    /\ \E k \in DOMAIN Repositories[root] : Repositories[root][k].readable
    /\ entries' = FoldLeft(LAMBDA t, i : LoadIndex(t, i, root), entries, Repositories[root])
    /\ roots' = Append(roots, root)
    /\ report' = "added"
    /\ UNCHANGED <<status, plan, todo>>
RepoAddFails(root) ==
    /\ Idle
    /\ \/ root \in ToSet(roots)
       \/ Len(roots) >= MaxRepos
       \/ \A k \in DOMAIN Repositories[root] : ~Repositories[root][k].readable
    /\ report' = "failed"
    /\ UNCHANGED <<entries, roots, status, plan, todo>>

\* pkg_repo_delete and pkg_repo_clear
RepoDelete(i) ==
    /\ Idle
    /\ entries' = SelectSeq(entries, LAMBDA e : e.root # roots[i])
    /\ roots' = RemoveAt(roots, i)
    /\ report' = "deleted"
    /\ UNCHANGED <<status, plan, todo>>
RepoClear ==
    /\ Idle
    /\ entries' = << >> /\ roots' = << >>
    /\ report' = "deleted"
    /\ UNCHANGED <<status, plan, todo>>

\* deb_version_satisfies
Satisfies(have, op, want) ==
    CASE op = "" -> TRUE
      [] op = "=" -> have = want
      [] op = ">=" -> have >= want
      [] op = "<=" -> have <= want
      [] op = ">>" -> have > want
      [] op = "<<" -> have < want
      [] OTHER -> FALSE

\* pkg_repo_find_best and pkg_repo_find_provider: the first of the newest.
None == [root |-> "none"]
Newest(es) ==
    IF es = << >> THEN None
    ELSE FoldLeft(LAMBDA best, e : IF e.ver > best.ver THEN e ELSE best, Head(es), es)
FindBest(name, op, ver) ==
    Newest(SelectSeq(entries, LAMBDA e : e.pkg = name /\ Satisfies(e.ver, op, ver)))
FindProvider(name) == Newest(SelectSeq(entries, LAMBDA e : name \in e.provides))

\* pkg_state_lookup: the version of the first stanza of a package.
Stanzas(name) == {k \in DOMAIN status : status[k].pkg = name}
Registered(name) == Stanzas(name) # {}
Version(name) == status[Min(Stanzas(name))].ver

------------------------------------------------------------------------------
(* The dependency graph                                                      *)

Choice(e, inst, alt) == [e |-> e, inst |-> inst, alt |-> alt]
NoChoice == Choice(None, "no", [name |-> "", op |-> "", ver |-> 0])

\* One alternative of a group, as the loop of choose_alt takes it.
Tried(a, best, prov) ==
    CASE Registered(a.name) /\ Satisfies(Version(a.name), a.op, a.ver) ->
           Choice(best, IF best = None THEN "only target" ELSE "yes", a)
      [] best # None -> Choice(best, "no", a)
      [] prov # None ->
           Choice(prov, IF Registered(prov.pkg) /\ Version(prov.pkg) = prov.ver
                        THEN "yes" ELSE "no", a)
      [] OTHER -> NoChoice
TryAlt(a) == Tried(a, FindBest(a.name, a.op, a.ver), FindProvider(a.name))
FirstGood(choices) ==
    LET good == {i \in DOMAIN choices : choices[i] # NoChoice}
    IN  IF good = {} THEN NoChoice ELSE choices[Min(good)]
ChooseAlt(g) == FirstGood([i \in DOMAIN g |-> TryAlt(g[i])])

\* node_for
NodeOf(p, name) == {i \in DOMAIN p.nodes : p.nodes[i].e.pkg = name}
NewNode(e) == [e |-> e, installed |-> FALSE, seen |-> FALSE]
NodeFor(p, e) == IF NodeOf(p, e.pkg) # {} \/ Len(p.nodes) >= MaxNodes THEN p
                 ELSE [p EXCEPT !.nodes = Append(@, NewNode(e))]

\* add_edge drops what does not fit.
AddEdge(p, a, b) == IF Len(p.edges) < MaxEdges THEN [p EXCEPT !.edges = Append(@, <<a, b>>)] ELSE p

\* One group of a package, up to the recursive call: a package that the plan has in
\* a version that will not do makes the plan invalid.
Invalid(p) == [p EXCEPT !.valid = FALSE]

\* Mutant: the version that the plan already has is not looked at.
LinkUnchecked(p, n, c) ==
    LET q == NodeFor(p, c.e)
        d == Min(NodeOf(q, c.e.pkg))
    IN  IF NodeOf(q, c.e.pkg) = {} THEN Invalid(p)
        ELSE AddEdge([q EXCEPT !.nodes[d].installed = @ \/ c.inst = "yes"], n, d)

Link(p, n, c) ==
    LET old == NodeOf(p, c.e.pkg)
        q == NodeFor(p, c.e)
        d == Min(NodeOf(q, c.e.pkg))
        clash == \E j \in old : ~Satisfies(p.nodes[j].e.ver, c.alt.op, c.alt.ver)
    IN  IF clash \/ NodeOf(q, c.e.pkg) = {} THEN Invalid(p)
        ELSE AddEdge([q EXCEPT !.nodes[d].installed = @ \/ c.inst = "yes"], n, d)

\* expand: Pre-Depends, then Depends.  seen stands for visiting and done.
RECURSIVE Expand(_, _)
RECURSIVE ExpandGroups(_, _, _)
RECURSIVE ExpandChosen(_, _, _, _)
RECURSIVE ExpandLinked(_, _, _, _)
ExpandGroups(p, n, gs) ==
    IF gs = << >> \/ ~p.valid THEN p ELSE ExpandChosen(ChooseAlt(Head(gs)), p, n, Tail(gs))
ExpandChosen(c, p, n, gs) ==
    CASE c = NoChoice -> Invalid(p)
      [] c.inst = "only target" -> ExpandGroups(p, n, gs)
      [] OTHER -> ExpandLinked(Link(p, n, c), c.e.pkg, n, gs)
ExpandLinked(q, name, n, gs) ==
    IF q.valid THEN ExpandGroups(Expand(q, Min(NodeOf(q, name))), n, gs) ELSE q
Expand(p, n) ==
    IF p.nodes[n].seen THEN p
    ELSE ExpandGroups([p EXCEPT !.nodes[n].seen = TRUE], n,
                      p.nodes[n].e.pre \o p.nodes[n].e.dep)

------------------------------------------------------------------------------
(* Components and order                                                      *)

\* Mutant: an edge to a finished component lowers low too.
LowerAlways(t, v, w) == [t EXCEPT !.low[v] = Min({@, t.index[w]})]

\* tarjan on a node that has an index: only the stack counts.
LowerBy(t, v, w) ==
    IF w \in ToSet(t.stack) THEN [t EXCEPT !.low[v] = Min({@, t.index[w]})] ELSE t

\* The end of tarjan: a root takes its component from the stack, last one first.
PopComponent(t, v) ==
    LET k == CHOOSE i \in DOMAIN t.stack : t.stack[i] = v
    IN  [t EXCEPT !.comps = Append(@, Reverse(SubSeq(t.stack, k, Len(t.stack)))),
                  !.stack = SubSeq(t.stack, 1, k - 1)]

Visit(t, v) ==
    [t EXCEPT !.index[v] = t.next, !.low[v] = t.next, !.next = @ + 1, !.stack = Append(@, v)]
LowerFrom(t, v, w) == [t EXCEPT !.low[v] = Min({@, t.low[w]})]
Closed(t, v) == IF t.low[v] = t.index[v] THEN PopComponent(t, v) ELSE t
RECURSIVE Tarjan(_, _, _)
RECURSIVE TarjanEdges(_, _, _, _)
Tarjan(p, t, v) == Closed(TarjanEdges(p, Visit(t, v), v, 1), v)
TarjanEdges(p, t, v, i) ==
    IF i > Len(p.edges) THEN t
    ELSE LET w == p.edges[i][2]
         IN  TarjanEdges(p, CASE p.edges[i][1] # v -> t
                              [] p.edges[i][1] = v /\ t.index[w] = 0 -> LowerFrom(Tarjan(p, t, w), v, w)
                              [] OTHER -> LowerBy(t, v, w), v, i + 1)

\* build_components
BuildComponents(p) ==
    LET zero == [i \in DOMAIN p.nodes |-> 0]
    IN  [p EXCEPT !.comps =
           FoldLeft(LAMBDA t, v : IF t.index[v] = 0 THEN Tarjan(p, t, v) ELSE t,
                    [index |-> zero, low |-> zero, next |-> 1, stack |-> << >>, comps |-> << >>],
                    [i \in DOMAIN p.nodes |-> i]).comps]

\* emit_component, apply_component and audit_component go the same way: what a
\* component's members depend on comes before it.
ComponentOf(p, n) == CHOOSE c \in DOMAIN p.comps : n \in ToSet(p.comps[c])
DependsOn(p, c) ==
    FlattenSeq([m \in DOMAIN p.comps[c] |->
        LET out == SelectSeq(p.edges, LAMBDA e : e[1] = p.comps[c][m])
        IN  [k \in DOMAIN out |-> ComponentOf(p, out[k][2])]])
RECURSIVE EmitComponent(_, _, _)
EmitComponent(p, st, c) ==
    IF c \in st.emitted THEN st
    ELSE LET st1 == [st EXCEPT !.emitted = @ \union {c}]
             st2 == FoldLeft(LAMBDA s, d : IF d = c THEN s ELSE EmitComponent(p, s, d), st1,
                             DependsOn(p, c))
         IN  [st2 EXCEPT !.order = @ \o p.comps[c]]
Order(p) ==
    FoldLeft(LAMBDA s, c : EmitComponent(p, s, c),
             EmitComponent(p, [emitted |-> {}, order |-> << >>], ComponentOf(p, 1)),
             [c \in DOMAIN p.comps |-> c]).order

\* build_plan, for a package that some repository has.
InOrder(p) == [p EXCEPT !.order = Order(p)]
Start(e) ==
    [NoPlan EXCEPT !.nodes = <<[NewNode(e) EXCEPT !.installed = Registered(e.pkg) /\ Version(e.pkg) = e.ver]>>,
                   !.valid = TRUE]
BuildPlan(name) == InOrder(BuildComponents(Expand(Start(FindBest(name, "", 0)), 1)))

------------------------------------------------------------------------------
(* Commands                                                                  *)

\* pkg plan: read-only.
PlanRun(name) ==
    /\ Idle
    /\ report' = IF FindBest(name, "", 0) = None \/ ~BuildPlan(name).valid THEN "invalid" ELSE "valid"
    /\ UNCHANGED <<entries, roots, status, plan, todo>>

\* pkg_plan_apply: nothing is unpacked from a plan that is not valid.
Apply(name) ==
    /\ Idle
    /\ \E p \in {IF FindBest(name, "", 0) = None THEN NoPlan ELSE BuildPlan(name)} :
          /\ plan' = IF p.valid THEN p ELSE NoPlan
          /\ todo' = IF p.valid THEN p.order ELSE << >>
          /\ report' = IF p.valid THEN "applying" ELSE "invalid"
    /\ UNCHANGED <<entries, roots, status>>

\* apply_component on one node: an archive that cannot be unpacked, or of which
\* some entries were skipped, stops the walk; the latter is registered.
Register(n) == status' = Append(status, [pkg |-> plan.nodes[n].e.pkg, ver |-> plan.nodes[n].e.ver])
Stop(why) == plan' = NoPlan /\ todo' = << >> /\ report' = why
Skip ==
    /\ todo # << >> /\ plan.nodes[Head(todo)].installed
    /\ todo' = Tail(todo)
    /\ UNCHANGED <<entries, roots, status, plan, report>>
Unpack ==
    /\ todo # << >> /\ ~plan.nodes[Head(todo)].installed
    /\ Len(status) < MaxStatus
    /\ Register(Head(todo))
    /\ todo' = Tail(todo)
    /\ UNCHANGED <<entries, roots, plan, report>>
UnpackFails ==
    /\ todo # << >> /\ ~plan.nodes[Head(todo)].installed
    /\ Stop("failed")
    /\ UNCHANGED <<entries, roots, status>>
UnpackSkips ==
    /\ todo # << >> /\ ~plan.nodes[Head(todo)].installed
    /\ Len(status) < MaxStatus
    /\ Register(Head(todo))
    /\ Stop("failed")
    /\ UNCHANGED <<entries, roots>>
Applied ==
    /\ ~Idle /\ todo = << >> /\ report = "applying"
    /\ report' = "applied"
    /\ UNCHANGED <<entries, roots, status, plan, todo>>
Finish ==
    /\ ~Idle /\ report = "applied"
    /\ Stop("done")
    /\ UNCHANGED <<entries, roots, status>>

\* pkg audit scans the scripts of every package of the closure; a scan that fails
\* is counted and the walk goes on.
Audit(name, failures) ==
    /\ Idle
    /\ report' = IF FindBest(name, "", 0) # None /\ BuildPlan(name).valid /\ failures = 0
                 THEN "valid" ELSE "invalid"
    /\ UNCHANGED <<entries, roots, status, plan, todo>>

PlannerNext ==
    \/ \E r \in DOMAIN Repositories : RepoAdd(r) \/ RepoAddFails(r)
    \/ \E i \in DOMAIN roots : RepoDelete(i)
    \/ RepoClear
    \/ \E n \in Requested : PlanRun(n) \/ Apply(n) \/ \E f \in 0 .. 1 : Audit(n, f)
    \/ Skip \/ Unpack \/ UnpackFails \/ UnpackSkips \/ Applied \/ Finish

------------------------------------------------------------------------------
(* Properties                                                                *)

RECURSIVE ReachedFrom(_, _)
ReachedFrom(p, s) ==
    LET s2 == s \union {p.edges[k][2] : k \in {j \in DOMAIN p.edges : p.edges[j][1] \in s}}
    IN  IF s2 = s THEN s ELSE ReachedFrom(p, s2)
SameCycle(p, a, b) == b \in ReachedFrom(p, {a}) /\ a \in ReachedFrom(p, {b})
Place(n) == CHOOSE i \in DOMAIN plan.order : plan.order[i] = n

\* The components that tarjan finds are the cycles of the graph, every node is
\* handled once, and a package is unpacked only after all it depends on outside its
\* own cycle, whatever the order of the edges.
UnpackOrdered ==
    plan # NoPlan =>
        /\ Len(plan.order) = Len(plan.nodes) /\ ToSet(plan.order) = DOMAIN plan.nodes
        /\ \A a, b \in DOMAIN plan.nodes :
              SameCycle(plan, a, b) <=> (ComponentOf(plan, a) = ComponentOf(plan, b))
        /\ \A k \in DOMAIN plan.edges :
              \/ SameCycle(plan, plan.edges[k][1], plan.edges[k][2])
              \/ Place(plan.edges[k][2]) < Place(plan.edges[k][1])

\* A package of the plan that counts as present although the target has it in
\* another version only: some dependent was content with that one.
Taken(name) ==
    \E n \in DOMAIN plan.nodes :
        /\ plan.nodes[n].e.pkg = name
        /\ plan.nodes[n].installed
        /\ \A k \in Stanzas(name) : status[k].ver # plan.nodes[n].e.ver
Provided(name) ==
    \E k \in DOMAIN entries : name \in entries[k].provides /\ Registered(entries[k].pkg)
Met(g) ==
    \E i \in DOMAIN g :
        \/ \E k \in Stanzas(g[i].name) : Satisfies(status[k].ver, g[i].op, g[i].ver)
        \/ Provided(g[i].name)
        \/ Taken(g[i].name)

\* When pkg_plan_apply reports that it is complete, every package of the plan that
\* it unpacked has all its dependencies on the target, also after attempts that
\* failed half way and with repositories that come and go; the exception is a
\* package that was present in a version one dependent accepts and another does not.
AppliedSatisfied ==
    report = "applied" =>
        \A n \in DOMAIN plan.nodes :
            ~plan.nodes[n].installed =>
                \A g \in ToSet(plan.nodes[n].e.pre \o plan.nodes[n].e.dep) : Met(g)
==============================================================================
