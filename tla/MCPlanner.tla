----------------------------- MODULE MCPlanner ------------------------------
(***************************************************************************)
(* Two repositories with cycles, alternatives, virtual packages and        *)
(* versions that contradict each other, one index that cannot be read, and *)
(* targets on which some of the packages are registered.                   *)
(***************************************************************************)
EXTENDS Planner
Alt(name, op, ver) == [name |-> name, op |-> op, ver |-> ver]
Plain(name) == <<Alt(name, "", 0)>>
Stanza(pkg, ver, pre, dep, provides) ==
    [pkg |-> pkg, ver |-> ver, file |-> ver, pre |-> pre, dep |-> dep, provides |-> provides, complete |-> TRUE]
\* main: a needs b or else c, and a mailer; b and c need each other, c needs d first.
Main == <<Stanza("a", 2, << >>, <<Plain("mta"), <<Alt("b", ">=", 9), Alt("c", "", 0)>>>>, {}),
          Stanza("b", 1, << >>, <<Plain("c")>>, {}),
          Stanza("c", 1, <<<<Alt("d", ">=", 1)>>>>, <<Plain("b")>>, {}),
          Stanza("d", 1, << >>, << >>, {"mta"}),
          [Stanza("b", 3, << >>, << >>, {}) EXCEPT !.complete = FALSE],
          Stanza("d", 1, << >>, << >>, {"mta"})>>
Updates == <<Stanza("d", 2, << >>, <<Plain("b")>>, {"mta"}),
             Stanza("a", 3, << >>, <<<<Alt("d", ">>", 1)>>, <<Alt("d", "<<", 9)>>, <<Alt("b", "<=", 1)>>, <<Alt("c", "=", 1)>>>>, {}),
             Stanza("g", 1, << >>, <<<<Alt("d", ">=", 2)>>, <<Alt("d", "<=", 1)>>>>, {}),
             Stanza("e", 1, << >>, <<Plain("nothing")>>, {})>>
MCRepositories == [r \in {"main", "updates", "empty"} |->
    CASE r = "main" -> <<[readable |-> FALSE, stanzas |-> << >>], [readable |-> TRUE, stanzas |-> Main]>>
      [] r = "updates" -> <<[readable |-> TRUE, stanzas |-> Updates]>>
      [] OTHER -> << >>]
MCStatuses == {<< >>, <<[pkg |-> "d", ver |-> 1]>>, <<[pkg |-> "f", ver |-> 1], [pkg |-> "b", ver |-> 1]>>}
=============================================================================
