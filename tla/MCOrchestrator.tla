--------------------------- MODULE MCOrchestrator ---------------------------
(* A small instance of Orchestrator for TLC. *)
EXTENDS OrchestratorProperties

CONSTANTS a, b, c, MaxPasses, MaxBreaks

Processes == Permutations(Process)

MCBound == [k \in Counter |-> IF k = "passes" THEN MaxPasses ELSE MaxBreaks]

MCFirstRuns == {[n \in Name |-> IF n = b THEN 1 ELSE 0]}

\* Three pipelines in one set; the second set has the third of them again.
NameOf == <<a, b, c, c>>
Need(n, d, s, blk) == [name |-> n, days |-> d, same |-> s, block |-> blk]

\* Who depends on whom, by when, how urgently: an item whose dependent is
\* due before its rival, and a cycle with an item behind it.
Declared == {
    [needs |-> <<{}, {}, {a}, {b}>>, due |-> <<2, 1, 0, 1>>, priority |-> <<0, 0, 1, 0>>],
    [needs |-> <<{b}, {a}, {b}, {}>>, due |-> <<2, 1, 0, 2>>, priority |-> <<1, 0, 0, 0>>]}

MCPlans == {[i \in Item |->
    [name |-> NameOf[i], set |-> IF i = 4 THEN 2 ELSE 1,
     days |-> IF i = 1 THEN {2} ELSE 1..LastDay,
     due |-> d.due[i], earliest |-> IF i = 2 THEN 1 ELSE 0, priority |-> d.priority[i],
     needs |-> {Need(n, IF i = 3 THEN 1 ELSE 0, i = 4, i = 2) : n \in d.needs[i]},
     own |-> IF i = 3 THEN {Need(b, 0, FALSE, FALSE)} ELSE {}, multiple |-> i = 2]] : d \in Declared}
=============================================================================
