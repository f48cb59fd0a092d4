------------------------ MODULE RunRegistryProperties ------------------------
(***************************************************************************)
(* What the run registry promises of the records behind run history and    *)
(* freshness.                                                              *)
(***************************************************************************)
EXTENDS RunRegistry

\* Each line the registry has consumed is one of its rows: none "is
\* double-counted even if earlier content is revisited", and none is dropped.
CountedOnce ==
    /\ \A r, s \in store : r.line = s.line => r = s
    /\ \A i \in 1..Len(log) : i =< offset => \E r \in store : r.line = log[i].line
=============================================================================
