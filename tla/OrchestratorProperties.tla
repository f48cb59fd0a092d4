----------------------- MODULE OrchestratorProperties -----------------------
(***************************************************************************)
(* What a pass promises: its order, judged against the dependency graph    *)
(* itself, what a failure keeps from running, and how often an item runs   *)
(* on one date.                                                            *)
(***************************************************************************)
EXTENDS Orchestrator

PassType ==
    [stage: {"idle", "between", "running"}, date: Nat, hour: Nat, force: BOOLEAN,
     ran: SUBSET Name, decided: [Item -> Status], flush: BOOLEAN, item: Item \cup {0},
     number: Nat, since: SUBSET Nat]
WinType == [name: Name, date: Nat, item: Item, pass: Nat, since: SUBSET Nat]

TypeInvariant ==
    /\ plan \in Plans
    /\ day \in Nat /\ hour \in Nat
    /\ last \in [Name -> Nat]
    /\ pass \in [Process -> PassType]
    /\ used \in [Counter -> Nat]
    /\ over \subseteq Nat /\ wins \subseteq WinType

----------------------------------------------------------------------------
(* The graph of the items due on a date *)

\* Everything i depends on, within its set: the least set that has its due
\* upstreams and theirs.
Upstreams(i, date) ==
    LET closed == {is \in SUBSET SameSet(i) :
                      \A j \in is \cup {i} : DueUpstream(j, date) \subseteq is}
    IN {u \in SameSet(i) : \A is \in closed : u \in is}

Cyclic(i, date) == i \in Upstreams(i, date)
BehindCycle(i, date) == \E j \in Upstreams(i, date) : Cyclic(j, date)
Tangled(i, date) ==
    BehindCycle(i, date) \/ \E j \in Item : Cyclic(j, date) /\ i \in Upstreams(j, date)

\* The tightest deadline of i and of whatever due item depends on it.
TightestDeadline(i, date) ==
    Min({plan[i].due} \cup
        {plan[j].due : j \in {k \in SameSet(i) : DueOn(k, date) /\ i \in Upstreams(k, date)}})

----------------------------------------------------------------------------
(* The order of a pass *)

\* A pass takes up item i: it has decided it, or runs it.
Takes(p, i) ==
    /\ pass[p].stage = "between" /\ pass[p].decided[i] = "none"
    /\ \/ pass'[p].decided[i] # "none"
       \/ pass'[p].stage = "running" /\ pass'[p].item = i

StillDue(p, i) ==
    i \in Left(p) /\ DueOn(i, pass[p].date) /\ plan[i].name \notin pass[p].ran

\* order_run_candidates: an item waits for a less pressing one of its set only
\* where it depends on one that has already succeeded today, which has no
\* pressure left, or sits on either side of a dependency cycle.
PressureKept ==
    [][\A p \in Process : \A a \in {i \in Item : Takes(p, i) /\ StillDue(p, i)} :
         LET date == pass[p].date
             tightest == TightestDeadline(a, date)
         IN \A b \in SameSet(a) \ {a} :
              StillDue(p, b) /\ TightestDeadline(b, date) < tightest
              => \/ \E u \in Upstreams(b, date) \cap Left(p) : plan[u].name \in pass[p].ran
                 \/ Tangled(b, date)]_vars

\* _dependencies_first with _blocked_dependency: off and before the cycles, a pipeline runs
\* in a pass only when every due upstream of its set has had its turn in that
\* pass, and none has failed there.
UpstreamsFirst ==
    [][\A p \in Process :
         pass'[p].stage = "running" /\ pass[p].stage # "running" =>
            LET i == pass'[p].item
                date == pass[p].date
            IN \/ \A u \in DueUpstream(i, date) : pass[p].decided[u] \notin {"none", "failed"}
               \/ BehindCycle(i, date)]_vars

----------------------------------------------------------------------------
(* Repeats *)

\* An item that does not allow multiple runs succeeds once for a run date, in
\* however many sets it is scheduled and whatever is run by hand or dies, unless
\* two unforced passes overlap: neither then sees what the other runs.
OncePerRunDate ==
    \A v, w \in wins : (v.name = w.name /\ v.date = w.date /\ v # w) =>
        v.pass # w.pass /\ v.pass \notin w.since /\ w.pass \notin v.since
=============================================================================
