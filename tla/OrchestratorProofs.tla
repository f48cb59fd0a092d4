------------------------- MODULE OrchestratorProofs -------------------------
(***************************************************************************)
(* Proofs about Orchestrator, for any number of processes, pipelines,      *)
(* plans, passes and days: once-per-date items succeed once per run date   *)
(* unless passes overlap, and what is behind no dependency cycle runs      *)
(* after its upstreams.                                                    *)
(*                                                                         *)
(* The argument.  A pass knows what succeeded before it began from the run *)
(* history, which keeps only the latest success of a pipeline: enough,     *)
(* since a pass is for the day on which it begins and no success is later  *)
(* than that.  What succeeds within the pass it knows from its own         *)
(* decisions.  So a success it does not know of belongs to a pass that was *)
(* under way at the same time as itself.                                   *)
(*                                                                         *)
(* What is ready waits for nothing of its set.  Once nothing is ready, all *)
(* that is left is behind a cycle: a finite graph in which everything has  *)
(* an upstream has one.                                                    *)
(***************************************************************************)
EXTENDS OrchestratorProperties, FiniteSetTheorems, WellFoundedInduction, TLAPS

----------------------------------------------------------------------------
(* The inductive invariant *)

Active(p) == pass[p].stage # "idle"

\* No success is later than now, and passes are numbered as they begin.
ClockInv ==
    /\ \A n \in Name : last[n] =< day
    /\ over \subseteq 1..used["passes"]

\* A pass under way is of no later date than now, has a number of its own, and
\* knows the passes that ended before it.
PassInv ==
    /\ \A p \in Process : Active(p) =>
          /\ pass[p].date =< day
          /\ pass[p].number \in 1..used["passes"] /\ pass[p].number \notin over
          /\ pass[p].since \subseteq over
    /\ \A p, q \in Process :
          Active(p) /\ Active(q) /\ p # q => pass[p].number # pass[q].number

\* A counted success is in the history, or a later one of its pipeline is.
WinInv ==
    \A w \in wins :
        /\ w.pass \in 1..used["passes"] /\ w.since \subseteq over
        /\ w.date =< day /\ w.date =< last[w.name]
        /\ plan[w.item].name = w.name

\* A pass knows the successes of its date from before it and from itself.
KnownInv ==
    \A p \in Process : \A w \in wins : Active(p) =>
        /\ w.pass \in pass[p].since /\ w.date = pass[p].date => w.name \in pass[p].ran
        /\ w.pass = pass[p].number => pass[p].decided[w.item] = "succeeded"

\* What a pass runs it neither had to skip nor has settled.
RunningInv ==
    \A p \in Process : pass[p].stage = "running" =>
        /\ pass[p].item \in Item
        /\ ~Skipped(p, pass[p].item) /\ ~Settled(p, pass[p].item)

IInv == TypeInvariant /\ ClockInv /\ PassInv /\ WinInv /\ KnownInv /\ RunningInv /\ OncePerRunDate

----------------------------------------------------------------------------
(* Steps *)

LEMMA InitInv == Init => IInv
  <1> SUFFICES ASSUME Init PROVE IInv
    OBVIOUS
  <1> USE OrchestratorAssumption
  <1>1. Idle \in PassType
    BY DEF Idle, PassType, Status
  <1>2. TypeInvariant
    BY <1>1 DEF Init, TypeInvariant
  <1>3. \A p \in Process : pass[p].stage = "idle"
    BY DEF Init, Idle
  <1>4. wins = {} /\ over = {} /\ \A n \in Name : last[n] =< day
    BY DEF Init
  <1> QED BY <1>2, <1>3, <1>4 DEF IInv, ClockInv, PassInv, WinInv, KnownInv, RunningInv,
                                  OncePerRunDate, Active

\* The name of an item is one of the pipelines.
LEMMA ItemNames == ASSUME TypeInvariant, NEW i \in Item PROVE plan[i].name \in Name
  BY OrchestratorAssumption DEF TypeInvariant, ItemType

\* A step of a pass under way keeps its identity, and so that of all of them.
LEMMA PassFrame ==
    ASSUME PassInv, NEW p \in Process, Active(p), UNCHANGED <<day, used, over>>,
           pass'[p].date = pass[p].date, pass'[p].number = pass[p].number,
           pass'[p].since = pass[p].since,
           \A q \in Process \ {p} : pass'[q] = pass[q]
    PROVE PassInv'
  <1>1. \A q \in Process : Active(q)' =>
           /\ Active(q) /\ pass'[q].date = pass[q].date
           /\ pass'[q].number = pass[q].number /\ pass'[q].since = pass[q].since
    BY DEF Active
  <1> QED BY <1>1 DEF PassInv

\* A pass that runs nothing leaves the others to run what they run.
LEMMA RunningFrame ==
    ASSUME RunningInv, NEW p \in Process, pass'[p].stage # "running", UNCHANGED plan,
           \A q \in Process \ {p} : pass'[q] = pass[q]
    PROVE RunningInv'
  <1> SUFFICES ASSUME NEW q \in Process, pass'[q].stage = "running"
               PROVE /\ pass'[q].item \in Item
                     /\ ~Skipped(q, pass[q].item)' /\ ~Settled(q, pass[q].item)'
    BY DEF RunningInv
  <1>1. pass'[q] = pass[q]
    OBVIOUS
  <1> QED BY <1>1 DEF RunningInv, Skipped, DueOn, Settled

LEMMA StartPassStep == ASSUME IInv, NEW p \in Process, StartPass(p) PROVE IInv'
  <1> USE DEF IInv
  <1>0. PICK force \in BOOLEAN :
        pass' = [pass EXCEPT ![p] =
            [Idle EXCEPT !.stage = "between", !.date = day, !.hour = hour, !.force = force,
                         !.ran = RanOn(day), !.number = used'["passes"], !.since = over]]
    BY DEF StartPass
  <1>1. /\ "passes" \in Counter
        /\ used' = [used EXCEPT !["passes"] = @ + 1]
        /\ UNCHANGED <<plan, day, hour, last, over, wins>>
    BY DEF StartPass, Spend, Counter
  <1>2. /\ used["passes"] \in Nat /\ used'["passes"] = used["passes"] + 1
        /\ used' \in [Counter -> Nat]
    BY <1>1 DEF TypeInvariant
  <1>3. pass'[p] =
          [stage |-> "between", date |-> day, hour |-> hour, force |-> force, ran |-> RanOn(day),
           decided |-> [i \in Item |-> "none"], flush |-> FALSE, item |-> 0,
           number |-> used["passes"] + 1, since |-> over]
    BY <1>0, <1>2 DEF TypeInvariant, Idle
  <1>4. pass' = [pass EXCEPT ![p] = pass'[p]]
    BY <1>0 DEF TypeInvariant
  <1>5. \A q \in Process \ {p} : pass'[q] = pass[q]
    BY <1>4 DEF TypeInvariant
  <1>6. TypeInvariant'
    <2>1. RanOn(day) \in SUBSET Name
      BY DEF RanOn
    <2>2. pass'[p] \in PassType
      <3>1. day \in Nat /\ hour \in Nat /\ over \in SUBSET Nat /\ used["passes"] + 1 \in Nat
        BY <1>2 DEF TypeInvariant
      <3>2. [i \in Item |-> "none"] \in [Item -> Status]
        BY DEF Status
      <3> HIDE DEF IInv
      <3> QED BY <1>3, <2>1, <3>1, <3>2 DEF PassType
    <2>3. pass' \in [Process -> PassType]
      BY <1>4, <2>2 DEF TypeInvariant
    <2> QED BY <1>1, <1>2, <2>3 DEF TypeInvariant
  <1>7. ClockInv'
    BY <1>1, <1>2 DEF ClockInv
  <1>8. PassInv'
    <2>1. used["passes"] + 1 \notin over
      BY <1>2 DEF ClockInv
    <2>2. day =< day /\ over \subseteq over
      BY DEF TypeInvariant
    <2> QED BY <1>1, <1>2, <1>3, <1>5, <2>1, <2>2 DEF PassInv, Active
  <1>9. WinInv'
    BY <1>1, <1>2 DEF WinInv
  <1>10. KnownInv'
    <2> SUFFICES ASSUME NEW q \in Process, NEW w \in wins, Active(q)'
                 PROVE /\ w.pass \in pass'[q].since /\ w.date = pass'[q].date
                             => w.name \in pass'[q].ran
                       /\ w.pass = pass'[q].number => pass'[q].decided[w.item] = "succeeded"
      BY <1>1 DEF KnownInv
    <2>1. CASE q # p
      BY <1>5, <2>1 DEF KnownInv, Active
    <2>2. CASE q = p
      <3>1. w.pass # used["passes"] + 1
        BY <1>2 DEF WinInv
      <3>2. w.name \in Name /\ w.date =< last[w.name] /\ last[w.name] =< day
            /\ last[w.name] \in Nat /\ day \in Nat /\ w.date \in Nat
        BY DEF WinInv, ClockInv, TypeInvariant, WinType
      <3>3. w.date = day => w.name \in RanOn(day)
        BY <3>2 DEF RanOn
      <3>4. /\ pass'[q].since = over /\ pass'[q].date = day /\ pass'[q].ran = RanOn(day)
            /\ pass'[q].number = used["passes"] + 1
        BY <1>3, <2>2
      <3> HIDE DEF IInv
      <3> QED BY <3>1, <3>3, <3>4
    <2> QED BY <2>1, <2>2
  <1>11. RunningInv'
    BY <1>1, <1>3, <1>5 DEF RunningInv, Skipped, DueOn, Settled
  <1>12. OncePerRunDate'
    BY <1>1 DEF OncePerRunDate
  <1> QED BY <1>6, <1>7, <1>8, <1>9, <1>10, <1>11, <1>12

\* A decision on an item that has not succeeded keeps what is known of successes.
LEMMA DecidedStep ==
    ASSUME IInv, NEW p \in Process, Active(p), NEW i \in Item, pass[p].decided[i] # "succeeded",
           NEW status \in Status, Decided(p, i, status),
           UNCHANGED <<plan, day, hour, last, used, over, wins>>
    PROVE IInv'
  <1> USE DEF IInv
  <1> DEFINE flush == Flushing(p, i)
  <1>1. flush \in BOOLEAN
    BY DEF Flushing, TypeInvariant, PassType
  <1>2. /\ pass'[p] = [pass[p] EXCEPT !.stage = "between", !.decided[i] = status, !.flush = flush]
        /\ \A q \in Process \ {p} : pass'[q] = pass[q]
        /\ pass' \in [Process -> PassType]
    <2>1. pass \in [Process -> PassType]
      BY DEF TypeInvariant
    <2> DEFINE r == [pass[p] EXCEPT !.stage = "between", !.flush = flush,
                                    !.decided = [pass[p].decided EXCEPT ![i] = status]]
    <2>2. pass' = [pass EXCEPT ![p] = r] /\ r = [pass[p] EXCEPT !.stage = "between",
                                                 !.decided[i] = status, !.flush = flush]
      BY <2>1 DEF Decided, PassType
    <2>3. pass[p] \in PassType /\ pass[p].decided \in [Item -> Status]
      BY <2>1 DEF PassType
    <2> HIDE DEF IInv, flush
    <2>4. r \in PassType
      BY <1>1, <2>3 DEF PassType
    <2> QED BY <2>1, <2>2, <2>4
  <1>3. /\ pass'[p].stage = "between" /\ pass'[p].date = pass[p].date
        /\ pass'[p].number = pass[p].number /\ pass'[p].since = pass[p].since
        /\ pass'[p].ran = pass[p].ran
        /\ \A j \in Item \ {i} : pass'[p].decided[j] = pass[p].decided[j]
    BY <1>2 DEF TypeInvariant, PassType
  <1>4. TypeInvariant'
    BY <1>2 DEF TypeInvariant
  <1>5. ClockInv' /\ WinInv' /\ OncePerRunDate'
    BY DEF ClockInv, WinInv, OncePerRunDate
  <1> HIDE DEF flush
  <1>6. PassInv'
    BY <1>2, <1>3, PassFrame
  <1>7. KnownInv'
    <2>1. \A w \in wins : w.item \in Item
      BY DEF TypeInvariant, WinType
    <2> SUFFICES ASSUME NEW q \in Process, NEW w \in wins, Active(q)'
                 PROVE /\ w.pass \in pass'[q].since /\ w.date = pass'[q].date
                             => w.name \in pass'[q].ran
                       /\ w.pass = pass'[q].number => pass'[q].decided[w.item] = "succeeded"
      BY DEF KnownInv
    <2>2. CASE q # p
      BY <1>2, <2>2 DEF KnownInv, Active
    <2>3. CASE q = p
      BY <1>3, <2>1, <2>3 DEF KnownInv
    <2> QED BY <2>2, <2>3
  <1>8. RunningInv'
    BY <1>2, <1>3, RunningFrame
  <1> QED BY <1>4, <1>5, <1>6, <1>7, <1>8

LEMMA DecideStep == ASSUME IInv, NEW p \in Process, Decide(p) PROVE IInv'
  <1>1. PICK i \in NextItems(p) :
          \/ \E status \in {"skipped", "blocked", "failed"} : Decided(p, i, status)
          \/ /\ ~Skipped(p, i) /\ ~Settled(p, i)
             /\ pass' = [pass EXCEPT ![p].stage = "running", ![p].item = i]
    BY DEF Decide
  <1>2. i \in Item /\ pass[p].decided[i] = "none" /\ Active(p)
    BY DEF Decide, NextItems, Candidates, Ready, AtHand, Left, Active
  <1>3. UNCHANGED <<plan, day, hour, last, used, over, wins>>
    BY DEF Decide
  <1>4. ASSUME NEW status \in {"skipped", "blocked", "failed"}, Decided(p, i, status) PROVE IInv'
    BY <1>2, <1>3, <1>4, DecidedStep DEF Status
  <1>5. ASSUME ~Skipped(p, i), ~Settled(p, i),
               pass' = [pass EXCEPT ![p].stage = "running", ![p].item = i]
        PROVE IInv'
    <2> USE DEF IInv
    <2>1. /\ pass'[p] = [pass[p] EXCEPT !.stage = "running", !.item = i]
          /\ \A q \in Process \ {p} : pass'[q] = pass[q]
          /\ pass' \in [Process -> PassType]
      <3>1. pass \in [Process -> PassType]
        BY DEF TypeInvariant
      <3>2. pass' = [pass EXCEPT ![p] = [@ EXCEPT !.stage = "running", !.item = i]]
        BY <1>5, <3>1 DEF PassType
      <3>3. [pass[p] EXCEPT !.stage = "running", !.item = i] \in PassType
        BY <1>2, <3>1 DEF PassType
      <3> QED BY <3>1, <3>2, <3>3
    <2>2. /\ pass'[p].stage = "running" /\ pass'[p].item = i /\ pass'[p].date = pass[p].date
          /\ pass'[p].number = pass[p].number /\ pass'[p].since = pass[p].since
          /\ pass'[p].ran = pass[p].ran /\ pass'[p].decided = pass[p].decided
          /\ pass'[p].hour = pass[p].hour /\ pass'[p].force = pass[p].force
      BY <2>1 DEF TypeInvariant, PassType
    <2>3. TypeInvariant'
      BY <1>3, <2>1 DEF TypeInvariant
    <2>4. ClockInv' /\ WinInv' /\ OncePerRunDate'
      BY <1>3 DEF ClockInv, WinInv, OncePerRunDate
    <2>5. PassInv'
      BY <1>2, <1>3, <2>1, <2>2, PassFrame
    <2>6. KnownInv'
      <3> SUFFICES ASSUME NEW q \in Process, NEW w \in wins, Active(q)'
                   PROVE /\ w.pass \in pass'[q].since /\ w.date = pass'[q].date
                               => w.name \in pass'[q].ran
                         /\ w.pass = pass'[q].number => pass'[q].decided[w.item] = "succeeded"
        BY <1>3 DEF KnownInv
      <3>1. CASE q # p
        BY <2>1, <3>1 DEF KnownInv, Active
      <3>2. CASE q = p
        BY <1>2, <2>2, <3>2 DEF KnownInv
      <3> QED BY <3>1, <3>2
    <2>7. RunningInv'
      <3> SUFFICES ASSUME NEW q \in Process, pass'[q].stage = "running"
                   PROVE /\ pass'[q].item \in Item
                         /\ ~Skipped(q, pass[q].item)' /\ ~Settled(q, pass[q].item)'
        BY DEF RunningInv
      <3>1. CASE q # p
        BY <1>3, <2>1, <3>1 DEF RunningInv, Skipped, DueOn, Settled
      <3>2. CASE q = p
        BY ZenonT(60), <1>2, <1>3, <1>5, <2>2, <3>2 DEF Skipped, DueOn, Settled
      <3> QED BY <3>1, <3>2
    <2> QED BY <2>3, <2>4, <2>5, <2>6, <2>7
  <1> QED BY <1>1, <1>4, <1>5

LEMMA FailStep == ASSUME IInv, NEW p \in Process, Fail(p) PROVE IInv'
  <1>1. pass[p].item \in Item /\ ~Settled(p, pass[p].item) /\ Active(p)
    BY DEF Fail, IInv, RunningInv, Active
  <1>2. pass[p].decided[pass[p].item] # "succeeded"
    BY <1>1 DEF Settled
  <1>3. "failed" \in Status
    BY DEF Status
  <1> QED BY <1>1, <1>2, <1>3, DecidedStep DEF Fail

LEMMA SucceedStep == ASSUME IInv, NEW p \in Process, Succeed(p) PROVE IInv'
  <1> DEFINE i == pass[p].item
             n == plan[i].name
             flush == Flushing(p, i)
             held == ~plan[i].multiple /\ ~pass[p].force
             win == [name |-> n, date |-> pass[p].date, item |-> i,
                     pass |-> pass[p].number, since |-> pass[p].since]
  <1>1. /\ pass[p].stage = "running" /\ Active(p) /\ i \in Item
        /\ ~Skipped(p, i) /\ ~Settled(p, i)
    BY DEF Succeed, IInv, RunningInv, Active
  <1>2. /\ last' = [last EXCEPT ![n] = day]
        /\ wins' \subseteq wins \cup {win} /\ (~held => wins' = wins) /\ wins \subseteq wins'
        /\ UNCHANGED <<plan, day, hour, used, over>>
    BY DEF Succeed, Recorded
  <1>3. Decided(p, i, "succeeded")
    BY DEF Succeed
  <1> HIDE DEF i, n, held, win
  <1>4. TypeInvariant
    BY DEF IInv
  <1>5. n \in Name /\ day \in Nat /\ last \in [Name -> Nat]
    BY <1>1, <1>4, ItemNames DEF n, TypeInvariant
  <1>6. pass \in [Process -> PassType] /\ pass[p] \in PassType
    BY <1>4 DEF TypeInvariant
  <1>7. /\ \A q \in Process \ {p} : pass'[q] = pass[q]
        /\ pass' \in [Process -> PassType]
        /\ pass'[p].stage = "between" /\ pass'[p].date = pass[p].date
        /\ pass'[p].number = pass[p].number /\ pass'[p].since = pass[p].since
        /\ pass'[p].ran = pass[p].ran
        /\ pass'[p].decided = [pass[p].decided EXCEPT ![i] = "succeeded"]
    <2>1. flush \in BOOLEAN
      BY <1>6 DEF Flushing, PassType
    <2> DEFINE r == [pass[p] EXCEPT !.stage = "between", !.flush = flush,
                                    !.decided = [pass[p].decided EXCEPT ![i] = "succeeded"]]
    <2>2. pass' = [pass EXCEPT ![p] = r]
      BY <1>3, <1>6 DEF Decided, PassType
    <2>3. pass[p].decided \in [Item -> Status]
      BY <1>6 DEF PassType
    <2> HIDE DEF flush
    <2>4. [pass[p].decided EXCEPT ![i] = "succeeded"] \in [Item -> Status]
      BY <2>3 DEF Status
    <2>5. r \in PassType
      BY <1>6, <2>1, <2>4 DEF PassType
    <2>6. /\ r.stage = "between" /\ r.date = pass[p].date /\ r.number = pass[p].number
          /\ r.since = pass[p].since /\ r.ran = pass[p].ran
          /\ r.decided = [pass[p].decided EXCEPT ![i] = "succeeded"]
      BY <1>6 DEF PassType
    <2> HIDE DEF r
    <2> QED BY <1>6, <2>2, <2>5, <2>6
  <1>8. /\ pass'[p].decided[i] = "succeeded"
        /\ \A j \in Item \ {i} : pass'[p].decided[j] = pass[p].decided[j]
    BY <1>1, <1>6, <1>7 DEF PassType
  <1>9. win \in WinType /\ win.name = n /\ win.date = pass[p].date /\ win.item = i
        /\ win.pass = pass[p].number /\ win.since = pass[p].since
    BY <1>1, <1>5, <1>6 DEF win, WinType, PassType
  <1>10. last' \in [Name -> Nat] /\ last'[n] = day /\ \A m \in Name \ {n} : last'[m] = last[m]
    BY <1>2, <1>5
  <1>11. TypeInvariant'
    BY <1>2, <1>4, <1>7, <1>9, <1>10 DEF TypeInvariant
  <1>12. ClockInv'
    BY <1>2, <1>5, <1>10 DEF IInv, ClockInv
  <1>13. PassInv'
    BY <1>1, <1>2, <1>7, PassFrame DEF IInv
  <1>14. /\ pass[p].date =< day /\ pass[p].number \in 1..used["passes"]
         /\ pass[p].number \notin over /\ pass[p].since \subseteq over
    BY <1>1 DEF IInv, PassInv
  <1>15. WinInv'
    <2> SUFFICES ASSUME NEW w \in wins'
                 PROVE /\ w.pass \in 1..used["passes"] /\ w.since \subseteq over
                       /\ w.date =< day /\ w.date =< last'[w.name]
                       /\ plan[w.item].name = w.name
      BY <1>2 DEF WinInv
    <2>1. CASE w = win
      BY <1>9, <1>10, <1>14, <2>1 DEF n
    <2>2. CASE w \in wins
      <3>1. /\ w.pass \in 1..used["passes"] /\ w.since \subseteq over
            /\ w.date =< day /\ w.date =< last[w.name] /\ plan[w.item].name = w.name
        BY <2>2 DEF IInv, WinInv
      <3>2. w.name \in Name
        BY <1>4, <2>2 DEF TypeInvariant, WinType
      <3> QED BY <1>10, <3>1, <3>2
    <2> QED BY <1>2, <2>1, <2>2
  <1>16. KnownInv'
    <2> SUFFICES ASSUME NEW q \in Process, NEW w \in wins', Active(q)'
                 PROVE /\ w.pass \in pass'[q].since /\ w.date = pass'[q].date
                             => w.name \in pass'[q].ran
                       /\ w.pass = pass'[q].number => pass'[q].decided[w.item] = "succeeded"
      BY DEF KnownInv
    <2>1. Active(q) /\ pass'[q].number = pass[q].number /\ pass'[q].since = pass[q].since
          /\ pass'[q].date = pass[q].date /\ pass'[q].ran = pass[q].ran
      BY <1>1, <1>7 DEF Active
    <2>2. pass[q].since \subseteq over /\ (q # p => pass[q].number # pass[p].number)
      BY <1>1, <2>1 DEF IInv, PassInv
    <2>3. CASE w = win
      BY <1>8, <1>9, <1>14, <2>1, <2>2, <2>3
    <2>4. CASE w \in wins
      <3>1. /\ w.pass \in pass[q].since /\ w.date = pass[q].date => w.name \in pass[q].ran
            /\ w.pass = pass[q].number => pass[q].decided[w.item] = "succeeded"
        BY <2>1, <2>4 DEF IInv, KnownInv
      <3>2. w.item \in Item
        BY <1>4, <2>4 DEF TypeInvariant, WinType
      <3>3. pass[q].decided[w.item] = "succeeded" => pass'[q].decided[w.item] = "succeeded"
        BY <1>7, <1>8, <3>2
      <3> QED BY <2>1, <3>1, <3>3
    <2> QED BY <1>2, <2>3, <2>4
  <1>17. RunningInv'
    BY <1>2, <1>7, RunningFrame DEF IInv
  <1>18. OncePerRunDate'
    <2>1. ASSUME NEW w \in wins, held, w.name = n, w.date = pass[p].date
          PROVE w.pass # pass[p].number /\ w.pass \notin pass[p].since /\ pass[p].number \notin w.since
      <3>1. /\ w.pass \in pass[p].since => n \in pass[p].ran
            /\ w.pass = pass[p].number => pass[p].decided[w.item] = "succeeded"
        BY <1>1, <2>1 DEF IInv, KnownInv
      <3>2. w.since \subseteq over /\ plan[w.item].name = n /\ w.item \in Item
        BY <1>4, <2>1 DEF IInv, WinInv, TypeInvariant, WinType
      <3>3. n \notin pass[p].ran
        BY <1>1, <2>1 DEF Skipped, held, n
      <3>4. pass[p].decided[w.item] # "succeeded"
        BY <1>1, <3>2 DEF Settled, n
      <3> QED BY <1>14, <3>1, <3>2, <3>3, <3>4
    <2> SUFFICES ASSUME NEW v \in wins', NEW w \in wins',
                        v.name = w.name, v.date = w.date, v # w
                 PROVE v.pass # w.pass /\ v.pass \notin w.since /\ w.pass \notin v.since
      BY DEF OncePerRunDate
    <2>2. CASE v \in wins /\ w \in wins
      BY <2>2 DEF IInv, OncePerRunDate
    <2>3. CASE held /\ v \in wins /\ w = win
      BY <1>9, <2>1, <2>3
    <2>4. CASE held /\ v = win /\ w \in wins
      BY <1>9, <2>1, <2>4
    <2> QED BY <1>2, <2>2, <2>3, <2>4
  <1> QED BY <1>11, <1>12, <1>13, <1>15, <1>16, <1>17, <1>18 DEF IInv

\* A pass that ends, whether done or dead.
LEMMA EndedStep ==
    ASSUME IInv, NEW p \in Process, Active(p), Ended(p), used' \in [Counter -> Nat],
           used'["passes"] = used["passes"], UNCHANGED <<plan, day, hour, last, wins>>
    PROVE IInv'
  <1>1. Idle \in PassType
    BY DEF Idle, PassType, Status
  <1>2. /\ pass' \in [Process -> PassType] /\ pass'[p].stage = "idle"
        /\ \A q \in Process \ {p} : pass'[q] = pass[q]
    BY <1>1 DEF Ended, IInv, TypeInvariant, Idle
  <1>3. over' = over \cup {pass[p].number} /\ pass[p].number \in 1..used["passes"]
    BY DEF Ended, IInv, PassInv
  <1>4. TypeInvariant'
    <2>1. pass[p].number \in Nat
      BY DEF IInv, TypeInvariant, PassType
    <2>2. over' \subseteq Nat
      BY <1>3, <2>1 DEF IInv, TypeInvariant
    <2> QED BY <1>2, <2>2 DEF IInv, TypeInvariant
  <1>5. ClockInv'
    BY <1>3 DEF IInv, ClockInv
  <1>6. \A q \in Process : Active(q)' => Active(q) /\ q # p /\ pass'[q] = pass[q]
    BY <1>2 DEF Active
  <1>7. PassInv'
    BY <1>3, <1>6 DEF IInv, PassInv
  <1>8. WinInv'
    BY <1>3 DEF IInv, WinInv
  <1>9. KnownInv'
    BY <1>6 DEF IInv, KnownInv
  <1>10. RunningInv'
    BY <1>2, RunningFrame DEF IInv
  <1>11. OncePerRunDate'
    BY DEF IInv, OncePerRunDate
  <1> QED BY <1>4, <1>5, <1>7, <1>8, <1>9, <1>10, <1>11 DEF IInv

LEMMA SpendBreak ==
    ASSUME TypeInvariant, Spend("breaks")
    PROVE used' \in [Counter -> Nat] /\ used'["passes"] = used["passes"]
  BY DEF TypeInvariant, Spend, Counter

LEMMA RunByHandStep == ASSUME IInv, NEW n \in Name, RunByHand(n) PROVE IInv'
  <1>1. /\ UNCHANGED <<plan, day, hour, pass, over, wins>>
        /\ used' \in [Counter -> Nat] /\ used'["passes"] = used["passes"]
    BY SpendBreak DEF RunByHand, IInv
  <1>2. day \in Nat /\ last \in [Name -> Nat] /\ last' = [last EXCEPT ![n] = day]
    BY DEF RunByHand, Recorded, IInv, TypeInvariant
  <1>3. \A m \in Name : last'[m] \in Nat /\ last[m] =< day /\ last[m] =< last'[m] /\ last'[m] =< day
    BY <1>2 DEF IInv, ClockInv
  <1>4. TypeInvariant'
    BY <1>1, <1>2 DEF IInv, TypeInvariant
  <1>5. ClockInv' /\ PassInv' /\ KnownInv' /\ RunningInv' /\ OncePerRunDate'
    BY <1>1, <1>3 DEF IInv, ClockInv, PassInv, KnownInv, RunningInv, OncePerRunDate, Active,
                      Skipped, DueOn, Settled
  <1>6. WinInv'
    <2>1. \A w \in wins : w.name \in Name /\ w.date \in Nat
      BY DEF IInv, TypeInvariant, WinType
    <2>2. \A w \in wins : last[w.name] \in Nat
      BY <1>2, <2>1
    <2> QED BY <1>1, <1>2, <1>3, <2>1, <2>2 DEF IInv, WinInv
  <1> QED BY <1>4, <1>5, <1>6 DEF IInv

LEMMA TimePassesStep == ASSUME IInv, TimePasses PROVE IInv'
  <1>1. /\ UNCHANGED <<plan, last, pass, used, over, wins>>
        /\ day \in Nat /\ day' \in Nat /\ hour' \in Nat /\ day =< day'
    BY DEF TimePasses, IInv, TypeInvariant
  <1>2. TypeInvariant'
    BY <1>1 DEF IInv, TypeInvariant
  <1>3. /\ \A n \in Name : last[n] \in Nat
        /\ \A p \in Process : pass[p].date \in Nat
        /\ \A w \in wins : w.date \in Nat
    BY DEF IInv, TypeInvariant, PassType, WinType
  <1>4. ClockInv'
    BY <1>1, <1>3 DEF IInv, ClockInv
  <1>5. PassInv'
    BY <1>1, <1>3 DEF IInv, PassInv, Active
  <1>6. WinInv'
    BY <1>1, <1>3 DEF IInv, WinInv
  <1>7. KnownInv' /\ RunningInv' /\ OncePerRunDate'
    BY <1>1 DEF IInv, KnownInv, RunningInv, OncePerRunDate, Active, Skipped, DueOn, Settled
  <1> QED BY <1>2, <1>4, <1>5, <1>6, <1>7 DEF IInv

LEMMA NextInv == IInv /\ [Next]_vars => IInv'
  <1> SUFFICES ASSUME IInv, [Next]_vars PROVE IInv'
    OBVIOUS
  <1>1. ASSUME NEW p \in Process, Step(p) PROVE IInv'
    <2>1. CASE EndPass(p)
      BY <2>1, EndedStep DEF EndPass, Active, IInv, TypeInvariant
    <2>2. CASE Die(p)
      BY <2>2, EndedStep, SpendBreak DEF Die, Active, IInv
    <2> QED BY <1>1, <2>1, <2>2, StartPassStep, DecideStep, SucceedStep, FailStep DEF Step
  <1>2. ASSUME NEW n \in Name, RunByHand(n) PROVE IInv'
    BY <1>2, RunByHandStep
  <1>3. CASE TimePasses
    BY <1>3, TimePassesStep
  <1>4. CASE UNCHANGED vars
    BY <1>4 DEF vars, IInv, TypeInvariant, ClockInv, PassInv, WinInv, KnownInv, RunningInv,
                OncePerRunDate, Active, Skipped, DueOn, Settled
  <1> QED BY <1>1, <1>2, <1>3, <1>4 DEF Next

----------------------------------------------------------------------------
(* Theorems *)

\* Every reachable state has its type.
THEOREM OrchestratorTypeCorrect == Spec => []TypeInvariant
  <1>1. IInv => TypeInvariant
    BY DEF IInv
  <1> QED BY <1>1, InitInv, NextInv, PTL DEF Spec

\* For any plan, history and number of orchestrators, with runs by hand, deaths
\* and midnights in between: a pipeline that does not allow multiple runs succeeds
\* once for a run date, but for unforced passes that overlap.
THEOREM OncePerRunDateHolds == Spec => []OncePerRunDate
  <1>1. IInv => OncePerRunDate
    BY DEF IInv
  <1> QED BY <1>1, InitInv, NextInv, PTL DEF Spec

----------------------------------------------------------------------------
(* The graph of the due items *)

LEMMA UpstreamFacts ==
    ASSUME NEW i \in Item, NEW date
    PROVE  /\ DueUpstream(i, date) \subseteq Upstreams(i, date)
           /\ Upstreams(i, date) \subseteq SameSet(i)
           /\ \A j \in Upstreams(i, date) : DueUpstream(j, date) \subseteq Upstreams(i, date)
  BY DEF Upstreams, DueUpstream, SameSet

LEMMA UpstreamsOfUpstreams ==
    ASSUME NEW i \in Item, NEW date, NEW j \in Upstreams(i, date)
    PROVE  Upstreams(j, date) \subseteq Upstreams(i, date)
  <1>1. j \in Item /\ SameSet(j) = SameSet(i)
    BY UpstreamFacts DEF SameSet
  <1>2. \A k \in Upstreams(i, date) \cup {j} : DueUpstream(k, date) \subseteq Upstreams(i, date)
    BY UpstreamFacts
  <1>3. Upstreams(i, date) \in SUBSET SameSet(j)
    BY <1>1, UpstreamFacts
  <1> QED BY <1>1, <1>2, <1>3 DEF Upstreams

\* Where each item of a set has a due upstream in the set, each is behind a cycle:
\* of those it depends on there, one with the fewest upstreams is upstream of its
\* own upstream.
LEMMA NothingReady ==
    ASSUME NEW date, NEW is \in SUBSET Item, NEW i \in is,
           \A j \in is : DueUpstream(j, date) \cap is # {}
    PROVE  BehindCycle(i, date)
  <1> DEFINE Reached == {j \in is : j \in Upstreams(i, date)}
             Sets == {Upstreams(j, date) : j \in Reached}
  <1>1. Reached # {}
    BY UpstreamFacts
  <1>2. IsFiniteSet(Item)
    BY OrchestratorAssumption
  <1>3. Sets \subseteq FiniteSubsetsOf(Item)
    <2>1. ASSUME NEW j \in Reached PROVE Upstreams(j, date) \in SUBSET Item
      BY UpstreamFacts DEF SameSet
    <2>2. Sets \subseteq SUBSET Item
      BY <2>1
    <2> QED BY <1>2, <2>2, FS_FiniteSubsetsOfFinite
  <1>4. Sets # {}
    BY <1>1
  <1> HIDE DEF Sets
  <1>5. PICK x \in Sets : \A y \in Sets : ~ (<<y, x>> \in StrictSubsetOrdering(Item))
    BY <1>3, <1>4, WFMin, FS_StrictSubsetOrderingWellFounded
  <1>6. PICK j \in Reached : x = Upstreams(j, date)
    BY DEF Sets
  <1>7. j \in is /\ j \in Item /\ j \in Upstreams(i, date)
    BY <1>6
  <1>8. PICK u \in is : u \in DueUpstream(j, date)
    BY <1>7
  <1>9. u \in Upstreams(i, date) /\ u \in Upstreams(j, date) /\ u \in Item
    BY <1>7, <1>8, UpstreamFacts
  <1>10. Upstreams(u, date) \in Sets
    BY <1>8, <1>9 DEF Sets
  <1>11. Upstreams(u, date) \subseteq x /\ x \subseteq Item
    BY <1>6, <1>7, <1>9, UpstreamsOfUpstreams, UpstreamFacts DEF SameSet
  <1>12. Upstreams(u, date) = x
    BY <1>5, <1>10, <1>11 DEF StrictSubsetOrdering
  <1> QED BY <1>6, <1>9, <1>12 DEF BehindCycle, Cyclic

----------------------------------------------------------------------------
(* The order of a pass *)

\* What is flushed is behind a cycle, item by item.
FlushInv ==
    \A p \in Process : pass[p].flush =>
        \A i \in AtHand(p) : BehindCycle(i, pass[p].date)

\* The graph of the day does not change.
LEMMA GraphStands ==
    ASSUME UNCHANGED plan, NEW date
    PROVE  \A i \in Item : /\ DueUpstream(i, date)' = DueUpstream(i, date)
                           /\ BehindCycle(i, date)' <=> BehindCycle(i, date)
  BY DEF BehindCycle, Cyclic, Upstreams, DueUpstream, SameSet, DueOn, Needs

LEMMA AtHandItems == ASSUME NEW p \in Process PROVE AtHand(p) \subseteq Left(p) /\ Left(p) \subseteq Item
  BY DEF AtHand, Left

\* What is due before something at hand, and left, is itself at hand.
LEMMA NoneReady ==
    ASSUME TypeInvariant, NEW p \in Process, Ready(p) = {}, NEW i \in AtHand(p)
    PROVE  BehindCycle(i, pass[p].date)
  <1>1. \A j \in AtHand(p) : DueUpstream(j, pass[p].date) \cap AtHand(p) # {}
    BY DEF Ready, DueUpstream, SameSet, AtHand, Left
  <1> QED BY <1>1, AtHandItems, NothingReady

LEMMA TangledAtHand ==
    ASSUME TypeInvariant, FlushInv, NEW p \in Process, NEW i \in AtHand(p),
           pass[p].flush \/ Ready(p) = {}
    PROVE  BehindCycle(i, pass[p].date)
  BY NoneReady DEF FlushInv

LEMMA FlushFrame ==
    ASSUME FlushInv, UNCHANGED plan, NEW q \in Process,
           pass'[q].flush = pass[q].flush, pass'[q].date = pass[q].date,
           pass'[q].decided = pass[q].decided
    PROVE  pass'[q].flush => \A i \in AtHand(q)' : BehindCycle(i, pass[q].date)'
  <1>1. AtHand(q)' = AtHand(q)
    BY DEF AtHand, Left
  <1> QED BY <1>1, GraphStands, AtHandItems DEF FlushInv

\* Taking an item leaves no new item at hand, unless it was the last of its set.
LEMMA AtHandShrinks ==
    ASSUME TypeInvariant, NEW p \in Process, NEW i \in Item, AtHand(p) # {i}, UNCHANGED plan,
           Left(p)' = Left(p) \ {i}
    PROVE  AtHand(p)' \subseteq AtHand(p)
  <1>1. \A j \in Item : plan[j].set \in Nat /\ plan'[j].set = plan[j].set
    BY OrchestratorAssumption DEF TypeInvariant, ItemType
  <1> SUFFICES ASSUME NEW k \in Left(p) \ {i}, \A j \in Left(p) \ {i} : plan[k].set =< plan[j].set,
                      i \in Left(p)
               PROVE  plan[k].set =< plan[i].set
    BY <1>1, AtHandItems DEF AtHand
  <1>2. CASE i \in AtHand(p)
    <2>1. PICK m \in AtHand(p) : m # i
      BY <1>2
    <2>2. plan[k].set =< plan[m].set /\ plan[m].set =< plan[i].set
      BY <2>1 DEF AtHand
    <2> QED BY <1>1, <2>1, <2>2, AtHandItems
  <1>3. CASE i \notin AtHand(p)
    <2>1. PICK j \in Left(p) : ~ (plan[i].set =< plan[j].set)
      BY <1>3 DEF AtHand
    <2>2. plan[k].set =< plan[j].set
      BY <1>1, <2>1, AtHandItems
    <2> QED BY <1>1, <2>1, <2>2, AtHandItems
  <1> QED BY <1>2, <1>3

LEMMA DecidedFlush ==
    ASSUME TypeInvariant, FlushInv, NEW p \in Process, NEW i \in Item,
           NEW status \in Status \ {"none"}, Decided(p, i, status), UNCHANGED plan
    PROVE  FlushInv'
  <1> DEFINE flush == Flushing(p, i)
  <1>1. pass \in [Process -> PassType] /\ pass[p].decided \in [Item -> Status]
    BY DEF TypeInvariant, PassType
  <1>2. /\ \A q \in Process \ {p} : pass'[q] = pass[q]
        /\ pass'[p].flush = flush /\ pass'[p].date = pass[p].date
        /\ pass'[p].decided = [pass[p].decided EXCEPT ![i] = status]
    BY <1>1 DEF Decided, PassType
  <1>3. Left(p)' = Left(p) \ {i}
    BY <1>1, <1>2 DEF Left
  <1>4. ASSUME flush
        PROVE  \A k \in AtHand(p)' : BehindCycle(k, pass[p].date)'
    <2>1. AtHand(p) # {i} /\ (pass[p].flush \/ Ready(p) = {})
      BY <1>4 DEF Flushing
    <2>2. AtHand(p)' \subseteq AtHand(p)
      BY <1>3, <2>1, AtHandShrinks
    <2>3. \A k \in AtHand(p) : BehindCycle(k, pass[p].date)
      BY <2>1, TangledAtHand
    <2>4. PICK date : date = pass[p].date /\ date = pass'[p].date
      BY <1>2
    <2>5. \A k \in AtHand(p) : BehindCycle(k, date)'
      BY <2>3, <2>4, GraphStands, AtHandItems
    <2> QED BY <2>2, <2>4, <2>5
  <1> HIDE DEF flush
  <1>5. ASSUME NEW q \in Process \ {p}
        PROVE  pass'[q].flush => \A k \in AtHand(q)' : BehindCycle(k, pass[q].date)'
    BY <1>2, FlushFrame
  <1> QED BY <1>2, <1>4, <1>5 DEF FlushInv

LEMMA Begun ==
    ASSUME NEW p \in Process, pass \in [Process -> PassType], StartPass(p)
    PROVE  /\ UNCHANGED plan /\ ~pass'[p].flush /\ pass'[p].stage = "between"
           /\ \A q \in Process \ {p} : pass'[q] = pass[q]
  <1>1. PICK force \in BOOLEAN :
        pass' = [pass EXCEPT ![p] =
            [Idle EXCEPT !.stage = "between", !.date = day, !.hour = hour, !.force = force,
                         !.ran = RanOn(day), !.number = used'["passes"], !.since = over]]
    BY DEF StartPass
  <1>2. pass'[p] = [Idle EXCEPT !.stage = "between", !.date = day, !.hour = hour, !.force = force,
                                !.ran = RanOn(day), !.number = used'["passes"], !.since = over]
    BY <1>1
  <1>3. ~pass'[p].flush /\ pass'[p].stage = "between"
    BY <1>2 DEF Idle
  <1> QED BY <1>1, <1>3 DEF StartPass

LEMMA InitFlush == Init => FlushInv
  BY DEF Init, Idle, FlushInv

LEMMA NextFlush ==
    ASSUME IInv, FlushInv, [Next]_vars
    PROVE  FlushInv'
  <1>1. TypeInvariant /\ pass \in [Process -> PassType]
    BY DEF IInv, TypeInvariant
  <1>2. ASSUME NEW p \in Process, Decide(p)
        PROVE  FlushInv'
    <2>1. PICK i \in NextItems(p) :
            \/ \E status \in {"skipped", "blocked", "failed"} : Decided(p, i, status)
            \/ pass' = [pass EXCEPT ![p].stage = "running", ![p].item = i]
      BY <1>2 DEF Decide
    <2>2. i \in Item /\ UNCHANGED plan
      BY <1>2 DEF Decide, NextItems, Candidates, Ready, AtHand, Left
    <2>3. ASSUME NEW status \in {"skipped", "blocked", "failed"}, Decided(p, i, status)
          PROVE  FlushInv'
      BY <1>1, <2>2, <2>3, DecidedFlush DEF Status
    <2>4. ASSUME pass' = [pass EXCEPT ![p].stage = "running", ![p].item = i]
          PROVE  FlushInv'
      <3>1. \A q \in Process : /\ pass'[q].flush = pass[q].flush /\ pass'[q].date = pass[q].date
                               /\ pass'[q].decided = pass[q].decided
        BY <1>1, <2>4 DEF PassType
      <3> QED BY <2>2, <3>1, FlushFrame DEF FlushInv
    <2> QED BY <2>1, <2>3, <2>4
  <1>3. ASSUME NEW p \in Process, Succeed(p) \/ Fail(p)
        PROVE  FlushInv'
    <2>1. pass[p].item \in Item
      BY <1>3 DEF Succeed, Fail, IInv, RunningInv
    <2> QED BY <1>1, <1>3, <2>1, DecidedFlush DEF Succeed, Fail, Status
  <1>4. ASSUME NEW p \in Process, StartPass(p) \/ EndPass(p) \/ Die(p)
        PROVE  FlushInv'
    <2>1. UNCHANGED plan /\ ~pass'[p].flush /\ \A q \in Process \ {p} : pass'[q] = pass[q]
      <3>1. CASE StartPass(p)
        BY <1>1, <3>1, Begun
      <3>2. CASE EndPass(p) \/ Die(p)
        BY <1>1, <3>2 DEF EndPass, Die, Ended, Idle
      <3> QED BY <1>4, <3>1, <3>2
    <2> QED BY <2>1, FlushFrame DEF FlushInv
  <1>5. ASSUME UNCHANGED <<plan, pass>>
        PROVE  FlushInv'
    BY <1>5, FlushFrame DEF FlushInv
  <1> QED BY <1>2, <1>3, <1>4, <1>5 DEF Next, Step, RunByHand, TimePasses, vars

\* A run begins in no other way than from the items that are next.
LEMMA RunIsNext ==
    ASSUME IInv, FlushInv, Next, NEW p \in Process,
           pass'[p].stage = "running", pass[p].stage # "running"
    PROVE  \/ \A u \in DueUpstream(pass'[p].item, pass[p].date) : pass[p].decided[u] \notin {"none", "failed"}
           \/ BehindCycle(pass'[p].item, pass[p].date)
  <1>1. TypeInvariant /\ pass \in [Process -> PassType]
    BY DEF IInv, TypeInvariant
  <1>2. Decide(p)
    <2>1. ASSUME NEW q \in Process, Step(q), q # p
          PROVE  pass'[p] = pass[p]
      BY <1>1, <2>1 DEF Step, StartPass, Decide, Decided, Succeed, Fail, EndPass, Die, Ended
    <2>2. Step(p)
      BY <2>1 DEF Next, RunByHand, TimePasses
    <2>3. ~ (StartPass(p) \/ Succeed(p) \/ Fail(p) \/ EndPass(p) \/ Die(p))
      <3>1. ~StartPass(p)
        BY <1>1, Begun
      <3>2. ~(Succeed(p) \/ Fail(p))
        BY <1>1 DEF Succeed, Fail
      <3>3. ~(EndPass(p) \/ Die(p))
        BY <1>1 DEF EndPass, Die, Ended, Idle
      <3> QED BY <3>1, <3>2, <3>3
    <2> QED BY <2>2, <2>3 DEF Step
  <1>3. PICK i \in NextItems(p) :
          \/ \E status \in Status : Decided(p, i, status)
          \/ ~FailedUpstream(p, i) /\ pass' = [pass EXCEPT ![p].stage = "running", ![p].item = i]
    BY <1>2 DEF Decide, Status
  <1>4. ~FailedUpstream(p, i) /\ pass'[p].item = i
    <2>1. \A status \in Status : ~Decided(p, i, status)
      BY <1>1 DEF Decided, PassType
    <2> QED BY <1>1, <1>3, <2>1 DEF PassType
  <1>5. i \in Candidates(p) /\ i \in Item
    BY <1>3 DEF NextItems, Candidates, Ready, AtHand, Left
  <1>6. CASE pass[p].flush \/ Ready(p) = {}
    <2>1. i \in AtHand(p)
      BY <1>5 DEF Candidates, Ready
    <2> QED BY <1>1, <1>4, <1>6, <2>1, TangledAtHand
  <1>7. CASE ~ (pass[p].flush \/ Ready(p) = {})
    <2>1. DueUpstream(i, pass[p].date) \cap Left(p) = {}
      BY <1>5, <1>7 DEF Candidates, Ready
    <2>2. \A u \in DueUpstream(i, pass[p].date) : pass[p].decided[u] \notin {"none", "failed"}
      BY <1>4, <2>1 DEF DueUpstream, SameSet, Left, FailedUpstream
    <2> QED BY <1>4, <2>2
  <1> QED BY <1>6, <1>7

\* Off and before the cycles, a pipeline runs in a pass only when every due
\* upstream of its set has had its turn there and none has failed.
THEOREM UpstreamsFirstHolds == Spec => UpstreamsFirst
  <1>1. Init => IInv /\ FlushInv
    BY InitInv, InitFlush
  <1>2. IInv /\ FlushInv /\ [Next]_vars => IInv' /\ FlushInv'
    BY NextInv, NextFlush
  <1>3. ASSUME IInv, FlushInv, [Next]_vars
        PROVE  [\A p \in Process :
                  pass'[p].stage = "running" /\ pass[p].stage # "running" =>
                     LET i == pass'[p].item
                         date == pass[p].date
                     IN \/ \A u \in DueUpstream(i, date) : pass[p].decided[u] \notin {"none", "failed"}
                        \/ BehindCycle(i, date)]_vars
    BY <1>3, RunIsNext
  <1>4. IInv /\ FlushInv /\ [Next]_vars =>
           [\A p \in Process :
              pass'[p].stage = "running" /\ pass[p].stage # "running" =>
                 LET i == pass'[p].item
                     date == pass[p].date
                 IN \/ \A u \in DueUpstream(i, date) : pass[p].decided[u] \notin {"none", "failed"}
                    \/ BehindCycle(i, date)]_vars
    BY <1>3
  <1> QED BY <1>1, <1>2, <1>4, PTL DEF Spec, UpstreamsFirst
=============================================================================
