---------------------------- MODULE Orchestrator ----------------------------
(***************************************************************************)
(* Passes over the scheduled pipelines.  A pass reads once which of them   *)
(* have succeeded today, derives from that, the deadlines and the          *)
(* dependencies the order in which to try them, and then takes them one by *)
(* one: skips, blocks, or runs them, and a run checks again how fresh its  *)
(* upstreams are.  Passes of several processes overlap each other, runs by *)
(* hand and midnight.                                                      *)
(*                                                                         *)
(* The order is fixed when the pass begins and walked here step by step.   *)
(* A deadline is compared with other deadlines only, so that the time of   *)
(* day matters to earliest_run alone.                                      *)
(***************************************************************************)
EXTENDS Integers, Sequences, FiniteSets, FiniteSetsExt, SequencesExt

CONSTANTS
    Process,   \* orchestrators, one pass at a time each
    Name,      \* pipelines, by the name they are recorded under
    Item,      \* scheduled pipelines, numbered as declared
    Plans,     \* what may be declared of the Items
    FirstRuns, \* the run history at first
    LastDay, LastHour,
    Bound      \* bounds, one per counter

Counter == {"passes", "breaks"}
Never == LastHour + 1          \* no due_time
Status == {"none", "skipped", "blocked", "failed", "succeeded"}
NeedType == [name: Name, days: Nat, same: BOOLEAN, block: BOOLEAN]
ItemType ==
    [name: Name, set: Nat, days: SUBSET (1..LastDay), due: 0..Never, earliest: 0..LastHour,
     priority: Nat, needs: SUBSET NeedType, own: SUBSET NeedType, multiple: BOOLEAN]

ASSUME OrchestratorAssumption ==
    /\ IsFiniteSet(Item) /\ Item \subseteq Nat
    /\ LastDay \in Nat /\ LastHour \in Nat
    /\ Plans \subseteq [Item -> ItemType]
    /\ \A d \in Plans : \A i, j \in Item : d[i].name = d[j].name /\ d[i].set = d[j].set => i = j
    /\ FirstRuns \subseteq [Name -> 0..1]
    /\ Bound \in [Counter -> Nat]

VARIABLES
    plan,        \* the declaration
    day, hour,   \* the clock
    last,        \* run history: the day of each pipeline's latest success, 0 for none
    pass,        \* the pass of each process
    used,        \* bounded counters
    over,        \* history: passes that have ended
    wins         \* history: successes of items held to one run per run date

vars == <<plan, day, hour, last, pass, used, over, wins>>

Spend(c) == used[c] < Bound[c] /\ used' = [used EXCEPT ![c] = @ + 1]

----------------------------------------------------------------------------
(* order_run_candidates: the deadlines *)

SameSet(i) == {j \in Item : plan[j].set = plan[i].set}
DueOn(i, date) == date \in plan[i].days
Needs(i) == {n.name : n \in plan[i].needs}

\* Items due on the date that depend on i, as declared.
Dependents(i, date) ==
    SetToSortSeq({j \in SameSet(i) : DueOn(j, date) /\ plan[i].name \in Needs(j)}, <)

Earlier(s, t) == IF t < s THEN t ELSE s

\* effective: the deadline of i, from its own and those of its dependents, which
\* are kept as they are found.  What is still being looked for contributes nothing.
Unknown == -1
Walk(date) ==
    LET visit[x \in Item \X (SUBSET Item) \X [Item -> Unknown..Never]] ==
        LET i == x[1]
            Inherit(found, j) ==
                LET r == visit[<<j, x[2] \cup {i}, found.known>>]
                IN [known |-> r.known, best |-> Earlier(found.best, r.best)]
            found == FoldLeft(Inherit, [known |-> x[3], best |-> plan[i].due], Dependents(i, date))
        IN CASE x[3][i] # Unknown -> [known |-> x[3], best |-> x[3][i]]
             [] x[3][i] = Unknown /\ i \in x[2] -> [known |-> x[3], best |-> Never]
             [] OTHER -> [known |-> [found.known EXCEPT ![i] = found.best], best |-> found.best]
    IN visit

\* Mutation: a deadline presses on its own item only.
OwnDeadlines(date) == [i \in Item |-> plan[i].due]

\* _effective_deadlines, the items visited as declared.
EffectiveDeadlines(date) ==
    LET Resolve(known, i) == Walk(date)[<<i, {}, known>>].known
    IN FoldLeft(Resolve, [i \in Item |-> Unknown], SetToSortSeq(Item, <))

----------------------------------------------------------------------------
(* order_run_candidates: the order *)

\* _order_key, and the declared order a stable sort keeps.
OrderKey(i, date, ran, deadlines) ==
    IF ~DueOn(i, date) THEN <<2, 0, 0, i>>
    ELSE IF deadlines[i] = Never \/ plan[i].name \in ran THEN <<1, 0, -plan[i].priority, i>>
    ELSE <<0, deadlines[i], -plan[i].priority, i>>

Before(k, l) == \E n \in 1..4 : k[n] < l[n] /\ \A m \in 1..(n - 1) : k[m] = l[m]
IsFirst(i, is, key) == \A j \in is \ {i} : Before(key[i], key[j])

\* Pipelines that have succeeded on the date, when a pass for it begins.
RanOn(date) == {n \in Name : last[n] = date}

Left(p) == {i \in Item : pass[p].decided[i] = "none"}
\* What is left of the set at hand; sets are taken as declared.
AtHand(p) == {i \in Left(p) : \A j \in Left(p) : plan[i].set =< plan[j].set}

\* An in-pool upstream that is due and has not come yet holds an item back.
DueUpstream(i, date) == {j \in SameSet(i) : DueOn(j, date) /\ plan[j].name \in Needs(i)}
Ready(p) == {i \in AtHand(p) : DueUpstream(i, pass[p].date) \cap Left(p) = {}}

\* Mutation: pressure decides alone.
PressureOrder(p) == AtHand(p)
\* _dependencies_first: once nothing is ready, the rest comes as the key has it.
Candidates(p) == IF pass[p].flush \/ Ready(p) = {} THEN AtHand(p) ELSE Ready(p)

NextItems(p) ==
    LET deadlines == EffectiveDeadlines(pass[p].date)
        key == [i \in Item |-> OrderKey(i, pass[p].date, pass[p].ran, deadlines)]
    IN {i \in Candidates(p) : IsFirst(i, Candidates(p), key)}

\* The rest of a set is flushed until the set is done.
Flushing(p, i) ==
    /\ pass[p].flush \/ Ready(p) = {}
    /\ AtHand(p) # {i}

----------------------------------------------------------------------------

Idle ==
    [stage |-> "idle", date |-> 0, hour |-> 0, force |-> FALSE, ran |-> {},
     decided |-> [i \in Item |-> "none"], flush |-> FALSE, item |-> 0, number |-> 0, since |-> {}]

Init ==
    /\ plan \in Plans
    /\ day = 1 /\ hour = 0
    /\ last \in FirstRuns
    /\ pass = [p \in Process |-> Idle]
    /\ used = [c \in Counter |-> 0]
    /\ over = {} /\ wins = {}

\* run_due_once, up to the loop: catch up with the run logs, and order the items.
StartPass(p) ==
    /\ pass[p].stage = "idle"
    /\ Spend("passes")
    /\ \E force \in BOOLEAN :
          pass' = [pass EXCEPT ![p] =
              [Idle EXCEPT !.stage = "between", !.date = day, !.hour = hour, !.force = force,
                           !.ran = RanOn(day), !.number = used'["passes"], !.since = over]]
    /\ UNCHANGED <<plan, day, hour, last, over, wins>>

Skipped(p, i) ==
    \/ ~DueOn(i, pass[p].date)
    \/ pass[p].hour < plan[i].earliest
    \/ plan[i].name \in pass[p].ran /\ ~plan[i].multiple /\ ~pass[p].force

\* _blocked_dependency: an upstream has failed in this set.
FailedUpstream(p, i) ==
    \E j \in SameSet(i) : plan[j].name \in Needs(i) /\ pass[p].decided[j] = "failed"

\* Mutation: what another set has done is not asked.
Unsettled(p, i) == FALSE
\* The pipeline has been through this pass, in another set.
Settled(p, i) ==
    \E j \in Item : /\ plan[j].name = plan[i].name
                    /\ pass[p].decided[j] \in {"failed", "blocked", "succeeded"}

Decided(p, i, status) ==
    pass' = [pass EXCEPT ![p].stage = "between", ![p].decided[i] = status,
                         ![p].flush = Flushing(p, i)]

\* _freshness_days, with which every need of an item is checked.
FreshnessDays(i) == Max({0} \cup {n.days : n \in plan[i].needs})

\* evaluate_requirement.
Satisfied(need, i, date) ==
    IF last[need.name] = 0 THEN ~need.block
    ELSE IF need.same THEN last[need.name] = date
    ELSE last[need.name] >= date - Max({need.days, FreshnessDays(i)})

\* run_pipeline up to the handler: catch up again, and FreshnessGuard.check of what
\* the pipeline's module and its schedule declare.
Fresh(p, i) == \A need \in plan[i].needs \cup plan[i].own : Satisfied(need, i, pass[p].date)

\* _decide_item, up to the handler.  What precedes the look at the run logs
\* concerns this pass only.
Decide(p) ==
    /\ pass[p].stage = "between"
    /\ \E i \in NextItems(p) :
       \/ Skipped(p, i) /\ Decided(p, i, "skipped")
       \/ ~Skipped(p, i) /\ FailedUpstream(p, i) /\ Decided(p, i, "blocked")
       \/ /\ ~Skipped(p, i) /\ ~FailedUpstream(p, i) /\ Settled(p, i)
          /\ Decided(p, i, "skipped")
       \/ /\ ~Skipped(p, i) /\ ~FailedUpstream(p, i) /\ ~Settled(p, i)
          /\ \/ Fresh(p, i) /\ pass' = [pass EXCEPT ![p].stage = "running", ![p].item = i]
             \/ ~Fresh(p, i) /\ Decided(p, i, "blocked")
             \* Before freshness is asked, the module or a log does not load.
             \/ ~Fresh(p, i) /\ Decided(p, i, "failed")
    /\ UNCHANGED <<plan, day, hour, last, used, over, wins>>

Recorded(n) == last' = [last EXCEPT ![n] = day]

\* The handler returns and its success is in the run log.
Succeed(p) ==
    /\ pass[p].stage = "running"
    /\ LET i == pass[p].item IN
       /\ Decided(p, i, "succeeded")
       /\ Recorded(plan[i].name)
       /\ wins' = IF plan[i].multiple \/ pass[p].force THEN wins
                  ELSE wins \cup {[name |-> plan[i].name, date |-> pass[p].date, item |-> i,
                                   pass |-> pass[p].number, since |-> pass[p].since]}
    /\ UNCHANGED <<plan, day, hour, used, over>>

\* The handler raises; what it has done before that is not undone.
Fail(p) ==
    /\ pass[p].stage = "running"
    /\ Decided(p, pass[p].item, "failed")
    /\ UNCHANGED <<plan, day, hour, last, used, over, wins>>

Ended(p) ==
    /\ pass' = [pass EXCEPT ![p] = Idle]
    /\ over' = over \cup {pass[p].number}

EndPass(p) ==
    /\ pass[p].stage = "between" /\ Left(p) = {}
    /\ Ended(p)
    /\ UNCHANGED <<plan, day, hour, last, used, wins>>

\* The process dies, within a run perhaps, whose success is then in no log.
Die(p) ==
    /\ pass[p].stage # "idle"
    /\ Spend("breaks")
    /\ Ended(p)
    /\ UNCHANGED <<plan, day, hour, last, wins>>

\* The operator's `run' of one pipeline, which consults no schedule.
RunByHand(n) ==
    /\ Spend("breaks")
    /\ Recorded(n)
    /\ UNCHANGED <<plan, day, hour, pass, over, wins>>

TimePasses ==
    /\ \/ hour < LastHour /\ hour' = hour + 1 /\ UNCHANGED day
       \/ hour = LastHour /\ day < LastDay /\ hour' = 0 /\ day' = day + 1
    /\ UNCHANGED <<plan, last, pass, used, over, wins>>

----------------------------------------------------------------------------

Step(p) ==
    StartPass(p) \/ Decide(p) \/ Succeed(p) \/ Fail(p) \/ EndPass(p) \/ Die(p)

Next ==
    \/ \E p \in Process : Step(p)
    \/ \E n \in Name : RunByHand(n)
    \/ TimePasses

Spec == Init /\ [][Next]_vars
=============================================================================
