----------------------------- MODULE RunRegistry -----------------------------
(***************************************************************************)
(* The run registry: processes append records to a run log, and every run, *)
(* plan and sweep loads what is new of it into a table, from the offset    *)
(* the table keeps.  An ingest reads offset, file and highest ordinals one *)
(* after the other and only then takes the database's write lock; its      *)
(* inserts and the new offset are one transaction.                         *)
(*                                                                         *)
(* One log, the records of which are numbered as they are appended.        *)
(* Offsets count lines.                                                    *)
(***************************************************************************)
EXTENDS Integers, Sequences, FiniteSets, FiniteSetsExt

CONSTANTS
    Process,  \* runs, plans and sweeps on one base directory
    Key,      \* <<pipeline_run_id, step>>
    Garbled,  \* the key of a line that does not parse
    Bound     \* bounds, one per counter

Counter == {"lines", "tears", "truncations"}

VARIABLES
    log,       \* the lines of the file, ended by a newline
    fragment,  \* a writer died within a line
    store,     \* run_records
    offset,    \* ingest_progress
    ingest,    \* the ingest under way in each process
    used       \* bounded counters

vars == <<log, fragment, store, offset, ingest, used>>

Spend(c) == used[c] < Bound[c] /\ used' = [used EXCEPT ![c] = @ + 1]

Idle == [stage |-> "idle", from |-> 0, tail |-> <<>>, next |-> [k \in Key |-> 0]]

Init ==
    /\ log = <<>> /\ fragment = FALSE
    /\ store = {} /\ offset = 0
    /\ ingest = [p \in Process |-> Idle]
    /\ used = [c \in Counter |-> 0]

----------------------------------------------------------------------------
(* Writers of the log *)

\* RunLog.record.  What follows a fragment becomes part of its line.
Record(k) ==
    /\ Spend("lines")
    /\ log' = Append(log, [key |-> IF fragment THEN Garbled ELSE k, line |-> used'["lines"]])
    /\ fragment' = FALSE
    /\ UNCHANGED <<store, offset, ingest>>

\* A writer dies within its line.
Tear ==
    /\ Spend("tears")
    /\ fragment' = TRUE
    /\ UNCHANGED <<log, store, offset, ingest>>

\* The file is rotated, or cut to its first lines.
Truncate ==
    /\ Spend("truncations")
    /\ \E n \in 0..(Len(log) - 1) : log' = SubSeq(log, 1, n)
    /\ fragment' = FALSE
    /\ UNCHANGED <<store, offset, ingest>>

----------------------------------------------------------------------------
(* RunRegistry.ingest *)

ReadOffset(p) ==
    /\ ingest[p].stage = "idle"
    /\ ingest' = [ingest EXCEPT ![p].stage = "opened", ![p].from = offset]
    /\ UNCHANGED <<log, fragment, store, offset, used>>

\* The complete lines after the offset, or all of a file that has become shorter.
Start(from) == IF Len(log) < from THEN 0 ELSE from
NewLines(from) == SubSeq(log, Start(from) + 1, Len(log))
Parses(tail) == \A i \in 1..Len(tail) : tail[i].key # Garbled

\* With nothing to read, or a line that raises, the ingest is over.
ReadTail(p) ==
    /\ ingest[p].stage = "opened"
    /\ LET from == ingest[p].from
           tail == NewLines(from) IN
       ingest' = [ingest EXCEPT ![p] =
           IF tail # <<>> /\ Parses(tail)
           THEN [@ EXCEPT !.stage = "read", !.from = Start(from), !.tail = tail]
           ELSE Idle]
    /\ UNCHANGED <<log, fragment, store, offset, used>>

\* MAX(step_ordinal) + 1.
Ordinals(k) == {r.ordinal : r \in {s \in store : s.key = k}}
NextOrdinal(k) == IF Ordinals(k) = {} THEN 0 ELSE Max(Ordinals(k)) + 1

ReadOrdinals(p) ==
    /\ ingest[p].stage = "read"
    /\ ingest' = [ingest EXCEPT ![p].stage = "seeded", ![p].next = [k \in Key |-> NextOrdinal(k)]]
    /\ UNCHANGED <<log, fragment, store, offset, used>>

\* The i-th record of a tail, numbered among those of its key.
Row(tail, next, i) ==
    [key |-> tail[i].key, line |-> tail[i].line,
     ordinal |-> next[tail[i].key] + Cardinality({j \in 1..(i - 1) : tail[j].key = tail[i].key})]

\* INSERT OR IGNORE of every record, and the offset, in one transaction.
Commit(p) ==
    /\ ingest[p].stage = "seeded"
    /\ LET tail == ingest[p].tail
           rows == {Row(tail, ingest[p].next, i) : i \in 1..Len(tail)} IN
       /\ store' = store \cup
              {r \in rows : \A s \in store : s.key = r.key => s.ordinal # r.ordinal}
       /\ offset' = ingest[p].from + Len(tail)
    /\ ingest' = [ingest EXCEPT ![p] = Idle]
    /\ UNCHANGED <<log, fragment, used>>

\* The write lock is not had in time, or the process dies: the transaction is
\* rolled back.
Abandon(p) ==
    /\ ingest[p].stage # "idle"
    /\ ingest' = [ingest EXCEPT ![p] = Idle]
    /\ UNCHANGED <<log, fragment, store, offset, used>>

----------------------------------------------------------------------------

Ingest(p) == ReadOffset(p) \/ ReadTail(p) \/ ReadOrdinals(p) \/ Commit(p) \/ Abandon(p)

Next ==
    \/ \E k \in Key : Record(k)
    \/ Tear \/ Truncate
    \/ \E p \in Process : Ingest(p)

Spec == Init /\ [][Next]_vars
=============================================================================
