------------------------------ MODULE SaveQueue ------------------------------
(***************************************************************************)
(* services/save-queue.js: the debounced, ETag-guarded write queue between *)
(* the Case Review page and the SharePoint list item of a Case.            *)
(*                                                                         *)
(* An edit is one call of enqueue or enqueueFields.  Its record carries    *)
(* the whole life of the write it asks for: the debounce, the PATCH in     *)
(* transit, the reply in transit, the back-off sleep, the 412 re-read, and *)
(* how it ended.  The list item is the sequence of its row versions; an    *)
(* ETag is the index of one.  An edit n writes the value n into its        *)
(* fields, another writer's i-th write is the value -i, 0 is "no value".   *)
(***************************************************************************)
EXTENDS Integers, Sequences, FiniteSets

CONSTANTS
    Case,           \* Cases opened in this browser tab
    Field,          \* columns of a Case row
    Answers,        \* the column a 412 is judged by
    Key,            \* pending-keys: a field, or a set of fields
    KeyFields,      \* the fields a pending-key writes
    ByReread,       \* a PATCH is answered 204 and confirmed by a re-read
    RereadMayFail,  \* the re-read after a 412 may be rejected
    CaseMayVanish,  \* the re-read after a 412 may find no row
    MaxEdits, MaxOther, MaxFaults, MaxLoads, MaxFlushCalls   \* bounds

ASSUME FieldAssumption == Answers \in Field /\ KeyFields \in [Key -> SUBSET Field]
ASSUME FlagAssumption == {ByReread, RereadMayFail, CaseMayVanish} \subseteq BOOLEAN
ASSUME BoundAssumption ==
    {MaxEdits, MaxOther, MaxFaults, MaxLoads, MaxFlushCalls} \subseteq Nat

VARIABLES
    rows,      \* server: the versions of each list item
    edits,     \* the edits in the order they were enqueued, with their writes
    objs,      \* the CaseState objects _state[c] has been; the last is current
    failures,  \* the edits of the recorded failure notices (_failures)
    status,    \* _status
    waiting,   \* somebody waits on whenIdle()
    fc,        \* the flushCase call of each Case
    reading,   \* the row version a page load has read and not yet handed over
    shown,     \* history: Answers values handed to loadCase by a page load
    adopted,   \* history: Answers values taken over from a PATCH's own reply
    others, faults   \* other writers' writes and transport faults so far

vars == <<rows, edits, objs, failures, status, waiting, fc, reading,
          shown, adopted, others, faults>>

UnknownExtraAttempts == 2

Transit  == {"patch", "confirm", "reread"}                  \* travelling to the server
Arriving == {"ok", "stale", "network", "unknown", "refused",
             "fresh", "vanished", "rejected"}               \* travelling back
InFlight == Transit \cup Arriving \cup {"sleep"}
Ended    == {"done", "gaveup", "conflict", "threw", "dropped", "replaced"}
Stage    == {"pending", "popped"} \cup InFlight \cup Ended

EditRecord ==
    [case: Case, key: Key, stage: Stage,
     obj: Nat,        \* the CaseState object _flushAttempt or _handle412 captured
     etag: Nat,       \* the If-Match of its last PATCH
     ver: Nat,        \* the row version its reply carries
     attempts: Nat,   \* PATCHes sent
     unknowns: Nat,   \* progress.unknownRetries
     outage: BOOLEAN, \* progress.reconnecting
     popped: BOOLEAN, \* taken over by flushCase
     landed: BOOLEAN] \* history: the server committed it

Statuses == {"saved", "saving", "reconnecting", "failed", "conflict"}

FlushCall == [stage: {"idle", "awaiting", "true", "false", "threw"},
              wait: SUBSET Nat, todo: SUBSET Nat, upto: Nat, calls: Nat]

----------------------------------------------------------------------------
(* Reading the state *)

Edit == DOMAIN edits
Latest(c) == rows[c][Len(rows[c])]
CurrentObj(c) == objs[c][Len(objs[c])]
AnswersAt(c, v) == rows[c][v][Answers]
FieldsOf(n) == KeyFields[edits[n].key]
SameSlot(m, n) == edits[m].case = edits[n].case /\ edits[m].key = edits[n].key
PendingOf(c) == {n \in Edit : edits[n].case = c /\ edits[n].stage = "pending"}
InFlightOf(c) == {n \in Edit : edits[n].case = c /\ edits[n].stage \in InFlight}

\* _overlaps: the same Case and at least one field in common.
Overlaps(m, n) ==
    /\ edits[m].case = edits[n].case
    /\ FieldsOf(m) \cap FieldsOf(n) # {}

\* Mutation: the notices are not consulted.
HasFailureIgnored(c) == FALSE

HasFailure(c) == \E n \in failures : edits[n].case = c

\* Mutation: debounced edits are not counted as work.
HasWorkInFlightOnly(es) == \E n \in DOMAIN es : es[n].stage \in InFlight

\* _hasWork: what flushCase has popped and not yet flushed is in neither place.
HasWork(es) == \E n \in DOMAIN es : es[n].stage \in InFlight \cup {"pending"}

\* this._reconnecting > 0: the counter counts the unfinished flushes whose
\* progress.reconnecting is set.
Reconnecting(es) == \E n \in DOMAIN es : es[n].stage \in InFlight /\ es[n].outage

\* _setStatus: a conflict outranks a failure, a failure everything else, and a
\* lost connection is not hidden by a newer write.
SetStatus(activity, es, fails) ==
    CASE activity = "conflict" -> "conflict"
      [] activity # "conflict" /\ fails # {} -> "failed"
      [] activity = "saving" /\ fails = {} /\ Reconnecting(es) -> "reconnecting"
      [] OTHER -> activity

\* _settle, with the status the ending flush leaves behind.
Settle(held, es, fails) ==
    IF held = "conflict" THEN "conflict"
    ELSE IF HasWork(es)
         THEN SetStatus(IF Reconnecting(es) THEN "reconnecting" ELSE "saving", es, fails)
         ELSE SetStatus("saved", es, fails)

\* Mutation: a write that was given up on never settles its promise.
ResumableOnSuccess(c) ==
    fc[c].stage = "awaiting" /\ \A n \in fc[c].wait : edits[n].stage = "done"

\* A flushCase whose awaited promises have settled: Promise.all resolves when
\* the last one has, and rejects with the first rejection.
Resumable(c) ==
    /\ fc[c].stage = "awaiting"
    /\ \/ \A n \in fc[c].wait : edits[n].stage \in Ended
       \/ \E n \in fc[c].wait : edits[n].stage = "threw"

\* JavaScript runs a settled await's continuation before the next timer, reply
\* or event is handled.
Quiet == \A c \in Case : ~Resumable(c)

----------------------------------------------------------------------------
(* Parts of a step *)

\* The start of _flushAttempt: capture this._state[caseId], PATCH with its ETag.
Attempt(e, os) ==
    [e EXCEPT !.stage = "patch", !.obj = Len(os), !.etag = os[Len(os)].etag,
              !.attempts = @ + 1]

\* Mutations: idle waiters are released by any flush that ends; a flush that ends
\* takes down the conflict of another.
EndReleasing(n, outcome, held, fails) ==
    LET es == [edits EXCEPT ![n].stage = outcome] IN
    /\ edits' = es
    /\ failures' = fails
    /\ status' = Settle(held, es, fails)
    /\ waiting' = FALSE
EndOverConflict(n, outcome, held, fails) ==
    LET es == [edits EXCEPT ![n].stage = outcome] IN
    /\ edits' = es
    /\ failures' = fails
    /\ status' = Settle(IF outcome = "conflict" THEN held ELSE "saved", es, fails)
    /\ waiting' = (waiting /\ HasWork(es))

\* A flush ends: the finally of _flush, and _settle.
End(n, outcome, held, fails) ==
    LET es == [edits EXCEPT ![n].stage = outcome] IN
    /\ edits' = es
    /\ failures' = fails
    /\ status' = Settle(held, es, fails)
    /\ waiting' = (waiting /\ HasWork(es))

WithoutOverlap(n) == {m \in failures : ~Overlaps(m, n)}

----------------------------------------------------------------------------
Init ==
    /\ rows = [c \in Case |-> <<[f \in Field |-> 0]>>]
    /\ edits = <<>>
    /\ objs = [c \in Case |-> <<>>]
    /\ failures = {}
    /\ status = "saved"
    /\ waiting = FALSE
    /\ fc = [c \in Case |-> [stage |-> "idle", wait |-> {}, todo |-> {},
                             upto |-> 0, calls |-> 0]]
    /\ reading = [c \in Case |-> 0]
    /\ shown = [c \in Case |-> {}]
    /\ adopted = [c \in Case |-> {}]
    /\ others = 0
    /\ faults = 0

server == <<rows, others, faults>>
page   == <<fc, reading, shown>>

----------------------------------------------------------------------------
(* The page *)

\* CaseLoader.load: getCase is answered with the row as it is now ...
PageRead(c) ==
    /\ reading[c] = 0
    /\ Len(objs[c]) < MaxLoads
    /\ reading' = [reading EXCEPT ![c] = Len(rows[c])]
    /\ UNCHANGED <<server, edits, objs, failures, status, waiting, fc, shown, adopted>>

\* ... and loadCase is given it when the answer arrives: a new CaseState object
\* that keeps the pending and in-flight writes of the old one.
LoadCase(c) ==
    /\ Quiet
    /\ reading[c] # 0
    /\ objs' = [objs EXCEPT ![c] =
                   Append(@, [etag |-> reading[c], base |-> AnswersAt(c, reading[c])])]
    /\ shown' = [shown EXCEPT ![c] = @ \cup {AnswersAt(c, reading[c])}]
    /\ reading' = [reading EXCEPT ![c] = 0]
    /\ UNCHANGED <<server, edits, failures, status, waiting, fc, adopted>>

\* enqueue / enqueueFields -> _scheduleFlush: the timer of the key is reset.
Enqueue(c, k) ==
    /\ Quiet
    /\ Len(edits) < MaxEdits
    /\ objs[c] # <<>>
    /\ LET e == [case |-> c, key |-> k, stage |-> "pending", obj |-> 0, etag |-> 0,
                 ver |-> 0, attempts |-> 0, unknowns |-> 0, outage |-> FALSE,
                 popped |-> FALSE, landed |-> FALSE]
           kept == [n \in Edit |->
                      IF n \in PendingOf(c) /\ edits[n].key = k
                      THEN [edits[n] EXCEPT !.stage = "replaced"] ELSE edits[n]]
           es == Append(kept, e)
       IN /\ edits' = es
          /\ status' = SetStatus("saving", es, failures)
    /\ UNCHANGED <<server, objs, failures, waiting, page, adopted>>

\* whenIdle with work in hand: the caller becomes an idle waiter.
WhenIdle ==
    /\ Quiet
    /\ HasWork(edits)
    /\ ~waiting
    /\ waiting' = TRUE
    /\ UNCHANGED <<server, edits, objs, failures, status, page, adopted>>

\* The debounce timer fires.  Every timer has the same delay, so timers fire
\* in the order they were armed.
TimerFires(n) ==
    /\ Quiet
    /\ edits[n].stage = "pending"
    /\ \A m \in 1..n - 1 : edits[m].stage # "pending"
    /\ edits' = [edits EXCEPT ![n] = Attempt(@, objs[@.case])]
    /\ UNCHANGED <<server, objs, failures, status, waiting, page, adopted>>

\* flushCase: every pending entry is taken and its timer cleared, then the
\* writes already in flight are awaited.
FlushCase(c) ==
    /\ Quiet
    /\ objs[c] # <<>>
    /\ fc[c].stage # "awaiting"
    /\ fc[c].calls < MaxFlushCalls
    /\ fc' = [fc EXCEPT ![c] =
                 [stage |-> "awaiting", wait |-> InFlightOf(c), todo |-> PendingOf(c),
                  upto |-> Len(edits), calls |-> @.calls + 1]]
    /\ edits' = [n \in Edit |->
                   IF n \in PendingOf(c)
                   THEN [edits[n] EXCEPT !.stage = "popped", !.popped = TRUE]
                   ELSE edits[n]]
    /\ UNCHANGED <<server, objs, failures, status, waiting, reading, shown, adopted>>

\* flushCase returns or throws; the entries it had taken and not written go.
FlushCaseReturn(c, result) ==
    /\ fc' = [fc EXCEPT ![c].stage = result, ![c].wait = {}, ![c].todo = {}]
    /\ edits' = [n \in Edit |->
                   IF n \in fc[c].todo
                   THEN [edits[n] EXCEPT !.stage = "dropped"] ELSE edits[n]]

\* flushCase goes on: the next popped entry, in no particular order, or the end.
FlushCaseResume(c) ==
    /\ Resumable(c)
    /\ \/ /\ \E n \in fc[c].wait : edits[n].stage = "threw"
          /\ FlushCaseReturn(c, "threw")
       \/ /\ \A n \in fc[c].wait : edits[n].stage # "threw"
          /\ \E n \in fc[c].wait : edits[n].stage # "done"
          /\ FlushCaseReturn(c, "false")
       \/ /\ \A n \in fc[c].wait : edits[n].stage = "done"
          /\ \E n \in fc[c].todo :
                /\ edits' = [edits EXCEPT ![n] = Attempt(@, objs[c])]
                /\ fc' = [fc EXCEPT ![c].wait = {n}, ![c].todo = @ \ {n}]
       \/ /\ \A n \in fc[c].wait : edits[n].stage = "done"
          /\ fc[c].todo = {}
          /\ FlushCaseReturn(c, IF status # "conflict" /\ ~HasFailure(c)
                                THEN "true" ELSE "false")
    /\ UNCHANGED <<server, objs, failures, status, waiting, reading, shown, adopted>>

----------------------------------------------------------------------------
(* The SharePoint list and the network between *)

\* Somebody else, or this user in another tab, writes one field of the row.
OtherWrite(c, f) ==
    /\ others < MaxOther
    /\ others' = others + 1
    /\ rows' = [rows EXCEPT ![c] = Append(@, [Latest(c) EXCEPT ![f] = -(others + 1)])]
    /\ UNCHANGED <<edits, objs, failures, status, waiting, page, adopted, faults>>

\* Mutation: the PATCH carries no If-Match.
PatchAppliedBlind(n) ==
    LET c == edits[n].case
        row == [f \in Field |-> IF f \in FieldsOf(n) THEN n ELSE Latest(c)[f]]
    IN /\ edits[n].stage = "patch"
       /\ rows' = [rows EXCEPT ![c] = Append(@, row)]
       /\ edits' = [edits EXCEPT ![n].stage = "ok", ![n].ver = Len(rows[c]) + 1,
                                 ![n].landed = TRUE]
       /\ UNCHANGED <<objs, failures, status, waiting, page, adopted, others, faults>>

\* The PATCH reaches the server with a current If-Match and is applied.  The
\* answer is the row it wrote, a 204 the client confirms by re-reading the row,
\* or is lost on its way.
PatchApplied(n) ==
    LET c == edits[n].case
        row == [f \in Field |-> IF f \in FieldsOf(n) THEN n ELSE Latest(c)[f]]
    IN /\ edits[n].stage = "patch"
       /\ edits[n].etag = Len(rows[c])
       /\ rows' = [rows EXCEPT ![c] = Append(@, row)]
       /\ \/ /\ edits' = [edits EXCEPT ![n].stage = IF ByReread THEN "confirm" ELSE "ok",
                                       ![n].ver = Len(rows[c]) + 1, ![n].landed = TRUE]
             /\ UNCHANGED faults
          \/ /\ faults < MaxFaults
             /\ faults' = faults + 1
             /\ edits' = [edits EXCEPT ![n].stage = "network", ![n].landed = TRUE]
       /\ UNCHANGED <<objs, failures, status, waiting, page, adopted, others>>

\* The row has moved on: 412 Precondition Failed.
PatchStale(n) ==
    /\ edits[n].stage = "patch"
    /\ edits[n].etag # Len(rows[edits[n].case])
    /\ edits' = [edits EXCEPT ![n].stage = "stale"]
    /\ UNCHANGED <<server, objs, failures, status, waiting, page, adopted>>

\* The PATCH is lost, answered 5xx, or refused on its merits.
PatchFails(n, reply) ==
    /\ edits[n].stage = "patch"
    /\ faults < MaxFaults
    /\ faults' = faults + 1
    /\ edits' = [edits EXCEPT ![n].stage = reply]
    /\ UNCHANGED <<rows, others, objs, failures, status, waiting, page, adopted>>

\* patchCase's confirming getCase is answered with the row as it is now, or finds
\* none: the write is then reported not-found, a refusal.
ConfirmRead(n) ==
    /\ edits[n].stage = "confirm"
    /\ \/ edits' = [edits EXCEPT ![n].stage = "ok", ![n].ver = Len(rows[edits[n].case])]
       \/ /\ CaseMayVanish
          /\ edits' = [edits EXCEPT ![n].stage = "refused"]
    /\ UNCHANGED <<server, objs, failures, status, waiting, page, adopted>>

\* It is lost: patchCase reports the whole write as a connection failure.
ConfirmFails(n) ==
    /\ edits[n].stage = "confirm"
    /\ faults < MaxFaults
    /\ faults' = faults + 1
    /\ edits' = [edits EXCEPT ![n].stage = "network"]
    /\ UNCHANGED <<rows, others, objs, failures, status, waiting, page, adopted>>

\* The getCase of _handle412 is answered.
RereadAnswered(n) ==
    /\ edits[n].stage = "reread"
    /\ \/ edits' = [edits EXCEPT ![n].stage = "fresh", ![n].ver = Len(rows[edits[n].case])]
       \/ /\ CaseMayVanish
          /\ edits' = [edits EXCEPT ![n].stage = "vanished"]
    /\ UNCHANGED <<server, objs, failures, status, waiting, page, adopted>>

\* It fails with anything but a 404, which getCase throws.
RereadFails(n) ==
    /\ edits[n].stage = "reread"
    /\ RereadMayFail
    /\ faults < MaxFaults
    /\ faults' = faults + 1
    /\ edits' = [edits EXCEPT ![n].stage = "rejected"]
    /\ UNCHANGED <<rows, others, objs, failures, status, waiting, page, adopted>>

----------------------------------------------------------------------------
(* The queue handles a reply *)

\* Mutation: the client works out the next ETag for itself.
ReplyOkCounting(n) ==
    LET c == edits[n].case
        v == edits[n].ver
    IN /\ Quiet
       /\ edits[n].stage = "ok"
       /\ objs' = [objs EXCEPT ![c][edits[n].obj] =
                      [etag |-> v + 1, base |-> AnswersAt(c, v)]]
       /\ adopted' = [adopted EXCEPT ![c] = @ \cup {AnswersAt(c, v)}]
       /\ End(n, "done", status, WithoutOverlap(n))
       /\ UNCHANGED <<server, page>>

\* result.ok: the captured object takes the row's ETag and Answers; notices
\* sharing a field with the write are cleared.
ReplyOk(n) ==
    LET c == edits[n].case
        v == edits[n].ver
    IN /\ Quiet
       /\ edits[n].stage = "ok"
       /\ objs' = [objs EXCEPT ![c][edits[n].obj] =
                      [etag |-> v, base |-> IF AnswersAt(c, v) = 0 THEN @.base
                                            ELSE AnswersAt(c, v)]]
       /\ adopted' = [adopted EXCEPT ![c] = @ \cup {AnswersAt(c, v)}]
       /\ End(n, "done", status, WithoutOverlap(n))
       /\ UNCHANGED <<server, page>>

\* 412: _handle412 captures the current object and re-reads the Case.
ReplyStale(n) ==
    /\ Quiet
    /\ edits[n].stage = "stale"
    /\ edits' = [edits EXCEPT ![n].stage = "reread", ![n].obj = Len(objs[edits[n].case])]
    /\ UNCHANGED <<server, objs, failures, status, waiting, page, adopted>>

\* Mutation: the retry does not compare the Answers.
RebaseAnyway(n) ==
    LET c == edits[n].case
        v == edits[n].ver
        os == [objs[c] EXCEPT ![edits[n].obj] = [etag |-> v, base |-> AnswersAt(c, v)]]
    IN /\ Quiet
       /\ edits[n].stage = "fresh"
       /\ objs' = [objs EXCEPT ![c] = os]
       /\ edits' = [edits EXCEPT ![n] = Attempt(@, os)]
       /\ UNCHANGED <<server, failures, status, waiting, page, adopted>>

\* The re-read row has the baseline's Answers: adopt its ETag and try again.
Rebase(n) ==
    LET c == edits[n].case
        v == edits[n].ver
        os == [objs[c] EXCEPT ![edits[n].obj] = [etag |-> v, base |-> AnswersAt(c, v)]]
    IN /\ Quiet
       /\ edits[n].stage = "fresh"
       /\ AnswersAt(c, v) = objs[c][edits[n].obj].base
       /\ objs' = [objs EXCEPT ![c] = os]
       /\ edits' = [edits EXCEPT ![n] = Attempt(@, os)]
       /\ UNCHANGED <<server, failures, status, waiting, page, adopted>>

\* Mutation: the write is sent again as it was, under the ETag just refused.
ConflictResent(n) ==
    /\ Quiet
    /\ edits[n].stage \in {"fresh", "vanished"}
    /\ edits' = [edits EXCEPT ![n].stage = "patch"]
    /\ UNCHANGED <<server, objs, failures, status, waiting, page, adopted>>

\* Its Answers are not the baseline's, or there is no row: a conflict.
Conflict(n) ==
    /\ Quiet
    /\ \/ /\ edits[n].stage = "fresh"
          /\ AnswersAt(edits[n].case, edits[n].ver) # objs[edits[n].case][edits[n].obj].base
       \/ edits[n].stage = "vanished"
    /\ End(n, "conflict", "conflict", failures)
    /\ UNCHANGED <<server, objs, page, adopted>>

\* The re-read was rejected: nothing on the way up catches it, so the flush ends
\* with a rejection and without a notice.
RereadRejected(n) ==
    /\ Quiet
    /\ edits[n].stage = "rejected"
    /\ End(n, "threw", status, failures)
    /\ UNCHANGED <<server, objs, page, adopted>>

\* A connection failure: say so, sleep, try again for as long as it takes.
ReplyConnection(n) ==
    /\ Quiet
    /\ edits[n].stage = "network"
    /\ LET es == [edits EXCEPT ![n].stage = "sleep", ![n].outage = TRUE]
       IN /\ edits' = es
          /\ status' = SetStatus("reconnecting", es, failures)
    /\ UNCHANGED <<server, objs, failures, waiting, page, adopted>>

\* An unclassified failure with an extra attempt left: sleep and try again.
ReplyUnknown(n) ==
    /\ Quiet
    /\ edits[n].stage = "unknown"
    /\ edits[n].unknowns < UnknownExtraAttempts
    /\ edits' = [edits EXCEPT ![n].stage = "sleep", ![n].unknowns = @ + 1]
    /\ UNCHANGED <<server, objs, failures, status, waiting, page, adopted>>

\* Mutation: giving up records nothing.
GiveUpSilently(n) ==
    /\ Quiet
    /\ \/ edits[n].stage = "refused"
       \/ edits[n].stage = "unknown" /\ edits[n].unknowns >= UnknownExtraAttempts
    /\ End(n, "gaveup", status, failures)
    /\ UNCHANGED <<server, objs, page, adopted>>

\* A refusal, or an unclassified failure once too often: give up and record a
\* notice in place of the overlapping ones.
GiveUp(n) ==
    /\ Quiet
    /\ \/ edits[n].stage = "refused"
       \/ edits[n].stage = "unknown" /\ edits[n].unknowns >= UnknownExtraAttempts
    /\ End(n, "gaveup", status, WithoutOverlap(n) \cup {n})
    /\ UNCHANGED <<server, objs, page, adopted>>

\* The back-off sleep is over.
Wake(n) ==
    /\ Quiet
    /\ edits[n].stage = "sleep"
    /\ edits' = [edits EXCEPT ![n] = Attempt(@, objs[@.case])]
    /\ UNCHANGED <<server, objs, failures, status, waiting, page, adopted>>

----------------------------------------------------------------------------
User(c) == PageRead(c) \/ LoadCase(c) \/ (\E k \in Key : Enqueue(c, k)) \/ FlushCase(c)

Server(n) ==
    \/ PatchApplied(n) \/ PatchStale(n) \/ ConfirmRead(n) \/ RereadAnswered(n)

Fault(n) ==
    \/ \E reply \in {"network", "unknown", "refused"} : PatchFails(n, reply)
    \/ ConfirmFails(n)
    \/ RereadFails(n)

Queue(n) ==
    \/ TimerFires(n) \/ ReplyOk(n) \/ ReplyStale(n) \/ Rebase(n) \/ Conflict(n)
    \/ RereadRejected(n) \/ ReplyConnection(n) \/ ReplyUnknown(n) \/ GiveUp(n) \/ Wake(n)

Next ==
    \/ \E c \in Case : User(c) \/ FlushCaseResume(c)
    \/ \E c \in Case, f \in Field : OtherWrite(c, f)
    \/ \E n \in Edit : Server(n) \/ Fault(n) \/ Queue(n)
    \/ WhenIdle

Spec == Init /\ [][Next]_vars

(* Timers fire, the server answers what reaches it, and the event loop runs   *)
(* what is ready; nobody is obliged to edit, reload, flush, or lose a message. *)
Fairness ==
    /\ \A c \in Case : WF_vars(FlushCaseResume(c)) /\ WF_vars(LoadCase(c))
    /\ \A n \in 1..MaxEdits : WF_vars(n \in Edit /\ Server(n)) /\ WF_vars(n \in Edit /\ Queue(n))

FairSpec == Spec /\ Fairness
=============================================================================
