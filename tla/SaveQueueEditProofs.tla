------------------------ MODULE SaveQueueEditProofs ------------------------
(***************************************************************************)
(* Proofs about what becomes of the edits given to SaveQueue and what is   *)
(* said of them: overtaking, failure notices, the status, whenIdle and     *)
(* flushCase.  They rest on the type invariant, on the order in which the  *)
(* edits of a Case leave the debounce, and on what flushCase holds.        *)
(***************************************************************************)
EXTENDS SaveQueueProofs

\* The life of an edit: it is sent only after it left the debounce, lands only after
\* it was sent, and is popped exactly by flushCase.
LifeOK(n) ==
    /\ edits[n].stage \in {"pending", "replaced", "popped", "dropped"} =>
         edits[n].attempts = 0 /\ ~edits[n].landed
    /\ edits[n].stage \in InFlight => edits[n].attempts > 0
    /\ edits[n].stage = "pending" => ~edits[n].popped
    /\ edits[n].stage = "popped" => edits[n].popped
    /\ edits[n].stage \in {"confirm", "ok", "done"} => edits[n].landed

\* Edits of one Case leave the debounce in their order; and once a newer one has
\* landed, the ETag of an older one that is out for the first time is stale.
OrderOK(m, n) ==
    /\ edits[m].stage = "pending" => edits[n].stage \in {"pending", "replaced"}
    /\ /\ edits[m].stage = "patch" /\ edits[m].attempts = 1 /\ ~edits[m].popped
       /\ edits[n].landed
       => edits[m].etag < Len(rows[edits[m].case])

\* What a positive value in a row is: the number of an edit that has landed there.
ValueOK(c, x) == x > 0 => x \in Edit /\ edits[x].case = c /\ edits[x].landed

EditsOK ==
    /\ \A n \in Edit : LifeOK(n)
    /\ \A m, n \in Edit : m < n /\ edits[m].case = edits[n].case => OrderOK(m, n)
    /\ \A c \in Case : \A v \in DOMAIN rows[c] : \A f \in Field : ValueOK(c, rows[c][v][f])

\* What flushCase holds: it alone has popped edits, and each edit made before the
\* call is awaited, still to be written, or has ended.
CallOK(c) ==
    /\ fc[c].upto \in Nat /\ fc[c].upto <= Len(edits)
    /\ \A n \in fc[c].todo : fc[c].stage = "awaiting" /\ edits[n].stage = "popped"
    /\ \A n \in Edit : edits[n].case = c /\ edits[n].stage = "popped" => n \in fc[c].todo
    /\ fc[c].stage = "awaiting" =>
         \A n \in 1..fc[c].upto :
             edits[n].case = c => n \in fc[c].wait \cup fc[c].todo \/ edits[n].stage \in Ended

CallsOK == \A c \in Case : CallOK(c)

NoticesOK == GivenUpIsNoticed /\ failures \subseteq GivenUp

USE FieldAssumption, FlagAssumption, BoundAssumption

----------------------------------------------------------------------------
(* One step of one write *)

\* The server, the network or the queue takes the write of edit n one step on.
Advances(n) ==
    /\ Edit' = Edit
    /\ \A m \in Edit : m # n => edits'[m] = edits[m]
    /\ edits'[n].case = edits[n].case /\ edits'[n].key = edits[n].key
    /\ edits'[n].popped = edits[n].popped
    /\ edits[n].stage \in InFlight \cup {"pending", "popped"}
    /\ edits'[n].stage \in InFlight \cup {"done", "gaveup", "conflict", "threw"}
    /\ edits'[n].attempts > 0
    /\ edits[n].landed => edits'[n].landed
    /\ edits'[n].stage \in {"confirm", "ok", "done"} => edits'[n].landed
    /\ edits[n].stage = "pending" => \A m \in 1..n - 1 : edits[m].stage # "pending"
    /\ edits'[n].stage = "patch" /\ edits'[n].attempts = 1 =>
         edits[n].stage \in {"pending", "popped"}

LEMMA StageSets ==
    /\ InFlight \cap (Ended \cup {"pending", "popped"}) = {}
    /\ {"pending", "popped"} \cap Ended = {}
    /\ {"done", "gaveup", "conflict", "threw", "dropped", "replaced"} = Ended
    /\ {"patch", "confirm", "reread", "ok", "stale", "network", "unknown", "refused",
        "fresh", "vanished", "rejected", "sleep"} = InFlight
    /\ {"reread", "stale", "network", "unknown", "refused", "fresh", "vanished", "rejected",
        "sleep"} = InFlight \ {"patch", "confirm", "ok"}
  BY DEF InFlight, Transit, Arriving, Ended

LEMMA EditDomain ==
    ASSUME TypeInvariant
    PROVE  /\ edits \in Seq(EditRecord) /\ Len(edits) \in Nat /\ Edit = 1..Len(edits)
           /\ \A n \in Edit : n \in Nat /\ n > 0
  BY LenProperties DEF TypeInvariant, TypeOK, Edit

LEMMA EditUpdate ==
    ASSUME TypeInvariant, NEW n \in Edit, NEW e, edits' = [edits EXCEPT ![n] = e]
    PROVE  /\ Edit' = Edit /\ edits'[n] = e
           /\ \A m \in Edit : m # n => edits'[m] = edits[m]
  BY DEF TypeInvariant, TypeOK, Edit

\* A step that only moves an edit in flight to another stage, and which does not
\* send it again.
LEMMA Moves ==
    ASSUME TypeInvariant, NEW n \in Edit, LifeOK(n), NEW e \in EditRecord,
           edits' = [edits EXCEPT ![n] = e],
           edits[n].stage \in InFlight,
           e.stage \in (InFlight \ {"patch"}) \cup {"done", "gaveup", "conflict", "threw"},
           e.case = edits[n].case, e.key = edits[n].key, e.popped = edits[n].popped,
           e.attempts = edits[n].attempts, edits[n].landed => e.landed,
           e.stage \in {"confirm", "ok", "done"} => e.landed
    PROVE  Advances(n)
  <1>1. Edit' = Edit /\ edits'[n] = e /\ \A m \in Edit : m # n => edits'[m] = edits[m]
    BY EditUpdate
  <1>2. edits[n].attempts > 0 /\ edits[n].stage \notin {"pending", "popped"}
    BY StageSets DEF LifeOK
  <1> QED BY <1>1, <1>2 DEF Advances

\* The same when nothing but the stage changes.
LEMMA StageMoves ==
    ASSUME TypeInvariant, NEW n \in Edit, LifeOK(n), NEW s,
           edits' = [edits EXCEPT ![n].stage = s],
           edits[n].stage \in InFlight,
           s \in (InFlight \ {"patch"}) \cup {"done", "gaveup", "conflict", "threw"},
           s \in {"confirm", "ok", "done"} => edits[n].landed
    PROVE  Advances(n) /\ edits'[n] = [edits[n] EXCEPT !.stage = s]
  <1> DEFINE e == [edits[n] EXCEPT !.stage = s]
  <1>1. edits[n] \in EditRecord /\ s \in Stage
    BY EditFacts DEF Stage, Ended
  <1>2. /\ e \in EditRecord /\ e.stage = s /\ e.case = edits[n].case /\ e.key = edits[n].key
        /\ e.popped = edits[n].popped /\ e.attempts = edits[n].attempts
        /\ e.landed = edits[n].landed
    BY <1>1 DEF EditRecord
  <1>3. edits' = [edits EXCEPT ![n] = e]
    OBVIOUS
  <1> HIDE DEF e
  <1>4. Advances(n) /\ edits'[n] = e
    BY <1>1, <1>2, <1>3, Moves, EditUpdate
  <1> QED BY <1>4 DEF e

\* _flushAttempt sends an edit, for the first time or again.
LEMMA AttemptAdvances ==
    ASSUME TypeInvariant, NEW n \in Edit, LifeOK(n), NEW os \in Seq(Obj), os # <<>>,
           edits' = [edits EXCEPT ![n] = Attempt(edits[n], os)],
           edits[n].stage \in InFlight \cup {"pending", "popped"},
           edits[n].stage = "pending" => \A m \in 1..n - 1 : edits[m].stage # "pending"
    PROVE  /\ Advances(n) /\ edits'[n].stage = "patch" /\ edits'[n].landed = edits[n].landed
  <1> DEFINE e == Attempt(edits[n], os)
  <1>1. edits[n] \in EditRecord
    BY EditFacts
  <1>2. /\ e.stage = "patch" /\ e.case = edits[n].case /\ e.key = edits[n].key
        /\ e.popped = edits[n].popped /\ e.attempts = edits[n].attempts + 1
        /\ e.landed = edits[n].landed /\ edits[n].attempts \in Nat
    BY <1>1 DEF Attempt, EditRecord
  <1> HIDE DEF e
  <1>3. Edit' = Edit /\ edits'[n] = e /\ \A m \in Edit : m # n => edits'[m] = edits[m]
    BY EditUpdate DEF e
  <1>4. edits[n].stage \in InFlight => edits[n].attempts > 0
    BY DEF LifeOK
  <1>5. "patch" \in InFlight
    BY StageSets
  <1> QED BY <1>2, <1>3, <1>4, <1>5 DEF Advances

----------------------------------------------------------------------------
(* Every step of a write *)

\* What the step says: nothing; that the connection is lost; or, as the write ends,
\* what _settle makes of it, with the notices it clears or leaves.
Ends(n, o) ==
    /\ edits'[n].stage = o
    /\ failures' = IF o = "done" THEN WithoutOverlap(n)
                   ELSE IF o = "gaveup" THEN WithoutOverlap(n) \cup {n} ELSE failures
    /\ status' = Settle(IF o = "conflict" THEN "conflict" ELSE status, edits', failures')
    /\ waiting' = (waiting /\ HasWork(edits'))

Says(n) ==
    \/ edits'[n].stage \in InFlight /\ UNCHANGED <<failures, status, waiting>>
    \/ /\ edits[n].stage = "network" /\ edits'[n].stage = "sleep"
       /\ status' = SetStatus("reconnecting", edits', failures)
       /\ UNCHANGED <<failures, waiting>>
    \/ \E o \in {"done", "gaveup", "conflict", "threw"} : Ends(n, o)

\* An accepted PATCH, sent under the current ETag, writes the row and lands the edit;
\* nothing else does either.
PatchedRow(n) == [f \in Field |-> IF f \in FieldsOf(n) THEN n ELSE Latest(edits[n].case)[f]]

Writes(n) ==
    /\ edits[n].stage = "patch" /\ edits[n].etag = Len(rows[edits[n].case])
    /\ edits'[n].landed
    /\ rows' = [rows EXCEPT ![edits[n].case] = Append(@, PatchedRow(n))]

StepOf(n) ==
    /\ Advances(n) /\ Says(n)
    /\ Writes(n) \/ (rows' = rows /\ edits'[n].landed = edits[n].landed)
    /\ edits[n].stage # "popped" /\ fc' = fc

\* The steps between the queue and the server that only move the write on.
LEMMA Carried ==
    ASSUME TypeInvariant, NEW n \in Edit, LifeOK(n), NEW s,
           edits' = [edits EXCEPT ![n].stage = s],
           edits[n].stage \in InFlight, s \in InFlight \ {"patch", "confirm", "ok"},
           UNCHANGED <<rows, fc, failures, status, waiting>>
    PROVE  StepOf(n)
  <1>0. s \in InFlight \ {"patch"} /\ s \notin {"confirm", "ok", "done"}
    BY StageSets
  <1>1. Advances(n) /\ edits'[n] = [edits[n] EXCEPT !.stage = s]
    BY <1>0, StageMoves
  <1>2. edits[n] \in EditRecord
    BY EditFacts
  <1>3. edits'[n].stage = s /\ edits'[n].landed = edits[n].landed
    BY <1>1, <1>2 DEF EditRecord
  <1>4. edits[n].stage # "popped" /\ edits'[n].stage \in InFlight
    BY <1>3, StageSets
  <1>5. Says(n)
    BY <1>4 DEF Says
  <1>6. Advances(n) /\ rows' = rows /\ fc' = fc
    BY <1>1
  <1> QED BY <1>3, <1>4, <1>5, <1>6 DEF StepOf

\* A write ends.
LEMMA WriteEnds ==
    ASSUME TypeInvariant, NEW n \in Edit, LifeOK(n),
           NEW o \in {"done", "gaveup", "conflict", "threw"}, NEW fs,
           End(n, o, IF o = "conflict" THEN "conflict" ELSE status, fs),
           fs = IF o = "done" THEN WithoutOverlap(n)
                ELSE IF o = "gaveup" THEN WithoutOverlap(n) \cup {n} ELSE failures,
           edits[n].stage \in InFlight, o = "done" => edits[n].landed,
           UNCHANGED <<rows, fc>>
    PROVE  StepOf(n)
  <1>1. /\ edits' = [edits EXCEPT ![n].stage = o]
        /\ failures' = fs /\ waiting' = (waiting /\ HasWork(edits'))
        /\ status' = Settle(IF o = "conflict" THEN "conflict" ELSE status, edits', failures')
    BY DEF End
  <1>2. Advances(n) /\ edits'[n] = [edits[n] EXCEPT !.stage = o]
    BY <1>1, StageMoves
  <1>3. edits[n] \in EditRecord
    BY EditFacts
  <1>4. edits'[n].stage = o /\ edits'[n].landed = edits[n].landed
    BY <1>2, <1>3 DEF EditRecord
  <1>5. Says(n)
    BY <1>1, <1>4 DEF Says, Ends
  <1>6. edits[n].stage # "popped"
    BY StageSets
  <1>7. Advances(n) /\ rows' = rows /\ fc' = fc
    BY <1>2
  <1> QED BY <1>4, <1>5, <1>6, <1>7 DEF StepOf

\* _flushAttempt, from the timer, after a sleep or after a re-read.
LEMMA Sent ==
    ASSUME TypeInvariant, NEW n \in Edit, LifeOK(n), NEW os \in Seq(Obj), os # <<>>,
           edits' = [edits EXCEPT ![n] = Attempt(edits[n], os)],
           edits[n].stage \in InFlight \cup {"pending"},
           edits[n].stage = "pending" => \A m \in 1..n - 1 : edits[m].stage # "pending",
           UNCHANGED <<rows, fc, failures, status, waiting>>
    PROVE  StepOf(n)
  <1>1. Advances(n) /\ edits'[n].stage = "patch" /\ edits'[n].landed = edits[n].landed
    BY AttemptAdvances
  <1>2. edits[n].stage # "popped" /\ edits'[n].stage \in InFlight
    BY <1>1, StageSets
  <1>3. Says(n)
    BY <1>2 DEF Says
  <1>4. rows' = rows /\ fc' = fc
    OBVIOUS
  <1> QED BY <1>1, <1>2, <1>3, <1>4 DEF StepOf

LEMMA ServerStep ==
    ASSUME TypeInvariant, NEW n \in Edit, LifeOK(n), Server(n) PROVE StepOf(n)
  <1> USE StageSets
  <1>1. edits[n] \in EditRecord
    BY EditFacts
  <1>2. CASE PatchApplied(n)
    <2> DEFINE s == IF ByReread THEN "confirm" ELSE "ok"
               e == [edits[n] EXCEPT !.stage = s, !.ver = Len(rows[edits[n].case]) + 1, !.landed = TRUE]
               d == [edits[n] EXCEPT !.stage = "network", !.landed = TRUE]
    <2>1. edits' = [edits EXCEPT ![n] = e] \/ edits' = [edits EXCEPT ![n] = d]
      BY ZenonT(60), <1>2 DEF PatchApplied
    <2>2. /\ edits[n].stage = "patch" /\ edits[n].etag = Len(rows[edits[n].case])
          /\ UNCHANGED <<fc, failures, status, waiting>>
      BY <1>2 DEF PatchApplied, page
    <2>3. rows' = [rows EXCEPT ![edits[n].case] = Append(@, PatchedRow(n))]
      BY <1>2 DEF PatchApplied, PatchedRow
    <2>a. s \in {"confirm", "ok"}
      OBVIOUS
    <2> HIDE DEF s
    <2>4. Len(rows[edits[n].case]) + 1 \in Nat
      BY EditFacts, LenProperties
    <2>5. ASSUME NEW x \in {e, d}, edits' = [edits EXCEPT ![n] = x] PROVE StepOf(n)
      <3>1. /\ x \in EditRecord /\ x.case = edits[n].case /\ x.key = edits[n].key
            /\ x.popped = edits[n].popped /\ x.attempts = edits[n].attempts /\ x.landed
            /\ x.stage \in {"confirm", "ok", "network"}
        <4>1. s \in Stage /\ "network" \in Stage
          BY <2>a, StageNames
        <4>2. CASE x = e
          BY <1>1, <2>a, <2>4, <4>1, <4>2 DEF EditRecord
        <4>3. CASE x = d
          BY <1>1, <4>1, <4>3 DEF EditRecord
        <4> QED BY <4>2, <4>3
      <3> HIDE DEF e, d
      <3>a. x.stage \in InFlight \ {"patch"} /\ edits[n].stage \in InFlight
        BY <2>2, <3>1
      <3>2. Advances(n) /\ edits'[n] = x
        BY <2>5, <3>1, <3>a, Moves, EditUpdate
      <3>3. Writes(n)
        BY <2>2, <2>3, <3>1, <3>2 DEF Writes
      <3>4. Says(n)
        BY <2>2, <3>a, <3>2 DEF Says
      <3> QED BY <2>2, <3>2, <3>3, <3>4 DEF StepOf
    <2> QED BY <2>1, <2>5
  <1>3. CASE PatchStale(n)
    <2>1. /\ edits' = [edits EXCEPT ![n].stage = "stale"] /\ edits[n].stage \in InFlight
          /\ "stale" \in InFlight \ {"patch", "confirm", "ok"}
          /\ UNCHANGED <<rows, fc, failures, status, waiting>>
      BY <1>3 DEF PatchStale, server, page
    <2> QED BY <2>1, Carried
  <1>4. CASE ConfirmRead(n)
    <2> DEFINE e == [edits[n] EXCEPT !.stage = "ok", !.ver = Len(rows[edits[n].case])]
    <2>1. edits[n].stage = "confirm" /\ UNCHANGED <<rows, fc, failures, status, waiting>>
      BY <1>4 DEF ConfirmRead, server, page
    <2>2. CASE edits' = [edits EXCEPT ![n] = e]
      <3>1. Len(rows[edits[n].case]) \in Nat
        BY EditFacts, LenProperties
      <3>2. /\ e \in EditRecord /\ e.case = edits[n].case /\ e.key = edits[n].key /\ e.stage = "ok"
            /\ e.popped = edits[n].popped /\ e.attempts = edits[n].attempts /\ e.landed = edits[n].landed
        BY <1>1, <3>1, StageNames DEF EditRecord
      <3> HIDE DEF e
      <3>3. edits[n].landed
        BY <2>1 DEF LifeOK
      <3>4. Advances(n) /\ edits'[n] = e
        BY <2>1, <2>2, <3>2, <3>3, Moves, EditUpdate
      <3> QED BY <2>1, <3>2, <3>3, <3>4 DEF StepOf, Says
    <2>3. CASE edits' = [edits EXCEPT ![n].stage = "refused"]
      <3>1. edits[n].stage \in InFlight /\ "refused" \in InFlight \ {"patch", "confirm", "ok"}
        BY <2>1
      <3> QED BY <2>1, <2>3, <3>1, Carried
    <2> QED BY ZenonT(60), <1>4, <2>2, <2>3 DEF ConfirmRead
  <1>5. CASE RereadAnswered(n)
    <2> DEFINE e == [edits[n] EXCEPT !.stage = "fresh", !.ver = Len(rows[edits[n].case])]
    <2>1. edits[n].stage = "reread" /\ UNCHANGED <<rows, fc, failures, status, waiting>>
      BY <1>5 DEF RereadAnswered, server, page
    <2>2. CASE edits' = [edits EXCEPT ![n] = e]
      <3>1. Len(rows[edits[n].case]) \in Nat
        BY EditFacts, LenProperties
      <3>2. /\ e \in EditRecord /\ e.case = edits[n].case /\ e.key = edits[n].key /\ e.stage = "fresh"
            /\ e.popped = edits[n].popped /\ e.attempts = edits[n].attempts /\ e.landed = edits[n].landed
        BY <1>1, <3>1, StageNames DEF EditRecord
      <3> HIDE DEF e
      <3>4. Advances(n) /\ edits'[n] = e
        BY <2>1, <2>2, <3>2, Moves, EditUpdate
      <3> QED BY <2>1, <3>2, <3>4 DEF StepOf, Says
    <2>3. CASE edits' = [edits EXCEPT ![n].stage = "vanished"]
      <3>1. edits[n].stage \in InFlight /\ "vanished" \in InFlight \ {"patch", "confirm", "ok"}
        BY <2>1
      <3> QED BY <2>1, <2>3, <3>1, Carried
    <2> QED BY ZenonT(60), <1>5, <2>2, <2>3 DEF RereadAnswered
  <1> QED BY <1>2, <1>3, <1>4, <1>5 DEF Server

LEMMA FaultStep ==
    ASSUME TypeInvariant, NEW n \in Edit, LifeOK(n), Fault(n) PROVE StepOf(n)
  <1> USE StageSets
  <1>1. ASSUME NEW r \in {"network", "unknown", "refused", "rejected"},
               edits' = [edits EXCEPT ![n].stage = r],
               edits[n].stage \in {"patch", "confirm", "reread"},
               UNCHANGED <<rows, fc, failures, status, waiting>>
        PROVE  StepOf(n)
    <2>1. edits[n].stage \in InFlight /\ r \in InFlight \ {"patch", "confirm", "ok"}
      BY <1>1
    <2> QED BY <1>1, <2>1, Carried
  <1>2. CASE \E r \in {"network", "unknown", "refused"} : PatchFails(n, r)
    BY <1>1, <1>2 DEF PatchFails, page
  <1>3. CASE ConfirmFails(n)
    BY <1>1, <1>3 DEF ConfirmFails, page
  <1>4. CASE RereadFails(n)
    BY <1>1, <1>4 DEF RereadFails, page
  <1> QED BY <1>2, <1>3, <1>4 DEF Fault

LEMMA QueueStep ==
    ASSUME TypeInvariant, NEW n \in Edit, LifeOK(n), Queue(n) PROVE StepOf(n)
  <1> USE StageSets
  <1> DEFINE c == edits[n].case
  <1>1. edits[n] \in EditRecord /\ c \in Case /\ objs[c] \in Seq(Obj) /\ objs[c] # <<>>
    BY EditFacts
  <1>2. CASE TimerFires(n)
    BY <1>1, <1>2, Sent DEF TimerFires, server, page
  <1>3. CASE ReplyOk(n)
    <2>1. edits[n].landed
      BY <1>3 DEF ReplyOk, LifeOK
    <2> QED BY <1>3, <2>1, WriteEnds DEF ReplyOk, server, page
  <1>4. CASE ReplyStale(n)
    <2> DEFINE e == [edits[n] EXCEPT !.stage = "reread", !.obj = Len(objs[c])]
    <2>1. Len(objs[c]) \in Nat
      BY <1>1, LenProperties
    <2>2. /\ e \in EditRecord /\ e.case = edits[n].case /\ e.key = edits[n].key /\ e.stage = "reread"
          /\ e.popped = edits[n].popped /\ e.attempts = edits[n].attempts /\ e.landed = edits[n].landed
      BY <1>1, <2>1, StageNames DEF EditRecord
    <2>3. /\ edits' = [edits EXCEPT ![n] = e] /\ edits[n].stage = "stale"
          /\ UNCHANGED <<rows, fc, failures, status, waiting>>
      BY <1>4 DEF ReplyStale, server, page
    <2> HIDE DEF e
    <2>4. Advances(n) /\ edits'[n] = e
      BY <2>2, <2>3, Moves, EditUpdate
    <2> QED BY <2>2, <2>3, <2>4 DEF StepOf, Says
  <1>5. CASE Rebase(n)
    <2> DEFINE o == edits[n].obj
               v == edits[n].ver
               x == [etag |-> v, base |-> AnswersAt(c, v)]
               os == [objs[c] EXCEPT ![o] = x]
    <2>1. /\ edits' = [edits EXCEPT ![n] = Attempt(edits[n], os)] /\ edits[n].stage = "fresh"
          /\ UNCHANGED <<rows, fc, failures, status, waiting>>
      BY <1>5 DEF Rebase, server, page
    <2>2. o \in DOMAIN objs[c] /\ v \in 1..Len(rows[c])
      BY <2>1, EditFacts DEF EditRefsOK
    <2>3. x \in Obj
      <3>1. v \in Nat /\ AnswersAt(c, v) \in Int
        BY <1>1, <2>2, AnswersType DEF EditRecord
      <3> QED BY <3>1 DEF Obj
    <2> HIDE DEF x
    <2>4. os \in Seq(Obj) /\ Len(os) = Len(objs[c])
      BY <1>1, <2>2, <2>3, UpdateSeq
    <2>5. os # <<>>
      BY <1>1, <2>4, EmptySeq, LenProperties
    <2> HIDE DEF os
    <2> QED BY <2>1, <2>4, <2>5, Sent
  <1>6. CASE Conflict(n)
    BY <1>6, WriteEnds DEF Conflict, server, page
  <1>7. CASE RereadRejected(n)
    BY <1>7, WriteEnds DEF RereadRejected, server, page
  <1>8. CASE ReplyConnection(n)
    <2> DEFINE e == [edits[n] EXCEPT !.stage = "sleep", !.outage = TRUE]
    <2>2. /\ e \in EditRecord /\ e.case = edits[n].case /\ e.key = edits[n].key /\ e.stage = "sleep"
          /\ e.popped = edits[n].popped /\ e.attempts = edits[n].attempts /\ e.landed = edits[n].landed
      BY <1>1, StageNames DEF EditRecord
    <2>3. /\ edits' = [edits EXCEPT ![n] = e] /\ edits[n].stage = "network"
          /\ status' = SetStatus("reconnecting", edits', failures)
          /\ UNCHANGED <<rows, fc, failures, waiting>>
      BY <1>8 DEF ReplyConnection, server, page
    <2> HIDE DEF e
    <2>4. Advances(n) /\ edits'[n] = e
      BY <2>2, <2>3, Moves, EditUpdate
    <2> QED BY <2>2, <2>3, <2>4 DEF StepOf, Says
  <1>9. CASE ReplyUnknown(n)
    <2> DEFINE e == [edits[n] EXCEPT !.stage = "sleep", !.unknowns = @ + 1]
    <2>1. edits[n].unknowns + 1 \in Nat
      BY <1>1 DEF EditRecord
    <2>2. /\ e \in EditRecord /\ e.case = edits[n].case /\ e.key = edits[n].key /\ e.stage = "sleep"
          /\ e.popped = edits[n].popped /\ e.attempts = edits[n].attempts /\ e.landed = edits[n].landed
      BY <1>1, <2>1, StageNames DEF EditRecord
    <2>3. /\ edits' = [edits EXCEPT ![n] = e] /\ edits[n].stage = "unknown"
          /\ UNCHANGED <<rows, fc, failures, status, waiting>>
      BY <1>9 DEF ReplyUnknown, server, page
    <2> HIDE DEF e
    <2>4. Advances(n) /\ edits'[n] = e
      BY <2>2, <2>3, Moves, EditUpdate
    <2> QED BY <2>2, <2>3, <2>4 DEF StepOf, Says
  <1>10. CASE GiveUp(n)
    BY <1>10, WriteEnds DEF GiveUp, server, page
  <1>11. CASE Wake(n)
    BY <1>1, <1>11, Sent DEF Wake, server, page
  <1> QED BY <1>2, <1>3, <1>4, <1>5, <1>6, <1>7, <1>8, <1>9, <1>10, <1>11 DEF Queue

----------------------------------------------------------------------------
(* The order of edits and the values they leave *)

\* A version is appended to the rows of one Case.
LEMMA AppendVersion ==
    ASSUME TypeInvariant, NEW c \in Case, NEW r \in Row,
           rows' = [rows EXCEPT ![c] = Append(@, r)]
    PROVE  /\ \A d \in Case : d # c => rows'[d] = rows[d]
           /\ DOMAIN rows'[c] = 1..Len(rows[c]) + 1 /\ Len(rows'[c]) = Len(rows[c]) + 1
           /\ Len(rows[c]) \in Nat /\ DOMAIN rows[c] = 1..Len(rows[c])
           /\ rows'[c][Len(rows[c]) + 1] = r
           /\ \A v \in 1..Len(rows[c]) : rows'[c][v] = rows[c][v]
  <1>1. rows[c] \in Seq(Row) /\ rows \in [Case -> Seq(Row)]
    BY CaseTypes DEF TypeInvariant, TypeOK, Row
  <1>2. rows'[c] = Append(rows[c], r) /\ \A d \in Case : d # c => rows'[d] = rows[d]
    BY <1>1
  <1> QED BY <1>1, <1>2, AppendProperties, LenProperties

LEMMA LatestRow ==
    ASSUME TypeInvariant, NEW c \in Case
    PROVE  Latest(c) \in Row /\ Len(rows[c]) \in DOMAIN rows[c] /\ Len(rows[c]) \in Nat
  BY CaseTypes, LastElement DEF Latest, CaseRefsOK

LEMMA PatchedRowType ==
    ASSUME TypeInvariant, NEW n \in Edit PROVE PatchedRow(n) \in Row
  <1>1. n \in Int
    BY EditDomain
  <1>2. Latest(edits[n].case) \in Row
    BY EditFacts, LatestRow
  <1> QED BY <1>1, <1>2 DEF PatchedRow, Row

\* No step takes an edit away, moves it to another Case or key, or brings it back.
Keeps ==
    /\ Edit \subseteq Edit'
    /\ \A n \in Edit :
          /\ edits'[n].case = edits[n].case /\ edits'[n].key = edits[n].key
          /\ edits[n].landed => edits'[n].landed
          /\ edits[n].stage \in Ended => edits'[n].stage = edits[n].stage

LEMMA AdvanceKeeps ==
    ASSUME NEW n \in Edit, Advances(n) PROVE Keeps
  <1>1. edits[n].stage \notin Ended
    BY StageSets DEF Advances
  <1> QED BY <1>1 DEF Advances, Keeps

\* Values that were written stay accounted for while rows and edits stay or grow.
LEMMA ValueStays ==
    ASSUME Keeps, NEW c, NEW x, ValueOK(c, x) PROVE ValueOK(c, x)'
  BY DEF Keeps, ValueOK

LEMMA AdvanceLife ==
    ASSUME NEW n \in Edit, EditsOK, Advances(n) PROVE \A m \in Edit' : LifeOK(m)'
  <1>1. Edit' = Edit
    BY DEF Advances
  <1>2. ASSUME NEW m \in Edit, m # n PROVE LifeOK(m)'
    <2>1. edits'[m] = edits[m]
      BY <1>2 DEF Advances
    <2> QED BY <2>1 DEF EditsOK, LifeOK
  <1>3. LifeOK(n)'
    <2>1. edits'[n].stage \notin {"pending", "replaced", "popped", "dropped"}
      BY StageSets DEF Advances
    <2> QED BY <2>1 DEF Advances, LifeOK
  <1> QED BY <1>1, <1>2, <1>3

\* A step of one write, taken from the timer, from flushCase or from the network.
LEMMA AdvanceOrder ==
    ASSUME TypeInvariant, EditsOK, NEW k \in Edit, Advances(k),
           Writes(k) \/ (rows' = rows /\ edits'[k].landed = edits[k].landed),
           NEW m \in Edit, NEW n \in Edit, m < n, edits[m].case = edits[n].case
    PROVE  OrderOK(m, n)'
  <1> DEFINE c == edits[m].case
  <1>1. OrderOK(m, n) /\ LifeOK(m) /\ LifeOK(n) /\ LifeOK(k)
    BY DEF EditsOK
  <1>2. ASSUME edits'[m].stage = "pending" PROVE edits'[n].stage \in {"pending", "replaced"}
    <2>1. m # k
      BY <1>2, StageSets DEF Advances
    <2>2. edits[m].stage = "pending"
      BY <1>2, <2>1 DEF Advances
    <2>3. edits[n].stage \in {"pending", "replaced"}
      BY <1>1, <2>2 DEF OrderOK
    <2>4. CASE n = k
      <3>1. edits[k].stage = "pending"
        BY <2>3, <2>4, StageSets DEF Advances
      <3>2. m \in 1..k - 1
        BY <2>4, EditDomain
      <3> QED BY <2>2, <3>1, <3>2 DEF Advances
    <2> QED BY <2>3, <2>4 DEF Advances
  <1>3. ASSUME edits'[m].stage = "patch", edits'[m].attempts = 1, ~edits'[m].popped, edits'[n].landed
        PROVE  edits'[m].etag < Len(rows'[edits'[m].case])
    <2>1. CASE m = k
      <3>1. n # k /\ edits[n].landed
        BY <1>3, <2>1, EditDomain DEF Advances
      <3>2. edits[k].stage = "pending"
        BY <1>1, <1>3, <2>1 DEF Advances, LifeOK
      <3> QED BY <1>1, <2>1, <3>1, <3>2 DEF OrderOK, LifeOK
    <2>2. CASE m # k
      <3>1. edits'[m] = edits[m] /\ edits[m] \in EditRecord /\ c \in Case
        BY <2>2, EditFacts DEF Advances
      <3>2. Len(rows[c]) \in Nat /\ edits[m].etag \in Nat
        BY <3>1, CaseTypes DEF EditRecord
      <3>3. edits[m].etag <= Len(rows[c])
        BY <1>3, <3>1, <3>2, EditFacts DEF EditRefsOK
      <3>4. CASE Writes(k)
        <4>1. edits[k].case \in Case /\ PatchedRow(k) \in Row
          BY EditFacts, PatchedRowType
        <4>2. /\ \A d \in Case : d # edits[k].case => rows'[d] = rows[d]
              /\ Len(rows'[edits[k].case]) = Len(rows[edits[k].case]) + 1
          BY <3>4, <4>1, AppendVersion DEF Writes
        <4>3. CASE edits[k].case = c
          <5>1. Len(rows'[c]) = Len(rows[c]) + 1
            BY <4>2, <4>3
          <5>2. edits'[m].case = c /\ edits'[m].etag = edits[m].etag
            BY <3>1
          <5> HIDE DEF c
          <5> QED BY <3>2, <3>3, <5>1, <5>2
        <4>4. CASE edits[k].case # c
          <5>1. edits[n].landed
            BY <1>3, <4>4 DEF Advances
          <5> QED BY <1>1, <1>3, <3>1, <4>2, <4>4, <5>1 DEF OrderOK
        <4> QED BY <4>3, <4>4
      <3>5. CASE rows' = rows /\ edits'[k].landed = edits[k].landed
        <4>1. edits[n].landed
          BY <1>3, <3>5 DEF Advances
        <4> QED BY <1>1, <1>3, <3>1, <3>5, <4>1 DEF OrderOK
      <3> QED BY <3>4, <3>5
    <2> QED BY <2>1, <2>2
  <1> QED BY <1>2, <1>3 DEF OrderOK

LEMMA AdvanceValues ==
    ASSUME TypeInvariant, EditsOK, NEW n \in Edit, Advances(n),
           Writes(n) \/ rows' = rows
    PROVE  \A c \in Case : \A v \in DOMAIN rows'[c] : \A f \in Field : ValueOK(c, rows[c][v][f])'
  <1>1. Keeps
    BY AdvanceKeeps
  <1> SUFFICES ASSUME NEW c \in Case, NEW v \in DOMAIN rows'[c], NEW f \in Field
               PROVE  ValueOK(c, rows[c][v][f])'
    OBVIOUS
  <1>2. ASSUME NEW w \in DOMAIN rows[c], rows'[c][v][f] = rows[c][w][f]
        PROVE  ValueOK(c, rows[c][v][f])'
    <2>1. ValueOK(c, rows[c][w][f])
      BY DEF EditsOK
    <2> QED BY <1>1, <1>2, <2>1 DEF Keeps, ValueOK
  <1>3. CASE rows' = rows
    BY <1>2, <1>3
  <1>4. CASE Writes(n)
    <2> DEFINE d == edits[n].case
    <2>1. d \in Case /\ PatchedRow(n) \in Row
      BY EditFacts, PatchedRowType
    <2>2. /\ c # d => rows'[c] = rows[c]
          /\ DOMAIN rows'[d] = 1..Len(rows[d]) + 1 /\ DOMAIN rows[d] = 1..Len(rows[d])
          /\ rows'[d][Len(rows[d]) + 1] = PatchedRow(n) /\ Len(rows[d]) \in Nat
          /\ \A w \in 1..Len(rows[d]) : rows'[d][w] = rows[d][w]
      <3> DEFINE r == PatchedRow(n)
      <3>1. rows' = [rows EXCEPT ![d] = Append(@, r)] /\ d \in Case /\ r \in Row
        BY <1>4, <2>1 DEF Writes
      <3> HIDE DEF d, r
      <3>2. /\ \A e \in Case : e # d => rows'[e] = rows[e]
            /\ DOMAIN rows'[d] = 1..Len(rows[d]) + 1 /\ DOMAIN rows[d] = 1..Len(rows[d])
            /\ rows'[d][Len(rows[d]) + 1] = r /\ Len(rows[d]) \in Nat
            /\ \A w \in 1..Len(rows[d]) : rows'[d][w] = rows[d][w]
        BY <3>1, AppendVersion
      <3> QED BY <3>2 DEF r
    <2>3. CASE c # d \/ v \in 1..Len(rows[d])
      BY <1>2, <2>2, <2>3
    <2>4. CASE c = d /\ v \notin 1..Len(rows[d])
      <3>1. v = Len(rows[d]) + 1
        <4>1. v \in 1..Len(rows[d]) + 1 /\ v \notin 1..Len(rows[d]) /\ Len(rows[d]) \in Nat
          BY <2>2, <2>4
        <4> HIDE DEF d
        <4> QED BY <4>1
      <3>2. CASE f \in FieldsOf(n)
        <4>1. rows'[c][v][f] = n
          BY <2>2, <2>4, <3>1, <3>2 DEF PatchedRow
        <4> QED BY SMTT(30), <1>4, <2>4, <4>1 DEF ValueOK, Writes, Advances
      <3>3. CASE f \notin FieldsOf(n)
        <4>1. rows'[c][v][f] = rows[c][Len(rows[c])][f]
          BY <2>2, <2>4, <3>1, <3>3 DEF PatchedRow, Latest
        <4>2. Len(rows[c]) \in DOMAIN rows[c]
          BY LatestRow
        <4> QED BY <1>2, <4>1, <4>2
      <3> QED BY <3>2, <3>3
    <2> QED BY <2>3, <2>4
  <1> QED BY <1>3, <1>4

LEMMA AdvanceEditsOK ==
    ASSUME TypeInvariant, EditsOK, NEW n \in Edit, Advances(n),
           Writes(n) \/ (rows' = rows /\ edits'[n].landed = edits[n].landed)
    PROVE  EditsOK'
  <1>1. \A m, k \in Edit' : m < k /\ edits'[m].case = edits'[k].case => OrderOK(m, k)'
    <2>1. Edit' = Edit /\ \A m \in Edit : edits'[m].case = edits[m].case
      BY DEF Advances
    <2> QED BY <2>1, AdvanceOrder
  <1> QED BY <1>1, AdvanceLife, AdvanceValues DEF EditsOK

----------------------------------------------------------------------------
(* The page's calls *)

\* Steps which leave the edits and the rows alone.
LEMMA SameEditsOK ==
    ASSUME EditsOK, edits' = edits, rows' = rows PROVE EditsOK' /\ Keeps
  BY DEF EditsOK, LifeOK, OrderOK, ValueOK, Keeps, Edit

LEMMA OtherWriteEditsOK ==
    ASSUME TypeInvariant, EditsOK, NEW c \in Case, NEW f \in Field, OtherWrite(c, f)
    PROVE  EditsOK' /\ Keeps
  <1> DEFINE r == [Latest(c) EXCEPT ![f] = -(others + 1)]
  <1>1. edits' = edits /\ rows' = [rows EXCEPT ![c] = Append(@, r)] /\ others \in Nat
    BY DEF OtherWrite, TypeInvariant, TypeOK
  <1>2. Latest(c) \in Row /\ Len(rows[c]) \in DOMAIN rows[c]
    BY LatestRow
  <1>3. r \in Row /\ \A g \in Field : r[g] = Latest(c)[g] \/ ~(r[g] > 0)
    BY <1>1, <1>2 DEF Row
  <1> HIDE DEF r
  <1>4. /\ \A d \in Case : d # c => rows'[d] = rows[d]
        /\ DOMAIN rows'[c] = 1..Len(rows[c]) + 1 /\ Len(rows'[c]) = Len(rows[c]) + 1
        /\ Len(rows[c]) \in Nat /\ DOMAIN rows[c] = 1..Len(rows[c])
        /\ rows'[c][Len(rows[c]) + 1] = r
        /\ \A v \in 1..Len(rows[c]) : rows'[c][v] = rows[c][v]
    BY <1>1, <1>3, AppendVersion
  <1>5. Keeps /\ Edit' = Edit
    BY <1>1 DEF Keeps, Edit
  <1>6. \A n \in Edit' : LifeOK(n)'
    BY <1>1, <1>5 DEF EditsOK, LifeOK
  <1>7. ASSUME NEW m \in Edit', NEW n \in Edit', m < n, edits'[m].case = edits'[n].case
        PROVE  OrderOK(m, n)'
    <2> DEFINE d == edits[m].case
    <2>1. OrderOK(m, n) /\ d \in Case
      BY <1>1, <1>5, <1>7, EditFacts DEF EditsOK
    <2>2. Len(rows[d]) \in Nat /\ Len(rows'[d]) \in Nat /\ Len(rows[d]) <= Len(rows'[d])
      <3> HIDE DEF d
      <3> QED BY SMTT(30), <1>4, <2>1, CaseTypes
    <2>3. edits[m].etag \in Nat
      BY <1>5, EditFacts DEF EditRecord
    <2> QED BY <1>1, <2>1, <2>2, <2>3 DEF OrderOK
  <1>8. ASSUME NEW d \in Case, NEW v \in DOMAIN rows'[d], NEW g \in Field
        PROVE  ValueOK(d, rows[d][v][g])'
    <2>1. ASSUME NEW w \in DOMAIN rows[d], rows'[d][v][g] = rows[d][w][g]
          PROVE  ValueOK(d, rows[d][v][g])'
      <3>1. ValueOK(d, rows[d][w][g])
        BY DEF EditsOK
      <3> QED BY <1>5, <2>1, <3>1 DEF Keeps, ValueOK
    <2>2. CASE d # c \/ v \in 1..Len(rows[c])
      BY <1>4, <2>1, <2>2
    <2>3. CASE d = c /\ v \notin 1..Len(rows[c])
      <3>1. v = Len(rows[c]) + 1
        <4>1. v \in 1..Len(rows[c]) + 1 /\ Len(rows[c]) \in Nat
          BY <1>4, <2>3
        <4> QED BY <2>3, <4>1
      <3>2. rows'[d][v][g] = Latest(c)[g] \/ ~(rows'[d][v][g] > 0)
        BY <1>3, <1>4, <2>3, <3>1
      <3>3. CASE rows'[d][v][g] = Latest(c)[g]
        BY <1>2, <2>1, <2>3, <3>3 DEF Latest
      <3>4. CASE ~(rows'[d][v][g] > 0)
        BY <3>4 DEF ValueOK
      <3> QED BY <3>2, <3>3, <3>4
    <2> QED BY <2>2, <2>3
  <1> QED BY <1>5, <1>6, <1>7, <1>8 DEF EditsOK

\* enqueue replaces the debounced edits of the same slot and adds its own.
NewEdit(c, k) ==
    [case |-> c, key |-> k, stage |-> "pending", obj |-> 0, etag |-> 0, ver |-> 0,
     attempts |-> 0, unknowns |-> 0, outage |-> FALSE, popped |-> FALSE, landed |-> FALSE]

LEMMA EnqueueShape ==
    ASSUME TypeInvariant, NEW c \in Case, NEW k \in Key, Enqueue(c, k)
    PROVE  /\ Len(edits') = Len(edits) + 1 /\ Len(edits) \in Nat
           /\ Edit = 1..Len(edits) /\ Edit' = 1..Len(edits) + 1
           /\ \A m \in Edit :
                 edits'[m] = IF m \in PendingOf(c) /\ edits[m].key = k
                             THEN [edits[m] EXCEPT !.stage = "replaced"] ELSE edits[m]
           /\ edits'[Len(edits) + 1] = NewEdit(c, k)
  <1> DEFINE e == NewEdit(c, k)
             kept == [n \in Edit |->
                        IF n \in PendingOf(c) /\ edits[n].key = k
                        THEN [edits[n] EXCEPT !.stage = "replaced"] ELSE edits[n]]
  <1>1. edits' = Append(kept, e)
    BY DEF Enqueue, NewEdit
  <1>2. ASSUME NEW m \in Edit PROVE kept[m] \in EditRecord
    <2>1. edits[m] \in EditRecord /\ "replaced" \in Stage
      BY EditFacts, StageNames DEF Ended
    <2> QED BY <2>1 DEF EditRecord
  <1>3. e \in EditRecord
    BY StageNames DEF EditRecord, NewEdit
  <1>4. /\ kept = [m \in Edit |-> kept[m]] /\ edits \in Seq(EditRecord)
        /\ \A m \in Edit : kept[m] = IF m \in PendingOf(c) /\ edits[m].key = k
                                     THEN [edits[m] EXCEPT !.stage = "replaced"] ELSE edits[m]
    BY DEF TypeInvariant, TypeOK
  <1> HIDE DEF e, kept
  <1>5. kept \in Seq(EditRecord) /\ Len(kept) = Len(edits)
    BY <1>2, <1>4, MapSeq, Zenon DEF Edit
  <1>6. /\ edits' \in Seq(EditRecord) /\ Len(edits') = Len(edits) + 1
        /\ \A m \in 1..Len(edits) : edits'[m] = kept[m]
        /\ edits'[Len(edits) + 1] = e
    BY <1>1, <1>3, <1>5, AppendProperties
  <1>7. Edit = 1..Len(edits) /\ Edit' = 1..Len(edits) + 1 /\ Len(edits) \in Nat
    BY <1>4, <1>6, LenProperties DEF Edit
  <1> QED BY <1>4, <1>6, <1>7 DEF e

\* What becomes of one edit when another is enqueued.
LEMMA EnqueueEdit ==
    ASSUME TypeInvariant, NEW c \in Case, NEW k \in Key, Enqueue(c, k), NEW m \in Edit
    PROVE  /\ m \in Edit'
           /\ edits'[m].case = edits[m].case /\ edits'[m].key = edits[m].key
           /\ edits'[m].landed = edits[m].landed /\ edits'[m].attempts = edits[m].attempts
           /\ edits'[m].popped = edits[m].popped /\ edits'[m].etag = edits[m].etag
           /\ \/ edits'[m].stage = edits[m].stage
              \/ edits[m].stage = "pending" /\ edits'[m].stage = "replaced"
  <1>0. Len(edits) \in Nat /\ Edit = 1..Len(edits) /\ Edit' = 1..Len(edits) + 1
    BY EnqueueShape
  <1>1. edits[m] \in EditRecord /\ m \in Edit'
    BY <1>0, EditFacts
  <1>2. \/ edits'[m] = edits[m]
        \/ edits[m].stage = "pending" /\ edits'[m] = [edits[m] EXCEPT !.stage = "replaced"]
    BY EnqueueShape DEF PendingOf
  <1> QED BY <1>1, <1>2 DEF EditRecord

LEMMA EnqueueEditsOK ==
    ASSUME TypeInvariant, EditsOK, NEW c \in Case, NEW k \in Key, Enqueue(c, k)
    PROVE  EditsOK' /\ Keeps
  <1> DEFINE N == Len(edits)
  <1>1. /\ N \in Nat /\ Edit = 1..N /\ Edit' = 1..N + 1
        /\ edits'[N + 1].stage = "pending" /\ edits'[N + 1].attempts = 0
        /\ ~edits'[N + 1].landed /\ ~edits'[N + 1].popped
    <2>1. N \in Nat /\ Edit = 1..N /\ Edit' = 1..N + 1 /\ edits'[N + 1] = NewEdit(c, k)
      BY EnqueueShape
    <2> QED BY <2>1 DEF NewEdit
  <1>a. rows' = rows
    BY DEF Enqueue, server
  <1> HIDE DEF N
  <1>b. \A m \in Edit' : m \in Edit \/ m = N + 1
    BY <1>1
  <1>2. Keeps
    <2>1. ASSUME NEW m \in Edit, edits[m].stage \in Ended PROVE edits'[m].stage = edits[m].stage
      BY <2>1, EnqueueEdit, StageSets
    <2> QED BY <2>1, EnqueueEdit DEF Keeps
  <1>3. ASSUME NEW m \in Edit' PROVE LifeOK(m)'
    <2>1. CASE m = N + 1
      BY <1>1, <2>1, StageSets DEF LifeOK
    <2>2. CASE m \in Edit
      <3>1. LifeOK(m)
        BY <2>2 DEF EditsOK
      <3> QED BY <2>2, <3>1, EnqueueEdit, StageSets DEF LifeOK
    <2> QED BY <1>b, <2>1, <2>2
  <1>4. ASSUME NEW m \in Edit', NEW n \in Edit', m < n, edits'[m].case = edits'[n].case
        PROVE  OrderOK(m, n)'
    <2>1. m \in Edit
      BY <1>1, <1>4
    <2>2. CASE n = N + 1
      BY <1>1, <2>2 DEF OrderOK
    <2>3. CASE n \in Edit
      <3>1. OrderOK(m, n)
        BY <1>4, <2>1, <2>3, EnqueueEdit DEF EditsOK
      <3> QED BY <1>a, <2>1, <2>3, <3>1, EnqueueEdit DEF OrderOK
    <2> QED BY <1>b, <2>2, <2>3
  <1>5. ASSUME NEW d \in Case, NEW v \in DOMAIN rows'[d], NEW f \in Field
        PROVE  ValueOK(d, rows[d][v][f])'
    <2>1. ValueOK(d, rows[d][v][f])
      BY <1>a DEF EditsOK
    <2> QED BY <1>2, <1>a, <2>1 DEF Keeps, ValueOK
  <1> QED BY <1>2, <1>3, <1>4, <1>5 DEF EditsOK

\* What flushCase does to the edits it takes, and to the ones it lets go.
LEMMA Rewritten ==
    ASSUME TypeInvariant, EditsOK, rows' = rows, Edit' = Edit, NEW S \in SUBSET Edit,
           \A m \in Edit \ S : edits'[m] = edits[m],
           \A m \in S :
              /\ edits'[m].case = edits[m].case /\ edits'[m].key = edits[m].key
              /\ edits'[m].attempts = edits[m].attempts /\ edits'[m].landed = edits[m].landed
              /\ \/ edits[m].stage = "pending" /\ edits'[m].stage = "popped" /\ edits'[m].popped
                 \/ edits[m].stage = "popped" /\ edits'[m].stage = "dropped",
           \A m \in Edit \ S, n \in S :
              edits[m].case = edits[n].case => edits[m].stage # "pending" \/ edits[n].stage = "popped"
    PROVE  EditsOK' /\ Keeps
  <1>1. \A m \in S : edits[m].stage \notin Ended
    BY StageSets
  <1>2. Keeps
    BY <1>1 DEF Keeps
  <1>3. ASSUME NEW m \in Edit PROVE LifeOK(m)'
    <2>1. LifeOK(m)
      BY DEF EditsOK
    <2> QED BY <2>1, StageSets DEF LifeOK
  <1>4. ASSUME NEW m \in Edit, NEW n \in Edit, m < n, edits'[m].case = edits'[n].case
        PROVE  OrderOK(m, n)'
    <2>1. OrderOK(m, n)
      BY <1>2, <1>4 DEF EditsOK, Keeps
    <2>2. CASE m \in S
      BY <2>2, StageSets DEF OrderOK
    <2>3. CASE m \notin S
      <3>1. edits'[m] = edits[m]
        BY <2>3
      <3>2. CASE n \notin S
        BY <2>1, <3>1, <3>2 DEF OrderOK
      <3>3. CASE n \in S
        <4>1. edits[m].stage # "pending"
          <5> SUFFICES ASSUME edits[m].stage = "pending" PROVE FALSE
            OBVIOUS
          <5>1. edits[n].stage = "pending"
            BY <2>1, <3>3 DEF OrderOK
          <5>2. edits[m].case = edits[n].case
            BY <1>2, <1>4 DEF Keeps
          <5> QED BY <2>3, <3>3, <5>1, <5>2
        <4> QED BY <2>1, <3>1, <3>3, <4>1 DEF OrderOK
      <3> QED BY <3>2, <3>3
    <2> QED BY <2>2, <2>3
  <1>5. ASSUME NEW d \in Case, NEW v \in DOMAIN rows'[d], NEW f \in Field
        PROVE  ValueOK(d, rows[d][v][f])'
    <2>1. ValueOK(d, rows[d][v][f])
      BY DEF EditsOK
    <2> QED BY <1>2, <2>1 DEF Keeps, ValueOK
  <1> QED BY <1>2, <1>3, <1>4, <1>5 DEF EditsOK

LEMMA FlushCaseTakes ==
    ASSUME TypeInvariant, EditsOK, NEW c \in Case, FlushCase(c)
    PROVE  /\ EditsOK' /\ Keeps /\ Edit' = Edit
           /\ \A m \in Edit : IF m \in PendingOf(c) THEN edits'[m].stage = "popped"
                              ELSE edits'[m] = edits[m]
  <1>1. rows' = rows /\ Edit' = Edit
    BY DEF FlushCase, server, Edit
  <1>2. ASSUME NEW m \in Edit \ PendingOf(c) PROVE edits'[m] = edits[m]
    BY DEF FlushCase
  <1>3. ASSUME NEW m \in PendingOf(c)
        PROVE  /\ edits'[m].case = edits[m].case /\ edits'[m].key = edits[m].key
               /\ edits'[m].attempts = edits[m].attempts /\ edits'[m].landed = edits[m].landed
               /\ edits[m].stage = "pending" /\ edits'[m].stage = "popped" /\ edits'[m].popped
    <2>1. m \in Edit /\ edits[m] \in EditRecord /\ edits[m].stage = "pending"
      BY EditFacts DEF PendingOf
    <2>2. edits'[m] = [edits[m] EXCEPT !.stage = "popped", !.popped = TRUE]
      BY <2>1 DEF FlushCase
    <2> QED BY <2>1, <2>2 DEF EditRecord
  <1>4. PendingOf(c) \in SUBSET Edit
    BY DEF PendingOf
  <1>5. \A m \in Edit \ PendingOf(c), n \in PendingOf(c) :
           edits[m].case = edits[n].case => edits[m].stage # "pending"
    BY DEF PendingOf
  <1>6. EditsOK' /\ Keeps
    BY <1>1, <1>2, <1>3, <1>4, <1>5, Rewritten
  <1> QED BY <1>1, <1>2, <1>3, <1>4, <1>6

LEMMA FlushCaseDrops ==
    ASSUME TypeInvariant, EditsOK, CallsOK, NEW c \in Case, NEW r, FlushCaseReturn(c, r),
           rows' = rows
    PROVE  /\ EditsOK' /\ Keeps /\ Edit' = Edit
           /\ \A m \in Edit : IF m \in fc[c].todo THEN edits'[m].stage = "dropped"
                              ELSE edits'[m] = edits[m]
  <1> DEFINE S == fc[c].todo
  <1>1. Edit' = Edit
    BY DEF FlushCaseReturn, Edit
  <1>2. ASSUME NEW m \in Edit \ S PROVE edits'[m] = edits[m]
    BY DEF FlushCaseReturn
  <1>3. S \in SUBSET Edit /\ \A m \in S : edits[m].stage = "popped"
    BY CaseTypes DEF CaseRefsOK, CallsOK, CallOK
  <1>4. ASSUME NEW m \in S
        PROVE  /\ edits'[m].case = edits[m].case /\ edits'[m].key = edits[m].key
               /\ edits'[m].attempts = edits[m].attempts /\ edits'[m].landed = edits[m].landed
               /\ edits[m].stage = "popped" /\ edits'[m].stage = "dropped"
    <2>1. m \in Edit /\ edits[m] \in EditRecord
      BY <1>3, EditFacts
    <2>2. edits'[m] = [edits[m] EXCEPT !.stage = "dropped"]
      BY <2>1 DEF FlushCaseReturn
    <2> QED BY <1>3, <2>1, <2>2 DEF EditRecord
  <1> HIDE DEF S
  <1>5. EditsOK' /\ Keeps
    BY <1>1, <1>2, <1>3, <1>4, Rewritten
  <1> QED BY <1>1, <1>2, <1>3, <1>4, <1>5 DEF S

\* flushCase sends the next of the edits it holds.
SendsNext(c, n) ==
    /\ \A m \in fc[c].wait : edits[m].stage = "done"
    /\ edits' = [edits EXCEPT ![n] = Attempt(@, objs[c])]
    /\ fc' = [fc EXCEPT ![c].wait = {n}, ![c].todo = @ \ {n}]

LEMMA FlushCaseSends ==
    ASSUME TypeInvariant, EditsOK, CallsOK, NEW c \in Case, NEW n \in fc[c].todo,
           SendsNext(c, n), rows' = rows
    PROVE  EditsOK' /\ Advances(n) /\ edits'[n].stage = "patch" /\ edits[n].stage = "popped"
  <1>1. n \in Edit /\ edits[n].case = c /\ edits[n].stage = "popped"
    BY CaseTypes DEF CaseRefsOK, CallsOK, CallOK
  <1>2. objs[c] \in Seq(Obj) /\ objs[c] # <<>> /\ LifeOK(n)
    BY <1>1, EditFacts DEF EditsOK
  <1>3. edits' = [edits EXCEPT ![n] = Attempt(edits[n], objs[c])]
    BY DEF SendsNext
  <1>4. Advances(n) /\ edits'[n].stage = "patch" /\ edits'[n].landed = edits[n].landed
    BY <1>1, <1>2, <1>3, StageSets, AttemptAdvances
  <1> QED BY <1>1, <1>4, AdvanceEditsOK

----------------------------------------------------------------------------
(* What flushCase holds *)

LEMMA SameLength ==
    ASSUME TypeInvariant, TypeInvariant', Edit' = Edit PROVE Len(edits') = Len(edits)
  <1>1. edits \in Seq(EditRecord) /\ edits' \in Seq(EditRecord)
    BY DEF TypeInvariant, TypeOK
  <1> QED BY <1>1, LenProperties DEF Edit

LEMMA FcTypes ==
    ASSUME TypeInvariant, NEW c \in Case
    PROVE  /\ fc[c] \in FlushCall /\ fc \in [Case -> FlushCall]
           /\ fc[c].wait \subseteq Edit /\ fc[c].todo \subseteq {n \in Edit : edits[n].case = c}
  BY DEF TypeInvariant, TypeOK, RefsOK, CaseRefsOK

\* A call is not disturbed by a step that pops no edit of its Case and sends none it
\* holds.
LEMMA CallStays ==
    ASSUME TypeInvariant, Keeps, NEW d \in Case, CallOK(d), fc'[d] = fc[d],
           Len(edits') \in Nat, Len(edits) <= Len(edits'),
           \A n \in Edit : edits[n].case = d /\ edits[n].stage = "popped" => edits'[n].stage = "popped",
           \A n \in Edit' : edits'[n].case = d /\ edits'[n].stage = "popped"
                               => n \in Edit /\ edits[n].stage = "popped"
    PROVE  CallOK(d)'
  <1>1. Edit = 1..Len(edits) /\ Len(edits) \in Nat
    BY EditDomain
  <1>2. fc[d].upto \in Nat /\ fc[d].upto <= Len(edits)
    BY DEF CallOK
  <1>3. fc'[d].upto \in Nat /\ fc'[d].upto <= Len(edits')
    BY <1>1, <1>2
  <1>4. ASSUME NEW n \in fc'[d].todo PROVE fc'[d].stage = "awaiting" /\ edits'[n].stage = "popped"
    <2>1. n \in Edit /\ edits[n].case = d
      BY FcTypes
    <2> QED BY <2>1 DEF CallOK
  <1>5. ASSUME NEW n \in Edit', edits'[n].case = d, edits'[n].stage = "popped" PROVE n \in fc'[d].todo
    <2>1. n \in Edit /\ edits[n].stage = "popped" /\ edits[n].case = d
      BY <1>5 DEF Keeps
    <2> QED BY <2>1 DEF CallOK
  <1>6. ASSUME fc'[d].stage = "awaiting", NEW n \in 1..fc'[d].upto, edits'[n].case = d
        PROVE  n \in fc'[d].wait \cup fc'[d].todo \/ edits'[n].stage \in Ended
    <2>1. n \in Edit
      BY <1>1, <1>2
    <2>2. edits[n].case = d
      BY <1>6, <2>1 DEF Keeps
    <2> QED BY <1>6, <2>1, <2>2 DEF CallOK, Keeps
  <1> QED BY <1>3, <1>4, <1>5, <1>6 DEF CallOK

\* A step of one write that flushCase does not hold.
LEMMA WriteCallsOK ==
    ASSUME TypeInvariant, CallsOK, NEW n \in Edit, Advances(n), edits[n].stage # "popped", fc' = fc,
           TypeInvariant'
    PROVE  CallsOK'
  <1>1. Keeps /\ Edit' = Edit
    BY AdvanceKeeps DEF Advances
  <1>2. edits'[n].stage # "popped"
    BY StageSets DEF Advances
  <1>3. \A m \in Edit : m # n => edits'[m] = edits[m]
    BY DEF Advances
  <1>4. Len(edits') = Len(edits) /\ Len(edits) \in Nat
    BY <1>1, EditDomain, SameLength
  <1> QED BY <1>1, <1>2, <1>3, <1>4, CallStays DEF CallsOK

LEMMA EnqueueCallsOK ==
    ASSUME TypeInvariant, EditsOK, CallsOK, NEW c \in Case, NEW k \in Key, Enqueue(c, k)
    PROVE  CallsOK'
  <1>1. Keeps /\ fc' = fc
    BY EnqueueEditsOK DEF Enqueue, page
  <1>2. /\ Len(edits') = Len(edits) + 1 /\ Len(edits) \in Nat
        /\ Edit = 1..Len(edits) /\ Edit' = 1..Len(edits) + 1
        /\ edits'[Len(edits) + 1] = NewEdit(c, k)
    BY EnqueueShape
  <1>3. edits'[Len(edits) + 1].stage # "popped"
    BY <1>2 DEF NewEdit
  <1>4. \A n \in Edit : edits'[n].stage = "popped" <=> edits[n].stage = "popped"
    BY EnqueueEdit
  <1>5. \A n \in Edit' : n \in Edit \/ n = Len(edits) + 1
    BY <1>2
  <1>6. Len(edits') \in Nat /\ Len(edits) <= Len(edits')
    BY <1>2
  <1> QED BY <1>1, <1>3, <1>4, <1>5, <1>6, CallStays DEF CallsOK

LEMMA FlushCaseCallsOK ==
    ASSUME TypeInvariant, EditsOK, CallsOK, NEW c \in Case, FlushCase(c), TypeInvariant'
    PROVE  CallsOK'
  <1>1. /\ Keeps /\ Edit' = Edit
        /\ \A m \in Edit : IF m \in PendingOf(c) THEN edits'[m].stage = "popped"
                           ELSE edits'[m] = edits[m]
    BY FlushCaseTakes
  <1>2. Len(edits') = Len(edits) /\ Len(edits) \in Nat /\ Edit = 1..Len(edits)
    BY <1>1, EditDomain, SameLength
  <1>3. /\ fc'[c].stage = "awaiting" /\ fc'[c].wait = InFlightOf(c) /\ fc'[c].todo = PendingOf(c)
        /\ fc'[c].upto = Len(edits) /\ \A d \in Case : d # c => fc'[d] = fc[d]
    BY FcTypes DEF FlushCase
  <1>4. ASSUME NEW d \in Case, d # c PROVE CallOK(d)'
    <2>1. \A n \in Edit : edits[n].case = d => n \notin PendingOf(c)
      BY <1>4 DEF PendingOf
    <2>2. \A n \in Edit : edits'[n].case = edits[n].case
      BY <1>1 DEF Keeps
    <2> QED BY <1>1, <1>2, <1>3, <1>4, <2>1, <2>2, CallStays DEF CallsOK
  <1>5. CallOK(c)'
    <2>1. \A n \in Edit : edits[n].case = c => edits[n].stage # "popped"
      BY DEF CallsOK, CallOK, FlushCase
    <2>2. \A n \in fc'[c].todo : edits'[n].stage = "popped"
      BY <1>1, <1>3 DEF PendingOf
    <2>3. ASSUME NEW n \in Edit', edits'[n].case = c, edits'[n].stage = "popped"
          PROVE  n \in fc'[c].todo
      BY <1>1, <1>3, <2>1, <2>3 DEF Keeps
    <2>4. ASSUME NEW n \in 1..fc'[c].upto, edits'[n].case = c
          PROVE  n \in fc'[c].wait \cup fc'[c].todo \/ edits'[n].stage \in Ended
      <3>1. n \in Edit /\ edits[n].case = c /\ edits[n] \in EditRecord
        BY <1>1, <1>2, <1>3, <2>4, EditFacts DEF Keeps
      <3>2. edits[n].stage \in {"pending", "popped"} \cup InFlight \cup Ended
        BY <3>1 DEF EditRecord, Stage
      <3>3. CASE edits[n].stage = "pending"
        BY <1>3, <3>1, <3>3 DEF PendingOf
      <3>4. CASE edits[n].stage \in InFlight
        BY <1>3, <3>1, <3>4 DEF InFlightOf
      <3>5. CASE edits[n].stage \in Ended
        BY <1>1, <3>1, <3>5 DEF Keeps
      <3> QED BY <2>1, <3>1, <3>2, <3>3, <3>4, <3>5
    <2> QED BY <1>2, <1>3, <2>2, <2>3, <2>4 DEF CallOK
  <1> QED BY <1>4, <1>5 DEF CallsOK

LEMMA ReturnCallsOK ==
    ASSUME TypeInvariant, EditsOK, CallsOK, NEW c \in Case, NEW r \in {"threw", "false", "true"},
           FlushCaseReturn(c, r), rows' = rows, TypeInvariant'
    PROVE  CallsOK'
  <1>1. /\ Keeps /\ Edit' = Edit
        /\ \A m \in Edit : IF m \in fc[c].todo THEN edits'[m].stage = "dropped"
                           ELSE edits'[m] = edits[m]
    BY FlushCaseDrops
  <1>2. Len(edits') = Len(edits) /\ Len(edits) \in Nat /\ Edit = 1..Len(edits)
    BY <1>1, EditDomain, SameLength
  <1>3. /\ fc'[c].stage = r /\ fc'[c].todo = {} /\ fc'[c].upto = fc[c].upto
        /\ \A d \in Case : d # c => fc'[d] = fc[d]
    BY FcTypes DEF FlushCaseReturn, FlushCall
  <1>4. ASSUME NEW d \in Case, d # c PROVE CallOK(d)'
    <2>1. \A n \in Edit : edits[n].case = d => n \notin fc[c].todo
      BY <1>4, FcTypes
    <2>2. \A n \in Edit : edits'[n].case = edits[n].case
      BY <1>1 DEF Keeps
    <2> QED BY <1>1, <1>2, <1>3, <1>4, <2>1, <2>2, CallStays DEF CallsOK
  <1>5. CallOK(c)'
    <2>1. \A n \in Edit : edits[n].case = c /\ edits[n].stage = "popped" => n \in fc[c].todo
      BY DEF CallsOK, CallOK
    <2>2. ASSUME NEW n \in Edit', edits'[n].case = c PROVE edits'[n].stage # "popped"
      BY <1>1, <2>1, <2>2 DEF Keeps
    <2>3. fc[c].upto \in Nat /\ fc[c].upto <= Len(edits)
      BY DEF CallsOK, CallOK
    <2> QED BY <1>2, <1>3, <2>2, <2>3 DEF CallOK
  <1> QED BY <1>4, <1>5 DEF CallsOK

LEMMA SendsCallsOK ==
    ASSUME TypeInvariant, EditsOK, CallsOK, NEW c \in Case, fc[c].stage = "awaiting",
           NEW n \in fc[c].todo, SendsNext(c, n), rows' = rows, TypeInvariant'
    PROVE  CallsOK'
  <1>1. Advances(n) /\ edits'[n].stage = "patch" /\ n \in Edit /\ edits[n].case = c
    BY FlushCaseSends, FcTypes
  <1>2. Keeps /\ Edit' = Edit /\ \A m \in Edit : m # n => edits'[m] = edits[m]
    BY <1>1, AdvanceKeeps DEF Advances
  <1>3. Len(edits') = Len(edits) /\ Len(edits) \in Nat /\ Edit = 1..Len(edits)
    BY <1>2, EditDomain, SameLength
  <1>4. /\ fc'[c].stage = "awaiting" /\ fc'[c].wait = {n} /\ fc'[c].todo = fc[c].todo \ {n}
        /\ fc'[c].upto = fc[c].upto /\ \A d \in Case : d # c => fc'[d] = fc[d]
    BY FcTypes DEF SendsNext, FlushCall
  <1>5. ASSUME NEW d \in Case, d # c PROVE CallOK(d)'
    <2>1. edits'[n].case # d /\ edits[n].case # d
      BY <1>1, <1>2, <1>5 DEF Keeps
    <2> QED BY <1>2, <1>3, <1>4, <1>5, <2>1, CallStays DEF CallsOK
  <1>6. CallOK(c)'
    <2>1. CallOK(c)
      BY DEF CallsOK
    <2>2. \A m \in fc'[c].todo : edits'[m].stage = "popped"
      BY <1>2, <1>4, <2>1, FcTypes DEF CallOK
    <2>3. ASSUME NEW m \in Edit', edits'[m].case = c, edits'[m].stage = "popped"
          PROVE  m \in fc'[c].todo
      <3>1. m # n /\ m \in Edit /\ edits[m].case = c /\ edits[m].stage = "popped"
        BY <1>1, <1>2, <2>3
      <3> QED BY <1>4, <2>1, <3>1 DEF CallOK
    <2>4. ASSUME NEW m \in 1..fc'[c].upto, edits'[m].case = c
          PROVE  m \in fc'[c].wait \cup fc'[c].todo \/ edits'[m].stage \in Ended
      <3>1. fc[c].upto \in Nat /\ fc[c].upto <= Len(edits)
        BY <2>1 DEF CallOK
      <3>2. m \in Edit /\ edits[m].case = c
        BY <1>2, <1>3, <1>4, <2>4, <3>1 DEF Keeps
      <3>3. m \in fc[c].wait \cup fc[c].todo \/ edits[m].stage \in Ended
        BY <1>4, <2>1, <2>4, <3>2 DEF CallOK
      <3>4. m \in fc[c].wait => edits[m].stage \in Ended
        BY StageSets DEF SendsNext
      <3> QED BY <1>2, <1>4, <3>2, <3>3, <3>4 DEF Keeps
    <2>5. fc'[c].upto \in Nat /\ fc'[c].upto <= Len(edits')
      BY <1>3, <1>4, <2>1 DEF CallOK
    <2> QED BY <1>4, <2>2, <2>3, <2>4, <2>5 DEF CallOK
  <1> QED BY <1>5, <1>6 DEF CallsOK

----------------------------------------------------------------------------
(* Every step *)

\* flushCase goes on: it sends the next edit, or returns.  It is true only when all
\* it waited for is done, nothing is left to send, and no notice of the Case stands.
Resumes(c) ==
    /\ fc[c].stage = "awaiting" /\ UNCHANGED <<rows, failures, status, waiting>>
    /\ \/ \E n \in fc[c].todo : SendsNext(c, n)
       \/ \E r \in {"threw", "false", "true"} :
             /\ FlushCaseReturn(c, r)
             /\ r = "true" => /\ \A n \in fc[c].wait : edits[n].stage = "done"
                              /\ fc[c].todo = {} /\ ~HasFailure(c)

\* Page loads, other writers, a caller of whenIdle, and stutters.
Elsewhere ==
    /\ UNCHANGED <<edits, failures, status, fc>> /\ (waiting => waiting')
    /\ rows' = rows \/ \E c \in Case, f \in Field : OtherWrite(c, f)

LEMMA ResumeKinds ==
    ASSUME NEW c \in Case, FlushCaseResume(c) PROVE Resumes(c)
  <1>1. fc[c].stage = "awaiting" /\ UNCHANGED <<rows, failures, status, waiting>>
    BY DEF FlushCaseResume, Resumable, server
  <1>2. CASE \E n \in fc[c].wait : edits[n].stage = "threw"
    <2>1. FlushCaseReturn(c, "threw")
      BY <1>2 DEF FlushCaseResume
    <2> QED BY <1>1, <2>1 DEF Resumes
  <1>3. CASE ~\E n \in fc[c].wait : edits[n].stage = "threw"
    <2>1. CASE \E n \in fc[c].wait : edits[n].stage # "done"
      <3>1. FlushCaseReturn(c, "false")
        BY <1>3, <2>1 DEF FlushCaseResume
      <3> QED BY <1>1, <3>1 DEF Resumes
    <2>2. CASE \A n \in fc[c].wait : edits[n].stage = "done"
      <3>1. CASE \E n \in fc[c].todo :
                   /\ edits' = [edits EXCEPT ![n] = Attempt(@, objs[c])]
                   /\ fc' = [fc EXCEPT ![c].wait = {n}, ![c].todo = @ \ {n}]
        BY <1>1, <2>2, <3>1 DEF Resumes, SendsNext
      <3>2. CASE fc[c].todo = {} /\ FlushCaseReturn(c, IF status # "conflict" /\ ~HasFailure(c)
                                                       THEN "true" ELSE "false")
        <4>1. CASE status # "conflict" /\ ~HasFailure(c)
          <5>1. FlushCaseReturn(c, "true")
            BY <3>2, <4>1
          <5> QED BY <1>1, <2>2, <3>2, <4>1, <5>1 DEF Resumes
        <4>2. CASE ~(status # "conflict" /\ ~HasFailure(c))
          <5>1. FlushCaseReturn(c, "false")
            BY <3>2, <4>2
          <5> QED BY <1>1, <5>1 DEF Resumes
        <4> QED BY <4>1, <4>2
      <3> QED BY <1>3, <2>2, <3>1, <3>2 DEF FlushCaseResume
    <2> QED BY <2>1, <2>2
  <1> QED BY <1>2, <1>3

LEMMA StepKinds ==
    ASSUME TypeInvariant, EditsOK, [Next]_vars
    PROVE  \/ \E n \in Edit : StepOf(n)
           \/ \E c \in Case, k \in Key : Enqueue(c, k)
           \/ \E c \in Case : FlushCase(c)
           \/ \E c \in Case : Resumes(c)
           \/ Elsewhere
  <1>1. ASSUME NEW c \in Case, PageRead(c) \/ LoadCase(c) PROVE Elsewhere
    BY <1>1 DEF PageRead, LoadCase, server, Elsewhere
  <1>2. ASSUME NEW c \in Case, NEW f \in Field, OtherWrite(c, f) PROVE Elsewhere
    <2>1. UNCHANGED <<edits, failures, status, fc, waiting>>
      BY <1>2 DEF OtherWrite, page
    <2> QED BY <1>2, <2>1 DEF Elsewhere
  <1>3. CASE WhenIdle
    BY <1>3 DEF WhenIdle, server, page, Elsewhere
  <1>4. CASE UNCHANGED vars
    BY <1>4 DEF vars, Elsewhere
  <1>5. ASSUME NEW n \in Edit, Server(n) \/ Fault(n) \/ Queue(n) PROVE StepOf(n)
    <2>1. LifeOK(n)
      BY DEF EditsOK
    <2> QED BY <1>5, <2>1, ServerStep, FaultStep, QueueStep
  <1>6. CASE \E c \in Case : User(c) \/ FlushCaseResume(c)
    BY <1>1, <1>6, ResumeKinds DEF User
  <1> QED BY <1>2, <1>3, <1>4, <1>5, <1>6 DEF Next

LEMMA StepEdits ==
    ASSUME TypeInvariant, TypeInvariant', EditsOK, CallsOK, [Next]_vars
    PROVE  EditsOK' /\ CallsOK' /\ Keeps
  <1>1. ASSUME NEW n \in Edit, StepOf(n) PROVE EditsOK' /\ CallsOK' /\ Keeps
    BY <1>1, AdvanceEditsOK, AdvanceKeeps, WriteCallsOK DEF StepOf
  <1>2. ASSUME NEW c \in Case, NEW k \in Key, Enqueue(c, k) PROVE EditsOK' /\ CallsOK' /\ Keeps
    BY <1>2, EnqueueEditsOK, EnqueueCallsOK
  <1>3. ASSUME NEW c \in Case, FlushCase(c) PROVE EditsOK' /\ CallsOK' /\ Keeps
    BY <1>3, FlushCaseTakes, FlushCaseCallsOK
  <1>4. ASSUME NEW c \in Case, Resumes(c) PROVE EditsOK' /\ CallsOK' /\ Keeps
    <2>1. rows' = rows /\ fc[c].stage = "awaiting"
      BY <1>4 DEF Resumes
    <2>2. ASSUME NEW n \in fc[c].todo, SendsNext(c, n) PROVE EditsOK' /\ CallsOK' /\ Keeps
      <3>1. n \in Edit
        BY FcTypes
      <3> QED BY <2>1, <2>2, <3>1, FlushCaseSends, AdvanceKeeps, SendsCallsOK
    <2>3. ASSUME NEW r \in {"threw", "false", "true"}, FlushCaseReturn(c, r)
          PROVE  EditsOK' /\ CallsOK' /\ Keeps
      BY <2>1, <2>3, FlushCaseDrops, ReturnCallsOK
    <2> QED BY <1>4, <2>2, <2>3 DEF Resumes
  <1>5. CASE Elsewhere
    <2>1. edits' = edits /\ fc' = fc
      BY <1>5 DEF Elsewhere
    <2>2. EditsOK' /\ Keeps
      BY <1>5, SameEditsOK, OtherWriteEditsOK DEF Elsewhere
    <2>3. Edit' = Edit /\ CallsOK'
      BY <2>1 DEF CallsOK, CallOK, Edit
    <2> QED BY <2>2, <2>3
  <1> QED BY <1>1, <1>2, <1>3, <1>4, <1>5, StepKinds

LEMMA InitEdits == Init => EditsOK /\ CallsOK
  <1> SUFFICES ASSUME Init PROVE EditsOK /\ CallsOK
    OBVIOUS
  <1>1. Edit = {} /\ Len(edits) = 0
    BY DEF Init, Edit
  <1>2. \A c \in Case : \A v \in DOMAIN rows[c] : \A f \in Field : ~(rows[c][v][f] > 0)
    BY DEF Init
  <1>3. EditsOK
    BY <1>1, <1>2 DEF EditsOK, ValueOK
  <1>4. \A c \in Case : fc[c].stage = "idle" /\ fc[c].todo = {} /\ fc[c].upto = 0
    BY DEF Init
  <1> QED BY <1>1, <1>3, <1>4 DEF CallsOK, CallOK

THEOREM EditsAndCalls == Spec => [](EditsOK /\ CallsOK)
  <1>1. TypeInvariant /\ TypeInvariant' /\ EditsOK /\ CallsOK /\ [Next]_vars => (EditsOK /\ CallsOK)'
    BY StepEdits
  <1> QED BY <1>1, InitEdits, TypeCorrect, PTL DEF Spec

----------------------------------------------------------------------------
(* Overtaking *)

\* A write the server takes on its first attempt, straight from its timer, carries
\* the ETag of the latest version, so no newer edit has landed in that version.
LEMMA FirstAttemptIsNewest ==
    ASSUME TypeInvariant, EditsOK, NEW n \in Edit, edits[n].stage = "patch",
           edits[n].etag = Len(rows[edits[n].case]), edits[n].attempts = 1, ~edits[n].popped,
           ~edits[n].landed, NEW f \in FieldsOf(n)
    PROVE  Latest(edits[n].case)[f] < n
  <1> DEFINE c == edits[n].case
             x == Latest(c)[f]
  <1>1. c \in Case /\ f \in Field /\ n \in Nat /\ n > 0
    BY EditFacts, EditDomain DEF FieldsOf
  <1>2. x \in Int /\ Len(rows[c]) \in DOMAIN rows[c] /\ Len(rows[c]) \in Nat
    BY <1>1, LatestRow DEF Row
  <1>3. ValueOK(c, x)
    BY <1>1, <1>2 DEF EditsOK, Latest
  <1> SUFFICES ASSUME ~(x < n) PROVE FALSE
    OBVIOUS
  <1> HIDE DEF x
  <1>4. x \in Edit /\ edits[x].case = c /\ edits[x].landed /\ x > 0
    BY <1>1, <1>2, <1>3 DEF ValueOK
  <1>5. n < x
    BY <1>1, <1>2, <1>4
  <1>6. OrderOK(n, x)
    BY <1>4, <1>5 DEF EditsOK
  <1>7. edits[n].etag < Len(rows[c])
    BY <1>4, <1>6 DEF OrderOK
  <1> QED BY <1>2, <1>7

LEMMA NoOvertakeStep ==
    ASSUME TypeInvariant, EditsOK, CallsOK, [Next]_vars, NEW n \in Edit, ~edits[n].landed, edits'[n].landed
    PROVE  edits[n].stage = "patch" /\ edits[n].etag = Len(rows[edits[n].case])
  <1>1. ASSUME NEW m \in Edit, StepOf(m)
        PROVE  edits[n].stage = "patch" /\ edits[n].etag = Len(rows[edits[n].case])
    <2>1. n = m
      BY <1>1 DEF StepOf, Advances
    <2> QED BY <1>1, <2>1 DEF StepOf, Writes
  <1>2. ASSUME NEW c \in Case, NEW k \in Key, Enqueue(c, k) PROVE FALSE
    BY <1>2, EnqueueEdit
  <1>3. ASSUME NEW c \in Case, FlushCase(c) PROVE FALSE
    <2>1. edits'[n].landed = edits[n].landed
      BY <1>3, FlushCaseTakes, EditFacts DEF FlushCase, EditRecord
    <2> QED BY <2>1
  <1>4. ASSUME NEW c \in Case, Resumes(c) PROVE FALSE
    <2>1. ASSUME NEW m \in fc[c].todo, SendsNext(c, m) PROVE FALSE
      <3>1. edits'[n].landed = edits[n].landed
        BY <2>1, EditFacts DEF SendsNext, Attempt, EditRecord
      <3> QED BY <3>1
    <2>2. ASSUME NEW r, FlushCaseReturn(c, r) PROVE FALSE
      <3>1. edits'[n].landed = edits[n].landed
        BY <2>2, EditFacts DEF FlushCaseReturn, EditRecord
      <3> QED BY <3>1
    <2> QED BY <1>4, <2>1, <2>2 DEF Resumes
  <1>5. CASE Elsewhere
    BY <1>5 DEF Elsewhere
  <1> QED BY <1>1, <1>2, <1>3, <1>4, <1>5, StepKinds

\* A write sent once, straight from its timer, never undoes a newer edit of the same
\* field: only a retry, or an entry flushCase held back, can arrive late.
THEOREM NoOvertakeAtFirstAttemptHolds == Spec => NoOvertakeAtFirstAttempt
  <1>1. TypeInvariant /\ EditsOK /\ CallsOK /\ [Next]_vars =>
          [\A n \in Edit :
             /\ ~edits[n].landed
             /\ edits'[n].landed
             /\ edits[n].attempts = 1
             /\ ~edits[n].popped
             => \A f \in FieldsOf(n) : Latest(edits[n].case)[f] < n]_vars
    BY NoOvertakeStep, FirstAttemptIsNewest
  <1> QED BY <1>1, TypeCorrect, EditsAndCalls, PTL DEF Spec, NoOvertakeAtFirstAttempt

----------------------------------------------------------------------------
(* Notices *)

LEMMA StatusOf ==
    ASSUME NEW a, NEW es, NEW fails
    PROVE  /\ fails # {} => SetStatus(a, es, fails) \in {"failed", "conflict"}
                         /\ Settle(a, es, fails) \in {"failed", "conflict"}
           /\ a # "saved" => SetStatus(a, es, fails) # "saved"
           /\ Settle(a, es, fails) = "saved" => fails = {} /\ ~HasWork(es)
           /\ Settle("conflict", es, fails) = "conflict"
  BY DEF SetStatus, Settle

\* Which edits share a field, and which were cleared, does not depend on the step.
LEMMA KeptRelations ==
    ASSUME Keeps
    PROVE  /\ \A m, n \in Edit : Overlaps(m, n)' <=> Overlaps(m, n)
           /\ \A n \in Edit : Cleared(n) => Cleared(n)'
           /\ GivenUp \subseteq Edit /\ GivenUp \subseteq GivenUp'
  <1>1. \A m, n \in Edit : Overlaps(m, n)' <=> Overlaps(m, n)
    BY DEF Keeps, Overlaps, FieldsOf
  <1>2. ASSUME NEW n \in Edit, Cleared(n) PROVE Cleared(n)'
    <2>1. PICK m \in Edit \ {n} : Overlaps(m, n) /\ edits[m].landed
      BY <1>2 DEF Cleared
    <2>2. m \in Edit' \ {n} /\ Overlaps(m, n)' /\ edits'[m].landed
      BY <1>1, <2>1 DEF Keeps
    <2> QED BY <2>2 DEF Cleared
  <1>3. GivenUp \subseteq Edit /\ GivenUp \subseteq GivenUp'
    BY StageSets DEF GivenUp, Keeps
  <1> QED BY <1>1, <1>2, <1>3

\* A group that is linked after the step is linked before it.
LEMMA LinkedBefore ==
    ASSUME Keeps, NEW S, S \subseteq GivenUp', Linked(S)'
    PROVE  Linked(S \cap GivenUp)
  <1> SUFFICES ASSUME NEW m \in S \cap GivenUp, NEW n \in GivenUp, Overlaps(m, n)
               PROVE  n \in S \cap GivenUp
    BY DEF Linked
  <1>1. m \in Edit /\ n \in Edit /\ n \in GivenUp'
    BY KeptRelations
  <1>2. Overlaps(m, n)'
    BY <1>1, KeptRelations
  <1> QED BY <1>1, <1>2 DEF Linked

\* Steps that give up on no write and take no notice away.
LEMMA NoticesStay ==
    ASSUME Keeps, NoticesOK, failures' = failures, GivenUp' = GivenUp,
           failures # {} => status' \in {"failed", "conflict"}
    PROVE  NoticesOK'
  <1>1. ASSUME NEW S \in SUBSET GivenUp', S # {}, Linked(S)'
        PROVE  \E m \in S : m \in failures' \/ Cleared(m)'
    <2>1. S \in SUBSET GivenUp /\ S # {} /\ Linked(S)
      <3>1. S \cap GivenUp = S
        OBVIOUS
      <3> QED BY <1>1, <3>1, LinkedBefore
    <2>2. PICK m \in S : m \in failures \/ Cleared(m)
      BY <2>1 DEF NoticesOK, GivenUpIsNoticed
    <2> QED BY <2>1, <2>2, KeptRelations
  <1> QED BY <1>1 DEF NoticesOK, GivenUpIsNoticed

LEMMA EndNotices ==
    ASSUME Keeps, NoticesOK, NEW n \in Edit, Advances(n), Says(n) PROVE NoticesOK'
  <1>1. edits[n].stage \notin Ended /\ n \notin GivenUp /\ Edit' = Edit
    BY StageSets DEF Advances, GivenUp
  <1>2. \A m \in Edit : m # n => edits'[m] = edits[m]
    BY DEF Advances
  <1>3. edits'[n].stage # "gaveup" => GivenUp' = GivenUp
    BY <1>1, <1>2 DEF GivenUp
  <1>4. CASE edits'[n].stage \in InFlight /\ UNCHANGED <<failures, status, waiting>>
    <2>1. edits'[n].stage # "gaveup"
      BY <1>4, StageSets
    <2> QED BY <1>3, <1>4, <2>1, NoticesStay DEF NoticesOK, GivenUpIsNoticed
  <1>5. CASE /\ edits'[n].stage = "sleep" /\ status' = SetStatus("reconnecting", edits', failures)
             /\ failures' = failures
    BY <1>3, <1>5, StatusOf, NoticesStay
  <1>6. ASSUME NEW o \in {"conflict", "threw"}, Ends(n, o) PROVE NoticesOK'
    <2>1. failures' = failures /\ edits'[n].stage # "gaveup"
      BY <1>6 DEF Ends
    <2>2. failures # {} => status' \in {"failed", "conflict"}
      BY <1>6, <2>1, StatusOf DEF Ends
    <2> QED BY <1>3, <2>1, <2>2, NoticesStay
  <1>7. CASE Ends(n, "done")
    <2>1. /\ failures' = WithoutOverlap(n) /\ GivenUp' = GivenUp /\ edits'[n].landed
          /\ failures' # {} => status' \in {"failed", "conflict"}
      BY <1>3, <1>7, StatusOf DEF Ends, Advances
    <2>2. ASSUME NEW S \in SUBSET GivenUp', S # {}, Linked(S)'
          PROVE  \E m \in S : m \in failures' \/ Cleared(m)'
      <3>1. S \in SUBSET GivenUp /\ S # {} /\ Linked(S)
        <4>1. S \cap GivenUp = S
          BY <2>1
        <4> QED BY <2>1, <2>2, <4>1, LinkedBefore
      <3>2. PICK m \in S : m \in failures \/ Cleared(m)
        BY <3>1 DEF NoticesOK, GivenUpIsNoticed
      <3>3. m \in Edit /\ m # n
        BY <1>1, <3>1, KeptRelations
      <3>4. CASE m \in failures /\ Overlaps(m, n)
        <4>1. Overlaps(n, m)'
          BY <3>3, <3>4, KeptRelations DEF Overlaps
        <4>2. Cleared(m)'
          BY <1>1, <2>1, <3>3, <4>1 DEF Cleared
        <4> QED BY <4>2
      <3>5. CASE m \in failures /\ ~Overlaps(m, n)
        BY <2>1, <3>5 DEF WithoutOverlap
      <3>6. CASE Cleared(m)
        BY <3>3, <3>6, KeptRelations
      <3> QED BY <3>2, <3>4, <3>5, <3>6
    <2>3. failures' \subseteq GivenUp'
      BY <2>1 DEF NoticesOK, WithoutOverlap
    <2> QED BY <2>1, <2>2, <2>3 DEF NoticesOK, GivenUpIsNoticed
  <1>8. CASE Ends(n, "gaveup")
    <2>1. /\ failures' = WithoutOverlap(n) \cup {n} /\ edits'[n].stage = "gaveup"
          /\ status' \in {"failed", "conflict"}
      <3>1. failures' = WithoutOverlap(n) \cup {n} /\ edits'[n].stage = "gaveup"
        BY <1>8 DEF Ends
      <3>2. failures' # {}
        BY <3>1
      <3> QED BY <1>8, <3>1, <3>2, StatusOf DEF Ends
    <2>2. GivenUp' = GivenUp \cup {n}
      BY <1>1, <1>2, <2>1 DEF GivenUp
    <2>3. ASSUME NEW S \in SUBSET GivenUp', S # {}, Linked(S)', n \notin S
          PROVE  \E m \in S : m \in failures' \/ Cleared(m)'
      <3>1. S \in SUBSET GivenUp /\ S # {} /\ Linked(S)
        <4>1. S \cap GivenUp = S
          BY <2>2, <2>3
        <4> QED BY <2>3, <4>1, LinkedBefore
      <3>2. PICK m \in S : m \in failures \/ Cleared(m)
        BY <3>1 DEF NoticesOK, GivenUpIsNoticed
      <3>3. m \in Edit
        BY <3>1, KeptRelations
      <3>4. ~Overlaps(m, n)
        <4>1. ~Overlaps(m, n)'
          BY <2>2, <2>3, <3>2 DEF Linked
        <4> QED BY <3>3, <4>1, KeptRelations
      <3>5. m \in failures => m \in failures'
        BY <2>1, <3>4 DEF WithoutOverlap
      <3> QED BY <3>2, <3>3, <3>5, KeptRelations
    <2>4. failures' \subseteq GivenUp'
      BY <2>1, <2>2 DEF NoticesOK, WithoutOverlap
    <2>5. n \in failures'
      BY <2>1
    <2> QED BY <2>1, <2>3, <2>4, <2>5 DEF NoticesOK, GivenUpIsNoticed
  <1> QED BY <1>4, <1>5, <1>6, <1>7, <1>8 DEF Says

\* Which edits have been given up on, where no write ends.
LEMMA NobodyGivesUp ==
    ASSUME TypeInvariant, Edit \subseteq Edit',
           \A n \in Edit : (edits'[n].stage = "gaveup") <=> (edits[n].stage = "gaveup"),
           \A n \in Edit' \ Edit : edits'[n].stage # "gaveup"
    PROVE  GivenUp' = GivenUp
  BY DEF GivenUp

LEMMA StepNotices ==
    ASSUME TypeInvariant, TypeInvariant', EditsOK, CallsOK, NoticesOK, [Next]_vars
    PROVE  NoticesOK'
  <1>1. Keeps
    BY StepEdits
  <1>2. ASSUME NEW n \in Edit, StepOf(n) PROVE NoticesOK'
    BY <1>1, <1>2, EndNotices DEF StepOf
  <1>3. ASSUME NEW c \in Case, NEW k \in Key, Enqueue(c, k) PROVE NoticesOK'
    <2>1. failures' = failures /\ (failures # {} => status' \in {"failed", "conflict"})
      BY <1>3, StatusOf DEF Enqueue
    <2>2. GivenUp' = GivenUp
      <3>1. /\ Edit = 1..Len(edits) /\ Edit' = 1..Len(edits) + 1 /\ Len(edits) \in Nat
            /\ edits'[Len(edits) + 1] = NewEdit(c, k)
        BY <1>3, EnqueueShape
      <3>2. edits'[Len(edits) + 1].stage = "pending"
        BY <3>1 DEF NewEdit
      <3>3. \A n \in Edit' \ Edit : n = Len(edits) + 1
        BY <3>1
      <3> QED BY <1>1, <1>3, <3>2, <3>3, EnqueueEdit, NobodyGivesUp DEF Keeps
    <2> QED BY <1>1, <2>1, <2>2, NoticesStay
  <1>4. ASSUME NEW c \in Case, FlushCase(c) PROVE NoticesOK'
    <2>1. UNCHANGED <<failures, status>>
      BY <1>4 DEF FlushCase
    <2>2. GivenUp' = GivenUp
      BY <1>1, <1>4, FlushCaseTakes, NobodyGivesUp DEF PendingOf
    <2> QED BY <1>1, <2>1, <2>2, NoticesStay DEF NoticesOK, GivenUpIsNoticed
  <1>5. ASSUME NEW c \in Case, Resumes(c) PROVE NoticesOK'
    <2>1. UNCHANGED <<rows, failures, status>>
      BY <1>5 DEF Resumes
    <2>2. ASSUME NEW n \in fc[c].todo, SendsNext(c, n) PROVE GivenUp' = GivenUp
      <3>1. Advances(n) /\ edits'[n].stage = "patch" /\ edits[n].stage = "popped" /\ n \in Edit
        BY <2>1, <2>2, FlushCaseSends, FcTypes
      <3> QED BY <3>1, NobodyGivesUp DEF Advances
    <2>3. ASSUME NEW r, FlushCaseReturn(c, r) PROVE GivenUp' = GivenUp
      <3>1. \A n \in fc[c].todo : edits[n].stage = "popped"
        BY DEF CallsOK, CallOK
      <3> QED BY <1>1, <2>1, <2>3, <3>1, FlushCaseDrops, NobodyGivesUp
    <2>4. GivenUp' = GivenUp
      BY <1>5, <2>2, <2>3 DEF Resumes
    <2> QED BY <1>1, <2>1, <2>4, NoticesStay DEF NoticesOK, GivenUpIsNoticed
  <1>6. CASE Elsewhere
    <2>1. UNCHANGED <<edits, failures, status>>
      BY <1>6 DEF Elsewhere
    <2>2. GivenUp' = GivenUp
      BY <2>1 DEF GivenUp, Edit
    <2> QED BY <1>1, <2>1, <2>2, NoticesStay DEF NoticesOK, GivenUpIsNoticed
  <1> QED BY <1>2, <1>3, <1>4, <1>5, <1>6, StepKinds

LEMMA InitNotices == Init => NoticesOK
  <1> SUFFICES ASSUME Init PROVE NoticesOK
    OBVIOUS
  <1>1. GivenUp = {} /\ failures = {}
    BY DEF Init, GivenUp, Edit
  <1>2. \A S \in SUBSET GivenUp : S = {}
    BY <1>1
  <1>3. GivenUpIsNoticed
    BY <1>1, <1>2 DEF GivenUpIsNoticed
  <1> QED BY <1>1, <1>3 DEF NoticesOK

THEOREM Notices == Spec => []NoticesOK
  <1>1. /\ TypeInvariant /\ TypeInvariant' /\ EditsOK /\ CallsOK /\ NoticesOK /\ [Next]_vars
        => NoticesOK'
    BY StepNotices
  <1> QED BY <1>1, InitNotices, TypeCorrect, EditsAndCalls, PTL DEF Spec

\* Of every group of linked edits that were given up on one has a notice, and the
\* status shows it, until a write sharing a field with one of them has landed.
THEOREM GivenUpIsNoticedHolds == Spec => []GivenUpIsNoticed
  <1>1. NoticesOK => GivenUpIsNoticed
    BY DEF NoticesOK
  <1> QED BY <1>1, Notices, PTL

----------------------------------------------------------------------------
(* The status *)

LEMMA StepSaved ==
    ASSUME TypeInvariant, TypeInvariant', EditsOK, CallsOK, SavedIsHonest, [Next]_vars
    PROVE  SavedIsHonest'
  <1> SUFFICES ASSUME status' = "saved"
               PROVE  /\ failures' = {}
                      /\ \A n \in Edit' : edits'[n].stage \in InFlight \cup {"pending"} => edits'[n].popped
    BY DEF SavedIsHonest
  <1>1. ASSUME NEW n \in Edit, StepOf(n) PROVE SavedIsHonest'
    <2>1. Advances(n) /\ Says(n) /\ edits[n].stage # "popped"
      BY <1>1 DEF StepOf
    <2>2. CASE edits'[n].stage \in InFlight /\ UNCHANGED <<failures, status, waiting>>
      <3>1. failures = {} /\ \A m \in Edit : edits[m].stage \in InFlight \cup {"pending"} => edits[m].popped
        BY <2>2 DEF SavedIsHonest
      <3>2. edits[n].popped
        BY <2>1, <3>1 DEF Advances
      <3> QED BY <2>1, <2>2, <3>1, <3>2 DEF Advances, SavedIsHonest
    <2>3. CASE status' = SetStatus("reconnecting", edits', failures)
      BY <2>3, StatusOf
    <2>4. ASSUME NEW o, Ends(n, o) PROVE SavedIsHonest'
      <3>1. failures' = {} /\ ~HasWork(edits')
        BY <2>4, StatusOf DEF Ends
      <3> QED BY <3>1 DEF SavedIsHonest, HasWork, Edit
    <2> QED BY <2>1, <2>2, <2>3, <2>4 DEF Says
  <1>2. ASSUME NEW c \in Case, NEW k \in Key, Enqueue(c, k) PROVE FALSE
    BY <1>2, StatusOf DEF Enqueue
  <1>3. ASSUME NEW c \in Case, FlushCase(c) PROVE SavedIsHonest'
    <2>1. UNCHANGED <<failures, status>>
      BY <1>3 DEF FlushCase
    <2>2. /\ Edit' = Edit
          /\ \A m \in Edit : edits'[m] = edits[m] \/ edits'[m].stage = "popped"
      BY <1>3, FlushCaseTakes
    <2> QED BY <2>1, <2>2, StageSets DEF SavedIsHonest
  <1>4. ASSUME NEW c \in Case, Resumes(c) PROVE SavedIsHonest'
    <2>1. UNCHANGED <<rows, failures, status>>
      BY <1>4 DEF Resumes
    <2>2. ASSUME NEW n \in fc[c].todo, SendsNext(c, n) PROVE SavedIsHonest'
      <3>1. Advances(n) /\ edits[n].stage = "popped" /\ n \in Edit
        BY <2>1, <2>2, FlushCaseSends, FcTypes
      <3>2. edits'[n].popped
        BY <3>1 DEF EditsOK, LifeOK, Advances
      <3> QED BY <2>1, <3>1, <3>2 DEF SavedIsHonest, Advances
    <2>3. ASSUME NEW r, FlushCaseReturn(c, r) PROVE SavedIsHonest'
      <3>1. /\ Edit' = Edit
            /\ \A m \in Edit : edits'[m] = edits[m] \/ edits'[m].stage = "dropped"
        BY <2>1, <2>3, FlushCaseDrops
      <3> QED BY <2>1, <3>1, StageSets DEF SavedIsHonest
    <2> QED BY <1>4, <2>2, <2>3 DEF Resumes
  <1>5. CASE Elsewhere
    BY <1>5 DEF Elsewhere, SavedIsHonest, Edit
  <1> QED BY <1>1, <1>2, <1>3, <1>4, <1>5, StepKinds DEF SavedIsHonest

\* 'saved' is never shown over a standing failure, a pending debounce or a write in
\* flight, except one that flushCase took over.
THEOREM SavedIsHonestHolds == Spec => []SavedIsHonest
  <1>1. Init => SavedIsHonest
    BY DEF Init, SavedIsHonest, Edit
  <1>2. /\ TypeInvariant /\ TypeInvariant' /\ EditsOK /\ CallsOK /\ SavedIsHonest /\ [Next]_vars
        => SavedIsHonest'
    BY StepSaved
  <1> QED BY <1>1, <1>2, TypeCorrect, EditsAndCalls, PTL DEF Spec

\* A conflict leaves the banner only when the person edits again or another write
\* loses its connection; a write that merely finishes does not clear it.
THEOREM ConflictStandsHolds == Spec => ConflictStands
  <1>1. ASSUME TypeInvariant, EditsOK, CallsOK, [Next]_vars, status = "conflict", status' # "conflict"
        PROVE  \/ Len(edits') > Len(edits)
               \/ \E n \in Edit : edits[n].stage = "network" /\ edits'[n].stage = "sleep"
    <2>1. ASSUME NEW n \in Edit, StepOf(n)
          PROVE  edits[n].stage = "network" /\ edits'[n].stage = "sleep"
      <3>1. Says(n)
        BY <2>1 DEF StepOf
      <3>2. ASSUME NEW o, Ends(n, o) PROVE FALSE
        BY <1>1, <3>2, StatusOf DEF Ends
      <3> QED BY <1>1, <3>1, <3>2 DEF Says
    <2>2. ASSUME NEW c \in Case, NEW k \in Key, Enqueue(c, k) PROVE Len(edits') > Len(edits)
      <3>1. Len(edits') = Len(edits) + 1 /\ Len(edits) \in Nat
        BY <1>1, <2>2, EnqueueShape
      <3> QED BY <3>1
    <2>3. ASSUME NEW c \in Case, FlushCase(c) \/ Resumes(c) PROVE FALSE
      BY <1>1, <2>3 DEF FlushCase, Resumes
    <2>4. CASE Elsewhere
      BY <1>1, <2>4 DEF Elsewhere
    <2> QED BY <1>1, <2>1, <2>2, <2>3, <2>4, StepKinds
  <1>2. TypeInvariant /\ EditsOK /\ CallsOK /\ [Next]_vars =>
          [status = "conflict" /\ status' # "conflict" =>
             \/ Len(edits') > Len(edits)
             \/ \E n \in Edit : edits[n].stage = "network" /\ edits'[n].stage = "sleep"]_vars
    BY <1>1
  <1> QED BY <1>2, TypeCorrect, EditsAndCalls, PTL DEF Spec, ConflictStands

----------------------------------------------------------------------------
(* whenIdle and flushCase *)

\* A waiter of whenIdle is released by a write that ends with nothing left in flight
\* or debounced; what is popped is held by a flushCase that is still running.
THEOREM IdleLeavesOnlyFlushCaseHolds == Spec => IdleLeavesOnlyFlushCase
  <1>1. ASSUME TypeInvariant, TypeInvariant', EditsOK, CallsOK, [Next]_vars, waiting, ~waiting',
               NEW n \in Edit
        PROVE  \/ edits'[n].stage \in Ended
               \/ edits'[n].stage = "popped" /\ fc'[edits[n].case].stage = "awaiting"
    <2>1. PICK m \in Edit : StepOf(m)
      <3>1. \A c \in Case : ~FlushCase(c) /\ ~Resumes(c) /\ \A k \in Key : ~Enqueue(c, k)
        BY <1>1 DEF FlushCase, Resumes, Enqueue
      <3>2. ~Elsewhere
        BY <1>1 DEF Elsewhere
      <3> QED BY <1>1, <3>1, <3>2, StepKinds
    <2>2. ~HasWork(edits')
      <3>1. Says(m)
        BY <2>1 DEF StepOf
      <3> QED BY <1>1, <3>1 DEF Says, Ends
    <2>3. n \in Edit' /\ edits'[n].case = edits[n].case /\ CallsOK'
      BY <1>1, StepEdits DEF Keeps
    <2>4. edits'[n] \in EditRecord
      BY <1>1, <2>3, ElementOfSeq DEF TypeInvariant, TypeOK, Edit
    <2>5. edits'[n].stage \in {"popped"} \cup Ended
      BY <2>2, <2>3, <2>4 DEF HasWork, Edit, EditRecord, Stage
    <2>6. edits'[n].case \in Case
      BY <2>4 DEF EditRecord
    <2>7. edits'[n].stage = "popped" => fc'[edits'[n].case].stage = "awaiting"
      BY <2>3, <2>6 DEF CallsOK, CallOK
    <2> QED BY <2>3, <2>5, <2>7
  <1>2. TypeInvariant /\ TypeInvariant' /\ EditsOK /\ CallsOK /\ [Next]_vars =>
          [waiting /\ ~waiting' =>
             \A n \in Edit : \/ edits'[n].stage \in Ended
                             \/ edits'[n].stage = "popped" /\ fc'[edits[n].case].stage = "awaiting"]_vars
    BY <1>1
  <1> QED BY <1>2, TypeCorrect, EditsAndCalls, PTL DEF Spec, IdleLeavesOnlyFlushCase

\* What flushCase = true says of one edit.
Settled(n) ==
    \/ AccountedFor(n)
    \/ edits[n].stage \in {"dropped", "threw"}
    \/ /\ n \in GivenUp
       /\ \A S \in SUBSET GivenUp : n \in S /\ Linked(S) => \E m \in S : Cleared(m)

LEMMA SettledStays ==
    ASSUME Keeps, NEW n \in Edit, Settled(n) PROVE Settled(n)'
  <1>1. CASE AccountedFor(n)
    BY <1>1, StageSets DEF AccountedFor, Keeps, Settled
  <1>2. CASE edits[n].stage \in {"dropped", "threw"}
    BY <1>2, StageSets DEF Keeps, Settled
  <1>3. CASE /\ n \in GivenUp
             /\ \A S \in SUBSET GivenUp : n \in S /\ Linked(S) => \E m \in S : Cleared(m)
    <2>1. n \in GivenUp'
      BY <1>3, KeptRelations
    <2>2. ASSUME NEW S \in SUBSET GivenUp', n \in S, Linked(S)' PROVE \E m \in S : Cleared(m)'
      <3>1. Linked(S \cap GivenUp) /\ n \in S \cap GivenUp
        BY <1>3, <2>2, LinkedBefore
      <3>2. PICK m \in S \cap GivenUp : Cleared(m)
        BY <1>3, <3>1
      <3> QED BY <3>2, KeptRelations
    <2> QED BY <2>1, <2>2 DEF Settled
  <1> QED BY <1>1, <1>2, <1>3 DEF Settled

\* An edit that has ended, with no notice of its Case standing, is settled.
LEMMA EndedIsSettled ==
    ASSUME TypeInvariant, EditsOK, NoticesOK, NEW n \in Edit, edits[n].stage \in Ended,
           ~HasFailure(edits[n].case)
    PROVE  Settled(n)
  <1> DEFINE c == edits[n].case
  <1>1. edits[n].stage \in {"done", "gaveup", "conflict", "threw", "dropped", "replaced"}
    BY StageSets
  <1>2. CASE edits[n].stage # "gaveup"
    <2>1. edits[n].stage = "done" => edits[n].landed
      BY DEF EditsOK, LifeOK
    <2> QED BY <1>1, <1>2, <2>1 DEF Settled, AccountedFor
  <1>3. CASE edits[n].stage = "gaveup"
    <2>1. n \in GivenUp
      BY <1>3 DEF GivenUp
    <2>2. ASSUME NEW S \in SUBSET GivenUp, n \in S, Linked(S) PROVE \E m \in S : Cleared(m)
      <3> DEFINE T == {m \in S : edits[m].case = c}
      <3>1. T \in SUBSET GivenUp /\ n \in T
        BY <2>2
      <3>2. Linked(T)
        BY <2>2 DEF Linked, Overlaps
      <3>3. PICK m \in T : m \in failures \/ Cleared(m)
        BY <3>1, <3>2 DEF NoticesOK, GivenUpIsNoticed
      <3>4. m \notin failures
        BY <3>3 DEF HasFailure
      <3> QED BY <3>3, <3>4
    <2> QED BY <2>1, <2>2 DEF Settled
  <1> QED BY <1>2, <1>3

LEMMA StepFlushTrue ==
    ASSUME TypeInvariant, TypeInvariant', EditsOK, CallsOK, NoticesOK, [Next]_vars,
           FlushTrueLeavesNothing
    PROVE  FlushTrueLeavesNothing'
  <1> SUFFICES ASSUME NEW c \in Case, fc'[c].stage = "true", NEW n \in 1..fc'[c].upto, edits'[n].case = c
               PROVE  Settled(n)'
    BY DEF FlushTrueLeavesNothing, Settled
  <1>1. Keeps
    BY StepEdits
  <1>2. CASE fc'[c] = fc[c]
    <2>1. fc[c].upto \in Nat /\ fc[c].upto <= Len(edits) /\ Len(edits) \in Nat /\ Edit = 1..Len(edits)
      BY EditDomain DEF CallsOK, CallOK
    <2>2. n \in Edit /\ edits[n].case = c
      BY <1>1, <1>2, <2>1 DEF Keeps
    <2>3. Settled(n)
      BY <1>2, <2>2 DEF FlushTrueLeavesNothing, Settled
    <2> QED BY <1>1, <2>2, <2>3, SettledStays
  <1>3. CASE fc'[c] # fc[c]
    <2>1. Resumes(c)
      <3>1. \A m \in Edit : ~StepOf(m)
        BY <1>3 DEF StepOf
      <3>2. ~Elsewhere /\ \A d \in Case, k \in Key : ~Enqueue(d, k)
        BY <1>3 DEF Elsewhere, Enqueue, page
      <3>3. ASSUME NEW d \in Case, FlushCase(d) PROVE FALSE
        <4>1. fc'[d].stage = "awaiting" /\ \A x \in Case : x # d => fc'[x] = fc[x]
          BY <3>3, FcTypes DEF FlushCase
        <4> QED BY <1>3, <4>1
      <3>4. ASSUME NEW d \in Case, Resumes(d), d # c PROVE FALSE
        BY <1>3, <3>4, FcTypes DEF Resumes, SendsNext, FlushCaseReturn
      <3> QED BY <3>1, <3>2, <3>3, <3>4, StepKinds
    <2>2. ASSUME NEW m \in fc[c].todo, SendsNext(c, m) PROVE FALSE
      BY <2>1, <2>2, FcTypes DEF SendsNext, Resumes, FlushCall
    <2>3. PICK r \in {"threw", "false", "true"} :
             /\ FlushCaseReturn(c, r)
             /\ r = "true" => /\ \A m \in fc[c].wait : edits[m].stage = "done"
                              /\ fc[c].todo = {} /\ ~HasFailure(c)
      BY <2>1, <2>2 DEF Resumes
    <2>4. r = "true" /\ fc'[c].upto = fc[c].upto
      BY <2>3, FcTypes DEF FlushCaseReturn, FlushCall
    <2>5. fc[c].upto \in Nat /\ fc[c].upto <= Len(edits) /\ Len(edits) \in Nat /\ Edit = 1..Len(edits)
      BY EditDomain DEF CallsOK, CallOK
    <2>6. n \in Edit /\ edits[n].case = c
      BY <1>1, <2>4, <2>5 DEF Keeps
    <2>7. n \in fc[c].wait \cup fc[c].todo \/ edits[n].stage \in Ended
      BY <2>1, <2>4, <2>6 DEF CallsOK, CallOK, Resumes
    <2>8. edits[n].stage \in Ended
      BY <2>3, <2>4, <2>7, StageSets
    <2>9. Settled(n)
      BY <2>3, <2>4, <2>6, <2>8, EndedIsSettled
    <2> QED BY <1>1, <2>6, <2>9, SettledStays
  <1> QED BY <1>2, <1>3

\* flushCase = true lets completeCase go on: every edit made before the call has
\* settled or had the notice of its group cleared, but for the ones an earlier
\* flushCase dropped and the ones whose re-read was rejected.
THEOREM FlushTrueLeavesNothingHolds == Spec => []FlushTrueLeavesNothing
  <1>1. Init => FlushTrueLeavesNothing
    BY DEF Init, FlushTrueLeavesNothing
  <1>2. /\ TypeInvariant /\ TypeInvariant' /\ EditsOK /\ CallsOK /\ NoticesOK /\ [Next]_vars
        /\ FlushTrueLeavesNothing
        => FlushTrueLeavesNothing'
    BY StepFlushTrue
  <1> QED BY <1>1, <1>2, TypeCorrect, EditsAndCalls, Notices, PTL DEF Spec
=============================================================================
