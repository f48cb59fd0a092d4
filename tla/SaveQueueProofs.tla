-------------------------- MODULE SaveQueueProofs --------------------------
(***************************************************************************)
(* Proofs about SaveQueue, for any number of Cases, fields, edits, writers *)
(* and faults: its type invariant, and that an Answers write replaces      *)
(* another writer's Answers only when this tab was given them.             *)
(***************************************************************************)
EXTENDS SaveQueueProperties, SequenceTheorems, TLAPS

USE FieldAssumption, FlagAssumption, BoundAssumption

Obj == [etag : Nat, base : Int]
Row == [Field -> Int]

\* Writing one element of a sequence.
LEMMA UpdateSeq ==
    ASSUME NEW S, NEW s \in Seq(S), NEW i \in DOMAIN s, NEW e \in S,
           NEW t, t = [s EXCEPT ![i] = e]
    PROVE  /\ t \in Seq(S)
           /\ DOMAIN t = DOMAIN s
           /\ Len(t) = Len(s)
           /\ t[i] = e
           /\ \A j \in DOMAIN s : j # i => t[j] = s[j]
  BY ExceptSeq, SMT

\* Rewriting every element of a sequence in place.
LEMMA MapSeq ==
    ASSUME NEW S, NEW s \in Seq(S), NEW t,
           t = [i \in DOMAIN s |-> t[i]], \A i \in DOMAIN s : t[i] \in S
    PROVE  t \in Seq(S) /\ DOMAIN t = DOMAIN s /\ Len(t) = Len(s)
  OBVIOUS

\* The last element of a sequence that has one.
LEMMA LastElement ==
    ASSUME NEW S, NEW s \in Seq(S), s # <<>>
    PROVE  Len(s) \in DOMAIN s /\ Len(s) \in Nat /\ Len(s) > 0 /\ s[Len(s)] \in S
  BY EmptySeq, LenProperties, SMT

LEMMA InitType == Init => TypeInvariant
  <1> SUFFICES ASSUME Init PROVE TypeInvariant OBVIOUS
  <1>1. edits \in Seq(EditRecord) /\ Edit = {}
    BY DEF Init, Edit
  <1>2. objs \in [Case -> Seq(Obj)]
    BY DEF Init
  <1>3. rows \in [Case -> Seq(Row)] /\ \A c \in Case : Len(rows[c]) = 1 /\ rows[c] # <<>>
    BY DEF Init, Row
  <1>4. fc \in [Case -> FlushCall]
    BY DEF Init, FlushCall
  <1>5. TypeOK
    BY <1>1, <1>2, <1>3, <1>4 DEF Init, TypeOK, Statuses, Obj, Row
  <1>6. RefsOK
    BY <1>1, <1>3 DEF Init, RefsOK, CaseRefsOK, EditRefsOK
  <1> QED BY <1>5, <1>6 DEF TypeInvariant

\* What the type invariant says of one edit.
LEMMA EditFacts ==
    ASSUME TypeInvariant, NEW n \in Edit
    PROVE  /\ edits[n] \in EditRecord
           /\ edits[n].case \in Case
           /\ edits[n].key \in Key
           /\ objs[edits[n].case] \in Seq(Obj)
           /\ objs[edits[n].case] # <<>>
           /\ rows[edits[n].case] \in Seq(Row)
           /\ rows[edits[n].case] # <<>>
           /\ EditRefsOK(n)
  <1>1. edits[n] \in EditRecord
    BY ElementOfSeq DEF TypeInvariant, TypeOK, Edit
  <1>2. edits[n].case \in Case /\ edits[n].key \in Key
    BY <1>1 DEF EditRecord
  <1> QED BY <1>1, <1>2 DEF TypeInvariant, TypeOK, RefsOK, CaseRefsOK, EditRefsOK, Obj, Row

LEMMA AttemptType ==
    ASSUME NEW e \in EditRecord, NEW os \in Seq(Obj), os # <<>>
    PROVE  /\ Attempt(e, os) \in EditRecord
           /\ Attempt(e, os).case = e.case
           /\ Attempt(e, os).key = e.key
           /\ Attempt(e, os).stage = "patch"
           /\ Attempt(e, os).obj = Len(os)
           /\ Attempt(e, os).etag = os[Len(os)].etag
           /\ Len(os) \in DOMAIN os
  <1>1. Len(os) \in DOMAIN os /\ Len(os) \in Nat /\ os[Len(os)] \in Obj
    BY LastElement
  <1>2. os[Len(os)].etag \in Nat
    BY <1>1 DEF Obj
  <1>3. "patch" \in Stage
    BY DEF Stage, InFlight, Transit
  <1>4. e.attempts + 1 \in Nat
    BY DEF EditRecord
  <1> QED BY <1>1, <1>2, <1>3, <1>4 DEF Attempt, EditRecord

\* The rows and the CaseState objects of every Case only grow.
Grows ==
    /\ rows' \in [Case -> Seq(Row)]
    /\ objs' \in [Case -> Seq(Obj)]
    /\ \A c \in Case : Len(rows[c]) <= Len(rows'[c]) /\ Len(objs[c]) <= Len(objs'[c])

\* A step that rewrites the record of one edit.
LEMMA OneEditChanges ==
    ASSUME TypeInvariant, Grows, NEW n \in Edit, NEW e \in EditRecord,
           edits' = [edits EXCEPT ![n] = e],
           e.case = edits[n].case,
           e.stage \in InFlight => e.obj \in DOMAIN objs'[e.case],
           e.stage = "patch" => e.etag \in 1..Len(rows'[e.case]),
           e.stage \in {"ok", "fresh"} => e.ver \in 1..Len(rows'[e.case])
    PROVE  /\ edits' \in Seq(EditRecord)
           /\ Edit' = Edit
           /\ \A m \in Edit : edits'[m].case = edits[m].case
           /\ \A m \in Edit' : EditRefsOK(m)'
  <1>1. /\ edits' \in Seq(EditRecord)
        /\ Edit' = Edit
        /\ edits'[n] = e
        /\ \A m \in Edit : m # n => edits'[m] = edits[m]
    BY UpdateSeq DEF TypeInvariant, TypeOK, Edit
  <1>2. ASSUME NEW m \in Edit PROVE EditRefsOK(m)'
    <2> DEFINE c == edits[m].case
    <2>1. /\ edits'[m].case = c /\ c \in Case
          /\ objs[c] \in Seq(Obj) /\ objs[c] # <<>> /\ rows[c] \in Seq(Row)
          /\ objs'[c] \in Seq(Obj) /\ rows'[c] \in Seq(Row)
          /\ Len(rows[c]) <= Len(rows'[c]) /\ Len(objs[c]) <= Len(objs'[c])
          /\ EditRefsOK(m)
      BY <1>1, EditFacts DEF Grows
    <2>2. Len(objs[c]) \in Nat \ {0} /\ Len(objs'[c]) \in Nat \ {0} /\ objs'[c] # <<>>
          /\ DOMAIN objs[c] = 1..Len(objs[c]) /\ DOMAIN objs'[c] = 1..Len(objs'[c])
          /\ Len(rows[c]) \in Nat /\ Len(rows'[c]) \in Nat
      BY SMTT(40), <2>1, LastElement, EmptySeq, LenProperties
    <2>3. CASE m = n
      <3>1. edits'[m] = e /\ e.case = c
        BY <2>3, <1>1
      <3> QED BY <3>1, <2>1, <2>2 DEF EditRefsOK
    <2>4. CASE m # n
      <3>1. edits'[m] = edits[m]
        BY <2>4, <1>1
      <3>2. DOMAIN objs[c] \subseteq DOMAIN objs'[c]
        BY <2>1, <2>2
      <3>3. 1..Len(rows[c]) \subseteq 1..Len(rows'[c])
        BY <2>1, <2>2
      <3> QED BY <3>1, <3>2, <3>3, <2>1, <2>2, Zenon DEF EditRefsOK
    <2> QED BY <2>3, <2>4
  <1> QED BY <1>1, <1>2

\* The new ETag of every CaseState object names a row.
EtagsOK == \A c \in Case : \A i \in DOMAIN objs'[c] : objs'[c][i].etag \in 1..Len(rows'[c])

\* A step of one write: what the queue, the server or the network does to it.
LEMMA OneEditStep ==
    ASSUME TypeInvariant, Grows, EtagsOK, NEW n \in Edit, NEW e \in EditRecord,
           edits' = [edits EXCEPT ![n] = e],
           e.case = edits[n].case,
           e.stage \in InFlight => e.obj \in DOMAIN objs'[e.case],
           e.stage = "patch" => e.etag \in 1..Len(rows'[e.case]),
           e.stage \in {"ok", "fresh"} => e.ver \in 1..Len(rows'[e.case]),
           UNCHANGED page, adopted' \in [Case -> SUBSET Int], failures' \subseteq Edit,
           status' \in Statuses, waiting' \in BOOLEAN, others' \in Nat, faults' \in Nat
    PROVE  TypeInvariant'
  <1>1. /\ edits' \in Seq(EditRecord)
        /\ Edit' = Edit
        /\ \A m \in Edit : edits'[m].case = edits[m].case
        /\ \A m \in Edit' : EditRefsOK(m)'
    BY OneEditChanges
  <1>2. TypeOK'
    BY <1>1 DEF TypeInvariant, TypeOK, Grows, page, Obj, Row
  <1>3. ASSUME NEW c \in Case PROVE CaseRefsOK(c)'
    <2>1. /\ rows[c] \in Seq(Row) /\ rows'[c] \in Seq(Row) /\ rows[c] # <<>>
          /\ Len(rows[c]) <= Len(rows'[c]) /\ reading[c] \in Nat
          /\ CaseRefsOK(c)
      BY DEF TypeInvariant, TypeOK, RefsOK, CaseRefsOK, Grows, Row
    <2>2. rows'[c] # <<>> /\ Len(rows'[c]) \in Nat /\ Len(rows[c]) \in Nat
      BY <2>1, LastElement, EmptySeq, LenProperties
    <2>3. reading'[c] = reading[c] /\ reading'[c] <= Len(rows'[c])
      BY <2>1, <2>2 DEF page, CaseRefsOK
    <2>4. fc'[c].wait \subseteq Edit' /\ fc'[c].todo \subseteq {m \in Edit' : edits'[m].case = c}
      BY <1>1, <2>1 DEF page, CaseRefsOK
    <2> QED BY <2>2, <2>3, <2>4 DEF CaseRefsOK, EtagsOK
  <1> QED BY <1>1, <1>2, <1>3 DEF TypeInvariant, RefsOK

\* Nothing happens to the rows and the objects.
LEMMA NoGrowth ==
    ASSUME TypeInvariant, rows' = rows, objs' = objs
    PROVE  Grows /\ EtagsOK
  <1>1. \A c \in Case : Len(rows[c]) \in Nat /\ Len(objs[c]) \in Nat
    BY DEF TypeInvariant, TypeOK
  <1> QED BY <1>1 DEF TypeInvariant, TypeOK, RefsOK, CaseRefsOK, Grows, EtagsOK, Obj, Row

LEMMA StatusType ==
    ASSUME NEW a \in Statuses, NEW es, NEW fails
    PROVE  SetStatus(a, es, fails) \in Statuses /\ Settle(a, es, fails) \in Statuses
  BY DEF SetStatus, Settle, Statuses

\* A step of one write that leaves the queue's objects and the server alone.
LEMMA StageStep ==
    ASSUME TypeInvariant, NEW n \in Edit, NEW e \in EditRecord,
           edits' = [edits EXCEPT ![n] = e], e.case = edits[n].case,
           e.stage \in InFlight => e.obj \in DOMAIN objs[e.case],
           e.stage = "patch" => e.etag \in 1..Len(rows[e.case]),
           e.stage \in {"ok", "fresh"} => e.ver \in 1..Len(rows[e.case]),
           UNCHANGED <<rows, objs, page, adopted>>, failures' \subseteq Edit,
           status' \in Statuses, waiting' \in BOOLEAN, others' \in Nat, faults' \in Nat
    PROVE  TypeInvariant'
  <1>1. Grows /\ EtagsOK
    BY NoGrowth
  <1>2. adopted' \in [Case -> SUBSET Int]
    BY DEF TypeInvariant, TypeOK
  <1> QED BY <1>1, <1>2, OneEditStep, Zenon

\* The record of a write that _flushAttempt sends off.
LEMMA AttemptFacts ==
    ASSUME TypeInvariant, NEW n \in Edit
    PROVE  LET e == Attempt(edits[n], objs[edits[n].case]) IN
           /\ e \in EditRecord
           /\ e.case = edits[n].case
           /\ e.stage = "patch"
           /\ e.obj \in DOMAIN objs[e.case]
           /\ e.etag \in 1..Len(rows[e.case])
  <1> DEFINE os == objs[edits[n].case]
  <1>1. edits[n] \in EditRecord /\ edits[n].case \in Case /\ os \in Seq(Obj) /\ os # <<>>
    BY EditFacts
  <1>2. \A i \in DOMAIN os : os[i].etag \in 1..Len(rows[edits[n].case])
    BY <1>1 DEF TypeInvariant, RefsOK, CaseRefsOK
  <1> HIDE DEF os
  <1>3. /\ Attempt(edits[n], os) \in EditRecord
        /\ Attempt(edits[n], os).case = edits[n].case
        /\ Attempt(edits[n], os).stage = "patch"
        /\ Attempt(edits[n], os).obj = Len(os)
        /\ Attempt(edits[n], os).etag = os[Len(os)].etag
        /\ Len(os) \in DOMAIN os
    BY <1>1, AttemptType
  <1> QED BY <1>2, <1>3 DEF os

LEMMA AttemptStep ==
    ASSUME TypeInvariant, NEW n \in Edit,
           edits' = [edits EXCEPT ![n] = Attempt(@, objs[@.case])],
           UNCHANGED <<rows, objs, page, adopted, failures, status, waiting, others, faults>>
    PROVE  TypeInvariant'
  <1> DEFINE e == Attempt(edits[n], objs[edits[n].case])
  <1>1. edits' = [edits EXCEPT ![n] = e]
    OBVIOUS
  <1>2. /\ e \in EditRecord /\ e.case = edits[n].case /\ e.stage = "patch"
        /\ e.obj \in DOMAIN objs[e.case] /\ e.etag \in 1..Len(rows[e.case])
    BY AttemptFacts
  <1>3. /\ failures' \subseteq Edit /\ status' \in Statuses /\ waiting' \in BOOLEAN
        /\ others' \in Nat /\ faults' \in Nat
    BY DEF TypeInvariant, TypeOK
  <1> HIDE DEF e
  <1> QED BY <1>1, <1>2, <1>3, StageStep

LEMMA TimerFiresType ==
    ASSUME TypeInvariant, NEW n \in Edit, TimerFires(n) PROVE TypeInvariant'
  BY AttemptStep DEF TimerFires, server

LEMMA WakeType ==
    ASSUME TypeInvariant, NEW n \in Edit, Wake(n) PROVE TypeInvariant'
  BY AttemptStep DEF Wake, server

LEMMA StageNames ==
    /\ {"ok", "stale", "network", "unknown", "refused", "fresh", "vanished", "rejected",
     "patch", "confirm", "reread", "sleep", "popped", "pending"} \subseteq Stage
    /\ Ended \subseteq Stage
  BY DEF Stage, InFlight, Transit, Arriving

LEMMA PatchStaleType ==
    ASSUME TypeInvariant, NEW n \in Edit, PatchStale(n) PROVE TypeInvariant'
  <1> DEFINE e == [edits[n] EXCEPT !.stage = "stale"]
  <1>1. edits[n] \in EditRecord /\ EditRefsOK(n) /\ "stale" \in Stage
    BY EditFacts, StageNames
  <1>2. e \in EditRecord /\ e.case = edits[n].case /\ e.stage = "stale" /\ e.obj = edits[n].obj
    BY <1>1 DEF EditRecord
  <1>3. edits' = [edits EXCEPT ![n] = e] /\ edits[n].stage \in InFlight
    BY DEF PatchStale, InFlight, Transit, Arriving
  <1>4. /\ UNCHANGED <<rows, objs, page, adopted>> /\ failures' \subseteq Edit
        /\ status' \in Statuses /\ waiting' \in BOOLEAN /\ others' \in Nat /\ faults' \in Nat
    BY DEF PatchStale, server, TypeInvariant, TypeOK
  <1> HIDE DEF e
  <1> QED BY <1>1, <1>2, <1>3, <1>4, StageStep DEF EditRefsOK

LEMMA PatchFailsType ==
    ASSUME TypeInvariant, NEW n \in Edit, NEW r \in {"network", "unknown", "refused"}, PatchFails(n, r) PROVE TypeInvariant'
  <1> DEFINE e == [edits[n] EXCEPT !.stage = r]
  <1>1. edits[n] \in EditRecord /\ EditRefsOK(n) /\ r \in Stage
    BY EditFacts, StageNames
  <1>2. e \in EditRecord /\ e.case = edits[n].case /\ e.stage = r /\ e.obj = edits[n].obj /\ r \notin {"patch", "ok", "fresh"}
    BY <1>1 DEF EditRecord
  <1>3. edits' = [edits EXCEPT ![n] = e] /\ edits[n].stage \in InFlight
    BY DEF PatchFails, InFlight, Transit, Arriving
  <1>4. /\ UNCHANGED <<rows, objs, page, adopted>> /\ failures' \subseteq Edit
        /\ status' \in Statuses /\ waiting' \in BOOLEAN /\ others' \in Nat /\ faults' \in Nat
    BY DEF PatchFails, server, TypeInvariant, TypeOK
  <1> HIDE DEF e
  <1> QED BY <1>1, <1>2, <1>3, <1>4, StageStep DEF EditRefsOK

LEMMA ConfirmFailsType ==
    ASSUME TypeInvariant, NEW n \in Edit, ConfirmFails(n) PROVE TypeInvariant'
  <1> DEFINE e == [edits[n] EXCEPT !.stage = "network"]
  <1>1. edits[n] \in EditRecord /\ EditRefsOK(n) /\ "network" \in Stage
    BY EditFacts, StageNames
  <1>2. e \in EditRecord /\ e.case = edits[n].case /\ e.stage = "network" /\ e.obj = edits[n].obj
    BY <1>1 DEF EditRecord
  <1>3. edits' = [edits EXCEPT ![n] = e] /\ edits[n].stage \in InFlight
    BY DEF ConfirmFails, InFlight, Transit, Arriving
  <1>4. /\ UNCHANGED <<rows, objs, page, adopted>> /\ failures' \subseteq Edit
        /\ status' \in Statuses /\ waiting' \in BOOLEAN /\ others' \in Nat /\ faults' \in Nat
    BY DEF ConfirmFails, server, TypeInvariant, TypeOK
  <1> HIDE DEF e
  <1> QED BY <1>1, <1>2, <1>3, <1>4, StageStep DEF EditRefsOK

LEMMA RereadFailsType ==
    ASSUME TypeInvariant, NEW n \in Edit, RereadFails(n) PROVE TypeInvariant'
  <1> DEFINE e == [edits[n] EXCEPT !.stage = "rejected"]
  <1>1. edits[n] \in EditRecord /\ EditRefsOK(n) /\ "rejected" \in Stage
    BY EditFacts, StageNames
  <1>2. e \in EditRecord /\ e.case = edits[n].case /\ e.stage = "rejected" /\ e.obj = edits[n].obj
    BY <1>1 DEF EditRecord
  <1>3. edits' = [edits EXCEPT ![n] = e] /\ edits[n].stage \in InFlight
    BY DEF RereadFails, InFlight, Transit, Arriving
  <1>4. /\ UNCHANGED <<rows, objs, page, adopted>> /\ failures' \subseteq Edit
        /\ status' \in Statuses /\ waiting' \in BOOLEAN /\ others' \in Nat /\ faults' \in Nat
    BY DEF RereadFails, server, TypeInvariant, TypeOK
  <1> HIDE DEF e
  <1> QED BY <1>1, <1>2, <1>3, <1>4, StageStep DEF EditRefsOK

LEMMA ReplyUnknownType ==
    ASSUME TypeInvariant, NEW n \in Edit, ReplyUnknown(n) PROVE TypeInvariant'
  <1> DEFINE e == [edits[n] EXCEPT !.stage = "sleep", !.unknowns = @ + 1]
  <1>1. edits[n] \in EditRecord /\ EditRefsOK(n) /\ "sleep" \in Stage
    BY EditFacts, StageNames
  <1>a. edits[n].unknowns + 1 \in Nat
    BY <1>1 DEF EditRecord
  <1>2. e \in EditRecord /\ e.case = edits[n].case /\ e.stage = "sleep" /\ e.obj = edits[n].obj
    BY <1>1, <1>a DEF EditRecord
  <1>3. edits' = [edits EXCEPT ![n] = e] /\ edits[n].stage \in InFlight
    BY DEF ReplyUnknown, InFlight, Transit, Arriving
  <1>4. /\ UNCHANGED <<rows, objs, page, adopted>> /\ failures' \subseteq Edit
        /\ status' \in Statuses /\ waiting' \in BOOLEAN /\ others' \in Nat /\ faults' \in Nat
    BY DEF ReplyUnknown, server, TypeInvariant, TypeOK
  <1> HIDE DEF e
  <1> QED BY <1>1, <1>2, <1>3, <1>4, StageStep DEF EditRefsOK

LEMMA ReplyConnectionType ==
    ASSUME TypeInvariant, NEW n \in Edit, ReplyConnection(n) PROVE TypeInvariant'
  <1> DEFINE e == [edits[n] EXCEPT !.stage = "sleep", !.outage = TRUE]
  <1>1. edits[n] \in EditRecord /\ EditRefsOK(n) /\ "sleep" \in Stage
    BY EditFacts, StageNames
  <1>2. e \in EditRecord /\ e.case = edits[n].case /\ e.stage = "sleep" /\ e.obj = edits[n].obj
    BY <1>1 DEF EditRecord
  <1>3. edits' = [edits EXCEPT ![n] = e] /\ edits[n].stage \in InFlight
    BY DEF ReplyConnection, InFlight, Transit, Arriving
  <1>4. /\ UNCHANGED <<rows, objs, page, adopted>> /\ failures' \subseteq Edit
        /\ status' \in Statuses /\ waiting' \in BOOLEAN /\ others' \in Nat /\ faults' \in Nat
    BY StatusType DEF ReplyConnection, server, TypeInvariant, TypeOK, Statuses
  <1> HIDE DEF e
  <1> QED BY <1>1, <1>2, <1>3, <1>4, StageStep DEF EditRefsOK

LEMMA ReplyStaleType ==
    ASSUME TypeInvariant, NEW n \in Edit, ReplyStale(n) PROVE TypeInvariant'
  <1> DEFINE e == [edits[n] EXCEPT !.stage = "reread", !.obj = Len(objs[edits[n].case])]
  <1>1. edits[n] \in EditRecord /\ EditRefsOK(n) /\ "reread" \in Stage
    BY EditFacts, StageNames
  <1>a. Len(objs[edits[n].case]) \in DOMAIN objs[edits[n].case] /\ Len(objs[edits[n].case]) \in Nat
    BY EditFacts, LastElement
  <1>2. /\ e \in EditRecord /\ e.case = edits[n].case /\ e.stage = "reread"
        /\ e.obj = Len(objs[edits[n].case])
    BY <1>1, <1>a DEF EditRecord
  <1>3. edits' = [edits EXCEPT ![n] = e]
    BY DEF ReplyStale
  <1>4. /\ UNCHANGED <<rows, objs, page, adopted>> /\ failures' \subseteq Edit
        /\ status' \in Statuses /\ waiting' \in BOOLEAN /\ others' \in Nat /\ faults' \in Nat
    BY DEF ReplyStale, server, TypeInvariant, TypeOK
  <1> HIDE DEF e
  <1> QED BY <1>1, <1>a, <1>2, <1>3, <1>4, StageStep

LEMMA ConfirmReadType ==
    ASSUME TypeInvariant, NEW n \in Edit, ConfirmRead(n) PROVE TypeInvariant'
  <1> DEFINE c == edits[n].case
             e == [edits[n] EXCEPT !.stage = "ok", !.ver = Len(rows[c])]
             d == [edits[n] EXCEPT !.stage = "refused"]
  <1>1. edits[n] \in EditRecord /\ EditRefsOK(n) /\ {"ok", "refused"} \subseteq Stage
    BY EditFacts, StageNames
  <1>2. Len(rows[c]) \in Nat /\ Len(rows[c]) \in 1..Len(rows[c])
    BY EditFacts, LastElement
  <1>3. edits[n].stage \in InFlight
    BY DEF ConfirmRead, InFlight, Transit
  <1>4. /\ UNCHANGED <<rows, objs, page, adopted>> /\ failures' \subseteq Edit
        /\ status' \in Statuses /\ waiting' \in BOOLEAN /\ others' \in Nat /\ faults' \in Nat
    BY DEF ConfirmRead, server, TypeInvariant, TypeOK
  <1>5. CASE edits' = [edits EXCEPT ![n] = e]
    <2>1. /\ e \in EditRecord /\ e.case = c /\ e.stage = "ok"
          /\ e.obj = edits[n].obj /\ e.ver = Len(rows[c])
      BY <1>1, <1>2 DEF EditRecord
    <2> HIDE DEF e
    <2> QED BY <1>1, <1>2, <1>3, <1>4, <1>5, <2>1, StageStep DEF EditRefsOK
  <1>6. CASE edits' = [edits EXCEPT ![n] = d]
    <2>1. d \in EditRecord /\ d.case = c /\ d.stage = "refused" /\ d.obj = edits[n].obj
      BY <1>1 DEF EditRecord
    <2> HIDE DEF d
    <2> QED BY <1>1, <1>3, <1>4, <1>6, <2>1, StageStep DEF EditRefsOK
  <1> QED BY <1>5, <1>6 DEF ConfirmRead

LEMMA RereadAnsweredType ==
    ASSUME TypeInvariant, NEW n \in Edit, RereadAnswered(n) PROVE TypeInvariant'
  <1> DEFINE c == edits[n].case
             e == [edits[n] EXCEPT !.stage = "fresh", !.ver = Len(rows[c])]
             d == [edits[n] EXCEPT !.stage = "vanished"]
  <1>1. edits[n] \in EditRecord /\ EditRefsOK(n) /\ {"fresh", "vanished"} \subseteq Stage
    BY EditFacts, StageNames
  <1>2. Len(rows[c]) \in Nat /\ Len(rows[c]) \in 1..Len(rows[c])
    BY EditFacts, LastElement
  <1>3. edits[n].stage \in InFlight
    BY DEF RereadAnswered, InFlight, Transit
  <1>4. /\ UNCHANGED <<rows, objs, page, adopted>> /\ failures' \subseteq Edit
        /\ status' \in Statuses /\ waiting' \in BOOLEAN /\ others' \in Nat /\ faults' \in Nat
    BY DEF RereadAnswered, server, TypeInvariant, TypeOK
  <1>5. CASE edits' = [edits EXCEPT ![n] = e]
    <2>1. /\ e \in EditRecord /\ e.case = c /\ e.stage = "fresh"
          /\ e.obj = edits[n].obj /\ e.ver = Len(rows[c])
      BY <1>1, <1>2 DEF EditRecord
    <2> HIDE DEF e
    <2> QED BY <1>1, <1>2, <1>3, <1>4, <1>5, <2>1, StageStep DEF EditRefsOK
  <1>6. CASE edits' = [edits EXCEPT ![n] = d]
    <2>1. d \in EditRecord /\ d.case = c /\ d.stage = "vanished" /\ d.obj = edits[n].obj
      BY <1>1 DEF EditRecord
    <2> HIDE DEF d
    <2> QED BY <1>1, <1>3, <1>4, <1>6, <2>1, StageStep DEF EditRefsOK
  <1> QED BY <1>5, <1>6 DEF RereadAnswered

\* A flush ends; what it leaves in the objects is the caller's business.
LEMMA EndStep ==
    ASSUME TypeInvariant, Grows, EtagsOK, NEW n \in Edit, NEW o \in Ended, NEW h \in Statuses,
           NEW fs \in SUBSET Edit, End(n, o, h, fs), UNCHANGED page,
           adopted' \in [Case -> SUBSET Int], others' \in Nat, faults' \in Nat
    PROVE  TypeInvariant'
  <1> DEFINE e == [edits[n] EXCEPT !.stage = o]
  <1>1. edits[n] \in EditRecord /\ o \in Stage
    BY EditFacts, StageNames
  <1>2. /\ e \in EditRecord /\ e.case = edits[n].case
        /\ e.stage \notin InFlight /\ e.stage \notin {"patch", "ok", "fresh"}
    BY <1>1 DEF EditRecord, Ended, InFlight, Transit, Arriving
  <1>3. edits' = [edits EXCEPT ![n] = e] /\ failures' \subseteq Edit
    BY DEF End
  <1>4. status' \in Statuses /\ waiting' \in BOOLEAN
    BY StatusType DEF End, TypeInvariant, TypeOK
  <1> HIDE DEF e
  <1> QED BY <1>2, <1>3, <1>4, OneEditStep

LEMMA ConflictType ==
    ASSUME TypeInvariant, NEW n \in Edit, Conflict(n) PROVE TypeInvariant'
  <1>1. Grows /\ EtagsOK
    BY NoGrowth DEF Conflict, server
  <1>2. failures \in SUBSET Edit
    BY DEF TypeInvariant, TypeOK, WithoutOverlap
  <1>3. "conflict" \in Ended /\ "conflict" \in Statuses
    BY DEF TypeInvariant, TypeOK, Ended, Statuses
  <1>4. End(n, "conflict", "conflict", failures) /\ UNCHANGED page
    BY DEF Conflict, page
  <1>5. adopted' \in [Case -> SUBSET Int] /\ others' \in Nat /\ faults' \in Nat
    BY DEF Conflict, server, TypeInvariant, TypeOK
  <1> QED BY <1>1, <1>2, <1>3, <1>4, <1>5, EndStep

LEMMA RereadRejectedType ==
    ASSUME TypeInvariant, NEW n \in Edit, RereadRejected(n) PROVE TypeInvariant'
  <1>1. Grows /\ EtagsOK
    BY NoGrowth DEF RereadRejected, server
  <1>2. failures \in SUBSET Edit
    BY DEF TypeInvariant, TypeOK, WithoutOverlap
  <1>3. "threw" \in Ended /\ status \in Statuses
    BY DEF TypeInvariant, TypeOK, Ended, Statuses
  <1>4. End(n, "threw", status, failures) /\ UNCHANGED page
    BY DEF RereadRejected, page
  <1>5. adopted' \in [Case -> SUBSET Int] /\ others' \in Nat /\ faults' \in Nat
    BY DEF RereadRejected, server, TypeInvariant, TypeOK
  <1> QED BY <1>1, <1>2, <1>3, <1>4, <1>5, EndStep

LEMMA GiveUpType ==
    ASSUME TypeInvariant, NEW n \in Edit, GiveUp(n) PROVE TypeInvariant'
  <1>1. Grows /\ EtagsOK
    BY NoGrowth DEF GiveUp, server
  <1>2. (WithoutOverlap(n) \cup {n}) \in SUBSET Edit
    BY DEF TypeInvariant, TypeOK, WithoutOverlap
  <1>3. "gaveup" \in Ended /\ status \in Statuses
    BY DEF TypeInvariant, TypeOK, Ended, Statuses
  <1>4. End(n, "gaveup", status, (WithoutOverlap(n) \cup {n})) /\ UNCHANGED page
    BY DEF GiveUp, page
  <1>5. adopted' \in [Case -> SUBSET Int] /\ others' \in Nat /\ faults' \in Nat
    BY DEF GiveUp, server, TypeInvariant, TypeOK
  <1> QED BY <1>1, <1>2, <1>3, <1>4, <1>5, EndStep

LEMMA CaseTypes ==
    ASSUME TypeInvariant, NEW c \in Case
    PROVE  /\ rows[c] \in Seq(Row) /\ objs[c] \in Seq(Obj)
           /\ Len(rows[c]) \in Nat /\ Len(objs[c]) \in Nat
           /\ CaseRefsOK(c)
  <1>1. rows[c] \in Seq(Row) /\ objs[c] \in Seq(Obj)
    BY DEF TypeInvariant, TypeOK, Row, Obj
  <1> QED BY <1>1, LenProperties DEF TypeInvariant, RefsOK

\* A reply is written into one of the queue's objects.
LEMMA WriteObj ==
    ASSUME TypeInvariant, NEW c \in Case, NEW i \in DOMAIN objs[c], NEW x \in Obj,
           x.etag \in 1..Len(rows[c]), rows' = rows,
           objs' = [objs EXCEPT ![c] = [@ EXCEPT ![i] = x]]
    PROVE  /\ Grows /\ EtagsOK
           /\ objs'[c] = [objs[c] EXCEPT ![i] = x]
  <1> DEFINE os == [objs[c] EXCEPT ![i] = x]
  <1>1. objs \in [Case -> Seq(Obj)] /\ objs[c] \in Seq(Obj)
    BY DEF TypeInvariant, TypeOK, Obj
  <1>2. /\ os \in Seq(Obj) /\ DOMAIN os = DOMAIN objs[c] /\ Len(os) = Len(objs[c])
        /\ os[i] = x /\ \A j \in DOMAIN objs[c] : j # i => os[j] = objs[c][j]
    BY <1>1, UpdateSeq
  <1>3. objs' = [objs EXCEPT ![c] = os]
    OBVIOUS
  <1> HIDE DEF os
  <1>4. objs' \in [Case -> Seq(Obj)] /\ objs'[c] = os
        /\ \A d \in Case : d # c => objs'[d] = objs[d]
    BY <1>1, <1>2, <1>3
  <1>5. \A d \in Case : Len(rows[d]) \in Nat /\ Len(objs[d]) \in Nat /\ Len(objs'[d]) = Len(objs[d])
    BY <1>2, <1>4, CaseTypes
  <1>a. rows' \in [Case -> Seq(Row)]
    BY DEF TypeInvariant, TypeOK, Row
  <1>6. Grows
    BY <1>4, <1>5, <1>a DEF Grows
  <1>7. EtagsOK
    BY <1>2, <1>4 DEF EtagsOK, TypeInvariant, RefsOK, CaseRefsOK
  <1> QED BY <1>4, <1>6, <1>7 DEF os

LEMMA AnswersType ==
    ASSUME TypeInvariant, NEW c \in Case, NEW v \in 1..Len(rows[c])
    PROVE  AnswersAt(c, v) \in Int
  <1>1. rows[c] \in Seq(Row)
    BY DEF TypeInvariant, TypeOK, Row
  <1>2. rows[c][v] \in Row
    BY <1>1, ElementOfSeq
  <1> QED BY <1>2 DEF AnswersAt, Row

LEMMA ReplyOkType ==
    ASSUME TypeInvariant, NEW n \in Edit, ReplyOk(n) PROVE TypeInvariant'
  <1> DEFINE c == edits[n].case
             v == edits[n].ver
             i == edits[n].obj
             x == [etag |-> v, base |-> IF AnswersAt(c, v) = 0 THEN objs[c][i].base
                                        ELSE AnswersAt(c, v)]
  <1>1. c \in Case /\ i \in DOMAIN objs[c] /\ v \in 1..Len(rows[c]) /\ objs[c] \in Seq(Obj)
    BY EditFacts DEF ReplyOk, EditRefsOK, InFlight, Arriving
  <1>2. AnswersAt(c, v) \in Int
    BY <1>1, AnswersType
  <1>3. objs[c][i] \in Obj
    BY <1>1, ElementOfSeq
  <1>4. x \in Obj /\ x.etag = v
    <2>1. v \in Nat
      BY EditFacts DEF EditRecord
    <2> QED BY <2>1, <1>2, <1>3 DEF Obj
  <1>5. /\ rows' = rows /\ UNCHANGED page /\ End(n, "done", status, WithoutOverlap(n))
        /\ objs' = [objs EXCEPT ![c] = [@ EXCEPT ![i] = x]]
        /\ adopted' = [adopted EXCEPT ![c] = @ \cup {AnswersAt(c, v)}]
        /\ others' = others /\ faults' = faults
    BY DEF ReplyOk, server
  <1> HIDE DEF c, v, i, x
  <1>6. Grows /\ EtagsOK
    BY <1>1, <1>4, <1>5, WriteObj
  <1>7. adopted' \in [Case -> SUBSET Int] /\ others' \in Nat /\ faults' \in Nat
    BY <1>1, <1>2, <1>5 DEF TypeInvariant, TypeOK
  <1>8. WithoutOverlap(n) \in SUBSET Edit /\ "done" \in Ended /\ status \in Statuses
    BY DEF WithoutOverlap, TypeInvariant, TypeOK, Ended
  <1> QED BY <1>5, <1>6, <1>7, <1>8, EndStep

LEMMA RebaseType ==
    ASSUME TypeInvariant, NEW n \in Edit, Rebase(n) PROVE TypeInvariant'
  <1> DEFINE c == edits[n].case
             v == edits[n].ver
             i == edits[n].obj
             x == [etag |-> v, base |-> AnswersAt(c, v)]
             os == [objs[c] EXCEPT ![i] = x]
             e == Attempt(edits[n], os)
  <1>1. /\ c \in Case /\ i \in DOMAIN objs[c] /\ v \in 1..Len(rows[c])
        /\ objs[c] \in Seq(Obj) /\ objs[c] # <<>> /\ edits[n] \in EditRecord
    BY EditFacts DEF Rebase, EditRefsOK, InFlight, Arriving
  <1>2. x \in Obj /\ x.etag = v
    <2>1. v \in Nat /\ AnswersAt(c, v) \in Int
      BY <1>1, AnswersType DEF EditRecord
    <2> QED BY <2>1 DEF Obj
  <1>3. /\ rows' = rows /\ UNCHANGED <<page, adopted, failures, status, waiting, others, faults>>
        /\ objs' = [objs EXCEPT ![c] = [@ EXCEPT ![i] = x]]
        /\ edits' = [edits EXCEPT ![n] = e]
    BY DEF Rebase, server
  <1> HIDE DEF c, v, i, x
  <1>4. Grows /\ EtagsOK /\ objs'[c] = os
    BY ZenonT(60), <1>1, <1>2, <1>3, WriteObj
  <1>5. os \in Seq(Obj) /\ os # <<>>
    BY <1>1, <1>2, UpdateSeq, EmptySeq
  <1> HIDE DEF os
  <1>6. /\ e \in EditRecord /\ e.case = edits[n].case /\ e.stage = "patch"
        /\ e.obj = Len(os) /\ e.etag = os[Len(os)].etag /\ Len(os) \in DOMAIN os
    BY <1>1, <1>5, AttemptType
  <1> HIDE DEF e
  <1>7. e.obj \in DOMAIN objs'[e.case] /\ e.etag \in 1..Len(rows'[e.case])
    BY <1>1, <1>4, <1>6 DEF EtagsOK, c
  <1>8. /\ adopted' \in [Case -> SUBSET Int] /\ failures' \subseteq Edit /\ status' \in Statuses
        /\ waiting' \in BOOLEAN /\ others' \in Nat /\ faults' \in Nat
    BY <1>3 DEF TypeInvariant, TypeOK
  <1> QED BY <1>3, <1>4, <1>6, <1>7, <1>8, OneEditStep

\* The server appends a version to a row; the earlier versions stay.
LEMMA AppendRow ==
    ASSUME TypeInvariant, NEW c \in Case, NEW r \in Row, objs' = objs,
           rows' = [rows EXCEPT ![c] = Append(@, r)]
    PROVE  /\ Grows /\ EtagsOK
           /\ Len(rows'[c]) = Len(rows[c]) + 1
           /\ \A d \in Case : \A v \in 1..Len(rows[d]) :
                 v \in 1..Len(rows'[d]) /\ rows'[d][v] = rows[d][v]
  <1>1. rows[c] \in Seq(Row) /\ Len(rows[c]) \in Nat
    BY CaseTypes
  <1> DEFINE s == Append(rows[c], r)
  <1>2. /\ s \in Seq(Row) /\ Len(s) = Len(rows[c]) + 1
        /\ \A v \in 1..Len(rows[c]) : s[v] = rows[c][v]
    BY <1>1, AppendProperties
  <1>3. rows \in [Case -> Seq(Row)]
    BY DEF TypeInvariant, TypeOK, Row
  <1> HIDE DEF s
  <1>4. rows' \in [Case -> Seq(Row)] /\ rows'[c] = s /\ \A d \in Case : d # c => rows'[d] = rows[d]
    BY <1>2, <1>3 DEF s
  <1>5. \A d \in Case : /\ Len(rows[d]) \in Nat /\ Len(rows'[d]) \in Nat /\ Len(objs[d]) \in Nat
                        /\ Len(rows[d]) <= Len(rows'[d]) /\ objs'[d] = objs[d]
    BY <1>2, <1>4, CaseTypes
  <1>6. objs' \in [Case -> Seq(Obj)]
    BY DEF TypeInvariant, TypeOK, Obj
  <1>7. Grows
    BY <1>4, <1>5, <1>6 DEF Grows
  <1>8. EtagsOK
    BY <1>5, CaseTypes DEF EtagsOK, CaseRefsOK
  <1>9. \A d \in Case : \A v \in 1..Len(rows[d]) :
            v \in 1..Len(rows'[d]) /\ rows'[d][v] = rows[d][v]
    BY <1>2, <1>4, <1>5
  <1> QED BY <1>2, <1>4, <1>7, <1>8, <1>9

\* The record of a write the server has just applied.
LEMMA AppliedType ==
    ASSUME TypeInvariant, NEW n \in Edit, PatchApplied(n) PROVE TypeInvariant'
  <1> DEFINE c == edits[n].case
             row == [f \in Field |-> IF f \in FieldsOf(n) THEN n ELSE Latest(c)[f]]
             s == IF ByReread THEN "confirm" ELSE "ok"
             e == [edits[n] EXCEPT !.stage = s, !.ver = Len(rows[c]) + 1, !.landed = TRUE]
             d == [edits[n] EXCEPT !.stage = "network", !.landed = TRUE]
  <1>1. /\ edits[n] \in EditRecord /\ EditRefsOK(n) /\ c \in Case /\ edits[n].stage \in InFlight
        /\ {"confirm", "ok", "network"} \subseteq Stage
    BY EditFacts, StageNames DEF PatchApplied, InFlight, Transit
  <1>2. Latest(c) \in Row
    BY <1>1, EditFacts, LastElement DEF Latest
  <1>3. row \in Row
    <2>1. n \in Int
      BY LenProperties DEF TypeInvariant, TypeOK, Edit
    <2>2. \A f \in Field : Latest(c)[f] \in Int
      BY <1>2 DEF Row
    <2> QED BY <2>1, <2>2 DEF Row
  <1>4. rows' = [rows EXCEPT ![c] = Append(@, row)] /\ UNCHANGED <<objs, page>>
    BY DEF PatchApplied
  <1>5. /\ adopted' \in [Case -> SUBSET Int] /\ failures' \subseteq Edit /\ status' \in Statuses
        /\ waiting' \in BOOLEAN /\ others' \in Nat /\ faults' \in Nat
    BY DEF PatchApplied, TypeInvariant, TypeOK
  <1> HIDE DEF row
  <1>6. Grows /\ EtagsOK /\ Len(rows'[c]) = Len(rows[c]) + 1 /\ Len(rows[c]) \in Nat
    BY <1>1, <1>3, <1>4, AppendRow, CaseTypes
  <1>7. CASE edits' = [edits EXCEPT ![n] = e]
    <2>1. s \in {"confirm", "ok"}
      OBVIOUS
    <2> HIDE DEF s
    <2>a. Len(rows[c]) + 1 \in Nat /\ s \in Stage
      BY <1>1, <1>6, <2>1
    <2>2. /\ e \in EditRecord /\ e.case = c /\ e.stage = s
          /\ e.obj = edits[n].obj /\ e.ver = Len(rows'[c])
      BY <1>1, <1>6, <2>a DEF EditRecord
    <2> HIDE DEF e
    <2>3. e.ver \in 1..Len(rows'[e.case])
      BY <1>6, <2>2
    <2>4. e.obj \in DOMAIN objs'[e.case]
      BY <1>1, <1>4, <2>2 DEF EditRefsOK
    <2> QED BY <1>4, <1>5, <1>6, <1>7, <2>1, <2>2, <2>3, <2>4, OneEditStep
  <1>8. CASE edits' = [edits EXCEPT ![n] = d]
    <2>1. d \in EditRecord /\ d.case = c /\ d.stage = "network" /\ d.obj = edits[n].obj
      BY <1>1 DEF EditRecord
    <2> HIDE DEF d
    <2>2. d.obj \in DOMAIN objs'[d.case]
      BY <1>1, <1>4, <2>1 DEF EditRefsOK
    <2> QED BY <1>4, <1>5, <1>6, <1>8, <2>1, <2>2, OneEditStep
  <1> QED BY <1>7, <1>8 DEF PatchApplied

\* The steps of the page, and of other writers, that leave the edits alone.
LEMMA EditsStay ==
    ASSUME TypeInvariant, Grows, EtagsOK, edits' = edits, UNCHANGED <<failures, fc>>,
           reading' \in [Case -> Nat], \A c \in Case : reading'[c] <= Len(rows'[c]),
           shown' \in [Case -> SUBSET Int], adopted' \in [Case -> SUBSET Int],
           status' \in Statuses, waiting' \in BOOLEAN, others' \in Nat, faults' \in Nat
    PROVE  TypeInvariant'
  <1>1. Edit' = Edit
    BY DEF Edit
  <1>2. TypeOK'
    BY <1>1 DEF TypeInvariant, TypeOK, Grows, Row, Obj
  <1>3. ASSUME NEW c \in Case PROVE CaseRefsOK(c)'
    <2>1. rows'[c] \in Seq(Row) /\ Len(rows[c]) <= Len(rows'[c]) /\ Len(rows[c]) \in Nat
          /\ CaseRefsOK(c) /\ rows[c] # <<>> /\ rows[c] \in Seq(Row)
      BY CaseTypes DEF Grows, CaseRefsOK
    <2>2. rows'[c] # <<>>
      BY <2>1, LastElement, EmptySeq, LenProperties
    <2> QED BY <2>1, <2>2, <1>1 DEF CaseRefsOK, EtagsOK
  <1>4. ASSUME NEW m \in Edit PROVE EditRefsOK(m)'
    <2> DEFINE c == edits[m].case
    <2>1. /\ c \in Case /\ EditRefsOK(m) /\ objs[c] \in Seq(Obj) /\ objs[c] # <<>>
          /\ objs'[c] \in Seq(Obj)
          /\ Len(rows[c]) <= Len(rows'[c]) /\ Len(objs[c]) <= Len(objs'[c])
          /\ Len(rows[c]) \in Nat /\ Len(objs[c]) \in Nat
      BY EditFacts, CaseTypes DEF Grows
    <2>2. Len(rows'[c]) \in Nat /\ Len(objs'[c]) \in Nat /\ objs'[c] # <<>>
      BY <2>1, LastElement, EmptySeq, LenProperties DEF Grows
    <2>a. DOMAIN objs[c] = 1..Len(objs[c]) /\ DOMAIN objs'[c] = 1..Len(objs'[c])
      BY <2>1, LenProperties
    <2>b. \A a, b \in Nat : a <= b => 1..a \subseteq 1..b
      OBVIOUS
    <2>c. 1..Len(objs[c]) \subseteq 1..Len(objs'[c])
      BY <2>1, <2>2, <2>b
    <2>d. 1..Len(rows[c]) \subseteq 1..Len(rows'[c])
      BY <2>1, <2>2, <2>b
    <2>3. DOMAIN objs[c] \subseteq DOMAIN objs'[c] /\ 1..Len(rows[c]) \subseteq 1..Len(rows'[c])
      BY <2>a, <2>c, <2>d
    <2>4. edits'[m] = edits[m]
      OBVIOUS
    <2> QED BY <2>1, <2>2, <2>3, <2>4, Zenon DEF EditRefsOK
  <1> QED BY <1>1, <1>2, <1>3, <1>4 DEF TypeInvariant, RefsOK

LEMMA PageReadType ==
    ASSUME TypeInvariant, NEW c \in Case, PageRead(c) PROVE TypeInvariant'
  <1>1. Grows /\ EtagsOK
    BY NoGrowth DEF PageRead, server
  <1>2. reading' \in [Case -> Nat] /\ \A d \in Case : reading'[d] <= Len(rows'[d])
    BY CaseTypes DEF PageRead, server, TypeInvariant, TypeOK, CaseRefsOK
  <1> QED BY <1>1, <1>2, EditsStay DEF PageRead, server, TypeInvariant, TypeOK

LEMMA WhenIdleType ==
    ASSUME TypeInvariant, WhenIdle PROVE TypeInvariant'
  <1>1. Grows /\ EtagsOK
    BY NoGrowth DEF WhenIdle, server
  <1>2. reading' \in [Case -> Nat] /\ \A d \in Case : reading'[d] <= Len(rows'[d])
    BY CaseTypes DEF WhenIdle, server, page, TypeInvariant, TypeOK, CaseRefsOK
  <1> QED BY <1>1, <1>2, EditsStay DEF WhenIdle, server, page, TypeInvariant, TypeOK

LEMMA OtherWriteType ==
    ASSUME TypeInvariant, NEW c \in Case, NEW f \in Field, OtherWrite(c, f) PROVE TypeInvariant'
  <1> DEFINE r == [Latest(c) EXCEPT ![f] = -(others + 1)]
  <1>1. rows[c] \in Seq(Row) /\ rows[c] # <<>> /\ others \in Nat
    BY CaseTypes DEF CaseRefsOK, TypeInvariant, TypeOK
  <1>2. Latest(c) \in Row
    BY <1>1, LastElement DEF Latest
  <1>3. r \in Row
    BY <1>1, <1>2 DEF Row
  <1>4. rows' = [rows EXCEPT ![c] = Append(@, r)] /\ objs' = objs
    BY DEF OtherWrite
  <1> HIDE DEF r
  <1>5. Grows /\ EtagsOK
    BY <1>3, <1>4, AppendRow
  <1>6. reading' \in [Case -> Nat] /\ \A d \in Case : reading'[d] <= Len(rows'[d])
    <2>1. \A d \in Case : /\ Len(rows[d]) \in Nat /\ reading[d] \in Nat
                          /\ reading[d] <= Len(rows[d]) /\ Len(rows[d]) <= Len(rows'[d])
      BY <1>5, CaseTypes DEF CaseRefsOK, Grows, TypeInvariant, TypeOK
    <2>2. \A d \in Case : Len(rows'[d]) \in Nat
      BY <1>5, LenProperties DEF Grows
    <2> QED BY <2>1, <2>2 DEF OtherWrite, page, TypeInvariant, TypeOK
  <1>7. /\ edits' = edits /\ UNCHANGED <<failures, fc>>
        /\ shown' \in [Case -> SUBSET Int] /\ adopted' \in [Case -> SUBSET Int]
        /\ status' \in Statuses /\ waiting' \in BOOLEAN /\ others' \in Nat /\ faults' \in Nat
    BY <1>1 DEF OtherWrite, page, TypeInvariant, TypeOK
  <1> QED BY <1>5, <1>6, <1>7, EditsStay

LEMMA LoadCaseType ==
    ASSUME TypeInvariant, NEW c \in Case, LoadCase(c) PROVE TypeInvariant'
  <1> DEFINE v == reading[c]
             x == [etag |-> v, base |-> AnswersAt(c, v)]
  <1>1. objs[c] \in Seq(Obj) /\ v \in 1..Len(rows[c]) /\ v \in Nat
    <2>1. v \in Nat /\ v # 0
      BY DEF LoadCase, TypeInvariant, TypeOK
    <2>2. v <= Len(rows[c]) /\ Len(rows[c]) \in Nat /\ objs[c] \in Seq(Obj)
      BY CaseTypes DEF CaseRefsOK
    <2> QED BY <2>1, <2>2
  <1>2. x \in Obj /\ x.etag = v /\ AnswersAt(c, v) \in Int
    BY <1>1, AnswersType DEF Obj
  <1>3. /\ objs' = [objs EXCEPT ![c] = Append(@, x)] /\ rows' = rows
        /\ shown' = [shown EXCEPT ![c] = @ \cup {AnswersAt(c, v)}]
        /\ reading' = [reading EXCEPT ![c] = 0]
    BY DEF LoadCase, server
  <1> HIDE DEF x
  <1>4. /\ Append(objs[c], x) \in Seq(Obj)
        /\ Len(Append(objs[c], x)) = Len(objs[c]) + 1
        /\ \A i \in 1..Len(objs[c]) : Append(objs[c], x)[i] = objs[c][i]
        /\ Append(objs[c], x)[Len(objs[c]) + 1] = x
    BY <1>1, <1>2, AppendProperties
  <1> DEFINE os == Append(objs[c], x)
  <1>5. objs \in [Case -> Seq(Obj)]
    BY DEF TypeInvariant, TypeOK, Obj
  <1> HIDE DEF os
  <1>6. objs' \in [Case -> Seq(Obj)] /\ objs'[c] = os /\ \A d \in Case : d # c => objs'[d] = objs[d]
    BY <1>3, <1>4, <1>5 DEF os
  <1>7. Grows
    <2>1. \A d \in Case : /\ Len(rows[d]) \in Nat /\ Len(objs[d]) \in Nat
                          /\ Len(objs[d]) <= Len(objs'[d])
      BY SMTT(40), <1>4, <1>6, CaseTypes DEF os
    <2>2. rows' \in [Case -> Seq(Row)]
      BY <1>3 DEF TypeInvariant, TypeOK, Row
    <2> QED BY <1>3, <1>6, <2>1, <2>2 DEF Grows
  <1>8. EtagsOK
    <2> SUFFICES ASSUME NEW d \in Case, NEW i \in DOMAIN objs'[d]
                 PROVE  objs'[d][i].etag \in 1..Len(rows'[d])
      BY DEF EtagsOK
    <2>1. CASE d # c
      BY <2>1, <1>3, <1>6, CaseTypes DEF CaseRefsOK
    <2>2. CASE d = c
      <3>1. DOMAIN os = 1..Len(objs[c]) + 1 /\ Len(objs[c]) \in Nat /\ DOMAIN objs[c] = 1..Len(objs[c])
        BY <1>1, <1>4, LenProperties DEF os
      <3>2. CASE i \in 1..Len(objs[c])
        BY <3>1, <3>2, <2>2, <1>3, <1>4, <1>6, CaseTypes DEF CaseRefsOK, os
      <3>3. CASE i = Len(objs[c]) + 1
        BY <3>3, <2>2, <1>1, <1>2, <1>3, <1>4, <1>6 DEF os
      <3> QED BY <3>1, <3>2, <3>3, <2>2, <1>6
    <2> QED BY <2>1, <2>2
  <1>9. reading' \in [Case -> Nat] /\ \A d \in Case : reading'[d] <= Len(rows'[d])
    BY SMTT(40), <1>3, CaseTypes DEF CaseRefsOK, TypeInvariant, TypeOK
  <1>10. shown' \in [Case -> SUBSET Int]
    BY <1>2, <1>3 DEF TypeInvariant, TypeOK
  <1> QED BY <1>7, <1>8, <1>9, <1>10, EditsStay DEF LoadCase, server, TypeInvariant, TypeOK

\* The steps of the page that rewrite edits in place: their cases and the
\* references of the ones in flight stay.
LEMMA EditsRewritten ==
    ASSUME TypeInvariant, NEW es, es = [m \in Edit |-> es[m]], edits' = es,
           \A m \in Edit : /\ es[m] \in EditRecord /\ es[m].case = edits[m].case
                           /\ es[m] # edits[m] => es[m].stage \notin InFlight
           , UNCHANGED <<rows, objs>>
    PROVE  /\ edits' \in Seq(EditRecord) /\ Edit' = Edit
           /\ \A m \in Edit' : EditRefsOK(m)'
  <1>1. edits \in Seq(EditRecord)
    BY DEF TypeInvariant, TypeOK
  <1>2. es \in Seq(EditRecord) /\ DOMAIN es = Edit
    BY <1>1, MapSeq, Zenon DEF Edit
  <1>3. ASSUME NEW m \in Edit PROVE EditRefsOK(m)'
    <2>1. EditRefsOK(m) /\ edits'[m].case = edits[m].case
      BY EditFacts
    <2>2. CASE edits'[m] = edits[m]
      BY <2>1, <2>2 DEF EditRefsOK
    <2>3. CASE edits'[m] # edits[m]
      <3>1. edits'[m].stage \notin InFlight
        BY <2>3
      <3> QED BY <2>1, <3>1 DEF EditRefsOK, InFlight, Transit, Arriving
    <2> QED BY <2>2, <2>3
  <1> QED BY <1>2, <1>3 DEF Edit

LEMMA FlushCaseType ==
    ASSUME TypeInvariant, NEW c \in Case, FlushCase(c) PROVE TypeInvariant'
  <1> DEFINE es == [n \in Edit |-> IF n \in PendingOf(c)
                                   THEN [edits[n] EXCEPT !.stage = "popped", !.popped = TRUE]
                                   ELSE edits[n]]
             call == [stage |-> "awaiting", wait |-> InFlightOf(c), todo |-> PendingOf(c),
                      upto |-> Len(edits), calls |-> fc[c].calls + 1]
  <1>1. edits' = es /\ fc' = [fc EXCEPT ![c] = call]
        /\ UNCHANGED <<rows, objs, failures, status, waiting, reading, shown, adopted, others, faults>>
    BY DEF FlushCase, server
  <1>2. ASSUME NEW m \in Edit
        PROVE  /\ es[m] \in EditRecord /\ es[m].case = edits[m].case
               /\ es[m] # edits[m] => es[m].stage \notin InFlight
    <2>1. edits[m] \in EditRecord /\ "popped" \in Stage /\ "popped" \notin InFlight
      BY EditFacts, StageNames DEF InFlight, Transit, Arriving
    <2> QED BY <2>1 DEF EditRecord
  <1>3. es = [m \in Edit |-> es[m]]
    OBVIOUS
  <1> HIDE DEF es
  <1>4. edits' \in Seq(EditRecord) /\ Edit' = Edit /\ \A m \in Edit' : EditRefsOK(m)'
    BY <1>1, <1>2, <1>3, EditsRewritten
  <1>5. call \in FlushCall
    <2>1. fc[c] \in FlushCall /\ fc[c].calls + 1 \in Nat
      BY DEF TypeInvariant, TypeOK, FlushCall
    <2>2. Len(edits) \in Nat /\ Edit \subseteq Nat
      BY LenProperties DEF TypeInvariant, TypeOK, Edit
    <2>3. InFlightOf(c) \in SUBSET Nat /\ PendingOf(c) \in SUBSET Nat
      BY <2>2 DEF InFlightOf, PendingOf
    <2> QED BY <2>1, <2>2, <2>3 DEF FlushCall
  <1>6. TypeOK'
    BY <1>1, <1>4, <1>5 DEF TypeInvariant, TypeOK
  <1>7. ASSUME NEW d \in Case PROVE CaseRefsOK(d)'
    <2>1. fc'[d].wait \subseteq Edit
      BY <1>1, CaseTypes DEF TypeInvariant, TypeOK, CaseRefsOK, InFlightOf
    <2>2. fc'[d].todo \subseteq {n \in Edit : edits[n].case = d}
      BY <1>1, CaseTypes DEF TypeInvariant, TypeOK, CaseRefsOK, PendingOf
    <2>3. {n \in Edit : edits[n].case = d} = {n \in Edit' : edits'[n].case = d}
      BY <1>1, <1>2, <1>4
    <2> QED BY <1>1, <1>4, <2>1, <2>2, <2>3, CaseTypes DEF CaseRefsOK
  <1> QED BY <1>4, <1>6, <1>7 DEF TypeInvariant, RefsOK

LEMMA EnqueueType ==
    ASSUME TypeInvariant, NEW c \in Case, NEW k \in Key, Enqueue(c, k) PROVE TypeInvariant'
  <1> DEFINE e == [case |-> c, key |-> k, stage |-> "pending", obj |-> 0, etag |-> 0,
                   ver |-> 0, attempts |-> 0, unknowns |-> 0, outage |-> FALSE,
                   popped |-> FALSE, landed |-> FALSE]
             kept == [n \in Edit |->
                        IF n \in PendingOf(c) /\ edits[n].key = k
                        THEN [edits[n] EXCEPT !.stage = "replaced"] ELSE edits[n]]
  <1>1. /\ edits' = Append(kept, e)
        /\ status' = SetStatus("saving", Append(kept, e), failures)
        /\ UNCHANGED <<rows, objs, failures, waiting, fc, reading, shown, adopted, others, faults>>
        /\ objs[c] # <<>>
    BY DEF Enqueue, server, page
  <1>2. e \in EditRecord /\ e.case = c /\ e.stage \notin InFlight
    BY StageNames DEF EditRecord, InFlight, Transit, Arriving
  <1>3. ASSUME NEW m \in Edit
        PROVE  /\ kept[m] \in EditRecord /\ kept[m].case = edits[m].case
               /\ kept[m] # edits[m] => kept[m].stage \notin InFlight
    <2>1. edits[m] \in EditRecord /\ "replaced" \in Stage /\ "replaced" \notin InFlight
      BY EditFacts, StageNames DEF InFlight, Transit, Arriving, Ended
    <2> QED BY <2>1 DEF EditRecord
  <1>4. edits \in Seq(EditRecord) /\ kept = [m \in Edit |-> kept[m]]
    BY DEF TypeInvariant, TypeOK
  <1> HIDE DEF e, kept
  <1>5. kept \in Seq(EditRecord) /\ DOMAIN kept = Edit /\ Len(kept) = Len(edits)
    BY <1>3, <1>4, MapSeq, Zenon DEF Edit
  <1>6. /\ edits' \in Seq(EditRecord) /\ Len(edits') = Len(edits) + 1
        /\ \A m \in 1..Len(edits) : edits'[m] = kept[m]
        /\ edits'[Len(edits) + 1] = e
    BY <1>1, <1>2, <1>5, AppendProperties
  <1>7. Edit = 1..Len(edits) /\ Edit' = 1..Len(edits) + 1 /\ Len(edits) \in Nat
    BY <1>4, <1>6, LenProperties DEF Edit
  <1>8. \A m \in Edit : m \in Edit' /\ edits'[m] = kept[m] /\ edits'[m].case = edits[m].case
    BY <1>3, <1>6, <1>7
  <1>9. TypeOK'
    <2>1. status' \in Statuses
      BY <1>1, StatusType DEF Statuses
    <2> QED BY <1>1, <1>6, <1>8, <2>1 DEF TypeInvariant, TypeOK
  <1>10. ASSUME NEW d \in Case PROVE CaseRefsOK(d)'
    <2>1. CaseRefsOK(d)
      BY CaseTypes
    <2>2. fc'[d].wait \subseteq Edit' /\ fc'[d].todo \subseteq {n \in Edit' : edits'[n].case = d}
      BY <1>1, <1>8, <2>1 DEF CaseRefsOK
    <2> QED BY <1>1, <2>1, <2>2 DEF CaseRefsOK
  <1>11. ASSUME NEW m \in Edit' PROVE EditRefsOK(m)'
    <2>1. CASE m \in Edit
      <3>1. EditRefsOK(m) /\ edits'[m].case = edits[m].case
        BY <1>8, <2>1, EditFacts
      <3>2. CASE edits'[m] = edits[m]
        BY <1>1, <3>1, <3>2 DEF EditRefsOK
      <3>3. CASE edits'[m] # edits[m]
        <4>1. edits'[m].stage \notin InFlight
          BY <1>3, <1>8, <2>1, <3>3
        <4> QED BY <1>1, <3>1, <4>1 DEF EditRefsOK, InFlight, Transit, Arriving
      <3> QED BY <3>2, <3>3
    <2>2. CASE m = Len(edits) + 1
      BY <1>1, <1>2, <1>6, <2>2 DEF EditRefsOK, InFlight, Transit, Arriving
    <2> QED BY <1>7, <2>1, <2>2
  <1> QED BY <1>9, <1>10, <1>11 DEF TypeInvariant, RefsOK

\* flushCase returns, with any of its three results.
LEMMA FlushCaseReturnType ==
    ASSUME TypeInvariant, NEW c \in Case, NEW r \in {"true", "false", "threw"},
           FlushCaseReturn(c, r),
           UNCHANGED <<server, objs, failures, status, waiting, reading, shown, adopted>>
    PROVE  TypeInvariant'
  <1> DEFINE es == [n \in Edit |-> IF n \in fc[c].todo
                                   THEN [edits[n] EXCEPT !.stage = "dropped"] ELSE edits[n]]
             call == [fc[c] EXCEPT !.stage = r, !.wait = {}, !.todo = {}]
  <1>1. edits' = es /\ fc' = [fc EXCEPT ![c] = call]
        /\ UNCHANGED <<rows, objs, failures, status, waiting, reading, shown, adopted, others, faults>>
    BY DEF FlushCaseReturn, server, TypeInvariant, TypeOK
  <1>2. ASSUME NEW m \in Edit
        PROVE  /\ es[m] \in EditRecord /\ es[m].case = edits[m].case
               /\ es[m] # edits[m] => es[m].stage \notin InFlight
    <2>1. edits[m] \in EditRecord /\ "dropped" \in Stage /\ "dropped" \notin InFlight
      BY EditFacts, StageNames DEF InFlight, Transit, Arriving, Ended
    <2> QED BY <2>1 DEF EditRecord
  <1>3. es = [m \in Edit |-> es[m]]
    OBVIOUS
  <1> HIDE DEF es
  <1>4. edits' \in Seq(EditRecord) /\ Edit' = Edit /\ \A m \in Edit' : EditRefsOK(m)'
    BY <1>1, <1>2, <1>3, EditsRewritten
  <1>5. call \in FlushCall /\ call.wait = {} /\ call.todo = {}
    BY DEF TypeInvariant, TypeOK, FlushCall
  <1> HIDE DEF call
  <1>6. TypeOK'
    BY <1>1, <1>4, <1>5 DEF TypeInvariant, TypeOK
  <1>7. ASSUME NEW d \in Case PROVE CaseRefsOK(d)'
    <2>1. CaseRefsOK(d)
      BY CaseTypes
    <2>2. fc'[d].wait \subseteq Edit /\ fc'[d].todo \subseteq {n \in Edit : edits[n].case = d}
      BY <1>1, <1>5, <2>1 DEF TypeInvariant, TypeOK, CaseRefsOK
    <2>3. {n \in Edit : edits[n].case = d} = {n \in Edit' : edits'[n].case = d}
      BY <1>1, <1>2, <1>4
    <2> QED BY <1>1, <1>4, <2>1, <2>2, <2>3 DEF CaseRefsOK
  <1> QED BY <1>4, <1>6, <1>7 DEF TypeInvariant, RefsOK

\* flushCase starts its next write.
LEMMA FlushCaseNextType ==
    ASSUME TypeInvariant, NEW c \in Case, NEW n \in fc[c].todo,
           edits' = [edits EXCEPT ![n] = Attempt(@, objs[c])],
           fc' = [fc EXCEPT ![c].wait = {n}, ![c].todo = @ \ {n}],
           UNCHANGED <<server, objs, failures, status, waiting, reading, shown, adopted>>
    PROVE  TypeInvariant'
  <1> DEFINE e == Attempt(edits[n], objs[edits[n].case])
             call == [fc[c] EXCEPT !.wait = {n}, !.todo = @ \ {n}]
  <1>1. n \in Edit /\ edits[n].case = c
    BY CaseTypes DEF CaseRefsOK
  <1>2. edits' = [edits EXCEPT ![n] = e] /\ fc' = [fc EXCEPT ![c] = call]
    BY <1>1
  <1>3. /\ e \in EditRecord /\ e.case = edits[n].case /\ e.stage = "patch"
        /\ e.obj \in DOMAIN objs[e.case] /\ e.etag \in 1..Len(rows[e.case])
    BY <1>1, AttemptFacts
  <1>4. UNCHANGED <<rows, objs, failures, status, waiting, reading, shown, adopted, others, faults>>
    BY DEF server
  <1> HIDE DEF e
  <1>5. Grows
    BY <1>4, NoGrowth
  <1>6. /\ edits' \in Seq(EditRecord) /\ Edit' = Edit
        /\ \A m \in Edit : edits'[m].case = edits[m].case
        /\ \A m \in Edit' : EditRefsOK(m)'
    BY ZenonT(40), <1>1, <1>2, <1>3, <1>4, <1>5, OneEditChanges
  <1>7. call \in FlushCall /\ call.wait = {n} /\ call.todo \subseteq fc[c].todo
    <2>1. n \in Nat
      BY <1>1, LenProperties DEF TypeInvariant, TypeOK, Edit
    <2> QED BY <2>1 DEF TypeInvariant, TypeOK, FlushCall
  <1> HIDE DEF call
  <1>8. TypeOK'
    <2>1. fc' \in [Case -> FlushCall]
      BY <1>2, <1>7 DEF TypeInvariant, TypeOK
    <2> QED BY <2>1, <1>4, <1>6 DEF TypeInvariant, TypeOK
  <1>9. ASSUME NEW d \in Case PROVE CaseRefsOK(d)'
    <2>1. CaseRefsOK(d) /\ CaseRefsOK(c)
      BY CaseTypes
    <2>2. fc'[d].wait \subseteq Edit /\ fc'[d].todo \subseteq {m \in Edit : edits[m].case = d}
      BY SMTT(40), <1>1, <1>2, <1>7, <2>1 DEF TypeInvariant, TypeOK, CaseRefsOK
    <2>3. {m \in Edit : edits[m].case = d} = {m \in Edit' : edits'[m].case = d}
      BY <1>6
    <2> QED BY <1>4, <1>6, <2>1, <2>2, <2>3 DEF CaseRefsOK
  <1> QED BY <1>6, <1>8, <1>9 DEF TypeInvariant, RefsOK

LEMMA FlushCaseResumeType ==
    ASSUME TypeInvariant, NEW c \in Case, FlushCaseResume(c) PROVE TypeInvariant'
  BY FlushCaseReturnType, FlushCaseNextType DEF FlushCaseResume

LEMMA StepType == TypeInvariant /\ [Next]_vars => TypeInvariant'
  <1> SUFFICES ASSUME TypeInvariant, [Next]_vars PROVE TypeInvariant'
    OBVIOUS
  <1>1. ASSUME NEW c \in Case, User(c) PROVE TypeInvariant'
    BY <1>1, PageReadType, LoadCaseType, EnqueueType, FlushCaseType DEF User
  <1>2. ASSUME NEW c \in Case, FlushCaseResume(c) PROVE TypeInvariant'
    BY <1>2, FlushCaseResumeType
  <1>3. ASSUME NEW c \in Case, NEW f \in Field, OtherWrite(c, f) PROVE TypeInvariant'
    BY <1>3, OtherWriteType
  <1>4. ASSUME NEW n \in Edit, Server(n) PROVE TypeInvariant'
    BY <1>4, AppliedType, PatchStaleType, ConfirmReadType, RereadAnsweredType DEF Server
  <1>5. ASSUME NEW n \in Edit, Fault(n) PROVE TypeInvariant'
    BY <1>5, PatchFailsType, ConfirmFailsType, RereadFailsType DEF Fault
  <1>6. ASSUME NEW n \in Edit, Queue(n) PROVE TypeInvariant'
    BY <1>6, TimerFiresType, ReplyOkType, ReplyStaleType, RebaseType, ConflictType,
       RereadRejectedType, ReplyConnectionType, ReplyUnknownType, GiveUpType, WakeType DEF Queue
  <1>7. CASE WhenIdle
    BY <1>7, WhenIdleType
  <1>8. CASE UNCHANGED vars
    BY <1>8 DEF vars, TypeInvariant, TypeOK, RefsOK, CaseRefsOK, EditRefsOK, Edit
  <1> QED BY <1>1, <1>2, <1>3, <1>4, <1>5, <1>6, <1>7, <1>8 DEF Next

\* The queue, the list item and everything that refers from one to the other keep
\* their types, in every behaviour.
THEOREM TypeCorrect == Spec => []TypeInvariant
  BY InitType, StepType, PTL DEF Spec

----------------------------------------------------------------------------
(* Whose Answers a write replaces *)

\* What the tab knows is never forgotten, and rows keep their versions.
NothingForgotten ==
    /\ \A c \in Case : KnownAnswers(c) \subseteq KnownAnswers(c)'
    /\ \A c \in Case : \A v \in 1..Len(rows[c]) : AnswersAt(c, v)' = AnswersAt(c, v)

\* The objects of a step are old ones or hold known Answers.
ObjsKnown ==
    \A c \in Case : \A i \in DOMAIN objs'[c] :
        \/ i \in DOMAIN objs[c] /\ objs'[c][i] = objs[c][i]
        \/ /\ AnswersAt(c, objs[c][i].etag)' \in KnownAnswers(c)'
           /\ objs'[c][i].base \in KnownAnswers(c)'

\* The PATCHes of a step were travelling before or carry the ETag of a known row.
PatchesKnown ==
    \A n \in Edit' :
        edits'[n].stage = "patch" =>
            \/ n \in Edit /\ edits'[n] = edits[n]
            \/ /\ edits'[n].case \in Case
               /\ AnswersAt(edits[n].case, edits[n].etag)' \in KnownAnswers(edits[n].case)'

LEMMA KnownStep ==
    ASSUME TypeInvariant, AnswersKnown, NothingForgotten, ObjsKnown, PatchesKnown
    PROVE  AnswersKnown'
  <1>1. ASSUME NEW c \in Case, NEW i \in DOMAIN objs'[c]
        PROVE  /\ AnswersAt(c, objs[c][i].etag)' \in KnownAnswers(c)'
               /\ objs'[c][i].base \in KnownAnswers(c)'
    <2>1. CASE i \in DOMAIN objs[c] /\ objs'[c][i] = objs[c][i]
      <3>1. objs[c][i].etag \in 1..Len(rows[c])
        BY <2>1, CaseTypes DEF CaseRefsOK
      <3>2. AnswersAt(c, objs[c][i].etag) \in KnownAnswers(c) /\ objs[c][i].base \in KnownAnswers(c)
        BY <2>1 DEF AnswersKnown
      <3>3. AnswersAt(c, objs[c][i].etag)' = AnswersAt(c, objs[c][i].etag)
        BY <2>1, <3>1 DEF NothingForgotten, AnswersAt
      <3> QED BY <2>1, <3>2, <3>3 DEF NothingForgotten
    <2> QED BY <2>1 DEF ObjsKnown
  <1>2. ASSUME NEW n \in Edit', edits'[n].stage = "patch"
        PROVE  AnswersAt(edits[n].case, edits[n].etag)' \in KnownAnswers(edits[n].case)'
    <2>1. CASE n \in Edit /\ edits'[n] = edits[n]
      <3>1. edits[n].case \in Case /\ edits[n].etag \in 1..Len(rows[edits[n].case])
        BY <1>2, <2>1, EditFacts DEF EditRefsOK
      <3>2. AnswersAt(edits[n].case, edits[n].etag) \in KnownAnswers(edits[n].case)
        BY <1>2, <2>1 DEF AnswersKnown
      <3>3. AnswersAt(edits[n].case, edits[n].etag)' = AnswersAt(edits[n].case, edits[n].etag)
        BY <2>1, <3>1 DEF NothingForgotten, AnswersAt
      <3> QED BY <2>1, <3>1, <3>2, <3>3 DEF NothingForgotten, KnownAnswers
    <2> QED BY <1>2, <2>1 DEF PatchesKnown
  <1> QED BY <1>1, <1>2 DEF AnswersKnown

LEMMA NothingForgottenStays ==
    ASSUME UNCHANGED <<rows, shown, adopted>>
    PROVE  NothingForgotten
  BY DEF NothingForgotten, KnownAnswers, AnswersAt

LEMMA ObjsStay ==
    ASSUME UNCHANGED objs
    PROVE  ObjsKnown
  BY DEF ObjsKnown

\* The record of one write changes, to a stage that is not a PATCH in transit.
LEMMA MoveKnown ==
    ASSUME NEW n \in Edit, NEW e, e.stage # "patch", edits' = [edits EXCEPT ![n] = e]
    PROVE  PatchesKnown
  <1>1. Edit' = Edit /\ edits'[n] = e /\ \A m \in Edit : m # n => edits'[m] = edits[m]
    BY DEF Edit
  <1> QED BY <1>1 DEF PatchesKnown

\* A step that only moves one write on, without sending a PATCH.
LEMMA MoveStepKnown ==
    ASSUME TypeInvariant, AnswersKnown, NEW n \in Edit, NEW e, e.stage # "patch",
           edits' = [edits EXCEPT ![n] = e], UNCHANGED <<rows, objs, shown, adopted>>
    PROVE  AnswersKnown'
  BY NothingForgottenStays, ObjsStay, MoveKnown, KnownStep

\* A step that sends a PATCH with the current object's ETag.
LEMMA AttemptStepKnown ==
    ASSUME TypeInvariant, AnswersKnown, NEW n \in Edit,
           edits' = [edits EXCEPT ![n] = Attempt(@, objs[@.case])],
           UNCHANGED <<rows, objs, shown, adopted>>
    PROVE  AnswersKnown'
  <1> DEFINE e == Attempt(edits[n], objs[edits[n].case])
             c == edits[n].case
  <1>1. Edit' = Edit /\ edits'[n] = e /\ \A m \in Edit : m # n => edits'[m] = edits[m]
    BY DEF Edit
  <1>2. /\ c \in Case /\ Len(objs[c]) \in DOMAIN objs[c]
        /\ e.case = c /\ e.etag = objs[c][Len(objs[c])].etag
    BY EditFacts, AttemptType
  <1>3. AnswersAt(c, e.etag) \in KnownAnswers(c)
    BY <1>2 DEF AnswersKnown
  <1> HIDE DEF e
  <1>4. PatchesKnown
    BY <1>1, <1>2, <1>3 DEF PatchesKnown, AnswersAt, KnownAnswers
  <1> QED BY <1>4, NothingForgottenStays, ObjsStay, KnownStep

\* A step that rewrites edits in place, sending nothing.
LEMMA RewriteKnown ==
    ASSUME TypeInvariant, AnswersKnown,
           \A m \in Edit' : (m \in Edit /\ edits'[m] = edits[m]) \/ edits'[m].stage # "patch",
           UNCHANGED <<rows, objs, shown, adopted>>
    PROVE  AnswersKnown'
  <1>1. PatchesKnown
    BY DEF PatchesKnown
  <1> QED BY <1>1, NothingForgottenStays, ObjsStay, KnownStep

LEMMA QueueKnown ==
    ASSUME TypeInvariant, AnswersKnown, NEW n \in Edit, Queue(n)
    PROVE  AnswersKnown'
  <1>1. edits[n] \in EditRecord
    BY EditFacts
  <1>2. CASE TimerFires(n)
    BY <1>2, AttemptStepKnown DEF TimerFires, server, page
  <1>3. CASE Wake(n)
    BY <1>3, AttemptStepKnown DEF Wake, server, page
  <1>4. CASE ReplyStale(n)
    <2> DEFINE e == [edits[n] EXCEPT !.stage = "reread", !.obj = Len(objs[edits[n].case])]
    <2>1. e.stage # "patch" /\ edits' = [edits EXCEPT ![n] = e]
      BY <1>1, <1>4 DEF ReplyStale, EditRecord
    <2> HIDE DEF e
    <2> QED BY <1>4, <2>1, MoveStepKnown DEF ReplyStale, server, page
  <1>5. CASE ReplyConnection(n)
    <2> DEFINE e == [edits[n] EXCEPT !.stage = "sleep", !.outage = TRUE]
    <2>1. e.stage # "patch" /\ edits' = [edits EXCEPT ![n] = e]
      BY <1>1, <1>5 DEF ReplyConnection, EditRecord
    <2> HIDE DEF e
    <2> QED BY <1>5, <2>1, MoveStepKnown DEF ReplyConnection, server, page
  <1>6. CASE ReplyUnknown(n)
    <2> DEFINE e == [edits[n] EXCEPT !.stage = "sleep", !.unknowns = @ + 1]
    <2>1. e.stage # "patch" /\ edits' = [edits EXCEPT ![n] = e]
      BY <1>1, <1>6 DEF ReplyUnknown, EditRecord
    <2> HIDE DEF e
    <2> QED BY <1>6, <2>1, MoveStepKnown DEF ReplyUnknown, server, page
  <1>7. ASSUME NEW o \in Ended, edits' = [edits EXCEPT ![n].stage = o],
               UNCHANGED <<rows, objs, shown, adopted>>
        PROVE  AnswersKnown'
    <2> DEFINE e == [edits[n] EXCEPT !.stage = o]
    <2>1. e.stage # "patch" /\ edits' = [edits EXCEPT ![n] = e]
      BY <1>1, <1>7 DEF EditRecord, Ended
    <2> HIDE DEF e
    <2> QED BY <1>7, <2>1, MoveStepKnown
  <1>8. CASE Conflict(n)
    BY <1>7, <1>8 DEF Conflict, End, server, page, Ended
  <1>9. CASE RereadRejected(n)
    BY <1>7, <1>9 DEF RereadRejected, End, server, page, Ended
  <1>10. CASE GiveUp(n)
    BY <1>7, <1>10 DEF GiveUp, End, server, page, Ended
  <1>11. CASE ReplyOk(n)
    <2>0. PICK c \in Case, v \in Nat, i \in Nat :
             c = edits[n].case /\ v = edits[n].ver /\ i = edits[n].obj
      BY <1>1 DEF EditRecord
    <2> DEFINE a == AnswersAt(c, v)
               x == [etag |-> v, base |-> IF a = 0 THEN objs[c][i].base ELSE a]
    <2>1. c \in Case /\ i \in DOMAIN objs[c] /\ v \in 1..Len(rows[c])
      BY <1>11, <2>0, EditFacts DEF ReplyOk, EditRefsOK, InFlight, Arriving
    <2>2. /\ UNCHANGED <<rows, shown>> /\ objs' = [objs EXCEPT ![c] = [@ EXCEPT ![i] = x]]
          /\ adopted' = [adopted EXCEPT ![c] = @ \cup {a}]
          /\ edits' = [edits EXCEPT ![n].stage = "done"]
      BY <1>11, <2>0 DEF ReplyOk, End, server, page
    <2>3. objs[c][i].base \in KnownAnswers(c)
      BY <2>1 DEF AnswersKnown
    <2>4. adopted \in [Case -> SUBSET Int] /\ objs \in [Case -> Seq(Obj)]
      BY DEF TypeInvariant, TypeOK, Obj
    <2>5. a \in KnownAnswers(c)' /\ \A d \in Case : KnownAnswers(d) \subseteq KnownAnswers(d)'
      BY <2>1, <2>2, <2>4 DEF KnownAnswers
    <2>6. NothingForgotten
      BY <2>2, <2>5 DEF NothingForgotten, AnswersAt
    <2>7. x.etag = v /\ x.base \in KnownAnswers(c)'
      <3>1. KnownAnswers(c) \subseteq KnownAnswers(c)' /\ a \in KnownAnswers(c)'
        BY <2>1, <2>5 DEF KnownAnswers
      <3>2. x.base = objs[c][i].base \/ x.base = a
        OBVIOUS
      <3>3. x.etag = v
        OBVIOUS
      <3> HIDE DEF x, a
      <3> QED BY <3>1, <3>2, <3>3, <2>3
    <2> HIDE DEF x
    <2>8. /\ objs'[c] = [objs[c] EXCEPT ![i] = x] /\ \A d \in Case : d # c => objs'[d] = objs[d]
      BY <2>1, <2>2, <2>4
    <2>9. ObjsKnown
      <3>1. objs'[c][i] = x /\ DOMAIN objs'[c] = DOMAIN objs[c]
        BY <2>1, <2>8
      <3>2. AnswersAt(c, objs[c][i].etag)' = a
        BY <2>2, <2>7, <3>1 DEF AnswersAt
      <3>3. /\ AnswersAt(c, objs[c][i].etag)' \in KnownAnswers(c)'
            /\ objs'[c][i].base \in KnownAnswers(c)'
        BY <3>1, <3>2, <2>5, <2>7
      <3>4. \A d \in Case : \A j \in DOMAIN objs'[d] :
               d # c \/ j # i => j \in DOMAIN objs[d] /\ objs'[d][j] = objs[d][j]
        BY <3>1, <2>8
      <3> QED BY <3>3, <3>4 DEF ObjsKnown
    <2>10. PatchesKnown
      <3> DEFINE e == [edits[n] EXCEPT !.stage = "done"]
      <3>1. e.stage # "patch" /\ edits' = [edits EXCEPT ![n] = e]
        BY <1>1, <2>2 DEF EditRecord
      <3> HIDE DEF e
      <3> QED BY <3>1, MoveKnown
    <2> QED BY <2>6, <2>9, <2>10, KnownStep
  <1>12. CASE Rebase(n)
    <2> DEFINE c == edits[n].case
               v == edits[n].ver
               a == AnswersAt(c, v)
               i == edits[n].obj
               x == [etag |-> v, base |-> a]
               os == [objs[c] EXCEPT ![i] = x]
               e == Attempt(edits[n], os)
    <2>1. /\ c \in Case /\ i \in DOMAIN objs[c] /\ v \in 1..Len(rows[c])
          /\ objs[c] \in Seq(Obj) /\ objs[c] # <<>>
      BY <1>12, EditFacts DEF Rebase, EditRefsOK, InFlight, Arriving
    <2>2. /\ UNCHANGED <<rows, shown, adopted>> /\ objs' = [objs EXCEPT ![c] = os]
          /\ edits' = [edits EXCEPT ![n] = e] /\ a = objs[c][i].base
      BY <1>12 DEF Rebase, server, page
    <2>3. a \in KnownAnswers(c)
      BY <2>1, <2>2 DEF AnswersKnown
    <2>4. x \in Obj
      <3>1. v \in Nat /\ a \in Int
        BY <1>1, <2>1, AnswersType DEF EditRecord
      <3> QED BY <3>1 DEF Obj
    <2>5. objs \in [Case -> Seq(Obj)]
      BY DEF TypeInvariant, TypeOK, Obj
    <2>6. NothingForgotten
      BY <2>2, NothingForgottenStays
    <2>7. x.etag = v /\ x.base = a
      OBVIOUS
    <2> HIDE DEF x
    <2>8. /\ os \in Seq(Obj) /\ DOMAIN os = DOMAIN objs[c] /\ os # <<>> /\ os[i] = x
          /\ \A j \in DOMAIN objs[c] : j # i => os[j] = objs[c][j]
      BY SMTT(40), <2>1, <2>4, UpdateSeq, EmptySeq
    <2> HIDE DEF os
    <2>9. objs'[c] = os /\ \A d \in Case : d # c => objs'[d] = objs[d]
      BY <2>1, <2>2, <2>5
    <2>10. \A j \in DOMAIN os : AnswersAt(c, os[j].etag) \in KnownAnswers(c) /\ os[j].base \in KnownAnswers(c)
      BY <2>1, <2>3, <2>7, <2>8 DEF AnswersKnown
    <2>11. ObjsKnown
      BY <2>2, <2>9, <2>10 DEF ObjsKnown, AnswersAt, KnownAnswers
    <2>12. e.case = c /\ e.etag = os[Len(os)].etag /\ Len(os) \in DOMAIN os
      BY <1>1, <2>8, AttemptType
    <2> HIDE DEF e
    <2>13. Edit' = Edit /\ edits'[n] = e /\ \A m \in Edit : m # n => edits'[m] = edits[m]
      BY <2>2 DEF Edit
    <2>14. PatchesKnown
      <3>1. AnswersAt(c, e.etag) \in KnownAnswers(c)
        BY <2>10, <2>12
      <3>2. /\ edits'[n].case \in Case
            /\ AnswersAt(edits[n].case, edits[n].etag)' \in KnownAnswers(edits[n].case)'
        BY <3>1, <2>1, <2>2, <2>12, <2>13 DEF AnswersAt, KnownAnswers
      <3> QED BY <3>2, <2>13 DEF PatchesKnown
    <2> QED BY <2>6, <2>11, <2>14, KnownStep
  <1> QED BY <1>2, <1>3, <1>4, <1>5, <1>6, <1>8, <1>9, <1>10, <1>11, <1>12 DEF Queue

\* The rows of a step are extended; nothing else that is known changes.
LEMMA AppendKnown ==
    ASSUME TypeInvariant, NEW c \in Case, NEW r \in Row,
           rows' = [rows EXCEPT ![c] = Append(@, r)], UNCHANGED <<objs, shown, adopted>>
    PROVE  NothingForgotten
  <1>1. \A d \in Case : \A v \in 1..Len(rows[d]) : rows'[d][v] = rows[d][v]
    BY AppendRow
  <1>2. \A d \in Case : \A v \in 1..Len(rows[d]) : AnswersAt(d, v)' = AnswersAt(d, v)
    BY <1>1 DEF AnswersAt
  <1> QED BY <1>2 DEF NothingForgotten, KnownAnswers

LEMMA ServerKnown ==
    ASSUME TypeInvariant, AnswersKnown, NEW n \in Edit, Server(n) \/ Fault(n)
    PROVE  AnswersKnown'
  <1>1. edits[n] \in EditRecord
    BY EditFacts
  <1>2. ASSUME NEW s, s # "patch", NEW v, UNCHANGED <<rows, objs, shown, adopted>>,
               edits' = [edits EXCEPT ![n].stage = s]
                 \/ edits' = [edits EXCEPT ![n].stage = s, ![n].ver = v]
        PROVE  AnswersKnown'
    <2> DEFINE e == [edits[n] EXCEPT !.stage = s]
               d == [edits[n] EXCEPT !.stage = s, !.ver = v]
    <2>1. e.stage # "patch" /\ d.stage # "patch"
      BY <1>1, <1>2 DEF EditRecord
    <2>2. edits' = [edits EXCEPT ![n] = e] \/ edits' = [edits EXCEPT ![n] = d]
      BY <1>2
    <2> HIDE DEF e, d
    <2> QED BY <1>2, <2>1, <2>2, MoveStepKnown
  <1>3. CASE PatchStale(n)
    BY <1>2, <1>3 DEF PatchStale, server, page
  <1>4. CASE \E reply \in {"network", "unknown", "refused"} : PatchFails(n, reply)
    BY <1>2, <1>4 DEF PatchFails, page
  <1>5. CASE ConfirmRead(n)
    BY <1>2, <1>5 DEF ConfirmRead, server, page
  <1>6. CASE ConfirmFails(n)
    BY <1>2, <1>6 DEF ConfirmFails, page
  <1>7. CASE RereadAnswered(n)
    BY <1>2, <1>7 DEF RereadAnswered, server, page
  <1>8. CASE RereadFails(n)
    BY <1>2, <1>8 DEF RereadFails, page
  <1>9. CASE PatchApplied(n)
    <2> DEFINE c == edits[n].case
               row == [f \in Field |-> IF f \in FieldsOf(n) THEN n ELSE Latest(c)[f]]
               s == IF ByReread THEN "confirm" ELSE "ok"
               e == [edits[n] EXCEPT !.stage = s, !.ver = Len(rows[c]) + 1, !.landed = TRUE]
               d == [edits[n] EXCEPT !.stage = "network", !.landed = TRUE]
    <2>1. /\ rows' = [rows EXCEPT ![c] = Append(@, row)] /\ UNCHANGED <<objs, shown, adopted>>
          /\ edits' = [edits EXCEPT ![n] = e] \/ edits' = [edits EXCEPT ![n] = d]
      BY <1>9 DEF PatchApplied, page
    <2>2. row \in Row
      <3>1. n \in Int
        BY LenProperties DEF TypeInvariant, TypeOK, Edit
      <3>2. c \in Case /\ Latest(c) \in Row
        BY EditFacts, LastElement DEF Latest
      <3> QED BY <3>1, <3>2 DEF Row
    <2>3. e.stage # "patch" /\ d.stage # "patch"
      BY <1>1 DEF EditRecord
    <2> HIDE DEF row, e, d
    <2>4. NothingForgotten
      BY <2>1, <2>2, EditFacts, AppendKnown
    <2>5. PatchesKnown
      BY <2>1, <2>3, MoveKnown
    <2> QED BY <2>1, <2>4, <2>5, ObjsStay, KnownStep
  <1> QED BY <1>3, <1>4, <1>5, <1>6, <1>7, <1>8, <1>9 DEF Server, Fault

LEMMA OtherWriteKnown ==
    ASSUME TypeInvariant, AnswersKnown, NEW c \in Case, NEW f \in Field, OtherWrite(c, f)
    PROVE  AnswersKnown'
  <1> DEFINE r == [Latest(c) EXCEPT ![f] = -(others + 1)]
  <1>1. rows' = [rows EXCEPT ![c] = Append(@, r)] /\ UNCHANGED <<edits, objs, shown, adopted>>
    BY DEF OtherWrite, page
  <1>2. r \in Row
    <2>1. Latest(c) \in Row
      BY CaseTypes, LastElement DEF Latest, CaseRefsOK
    <2>2. others \in Nat
      BY DEF TypeInvariant, TypeOK
    <2> QED BY <2>1, <2>2 DEF Row
  <1> HIDE DEF r
  <1>3. NothingForgotten
    BY <1>1, <1>2, AppendKnown
  <1>4. PatchesKnown
    BY <1>1 DEF PatchesKnown, Edit
  <1> QED BY <1>1, <1>3, <1>4, ObjsStay, KnownStep

\* A page load hands over Answers, and they are then shown.
LEMMA LoadCaseKnown ==
    ASSUME TypeInvariant, AnswersKnown, NEW c \in Case, LoadCase(c)
    PROVE  AnswersKnown'
  <1>1. PICK v \in Nat : v = reading[c]
    BY DEF TypeInvariant, TypeOK
  <1> DEFINE a == AnswersAt(c, v)
             x == [etag |-> v, base |-> a]
             os == Append(objs[c], x)
  <1>2. v \in 1..Len(rows[c]) /\ objs[c] \in Seq(Obj) /\ Len(objs[c]) \in Nat
    BY <1>1, CaseTypes DEF LoadCase, CaseRefsOK
  <1>3. /\ objs' = [objs EXCEPT ![c] = os] /\ UNCHANGED <<rows, edits, adopted>>
        /\ shown' = [shown EXCEPT ![c] = @ \cup {a}]
    BY <1>1 DEF LoadCase, server
  <1>4. x \in Obj /\ x.etag = v /\ x.base = a
    BY <1>2, AnswersType DEF Obj
  <1>5. /\ DOMAIN os = 1..Len(objs[c]) + 1 /\ DOMAIN objs[c] = 1..Len(objs[c])
        /\ \A i \in 1..Len(objs[c]) : os[i] = objs[c][i]
        /\ os[Len(objs[c]) + 1] = x
    <2> HIDE DEF x
    <2>1. os \in Seq(Obj) /\ Len(os) = Len(objs[c]) + 1
      BY <1>2, <1>4, AppendProperties
    <2> QED BY <1>2, <1>4, <2>1, AppendProperties, LenProperties
  <1>6. objs \in [Case -> Seq(Obj)] /\ shown \in [Case -> SUBSET Int]
    BY DEF TypeInvariant, TypeOK, Obj
  <1>7. shown'[c] = shown[c] \cup {a} /\ \A d \in Case : shown[d] \subseteq shown'[d]
    BY <1>3, <1>6
  <1>8. NothingForgotten
    BY <1>3, <1>7 DEF NothingForgotten, KnownAnswers, AnswersAt
  <1> HIDE DEF x
  <1>9. ObjsKnown
    <2> HIDE DEF os
    <2>1. objs'[c] = os /\ \A d \in Case : d # c => objs'[d] = objs[d]
      BY <1>3, <1>6
    <2>2. ASSUME NEW d \in Case, NEW i \in DOMAIN objs'[d],
                 ~(i \in DOMAIN objs[d] /\ objs'[d][i] = objs[d][i])
          PROVE  d = c /\ objs'[d][i] = x
      <3>1. d = c
        BY <2>1, <2>2
      <3>2. i \in 1..Len(objs[c]) + 1 /\ objs'[d] = os
        BY <1>5, <2>1, <3>1 DEF os
      <3>3. i \notin 1..Len(objs[c])
        BY <1>5, <2>2, <3>1, <3>2 DEF os
      <3>4. i = Len(objs[c]) + 1
        BY <1>2, <3>2, <3>3
      <3> QED BY <1>5, <3>1, <3>2, <3>4 DEF os
    <2>3. ASSUME NEW i \in DOMAIN objs'[c], objs'[c][i] = x
          PROVE  /\ AnswersAt(c, objs[c][i].etag)' \in KnownAnswers(c)'
                 /\ objs'[c][i].base \in KnownAnswers(c)'
      <3>1. AnswersAt(c, objs[c][i].etag)' = a
        BY <1>3, <1>4, <2>3 DEF AnswersAt
      <3>2. a \in KnownAnswers(c)'
        BY <1>7 DEF KnownAnswers
      <3> QED BY <1>4, <2>3, <3>1, <3>2
    <2> QED BY <2>2, <2>3 DEF ObjsKnown
  <1>10. PatchesKnown
    BY <1>3 DEF PatchesKnown, Edit
  <1> QED BY <1>8, <1>9, <1>10, KnownStep

LEMMA FlushCaseKnown ==
    ASSUME TypeInvariant, AnswersKnown, NEW c \in Case, FlushCase(c)
    PROVE  AnswersKnown'
  <1>1. UNCHANGED <<rows, objs, shown, adopted>> /\ Edit' = Edit
    BY DEF FlushCase, server, Edit
  <1>2. ASSUME NEW m \in Edit PROVE edits'[m] = edits[m] \/ edits'[m].stage # "patch"
    <2>1. edits[m] \in EditRecord
      BY EditFacts
    <2> QED BY <2>1 DEF FlushCase, EditRecord
  <1> QED BY <1>1, <1>2, RewriteKnown

LEMMA FlushCaseReturnKnown ==
    ASSUME TypeInvariant, AnswersKnown, NEW c \in Case, NEW r, FlushCaseReturn(c, r),
           UNCHANGED <<rows, objs, shown, adopted>>
    PROVE  AnswersKnown'
  <1>1. Edit' = Edit
    BY DEF FlushCaseReturn, Edit
  <1>2. ASSUME NEW m \in Edit PROVE edits'[m] = edits[m] \/ edits'[m].stage # "patch"
    <2>1. edits[m] \in EditRecord
      BY EditFacts
    <2> QED BY <2>1 DEF FlushCaseReturn, EditRecord
  <1> QED BY <1>1, <1>2, RewriteKnown

LEMMA FlushCaseResumeKnown ==
    ASSUME TypeInvariant, AnswersKnown, NEW c \in Case, FlushCaseResume(c)
    PROVE  AnswersKnown'
  <1>1. UNCHANGED <<rows, objs, shown, adopted>>
    BY DEF FlushCaseResume, server
  <1>2. CASE \E r : FlushCaseReturn(c, r)
    BY <1>1, <1>2, FlushCaseReturnKnown
  <1>3. CASE \E n \in fc[c].todo : edits' = [edits EXCEPT ![n] = Attempt(@, objs[c])]
    <2>1. PICK n \in fc[c].todo : edits' = [edits EXCEPT ![n] = Attempt(@, objs[c])]
      BY <1>3
    <2>2. n \in Edit /\ edits[n].case = c
      BY CaseTypes DEF CaseRefsOK
    <2>3. edits' = [edits EXCEPT ![n] = Attempt(@, objs[@.case])]
      BY <2>1, <2>2
    <2> QED BY <1>1, <2>2, <2>3, AttemptStepKnown
  <1> QED BY <1>2, <1>3 DEF FlushCaseResume

LEMMA EnqueueKnown ==
    ASSUME TypeInvariant, AnswersKnown, NEW c \in Case, NEW k \in Key, Enqueue(c, k)
    PROVE  AnswersKnown'
  <1> DEFINE e == [case |-> c, key |-> k, stage |-> "pending", obj |-> 0, etag |-> 0,
                   ver |-> 0, attempts |-> 0, unknowns |-> 0, outage |-> FALSE,
                   popped |-> FALSE, landed |-> FALSE]
             kept == [n \in Edit |->
                        IF n \in PendingOf(c) /\ edits[n].key = k
                        THEN [edits[n] EXCEPT !.stage = "replaced"] ELSE edits[n]]
  <1>1. edits' = Append(kept, e) /\ UNCHANGED <<rows, objs, shown, adopted>>
    BY DEF Enqueue, server, page
  <1>2. ASSUME NEW m \in Edit
        PROVE  kept[m] \in EditRecord /\ (kept[m] = edits[m] \/ kept[m].stage # "patch")
    <2>1. edits[m] \in EditRecord /\ "replaced" \in Stage
      BY EditFacts, StageNames DEF Ended
    <2> QED BY <2>1 DEF EditRecord
  <1>3. e \in EditRecord /\ e.stage # "patch"
    BY StageNames DEF EditRecord
  <1>4. kept = [m \in Edit |-> kept[m]] /\ edits \in Seq(EditRecord)
    BY DEF TypeInvariant, TypeOK
  <1> HIDE DEF e, kept
  <1>5. kept \in Seq(EditRecord) /\ Len(kept) = Len(edits)
    BY <1>2, <1>4, MapSeq, Zenon DEF Edit
  <1>6. /\ edits' \in Seq(EditRecord) /\ Len(edits') = Len(edits) + 1
        /\ \A m \in 1..Len(edits) : edits'[m] = kept[m]
        /\ edits'[Len(edits) + 1] = e
    BY <1>1, <1>3, <1>5, AppendProperties
  <1>7. Edit = 1..Len(edits) /\ Edit' = 1..Len(edits) + 1 /\ Len(edits) \in Nat
    BY <1>4, <1>6, LenProperties DEF Edit
  <1>8. \A m \in Edit' : (m \in Edit /\ edits'[m] = edits[m]) \/ edits'[m].stage # "patch"
    BY <1>2, <1>3, <1>6, <1>7
  <1> QED BY <1>1, <1>8, RewriteKnown

LEMMA StepKnown == TypeInvariant /\ AnswersKnown /\ [Next]_vars => AnswersKnown'
  <1> SUFFICES ASSUME TypeInvariant, AnswersKnown, [Next]_vars PROVE AnswersKnown'
    OBVIOUS
  <1>1. CASE UNCHANGED <<rows, edits, objs, shown, adopted>>
    <2>1. ObjsKnown /\ NothingForgotten
      BY <1>1, ObjsStay, NothingForgottenStays
    <2>2. PatchesKnown
      BY <1>1 DEF PatchesKnown, Edit
    <2> QED BY <2>1, <2>2, KnownStep
  <1>2. ASSUME NEW c \in Case, PageRead(c) PROVE AnswersKnown'
    BY <1>1, <1>2 DEF PageRead, server
  <1>3. ASSUME NEW c \in Case, User(c) PROVE AnswersKnown'
    BY <1>2, <1>3, LoadCaseKnown, EnqueueKnown, FlushCaseKnown DEF User
  <1>4. ASSUME NEW c \in Case, FlushCaseResume(c) PROVE AnswersKnown'
    BY <1>4, FlushCaseResumeKnown
  <1>5. ASSUME NEW c \in Case, NEW f \in Field, OtherWrite(c, f) PROVE AnswersKnown'
    BY <1>5, OtherWriteKnown
  <1>6. ASSUME NEW n \in Edit, Server(n) \/ Fault(n) PROVE AnswersKnown'
    BY <1>6, ServerKnown
  <1>7. ASSUME NEW n \in Edit, Queue(n) PROVE AnswersKnown'
    BY <1>7, QueueKnown
  <1>8. CASE WhenIdle
    BY <1>1, <1>8 DEF WhenIdle, server, page
  <1>9. CASE UNCHANGED vars
    BY <1>1, <1>9 DEF vars
  <1> QED BY <1>3, <1>4, <1>5, <1>6, <1>7, <1>8, <1>9 DEF Next

LEMMA InitKnown == Init => AnswersKnown
  <1> SUFFICES ASSUME Init PROVE AnswersKnown
    OBVIOUS
  <1>1. (\A c \in Case : DOMAIN objs[c] = {}) /\ Edit = {}
    BY DEF Init, Edit
  <1> QED BY <1>1 DEF AnswersKnown

\* An ETag the server accepts is the latest version's, and what it holds is known.
LEMMA KnownIsRead == TypeInvariant /\ AnswersKnown => NoUnreadOverwrite
  <1> SUFFICES ASSUME TypeInvariant, AnswersKnown, NEW n \in Edit, WouldReplaceAnswers(n)
               PROVE  LET a == Latest(edits[n].case)[Answers]
                      IN  a < 0 => a \in shown[edits[n].case] \cup adopted[edits[n].case]
    BY DEF NoUnreadOverwrite
  <1> DEFINE c == edits[n].case
             a == Latest(c)[Answers]
  <1>1. a = AnswersAt(c, edits[n].etag)
    BY DEF WouldReplaceAnswers, Latest, AnswersAt
  <1>2. a \in KnownAnswers(c)
    BY <1>1 DEF AnswersKnown, WouldReplaceAnswers
  <1>3. a < 0 => a \notin Nat
    OBVIOUS
  <1> QED BY <1>2, <1>3 DEF KnownAnswers

\* However flushes, replies, page loads and other writers interleave, an Answers
\* write replaces another writer's Answers only when this tab was given them.
THEOREM NoUnreadOverwriteHolds == Spec => []NoUnreadOverwrite
  <1>1. TypeInvariant /\ TypeInvariant' /\ AnswersKnown /\ [Next]_vars => AnswersKnown'
    BY StepKnown
  <1> QED BY <1>1, InitKnown, KnownIsRead, TypeCorrect, PTL DEF Spec
=============================================================================
