-------------------------- MODULE CaseReviewProofs --------------------------
(***************************************************************************)
(* Proofs about CaseReview for any number of tabs, users, edits, messages, *)
(* loads, support actions and faults.  An ETag names a version of the row, *)
(* and every write of the row makes a new one: what was known of the row   *)
(* under an ETag is known of it still, or the ETag is refused.  The        *)
(* invariant says, for each ETag a tab, a request or the support page      *)
(* holds, what its holder knows of that version.                           *)
(***************************************************************************)
EXTENDS CaseReviewProperties, TLAPS

----------------------------------------------------------------------------
(* The inductive invariant *)

\* No ETag is ahead of the row; a write in flight has its queue's, unless the
\* Case was loaded since.
EtagsKnown(t) ==
    /\ queue[t].etag <= row.version
    /\ queue[t].sent.etag <= row.version
    /\ move[t].etag <= row.version
    /\ \A p \in posts[t] : p.etag <= row.version
    /\ queue[t].sent.live /\ queue[t].sent.stage \in {"patch", "stale"}
          => queue[t].sent.etag = queue[t].etag

\* What a page shows under an ETag it is not behind, when that is the row's.
Fresh(t) ==
    /\ page[t].status = row.status
    /\ page[t].mine => row.reviewer = UserOf[t]
    /\ row.thread \subseteq page[t].thread
    /\ peek[t].out => row.thread \subseteq peek[t].thread

Sees(t, etag) == page[t].open /\ ~behind[t] /\ etag = row.version => Fresh(t)

PageFresh(t) ==
    /\ page[t].mine => t \in ReviewTab
    /\ Sees(t, queue[t].etag)
    /\ queue[t].sent.stage = "ok" /\ queue[t].sent.live => Sees(t, queue[t].sent.etag)
    /\ \A p \in posts[t] : Sees(t, p.etag)
    /\ page[t].open /\ ~behind[t]
          => \A p \in posts[t] : p.thread \subseteq page[t].thread /\ ~peek[t].out

\* Which status each transition is built for.
BuiltFor(op, status) ==
    CASE op \in {"send", "complete"} -> status = "inProgress"
      [] op = "close" -> status = "actions"
      [] op = "void" -> status \in {"inProgress", "actions"}

MoveInformed(t) ==
    /\ move[t].stage # "idle" => t \in ReviewTab /\ BuiltFor(move[t].op, move[t].shown)
    /\ move[t].stage = "flushing" /\ ~behind[t] =>
          page[t].open /\ page[t].mine /\ page[t].status = move[t].shown
    /\ move[t].stage = "sent" /\ ~move[t].behind /\ move[t].etag = row.version =>
          row.status = move[t].shown /\ row.reviewer = UserOf[t]

PostsInformed(t) ==
    \A p \in posts[t] :
       p.stage = "patch" /\ ~p.behind /\ p.etag = row.version =>
          row.status \notin {"completed", "void"} /\ row.thread \subseteq p.thread

TabInv(t) == EtagsKnown(t) /\ PageFresh(t) /\ MoveInformed(t) /\ PostsInformed(t)

SupportKnown ==
    /\ support.seen.version <= row.version
    /\ support.seen.version = row.version => support.seen = row
    /\ support.stage = "sent" =>
          /\ SupportAllowed(support.op, support.seen, support.user)
          /\ support.user \in User
          /\ log[Len(log)].before = Completion(support.seen)

IInv ==
    /\ TypeInvariant
    /\ \A t \in Tab : TabInv(t)
    /\ SupportKnown
    /\ StampsAgree
    /\ ClosedWaitsOnNobody
    /\ ClearedIsLogged

----------------------------------------------------------------------------
(* Types *)

USE ReviewAssumption

LEMMA Update ==
    ASSUME NEW S, NEW T, NEW f \in [S -> T], NEW x \in S, NEW e \in T
    PROVE  [f EXCEPT ![x] = e] \in [S -> T]
  OBVIOUS

LEMMA UpdateSeq ==
    ASSUME NEW S, NEW s \in Seq(S), NEW i \in DOMAIN s, NEW e \in S
    PROVE  [s EXCEPT ![i] = e] \in Seq(S)
  OBVIOUS

LEMMA SpendType ==
    ASSUME NEW c \in Counter, used \in [Counter -> Nat], Spend(c)
    PROVE  used' \in [Counter -> Nat] /\ used'[c] \in Nat
  BY DEF Spend

LEMMA Names ==
    /\ {"edits", "others", "messages", "loads", "refreshes", "claims", "support", "faults"} \subseteq Counter
    /\ {"toAllocate", "inProgress", "actions", "completed", "void"} \subseteq Status
    /\ {"send", "complete", "close", "void"} \subseteq Op
    /\ EditKind \subseteq Kind /\ FirstKind \subseteq Kind
    /\ Answered \subseteq Unsaved /\ NoWrite \in Unsaved /\ NoAnswers \in Unsaved
    /\ Answered \subseteq Stamp /\ NoStamp \in Stamp /\ NoStamp \in Nat
    /\ Answered \subseteq Nat /\ Stamp \subseteq Nat
    /\ NoWrite \notin Answered /\ NoAnswers \notin Answered /\ NoStamp \notin Answered /\ NoWrite # NoAnswers
  BY DEF Counter, Status, Op, Kind, Answered, Unsaved, Stamp, NoWrite, NoAnswers, NoStamp

LEMMA RowFacts ==
    ASSUME NEW r \in RowType
    PROVE  /\ r.version \in Nat /\ r.version + 1 \in Nat
           /\ r.answers \in Answered /\ r.stamp \in Stamp /\ r.status \in Status
           /\ r.thread \in SUBSET Nat /\ r.reviewer \in User \cup {Nobody}
           /\ r.reportable \in BOOLEAN /\ r.completed \in BOOLEAN /\ r.awaiting \in BOOLEAN
  BY DEF RowType

LEMMA QueueFacts ==
    ASSUME NEW q \in QueueType
    PROVE  /\ q.etag \in Nat /\ q.base \in Answered /\ q.want \in Unsaved /\ q.todo \in Unsaved
           /\ q.lost \in SUBSET {"answers", "other"} /\ q.conflict \in BOOLEAN
           /\ q.dropped \in BOOLEAN
           /\ q.sent \in SaveType
           /\ q.sent.etag \in Nat /\ q.sent.val \in Unsaved
           /\ q.sent.live \in BOOLEAN /\ q.sent.flush \in BOOLEAN
           /\ q.sent.stage \in {"none", "patch", "ok", "stale"}
  BY DEF QueueType, SaveType

----------------------------------------------------------------------------
(* The operations on a row, a queue, a page *)

LEMMA MovedRow ==
    ASSUME row \in RowType, NEW op \in Op, NEW s \in Stamp
    PROVE  AfterMove(op, s) \in RowType
  BY RowFacts, Names DEF AfterMove, RowType, Op

LEMMA SupportedRow ==
    ASSUME row \in RowType, NEW op \in SupportOp, NEW u \in User \cup {Nobody}
    PROVE  AfterSupport(op, u) \in RowType
  BY RowFacts, Names DEF AfterSupport, RowType, SupportOp

LEMMA WrittenRow ==
    ASSUME row \in RowType
    PROVE  /\ \A u \in User : AfterClaim(u) \in RowType
           /\ \A n \in Unsaved : n # NoWrite => AfterSave(n) \in RowType
           /\ \A th \in SUBSET Nat, asks \in BOOLEAN : AfterPost(th, asks) \in RowType
  <1>1. \A u \in User : AfterClaim(u) \in RowType
    BY RowFacts, Names DEF AfterClaim, RowType
  <1>2. \A n \in Unsaved : n # NoWrite => AfterSave(n) \in RowType
    BY RowFacts, Names DEF AfterSave, RowType, Unsaved
  <1>3. \A th \in SUBSET Nat, asks \in BOOLEAN : AfterPost(th, asks) \in RowType
    BY RowFacts, Names DEF AfterPost, RowType
  <1> QED BY <1>1, <1>2, <1>3

LEMMA QueueOps ==
    ASSUME row \in RowType, NEW q \in QueueType
    PROVE  /\ Reloaded(q) \in QueueType /\ UnderNewPage(q) \in QueueType
           /\ \A n \in Answered \cup {NoAnswers} : Enqueue(q, n) \in QueueType
           /\ SentWanted(q) \in QueueType /\ SentPopped(q) \in QueueType /\ Popped(q) \in QueueType
           /\ Landed(q) \in QueueType /\ Refused(q) \in QueueType
           /\ Confirmed(q) \in QueueType /\ Rebased(q) \in QueueType
           /\ Conflicted(q) \in QueueType /\ GivenUp(q) \in QueueType
  <1> USE RowFacts, QueueFacts, Names
  <1>1. Reloaded(q) \in QueueType /\ UnderNewPage(q) \in QueueType
    BY DEF Reloaded, UnderNewPage, QueueType, SaveType
  <1>2. \A n \in Answered \cup {NoAnswers} : Enqueue(q, n) \in QueueType
    BY ZenonT(60) DEF Enqueue, QueueType
  <1>3. SentWanted(q) \in QueueType /\ SentPopped(q) \in QueueType
    <2>1. \A n \in Unsaved, f \in BOOLEAN : Write(q, n, f) \in SaveType
      BY DEF Write, SaveType
    <2> QED BY <2>1 DEF SentWanted, SentPopped, QueueType
  <1>4. Popped(q) \in QueueType
    BY DEF Popped, QueueType, SaveType
  <1>5. Landed(q) \in QueueType /\ Refused(q) \in QueueType
    BY DEF Landed, Refused, QueueType, SaveType
  <1>6. Confirmed(q) \in QueueType
    <2>1. NoSave \in SaveType
      BY DEF NoSave, SaveType
    <2> QED BY <2>1 DEF Confirmed, QueueType
  <1>7. Rebased(q) \in QueueType
    BY DEF Rebased, QueueType, SaveType
  <1>8. Ended(q) \in QueueType
    <2>1. NoSave \in SaveType
      BY DEF NoSave, SaveType
    <2>2. (q.dropped \/ (q.sent.flush /\ HasAnswers(q.todo) /\ ~HasAnswers(q.want))) \in BOOLEAN
      OBVIOUS
    <2>3. (IF q.sent.flush THEN NoWrite ELSE q.todo) \in Unsaved
      OBVIOUS
    <2> DEFINE todo == IF q.sent.flush THEN NoWrite ELSE q.todo
    <2> DEFINE gone == q.dropped \/ (q.sent.flush /\ HasAnswers(q.todo) /\ ~HasAnswers(q.want))
    <2>4. Ended(q) = [q EXCEPT !.sent = NoSave, !.todo = todo, !.dropped = gone]
      BY DEF Ended
    <2>5. todo \in Unsaved /\ gone \in BOOLEAN
      BY <2>2, <2>3
    <2> HIDE DEF todo, gone
    <2> QED BY ZenonT(60), <2>1, <2>4, <2>5 DEF QueueType
  <1>9. Conflicted(q) \in QueueType
    BY <1>8 DEF Conflicted, QueueType
  <1>10. GivenUp(q) \in QueueType
    <2>1. FieldOf(q.sent.val) \in {"answers", "other"}
      BY DEF FieldOf
    <2>2. Ended(q).lost \in SUBSET {"answers", "other"}
      BY <1>8 DEF QueueType
    <2> QED BY <1>8, <2>1, <2>2 DEF GivenUp, QueueType
  <1> QED BY <1>1, <1>2, <1>3, <1>4, <1>5, <1>6, <1>7, <1>9, <1>10

LEMMA MoveOps ==
    ASSUME NEW m \in MoveType, NEW shown \in PageType, NEW op \in Op, edits \in Seq(EditType)
    PROVE  /\ Idle \in MoveType
           /\ \A late \in BOOLEAN :
                 Asked(shown, op, late) \in MoveType /\ Asked(shown, op, late).stamp # NoStamp
           /\ \A n \in Nat, late \in BOOLEAN : SentUnder(m, n, late) \in MoveType
           /\ MovedTo(m, "ok") \in MoveType /\ MovedTo(m, "refused") \in MoveType
  <1> USE Names
  <1>1. Idle \in MoveType
    BY DEF Idle, MoveType
  <1>2. \A late \in BOOLEAN :
           Asked(shown, op, late) \in MoveType /\ Asked(shown, op, late).stamp # NoStamp
    <2>1. shown.answers \in Answered /\ shown.status \in Status
      BY DEF PageType
    <2>2. edits[shown.answers] \in EditType
      BY <2>1 DEF Answered
    <2>3. edits[shown.answers].basis \in Answered
      BY <2>2 DEF EditType
    <2> QED BY <2>1, <2>3 DEF Asked, MoveType
  <1>3. \A n \in Nat, late \in BOOLEAN : SentUnder(m, n, late) \in MoveType
    BY DEF SentUnder, MoveType
  <1>4. MovedTo(m, "ok") \in MoveType /\ MovedTo(m, "refused") \in MoveType
    BY DEF MovedTo, MoveType
  <1> QED BY <1>1, <1>2, <1>3, <1>4

LEMMA PageOps ==
    ASSUME row \in RowType, NEW shown \in PageType
    PROVE  /\ \A t \in Tab : Snapshot(t) \in PageType
           /\ Closed \in PageType
           /\ \A n \in Answered : WithAnswers(shown, n) \in PageType
           /\ \A th \in SUBSET Nat : WithThread(shown, th) \in PageType
           /\ NoPeek \in PeekType
  <1> USE RowFacts, Names
  <1>1. \A t \in Tab : Snapshot(t) \in PageType
    BY DEF Snapshot, PageType
  <1>2. \A n \in Answered : WithAnswers(shown, n) \in PageType
    BY DEF WithAnswers, PageType
  <1>3. \A th \in SUBSET Nat : WithThread(shown, th) \in PageType
    BY DEF WithThread, PageType
  <1>4. Closed \in PageType
    <2>1. 1 \in Answered
      BY DEF RowType, Answered
    <2> QED BY <2>1 DEF Closed, PageType
  <1>5. NoPeek \in PeekType
    BY DEF NoPeek, PeekType
  <1> QED BY <1>1, <1>2, <1>3, <1>4, <1>5

LEMMA EntryOps ==
    ASSUME row \in RowType
    PROVE  /\ \A op \in SupportOp, seen \in RowType : Entry(op, seen) \in EntryType
           /\ \A e \in EntryType : Applied(e) \in EntryType /\ Denied(e) \in EntryType
  <1>1. \A r \in RowType : Completion(r) \in Triple
    BY RowFacts, Names DEF Completion, Triple
  <1>2. \A op \in SupportOp, seen \in RowType : Entry(op, seen) \in EntryType
    BY <1>1 DEF Entry, EntryType
  <1>3. \A e \in EntryType : Applied(e) \in EntryType /\ Denied(e) \in EntryType
    BY <1>1 DEF Applied, Denied, EntryType
  <1> QED BY <1>2, <1>3

----------------------------------------------------------------------------
(* Every step keeps the types *)

LEMMA TabFacts ==
    ASSUME TypeInvariant, NEW t \in Tab
    PROVE  /\ page[t] \in PageType /\ queue[t] \in QueueType /\ move[t] \in MoveType
           /\ posts[t] \in SUBSET PostType /\ peek[t] \in PeekType
           /\ behind[t] \in BOOLEAN
           /\ Carries(t)
           /\ row \in RowType /\ edits \in Seq(EditType)
  BY DEF TypeInvariant, TypeOK

LEMMA PeekFact ==
    ASSUME NEW p \in PeekType
    PROVE  p.thread \in SUBSET Nat /\ p.out \in BOOLEAN
  BY DEF PeekType

LEMMA PostFact ==
    ASSUME NEW p \in PostType
    PROVE  p.thread \in SUBSET Nat /\ p.etag \in Nat /\ p.behind \in BOOLEAN
  BY DEF PostType

LEMMA ReloadedFields ==
    ASSUME NEW q \in QueueType
    PROVE  /\ Reloaded(q).etag = row.version /\ Reloaded(q).sent.stage = q.sent.stage
           /\ Reloaded(q).sent.val = q.sent.val /\ Reloaded(q).sent.etag = q.sent.etag
           /\ ~Reloaded(q).sent.live
           /\ UnderNewPage(q).etag = Reloaded(q).etag /\ UnderNewPage(q).sent = Reloaded(q).sent
  BY DEF Reloaded, UnderNewPage, QueueType, SaveType

LEMMA PoppedFields ==
    ASSUME NEW q \in QueueType
    PROVE  /\ Popped(q).etag = q.etag /\ Popped(q).sent.stage = q.sent.stage
           /\ Popped(q).sent.val = q.sent.val /\ Popped(q).sent.etag = q.sent.etag
           /\ Popped(q).sent.live = q.sent.live
  BY DEF Popped, QueueType, SaveType

LEMMA SentWantedFields ==
    ASSUME NEW q \in QueueType
    PROVE  /\ SentWanted(q).etag = q.etag /\ SentWanted(q).sent.stage = "patch"
           /\ SentWanted(q).sent.val = q.want /\ SentWanted(q).sent.etag = q.etag
           /\ SentWanted(q).sent.live
  BY DEF SentWanted, Write, QueueType, SaveType

LEMMA SentPoppedFields ==
    ASSUME NEW q \in QueueType
    PROVE  /\ SentPopped(q).etag = q.etag /\ SentPopped(q).sent.stage = "patch"
           /\ SentPopped(q).sent.val = q.todo /\ SentPopped(q).sent.etag = q.etag
           /\ SentPopped(q).sent.live
  BY DEF SentPopped, Write, QueueType, SaveType

LEMMA LandedFields ==
    ASSUME NEW q \in QueueType
    PROVE  /\ Landed(q).etag = q.etag /\ Landed(q).sent.stage = "ok"
           /\ Landed(q).sent.val = q.sent.val /\ Landed(q).sent.etag = row.version + 1
           /\ Landed(q).sent.live = q.sent.live
  BY DEF Landed, QueueType, SaveType

LEMMA RefusedFields ==
    ASSUME NEW q \in QueueType
    PROVE  /\ Refused(q).etag = q.etag /\ Refused(q).sent.stage = "stale"
           /\ Refused(q).sent.val = q.sent.val /\ Refused(q).sent.etag = q.sent.etag
           /\ Refused(q).sent.live = q.sent.live
  BY DEF Refused, QueueType, SaveType

LEMMA RebasedFields ==
    ASSUME NEW q \in QueueType
    PROVE  /\ Rebased(q).etag = row.version /\ Rebased(q).sent.stage = "patch"
           /\ Rebased(q).sent.val = q.sent.val /\ Rebased(q).sent.etag = row.version
           /\ Rebased(q).sent.live
  BY DEF Rebased, QueueType, SaveType

LEMMA ConfirmedFields ==
    ASSUME NEW q \in QueueType
    PROVE  /\ Confirmed(q).etag = (IF q.sent.live THEN row.version ELSE q.etag) /\ Confirmed(q).sent.stage = "none"
           /\ Confirmed(q).sent.val = NoWrite /\ Confirmed(q).sent.etag = 0
           /\ ~Confirmed(q).sent.live
  BY DEF Confirmed, NoSave, QueueType, SaveType

LEMMA ConflictedFields ==
    ASSUME NEW q \in QueueType
    PROVE  /\ Conflicted(q).etag = q.etag /\ Conflicted(q).sent.stage = "none"
           /\ Conflicted(q).sent.val = NoWrite /\ Conflicted(q).sent.etag = 0
           /\ ~Conflicted(q).sent.live
  BY DEF Conflicted, Ended, NoSave, QueueType, SaveType

LEMMA GivenUpFields ==
    ASSUME NEW q \in QueueType
    PROVE  /\ GivenUp(q).etag = q.etag /\ GivenUp(q).sent.stage = "none"
           /\ GivenUp(q).sent.val = NoWrite /\ GivenUp(q).sent.etag = 0
           /\ ~GivenUp(q).sent.live
  BY DEF GivenUp, Ended, NoSave, QueueType, SaveType

LEMMA EnqueueFields ==
    ASSUME NEW q \in QueueType, NEW n
    PROVE  Enqueue(q, n).etag = q.etag /\ Enqueue(q, n).sent = q.sent
  BY DEF Enqueue, QueueType

LEMMA MoveFields ==
    ASSUME NEW m \in MoveType
    PROVE  /\ \A n \in Nat, late \in BOOLEAN :
                  /\ SentUnder(m, n, late).stage = "sent" /\ SentUnder(m, n, late).etag = n
                  /\ SentUnder(m, n, late).behind = late
                  /\ SentUnder(m, n, late).stamp = m.stamp /\ SentUnder(m, n, late).op = m.op
                  /\ SentUnder(m, n, late).shown = m.shown
           /\ \A stage \in {"ok", "refused"} :
                  /\ MovedTo(m, stage).stage = stage /\ MovedTo(m, stage).etag = m.etag
                  /\ MovedTo(m, stage).stamp = m.stamp /\ MovedTo(m, stage).op = m.op
                  /\ MovedTo(m, stage).shown = m.shown
           /\ Idle.stage = "idle" /\ Idle.etag = 0
  BY DEF SentUnder, MovedTo, Idle, MoveType

LEMMA QueueSends ==
    ASSUME row \in RowType, NEW q \in QueueType, Sends(q)
    PROVE  /\ Sends(Reloaded(q)) /\ Sends(UnderNewPage(q)) /\ Sends(Popped(q))
           /\ \A n \in Answered \cup {NoAnswers} : Sends(Enqueue(q, n))
           /\ q.want # NoWrite => Sends(SentWanted(q))
           /\ q.todo # NoWrite => Sends(SentPopped(q))
           /\ q.sent.stage # "none" => Sends(Landed(q)) /\ Sends(Refused(q)) /\ Sends(Rebased(q))
           /\ Sends(Confirmed(q)) /\ Sends(Conflicted(q)) /\ Sends(GivenUp(q))
  <1>1. Sends(Reloaded(q)) /\ Sends(UnderNewPage(q)) /\ Sends(Popped(q))
    BY ReloadedFields, PoppedFields DEF Sends
  <1>2. \A n \in Answered \cup {NoAnswers} : Sends(Enqueue(q, n))
    BY EnqueueFields DEF Sends
  <1>3. q.want # NoWrite => Sends(SentWanted(q))
    BY SentWantedFields DEF Sends
  <1>4. q.todo # NoWrite => Sends(SentPopped(q))
    BY SentPoppedFields DEF Sends
  <1>5. q.sent.stage # "none" => Sends(Landed(q)) /\ Sends(Refused(q)) /\ Sends(Rebased(q))
    BY LandedFields, RefusedFields, RebasedFields DEF Sends
  <1>6. Sends(Confirmed(q)) /\ Sends(Conflicted(q)) /\ Sends(GivenUp(q))
    BY ConfirmedFields, ConflictedFields, GivenUpFields DEF Sends
  <1> QED BY <1>1, <1>2, <1>3, <1>4, <1>5, <1>6

LEMMA MoveStamps ==
    ASSUME NEW m \in MoveType, Stamps(m)
    PROVE  /\ Stamps(Idle)
           /\ m.stage # "idle" => /\ Stamps(MovedTo(m, "ok")) /\ Stamps(MovedTo(m, "refused"))
                                  /\ \A n \in Nat, late \in BOOLEAN : Stamps(SentUnder(m, n, late))
  BY MoveFields DEF Stamps

LEMMA AskedStamps ==
    ASSUME edits \in Seq(EditType), NEW shown \in PageType, NEW op \in Op, NEW late \in BOOLEAN
    PROVE  Stamps(Asked(shown, op, late))
  <1>1. Idle \in MoveType
    BY Names DEF Idle, MoveType
  <1> QED BY <1>1, MoveOps DEF Stamps

LEMMA LogFact ==
    ASSUME TypeOK, log # <<>>
    PROVE  /\ Len(log) \in DOMAIN log
           /\ [log EXCEPT ![Len(log)] = Applied(@)] \in Seq(EntryType)
           /\ [log EXCEPT ![Len(log)] = Denied(@)] \in Seq(EntryType)
  <1>1. log \in Seq(EntryType) /\ Len(log) \in DOMAIN log
    BY DEF TypeOK
  <1>2. log[Len(log)] \in EntryType
    BY <1>1
  <1>3. Applied(log[Len(log)]) \in EntryType /\ Denied(log[Len(log)]) \in EntryType
    BY <1>2, EntryOps DEF TypeOK
  <1> QED BY <1>1, <1>3, UpdateSeq

LEMMA SameTypes ==
    ASSUME UNCHANGED edits
    PROVE  /\ EditType' = EditType /\ RowType' = RowType /\ PageType' = PageType
           /\ QueueType' = QueueType /\ MoveType' = MoveType /\ SupportType' = SupportType
  <1>1. Answered' = Answered
    BY DEF Answered
  <1>2. Stamp' = Stamp /\ Unsaved' = Unsaved
    BY <1>1 DEF Stamp, Unsaved
  <1>3. RowType' = RowType
    BY <1>1, <1>2 DEF RowType
  <1> QED BY <1>1, <1>2, <1>3 DEF EditType, PageType, QueueType, SaveType, MoveType, SupportType

LEMMA ClaimTyped ==
    ASSUME TypeInvariant, NEW u \in User, Claim(u)
    PROVE  TypeInvariant'
  <1> USE Names
  <1>1. TypeOK /\ UNCHANGED edits
    BY DEF TypeInvariant, Claim
  <1>2. row' \in RowType
    <2>1. AfterClaim(u) \in RowType
      BY <1>1, WrittenRow DEF TypeOK
    <2> QED BY <1>1, <2>1 DEF TypeOK, Claim
  <1>3. used' \in [Counter -> Nat]
    BY <1>1, SpendType DEF TypeOK, Claim
  <1>4. \A s \in Tab : Carries(s)'
    BY DEF TypeInvariant, Carries, Claim, tabVars
  <1>5. Recorded'
    BY DEF TypeInvariant, Recorded, Claim, supportVars
  <1> QED BY <1>1, <1>2, <1>3, <1>4, <1>5, SameTypes DEF TypeOK, TypeInvariant, Claim, tabVars, supportVars

LEMMA LoadTyped ==
    ASSUME TypeInvariant, NEW t \in Tab, Load(t)
    PROVE  TypeInvariant'
  <1> USE Names, TabFacts
  <1>1. TypeOK /\ UNCHANGED edits
    BY DEF TypeInvariant, Load
  <1>2. page' \in [Tab -> PageType]
    <2>1. Snapshot(t) \in PageType
      BY <1>1, PageOps DEF TypeOK
    <2> QED BY <1>1, <2>1, Update DEF TypeOK, Load
  <1>3. queue' \in [Tab -> QueueType]
    <2>1. UnderNewPage(queue[t]) \in QueueType
      BY <1>1, QueueOps DEF TypeOK
    <2> QED BY <1>1, <2>1, Update DEF TypeOK, Load
  <1>4. peek' \in [Tab -> PeekType]
    <2>1. NoPeek \in PeekType
      BY <1>1, PageOps DEF TypeOK
    <2> QED BY <1>1, <2>1, Update DEF TypeOK, Load
  <1>5. behind' \in [Tab -> BOOLEAN]
    BY <1>1 DEF TypeOK, Load
  <1>6. used' \in [Counter -> Nat]
    BY <1>1, SpendType DEF TypeOK, Load
  <1>7. \A s \in Tab : Carries(s)'
    <2>1. queue'[t] = UnderNewPage(queue[t]) /\ move' = move
      BY <1>1 DEF TypeOK, Load
    <2>2. Carries(t)'
      BY <2>1, QueueSends, MoveStamps DEF Carries
    <2>3. \A s \in Tab \ {t} : Carries(s)'
      BY <1>1 DEF TypeInvariant, TypeOK, Carries, Load
    <2> QED BY <2>2, <2>3
  <1>8. Recorded'
    BY DEF TypeInvariant, Recorded, Load, supportVars
  <1> QED BY <1>1, <1>2, <1>3, <1>4, <1>5, <1>6, <1>7, <1>8, SameTypes DEF TypeOK, TypeInvariant, Load, tabVars, supportVars

LEMMA EditOtherTyped ==
    ASSUME TypeInvariant, NEW t \in Tab, EditOther(t)
    PROVE  TypeInvariant'
  <1> USE Names, TabFacts
  <1>1. TypeOK /\ UNCHANGED edits
    BY DEF TypeInvariant, EditOther
  <1>2. queue' \in [Tab -> QueueType]
    <2>1. Enqueue(queue[t], NoAnswers) \in QueueType
      BY <1>1, QueueOps DEF TypeOK
    <2> QED BY <1>1, <2>1, Update DEF TypeOK, EditOther
  <1>3. used' \in [Counter -> Nat]
    BY <1>1, SpendType DEF TypeOK, EditOther
  <1>4. \A s \in Tab : Carries(s)'
    <2>1. queue'[t] = Enqueue(queue[t], NoAnswers) /\ move' = move
      BY <1>1 DEF TypeOK, EditOther
    <2>2. Sends(queue[t]) /\ Stamps(move[t])
      BY DEF Carries
    <2>4. Sends(Enqueue(queue[t], NoAnswers))
      BY <2>2, QueueSends
    <2>5. Carries(t)'
      BY <2>1, <2>2, <2>4 DEF Carries
    <2>3. \A s \in Tab \ {t} : Carries(s)'
      BY <1>1 DEF TypeInvariant, TypeOK, Carries, EditOther
    <2> QED BY <2>3, <2>5
  <1>5. Recorded'
    BY DEF TypeInvariant, Recorded, EditOther, supportVars
  <1> QED BY <1>1, <1>2, <1>3, <1>4, <1>5, SameTypes DEF TypeOK, TypeInvariant, EditOther, tabVars, supportVars

LEMMA AutosaveTyped ==
    ASSUME TypeInvariant, NEW t \in Tab, Autosave(t)
    PROVE  TypeInvariant'
  <1> USE Names, TabFacts
  <1>1. TypeOK /\ UNCHANGED edits
    BY DEF TypeInvariant, Autosave
  <1>2. queue' \in [Tab -> QueueType]
    <2>1. SentWanted(queue[t]) \in QueueType
      BY <1>1, QueueOps DEF TypeOK
    <2> QED BY <1>1, <2>1, Update DEF TypeOK, Autosave
  <1>3. \A s \in Tab : Carries(s)'
    <2>1. queue'[t] = SentWanted(queue[t]) /\ move' = move /\ queue[t].want # NoWrite
      BY <1>1 DEF TypeOK, Autosave
    <2>2. Carries(t)'
      BY <2>1, QueueSends, MoveStamps DEF Carries
    <2>3. \A s \in Tab \ {t} : Carries(s)'
      BY <1>1 DEF TypeInvariant, TypeOK, Carries, Autosave
    <2> QED BY <2>2, <2>3
  <1>4. Recorded'
    BY DEF TypeInvariant, Recorded, Autosave, supportVars
  <1> QED BY <1>1, <1>2, <1>3, <1>4, SameTypes DEF TypeOK, TypeInvariant, Autosave, tabVars, supportVars

LEMMA SaveArrivesTyped ==
    ASSUME TypeInvariant, NEW t \in Tab, SaveArrives(t)
    PROVE  TypeInvariant'
  <1> USE Names, TabFacts
  <1>1. TypeOK /\ UNCHANGED edits
    BY DEF TypeInvariant, SaveArrives
  <1>2. row' \in RowType
    <2>1. queue[t].sent.stage = "patch" => AfterSave(queue[t].sent.val) \in RowType
      BY <1>1, WrittenRow, QueueFacts DEF TypeOK, Carries, Sends
    <2> QED BY <1>1, <2>1 DEF TypeOK, SaveArrives
  <1>3. queue' \in [Tab -> QueueType]
    <2>1. \E x \in QueueType : queue' = [queue EXCEPT ![t] = x]
      BY <1>1, QueueOps DEF TypeOK, SaveArrives
    <2> QED BY <1>1, <2>1, Update DEF TypeOK
  <1>4. \A s \in Tab : Carries(s)'
    <2>1. queue[t].sent.stage = "patch" /\ (queue'[t] = Landed(queue[t]) \/ queue'[t] = Refused(queue[t])) /\ move' = move
      BY <1>1 DEF TypeOK, SaveArrives
    <2>2. Carries(t)'
      BY <2>1, QueueSends, MoveStamps DEF Carries
    <2>3. \A s \in Tab \ {t} : Carries(s)'
      BY <1>1 DEF TypeInvariant, TypeOK, Carries, SaveArrives
    <2> QED BY <2>2, <2>3
  <1>5. Recorded'
    BY DEF TypeInvariant, Recorded, SaveArrives, supportVars
  <1> QED BY <1>1, <1>2, <1>3, <1>4, <1>5, SameTypes DEF TypeOK, TypeInvariant, SaveArrives, tabVars, supportVars

LEMMA SaveConfirmedTyped ==
    ASSUME TypeInvariant, NEW t \in Tab, SaveConfirmed(t)
    PROVE  TypeInvariant'
  <1> USE Names, TabFacts
  <1>1. TypeOK /\ UNCHANGED edits
    BY DEF TypeInvariant, SaveConfirmed
  <1>2. queue' \in [Tab -> QueueType]
    <2>1. Confirmed(queue[t]) \in QueueType
      BY <1>1, QueueOps DEF TypeOK
    <2> QED BY <1>1, <2>1, Update DEF TypeOK, SaveConfirmed
  <1>3. behind' \in [Tab -> BOOLEAN]
    BY <1>1 DEF TypeOK, SaveConfirmed
  <1>4. \A s \in Tab : Carries(s)'
    <2>1. queue'[t] = Confirmed(queue[t]) /\ move' = move
      BY <1>1 DEF TypeOK, SaveConfirmed
    <2>2. Carries(t)'
      BY <2>1, QueueSends, MoveStamps DEF Carries
    <2>3. \A s \in Tab \ {t} : Carries(s)'
      BY <1>1 DEF TypeInvariant, TypeOK, Carries, SaveConfirmed
    <2> QED BY <2>2, <2>3
  <1>5. Recorded'
    BY DEF TypeInvariant, Recorded, SaveConfirmed, supportVars
  <1> QED BY <1>1, <1>2, <1>3, <1>4, <1>5, SameTypes DEF TypeOK, TypeInvariant, SaveConfirmed, tabVars, supportVars

LEMMA SaveRereadTyped ==
    ASSUME TypeInvariant, NEW t \in Tab, SaveReread(t)
    PROVE  TypeInvariant'
  <1> USE Names, TabFacts
  <1>1. TypeOK /\ UNCHANGED edits
    BY DEF TypeInvariant, SaveReread
  <1>2. queue' \in [Tab -> QueueType]
    <2>1. \E x \in QueueType : queue' = [queue EXCEPT ![t] = x]
      BY <1>1, QueueOps DEF TypeOK, SaveReread
    <2> QED BY <1>1, <2>1, Update DEF TypeOK
  <1>3. move' \in [Tab -> MoveType]
    <2>1. MoveAfterFailure(t) \in MoveType
      BY MoveOps DEF MoveAfterFailure
    <2>2. move' = move \/ move' = [move EXCEPT ![t] = MoveAfterFailure(t)]
      BY DEF SaveReread
    <2>3. move \in [Tab -> MoveType]
      BY <1>1 DEF TypeOK
    <2>4. [move EXCEPT ![t] = MoveAfterFailure(t)] \in [Tab -> MoveType]
      BY <2>1, <2>3, Update
    <2> QED BY <2>2, <2>3, <2>4
  <1>4. behind' \in [Tab -> BOOLEAN]
    BY <1>1 DEF TypeOK, SaveReread
  <1>5. \A s \in Tab : Carries(s)'
    <2>1. queue[t].sent.stage = "stale" /\ (queue'[t] = Rebased(queue[t]) \/ queue'[t] = Conflicted(queue[t])) /\ (move'[t] = move[t] \/ move'[t] = Idle)
      BY <1>1 DEF TypeOK, SaveReread, MoveAfterFailure
    <2>2. Carries(t)'
      BY <2>1, QueueSends, MoveStamps DEF Carries
    <2>3. \A s \in Tab \ {t} : Carries(s)'
      BY <1>1 DEF TypeInvariant, TypeOK, Carries, SaveReread
    <2> QED BY <2>2, <2>3
  <1>6. Recorded'
    BY DEF TypeInvariant, Recorded, SaveReread, supportVars
  <1> QED BY <1>1, <1>2, <1>3, <1>4, <1>5, <1>6, SameTypes DEF TypeOK, TypeInvariant, SaveReread, tabVars, supportVars

LEMMA SaveGivenUpTyped ==
    ASSUME TypeInvariant, NEW t \in Tab, SaveGivenUp(t)
    PROVE  TypeInvariant'
  <1> USE Names, TabFacts
  <1>1. TypeOK /\ UNCHANGED edits
    BY DEF TypeInvariant, SaveGivenUp
  <1>2. queue' \in [Tab -> QueueType]
    <2>1. GivenUp(queue[t]) \in QueueType
      BY <1>1, QueueOps DEF TypeOK
    <2> QED BY <1>1, <2>1, Update DEF TypeOK, SaveGivenUp
  <1>3. move' \in [Tab -> MoveType]
    <2>1. MoveAfterFailure(t) \in MoveType
      BY <1>1, MoveOps DEF TypeOK, MoveAfterFailure
    <2> QED BY <1>1, <2>1, Update DEF TypeOK, SaveGivenUp
  <1>4. used' \in [Counter -> Nat]
    BY <1>1, SpendType DEF TypeOK, SaveGivenUp
  <1>5. \A s \in Tab : Carries(s)'
    <2>1. queue'[t] = GivenUp(queue[t]) /\ (move'[t] = move[t] \/ move'[t] = Idle)
      BY <1>1 DEF TypeOK, SaveGivenUp, MoveAfterFailure
    <2>2. Carries(t)'
      BY <2>1, QueueSends, MoveStamps DEF Carries
    <2>3. \A s \in Tab \ {t} : Carries(s)'
      BY <1>1 DEF TypeInvariant, TypeOK, Carries, SaveGivenUp
    <2> QED BY <2>2, <2>3
  <1>6. Recorded'
    BY DEF TypeInvariant, Recorded, SaveGivenUp, supportVars
  <1> QED BY <1>1, <1>2, <1>3, <1>4, <1>5, <1>6, SameTypes DEF TypeOK, TypeInvariant, SaveGivenUp, tabVars, supportVars

LEMMA ClickTyped ==
    ASSUME TypeInvariant, NEW t \in Tab, NEW op \in Op, Click(t, op)
    PROVE  TypeInvariant'
  <1> USE Names, TabFacts, QueueFacts
  <1>1. TypeOK /\ UNCHANGED edits
    BY DEF TypeInvariant, Click
  <1>2. move' \in [Tab -> MoveType]
    <2>1. Asked(page[t], op, queue[t].dropped) \in MoveType
      BY <1>1, MoveOps DEF TypeOK
    <2> QED BY <1>1, <2>1, Update DEF TypeOK, Click
  <1>3. queue' \in [Tab -> QueueType]
    <2>1. Popped(queue[t]) \in QueueType
      BY <1>1, QueueOps DEF TypeOK
    <2> QED BY <1>1, <2>1, Update DEF TypeOK, Click
  <1>4. \A s \in Tab : Carries(s)'
    <2>1. move'[t] = Asked(page[t], op, queue[t].dropped) /\ queue'[t] = Popped(queue[t])
      BY <1>1 DEF TypeOK, Click
    <2>2. Carries(t)'
      BY <2>1, QueueSends, MoveStamps, AskedStamps DEF Carries
    <2>3. \A s \in Tab \ {t} : Carries(s)'
      BY <1>1 DEF TypeInvariant, TypeOK, Carries, Click
    <2> QED BY <2>2, <2>3
  <1>5. Recorded'
    BY DEF TypeInvariant, Recorded, Click, supportVars
  <1> QED BY <1>1, <1>2, <1>3, <1>4, <1>5, SameTypes DEF TypeOK, TypeInvariant, Click, tabVars, supportVars

LEMMA FlushPoppedTyped ==
    ASSUME TypeInvariant, NEW t \in Tab, FlushPopped(t)
    PROVE  TypeInvariant'
  <1> USE Names, TabFacts
  <1>1. TypeOK /\ UNCHANGED edits
    BY DEF TypeInvariant, FlushPopped
  <1>2. queue' \in [Tab -> QueueType]
    <2>1. SentPopped(queue[t]) \in QueueType
      BY <1>1, QueueOps DEF TypeOK
    <2> QED BY <1>1, <2>1, Update DEF TypeOK, FlushPopped
  <1>3. \A s \in Tab : Carries(s)'
    <2>1. queue'[t] = SentPopped(queue[t]) /\ move' = move /\ queue[t].todo # NoWrite
      BY <1>1 DEF TypeOK, FlushPopped
    <2>2. Carries(t)'
      BY <2>1, QueueSends, MoveStamps DEF Carries
    <2>3. \A s \in Tab \ {t} : Carries(s)'
      BY <1>1 DEF TypeInvariant, TypeOK, Carries, FlushPopped
    <2> QED BY <2>2, <2>3
  <1>4. Recorded'
    BY DEF TypeInvariant, Recorded, FlushPopped, supportVars
  <1> QED BY <1>1, <1>2, <1>3, <1>4, SameTypes DEF TypeOK, TypeInvariant, FlushPopped, tabVars, supportVars

LEMMA FlushReturnsTyped ==
    ASSUME TypeInvariant, NEW t \in Tab, FlushReturns(t)
    PROVE  TypeInvariant'
  <1> USE Names, TabFacts
  <1>1. TypeOK /\ UNCHANGED edits
    BY DEF TypeInvariant, FlushReturns
  <1>2. move' \in [Tab -> MoveType]
    <2>1. \E x \in MoveType : move' = [move EXCEPT ![t] = x]
      BY <1>1, MoveOps, QueueFacts DEF TypeOK, FlushReturns
    <2> QED BY <1>1, <2>1, Update DEF TypeOK
  <1>3. \A s \in Tab : Carries(s)'
    <2>1. move[t].stage = "flushing" /\ (move'[t] = SentUnder(move[t], queue[t].etag, behind[t]) \/ move'[t] = Idle) /\ queue' = queue
      BY <1>1 DEF TypeOK, FlushReturns
    <2>2. Carries(t)'
      BY <2>1, QueueSends, MoveStamps, QueueFacts, SMTT(30) DEF Carries
    <2>3. \A s \in Tab \ {t} : Carries(s)'
      BY <1>1 DEF TypeInvariant, TypeOK, Carries, FlushReturns
    <2> QED BY <2>2, <2>3
  <1>4. Recorded'
    BY DEF TypeInvariant, Recorded, FlushReturns, supportVars
  <1> QED BY <1>1, <1>2, <1>3, <1>4, SameTypes DEF TypeOK, TypeInvariant, FlushReturns, tabVars, supportVars

LEMMA MoveArrivesTyped ==
    ASSUME TypeInvariant, NEW t \in Tab, MoveArrives(t)
    PROVE  TypeInvariant'
  <1> USE Names, TabFacts
  <1>1. TypeOK /\ UNCHANGED edits
    BY DEF TypeInvariant, MoveArrives
  <1>2. row' \in RowType
    <2>1. AfterMove(move[t].op, move[t].stamp) \in RowType
      BY <1>1, MovedRow DEF TypeOK, MoveType
    <2> QED BY <1>1, <2>1 DEF TypeOK, MoveArrives
  <1>3. move' \in [Tab -> MoveType]
    <2>1. \E x \in MoveType : move' = [move EXCEPT ![t] = x]
      BY <1>1, MoveOps DEF TypeOK, MoveArrives
    <2> QED BY <1>1, <2>1, Update DEF TypeOK
  <1>4. blind' \in BOOLEAN
    BY <1>1 DEF TypeOK, MoveArrives, MoveType, PostType
  <1>5. used' \in [Counter -> Nat]
    BY <1>1, SpendType DEF TypeOK, MoveArrives
  <1>6. \A s \in Tab : Carries(s)'
    <2>1. move[t].stage = "sent" /\ (move'[t] = MovedTo(move[t], "ok") \/ move'[t] = MovedTo(move[t], "refused")) /\ queue' = queue
      BY <1>1 DEF TypeOK, MoveArrives, MoveLands
    <2>2. Carries(t)'
      BY <2>1, QueueSends, MoveStamps DEF Carries
    <2>3. \A s \in Tab \ {t} : Carries(s)'
      BY <1>1 DEF TypeInvariant, TypeOK, Carries, MoveArrives
    <2> QED BY <2>2, <2>3
  <1>7. Recorded'
    BY DEF TypeInvariant, Recorded, MoveArrives, supportVars
  <1> QED BY <1>1, <1>2, <1>3, <1>4, <1>5, <1>6, <1>7, SameTypes DEF TypeOK, TypeInvariant, MoveArrives, tabVars, supportVars

LEMMA MoveAnsweredTyped ==
    ASSUME TypeInvariant, NEW t \in Tab, MoveAnswered(t)
    PROVE  TypeInvariant'
  <1> USE Names, TabFacts
  <1>1. TypeOK /\ UNCHANGED edits
    BY DEF TypeInvariant, MoveAnswered
  <1>2. move' \in [Tab -> MoveType]
    <2>1. Idle \in MoveType
      BY <1>1, MoveOps DEF TypeOK
    <2> QED BY <1>1, <2>1, Update DEF TypeOK, MoveAnswered
  <1>3. page' \in [Tab -> PageType]
    <2>1. \E x \in PageType : page' = [page EXCEPT ![t] = x]
      BY <1>1, PageOps DEF TypeOK, MoveAnswered
    <2> QED BY <1>1, <2>1, Update DEF TypeOK
  <1>4. \A s \in Tab : Carries(s)'
    <2>1. move'[t] = Idle /\ queue' = queue
      BY <1>1 DEF TypeOK, MoveAnswered
    <2>2. Carries(t)'
      BY <2>1, QueueSends, MoveStamps DEF Carries
    <2>3. \A s \in Tab \ {t} : Carries(s)'
      BY <1>1 DEF TypeInvariant, TypeOK, Carries, MoveAnswered
    <2> QED BY <2>2, <2>3
  <1>5. Recorded'
    BY DEF TypeInvariant, Recorded, MoveAnswered, supportVars
  <1> QED BY <1>1, <1>2, <1>3, <1>4, <1>5, SameTypes DEF TypeOK, TypeInvariant, MoveAnswered, tabVars, supportVars

LEMMA PostTyped ==
    ASSUME TypeInvariant, NEW t \in Tab, Post(t)
    PROVE  TypeInvariant'
  <1> USE Names, TabFacts
  <1>1. TypeOK /\ UNCHANGED edits
    BY DEF TypeInvariant, Post
  <1>2. used' \in [Counter -> Nat] /\ used'["messages"] \in Nat
    BY <1>1, SpendType DEF TypeOK, Post
  <1>3. behind' \in [Tab -> BOOLEAN]
    BY <1>1 DEF TypeOK, Post, PeekType
  <1>4. page[t].thread \cup {used'["messages"]} \in SUBSET Nat
    BY <1>2 DEF PageType
  <1>5. page' \in [Tab -> PageType]
    <2>1. WithThread(page[t], page[t].thread \cup {used'["messages"]}) \in PageType
      BY <1>4, PageOps
    <2>2. page' = [page EXCEPT ![t] = WithThread(page[t], page[t].thread \cup {used'["messages"]})]
      BY DEF Post
    <2> QED BY <1>1, <2>1, <2>2, Update DEF TypeOK
  <1>6. posts' \in [Tab -> SUBSET PostType]
    <2>1. [stage |-> "patch", thread |-> page[t].thread \cup {used'["messages"]},
           etag |-> queue[t].etag, behind |-> behind'[t]] \in PostType
      BY <1>3, <1>4, QueueFacts DEF PostType
    <2>2. posts' = [posts EXCEPT ![t] = posts[t] \cup
            {[stage |-> "patch", thread |-> page[t].thread \cup {used'["messages"]},
              etag |-> queue[t].etag, behind |-> behind'[t]]}]
      BY DEF Post
    <2>3. posts[t] \cup
            {[stage |-> "patch", thread |-> page[t].thread \cup {used'["messages"]},
              etag |-> queue[t].etag, behind |-> behind'[t]]} \in SUBSET PostType
      BY <2>1
    <2>4. posts \in [Tab -> SUBSET PostType]
      BY <1>1 DEF TypeOK
    <2> QED BY <2>2, <2>3, <2>4, Update
  <1>7. \A s \in Tab : Carries(s)'
    BY DEF TypeInvariant, Carries, Post, tabVars
  <1>8. Recorded'
    BY DEF TypeInvariant, Recorded, Post, supportVars
  <1> QED BY <1>1, <1>2, <1>3, <1>4, <1>5, <1>6, <1>7, <1>8, SameTypes DEF TypeOK, TypeInvariant, Post, tabVars, supportVars

LEMMA PostArrivesTyped ==
    ASSUME TypeInvariant, NEW t \in Tab, NEW p, PostArrives(t, p)
    PROVE  TypeInvariant'
  <1> USE Names, TabFacts
  <1>1. TypeOK /\ UNCHANGED edits
    BY DEF TypeInvariant, PostArrives
  <1>2. row' \in RowType
    <2>1. p \in PostType
      BY <1>1 DEF TypeOK, PostArrives
    <2>2. p.thread \in SUBSET Nat /\ (t \in ReviewTab) \in BOOLEAN
      BY <2>1, PostFact
    <2>3. AfterPost(p.thread, t \in ReviewTab) \in RowType
      BY <1>1, <2>2, WrittenRow DEF TypeOK
    <2> QED BY <1>1, <2>3 DEF TypeOK, PostArrives
  <1>3. posts' \in [Tab -> SUBSET PostType]
    <2>1. p \in PostType
      BY DEF PostArrives
    <2>2. row.version + 1 \in Nat
      BY <1>1, RowFacts DEF TypeOK
    <2>3. [p EXCEPT !.stage = "ok", !.etag = row.version + 1] \in PostType
      BY <2>1, <2>2 DEF PostType
    <2>4. \E ps \in SUBSET PostType : posts' = [posts EXCEPT ![t] = ps]
      <3>1. posts[t] \ {p} \in SUBSET PostType
        BY <1>1
      <3>2. (posts[t] \ {p}) \cup {[p EXCEPT !.stage = "ok", !.etag = row.version + 1]} \in SUBSET PostType
        BY <2>3, <3>1
      <3> QED BY <3>1, <3>2 DEF PostArrives
    <2>5. posts \in [Tab -> SUBSET PostType]
      BY <1>1 DEF TypeOK
    <2> QED BY <2>4, <2>5, Update
  <1>4. blind' \in BOOLEAN
    BY <1>1 DEF TypeOK, PostArrives, MoveType, PostType
  <1>5. used' \in [Counter -> Nat]
    BY <1>1, SpendType DEF TypeOK, PostArrives
  <1>6. \A s \in Tab : Carries(s)'
    BY DEF TypeInvariant, Carries, PostArrives, tabVars
  <1>7. Recorded'
    BY DEF TypeInvariant, Recorded, PostArrives, supportVars
  <1> QED BY <1>1, <1>2, <1>3, <1>4, <1>5, <1>6, <1>7, SameTypes DEF TypeOK, TypeInvariant, PostArrives, tabVars, supportVars

LEMMA PostConfirmedTyped ==
    ASSUME TypeInvariant, NEW t \in Tab, NEW p, PostConfirmed(t, p)
    PROVE  TypeInvariant'
  <1> USE Names, TabFacts
  <1>1. TypeOK /\ UNCHANGED edits
    BY DEF TypeInvariant, PostConfirmed
  <1>2. posts' \in [Tab -> SUBSET PostType]
    BY <1>1 DEF TypeOK, PostConfirmed
  <1>3. queue' \in [Tab -> QueueType]
    <2>1. Reloaded(queue[t]) \in QueueType
      BY <1>1, QueueOps DEF TypeOK
    <2> QED BY <1>1, <2>1, Update DEF TypeOK, PostConfirmed
  <1>4. behind' \in [Tab -> BOOLEAN]
    BY <1>1 DEF TypeOK, PostConfirmed
  <1>5. \A s \in Tab : Carries(s)'
    <2>1. queue'[t] = Reloaded(queue[t]) /\ move' = move
      BY <1>1 DEF TypeOK, PostConfirmed
    <2>2. Carries(t)'
      BY <2>1, QueueSends, MoveStamps DEF Carries
    <2>3. \A s \in Tab \ {t} : Carries(s)'
      BY <1>1 DEF TypeInvariant, TypeOK, Carries, PostConfirmed
    <2> QED BY <2>2, <2>3
  <1>6. Recorded'
    BY DEF TypeInvariant, Recorded, PostConfirmed, supportVars
  <1> QED BY <1>1, <1>2, <1>3, <1>4, <1>5, <1>6, SameTypes DEF TypeOK, TypeInvariant, PostConfirmed, tabVars, supportVars

LEMMA RefreshReadTyped ==
    ASSUME TypeInvariant, NEW t \in Tab, RefreshRead(t)
    PROVE  TypeInvariant'
  <1> USE Names, TabFacts
  <1>1. TypeOK /\ UNCHANGED edits
    BY DEF TypeInvariant, RefreshRead
  <1>2. peek' \in [Tab -> PeekType]
    <2>1. [out |-> TRUE, thread |-> row.thread] \in PeekType
      BY <1>1, RowFacts DEF TypeOK, PeekType
    <2> QED BY <1>1, <2>1, Update DEF TypeOK, RefreshRead
  <1>3. behind' \in [Tab -> BOOLEAN]
    BY <1>1 DEF TypeOK, RefreshRead
  <1>4. used' \in [Counter -> Nat]
    BY <1>1, SpendType DEF TypeOK, RefreshRead
  <1>5. \A s \in Tab : Carries(s)'
    BY DEF TypeInvariant, Carries, RefreshRead, tabVars
  <1>6. Recorded'
    BY DEF TypeInvariant, Recorded, RefreshRead, supportVars
  <1> QED BY <1>1, <1>2, <1>3, <1>4, <1>5, <1>6, SameTypes DEF TypeOK, TypeInvariant, RefreshRead, tabVars, supportVars

LEMMA RefreshShownTyped ==
    ASSUME TypeInvariant, NEW t \in Tab, RefreshShown(t)
    PROVE  TypeInvariant'
  <1> USE Names, TabFacts
  <1>1. TypeOK /\ UNCHANGED edits
    BY DEF TypeInvariant, RefreshShown
  <1>2. peek' \in [Tab -> PeekType]
    <2>1. NoPeek \in PeekType
      BY <1>1, PageOps DEF TypeOK
    <2> QED BY <1>1, <2>1, Update DEF TypeOK, RefreshShown
  <1>3. page' \in [Tab -> PageType]
    <2>1. \E x \in PageType : page' = [page EXCEPT ![t] = x]
      BY <1>1, PageOps, PeekFact DEF TypeOK, RefreshShown
    <2> QED BY <1>1, <2>1, Update DEF TypeOK
  <1>4. \A s \in Tab : Carries(s)'
    BY DEF TypeInvariant, Carries, RefreshShown, tabVars
  <1>5. Recorded'
    BY DEF TypeInvariant, Recorded, RefreshShown, supportVars
  <1> QED BY <1>1, <1>2, <1>3, <1>4, <1>5, SameTypes DEF TypeOK, TypeInvariant, RefreshShown, tabVars, supportVars

LEMMA SupportLoadTyped ==
    ASSUME TypeInvariant, SupportLoad
    PROVE  TypeInvariant'
  <1> USE Names
  <1>1. TypeOK /\ UNCHANGED edits
    BY DEF TypeInvariant, SupportLoad
  <1>2. support' \in SupportType
    BY <1>1 DEF TypeOK, SupportLoad, SupportType
  <1>3. \A s \in Tab : Carries(s)'
    BY DEF TypeInvariant, Carries, SupportLoad, tabVars
  <1>4. Recorded'
    BY <1>1 DEF TypeInvariant, TypeOK, Recorded, SupportType, SupportLoad
  <1> QED BY <1>1, <1>2, <1>3, <1>4, SameTypes DEF TypeOK, TypeInvariant, SupportLoad, tabVars, supportVars

LEMMA SupportRecordTyped ==
    ASSUME TypeInvariant, NEW op \in SupportOp, NEW u \in User, SupportRecord(op, u)
    PROVE  TypeInvariant'
  <1> USE Names
  <1>1. TypeOK /\ UNCHANGED edits
    BY DEF TypeInvariant, SupportRecord
  <1>2. support' \in SupportType
    BY <1>1 DEF TypeOK, SupportRecord, SupportType
  <1>3. log' \in Seq(EntryType)
    <2>1. Entry(op, support.seen) \in EntryType
      BY <1>1, EntryOps DEF TypeOK, SupportType
    <2> QED BY <1>1, <2>1 DEF TypeOK, SupportRecord
  <1>4. used' \in [Counter -> Nat]
    BY <1>1, SpendType DEF TypeOK, SupportRecord
  <1>5. \A s \in Tab : Carries(s)'
    BY DEF TypeInvariant, Carries, SupportRecord, tabVars
  <1>6. Recorded'
    <2>1. log \in Seq(EntryType) /\ Len(log) \in Nat /\ Len(log') = Len(log) + 1
      BY <1>1, EntryOps DEF TypeOK, SupportType, SupportRecord
    <2> QED BY <2>1 DEF Recorded
  <1> QED BY <1>1, <1>2, <1>3, <1>4, <1>5, <1>6, SameTypes DEF TypeOK, TypeInvariant, SupportRecord, tabVars, supportVars

LEMMA SupportArrivesTyped ==
    ASSUME TypeInvariant, SupportArrives
    PROVE  TypeInvariant'
  <1> USE Names
  <1>1. TypeOK /\ UNCHANGED edits
    BY DEF TypeInvariant, SupportArrives
  <1>2. row' \in RowType
    <2>1. AfterSupport(support.op, support.user) \in RowType
      BY <1>1, SupportedRow DEF TypeOK, SupportType
    <2> QED BY <1>1, <2>1 DEF TypeOK, SupportArrives
  <1>3. support' \in SupportType
    <2>1. \E g \in {"ok", "refused"} : support' = [support EXCEPT !.stage = g]
      BY DEF SupportArrives
    <2>2. support \in SupportType
      BY <1>1 DEF TypeOK
    <2> QED BY <2>1, <2>2 DEF SupportType
  <1>4. log' \in Seq(EntryType)
    BY <1>1, LogFact DEF TypeOK, TypeInvariant, Recorded, SupportArrives
  <1>5. used' \in [Counter -> Nat]
    BY <1>1, SpendType DEF TypeOK, SupportArrives
  <1>6. \A s \in Tab : Carries(s)'
    BY DEF TypeInvariant, Carries, SupportArrives, tabVars
  <1>7. Recorded'
    BY <1>1 DEF TypeInvariant, TypeOK, Recorded, SupportType, SupportArrives
  <1> QED BY <1>1, <1>2, <1>3, <1>4, <1>5, <1>6, <1>7, SameTypes DEF TypeOK, TypeInvariant, SupportArrives, tabVars, supportVars

LEMMA SupportAnsweredTyped ==
    ASSUME TypeInvariant, SupportAnswered
    PROVE  TypeInvariant'
  <1> USE Names
  <1>1. TypeOK /\ UNCHANGED edits
    BY DEF TypeInvariant, SupportAnswered
  <1>2. support' \in SupportType
    BY <1>1 DEF TypeOK, SupportAnswered, SupportType
  <1>3. log' \in Seq(EntryType)
    BY <1>1, LogFact DEF TypeOK, TypeInvariant, Recorded, SupportAnswered
  <1>4. used' \in [Counter -> Nat]
    BY <1>1, SpendType DEF TypeOK, SupportAnswered
  <1>5. \A s \in Tab : Carries(s)'
    BY DEF TypeInvariant, Carries, SupportAnswered, tabVars
  <1>6. Recorded'
    BY <1>1 DEF TypeInvariant, TypeOK, Recorded, SupportType, SupportAnswered
  <1> QED BY <1>1, <1>2, <1>3, <1>4, <1>5, <1>6, SameTypes DEF TypeOK, TypeInvariant, SupportAnswered, tabVars, supportVars

LEMMA SupportLeavesTyped ==
    ASSUME TypeInvariant, SupportLeaves
    PROVE  TypeInvariant'
  <1> USE Names
  <1>1. TypeOK /\ UNCHANGED edits
    BY DEF TypeInvariant, SupportLeaves
  <1>2. support' \in SupportType
    BY <1>1 DEF TypeOK, SupportLeaves, SupportType
  <1>3. used' \in [Counter -> Nat]
    BY <1>1, SpendType DEF TypeOK, SupportLeaves
  <1>4. \A s \in Tab : Carries(s)'
    BY DEF TypeInvariant, Carries, SupportLeaves, tabVars
  <1>5. Recorded'
    BY <1>1 DEF TypeInvariant, TypeOK, Recorded, SupportType, SupportLeaves
  <1> QED BY <1>1, <1>2, <1>3, <1>4, <1>5, SameTypes DEF TypeOK, TypeInvariant, SupportLeaves, tabVars, supportVars

LEMMA TypesGrow ==
    ASSUME NEW e, edits' = Append(edits, e), edits \in Seq(EditType)
    PROVE  /\ Answered \subseteq Answered' /\ Len(edits') \in Answered' /\ Len(edits') = Len(edits) + 1
           /\ EditType \subseteq EditType' /\ RowType \subseteq RowType' /\ PageType \subseteq PageType'
           /\ QueueType \subseteq QueueType' /\ MoveType \subseteq MoveType'
           /\ SupportType \subseteq SupportType'
  <1>1. Answered \subseteq Answered' /\ Len(edits') \in Answered' /\ Len(edits') = Len(edits) + 1
    BY DEF Answered
  <1>2. Stamp \subseteq Stamp' /\ Unsaved \subseteq Unsaved'
    BY <1>1 DEF Stamp, Unsaved
  <1>3. EditType \subseteq EditType' /\ PageType \subseteq PageType' /\ MoveType \subseteq MoveType'
    BY <1>1, <1>2 DEF EditType, PageType, MoveType
  <1>4. RowType \subseteq RowType'
    BY <1>1, <1>2 DEF RowType
  <1>5. SupportType \subseteq SupportType'
    BY <1>4 DEF SupportType
  <1>6. SaveType \subseteq SaveType'
    BY <1>2 DEF SaveType
  <1>7. QueueType \subseteq QueueType'
    BY <1>1, <1>2, <1>6 DEF QueueType
  <1> QED BY <1>1, <1>3, <1>4, <1>5, <1>7

LEMMA EditAnswersTyped ==
    ASSUME TypeInvariant, NEW t \in Tab, NEW k \in EditKind, EditAnswers(t, k)
    PROVE  TypeInvariant'
  <1> USE Names, TabFacts
  <1>1. TypeOK
    BY DEF TypeInvariant
  <1>2. PICK b \in Answered' : edits' = Append(edits, [kind |-> k, basis |-> b])
    <2>1. Len(edits) + 1 \in Answered' /\ Answered \subseteq Answered'
      <3>1. PICK e : edits' = Append(edits, e)
        BY DEF EditAnswers
      <3> QED BY <3>1, TypesGrow
    <2>2. edits[page[t].answers] \in EditType
      <3>1. page[t].answers \in Answered
        BY DEF PageType
      <3> QED BY <3>1 DEF Answered
    <2>3. edits[page[t].answers].basis \in Answered'
      BY <2>1, <2>2 DEF EditType
    <2> QED BY <2>1, <2>3 DEF EditAnswers
  <1>3. /\ Answered \subseteq Answered' /\ Len(edits') \in Answered' /\ Len(edits') = Len(edits) + 1
        /\ EditType \subseteq EditType' /\ RowType \subseteq RowType' /\ PageType \subseteq PageType'
        /\ QueueType \subseteq QueueType' /\ MoveType \subseteq MoveType'
        /\ SupportType \subseteq SupportType'
    BY <1>1, <1>2, TypesGrow DEF TypeOK
  <1>4. edits' \in Seq(EditType)' /\ edits' # <<>>
    <2>1. [kind |-> k, basis |-> b] \in EditType'
      BY <1>2 DEF EditType
    <2>2. edits \in Seq(EditType')
      BY <1>1, <1>3 DEF TypeOK
    <2> QED BY <1>2, <2>1, <2>2
  <1>5. page' \in [Tab -> PageType']
    <2>1. WithAnswers(page[t], Len(edits')) \in PageType'
      BY <1>3 DEF WithAnswers, PageType
    <2>2. page' = [page EXCEPT ![t] = WithAnswers(page[t], Len(edits'))]
      BY DEF EditAnswers
    <2>3. page \in [Tab -> PageType']
      BY <1>1, <1>3 DEF TypeOK
    <2> QED BY <2>1, <2>2, <2>3, Update
  <1>6. queue' = [queue EXCEPT ![t] = Enqueue(queue[t], Len(edits'))]
    BY DEF EditAnswers
  <1>7. queue' \in [Tab -> QueueType']
    <2>1. Enqueue(queue[t], Len(edits')) \in QueueType'
      <3>1. queue[t] \in QueueType' /\ Len(edits') \in Unsaved'
        BY <1>3 DEF Unsaved
      <3> QED BY <3>1 DEF Enqueue, QueueType
    <2>2. queue \in [Tab -> QueueType']
      BY <1>1, <1>3 DEF TypeOK
    <2> QED BY <1>6, <2>1, <2>2, Update
  <1>8. used' \in [Counter -> Nat]
    BY <1>1, SpendType DEF TypeOK, EditAnswers
  <1>9. \A s \in Tab : Carries(s)'
    <2>1. Enqueue(queue[t], Len(edits')).sent = queue[t].sent
      BY EnqueueFields
    <2>2. \A s \in Tab : queue'[s].sent = queue[s].sent
      BY <1>1, <1>6, <2>1 DEF TypeOK
    <2> QED BY <2>2 DEF TypeInvariant, Carries, Sends, EditAnswers
  <1>10. row' \in RowType' /\ support' \in SupportType'
    BY <1>1, <1>3 DEF TypeOK, EditAnswers, supportVars
  <1>11. move' \in [Tab -> MoveType']
    BY <1>1, <1>3 DEF TypeOK, EditAnswers
  <1>12. Recorded'
    BY DEF TypeInvariant, Recorded, EditAnswers, supportVars
  <1>13. TypeOK'
    BY <1>1, <1>4, <1>5, <1>7, <1>8, <1>10, <1>11 DEF TypeOK, EditAnswers, supportVars
  <1> QED BY <1>9, <1>12, <1>13 DEF TypeInvariant

LEMMA InitTyped == Init => TypeInvariant
  <1> SUFFICES ASSUME Init PROVE TypeInvariant
    OBVIOUS
  <1> USE Names
  <1>1. Answered = {1} /\ edits \in Seq(EditType) /\ edits # <<>>
    <2>1. PICK k \in FirstKind : edits = <<[kind |-> k, basis |-> 1]>>
      BY DEF Init
    <2>2. Answered = {1}
      BY <2>1 DEF Answered
    <2>3. [kind |-> k, basis |-> 1] \in EditType
      BY <2>2 DEF EditType
    <2> QED BY <2>1, <2>2, <2>3
  <1>2. row \in RowType
    BY <1>1 DEF Init, RowType
  <1>3. page \in [Tab -> PageType]
    <2>1. Closed \in PageType
      BY <1>1 DEF Closed, PageType
    <2> QED BY <2>1 DEF Init
  <1>4. queue \in [Tab -> QueueType]
    <2>1. NoSave \in SaveType
      BY DEF NoSave, SaveType
    <2>2. EmptyQueue \in QueueType
      BY <1>1, <2>1 DEF EmptyQueue, QueueType
    <2> QED BY <2>2 DEF Init
  <1>5. Idle \in MoveType /\ move \in [Tab -> MoveType]
    BY DEF Init, Idle, MoveType
  <1>6. peek \in [Tab -> PeekType] /\ posts \in [Tab -> SUBSET PostType]
    BY DEF Init, NoPeek, PeekType
  <1>7. support \in SupportType
    BY <1>2 DEF Init, SupportType, SupportOp
  <1>8. \A t \in Tab : Carries(t)
    BY DEF Init, Carries, Sends, Stamps, EmptyQueue, NoSave, Idle
  <1>9. TypeOK
    <2>1. /\ log \in Seq(EntryType) /\ used \in [Counter -> Nat]
          /\ behind \in [Tab -> BOOLEAN] /\ blind \in BOOLEAN
      <3>1. log = <<>> /\ used = [c \in Counter |-> 0] /\ behind = [t \in Tab |-> FALSE] /\ blind = FALSE
        BY DEF Init
      <3>2. <<>> \in Seq(EntryType) /\ [c \in Counter |-> 0] \in [Counter -> Nat]
        OBVIOUS
      <3> QED BY <3>1, <3>2
    <2> QED BY <1>1, <1>2, <1>3, <1>4, <1>5, <1>6, <1>7, <2>1 DEF TypeOK
  <1> QED BY <1>8, <1>9 DEF Init, TypeInvariant, Recorded

\* Each step of a tab.
LEMMA TabTyped ==
    ASSUME TypeInvariant, NEW t \in Tab, TabNext(t)
    PROVE  TypeInvariant'
  BY LoadTyped, EditAnswersTyped, EditOtherTyped, AutosaveTyped, SaveArrivesTyped, SaveConfirmedTyped,
     SaveRereadTyped, SaveGivenUpTyped, ClickTyped, FlushPoppedTyped, FlushReturnsTyped, MoveArrivesTyped,
     MoveAnsweredTyped, PostTyped, PostArrivesTyped, PostConfirmedTyped, RefreshReadTyped, RefreshShownTyped
     DEF TabNext, Answer

LEMMA StutterTyped ==
    ASSUME TypeInvariant, UNCHANGED vars
    PROVE  TypeInvariant'
  <1>1. TypeOK'
    BY SameTypes DEF TypeInvariant, TypeOK, vars, tabVars, supportVars
  <1> QED BY <1>1 DEF TypeInvariant, Recorded, Carries, vars, tabVars, supportVars

LEMMA NextTyped ==
    ASSUME TypeInvariant, [Next]_vars
    PROVE  TypeInvariant'
  BY TabTyped, ClaimTyped, SupportLoadTyped, SupportRecordTyped, SupportArrivesTyped, SupportAnsweredTyped,
     SupportLeavesTyped, StutterTyped DEF Next, SupportNext

\* Types, and that nothing refers to Answers nobody has entered.
THEOREM TypeCorrect == Spec => []TypeInvariant
  <1>1. Init => TypeInvariant
    BY InitTyped
  <1>2. TypeInvariant /\ [Next]_vars => TypeInvariant'
    BY NextTyped
  <1> QED BY <1>1, <1>2, PTL DEF Spec

----------------------------------------------------------------------------
(* A step of a tab and what the tab itself knows *)

LEMMA AnswersFields ==
    ASSUME NEW shown \in PageType, NEW n
    PROVE  /\ WithAnswers(shown, n).open = shown.open /\ WithAnswers(shown, n).mine = shown.mine
           /\ WithAnswers(shown, n).status = shown.status /\ WithAnswers(shown, n).thread = shown.thread
  BY DEF WithAnswers, PageType

LEMMA ThreadFields ==
    ASSUME NEW shown \in PageType, NEW thread
    PROVE  /\ WithThread(shown, thread).open = shown.open /\ WithThread(shown, thread).mine = shown.mine
           /\ WithThread(shown, thread).status = shown.status /\ WithThread(shown, thread).thread = thread
  BY DEF WithThread, PageType

LEMMA SnapshotFields ==
    ASSUME NEW t
    PROVE  /\ Snapshot(t).open /\ Snapshot(t).status = row.status /\ Snapshot(t).thread = row.thread
           /\ Snapshot(t).mine => t \in ReviewTab /\ row.reviewer = UserOf[t]
  BY DEF Snapshot

LEMMA AskedBuilt ==
    ASSUME NEW t \in Tab, NEW op \in Op, Allowed(t, op)
    PROVE  /\ page[t].open /\ page[t].mine
           /\ Asked(page[t], op, queue[t].dropped).stage = "flushing" /\ Asked(page[t], op, queue[t].dropped).op = op
           /\ Asked(page[t], op, queue[t].dropped).shown = page[t].status
           /\ BuiltFor(op, page[t].status)
  BY DEF Allowed, CanEdit, MayResolve, CanVoid, Asked, BuiltFor, Op

LEMMA LoadInformed ==
    ASSUME TypeInvariant, NEW t \in Tab, TabInv(t), Load(t)
    PROVE  TabInv(t)'
  <1> USE TabFacts
  <1>1. /\ page'[t] = Snapshot(t)
        /\ queue'[t] = UnderNewPage(queue[t])
        /\ peek'[t] = NoPeek
        /\ posts'[t] = posts[t] /\ move'[t] = move[t] /\ row' = row
        /\ ~behind'[t] => posts[t] = {} /\ move[t].stage # "flushing"
    BY DEF TypeInvariant, TypeOK, Load
  <1>2. /\ queue'[t].etag = row.version
        /\ queue'[t].sent.stage = queue[t].sent.stage
        /\ queue'[t].sent.etag = queue[t].sent.etag
        /\ ~queue'[t].sent.live
    BY <1>1, ReloadedFields
  <1>3. EtagsKnown(t)'
    BY <1>1, <1>2, RowFacts DEF TabInv, EtagsKnown
  <1>4. PageFresh(t)'
    <2>1. Fresh(t)'
      BY <1>1, <1>2, SnapshotFields DEF Fresh, NoPeek
    <2> QED BY <1>1, <1>2, <2>1, SnapshotFields DEF PageFresh, Sees
  <1>5. MoveInformed(t)'
    BY <1>1, <1>2 DEF TabInv, MoveInformed
  <1>6. PostsInformed(t)'
    BY <1>1, <1>2 DEF TabInv, PostsInformed
  <1> QED BY <1>3, <1>4, <1>5, <1>6 DEF TabInv

LEMMA EditAnswersInformed ==
    ASSUME TypeInvariant, NEW t \in Tab, NEW k \in EditKind, TabInv(t), EditAnswers(t, k)
    PROVE  TabInv(t)'
  <1> USE TabFacts
  <1>1. /\ queue'[t] = Enqueue(queue[t], Len(edits'))
        /\ page'[t] = WithAnswers(page[t], Len(edits'))
        /\ move'[t] = move[t] /\ posts'[t] = posts[t] /\ peek'[t] = peek[t]
        /\ behind'[t] = behind[t] /\ row' = row
    BY DEF TypeInvariant, TypeOK, EditAnswers
  <1>2. /\ queue'[t].etag = queue[t].etag /\ queue'[t].sent = queue[t].sent
        /\ page'[t].open = page[t].open /\ page'[t].mine = page[t].mine
        /\ page'[t].status = page[t].status /\ page'[t].thread = page[t].thread
    BY <1>1, EnqueueFields, AnswersFields
  <1>3. EtagsKnown(t)'
    BY <1>1, <1>2 DEF TabInv, EtagsKnown
  <1>4. PageFresh(t)'
    BY <1>1, <1>2 DEF TabInv, PageFresh, Sees, Fresh
  <1>5. MoveInformed(t)'
    BY <1>1, <1>2 DEF TabInv, MoveInformed
  <1>6. PostsInformed(t)'
    BY <1>1, <1>2 DEF TabInv, PostsInformed
  <1> QED BY <1>3, <1>4, <1>5, <1>6 DEF TabInv

LEMMA EditOtherInformed ==
    ASSUME TypeInvariant, NEW t \in Tab, TabInv(t), EditOther(t)
    PROVE  TabInv(t)'
  <1> USE TabFacts
  <1>1. /\ queue'[t] = Enqueue(queue[t], NoAnswers)
        /\ page'[t] = page[t]
        /\ move'[t] = move[t] /\ posts'[t] = posts[t] /\ peek'[t] = peek[t]
        /\ behind'[t] = behind[t] /\ row' = row
    BY DEF TypeInvariant, TypeOK, EditOther
  <1>2. /\ queue'[t].etag = queue[t].etag /\ queue'[t].sent = queue[t].sent
    BY <1>1, EnqueueFields
  <1>3. EtagsKnown(t)'
    BY <1>1, <1>2 DEF TabInv, EtagsKnown
  <1>4. PageFresh(t)'
    BY <1>1, <1>2 DEF TabInv, PageFresh, Sees, Fresh
  <1>5. MoveInformed(t)'
    BY <1>1, <1>2 DEF TabInv, MoveInformed
  <1>6. PostsInformed(t)'
    BY <1>1, <1>2 DEF TabInv, PostsInformed
  <1> QED BY <1>3, <1>4, <1>5, <1>6 DEF TabInv

LEMMA AutosaveInformed ==
    ASSUME TypeInvariant, NEW t \in Tab, TabInv(t), Autosave(t)
    PROVE  TabInv(t)'
  <1> USE TabFacts
  <1>1. /\ queue'[t] = SentWanted(queue[t])
        /\ page'[t] = page[t] /\ posts'[t] = posts[t] /\ peek'[t] = peek[t]
        /\ move'[t] = move[t] /\ behind'[t] = behind[t] /\ row' = row
    BY DEF TypeInvariant, TypeOK, Autosave
  <1>2. /\ queue'[t].etag = queue[t].etag
        /\ queue'[t].sent.stage = "patch" /\ queue'[t].sent.etag = queue[t].etag
    BY <1>1, SentWantedFields
  <1>3. EtagsKnown(t)'
    BY <1>1, <1>2 DEF TabInv, EtagsKnown
  <1>4. PageFresh(t)'
    BY <1>1, <1>2 DEF TabInv, PageFresh, Sees, Fresh
  <1>5. MoveInformed(t)'
    BY <1>1, <1>2 DEF TabInv, MoveInformed
  <1>6. PostsInformed(t)'
    BY <1>1, <1>2 DEF TabInv, PostsInformed
  <1> QED BY <1>3, <1>4, <1>5, <1>6 DEF TabInv

LEMMA FlushPoppedInformed ==
    ASSUME TypeInvariant, NEW t \in Tab, TabInv(t), FlushPopped(t)
    PROVE  TabInv(t)'
  <1> USE TabFacts
  <1>1. /\ queue'[t] = SentPopped(queue[t])
        /\ page'[t] = page[t] /\ posts'[t] = posts[t] /\ peek'[t] = peek[t]
        /\ move'[t] = move[t] /\ behind'[t] = behind[t] /\ row' = row
    BY DEF TypeInvariant, TypeOK, FlushPopped
  <1>2. /\ queue'[t].etag = queue[t].etag
        /\ queue'[t].sent.stage = "patch" /\ queue'[t].sent.etag = queue[t].etag
    BY <1>1, SentPoppedFields
  <1>3. EtagsKnown(t)'
    BY <1>1, <1>2 DEF TabInv, EtagsKnown
  <1>4. PageFresh(t)'
    BY <1>1, <1>2 DEF TabInv, PageFresh, Sees, Fresh
  <1>5. MoveInformed(t)'
    BY <1>1, <1>2 DEF TabInv, MoveInformed
  <1>6. PostsInformed(t)'
    BY <1>1, <1>2 DEF TabInv, PostsInformed
  <1> QED BY <1>3, <1>4, <1>5, <1>6 DEF TabInv

LEMMA SaveConfirmedInformed ==
    ASSUME TypeInvariant, NEW t \in Tab, TabInv(t), SaveConfirmed(t)
    PROVE  TabInv(t)'
  <1> USE TabFacts
  <1>1. /\ queue'[t] = Confirmed(queue[t]) /\ queue[t].sent.stage = "ok"
        /\ page'[t] = page[t] /\ posts'[t] = posts[t] /\ peek'[t] = peek[t]
        /\ move'[t] = move[t] /\ row' = row
        /\ behind'[t] = (behind[t] \/ (queue[t].sent.live /\ row.version # queue[t].sent.etag))
    BY DEF TypeInvariant, TypeOK, SaveConfirmed
  <1>2. /\ queue'[t].etag = (IF queue[t].sent.live THEN row.version ELSE queue[t].etag)
        /\ queue'[t].sent.stage = "none"
        /\ queue'[t].sent.etag = 0
        /\ ~queue'[t].sent.live
    BY <1>1, ConfirmedFields
  <1>3. EtagsKnown(t)'
    BY <1>1, <1>2, RowFacts, QueueFacts DEF TabInv, EtagsKnown
  <1>4. PageFresh(t)'
    BY <1>1, <1>2 DEF TabInv, PageFresh, Sees, Fresh
  <1>5. MoveInformed(t)'
    BY <1>1, <1>2 DEF TabInv, MoveInformed
  <1>6. PostsInformed(t)'
    BY <1>1, <1>2 DEF TabInv, PostsInformed
  <1> QED BY <1>3, <1>4, <1>5, <1>6 DEF TabInv

LEMMA SaveGivenUpInformed ==
    ASSUME TypeInvariant, NEW t \in Tab, TabInv(t), SaveGivenUp(t)
    PROVE  TabInv(t)'
  <1> USE TabFacts
  <1>1. /\ queue'[t] = GivenUp(queue[t])
        /\ page'[t] = page[t] /\ posts'[t] = posts[t] /\ peek'[t] = peek[t]
        /\ (move'[t] = move[t] \/ move'[t] = Idle) /\ behind'[t] = behind[t] /\ row' = row
    BY DEF TypeInvariant, TypeOK, SaveGivenUp, MoveAfterFailure
  <1>2. /\ queue'[t].etag = queue[t].etag
        /\ queue'[t].sent.stage = "none"
        /\ queue'[t].sent.etag = 0
        /\ ~queue'[t].sent.live
        /\ move'[t] = move[t] \/ (move'[t].stage = "idle" /\ move'[t].etag = 0)
    BY <1>1, GivenUpFields, MoveFields
  <1>3. EtagsKnown(t)'
    BY <1>1, <1>2, RowFacts, QueueFacts DEF TabInv, EtagsKnown
  <1>4. PageFresh(t)'
    BY <1>1, <1>2 DEF TabInv, PageFresh, Sees, Fresh
  <1>5. MoveInformed(t)'
    BY <1>1, <1>2 DEF TabInv, MoveInformed
  <1>6. PostsInformed(t)'
    BY <1>1, <1>2 DEF TabInv, PostsInformed
  <1> QED BY <1>3, <1>4, <1>5, <1>6 DEF TabInv

LEMMA ClickInformed ==
    ASSUME TypeInvariant, NEW t \in Tab, NEW op \in Op, TabInv(t), Click(t, op)
    PROVE  TabInv(t)'
  <1> USE TabFacts
  <1>1. /\ move'[t] = Asked(page[t], op, queue[t].dropped) /\ queue'[t] = Popped(queue[t])
        /\ Allowed(t, op)
        /\ page'[t] = page[t] /\ posts'[t] = posts[t] /\ peek'[t] = peek[t]
        /\ behind'[t] = behind[t] /\ row' = row
    BY DEF TypeInvariant, TypeOK, Click
  <1>2. /\ queue'[t].etag = queue[t].etag
        /\ queue'[t].sent.stage = queue[t].sent.stage
        /\ queue'[t].sent.etag = queue[t].sent.etag
        /\ queue'[t].sent.live = queue[t].sent.live
    BY <1>1, PoppedFields
  <1>3. EtagsKnown(t)'
    BY <1>1, <1>2, RowFacts DEF TabInv, EtagsKnown, Asked
  <1>4. PageFresh(t)'
    BY <1>1, <1>2 DEF TabInv, PageFresh, Sees, Fresh
  <1>5. MoveInformed(t)'
    BY <1>1, <1>2, AskedBuilt DEF TabInv, PageFresh, MoveInformed
  <1>6. PostsInformed(t)'
    BY <1>1, <1>2 DEF TabInv, PostsInformed
  <1> QED BY <1>3, <1>4, <1>5, <1>6 DEF TabInv

LEMMA FlushReturnsInformed ==
    ASSUME TypeInvariant, NEW t \in Tab, TabInv(t), FlushReturns(t)
    PROVE  TabInv(t)'
  <1> USE TabFacts
  <1>1. /\ queue'[t] = queue[t] /\ move[t].stage = "flushing"
        /\ move'[t] = SentUnder(move[t], queue[t].etag, behind[t]) \/ move'[t] = Idle
        /\ page'[t] = page[t] /\ posts'[t] = posts[t] /\ peek'[t] = peek[t]
        /\ behind'[t] = behind[t] /\ row' = row
    BY DEF TypeInvariant, TypeOK, FlushReturns
  <1>2. /\ \/ /\ move'[t].stage = "sent" /\ move'[t].etag = queue[t].etag /\ move'[t].behind = behind[t]
              /\ move'[t].op = move[t].op /\ move'[t].shown = move[t].shown
           \/ move'[t].stage = "idle" /\ move'[t].etag = 0
    BY <1>1, MoveFields, QueueFacts
  <1>3. EtagsKnown(t)'
    BY <1>1, <1>2, RowFacts DEF TabInv, EtagsKnown
  <1>4. PageFresh(t)'
    BY <1>1, <1>2 DEF TabInv, PageFresh, Sees, Fresh
  <1>5. MoveInformed(t)'
    BY <1>1, <1>2 DEF TabInv, MoveInformed, PageFresh, Sees, Fresh
  <1>6. PostsInformed(t)'
    BY <1>1, <1>2 DEF TabInv, PostsInformed
  <1> QED BY <1>3, <1>4, <1>5, <1>6 DEF TabInv

LEMMA MoveAnsweredInformed ==
    ASSUME TypeInvariant, NEW t \in Tab, TabInv(t), MoveAnswered(t)
    PROVE  TabInv(t)'
  <1> USE TabFacts
  <1>1. /\ queue'[t] = queue[t] /\ move'[t] = Idle /\ posts'[t] = posts[t] /\ peek'[t] = peek[t]
        /\ page'[t] = Closed \/ page'[t] = page[t]
        /\ behind'[t] = behind[t] /\ row' = row
    BY DEF TypeInvariant, TypeOK, MoveAnswered
  <1>2. /\ move'[t].stage = "idle" /\ move'[t].etag = 0
    BY <1>1, MoveFields
  <1>3. EtagsKnown(t)'
    BY <1>1, <1>2, RowFacts DEF TabInv, EtagsKnown
  <1>4. PageFresh(t)'
    BY <1>1, <1>2 DEF TabInv, PageFresh, Sees, Fresh, Closed
  <1>5. MoveInformed(t)'
    BY <1>1, <1>2 DEF TabInv, MoveInformed
  <1>6. PostsInformed(t)'
    BY <1>1, <1>2 DEF TabInv, PostsInformed
  <1> QED BY <1>3, <1>4, <1>5, <1>6 DEF TabInv

LEMMA RefreshReadInformed ==
    ASSUME TypeInvariant, NEW t \in Tab, TabInv(t), RefreshRead(t)
    PROVE  TabInv(t)'
  <1> USE TabFacts
  <1>1. /\ page'[t] = page[t] /\ queue'[t] = queue[t] /\ move'[t] = move[t] /\ posts'[t] = posts[t]
        /\ peek'[t] = [out |-> TRUE, thread |-> row.thread]
        /\ row' = row /\ (~behind'[t] => ~behind[t] /\ posts[t] = {})
    BY DEF TypeInvariant, TypeOK, RefreshRead
  <1>3. EtagsKnown(t)'
    BY <1>1 DEF TabInv, EtagsKnown
  <1>4. PageFresh(t)'
    BY <1>1 DEF TabInv, PageFresh, Sees, Fresh
  <1>5. MoveInformed(t)'
    BY <1>1 DEF TabInv, MoveInformed
  <1>6. PostsInformed(t)'
    BY <1>1 DEF TabInv, PostsInformed
  <1> QED BY <1>3, <1>4, <1>5, <1>6 DEF TabInv

LEMMA RefreshShownInformed ==
    ASSUME TypeInvariant, NEW t \in Tab, TabInv(t), RefreshShown(t)
    PROVE  TabInv(t)'
  <1> USE TabFacts
  <1>1. /\ queue'[t] = queue[t] /\ move'[t] = move[t] /\ posts'[t] = posts[t]
        /\ page'[t] = IF page[t].open THEN WithThread(page[t], peek[t].thread) ELSE page[t]
        /\ peek[t].out /\ peek'[t] = NoPeek
        /\ behind'[t] = behind[t] /\ row' = row
    BY DEF TypeInvariant, TypeOK, RefreshShown
  <1>2. /\ page'[t].open = page[t].open /\ page'[t].mine = page[t].mine
        /\ page'[t].status = page[t].status
        /\ page[t].open => page'[t].thread = peek[t].thread
    BY <1>1, ThreadFields, PeekFact
  <1>3. EtagsKnown(t)'
    BY <1>1, <1>2 DEF TabInv, EtagsKnown
  <1>4. PageFresh(t)'
    BY <1>1, <1>2 DEF TabInv, PageFresh, Sees, Fresh, NoPeek
  <1>5. MoveInformed(t)'
    BY <1>1, <1>2 DEF TabInv, MoveInformed
  <1>6. PostsInformed(t)'
    BY <1>1, <1>2 DEF TabInv, PostsInformed
  <1> QED BY <1>3, <1>4, <1>5, <1>6 DEF TabInv

LEMMA SavedRow ==
    ASSUME row \in RowType, NEW n
    PROVE  /\ AfterSave(n).version = row.version + 1
           /\ AfterSave(n).status = row.status /\ AfterSave(n).reviewer = row.reviewer
           /\ AfterSave(n).reportable = row.reportable /\ AfterSave(n).completed = row.completed
           /\ AfterSave(n).stamp = row.stamp /\ AfterSave(n).awaiting = row.awaiting
           /\ AfterSave(n).thread = row.thread
  BY DEF AfterSave, RowType

LEMMA PostedRow ==
    ASSUME row \in RowType, NEW thread, NEW asks
    PROVE  /\ AfterPost(thread, asks).version = row.version + 1
           /\ AfterPost(thread, asks).status = row.status /\ AfterPost(thread, asks).reviewer = row.reviewer
           /\ AfterPost(thread, asks).reportable = row.reportable
           /\ AfterPost(thread, asks).completed = row.completed
           /\ AfterPost(thread, asks).stamp = row.stamp
           /\ AfterPost(thread, asks).thread = thread
  BY DEF AfterPost, RowType

LEMMA MovedFields ==
    ASSUME row \in RowType, NEW op \in Op, NEW s \in Stamp
    PROVE  /\ AfterMove(op, s).version = row.version + 1
           /\ AfterMove(op, s).reviewer = row.reviewer /\ AfterMove(op, s).thread = row.thread
           /\ op = "send" => /\ AfterMove(op, s).status = "actions" /\ AfterMove(op, s).reportable
                             /\ AfterMove(op, s).completed = row.completed /\ AfterMove(op, s).stamp = s
           /\ op = "complete" => /\ AfterMove(op, s).status = "completed" /\ AfterMove(op, s).reportable
                                 /\ AfterMove(op, s).completed /\ AfterMove(op, s).stamp = s
                                 /\ ~AfterMove(op, s).awaiting
           /\ op = "close" => /\ AfterMove(op, s).status = "completed"
                              /\ AfterMove(op, s).reportable = row.reportable
                              /\ AfterMove(op, s).completed /\ AfterMove(op, s).stamp = row.stamp
                              /\ ~AfterMove(op, s).awaiting
           /\ op = "void" => /\ AfterMove(op, s).status = "void"
                             /\ AfterMove(op, s).reportable = row.reportable
                             /\ AfterMove(op, s).completed = row.completed /\ AfterMove(op, s).stamp = row.stamp
                             /\ ~AfterMove(op, s).awaiting
  <1>1. /\ AfterMove(op, s).version = row.version + 1
        /\ AfterMove(op, s).reviewer = row.reviewer /\ AfterMove(op, s).thread = row.thread
    BY DEF AfterMove, RowType
  <1>2. CASE op = "send"
    BY <1>1, <1>2 DEF AfterMove, RowType
  <1>3. CASE op = "complete"
    BY <1>1, <1>3 DEF AfterMove, RowType
  <1>4. CASE op = "close"
    BY <1>1, <1>4 DEF AfterMove, RowType
  <1>5. CASE op = "void"
    BY <1>1, <1>5 DEF AfterMove, RowType
  <1> QED BY <1>2, <1>3, <1>4, <1>5 DEF Op

LEMMA SaveArrivesInformed ==
    ASSUME TypeInvariant, NEW t \in Tab, TabInv(t), SaveArrives(t)
    PROVE  TabInv(t)'
  <1> USE TabFacts
  <1>1. /\ page'[t] = page[t] /\ posts'[t] = posts[t] /\ peek'[t] = peek[t]
        /\ move'[t] = move[t] /\ behind'[t] = behind[t] /\ queue[t].sent.stage = "patch"
    BY DEF SaveArrives
  <1>2. CASE queue[t].sent.etag = row.version
    <2>1. queue'[t] = Landed(queue[t]) /\ row' = AfterSave(queue[t].sent.val)
      BY <1>2 DEF SaveArrives, TypeInvariant, TypeOK
    <2>2. /\ queue'[t].etag = queue[t].etag /\ queue'[t].sent.stage = "ok"
          /\ queue'[t].sent.etag = row.version + 1 /\ queue'[t].sent.live = queue[t].sent.live
      BY <2>1, LandedFields
    <2>3. /\ row'.version = row.version + 1 /\ row'.status = row.status
          /\ row'.reviewer = row.reviewer /\ row'.thread = row.thread
      BY <2>1, SavedRow
    <2>4. EtagsKnown(t)'
      BY <1>1, <2>2, <2>3, RowFacts, QueueFacts, PostFact DEF TabInv, EtagsKnown, MoveType
    <2>5. PageFresh(t)'
      <3>1. queue[t].sent.live => queue[t].etag = row.version
        BY <1>1, <1>2 DEF TabInv, EtagsKnown
      <3>2. queue[t].sent.live /\ page[t].open /\ ~behind[t] => Fresh(t)'
        BY <1>1, <2>3, <3>1 DEF TabInv, PageFresh, Sees, Fresh
      <3>3. Sees(t, queue[t].etag)' /\ \A p \in posts[t] : p.etag # row'.version
        BY <1>1, <2>2, <2>3, RowFacts, QueueFacts, PostFact DEF TabInv, EtagsKnown, Sees
      <3> QED BY <1>1, <2>2, <3>2, <3>3 DEF TabInv, PageFresh, Sees
    <2>6. MoveInformed(t)'
      BY <1>1, <2>3, RowFacts DEF TabInv, MoveInformed, EtagsKnown, MoveType
    <2>7. PostsInformed(t)'
      BY <1>1, <2>3, RowFacts, PostFact DEF TabInv, PostsInformed, EtagsKnown
    <2> QED BY <2>4, <2>5, <2>6, <2>7 DEF TabInv
  <1>3. CASE queue[t].sent.etag # row.version
    <2>1. queue'[t] = Refused(queue[t]) /\ row' = row
      BY <1>3 DEF SaveArrives, TypeInvariant, TypeOK
    <2>2. /\ queue'[t].etag = queue[t].etag /\ queue'[t].sent.stage = "stale"
          /\ queue'[t].sent.etag = queue[t].sent.etag /\ queue'[t].sent.live = queue[t].sent.live
      BY <2>1, RefusedFields
    <2> QED BY <1>1, <2>1, <2>2 DEF TabInv, EtagsKnown, PageFresh, Sees, Fresh, MoveInformed, PostsInformed
  <1> QED BY <1>2, <1>3

LEMMA SaveRereadInformed ==
    ASSUME TypeInvariant, NEW t \in Tab, TabInv(t), SaveReread(t)
    PROVE  TabInv(t)'
  <1> USE TabFacts
  <1>1. /\ page'[t] = page[t] /\ posts'[t] = posts[t] /\ peek'[t] = peek[t] /\ row' = row
        /\ queue[t].sent.stage = "stale"
    BY DEF SaveReread
  <1>2. CASE row.answers = queue[t].base
    <2>1. /\ queue'[t] = Rebased(queue[t]) /\ move'[t] = move[t]
          /\ ~behind'[t] => ~behind[t] /\ row.version = queue[t].etag
      BY <1>2 DEF SaveReread, TypeInvariant, TypeOK
    <2>2. /\ queue'[t].etag = row.version /\ queue'[t].sent.stage = "patch"
          /\ queue'[t].sent.etag = row.version
      BY <2>1, RebasedFields
    <2>3. EtagsKnown(t)'
      BY <1>1, <2>1, <2>2, RowFacts DEF TabInv, EtagsKnown
    <2>4. PageFresh(t)'
      BY <1>1, <2>1, <2>2 DEF TabInv, PageFresh, Sees, Fresh
    <2>5. MoveInformed(t)' /\ PostsInformed(t)'
      BY <1>1, <2>1 DEF TabInv, MoveInformed, PostsInformed
    <2> QED BY <2>3, <2>4, <2>5 DEF TabInv
  <1>3. CASE row.answers # queue[t].base
    <2>1. /\ queue'[t] = Conflicted(queue[t]) /\ behind'[t] = behind[t]
          /\ move'[t] = move[t] \/ move'[t] = Idle
      BY <1>3 DEF SaveReread, MoveAfterFailure, TypeInvariant, TypeOK
    <2>2. /\ queue'[t].etag = queue[t].etag /\ queue'[t].sent.stage = "none"
          /\ queue'[t].sent.etag = 0 /\ ~queue'[t].sent.live
      BY <2>1, ConflictedFields
    <2>3. move'[t] = move[t] \/ (move'[t].stage = "idle" /\ move'[t].etag = 0)
      BY <2>1, MoveFields
    <2>4. EtagsKnown(t)'
      BY <1>1, <2>2, <2>3, RowFacts DEF TabInv, EtagsKnown
    <2>5. PageFresh(t)'
      BY <1>1, <2>1, <2>2 DEF TabInv, PageFresh, Sees, Fresh
    <2>6. MoveInformed(t)' /\ PostsInformed(t)'
      BY <1>1, <2>1, <2>3 DEF TabInv, MoveInformed, PostsInformed
    <2> QED BY <2>4, <2>5, <2>6 DEF TabInv
  <1> QED BY <1>2, <1>3

LEMMA MoveArrivesInformed ==
    ASSUME TypeInvariant, NEW t \in Tab, TabInv(t), MoveArrives(t)
    PROVE  TabInv(t)'
  <1> USE TabFacts
  <1>1. /\ page'[t] = page[t] /\ posts'[t] = posts[t] /\ peek'[t] = peek[t]
        /\ queue'[t] = queue[t] /\ behind'[t] = behind[t] /\ move[t].stage = "sent"
        /\ move'[t] = MovedTo(move[t], "ok") \/ move'[t] = MovedTo(move[t], "refused")
        /\ row' = row \/ row' = AfterMove(move[t].op, move[t].stamp)
    BY DEF MoveArrives, TypeInvariant, TypeOK
  <1>2. /\ move'[t].stage \in {"ok", "refused"} /\ move'[t].etag = move[t].etag
        /\ move'[t].op = move[t].op /\ move'[t].shown = move[t].shown
    BY <1>1, MoveFields
  <1>3. row' = row \/ row'.version = row.version + 1
    BY <1>1, MovedFields DEF MoveType
  <1>4. EtagsKnown(t)'
    BY <1>1, <1>2, <1>3, RowFacts, QueueFacts, PostFact DEF TabInv, EtagsKnown, MoveType
  <1>5. PageFresh(t)'
    <2>1. CASE row' = row
      BY <1>1, <2>1 DEF TabInv, PageFresh, Sees, Fresh
    <2>2. CASE row'.version = row.version + 1
      <3>1. queue[t].etag # row'.version /\ queue[t].sent.etag # row'.version
            /\ \A p \in posts[t] : p.etag # row'.version
        BY <2>2, RowFacts, QueueFacts, PostFact DEF TabInv, EtagsKnown
      <3> QED BY <1>1, <3>1 DEF TabInv, PageFresh, Sees
    <2> QED BY <1>3, <2>1, <2>2
  <1>6. MoveInformed(t)'
    BY <1>1, <1>2 DEF TabInv, MoveInformed
  <1>7. PostsInformed(t)'
    BY <1>1, <1>3, RowFacts, PostFact DEF TabInv, PostsInformed, EtagsKnown
  <1> QED BY <1>4, <1>5, <1>6, <1>7 DEF TabInv

LEMMA PostInformed ==
    ASSUME TypeInvariant, NEW t \in Tab, TabInv(t), Post(t)
    PROVE  TabInv(t)'
  <1> USE TabFacts
  <1> DEFINE thread == page[t].thread \cup {used'["messages"]}
  <1> DEFINE new == [stage |-> "patch", thread |-> thread, etag |-> queue[t].etag, behind |-> behind'[t]]
  <1>1. /\ CanPost(t) /\ row' = row /\ queue' = queue /\ move' = move /\ peek' = peek
        /\ page' = [page EXCEPT ![t] = WithThread(page[t], thread)]
        /\ posts' = [posts EXCEPT ![t] = posts[t] \cup {new}]
        /\ behind' = [behind EXCEPT ![t] = behind[t] \/ peek[t].out]
    BY DEF Post
  <1>2. /\ page'[t] = WithThread(page[t], thread) /\ posts'[t] = posts[t] \cup {new}
        /\ ~behind'[t] => ~behind[t] /\ ~peek[t].out
    BY <1>1 DEF TypeInvariant, TypeOK
  <1>3. /\ page'[t].open = page[t].open /\ page'[t].mine = page[t].mine
        /\ page'[t].status = page[t].status /\ page'[t].thread = thread
    BY <1>2, ThreadFields
  <1>4. /\ new.etag = queue[t].etag /\ new.thread = thread /\ new.behind = behind'[t]
        /\ page[t].thread \subseteq thread
    OBVIOUS
  <1> HIDE DEF new, thread
  <1>5. EtagsKnown(t)'
    BY <1>1, <1>2, <1>4 DEF TabInv, EtagsKnown
  <1>6. Sees(t, queue[t].etag)
    BY DEF TabInv, PageFresh
  <1>7. PageFresh(t)'
    <2>1. \A n : Sees(t, n) => Sees(t, n)'
      BY <1>1, <1>2, <1>3, <1>4 DEF Sees, Fresh
    <2> QED BY <1>1, <1>2, <1>3, <1>4, <2>1 DEF TabInv, PageFresh
  <1>8. MoveInformed(t)'
    BY <1>1, <1>2, <1>3 DEF TabInv, MoveInformed
  <1>9. PostsInformed(t)'
    BY <1>1, <1>2, <1>4, <1>6 DEF TabInv, PostsInformed, Sees, Fresh, CanPost
  <1> QED BY <1>5, <1>7, <1>8, <1>9 DEF TabInv

LEMMA PostConfirmedInformed ==
    ASSUME TypeInvariant, NEW t \in Tab, TabInv(t), NEW p, PostConfirmed(t, p)
    PROVE  TabInv(t)'
  <1> USE TabFacts
  <1>1. /\ page'[t] = page[t] /\ peek'[t] = peek[t] /\ move'[t] = move[t] /\ row' = row
        /\ posts'[t] \subseteq posts[t] /\ p \in posts[t]
        /\ queue'[t] = Reloaded(queue[t])
        /\ ~behind'[t] => ~behind[t] /\ row.version = p.etag
    BY DEF PostConfirmed, TypeInvariant, TypeOK
  <1>2. /\ queue'[t].etag = row.version /\ queue'[t].sent.etag = queue[t].sent.etag
        /\ ~queue'[t].sent.live
    BY <1>1, ReloadedFields
  <1>3. EtagsKnown(t)'
    BY <1>1, <1>2, RowFacts DEF TabInv, EtagsKnown
  <1>4. PageFresh(t)'
    BY <1>1, <1>2 DEF TabInv, PageFresh, Sees, Fresh
  <1>5. MoveInformed(t)'
    BY <1>1 DEF TabInv, MoveInformed
  <1>6. PostsInformed(t)'
    BY <1>1 DEF TabInv, PostsInformed
  <1> QED BY <1>3, <1>4, <1>5, <1>6 DEF TabInv

LEMMA AnsweredPost ==
    ASSUME NEW p \in PostType, NEW n
    PROVE  LET q == [p EXCEPT !.stage = "ok", !.etag = n]
           IN q.stage = "ok" /\ q.etag = n /\ q.thread = p.thread
  BY DEF PostType

LEMMA PostArrivesInformed ==
    ASSUME TypeInvariant, NEW t \in Tab, TabInv(t), NEW p, PostArrives(t, p)
    PROVE  TabInv(t)'
  <1> USE TabFacts
  <1>1. /\ page'[t] = page[t] /\ peek'[t] = peek[t] /\ move'[t] = move[t] /\ queue'[t] = queue[t]
        /\ behind'[t] = behind[t] /\ p \in posts[t] /\ p \in PostType
    BY DEF PostArrives
  <1>2. CASE ~PostLands(t, p)
    <2>1. row' = row /\ posts'[t] \subseteq posts[t]
      BY <1>2 DEF PostArrives, TypeInvariant, TypeOK
    <2> QED BY <1>1, <2>1 DEF TabInv, EtagsKnown, PageFresh, Sees, Fresh, MoveInformed, PostsInformed
  <1>3. CASE PostLands(t, p)
    <2> DEFINE ok == [p EXCEPT !.stage = "ok", !.etag = row.version + 1]
    <2>1. /\ row' = AfterPost(p.thread, t \in ReviewTab)
          /\ posts'[t] = (posts[t] \ {p}) \cup {ok} \/ posts'[t] = posts[t] \ {p}
      BY <1>3 DEF PostArrives, TypeInvariant, TypeOK
    <2>2. ok.stage = "ok" /\ ok.etag = row.version + 1 /\ ok.thread = p.thread
      BY <1>1, AnsweredPost
    <2> HIDE DEF ok
    <2>3. /\ row'.version = row.version + 1 /\ row'.status = row.status
          /\ row'.reviewer = row.reviewer /\ row'.thread = p.thread
      BY <2>1, PostedRow
    <2>4. posts'[t] \subseteq posts[t] \cup {ok}
      BY <2>1
    <2>5. EtagsKnown(t)'
      <3>1. \A q \in posts[t] : q.etag <= row'.version
        BY <2>3, RowFacts, PostFact DEF TabInv, EtagsKnown
      <3>2. ok.etag <= row'.version
        BY <2>2, <2>3, RowFacts
      <3>3. queue[t].etag <= row'.version /\ queue[t].sent.etag <= row'.version /\ move[t].etag <= row'.version
        BY <2>3, RowFacts, QueueFacts DEF TabInv, EtagsKnown, MoveType
      <3>4. \A q \in posts'[t] : q.etag <= row'.version
        BY <2>4, <3>1, <3>2
      <3> QED BY <1>1, <3>3, <3>4 DEF TabInv, EtagsKnown
    <2>6. PageFresh(t)'
      <3>1. page[t].open /\ ~behind[t] => Fresh(t)'
        <4>1. p.etag = row.version
          BY <1>3 DEF PostLands
        <4>2. page[t].open /\ ~behind[t] => Fresh(t)
          BY <1>1, <4>1 DEF TabInv, PageFresh, Sees
        <4>3. page[t].open /\ ~behind[t] => p.thread \subseteq page[t].thread /\ ~peek[t].out
          BY <1>1 DEF TabInv, PageFresh
        <4> QED BY <1>1, <2>3, <4>2, <4>3 DEF Fresh
      <3>2. queue[t].etag # row'.version /\ queue[t].sent.etag # row'.version
            /\ \A q \in posts[t] : q.etag # row'.version
        BY <2>3, RowFacts, QueueFacts, PostFact DEF TabInv, EtagsKnown
      <3> QED BY <1>1, <2>2, <2>4, <3>1, <3>2 DEF TabInv, PageFresh, Sees
    <2>7. MoveInformed(t)'
      BY <1>1, <2>3, RowFacts DEF TabInv, MoveInformed, EtagsKnown, MoveType
    <2>8. PostsInformed(t)'
      BY <1>1, <2>2, <2>3, <2>4, RowFacts, PostFact DEF TabInv, PostsInformed, EtagsKnown
    <2> QED BY <2>5, <2>6, <2>7, <2>8 DEF TabInv
  <1> QED BY <1>2, <1>3

----------------------------------------------------------------------------
(* A step and what the others know *)

\* What a step may do to the row: nothing, or make a new version of it.
Versioned == row' = row \/ row'.version = row.version + 1

Untouched(s) ==
    /\ page'[s] = page[s] /\ queue'[s] = queue[s] /\ move'[s] = move[s]
    /\ posts'[s] = posts[s] /\ peek'[s] = peek[s] /\ behind'[s] = behind[s]

LEMMA Bystander ==
    ASSUME TypeInvariant, NEW s \in Tab, TabInv(s), Versioned, Untouched(s)
    PROVE  TabInv(s)'
  <1> USE TabFacts DEF Untouched
  <1>1. CASE row' = row
    BY <1>1 DEF TabInv, EtagsKnown, PageFresh, Sees, Fresh, MoveInformed, PostsInformed
  <1>2. CASE row'.version = row.version + 1
    <2>1. /\ queue[s].etag < row'.version /\ queue[s].sent.etag < row'.version
          /\ move[s].etag < row'.version /\ \A p \in posts[s] : p.etag < row'.version
      BY <1>2, RowFacts, QueueFacts, PostFact DEF TabInv, EtagsKnown, MoveType
    <2>2. row'.version \in Nat
      BY <1>2, RowFacts
    <2>3. EtagsKnown(s)'
      BY <2>1, <2>2, QueueFacts, PostFact DEF TabInv, EtagsKnown, MoveType
    <2>4. /\ queue[s].etag # row'.version /\ queue[s].sent.etag # row'.version
          /\ move[s].etag # row'.version /\ \A p \in posts[s] : p.etag # row'.version
      BY <2>1, <2>2, QueueFacts, PostFact DEF MoveType
    <2>5. PageFresh(s)'
      BY <2>4 DEF TabInv, PageFresh, Sees
    <2>6. MoveInformed(s)' /\ PostsInformed(s)'
      BY <2>4 DEF TabInv, MoveInformed, PostsInformed
    <2> QED BY <2>3, <2>5, <2>6 DEF TabInv
  <1> QED BY <1>1, <1>2 DEF Versioned

LEMMA SupportStands ==
    ASSUME TypeInvariant, SupportKnown, Versioned, UNCHANGED supportVars
    PROVE  SupportKnown'
  <1>1. support.seen.version \in Nat /\ row.version \in Nat /\ row \in RowType
    BY RowFacts DEF TypeInvariant, TypeOK, SupportType
  <1>2. support' = support /\ log' = log
    BY DEF supportVars
  <1>3. support'.seen.version <= row'.version
    BY <1>1, <1>2 DEF SupportKnown, Versioned
  <1>4. support'.seen.version = row'.version => support'.seen = row'
    BY <1>1, <1>2 DEF SupportKnown, Versioned
  <1>5. \A op, seen, u : SupportAllowed(op, seen, u)' = SupportAllowed(op, seen, u)
    BY DEF SupportAllowed
  <1> QED BY <1>2, <1>3, <1>4 DEF SupportKnown, SupportAllowed

\* A step of a tab leaves the other tabs alone.
LEMMA TabsApart ==
    ASSUME TypeInvariant, NEW t \in Tab, TabNext(t)
    PROVE  Versioned /\ UNCHANGED supportVars /\ \A s \in Tab \ {t} : Untouched(s)
  <1> USE TabFacts DEF TypeInvariant, TypeOK
  <1> DEFINE Apart == Versioned /\ UNCHANGED supportVars /\ \A s \in Tab \ {t} : Untouched(s)
  <1>1. Load(t) => Apart
    BY DEF Load, Versioned, Untouched
  <1>2. EditOther(t) => Apart
    BY DEF EditOther, Versioned, Untouched
  <1>3. Autosave(t) => Apart
    BY DEF Autosave, Versioned, Untouched
  <1>4. SaveConfirmed(t) => Apart
    BY DEF SaveConfirmed, Versioned, Untouched
  <1>5. SaveReread(t) => Apart
    BY DEF SaveReread, Versioned, Untouched
  <1>6. SaveGivenUp(t) => Apart
    BY DEF SaveGivenUp, Versioned, Untouched
  <1>7. FlushPopped(t) => Apart
    BY DEF FlushPopped, Versioned, Untouched
  <1>8. FlushReturns(t) => Apart
    BY DEF FlushReturns, Versioned, Untouched
  <1>9. MoveAnswered(t) => Apart
    BY DEF MoveAnswered, Versioned, Untouched
  <1>10. Post(t) => Apart
    BY DEF Post, Versioned, Untouched
  <1>11. RefreshRead(t) => Apart
    BY DEF RefreshRead, Versioned, Untouched
  <1>12. RefreshShown(t) => Apart
    BY DEF RefreshShown, Versioned, Untouched
  <1>13. \A k \in EditKind : EditAnswers(t, k) => Apart
    BY DEF EditAnswers, Versioned, Untouched
  <1>14. \A op \in Op : Click(t, op) => Apart
    BY DEF Click, Versioned, Untouched
  <1>15. \A p \in posts[t] : PostConfirmed(t, p) => Apart
    BY DEF PostConfirmed, Versioned, Untouched
  <1>16. SaveArrives(t) => Apart
    BY SavedRow DEF SaveArrives, Versioned, Untouched
  <1>17. MoveArrives(t) => Apart
    <2>1. AfterMove(move[t].op, move[t].stamp).version = row.version + 1
      BY MovedFields DEF MoveType
    <2> QED BY <2>1 DEF MoveArrives, Versioned, Untouched
  <1>18. \A p \in posts[t] : PostArrives(t, p) => Apart
    BY PostedRow DEF PostArrives, Versioned, Untouched
  <1> QED BY <1>1, <1>2, <1>3, <1>4, <1>5, <1>6, <1>7, <1>8, <1>9, <1>10, <1>11, <1>12, <1>13, <1>14, <1>15, <1>16, <1>17, <1>18 DEF TabNext, Answer

\* So it is enough that it keeps what its own tab knows.
LEMMA TabsInformed ==
    ASSUME TypeInvariant, \A s \in Tab : TabInv(s), SupportKnown, NEW t \in Tab, TabNext(t)
    PROVE  (\A s \in Tab : TabInv(s)') /\ SupportKnown'
  <1>1. TabInv(t)'
    BY LoadInformed, EditAnswersInformed, EditOtherInformed, AutosaveInformed, SaveArrivesInformed,
       SaveConfirmedInformed, SaveRereadInformed, SaveGivenUpInformed, ClickInformed, FlushPoppedInformed,
       FlushReturnsInformed, MoveArrivesInformed, MoveAnsweredInformed, PostInformed, PostArrivesInformed,
       PostConfirmedInformed, RefreshReadInformed, RefreshShownInformed DEF TabNext, Answer
  <1>2. Versioned /\ UNCHANGED supportVars /\ \A s \in Tab \ {t} : Untouched(s)
    BY TabsApart
  <1>3. \A s \in Tab \ {t} : TabInv(s)'
    BY <1>2, Bystander
  <1> QED BY <1>1, <1>2, <1>3, SupportStands

----------------------------------------------------------------------------
(* What the row says, and the log *)

Result == StampsAgree /\ ClosedWaitsOnNobody

LEMMA ResultStands ==
    ASSUME Result, UNCHANGED <<row, blind>>
    PROVE  Result'
  BY DEF Result, StampsAgree, ClosedWaitsOnNobody

LEMMA LogStands ==
    ASSUME ClearedIsLogged, UNCHANGED log
    PROVE  ClearedIsLogged'
  BY DEF ClearedIsLogged

LEMMA SaveResult ==
    ASSUME TypeInvariant, Result, NEW t \in Tab, SaveArrives(t)
    PROVE  Result'
  <1>1. row \in RowType /\ blind' = blind
    BY DEF SaveArrives, TypeInvariant, TypeOK
  <1>2. row' = row \/ row' = AfterSave(queue[t].sent.val)
    BY DEF SaveArrives
  <1>3. CASE row' = row
    BY <1>1, <1>3, ResultStands
  <1>4. CASE row' = AfterSave(queue[t].sent.val)
    BY <1>1, <1>4, SavedRow DEF Result, StampsAgree, ClosedWaitsOnNobody, AfterSave, RowType
  <1> QED BY <1>2, <1>3, <1>4

LEMMA MoveResult ==
    ASSUME TypeInvariant, Result, NEW t \in Tab, TabInv(t), MoveArrives(t)
    PROVE  Result'
  <1> USE TabFacts
  <1>1. CASE ~MoveLands(t)
    BY <1>1, ResultStands DEF MoveArrives
  <1>2. CASE MoveLands(t)
    <2>1. /\ row' = AfterMove(move[t].op, move[t].stamp) /\ blind' = (blind \/ move[t].behind)
          /\ move[t].stage = "sent"
      BY <1>2 DEF MoveArrives
    <2>2. move[t].op \in Op /\ move[t].stamp \in Stamp /\ move[t].stamp # NoStamp
      BY <2>1 DEF MoveType, Carries, Stamps
    <2> SUFFICES ASSUME ~blind' PROVE Result'
      BY DEF Result, StampsAgree, ClosedWaitsOnNobody
    <2>3. ~blind /\ ~move[t].behind
      BY <2>1
    <2>4. BuiltFor(move[t].op, row.status) /\ row.reviewer = UserOf[t] /\ t \in ReviewTab
      BY <1>2, <2>1, <2>3 DEF TabInv, MoveInformed, MoveLands
    <2>5. row.reviewer # Nobody
      BY <2>4
    <2>6. CASE move[t].op = "send"
      BY <2>1, <2>2, <2>3, <2>4, <2>5, <2>6, MovedFields DEF Result, StampsAgree, ClosedWaitsOnNobody, BuiltFor
    <2>7. CASE move[t].op = "complete"
      BY <2>1, <2>2, <2>3, <2>4, <2>5, <2>7, MovedFields DEF Result, StampsAgree, ClosedWaitsOnNobody, BuiltFor
    <2>8. CASE move[t].op = "close"
      BY <2>1, <2>2, <2>3, <2>4, <2>5, <2>8, MovedFields DEF Result, StampsAgree, ClosedWaitsOnNobody, BuiltFor
    <2>9. CASE move[t].op = "void"
      BY <2>1, <2>2, <2>3, <2>4, <2>5, <2>9, MovedFields DEF Result, StampsAgree, ClosedWaitsOnNobody, BuiltFor
    <2> QED BY <2>2, <2>6, <2>7, <2>8, <2>9 DEF Op
  <1> QED BY <1>1, <1>2

LEMMA PostResult ==
    ASSUME TypeInvariant, Result, NEW t \in Tab, TabInv(t), NEW p \in posts[t], PostArrives(t, p)
    PROVE  Result'
  <1> USE TabFacts
  <1>1. CASE ~PostLands(t, p)
    BY <1>1, ResultStands DEF PostArrives
  <1>2. CASE PostLands(t, p)
    <2>1. /\ row' = AfterPost(p.thread, t \in ReviewTab) /\ blind' = (blind \/ p.behind)
      BY <1>2 DEF PostArrives
    <2>2. ~blind' => ~blind /\ row.status \notin {"completed", "void"}
      BY <1>2, <2>1 DEF TabInv, PostsInformed, PostLands
    <2>3. /\ row'.status = row.status /\ row'.reviewer = row.reviewer /\ row'.reportable = row.reportable
          /\ row'.completed = row.completed /\ row'.stamp = row.stamp
      BY <2>1, PostedRow
    <2> QED BY <2>2, <2>3 DEF Result, StampsAgree, ClosedWaitsOnNobody
  <1> QED BY <1>1, <1>2

LEMMA TabResult ==
    ASSUME TypeInvariant, Result, NEW t \in Tab, TabInv(t), TabNext(t)
    PROVE  Result'
  <1>1. \/ UNCHANGED <<row, blind>> \/ SaveArrives(t) \/ MoveArrives(t)
        \/ \E p \in posts[t] : PostArrives(t, p)
    BY DEF TabNext, Answer, Load, EditAnswers, EditOther, Autosave, SaveConfirmed, SaveReread, SaveGivenUp,
           Click, FlushPopped, FlushReturns, MoveAnswered, Post, PostConfirmed, RefreshRead, RefreshShown
  <1> QED BY <1>1, ResultStands, SaveResult, MoveResult, PostResult

----------------------------------------------------------------------------
(* Claims and the support page *)

LEMMA ClaimKeeps ==
    ASSUME TypeInvariant, Result, NEW u \in User, Claim(u)
    PROVE  /\ Versioned /\ UNCHANGED supportVars /\ (\A s \in Tab : Untouched(s))
           /\ Result'
  <1>1. row' = AfterClaim(u) /\ row \in RowType /\ row.status = "toAllocate" /\ blind' = blind
    BY DEF Claim, TypeInvariant, TypeOK
  <1>2. /\ row'.version = row.version + 1 /\ row'.status = "inProgress" /\ row'.reviewer = u
        /\ row'.reportable = row.reportable /\ row'.completed = row.completed /\ row'.stamp = row.stamp
    BY <1>1 DEF AfterClaim, RowType
  <1>3. Versioned /\ UNCHANGED supportVars /\ (\A s \in Tab : Untouched(s))
    BY <1>2 DEF Claim, Versioned, Untouched, tabVars
  <1>4. Result'
    BY <1>1, <1>2 DEF Result, StampsAgree, ClosedWaitsOnNobody
  <1> QED BY <1>3, <1>4

LEMMA SupportedFields ==
    ASSUME row \in RowType, NEW op \in SupportOp, NEW u
    PROVE  /\ AfterSupport(op, u).version = row.version + 1
           /\ op = "unassign" =>
                 /\ AfterSupport(op, u).status = "toAllocate" /\ AfterSupport(op, u).reviewer = Nobody
                 /\ AfterSupport(op, u).reportable = row.reportable
                 /\ AfterSupport(op, u).completed = row.completed /\ AfterSupport(op, u).stamp = row.stamp
           /\ op = "reopen" =>
                 /\ AfterSupport(op, u).status = "inProgress" /\ AfterSupport(op, u).reviewer = row.reviewer
                 /\ ~AfterSupport(op, u).reportable /\ ~AfterSupport(op, u).completed
                 /\ AfterSupport(op, u).stamp = NoStamp
           /\ op = "reassign" =>
                 /\ AfterSupport(op, u).status = row.status /\ AfterSupport(op, u).reviewer = u
                 /\ AfterSupport(op, u).reportable = row.reportable
                 /\ AfterSupport(op, u).awaiting = row.awaiting
                 /\ AfterSupport(op, u).completed = row.completed /\ AfterSupport(op, u).stamp = row.stamp
  <1>1. CASE op = "unassign"
    BY <1>1 DEF AfterSupport, RowType
  <1>2. CASE op = "reopen"
    BY <1>2 DEF AfterSupport, RowType
  <1>3. CASE op = "reassign"
    BY <1>3 DEF AfterSupport, RowType
  <1> QED BY <1>1, <1>2, <1>3 DEF SupportOp

LEMMA SupportResult ==
    ASSUME TypeInvariant, Result, SupportKnown, SupportArrives
    PROVE  Result'
  <1>1. CASE ~SupportLands
    BY <1>1, ResultStands DEF SupportArrives
  <1>2. CASE SupportLands
    <2> DEFINE op == support.op  u == support.user
    <2>1. row' = AfterSupport(op, u) /\ blind' = blind /\ row \in RowType /\ op \in SupportOp
      BY <1>2 DEF SupportArrives, TypeInvariant, TypeOK, SupportType
    <2>2. SupportAllowed(op, row, u) /\ u \in User
      BY <1>2 DEF SupportLands, SupportKnown
    <2> HIDE DEF op, u
    <2>3. CASE op = "unassign"
      BY <2>1, <2>2, <2>3, SupportedFields DEF SupportAllowed, Result, StampsAgree, ClosedWaitsOnNobody
    <2>4. CASE op = "reopen"
      BY <2>1, <2>2, <2>4, SupportedFields DEF SupportAllowed, Result, StampsAgree, ClosedWaitsOnNobody
    <2>5. CASE op = "reassign"
      BY <2>1, <2>2, <2>5, SupportedFields DEF SupportAllowed, Result, StampsAgree, ClosedWaitsOnNobody
    <2> QED BY <2>1, <2>3, <2>4, <2>5 DEF SupportOp
  <1> QED BY <1>1, <1>2

LEMMA SupportVersioned ==
    ASSUME TypeInvariant, SupportNext
    PROVE  Versioned /\ \A s \in Tab : Untouched(s)
  <1>1. UNCHANGED tabVars
    BY DEF SupportNext, SupportLoad, SupportRecord, SupportArrives, SupportAnswered, SupportLeaves
  <1>2. Versioned
    <2>1. AfterSupport(support.op, support.user).version = row.version + 1
      BY SupportedFields DEF TypeInvariant, TypeOK, SupportType
    <2> QED BY <2>1 DEF SupportNext, SupportLoad, SupportRecord, SupportArrives, SupportAnswered,
                        SupportLeaves, Versioned
  <1> QED BY <1>1, <1>2 DEF Untouched, tabVars

\* What a step may do to the last entry of the log without making it untrue.
LEMMA EntryFields ==
    ASSUME NEW e \in EntryType
    PROVE  /\ Applied(e).before = e.before /\ Applied(e).cleared = Completion(row)
           /\ Denied(e).before = e.before /\ Denied(e).cleared = e.cleared /\ Denied(e).landed = e.landed
  BY DEF Applied, Denied, EntryType

LEMMA SupportLogged ==
    ASSUME TypeInvariant, SupportKnown, ClearedIsLogged, SupportNext
    PROVE  SupportKnown' /\ ClearedIsLogged'
  <1> USE DEF TypeInvariant
  <1>1. /\ row \in RowType /\ support \in SupportType /\ support.seen \in RowType /\ log \in Seq(EntryType)
        /\ row.version \in Nat /\ support.seen.version \in Nat
    BY RowFacts DEF TypeOK, SupportType
  <1>2. CASE SupportLoad
    <2>1. support' = [support EXCEPT !.stage = "open", !.seen = row] /\ log' = log /\ row' = row
      BY <1>2 DEF SupportLoad
    <2>2. support'.stage = "open" /\ support'.seen = row
      BY <1>1, <2>1 DEF SupportType
    <2> QED BY <1>1, <2>1, <2>2, LogStands DEF SupportKnown
  <1>3. ASSUME NEW op \in SupportOp, NEW u \in User, SupportRecord(op, u)
        PROVE  SupportKnown' /\ ClearedIsLogged'
    <2>1. /\ support' = [support EXCEPT !.stage = "sent", !.op = op, !.user = u]
          /\ log' = Append(log, Entry(op, support.seen)) /\ row' = row
          /\ SupportAllowed(op, support.seen, u)
      BY <1>3 DEF SupportRecord
    <2>2. support'.seen = support.seen /\ support'.op = op /\ support'.user = u
      BY <1>1, <2>1 DEF SupportType
    <2>3. /\ Len(log') = Len(log) + 1 /\ log'[Len(log')] = Entry(op, support.seen)
          /\ DOMAIN log' = 1..Len(log') /\ \A i \in DOMAIN log : log'[i] = log[i]
      BY <1>1, <2>1
    <2>4. Entry(op, support.seen).before = Completion(support.seen) /\ ~Entry(op, support.seen).landed
      BY DEF Entry
    <2>5. ClearedIsLogged'
      <3> SUFFICES ASSUME NEW i \in DOMAIN log', log'[i].landed
                   PROVE  log'[i].before = log'[i].cleared
        BY DEF ClearedIsLogged
      <3>1. i # Len(log')
        BY <2>3, <2>4
      <3>2. i \in DOMAIN log
        BY <1>1, <2>3, <3>1
      <3> QED BY <2>3, <3>2 DEF ClearedIsLogged
    <2>6. SupportAllowed(op, support.seen, u)'  = SupportAllowed(op, support'.seen, u)
      BY DEF SupportAllowed
    <2>7. SupportKnown'
      <3>1. (Completion(support.seen))' = Completion(support.seen)
        BY <2>2 DEF Completion
      <3> QED BY <2>1, <2>2, <2>3, <2>4, <3>1 DEF SupportKnown, SupportAllowed
    <2> QED BY <2>5, <2>7
  <1>4. CASE SupportArrives
    <2>1. CASE ~SupportLands
      <3>1. support' = [support EXCEPT !.stage = "refused"] /\ log' = log /\ row' = row
        BY <1>4, <2>1 DEF SupportArrives
      <3>2. support'.stage = "refused" /\ support'.seen = support.seen
        BY <1>1, <3>1 DEF SupportType
      <3> QED BY <3>1, <3>2, LogStands DEF SupportKnown
    <2>2. CASE SupportLands
      <3>1. /\ support.stage = "sent" /\ row'.version = row.version + 1
            /\ support' = [support EXCEPT !.stage = "ok"] \/ support' = [support EXCEPT !.stage = "refused"]
            /\ log' = [log EXCEPT ![Len(log)] = Applied(log[Len(log)])]
        BY <1>1, <1>4, <2>2, SupportedFields DEF SupportArrives, SupportLands, SupportType
      <3>2. support'.stage \in {"ok", "refused"} /\ support'.seen = support.seen
        BY <1>1, <3>1 DEF SupportType
      <3>3. Len(log) \in DOMAIN log /\ log[Len(log)] \in EntryType
        BY <1>1, <3>1 DEF Recorded
      <3>4. log[Len(log)].before = Completion(row)
        BY <2>2, <3>1 DEF SupportKnown, SupportLands
      <3>5. /\ DOMAIN log' = DOMAIN log /\ log'[Len(log)] = Applied(log[Len(log)])
            /\ \A i \in DOMAIN log \ {Len(log)} : log'[i] = log[i]
        BY <3>1, <3>3
      <3>6. ClearedIsLogged'
        BY <3>3, <3>4, <3>5, EntryFields DEF ClearedIsLogged
      <3> QED BY <1>1, <3>1, <3>2, <3>6 DEF SupportKnown
    <2> QED BY <2>1, <2>2
  <1>5. CASE SupportAnswered
    <2>1. /\ support.stage \in {"ok", "refused"} /\ row' = row
          /\ \/ support' = [support EXCEPT !.stage = "idle"] \/ support' = [support EXCEPT !.stage = "open"]
          /\ log' = log \/ log' = [log EXCEPT ![Len(log)] = Denied(log[Len(log)])]
      BY <1>5 DEF SupportAnswered
    <2>2. support'.stage \in {"idle", "open"} /\ support'.seen = support.seen
      BY <1>1, <2>1 DEF SupportType
    <2>3. CASE log' = log
      BY <2>1, <2>2, <2>3, LogStands DEF SupportKnown
    <2>4. CASE log' = [log EXCEPT ![Len(log)] = Denied(log[Len(log)])]
      <3>1. Len(log) \in DOMAIN log /\ log[Len(log)] \in EntryType
        BY <1>1, <2>1 DEF Recorded
      <3>2. /\ DOMAIN log' = DOMAIN log /\ log'[Len(log)] = Denied(log[Len(log)])
            /\ \A i \in DOMAIN log \ {Len(log)} : log'[i] = log[i]
        BY <2>4, <3>1
      <3>3. ClearedIsLogged'
        BY <3>1, <3>2, EntryFields DEF ClearedIsLogged
      <3> QED BY <2>1, <2>2, <3>3 DEF SupportKnown
    <2> QED BY <2>1, <2>3, <2>4
  <1>6. CASE SupportLeaves
    <2>1. support' = [support EXCEPT !.stage = "idle"] /\ log' = log /\ row' = row
      BY <1>6 DEF SupportLeaves
    <2>2. support'.stage = "idle" /\ support'.seen = support.seen
      BY <1>1, <2>1 DEF SupportType
    <2> QED BY <2>1, <2>2, LogStands DEF SupportKnown
  <1> QED BY <1>2, <1>3, <1>4, <1>5, <1>6 DEF SupportNext

----------------------------------------------------------------------------
(* The invariant, and the theorems *)

LEMMA InitInv == Init => IInv
  <1> SUFFICES ASSUME Init PROVE IInv
    OBVIOUS
  <1>1. TypeInvariant
    BY InitTyped
  <1>2. ASSUME NEW t \in Tab PROVE TabInv(t)
    BY DEF Init, TabInv, EtagsKnown, PageFresh, Sees, MoveInformed, PostsInformed, EmptyQueue, NoSave,
           Idle, Closed, NoPeek
  <1>3. SupportKnown
    BY DEF Init, SupportKnown
  <1>4. StampsAgree /\ ClosedWaitsOnNobody
    BY DEF Init, StampsAgree, ClosedWaitsOnNobody
  <1>5. ClearedIsLogged
    BY DEF Init, ClearedIsLogged
  <1> QED BY <1>1, <1>2, <1>3, <1>4, <1>5 DEF IInv

LEMMA NextInv ==
    ASSUME IInv, [Next]_vars
    PROVE  IInv'
  <1>1. TypeInvariant /\ (\A s \in Tab : TabInv(s)) /\ SupportKnown /\ Result /\ ClearedIsLogged
    BY DEF IInv, Result
  <1>2. TypeInvariant'
    BY <1>1, NextTyped
  <1>3. ASSUME NEW t \in Tab, TabNext(t)
        PROVE  (\A s \in Tab : TabInv(s)') /\ SupportKnown' /\ Result' /\ ClearedIsLogged'
    <2>1. (\A s \in Tab : TabInv(s)') /\ SupportKnown'
      BY <1>1, <1>3, TabsInformed
    <2>2. Result'
      BY <1>1, <1>3, TabResult
    <2>3. UNCHANGED log
      BY <1>1, <1>3, TabsApart DEF supportVars
    <2> QED BY <1>1, <2>1, <2>2, <2>3, LogStands
  <1>4. ASSUME NEW u \in User, Claim(u)
        PROVE  (\A s \in Tab : TabInv(s)') /\ SupportKnown' /\ Result' /\ ClearedIsLogged'
    <2>1. Versioned /\ UNCHANGED supportVars /\ (\A s \in Tab : Untouched(s)) /\ Result'
      BY <1>1, <1>4, ClaimKeeps
    <2>2. \A s \in Tab : TabInv(s)'
      BY <1>1, <2>1, Bystander
    <2>3. SupportKnown'
      BY <1>1, <2>1, SupportStands
    <2> QED BY <1>1, <2>1, <2>2, <2>3, LogStands DEF supportVars
  <1>5. ASSUME SupportNext
        PROVE  (\A s \in Tab : TabInv(s)') /\ SupportKnown' /\ Result' /\ ClearedIsLogged'
    <2>1. \A s \in Tab : TabInv(s)'
      BY <1>1, <1>5, SupportVersioned, Bystander
    <2>2. Result'
      <3>1. SupportArrives \/ UNCHANGED <<row, blind>>
        BY <1>5 DEF SupportNext, SupportLoad, SupportRecord, SupportAnswered, SupportLeaves
      <3> QED BY <1>1, <3>1, SupportResult, ResultStands
    <2> QED BY <1>1, <1>5, <2>1, <2>2, SupportLogged
  <1>6. ASSUME UNCHANGED vars
        PROVE  (\A s \in Tab : TabInv(s)') /\ SupportKnown' /\ Result' /\ ClearedIsLogged'
    <2>1. /\ Versioned /\ UNCHANGED supportVars /\ (\A s \in Tab : Untouched(s))
          /\ UNCHANGED <<row, blind>> /\ UNCHANGED log
      BY <1>6 DEF vars, tabVars, supportVars, Versioned, Untouched
    <2> QED BY <1>1, <2>1, Bystander, SupportStands, ResultStands, LogStands
  <1>7. (\A s \in Tab : TabInv(s)') /\ SupportKnown' /\ Result' /\ ClearedIsLogged'
    BY <1>3, <1>4, <1>5, <1>6 DEF Next
  <1> QED BY <1>2, <1>7 DEF IInv, Result

\* What every holder of an ETag knows of the version it names: the inductive
\* invariant the results below rest on.
THEOREM Invariant == Spec => []IInv
  <1>1. Init => IInv
    BY InitInv
  <1>2. IInv /\ [Next]_vars => IInv'
    BY NextInv
  <1> QED BY <1>1, <1>2, PTL DEF Spec

\* The stamps tell the status, whoever writes.
THEOREM StampsAgreeAlways == Spec => []StampsAgree
  <1>1. IInv => StampsAgree
    BY DEF IInv
  <1> QED BY <1>1, Invariant, PTL

\* A closed Case waits on nobody.
THEOREM ClosedNeverWaits == Spec => []ClosedWaitsOnNobody
  <1>1. IInv => ClosedWaitsOnNobody
    BY DEF IInv
  <1> QED BY <1>1, Invariant, PTL

\* What a support action cleared is what its entry recorded before.
THEOREM LogTellsWhatWasCleared == Spec => []ClearedIsLogged
  <1>1. IInv => ClearedIsLogged
    BY DEF IInv
  <1> QED BY <1>1, Invariant, PTL

\* A transition lands only on the status its page showed, for the Case's Reviewer.
THEOREM MovesAreInformed == Spec => InformedMoves
  <1>1. ASSUME IInv
        PROVE  [\A t \in Tab :
                  MoveLands(t) /\ move'[t].stage # "sent" /\ ~move[t].behind
                    => row.status = move[t].shown /\ row.reviewer = UserOf[t]]_vars
    BY <1>1 DEF IInv, TabInv, MoveInformed, MoveLands
  <1> QED BY <1>1, Invariant, PTL DEF InformedMoves

LEMMA ThreadStep ==
    ASSUME IInv, Next
    PROVE  row.thread \subseteq row'.thread
             \/ \E t \in Tab : \E p \in posts[t] : p.behind /\ PostLands(t, p)
  <1>1. TypeInvariant /\ row \in RowType
    BY DEF IInv, TypeInvariant, TypeOK
  <1>2. ASSUME NEW t \in Tab, NEW p \in posts[t], PostArrives(t, p), ~(p.behind /\ PostLands(t, p))
        PROVE  row.thread \subseteq row'.thread
    <2>1. CASE ~PostLands(t, p)
      BY <1>2, <2>1 DEF PostArrives
    <2>2. CASE PostLands(t, p)
      <3>1. row' = AfterPost(p.thread, t \in ReviewTab)
        BY <1>2, <2>2 DEF PostArrives
      <3>2. row.thread \subseteq p.thread
        BY <1>2, <2>2 DEF IInv, TabInv, PostsInformed, PostLands
      <3> QED BY <1>1, <3>1, <3>2, PostedRow
    <2> QED BY <2>1, <2>2
  <1>3. ASSUME NEW t \in Tab, TabNext(t), ~ \E p \in posts[t] : PostArrives(t, p)
        PROVE  row'.thread = row.thread
    <2>1. CASE SaveArrives(t)
      BY <1>1, <2>1, SavedRow DEF SaveArrives
    <2>2. CASE MoveArrives(t)
      <3>1. move[t] \in MoveType
        BY <1>1, TabFacts
      <3>2. AfterMove(move[t].op, move[t].stamp).thread = row.thread
        BY <1>1, <3>1, MovedFields DEF MoveType
      <3> QED BY <2>2, <3>2 DEF MoveArrives
    <2>3. CASE row' = row
      BY <2>3
    <2> QED BY <1>3, <2>1, <2>2, <2>3
        DEF TabNext, Answer, Load, EditAnswers, EditOther, Autosave, SaveConfirmed, SaveReread, SaveGivenUp,
            Click, FlushPopped, FlushReturns, MoveAnswered, Post, PostConfirmed, RefreshRead, RefreshShown
  <1>4. ASSUME NEW u \in User, Claim(u)
        PROVE  row'.thread = row.thread
    BY <1>1, <1>4 DEF Claim, AfterClaim, RowType
  <1>5. ASSUME SupportNext
        PROVE  row'.thread = row.thread
    <2>1. \A op \in SupportOp : \A u : AfterSupport(op, u).thread = row.thread
      BY <1>1 DEF AfterSupport, RowType, SupportOp
    <2>2. support.op \in SupportOp
      BY <1>1 DEF TypeInvariant, TypeOK, SupportType
    <2> QED BY ZenonT(60), <1>5, <2>1, <2>2 DEF SupportNext, SupportLoad, SupportRecord, SupportArrives, SupportAnswered,
                                    SupportLeaves
  <1> QED BY <1>2, <1>3, <1>4, <1>5 DEF Next

\* A message on the Case is dropped only by a post of a page behind its ETag.
THEOREM MessagesAreKept == Spec => MessagesKept
  <1>1. ASSUME IInv, [Next]_vars
        PROVE  [row.thread \subseteq row'.thread
                  \/ \E t \in Tab : \E p \in posts[t] : p.behind /\ PostLands(t, p)]_vars
    BY <1>1, ThreadStep
  <1> QED BY <1>1, Invariant, PTL DEF MessagesKept, Spec

----------------------------------------------------------------------------
(* The Answers a tab shows and the Answers of the row *)

\* The Answers of a queue that have not reached the row, the last of those a
\* running flush waits for first, or those it knows the row by.
Flushes(q) == HasAnswers(q.todo) \/ (q.sent.stage # "none" /\ HasAnswers(q.sent.val))
Flushed(q) ==
    IF HasAnswers(q.todo) THEN q.todo
    ELSE IF q.sent.stage # "none" /\ HasAnswers(q.sent.val) THEN q.sent.val
    ELSE q.base

\* The same with what is debounced.
Owes(q) == HasAnswers(q.want) \/ Flushes(q)
Newest(q) == IF HasAnswers(q.want) THEN q.want ELSE Flushed(q)

\* The queue holds the row's ETag, or is about to be given it.
GivenBySave(t) ==
    queue[t].sent.stage = "ok" /\ queue[t].sent.live /\ queue[t].sent.etag = row.version
GivenByPost(t, p) == p \in posts[t] /\ p.stage = "ok" /\ p.etag = row.version
Current(t) == queue[t].etag = row.version \/ GivenBySave(t) \/ \E p \in posts[t] : GivenByPost(t, p)

\* A tab gets its ETags in order: a save's is later than all the tab had, and a page
\* that is not behind adopts no ETag from before another request of its own.
EtagsInOrder(t) ==
    /\ \A p \in posts[t] : p.stage = "patch" => p.etag <= queue[t].etag
    /\ \A p, r \in posts[t] : p.stage = "ok" /\ r.stage = "ok" /\ p.etag = r.etag => p = r
    /\ queue[t].sent.stage = "ok" /\ queue[t].sent.live =>
          /\ queue[t].etag < queue[t].sent.etag
          /\ \A p \in posts[t] : p.etag < queue[t].sent.etag

AdoptsInOrder(t) ==
    ~behind[t] =>
        /\ queue[t].sent.stage = "ok" => queue[t].sent.live
        /\ queue[t].sent.stage = "patch" /\ ~queue[t].sent.live => queue[t].sent.etag < row.version
        /\ \A p \in posts[t] : GivenByPost(t, p) => queue[t].etag < row.version

\* What the baseline of a queue with a current ETag is worth.
BaseKnown(t) ==
    /\ queue[t].etag = row.version => queue[t].base = row.answers
    /\ \A p \in posts[t] : GivenByPost(t, p) => queue[t].base = row.answers
    /\ GivenBySave(t) =>
          row.answers = IF HasAnswers(queue[t].sent.val) THEN queue[t].sent.val ELSE queue[t].base

\* Only a running flush holds popped entries, and it waits for what is in flight.
FlushHolds(t) ==
    /\ queue[t].todo # NoWrite => move[t].stage = "flushing"
    /\ move[t].stage = "flushing" /\ queue[t].sent.stage # "none" => queue[t].sent.flush
    /\ queue[t].sent.stage = "none" => ~queue[t].sent.flush

\* A page shows the newest of its Answers, unless they were lost.
PageAnswers(t) ==
    /\ page[t].open /\ ~behind[t] /\ Current(t) /\ ~queue[t].dropped
    /\ "answers" \in queue[t].lost => Owes(queue[t])
    => page[t].answers = Newest(queue[t])

\* The Outcome is that of the Answers the flush is to leave on the row, and then
\* of those it left there.
StampsFlushed(t) ==
    /\ move[t].stage = "flushing" /\ move[t].op \in {"send", "complete"} /\ ~move[t].dropped
    /\ ~behind[t] /\ Current(t)
    /\ "answers" \in queue[t].lost => Flushes(queue[t])
    => move[t].stamp = edits[Flushed(queue[t])].basis

StampsRow(t) ==
    /\ move[t].stage = "sent" /\ move[t].op \in {"send", "complete"} /\ ~move[t].dropped
    /\ ~move[t].behind /\ move[t].etag = row.version
    => move[t].stamp = edits[row.answers].basis

TabAnswers(t) ==
    /\ EtagsInOrder(t) /\ AdoptsInOrder(t) /\ BaseKnown(t) /\ FlushHolds(t)
    /\ PageAnswers(t) /\ StampsFlushed(t) /\ StampsRow(t)

AnswersInv == IInv /\ \A t \in Tab : TabAnswers(t)

LEMMA OwnAnswers ==
    ASSUME NEW q \in QueueType
    PROVE  /\ Flushed(q) \in Answered /\ Newest(q) \in Answered
           /\ ~Flushes(q) => Flushed(q) = q.base
           /\ ~Owes(q) => Newest(q) = q.base
           /\ Flushes(q) \in BOOLEAN /\ Owes(q) \in BOOLEAN
           /\ NoWrite \notin Answered /\ ~HasAnswers(NoWrite) /\ ~HasAnswers(NoAnswers)
  <1>1. \A n \in Unsaved : HasAnswers(n) => n \in Answered
    BY DEF HasAnswers, Unsaved
  <1>2. ~HasAnswers(NoWrite) /\ ~HasAnswers(NoAnswers) /\ NoWrite \notin Answered
    BY Names DEF HasAnswers
  <1> QED BY <1>1, <1>2, QueueFacts DEF Flushed, Newest, Flushes, Owes

\* Nothing but the stage, ETag or owner of the write in flight changes.
LEMMA SameAnswers ==
    ASSUME NEW q, NEW r,
           r.want = q.want, r.todo = q.todo, r.base = q.base, r.sent.val = q.sent.val,
           r.sent.stage = "none" <=> q.sent.stage = "none"
    PROVE  /\ Flushed(r) = Flushed(q) /\ Newest(r) = Newest(q)
           /\ (Flushes(r) <=> Flushes(q)) /\ (Owes(r) <=> Owes(q))
  BY DEF Flushed, Newest, Flushes, Owes

LEMMA ReloadedRest ==
    ASSUME NEW q \in QueueType
    PROVE  /\ Reloaded(q).want = q.want /\ Reloaded(q).todo = q.todo /\ Reloaded(q).base = row.answers
           /\ Reloaded(q).lost = q.lost /\ Reloaded(q).dropped = q.dropped
           /\ Reloaded(q).sent.flush = q.sent.flush
           /\ UnderNewPage(q).want = q.want /\ UnderNewPage(q).todo = q.todo
           /\ UnderNewPage(q).base = row.answers /\ UnderNewPage(q).lost = q.lost
           /\ ~UnderNewPage(q).dropped
  BY DEF Reloaded, UnderNewPage, QueueType, SaveType

LEMMA EnqueueRest ==
    ASSUME NEW q \in QueueType, NEW n \in Nat \cup {NoAnswers}
    PROVE  /\ Enqueue(q, n).todo = q.todo /\ Enqueue(q, n).base = q.base /\ Enqueue(q, n).lost = q.lost
           /\ Flushes(Enqueue(q, n)) <=> Flushes(q)
           /\ Flushed(Enqueue(q, n)) = Flushed(q)
           /\ n # NoAnswers => Newest(Enqueue(q, n)) = n
           /\ n = NoAnswers => /\ Newest(Enqueue(q, n)) = Newest(q)
                               /\ Owes(Enqueue(q, n)) <=> Owes(q)
                               /\ Enqueue(q, n).dropped <=> q.dropped
  <1>1. /\ Enqueue(q, n).want = (IF n = NoAnswers /\ q.want # NoWrite THEN q.want ELSE n)
        /\ Enqueue(q, n).todo = q.todo /\ Enqueue(q, n).base = q.base /\ Enqueue(q, n).lost = q.lost
        /\ Enqueue(q, n).sent = q.sent
        /\ Enqueue(q, n).dropped = (q.dropped /\ n = NoAnswers)
    BY DEF Enqueue, QueueType
  <1>2. n # NoAnswers => HasAnswers(n)
    BY DEF HasAnswers, NoWrite, NoAnswers
  <1>3. ~HasAnswers(NoAnswers) /\ ~HasAnswers(NoWrite)
    BY OwnAnswers
  <1> QED BY <1>1, <1>2, <1>3, QueueFacts DEF Flushes, Flushed, Owes, Newest

LEMMA SentWantedRest ==
    ASSUME NEW q \in QueueType, q.sent.stage = "none", q.todo = NoWrite, q.want # NoWrite
    PROVE  /\ SentWanted(q).todo = NoWrite /\ SentWanted(q).base = q.base
           /\ SentWanted(q).lost = q.lost /\ SentWanted(q).dropped = q.dropped
           /\ Newest(SentWanted(q)) = Newest(q) /\ (Owes(SentWanted(q)) <=> Owes(q))
  <1>1. /\ SentWanted(q).want = NoWrite /\ SentWanted(q).todo = q.todo /\ SentWanted(q).base = q.base
        /\ SentWanted(q).lost = q.lost /\ SentWanted(q).dropped = q.dropped
    BY DEF SentWanted, QueueType
  <1> QED BY <1>1, SentWantedFields, OwnAnswers DEF Newest, Owes, Flushed, Flushes

LEMMA PoppedRest ==
    ASSUME NEW q \in QueueType, q.todo = NoWrite
    PROVE  /\ Popped(q).base = q.base /\ Popped(q).lost = q.lost /\ Popped(q).dropped = q.dropped
           /\ Popped(q).todo = q.want
           /\ Popped(q).sent.flush <=> Popped(q).sent.stage # "none"
           /\ Newest(Popped(q)) = Newest(q) /\ (Owes(Popped(q)) <=> Owes(q))
           /\ Flushed(Popped(q)) = Newest(q) /\ (Flushes(Popped(q)) <=> Owes(q))
  <1>1. /\ Popped(q).want = NoWrite /\ Popped(q).todo = q.want /\ Popped(q).base = q.base
        /\ Popped(q).lost = q.lost /\ Popped(q).dropped = q.dropped
        /\ Popped(q).sent.flush = (q.sent.stage # "none")
    BY DEF Popped, QueueType, SaveType
  <1> QED BY <1>1, PoppedFields, OwnAnswers DEF Newest, Owes, Flushed, Flushes

LEMMA SentPoppedRest ==
    ASSUME NEW q \in QueueType, q.sent.stage = "none", q.todo # NoWrite
    PROVE  /\ SentPopped(q).todo = NoWrite /\ SentPopped(q).base = q.base /\ SentPopped(q).lost = q.lost
           /\ SentPopped(q).dropped = q.dropped /\ SentPopped(q).sent.flush
           /\ Newest(SentPopped(q)) = Newest(q) /\ (Owes(SentPopped(q)) <=> Owes(q))
           /\ Flushed(SentPopped(q)) = Flushed(q) /\ (Flushes(SentPopped(q)) <=> Flushes(q))
  <1>1. /\ SentPopped(q).want = q.want /\ SentPopped(q).todo = NoWrite /\ SentPopped(q).base = q.base
        /\ SentPopped(q).lost = q.lost /\ SentPopped(q).dropped = q.dropped /\ SentPopped(q).sent.flush
    BY DEF SentPopped, Write, QueueType
  <1> QED BY <1>1, SentPoppedFields, OwnAnswers DEF Newest, Owes, Flushed, Flushes

\* A write that has arrived, was refused, or is sent again.
LEMMA ResentRest ==
    ASSUME NEW q \in QueueType, q.sent.stage # "none",
           NEW r \in {Landed(q), Refused(q), Rebased(q)}
    PROVE  /\ r.todo = q.todo /\ r.base = q.base /\ r.lost = q.lost /\ r.dropped = q.dropped
           /\ r.sent.flush = q.sent.flush /\ r.sent.stage # "none"
           /\ Newest(r) = Newest(q) /\ (Owes(r) <=> Owes(q))
           /\ Flushed(r) = Flushed(q) /\ (Flushes(r) <=> Flushes(q))
  <1>1. /\ r.want = q.want /\ r.todo = q.todo /\ r.base = q.base /\ r.lost = q.lost
        /\ r.dropped = q.dropped /\ r.sent.flush = q.sent.flush
        /\ r.sent.stage # "none" /\ r.sent.val = q.sent.val
    <2>1. CASE r = Landed(q)
      BY <2>1 DEF Landed, QueueType, SaveType
    <2>2. CASE r = Refused(q)
      BY <2>2 DEF Refused, QueueType, SaveType
    <2>3. CASE r = Rebased(q)
      BY <2>3 DEF Rebased, QueueType, SaveType
    <2> QED BY <2>1, <2>2, <2>3
  <1> QED BY <1>1, SameAnswers

\* A write confirmed leaves its Answers, or the baseline, on the row.
LEMMA ConfirmedRest ==
    ASSUME NEW q \in QueueType, q.sent.stage # "none", q.sent.val # NoWrite, q.sent.live,
           row.answers = IF HasAnswers(q.sent.val) THEN q.sent.val ELSE q.base
    PROVE  /\ Confirmed(q).todo = q.todo /\ Confirmed(q).base = row.answers
           /\ Confirmed(q).dropped = q.dropped
           /\ Newest(Confirmed(q)) = Newest(q) /\ Flushed(Confirmed(q)) = Flushed(q)
           /\ ("answers" \in Confirmed(q).lost => Owes(Confirmed(q)))
                 => ("answers" \in q.lost => Owes(q))
           /\ ("answers" \in Confirmed(q).lost => Flushes(Confirmed(q)))
                 => ("answers" \in q.lost => Flushes(q))
  <1>1. /\ Confirmed(q).want = q.want /\ Confirmed(q).todo = q.todo /\ Confirmed(q).base = row.answers
        /\ Confirmed(q).dropped = q.dropped /\ Confirmed(q).lost = q.lost \ {FieldOf(q.sent.val)}
    BY DEF Confirmed, QueueType
  <1>2. "answers" \in q.lost /\ "answers" \notin Confirmed(q).lost => HasAnswers(q.sent.val)
    BY <1>1 DEF FieldOf, HasAnswers
  <1> QED BY <1>1, <1>2, ConfirmedFields, OwnAnswers DEF Newest, Owes, Flushed, Flushes

\* A write given up on takes what a flush had popped with it: then there is a
\* notice of its Answers, or they are known to be dropped.
LEMMA GivenUpRest ==
    ASSUME NEW q \in QueueType, q.sent.stage # "none", q.sent.val # NoWrite,
           q.todo # NoWrite => q.sent.flush,
           ~GivenUp(q).dropped,
           "answers" \in GivenUp(q).lost => Owes(GivenUp(q))
    PROVE  /\ ~q.dropped
           /\ "answers" \in q.lost => Owes(q)
           /\ Newest(GivenUp(q)) = Newest(q)
  <1>1. /\ GivenUp(q).want = q.want /\ GivenUp(q).base = q.base
        /\ GivenUp(q).todo = (IF q.sent.flush THEN NoWrite ELSE q.todo)
        /\ GivenUp(q).dropped = (q.dropped \/ (q.sent.flush /\ HasAnswers(q.todo) /\ ~HasAnswers(q.want)))
        /\ GivenUp(q).lost = q.lost \cup {FieldOf(q.sent.val)}
    BY DEF GivenUp, Ended, QueueType
  <1>2. HasAnswers(q.sent.val) => FieldOf(q.sent.val) = "answers"
    BY DEF FieldOf, HasAnswers
  <1>3. GivenUp(q).sent.stage = "none"
    BY GivenUpFields
  <1> QED BY <1>1, <1>2, <1>3, OwnAnswers, QueueFacts DEF Newest, Owes, Flushed, Flushes

\* A write that has ended is no flush's any more.
LEMMA EndedRest ==
    ASSUME NEW q \in QueueType
    PROVE  /\ ~Confirmed(q).sent.flush /\ ~Conflicted(q).sent.flush /\ ~GivenUp(q).sent.flush
           /\ Conflicted(q).base = q.base /\ GivenUp(q).base = q.base
  BY DEF Confirmed, Conflicted, GivenUp, Ended, NoSave, QueueType

LEMMA LoadAnswers ==
    ASSUME TypeInvariant, NEW t \in Tab, TabInv(t), TabAnswers(t), Load(t)
    PROVE  TabAnswers(t)'
  <1> USE TabFacts
  <1>1. /\ page'[t] = Snapshot(t) /\ queue'[t] = UnderNewPage(queue[t])
        /\ posts'[t] = posts[t] /\ move'[t] = move[t] /\ row' = row /\ edits' = edits
        /\ ~behind'[t] => posts[t] = {} /\ move[t].stage # "flushing" /\ Saved(queue[t])
    BY DEF TypeInvariant, TypeOK, Load
  <1>2. /\ queue'[t].etag = row.version /\ queue'[t].base = row.answers
        /\ queue'[t].sent.stage = queue[t].sent.stage /\ queue'[t].sent.val = queue[t].sent.val
        /\ queue'[t].sent.etag = queue[t].sent.etag /\ ~queue'[t].sent.live
        /\ queue'[t].sent.flush = queue[t].sent.flush
        /\ queue'[t].want = queue[t].want /\ queue'[t].todo = queue[t].todo
    BY <1>1, ReloadedFields, ReloadedRest
  <1>3. EtagsInOrder(t)'
    BY <1>1, <1>2 DEF TabInv, EtagsKnown, TabAnswers, EtagsInOrder
  <1>4. AdoptsInOrder(t)'
    BY <1>1, <1>2 DEF AdoptsInOrder, Saved, GivenByPost
  <1>5. BaseKnown(t)'
    BY <1>1, <1>2 DEF BaseKnown, GivenByPost, GivenBySave
  <1>6. FlushHolds(t)'
    BY <1>1, <1>2 DEF TabAnswers, FlushHolds
  <1>7. PageAnswers(t)'
    <2>1. Saved(queue[t]) => Newest(queue'[t]) = row.answers
      BY <1>2, OwnAnswers DEF Saved, Newest, Flushed
    <2>2. page'[t].answers = row.answers
      BY <1>1 DEF Snapshot
    <2> QED BY <1>1, <2>1, <2>2 DEF PageAnswers
  <1>8. StampsFlushed(t)' /\ StampsRow(t)'
    BY <1>1 DEF TabAnswers, StampsFlushed, StampsRow
  <1> QED BY <1>3, <1>4, <1>5, <1>6, <1>7, <1>8 DEF TabAnswers

LEMMA EditAnswersAnswers ==
    ASSUME TypeInvariant, NEW t \in Tab, NEW k \in EditKind, TabInv(t), TabAnswers(t), EditAnswers(t, k)
    PROVE  TabAnswers(t)'
  <1> USE TabFacts
  <1> DEFINE new == Len(edits) + 1
  <1>1. /\ Len(edits') = new /\ new \in Nat /\ new # NoAnswers
        /\ \A n \in Answered : edits'[n] = edits[n]
    <2>1. PICK e : edits' = Append(edits, e)
      BY DEF EditAnswers
    <2> QED BY <2>1 DEF Answered, NoAnswers
  <1>2. /\ page'[t] = WithAnswers(page[t], new) /\ queue'[t] = Enqueue(queue[t], new)
        /\ posts'[t] = posts[t] /\ move'[t] = move[t] /\ row' = row /\ behind'[t] = behind[t]
    BY <1>1 DEF TypeInvariant, TypeOK, EditAnswers
  <1> HIDE DEF new
  <1>3. /\ queue'[t].etag = queue[t].etag /\ queue'[t].sent = queue[t].sent
        /\ queue'[t].todo = queue[t].todo /\ queue'[t].base = queue[t].base
        /\ queue'[t].lost = queue[t].lost
        /\ Flushes(queue'[t]) <=> Flushes(queue[t])
        /\ Flushed(queue'[t]) = Flushed(queue[t])
        /\ Newest(queue'[t]) = new
    BY <1>1, <1>2, EnqueueFields, EnqueueRest
  <1>4. EtagsInOrder(t)'
    BY <1>2, <1>3 DEF TabAnswers, EtagsInOrder
  <1>5. AdoptsInOrder(t)' /\ BaseKnown(t)'
    BY <1>2, <1>3 DEF TabAnswers, AdoptsInOrder, BaseKnown, GivenByPost, GivenBySave
  <1>6. FlushHolds(t)'
    BY <1>2, <1>3 DEF TabAnswers, FlushHolds
  <1>7. PageAnswers(t)'
    <2>1. page'[t].answers = new
      BY <1>2 DEF WithAnswers, PageType
    <2> QED BY <1>3, <2>1 DEF PageAnswers
  <1>8. StampsFlushed(t)'
    BY <1>1, <1>2, <1>3, OwnAnswers DEF TabAnswers, StampsFlushed, Current, GivenByPost, GivenBySave
  <1>9. StampsRow(t)'
    BY <1>1, <1>2, RowFacts DEF TabAnswers, StampsRow
  <1> QED BY <1>4, <1>5, <1>6, <1>7, <1>8, <1>9 DEF TabAnswers

LEMMA EditOtherAnswers ==
    ASSUME TypeInvariant, NEW t \in Tab, TabInv(t), TabAnswers(t), EditOther(t)
    PROVE  TabAnswers(t)'
  <1> USE TabFacts
  <1>1. /\ page'[t] = page[t] /\ queue'[t] = Enqueue(queue[t], NoAnswers) /\ edits' = edits
        /\ posts'[t] = posts[t] /\ move'[t] = move[t] /\ row' = row /\ behind'[t] = behind[t]
    BY DEF TypeInvariant, TypeOK, EditOther
  <1>2. /\ queue'[t].etag = queue[t].etag /\ queue'[t].sent = queue[t].sent
        /\ queue'[t].todo = queue[t].todo /\ queue'[t].base = queue[t].base
        /\ queue'[t].lost = queue[t].lost /\ (queue'[t].dropped <=> queue[t].dropped)
        /\ Flushes(queue'[t]) <=> Flushes(queue[t])
        /\ Flushed(queue'[t]) = Flushed(queue[t])
        /\ Newest(queue'[t]) = Newest(queue[t])
        /\ Owes(queue'[t]) <=> Owes(queue[t])
    <2>1. PICK q \in QueueType : q = queue[t]
      OBVIOUS
    <2>2. PICK r : r = Enqueue(q, NoAnswers)
      OBVIOUS
    <2>3. /\ r.etag = q.etag /\ r.sent = q.sent /\ r.todo = q.todo /\ r.base = q.base
          /\ r.lost = q.lost /\ (r.dropped <=> q.dropped)
          /\ (Flushes(r) <=> Flushes(q)) /\ Flushed(r) = Flushed(q)
          /\ Newest(r) = Newest(q) /\ (Owes(r) <=> Owes(q))
      <3>1. r.etag = q.etag /\ r.sent = q.sent
        BY <2>2, EnqueueFields
      <3>2. /\ r.todo = q.todo /\ r.base = q.base /\ r.lost = q.lost
            /\ (Flushes(r) <=> Flushes(q)) /\ Flushed(r) = Flushed(q)
        BY ONLY <2>2, q \in QueueType, EnqueueRest
      <3>3. /\ r.dropped <=> q.dropped
            /\ Newest(r) = Newest(q) /\ (Owes(r) <=> Owes(q))
        BY ONLY <2>2, q \in QueueType, EnqueueRest
      <3> QED BY <3>1, <3>2, <3>3
    <2>4. queue'[t] = r
      BY <1>1, <2>1, <2>2
    <2> QED BY <2>1, <2>3, <2>4
  <1>3. EtagsInOrder(t)'
    BY <1>1, <1>2 DEF TabAnswers, EtagsInOrder
  <1>4. AdoptsInOrder(t)' /\ BaseKnown(t)'
    BY <1>1, <1>2 DEF TabAnswers, AdoptsInOrder, BaseKnown, GivenByPost, GivenBySave
  <1>5. FlushHolds(t)'
    BY <1>1, <1>2 DEF TabAnswers, FlushHolds
  <1>6. PageAnswers(t)' /\ StampsFlushed(t)' /\ StampsRow(t)'
    BY <1>1, <1>2 DEF TabAnswers, PageAnswers, StampsFlushed, StampsRow, Current, GivenByPost, GivenBySave
  <1> QED BY <1>3, <1>4, <1>5, <1>6 DEF TabAnswers

LEMMA AutosaveAnswers ==
    ASSUME TypeInvariant, NEW t \in Tab, TabInv(t), TabAnswers(t), Autosave(t), ~Continuing(t)
    PROVE  TabAnswers(t)'
  <1> USE TabFacts
  <1>1. /\ page'[t] = page[t] /\ queue'[t] = SentWanted(queue[t]) /\ edits' = edits
        /\ posts'[t] = posts[t] /\ move'[t] = move[t] /\ row' = row /\ behind'[t] = behind[t]
        /\ queue[t].want # NoWrite /\ queue[t].sent.stage = "none"
    BY DEF TypeInvariant, TypeOK, Autosave
  <1>2. move[t].stage # "flushing" /\ queue[t].todo = NoWrite
    BY <1>1 DEF TabAnswers, FlushHolds, Continuing
  <1>3. /\ queue'[t].etag = queue[t].etag /\ queue'[t].sent.stage = "patch"
        /\ queue'[t].sent.live
        /\ queue'[t].todo = NoWrite /\ queue'[t].base = queue[t].base
        /\ queue'[t].lost = queue[t].lost /\ queue'[t].dropped = queue[t].dropped
        /\ Newest(queue'[t]) = Newest(queue[t])
        /\ Owes(queue'[t]) <=> Owes(queue[t])
    BY <1>1, <1>2, SentWantedFields, SentWantedRest
  <1>4. EtagsInOrder(t)'
    BY <1>1, <1>3 DEF TabAnswers, EtagsInOrder
  <1>5. AdoptsInOrder(t)' /\ BaseKnown(t)'
    BY <1>1, <1>3 DEF TabAnswers, AdoptsInOrder, BaseKnown, GivenByPost, GivenBySave
  <1>6. FlushHolds(t)'
    BY <1>1, <1>2, <1>3 DEF FlushHolds
  <1>7. PageAnswers(t)'
    BY <1>1, <1>3 DEF TabAnswers, PageAnswers, Current, GivenByPost, GivenBySave
  <1>8. StampsFlushed(t)' /\ StampsRow(t)'
    BY <1>1, <1>2 DEF TabAnswers, StampsFlushed, StampsRow
  <1> QED BY <1>4, <1>5, <1>6, <1>7, <1>8 DEF TabAnswers

LEMMA FlushPoppedAnswers ==
    ASSUME TypeInvariant, NEW t \in Tab, TabInv(t), TabAnswers(t), FlushPopped(t)
    PROVE  TabAnswers(t)'
  <1> USE TabFacts
  <1>1. /\ page'[t] = page[t] /\ queue'[t] = SentPopped(queue[t]) /\ edits' = edits
        /\ posts'[t] = posts[t] /\ move'[t] = move[t] /\ row' = row /\ behind'[t] = behind[t]
        /\ queue[t].todo # NoWrite /\ queue[t].sent.stage = "none"
    BY DEF TypeInvariant, TypeOK, FlushPopped
  <1>2. /\ queue'[t].etag = queue[t].etag /\ queue'[t].sent.stage = "patch"
        /\ queue'[t].sent.live /\ queue'[t].sent.flush
        /\ queue'[t].todo = NoWrite /\ queue'[t].base = queue[t].base
        /\ queue'[t].lost = queue[t].lost /\ queue'[t].dropped = queue[t].dropped
        /\ Newest(queue'[t]) = Newest(queue[t]) /\ Flushed(queue'[t]) = Flushed(queue[t])
        /\ Owes(queue'[t]) <=> Owes(queue[t])
        /\ Flushes(queue'[t]) <=> Flushes(queue[t])
    BY <1>1, SentPoppedFields, SentPoppedRest
  <1>3. EtagsInOrder(t)'
    BY <1>1, <1>2 DEF TabAnswers, EtagsInOrder
  <1>4. AdoptsInOrder(t)' /\ BaseKnown(t)'
    BY <1>1, <1>2 DEF TabAnswers, AdoptsInOrder, BaseKnown, GivenByPost, GivenBySave
  <1>5. FlushHolds(t)'
    BY <1>1, <1>2 DEF FlushHolds
  <1>6. PageAnswers(t)' /\ StampsFlushed(t)' /\ StampsRow(t)'
    BY <1>1, <1>2 DEF TabAnswers, PageAnswers, StampsFlushed, StampsRow, Current, GivenByPost, GivenBySave
  <1> QED BY <1>3, <1>4, <1>5, <1>6 DEF TabAnswers

LEMMA SaveArrivesAnswers ==
    ASSUME TypeInvariant, NEW t \in Tab, TabInv(t), TabAnswers(t), SaveArrives(t)
    PROVE  TabAnswers(t)'
  <1> USE TabFacts
  <1>1. /\ page'[t] = page[t] /\ edits' = edits
        /\ posts'[t] = posts[t] /\ move'[t] = move[t] /\ behind'[t] = behind[t]
        /\ queue[t].sent.stage = "patch"
    BY DEF TypeInvariant, TypeOK, SaveArrives
  <1>2. CASE queue[t].sent.etag # row.version
    <2>1. queue'[t] = Refused(queue[t]) /\ row' = row
      BY <1>2 DEF SaveArrives, TypeInvariant, TypeOK
    <2>2. /\ queue'[t].etag = queue[t].etag /\ queue'[t].sent.stage = "stale"
          /\ queue'[t].todo = queue[t].todo /\ queue'[t].base = queue[t].base
          /\ queue'[t].lost = queue[t].lost /\ queue'[t].dropped = queue[t].dropped
          /\ queue'[t].sent.flush = queue[t].sent.flush
          /\ Newest(queue'[t]) = Newest(queue[t]) /\ Flushed(queue'[t]) = Flushed(queue[t])
          /\ Owes(queue'[t]) <=> Owes(queue[t])
          /\ Flushes(queue'[t]) <=> Flushes(queue[t])
      BY <1>1, <2>1, RefusedFields, ResentRest
    <2>3. EtagsInOrder(t)'
      BY <1>1, <2>1, <2>2 DEF TabAnswers, EtagsInOrder
    <2>4. AdoptsInOrder(t)' /\ BaseKnown(t)'
      BY <1>1, <2>1, <2>2 DEF TabAnswers, AdoptsInOrder, BaseKnown, GivenByPost, GivenBySave
    <2>5. FlushHolds(t)'
      BY <1>1, <2>1, <2>2 DEF TabAnswers, FlushHolds
    <2>6. PageAnswers(t)' /\ StampsFlushed(t)' /\ StampsRow(t)'
      BY <1>1, <2>1, <2>2
         DEF TabAnswers, PageAnswers, StampsFlushed, StampsRow, Current, GivenByPost, GivenBySave
    <2> QED BY <2>3, <2>4, <2>5, <2>6 DEF TabAnswers
  <1>3. CASE queue[t].sent.etag = row.version
    <2>1. queue'[t] = Landed(queue[t]) /\ row' = AfterSave(queue[t].sent.val)
      BY <1>3 DEF SaveArrives, TypeInvariant, TypeOK
    <2>2. /\ queue'[t].etag = queue[t].etag /\ queue'[t].sent.stage = "ok"
          /\ queue'[t].sent.etag = row.version + 1 /\ (queue'[t].sent.live <=> queue[t].sent.live)
          /\ queue'[t].sent.val = queue[t].sent.val
          /\ queue'[t].todo = queue[t].todo /\ queue'[t].base = queue[t].base
          /\ queue'[t].lost = queue[t].lost /\ queue'[t].dropped = queue[t].dropped
          /\ queue'[t].sent.flush = queue[t].sent.flush
          /\ Newest(queue'[t]) = Newest(queue[t]) /\ Flushed(queue'[t]) = Flushed(queue[t])
          /\ Owes(queue'[t]) <=> Owes(queue[t])
          /\ Flushes(queue'[t]) <=> Flushes(queue[t])
      BY <1>1, <2>1, LandedFields, ResentRest
    <2>3. row'.version = row.version + 1
      BY <2>1, SavedRow
    <2>4. /\ queue[t].etag < row'.version /\ queue[t].etag # row'.version
          /\ \A p \in posts[t] : p.etag < row'.version /\ p.etag # row'.version
          /\ move[t].etag # row'.version
      BY <2>3, RowFacts, QueueFacts, PostFact DEF TabInv, EtagsKnown, MoveType
    <2>5. EtagsInOrder(t)'
      BY <1>1, <2>2, <2>3, <2>4 DEF TabAnswers, EtagsInOrder
    <2>6. ~behind[t] => queue[t].sent.live
      BY <1>1, <1>3, RowFacts DEF TabAnswers, AdoptsInOrder
    <2>7. AdoptsInOrder(t)'
      BY <1>1, <2>2, <2>4, <2>6 DEF AdoptsInOrder, GivenByPost
    <2>8. queue[t].sent.live => queue[t].etag = row.version /\ queue[t].base = row.answers
      BY <1>1, <1>3 DEF TabInv, EtagsKnown, TabAnswers, BaseKnown
    <2>9. row'.answers = IF HasAnswers(queue[t].sent.val) THEN queue[t].sent.val ELSE row.answers
      <3>1. queue[t].sent.val # NoWrite
        BY <1>1 DEF Carries, Sends
      <3> QED BY <2>1, <3>1 DEF AfterSave, RowType, HasAnswers
    <2>10. BaseKnown(t)'
      BY <1>1, <2>2, <2>4, <2>8, <2>9 DEF BaseKnown, GivenByPost, GivenBySave
    <2>11. FlushHolds(t)'
      BY <1>1, <2>2 DEF TabAnswers, FlushHolds
    <2>12. ~behind[t] => Current(t)
      BY <2>6, <2>8 DEF Current
    <2>13. PageAnswers(t)' /\ StampsFlushed(t)'
      BY <1>1, <2>2, <2>12 DEF TabAnswers, PageAnswers, StampsFlushed
    <2>14. StampsRow(t)'
      BY <1>1, <2>4 DEF StampsRow
    <2> QED BY <2>5, <2>7, <2>10, <2>11, <2>13, <2>14 DEF TabAnswers
  <1> QED BY <1>2, <1>3

LEMMA SaveConfirmedAnswers ==
    ASSUME TypeInvariant, NEW t \in Tab, TabInv(t), TabAnswers(t), SaveConfirmed(t)
    PROVE  TabAnswers(t)'
  <1> USE TabFacts
  <1>1. /\ queue'[t] = Confirmed(queue[t]) /\ queue[t].sent.stage = "ok"
        /\ page'[t] = page[t] /\ posts'[t] = posts[t] /\ edits' = edits
        /\ move'[t] = move[t] /\ row' = row
        /\ behind'[t] = (behind[t] \/ (queue[t].sent.live /\ row.version # queue[t].sent.etag))
    BY DEF TypeInvariant, TypeOK, SaveConfirmed
  <1>2. /\ queue'[t].etag = (IF queue[t].sent.live THEN row.version ELSE queue[t].etag)
        /\ queue'[t].base = (IF queue[t].sent.live THEN row.answers ELSE queue[t].base)
        /\ queue'[t].sent.stage = "none" /\ ~queue'[t].sent.live
        /\ ~queue'[t].sent.flush /\ queue'[t].todo = queue[t].todo
    <2>1. /\ Confirmed(queue[t]).base = (IF queue[t].sent.live THEN row.answers ELSE queue[t].base)
          /\ Confirmed(queue[t]).todo = queue[t].todo
      BY DEF Confirmed, QueueType
    <2> QED BY <1>1, <2>1, ConfirmedFields, EndedRest
  <1>3. ~behind'[t] => /\ ~behind[t] /\ queue[t].sent.live /\ queue[t].sent.etag = row.version
                       /\ GivenBySave(t) /\ Current(t)
    BY <1>1 DEF TabAnswers, AdoptsInOrder, Current, GivenBySave
  <1>4. EtagsInOrder(t)'
    <2>1. \A p \in posts[t] : p.stage = "patch" => p.etag <= queue'[t].etag
      BY <1>2 DEF TabInv, EtagsKnown, TabAnswers, EtagsInOrder
    <2> QED BY <1>1, <1>2, <2>1 DEF TabAnswers, EtagsInOrder
  <1>5. AdoptsInOrder(t)'
    <2>1. ~behind'[t] => \A p \in posts[t] : p.etag # row.version
      BY <1>1, <1>3, RowFacts, PostFact DEF TabAnswers, EtagsInOrder
    <2> QED BY <1>1, <1>2, <2>1 DEF AdoptsInOrder, GivenByPost
  <1>6. BaseKnown(t)'
    BY <1>1, <1>2 DEF TabAnswers, BaseKnown, GivenByPost, GivenBySave
  <1>7. FlushHolds(t)'
    BY <1>1, <1>2 DEF TabAnswers, FlushHolds
  <1>8. ASSUME ~behind'[t]
        PROVE  /\ (queue'[t].dropped <=> queue[t].dropped)
               /\ Newest(queue'[t]) = Newest(queue[t]) /\ Flushed(queue'[t]) = Flushed(queue[t])
               /\ ("answers" \in queue'[t].lost => Owes(queue'[t]))
                     => ("answers" \in queue[t].lost => Owes(queue[t]))
               /\ ("answers" \in queue'[t].lost => Flushes(queue'[t]))
                     => ("answers" \in queue[t].lost => Flushes(queue[t]))
    <2>1. row.answers = IF HasAnswers(queue[t].sent.val) THEN queue[t].sent.val ELSE queue[t].base
      BY <1>3, <1>8 DEF TabAnswers, BaseKnown
    <2>2. queue[t].sent.val # NoWrite
      BY <1>1 DEF Carries, Sends
    <2> QED BY <1>1, <1>3, <1>8, <2>1, <2>2, ConfirmedRest
  <1>9. PageAnswers(t)' /\ StampsFlushed(t)'
    BY <1>1, <1>3, <1>8 DEF TabAnswers, PageAnswers, StampsFlushed
  <1>10. StampsRow(t)'
    BY <1>1 DEF TabAnswers, StampsRow
  <1> QED BY <1>4, <1>5, <1>6, <1>7, <1>9, <1>10 DEF TabAnswers

LEMMA SaveRereadAnswers ==
    ASSUME TypeInvariant, NEW t \in Tab, TabInv(t), TabAnswers(t), SaveReread(t)
    PROVE  TabAnswers(t)'
  <1> USE TabFacts
  <1>1. /\ page'[t] = page[t] /\ posts'[t] = posts[t] /\ edits' = edits /\ row' = row
        /\ queue[t].sent.stage = "stale"
    BY DEF SaveReread
  <1>2. CASE row.answers = queue[t].base
    <2>1. /\ queue'[t] = Rebased(queue[t]) /\ move'[t] = move[t]
          /\ ~behind'[t] => ~behind[t] /\ row.version = queue[t].etag
      BY <1>2 DEF SaveReread, TypeInvariant, TypeOK
    <2>2. /\ queue'[t].etag = row.version /\ queue'[t].sent.stage = "patch"
          /\ queue'[t].sent.etag = row.version /\ queue'[t].sent.live
          /\ queue'[t].todo = queue[t].todo /\ queue'[t].base = queue[t].base
          /\ queue'[t].lost = queue[t].lost /\ queue'[t].dropped = queue[t].dropped
          /\ queue'[t].sent.flush = queue[t].sent.flush
          /\ Newest(queue'[t]) = Newest(queue[t]) /\ Flushed(queue'[t]) = Flushed(queue[t])
          /\ Owes(queue'[t]) <=> Owes(queue[t])
          /\ Flushes(queue'[t]) <=> Flushes(queue[t])
      BY <1>1, <2>1, RebasedFields, ResentRest
    <2>3. EtagsInOrder(t)'
      BY <1>1, <2>2 DEF TabInv, EtagsKnown, TabAnswers, EtagsInOrder
    <2>4. AdoptsInOrder(t)'
      BY <1>1, <2>1, <2>2 DEF TabAnswers, AdoptsInOrder, GivenByPost
    <2>5. BaseKnown(t)'
      BY <1>1, <1>2, <2>2 DEF BaseKnown, GivenByPost, GivenBySave
    <2>6. FlushHolds(t)'
      BY <1>1, <2>1, <2>2 DEF TabAnswers, FlushHolds
    <2>7. ~behind'[t] => Current(t)
      BY <2>1 DEF Current
    <2>8. PageAnswers(t)' /\ StampsFlushed(t)' /\ StampsRow(t)'
      BY <1>1, <2>1, <2>2, <2>7 DEF TabAnswers, PageAnswers, StampsFlushed, StampsRow
    <2> QED BY <2>3, <2>4, <2>5, <2>6, <2>8 DEF TabAnswers
  <1>3. CASE row.answers # queue[t].base
    <2>1. /\ queue'[t] = Conflicted(queue[t]) /\ behind'[t] = behind[t]
          /\ move'[t] = MoveAfterFailure(t)
      BY <1>3 DEF SaveReread, TypeInvariant, TypeOK
    <2>2. /\ queue'[t].etag = queue[t].etag /\ queue'[t].base = queue[t].base
          /\ queue'[t].sent.stage = "none" /\ ~queue'[t].sent.live /\ ~queue'[t].sent.flush
      BY <2>1, ConflictedFields, EndedRest
    <2>3. queue'[t].todo = NoWrite
      BY <1>1, <2>1, EndedRest, ConflictedFields DEF TabAnswers, FlushHolds, Conflicted, Ended, QueueType
    <2>4. /\ move'[t].stage # "flushing"
          /\ move'[t].stage = "sent" => move'[t] = move[t]
      BY <1>1, <2>1, MoveFields DEF TabAnswers, FlushHolds, MoveAfterFailure
    <2>5. EtagsInOrder(t)'
      BY <1>1, <2>2 DEF TabAnswers, EtagsInOrder
    <2>6. AdoptsInOrder(t)' /\ BaseKnown(t)'
      BY <1>1, <2>1, <2>2 DEF TabAnswers, AdoptsInOrder, BaseKnown, GivenByPost, GivenBySave
    <2>7. FlushHolds(t)'
      BY <2>2, <2>3, <2>4 DEF FlushHolds
    <2>8. ~Current(t)'
      BY <1>1, <1>3, <2>2 DEF TabAnswers, BaseKnown, Current, GivenByPost, GivenBySave
    <2>9. PageAnswers(t)' /\ StampsFlushed(t)' /\ StampsRow(t)'
      BY <1>1, <2>4, <2>8 DEF TabAnswers, PageAnswers, StampsFlushed, StampsRow
    <2> QED BY <2>5, <2>6, <2>7, <2>9 DEF TabAnswers
  <1> QED BY <1>2, <1>3

LEMMA SaveGivenUpAnswers ==
    ASSUME TypeInvariant, NEW t \in Tab, TabInv(t), TabAnswers(t), SaveGivenUp(t)
    PROVE  TabAnswers(t)'
  <1> USE TabFacts
  <1>1. /\ page'[t] = page[t] /\ posts'[t] = posts[t] /\ edits' = edits /\ row' = row
        /\ queue'[t] = GivenUp(queue[t]) /\ behind'[t] = behind[t] /\ queue[t].sent.stage = "patch"
        /\ move'[t] = MoveAfterFailure(t)
    BY DEF SaveGivenUp, TypeInvariant, TypeOK
  <1>2. /\ queue'[t].etag = queue[t].etag /\ queue'[t].base = queue[t].base
        /\ queue'[t].sent.stage = "none" /\ ~queue'[t].sent.live /\ ~queue'[t].sent.flush
    BY <1>1, GivenUpFields, EndedRest
  <1>3. queue[t].todo # NoWrite => queue[t].sent.flush
    BY <1>1 DEF TabAnswers, FlushHolds
  <1>4. queue'[t].todo = NoWrite
    BY <1>1, <1>3 DEF GivenUp, Ended, QueueType
  <1>5. /\ move'[t].stage # "flushing"
        /\ move'[t].stage = "sent" => move'[t] = move[t]
    BY <1>1, MoveFields DEF TabAnswers, FlushHolds, MoveAfterFailure
  <1>6. EtagsInOrder(t)'
    BY <1>1, <1>2 DEF TabAnswers, EtagsInOrder
  <1>7. AdoptsInOrder(t)' /\ BaseKnown(t)'
    BY <1>1, <1>2 DEF TabAnswers, AdoptsInOrder, BaseKnown, GivenByPost, GivenBySave
  <1>8. FlushHolds(t)'
    BY <1>2, <1>4, <1>5 DEF FlushHolds
  <1>9. PageAnswers(t)'
    <2>1. Current(t)' => Current(t)
      BY <1>1, <1>2 DEF Current, GivenByPost, GivenBySave
    <2>2. queue[t].sent.val # NoWrite
      BY <1>1 DEF Carries, Sends
    <2>3. ~queue'[t].dropped /\ ("answers" \in queue'[t].lost => Owes(queue'[t]))
             => /\ ~queue[t].dropped
                /\ "answers" \in queue[t].lost => Owes(queue[t])
                /\ Newest(queue'[t]) = Newest(queue[t])
      BY <1>1, <1>3, <2>2, GivenUpRest
    <2> QED BY <1>1, <2>1, <2>3 DEF TabAnswers, PageAnswers
  <1>10. StampsFlushed(t)' /\ StampsRow(t)'
    BY <1>1, <1>5 DEF TabAnswers, StampsFlushed, StampsRow
  <1> QED BY <1>6, <1>7, <1>8, <1>9, <1>10 DEF TabAnswers

LEMMA ClickAnswers ==
    ASSUME TypeInvariant, NEW t \in Tab, NEW op \in Op, TabInv(t), TabAnswers(t), Click(t, op)
    PROVE  TabAnswers(t)'
  <1> USE TabFacts
  <1>1. /\ move'[t] = Asked(page[t], op, queue[t].dropped) /\ queue'[t] = Popped(queue[t])
        /\ Allowed(t, op) /\ move[t].stage = "idle"
        /\ page'[t] = page[t] /\ posts'[t] = posts[t] /\ edits' = edits
        /\ behind'[t] = behind[t] /\ row' = row
    BY DEF TypeInvariant, TypeOK, Click
  <1>2. queue[t].todo = NoWrite
    BY <1>1 DEF TabAnswers, FlushHolds
  <1>3. /\ queue'[t].etag = queue[t].etag
        /\ queue'[t].sent.stage = queue[t].sent.stage /\ queue'[t].sent.val = queue[t].sent.val
        /\ queue'[t].sent.etag = queue[t].sent.etag
        /\ queue'[t].sent.live = queue[t].sent.live
        /\ queue'[t].base = queue[t].base
        /\ queue'[t].lost = queue[t].lost /\ queue'[t].dropped = queue[t].dropped
        /\ queue'[t].sent.flush <=> queue'[t].sent.stage # "none"
        /\ Newest(queue'[t]) = Newest(queue[t]) /\ Flushed(queue'[t]) = Newest(queue[t])
        /\ Owes(queue'[t]) <=> Owes(queue[t])
        /\ Flushes(queue'[t]) <=> Owes(queue[t])
    BY <1>1, <1>2, PoppedFields, PoppedRest
  <1>4. /\ move'[t].stage = "flushing" /\ move'[t].stamp = edits[page[t].answers].basis
        /\ (move'[t].dropped <=> queue[t].dropped) /\ page[t].open
    BY <1>1, AskedBuilt DEF Asked
  <1>5. EtagsInOrder(t)'
    BY <1>1, <1>3 DEF TabAnswers, EtagsInOrder
  <1>6. AdoptsInOrder(t)' /\ BaseKnown(t)'
    BY <1>1, <1>3 DEF TabAnswers, AdoptsInOrder, BaseKnown, GivenByPost, GivenBySave
  <1>7. FlushHolds(t)'
    BY <1>3, <1>4 DEF FlushHolds
  <1>8. Current(t)' <=> Current(t)
    BY <1>1, <1>3 DEF Current, GivenByPost, GivenBySave
  <1>9. PageAnswers(t)' /\ StampsFlushed(t)' /\ StampsRow(t)'
    BY <1>1, <1>3, <1>4, <1>8 DEF TabAnswers, PageAnswers, StampsFlushed, StampsRow
  <1> QED BY <1>5, <1>6, <1>7, <1>9 DEF TabAnswers

LEMMA FlushReturnsAnswers ==
    ASSUME TypeInvariant, NEW t \in Tab, TabInv(t), TabAnswers(t), FlushReturns(t)
    PROVE  TabAnswers(t)'
  <1> USE TabFacts
  <1>1. /\ move'[t] = (IF ~queue[t].conflict /\ queue[t].lost = {}
                       THEN SentUnder(move[t], queue[t].etag, behind[t]) ELSE Idle)
        /\ move[t].stage = "flushing" /\ queue[t].todo = NoWrite /\ ~queue[t].sent.flush
        /\ page' = page /\ posts' = posts /\ edits' = edits /\ queue' = queue
        /\ behind' = behind /\ row' = row
    BY DEF TypeInvariant, TypeOK, FlushReturns
  <1>2. queue[t].sent.stage = "none"
    BY <1>1 DEF TabAnswers, FlushHolds
  <1>3. Flushed(queue[t]) = queue[t].base
    BY <1>1, <1>2, OwnAnswers DEF Flushed
  <1>4. EtagsInOrder(t)' /\ AdoptsInOrder(t)' /\ BaseKnown(t)'
    BY <1>1 DEF TabAnswers, EtagsInOrder, AdoptsInOrder, BaseKnown, GivenByPost, GivenBySave
  <1>5. move'[t].stage # "flushing"
    BY <1>1, MoveFields, QueueFacts
  <1>6. FlushHolds(t)' /\ StampsFlushed(t)'
    BY <1>1, <1>5 DEF TabAnswers, FlushHolds, StampsFlushed
  <1>7. PageAnswers(t)'
    BY <1>1 DEF TabAnswers, PageAnswers, Current, GivenByPost, GivenBySave
  <1>8. StampsRow(t)'
    <2>1. ASSUME move'[t].stage = "sent", move'[t].op \in {"send", "complete"}, ~move'[t].dropped,
                 ~move'[t].behind, move'[t].etag = row.version
          PROVE  move'[t].stamp = edits[row.answers].basis
      <3>1. move'[t] = SentUnder(move[t], queue[t].etag, behind[t]) /\ queue[t].lost = {}
        BY <1>1, <2>1, MoveFields
      <3>2. /\ move'[t].op = move[t].op /\ move'[t].stamp = move[t].stamp
            /\ move'[t].etag = queue[t].etag /\ move'[t].behind = behind[t]
            /\ move'[t].dropped = move[t].dropped
        BY <3>1, MoveFields, QueueFacts DEF SentUnder, MoveType
      <3>3. Current(t) /\ queue[t].base = row.answers
        BY <2>1, <3>2 DEF TabAnswers, BaseKnown, Current
      <3>4. move[t].stamp = edits[Flushed(queue[t])].basis
        BY <1>1, <2>1, <3>1, <3>2, <3>3 DEF TabAnswers, StampsFlushed
      <3> QED BY <1>3, <3>2, <3>3, <3>4
    <2> QED BY <1>1, <2>1 DEF StampsRow
  <1> QED BY <1>4, <1>6, <1>7, <1>8 DEF TabAnswers

LEMMA MoveAnsweredAnswers ==
    ASSUME TypeInvariant, NEW t \in Tab, TabInv(t), TabAnswers(t), MoveAnswered(t)
    PROVE  TabAnswers(t)'
  <1> USE TabFacts
  <1>1. /\ move'[t] = Idle /\ move[t].stage \in {"ok", "refused"}
        /\ page'[t] = page[t] \/ page'[t] = Closed
        /\ posts'[t] = posts[t] /\ edits' = edits /\ queue'[t] = queue[t]
        /\ behind'[t] = behind[t] /\ row' = row
    BY DEF TypeInvariant, TypeOK, MoveAnswered
  <1>2. move'[t].stage = "idle"
    BY <1>1, MoveFields
  <1>3. page'[t] = page[t] \/ ~page'[t].open
    BY <1>1 DEF Closed
  <1>4. EtagsInOrder(t)' /\ AdoptsInOrder(t)' /\ BaseKnown(t)'
    BY <1>1 DEF TabAnswers, EtagsInOrder, AdoptsInOrder, BaseKnown, GivenByPost, GivenBySave
  <1>5. FlushHolds(t)' /\ StampsFlushed(t)' /\ StampsRow(t)'
    BY <1>1, <1>2 DEF TabAnswers, FlushHolds, StampsFlushed, StampsRow
  <1>6. PageAnswers(t)'
    BY <1>1, <1>3 DEF TabAnswers, PageAnswers, Current, GivenByPost, GivenBySave
  <1> QED BY <1>4, <1>5, <1>6 DEF TabAnswers

LEMMA RefreshAnswers ==
    ASSUME TypeInvariant, NEW t \in Tab, TabInv(t), TabAnswers(t), RefreshRead(t) \/ RefreshShown(t)
    PROVE  TabAnswers(t)'
  <1> USE TabFacts
  <1>1. /\ \/ page'[t] = page[t]
           \/ page'[t].open = page[t].open /\ page'[t].answers = page[t].answers
        /\ ~behind'[t] => ~behind[t]
        /\ queue'[t] = queue[t] /\ move'[t] = move[t] /\ posts'[t] = posts[t]
        /\ edits' = edits /\ row' = row
    <2>1. CASE RefreshRead(t)
      BY <2>1 DEF RefreshRead, TypeInvariant, TypeOK
    <2>2. CASE RefreshShown(t)
      <3>1. \/ page'[t] = page[t]
            \/ \E thread : page'[t] = WithThread(page[t], thread)
        BY <2>2 DEF RefreshShown, TypeInvariant, TypeOK
      <3>2. \A thread : /\ WithThread(page[t], thread).open = page[t].open
                        /\ WithThread(page[t], thread).answers = page[t].answers
        BY DEF WithThread, PageType
      <3> QED BY <2>2, <3>1, <3>2 DEF RefreshShown
    <2> QED BY <2>1, <2>2
  <1>2. EtagsInOrder(t)' /\ AdoptsInOrder(t)' /\ BaseKnown(t)'
    BY <1>1 DEF TabAnswers, EtagsInOrder, AdoptsInOrder, BaseKnown, GivenByPost, GivenBySave
  <1>3. FlushHolds(t)' /\ StampsFlushed(t)' /\ StampsRow(t)' /\ PageAnswers(t)'
    BY <1>1 DEF TabAnswers, FlushHolds, StampsFlushed, StampsRow, PageAnswers, Current, GivenByPost, GivenBySave
  <1> QED BY <1>2, <1>3 DEF TabAnswers

\* Another version of the row is under an ETag nobody holds yet.
LEMMA NewVersion ==
    ASSUME TypeInvariant, NEW t \in Tab, TabInv(t), row'.version = row.version + 1
    PROVE  /\ row'.version \in Nat /\ row.version < row'.version
           /\ queue[t].etag < row'.version /\ queue[t].etag # row'.version
           /\ queue[t].sent.etag < row'.version /\ queue[t].sent.etag # row'.version
           /\ move[t].etag # row'.version
           /\ \A p \in posts[t] : p.etag < row'.version /\ p.etag # row'.version
  <1>1. row.version \in Nat /\ row'.version \in Nat
    BY TabFacts, RowFacts
  <1>2. queue[t].etag \in Nat /\ queue[t].sent.etag \in Nat /\ move[t].etag \in Nat
    BY TabFacts, QueueFacts DEF MoveType
  <1>3. \A p \in posts[t] : p.etag \in Nat
    BY TabFacts, PostFact
  <1> QED BY <1>1, <1>2, <1>3 DEF TabInv, EtagsKnown

\* What a tab knows of the Answers stands whatever becomes of the row.
LEMMA AnswersStand ==
    ASSUME TypeInvariant, NEW t \in Tab, TabInv(t), TabAnswers(t), Versioned,
           queue'[t] = queue[t], posts'[t] = posts[t], behind'[t] = behind[t],
           page'[t] = page[t], \A n \in Answered : edits'[n] = edits[n],
           move'[t] = move[t] \/ (move[t].stage = "sent" /\ move'[t].stage \in {"ok", "refused"})
    PROVE  TabAnswers(t)'
  <1> USE TabFacts
  <1>1. EtagsInOrder(t)'
    BY DEF TabAnswers, EtagsInOrder
  <1>2. FlushHolds(t)'
    BY DEF TabAnswers, FlushHolds
  <1>3. CASE row' = row
    <2>1. AdoptsInOrder(t)' /\ BaseKnown(t)'
      BY <1>3 DEF TabAnswers, AdoptsInOrder, BaseKnown, GivenByPost, GivenBySave
    <2>2. PageAnswers(t)' /\ StampsRow(t)'
      BY <1>3, RowFacts DEF TabAnswers, PageAnswers, StampsRow, Current, GivenByPost, GivenBySave
    <2>3. StampsFlushed(t)'
      BY <1>3, OwnAnswers DEF TabAnswers, StampsFlushed, Current, GivenByPost, GivenBySave
    <2> QED BY <1>1, <1>2, <2>1, <2>2, <2>3 DEF TabAnswers
  <1>4. CASE row'.version = row.version + 1
    <2>1. /\ row'.version \in Nat /\ row.version < row'.version
          /\ queue[t].etag < row'.version /\ queue[t].etag # row'.version
          /\ queue[t].sent.etag # row'.version /\ queue[t].sent.etag < row'.version
          /\ move[t].etag # row'.version
          /\ \A p \in posts[t] : p.etag # row'.version
      BY <1>4, NewVersion
    <2>2. AdoptsInOrder(t)'
      BY <2>1 DEF TabAnswers, AdoptsInOrder, GivenByPost
    <2>3. BaseKnown(t)' /\ ~Current(t)'
      BY <2>1 DEF BaseKnown, Current, GivenByPost, GivenBySave
    <2>4. PageAnswers(t)' /\ StampsFlushed(t)' /\ StampsRow(t)'
      BY <2>1, <2>3 DEF PageAnswers, StampsFlushed, StampsRow
    <2> QED BY <1>1, <1>2, <2>2, <2>3, <2>4 DEF TabAnswers
  <1> QED BY <1>3, <1>4 DEF Versioned

LEMMA MoveArrivesAnswers ==
    ASSUME TypeInvariant, NEW t \in Tab, TabInv(t), TabAnswers(t), MoveArrives(t)
    PROVE  TabAnswers(t)'
  <1> USE TabFacts
  <1>1. /\ page'[t] = page[t] /\ posts'[t] = posts[t] /\ queue'[t] = queue[t]
        /\ behind'[t] = behind[t] /\ edits' = edits /\ move[t].stage = "sent"
        /\ move'[t] = MovedTo(move[t], "ok") \/ move'[t] = MovedTo(move[t], "refused")
        /\ row' = row \/ row' = AfterMove(move[t].op, move[t].stamp)
    BY DEF MoveArrives, TypeInvariant, TypeOK
  <1>2. move'[t].stage \in {"ok", "refused"}
    BY <1>1, MoveFields
  <1>3. Versioned
    BY <1>1, MovedFields DEF MoveType, Versioned
  <1> QED BY <1>1, <1>2, <1>3, AnswersStand

LEMMA PostAnswers ==
    ASSUME TypeInvariant, NEW t \in Tab, TabInv(t), TabAnswers(t), Post(t)
    PROVE  TabAnswers(t)'
  <1> USE TabFacts
  <1> DEFINE thread == page[t].thread \cup {used'["messages"]}
  <1> DEFINE new == [stage |-> "patch", thread |-> thread, etag |-> queue[t].etag, behind |-> behind'[t]]
  <1>0. /\ row' = row /\ queue' = queue /\ move' = move /\ edits' = edits
        /\ page' = [page EXCEPT ![t] = WithThread(page[t], thread)]
        /\ posts' = [posts EXCEPT ![t] = posts[t] \cup {new}]
        /\ behind' = [behind EXCEPT ![t] = behind[t] \/ peek[t].out]
    BY DEF Post
  <1>1. /\ page'[t] = WithThread(page[t], thread) /\ posts'[t] = posts[t] \cup {new}
        /\ ~behind'[t] => ~behind[t]
    BY <1>0 DEF TypeInvariant, TypeOK
  <1>2. new.stage = "patch" /\ new.etag = queue[t].etag
    OBVIOUS
  <1> HIDE DEF new, thread
  <1>3. page'[t].open = page[t].open /\ page'[t].answers = page[t].answers
    BY <1>1 DEF WithThread, PageType
  <1>4. EtagsInOrder(t)'
    BY <1>0, <1>1, <1>2, QueueFacts DEF TabAnswers, EtagsInOrder
  <1>5. \A p : GivenByPost(t, p)' <=> GivenByPost(t, p)
    BY <1>0, <1>1, <1>2 DEF GivenByPost
  <1>6. GivenBySave(t)' <=> GivenBySave(t)
    BY <1>0, <1>1 DEF GivenBySave
  <1>7. AdoptsInOrder(t)' /\ BaseKnown(t)'
    <2>1. \A p \in posts'[t] : GivenByPost(t, p)' => p \in posts[t] /\ GivenByPost(t, p)
      BY <1>5 DEF GivenByPost
    <2> QED BY <1>0, <1>1, <1>6, <2>1 DEF TabAnswers, AdoptsInOrder, BaseKnown
  <1>8. Current(t)' => Current(t)
    BY <1>0, <1>1, <1>5, <1>6 DEF Current, GivenByPost
  <1>9. FlushHolds(t)' /\ StampsRow(t)' /\ StampsFlushed(t)' /\ PageAnswers(t)'
    BY <1>0, <1>1, <1>3, <1>8 DEF TabAnswers, FlushHolds, StampsRow, StampsFlushed, PageAnswers
  <1> QED BY <1>4, <1>7, <1>9 DEF TabAnswers

LEMMA PostArrivesAnswers ==
    ASSUME TypeInvariant, NEW t \in Tab, TabInv(t), TabAnswers(t), NEW p, PostArrives(t, p)
    PROVE  TabAnswers(t)'
  <1> USE TabFacts
  <1>1. /\ page'[t] = page[t] /\ move'[t] = move[t] /\ queue'[t] = queue[t] /\ edits' = edits
        /\ behind'[t] = behind[t] /\ p \in posts[t] /\ p \in PostType
    BY DEF PostArrives
  <1>2. CASE ~PostLands(t, p)
    <2>1. row' = row /\ posts'[t] \subseteq posts[t]
      BY <1>2 DEF PostArrives, TypeInvariant, TypeOK
    <2>2. EtagsInOrder(t)'
      BY <1>1, <2>1 DEF TabAnswers, EtagsInOrder
    <2>3. \A r \in posts'[t] : r \in posts[t] /\ (GivenByPost(t, r)' => GivenByPost(t, r))
      BY <2>1 DEF GivenByPost
    <2>4. GivenBySave(t)' <=> GivenBySave(t)
      BY <1>1, <2>1 DEF GivenBySave
    <2>5. AdoptsInOrder(t)' /\ BaseKnown(t)' /\ (Current(t)' => Current(t))
      BY <1>1, <2>1, <2>3, <2>4 DEF TabAnswers, AdoptsInOrder, BaseKnown, Current
    <2>6. FlushHolds(t)' /\ StampsRow(t)' /\ StampsFlushed(t)' /\ PageAnswers(t)'
      BY <1>1, <2>1, <2>5 DEF TabAnswers, FlushHolds, StampsRow, StampsFlushed, PageAnswers
    <2> QED BY <2>2, <2>5, <2>6 DEF TabAnswers
  <1>3. CASE PostLands(t, p)
    <2> DEFINE ok == [p EXCEPT !.stage = "ok", !.etag = row.version + 1]
    <2>1. /\ row' = AfterPost(p.thread, t \in ReviewTab)
          /\ posts'[t] = (posts[t] \ {p}) \cup {ok} \/ posts'[t] = posts[t] \ {p}
      BY <1>3 DEF PostArrives, TypeInvariant, TypeOK
    <2>2. ok.stage = "ok" /\ ok.etag = row.version + 1
      BY <1>1, AnsweredPost
    <2> HIDE DEF ok
    <2>3. row'.version = row.version + 1 /\ row'.answers = row.answers
      BY <2>1, PostedRow DEF AfterPost, RowType
    <2>4. posts'[t] \subseteq posts[t] \cup {ok}
      BY <2>1
    <2>5. /\ row'.version \in Nat /\ row.version < row'.version
          /\ queue[t].etag < row'.version /\ queue[t].etag # row'.version
          /\ queue[t].sent.etag # row'.version /\ queue[t].sent.etag < row'.version
          /\ move[t].etag # row'.version
          /\ \A r \in posts[t] : r.etag # row'.version
      BY <2>3, NewVersion
    <2>6. queue[t].etag = row.version /\ queue[t].base = row.answers
      <3>1. p.stage = "patch" /\ p.etag = row.version
        BY <1>3 DEF PostLands
      <3>2. row.version <= queue[t].etag /\ queue[t].etag <= row.version
        BY <1>1, <3>1 DEF TabInv, EtagsKnown, TabAnswers, EtagsInOrder
      <3>3. queue[t].etag = row.version
        BY <3>2, RowFacts, QueueFacts
      <3> QED BY <3>3 DEF TabAnswers, BaseKnown
    <2>7. ~(queue[t].sent.stage = "ok" /\ queue[t].sent.live)
      BY <2>6, RowFacts, QueueFacts DEF TabInv, EtagsKnown, TabAnswers, EtagsInOrder
    <2>8. EtagsInOrder(t)'
      BY SMTT(30), <1>1, <2>2, <2>3, <2>4, <2>5, <2>7 DEF TabAnswers, EtagsInOrder
    <2>9. AdoptsInOrder(t)'
      <3>1. queue[t].sent.stage = "patch" /\ ~queue[t].sent.live => queue[t].sent.etag < row'.version
        BY <2>5
      <3> QED BY <1>1, <2>5, <3>1 DEF TabAnswers, AdoptsInOrder, GivenByPost
    <2>10. BaseKnown(t)'
      BY <1>1, <2>3, <2>5, <2>6 DEF BaseKnown, GivenByPost, GivenBySave
    <2>11. Current(t)
      BY <2>6 DEF Current
    <2>12. FlushHolds(t)' /\ PageAnswers(t)' /\ StampsFlushed(t)'
      BY <1>1, <2>11 DEF TabAnswers, FlushHolds, PageAnswers, StampsFlushed
    <2>13. StampsRow(t)'
      BY <1>1, <2>5 DEF StampsRow
    <2> QED BY <2>8, <2>9, <2>10, <2>12, <2>13 DEF TabAnswers
  <1> QED BY <1>2, <1>3

LEMMA PostConfirmedAnswers ==
    ASSUME TypeInvariant, NEW t \in Tab, TabInv(t), TabAnswers(t), NEW p, PostConfirmed(t, p)
    PROVE  TabAnswers(t)'
  <1> USE TabFacts
  <1>1. /\ page'[t] = page[t] /\ move'[t] = move[t] /\ row' = row /\ edits' = edits
        /\ posts'[t] = posts[t] \ {p} /\ p \in posts[t] /\ p.stage = "ok"
        /\ queue'[t] = Reloaded(queue[t])
        /\ ~behind'[t] => ~behind[t] /\ row.version = p.etag
    BY DEF PostConfirmed, TypeInvariant, TypeOK
  <1>2. /\ queue'[t].etag = row.version /\ queue'[t].base = row.answers
        /\ queue'[t].sent.stage = queue[t].sent.stage /\ queue'[t].sent.val = queue[t].sent.val
        /\ queue'[t].sent.etag = queue[t].sent.etag /\ ~queue'[t].sent.live
        /\ queue'[t].sent.flush = queue[t].sent.flush
        /\ queue'[t].want = queue[t].want /\ queue'[t].todo = queue[t].todo
        /\ queue'[t].lost = queue[t].lost /\ queue'[t].dropped = queue[t].dropped
    BY <1>1, ReloadedFields, ReloadedRest
  <1>3. EtagsInOrder(t)'
    BY <1>1, <1>2 DEF TabInv, EtagsKnown, TabAnswers, EtagsInOrder
  <1>4. ~behind'[t] => /\ ~behind[t] /\ GivenByPost(t, p) /\ Current(t)
                       /\ queue[t].etag < p.etag /\ queue[t].base = row.answers
    BY <1>1 DEF TabAnswers, AdoptsInOrder, BaseKnown, GivenByPost, Current
  <1>5. AdoptsInOrder(t)'
    <2>1. ASSUME ~behind'[t]
          PROVE  queue[t].sent.stage # "ok"
      <3>1. queue[t].sent.stage = "ok" => queue[t].sent.live /\ p.etag < queue[t].sent.etag
        BY <1>1, <1>4, <2>1 DEF TabAnswers, AdoptsInOrder, EtagsInOrder
      <3> QED BY <1>1, <2>1, <3>1, RowFacts, QueueFacts DEF TabInv, EtagsKnown
    <2>2. ASSUME ~behind'[t], queue[t].sent.stage = "patch"
          PROVE  queue[t].sent.etag < row.version
      <3>1. CASE queue[t].sent.live
        BY <1>1, <1>4, <2>2, <3>1 DEF TabInv, EtagsKnown
      <3>2. CASE ~queue[t].sent.live
        BY <1>4, <2>2, <3>2 DEF TabAnswers, AdoptsInOrder
      <3> QED BY <3>1, <3>2
    <2>3. ~behind'[t] => \A r \in posts'[t] : r.stage = "ok" => r.etag # row.version
      BY <1>1 DEF TabAnswers, EtagsInOrder
    <2> QED BY <1>1, <1>2, <2>1, <2>2, <2>3 DEF AdoptsInOrder, GivenByPost
  <1>6. BaseKnown(t)'
    BY <1>1, <1>2 DEF BaseKnown, GivenByPost, GivenBySave
  <1>7. FlushHolds(t)'
    BY <1>1, <1>2 DEF TabAnswers, FlushHolds
  <1>8. ~behind'[t] => /\ Newest(queue'[t]) = Newest(queue[t]) /\ Flushed(queue'[t]) = Flushed(queue[t])
                       /\ (Owes(queue'[t]) <=> Owes(queue[t]))
                       /\ (Flushes(queue'[t]) <=> Flushes(queue[t]))
    BY <1>2, <1>4, SameAnswers
  <1>9. PageAnswers(t)' /\ StampsFlushed(t)' /\ StampsRow(t)'
    BY <1>1, <1>2, <1>4, <1>8 DEF TabAnswers, PageAnswers, StampsFlushed, StampsRow
  <1> QED BY <1>3, <1>5, <1>6, <1>7, <1>9 DEF TabAnswers


\* The edits made so far are only added to.
LEMMA EditsStand ==
    ASSUME TypeInvariant, Next
    PROVE  \A n \in Answered : edits'[n] = edits[n]
  <1>1. ASSUME NEW t \in Tab, TabNext(t)
        PROVE  edits' = edits \/ \E e : edits' = Append(edits, e)
    BY <1>1 DEF TabNext, Answer, Load, EditAnswers, EditOther, Autosave, SaveArrives, SaveConfirmed, SaveReread,
           SaveGivenUp, Click, FlushPopped, FlushReturns, MoveArrives, MoveAnswered, Post, PostArrives,
           PostConfirmed, RefreshRead, RefreshShown
  <1>2. ASSUME NEW u \in User, Claim(u)
        PROVE  edits' = edits
    BY <1>2 DEF Claim
  <1>3. SupportNext => edits' = edits
    BY DEF SupportNext, SupportLoad, SupportRecord, SupportArrives, SupportAnswered, SupportLeaves
  <1>4. edits' = edits \/ \E e : edits' = Append(edits, e)
    BY <1>1, <1>2, <1>3 DEF Next
  <1>5. edits \in Seq(EditType)
    BY DEF TypeInvariant, TypeOK
  <1>6. CASE edits' = edits
    BY <1>6
  <1>7. CASE \E e : edits' = Append(edits, e)
    <2>1. PICK e : edits' = Append(edits, e)
      BY <1>7
    <2> QED BY <1>5, <2>1 DEF Answered
  <1> QED BY <1>4, <1>6, <1>7

LEMMA TabAnswersOfItsStep ==
    ASSUME TypeInvariant, NEW t \in Tab, TabInv(t), TabAnswers(t), TabNext(t)
    PROVE  TabAnswers(t)'
  <1>1. ASSUME Answer(t)
        PROVE  TabAnswers(t)'
    BY <1>1, SaveArrivesAnswers, SaveConfirmedAnswers, SaveRereadAnswers, FlushPoppedAnswers,
       FlushReturnsAnswers, MoveArrivesAnswers, MoveAnsweredAnswers, PostArrivesAnswers,
       PostConfirmedAnswers DEF Answer
  <1>2. ASSUME ~Answer(t)
        PROVE  TabAnswers(t)'
    BY <1>2, LoadAnswers, EditAnswersAnswers, EditOtherAnswers, AutosaveAnswers, SaveGivenUpAnswers,
       ClickAnswers, PostAnswers, RefreshAnswers DEF TabNext
  <1> QED BY <1>1, <1>2

LEMMA UntouchedAnswers ==
    ASSUME TypeInvariant, NEW s \in Tab, TabInv(s), TabAnswers(s), Versioned, Untouched(s),
           \A n \in Answered : edits'[n] = edits[n]
    PROVE  TabAnswers(s)'
  BY AnswersStand DEF Untouched

LEMMA NextAnswers ==
    ASSUME AnswersInv, [Next]_vars
    PROVE  AnswersInv'
  <1>1. IInv /\ TypeInvariant /\ \A s \in Tab : TabInv(s) /\ TabAnswers(s)
    BY DEF AnswersInv, IInv
  <1>2. IInv'
    BY <1>1, NextInv
  <1>3. ASSUME NEW t \in Tab, TabNext(t)
        PROVE  \A s \in Tab : TabAnswers(s)'
    <2>1. TabAnswers(t)'
      BY <1>1, <1>3, TabAnswersOfItsStep
    <2>2. Versioned /\ \A s \in Tab \ {t} : Untouched(s)
      BY <1>1, <1>3, TabsApart
    <2>3. \A n \in Answered : edits'[n] = edits[n]
      BY <1>1, <1>3, EditsStand DEF Next
    <2> QED BY <1>1, <2>1, <2>2, <2>3, UntouchedAnswers
  <1>4. ASSUME (\E u \in User : Claim(u)) \/ SupportNext
        PROVE  \A s \in Tab : TabAnswers(s)'
    <2>1. Versioned /\ \A s \in Tab : Untouched(s)
      BY <1>1, <1>4, ClaimKeeps, SupportVersioned DEF IInv, Result
    <2>2. \A n \in Answered : edits'[n] = edits[n]
      BY <1>1, <1>4, EditsStand DEF Next
    <2> QED BY <1>1, <2>1, <2>2, UntouchedAnswers
  <1>5. ASSUME UNCHANGED vars
        PROVE  \A s \in Tab : TabAnswers(s)'
    <2>1. /\ Versioned /\ (\A s \in Tab : Untouched(s))
          /\ \A n \in Answered : edits'[n] = edits[n]
      BY <1>5 DEF vars, tabVars, Versioned, Untouched
    <2> QED BY <1>1, <2>1, UntouchedAnswers
  <1> QED BY <1>2, <1>3, <1>4, <1>5 DEF Next, AnswersInv

LEMMA InitAnswers == Init => AnswersInv
  <1> SUFFICES ASSUME Init, NEW t \in Tab PROVE TabAnswers(t)
    BY InitInv DEF AnswersInv
  <1>1. /\ queue[t] = EmptyQueue /\ posts[t] = {} /\ move[t].stage = "idle" /\ ~page[t].open
        /\ row.version = 1
    BY DEF Init, Idle, Closed
  <1>2. /\ queue[t].etag = 0 /\ queue[t].sent.stage = "none" /\ queue[t].todo = NoWrite
        /\ ~queue[t].sent.flush
    BY <1>1 DEF EmptyQueue, NoSave
  <1> QED BY <1>1, <1>2 DEF TabAnswers, EtagsInOrder, AdoptsInOrder, BaseKnown, FlushHolds, PageAnswers,
                            StampsFlushed, StampsRow, GivenByPost, GivenBySave

\* A tab that holds the current ETag, or is about to, shows the newest Answers of
\* its own or the row's, and a completion it makes carries their Outcome: the
\* inductive invariant behind the next theorem.
THEOREM AnswersAreTracked == Spec => []AnswersInv
  <1>1. AnswersInv /\ [Next]_vars => AnswersInv'
    BY NextAnswers
  <1> QED BY InitAnswers, <1>1, PTL DEF Spec

\* A completion lands only on the Answers its Outcome was computed from, except
\* over Answers that went with a failed flush.
THEOREM OutcomesLandOnTheirAnswers == Spec => OutcomeLandsOnItsAnswers
  <1>1. ASSUME AnswersInv
        PROVE  [\A t \in Tab :
                  MoveLands(t) /\ move'[t].stage # "sent" /\ ~move[t].behind
                     /\ ~move[t].dropped /\ move[t].op \in {"send", "complete"}
                      => move[t].stamp = edits[row.answers].basis]_vars
    BY <1>1 DEF AnswersInv, TabAnswers, StampsRow, MoveLands
  <1> QED BY <1>1, AnswersAreTracked, PTL DEF OutcomeLandsOnItsAnswers
=============================================================================
