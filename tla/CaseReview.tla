----------------------------- MODULE CaseReview -----------------------------
(***************************************************************************)
(* One Case worked on by several browser tabs at once: the Case Review     *)
(* page of its Reviewers and of its Responsible Party, the support page,   *)
(* and the SharePoint list item they all write under an ETag.              *)
(*                                                                         *)
(* Each tab has the page's snapshot of the Case, taken at load, and the    *)
(* tab's SaveQueue, which outlives the page.  SaveQueue.tla has the queue  *)
(* in full; here it is what the rest of the page sees of it: its ETag and  *)
(* Answers baseline, the 412 rule and flushCase, with the writes of a tab  *)
(* one after another.                                                      *)
(*                                                                         *)
(* Answers are the number of the edit that made them; `edits' holds what   *)
(* the completion gates make of each.  Columns no rule here reads (notes,  *)
(* hold, dates, Responsible Party) are "another column".                   *)
(***************************************************************************)
EXTENDS Integers, FiniteSets, Sequences

CONSTANTS
    User, Nobody,       \* Reviewers, and no Reviewer
    ReviewTab,          \* tabs of Reviewers
    PartyTab,           \* tabs of the Responsible Party
    UserOf,             \* whose tab it is
    FirstKind,          \* what the Case's first Answers may be
    EditKind,           \* what an edit may make of them
    Max                 \* bounds, one per counter

Tab == ReviewTab \cup PartyTab
Counter == {"edits", "others", "messages", "loads", "refreshes", "claims", "support", "faults"}

ASSUME ReviewAssumption ==
    /\ Nobody \notin User
    /\ ReviewTab \cap PartyTab = {}
    /\ UserOf \in [ReviewTab -> User]
    /\ FirstKind \cup EditKind \subseteq {"draft", "clean", "actions", "resolved"}
    /\ Max \in [Counter -> Nat]

VARIABLES
    row,      \* the list item; row.version is its ETag
    edits,    \* the Answers edits made so far
    page,     \* page[t]: the snapshot tab t shows
    queue,    \* queue[t]: the SaveQueue of tab t
    move,     \* move[t]: the completion or void tab t has been asked for
    posts,    \* posts[t]: message PATCHes of tab t not yet answered
    peek,     \* peek[t]: a conversation read for visibilitychange, not yet shown
    support,  \* the support page
    log,      \* the Support Log, with what became of each entry's write
    used,     \* bounded counters
    behind,   \* history: tab t's page may show less than the version its ETag names
    blind     \* history: a transition or message of such a tab has landed

tabVars == <<page, queue, move, posts, peek, behind>>
supportVars == <<support, log>>
vars == <<row, edits, tabVars, supportVars, used, blind>>

Status == {"toAllocate", "inProgress", "actions", "completed", "void"}
Op == {"send", "complete", "close", "void"}
SupportOp == {"unassign", "reopen", "reassign"}
\* What the gates of completionPatch make of a set of Answers: something is
\* missing; nothing is, without or with remediation; the remediation is resolved.
Kind == {"draft", "clean", "actions", "resolved"}

NoWrite == -2       \* nothing to save
NoAnswers == -1     \* a save that carries another column only
NoStamp == 0        \* no Outcome stamped
HasAnswers(n) == n \notin {NoWrite, NoAnswers}

Spend(c) == used[c] < Max[c] /\ used' = [used EXCEPT ![c] = @ + 1]

----------------------------------------------------------------------------
(* What a page may do, decided from the row it was loaded with *)

IsFrozen(s) == s \in {"actions", "completed", "void"}
CanEdit(t) == page[t].open /\ page[t].mine /\ page[t].status = "inProgress"
MayResolve(t) == page[t].open /\ page[t].mine /\ page[t].status = "actions"
CanVoid(t) == CanEdit(t) \/ MayResolve(t)
CanPost(t) ==
    /\ page[t].open
    /\ page[t].status \notin {"completed", "void"}
    /\ t \in PartyTab \/ page[t].mine

Allowed(t, op) ==
    LET kind == edits[page[t].answers].kind
    IN CASE op = "send"     -> CanEdit(t) /\ kind \in {"actions", "resolved"}
         [] op = "complete" -> CanEdit(t) /\ kind = "clean"
         [] op = "close"    -> MayResolve(t) /\ kind # "actions"
         [] op = "void"     -> CanVoid(t)

\* A page that has been left.
Closed == [open |-> FALSE, status |-> "void", mine |-> FALSE, answers |-> 1, thread |-> {}]

Snapshot(t) ==
    [open |-> TRUE, status |-> row.status,
     mine |-> t \in ReviewTab /\ UserOf[t] = row.reviewer,
     answers |-> row.answers, thread |-> row.thread]

WithAnswers(shown, n) == [shown EXCEPT !.answers = n]
WithThread(shown, thread) == [shown EXCEPT !.thread = thread]

----------------------------------------------------------------------------
(* The fields each transition writes *)

\* Mutation: the final complete stamps the Outcome again and forgets completedAt.
AfterMoveLosing(op, stamp) ==
    [row EXCEPT !.status = IF op = "send" THEN "actions" ELSE IF op = "void" THEN "void" ELSE "completed",
                !.reportable = @ \/ op \in {"send", "complete"},
                !.completed = @ \/ op = "complete",
                !.stamp = IF op \in {"send", "complete"} THEN stamp ELSE @,
                !.awaiting = (op = "send"),
                !.version = @ + 1]

\* Mutation: only a message, never a transition, takes the Case off its Responsible Party.
AfterMoveWaiting(op, stamp) ==
    [row EXCEPT !.status = IF op = "send" THEN "actions" ELSE IF op = "void" THEN "void" ELSE "completed",
                !.reportable = @ \/ op \in {"send", "complete"},
                !.completed = @ \/ op \in {"complete", "close"},
                !.stamp = IF op \in {"send", "complete"} THEN stamp ELSE @,
                !.awaiting = @ \/ op = "send",
                !.version = @ + 1]

\* buildActionsInProgressTransition, buildCompletedTransition,
\* buildFinalCompleteTransition, buildVoidTransition.
AfterMove(op, stamp) ==
    [row EXCEPT !.status = CASE op = "send" -> "actions"
                             [] op = "void" -> "void"
                             [] OTHER -> "completed",
                !.reportable = @ \/ op \in {"send", "complete"},
                !.completed = @ \/ op \in {"complete", "close"},
                !.stamp = IF op \in {"send", "complete"} THEN stamp ELSE @,
                !.awaiting = (op = "send"),
                !.version = @ + 1]

\* buildUnassignTransition, buildReopenTransition, reassignCase.
AfterSupport(op, u) ==
    CASE op = "unassign" ->
            [row EXCEPT !.status = "toAllocate", !.reviewer = Nobody, !.version = @ + 1]
      [] op = "reopen" ->
            [row EXCEPT !.status = "inProgress", !.reportable = FALSE, !.completed = FALSE,
                        !.stamp = NoStamp, !.awaiting = FALSE, !.version = @ + 1]
      [] op = "reassign" -> [row EXCEPT !.reviewer = u, !.version = @ + 1]

AfterClaim(u) ==
    [row EXCEPT !.status = "inProgress", !.reviewer = u, !.version = @ + 1]
AfterSave(n) ==
    [row EXCEPT !.answers = IF n = NoAnswers THEN @ ELSE n, !.version = @ + 1]
\* awaitingFrontlineAfterPost travels with the message.
AfterPost(thread, asks) ==
    [row EXCEPT !.thread = thread, !.awaiting = asks, !.version = @ + 1]

\* unassignBlockedReason, reopenBlockedReason, reassignBlockedReason and
\* reviewerCandidates, on the row the support page shows.
SupportAllowed(op, seen, u) ==
    CASE op = "unassign" -> seen.status = "inProgress"
      [] op = "reopen"   -> seen.status = "completed"
      [] op = "reassign" -> /\ seen.status \notin {"void", "toAllocate"}
                            /\ u # seen.reviewer

----------------------------------------------------------------------------
Idle == [stage |-> "idle", op |-> "void", shown |-> "void", stamp |-> NoStamp, etag |-> 0, behind |-> FALSE, dropped |-> FALSE]
NoSave == [stage |-> "none", val |-> NoWrite, etag |-> 0, live |-> FALSE, flush |-> FALSE]
EmptyQueue == [etag |-> 0, base |-> 1, want |-> NoWrite, todo |-> NoWrite,
               sent |-> NoSave, conflict |-> FALSE, lost |-> {},
               dropped |-> FALSE]   \* history: the page's Answers went with a failed flush
NoPeek == [out |-> FALSE, thread |-> {}]

\* A Case waiting to be claimed, with the Answers of an earlier Reviewer or none.
Init ==
    /\ row = [status |-> "toAllocate", reviewer |-> Nobody, reportable |-> FALSE,
              completed |-> FALSE, stamp |-> NoStamp, awaiting |-> FALSE,
              answers |-> 1, thread |-> {}, version |-> 1]
    /\ \E k \in FirstKind : edits = <<[kind |-> k, basis |-> 1]>>
    /\ page = [t \in Tab |-> Closed]
    /\ queue = [t \in Tab |-> EmptyQueue]
    /\ move = [t \in Tab |-> Idle]
    /\ posts = [t \in Tab |-> {}]
    /\ peek = [t \in Tab |-> NoPeek]
    /\ support = [stage |-> "idle", op |-> "reopen", user |-> Nobody, seen |-> row]
    /\ log = <<>>
    /\ used = [c \in Counter |-> 0]
    /\ behind = [t \in Tab |-> FALSE]
    /\ blind = FALSE

----------------------------------------------------------------------------
(* The SaveQueue as the page sees it *)

Saved(q) == q.want = NoWrite /\ q.todo = NoWrite /\ q.sent.stage = "none"

\* SaveQueue.loadCase: what is in flight answers to the CaseState it replaces.
Reloaded(q) == [q EXCEPT !.etag = row.version, !.base = row.answers, !.sent.live = FALSE]

\* A page loaded afresh shows the Answers of the row.
UnderNewPage(q) == [Reloaded(q) EXCEPT !.dropped = FALSE]

\* An edit also takes the queue's status off 'conflict'.
Enqueue(q, n) ==
    [q EXCEPT !.want = IF n = NoAnswers /\ @ # NoWrite THEN @ ELSE n, !.conflict = FALSE,
              !.dropped = @ /\ n = NoAnswers]

\* _flushAttempt sends under the ETag of the moment.
Write(q, n, flush) ==
    [stage |-> "patch", val |-> n, etag |-> q.etag, live |-> TRUE, flush |-> flush]

SentWanted(q) == [q EXCEPT !.want = NoWrite, !.sent = Write(q, q.want, FALSE)]
SentPopped(q) == [q EXCEPT !.todo = NoWrite, !.sent = Write(q, q.todo, TRUE)]

\* flushCase pops what is debounced and waits for what is in flight.
Popped(q) ==
    [q EXCEPT !.todo = q.want, !.want = NoWrite, !.sent.flush = q.sent.stage # "none"]

\* The PATCH has made a version of the row, or was refused.
Landed(q) == [q EXCEPT !.sent.stage = "ok", !.sent.etag = row.version + 1]
Refused(q) == [q EXCEPT !.sent.stage = "stale"]

\* The fields a notice of a lost write is kept for.
FieldOf(n) == IF n = NoAnswers THEN "other" ELSE "answers"

Confirmed(q) ==
    [q EXCEPT !.sent = NoSave, !.lost = @ \ {FieldOf(q.sent.val)},
              !.etag = IF q.sent.live THEN row.version ELSE @,
              !.base = IF q.sent.live THEN row.answers ELSE @]

Rebased(q) ==
    [q EXCEPT !.etag = row.version, !.sent.stage = "patch", !.sent.etag = row.version,
              !.sent.live = TRUE]

\* A write that ends without success; what flushCase had popped is gone with it.
Ended(q) ==
    [q EXCEPT !.sent = NoSave, !.todo = IF q.sent.flush THEN NoWrite ELSE @,
              !.dropped = @ \/ (q.sent.flush /\ HasAnswers(q.todo) /\ ~HasAnswers(q.want))]
Conflicted(q) == [Ended(q) EXCEPT !.conflict = TRUE]
GivenUp(q) == [Ended(q) EXCEPT !.lost = @ \cup {FieldOf(q.sent.val)}]

----------------------------------------------------------------------------
(* Loading the page, and the dashboard's claim *)

\* requestNextCase, from the re-read of the candidate to its guarded PATCH.
Claim(u) ==
    /\ row.status = "toAllocate" /\ row.reviewer = Nobody
    /\ Spend("claims")
    /\ row' = AfterClaim(u)
    /\ UNCHANGED <<edits, tabVars, supportVars, blind>>

\* CaseLoader.load: getCase, then SaveQueue.loadCase with the same row.  A
\* transition still waiting for its flush was asked for on the page before.
Load(t) ==
    /\ Spend("loads")
    /\ page' = [page EXCEPT ![t] = Snapshot(t)]
    /\ queue' = [queue EXCEPT ![t] = UnderNewPage(@)]
    /\ peek' = [peek EXCEPT ![t] = NoPeek]
    /\ behind' = [behind EXCEPT ![t] = \/ move[t].stage = "flushing" \/ posts[t] # {}
                                         \/ ~Saved(queue[t])]
    /\ UNCHANGED <<row, edits, move, posts, supportVars, blind>>

----------------------------------------------------------------------------
(* Editing, and the autosave behind it *)

\* editAnswers: the review while the page says In-progress, the outcome of the
\* remediation while it says Actions In Progress.
EditAnswers(t, k) ==
    /\ \/ CanEdit(t) /\ k # "resolved"
       \/ MayResolve(t) /\ k \in {"actions", "resolved"}
    /\ Spend("edits")
    /\ edits' = Append(edits, [kind |-> k,
                               basis |-> IF CanEdit(t) THEN Len(edits) + 1
                                         ELSE edits[page[t].answers].basis])
    /\ page' = [page EXCEPT ![t] = WithAnswers(@, Len(edits'))]
    /\ queue' = [queue EXCEPT ![t] = Enqueue(@, Len(edits'))]
    /\ UNCHANGED <<row, move, posts, peek, behind, supportVars, blind>>

\* Notes, the hold toggle, the Responsible Party pick.
EditOther(t) ==
    /\ page[t].open /\ page[t].mine /\ page[t].status \notin {"completed", "void"}
    /\ Spend("others")
    /\ queue' = [queue EXCEPT ![t] = Enqueue(@, NoAnswers)]
    /\ UNCHANGED <<row, edits, page, move, posts, peek, behind, supportVars, blind>>

\* The debounce timer.
Autosave(t) ==
    /\ queue[t].want # NoWrite /\ queue[t].sent.stage = "none"
    /\ queue' = [queue EXCEPT ![t] = SentWanted(@)]
    /\ UNCHANGED <<row, edits, page, move, posts, peek, behind, supportVars, used, blind>>

\* Mutation: every save writes the Answers column, a save of another column too.
SaveArrivesWhole(t) ==
    LET s == queue[t].sent
    IN /\ s.stage = "patch"
       /\ IF s.etag = row.version
          THEN /\ row' = [row EXCEPT !.answers = s.val, !.version = @ + 1]
               /\ queue' = [queue EXCEPT ![t] = Landed(@)]
          ELSE /\ queue' = [queue EXCEPT ![t] = Refused(@)]
               /\ UNCHANGED row
       /\ UNCHANGED <<edits, page, move, posts, peek, behind, supportVars, used, blind>>

\* The PATCH reaches SharePoint.
SaveArrives(t) ==
    LET s == queue[t].sent
    IN /\ s.stage = "patch"
       /\ IF s.etag = row.version
          THEN /\ row' = AfterSave(s.val)
               /\ queue' = [queue EXCEPT ![t] = Landed(@)]
          ELSE /\ queue' = [queue EXCEPT ![t] = Refused(@)]
               /\ UNCHANGED row
       /\ UNCHANGED <<edits, page, move, posts, peek, behind, supportVars, used, blind>>

\* A 204 is confirmed by a re-read of the row, whose ETag and Answers the queue
\* takes over, unless a page load has replaced its CaseState meanwhile.
SaveConfirmed(t) ==
    LET s == queue[t].sent
    IN /\ s.stage = "ok"
       /\ queue' = [queue EXCEPT ![t] = Confirmed(@)]
       /\ behind' = [behind EXCEPT ![t] = @ \/ (s.live /\ row.version # s.etag)]
       /\ UNCHANGED <<row, edits, page, move, posts, peek, supportVars, used, blind>>

\* The flush a transition waits for has failed: flushCase returns false, what it
\* had popped is gone, and the transition is not attempted.
MoveAfterFailure(t) ==
    IF queue[t].sent.flush /\ move[t].stage = "flushing" THEN Idle ELSE move[t]

\* _handle412: Answers as the queue last knew them let its write through.
SaveReread(t) ==
    /\ queue[t].sent.stage = "stale"
    /\ IF row.answers = queue[t].base
       THEN /\ queue' = [queue EXCEPT ![t] = Rebased(@)]
            /\ behind' = [behind EXCEPT ![t] = @ \/ row.version # queue[t].etag]
            /\ UNCHANGED move
       ELSE /\ queue' = [queue EXCEPT ![t] = Conflicted(@)]
            /\ move' = [move EXCEPT ![t] = MoveAfterFailure(t)]
            /\ UNCHANGED behind
    /\ UNCHANGED <<row, edits, page, posts, peek, supportVars, used, blind>>

\* A write the queue gives up on, and keeps a notice of.
SaveGivenUp(t) ==
    /\ queue[t].sent.stage = "patch"
    /\ Spend("faults")
    /\ queue' = [queue EXCEPT ![t] = GivenUp(@)]
    /\ move' = [move EXCEPT ![t] = MoveAfterFailure(t)]
    /\ UNCHANGED <<row, edits, page, posts, peek, behind, supportVars, blind>>

----------------------------------------------------------------------------
(* Completing and voiding *)

\* The patch of a transition, as the page shows the Case.
Asked(shown, op, dropped) ==
    [stage |-> "flushing", op |-> op, shown |-> shown.status,
     stamp |-> edits[shown.answers].basis, etag |-> 0, behind |-> FALSE,
     dropped |-> dropped]

\* Mutation: what is debounced at the click is left to its timer.
ClickUnflushed(t, op) ==
    /\ move[t].stage = "idle"
    /\ Allowed(t, op)
    /\ move' = [move EXCEPT ![t] = Asked(page[t], op, queue[t].dropped)]
    /\ queue' = [queue EXCEPT ![t] = [@ EXCEPT !.sent.flush = queue[t].sent.stage # "none"]]
    /\ UNCHANGED <<row, edits, page, posts, peek, behind, supportVars, used, blind>>

\* onComplete and onVoid: the patch is computed from the page at the click;
\* flushCase pops what is debounced and waits for what is in flight.
Click(t, op) ==
    /\ move[t].stage = "idle"
    /\ Allowed(t, op)
    /\ move' = [move EXCEPT ![t] = Asked(page[t], op, queue[t].dropped)]
    /\ queue' = [queue EXCEPT ![t] = Popped(@)]
    /\ UNCHANGED <<row, edits, page, posts, peek, behind, supportVars, used, blind>>

\* flushCase writes what it popped once nothing it waits for is in flight.
FlushPopped(t) ==
    /\ move[t].stage = "flushing"
    /\ queue[t].todo # NoWrite /\ queue[t].sent.stage = "none"
    /\ queue' = [queue EXCEPT ![t] = SentPopped(@)]
    /\ UNCHANGED <<row, edits, page, move, posts, peek, behind, supportVars, used, blind>>

SentUnder(m, etag, late) == [m EXCEPT !.stage = "sent", !.etag = etag, !.behind = late]
MovedTo(m, stage) == [m EXCEPT !.stage = stage]

\* Mutation: the transition is sent under the ETag of a fresh read.
FlushReturnsFresh(t) ==
    /\ move[t].stage = "flushing"
    /\ queue[t].todo = NoWrite /\ ~queue[t].sent.flush
    /\ move' = [move EXCEPT ![t] = IF ~queue[t].conflict /\ queue[t].lost = {}
                                   THEN SentUnder(@, row.version, behind[t])
                                   ELSE Idle]
    /\ UNCHANGED <<row, edits, page, queue, posts, peek, behind, supportVars, used, blind>>

\* completeCase after flushCase: false ends it, true sends the transition under
\* the queue's ETag.
FlushReturns(t) ==
    /\ move[t].stage = "flushing"
    /\ queue[t].todo = NoWrite /\ ~queue[t].sent.flush
    /\ move' = [move EXCEPT ![t] = IF ~queue[t].conflict /\ queue[t].lost = {}
                                   THEN SentUnder(@, queue[t].etag, behind[t])
                                   ELSE Idle]
    /\ UNCHANGED <<row, edits, page, queue, posts, peek, behind, supportVars, used, blind>>

MoveLands(t) == move[t].stage = "sent" /\ move[t].etag = row.version

MoveArrives(t) ==
    /\ move[t].stage = "sent"
    /\ IF MoveLands(t)
       THEN /\ row' = AfterMove(move[t].op, move[t].stamp)
            /\ blind' = (blind \/ move[t].behind)
            /\ \/ move' = [move EXCEPT ![t] = MovedTo(@, "ok")] /\ UNCHANGED used
               \/ move' = [move EXCEPT ![t] = MovedTo(@, "refused")] /\ Spend("faults")
       ELSE /\ move' = [move EXCEPT ![t] = MovedTo(@, "refused")]
            /\ UNCHANGED <<row, blind, used>>
    /\ UNCHANGED <<edits, page, queue, posts, peek, behind, supportVars>>

\* Mutation: a refused transition leaves the page waiting.
MoveAnsweredOnlyIfOk(t) ==
    /\ move[t].stage = "ok"
    /\ move' = [move EXCEPT ![t] = Idle]
    /\ page' = [page EXCEPT ![t] = Closed]
    /\ UNCHANGED <<row, edits, queue, posts, peek, behind, supportVars, used, blind>>

\* The reply: the dashboard, or a failure reported on the page that is open.
MoveAnswered(t) ==
    /\ move[t].stage \in {"ok", "refused"}
    /\ move' = [move EXCEPT ![t] = Idle]
    /\ page' = [page EXCEPT ![t] = IF move[t].stage = "ok" THEN Closed ELSE @]
    /\ UNCHANGED <<row, edits, queue, posts, peek, behind, supportVars, used, blind>>

----------------------------------------------------------------------------
(* The Conversation *)

\* postConversationMessage: the whole thread as this page shows it, plus one, is
\* shown at once and sent under the queue's ETag.
Post(t) ==
    /\ CanPost(t)
    /\ Spend("messages")
    /\ behind' = [behind EXCEPT ![t] = @ \/ peek[t].out]
    /\ LET thread == page[t].thread \cup {used'["messages"]}
       IN /\ page' = [page EXCEPT ![t] = WithThread(@, thread)]
          /\ posts' = [posts EXCEPT ![t] = @ \cup
                {[stage |-> "patch", thread |-> thread, etag |-> queue[t].etag,
                  behind |-> behind'[t]]}]
    /\ UNCHANGED <<row, edits, queue, move, peek, supportVars, blind>>

\* Mutation: the message is sent without an ETag.
PostLandsAlways(t, p) == p \in posts[t] /\ p.stage = "patch"

PostLands(t, p) == p \in posts[t] /\ p.stage = "patch" /\ p.etag = row.version

\* The message reaches SharePoint; its reply can be lost.
PostArrives(t, p) ==
    /\ p \in posts[t] /\ p.stage = "patch"
    /\ IF PostLands(t, p)
       THEN /\ row' = AfterPost(p.thread, t \in ReviewTab)
            /\ blind' = (blind \/ p.behind)
            /\ \/ /\ posts' = [posts EXCEPT ![t] =
                        (@ \ {p}) \cup {[p EXCEPT !.stage = "ok", !.etag = row.version + 1]}]
                  /\ UNCHANGED used
               \/ posts' = [posts EXCEPT ![t] = @ \ {p}] /\ Spend("faults")
       ELSE /\ posts' = [posts EXCEPT ![t] = @ \ {p}]
            /\ UNCHANGED <<row, blind, used>>
    /\ UNCHANGED <<edits, page, queue, move, peek, behind, supportVars>>

\* The confirming re-read is handed to SaveQueue.loadCase; the page shows none
\* of it.
PostConfirmed(t, p) ==
    /\ p \in posts[t] /\ p.stage = "ok"
    /\ posts' = [posts EXCEPT ![t] = @ \ {p}]
    /\ queue' = [queue EXCEPT ![t] = Reloaded(@)]
    /\ behind' = [behind EXCEPT ![t] = @ \/ row.version # p.etag]
    /\ UNCHANGED <<row, edits, page, move, peek, supportVars, used, blind>>

\* visibilitychange: refreshConversation is answered ...
RefreshRead(t) ==
    /\ page[t].open /\ ~peek[t].out
    /\ Spend("refreshes")
    /\ peek' = [peek EXCEPT ![t] = [out |-> TRUE, thread |-> row.thread]]
    /\ behind' = [behind EXCEPT ![t] = @ \/ posts[t] # {}]
    /\ UNCHANGED <<row, edits, page, queue, move, posts, supportVars, blind>>

\* ... and shown.
RefreshShown(t) ==
    /\ peek[t].out
    /\ peek' = [peek EXCEPT ![t] = NoPeek]
    /\ page' = [page EXCEPT ![t] = IF @.open THEN WithThread(@, peek[t].thread) ELSE @]
    /\ UNCHANGED <<row, edits, queue, move, posts, behind, supportVars, used, blind>>

----------------------------------------------------------------------------
(* The support page *)

\* loadSelectedCase, while an action may still follow.
SupportLoad ==
    /\ support.stage \in {"idle", "open"}
    /\ used["support"] < Max["support"]
    /\ support' = [support EXCEPT !.stage = "open", !.seen = row]
    /\ UNCHANGED <<row, edits, tabVars, log, used, blind>>

Completion(r) == <<r.reportable, r.completed, r.stamp>>

Entry(op, seen) ==
    [op |-> op, before |-> Completion(seen), landed |-> FALSE, cleared |-> Completion(seen),
     denied |-> FALSE]
Applied(e) == [e EXCEPT !.landed = TRUE, !.cleared = Completion(row)]
Denied(e) == [e EXCEPT !.denied = TRUE]

\* runSupportAction: the entry is recorded, with the values the page shows as
\* the ones it changes, before the write is sent.
SupportRecord(op, u) ==
    /\ support.stage = "open"
    /\ SupportAllowed(op, support.seen, u)
    /\ Spend("support")
    /\ support' = [support EXCEPT !.stage = "sent", !.op = op, !.user = u]
    /\ log' = Append(log, Entry(op, support.seen))
    /\ UNCHANGED <<row, edits, tabVars, blind>>

\* Mutation: the support write is sent without an ETag.
SupportLandsAlways == support.stage = "sent"

SupportLands == support.stage = "sent" /\ support.seen.version = row.version

\* The guarded write, whose reply may be lost.
SupportArrives ==
    /\ support.stage = "sent"
    /\ IF SupportLands
       THEN /\ row' = AfterSupport(support.op, support.user)
            /\ log' = [log EXCEPT ![Len(log)] = Applied(@)]
            /\ \/ support' = [support EXCEPT !.stage = "ok"] /\ UNCHANGED used
               \/ support' = [support EXCEPT !.stage = "refused"] /\ Spend("faults")
       ELSE /\ support' = [support EXCEPT !.stage = "refused"]
            /\ UNCHANGED <<row, log, used>>
    /\ UNCHANGED <<edits, tabVars, blind>>

\* A failed write is followed by a not-applied entry, which may itself fail, and
\* leaves the form open on the row as it was; after one that succeeded the Case
\* is loaded again.
SupportAnswered ==
    /\ support.stage \in {"ok", "refused"}
    /\ support' = [support EXCEPT !.stage = IF @ = "ok" THEN "idle" ELSE "open"]
    /\ \/ support.stage = "refused" /\ log' = [log EXCEPT ![Len(log)] = Denied(@)] /\ UNCHANGED used
       \/ support.stage = "refused" /\ Spend("faults") /\ UNCHANGED log
       \/ support.stage = "ok" /\ UNCHANGED <<log, used>>
    /\ UNCHANGED <<row, edits, tabVars, blind>>

\* The support tab is closed, between the entry and the answer to its write too.
SupportLeaves ==
    /\ support.stage \in {"sent", "ok", "refused"}
    /\ Spend("faults")
    /\ support' = [support EXCEPT !.stage = "idle"]
    /\ UNCHANGED <<row, edits, tabVars, log, blind>>

----------------------------------------------------------------------------
\* A promise of the tab has settled: what awaits it runs before anything else.
Continuing(t) == move[t].stage = "flushing" /\ ~queue[t].sent.flush

Answer(t) ==
    \/ FlushPopped(t) \/ FlushReturns(t)
    \/ /\ ~Continuing(t)
       /\ \/ SaveArrives(t) \/ SaveConfirmed(t) \/ SaveReread(t)
          \/ MoveArrives(t) \/ MoveAnswered(t)
          \/ \E p \in posts[t] : PostArrives(t, p) \/ PostConfirmed(t, p)

TabNext(t) ==
    \/ Answer(t)
    \/ /\ ~Continuing(t)
       /\ \/ Load(t) \/ EditOther(t) \/ Autosave(t) \/ SaveGivenUp(t)
          \/ \E k \in EditKind : EditAnswers(t, k)
          \/ \E op \in Op : Click(t, op)
          \/ Post(t) \/ RefreshRead(t) \/ RefreshShown(t)

SupportNext ==
    \/ SupportLoad \/ SupportArrives \/ SupportAnswered \/ SupportLeaves
    \/ \E op \in SupportOp, u \in User : SupportRecord(op, u)

Next ==
    \/ \E t \in Tab : TabNext(t)
    \/ \E u \in User : Claim(u)
    \/ SupportNext

Spec == Init /\ [][Next]_vars

\* Requests are answered or fail, and a settled promise is continued.
FairSpec == Spec /\ \A t \in Tab : WF_vars(Answer(t))
=============================================================================
