------------------------ MODULE CaseReviewProperties ------------------------
(***************************************************************************)
(* What the Case lifecycle promises while several tabs write one Case:     *)
(* which transitions may land on which Case, what the stamps say, what     *)
(* becomes of messages, and what the Support Log tells.                    *)
(***************************************************************************)
EXTENDS CaseReview

\* Answers somebody has entered, and what may be known of them.
Answered == 1..Len(edits)
Stamp == Answered \cup {NoStamp}
Unsaved == Answered \cup {NoWrite, NoAnswers}

EditType == [kind: Kind, basis: Answered]
RowType ==
    [status: Status, reviewer: User \cup {Nobody}, reportable: BOOLEAN, completed: BOOLEAN,
     stamp: Stamp, awaiting: BOOLEAN, answers: Answered, thread: SUBSET Nat, version: Nat]
PageType == [open: BOOLEAN, status: Status, mine: BOOLEAN, answers: Answered, thread: SUBSET Nat]
SaveType ==
    [stage: {"none", "patch", "ok", "stale"}, val: Unsaved, etag: Nat, live: BOOLEAN, flush: BOOLEAN]
QueueType ==
    [etag: Nat, base: Answered, want: Unsaved, todo: Unsaved, sent: SaveType,
     conflict: BOOLEAN, lost: SUBSET {"answers", "other"}, dropped: BOOLEAN]
MoveType ==
    [stage: {"idle", "flushing", "sent", "ok", "refused"}, op: Op, shown: Status,
     stamp: Stamp, etag: Nat, behind: BOOLEAN, dropped: BOOLEAN]
PostType == [stage: {"patch", "ok"}, thread: SUBSET Nat, etag: Nat, behind: BOOLEAN]
PeekType == [out: BOOLEAN, thread: SUBSET Nat]
SupportType ==
    [stage: {"idle", "open", "sent", "ok", "refused"}, op: SupportOp,
     user: User \cup {Nobody}, seen: RowType]
Triple == BOOLEAN \X BOOLEAN \X Nat
EntryType == [op: SupportOp, before: Triple, landed: BOOLEAN, cleared: Triple, denied: BOOLEAN]

TypeOK ==
    /\ edits \in Seq(EditType) /\ edits # <<>>
    /\ row \in RowType
    /\ page \in [Tab -> PageType]
    /\ queue \in [Tab -> QueueType]
    /\ move \in [Tab -> MoveType]
    /\ posts \in [Tab -> SUBSET PostType]
    /\ peek \in [Tab -> PeekType]
    /\ support \in SupportType
    /\ log \in Seq(EntryType)
    /\ used \in [Counter -> Nat]
    /\ behind \in [Tab -> BOOLEAN]
    /\ blind \in BOOLEAN

\* A write in flight carries something, and so does a transition.
Sends(q) == q.sent.stage # "none" => q.sent.val # NoWrite
Stamps(m) == m.stage # "idle" => m.stamp # NoStamp
Carries(t) == Sends(queue[t]) /\ Stamps(move[t])

\* A support write has its entry in the log.
Recorded == support.stage \in {"sent", "ok", "refused"} => log # <<>>

\* Type correctness: no row, page, write or Outcome refers to Answers nobody has
\* entered, and nothing is sent empty or before its entry is recorded.
TypeInvariant == TypeOK /\ Recorded /\ \A t \in Tab : Carries(t)

----------------------------------------------------------------------------
(* Which transitions land *)

\* canCompleteCase, mayResolveRemediation and canVoidCase are answered at load
\* and never again, and the ETag that guards a transition moves on with every
\* autosave.  Still, unless the queue was carried past another writer's version,
\* a transition lands only on the status its page showed at the click, and only
\* for the Reviewer the Case is assigned to.
InformedMoves ==
    [][\A t \in Tab :
         MoveLands(t) /\ move'[t].stage # "sent" /\ ~move[t].behind
             => row.status = move[t].shown /\ row.reviewer = UserOf[t]]_vars

\* flushCase and the ETag together: a completion lands only on the Answers its
\* Outcome was computed from, edits made while it waits and saves that failed
\* included.  The exception is the page whose Answers an earlier flushCase had
\* popped when another write failed: they are neither saved nor noticed, and once
\* that other write's notice is gone the next completion goes over them.
OutcomeLandsOnItsAnswers ==
    [][\A t \in Tab :
         MoveLands(t) /\ move'[t].stage # "sent" /\ ~move[t].behind
            /\ ~move[t].dropped /\ move[t].op \in {"send", "complete"}
             => move[t].stamp = edits[row.answers].basis]_vars

\* The stamps tell the status: a Case has an Outcome, reportableAt and, once
\* Completed, completedAt exactly while its status says so, through every mix of
\* send, complete, close, void, un-assign, reopen, reassign and claim, as long as
\* no transition or message landed for a tab whose page was behind its ETag.
StampsAgree ==
    ~blind =>
        /\ row.status \in {"actions", "completed"} => row.reportable
        /\ row.status \in {"toAllocate", "inProgress"} => ~row.reportable
        /\ row.completed <=> row.status = "completed"
        /\ row.reportable <=> row.stamp # NoStamp
        /\ row.status = "toAllocate" <=> row.reviewer = Nobody

\* awaitingFrontlineCleared: a closed or voided Case waits on nobody, though
\* messages and transitions race each other from several tabs.
ClosedWaitsOnNobody ==
    ~blind => (row.status \in {"completed", "void"} => ~row.awaiting)

\* buildReportableSnapshot: the single point at which the Answers freeze and the
\* Outcome is stamped: a reportable Case's Outcome is that of its Answers.
OutcomeIsOfTheAnswers ==
    row.status \in {"actions", "completed"} => row.stamp = edits[row.answers].basis

----------------------------------------------------------------------------
(* What becomes of a message *)

\* Every PATCH of the Conversation carries the whole thread.  A message on the
\* Case is dropped by another post only if the poster's page was behind its ETag: its
\* queue had been carried past another writer's version, or a re-read of the
\* Conversation had overlapped a post of that tab.
MessagesKept ==
    [][row.thread \subseteq row'.thread
         \/ \E t \in Tab : \E p \in posts[t] : p.behind /\ PostLands(t, p)]_vars

----------------------------------------------------------------------------
(* What the Support Log tells *)

\* A reopen clears the stamps of the completion, and the befores of its entry are
\* the only record of them: they are what the write cleared.
ClearedIsLogged ==
    \A i \in DOMAIN log : log[i].landed => log[i].before = log[i].cleared

----------------------------------------------------------------------------
(* Progress *)

\* A completion or void that was asked for is answered: the button comes back,
\* or the page is left, however often the flush behind it meets a 412.
MoveReturns == \A t \in ReviewTab : move[t].stage # "idle" ~> move[t].stage = "idle"
=============================================================================
