------------------------ MODULE SaveQueueProperties ------------------------
(***************************************************************************)
(* What SaveQueue promises the page: which writes may replace which        *)
(* Answers, what the status means, what flushCase = true means, and that   *)
(* every write ends.                                                       *)
(***************************************************************************)
EXTENDS SaveQueue

\* Type correctness of the queue, the list item and the history variables.
TypeOK ==
    /\ rows \in [Case -> Seq([Field -> Int])]
    /\ edits \in Seq(EditRecord)
    /\ objs \in [Case -> Seq([etag : Nat, base : Int])]
    /\ failures \subseteq Edit
    /\ status \in Statuses
    /\ waiting \in BOOLEAN
    /\ fc \in [Case -> FlushCall]
    /\ reading \in [Case -> Nat]
    /\ shown \in [Case -> SUBSET Int]
    /\ adopted \in [Case -> SUBSET Int]
    /\ others \in Nat
    /\ faults \in Nat

\* Every reference from one part of the state to another has something at its end:
\* an ETag, reply or page load names a row version, a flush in flight names a
\* CaseState object, flushCase names edits.
CaseRefsOK(c) ==
    /\ rows[c] # <<>>
    /\ reading[c] <= Len(rows[c])
    /\ fc[c].wait \subseteq Edit
    /\ fc[c].todo \subseteq {n \in Edit : edits[n].case = c}
    /\ \A i \in DOMAIN objs[c] : objs[c][i].etag \in 1..Len(rows[c])

EditRefsOK(n) ==
    /\ objs[edits[n].case] # <<>>
    /\ edits[n].stage \in InFlight => edits[n].obj \in DOMAIN objs[edits[n].case]
    /\ edits[n].stage = "patch" => edits[n].etag \in 1..Len(rows[edits[n].case])
    /\ edits[n].stage \in {"ok", "fresh"} => edits[n].ver \in 1..Len(rows[edits[n].case])

RefsOK == (\A c \in Case : CaseRefsOK(c)) /\ (\A n \in Edit : EditRefsOK(n))

TypeInvariant == TypeOK /\ RefsOK

----------------------------------------------------------------------------
(* Whose Answers a write replaces *)

\* A PATCH carrying Answers that the server would accept now.
WouldReplaceAnswers(n) ==
    /\ edits[n].stage = "patch"
    /\ edits[n].etag = Len(rows[edits[n].case])
    /\ Answers \in FieldsOf(n)

\* The 412 rule of _handle412, with loadCase and the success path of
\* _flushAttempt: whatever the interleaving of flushes, replies, reloads and
\* other writers, an Answers write replaces another writer's Answers only when
\* this tab was given them, by a page load or by the reply to one of its writes.
NoUnreadOverwrite ==
    \A n \in Edit :
        WouldReplaceAnswers(n) =>
            LET a == Latest(edits[n].case)[Answers]
            IN a < 0 => a \in shown[edits[n].case] \cup adopted[edits[n].case]

\* Why it holds: the Answers behind every ETag the queue could still send, and
\* every baseline a 412 re-read could be compared with, are known to this tab.
KnownAnswers(c) == shown[c] \cup adopted[c] \cup Nat
AnswersKnown ==
    /\ \A c \in Case : \A i \in DOMAIN objs[c] :
          /\ AnswersAt(c, objs[c][i].etag) \in KnownAnswers(c)
          /\ objs[c][i].base \in KnownAnswers(c)
    /\ \A n \in Edit :
          edits[n].stage = "patch" =>
              AnswersAt(edits[n].case, edits[n].etag) \in KnownAnswers(edits[n].case)

\* A write sent once, straight from its timer, never undoes a newer edit of the
\* same field: only a retry, or an entry flushCase held back, can arrive late.
NoOvertakeAtFirstAttempt ==
    [][\A n \in Edit :
         /\ ~edits[n].landed
         /\ edits'[n].landed
         /\ edits[n].attempts = 1
         /\ ~edits[n].popped
         => \A f \in FieldsOf(n) : Latest(edits[n].case)[f] < n]_vars

----------------------------------------------------------------------------
(* What becomes of an edit *)

\* Nothing of edit n needs saying any more: it reached the row, was replaced
\* before its timer fired, or was reported as a conflict.
AccountedFor(n) == edits[n].landed \/ edits[n].stage \in {"replaced", "conflict"}

\* A write that clears a notice of n: any write sharing a field, older or newer.
Cleared(n) == \E m \in Edit \ {n} : Overlaps(m, n) /\ edits[m].landed

\* Edits given up on, with every other one that shares a field with one of them: the
\* notice of an edit gives way to that of a later failure on one of its fields, and
\* that one's to the next.
GivenUp == {n \in Edit : edits[n].stage = "gaveup"}
Linked(S) == \A m \in S, n \in GivenUp : Overlaps(m, n) => n \in S

\* _recordFailure and _clearFailures: of every group of linked edits that were given
\* up on, one has a notice, and the status shows it, until a write sharing a field
\* with one of them has reached the row.
GivenUpIsNoticed ==
    /\ failures # {} => status \in {"failed", "conflict"}
    /\ \A S \in SUBSET GivenUp :
          S # {} /\ Linked(S) => \E m \in S : m \in failures \/ Cleared(m)

\* flushCase = true lets completeCase go on: every edit made before the call has
\* settled or had the notice of its group cleared, but for the ones an earlier
\* flushCase dropped and the ones whose re-read was rejected.
FlushTrueLeavesNothing ==
    \A c \in Case :
        fc[c].stage = "true" =>
            \A n \in 1..fc[c].upto :
                edits[n].case = c =>
                    \/ AccountedFor(n)
                    \/ edits[n].stage \in {"dropped", "threw"}
                    \/ /\ n \in GivenUp
                       /\ \A S \in SUBSET GivenUp :
                             n \in S /\ Linked(S) => \E m \in S : Cleared(m)

\* The same without the exceptions, as the comment on flushCase
\* words it: false if a write for the Case was given up on (completing over it
\* would lose it).
FlushTrueMeansPersisted ==
    \A c \in Case :
        fc[c].stage = "true" =>
            \A n \in 1..fc[c].upto :
                edits[n].case = c => AccountedFor(n) \/ Cleared(n)

\* When a waiter of whenIdle is released, all that is left to write is what a
\* running flushCase holds.
IdleLeavesOnlyFlushCase ==
    [][waiting /\ ~waiting' =>
         \A n \in Edit : \/ edits'[n].stage \in Ended
                         \/ edits'[n].stage = "popped" /\ fc'[edits[n].case].stage = "awaiting"]_vars

----------------------------------------------------------------------------
(* What the status says *)

\* 'saved' is never shown over a standing failure, a pending debounce or a write
\* in flight, except one that flushCase took over.
SavedIsHonest ==
    status = "saved" =>
        /\ failures = {}
        /\ \A n \in Edit : edits[n].stage \in InFlight \cup {"pending"} => edits[n].popped

\* A conflict leaves the banner only when the person edits again or another write
\* loses its connection; a write that merely finishes does not clear it.
ConflictStands ==
    [][status = "conflict" /\ status' # "conflict" =>
         \/ Len(edits') > Len(edits)
         \/ \E n \in Edit : edits[n].stage = "network" /\ edits'[n].stage = "sleep"]_vars

----------------------------------------------------------------------------
(* Progress *)

\* Every write that is debounced or in flight ends: an outage is slept out, and
\* no write meets 412 after 412.
EveryWriteEnds ==
    \A n \in 1..MaxEdits :
        (n \in Edit /\ edits[n].stage \in InFlight \cup {"pending", "popped"})
            ~> (n \in Edit /\ edits[n].stage \in Ended)

\* flushCase returns, whatever fails on the way.
FlushCaseReturns ==
    \A c \in Case : fc[c].stage = "awaiting" ~> fc[c].stage # "awaiting"
=============================================================================
