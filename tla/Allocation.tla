------------------------------ MODULE Allocation ------------------------------
(***************************************************************************)
(* "Request next Case": how the dashboards of several Reviewers take Cases *)
(* out of the pot.  A request counts its owner's Cases list by list, reads *)
(* the pot list by list, looks the manager up, and then tries the Cases    *)
(* oldest first: it re-reads one for an ETag and PATCHes it under that.    *)
(* Every answer may be overtaken by other requests, by the Case pages and  *)
(* by support.                                                             *)
(*                                                                         *)
(* A Page is one mount of the dashboard: its latch and its availability    *)
(* are its own, and a request outlives it.                                 *)
(***************************************************************************)
EXTENDS Integers, FiniteSets

CONSTANTS
    Case, Source, SourceOf,  \* a Case lives in one list
    Age,                     \* relatedDate, or created; equal ages are drawn by lot
    Reviewer, Nobody,
    Draws,                   \* the allocation sources of a Reviewer
    Page, OwnerOf,
    Capacity,                \* MAX_IN_PROGRESS_CASES
    FirstReviewers,          \* who may have a Case at first, Nobody for the pot
    FirstDone,               \* the Cases they have completed
    Max                      \* bounds, one per counter

Counter == {"clicks", "edits", "faults"}

ASSUME AllocationAssumption ==
    /\ IsFiniteSet(Case) /\ Case # {}
    /\ SourceOf \in [Case -> Source]
    /\ Age \in [Case -> Nat]
    /\ Nobody \notin Reviewer
    /\ Draws \in [Reviewer -> SUBSET Source]
    /\ OwnerOf \in [Page -> Reviewer]
    /\ Capacity \in Nat
    /\ FirstReviewers \in [Case -> SUBSET (Reviewer \cup {Nobody})]
    /\ Max \in [Counter -> Nat]

VARIABLES
    row,      \* the list items; row[c].version is the ETag of c
    page,     \* what each dashboard shows of the allocation
    req,      \* the request under way on each page
    late,     \* claims their request has given up, which may still land
    used,     \* bounded counters
    since,    \* history: Cases that came to a page's owner since its click
    waiting,  \* history: Cases that have been in the pot ever since the click
    missed    \* history: Cases whose re-read or claim failed since the click

history == <<since, waiting, missed>>
vars == <<row, page, req, late, used, history>>

Status == {"toAllocate", "inProgress", "done", "gone"}
Spend(c) == used[c] < Max[c] /\ used' = [used EXCEPT ![c] = @ + 1]

\* What an allocation count, an allocation listing and claimableEtagFor accept.
Active(u) == {c \in Case : /\ SourceOf[c] \in Draws[u]
                           /\ row[c].status = "inProgress" /\ row[c].reviewer = u
                           /\ ~row[c].held}
Listed(u) == {c \in Case : SourceOf[c] \in Draws[u] /\ row[c].status = "toAllocate"}
Claimable(c) == row[c].status = "toAllocate" /\ row[c].reviewer = Nobody

InList(cs, s) == {c \in cs : SourceOf[c] = s}

\* Mutation: the candidates are tried as the lists returned them.
Unordered(cs) == cs
Oldest(cs) == {c \in cs : \A d \in cs : Age[c] =< Age[d]}

\* A request that has been answered, or not been made.
Idle == [stage |-> "idle", again |-> FALSE, read |-> {}, mine |-> {}, left |-> {},
         unread |-> TRUE, manager |-> FALSE, case |-> CHOOSE c \in Case : TRUE, etag |-> 0,
         result |-> "ok"]
Counting(again) == [Idle EXCEPT !.stage = "counting", !.again = again]
Listing(again) == [Idle EXCEPT !.stage = "listing", !.again = again]
\* Before the next candidate; `unread' as long as every re-read was refused.
Trying(left, manager, unread) ==
    [Idle EXCEPT !.stage = "next", !.left = left, !.manager = manager, !.unread = unread]

Init ==
    /\ \E first \in [Case -> Reviewer \cup {Nobody}] :
          /\ \A c \in Case : first[c] \in FirstReviewers[c]
          /\ row = [c \in Case |->
                      [status |-> IF first[c] = Nobody THEN "toAllocate"
                                  ELSE IF c \in FirstDone THEN "done" ELSE "inProgress",
                       reviewer |-> first[c], held |-> FALSE, version |-> 1]]
    /\ page = [p \in Page |-> [active |-> TRUE, empty |-> FALSE, full |-> FALSE]]
    /\ req = [p \in Page |-> Idle]
    /\ late = {}
    /\ used = [c \in Counter |-> 0]
    /\ since = [p \in Page |-> {}]
    /\ waiting = [p \in Page |-> {}]
    /\ missed = [p \in Page |-> {}]

\* The history a changed row leaves in the requests under way.
Came(p) == IF req[p].stage = "idle" THEN {} ELSE Active(OwnerOf[p])' \ Active(OwnerOf[p])
Track ==
    /\ since' = [p \in Page |-> since[p] \cup Came(p)]
    /\ waiting' = [p \in Page |-> {c \in waiting[p] : Claimable(c)'}]
    /\ UNCHANGED missed

----------------------------------------------------------------------------
(* A request *)

\* The button, shown while the page knows of no reason against it.
Request(p) ==
    /\ page[p].active /\ ~page[p].empty /\ ~page[p].full
    /\ req[p].stage = "idle"
    /\ Spend("clicks")
    /\ req' = [req EXCEPT ![p] = Counting(FALSE)]
    /\ waiting' = [waiting EXCEPT ![p] = {c \in Listed(OwnerOf[p]) : Claimable(c)}]
    /\ UNCHANGED <<row, page, late, since, missed>>

\* The latch comes off.
End(p) ==
    /\ req' = [req EXCEPT ![p] = Idle]
    /\ since' = [since EXCEPT ![p] = {}]
    /\ waiting' = [waiting EXCEPT ![p] = {}]
    /\ missed' = [missed EXCEPT ![p] = {}]

\* publishAllocationAvailability, at the end of a request.
Publish(p, empty, full) ==
    /\ page' = [page EXCEPT ![p] = IF @.active THEN [active |-> TRUE, empty |-> empty, full |-> full]
                                   ELSE @]
    /\ End(p)

\* Mutation: a list that cannot be read counts as empty.
ReadOmitted(p) ==
    /\ req[p].stage = "listing"
    /\ Spend("faults")
    /\ \E s \in Draws[OwnerOf[p]] \ req[p].read : req' = [req EXCEPT ![p].read = @ \cup {s}]
    /\ UNCHANGED <<row, page, late, history>>

\* A refused read ends the request, with an error in the console only.
ReadRefused(p) ==
    /\ req[p].stage \in {"counting", "listing"}
    /\ Spend("faults")
    /\ End(p)
    /\ UNCHANGED <<row, page, late>>

Count(p, s) ==
    /\ req[p].stage = "counting"
    /\ s \in Draws[OwnerOf[p]] \ req[p].read
    /\ req' = [req EXCEPT ![p].read = @ \cup {s}, ![p].mine = @ \cup InList(Active(OwnerOf[p]), s)]
    /\ UNCHANGED <<row, page, late, used, history>>

\* Mutation: one too many.
AboveCapacity(p) == Cardinality(req[p].mine) > Capacity
AtCapacity(p) == Cardinality(req[p].mine) >= Capacity

Counted(p) ==
    /\ req[p].stage = "counting" /\ req[p].read = Draws[OwnerOf[p]]
    /\ \/ AtCapacity(p) /\ Publish(p, FALSE, TRUE)
       \/ /\ ~AtCapacity(p)
          /\ req' = [req EXCEPT ![p] = Listing(@.again)]
          /\ UNCHANGED <<page, history>>
    /\ UNCHANGED <<row, late, used>>

List(p, s) ==
    /\ req[p].stage = "listing"
    /\ s \in Draws[OwnerOf[p]] \ req[p].read
    /\ req' = [req EXCEPT ![p].read = @ \cup {s}, ![p].left = @ \cup InList(Listed(OwnerOf[p]), s)]
    /\ UNCHANGED <<row, page, late, used, history>>

\* The second round, after a claim, only publishes what it finds.
AllListed(p) ==
    /\ req[p].stage = "listing" /\ req[p].read = Draws[OwnerOf[p]]
    /\ \/ /\ req[p].again \/ req[p].left = {}
          /\ Publish(p, req[p].left = {}, FALSE)
       \/ /\ ~req[p].again /\ req[p].left # {}
          /\ \E manager \in BOOLEAN : req' = [req EXCEPT ![p] = Trying(@.left, manager, TRUE)]
          /\ UNCHANGED <<page, history>>
    /\ UNCHANGED <<row, late, used>>

NextCandidate(p) ==
    /\ req[p].stage = "next"
    /\ \E c \in Oldest(req[p].left) :
           req' = [req EXCEPT ![p].stage = "reading", ![p].case = c, ![p].left = @ \ {c}]
    /\ UNCHANGED <<row, page, late, used, history>>

\* Mutation: the re-read only supplies the ETag.
RereadForEtag(p) ==
    /\ req[p].stage = "reading"
    /\ req' = [req EXCEPT ![p].stage = "sent", ![p].etag = row[req[p].case].version, ![p].unread = FALSE]
    /\ UNCHANGED <<row, page, late, used, history>>

\* claimableEtagFor.
Reread(p) ==
    /\ req[p].stage = "reading"
    /\ LET r == req[p] IN
       req' = [req EXCEPT ![p] =
           IF Claimable(r.case)
           THEN [r EXCEPT !.stage = "sent", !.etag = row[r.case].version, !.unread = FALSE]
           ELSE Trying(r.left, r.manager, FALSE)]
    /\ UNCHANGED <<row, page, late, used, history>>

Miss(p) == missed' = [missed EXCEPT ![p] = @ \cup {req[p].case}] /\ UNCHANGED <<since, waiting>>

RereadRefused(p) ==
    /\ req[p].stage = "reading"
    /\ Spend("faults")
    /\ req' = [req EXCEPT ![p] = Trying(@.left, @.manager, @.unread)]
    /\ Miss(p)
    /\ UNCHANGED <<row, page, late>>

\* Mutation: the Reviewer without the status.
NamedFor(c, u) == row' = [row EXCEPT ![c].reviewer = u, ![c].version = @ + 1]

ClaimedBy(c, u) ==
    row' = [row EXCEPT ![c].status = "inProgress", ![c].reviewer = u, ![c].version = @ + 1]

Claims(p) == req[p].stage = "sent" /\ req[p].etag = row[req[p].case].version
ClaimLands(p) ==
    /\ Claims(p)
    /\ ClaimedBy(req[p].case, OwnerOf[p])
    /\ req' = [req EXCEPT ![p].stage = "answered", ![p].result = "ok"]
    /\ Track
    /\ UNCHANGED <<page, late, used>>

ClaimStale(p) ==
    /\ req[p].stage = "sent" /\ ~Claims(p)
    /\ req' = [req EXCEPT ![p].stage = "answered", ![p].result = "stale"]
    /\ UNCHANGED <<row, page, late, used, history>>

\* A person the directory does not know, a refusal, or no answer in time: the
\* page cannot tell whether the claim has landed, and it may yet.
ClaimFails(p) ==
    /\ req[p].stage = "sent"
    /\ Spend("faults")
    /\ req' = [req EXCEPT ![p].stage = "answered", ![p].result = "failed"]
    /\ late' = late \cup {[case |-> req[p].case, etag |-> req[p].etag, user |-> OwnerOf[p]]}
    /\ UNCHANGED <<row, page, history>>

LateClaim(w) ==
    /\ w \in late /\ w.etag = row[w.case].version
    /\ ClaimedBy(w.case, w.user)
    /\ Track
    /\ late' = late \ {w}
    /\ UNCHANGED <<page, req, used>>

\* Mutation: a 412 is tried again under the same ETag.
AnsweredResending(p) ==
    /\ req[p].stage = "answered"
    /\ IF req[p].result = "ok" THEN End(p)
       ELSE req' = [req EXCEPT ![p].stage = "sent"] /\ UNCHANGED history
    /\ UNCHANGED <<row, page, late, used>>

\* A claim that fails with a manager is tried once more without, under the
\* same ETag; any other goes on to the next candidate.
Answered(p) ==
    /\ req[p].stage = "answered"
    /\ LET r == req[p] IN
       \/ /\ r.result = "ok"
          /\ page[p].active
          /\ req' = [req EXCEPT ![p] = Counting(TRUE)]
          /\ UNCHANGED history
       \/ r.result = "ok" /\ ~page[p].active /\ End(p)
       \/ /\ r.result = "failed" /\ r.manager
          /\ req' = [req EXCEPT ![p].stage = "sent", ![p].manager = FALSE]
          /\ UNCHANGED history
       \/ /\ r.result = "stale" \/ (r.result = "failed" /\ ~r.manager)
          /\ req' = [req EXCEPT ![p] = Trying(@.left, @.manager, FALSE)]
          /\ Miss(p)
    /\ UNCHANGED <<row, page, late, used>>

\* No candidate was claimed: an error if not one could be re-read, or else "No
\* Cases available".
Exhausted(p) ==
    /\ req[p].stage = "next" /\ req[p].left = {}
    /\ \/ req[p].unread /\ End(p) /\ UNCHANGED page
       \/ ~req[p].unread /\ Publish(p, TRUE, FALSE)
    /\ UNCHANGED <<row, late, used>>

Leave(p) ==
    /\ page[p].active
    /\ page' = [page EXCEPT ![p].active = FALSE]
    /\ UNCHANGED <<row, req, late, used, history>>

----------------------------------------------------------------------------
(* The rest of the application, each a write that makes a new version *)

Edit(c, new) ==
    /\ Spend("edits")
    /\ row' = [row EXCEPT ![c] = [new EXCEPT !.version = row[c].version + 1]]
    /\ Track
    /\ UNCHANGED <<page, req, late>>

Hold(c) == row[c].status = "inProgress" /\ Edit(c, [row[c] EXCEPT !.held = ~@])
Complete(c) ==
    row[c].status = "inProgress" /\ Edit(c, [row[c] EXCEPT !.status = "done", !.held = FALSE])
Remove(c) == row[c].status = "toAllocate" /\ Edit(c, [row[c] EXCEPT !.status = "gone"])
Unassign(c) ==
    /\ row[c].status = "inProgress"
    /\ Edit(c, [row[c] EXCEPT !.status = "toAllocate", !.reviewer = Nobody, !.held = FALSE])
Reopen(c) == row[c].status = "done" /\ Edit(c, [row[c] EXCEPT !.status = "inProgress"])
Reassign(c, u) ==
    /\ row[c].status \in {"inProgress", "done"} /\ u # row[c].reviewer
    /\ Edit(c, [row[c] EXCEPT !.reviewer = u])

Others(c) ==
    \/ Hold(c) \/ Complete(c) \/ Remove(c) \/ Unassign(c) \/ Reopen(c)
    \/ \E u \in Reviewer : Reassign(c, u)

Reads(p) ==
    \/ \E s \in Source : Count(p, s) \/ List(p, s)
    \/ Counted(p) \/ AllListed(p) \/ ReadRefused(p)
Tries(p) ==
    \/ NextCandidate(p) \/ Exhausted(p) \/ Reread(p) \/ RereadRefused(p)
    \/ ClaimLands(p) \/ ClaimStale(p) \/ ClaimFails(p) \/ Answered(p)

Next ==
    \/ \E p \in Page : Request(p) \/ Leave(p) \/ Reads(p) \/ Tries(p)
    \/ \E w \in late : LateClaim(w)
    \/ \E c \in Case : Others(c)

Spec == Init /\ [][Next]_vars
\* Every read and write of a request is answered, or fails.
FairSpec == Spec /\ \A p \in Page : WF_vars(Reads(p) \/ Tries(p))
=============================================================================
