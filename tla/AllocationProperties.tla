------------------------ MODULE AllocationProperties ------------------------
(***************************************************************************)
(* What allocation promises while requests, Case pages and support         *)
(* overlap: who may be given a Case, how many, in which order, and what    *)
(* "No Cases available" means.                                             *)
(***************************************************************************)
EXTENDS Allocation

RowType == [status: Status, reviewer: Reviewer \cup {Nobody}, held: BOOLEAN, version: Nat]
PageType == [active: BOOLEAN, empty: BOOLEAN, full: BOOLEAN]
Stage == {"idle", "counting", "listing", "next", "reading", "sent", "answered"}
RequestType ==
    [stage: Stage, again: BOOLEAN, read: SUBSET Source, mine: SUBSET Case, left: SUBSET Case,
     unread: BOOLEAN, manager: BOOLEAN, case: Case, etag: Nat, result: {"ok", "stale", "failed"}]
ClaimType == [case: Case, etag: Nat, user: Reviewer]

TypeOK ==
    /\ row \in [Case -> RowType]
    /\ page \in [Page -> PageType]
    /\ req \in [Page -> RequestType]
    /\ late \subseteq ClaimType
    /\ used \in [Counter -> Nat]
    /\ since \in [Page -> SUBSET Case]
    /\ waiting \in [Page -> SUBSET Case]
    /\ missed \in [Page -> SUBSET Case]

\* A Case is in the pot or a Reviewer's, never both.
InPotOrTaken == \A c \in Case :
    row[c].status \in {"inProgress", "done"} <=> row[c].reviewer \in Reviewer

\* Type correctness, with the rule the listing relies on: the status alone says
\* that a Case waits for a Reviewer, and no row "holds a Reviewer while still
\* advertising itself as unclaimed".
TypeInvariant == TypeOK /\ InPotOrTaken

\* A claim -- a first try, the second without a manager, or one that lands after
\* its request has given up -- takes a Case from the pot and from nobody, however
\* old the listing and the re-read it rests on.
TakenFromThePot == [][
    \A c \in Case : (row'[c] # row[c] /\ used'["edits"] = used["edits"]) => Claimable(c)]_vars

\* A claim takes a Reviewer above the capacity only by Cases that came to them
\* after the click: what was theirs throughout the request was counted, in
\* whichever order the lists were read.
CapacityKept == [][
    \A p \in Page : (req[p].stage = "sent" /\ req'[p].result = "ok" /\ req'[p].stage = "answered") =>
        Cardinality(Active(OwnerOf[p])' \ since[p]) =< Capacity]_vars

\* Cases are given out oldest first: while one is being claimed, an older one
\* that has waited ever since the click was tried, and failed.
OldestFirst == \A p \in Page : req[p].stage = "sent" =>
    \A c \in waiting[p] : Age[c] < Age[req[p].case] => c \in missed[p]

\* "No Cases available" is said only if every Case that has waited ever since
\* the click was tried, and failed.
EmptyIsTrue == [][
    \A p \in Page : (page'[p].empty /\ ~page[p].empty) => waiting[p] \subseteq missed[p]]_vars

\* A request ends, so the latch comes off and the button can be pressed again.
RequestEnds == \A p \in Page : req[p].stage # "idle" ~> req[p].stage = "idle"
=============================================================================
