------------------------- MODULE AllocationProofs -------------------------
(***************************************************************************)
(* Proofs about Allocation, for any Cases, lists, Reviewers, pages,        *)
(* capacity and bounds: type correctness, and that claims come from the    *)
(* pot, oldest first and within the capacity, and that "No Cases           *)
(* available" is true.                                                     *)
(*                                                                         *)
(* The argument: an ETag names a version, and every write makes a new one, *)
(* so a claim that lands finds the row its re-read found; a Case that was  *)
(* its owner's, or in the pot, throughout a request was in every list when *)
(* that list was read.                                                     *)
(***************************************************************************)
EXTENDS AllocationProperties, FiniteSetTheorems, TLAPS

USE AllocationAssumption

\* A write under ETag e would find the row its re-read accepted.
Guarded(c, e) == e =< row[c].version /\ (e = row[c].version => Claimable(c))

\* The owner's Cases that were theirs at the click already.
Theirs(p) == Active(OwnerOf[p]) \ since[p]
Tried == {"reading", "sent", "answered"}

\* They have been counted, and were fewer than the capacity.
CountInv(p) ==
    /\ req[p].stage = "counting" =>
          \A c \in Theirs(p) : SourceOf[c] \in req[p].read => c \in req[p].mine
    /\ req[p].stage \in {"listing", "next"} \cup Tried => Cardinality(Theirs(p)) < Capacity

\* A Case that still waits is left to try, being tried, or was missed.
WaitInv(p) ==
    /\ waiting[p] \subseteq Listed(OwnerOf[p])
    /\ \A c \in waiting[p] : Claimable(c)
    /\ req[p].stage = "listing" =>
          \A c \in waiting[p] : SourceOf[c] \in req[p].read => c \in req[p].left
    /\ req[p].stage = "next" => waiting[p] \subseteq missed[p] \cup req[p].left
    /\ req[p].stage \in Tried =>
          /\ waiting[p] \subseteq missed[p] \cup req[p].left \cup {req[p].case}
          /\ \A d \in req[p].left : Age[req[p].case] =< Age[d]

SentInv(p) == req[p].stage \in {"sent", "answered"} => Guarded(req[p].case, req[p].etag)

PageInv(p) == CountInv(p) /\ WaitInv(p) /\ SentInv(p)
LateInv == \A w \in late : Guarded(w.case, w.etag)
IInv == TypeInvariant /\ LateInv /\ \A p \in Page : PageInv(p)

----------------------------------------------------------------------------
(* Types and frames *)

LEMMA IdleType == Idle \in RequestType
  BY DEF Idle, RequestType, Stage

LEMMA RecordTypes ==
    ASSUME NEW b \in BOOLEAN, NEW d \in BOOLEAN, NEW cs \in SUBSET Case
    PROVE  /\ Counting(b) \in RequestType
           /\ Listing(b) \in RequestType
           /\ Trying(cs, b, d) \in RequestType
  BY DEF Idle, Counting, Listing, Trying, RequestType, Stage

\* What a step that leaves the rows alone leaves of the predicates on rows.
LEMMA SameRows ==
    ASSUME row' = row
    PROVE  /\ \A u : Active(u)' = Active(u) /\ Listed(u)' = Listed(u)
           /\ \A c : Claimable(c)' <=> Claimable(c)
           /\ \A c, e : Guarded(c, e)' <=> Guarded(c, e)
  BY DEF Active, Listed, Claimable, Guarded

\* A request that a step does not touch, while the rows stay.
LEMMA OtherPage ==
    ASSUME row' = row, NEW q \in Page, req'[q] = req[q], since'[q] = since[q],
           waiting'[q] = waiting[q], missed'[q] = missed[q], PageInv(q)
    PROVE  PageInv(q)'
  BY SameRows DEF PageInv, CountInv, WaitInv, SentInv, Theirs

\* An idle page promises only that it waits for nothing that is not there.
LEMMA IdlePage ==
    ASSUME NEW p \in Page, req'[p] = Idle, waiting'[p] = {}
    PROVE  PageInv(p)'
  BY DEF PageInv, CountInv, WaitInv, SentInv, Idle, Tried

\* The set a Reviewer's count is taken over is finite.
LEMMA FiniteTheirs ==
    ASSUME NEW p \in Page
    PROVE  IsFiniteSet(Theirs(p)) /\ Cardinality(Theirs(p)) \in Nat
  <1>1. Theirs(p) \subseteq Case
    BY DEF Theirs, Active
  <1> QED BY <1>1, FS_Subset, FS_CardinalityType

----------------------------------------------------------------------------
(* Steps that write a row *)

\* One row rewritten under a new version.
Written(c, new) ==
    /\ c \in Case /\ new \in RowType /\ new.version = row[c].version + 1
    /\ row' = [row EXCEPT ![c] = new]

LEMMA GuardKept ==
    ASSUME TypeOK, NEW c \in Case, NEW new, Written(c, new), NEW d \in Case, NEW e \in Nat,
           Guarded(d, e)
    PROVE  Guarded(d, e)'
  <1>1. row[c].version \in Nat /\ row[d].version \in Nat
    BY DEF TypeOK, RowType
  <1>2. CASE d = c
    BY <1>1, <1>2 DEF Guarded, Written, TypeOK
  <1>3. CASE d # c
    <2>1. row'[d] = row[d]
      BY <1>3 DEF Written, TypeOK
    <2> QED BY <2>1 DEF Guarded, Claimable
  <1> QED BY <1>2, <1>3

\* What was theirs throughout stays counted; what waits still does.
LEMMA TrackKept ==
    ASSUME TypeOK, Track, NEW p \in Page, req[p].stage # "idle"
    PROVE  /\ Theirs(p)' \subseteq Theirs(p)
           /\ waiting'[p] \subseteq waiting[p] /\ missed'[p] = missed[p]
           /\ \A c \in waiting'[p] : Claimable(c)'
  BY DEF Track, Came, Theirs, TypeOK

LEMMA TrackTypes ==
    ASSUME TypeOK, Track
    PROVE  /\ since' \in [Page -> SUBSET Case]
           /\ waiting' \in [Page -> SUBSET Case]
           /\ missed' \in [Page -> SUBSET Case]
  BY DEF Track, Came, TypeOK, Active

\* A request keeps what it knows when a row is written.
LEMMA RowWritten ==
    ASSUME TypeOK, Track, NEW c \in Case, NEW new, Written(c, new),
           NEW p \in Page, PageInv(p), req'[p] = req[p]
    PROVE  PageInv(p)'
  <1>1. req[p] \in RequestType
    BY DEF TypeOK
  <1>2. SentInv(p)'
    BY <1>1, GuardKept DEF SentInv, PageInv, RequestType
  <1>3. waiting'[p] \subseteq waiting[p] /\ missed'[p] = missed[p]
    BY DEF Track, TypeOK
  <1>4. \A d \in waiting'[p] : Claimable(d)'
    BY DEF Track, TypeOK
  <1>5. waiting'[p] \subseteq Listed(OwnerOf[p])'
    BY <1>3, <1>4 DEF PageInv, WaitInv, Listed, Claimable
  <1>6. WaitInv(p)'
    BY <1>3, <1>4, <1>5 DEF PageInv, WaitInv
  <1>7. CountInv(p)'
    <2>1. CASE req[p].stage = "idle"
      BY <2>1 DEF CountInv, Tried
    <2>2. CASE req[p].stage # "idle"
      <3>1. Theirs(p)' \subseteq Theirs(p)
        BY <2>2, TrackKept
      <3>2. Cardinality(Theirs(p)') =< Cardinality(Theirs(p)) /\ Cardinality(Theirs(p)') \in Nat
        BY <3>1, FiniteTheirs, FS_Subset, FS_CardinalityType
      <3>3. Capacity \in Nat /\ Cardinality(Theirs(p)) \in Nat
        BY FiniteTheirs
      <3>4. CountInv(p)
        BY DEF PageInv
      <3> HIDE DEF Theirs
      <3>5. req[p].stage = "counting" =>
               \A d \in Theirs(p)' : SourceOf[d] \in req[p].read => d \in req[p].mine
        BY <3>1, <3>4 DEF CountInv
      <3>6. req[p].stage \in {"listing", "next"} \cup Tried => Cardinality(Theirs(p)') < Capacity
        BY <3>2, <3>3, <3>4 DEF CountInv
      <3> QED BY <3>5, <3>6 DEF CountInv
    <2> QED BY <2>1, <2>2
  <1> QED BY <1>2, <1>6, <1>7 DEF PageInv

\* The invariant after a row is written by anything but a request.
LEMMA EditStep ==
    ASSUME IInv, Track, NEW c \in Case, NEW new, Written(c, new),
           new.status \in {"inProgress", "done"} <=> new.reviewer \in Reviewer,
           page' = page, req' = req, late' \subseteq late, used' \in [Counter -> Nat]
    PROVE  IInv'
  <1>1. TypeInvariant'
    <2>1. row' \in [Case -> RowType]
      BY DEF IInv, TypeInvariant, TypeOK, Written
    <2>2. InPotOrTaken'
      BY DEF IInv, TypeInvariant, TypeOK, InPotOrTaken, Written
    <2>3. TypeOK
      BY DEF IInv, TypeInvariant
    <2> QED BY <2>1, <2>2, <2>3, TrackTypes DEF TypeInvariant, TypeOK
  <1>2. LateInv'
    BY GuardKept DEF IInv, LateInv, TypeInvariant, TypeOK, ClaimType
  <1>3. ASSUME NEW p \in Page PROVE PageInv(p)'
    BY RowWritten DEF IInv, TypeInvariant
  <1> QED BY <1>1, <1>2, <1>3 DEF IInv

\* The counters after one is spent.
LEMMA SpendType ==
    ASSUME TypeOK, NEW c \in Counter, Spend(c)
    PROVE  used' \in [Counter -> Nat]
  BY DEF TypeOK, Spend

LEMMA OthersStep ==
    ASSUME IInv, NEW c \in Case, Others(c)
    PROVE  IInv'
  <1>1. /\ TypeOK /\ row[c] \in RowType /\ row[c].version \in Nat
        /\ row[c].status \in {"inProgress", "done"} <=> row[c].reviewer \in Reviewer
    BY DEF IInv, TypeInvariant, TypeOK, InPotOrTaken, RowType
  <1>2. ASSUME NEW new \in RowType, Edit(c, new),
               new.status \in {"inProgress", "done"} <=> new.reviewer \in Reviewer
        PROVE  IInv'
    <2> DEFINE next == [new EXCEPT !.version = row[c].version + 1]
    <2>1. /\ next \in RowType /\ next.version = row[c].version + 1
          /\ next.status = new.status /\ next.reviewer = new.reviewer
      BY <1>1 DEF RowType
    <2>2. row' = [row EXCEPT ![c] = next] /\ Track /\ page' = page /\ req' = req /\ late' = late
      BY <1>2 DEF Edit
    <2>3. Written(c, next)
      BY <2>1, <2>2 DEF Written
    <2>4. used' \in [Counter -> Nat]
      BY <1>1, <1>2, SpendType DEF Edit, Counter
    <2> HIDE DEF next
    <2> QED BY <1>2, <2>1, <2>2, <2>3, <2>4, EditStep
  <1>3. CASE Hold(c)
    BY <1>1, <1>2, <1>3 DEF Hold, RowType
  <1>4. CASE Complete(c)
    BY <1>1, <1>2, <1>4 DEF Complete, RowType, Status
  <1>5. CASE Remove(c)
    BY <1>1, <1>2, <1>5 DEF Remove, RowType, Status
  <1>6. CASE Unassign(c)
    BY <1>1, <1>2, <1>6 DEF Unassign, RowType, Status
  <1>7. CASE Reopen(c)
    BY <1>1, <1>2, <1>7 DEF Reopen, RowType, Status
  <1>8. ASSUME NEW u \in Reviewer, Reassign(c, u) PROVE IInv'
    BY <1>1, <1>2, <1>8 DEF Reassign, RowType, Status
  <1> QED BY <1>3, <1>4, <1>5, <1>6, <1>7, <1>8 DEF Others

\* What a claim makes of a row.
LEMMA ClaimWrites ==
    ASSUME IInv, NEW c \in Case, NEW u \in Reviewer, ClaimedBy(c, u)
    PROVE  \E new \in RowType :
              /\ Written(c, new)
              /\ new.status = "inProgress" /\ new.reviewer = u
  <1> DEFINE next == [status |-> "inProgress", reviewer |-> u, held |-> row[c].held,
                      version |-> row[c].version + 1]
  <1>1. row \in [Case -> RowType] /\ row[c] \in RowType
    BY DEF IInv, TypeInvariant, TypeOK
  <1>2. /\ next \in RowType /\ next.version = row[c].version + 1
        /\ next.status = "inProgress" /\ next.reviewer = u
    BY <1>1 DEF RowType, Status
  <1>3. row' = [row EXCEPT ![c] = next]
    BY <1>1 DEF ClaimedBy, RowType
  <1> HIDE DEF next
  <1> QED BY <1>2, <1>3 DEF Written

LEMMA LateStep ==
    ASSUME IInv, NEW w \in late, LateClaim(w)
    PROVE  IInv'
  <1>1. w.case \in Case /\ w.user \in Reviewer
    BY DEF IInv, TypeInvariant, TypeOK, ClaimType
  <1>2. PICK new \in RowType : /\ Written(w.case, new)
                               /\ new.status = "inProgress" /\ new.reviewer = w.user
    BY <1>1, ClaimWrites DEF LateClaim
  <1>3. used' \in [Counter -> Nat]
    BY DEF IInv, TypeInvariant, TypeOK, LateClaim
  <1> QED BY <1>1, <1>2, <1>3, EditStep DEF LateClaim

----------------------------------------------------------------------------
(* Steps of a request *)

\* The steps of page p that write no row.
OnlyPage(p) ==
    /\ row' = row
    /\ page' \in [Page -> PageType] /\ used' \in [Counter -> Nat] /\ late' \subseteq ClaimType
    /\ \E r \in RequestType : req' = [req EXCEPT ![p] = r]
    /\ \E cs \in SUBSET Case : since' = [since EXCEPT ![p] = cs]
    /\ \E cs \in SUBSET Case : waiting' = [waiting EXCEPT ![p] = cs]
    /\ \E cs \in SUBSET Case : missed' = [missed EXCEPT ![p] = cs]

LEMMA PageStep ==
    ASSUME IInv, NEW p \in Page, OnlyPage(p), PageInv(p)', LateInv'
    PROVE  IInv'
  <1>1. TypeInvariant'
    BY DEF IInv, TypeInvariant, TypeOK, InPotOrTaken, OnlyPage
  <1>2. ASSUME NEW q \in Page, q # p PROVE PageInv(q)'
    <2>1. req'[q] = req[q] /\ since'[q] = since[q] /\ waiting'[q] = waiting[q] /\ missed'[q] = missed[q]
      BY <1>2 DEF IInv, TypeInvariant, TypeOK, OnlyPage
    <2> QED BY <2>1, OtherPage DEF IInv, OnlyPage
  <1> QED BY <1>1, <1>2 DEF IInv

\* The same for a step that keeps the late claims, with the facts it starts from.
LEMMA LateSame ==
    ASSUME IInv, row' = row, late' = late
    PROVE  LateInv' /\ late' \subseteq ClaimType
  BY SameRows DEF IInv, LateInv, TypeInvariant, TypeOK

LEMMA Facts ==
    ASSUME IInv, NEW p \in Page
    PROVE  /\ TypeOK /\ PageInv(p) /\ OwnerOf[p] \in Reviewer
           /\ req[p] \in RequestType /\ page[p] \in PageType
           /\ since[p] \in SUBSET Case /\ waiting[p] \in SUBSET Case /\ missed[p] \in SUBSET Case
           /\ req \in [Page -> RequestType] /\ page \in [Page -> PageType]
           /\ used \in [Counter -> Nat] /\ row \in [Case -> RowType]
  BY DEF IInv, TypeInvariant, TypeOK

\* History that a step keeps.
LEMMA HistoryKept ==
    ASSUME TypeOK, UNCHANGED history, NEW p \in Page
    PROVE  /\ \E cs \in SUBSET Case : since' = [since EXCEPT ![p] = cs]
           /\ \E cs \in SUBSET Case : waiting' = [waiting EXCEPT ![p] = cs]
           /\ \E cs \in SUBSET Case : missed' = [missed EXCEPT ![p] = cs]
  <1>1. /\ since' = [since EXCEPT ![p] = since[p]] /\ since[p] \in SUBSET Case
        /\ waiting' = [waiting EXCEPT ![p] = waiting[p]] /\ waiting[p] \in SUBSET Case
        /\ missed' = [missed EXCEPT ![p] = missed[p]] /\ missed[p] \in SUBSET Case
    BY DEF TypeOK, history
  <1> QED BY <1>1

\* Any way a request ends.
LEMMA EndStep ==
    ASSUME IInv, NEW p \in Page, End(p), row' = row, late' = late,
           page' \in [Page -> PageType], used' \in [Counter -> Nat]
    PROVE  IInv'
  <1>1. req'[p] = Idle /\ waiting'[p] = {}
    BY Facts DEF End, TypeOK
  <1>2. OnlyPage(p)
    BY IdleType, LateSame DEF End, OnlyPage
  <1> QED BY <1>1, <1>2, IdlePage, LateSame, PageStep

LEMMA PublishStep ==
    ASSUME IInv, NEW p \in Page, NEW empty \in BOOLEAN, NEW full \in BOOLEAN,
           Publish(p, empty, full), row' = row, late' = late, used' = used
    PROVE  IInv'
  <1>1. page' \in [Page -> PageType]
    BY Facts DEF Publish, PageType
  <1> QED BY <1>1, EndStep, Facts DEF Publish

\* A step that gives page p a new record and keeps its history.
LEMMA RecordStep ==
    ASSUME IInv, NEW p \in Page, NEW r \in RequestType, req' = [req EXCEPT ![p] = r],
           UNCHANGED <<row, page, late, history>>, used' \in [Counter -> Nat], PageInv(p)'
    PROVE  IInv'
  <1>1. OnlyPage(p)
    BY Facts, HistoryKept, LateSame DEF OnlyPage
  <1> QED BY <1>1, LateSame, PageStep

LEMMA LeaveStep ==
    ASSUME IInv, NEW p \in Page, Leave(p)
    PROVE  IInv'
  <1>1. page' \in [Page -> PageType]
    BY Facts DEF Leave, PageType
  <1>2. UNCHANGED <<row, req, late, used, history>>
    BY DEF Leave
  <1>3. TypeInvariant'
    BY <1>1, <1>2 DEF IInv, TypeInvariant, TypeOK, InPotOrTaken, history
  <1>4. ASSUME NEW q \in Page PROVE PageInv(q)'
    BY <1>2, OtherPage DEF IInv, history
  <1> QED BY <1>2, <1>3, <1>4, LateSame DEF IInv

LEMMA RequestStep ==
    ASSUME IInv, NEW p \in Page, Request(p)
    PROVE  IInv'
  <1> DEFINE pot == {c \in Listed(OwnerOf[p]) : Claimable(c)}
  <1>1. /\ UNCHANGED <<row, page, late, since, missed>>
        /\ req' = [req EXCEPT ![p] = Counting(FALSE)] /\ waiting' = [waiting EXCEPT ![p] = pot]
    BY DEF Request
  <1>2. Counting(FALSE) \in RequestType /\ pot \in SUBSET Case
    BY RecordTypes DEF Listed
  <1>3. used' \in [Counter -> Nat]
    BY Facts, SpendType DEF Request, Counter
  <1>4. OnlyPage(p)
    <2>1. since' = [since EXCEPT ![p] = since[p]] /\ missed' = [missed EXCEPT ![p] = missed[p]]
      BY <1>1 DEF IInv, TypeInvariant, TypeOK
    <2> HIDE DEF pot
    <2> QED BY <1>1, <1>2, <1>3, <2>1, Facts, LateSame DEF OnlyPage
  <1>5. PageInv(p)'
    <2>1. /\ req'[p].stage = "counting" /\ req'[p].read = {} /\ waiting'[p] = pot
      BY <1>1, Facts DEF TypeOK, Counting, Idle
    <2>2. CountInv(p)' /\ SentInv(p)'
      BY <2>1 DEF CountInv, SentInv, Tried
    <2>3. WaitInv(p)'
      BY <1>1, <2>1, SameRows DEF WaitInv, Tried
    <2> QED BY <2>2, <2>3 DEF PageInv
  <1> QED BY <1>1, <1>4, <1>5, LateSame, PageStep

LEMMA ReadsStep ==
    ASSUME IInv, NEW p \in Page, Reads(p)
    PROVE  IInv'
  <1> DEFINE r == req[p]
  <1>1. ASSUME NEW s \in Source, Count(p, s) PROVE IInv'
    <2> DEFINE new == [r EXCEPT !.read = @ \cup {s}, !.mine = @ \cup InList(Active(OwnerOf[p]), s)]
    <2>1. /\ new \in RequestType /\ new.stage = "counting"
          /\ new.read = r.read \cup {s} /\ new.mine = r.mine \cup InList(Active(OwnerOf[p]), s)
      <3>1. InList(Active(OwnerOf[p]), s) \subseteq Case
        BY DEF InList, Active
      <3>2. r.stage = "counting" /\ r \in RequestType
        BY <1>1, Facts DEF Count
      <3> QED BY <3>1, <3>2 DEF RequestType
    <2>2. req' = [req EXCEPT ![p] = new] /\ UNCHANGED <<row, page, late, used, history>>
      BY <1>1, Facts DEF Count, RequestType
    <2>3. req'[p] = new
      BY <2>2, Facts
    <2> HIDE DEF new
    <2>4. CountInv(p)'
      <3>1. Theirs(p)' = Theirs(p) /\ Theirs(p) \subseteq Active(OwnerOf[p])
        BY <2>2, SameRows DEF Theirs, history
      <3>2. r.stage = "counting" /\ CountInv(p)
        BY <1>1, Facts DEF Count, PageInv
      <3>3. ASSUME NEW c \in Theirs(p), SourceOf[c] \in new.read PROVE c \in new.mine
        BY <2>1, <3>1, <3>2, <3>3 DEF CountInv, InList, Active
      <3> QED BY <2>1, <2>3, <3>1, <3>3 DEF CountInv, Tried
    <2>5. WaitInv(p)' /\ SentInv(p)'
      BY <2>1, <2>2, <2>3, Facts, SameRows DEF WaitInv, SentInv, PageInv, history, Tried
    <2> QED BY <2>1, <2>2, <2>4, <2>5, Facts, RecordStep DEF PageInv
  <1>2. ASSUME NEW s \in Source, List(p, s) PROVE IInv'
    <2> DEFINE new == [r EXCEPT !.read = @ \cup {s}, !.left = @ \cup InList(Listed(OwnerOf[p]), s)]
    <2>1. /\ new \in RequestType /\ new.stage = "listing"
          /\ new.read = r.read \cup {s} /\ new.left = r.left \cup InList(Listed(OwnerOf[p]), s)
      <3>1. InList(Listed(OwnerOf[p]), s) \subseteq Case
        BY DEF InList, Listed
      <3>2. r.stage = "listing" /\ r \in RequestType
        BY <1>2, Facts DEF List
      <3> QED BY <3>1, <3>2 DEF RequestType
    <2>2. req' = [req EXCEPT ![p] = new] /\ UNCHANGED <<row, page, late, used, history>>
      BY <1>2, Facts DEF List, RequestType
    <2>3. req'[p] = new
      BY <2>2, Facts
    <2>4. CountInv(p)' /\ SentInv(p)'
      BY <1>2, <2>1, <2>2, <2>3, Facts, SameRows
         DEF List, CountInv, SentInv, PageInv, Theirs, history, Tried
    <2> HIDE DEF new
    <2>5. WaitInv(p)'
      <3>1. waiting'[p] = waiting[p] /\ r.stage = "listing" /\ WaitInv(p)
        BY <1>2, <2>2, Facts DEF List, PageInv, history
      <3>2. ASSUME NEW c \in waiting[p], SourceOf[c] \in new.read PROVE c \in new.left
        BY <2>1, <3>1, <3>2 DEF WaitInv, InList, Listed
      <3> QED BY <2>1, <2>2, <2>3, <3>1, <3>2, SameRows DEF WaitInv, Tried
    <2> QED BY <2>1, <2>2, <2>4, <2>5, Facts, RecordStep DEF PageInv
  <1>3. CASE Counted(p)
    <2>1. CASE AtCapacity(p) /\ Publish(p, FALSE, TRUE)
      BY <1>3, <2>1, PublishStep DEF Counted
    <2>2. CASE ~AtCapacity(p) /\ req' = [req EXCEPT ![p] = Listing(r.again)] /\ UNCHANGED <<page, history>>
      <3>1. Listing(r.again) \in RequestType
        BY Facts, RecordTypes DEF RequestType
      <3>2. req'[p] = Listing(r.again)
        BY <2>2, Facts
      <3>3. req'[p].stage = "listing" /\ req'[p].read = {}
        BY <3>2 DEF Listing, Idle
      <3>4. row' = row /\ late' = late /\ used' = used
        BY <1>3 DEF Counted
      <3>5. Theirs(p)' = Theirs(p)
        BY <2>2, <3>4, SameRows DEF Theirs, history
      <3>6. Theirs(p) \subseteq r.mine
        <4>1. \A c \in Theirs(p) : SourceOf[c] \in Draws[OwnerOf[p]]
          BY DEF Theirs, Active
        <4>2. r.stage = "counting" /\ r.read = Draws[OwnerOf[p]] /\ CountInv(p)
          BY <1>3, Facts DEF Counted, PageInv
        <4> QED BY <4>1, <4>2 DEF CountInv
      <3>7. Cardinality(Theirs(p)) < Capacity
        <4>1. IsFiniteSet(r.mine) /\ Cardinality(r.mine) \in Nat
          BY Facts, FS_Subset, FS_CardinalityType DEF RequestType
        <4>2. Cardinality(Theirs(p)) =< Cardinality(r.mine)
          BY <3>6, <4>1, FS_Subset
        <4>3. Cardinality(r.mine) < Capacity
          BY <2>2, <4>1 DEF AtCapacity
        <4> QED BY <4>1, <4>2, <4>3, FiniteTheirs
      <3>8. CountInv(p)'
        BY <3>3, <3>5, <3>7 DEF CountInv
      <3>9. WaitInv(p)' /\ SentInv(p)'
        BY <2>2, <3>3, <3>4, Facts, SameRows DEF WaitInv, SentInv, PageInv, history, Tried
      <3> QED BY <2>2, <3>1, <3>4, <3>8, <3>9, Facts, RecordStep DEF PageInv
    <2> QED BY <1>3, <2>1, <2>2 DEF Counted
  <1>4. CASE AllListed(p)
    <2>1. CASE Publish(p, r.left = {}, FALSE)
      BY <1>4, <2>1, PublishStep DEF AllListed
    <2>2. ASSUME NEW manager \in BOOLEAN, req' = [req EXCEPT ![p] = Trying(r.left, manager, TRUE)],
                 UNCHANGED <<page, history>>
          PROVE  IInv'
      <3>1. Trying(r.left, manager, TRUE) \in RequestType
        BY Facts, RecordTypes DEF RequestType
      <3>2. req'[p] = Trying(r.left, manager, TRUE)
        BY <2>2, Facts
      <3>3. req'[p].stage = "next" /\ req'[p].left = r.left
        BY <3>2 DEF Trying, Idle
      <3>4. row' = row /\ late' = late /\ used' = used /\ r.stage = "listing"
            /\ r.read = Draws[OwnerOf[p]]
        BY <1>4 DEF AllListed
      <3>5. CountInv(p)' /\ SentInv(p)'
        BY <2>2, <3>3, <3>4, Facts, SameRows DEF CountInv, SentInv, PageInv, Theirs, history, Tried
      <3>6. waiting[p] \subseteq r.left
        BY <3>4, Facts DEF PageInv, WaitInv, Listed
      <3>7. /\ waiting'[p] = waiting[p] /\ missed'[p] = missed[p]
            /\ waiting[p] \subseteq Listed(OwnerOf[p]) /\ \A c \in waiting[p] : Claimable(c)
        BY <2>2, Facts DEF history, PageInv, WaitInv
      <3>8. WaitInv(p)'
        BY <3>3, <3>4, <3>6, <3>7, SameRows DEF WaitInv, Tried
      <3> QED BY <2>2, <3>1, <3>4, <3>5, <3>8, Facts, RecordStep DEF PageInv
    <2> QED BY <1>4, <2>1, <2>2 DEF AllListed
  <1>5. CASE ReadRefused(p)
    <2>1. used' \in [Counter -> Nat]
      BY <1>5, Facts, SpendType DEF ReadRefused, Counter
    <2> QED BY <1>5, <2>1, EndStep, Facts DEF ReadRefused
  <1> QED BY <1>1, <1>2, <1>3, <1>4, <1>5 DEF Reads

LEMMA CandidateStep ==
    ASSUME IInv, NEW p \in Page, NextCandidate(p)
    PROVE  IInv'
  <1> DEFINE r == req[p]
  <1>1. PICK c \in Oldest(r.left) :
           req' = [req EXCEPT ![p].stage = "reading", ![p].case = c, ![p].left = @ \ {c}]
    BY DEF NextCandidate
  <1> DEFINE new == [r EXCEPT !.stage = "reading", !.case = c, !.left = @ \ {c}]
  <1>2. /\ r.stage = "next" /\ UNCHANGED <<row, page, late, used, history>>
        /\ c \in r.left /\ \A d \in r.left : Age[c] =< Age[d]
    <2>1. r.stage = "next" /\ UNCHANGED <<row, page, late, used, history>>
      BY DEF NextCandidate
    <2> HIDE DEF new
    <2>2. c \in r.left /\ \A d \in r.left : Age[c] =< Age[d]
      BY <1>1 DEF Oldest
    <2> QED BY <2>1, <2>2
  <1>3. new \in RequestType /\ new.stage = "reading" /\ new.case = c /\ new.left = r.left \ {c}
    <2>1. r \in RequestType
      BY Facts
    <2>2. c \in Case /\ r.left \ {c} \in SUBSET Case
      BY <1>2, <2>1 DEF RequestType
    <2> QED BY <2>1, <2>2 DEF RequestType, Stage
  <1>4. req' = [req EXCEPT ![p] = new] /\ req'[p] = new
    BY <1>1, Facts DEF RequestType
  <1> HIDE DEF new
  <1>5. CountInv(p)' /\ SentInv(p)'
    BY <1>2, <1>3, <1>4, Facts, SameRows DEF CountInv, SentInv, PageInv, Theirs, history, Tried
  <1>6. WaitInv(p)'
    BY <1>2, <1>3, <1>4, Facts, SameRows DEF WaitInv, PageInv, history, Tried
  <1> QED BY <1>2, <1>3, <1>4, <1>5, <1>6, Facts, RecordStep DEF PageInv

\* On to the next candidate: the one just tried no longer waits, or was missed.
LEMMA TryingStep ==
    ASSUME IInv, NEW p \in Page, req[p].stage \in Tried,
           NEW manager \in BOOLEAN, NEW unread \in BOOLEAN,
           req' = [req EXCEPT ![p] = Trying(req[p].left, manager, unread)],
           UNCHANGED <<row, page, late, since, waiting>>, used' \in [Counter -> Nat],
           \/ missed' = missed /\ req[p].case \notin waiting[p]
           \/ missed' = [missed EXCEPT ![p] = @ \cup {req[p].case}]
    PROVE  IInv'
  <1> DEFINE r == req[p]
  <1> DEFINE new == Trying(r.left, manager, unread)
  <1>1. new \in RequestType /\ req' = [req EXCEPT ![p] = new]
    BY ZenonT(60), Facts, RecordTypes DEF RequestType
  <1>2. new.stage = "next" /\ new.left = r.left
    BY DEF Trying, Idle
  <1> HIDE DEF new
  <1>3. req'[p] = new
    BY <1>1, Facts
  <1>4. CountInv(p)' /\ SentInv(p)'
    BY <1>2, <1>3, Facts, SameRows DEF CountInv, SentInv, PageInv, Theirs
  <1>5. missed'[p] \in SUBSET Case /\ missed[p] \subseteq missed'[p]
        /\ (r.case \in waiting[p] => r.case \in missed'[p])
    BY Facts DEF TypeOK, RequestType
  <1>6. WaitInv(p)'
    BY <1>2, <1>3, <1>5, Facts, SameRows DEF WaitInv, PageInv, Tried
  <1>7. OnlyPage(p)
    <2>1. /\ since' = [since EXCEPT ![p] = since[p]] /\ waiting' = [waiting EXCEPT ![p] = waiting[p]]
          /\ missed' = [missed EXCEPT ![p] = missed'[p]]
      BY Facts DEF TypeOK
    <2> QED BY <1>1, <1>5, <2>1, Facts, LateSame DEF OnlyPage
  <1> QED BY <1>4, <1>6, <1>7, LateSame, PageStep DEF PageInv

\* A step within the same try: only the stage and what is sent change.
LEMMA SameTry ==
    ASSUME IInv, NEW p \in Page, req[p].stage \in Tried, NEW new \in RequestType,
           new.stage \in Tried, new.case = req[p].case, new.left = req[p].left,
           req' = [req EXCEPT ![p] = new],
           UNCHANGED <<row, history>>
    PROVE  CountInv(p)' /\ WaitInv(p)'
  <1>1. req'[p] = new
    BY Facts
  <1>2. CountInv(p)'
    BY <1>1, Facts, SameRows DEF CountInv, PageInv, Theirs, history, Tried
  <1>3. WaitInv(p)'
    BY <1>1, Facts, SameRows DEF WaitInv, PageInv, history, Tried
  <1> QED BY <1>2, <1>3

LEMMA RereadStep ==
    ASSUME IInv, NEW p \in Page, Reread(p)
    PROVE  IInv'
  <1> DEFINE r == req[p]
  <1>1. r.stage = "reading" /\ UNCHANGED <<row, page, late, used, history>> /\ r \in RequestType
    BY Facts DEF Reread
  <1>2. CASE Claimable(r.case)
    <2> DEFINE new == [r EXCEPT !.stage = "sent", !.etag = row[r.case].version, !.unread = FALSE]
    <2>1. row[r.case].version \in Nat
      BY <1>1, Facts DEF RequestType, RowType
    <2>2. /\ new \in RequestType /\ new.stage = "sent" /\ new.case = r.case /\ new.left = r.left
          /\ new.etag = row[r.case].version
      BY <1>1, <2>1 DEF RequestType, Stage
    <2>3. req' = [req EXCEPT ![p] = new]
      BY <1>2 DEF Reread
    <2> HIDE DEF new
    <2>4. req'[p] = new
      BY <2>3, Facts
    <2>5. SentInv(p)'
      BY <1>1, <1>2, <2>1, <2>2, <2>4 DEF SentInv, Guarded, Claimable
    <2> QED BY <1>1, <2>2, <2>3, <2>5, SameTry, RecordStep, Facts DEF PageInv, Tried
  <1>3. CASE ~Claimable(r.case)
    <2>1. req' = [req EXCEPT ![p] = Trying(r.left, r.manager, FALSE)]
      BY <1>3 DEF Reread
    <2>2. r.case \notin waiting[p]
      BY <1>3, Facts DEF PageInv, WaitInv
    <2> QED BY <1>1, <2>1, <2>2, TryingStep, Facts DEF Tried, RequestType, history
  <1> QED BY <1>2, <1>3

LEMMA RereadRefusedStep ==
    ASSUME IInv, NEW p \in Page, RereadRefused(p)
    PROVE  IInv'
  <1>1. used' \in [Counter -> Nat]
    BY Facts, SpendType DEF RereadRefused, Counter
  <1> QED BY <1>1, TryingStep, Facts DEF RereadRefused, Miss, Tried, RequestType

LEMMA ClaimFailsStep ==
    ASSUME IInv, NEW p \in Page, ClaimFails(p)
    PROVE  IInv'
  <1> DEFINE r == req[p]
  <1> DEFINE new == [r EXCEPT !.stage = "answered", !.result = "failed"]
  <1> DEFINE w == [case |-> r.case, etag |-> r.etag, user |-> OwnerOf[p]]
  <1>1. r.stage = "sent" /\ UNCHANGED <<row, page, history>> /\ r \in RequestType
    BY Facts DEF ClaimFails
  <1>2. /\ new \in RequestType /\ new.stage = "answered" /\ new.case = r.case /\ new.left = r.left
        /\ new.etag = r.etag
    BY <1>1 DEF RequestType, Stage
  <1>3. req' = [req EXCEPT ![p] = new] /\ late' = late \cup {w}
    BY <1>1, Facts DEF ClaimFails, RequestType
  <1>4. w \in ClaimType /\ w.case = r.case /\ w.etag = r.etag
    BY <1>1, Facts DEF ClaimType, RequestType
  <1> HIDE DEF new, w
  <1>5. Guarded(r.case, r.etag)
    BY <1>1, Facts DEF PageInv, SentInv
  <1>6. LateInv'
    BY <1>1, <1>3, <1>4, <1>5, SameRows DEF IInv, LateInv
  <1>7. SentInv(p)'
    BY <1>1, <1>2, <1>3, <1>5, Facts, SameRows DEF SentInv
  <1>8. used' \in [Counter -> Nat]
    BY Facts, SpendType DEF ClaimFails, Counter
  <1>9. OnlyPage(p)
    BY <1>1, <1>2, <1>3, <1>4, <1>8, Facts, HistoryKept DEF OnlyPage, TypeOK
  <1> QED BY <1>1, <1>2, <1>3, <1>6, <1>7, <1>9, SameTry, PageStep DEF PageInv, Tried

LEMMA ClaimStaleStep ==
    ASSUME IInv, NEW p \in Page, ClaimStale(p)
    PROVE  IInv'
  <1> DEFINE r == req[p]
  <1> DEFINE new == [r EXCEPT !.stage = "answered", !.result = "stale"]
  <1>1. r.stage = "sent" /\ UNCHANGED <<row, page, late, used, history>> /\ r \in RequestType
    BY Facts DEF ClaimStale
  <1>2. /\ new \in RequestType /\ new.stage = "answered" /\ new.case = r.case /\ new.left = r.left
        /\ new.etag = r.etag
    BY <1>1 DEF RequestType, Stage
  <1>3. req' = [req EXCEPT ![p] = new]
    BY <1>1, Facts DEF ClaimStale, RequestType
  <1> HIDE DEF new
  <1>4. SentInv(p)'
    BY <1>1, <1>2, <1>3, Facts, SameRows DEF SentInv, PageInv
  <1> QED BY <1>1, <1>2, <1>3, <1>4, SameTry, RecordStep, Facts DEF PageInv, Tried

LEMMA AnsweredStep ==
    ASSUME IInv, NEW p \in Page, Answered(p)
    PROVE  IInv'
  <1> DEFINE r == req[p]
  <1>1. r.stage = "answered" /\ UNCHANGED <<row, page, late, used>> /\ r \in RequestType
    BY Facts DEF Answered
  <1>2. CASE req' = [req EXCEPT ![p] = Counting(TRUE)] /\ UNCHANGED history
    <2>1. Counting(TRUE) \in RequestType
      BY RecordTypes
    <2>2. req'[p] = Counting(TRUE)
      BY <1>2, Facts
    <2>3. req'[p].stage = "counting" /\ req'[p].read = {}
      BY <2>2 DEF Counting, Idle
    <2>4. CountInv(p)' /\ SentInv(p)'
      BY <2>3 DEF CountInv, SentInv, Tried
    <2>5. /\ waiting'[p] = waiting[p] /\ waiting[p] \subseteq Listed(OwnerOf[p])
          /\ \A c \in waiting[p] : Claimable(c)
      BY <1>2, Facts DEF history, PageInv, WaitInv
    <2>6. WaitInv(p)'
      BY <1>1, <2>3, <2>5, SameRows DEF WaitInv, Tried
    <2> QED BY <1>1, <1>2, <2>1, <2>4, <2>6, RecordStep, Facts DEF PageInv
  <1>3. CASE End(p)
    BY <1>1, <1>3, EndStep, Facts
  <1>4. CASE req' = [req EXCEPT ![p].stage = "sent", ![p].manager = FALSE] /\ UNCHANGED history
    <2> DEFINE new == [r EXCEPT !.stage = "sent", !.manager = FALSE]
    <2>1. /\ new \in RequestType /\ new.stage = "sent" /\ new.case = r.case /\ new.left = r.left
          /\ new.etag = r.etag
      BY <1>1 DEF RequestType, Stage
    <2>2. req' = [req EXCEPT ![p] = new]
      BY <1>4, Facts DEF RequestType
    <2> HIDE DEF new
    <2>3. SentInv(p)'
      BY <1>1, <2>1, <2>2, Facts, SameRows DEF SentInv, PageInv
    <2> QED BY <1>1, <1>4, <2>1, <2>2, <2>3, SameTry, RecordStep, Facts DEF PageInv, Tried
  <1>5. CASE req' = [req EXCEPT ![p] = Trying(r.left, r.manager, FALSE)] /\ Miss(p)
    BY <1>1, <1>5, TryingStep, Facts DEF Miss, Tried, RequestType
  <1> QED BY <1>2, <1>3, <1>4, <1>5 DEF Answered

LEMMA ExhaustedStep ==
    ASSUME IInv, NEW p \in Page, Exhausted(p)
    PROVE  IInv'
  <1>1. CASE End(p) /\ UNCHANGED page
    BY <1>1, EndStep, Facts DEF Exhausted
  <1>2. CASE Publish(p, TRUE, FALSE)
    BY <1>2, PublishStep DEF Exhausted
  <1> QED BY <1>1, <1>2 DEF Exhausted

\* What counted as theirs is no more after a write than before.
LEMMA TheirsKept ==
    ASSUME IInv, Track, NEW p \in Page, req[p].stage \in Tried
    PROVE  Cardinality(Theirs(p)') < Capacity
  <1>1. Theirs(p)' \subseteq Theirs(p)
    BY TrackKept DEF IInv, TypeInvariant, Tried
  <1>2. Cardinality(Theirs(p)') =< Cardinality(Theirs(p)) /\ Cardinality(Theirs(p)') \in Nat
    BY <1>1, FiniteTheirs, FS_Subset, FS_CardinalityType
  <1>3. Cardinality(Theirs(p)) < Capacity
    BY DEF IInv, PageInv, CountInv
  <1> QED BY <1>2, <1>3, FiniteTheirs

LEMMA LandsStep ==
    ASSUME IInv, NEW p \in Page, ClaimLands(p)
    PROVE  IInv'
  <1> DEFINE r == req[p]
  <1> DEFINE told == [r EXCEPT !.stage = "answered", !.result = "ok"]
  <1>1. /\ r \in RequestType /\ r.stage = "sent" /\ r.etag = row[r.case].version
        /\ r.case \in Case /\ r.etag \in Nat /\ r.left \in SUBSET Case
        /\ UNCHANGED <<page, late, used>> /\ Track
    BY Facts DEF ClaimLands, Claims, RequestType
  <1>2. /\ told \in RequestType /\ told.stage = "answered" /\ told.case = r.case
        /\ told.left = r.left /\ told.etag = r.etag
    BY <1>1 DEF RequestType, Stage
  <1>3. req' = [req EXCEPT ![p] = told]
    BY Facts DEF ClaimLands, RequestType
  <1> HIDE DEF told
  <1>4. PICK new \in RowType : /\ Written(r.case, new)
                               /\ new.status = "inProgress" /\ new.reviewer = OwnerOf[p]
    BY <1>1, Facts, ClaimWrites DEF ClaimLands
  <1>5. TypeInvariant'
    <2>1. row' \in [Case -> RowType]
      BY <1>4, Facts DEF Written
    <2>2. InPotOrTaken'
      <3>1. row'[r.case] = new /\ \A c \in Case \ {r.case} : row'[c] = row[c]
        BY <1>4, Facts DEF Written
      <3>2. new.status = "inProgress" /\ new.reviewer \in Reviewer
        BY <1>4, Facts
      <3>3. InPotOrTaken
        BY DEF IInv, TypeInvariant
      <3> QED BY <3>1, <3>2, <3>3 DEF InPotOrTaken
    <2>3. TypeOK
      BY Facts
    <2> QED BY <1>1, <1>2, <1>3, <2>1, <2>2, <2>3, TrackTypes DEF TypeInvariant, TypeOK
  <1>6. LateInv'
    BY <1>1, <1>4, GuardKept, Facts DEF IInv, LateInv, TypeOK, ClaimType
  <1>7. ASSUME NEW q \in Page, q # p PROVE PageInv(q)'
    <2>1. req'[q] = req[q]
      BY <1>3, <1>7, Facts
    <2> QED BY <1>1, <1>4, <2>1, RowWritten, Facts
  <1>8. req'[p] = told
    BY <1>3, Facts
  <1>9. SentInv(p)'
    <2>1. PICK c \in Case, e \in Nat : c = r.case /\ e = r.etag /\ Guarded(c, e)
      BY <1>1, Facts DEF PageInv, SentInv
    <2>2. Guarded(c, e)'
      BY <1>1, <1>4, <2>1, GuardKept, Facts
    <2>3. req'[p].case = c /\ req'[p].etag = e
      BY <1>2, <1>8, <2>1
    <2> QED BY <2>2, <2>3 DEF SentInv
  <1>10. CountInv(p)'
    BY <1>1, <1>2, <1>8, TheirsKept DEF CountInv, Tried
  <1>11. WaitInv(p)'
    <2>1. /\ waiting'[p] \subseteq waiting[p] /\ missed'[p] = missed[p]
          /\ \A c \in waiting'[p] : Claimable(c)'
      BY <1>1, TrackKept, Facts
    <2>2. WaitInv(p)
      BY Facts DEF PageInv
    <2>3. waiting'[p] \subseteq Listed(OwnerOf[p])'
      BY <2>1, <2>2 DEF WaitInv, Listed, Claimable
    <2> QED BY <1>1, <1>2, <1>8, <2>1, <2>2, <2>3 DEF WaitInv, Tried
  <1> QED BY <1>5, <1>6, <1>7, <1>9, <1>10, <1>11 DEF IInv, PageInv

LEMMA TriesStep ==
    ASSUME IInv, NEW p \in Page, Tries(p)
    PROVE  IInv'
  BY CandidateStep, ExhaustedStep, RereadStep, RereadRefusedStep, LandsStep, ClaimStaleStep,
     ClaimFailsStep, AnsweredStep DEF Tries

----------------------------------------------------------------------------
(* The specification *)

LEMMA InitInv == Init => IInv
  <1> SUFFICES ASSUME Init PROVE IInv
    OBVIOUS
  <1>1. PICK first \in [Case -> Reviewer \cup {Nobody}] :
           row = [c \in Case |->
                    [status |-> IF first[c] = Nobody THEN "toAllocate"
                                ELSE IF c \in FirstDone THEN "done" ELSE "inProgress",
                     reviewer |-> first[c], held |-> FALSE, version |-> 1]]
    BY DEF Init
  <1>2. row \in [Case -> RowType] /\ InPotOrTaken
    <2>1. row \in [Case -> RowType]
      BY <1>1 DEF RowType, Status
    <2>2. ASSUME NEW c \in Case
          PROVE  row[c].status \in {"inProgress", "done"} <=> row[c].reviewer \in Reviewer
      BY <1>1
    <2> QED BY <2>1, <2>2 DEF InPotOrTaken
  <1>3. TypeInvariant
    BY <1>2, IdleType DEF Init, TypeInvariant, TypeOK, PageType
  <1>4. ASSUME NEW p \in Page PROVE PageInv(p)
    <2>1. req[p].stage = "idle" /\ waiting[p] = {}
      BY DEF Init, Idle
    <2> QED BY <2>1 DEF PageInv, CountInv, WaitInv, SentInv, Tried
  <1>5. LateInv
    BY DEF Init, LateInv
  <1> QED BY <1>3, <1>4, <1>5 DEF IInv

LEMMA Stutter == IInv /\ UNCHANGED vars => IInv'
  <1> SUFFICES ASSUME IInv, UNCHANGED vars PROVE IInv'
    OBVIOUS
  <1>1. TypeInvariant'
    BY DEF IInv, TypeInvariant, TypeOK, InPotOrTaken, vars, history
  <1>2. LateInv'
    BY LateSame DEF vars
  <1>3. ASSUME NEW p \in Page PROVE PageInv(p)'
    BY OtherPage DEF IInv, vars, history
  <1> QED BY <1>1, <1>2, <1>3 DEF IInv

LEMMA NextInv == IInv /\ [Next]_vars => IInv'
  <1> SUFFICES ASSUME IInv, Next PROVE IInv'
    BY Stutter
  <1>1. ASSUME NEW p \in Page, Request(p) \/ Leave(p) \/ Reads(p) \/ Tries(p) PROVE IInv'
    BY <1>1, RequestStep, LeaveStep, ReadsStep, TriesStep
  <1>2. ASSUME NEW w \in late, LateClaim(w) PROVE IInv'
    BY <1>2, LateStep
  <1>3. ASSUME NEW c \in Case, Others(c) PROVE IInv'
    BY <1>3, OthersStep
  <1> QED BY <1>1, <1>2, <1>3 DEF Next

\* The invariant of the argument above.
THEOREM Inductive == Spec => []IInv
  BY InitInv, NextInv, PTL DEF Spec

\* Every variable keeps its type, and no row names a Reviewer while it still
\* says that it waits for one, or the other way round: the listings that go by
\* the status alone offer only Cases of nobody.
THEOREM TypeCorrect == Spec => []TypeInvariant
  <1>1. IInv => TypeInvariant
    BY DEF IInv
  <1> QED BY <1>1, Inductive, PTL

\* Cases are given out oldest first, whatever else happens to them between the
\* listing and the claim.
THEOREM OldestFirstHolds == Spec => []OldestFirst
  <1>1. IInv => OldestFirst
    <2> SUFFICES ASSUME IInv, NEW p \in Page, req[p].stage = "sent",
                        NEW c \in waiting[p], Age[c] < Age[req[p].case]
                 PROVE  c \in missed[p]
      BY DEF OldestFirst
    <2>1. c \in Case /\ req[p].case \in Case
      BY Facts DEF RequestType
    <2>2. c # req[p].case /\ ~(Age[req[p].case] =< Age[c])
      BY <2>1
    <2> QED BY <2>2, Facts DEF PageInv, WaitInv, Tried
  <1> QED BY <1>1, Inductive, PTL

\* The steps that rewrite a row without being another page's or support's edit.
LEMMA WhoWrites ==
    ASSUME IInv, [Next]_vars, NEW c \in Case, row'[c] # row[c], used'["edits"] = used["edits"]
    PROVE  \/ \E p \in Page : ClaimLands(p) /\ c = req[p].case
           \/ \E w \in late : LateClaim(w) /\ c = w.case
  <1>1. CASE UNCHANGED vars
    BY <1>1 DEF vars
  <1>2. ASSUME NEW p \in Page, Request(p) \/ Leave(p) \/ Reads(p) PROVE FALSE
    BY <1>2 DEF Request, Leave, Reads, Count, List, Counted, AllListed, ReadRefused
  <1>3. ASSUME NEW p \in Page, Tries(p) PROVE ClaimLands(p) /\ c = req[p].case
    <2>1. ClaimLands(p)
      BY <1>3 DEF Tries, NextCandidate, Exhausted, Reread, RereadRefused, ClaimStale, ClaimFails,
                  Answered
    <2> QED BY <2>1, Facts DEF ClaimLands, ClaimedBy
  <1>4. ASSUME NEW w \in late, LateClaim(w) PROVE c = w.case
    BY <1>4 DEF LateClaim, ClaimedBy, IInv, TypeInvariant, TypeOK
  <1>5. ASSUME NEW d \in Case, Others(d) PROVE FALSE
    <2>1. Spend("edits")
      BY <1>5 DEF Others, Hold, Complete, Remove, Unassign, Reopen, Reassign, Edit
    <2>2. used["edits"] \in Nat /\ used' = [used EXCEPT !["edits"] = used["edits"] + 1]
      BY <2>1 DEF Spend, IInv, TypeInvariant, TypeOK, Counter
    <2> QED BY <2>2 DEF IInv, TypeInvariant, TypeOK, Counter
  <1> QED BY <1>1, <1>2, <1>3, <1>4, <1>5 DEF Next

\* No claim, a late one included, takes a Case that is anyone's: of all the
\* requests that read a Case while it waited, one gets it.
THEOREM TakenFromThePotHolds == Spec => TakenFromThePot
  <1>1. ASSUME IInv, [Next]_vars, NEW c \in Case, row'[c] # row[c],
               used'["edits"] = used["edits"]
        PROVE  Claimable(c)
    <2>1. ASSUME NEW p \in Page, ClaimLands(p), c = req[p].case PROVE Claimable(c)
      BY <1>1, <2>1, Facts DEF ClaimLands, Claims, PageInv, SentInv, Guarded
    <2>2. ASSUME NEW w \in late, LateClaim(w), c = w.case PROVE Claimable(c)
      BY <1>1, <2>2 DEF LateClaim, IInv, LateInv, Guarded
    <2> QED BY <1>1, <2>1, <2>2, WhoWrites
  <1>2. IInv /\ [Next]_vars =>
           [\A c \in Case : (row'[c] # row[c] /\ used'["edits"] = used["edits"]) => Claimable(c)]_vars
    BY <1>1
  <1> QED BY <1>2, Inductive, PTL DEF Spec, TakenFromThePot

\* A claim is told of where it landed.
LEMMA ToldOnly ==
    ASSUME IInv, [Next]_vars, NEW p \in Page, req[p].stage = "sent",
           req'[p].stage = "answered", req'[p].result = "ok"
    PROVE  ClaimLands(p)
  <1>1. ASSUME req'[p] = req[p] PROVE FALSE
    BY <1>1
  <1>2. ASSUME NEW q \in Page, Request(q) \/ Leave(q) \/ Reads(q) PROVE FALSE
    <2>1. req[q].stage # "sent" \/ req' = req
      BY <1>2 DEF Request, Leave, Reads, Count, List, Counted, AllListed, ReadRefused
    <2>2. \A o \in Page \ {q} : req'[o] = req[o]
      BY <1>2, Facts DEF Request, Leave, Reads, Count, List, Counted, AllListed, ReadRefused,
                         Publish, End
    <2> QED BY <1>1, <2>1, <2>2
  <1>3. ASSUME NEW q \in Page, Tries(q) PROVE ClaimLands(p)
    <2>1. \A o \in Page \ {q} : req'[o] = req[o]
      BY <1>3, Facts DEF Tries, NextCandidate, Exhausted, Reread, RereadRefused, ClaimLands,
                         ClaimStale, ClaimFails, Answered, Publish, End
    <2>2. q = p
      BY <1>1, <2>1
    <2>3. ClaimLands(p) \/ ClaimStale(p) \/ ClaimFails(p)
      BY <1>3, <2>2 DEF Tries, NextCandidate, Exhausted, Reread, RereadRefused, Answered
    <2>4. ~ClaimStale(p) /\ ~ClaimFails(p)
      BY Facts DEF ClaimStale, ClaimFails, RequestType
    <2> QED BY <2>3, <2>4
  <1>4. ASSUME NEW w \in late, LateClaim(w) PROVE FALSE
    BY <1>1, <1>4 DEF LateClaim
  <1>5. ASSUME NEW c \in Case, Others(c) PROVE FALSE
    BY <1>1, <1>5 DEF Others, Hold, Complete, Remove, Unassign, Reopen, Reassign, Edit
  <1> QED BY <1>1, <1>2, <1>3, <1>4, <1>5 DEF Next, vars

\* A request never gives a Reviewer more than the capacity of those Cases that
\* were theirs when the button was pressed and of the one it claims: counting
\* list by list, while Cases move, misses none of them.
THEOREM CapacityKeptHolds == Spec => CapacityKept
  <1>1. ASSUME IInv, NEW p \in Page, ClaimLands(p)
        PROVE  Cardinality(Active(OwnerOf[p])' \ since[p]) =< Capacity
    <2> DEFINE had == Theirs(p)
    <2> DEFINE has == Active(OwnerOf[p])' \ since[p]
    <2>1. req[p].case \in Case /\ req[p].stage = "sent"
      BY <1>1, Facts DEF ClaimLands, Claims, RequestType
    <2>2. \A c \in Case \ {req[p].case} : row'[c] = row[c]
      BY <1>1, <2>1, Facts DEF ClaimLands, ClaimedBy
    <2>3. has \subseteq had \cup {req[p].case}
      BY <2>2 DEF Active, Theirs
    <2>4. IsFiniteSet(had) /\ Cardinality(had) \in Nat
      BY FiniteTheirs
    <2>5. Cardinality(had) < Capacity
      BY <1>1, <2>1, Facts DEF PageInv, CountInv, Tried
    <2> HIDE DEF had, has
    <2>6. /\ IsFiniteSet(had \cup {req[p].case})
          /\ Cardinality(had \cup {req[p].case}) =< Cardinality(had) + 1
          /\ Cardinality(had \cup {req[p].case}) \in Nat
      <3> DEFINE c == req[p].case
      <3> HIDE DEF c
      <3>1. /\ IsFiniteSet(had \cup {c})
            /\ Cardinality(had \cup {c}) =
                  IF c \in had THEN Cardinality(had) ELSE Cardinality(had) + 1
        BY <2>4, FS_AddElement
      <3>2. Cardinality(had \cup {c}) =< Cardinality(had) + 1 /\ Cardinality(had \cup {c}) \in Nat
        BY <2>4, <3>1
      <3> QED BY <3>1, <3>2 DEF c
    <2>7. Cardinality(has) =< Cardinality(had \cup {req[p].case}) /\ Cardinality(has) \in Nat
      BY <2>3, <2>6, FS_Subset, FS_CardinalityType
    <2>8. Cardinality(has) =< Capacity
      BY <2>4, <2>5, <2>6, <2>7
    <2> QED BY <2>8 DEF has
  <1>2. IInv /\ [Next]_vars =>
           [\A p \in Page :
               (req[p].stage = "sent" /\ req'[p].result = "ok" /\ req'[p].stage = "answered") =>
                  Cardinality(Active(OwnerOf[p])' \ since[p]) =< Capacity]_vars
    BY <1>1, ToldOnly
  <1> QED BY <1>2, Inductive, PTL DEF Spec, CapacityKept

\* A page comes to say "No Cases available" by what its own request found.
LEMMA SaysEmpty ==
    ASSUME IInv, [Next]_vars, NEW p \in Page, page'[p].empty, ~page[p].empty
    PROVE  \/ AllListed(p) /\ req[p].left = {}
           \/ Exhausted(p)
  <1>1. ASSUME page'[p] = page[p] PROVE FALSE
    BY <1>1
  <1>2. ASSUME NEW q \in Page, NEW empty \in BOOLEAN, NEW full \in BOOLEAN, Publish(q, empty, full)
        PROVE  q = p /\ empty
    <2>1. q = p
      BY <1>1, <1>2, Facts DEF Publish
    <2>2. page'[p] = IF page[p].active THEN [active |-> TRUE, empty |-> empty, full |-> full]
                     ELSE page[p]
      BY <1>2, <2>1, Facts DEF Publish
    <2>3. page'[p] = [active |-> TRUE, empty |-> empty, full |-> full]
      BY <1>1, <2>2
    <2>4. CASE empty = FALSE
      BY <2>3, <2>4
    <2> QED BY <2>1, <2>4
  <1>3. ASSUME NEW q \in Page, page' = [page EXCEPT ![q].active = FALSE] PROVE FALSE
    BY <1>3, Facts DEF PageType
  <1>4. ASSUME NEW q \in Page, Request(q) \/ Leave(q) \/ Reads(q)
        PROVE  AllListed(p) /\ req[p].left = {}
    <2>1. CASE AllListed(q)
      BY <1>1, <1>2, <2>1 DEF AllListed
    <2>2. CASE Counted(q)
      BY <1>1, <1>2, <2>2 DEF Counted
    <2>3. CASE Leave(q)
      BY <1>3, <2>3 DEF Leave
    <2>4. CASE Request(q) \/ ReadRefused(q) \/ \E s \in Source : Count(q, s) \/ List(q, s)
      BY <1>1, <2>4 DEF Request, ReadRefused, Count, List
    <2> QED BY <1>4, <2>1, <2>2, <2>3, <2>4 DEF Reads
  <1>5. ASSUME NEW q \in Page, Tries(q) PROVE Exhausted(p)
    <2>1. CASE Exhausted(q)
      BY <1>1, <1>2, <2>1 DEF Exhausted
    <2>2. CASE ~Exhausted(q)
      BY <1>1, <1>5, <2>2 DEF Tries, NextCandidate, Reread, RereadRefused, ClaimLands, ClaimStale,
                              ClaimFails, Answered
    <2> QED BY <2>1, <2>2
  <1>6. ASSUME NEW w \in late, LateClaim(w) PROVE FALSE
    BY <1>1, <1>6 DEF LateClaim
  <1>7. ASSUME NEW c \in Case, Others(c) PROVE FALSE
    BY <1>1, <1>7 DEF Others, Hold, Complete, Remove, Unassign, Reopen, Reassign, Edit
  <1> QED BY <1>1, <1>4, <1>5, <1>6, <1>7 DEF Next, vars

\* "No Cases available" is never said over the head of a Case that has waited
\* since the click and was not tried: no list is left out of what it rests on.
THEOREM EmptyIsTrueHolds == Spec => EmptyIsTrue
  <1>1. ASSUME IInv, [Next]_vars, NEW p \in Page, page'[p].empty, ~page[p].empty
        PROVE  waiting[p] \subseteq missed[p]
    <2>1. WaitInv(p)
      BY <1>1, Facts DEF PageInv
    <2>2. CASE AllListed(p) /\ req[p].left = {}
      BY <2>1, <2>2 DEF AllListed, WaitInv, Listed
    <2>3. CASE Exhausted(p)
      BY <2>1, <2>3 DEF Exhausted, WaitInv
    <2> QED BY <1>1, <2>2, <2>3, SaysEmpty
  <1>2. IInv /\ [Next]_vars =>
           [\A p \in Page : (page'[p].empty /\ ~page[p].empty) => waiting[p] \subseteq missed[p]]_vars
    BY <1>1
  <1> QED BY <1>2, Inductive, PTL DEF Spec, EmptyIsTrue
=============================================================================
