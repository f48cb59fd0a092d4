---------------------------- MODULE MCCaseReview ----------------------------
(* Small instances of CaseReview for TLC. *)
EXTENDS CaseReviewProperties

CONSTANTS u1, u2, r1, r2, p1,
          MaxEdits, MaxOthers, MaxMessages, MaxLoads, MaxRefreshes, MaxClaims, MaxSupport, MaxFaults

\* Two Reviewers with a tab each.
MCUserOf == [t \in ReviewTab |-> IF t = r1 THEN u1 ELSE u2]
\* One Reviewer with all the tabs.
SameUser == [t \in ReviewTab |-> u1]

MCMax == [c \in Counter |->
    CASE c = "edits" -> MaxEdits [] c = "others" -> MaxOthers [] c = "messages" -> MaxMessages
      [] c = "loads" -> MaxLoads [] c = "refreshes" -> MaxRefreshes [] c = "claims" -> MaxClaims
      [] c = "support" -> MaxSupport [] c = "faults" -> MaxFaults]
=============================================================================
