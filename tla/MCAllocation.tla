---------------------------- MODULE MCAllocation ----------------------------
(* A small instance of Allocation for TLC. *)
EXTENDS AllocationProperties

CONSTANTS c1, c2, c3, s1, s2, u1, u2, p1, p2, p3, MaxClicks, MaxEdits, MaxFaults

MCSourceOf == [c \in Case |-> IF c = c2 THEN s2 ELSE s1]
MCAge == [c \in Case |-> IF c = c1 THEN 1 ELSE 2]
\* One Reviewer reads both lists, the other one of them.
MCDraws == [u \in Reviewer |-> IF u = u1 THEN Source ELSE {s1}]
MCOwnerOf == [p \in Page |-> IF p = p3 THEN u2 ELSE u1]
\* The first Reviewer has one Case, in the list the other does not read.
MCFirst == [c \in Case |-> IF c = c2 THEN {u1} ELSE {Nobody}]
MCMax == [c \in Counter |->
    CASE c = "clicks" -> MaxClicks [] c = "edits" -> MaxEdits [] c = "faults" -> MaxFaults]
=============================================================================
