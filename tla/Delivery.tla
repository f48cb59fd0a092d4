------------------------------ MODULE Delivery ------------------------------
(***************************************************************************)
(* What the Forwarder promises of its Queue: an item that has been queued  *)
(* stays pending until it has landed in SharePoint.  It may land more than *)
(* once, and it may stay pending after it has landed.                      *)
(***************************************************************************)
CONSTANT Item
VARIABLES
    pending,   \* items sitting in the Queue
    landed     \* items SharePoint has taken

Init == pending = {} /\ landed = {}

\* A producer queues a file.
Queue(S) ==
    /\ S \cap (pending \cup landed) = {}
    /\ pending' = pending \cup S
    /\ UNCHANGED landed

\* Some items of the Queue land.
Land(S) ==
    /\ S \subseteq pending
    /\ landed' = landed \cup S
    /\ UNCHANGED pending

\* Items that have landed leave the Queue.
SetAside(S) ==
    /\ S \subseteq landed
    /\ pending' = pending \ S
    /\ UNCHANGED landed

Next == \E S \in SUBSET Item : Queue(S) \/ Land(S) \/ SetAside(S)

Spec == Init /\ [][Next]_<<pending, landed>>
=============================================================================
