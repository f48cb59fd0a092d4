------------------------- MODULE ForwarderProperties -------------------------
(***************************************************************************)
(* What the Forwarder promises: nothing queued is lost, whatever crashes;  *)
(* nothing is sent twice while nothing breaks; the archive keeps its       *)
(* trail; every item lands in the end.                                     *)
(***************************************************************************)
EXTENDS Forwarder

InHand == {"send", "copy", "moved", "residue"}

\* Type correctness, in three parts.  No file is stamped or written in the future;
\* what has landed was queued; the loop works on a file of the Queue and on items
\* of it.
QueueTyped ==
    /\ DOMAIN queue \subseteq Name
    /\ \A n \in DOMAIN queue : queue[n] \in File /\ n[2] <= clock /\ queue[n].mtime <= clock

HistoryTyped ==
    /\ DOMAIN processed \subseteq Name
    /\ \A n \in DOMAIN processed : processed[n] \subseteq Item
    /\ produced \in Seq(Stem) /\ Len(produced) <= MaxFiles
    /\ queued \subseteq Item /\ landed \subseteq queued /\ resent \subseteq landed
    /\ clock \in 1..MaxClock /\ faults \in Nat /\ breaks \in Nat

LoopTyped ==
    /\ now \in 1..clock /\ task \in Nat \ {0} /\ stopping \in BOOLEAN /\ files \subseteq Name
    /\ pc \in InHand \cup {"down", "idle", "task", "files", "archive"}
    /\ pc \in InHand \cup {"files", "archive"} => task <= Len(Tasks)
    /\ pc \in InHand \cup {"archive"} => hand \in Name
    /\ pc \in InHand => hand \in DOMAIN queue
    /\ pc \in {"send", "residue"} =>
         queue[hand].whole /\ todo \cup failed \subseteq queue[hand].items
    /\ pc \notin InHand \cup {"archive"} => hand = NoFile /\ todo = {} /\ failed = {}

TypeInvariant == QueueTyped /\ HistoryTyped /\ LoopTyped

\* The items queued under a stem that SharePoint has not taken.
Unlanded(s) == {i \in queued : produced[i[1]] = s} \ landed

\* An item of a finished file that has not landed is in some file of the Queue,
\* through crashes, failed archives and residues that overwrite each other.
NothingLost ==
    \A i \in queued \ landed :
        \E n \in DOMAIN queue : queue[n].whole /\ i \in queue[n].items

\* Why: whatever is still owed under a stem is in every file of that stem, so that
\* any of them may go as long as one stays; and it is in the hands of the loop
\* while the loop has one of them.
OwedInFiles ==
    \A n \in DOMAIN queue :
        IF queue[n].whole THEN Unlanded(n[1]) \subseteq queue[n].items
                          ELSE \A i \in queued : produced[i[1]] # n[1]

OwedInHand ==
    /\ pc \in {"send", "residue"} => Unlanded(hand[1]) \subseteq todo \cup failed
    /\ pc = "moved" => Unlanded(hand[1]) = {}
    /\ pc = "archive" =>
         \/ Unlanded(hand[1]) = {}
         \/ \E n \in DOMAIN queue \ {hand} : n[1] = hand[1] /\ queue[n].whole

OwedIsEverywhere == OwedInFiles /\ OwedInHand

\* The Queue as an abstract delivery: pending is what its finished files list.
Pending == UNION {queue[n].items : n \in {m \in DOMAIN queue : queue[m].whole}}
Abstract == INSTANCE Delivery WITH pending <- Pending
DeliversAtLeastOnce == Abstract!Spec

\* A task without per-item retry sends a part-failed file again, whole.
WholeFileRetry(s) ==
    \E t \in DOMAIN Tasks :
        s \in Tasks[t].stems /\ Tasks[t].action = "list" /\ ~Tasks[t].retry

\* The comment on the bundled config: a retry does not resend the items that
\* already landed, as long as nothing crashed, no directory failed, and no call
\* raised after landing.
NoResendUnlessBroken ==
    \A i \in resent : breaks > 0 \/ WholeFileRetry(produced[i[1]])

\* The trail of what was attempted stays readable: while nothing breaks no file
\* of the archive is replaced.
TrailKept ==
    [][breaks' = 0 =>
         \A n \in DOMAIN processed : n \in DOMAIN processed' /\ processed'[n] = processed[n]]_vars

\* Unless stop signals never cease, every item of a finished file that a task
\* delivers lands in the end, residues of exact patterns included.
EveryItemLands ==
    <>[]~stopping => \A s \in Stem :
        (\E t \in DOMAIN Tasks : s \in Tasks[t].stems /\ Tasks[t].action # "other")
            => []<>(Unlanded(s) = {})
=============================================================================
