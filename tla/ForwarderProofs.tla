--------------------------- MODULE ForwarderProofs ---------------------------
(***************************************************************************)
(* Proofs about Forwarder, for any tasks, files, faults and breaks: its    *)
(* type invariant, and that nothing is sent twice while nothing breaks;    *)
(* when no producer uses a name twice, that the archive keeps its trail;   *)
(* and when, besides, no unfinished file is copied, that nothing is lost   *)
(* and that the Queue implements Delivery.                                 *)
(***************************************************************************)
EXTENDS ForwarderProperties, TLAPS

USE StemAssumption, TasksAssumption, ForwarderFlags, ForwarderBounds

----------------------------------------------------------------------------
(* Types *)

\* A finished file lists finished items.
WholeAreQueued == \A n \in DOMAIN queue : queue[n].whole => queue[n].items \subseteq queued

Typed == TypeInvariant /\ WholeAreQueued

LEMMA InitTyped == Init => Typed
  <1> SUFFICES ASSUME Init PROVE Typed
    OBVIOUS
  <1>1. QueueTyped /\ WholeAreQueued
    BY DEF Init, QueueTyped, WholeAreQueued
  <1>2. HistoryTyped
    BY DEF Init, HistoryTyped
  <1>3. LoopTyped
    <2>1. pc = "idle" /\ pc \notin InHand \cup {"files", "archive", "send", "residue"}
      BY DEF Init, InHand
    <2>2. now \in 1..clock /\ task \in Nat \ {0}
      BY DEF Init
    <2>3. stopping \in BOOLEAN /\ files \subseteq Name
      BY DEF Init
    <2> QED BY <2>1, <2>2, <2>3 DEF Init, LoopTyped
  <1> QED BY <1>1, <1>2, <1>3 DEF Typed, TypeInvariant

\* A step that leaves the Queue and the histories alone.
LEMMA LoopStepTyped ==
    ASSUME Typed, UNCHANGED <<queue, processed, produced, queued, landed, resent, clock>>,
           faults' \in Nat, breaks' \in Nat, LoopTyped'
    PROVE  Typed'
  BY DEF Typed, TypeInvariant, QueueTyped, HistoryTyped, WholeAreQueued

LEMMA BeginFileTyped == ASSUME Typed, NEW s \in Stem, BeginFile(s) PROVE Typed'
  <1> DEFINE f == [items |-> ItemsOf(Len(produced) + 1), whole |-> FALSE, mtime |-> clock]
             n == <<s, 0>>
  <1>1. f \in File /\ n \in Name /\ f.mtime <= clock /\ ~f.whole /\ n[2] <= clock
    BY DEF BeginFile, Typed, TypeInvariant, HistoryTyped, File, Item, ItemsOf, Name
  <1>2. queue' = Put(queue, n, f) /\ n \notin DOMAIN queue
    BY DEF BeginFile
  <1>3. produced' \in Seq(Stem) /\ Len(produced') <= MaxFiles
    BY DEF BeginFile, Typed, TypeInvariant, HistoryTyped
  <1> HIDE DEF f, n
  <1>4. DOMAIN queue' = DOMAIN queue \cup {n} /\ queue'[n] = f
        /\ \A m \in DOMAIN queue : queue'[m] = queue[m]
    BY <1>2 DEF Put
  <1>5. WholeAreQueued'
    BY <1>1, <1>4 DEF BeginFile, Typed, WholeAreQueued
  <1>6. QueueTyped'
    BY <1>1, <1>4 DEF BeginFile, QueueTyped, Typed, TypeInvariant
  <1>7. HistoryTyped'
    BY <1>3 DEF BeginFile, HistoryTyped, Typed, TypeInvariant, sharepoint
  <1>8. LoopTyped'
    BY <1>4 DEF BeginFile, LoopTyped, Typed, TypeInvariant, delivery, tick, InHand
  <1> QED BY <1>5, <1>6, <1>7, <1>8 DEF Typed, TypeInvariant

LEMMA FinishFileTyped == ASSUME Typed, NEW n \in DOMAIN queue, FinishFile(n) PROVE Typed'
  <1>1. DOMAIN queue' = DOMAIN queue /\ \A m \in DOMAIN queue : m # n => queue'[m] = queue[m]
    BY DEF FinishFile
  <1>2. queue[n] \in File /\ clock \in Nat
    BY DEF Typed, TypeInvariant, QueueTyped, HistoryTyped
  <1>3. queue'[n] = [items |-> queue[n].items, whole |-> TRUE, mtime |-> clock]
    BY DEF FinishFile
  <1>4. queue'[n] \in File /\ queue'[n].items = queue[n].items /\ queue'[n].whole
        /\ queue'[n].mtime <= clock
    BY <1>2, <1>3 DEF File
  <1>5. queued' \subseteq Item /\ queued \subseteq queued' /\ queue[n].items \subseteq queued'
    BY <1>2 DEF FinishFile, Typed, TypeInvariant, HistoryTyped, File
  <1>6. WholeAreQueued'
    BY <1>1, <1>4, <1>5 DEF Typed, WholeAreQueued
  <1>7. QueueTyped'
    BY <1>1, <1>4 DEF FinishFile, QueueTyped, Typed, TypeInvariant
  <1>8. HistoryTyped'
    BY <1>5 DEF FinishFile, HistoryTyped, Typed, TypeInvariant, sharepoint
  <1>9. LoopTyped'
    BY <1>1, <1>4 DEF FinishFile, LoopTyped, Typed, TypeInvariant, delivery, tick, InHand
  <1> QED BY <1>6, <1>7, <1>8, <1>9 DEF Typed, TypeInvariant

LEMMA TimeTyped == Typed /\ TimePasses => Typed'
  <1> SUFFICES ASSUME Typed, TimePasses PROVE Typed'
    OBVIOUS
  <1>1. UNCHANGED <<queue, processed, produced, queued, landed, resent, pc, stopping, task, files,
                    now, hand, todo, failed, faults, breaks>> /\ clock' = clock + 1 /\ clock < MaxClock
    BY DEF TimePasses, directories, producer, sharepoint, tick, delivery
  <1>2. clock \in 1..MaxClock /\ clock' \in 1..MaxClock /\ now' \in 1..clock'
    BY <1>1 DEF Typed, TypeInvariant, HistoryTyped, LoopTyped
  <1>3. QueueTyped'
    <2> SUFFICES ASSUME NEW n \in DOMAIN queue
                 PROVE  queue[n] \in File /\ n \in Name /\ n[2] <= clock' /\ queue[n].mtime <= clock'
      BY <1>1 DEF QueueTyped, Typed, TypeInvariant
    <2>1. queue[n] \in File /\ n \in Name /\ n[2] <= clock /\ queue[n].mtime <= clock
      BY DEF QueueTyped, Typed, TypeInvariant
    <2>2. n[2] \in Int /\ queue[n].mtime \in Int /\ clock \in Int
      BY <1>2, <2>1 DEF Name, File
    <2> QED BY <1>1, <2>1, <2>2
  <1>4. HistoryTyped' /\ WholeAreQueued'
    BY <1>1, <1>2 DEF HistoryTyped, WholeAreQueued, Typed, TypeInvariant
  <1>5. LoopTyped'
    BY <1>1, <1>2 DEF LoopTyped, Typed, TypeInvariant
  <1> QED BY <1>3, <1>4, <1>5 DEF Typed, TypeInvariant

LEMMA StopTyped == Typed /\ (RequestStop \/ Crash \/ Restart) => Typed'
  <1> SUFFICES ASSUME Typed, RequestStop \/ Crash \/ Restart PROVE Typed'
    OBVIOUS
  <1>1. UNCHANGED <<queue, processed, produced, queued, landed, resent, clock>>
        /\ faults' \in Nat /\ breaks' \in Nat
    BY DEF RequestStop, Crash, Restart, directories, producer, sharepoint, Typed, TypeInvariant,
           HistoryTyped
  <1>2. LoopTyped'
    BY <1>1 DEF RequestStop, Crash, Restart, LoopTyped, Typed, TypeInvariant, tick, delivery, InHand
  <1> QED BY <1>1, <1>2, LoopStepTyped

LEMMA TickTyped == Typed /\ (StartTick \/ TakeTask \/ EndTick) => Typed'
  <1> SUFFICES ASSUME Typed, StartTick \/ TakeTask \/ EndTick PROVE Typed'
    OBVIOUS
  <1>1. UNCHANGED <<queue, processed, produced, queued, landed, resent, clock>>
        /\ faults' \in Nat /\ breaks' \in Nat
    BY DEF StartTick, TakeTask, EndTick, directories, producer, sharepoint, Typed, TypeInvariant,
           HistoryTyped
  <1>2. clock \in Nat /\ task \in Nat \ {0}
    BY DEF Typed, TypeInvariant, HistoryTyped, LoopTyped
  <1>3. CASE StartTick
    <2>1. hand' = NoFile /\ todo' = {} /\ failed' = {} /\ files' \subseteq Name
      BY <1>3 DEF StartTick, LoopTyped, Typed, TypeInvariant, tick, delivery, InHand
    <2>2. clock \in 1..MaxClock /\ now \in 1..clock
      BY DEF LoopTyped, HistoryTyped, Typed, TypeInvariant
    <2>3. now' \in 1..clock' /\ task' \in Nat \ {0}
      BY <1>1, <1>2, <1>3, <2>2 DEF StartTick, tick
    <2>4. stopping' \in BOOLEAN
      BY <1>3 DEF StartTick, LoopTyped, Typed, TypeInvariant
    <2>5. pc' \in {"down", "task"}
      BY <1>3 DEF StartTick
    <2>6. LoopTyped'
      BY <2>1, <2>3, <2>4, <2>5 DEF LoopTyped, InHand
    <2> QED BY <1>1, <2>6, LoopStepTyped
  <1>4. CASE TakeTask
    <2>1. LoopTyped'
      BY <1>1, <1>2, <1>4 DEF TakeTask, LoopTyped, QueueTyped, Typed, TypeInvariant, tick, delivery, InHand
    <2> QED BY <1>1, <2>1, LoopStepTyped
  <1>5. CASE EndTick
    <2>1. LoopTyped'
      BY <1>1, <1>2, <1>5 DEF EndTick, LoopTyped, Typed, TypeInvariant, tick, delivery, InHand
    <2> QED BY <1>1, <2>1, LoopStepTyped
  <1> QED BY <1>3, <1>4, <1>5

LEMMA TakeFileTyped == Typed /\ TakeFile => Typed'
  <1> SUFFICES ASSUME Typed, TakeFile PROVE Typed'
    OBVIOUS
  <1>1. UNCHANGED <<queue, processed, produced, queued, landed, resent, clock>>
        /\ faults' \in Nat /\ breaks' \in Nat /\ UNCHANGED <<stopping, now>>
    BY DEF TakeFile, directories, producer, sharepoint, Typed, TypeInvariant, HistoryTyped
  <1>2. task \in Nat \ {0} /\ task <= Len(Tasks) /\ hand = NoFile /\ todo = {} /\ failed = {} /\ pc = "files"
    BY DEF TakeFile, Typed, TypeInvariant, LoopTyped, InHand
  <1>3. LoopTyped'
    BY <1>1, <1>2 DEF TakeFile, IsReady, LoopTyped, Typed, TypeInvariant, QueueTyped, delivery, InHand
  <1> QED BY <1>1, <1>3, LoopStepTyped

\* Items of a finished file that land were queued.
LEMMA LandsTyped ==
    ASSUME Typed, NEW S \in SUBSET queued, Lands(S)
    PROVE  landed' \subseteq queued /\ resent' \subseteq landed'
  BY DEF Lands, Typed, TypeInvariant, HistoryTyped

\* A step that touches only what SharePoint has, and the loop.
LEMMA LandingStepTyped ==
    ASSUME Typed, UNCHANGED <<queue, processed, produced, queued, clock>>,
           landed' \subseteq queued, resent' \subseteq landed',
           faults' \in Nat, breaks' \in Nat, LoopTyped'
    PROVE  Typed'
  BY DEF Typed, TypeInvariant, QueueTyped, HistoryTyped, WholeAreQueued

LEMMA SendItemTyped == ASSUME Typed, NEW i \in todo, SendItem(i) PROVE Typed'
  <1>1. UNCHANGED <<queue, processed, produced, queued, clock, pc, stopping, task, files, now, hand>>
    BY DEF SendItem, directories, producer, tick
  <1>2. pc = "send" /\ hand \in DOMAIN queue /\ queue[hand].whole
        /\ todo \cup failed \subseteq queue[hand].items
    BY DEF SendItem, Typed, TypeInvariant, LoopTyped, InHand
  <1>3. i \in queued
    BY <1>2 DEF Typed, WholeAreQueued
  <1>4. faults' \in Nat /\ breaks' \in Nat
    BY DEF SendItem, Typed, TypeInvariant, HistoryTyped
  <1>5. landed' \subseteq queued /\ resent' \subseteq landed'
    <2>1. CASE Lands({i})
      BY <1>3, <2>1, LandsTyped
    <2>2. CASE UNCHANGED sharepoint
      BY <2>2 DEF sharepoint, Typed, TypeInvariant, HistoryTyped
    <2> QED BY <2>1, <2>2 DEF SendItem
  <1>6. todo' \cup failed' \subseteq queue[hand].items
    BY <1>2 DEF SendItem
  <1>7. LoopTyped'
    BY <1>1, <1>2, <1>6 DEF LoopTyped, Typed, TypeInvariant, InHand
  <1> QED BY <1>1, <1>4, <1>5, <1>7, LandingStepTyped

LEMMA SendDoneTyped == Typed /\ SendDone => Typed'
  <1> SUFFICES ASSUME Typed, SendDone PROVE Typed'
    OBVIOUS
  <1>1. UNCHANGED <<queue, processed, produced, queued, landed, resent, clock>>
        /\ faults' \in Nat /\ breaks' \in Nat
    BY DEF SendDone, directories, producer, sharepoint, Typed, TypeInvariant, HistoryTyped
  <1>2. LoopTyped'
    BY <1>1 DEF SendDone, Done, LoopTyped, Typed, TypeInvariant, tick, delivery, InHand
  <1> QED BY <1>1, <1>2, LoopStepTyped

LEMMA CopyFileTyped == Typed /\ CopyFile => Typed'
  <1> SUFFICES ASSUME Typed, CopyFile PROVE Typed'
    OBVIOUS
  <1>1. UNCHANGED <<queue, processed, produced, queued, clock, stopping, task, files, now>>
    BY DEF CopyFile, directories, producer, tick
  <1>2. pc = "copy" /\ hand \in DOMAIN queue
    BY DEF CopyFile, Typed, TypeInvariant, LoopTyped, InHand
  <1>3. faults' \in Nat /\ breaks' \in Nat
    BY DEF CopyFile, Typed, TypeInvariant, HistoryTyped
  <1>4. landed' \subseteq queued /\ resent' \subseteq landed'
    <2> DEFINE S == IF queue[hand].whole THEN queue[hand].items ELSE {}
    <2>1. S \subseteq queued
      BY <1>2 DEF Typed, WholeAreQueued
    <2>2. CASE Lands(S)
      <3> HIDE DEF S
      <3> QED BY <2>1, <2>2, LandsTyped
    <2>3. CASE UNCHANGED sharepoint
      BY <2>3 DEF sharepoint, Typed, TypeInvariant, HistoryTyped
    <2> QED BY <2>2, <2>3 DEF CopyFile
  <1>5. LoopTyped'
    BY <1>1, <1>2 DEF CopyFile, Done, delivery, LoopTyped, Typed, TypeInvariant, InHand
  <1> QED BY <1>1, <1>3, <1>4, <1>5, LandingStepTyped

LEMMA MoveSourceTyped == Typed /\ MoveSource => Typed'
  <1> SUFFICES ASSUME Typed, MoveSource PROVE Typed'
    OBVIOUS
  <1>1. UNCHANGED <<processed, produced, queued, landed, resent, clock, stopping, task, files, now,
                    hand, todo, failed, faults, breaks>> /\ pc = "moved" /\ pc' = "archive"
    BY DEF MoveSource, producer, sharepoint, tick, delivery
  <1>2. DOMAIN queue' \subseteq DOMAIN queue /\ \A n \in DOMAIN queue' : queue'[n] = queue[n]
    BY DEF MoveSource, Without
  <1>3. QueueTyped' /\ WholeAreQueued'
    BY <1>1, <1>2 DEF QueueTyped, WholeAreQueued, Typed, TypeInvariant
  <1>4. HistoryTyped'
    BY <1>1 DEF HistoryTyped, Typed, TypeInvariant
  <1>5. LoopTyped'
    BY <1>1 DEF LoopTyped, Typed, TypeInvariant, InHand
  <1> QED BY <1>3, <1>4, <1>5 DEF Typed, TypeInvariant

LEMMA WriteResidueTyped == Typed /\ WriteResidue => Typed'
  <1> SUFFICES ASSUME Typed, WriteResidue PROVE Typed'
    OBVIOUS
  <1>1. UNCHANGED <<processed, produced, queued, landed, resent, clock, stopping, task, files, now>>
        /\ faults' \in Nat /\ breaks' \in Nat
    BY DEF WriteResidue, producer, sharepoint, tick, Typed, TypeInvariant, HistoryTyped
  <1>2. pc = "residue" /\ hand \in DOMAIN queue /\ hand \in Name /\ queue[hand].whole
        /\ failed \subseteq queue[hand].items
    BY DEF WriteResidue, Typed, TypeInvariant, LoopTyped, InHand
  <1>3. HistoryTyped'
    BY <1>1 DEF HistoryTyped, Typed, TypeInvariant
  <1>4. pc' \in {"files", "archive"} /\ (pc' = "files" => hand' = NoFile /\ todo' = {} /\ failed' = {})
        /\ (pc' = "archive" => hand' = hand)
    BY DEF WriteResidue, Done, delivery
  <1>5. LoopTyped'
    BY <1>1, <1>2, <1>4 DEF LoopTyped, Typed, TypeInvariant, InHand
  <1>6. QueueTyped' /\ WholeAreQueued'
    <2> DEFINE n == RetryName(hand)
               f == [items |-> failed, whole |-> TRUE, mtime |-> clock]
    <2>1. CASE UNCHANGED queue
      BY <1>1, <2>1 DEF QueueTyped, WholeAreQueued, Typed, TypeInvariant
    <2>2. CASE queue' = Put(queue, n, f)
      <3>1. clock \in 1..MaxClock /\ queue[hand] \in File /\ queue[hand].items \subseteq queued
        BY <1>2 DEF Typed, TypeInvariant, HistoryTyped, QueueTyped, WholeAreQueued
      <3>2. f \in File /\ f.mtime <= clock /\ f.items \subseteq queued
        BY <1>2, <3>1 DEF File
      <3>3. n \in Name /\ n[2] <= clock
        BY <1>2, <3>1 DEF RetryName, Name
      <3> HIDE DEF n, f
      <3>4. DOMAIN queue' = DOMAIN queue \cup {n} /\ queue'[n] = f
            /\ \A m \in DOMAIN queue : m # n => queue'[m] = queue[m]
        BY <2>2 DEF Put
      <3> QED BY <1>1, <3>2, <3>3, <3>4 DEF QueueTyped, WholeAreQueued, Typed, TypeInvariant
    <2> QED BY <2>1, <2>2 DEF WriteResidue
  <1> QED BY <1>3, <1>5, <1>6 DEF Typed, TypeInvariant

LEMMA ArchiveTyped == Typed /\ Archive => Typed'
  <1> SUFFICES ASSUME Typed, Archive PROVE Typed'
    OBVIOUS
  <1>1. UNCHANGED <<produced, queued, landed, resent, clock, stopping, task, files, now>>
        /\ faults' \in Nat /\ breaks' \in Nat
    BY DEF Archive, producer, sharepoint, tick, Typed, TypeInvariant, HistoryTyped
  <1>2. pc = "archive" /\ pc' = "files" /\ hand \in Name
        /\ hand' = NoFile /\ todo' = {} /\ failed' = {}
    BY DEF Archive, Done, Typed, TypeInvariant, LoopTyped
  <1>3. LoopTyped'
    BY <1>1, <1>2 DEF LoopTyped, Typed, TypeInvariant, InHand
  <1>4. DOMAIN queue' \subseteq DOMAIN queue /\ \A n \in DOMAIN queue' : queue'[n] = queue[n]
    BY DEF Archive, directories, Without
  <1>5. QueueTyped' /\ WholeAreQueued'
    BY <1>1, <1>4 DEF QueueTyped, WholeAreQueued, Typed, TypeInvariant
  <1>6. DOMAIN processed' \subseteq Name /\ \A n \in DOMAIN processed' : processed'[n] \subseteq Item
    <2>1. CASE UNCHANGED directories
      BY <2>1 DEF directories, Typed, TypeInvariant, HistoryTyped
    <2>2. CASE hand \in DOMAIN queue /\ processed' = Put(processed, hand, queue[hand].items)
      <3>1. queue[hand].items \subseteq Item
        BY <2>2 DEF Typed, TypeInvariant, QueueTyped, File
      <3> QED BY <1>2, <2>2, <3>1 DEF Put, Typed, TypeInvariant, HistoryTyped
    <2> QED BY <2>1, <2>2 DEF Archive
  <1>7. HistoryTyped'
    BY <1>1, <1>6 DEF HistoryTyped, Typed, TypeInvariant
  <1> QED BY <1>3, <1>5, <1>7 DEF Typed, TypeInvariant

LEMMA StepTyped == Typed /\ [Next]_vars => Typed'
  <1> SUFFICES ASSUME Typed, [Next]_vars PROVE Typed'
    OBVIOUS
  <1>1. CASE Environment
    BY <1>1, BeginFileTyped, FinishFileTyped, TimeTyped, StopTyped DEF Environment
  <1>2. CASE Loop
    BY <1>2, TickTyped, TakeFileTyped, SendItemTyped, SendDoneTyped, CopyFileTyped,
       MoveSourceTyped, WriteResidueTyped, ArchiveTyped DEF Loop
  <1>3. CASE Restart
    BY <1>3, StopTyped
  <1>4. CASE UNCHANGED vars
    <2>1. LoopTyped'
      BY <1>4 DEF vars, Typed, TypeInvariant, LoopTyped
    <2>2. faults' \in Nat /\ breaks' \in Nat
      BY <1>4 DEF vars, Typed, TypeInvariant, HistoryTyped
    <2> QED BY <1>4, <2>1, <2>2, LoopStepTyped DEF vars
  <1> QED BY <1>1, <1>2, <1>3, <1>4 DEF Next

\* Whatever the tasks, the faults and the crashes, nothing lands that was not
\* queued, no file is stamped in the future, and the loop works on a file of the
\* Queue and on items of it.
THEOREM ForwarderTypeCorrect == Spec => []TypeInvariant
  <1>1. Typed => TypeInvariant
    BY DEF Typed
  <1> QED BY <1>1, InitTyped, StepTyped, PTL DEF Spec

----------------------------------------------------------------------------
(* Nothing is lost, and Delivery is implemented *)

\* No producer uses a name twice; and no task copies files, or no producer pauses
\* for as long as a file must have been still.
FinishedOnly ==
    /\ ~ReuseNames
    /\ \/ \A t \in DOMAIN Tasks : Tasks[t].action # "copy"
       \/ QuietSeconds > 0 /\ ~StallingProducers

\* When producers do not pause, a file that has been still is finished.
Young ==
    QuietSeconds > 0 /\ ~StallingProducers =>
        \A n \in DOMAIN queue : ~queue[n].whole => clock - queue[n].mtime < QuietSeconds

\* A producer has begun a file under the stem.
Begun(s) == \E g \in DOMAIN produced : produced[g] = s

\* The items of a file were queued under its stem; a stem has one unfinished file
\* or finished ones; what is owed is in every finished one, and there is one.
FilesSafe ==
    /\ \A n \in DOMAIN queue : Begun(n[1])
    /\ \A n \in DOMAIN queue : \A i \in queue[n].items :
          i[1] \in DOMAIN produced /\ produced[i[1]] = n[1]
    /\ \A i \in queued : i[1] \in DOMAIN produced
    /\ \A m, n \in DOMAIN queue : ~queue[n].whole /\ m[1] = n[1] => m = n
    /\ OwedInFiles /\ NothingLost

\* The loop copies and archives finished files, and writes a residue once it has
\* tried every item.
LoopSafe ==
    /\ pc \in {"copy", "moved"} => queue[hand].whole
    /\ pc = "archive" =>
         Begun(hand[1]) /\ \A n \in DOMAIN queue : n[1] = hand[1] => queue[n].whole
    /\ pc = "residue" => todo = {}
    /\ OwedInHand

Safe == FilesSafe /\ LoopSafe

LEMMA InitYoung == Init => Young
  BY DEF Init, Young

LEMMA InitSafe == Init => Safe
  BY DEF Init, Safe, FilesSafe, LoopSafe, OwedInFiles, OwedInHand, NothingLost, Begun

\* A step that may only land items and move the loop on.
LEMMA StableFiles ==
    ASSUME Typed, FilesSafe, UNCHANGED <<queue, produced, queued>>, landed \subseteq landed'
    PROVE  FilesSafe' /\ \A s : Unlanded(s)' \subseteq Unlanded(s)
  <1>1. \A s : Unlanded(s)' \subseteq Unlanded(s)
    BY DEF Unlanded
  <1>2. OwedInFiles'
    BY <1>1 DEF FilesSafe, OwedInFiles
  <1>3. NothingLost'
    BY DEF FilesSafe, NothingLost
  <1> QED BY <1>1, <1>2, <1>3 DEF FilesSafe, Begun

LEMMA BeginFileSafe ==
    ASSUME ~ReuseNames, Typed, Safe, NEW s \in Stem, BeginFile(s)
    PROVE  Safe'
  <1> DEFINE k == Len(produced) + 1
             n == <<s, 0>>
             f == [items |-> ItemsOf(k), whole |-> FALSE, mtime |-> clock]
  <1>1. queue' = Put(queue, n, f) /\ n \notin DOMAIN queue /\ produced' = Append(produced, s)
        /\ \A g \in DOMAIN produced : produced[g] # s
    BY DEF BeginFile
  <1>2. UNCHANGED <<queued, landed, pc, hand, todo, failed>>
    BY DEF BeginFile, sharepoint, delivery
  <1>3. n[1] = s /\ ~f.whole /\ \A i \in f.items : i[1] = k
    BY DEF ItemsOf
  <1>4. produced \in Seq(Stem)
    BY DEF Typed, TypeInvariant, HistoryTyped
  <1>5. k \in DOMAIN produced' /\ produced'[k] = s /\ DOMAIN produced \subseteq DOMAIN produced'
        /\ \A g \in DOMAIN produced : produced'[g] = produced[g]
    BY <1>1, <1>4
  <1> HIDE DEF k, n, f
  <1>6. DOMAIN queue' = DOMAIN queue \cup {n} /\ queue'[n] = f
        /\ \A m \in DOMAIN queue : queue'[m] = queue[m]
    BY <1>1 DEF Put
  <1>7. \A t : Unlanded(t)' = Unlanded(t)
    BY <1>2, <1>5 DEF Unlanded, Safe, FilesSafe
  <1>8. ~Begun(s) /\ \A m \in DOMAIN queue : m[1] # s
    BY <1>1 DEF Safe, FilesSafe, Begun
  <1>9. FilesSafe'
    <2>1. \A m \in DOMAIN queue' : Begun(m[1])'
      BY <1>3, <1>5, <1>6 DEF Safe, FilesSafe, Begun
    <2>2. \A m \in DOMAIN queue' : \A i \in queue'[m].items :
             i[1] \in DOMAIN produced' /\ produced'[i[1]] = m[1]
      BY <1>3, <1>5, <1>6 DEF Safe, FilesSafe
    <2>3. \A i \in queued' : i[1] \in DOMAIN produced'
      BY <1>2, <1>5 DEF Safe, FilesSafe
    <2>4. \A l, m \in DOMAIN queue' : ~queue'[m].whole /\ l[1] = m[1] => l = m
      BY <1>3, <1>6, <1>8 DEF Safe, FilesSafe
    <2>5. OwedInFiles'
      BY <1>1, <1>2, <1>3, <1>5, <1>6, <1>7 DEF Safe, FilesSafe, OwedInFiles
    <2>6. NothingLost'
      BY <1>2, <1>6 DEF Safe, FilesSafe, NothingLost
    <2> QED BY <2>1, <2>2, <2>3, <2>4, <2>5, <2>6 DEF FilesSafe
  <1>10. LoopSafe'
    <2>1. pc \in {"copy", "moved"} => hand \in DOMAIN queue
      BY DEF Typed, TypeInvariant, LoopTyped, InHand
    <2>2. pc = "archive" => Begun(hand[1]) /\ Begun(hand[1])' /\ hand[1] # s
      BY <1>2, <1>5, <1>8 DEF Safe, LoopSafe, Begun
    <2> QED BY <1>2, <1>3, <1>6, <1>7, <2>1, <2>2 DEF Safe, LoopSafe, OwedInHand
  <1> QED BY <1>9, <1>10 DEF Safe

LEMMA FinishFileSafe ==
    ASSUME Typed, Safe, NEW n \in DOMAIN queue, FinishFile(n)
    PROVE  Safe'
  <1>1. DOMAIN queue' = DOMAIN queue /\ (\A m \in DOMAIN queue : m # n => queue'[m] = queue[m])
        /\ queue'[n].items = queue[n].items /\ queue'[n].whole /\ ~queue[n].whole
    BY DEF FinishFile
  <1>2. UNCHANGED <<produced, landed, pc, hand, todo, failed>> /\ queued' = queued \cup queue[n].items
    BY DEF FinishFile, sharepoint, delivery
  <1>3. \A i \in queue[n].items : i[1] \in DOMAIN produced /\ produced[i[1]] = n[1]
    BY DEF Safe, FilesSafe
  <1>4. \A m \in DOMAIN queue : m # n => m[1] # n[1]
    BY <1>1 DEF Safe, FilesSafe
  <1>5. \A i \in queued : produced[i[1]] # n[1]
    BY <1>1 DEF Safe, FilesSafe, OwedInFiles
  <1>6. \A s : s # n[1] => Unlanded(s)' = Unlanded(s)
    BY <1>2, <1>3 DEF Unlanded
  <1>7. Unlanded(n[1])' \subseteq queue[n].items
    BY <1>2, <1>5 DEF Unlanded
  <1>8. FilesSafe'
    <2>1. \A m \in DOMAIN queue' : \A i \in queue'[m].items :
             i[1] \in DOMAIN produced' /\ produced'[i[1]] = m[1]
      BY <1>1, <1>2 DEF Safe, FilesSafe
    <2>2. \A i \in queued' : i[1] \in DOMAIN produced'
      BY <1>2, <1>3 DEF Safe, FilesSafe
    <2>3. OwedInFiles'
      <3> SUFFICES ASSUME NEW m \in DOMAIN queue
                   PROVE  IF queue'[m].whole THEN Unlanded(m[1])' \subseteq queue'[m].items
                                             ELSE \A i \in queued' : produced'[i[1]] # m[1]
        BY <1>1 DEF OwedInFiles
      <3>1. CASE m = n
        BY <1>1, <1>7, <3>1
      <3>2. CASE m # n
        BY <1>1, <1>2, <1>3, <1>4, <1>6, <3>2 DEF Safe, FilesSafe, OwedInFiles
      <3> QED BY <3>1, <3>2
    <2>4. NothingLost'
      BY <1>1, <1>2 DEF Safe, FilesSafe, NothingLost
    <2>5. \A l, m \in DOMAIN queue' : ~queue'[m].whole /\ l[1] = m[1] => l = m
      BY <1>1 DEF Safe, FilesSafe
    <2>6. \A m \in DOMAIN queue' : Begun(m[1])'
      BY <1>1, <1>2 DEF Safe, FilesSafe, Begun
    <2> QED BY <2>1, <2>2, <2>3, <2>4, <2>5, <2>6 DEF FilesSafe
  <1>9. LoopSafe'
    <2>1. pc \in {"send", "residue", "moved", "archive"} => hand[1] # n[1]
      BY <1>1, <1>4 DEF Safe, LoopSafe, Typed, TypeInvariant, LoopTyped, InHand
    <2>2. pc \in {"send", "residue", "moved", "archive"} => Unlanded(hand[1])' = Unlanded(hand[1])
      BY <1>2, <1>6, <2>1
    <2>3. pc \in {"copy", "moved"} => hand \in DOMAIN queue
      BY DEF Typed, TypeInvariant, LoopTyped, InHand
    <2>4. \A m \in DOMAIN queue : queue[m].whole => queue'[m].whole
      BY <1>1
    <2>5. Begun(hand[1])' <=> Begun(hand[1])
      BY <1>2 DEF Begun
    <2> QED BY <1>1, <1>2, <2>2, <2>3, <2>4, <2>5 DEF Safe, LoopSafe, OwedInHand
  <1> QED BY <1>8, <1>9 DEF Safe

\* A step between files, and any step that drops the file in hand.
LEMMA IdleSafe ==
    ASSUME Typed, Safe, UNCHANGED <<queue, produced, queued, landed>>,
           pc' \in {"down", "idle", "task", "files"}
    PROVE  Safe'
  <1>1. FilesSafe'
    BY StableFiles DEF Safe
  <1>2. LoopSafe'
    BY DEF LoopSafe, OwedInHand
  <1> QED BY <1>1, <1>2 DEF Safe

\* A step that leaves the file in hand where it is.
LEMMA StutterSafe ==
    ASSUME Typed, Safe, UNCHANGED <<queue, produced, queued, landed, pc, hand, todo, failed>>
    PROVE  Safe'
  <1>1. FilesSafe'
    BY StableFiles DEF Safe
  <1>2. LoopSafe'
    BY StableFiles DEF Safe, LoopSafe, OwedInHand, Begun
  <1> QED BY <1>1, <1>2 DEF Safe

LEMMA TakeFileSafe == ASSUME FinishedOnly, Typed, Young, Safe, TakeFile PROVE Safe'
  <1>1. UNCHANGED <<queue, produced, queued, landed>> /\ pc = "files"
    BY DEF TakeFile, directories, producer, sharepoint
  <1>2. CASE pc' \in {"files", "task", "idle"}
    BY <1>1, <1>2, IdleSafe
  <1>3. CASE pc' = "send"
    <2>1. hand' \in DOMAIN queue /\ queue[hand'].whole /\ todo' = queue[hand'].items
      BY <1>1, <1>3 DEF TakeFile, IsReady
    <2>2. FilesSafe'
      BY <1>1, StableFiles DEF Safe
    <2>3. \A i \in queued \ landed : produced[i[1]] = hand'[1] => i \in todo'
      BY <2>1 DEF Safe, FilesSafe, OwedInFiles, Unlanded
    <2>4. LoopSafe'
      BY <1>1, <1>3, <2>3 DEF LoopSafe, OwedInHand, Unlanded
    <2> QED BY <2>2, <2>4 DEF Safe
  <1>4. CASE pc' = "copy"
    <2>1. task \in DOMAIN Tasks
      BY <1>1 DEF Typed, TypeInvariant, LoopTyped
    <2>2. Tasks[task].action = "copy" /\ hand' \in DOMAIN queue /\ now - queue[hand'].mtime >= QuietSeconds
      BY <1>1, <1>4 DEF TakeFile, IsReady
    <2>3. QuietSeconds > 0 /\ ~StallingProducers
      BY <2>1, <2>2 DEF FinishedOnly
    <2>4. queue[hand'].whole
      <3>1. queue[hand'].mtime \in Nat /\ now \in Nat /\ clock \in Nat /\ now <= clock
        BY <2>2 DEF Typed, TypeInvariant, QueueTyped, HistoryTyped, LoopTyped, File
      <3>2. ~queue[hand'].whole => clock - queue[hand'].mtime < QuietSeconds
        BY <2>2, <2>3 DEF Young
      <3>3. QuietSeconds \in Nat
        OBVIOUS
      <3> QED BY <2>2, <3>1, <3>2, <3>3
    <2>5. LoopSafe'
      BY <1>1, <1>4, <2>4 DEF LoopSafe, OwedInHand
    <2>6. FilesSafe'
      BY <1>1, StableFiles DEF Safe
    <2> QED BY <2>5, <2>6 DEF Safe
  <1> QED BY <1>1, <1>2, <1>3, <1>4 DEF TakeFile

LEMMA SendItemSafe == ASSUME Typed, Safe, NEW i \in todo, SendItem(i) PROVE Safe'
  <1>1. UNCHANGED <<queue, produced, queued, pc, hand>> /\ pc = "send" /\ todo' = todo \ {i}
    BY DEF SendItem, directories, producer
  <1>2. landed' = landed \cup {i} \/ (landed' = landed /\ i \in failed')
    <2>1. CASE Lands({i})
      BY <2>1 DEF Lands
    <2>2. CASE failed' = failed \cup {i} /\ UNCHANGED sharepoint
      BY <2>2 DEF sharepoint
    <2> QED BY <2>1, <2>2 DEF SendItem
  <1>3. failed \subseteq failed'
    BY DEF SendItem
  <1>4. landed \subseteq landed'
    BY <1>2
  <1>5. FilesSafe' /\ Unlanded(hand[1])' \subseteq Unlanded(hand[1])
    BY <1>1, <1>4, StableFiles DEF Safe
  <1>6. i \in landed' => i \notin Unlanded(hand[1])'
    BY DEF Unlanded
  <1>7. Unlanded(hand[1])' \subseteq todo' \cup failed'
    BY <1>1, <1>2, <1>3, <1>5, <1>6 DEF Safe, LoopSafe, OwedInHand
  <1>8. LoopSafe'
    BY <1>1, <1>7 DEF LoopSafe, OwedInHand
  <1> QED BY <1>5, <1>8 DEF Safe

LEMMA SendDoneSafe == ASSUME Typed, Safe, SendDone PROVE Safe'
  <1>1. UNCHANGED <<queue, produced, queued, landed>> /\ pc = "send" /\ todo = {}
    BY DEF SendDone, directories, producer, sharepoint
  <1>2. FilesSafe' /\ \A s : s = hand[1] => Unlanded(s)' \subseteq failed
    BY <1>1, StableFiles DEF Safe, LoopSafe, OwedInHand
  <1>3. hand \in DOMAIN queue /\ queue[hand].whole
    BY <1>1 DEF Typed, TypeInvariant, LoopTyped, InHand
  <1>4. Begun(hand[1]) /\ \A n \in DOMAIN queue : n[1] = hand[1] => queue[n].whole
    BY <1>3 DEF Safe, FilesSafe
  <1>5. CASE Done
    BY <1>1, <1>5, IdleSafe DEF Done
  <1>6. CASE ~Done
    <2>1. UNCHANGED <<hand, todo, failed>> /\ ((pc' = "archive" /\ failed = {}) \/ pc' = "residue")
      BY <1>6 DEF SendDone, delivery
    <2>2. LoopSafe'
      BY <1>1, <1>2, <1>4, <2>1 DEF LoopSafe, OwedInHand, Begun
    <2> QED BY <1>2, <2>2 DEF Safe
  <1> QED BY <1>5, <1>6

LEMMA WriteResidueSafe == ASSUME Typed, Safe, WriteResidue PROVE Safe'
  <1> DEFINE n == RetryName(hand)
             f == [items |-> failed, whole |-> TRUE, mtime |-> clock]
  <1>1. UNCHANGED <<produced, queued, landed>> /\ pc = "residue"
    BY DEF WriteResidue, producer, sharepoint
  <1>2. CASE UNCHANGED queue /\ Done
    BY <1>1, <1>2, IdleSafe DEF Done
  <1>3. CASE /\ queue' = Put(queue, n, f)
             /\ IF n = hand THEN Done ELSE pc' = "archive" /\ UNCHANGED delivery
    <2>1. hand \in DOMAIN queue /\ queue[hand].whole /\ failed \subseteq queue[hand].items
          /\ Unlanded(hand[1]) \subseteq failed
      BY <1>1 DEF WriteResidue, Safe, LoopSafe, OwedInHand, Typed, TypeInvariant, LoopTyped, InHand
    <2>2. n[1] = hand[1] /\ f.items = failed /\ f.whole
      BY DEF RetryName
    <2> HIDE DEF n, f
    <2>3. DOMAIN queue' = DOMAIN queue \cup {n} /\ queue'[n] = f
          /\ \A m \in DOMAIN queue : m # n => queue'[m] = queue[m]
      BY <1>3 DEF Put
    <2>4. \A s : Unlanded(s)' = Unlanded(s)
      BY <1>1 DEF Unlanded
    <2>5. FilesSafe'
      <3>1. \A m \in DOMAIN queue' : Begun(m[1])'
        BY <1>1, <2>1, <2>2, <2>3 DEF Safe, FilesSafe, Begun
      <3>2. \A m \in DOMAIN queue' : \A i \in queue'[m].items :
               i[1] \in DOMAIN produced' /\ produced'[i[1]] = m[1]
        BY <1>1, <2>1, <2>2, <2>3 DEF Safe, FilesSafe
      <3>3. \A i \in queued' : i[1] \in DOMAIN produced'
        BY <1>1 DEF Safe, FilesSafe
      <3>4. \A l, m \in DOMAIN queue' : ~queue'[m].whole /\ l[1] = m[1] => l = m
        BY <2>1, <2>2, <2>3 DEF Safe, FilesSafe
      <3>5. OwedInFiles'
        BY <1>1, <2>1, <2>2, <2>3, <2>4 DEF Safe, FilesSafe, OwedInFiles
      <3>6. NothingLost'
        <4> SUFFICES ASSUME NEW i \in queued \ landed
                     PROVE  \E m \in DOMAIN queue' : queue'[m].whole /\ i \in queue'[m].items
          BY <1>1 DEF NothingLost
        <4>1. PICK m \in DOMAIN queue : queue[m].whole /\ i \in queue[m].items
          BY DEF Safe, FilesSafe, NothingLost
        <4>2. CASE m # n
          BY <2>3, <4>1, <4>2
        <4>3. CASE m = n
          <5>1. i \in Unlanded(hand[1])
            BY <2>2, <4>1, <4>3 DEF Unlanded, Safe, FilesSafe
          <5> QED BY <2>1, <2>2, <2>3, <5>1
        <4> QED BY <4>2, <4>3
      <3> QED BY <3>1, <3>2, <3>3, <3>4, <3>5, <3>6 DEF FilesSafe
    <2>6. LoopSafe'
      <3>1. CASE n = hand
        BY <1>3, <3>1 DEF Done, LoopSafe, OwedInHand
      <3>2. CASE n # hand
        <4>1. pc' = "archive" /\ hand' = hand
          BY <1>3, <3>2 DEF delivery
        <4>2. Begun(hand[1]) /\ \A m \in DOMAIN queue' : m[1] = hand[1] => queue'[m].whole
          BY <1>1, <2>1, <2>2, <2>3 DEF Safe, FilesSafe
        <4>3. n \in DOMAIN queue' \ {hand} /\ queue'[n].whole
          BY <2>2, <2>3, <3>2
        <4> QED BY <1>1, <2>2, <4>1, <4>2, <4>3 DEF LoopSafe, OwedInHand, Begun
      <3> QED BY <3>1, <3>2
    <2> QED BY <2>5, <2>6 DEF Safe
  <1> QED BY <1>2, <1>3 DEF WriteResidue

\* The file in hand may leave the Queue once nothing of its stem is owed, or another
\* finished file of the stem is there.
LEMMA SetAsideSafe ==
    ASSUME Typed, FilesSafe, UNCHANGED <<produced, queued, landed>>, queue' = Without(queue, hand),
           \/ Unlanded(hand[1]) = {}
           \/ \E n \in DOMAIN queue \ {hand} : n[1] = hand[1] /\ queue[n].whole
    PROVE  FilesSafe'
  <1>1. DOMAIN queue' = DOMAIN queue \ {hand} /\ \A m \in DOMAIN queue' : queue'[m] = queue[m]
    BY DEF Without
  <1>2. \A s : Unlanded(s)' = Unlanded(s)
    BY DEF Unlanded
  <1>3. OwedInFiles'
    BY <1>1, <1>2 DEF FilesSafe, OwedInFiles
  <1>4. NothingLost'
    <2> SUFFICES ASSUME NEW i \in queued \ landed
                 PROVE  \E m \in DOMAIN queue' : queue'[m].whole /\ i \in queue'[m].items
      BY DEF NothingLost
    <2>1. PICK m \in DOMAIN queue : queue[m].whole /\ i \in queue[m].items
      BY DEF FilesSafe, NothingLost
    <2>2. CASE m # hand
      BY <1>1, <2>1, <2>2
    <2>3. CASE m = hand
      <3>1. i \in Unlanded(hand[1])
        BY <2>1, <2>3 DEF Unlanded, FilesSafe
      <3>2. PICK l \in DOMAIN queue \ {hand} : l[1] = hand[1] /\ queue[l].whole
        BY <3>1
      <3>3. i \in queue[l].items
        BY <3>1, <3>2 DEF FilesSafe, OwedInFiles
      <3> QED BY <1>1, <3>2, <3>3
    <2> QED BY <2>2, <2>3
  <1> QED BY <1>1, <1>3, <1>4 DEF FilesSafe, Begun

\* A finished file is copied with everything that is owed of its stem.
LEMMA CopyFileSafe == ASSUME Typed, Safe, CopyFile PROVE Safe'
  <1>1. UNCHANGED <<queue, produced, queued>> /\ pc = "copy"
    BY DEF CopyFile, directories, producer
  <1>2. hand \in DOMAIN queue /\ queue[hand].whole
    BY <1>1 DEF Safe, LoopSafe, Typed, TypeInvariant, LoopTyped, InHand
  <1>3. CASE UNCHANGED sharepoint /\ Done
    BY <1>1, <1>3, IdleSafe DEF Done, sharepoint
  <1>4. CASE /\ Lands(queue[hand].items)
             /\ pc' \in {"moved", "archive"} /\ UNCHANGED delivery
    <2>1. landed' = landed \cup queue[hand].items /\ hand' = hand
      BY <1>4 DEF Lands, delivery
    <2>2. FilesSafe'
      BY <1>1, <2>1, StableFiles DEF Safe
    <2>3. Unlanded(hand[1])' = {}
      <3>1. Unlanded(hand[1]) \subseteq queue[hand].items
        BY <1>2 DEF Safe, FilesSafe, OwedInFiles
      <3> QED BY <1>1, <2>1, <3>1 DEF Unlanded
    <2>4. Begun(hand[1]) /\ \A n \in DOMAIN queue : n[1] = hand[1] => queue[n].whole
      BY <1>2 DEF Safe, FilesSafe
    <2>5. LoopSafe'
      BY <1>1, <1>2, <1>4, <2>1, <2>3, <2>4 DEF LoopSafe, OwedInHand, Begun
    <2> QED BY <2>2, <2>5 DEF Safe
  <1> QED BY <1>2, <1>3, <1>4 DEF CopyFile

LEMMA MoveSourceSafe == ASSUME Typed, Safe, MoveSource PROVE Safe'
  <1>1. /\ UNCHANGED <<produced, queued, landed, hand>> /\ queue' = Without(queue, hand)
        /\ pc = "moved" /\ pc' = "archive"
    BY DEF MoveSource, producer, sharepoint, delivery
  <1>2. Unlanded(hand[1]) = {} /\ hand \in DOMAIN queue /\ queue[hand].whole
    BY <1>1 DEF Safe, LoopSafe, OwedInHand, Typed, TypeInvariant, LoopTyped, InHand
  <1>3. FilesSafe'
    BY <1>1, <1>2, SetAsideSafe DEF Safe
  <1>4. Unlanded(hand[1])' = {}
    BY <1>1, <1>2 DEF Unlanded
  <1>5. Begun(hand[1])' /\ \A n \in DOMAIN queue' : n[1] = hand[1] => queue'[n].whole
    BY <1>1, <1>2 DEF Safe, FilesSafe, Begun, Without
  <1>6. LoopSafe'
    BY <1>1, <1>4, <1>5 DEF LoopSafe, OwedInHand
  <1> QED BY <1>3, <1>6 DEF Safe

LEMMA ArchiveSafe == ASSUME Typed, Safe, Archive PROVE Safe'
  <1>1. UNCHANGED <<produced, queued, landed>> /\ pc = "archive" /\ pc' = "files"
    BY DEF Archive, Done, producer, sharepoint
  <1>2. CASE UNCHANGED queue
    BY <1>1, <1>2, IdleSafe
  <1>3. CASE queue' = Without(queue, hand)
    <2>1. FilesSafe'
      BY <1>1, <1>3, SetAsideSafe DEF Safe, LoopSafe, OwedInHand
    <2>2. LoopSafe'
      BY <1>1 DEF LoopSafe, OwedInHand
    <2> QED BY <2>1, <2>2 DEF Safe
  <1> QED BY <1>2, <1>3 DEF Archive, directories

\* Time passes only while every unfinished file is young.
LEMMA YoungStep == Typed /\ Young /\ [Next]_vars => Young'
  <1> SUFFICES ASSUME Typed, Young, [Next]_vars, QuietSeconds > 0, ~StallingProducers,
                      NEW n \in DOMAIN queue', ~queue'[n].whole
               PROVE  (clock - queue[n].mtime < QuietSeconds)'
    BY DEF Young
  <1>1. CASE n \in DOMAIN queue /\ queue'[n] = queue[n] /\ clock' = clock
    BY <1>1 DEF Young
  <1>2. CASE TimePasses
    <2>1. queue' = queue /\ clock' = clock + 1
      BY <1>2 DEF TimePasses, directories
    <2>2. \A m \in DOMAIN queue : ~queue[m].whole => clock + 1 - queue[m].mtime < QuietSeconds
      BY <1>2 DEF TimePasses
    <2>3. n \in DOMAIN queue /\ ~queue[n].whole
      BY <2>1
    <2>4. clock + 1 - queue[n].mtime < QuietSeconds
      BY <2>2, <2>3
    <2>5. clock \in Nat /\ queue[n].mtime \in Nat
      BY <2>3 DEF Typed, TypeInvariant, HistoryTyped, QueueTyped, File
    <2> QED BY <2>1, <2>4, <2>5
  <1>3. ASSUME NEW s \in Stem, BeginFile(s) PROVE (clock - queue[n].mtime < QuietSeconds)'
    <2> DEFINE f == [items |-> ItemsOf(Len(produced) + 1), whole |-> FALSE, mtime |-> clock]
    <2>1. queue' = Put(queue, <<s, 0>>, f) /\ clock' = clock
      BY <1>3 DEF BeginFile
    <2>2. f.mtime = clock /\ clock \in Nat
      BY DEF Typed, TypeInvariant, HistoryTyped
    <2> HIDE DEF f
    <2>3. queue'[n] = f \/ (n \in DOMAIN queue /\ queue'[n] = queue[n])
      BY <2>1 DEF Put
    <2>4. CASE queue'[n] = f
      BY <2>1, <2>2, <2>4
    <2> QED BY <1>1, <2>1, <2>3, <2>4
  <1>4. ASSUME NEW m \in DOMAIN queue, FinishFile(m) PROVE (clock - queue[n].mtime < QuietSeconds)'
    <2>1. n \in DOMAIN queue /\ (n # m => queue'[n] = queue[n]) /\ (n = m => queue'[n].whole)
          /\ clock' = clock
      BY <1>4 DEF FinishFile
    <2> QED BY <1>1, <2>1
  <1>5. CASE WriteResidue
    <2> DEFINE f == [items |-> failed, whole |-> TRUE, mtime |-> clock]
    <2>1. clock' = clock /\ (queue' = queue \/ queue' = Put(queue, RetryName(hand), f))
      BY <1>5 DEF WriteResidue
    <2>2. f.whole
      OBVIOUS
    <2> HIDE DEF f
    <2>3. n \in DOMAIN queue /\ queue'[n] = queue[n]
      BY <2>1, <2>2 DEF Put
    <2> QED BY <1>1, <2>1, <2>3
  <1>6. CASE MoveSource \/ Archive
    <2>1. clock' = clock /\ (queue' = queue \/ queue' = Without(queue, hand))
      BY <1>6 DEF MoveSource, Archive, directories
    <2> QED BY <1>1, <2>1 DEF Without
  <1>7. CASE UNCHANGED <<queue, clock>>
    BY <1>1, <1>7
  <1>8. CASE \/ RequestStop \/ Crash \/ Restart \/ StartTick \/ TakeTask \/ EndTick \/ TakeFile
             \/ SendDone \/ CopyFile \/ (\E i \in todo : SendItem(i)) \/ UNCHANGED vars
    BY <1>7, <1>8 DEF RequestStop, Crash, Restart, StartTick, TakeTask, EndTick, TakeFile,
                      SendDone, CopyFile, SendItem, vars, directories
  <1> QED BY <1>2, <1>3, <1>4, <1>5, <1>6, <1>8 DEF Next, Environment, Loop

LEMMA StepSafe == ASSUME FinishedOnly, Typed, Young, Safe, [Next]_vars PROVE Safe'
  <1>1. CASE Environment
    <2>1. ASSUME NEW s \in Stem, BeginFile(s) PROVE Safe'
      BY <2>1, BeginFileSafe DEF FinishedOnly
    <2>2. ASSUME NEW n \in DOMAIN queue, FinishFile(n) PROVE Safe'
      BY <2>2, FinishFileSafe
    <2>3. CASE TimePasses \/ RequestStop
      BY <2>3, StutterSafe DEF TimePasses, RequestStop, directories, producer, sharepoint, delivery
    <2>4. CASE Crash
      BY <2>4, IdleSafe DEF Crash, directories, producer, sharepoint
    <2> QED BY <1>1, <2>1, <2>2, <2>3, <2>4 DEF Environment
  <1>2. CASE StartTick \/ EndTick \/ Restart
    BY <1>2, IdleSafe DEF StartTick, EndTick, Restart, directories, producer, sharepoint
  <1>3. CASE TakeTask
    <2>1. UNCHANGED <<queue, produced, queued, landed>> /\ pc' \in {"idle", "task", "files"}
      BY <1>3 DEF TakeTask, directories, producer, sharepoint
    <2> QED BY <2>1, IdleSafe
  <1>4. CASE CopyFile \/ MoveSource
    BY <1>4, CopyFileSafe, MoveSourceSafe
  <1>5. CASE UNCHANGED vars
    BY <1>5, StutterSafe DEF vars
  <1>6. ASSUME NEW i \in todo, SendItem(i) PROVE Safe'
    BY <1>6, SendItemSafe
  <1> QED
    BY <1>1, <1>2, <1>3, <1>4, <1>5, <1>6, TakeFileSafe, SendDoneSafe, WriteResidueSafe, ArchiveSafe
       DEF Next, Loop

\* However ticks, crashes and failures interleave, an item of a finished file that
\* has not landed is in a file of the Queue.
THEOREM NothingLostHolds == FinishedOnly => (Spec => []NothingLost)
  <1> SUFFICES ASSUME FinishedOnly PROVE Spec => []NothingLost
    OBVIOUS
  <1>1. Init => Typed /\ Young /\ Safe
    BY InitTyped, InitYoung, InitSafe
  <1>2. Typed /\ Young /\ Safe /\ [Next]_vars => (Typed /\ Young /\ Safe)'
    BY StepTyped, YoungStep, StepSafe
  <1>3. Safe => NothingLost
    BY DEF Safe, FilesSafe
  <1> QED BY <1>1, <1>2, <1>3, PTL DEF Spec

\* What is owed under a stem is in every file of that stem, and in the hands of
\* the loop while it works on one of them.
THEOREM OwedIsEverywhereHolds == FinishedOnly => (Spec => []OwedIsEverywhere)
  <1> SUFFICES ASSUME FinishedOnly PROVE Spec => []OwedIsEverywhere
    OBVIOUS
  <1>1. Init => Typed /\ Young /\ Safe
    BY InitTyped, InitYoung, InitSafe
  <1>2. Typed /\ Young /\ Safe /\ [Next]_vars => (Typed /\ Young /\ Safe)'
    BY StepTyped, YoungStep, StepSafe
  <1>3. Safe => OwedIsEverywhere
    BY DEF Safe, FilesSafe, LoopSafe, OwedIsEverywhere
  <1> QED BY <1>1, <1>2, <1>3, PTL DEF Spec

\* Every step of the Forwarder is one of Delivery, or does not touch what it is about.
LEMMA StepImplements ==
    ASSUME Typed, Safe, Typed', Safe', [Next]_vars
    PROVE  [Abstract!Next]_<<Pending, landed>>
  <1>1. Pending \subseteq queued /\ Pending' \subseteq queued' /\ queued \subseteq Item
    BY DEF Typed, TypeInvariant, HistoryTyped, WholeAreQueued, Pending
  \* The queue loses files at most: those items have landed.
  <1>2. ASSUME Pending' \subseteq Pending, UNCHANGED <<queued, landed>>
        PROVE  [Abstract!Next]_<<Pending, landed>>
    <2>1. Pending \ Pending' \subseteq landed
      BY <1>1, <1>2 DEF Safe, FilesSafe, NothingLost, Pending
    <2> DEFINE S == Pending \ Pending'
    <2>2. Abstract!SetAside(S)
      BY <1>2, <2>1 DEF Abstract!SetAside
    <2>3. S \in SUBSET Item
      BY <1>1
    <2> QED BY <2>2, <2>3 DEF Abstract!Next
  <1>3. ASSUME UNCHANGED <<queue, queued, landed>>
        PROVE  [Abstract!Next]_<<Pending, landed>>
    BY <1>3 DEF Pending
  <1>4. ASSUME NEW s \in Stem, BeginFile(s) PROVE [Abstract!Next]_<<Pending, landed>>
    <2> DEFINE n == <<s, 0>>
               f == [items |-> ItemsOf(Len(produced) + 1), whole |-> FALSE, mtime |-> clock]
    <2>1. queue' = Put(queue, n, f) /\ ~f.whole /\ n \notin DOMAIN queue /\ UNCHANGED <<queued, landed>>
      BY <1>4 DEF BeginFile, sharepoint
    <2> HIDE DEF n, f
    <2>2. DOMAIN queue' = DOMAIN queue \cup {n} /\ queue'[n] = f
          /\ \A m \in DOMAIN queue : queue'[m] = queue[m]
      BY <2>1 DEF Put
    <2>3. Pending' \subseteq Pending
      BY <2>1, <2>2 DEF Pending
    <2> QED BY <1>2, <2>1, <2>3
  <1>5. ASSUME NEW n \in DOMAIN queue, FinishFile(n) PROVE [Abstract!Next]_<<Pending, landed>>
    <2>1. DOMAIN queue' = DOMAIN queue /\ (\A m \in DOMAIN queue : m # n => queue'[m] = queue[m])
          /\ queue'[n].items = queue[n].items /\ queue'[n].whole /\ ~queue[n].whole
          /\ UNCHANGED landed
      BY <1>5 DEF FinishFile, sharepoint
    <2>2. Pending' = Pending \cup queue[n].items
      BY <2>1 DEF Pending
    <2>3. queue[n].items \cap queued = {}
      BY <2>1 DEF Safe, FilesSafe, OwedInFiles
    <2>4. landed \subseteq queued
      BY DEF Typed, TypeInvariant, HistoryTyped
    <2>5. Abstract!Queue(queue[n].items)
      BY <1>1, <2>1, <2>2, <2>3, <2>4 DEF Abstract!Queue
    <2>6. queue[n].items \in SUBSET Item
      BY <1>1, <2>2 DEF Typed, TypeInvariant, QueueTyped, File
    <2> QED BY <2>5, <2>6 DEF Abstract!Next
  <1>6. ASSUME NEW i \in todo, SendItem(i) PROVE [Abstract!Next]_<<Pending, landed>>
    <2>1. UNCHANGED <<queue, queued>> /\ pc = "send"
      BY <1>6 DEF SendItem, directories, producer
    <2>2. i \in Pending
      BY <2>1 DEF Typed, TypeInvariant, LoopTyped, InHand, Pending
    <2>3. CASE Lands({i})
      <3>1. Abstract!Land({i})
        BY <2>1, <2>2, <2>3 DEF Lands, Pending, Abstract!Land
      <3>2. {i} \in SUBSET Item
        BY <1>1, <2>2
      <3> QED BY <3>1, <3>2 DEF Abstract!Next
    <2>4. CASE UNCHANGED sharepoint
      BY <1>3, <2>1, <2>4 DEF sharepoint
    <2> QED BY <1>6, <2>3, <2>4 DEF SendItem
  <1>7. CASE WriteResidue
    <2> DEFINE n == RetryName(hand)
               f == [items |-> failed, whole |-> TRUE, mtime |-> clock]
    <2>1. UNCHANGED <<queued, landed>> /\ pc = "residue"
      BY <1>7 DEF WriteResidue, producer, sharepoint
    <2>2. hand \in DOMAIN queue /\ queue[hand].whole /\ failed \subseteq queue[hand].items
      BY <2>1 DEF Typed, TypeInvariant, LoopTyped, InHand
    <2>3. CASE UNCHANGED queue
      BY <1>3, <2>1, <2>3
    <2>4. CASE queue' = Put(queue, n, f)
      <3>1. f.items = failed
        OBVIOUS
      <3> HIDE DEF n, f
      <3>2. DOMAIN queue' = DOMAIN queue \cup {n} /\ queue'[n] = f
            /\ \A m \in DOMAIN queue : m # n => queue'[m] = queue[m]
        BY <2>4 DEF Put
      <3>3. Pending' \subseteq Pending
        BY <2>2, <3>1, <3>2 DEF Pending
      <3> QED BY <1>2, <2>1, <3>3
    <2> QED BY <1>7, <2>3, <2>4 DEF WriteResidue
  <1>8. CASE Archive
    <2>1. UNCHANGED <<queued, landed>>
      BY <1>8 DEF Archive, producer, sharepoint
    <2>2. CASE UNCHANGED queue
      BY <1>3, <2>1, <2>2
    <2>3. CASE queue' = Without(queue, hand)
      <3>1. Pending' \subseteq Pending
        BY ZenonT(40), <2>3 DEF Without, Pending
      <3> QED BY <1>2, <2>1, <3>1
    <2> QED BY <1>8, <2>2, <2>3 DEF Archive, directories
  <1>9. CASE CopyFile
    <2>1. UNCHANGED <<queue, queued>> /\ pc = "copy"
      BY <1>9 DEF CopyFile, directories, producer
    <2>2. hand \in DOMAIN queue /\ queue[hand].whole
      BY <2>1 DEF Safe, LoopSafe, Typed, TypeInvariant, LoopTyped, InHand
    <2>3. CASE Lands(queue[hand].items)
      <3>1. queue[hand].items \subseteq Pending
        BY <2>2 DEF Pending
      <3>2. Abstract!Land(queue[hand].items)
        BY <2>1, <2>3, <3>1 DEF Lands, Pending, Abstract!Land
      <3>3. queue[hand].items \in SUBSET Item
        BY <1>1, <3>1
      <3> QED BY <3>2, <3>3 DEF Abstract!Next
    <2>4. CASE UNCHANGED sharepoint
      BY <1>3, <2>1, <2>4 DEF sharepoint
    <2> QED BY <1>9, <2>2, <2>3, <2>4 DEF CopyFile
  <1>11. CASE MoveSource
    <2>1. UNCHANGED <<queued, landed>> /\ queue' = Without(queue, hand)
      BY <1>11 DEF MoveSource, producer, sharepoint
    <2>2. Pending' \subseteq Pending
      BY ZenonT(40), <2>1 DEF Without, Pending
    <2> QED BY <1>2, <2>1, <2>2
  <1>10. CASE \/ TimePasses \/ RequestStop \/ Crash \/ Restart \/ StartTick \/ TakeTask
              \/ EndTick \/ TakeFile \/ SendDone \/ UNCHANGED vars
    <2>1. UNCHANGED <<queue, queued, landed>>
      BY <1>10 DEF TimePasses, RequestStop, Crash, Restart, StartTick, TakeTask, EndTick, TakeFile,
                   SendDone, vars, directories, producer, sharepoint
    <2> QED BY <1>3, <2>1
  <1> QED
    BY <1>4, <1>5, <1>6, <1>7, <1>8, <1>9, <1>10, <1>11 DEF Next, Environment, Loop

\* The Queue directory implements Delivery: an item stays pending until it landed.
THEOREM DeliversAtLeastOnceHolds == FinishedOnly => (Spec => DeliversAtLeastOnce)
  <1> SUFFICES ASSUME FinishedOnly PROVE Spec => DeliversAtLeastOnce
    OBVIOUS
  <1>1. Init => Typed /\ Young /\ Safe /\ Abstract!Init
    <2>1. Init => Abstract!Init
      BY DEF Init, Abstract!Init, Pending
    <2> QED BY <2>1, InitTyped, InitYoung, InitSafe
  <1>2. Typed /\ Young /\ Safe /\ [Next]_vars => (Typed /\ Young /\ Safe)'
    BY StepTyped, YoungStep, StepSafe
  <1>3. Typed /\ Safe /\ (Typed /\ Safe)' /\ [Next]_vars => [Abstract!Next]_<<Pending, landed>>
    BY StepImplements
  <1> QED BY <1>1, <1>2, <1>3, PTL DEF Spec, DeliversAtLeastOnce, Abstract!Spec

----------------------------------------------------------------------------
(* Nothing is sent twice while nothing breaks *)

FilesMatch ==
    pc \in InHand \cup {"files", "archive"} => \A n \in files : n[1] \in Tasks[task].stems

\* Items belong to the file they were queued in; the loop works on files whose stem
\* its task names, and only a list task sends items.
Rooted ==
    /\ \A n \in DOMAIN queue : \A i \in queue[n].items :
          i[1] \in DOMAIN produced /\ produced[i[1]] = n[1]
    /\ \A i \in queued : i[1] \in DOMAIN produced
    /\ FilesMatch
    /\ pc \in {"send", "residue"} =>
         Tasks[task].action = "list" /\ hand[1] \in Tasks[task].stems

\* No two files list the same item, but for the file that is about to be archived
\* and its residue.
Apart ==
    \A m, n \in DOMAIN queue : m # n =>
        \/ queue[m].items \cap queue[n].items = {}
        \/ pc = "archive" /\ hand \in {m, n}

\* What a file lists has not landed, but for the file in hand and those that are
\* sent whole again.
Unsent ==
    \A n \in DOMAIN queue : \A i \in queue[n].items \cap landed :
        \/ WholeFileRetry(n[1])
        \/ n = hand /\ pc \in {"send", "residue", "archive", "moved"}

UnsentInHand ==
    pc \in {"send", "residue"} =>
        /\ todo \cap failed = {}
        /\ \A i \in (todo \cup failed) \cap landed : WholeFileRetry(hand[1])

Resent == \A i \in resent : WholeFileRetry(produced[i[1]])

Once == Apart /\ Unsent /\ UnsentInHand /\ Resent

LEMMA InitOnce == Init => Rooted /\ Once
  BY DEF Init, Rooted, FilesMatch, InHand, Once, Apart, Unsent, UnsentInHand, Resent

\* A step that leaves the files and what has landed alone, and the loop without a
\* file that it sends.
LEMMA CalmOnce ==
    ASSUME Rooted, UNCHANGED <<queue, produced, queued, landed, resent>>,
           pc' \notin {"send", "residue"}, FilesMatch'
    PROVE  /\ Rooted'
           /\ pc \notin {"send", "residue", "archive", "moved"} /\ Once => Once'
  BY DEF Rooted, FilesMatch, Once, Apart, Unsent, UnsentInHand, Resent

LEMMA StutterOnce ==
    ASSUME Rooted,
           UNCHANGED <<queue, produced, queued, landed, resent, pc, task, files, hand, todo, failed>>
    PROVE  Rooted' /\ (Once => Once')
  BY DEF Rooted, FilesMatch, Once, Apart, Unsent, UnsentInHand, Resent

LEMMA BeginFileOnce ==
    ASSUME Typed, Rooted, NEW s \in Stem, BeginFile(s)
    PROVE  Rooted' /\ (Once => Once')
  <1> DEFINE k == Len(produced) + 1
             n == <<s, 0>>
             f == [items |-> ItemsOf(k), whole |-> FALSE, mtime |-> clock]
  <1>1. queue' = Put(queue, n, f) /\ n \notin DOMAIN queue /\ produced' = Append(produced, s)
    BY DEF BeginFile
  <1>2. UNCHANGED <<queued, landed, resent, pc, task, files, hand, todo, failed>>
    BY DEF BeginFile, sharepoint, tick, delivery
  <1>3. n[1] = s /\ \A i \in f.items : i[1] = k
    BY DEF ItemsOf
  <1>4. produced \in Seq(Stem)
    BY DEF Typed, TypeInvariant, HistoryTyped
  <1>5. /\ k \in DOMAIN produced' /\ k \notin DOMAIN produced /\ produced'[k] = s
        /\ DOMAIN produced \subseteq DOMAIN produced'
        /\ \A g \in DOMAIN produced : produced'[g] = produced[g]
    BY <1>1, <1>4
  <1> HIDE DEF k, n, f
  <1>6. DOMAIN queue' = DOMAIN queue \cup {n} /\ queue'[n] = f
        /\ \A m \in DOMAIN queue : queue'[m] = queue[m]
    BY <1>1 DEF Put
  <1>7. resent \subseteq landed /\ landed \subseteq queued
    BY DEF Typed, TypeInvariant, HistoryTyped
  <1>8. Rooted'
    BY <1>2, <1>3, <1>5, <1>6 DEF Rooted, FilesMatch
  <1>9. \A i \in f.items : i \notin landed /\ \A m \in DOMAIN queue : i \notin queue[m].items
    BY <1>3, <1>5, <1>7 DEF Rooted
  <1>10. ASSUME Once PROVE Once'
    <2>1. Apart'
      BY <1>1, <1>2, <1>6, <1>9, <1>10 DEF Once, Apart
    <2>2. Unsent'
      BY <1>2, <1>6, <1>9, <1>10 DEF Once, Unsent
    <2>3. UnsentInHand'
      BY <1>2, <1>10 DEF Once, UnsentInHand
    <2>4. Resent'
      BY <1>2, <1>5, <1>7, <1>10 DEF Once, Resent, Rooted
    <2> QED BY <2>1, <2>2, <2>3, <2>4 DEF Once
  <1> QED BY <1>8, <1>10

LEMMA FinishFileOnce ==
    ASSUME Typed, Rooted, NEW n \in DOMAIN queue, FinishFile(n)
    PROVE  Rooted' /\ (Once => Once')
  <1>1. DOMAIN queue' = DOMAIN queue /\ \A m \in DOMAIN queue : queue'[m].items = queue[m].items
    BY DEF FinishFile
  <1>2. /\ UNCHANGED <<produced, landed, resent, pc, task, files, hand, todo, failed>>
        /\ queued' = queued \cup queue[n].items
    BY DEF FinishFile, sharepoint, tick, delivery
  <1>3. Rooted'
    BY <1>1, <1>2 DEF Rooted, FilesMatch
  <1> QED BY <1>1, <1>2, <1>3 DEF Once, Apart, Unsent, UnsentInHand, Resent

LEMMA TakeFileOnce ==
    ASSUME Typed, Rooted, TakeFile
    PROVE  Rooted' /\ (Once => Once')
  <1>1. UNCHANGED <<queue, produced, queued, landed, resent>> /\ pc = "files" /\ files' \subseteq files
    BY DEF TakeFile, directories, producer, sharepoint
  <1>2. CASE pc' \in {"task", "idle", "files", "copy"}
    <2>1. FilesMatch'
      BY <1>1, <1>2 DEF TakeFile, Rooted, FilesMatch, InHand
    <2> QED BY <1>1, <1>2, <2>1, CalmOnce
  <1>3. CASE pc' = "send"
    <2>1. /\ task' = task /\ hand' \in files /\ hand' \in DOMAIN queue
          /\ Tasks[task].action = "list"
          /\ todo' = queue[hand'].items /\ failed' = {}
      BY <1>1, <1>3 DEF TakeFile, IsReady
    <2>2. Rooted'
      BY <1>1, <1>3, <2>1 DEF Rooted, FilesMatch, InHand
    <2>3. Once => Once'
      BY <1>1, <1>3, <2>1 DEF Once, Apart, Unsent, UnsentInHand, Resent
    <2> QED BY <2>2, <2>3
  <1> QED BY <1>1, <1>2, <1>3 DEF TakeFile

LEMMA SendItemOnce ==
    ASSUME Typed, Rooted, NEW i \in todo, SendItem(i)
    PROVE  Rooted' /\ (Once /\ breaks' = breaks => Once')
  <1>1. /\ UNCHANGED <<queue, produced, queued, pc, task, files, hand>>
        /\ pc = "send" /\ todo' = todo \ {i}
    BY DEF SendItem, directories, producer, tick
  <1>2. Rooted'
    BY <1>1 DEF Rooted, FilesMatch
  <1>3. ASSUME Once, breaks' = breaks PROVE Once'
    <2>1. hand \in DOMAIN queue /\ i \in queue[hand].items
      BY <1>1 DEF Typed, TypeInvariant, LoopTyped, InHand
    <2>2. produced[i[1]] = hand[1]
      BY <2>1 DEF Rooted
    <2>3. breaks \in Nat
      BY DEF Typed, TypeInvariant, HistoryTyped
    <2>4. CASE Lands({i}) /\ failed' = failed
      <3>1. landed' = landed \cup {i} /\ resent' = resent \cup ({i} \cap landed)
        BY <2>4 DEF Lands
      <3>2. Apart'
        BY <1>1, <1>3 DEF Once, Apart
      <3>3. Unsent'
        <4> SUFFICES ASSUME NEW n \in DOMAIN queue, NEW j \in queue[n].items, j \in landed', n # hand
                     PROVE  WholeFileRetry(n[1])
          BY <1>1 DEF Unsent
        <4>1. j # i
          BY <1>1, <1>3, <2>1 DEF Once, Apart
        <4> QED BY <1>3, <3>1, <4>1 DEF Once, Unsent
      <3>4. UnsentInHand'
        BY <1>1, <1>3, <2>4, <3>1 DEF Once, UnsentInHand
      <3>5. Resent'
        BY <1>1, <1>3, <2>2, <3>1 DEF Once, UnsentInHand, Resent
      <3> QED BY <3>2, <3>3, <3>4, <3>5 DEF Once
    <2>5. CASE UNCHANGED sharepoint /\ failed' = failed \cup {i}
      BY <1>1, <1>3, <2>5 DEF sharepoint, Once, Apart, Unsent, UnsentInHand, Resent
    <2> QED BY <1>3, <2>3, <2>4, <2>5 DEF SendItem
  <1> QED BY <1>2, <1>3

LEMMA SendDoneOnce ==
    ASSUME Typed, Rooted, SendDone
    PROVE  Rooted' /\ (Once => Once')
  <1>1. /\ UNCHANGED <<queue, produced, queued, landed, resent, task, files>>
        /\ pc = "send"
    BY DEF SendDone, directories, producer, sharepoint, tick
  <1>2. hand[1] \in Tasks[task].stems /\ Tasks[task].action = "list"
    BY <1>1 DEF Rooted
  <1>3. task \in DOMAIN Tasks
    BY <1>1 DEF Typed, TypeInvariant, LoopTyped, InHand
  <1>4. CASE ~Tasks[task].retry /\ Done
    <2>1. WholeFileRetry(hand[1])
      BY <1>2, <1>3, <1>4 DEF WholeFileRetry
    <2>2. pc' = "files" /\ hand' = NoFile /\ todo' = {} /\ failed' = {}
      BY <1>4 DEF Done
    <2>3. Rooted'
      BY <1>1, <2>2 DEF Rooted, FilesMatch, InHand
    <2> QED BY <1>1, <2>1, <2>2, <2>3 DEF Once, Apart, Unsent, UnsentInHand, Resent
  <1>5. CASE pc' \in {"archive", "residue"} /\ UNCHANGED delivery
    BY <1>1, <1>2, <1>5 DEF delivery, Rooted, FilesMatch, InHand, Once, Apart, Unsent, UnsentInHand, Resent
  <1> QED BY <1>4, <1>5 DEF SendDone

LEMMA CopyFileOnce ==
    ASSUME Typed, Rooted, CopyFile
    PROVE  Rooted' /\ (Once => Once')
  <1>1. UNCHANGED <<queue, produced, queued, task, files>> /\ pc = "copy"
    BY DEF CopyFile, directories, producer, tick
  <1>2. CASE UNCHANGED sharepoint /\ Done
    <2>1. pc' = "files" /\ UNCHANGED <<landed, resent>>
      BY <1>2 DEF Done, sharepoint
    <2>2. Rooted'
      BY <1>1, <2>1 DEF Rooted, FilesMatch, InHand
    <2> QED BY <1>1, <2>1, <2>2 DEF Once, Apart, Unsent, UnsentInHand, Resent
  <1>3. CASE /\ Lands(IF queue[hand].whole THEN queue[hand].items ELSE {})
             /\ pc' \in {"moved", "archive"}
             /\ UNCHANGED delivery
    <2>1. PICK S : S \subseteq queue[hand].items /\ Lands(S)
      BY <1>3
    <2>2. /\ landed' = landed \cup S /\ resent' = resent \cup (S \cap landed)
          /\ hand' = hand /\ hand \in DOMAIN queue
      BY <1>1, <1>3, <2>1 DEF Lands, delivery, Typed, TypeInvariant, LoopTyped, InHand
    <2>3. \A i \in S : produced[i[1]] = hand[1]
      BY <2>1, <2>2 DEF Rooted
    <2>4. Rooted'
      BY <1>1, <1>3 DEF Rooted, FilesMatch, InHand
    <2>5. ASSUME Once PROVE Once'
      <3>1. Apart'
        BY <1>1, <2>5 DEF Once, Apart
      <3>2. Unsent'
        <4> SUFFICES ASSUME NEW n \in DOMAIN queue, NEW j \in queue[n].items, j \in landed', n # hand
                     PROVE  WholeFileRetry(n[1])
          BY <1>1, <1>3, <2>2 DEF Unsent
        <4>1. j \notin S
          BY <1>1, <2>1, <2>2, <2>5 DEF Once, Apart
        <4> QED BY <1>1, <2>2, <2>5, <4>1 DEF Once, Unsent
      <3>3. UnsentInHand'
        BY <1>3 DEF UnsentInHand
      <3>4. \A i \in S \cap landed : WholeFileRetry(hand[1])
        BY <1>1, <2>1, <2>2, <2>5 DEF Once, Unsent
      <3>5. Resent'
        BY <1>1, <2>2, <2>3, <2>5, <3>4 DEF Once, Resent
      <3> QED BY <3>1, <3>2, <3>3, <3>5 DEF Once
    <2> QED BY <2>4, <2>5
  <1> QED BY <1>2, <1>3 DEF CopyFile

\* The file in hand leaves the Queue.
LEMMA SetAsideOnce ==
    ASSUME Rooted, queue' = Without(queue, hand),
           UNCHANGED <<produced, queued, landed, resent, task, files>>,
           pc \in {"moved", "archive"}, pc' \in {"files", "archive"}
    PROVE  Rooted' /\ (Once => Once')
  <1>1. DOMAIN queue' = DOMAIN queue \ {hand} /\ \A n \in DOMAIN queue' : queue'[n] = queue[n]
    BY DEF Without
  <1>2. Rooted'
    BY <1>1 DEF Rooted, FilesMatch, InHand
  <1>3. ASSUME Once PROVE Once'
    <2>1. Apart'
      BY <1>1, <1>3 DEF Once, Apart
    <2>2. Unsent'
      BY <1>1, <1>3 DEF Once, Unsent
    <2>3. UnsentInHand' /\ Resent'
      BY <1>3 DEF Once, UnsentInHand, Resent
    <2> QED BY <2>1, <2>2, <2>3 DEF Once
  <1> QED BY <1>2, <1>3

LEMMA WriteResidueOnce ==
    ASSUME Typed, Rooted, WriteResidue
    PROVE  Rooted' /\ (Once /\ breaks' = breaks => Once')
  <1> DEFINE n == RetryName(hand)
             f == [items |-> failed, whole |-> TRUE, mtime |-> clock]
  <1>1. UNCHANGED <<produced, queued, landed, resent, task, files>> /\ pc = "residue"
    BY DEF WriteResidue, producer, sharepoint, tick
  <1>2. /\ hand \in DOMAIN queue /\ failed \subseteq queue[hand].items /\ breaks \in Nat
    BY <1>1 DEF Typed, TypeInvariant, HistoryTyped, LoopTyped, InHand
  <1>3. CASE UNCHANGED queue /\ Done /\ breaks' = breaks + 1
    <2>1. pc' = "files"
      BY <1>3 DEF Done
    <2>2. Rooted'
      BY <1>1, <1>3, <2>1 DEF Rooted, FilesMatch, InHand
    <2> QED BY <1>2, <1>3, <2>2
  <1>4. CASE /\ queue' = Put(queue, n, f)
             /\ IF n = hand THEN Done ELSE pc' = "archive" /\ UNCHANGED delivery
    <2>1. n[1] = hand[1] /\ f.items = failed
      BY DEF RetryName
    <2>2. /\ pc' \in {"files", "archive"}
          /\ pc' = "archive" => n # hand /\ hand' = hand
          /\ pc' = "files" => n = hand
      BY <1>4 DEF Done, delivery
    <2> HIDE DEF n, f
    <2>3. DOMAIN queue' = DOMAIN queue \cup {n} /\ queue'[n] = f
          /\ \A m \in DOMAIN queue : m # n => queue'[m] = queue[m]
      BY <1>4 DEF Put
    <2>4. Rooted'
      <3>1. \A m \in DOMAIN queue' : \A i \in queue'[m].items :
               i[1] \in DOMAIN produced' /\ produced'[i[1]] = m[1]
        BY <1>1, <1>2, <2>1, <2>3 DEF Rooted
      <3> QED BY <1>1, <2>2, <3>1 DEF Rooted, FilesMatch, InHand
    <2>5. ASSUME Once PROVE Once'
      <3>1. Apart'
        BY <1>1, <1>2, <2>1, <2>2, <2>3, <2>5 DEF Once, Apart
      <3>2. Unsent'
        BY <1>1, <1>2, <2>1, <2>2, <2>3, <2>5 DEF Once, Unsent, UnsentInHand
      <3>3. UnsentInHand' /\ Resent'
        BY <1>1, <2>2, <2>5 DEF Once, UnsentInHand, Resent
      <3> QED BY <3>1, <3>2, <3>3 DEF Once
    <2> QED BY <2>4, <2>5
  <1> QED BY <1>3, <1>4 DEF WriteResidue

LEMMA ArchiveOnce ==
    ASSUME Typed, Rooted, Archive
    PROVE  Rooted' /\ (Once /\ breaks' = breaks => Once')
  <1>1. /\ UNCHANGED <<produced, queued, landed, resent, task, files>>
        /\ pc = "archive" /\ pc' = "files" /\ breaks \in Nat
    BY DEF Archive, Done, producer, sharepoint, tick, Typed, TypeInvariant, HistoryTyped
  <1>2. CASE queue' = Without(queue, hand)
    BY <1>1, <1>2, SetAsideOnce
  <1>3. CASE UNCHANGED queue
    <2>1. Rooted'
      BY <1>1, <1>3 DEF Rooted, FilesMatch, InHand
    <2>2. hand \notin DOMAIN queue /\ Once => Once'
      BY <1>1, <1>3 DEF Once, Apart, Unsent, UnsentInHand, Resent
    <2>3. CASE hand \in DOMAIN queue /\ queue' = Without(queue, hand)
      BY <1>2, <2>3
    <2> QED BY <1>1, <2>1, <2>2, <2>3 DEF Archive
  <1> QED BY <1>2, <1>3 DEF Archive, directories

LEMMA StepOnce ==
    ASSUME Typed, Rooted, [Next]_vars
    PROVE  Rooted' /\ (Once /\ breaks' = 0 => Once') /\ (breaks' = 0 => breaks = 0)
  <1>1. breaks' \in {breaks, breaks + 1} /\ breaks \in Nat
    <2>1. breaks' \in {breaks, breaks + 1}
      BY DEF Next, Environment, Loop, BeginFile, FinishFile, TimePasses, RequestStop, Crash, Restart,
             StartTick, TakeTask, EndTick, TakeFile, SendItem, SendDone, CopyFile, MoveSource,
             WriteResidue, Archive, vars
    <2> QED BY <2>1 DEF Typed, TypeInvariant, HistoryTyped
  <1>2. breaks' = 0 => breaks = 0 /\ breaks' = breaks
    BY <1>1
  <1>3. CASE Environment
    <2>1. CASE TimePasses \/ RequestStop
      BY <2>1, StutterOnce
         DEF TimePasses, RequestStop, directories, producer, sharepoint, tick, delivery
    <2>2. CASE Crash
      <3>1. Rooted'
        BY <2>2 DEF Crash, directories, producer, sharepoint, tick, Rooted, FilesMatch, InHand
      <3>2. breaks' # 0
        BY <1>1, <2>2 DEF Crash
      <3> QED BY <3>1, <3>2
    <2> QED BY <1>2, <1>3, <2>1, <2>2, BeginFileOnce, FinishFileOnce DEF Environment
  <1>4. CASE StartTick \/ EndTick \/ Restart
    <2>1. /\ UNCHANGED <<queue, produced, queued, landed, resent>>
          /\ pc \in {"idle", "task", "down"} /\ pc' \in {"idle", "task", "down"}
      BY <1>4 DEF StartTick, EndTick, Restart, directories, producer, sharepoint
    <2>2. FilesMatch'
      BY <2>1 DEF FilesMatch, InHand
    <2> QED BY <1>2, <2>1, <2>2, CalmOnce
  <1>5. CASE TakeTask
    <2>1. /\ UNCHANGED <<queue, produced, queued, landed, resent>>
          /\ pc = "task" /\ pc' \in {"idle", "task", "files"}
          /\ pc' = "files" => task' = task /\ \A n \in files' : n[1] \in Tasks[task].stems
      BY <1>5 DEF TakeTask, Matches, directories, producer, sharepoint
    <2>2. FilesMatch'
      BY <2>1 DEF FilesMatch, InHand
    <2> QED BY <1>2, <2>1, <2>2, CalmOnce
  <1>6. CASE MoveSource
    <2>1. /\ queue' = Without(queue, hand) /\ pc = "moved" /\ pc' = "archive"
          /\ UNCHANGED <<produced, queued, landed, resent, task, files>>
      BY <1>6 DEF MoveSource, producer, sharepoint, tick
    <2> QED BY <1>2, <2>1, SetAsideOnce
  <1>7. CASE UNCHANGED vars
    BY <1>2, <1>7, StutterOnce DEF vars
  <1>8. ASSUME NEW i \in todo, SendItem(i)
        PROVE  Rooted' /\ (Once /\ breaks' = 0 => Once') /\ (breaks' = 0 => breaks = 0)
    BY <1>2, <1>8, SendItemOnce
  <1> QED
    BY <1>2, <1>3, <1>4, <1>5, <1>6, <1>7, <1>8, TakeFileOnce, SendDoneOnce, CopyFileOnce,
       WriteResidueOnce, ArchiveOnce DEF Next, Loop

\* The comment on the bundled config: whatever the tasks and the producers do, an
\* item SharePoint took twice was of a task that sends whole files again, or
\* something broke before.
THEOREM NoResendUnlessBrokenHolds == Spec => []NoResendUnlessBroken
  <1> DEFINE Inv == Typed /\ Rooted /\ (breaks = 0 => Once)
  <1>1. Init => Inv
    BY InitTyped, InitOnce
  <1>2. Inv /\ [Next]_vars => Inv'
    <2> SUFFICES ASSUME Inv, [Next]_vars PROVE Inv'
      OBVIOUS
    <2>1. Typed' /\ Rooted' /\ (Once /\ breaks' = 0 => Once') /\ (breaks' = 0 => breaks = 0)
      BY StepTyped, StepOnce
    <2> QED BY <2>1
  <1>3. Inv => NoResendUnlessBroken
    BY DEF Typed, TypeInvariant, HistoryTyped, Once, Resent, NoResendUnlessBroken
  <1> HIDE DEF Inv
  <1> QED BY <1>1, <1>2, <1>3, PTL DEF Spec

----------------------------------------------------------------------------
(* The archive keeps its trail while nothing breaks *)

AllBegun == \A n \in DOMAIN queue \cup DOMAIN processed : Begun(n[1])

\* A stem has one file, but for the one that is about to be archived and its later
\* residue ...
OneFile ==
    \A m, n \in DOMAIN queue : m # n /\ m[1] = n[1] =>
        /\ pc = "archive"
        /\ \/ m = hand /\ m[2] < n[2]
           \/ n = hand /\ n[2] < m[2]

\* ... and it is later than what the archive has of the stem.
Ahead == \A n \in DOMAIN queue, p \in DOMAIN processed : p[1] = n[1] => p[2] < n[2]

Trail == OneFile /\ Ahead

Kept == \A n \in DOMAIN processed : n \in DOMAIN processed' /\ processed'[n] = processed[n]

LEMMA InitTrail == Init => AllBegun /\ Trail
  BY DEF Init, AllBegun, Trail, OneFile, Ahead

LEMMA CalmTrail ==
    ASSUME AllBegun, UNCHANGED <<processed, produced>>, DOMAIN queue' = DOMAIN queue
    PROVE  /\ AllBegun' /\ Kept
           /\ (pc # "archive" \/ UNCHANGED <<pc, hand>>) /\ Trail => Trail'
  BY DEF AllBegun, Begun, Trail, OneFile, Ahead, Kept

LEMMA BeginFileTrail ==
    ASSUME ~ReuseNames, Typed, AllBegun, NEW s \in Stem, BeginFile(s)
    PROVE  AllBegun' /\ Kept /\ (Trail => Trail')
  <1> DEFINE n == <<s, 0>>
             f == [items |-> ItemsOf(Len(produced) + 1), whole |-> FALSE, mtime |-> clock]
  <1>1. /\ queue' = Put(queue, n, f) /\ produced' = Append(produced, s)
        /\ ~Begun(s) /\ UNCHANGED <<processed, pc, hand>>
    BY DEF BeginFile, Begun, delivery
  <1>2. n[1] = s
    OBVIOUS
  <1> HIDE DEF n, f
  <1>3. DOMAIN queue' = DOMAIN queue \cup {n}
    BY <1>1 DEF Put
  <1>4. Begun(s)' /\ \A t : Begun(t) => Begun(t)'
    <2>1. produced \in Seq(Stem)
      BY DEF Typed, TypeInvariant, HistoryTyped
    <2>2. /\ Len(produced) + 1 \in DOMAIN produced' /\ produced'[Len(produced) + 1] = s
          /\ \A g \in DOMAIN produced : g \in DOMAIN produced' /\ produced'[g] = produced[g]
      BY <1>1, <2>1
    <2> QED BY <2>2 DEF Begun
  <1>5. \A m \in DOMAIN queue \cup DOMAIN processed : m[1] # s
    BY <1>1 DEF AllBegun
  <1>6. AllBegun'
    BY <1>1, <1>2, <1>3, <1>4 DEF AllBegun
  <1>7. Trail => Trail'
    BY <1>1, <1>2, <1>3, <1>5 DEF Trail, OneFile, Ahead
  <1> QED BY <1>1, <1>6, <1>7 DEF Kept

LEMMA WriteResidueTrail ==
    ASSUME Typed, AllBegun, WriteResidue
    PROVE  AllBegun' /\ Kept /\ (Trail => Trail')
  <1> DEFINE n == RetryName(hand)
             f == [items |-> failed, whole |-> TRUE, mtime |-> clock]
  <1>1. UNCHANGED <<processed, produced>> /\ pc = "residue"
    BY DEF WriteResidue, producer
  <1>2. CASE UNCHANGED queue
    BY <1>1, <1>2, CalmTrail
  <1>3. CASE /\ queue' = Put(queue, n, f)
             /\ IF n = hand THEN Done ELSE pc' = "archive" /\ UNCHANGED delivery
    <2>1. hand \in DOMAIN queue /\ hand \in Name /\ hand[2] <= clock /\ clock \in Nat
      BY <1>1 DEF Typed, TypeInvariant, QueueTyped, HistoryTyped, LoopTyped, InHand
    <2>2. n[1] = hand[1] /\ n[2] = clock /\ (n # hand => hand[2] < n[2])
          /\ hand[2] <= n[2] /\ hand[2] \in Nat /\ n[2] \in Nat
      BY <2>1 DEF RetryName, Name
    <2>3. n # hand => pc' = "archive" /\ hand' = hand
      BY <1>3 DEF delivery
    <2> HIDE DEF n, f
    <2>4. DOMAIN queue' = DOMAIN queue \cup {n}
      BY <1>3 DEF Put
    <2>5. AllBegun'
      BY <1>1, <2>1, <2>2, <2>4 DEF AllBegun, Begun
    <2>6. ASSUME Trail PROVE Trail'
      <3>1. \A l, m \in DOMAIN queue : l[1] = m[1] => l = m
        BY <1>1, <2>6 DEF Trail, OneFile
      <3>2. OneFile'
        BY <2>1, <2>2, <2>3, <2>4, <3>1 DEF OneFile
      <3>3. \A p \in DOMAIN processed : p[1] = n[1] => p[2] < n[2]
        <4> SUFFICES ASSUME NEW p \in DOMAIN processed, p[1] = n[1] PROVE p[2] < n[2]
          OBVIOUS
        <4>1. p[2] < hand[2]
          BY <2>1, <2>2, <2>6 DEF Trail, Ahead
        <4>2. p[2] \in Nat
          BY DEF Typed, TypeInvariant, HistoryTyped, Name
        <4> QED BY <2>2, <4>1, <4>2
      <3>4. Ahead'
        BY <1>1, <2>4, <2>6, <3>3 DEF Trail, Ahead
      <3> QED BY <3>2, <3>4 DEF Trail
    <2> QED BY <1>1, <2>5, <2>6 DEF Kept
  <1> QED BY <1>2, <1>3 DEF WriteResidue

\* The file in hand leaves the Queue, for good.
LEMMA MoveSourceTrail ==
    ASSUME Typed, AllBegun, MoveSource
    PROVE  AllBegun' /\ Kept /\ (Trail => Trail')
  <1>1. UNCHANGED <<processed, produced>> /\ pc = "moved"
    BY DEF MoveSource, producer
  <1>2. DOMAIN queue' \subseteq DOMAIN queue
    BY DEF MoveSource, Without
  <1> QED BY <1>1, <1>2 DEF AllBegun, Begun, Trail, OneFile, Ahead, Kept

LEMMA ArchiveTrail ==
    ASSUME Typed, AllBegun, Archive
    PROVE  AllBegun' /\ (Trail /\ breaks' = breaks => Trail' /\ Kept)
  <1>1. UNCHANGED produced /\ pc = "archive" /\ breaks \in Nat /\ hand \in Name
    BY DEF Archive, producer, Typed, TypeInvariant, HistoryTyped, LoopTyped
  <1>2. CASE /\ hand \in DOMAIN queue
             /\ processed' = Put(processed, hand, queue[hand].items)
             /\ queue' = Without(queue, hand)
    <2>1. /\ DOMAIN processed' = DOMAIN processed \cup {hand}
          /\ \A p \in DOMAIN processed : p # hand => processed'[p] = processed[p]
      BY <1>2 DEF Put
    <2>2. DOMAIN queue' = DOMAIN queue \ {hand}
      BY <1>2 DEF Without
    <2>3. AllBegun'
      BY <1>1, <1>2, <2>1, <2>2 DEF AllBegun, Begun
    <2>4. ASSUME Trail PROVE Trail' /\ Kept
      <3>1. hand \notin DOMAIN processed
        <4>1. hand[2] \in Nat
          BY <1>1 DEF Name
        <4> QED BY <1>2, <2>4, <4>1 DEF Trail, Ahead
      <3>2. OneFile'
        BY <2>2, <2>4 DEF Trail, OneFile
      <3>3. \A n \in DOMAIN queue' : n[1] = hand[1] => hand[2] < n[2]
        BY <1>2, <2>2, <2>4 DEF Trail, OneFile
      <3>4. Ahead'
        BY <2>1, <2>2, <2>4, <3>3 DEF Trail, Ahead
      <3> QED BY <2>1, <3>1, <3>2, <3>4 DEF Trail, Kept
    <2> QED BY <2>3, <2>4
  <1>3. CASE UNCHANGED directories
    <2>1. UNCHANGED <<queue, processed>>
      BY <1>3 DEF directories
    <2>2. AllBegun' /\ Kept
      BY <1>1, <2>1, CalmTrail
    <2>3. hand \notin DOMAIN queue /\ Trail => Trail'
      BY <2>1 DEF Trail, OneFile, Ahead
    <2> QED BY <1>1, <1>2, <2>2, <2>3 DEF Archive
  <1> QED BY <1>2, <1>3 DEF Archive, directories

LEMMA StepTrail ==
    ASSUME ~ReuseNames, Typed, AllBegun, [Next]_vars
    PROVE  AllBegun' /\ (Trail /\ breaks' = breaks => Trail' /\ Kept)
  <1>1. ASSUME NEW s \in Stem, BeginFile(s)
        PROVE  AllBegun' /\ (Trail /\ breaks' = breaks => Trail' /\ Kept)
    BY <1>1, BeginFileTrail
  <1>2. ASSUME NEW n \in DOMAIN queue, FinishFile(n)
        PROVE  AllBegun' /\ (Trail /\ breaks' = breaks => Trail' /\ Kept)
    BY <1>2, CalmTrail DEF FinishFile, delivery
  <1>3. CASE TimePasses \/ RequestStop \/ UNCHANGED vars
    BY <1>3, CalmTrail DEF TimePasses, RequestStop, directories, producer, delivery, vars
  <1>4. CASE Crash
    <2>1. AllBegun'
      BY <1>4, CalmTrail DEF Crash, directories, producer
    <2>2. breaks' # breaks
      BY <1>4 DEF Crash, Typed, TypeInvariant, HistoryTyped
    <2> QED BY <2>1, <2>2
  <1>5. CASE StartTick \/ TakeTask \/ EndTick \/ TakeFile \/ SendDone \/ CopyFile \/ Restart
    <2>1. UNCHANGED <<queue, processed, produced>> /\ pc # "archive"
      BY <1>5 DEF StartTick, TakeTask, EndTick, TakeFile, SendDone, CopyFile, Restart,
                  directories, producer
    <2> QED BY <2>1, CalmTrail
  <1>6. ASSUME NEW i \in todo, SendItem(i)
        PROVE  AllBegun' /\ (Trail /\ breaks' = breaks => Trail' /\ Kept)
    BY <1>6, CalmTrail DEF SendItem, directories, producer
  <1> QED
    BY <1>1, <1>2, <1>3, <1>4, <1>5, <1>6, WriteResidueTrail, MoveSourceTrail, ArchiveTrail
       DEF Next, Environment, Loop

\* When no producer uses a name twice, whatever the tasks and the refused items, no
\* file of the archive is replaced before something breaks: retry_name's stamps keep
\* the residues of a file apart.
THEOREM TrailKeptHolds == ~ReuseNames => (Spec => TrailKept)
  <1> SUFFICES ASSUME ~ReuseNames PROVE Spec => TrailKept
    OBVIOUS
  <1> DEFINE Inv == Typed /\ Rooted /\ AllBegun /\ (breaks = 0 => Trail)
  <1>1. Init => Inv
    BY InitTyped, InitOnce, InitTrail
  <1>2. ASSUME Inv, [Next]_vars
        PROVE  Inv' /\ (breaks' = 0 => Kept)
    <2>1. Typed' /\ Rooted' /\ (breaks' = 0 => breaks = 0)
      BY <1>2, StepTyped, StepOnce
    <2>2. AllBegun' /\ (Trail /\ breaks' = breaks => Trail' /\ Kept)
      BY <1>2, StepTrail
    <2> QED BY <1>2, <2>1, <2>2
  <1>3. Inv /\ [Next]_vars => Inv'
    BY <1>2
  <1>4. Inv /\ [Next]_vars =>
          [breaks' = 0 =>
             \A n \in DOMAIN processed : n \in DOMAIN processed' /\ processed'[n] = processed[n]]_vars
    BY <1>2 DEF Kept
  <1> HIDE DEF Inv
  <1> QED BY <1>1, <1>3, <1>4, PTL DEF Spec, TrailKept
=============================================================================
