----------------------------- MODULE Forwarder -----------------------------
(***************************************************************************)
(* forwarder/main.py: the loop that drains the Queue directory into        *)
(* SharePoint, one tick after another, with the Queue and Processed        *)
(* directories as its only memory.                                         *)
(*                                                                         *)
(* A file name is a stem and a stamp, 0 for the name a producer gave it.   *)
(* Names sort by stem, then by stamp.  An item is named by the file it was *)
(* queued in and its place there.  The clock is wall-clock seconds: file   *)
(* times, the tick's "now" and retry stamps are all read from it.          *)
(***************************************************************************)
EXTENDS Integers, Sequences

CONSTANTS
    Stem,           \* names without their retry stamp
    Tasks,          \* the declared tasks
    ItemsPerFile,
    QuietSeconds,   \* how long a file must have been still
    ReuseNames,     \* a producer may queue a name again once it has gone
    StallingProducers,  \* a producer may pause for longer than QuietSeconds
    MaxFiles, MaxClock, MaxFaults, MaxBreaks   \* bounds

\* create and update are one action here: they send the items one by one.  A task
\* is exact when its pattern names one file instead of a shape.
TaskRecord == [action : {"list", "copy", "other"}, stems : SUBSET Stem, exact : BOOLEAN,
               retry : BOOLEAN, method : {"copy", "move"}]

ASSUME StemAssumption == Stem \subseteq Nat
ASSUME TasksAssumption == Tasks \in Seq(TaskRecord)
ASSUME ForwarderFlags == {ReuseNames, StallingProducers} \subseteq BOOLEAN
ASSUME ForwarderBounds ==
    /\ {ItemsPerFile, QuietSeconds, MaxFiles, MaxFaults, MaxBreaks} \subseteq Nat
    /\ MaxClock \in Nat \ {0}

VARIABLES
    queue,      \* the Queue directory: file names to what is in them
    processed,  \* the Processed directory: file names to the items they list
    produced,   \* the stems of the files producers have queued, in order
    queued,     \* history: items of the files producers have finished writing
    landed,     \* items SharePoint has taken
    resent,     \* history: items it has taken more than once
    clock,
    pc,         \* where the loop is
    stopping,   \* a stop signal has arrived
    task,       \* index of the task in hand
    files,      \* its files still to be looked at
    now,        \* when the tick began
    hand,       \* the file in hand
    todo,       \* its items not sent yet
    failed,     \* its items whose sending raised
    faults,     \* refused items so far
    breaks      \* crashes, OS errors and ambiguous failures so far

directories == <<queue, processed>>
producer    == <<produced, queued>>
sharepoint  == <<landed, resent>>
tick        == <<task, files, now>>
delivery    == <<hand, todo, failed>>
vars == <<queue, processed, produced, queued, landed, resent, clock, pc, stopping,
          task, files, now, hand, todo, failed, faults, breaks>>

Name == Stem \X (0..MaxClock)
Item == (1..MaxFiles) \X (1..ItemsPerFile)
File == [items : SUBSET Item, whole : BOOLEAN, mtime : Nat]
NoFile == <<>>

ItemsOf(g) == {g} \X (1..ItemsPerFile)

----------------------------------------------------------------------------
(* Names and directories *)

Put(dir, n, x) == [m \in DOMAIN dir \cup {n} |-> IF m = n THEN x ELSE dir[m]]
Without(dir, n) == [m \in DOMAIN dir \ {n} |-> dir[m]]
Before(m, n) == m[1] < n[1] \/ (m[1] = n[1] /\ m[2] < n[2])

\* Mutation: the stamp is that of the next second.
RetryNameAhead(n) == <<n[1], clock + 1>>

\* retry_name: the stem without its old stamp, stamped with the time.
RetryName(n) == <<n[1], clock>>

\* Mutation: a task looks only for its declared pattern.
MatchesDeclared(t, n) == n[1] \in t.stems /\ (n[2] = 0 \/ ~t.exact)

\* task_patterns: a shape matches the residues of its files too; an exact pattern
\* does not, so with per-item retry the residues are looked for beside it.
Matches(t, n) == n[1] \in t.stems /\ (n[2] = 0 \/ ~t.exact \/ t.retry)

\* is_ready: still there, and still for long enough when the tick began.
IsReady(n) == n \in DOMAIN queue /\ now - queue[n].mtime >= QuietSeconds

----------------------------------------------------------------------------
Init ==
    /\ queue = <<>> /\ processed = <<>>
    /\ produced = <<>> /\ queued = {}
    /\ landed = {} /\ resent = {}
    /\ clock = 1
    /\ pc = "idle" /\ stopping = FALSE
    /\ task = 1 /\ files = {} /\ now = 1
    /\ hand = NoFile /\ todo = {} /\ failed = {}
    /\ faults = 0 /\ breaks = 0

----------------------------------------------------------------------------
(* Producers and time *)

\* A producer begins to write a file under a name the Queue does not hold ...
BeginFile(s) ==
    /\ Len(produced) < MaxFiles
    /\ <<s, 0>> \notin DOMAIN queue
    /\ ReuseNames \/ \A g \in DOMAIN produced : produced[g] # s
    /\ produced' = Append(produced, s)
    /\ queue' = Put(queue, <<s, 0>>,
                    [items |-> ItemsOf(Len(produced) + 1), whole |-> FALSE, mtime |-> clock])
    /\ UNCHANGED <<processed, queued, sharepoint, clock, pc, stopping, tick, delivery,
                   faults, breaks>>

\* ... and finishes it, as long as it is still there.
FinishFile(n) ==
    /\ ~queue[n].whole
    /\ queue' = [queue EXCEPT ![n] = [items |-> @.items, whole |-> TRUE, mtime |-> clock]]
    /\ queued' = queued \cup queue[n].items
    /\ UNCHANGED <<processed, produced, sharepoint, clock, pc, stopping, tick, delivery,
                   faults, breaks>>

TimePasses ==
    /\ clock < MaxClock
    /\ \/ StallingProducers
       \/ \A n \in DOMAIN queue : ~queue[n].whole => clock + 1 - queue[n].mtime < QuietSeconds
    /\ clock' = clock + 1
    /\ UNCHANGED <<directories, producer, sharepoint, pc, stopping, tick, delivery,
                   faults, breaks>>

----------------------------------------------------------------------------
(* The loop *)

\* main: the next tick begins, or the loop sees the stop signal and ends.
StartTick ==
    /\ pc = "idle"
    /\ IF stopping
       THEN pc' = "down" /\ stopping' = FALSE /\ UNCHANGED tick
       ELSE pc' = "task" /\ task' = 1 /\ now' = clock /\ UNCHANGED <<files, stopping>>
    /\ UNCHANGED <<directories, producer, sharepoint, clock, delivery, faults, breaks>>

\* run, the loop over tasks: an unknown action is passed over, a stop ends the
\* tick, a Queue that cannot be listed costs the task its turn.
TakeTask ==
    /\ pc = "task"
    /\ task <= Len(Tasks)
    /\ \/ /\ Tasks[task].action = "other"
          /\ task' = task + 1
          /\ UNCHANGED <<pc, files, breaks>>
       \/ /\ Tasks[task].action # "other"
          /\ stopping
          /\ pc' = "idle"
          /\ UNCHANGED <<task, files, breaks>>
       \/ /\ Tasks[task].action # "other"
          /\ ~stopping
          /\ pc' = "files"
          /\ files' = {n \in DOMAIN queue : Matches(Tasks[task], n)}
          /\ UNCHANGED <<task, breaks>>
       \/ /\ Tasks[task].action # "other"
          /\ ~stopping
          /\ breaks < MaxBreaks
          /\ breaks' = breaks + 1
          /\ task' = task + 1
          /\ UNCHANGED <<pc, files>>
    /\ UNCHANGED <<directories, producer, sharepoint, clock, stopping, now, delivery, faults>>

EndTick ==
    /\ pc = "task"
    /\ task > Len(Tasks)
    /\ pc' = "idle"
    /\ UNCHANGED <<directories, producer, sharepoint, clock, stopping, tick, delivery,
                   faults, breaks>>

\* run, the loop over files in name order.  One that is not ready is passed over,
\* one whose content does not parse raises before anything is sent.
TakeFile ==
    /\ pc = "files"
    /\ \/ /\ files = {}
          /\ pc' = "task" /\ task' = task + 1
          /\ UNCHANGED <<files, delivery>>
       \/ /\ files # {} /\ stopping
          /\ pc' = "idle" /\ files' = {}
          /\ UNCHANGED <<task, delivery>>
       \/ /\ ~stopping
          /\ \E f \in files :
                /\ \A g \in files \ {f} : Before(f, g)
                /\ files' = files \ {f}
                /\ \/ /\ \/ ~IsReady(f)
                         \/ IsReady(f) /\ Tasks[task].action = "list" /\ ~queue[f].whole
                      /\ UNCHANGED <<pc, delivery>>
                   \/ /\ IsReady(f) /\ Tasks[task].action = "list" /\ queue[f].whole
                      /\ pc' = "send" /\ hand' = f
                      /\ todo' = queue[f].items /\ failed' = {}
                   \/ /\ IsReady(f) /\ Tasks[task].action = "copy"
                      /\ pc' = "copy" /\ hand' = f
                      /\ UNCHANGED <<todo, failed>>
          /\ UNCHANGED task
    /\ UNCHANGED <<directories, producer, sharepoint, clock, stopping, now, faults, breaks>>

----------------------------------------------------------------------------
(* deliver_one *)

\* SharePoint takes items it may have taken before.
Lands(S) == landed' = landed \cup S /\ resent' = resent \cup (S \cap landed)

\* deliver_one returns, and the loop goes on to the next file.
Done ==
    /\ pc' = "files"
    /\ hand' = NoFile /\ todo' = {} /\ failed' = {}

\* create_items / update_items: one item.  A call that raises may have landed.
SendItem(i) ==
    /\ pc = "send"
    /\ todo' = todo \ {i}
    /\ \/ /\ Lands({i})
          /\ UNCHANGED <<failed, faults, breaks>>
       \/ /\ faults < MaxFaults
          /\ faults' = faults + 1
          /\ failed' = failed \cup {i}
          /\ UNCHANGED <<sharepoint, breaks>>
       \/ /\ breaks < MaxBreaks
          /\ breaks' = breaks + 1
          /\ Lands({i})
          /\ failed' = failed \cup {i}
          /\ UNCHANGED faults
    /\ UNCHANGED <<directories, producer, clock, pc, stopping, tick, hand>>

\* Mutation: a part-failed file is archived without its residue.
SendDoneDropping ==
    /\ pc = "send" /\ todo = {}
    /\ pc' = "archive" /\ UNCHANGED delivery
    /\ UNCHANGED <<directories, producer, sharepoint, clock, stopping, tick, faults, breaks>>

\* Every item has been tried: archive the file, write its failures back, or
\* leave it queued whole.
SendDone ==
    /\ pc = "send" /\ todo = {}
    /\ \/ failed = {} /\ pc' = "archive" /\ UNCHANGED delivery
       \/ failed # {} /\ ~Tasks[task].retry /\ Done
       \/ failed # {} /\ Tasks[task].retry /\ pc' = "residue" /\ UNCHANGED delivery
    /\ UNCHANGED <<directories, producer, sharepoint, clock, stopping, tick, faults, breaks>>

\* Mutation: a refused copy is archived as if it had landed.
CopyFileSwallowed ==
    /\ pc = "copy"
    /\ \/ Lands(IF queue[hand].whole THEN queue[hand].items ELSE {}) /\ UNCHANGED faults
       \/ faults < MaxFaults /\ faults' = faults + 1 /\ UNCHANGED sharepoint
    /\ pc' = "archive" /\ UNCHANGED delivery
    /\ UNCHANGED <<directories, producer, clock, stopping, tick, breaks>>

\* copy_file: the file handler takes the file as it is, or raises.
CopyFile ==
    /\ pc = "copy"
    /\ \/ /\ Lands(IF queue[hand].whole THEN queue[hand].items ELSE {})
          /\ pc' = IF Tasks[task].method = "move" THEN "moved" ELSE "archive"
          /\ UNCHANGED <<delivery, faults>>
       \/ /\ faults < MaxFaults
          /\ faults' = faults + 1
          /\ Done
          /\ UNCHANGED sharepoint
    /\ UNCHANGED <<directories, producer, clock, stopping, tick, breaks>>

\* With method "move" the client takes the source away as well.
MoveSource ==
    /\ pc = "moved"
    /\ queue' = Without(queue, hand)
    /\ pc' = "archive"
    /\ UNCHANGED <<processed, producer, sharepoint, clock, stopping, tick, delivery,
                   faults, breaks>>

\* Mutations: every item is written back; a residue written in place is archived.
WriteResidueWhole ==
    /\ pc = "residue"
    /\ queue' = Put(queue, RetryName(hand),
                    [items |-> queue[hand].items, whole |-> TRUE, mtime |-> clock])
    /\ IF RetryName(hand) = hand THEN Done ELSE pc' = "archive" /\ UNCHANGED delivery
    /\ UNCHANGED <<processed, producer, sharepoint, clock, stopping, tick, faults, breaks>>
WriteResidueAnyway ==
    /\ pc = "residue"
    /\ queue' = Put(queue, RetryName(hand), [items |-> failed, whole |-> TRUE, mtime |-> clock])
    /\ pc' = "archive" /\ UNCHANGED delivery
    /\ UNCHANGED <<processed, producer, sharepoint, clock, stopping, tick, faults, breaks>>

\* write_retry_file: the failures take the retry name, whatever had it before; a
\* residue that replaced the file in hand is not archived.
WriteResidue ==
    /\ pc = "residue"
    /\ \/ /\ queue' = Put(queue, RetryName(hand),
                          [items |-> failed, whole |-> TRUE, mtime |-> clock])
          /\ IF RetryName(hand) = hand THEN Done ELSE pc' = "archive" /\ UNCHANGED delivery
          /\ UNCHANGED breaks
       \/ /\ breaks < MaxBreaks
          /\ breaks' = breaks + 1
          /\ Done
          /\ UNCHANGED queue
    /\ UNCHANGED <<processed, producer, sharepoint, clock, stopping, tick, faults>>

\* Mutation: the archive keeps one file per stem.
ArchiveByStem ==
    /\ pc = "archive"
    /\ IF hand \in DOMAIN queue
       THEN /\ processed' = Put(processed, <<hand[1], 0>>, queue[hand].items)
            /\ queue' = Without(queue, hand)
       ELSE UNCHANGED directories
    /\ Done
    /\ UNCHANGED <<producer, sharepoint, clock, stopping, tick, faults, breaks>>

\* cleanup_file: the file moves to Processed, over any file of that name; one that
\* has gone, or cannot be moved, is reported as undelivered.
Archive ==
    /\ pc = "archive"
    /\ \/ /\ hand \in DOMAIN queue
          /\ processed' = Put(processed, hand, queue[hand].items)
          /\ queue' = Without(queue, hand)
          /\ UNCHANGED breaks
       \/ /\ hand \notin DOMAIN queue
          /\ UNCHANGED <<directories, breaks>>
       \/ /\ breaks < MaxBreaks
          /\ breaks' = breaks + 1
          /\ UNCHANGED directories
    /\ Done
    /\ UNCHANGED <<producer, sharepoint, clock, stopping, tick, faults>>

----------------------------------------------------------------------------
(* Stopping and crashing *)

\* A SIGINT or SIGTERM: the loop ends at the next safe point.
RequestStop ==
    /\ pc # "down"
    /\ ~stopping
    /\ stopping' = TRUE
    /\ UNCHANGED <<directories, producer, sharepoint, clock, pc, tick, delivery, faults, breaks>>

\* The process dies: only the directories remain.
Crash ==
    /\ pc # "down"
    /\ breaks < MaxBreaks
    /\ breaks' = breaks + 1
    /\ pc' = "down" /\ stopping' = FALSE /\ files' = {}
    /\ hand' = NoFile /\ todo' = {} /\ failed' = {}
    /\ UNCHANGED <<directories, producer, sharepoint, clock, task, now, faults>>

\* An operator starts it again.
Restart ==
    /\ pc = "down"
    /\ pc' = "idle"
    /\ UNCHANGED <<directories, producer, sharepoint, clock, stopping, tick, delivery,
                   faults, breaks>>

----------------------------------------------------------------------------
Environment ==
    \/ \E s \in Stem : BeginFile(s)
    \/ \E n \in DOMAIN queue : FinishFile(n)
    \/ TimePasses
    \/ RequestStop
    \/ Crash

Loop ==
    \/ StartTick \/ TakeTask \/ EndTick \/ TakeFile
    \/ \E i \in todo : SendItem(i)
    \/ SendDone \/ CopyFile \/ MoveSource \/ WriteResidue \/ Archive

Next == Environment \/ Loop \/ Restart

Spec == Init /\ [][Next]_vars

(* The loop goes on, somebody restarts it, and a producer finishes what it has *)
(* begun; refused items and crashes are bounded by MaxFaults and MaxBreaks.    *)
Fairness ==
    /\ WF_vars(Loop) /\ WF_vars(Restart)
    /\ \A s \in Stem : WF_vars(<<s, 0>> \in DOMAIN queue /\ FinishFile(<<s, 0>>))

FairSpec == Spec /\ Fairness
=============================================================================
