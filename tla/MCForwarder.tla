---------------------------- MODULE MCForwarder ----------------------------
(* Small declarations of tasks for TLC. *)
EXTENDS ForwarderProperties

list(stems, retry) ==
    [action |-> "list", stems |-> stems, exact |-> FALSE, retry |-> retry, method |-> "copy"]
exactly(stems) ==
    [action |-> "list", stems |-> stems, exact |-> TRUE, retry |-> TRUE, method |-> "copy"]
copy(stems, method) ==
    [action |-> "copy", stems |-> stems, exact |-> FALSE, retry |-> FALSE, method |-> method]
unknown(stems) ==
    [action |-> "other", stems |-> stems, exact |-> FALSE, retry |-> FALSE, method |-> "copy"]

\* One list task with per-item retry.
RetryTasks == <<list({1}, TRUE)>>
\* A task of every kind, each with files of its own.
MixedTasks == <<list({1}, TRUE), list({2}, FALSE), unknown({2}), copy({3}, "move"), copy({4}, "copy")>>
\* An exact pattern, and a whole-file task.
ExactTasks == <<exactly({1}), list({2}, FALSE)>>
=============================================================================
