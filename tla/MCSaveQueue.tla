---------------------------- MODULE MCSaveQueue ----------------------------
(* Small instances of SaveQueue for TLC. *)
EXTENDS SaveQueueProperties

CONSTANTS c1, c2, answers, notes

\* One pending-key per field.
SingleKeys == [k \in {answers, notes} |-> {k}]

\* 'answers', and a field set that shares it with 'notes'.
OverlappingKeys == [k \in {answers, notes} |->
                      IF k = notes THEN {answers, notes} ELSE {answers}]
=============================================================================
