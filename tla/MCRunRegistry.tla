---------------------------- MODULE MCRunRegistry ----------------------------
(* A small instance of RunRegistry for TLC. *)
EXTENDS RunRegistryProperties

CONSTANTS MaxLines, MaxTears, MaxTruncations

MCBound == [lines |-> MaxLines, tears |-> MaxTears, truncations |-> MaxTruncations]
=============================================================================
