---------------------------- MODULE MCRetryLedger ----------------------------
(***************************************************************************)
(* Instances of RetryLedger for TLC.                                       *)
(***************************************************************************)
EXTENDS RetryProperties, TLC

\* Commands are interchangeable.
Symmetry == Permutations(Command)
=============================================================================
