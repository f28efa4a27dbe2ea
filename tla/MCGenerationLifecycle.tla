------------------------ MODULE MCGenerationLifecycle ------------------------
(***************************************************************************)
(* Instances of GenerationLifecycle for TLC.                               *)
(***************************************************************************)
EXTENDS GenerationProperties, TLC

\* Runs, and generations, are interchangeable in the safety runs.
RunSymmetry == Permutations(Run \ RetryRuns) \cup Permutations(RetryRuns)
GenerationSymmetry == Permutations(Generation)
Symmetry == RunSymmetry \cup GenerationSymmetry
=============================================================================
