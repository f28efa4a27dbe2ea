--------------------------- MODULE MCFilingSource ---------------------------
(* TLC instances of FilingSource. *)
EXTENDS FilingSource, TLC

AllButOne == Filing \ {2}

Symmetric == Permutations(Discovery) \cup Permutations(Fetch)
=============================================================================
