---------------------------- MODULE MCQueryPath ----------------------------
(* TLC instances of QueryPath. *)
EXTENDS QueryPath, TLC

CONSTANTS o1, o2

\* The second chunk of every generation reads like instructions.
SecondChunks == [accession : Accession, version : Version, ordinal : {o2}]

Symmetric == Permutations(Accession) \cup Permutations(Version)
=============================================================================
