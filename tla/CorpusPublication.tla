-------------------------- MODULE CorpusPublication --------------------------
(***************************************************************************)
(* What the research corpus promises its readers, with no lease, no         *)
(* checkpoint and no run in sight.  Of each accession at most one           *)
(* generation is served; it comes to be served in one step, when all its    *)
(* points are in the vector index, and that step enters the accession in    *)
(* the index and the generation in the published records, both for good; a  *)
(* generation that was replaced is never served again.                      *)
(*                                                                         *)
(* GenerationLifecycle implements it for its accession, and QueryPath asks  *)
(* its questions of any number of them.                                     *)
(***************************************************************************)
EXTENDS FiniteSets

CONSTANTS Accession, Generation, None

VARIABLES
    index,      \* the accessions that can be found
    serving,    \* the generation each accession's pointer names, or None
    published,  \* the generations whose record is PUBLISHED
    complete    \* the generations with every point in the vector index

Init ==
    /\ index = {}
    /\ serving = [a \in Accession |-> None]
    /\ published = [a \in Accession |-> {}]
    /\ complete = [a \in Accession |-> {}]

\* Was served and is no longer.
Replaced(a) == published[a] \ {serving[a]}

\* The last point of a generation arrives, or the first of them goes; the served
\* one keeps its points, and a replaced one is not filled again.
Load(a, g) ==
    /\ g \notin Replaced(a)
    /\ complete' = [complete EXCEPT ![a] = @ \cup {g}]
    /\ UNCHANGED <<index, serving, published>>

Unload(a, g) ==
    /\ g # serving[a]
    /\ complete' = [complete EXCEPT ![a] = @ \ {g}]
    /\ UNCHANGED <<index, serving, published>>

\* A complete, new generation replaces the served one.
Publish(a, g) ==
    /\ g \in complete[a] \ published[a]
    /\ index' = index \cup {a}
    /\ serving' = [serving EXCEPT ![a] = g]
    /\ published' = [published EXCEPT ![a] = @ \cup {g}]
    /\ UNCHANGED complete

Next == \E a \in Accession, g \in Generation : Load(a, g) \/ Unload(a, g) \/ Publish(a, g)

Spec == Init /\ [][Next]_<<index, serving, published, complete>>
=============================================================================
