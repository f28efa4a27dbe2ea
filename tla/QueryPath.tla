----------------------------- MODULE QueryPath -----------------------------
(***************************************************************************)
(* A research question (ResearchCoreService.query_research) while operators *)
(* replace the generations of the accessions it is about.  The question     *)
(* reads the corpus in three commands, searches the index with what it has  *)
(* read, and has an answer written from the hits; any of these may fail or  *)
(* be cut off.  The other side is CorpusPublication itself: whatever it     *)
(* allows may happen between two steps of a question, and the lifecycle of   *)
(* each accession allows no more (GenerationLifecycle).                      *)
(***************************************************************************)
EXTENDS Integers, FiniteSets

CONSTANTS Question,
          Accession, Version, Ordinal,   \* filings, their generations, their chunks
          None,
          MaxResults,                    \* policy.max_results
          SearchLimit,                   \* max_results * overfetch_factor
          Injected                       \* chunks that read like instructions

Chunk == [accession : Accession, version : Version, ordinal : Ordinal]

ASSUME QueryAssumption ==
    /\ None \notin Version
    /\ IsFiniteSet(Chunk)
    /\ MaxResults \in Nat \ {0} /\ SearchLimit \in Nat \ {0}
    /\ Injected \subseteq Chunk

VARIABLES
    index, serving, published, complete,  \* the corpus (CorpusPublication)
    pc,
    named,      \* the accessions the question found in the index
    pointed,    \* the generations their pointers named
    listed,     \* the manifests it may use
    evidence,   \* the hits it accepted
    cited,      \* the chunks its answer cites
    moments     \* history: what was served while the question was under way

corpusVars == <<index, serving, published, complete>>
questionVars == <<pc, named, pointed, listed, evidence, cited>>
vars == <<corpusVars, questionVars, moments>>

\* "too_long" is an error: the answer cannot be constructed.
Outcome == {"answered", "insufficient", "refused", "unavailable", "inconsistent", "too_long"}
Asking == {"index", "pointers", "records", "commit", "embed", "search", "generate"}
Pc == {"idle"} \cup Asking \cup Outcome

Manifest == Accession \X Version

ManifestOf(c) == <<c.accession, c.version>>

Corpus == INSTANCE CorpusPublication WITH Generation <- Version

Init ==
    /\ Corpus!Init
    /\ pc = [q \in Question |-> "idle"]
    /\ named = [q \in Question |-> {}]
    /\ pointed = [q \in Question |-> {}]
    /\ listed = [q \in Question |-> {}]
    /\ evidence = [q \in Question |-> {}]
    /\ cited = [q \in Question |-> {}]
    /\ moments = [q \in Question |-> {}]

(***************************************************************************)
(* The corpus moves; questions under way are witnesses of what is served.   *)
(***************************************************************************)
Witness == moments' = [q \in Question |->
    IF pc[q] \in Asking THEN moments[q] \cup {serving'} ELSE moments[q]]

Ingestion == Corpus!Next /\ Witness /\ UNCHANGED questionVars

(***************************************************************************)
(* The question.                                                           *)
(***************************************************************************)
At(q, from) == pc[q] = from /\ UNCHANGED <<corpusVars, moments>>

Goto(q, to) == pc' = [pc EXCEPT ![q] = to]

\* The question is over: what it has read is forgotten.
Finishes(q, outcome) ==
    /\ Goto(q, outcome)
    /\ named' = [named EXCEPT ![q] = {}]
    /\ pointed' = [pointed EXCEPT ![q] = {}]
    /\ listed' = [listed EXCEPT ![q] = {}]
    /\ evidence' = [evidence EXCEPT ![q] = {}]

Ends(q, outcome) == Finishes(q, outcome) /\ UNCHANGED cited

Answers(q, supporting) ==
    /\ Finishes(q, "answered")
    /\ cited' = [cited EXCEPT ![q] = supporting]

\* A request for personal advice is refused before anything is read.
Ask(q) ==
    /\ pc[q] = "idle"
    /\ \/ Goto(q, "index") /\ UNCHANGED <<named, pointed, listed, evidence, cited>>
       \/ Ends(q, "refused")
    /\ moments' = [moments EXCEPT ![q] = {serving}]
    /\ UNCHANGED corpusVars

ReadIndex(q) ==
    /\ At(q, "index")
    /\ IF index = {} THEN Ends(q, "unavailable")
       ELSE /\ named' = [named EXCEPT ![q] = index]
            /\ Goto(q, "pointers")
            /\ UNCHANGED <<pointed, listed, evidence, cited>>

\* One command reads all the pointers; each must be there.
ReadPointers(q) ==
    /\ At(q, "pointers")
    /\ IF \E a \in named[q] : serving[a] = None THEN Ends(q, "inconsistent")
       ELSE /\ pointed' = [pointed EXCEPT ![q] = {<<a, serving[a]>> : a \in named[q]}]
            /\ Goto(q, "records")
            /\ UNCHANGED <<named, listed, evidence, cited>>

\* _safe_manifests: the first manifest of each accession.
SafeManifests(manifests) ==
    {CHOOSE m \in manifests : m[1] = a : a \in {m[1] : m \in manifests}}

\* Mutated: the records found published are listed, pointed to or not.
RecordsListed(q) == {m \in Manifest : m[1] \in named[q] /\ m[2] \in published[m[1]]}

RecordsOf(q) == pointed[q]

\* Mutated: the record must be the one its pointer names by now.
RecordInUse(m) == m[2] = serving[m[1]]

RecordPublished(m) == m[2] \in published[m[1]]

\* One command reads the records the pointers named; each must be PUBLISHED.
ReadRecords(q) ==
    /\ At(q, "records")
    /\ IF \E m \in RecordsOf(q) : ~RecordPublished(m) THEN Ends(q, "inconsistent")
       ELSE /\ listed' = [listed EXCEPT ![q] = SafeManifests(RecordsOf(q))]
            /\ Goto(q, "commit")
            /\ UNCHANGED <<named, pointed, evidence, cited>>

\* The reservation is committed, or somebody else has taken it away.
CommitBeforePaidCall(q) ==
    /\ At(q, "commit")
    /\ \/ Goto(q, "embed") /\ UNCHANGED <<named, pointed, listed, evidence, cited>>
       \/ Ends(q, "unavailable")

\* An embedding from another model is not used.
EmbedQuery(q) ==
    /\ At(q, "embed")
    /\ \/ Goto(q, "search") /\ UNCHANGED <<named, pointed, listed, evidence, cited>>
       \/ Ends(q, "insufficient")

\* What _decode_hit lets through and classify_safe_hits checks again: a chunk of
\* a listed generation that does not read like instructions.
Usable(q, c) == ManifestOf(c) \in listed[q] /\ c \notin Injected

\* The index answers with any chunks, also some it is about to lose.
Hits == {hits \in SUBSET Chunk : Cardinality(hits) <= SearchLimit}

\* The best of the usable hits, as many as there are up to MaxResults.
Best(usable) ==
    {best \in SUBSET usable :
        \/ Cardinality(best) = MaxResults
        \/ best = usable /\ Cardinality(best) < MaxResults}

\* Two chunks may contradict each other.
Conflict(q, best) == Cardinality(best) > 1 /\ Ends(q, "insufficient")

\* Hits below the minimum score count for nothing, so any subset may be left.
Search(q) ==
    /\ At(q, "search")
    /\ \E hits \in Hits :
        LET usable == {c \in hits : Usable(q, c)}
        IN  IF usable = {} THEN Ends(q, "insufficient")
            ELSE \E best \in Best(usable) :
                 \/ /\ evidence' = [evidence EXCEPT ![q] = best]
                    /\ Goto(q, "generate")
                    /\ UNCHANGED <<named, pointed, listed, cited>>
                 \/ Conflict(q, best)

\* The chunks the claims of an answer may be quoted from: an answer that names a
\* chunk it was not given, or misquotes it, is a failed call.
Support(q) == SUBSET evidence[q] \ {{}}

\* The model makes no claim.
Declines(q) == \E status \in {"refused", "insufficient"} : Ends(q, status)

\* A claim its quotes do not support.
Ungrounded(q) == Ends(q, "insufficient")

\* Five claims may be longer together than an answer may be.
TooLong(q) == Ends(q, "too_long")

\* The model declines, or makes claims; the answer cites what they quote.
Generate(q) ==
    /\ At(q, "generate")
    /\ \/ Declines(q)
       \/ Ungrounded(q)
       \/ TooLong(q)
       \/ \E supporting \in Support(q) : Answers(q, supporting)

\* A command or a call fails, or the deadline passes.
Fails(q) ==
    /\ pc[q] \in Asking
    /\ Ends(q, "unavailable")
    /\ UNCHANGED <<corpusVars, moments>>

QuestionStep(q) ==
    \/ Ask(q) \/ ReadIndex(q) \/ ReadPointers(q) \/ ReadRecords(q)
    \/ CommitBeforePaidCall(q) \/ EmbedQuery(q) \/ Search(q) \/ Generate(q) \/ Fails(q)

Next == Ingestion \/ \E q \in Question : QuestionStep(q)

Spec == Init /\ [][Next]_vars

-----------------------------------------------------------------------------
(***************************************************************************)
(* Properties.                                                             *)
(***************************************************************************)
\* An answer cites the corpus as it was at one instant while the question was
\* under way, across all filings: never a generation replaced before it was
\* asked, never two generations of a filing, never a mixture of two moments, and
\* whatever is published and deleted while it is answered (query_research).
OneInstant ==
    \A q \in Question : pc[q] = "answered" =>
        \E instant \in moments[q] :
            \A c \in cited[q] : instant[c.accession] = c.version

\* Although index, pointers and records are read by three commands, no question
\* finds an accession without a pointer or a pointer without its record, and
\* fails although the corpus is in order (list_active_generations).
ListingConsistent == \A q \in Question : pc[q] # "inconsistent"
=============================================================================
