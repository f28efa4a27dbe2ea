--------------------------- MODULE QueryPathProofs ---------------------------
(***************************************************************************)
(* Proofs about QueryPath for any number of questions, accessions,         *)
(* generations and chunks, over any corpus that CorpusPublication allows:  *)
(* an answer cites the corpus of one instant, and a listing never meets a  *)
(* half-made publication.                                                  *)
(***************************************************************************)
EXTENDS QueryPath, TLAPS

(***************************************************************************)
(* The inductive invariant.                                                *)
(***************************************************************************)
Served == [Accession -> Version \cup {None}]

QueryTypeOK ==
    /\ index \subseteq Accession
    /\ serving \in Served
    /\ published \in [Accession -> SUBSET Version]
    /\ complete \in [Accession -> SUBSET Version]
    /\ pc \in [Question -> Pc]
    /\ named \in [Question -> SUBSET Accession]
    /\ pointed \in [Question -> SUBSET Manifest]
    /\ listed \in [Question -> SUBSET Manifest]
    /\ evidence \in [Question -> SUBSET Chunk]
    /\ cited \in [Question -> SUBSET Chunk]
    /\ moments \in [Question -> SUBSET Served]

\* Some instant of the question served all these generations together.
AtOneInstant(q, manifests) ==
    \E instant \in moments[q] : \A m \in manifests : instant[m[1]] = m[2]

\* What can be found is served, and what is served has its record.
ServedPublished ==
    \A a \in Accession :
        /\ a \in index => serving[a] # None
        /\ serving[a] # None => serving[a] \in published[a]

\* What a question holds at each of its awaits: accessions that are still
\* served, records that are still published, and generations of one instant.
QuestionInv(q) ==
    /\ pc[q] \in Asking => serving \in moments[q]
    /\ \A a \in named[q] : serving[a] # None
    /\ pc[q] = "records" =>
          (\A m \in pointed[q] : RecordPublished(m)) /\ AtOneInstant(q, pointed[q])
    /\ pc[q] \in {"commit", "embed", "search", "generate"} => AtOneInstant(q, listed[q])
    /\ pc[q] = "generate" => \A c \in evidence[q] : ManifestOf(c) \in listed[q]
    /\ pc[q] = "answered" => AtOneInstant(q, {ManifestOf(c) : c \in cited[q]})
    /\ pc[q] # "inconsistent"

QueryInv ==
    /\ QueryTypeOK
    /\ ServedPublished
    /\ \A q \in Question : QuestionInv(q)

(***************************************************************************)
(* The steps.                                                              *)
(***************************************************************************)
\* SafeManifests returns some of its argument.
LEMMA SafeManifestsAreGiven ==
    ASSUME NEW manifests PROVE SafeManifests(manifests) \subseteq manifests
  BY DEF SafeManifests

\* What was served at one instant was so for any part of it.
LEMMA PartOfInstant ==
    ASSUME NEW q \in Question, NEW manifests, AtOneInstant(q, manifests),
           NEW part, part \subseteq manifests
    PROVE  AtOneInstant(q, part)
  BY DEF AtOneInstant

\* A step of one question leaves the others as they are.
LEMMA OneQuestionMoves ==
    ASSUME QueryInv, NEW q \in Question, QueryTypeOK', ServedPublished', QuestionInv(q)',
           UNCHANGED corpusVars,
           \A p \in Question \ {q} :
               UNCHANGED <<pc[p], named[p], pointed[p], listed[p], evidence[p], cited[p], moments[p]>>
    PROVE  QueryInv'
<1> SUFFICES ASSUME NEW p \in Question \ {q} PROVE QuestionInv(p)'
  BY DEF QueryInv
<1>1. QuestionInv(p)
  BY DEF QueryInv
<1> QED
  BY <1>1 DEF QuestionInv, AtOneInstant, RecordPublished, corpusVars

\* The end of a question, without an answer.
LEMMA EndsKeepsInv ==
    ASSUME QueryInv, NEW q \in Question, NEW outcome \in Outcome \ {"answered", "inconsistent"},
           Ends(q, outcome), UNCHANGED corpusVars,
           \/ UNCHANGED moments
           \/ moments' = [moments EXCEPT ![q] = {serving}]
    PROVE  QueryInv'
<1> USE DEF QueryInv, Ends, Finishes, Goto, corpusVars
<1>1. QueryTypeOK'
  BY DEF QueryTypeOK, Pc
<1>2. ServedPublished'
  BY DEF ServedPublished
<1>3. QuestionInv(q)'
  BY DEF QuestionInv, QueryTypeOK, Outcome, Asking
<1> QED
  BY <1>1, <1>2, <1>3, OneQuestionMoves DEF QueryTypeOK

LEMMA AskKeepsInv ==
    ASSUME QueryInv, NEW q \in Question, Ask(q) PROVE QueryInv'
<1>1. CASE Ends(q, "refused")
  BY <1>1, EndsKeepsInv DEF Ask, Outcome
<1>2. CASE Goto(q, "index") /\ UNCHANGED <<named, pointed, listed, evidence, cited>>
  <2> USE <1>2 DEF Ask, QueryInv, Goto, corpusVars
  <2>1. QueryTypeOK'
    BY DEF QueryTypeOK, Pc, Asking
  <2>2. ServedPublished'
    BY DEF ServedPublished
  <2>3. QuestionInv(q)'
    BY DEF QuestionInv, QueryTypeOK, Outcome, Asking
  <2> QED
    BY <2>1, <2>2, <2>3, OneQuestionMoves DEF QueryTypeOK
<1> QED
  BY <1>1, <1>2 DEF Ask

LEMMA ReadIndexKeepsInv ==
    ASSUME QueryInv, NEW q \in Question, ReadIndex(q) PROVE QueryInv'
<1>1. CASE Ends(q, "unavailable")
  BY <1>1, EndsKeepsInv DEF ReadIndex, At, Outcome
<1>2. CASE /\ named' = [named EXCEPT ![q] = index]
           /\ Goto(q, "pointers")
           /\ UNCHANGED <<pointed, listed, evidence, cited>>
  <2> USE <1>2 DEF ReadIndex, At, QueryInv, Goto, corpusVars
  <2>1. QueryTypeOK'
    BY DEF QueryTypeOK, Pc, Asking
  <2>2. ServedPublished'
    BY DEF ServedPublished
  <2>3. QuestionInv(q)'
    BY DEF QuestionInv, QueryTypeOK, ServedPublished, Asking
  <2> QED
    BY <2>1, <2>2, <2>3, OneQuestionMoves DEF QueryTypeOK
<1> QED
  BY <1>1, <1>2 DEF ReadIndex

\* The pointers are all there, and what they name is served at this instant.
LEMMA ReadPointersKeepsInv ==
    ASSUME QueryInv, NEW q \in Question, ReadPointers(q) PROVE QueryInv'
<1> DEFINE manifests == {<<a, serving[a]>> : a \in named[q]}
<1>1. \A a \in named[q] : a \in Accession /\ serving[a] # None
  BY DEF QueryInv, QuestionInv, QueryTypeOK
<1> USE <1>1 DEF ReadPointers, At, Goto, corpusVars
<1>2. /\ pointed' = [pointed EXCEPT ![q] = manifests]
      /\ Goto(q, "records")
      /\ UNCHANGED <<named, listed, evidence, cited>>
  OBVIOUS
<1>3. manifests \subseteq Manifest
  BY DEF QueryInv, QueryTypeOK, Manifest, Served
<1>4. QueryTypeOK'
  BY <1>2, <1>3 DEF QueryInv, QueryTypeOK, Pc, Asking
<1>5. ServedPublished'
  BY DEF QueryInv, ServedPublished
<1>6. \A m \in manifests : RecordPublished(m)
  BY <1>1 DEF QueryInv, ServedPublished, RecordPublished
<1>7. serving \in moments[q] /\ \A m \in manifests : serving[m[1]] = m[2]
  <2>1. serving \in moments[q]
    BY DEF QueryInv, QuestionInv, Asking
  <2>2. \A m \in manifests : serving[m[1]] = m[2]
    OBVIOUS
  <2> QED
    BY <2>1, <2>2
<1>8. QuestionInv(q)'
  BY <1>2, <1>6, <1>7 DEF QueryInv, QuestionInv, AtOneInstant, RecordPublished, QueryTypeOK, Asking
<1> QED
  BY <1>2, <1>4, <1>5, <1>8, OneQuestionMoves DEF QueryInv, QueryTypeOK

LEMMA ReadRecordsKeepsInv ==
    ASSUME QueryInv, NEW q \in Question, ReadRecords(q) PROVE QueryInv'
<1> USE DEF ReadRecords, RecordsOf, At, Goto, corpusVars
<1>1. (\A m \in pointed[q] : RecordPublished(m)) /\ AtOneInstant(q, pointed[q])
  BY DEF QueryInv, QuestionInv
<1>2. /\ listed' = [listed EXCEPT ![q] = SafeManifests(pointed[q])]
      /\ Goto(q, "commit")
      /\ UNCHANGED <<named, pointed, evidence, cited>>
  BY <1>1
<1>3. SafeManifests(pointed[q]) \subseteq pointed[q]
  BY SafeManifestsAreGiven
<1>4. AtOneInstant(q, SafeManifests(pointed[q]))
  BY <1>1, <1>3, PartOfInstant
<1>5. QueryTypeOK'
  BY <1>2, <1>3 DEF QueryInv, QueryTypeOK, Pc, Asking
<1>6. ServedPublished'
  BY DEF QueryInv, ServedPublished
<1>7. QuestionInv(q)'
  BY <1>2, <1>4 DEF QueryInv, QuestionInv, AtOneInstant, QueryTypeOK, Asking
<1> QED
  BY <1>2, <1>5, <1>6, <1>7, OneQuestionMoves DEF QueryInv, QueryTypeOK

\* A commit or an embedding that succeeds only moves the question on.
LEMMA PaidStepsKeepInv ==
    ASSUME QueryInv, NEW q \in Question, CommitBeforePaidCall(q) \/ EmbedQuery(q) PROVE QueryInv'
<1>1. CASE Ends(q, "unavailable") \/ Ends(q, "insufficient")
  BY <1>1, EndsKeepsInv DEF CommitBeforePaidCall, EmbedQuery, At, Outcome
<1>2. ASSUME NEW next \in {"embed", "search"}, Goto(q, next), pc[q] \in {"commit", "embed"},
             UNCHANGED <<corpusVars, moments, named, pointed, listed, evidence, cited>>
      PROVE  QueryInv'
  <2> USE <1>2 DEF QueryInv, Goto, corpusVars
  <2>1. QueryTypeOK'
    BY DEF QueryTypeOK, Pc, Asking
  <2>2. ServedPublished'
    BY DEF ServedPublished
  <2>3. QuestionInv(q)'
    BY DEF QuestionInv, AtOneInstant, QueryTypeOK, Asking
  <2> QED
    BY <2>1, <2>2, <2>3, OneQuestionMoves DEF QueryTypeOK
<1> QED
  BY <1>1, <1>2 DEF CommitBeforePaidCall, EmbedQuery, At

\* Whatever the index answers, evidence comes from listed generations only.
LEMMA SearchKeepsInv ==
    ASSUME QueryInv, NEW q \in Question, Search(q) PROVE QueryInv'
<1> USE DEF Search, At
<1>1. CASE Ends(q, "insufficient")
  BY <1>1, EndsKeepsInv DEF Outcome
<1>2. ASSUME NEW hits \in Hits,
             NEW best \in Best({c \in hits : Usable(q, c)}),
             evidence' = [evidence EXCEPT ![q] = best],
             Goto(q, "generate"), UNCHANGED <<named, pointed, listed, cited>>
      PROVE  QueryInv'
  <2> USE <1>2 DEF QueryInv, Goto, corpusVars
  <2>1. best \subseteq Chunk /\ \A c \in best : ManifestOf(c) \in listed[q]
    BY DEF Best, Usable, Hits
  <2>2. QueryTypeOK'
    BY <2>1 DEF QueryTypeOK, Pc, Asking
  <2>3. ServedPublished'
    BY DEF ServedPublished
  <2>4. QuestionInv(q)'
    BY <2>1 DEF QuestionInv, AtOneInstant, QueryTypeOK, Asking
  <2> QED
    BY <2>2, <2>3, <2>4, OneQuestionMoves DEF QueryTypeOK
<1>3. \/ Ends(q, "insufficient")
      \/ \E hits \in Hits : \E best \in Best({c \in hits : Usable(q, c)}) :
            /\ evidence' = [evidence EXCEPT ![q] = best]
            /\ Goto(q, "generate") /\ UNCHANGED <<named, pointed, listed, cited>>
  BY DEF Conflict
<1> QED
  BY <1>1, <1>2, <1>3

\* An answer cites some of its evidence.
LEMMA GenerateKeepsInv ==
    ASSUME QueryInv, NEW q \in Question, Generate(q) PROVE QueryInv'
<1> USE DEF Generate, At
<1>1. CASE Declines(q) \/ Ungrounded(q) \/ TooLong(q)
  BY <1>1, EndsKeepsInv DEF Declines, Ungrounded, TooLong, Outcome
<1>2. ASSUME NEW supporting \in Support(q), Answers(q, supporting) PROVE QueryInv'
  <2> USE <1>2 DEF QueryInv, Answers, Finishes, Goto, corpusVars
  <2>1. supporting \subseteq evidence[q] /\ supporting \subseteq Chunk
    BY DEF Support, QueryTypeOK
  <2>2. AtOneInstant(q, {ManifestOf(c) : c \in supporting})
    <3>1. /\ \A c \in supporting : ManifestOf(c) \in listed[q]
          /\ AtOneInstant(q, listed[q])
      BY <2>1 DEF QuestionInv
    <3>2. {ManifestOf(c) : c \in supporting} \subseteq listed[q]
      BY ONLY <3>1
    <3> QED
      BY <3>1, <3>2, PartOfInstant
  <2>3. QueryTypeOK'
    BY <2>1 DEF QueryTypeOK, Pc, Outcome
  <2>4. ServedPublished'
    BY DEF ServedPublished
  <2>5. QuestionInv(q)'
    BY <2>2 DEF QuestionInv, AtOneInstant, QueryTypeOK, Asking
  <2> QED
    BY <2>3, <2>4, <2>5, OneQuestionMoves DEF QueryTypeOK
<1> QED
  BY <1>1, <1>2

LEMMA FailsKeepsInv ==
    ASSUME QueryInv, NEW q \in Question, Fails(q) PROVE QueryInv'
  BY EndsKeepsInv DEF Fails, Outcome, corpusVars

\* Whatever is loaded, published or removed meanwhile: pointers only move from
\* one published record to another, and the instants of a question only add up.
LEMMA IngestionKeepsInv == QueryInv /\ Ingestion => QueryInv'
<1> SUFFICES ASSUME QueryInv, Ingestion PROVE QueryInv'
  OBVIOUS
<1> USE DEF Corpus!Load, Corpus!Unload, Corpus!Publish
<1>1. PICK a \in Accession, v \in Version :
          Corpus!Load(a, v) \/ Corpus!Unload(a, v) \/ Corpus!Publish(a, v)
  BY DEF Ingestion, Corpus!Next
<1>2. /\ index' \subseteq Accession /\ serving' \in Served
      /\ published' \in [Accession -> SUBSET Version]
      /\ complete' \in [Accession -> SUBSET Version]
  BY <1>1 DEF QueryInv, QueryTypeOK, Served
<1>3. \A b \in Accession :
          /\ published[b] \subseteq published'[b]
          /\ serving[b] # None => serving'[b] # None
  BY <1>1, QueryAssumption DEF QueryInv, QueryTypeOK, Served
<1>4. UNCHANGED questionVars /\ Witness
  BY DEF Ingestion
<1>5. QueryTypeOK'
  BY <1>2, <1>4 DEF QueryInv, QueryTypeOK, questionVars, Witness
<1>6. ServedPublished'
  BY <1>1, QueryAssumption DEF QueryInv, QueryTypeOK, ServedPublished, Served
<1>7. ASSUME NEW q \in Question PROVE QuestionInv(q)'
  <2>1. moments[q] \subseteq moments'[q] /\ (pc[q] \in Asking => serving' \in moments'[q])
    BY <1>4 DEF Witness
  <2>2. QuestionInv(q)
    BY DEF QueryInv
  <2>3. \A b \in named[q] : b \in Accession
    BY DEF QueryInv, QueryTypeOK
  <2>4. \A m \in pointed[q] : RecordPublished(m) => RecordPublished(m)'
    BY <1>3 DEF QueryInv, QueryTypeOK, Manifest, RecordPublished
  <2> QED
    BY <1>3, <1>4, <2>1, <2>2, <2>3, <2>4 DEF QuestionInv, AtOneInstant, questionVars
<1> QED
  BY <1>5, <1>6, <1>7 DEF QueryInv

LEMMA QueryInvInit == Init => QueryInv
  BY DEF Init, Corpus!Init, QueryInv, QueryTypeOK, ServedPublished, QuestionInv, Served, Pc,
         Asking, Outcome

LEMMA QueryInvNext == QueryInv /\ [Next]_vars => QueryInv'
<1> SUFFICES ASSUME QueryInv, [Next]_vars PROVE QueryInv'
  OBVIOUS
<1>1. CASE UNCHANGED vars
  BY <1>1 DEF QueryInv, QueryTypeOK, ServedPublished, QuestionInv, AtOneInstant, RecordPublished,
              vars, corpusVars, questionVars
<1>2. ASSUME NEW q \in Question, QuestionStep(q) PROVE QueryInv'
  BY <1>2, AskKeepsInv, ReadIndexKeepsInv, ReadPointersKeepsInv, ReadRecordsKeepsInv,
     PaidStepsKeepInv, SearchKeepsInv, GenerateKeepsInv, FailsKeepsInv DEF QuestionStep
<1> QED
  BY <1>1, <1>2, IngestionKeepsInv DEF Next

LEMMA QueryInvariant == Spec => []QueryInv
  BY QueryInvInit, QueryInvNext, PTL DEF Spec

(***************************************************************************)
(* The theorems.                                                           *)
(***************************************************************************)
\* OneInstant: an answer cites generations that were served together while its
\* question was under way, however many filings it is about and whatever is
\* published, loaded and deleted meanwhile (query_research).
THEOREM AnswersFromOneInstant == Spec => []OneInstant
<1>1. ASSUME QueryInv, NEW q \in Question, pc[q] = "answered"
      PROVE  \E instant \in moments[q] : \A c \in cited[q] : instant[c.accession] = c.version
  <2>1. PICK instant \in moments[q] :
            \A m \in {ManifestOf(c) : c \in cited[q]} : instant[m[1]] = m[2]
    BY <1>1 DEF QueryInv, QuestionInv, AtOneInstant
  <2>2. ASSUME NEW c \in cited[q] PROVE instant[c.accession] = c.version
    <3>1. ManifestOf(c)[1] = c.accession /\ ManifestOf(c)[2] = c.version
      BY DEF ManifestOf
    <3> QED
      BY <2>1, <3>1
  <2> QED
    BY <2>2
<1>2. QueryInv => OneInstant
  BY <1>1 DEF OneInstant
<1> QED
  BY <1>2, QueryInvariant, PTL

\* ListingConsistent: the three reads of a listing never contradict each other
\* while the corpus is in order (list_active_generations).
THEOREM ListingNeverInconsistent == Spec => []ListingConsistent
<1>1. QueryInv => ListingConsistent
  BY DEF QueryInv, QuestionInv, ListingConsistent
<1> QED
  BY <1>1, QueryInvariant, PTL
=============================================================================
