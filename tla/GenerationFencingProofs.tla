----------------------- MODULE GenerationFencingProofs -----------------------
(***************************************************************************)
(* Proofs about GenerationLifecycle, for every set of runs, set of          *)
(* generations, number of batches and bound on late requests.               *)
(*                                                                         *)
(* First what holds with no assumption on time, when a lease may be lost at *)
(* any moment and a request may arrive at any time: the types, and the      *)
(* active pointer.                                                          *)
(*                                                                         *)
(* Then what the accession lease fences off, under the two timing           *)
(* assumptions of the deployment: a lease outlives the run that holds it,   *)
(* and a vector request nobody waits for has ended before the next lease is *)
(* taken.  Redis refuses the requests of a run that has lost its lease; the *)
(* vector index refuses nothing, so that deletes stay away from what is     *)
(* served is a matter of the order of steps.                                *)
(***************************************************************************)
EXTENDS GenerationProperties, TLAPS

(***************************************************************************)
(* Type correctness.  A request is well formed because a run that waits    *)
(* knows its manifest, and one that cleans up has a target.                *)
(***************************************************************************)
LocalInv ==
    /\ LocalTypeOK
    /\ \A r \in Run : pc[r] \in Awaiting => gen[r] \in Generation
    /\ \A r \in Run : pc[r] \in {"deleteSuperseded", "markCleaned"} => target[r] \in Pair

TypeInv == LifecycleTypeOK /\ LocalInv

\* Every record a script writes is a record.
LEMMA RecordsTyped ==
    /\ Absent \in StageRecord /\ Staged \in StageRecord
    /\ Verified \in StageRecord /\ Published \in StageRecord
    /\ \A rec \in StageRecord : /\ WithState(rec, "ABORTED") \in StageRecord
                                /\ WithState(rec, "CLEANED") \in StageRecord
BY DEF Absent, Staged, Verified, Published, WithState, StageRecord, GenerationState

\* The request at each step, one equation a step.
LEMMA RequestAt ==
    ASSUME NEW r
    PROVE  /\ pc[r] = "stage" => RequestOf(r) = Send("stage", r, gen[r], Staged, None, 0)
           /\ pc[r] = "upsert" =>
                 RequestOf(r) = Send("upsert", r, gen[r], Absent, None, count[r] + 1)
           /\ pc[r] = "markVerified" =>
                 RequestOf(r) = Send("verify", r, gen[r], Staged, None, 0)
           /\ pc[r] = "publish" =>
                 RequestOf(r) = Send("publish", r, gen[r], Verified, current[r], 0)
           /\ pc[r] = "abort" => RequestOf(r) = Send("abort", r, gen[r], own[r], None, 0)
           /\ pc[r] = "abortDelete" =>
                 RequestOf(r) = Send("delete", r, gen[r], Absent, None, 0)
           /\ pc[r] = "clean" => RequestOf(r) = Send("clean", r, gen[r], own[r], None, 0)
           /\ pc[r] = "deleteSuperseded" =>
                 RequestOf(r) = Send("delete", r, target[r][1], Absent, None, 0)
           /\ pc[r] = "markCleaned" =>
                 RequestOf(r) = Send("cleaned", r, target[r][2], Absent, target[r][1], 0)
           /\ pc[r] = "release" =>
                 RequestOf(r) = Send("release", r, gen[r], Absent, None, 0)
           /\ pc[r] \notin {"stage", "upsert", "markVerified", "publish", "abort",
                            "abortDelete", "clean", "deleteSuperseded", "markCleaned",
                            "release"} =>
                 RequestOf(r) = Send("read", r, gen[r], Absent, None, 0)
BY DEF RequestOf

\* The request a run waits for is a request.
LEMMA RequestTyped ==
    ASSUME TypeInv, NEW r \in Run, pc[r] \in Awaiting
    PROVE  RequestOf(r) \in Request
<1>1. /\ gen[r] \in Generation /\ own[r] \in StageRecord
      /\ current[r] \in Generation \cup {None}
      /\ count[r] \in 0..(Batches - 1)
  BY DEF TypeInv, LocalInv, LocalTypeOK
<1>2. ASSUME pc[r] \in {"deleteSuperseded", "markCleaned"}
      PROVE  target[r][1] \in Generation /\ target[r][2] \in Generation
  BY <1>2 DEF TypeInv, LocalInv, Pair
<1>3. 0 \in 0..Batches /\ count[r] + 1 \in 0..Batches /\ count[r] + 1 \in Batch
  BY <1>1, BatchesAssumption DEF Batch
<1>4. ASSUME NEW op \in Op, op # "upsert", NEW g \in Generation, NEW stage \in StageRecord,
             NEW old \in Generation \cup {None}
      PROVE  Send(op, r, g, stage, old, 0) \in Request
  BY <1>3, <1>4 DEF Send, Request, AnyRequest
<1>5. Send("upsert", r, gen[r], Absent, None, count[r] + 1) \in Request
  BY <1>1, <1>3, RecordsTyped DEF Send, Request, AnyRequest, Op
<1>6. CASE pc[r] \in {"stage", "markVerified", "abort", "abortDelete", "clean", "release"}
  BY <1>1, <1>4, <1>6, RecordsTyped, RequestAt DEF Op
<1>7. CASE pc[r] \in {"deleteSuperseded", "markCleaned"}
  BY <1>2, <1>4, <1>7, RecordsTyped, RequestAt DEF Op
<1>8. CASE pc[r] \in {"publish", "upsert"}
  BY <1>1, <1>4, <1>5, <1>8, RecordsTyped, RequestAt DEF Op
<1> QED
  BY <1>1, <1>4, <1>6, <1>7, <1>8, RecordsTyped, RequestAt DEF Op

\* A request that is executed leaves the store well typed.
LEMMA ExecuteTyped ==
    ASSUME StoreTypeOK, NEW q \in Request, NEW ok \in BOOLEAN, Execute(q, ok)
    PROVE  StoreTypeOK'
<1> USE DEF StoreTypeOK
<1>1. /\ q.run \in Run /\ q.gen \in Generation /\ q.stage \in StageRecord
      /\ q.old \in Generation \cup {None} /\ q.batch \in 0..Batches
  BY DEF Request, AnyRequest
<1>2. CASE AcquireScript(q, ok)
  BY <1>1, <1>2 DEF AcquireScript
<1>3. CASE ReleaseScript(q, ok)
  BY <1>1, <1>3 DEF ReleaseScript
<1>4. ASSUME NEW old, NEW new \in StageRecord, RecordScript(q, ok, old, new)
      PROVE  StoreTypeOK'
  BY <1>1, <1>4 DEF RecordScript
<1>5. CASE StageScript(q, ok) \/ VerifyScript(q, ok)
  BY <1>4, <1>5, RecordsTyped DEF StageScript, VerifyScript
<1>6. CASE AbortScript(q, ok) \/ CleanScript(q, ok)
  BY <1>1, <1>4, <1>6, RecordsTyped DEF AbortScript, CleanScript
<1>7. CASE PublishScript(q, ok)
  <2>1. CASE ~ok
    BY <2>1, <1>7 DEF PublishScript
  <2>2. CASE ok
    <3>1. Publication(q) /\ UNCHANGED <<lease, points>>
      BY <2>2, <1>7 DEF PublishScript
    <3>2. CASE q.old = None
      BY <1>1, <3>1, <3>2, RecordsTyped DEF Publication
    <3>3. CASE q.old # None
      <4>1. <<q.old, q.gen>> \in Pair
        BY <1>1, <3>3 DEF Pair
      <4>2. cleanup' \in [Pair -> CleanupState]
        BY <3>1, <3>3, <4>1 DEF Publication, CleanupState
      <4> QED
        BY <1>1, <3>1, <3>3, <4>1, <4>2, RecordsTyped DEF Publication
    <3> QED
      BY <3>2, <3>3
  <2> QED
    BY <2>1, <2>2
<1>8. CASE CleanSupersededScript(q, ok)
  BY <1>8 DEF CleanSupersededScript, CleanupState
<1>9. CASE Upsert(q, ok) /\ q.op = "upsert"
  BY <1>1, <1>9 DEF Upsert, Request
<1>10. CASE DeleteGeneration(q, ok)
  BY <1>1, <1>10 DEF DeleteGeneration
<1> QED
  BY <1>2, <1>3, <1>5, <1>6, <1>7, <1>8, <1>9, <1>10 DEF Execute

\* An answered request of a run keeps the store typed.
LEMMA AnsweredTyped ==
    ASSUME TypeInv, NEW r \in Run, NEW from \in Awaiting, NEW ok \in BOOLEAN,
           Answered(r, from, ok)
    PROVE  StoreTypeOK' /\ late' = late /\ pc[r] = from
BY RequestTyped, ExecuteTyped DEF Answered, TypeInv, LifecycleTypeOK

\* Abandoning a typed request keeps the requests in flight typed.
LEMMA AbandonTyped ==
    ASSUME TypeInv, NEW q \in Request, AbandonRequest(q)
    PROVE  \A p \in late' : p \in Request
BY DEF AbandonRequest, TypeInv, LifecycleTypeOK

\* Where the locals of a run that forgets them end up.
LEMMA ForgetTyped ==
    ASSUME LocalInv, NEW r \in Run, Forget(r)
    PROVE  /\ retry' \in [Run -> BOOLEAN] /\ left' \in [Run -> BOOLEAN]
           /\ current' \in [Run -> Generation \cup {None}] /\ own' \in [Run -> StageRecord]
           /\ count' \in [Run -> 0..(Batches - 1)]
           /\ todo' \in [Run -> SUBSET Pair] /\ target' \in [Run -> Pair \cup {NoPair}]
           /\ outcome' \in [Run -> Outcome]
           /\ \A x \in Run : x # r => target'[x] = target[x]
<1>1. 0 \in 0..(Batches - 1)
  BY BatchesAssumption
<1>2. Absent \in StageRecord /\ "none" \in Outcome
  BY RecordsTyped DEF Outcome
<1> HIDE DEF Absent, Outcome
<1>3. count' \in [Run -> 0..(Batches - 1)] /\ own' \in [Run -> StageRecord]
  BY <1>1, <1>2 DEF LocalInv, LocalTypeOK, Forget
<1> QED
  BY <1>2, <1>3 DEF LocalInv, LocalTypeOK, Forget

\* A run that goes on to the next cleanup has a target, or is done with them.
LEMMA TryCleanupTyped ==
    ASSUME LocalInv, NEW r \in Run, NEW pairs \in SUBSET Pair, TryCleanup(r, pairs)
    PROVE  /\ todo' \in [Run -> SUBSET Pair] /\ target' \in [Run -> Pair \cup {NoPair}]
           /\ pc' \in [Run -> Pc]
           /\ \A x \in Run : x # r => target'[x] = target[x] /\ pc'[x] = pc[x]
           /\ pc'[r] \in {"release", "deleteSuperseded"}
           /\ pc'[r] = "deleteSuperseded" => target'[r] \in Pair
<1> USE DEF LocalInv, LocalTypeOK, Goto
<1>1. "release" \in Pc /\ "deleteSuperseded" \in Pc
  BY DEF Pc, Awaiting, Critical, CleanupSteps
<1>2. CASE pairs = {} /\ pc' = [pc EXCEPT ![r] = "release"]
  BY <1>1, <1>2 DEF TryCleanup
<1>3. ASSUME NEW p \in pairs,
             todo' = [todo EXCEPT ![r] = pairs \ {p}],
             target' = [target EXCEPT ![r] = p],
             pc' = [pc EXCEPT ![r] = "deleteSuperseded"]
      PROVE  /\ todo' \in [Run -> SUBSET Pair] /\ target' \in [Run -> Pair \cup {NoPair}]
             /\ pc' \in [Run -> Pc]
             /\ \A x \in Run : x # r => target'[x] = target[x] /\ pc'[x] = pc[x]
             /\ pc'[r] = "deleteSuperseded" /\ target'[r] \in Pair
  BY <1>1, <1>3
<1> QED
  BY <1>2, <1>3 DEF TryCleanup

\* Each way of raising leaves the locals well typed.
LEMMA RaiseTyped ==
    ASSUME TypeInv, NEW r \in Run, Raise(r)
    PROVE  LocalInv' /\ pc[r] \in Awaiting
<1> USE DEF LocalInv, LocalTypeOK, Goto
<1>1. LocalInv
  BY DEF TypeInv
<1> USE DEF Pc, Awaiting, Critical, TrySteps, ReadSteps, WriteSteps, RereadSteps, AbortSteps,
            CleanupSteps
<1>2. ASSUME RaiseInTry(r)
      PROVE  LocalInv' /\ pc[r] \in Awaiting
  BY <1>1, <1>2 DEF RaiseInTry
<1>3. ASSUME RaiseInAbort(r)
      PROVE  LocalInv' /\ pc[r] \in Awaiting
  BY <1>1, <1>3 DEF RaiseInAbort
<1>4. ASSUME RaiseInCleanup(r)
      PROVE  LocalInv' /\ pc[r] \in Awaiting
  <2>1. CASE pc[r] = "listCleanups"
    BY <1>1, <1>4, <2>1 DEF RaiseInCleanup
  <2>2. CASE FinishCleanup(r, TRUE) /\ pc[r] \in {"deleteSuperseded", "markCleaned"}
    <3>1. TryCleanup(r, todo[r]) /\ todo[r] \in SUBSET Pair
      BY <1>1, <2>2 DEF FinishCleanup
    <3>2. left' \in [Run -> BOOLEAN]
      BY <1>1, <2>2 DEF FinishCleanup
    <3> QED
      BY <1>1, <2>2, <3>1, <3>2, TryCleanupTyped DEF FinishCleanup
  <2> QED
    BY <1>4, <2>1, <2>2 DEF RaiseInCleanup
<1>5. ASSUME RaiseAtEnd(r)
      PROVE  LocalInv' /\ pc[r] \in Awaiting
  <2>1. Forget(r) /\ pc[r] \in {"release", "save"}
    BY <1>5 DEF RaiseAtEnd, Returns, Ends
  <2>2. CASE Returns(r)
    BY <1>1, <2>1, <2>2, ForgetTyped DEF Returns
  <2>3. CASE Ends(r)
    BY <1>1, <2>1, <2>3, ForgetTyped DEF Ends
  <2> QED
    BY <1>5, <2>2, <2>3 DEF RaiseAtEnd
<1> QED
  BY <1>2, <1>3, <1>4, <1>5 DEF Raise

\* One step of ingest leaves the locals well typed, the store too, and adds
\* only requests that this run can send.
LEMMA IngestStepTyped ==
    ASSUME TypeInv, NEW r \in Run, IngestStep(r)
    PROVE  StoreTypeOK' /\ LocalInv' /\ \A q \in late' : q \in Request
<1> USE DEF Goto, SetOutcome
<1>1. StoreTypeOK /\ LocalInv /\ \A q \in late : q \in Request
  BY DEF TypeInv, LifecycleTypeOK
<1>2. ASSUME UNCHANGED storeVars
      PROVE  StoreTypeOK'
  BY <1>1, <1>2 DEF storeVars, StoreTypeOK
<1>3. ASSUME NEW from \in Awaiting, NEW ok \in BOOLEAN, Answered(r, from, ok)
      PROVE  StoreTypeOK' /\ late' = late /\ pc[r] = from
  BY <1>3, AnsweredTyped
<1>4. ASSUME NEW from \in Awaiting, Reads(r, from)
      PROVE  StoreTypeOK' /\ late' = late /\ pc[r] = from
  BY <1>2, <1>4 DEF Reads
<1> USE DEF Pc, Awaiting, Critical, TrySteps, ReadSteps, WriteSteps, RereadSteps, AbortSteps,
            CleanupSteps
<1>5. CASE ReadPointer(r)
  <2>1. StoreTypeOK' /\ late' = late /\ pc[r] = "pointer"
    BY <1>4, <1>5 DEF ReadPointer
  <2>2. active \in Generation \cup {None}
    BY <1>1 DEF StoreTypeOK
  <2> QED
    BY <1>1, <1>5, <2>1, <2>2 DEF ReadPointer, LocalInv, LocalTypeOK
<1>6. CASE ReadRecord(r)
  <2>1. StoreTypeOK' /\ late' = late /\ pc[r] = "record"
    BY <1>4, <1>6 DEF ReadRecord
  <2> QED
    BY <1>1, <1>6, <2>1 DEF ReadRecord, LocalInv, LocalTypeOK, Outcome, Success
<1>7. CASE RetryPreflight(r)
  <2>1. StoreTypeOK' /\ late' = late /\ pc[r] \in {"pending", "recovered", "inspect"}
    BY <1>4, <1>7 DEF RetryPreflight
  <2> QED
    BY <1>1, <1>7, <2>1 DEF RetryPreflight, LocalInv, LocalTypeOK
<1>8. CASE RequestFails(r)
  <2>1. LocalInv' /\ pc[r] \in Awaiting
    BY <1>8, RaiseTyped DEF RequestFails
  <2>2. RequestOf(r) \in Request
    BY <2>1, RequestTyped
  <2> QED
    BY <1>2, <1>8, <2>1, <2>2, AbandonTyped DEF RequestFails
<1>9. CASE Halt(r)
  <2>1. RequestOf(r) \in Request
    BY <1>9, RequestTyped DEF Halt
  <2>2. LocalInv'
    BY <1>1, <1>9, ForgetTyped DEF Halt, Ends, LocalInv, LocalTypeOK
  <2> QED
    BY <1>2, <1>9, <2>1, <2>2, AbandonTyped DEF Halt
<1>10. CASE StageGeneration(r)
  <2>1. ASSUME RaiseInTry(r)
        PROVE  LocalInv'
    BY <2>1, RaiseTyped DEF Raise
  <2>2. StoreTypeOK' /\ late' = late /\ pc[r] = "stage"
    BY <1>3, <1>10 DEF StageGeneration
  <2>3. CASE own' = [own EXCEPT ![r] = Staged]
    BY <1>1, <1>10, <2>1, <2>2, <2>3, RecordsTyped DEF StageGeneration, LocalInv, LocalTypeOK
  <2> QED
    BY <1>1, <1>10, <2>1, <2>2, <2>3 DEF StageGeneration
<1>11. CASE EmbedDocuments(r)
  <2>1. StoreTypeOK' /\ late' = late /\ pc[r] = "embed"
    BY <1>4, <1>11 DEF EmbedDocuments
  <2> QED
    BY <1>1, <1>11, <2>1 DEF EmbedDocuments, LocalInv, LocalTypeOK
<1>12. ASSUME NEW next \in {"verify", "markVerified"}, NextBatch(r, next), pc[r] \in Awaiting
       PROVE  LocalInv'
  <2>1. count' \in [Run -> 0..(Batches - 1)]
    BY <1>1, <1>12, BatchesAssumption DEF NextBatch, LocalInv, LocalTypeOK
  <2> QED
    BY <1>1, <1>12, <2>1 DEF NextBatch, LocalInv, LocalTypeOK
<1>13. CASE UpsertBatch(r)
  BY <1>1, <1>3, <1>12, <1>13 DEF UpsertBatch
<1>14. CASE VerifyBatch(r)
  BY <1>1, <1>4, <1>12, <1>14 DEF VerifyBatch
<1>15. CASE MarkGenerationVerified(r)
  <2>1. ASSUME RaiseInTry(r)
        PROVE  LocalInv'
    BY <2>1, RaiseTyped DEF Raise
  <2>2. StoreTypeOK' /\ late' = late /\ pc[r] = "markVerified"
    BY <1>3, <1>15 DEF MarkGenerationVerified
  <2>3. CASE own' = [own EXCEPT ![r] = Verified]
    BY <1>1, <1>15, <2>1, <2>2, <2>3, RecordsTyped
       DEF MarkGenerationVerified, LocalInv, LocalTypeOK
  <2> QED
    BY <1>1, <1>15, <2>1, <2>2, <2>3 DEF MarkGenerationVerified
<1>16. PublicationOutcome(r) \in Outcome
  BY DEF PublicationOutcome, Outcome, Success
<1>17. CASE PublishGeneration(r)
  <2>1. StoreTypeOK' /\ late' = late /\ pc[r] = "publish"
    BY <1>3, <1>17 DEF PublishGeneration
  <2>2. /\ pc' = [pc EXCEPT ![r] = "listCleanups"] \/ pc' = [pc EXCEPT ![r] = "rereadPointer"]
        /\ UNCHANGED <<gen, retry, current, own, count, todo, target, left>>
    BY <1>17 DEF PublishGeneration
  <2>3. outcome' \in [Run -> Outcome]
    <3>1. CASE outcome' = [outcome EXCEPT ![r] = PublicationOutcome(r)]
      BY <1>1, <1>16, <3>1 DEF LocalInv, LocalTypeOK
    <3>2. CASE UNCHANGED outcome
      BY <1>1, <3>2 DEF LocalInv, LocalTypeOK
    <3> QED
      BY <1>17, <3>1, <3>2 DEF PublishGeneration
  <2> QED
    BY <1>1, <2>1, <2>2, <2>3 DEF LocalInv, LocalTypeOK
<1>18. CASE RereadActive(r)
  <2>1. StoreTypeOK' /\ late' = late /\ pc[r] \in {"rereadPointer", "rereadRecord"}
    BY <1>4, <1>18 DEF RereadActive
  <2> QED
    BY <1>1, <1>16, <1>18, <2>1 DEF RereadActive, LocalInv, LocalTypeOK
<1>19. CASE AbortGeneration(r)
  <2>1. StoreTypeOK' /\ late' = late /\ pc[r] = "abort"
    BY <1>3, <1>19 DEF AbortGeneration
  <2>2. own \in [Run -> StageRecord] /\ WithState(own[r], "ABORTED") \in StageRecord
    BY <1>1, RecordsTyped DEF LocalInv, LocalTypeOK
  <2>3. own' \in [Run -> StageRecord]
    <3>1. CASE own' = [own EXCEPT ![r] = WithState(@, "ABORTED")]
      BY <2>2, <3>1
    <3>2. CASE UNCHANGED own
      BY <2>2, <3>2
    <3> QED
      BY <1>19, <3>1, <3>2 DEF AbortGeneration
  <2>4. pc' = [pc EXCEPT ![r] = "abortDelete"] \/ pc' = [pc EXCEPT ![r] = "release"]
    BY <1>19 DEF AbortGeneration
  <2>5. UNCHANGED <<gen, retry, current, count, todo, target, left, outcome>>
    BY <1>19 DEF AbortGeneration
  <2> QED
    BY <1>1, <2>1, <2>3, <2>4, <2>5 DEF LocalInv, LocalTypeOK
<1>20. CASE AbortDelete(r)
  <2>1. StoreTypeOK' /\ late' = late /\ pc[r] = "abortDelete"
    BY <1>3, <1>20 DEF AbortDelete
  <2> QED
    BY <1>1, <1>20, <2>1 DEF AbortDelete, LocalInv, LocalTypeOK
<1>21. CASE CleanGeneration(r)
  <2>1. StoreTypeOK' /\ late' = late /\ pc[r] = "clean"
    BY <1>3, <1>21 DEF CleanGeneration
  <2> QED
    BY <1>1, <1>21, <2>1 DEF CleanGeneration, LocalInv, LocalTypeOK
<1>22. CASE ListPendingCleanups(r)
  <2>1. StoreTypeOK' /\ late' = late /\ pc[r] = "listCleanups"
    BY <1>4, <1>22 DEF ListPendingCleanups
  <2>2. TryCleanup(r, cleanupIndex) /\ cleanupIndex \in SUBSET Pair
    BY <1>1, <1>22 DEF ListPendingCleanups, StoreTypeOK
  <2> QED
    BY <1>1, <1>22, <2>1, <2>2, TryCleanupTyped DEF ListPendingCleanups, LocalInv, LocalTypeOK
<1>23. CASE DeleteSuperseded(r)
  <2>1. StoreTypeOK' /\ late' = late /\ pc[r] = "deleteSuperseded"
    BY <1>3, <1>23 DEF DeleteSuperseded
  <2> QED
    BY <1>1, <1>23, <2>1 DEF DeleteSuperseded, LocalInv, LocalTypeOK
<1>24. CASE MarkSupersededCleaned(r)
  <2>1. PICK ok \in BOOLEAN : Answered(r, "markCleaned", ok) /\ FinishCleanup(r, ~ok)
    BY <1>24 DEF MarkSupersededCleaned
  <2>2. StoreTypeOK' /\ late' = late /\ pc[r] = "markCleaned"
    BY <1>3, <2>1
  <2>3. TryCleanup(r, todo[r]) /\ todo[r] \in SUBSET Pair
    BY <1>1, <2>1 DEF FinishCleanup, LocalInv, LocalTypeOK
  <2>4. left' \in [Run -> BOOLEAN]
    BY <1>1, <2>1 DEF FinishCleanup, LocalInv, LocalTypeOK
  <2> QED
    BY <1>1, <2>1, <2>2, <2>3, <2>4, TryCleanupTyped DEF FinishCleanup, LocalInv, LocalTypeOK
<1>25. CASE ReleaseLease(r)
  <2>1. StoreTypeOK' /\ late' = late /\ pc[r] = "release"
    BY <1>3, <1>25 DEF ReleaseLease
  <2> QED
    BY <1>1, <1>25, <2>1, ForgetTyped DEF ReleaseLease, Returns, LocalInv, LocalTypeOK
<1> QED
  BY <1>5, <1>6, <1>7, <1>8, <1>9, <1>10, <1>11, <1>13, <1>14, <1>15, <1>17, <1>18, <1>19,
     <1>20, <1>21, <1>22, <1>23, <1>24, <1>25 DEF IngestStep

\* A run starts by waiting for a request that names it and its manifest.
LEMMA StartTyped ==
    ASSUME TypeInv, NEW r \in Run, NEW g \in Generation, NEW failed \in BOOLEAN,
           StartIngest(r, g, failed) \/ StartUnanswered(r, g)
    PROVE  TypeInv'
<1> USE DEF Goto
<1>1. StoreTypeOK /\ LocalInv /\ (\A q \in late : q \in Request) /\ saved \in SUBSET Generation
  BY DEF TypeInv, LifecycleTypeOK
<1> DEFINE q == Send("acquire", r, g, Absent, None, 0)
<1>2. q \in Request
  BY BatchesAssumption, RecordsTyped DEF Send, Request, AnyRequest, Op
<1> HIDE DEF q
<1>3. {"pointer", "save"} \subseteq Awaiting /\ Awaiting \subseteq Pc
  BY DEF Pc, Awaiting, Critical, TrySteps, ReadSteps
<1>4. "pointer" \notin {"deleteSuperseded", "markCleaned"}
      /\ "save" \notin {"deleteSuperseded", "markCleaned"}
  OBVIOUS
<1>5. ASSUME gen' = [gen EXCEPT ![r] = g], NEW to \in {"pointer", "save"},
             pc' = [pc EXCEPT ![r] = to], retry' \in [Run -> BOOLEAN],
             UNCHANGED <<current, own, count, todo, target, left, outcome>>
      PROVE  LocalInv'
  BY <1>1, <1>3, <1>4, <1>5 DEF LocalInv, LocalTypeOK
<1>6. CASE StartIngest(r, g, failed)
  <2>1. PICK ok \in BOOLEAN :
           /\ Execute(q, ok)
           /\ gen' = [gen EXCEPT ![r] = g]
           /\ retry' = [retry EXCEPT ![r] = ok /\ failed]
           /\ pc' = [pc EXCEPT ![r] = IF ok THEN "pointer" ELSE "save"]
    BY <1>6 DEF StartIngest, q
  <2>2. StoreTypeOK'
    BY <1>1, <1>2, <2>1, ExecuteTyped
  <2>3. retry' \in [Run -> BOOLEAN]
    <3>1. retry \in [Run -> BOOLEAN]
      BY <1>1 DEF LocalInv, LocalTypeOK
    <3>2. (ok /\ failed) \in BOOLEAN
      OBVIOUS
    <3> QED
      BY <2>1, <3>1, <3>2
  <2>4. UNCHANGED <<current, own, count, todo, target, left, outcome, saved, late>>
    BY <1>6 DEF StartIngest
  <2>5. LocalInv'
    <3>1. CASE ok
      BY <1>5, <2>1, <2>3, <2>4, <3>1
    <3>2. CASE ~ok
      BY <1>5, <2>1, <2>3, <2>4, <3>2
    <3> QED
      BY <3>1, <3>2
  <2> QED
    BY <1>1, <2>2, <2>4, <2>5 DEF TypeInv, LifecycleTypeOK, LocalInv
<1>7. CASE StartUnanswered(r, g)
  <2>1. /\ AbandonRequest(q)
        /\ gen' = [gen EXCEPT ![r] = g] /\ pc' = [pc EXCEPT ![r] = "save"]
        /\ UNCHANGED <<storeVars, retry, current, own, count, todo, target, left, outcome, saved>>
    BY <1>7 DEF StartUnanswered, q
  <2>2. StoreTypeOK'
    BY <1>1, <2>1 DEF StoreTypeOK, storeVars
  <2>3. \A p \in late' : p \in Request
    BY <1>2, <2>1, AbandonTyped
  <2>4. LocalInv'
    <3>1. retry' \in [Run -> BOOLEAN]
      BY <1>1, <2>1 DEF LocalInv, LocalTypeOK
    <3> QED
      BY <1>5, <2>1, <3>1
  <2> QED
    BY <1>1, <2>1, <2>2, <2>3, <2>4 DEF TypeInv, LifecycleTypeOK, LocalInv
<1> QED
  BY <1>6, <1>7

\* The environment leaves everything well typed.
LEMMA EnvironmentTyped ==
    ASSUME TypeInv,
           \/ \E r \in Run : LeaseExpires(r)
           \/ MarkerExpires
           \/ \E q \in late : ArrivesLate(q)
           \/ UNCHANGED vars
    PROVE  TypeInv'
<1>1. StoreTypeOK /\ LocalInv /\ (\A q \in late : q \in Request) /\ saved \in SUBSET Generation
  BY DEF TypeInv, LifecycleTypeOK
<1>2. ASSUME UNCHANGED runVars
      PROVE  LocalInv' /\ saved' \in SUBSET Generation
  BY <1>1, <1>2 DEF runVars, localVars, LocalInv, LocalTypeOK
<1>3. CASE \E r \in Run : LeaseExpires(r)
  <2>1. StoreTypeOK' /\ UNCHANGED <<runVars, late>>
    BY <1>1, <1>3 DEF LeaseExpires, StoreTypeOK
  <2> QED
    BY <1>1, <1>2, <2>1 DEF TypeInv, LifecycleTypeOK, LocalInv
<1>4. CASE MarkerExpires
  <2>1. UNCHANGED <<runVars, late>>
    BY <1>4 DEF MarkerExpires
  <2>2. ASSUME NEW g \in Generation, CleanedMarkerExpires(g)
        PROVE  StoreTypeOK'
    BY <1>1, <2>2, RecordsTyped DEF CleanedMarkerExpires, StoreTypeOK
  <2>3. ASSUME NEW p \in Pair, CleanupMarkerExpires(p)
        PROVE  StoreTypeOK'
    BY <1>1, <2>3 DEF CleanupMarkerExpires, StoreTypeOK, CleanupState
  <2> QED
    BY <1>1, <1>2, <1>4, <2>1, <2>2, <2>3 DEF MarkerExpires, TypeInv, LifecycleTypeOK, LocalInv
<1>5. CASE \E q \in late : ArrivesLate(q)
  <2>1. PICK q \in late, ok \in BOOLEAN :
           Execute(q, ok) /\ late' = late \ {q} /\ UNCHANGED runVars
    BY <1>5 DEF ArrivesLate
  <2>2. StoreTypeOK'
    BY <1>1, <2>1, ExecuteTyped
  <2> QED
    BY <1>1, <1>2, <2>1, <2>2 DEF TypeInv, LifecycleTypeOK, LocalInv
<1>6. CASE UNCHANGED vars
  BY <1>1, <1>2, <1>6 DEF vars, runVars, storeVars, TypeInv, LifecycleTypeOK, LocalInv, StoreTypeOK
<1> QED
  BY <1>3, <1>4, <1>5, <1>6

\* Saving the checkpoint ends the run.
LEMMA SaveTyped ==
    ASSUME TypeInv, NEW r \in Run, SaveCheckpoint(r)
    PROVE  TypeInv'
<1>1. StoreTypeOK /\ LocalInv /\ (\A q \in late : q \in Request) /\ saved \in SUBSET Generation
  BY DEF TypeInv, LifecycleTypeOK
<1>2. pc[r] \in Awaiting /\ UNCHANGED <<storeVars, late>> /\ saved' = saved \cup {gen[r]} /\ Ends(r)
  BY DEF SaveCheckpoint, Reads, Awaiting
<1>3. saved' \in SUBSET Generation
  BY <1>1, <1>2 DEF LocalInv
<1>4. "done" \in Pc /\ "done" \notin Awaiting
  BY DEF Pc, Awaiting, Critical, TrySteps, ReadSteps, WriteSteps, RereadSteps, AbortSteps,
         CleanupSteps
<1>5. LocalInv'
  <2>1. "done" \notin {"deleteSuperseded", "markCleaned"}
    OBVIOUS
  <2> QED
    BY <1>1, <1>2, <1>4, <2>1, ForgetTyped DEF Ends, Goto, LocalInv, LocalTypeOK
<1> QED
  BY <1>1, <1>2, <1>3, <1>5 DEF TypeInv, LifecycleTypeOK, LocalInv, StoreTypeOK, storeVars

\* The initial state is typed.
LEMMA TypeInit == Init => TypeInv
<1> SUFFICES ASSUME Init PROVE TypeInv
  OBVIOUS
<1>1. StoreTypeOK
  BY RecordsTyped DEF Init, StoreInit, StoreTypeOK, CleanupState
<1>2. 0 \in 0..(Batches - 1) /\ "idle" \in Pc /\ "none" \in Outcome /\ "idle" \notin Awaiting
  BY BatchesAssumption DEF Pc, Outcome, Awaiting, Critical, TrySteps, ReadSteps, WriteSteps,
                           RereadSteps, AbortSteps, CleanupSteps
<1>3. LocalTypeOK
  BY <1>2, RecordsTyped DEF Init, LocalTypeOK
<1>4. \A r \in Run : pc[r] = "idle"
  BY DEF Init
<1> QED
  BY <1>1, <1>2, <1>3, <1>4 DEF Init, TypeInv, LifecycleTypeOK, LocalInv

\* Every step keeps the types.
LEMMA TypeStep == TypeInv /\ [Next]_vars => TypeInv'
<1> SUFFICES ASSUME TypeInv, [Next]_vars PROVE TypeInv'
  OBVIOUS
<1>1. ASSUME NEW r \in Run, NEW g \in Generation, NEW failed \in BOOLEAN,
             StartIngest(r, g, failed) \/ StartUnanswered(r, g)
      PROVE  TypeInv'
  BY <1>1, StartTyped
<1>2. ASSUME NEW r \in Run, IngestStep(r), UNCHANGED saved
      PROVE  TypeInv'
  BY <1>2, IngestStepTyped DEF TypeInv, LifecycleTypeOK, LocalInv
<1>3. ASSUME NEW r \in Run, SaveCheckpoint(r)
      PROVE  TypeInv'
  BY <1>3, SaveTyped
<1>4. CASE Terminated \/ UNCHANGED vars
  BY <1>4, EnvironmentTyped DEF Terminated
<1>5. CASE MarkerExpires \/ (\E r \in Run : LeaseExpires(r)) \/ (\E q \in late : ArrivesLate(q))
  BY <1>5, EnvironmentTyped
<1> QED
  BY <1>1, <1>2, <1>3, <1>4, <1>5 DEF Next, RunStep

\* Every variable keeps its type: a run never loses its manifest while it
\* waits, and every request in flight is one the code can have sent.
THEOREM TypeCorrect == Spec => []LifecycleTypeOK
<1>1. TypeInv => LifecycleTypeOK
  BY DEF TypeInv
<1> QED
  BY <1>1, TypeInit, TypeStep, PTL DEF Spec

(***************************************************************************)
(* The active pointer.  What protects it is that the scripts compare the   *)
(* record they replace, and that no run ever believes it owns a published  *)
(* record.                                                                 *)
(***************************************************************************)
\* The record a request compares with, and so may replace, is never PUBLISHED.
Harmless(q) == q.stage.state # "PUBLISHED"

OwnInv ==
    /\ \A r \in Run : own[r].state # "PUBLISHED"
    /\ \A q \in late : Harmless(q)

PointerInv == TypeInv /\ OwnInv /\ ActivePublished

\* The change of pointer that ReplacedAtOnce speaks of.
ReplacesAtOnce ==
    active' # active =>
        /\ active' # None
        /\ record[active'] # Published
        /\ active # None => <<active, active'>> \in cleanupIndex'

\* The states of the records the code writes.
LEMMA RecordStates ==
    /\ Absent.state = "ABSENT" /\ Staged.state = "STAGED" /\ Verified.state = "VERIFIED"
    /\ Published.state = "PUBLISHED" /\ Published \notin Recoverable
    /\ \A rec \in StageRecord : /\ WithState(rec, "ABORTED").state = "ABORTED"
                                /\ WithState(rec, "CLEANED").state = "CLEANED"
<1>1. \A rec \in StageRecord : /\ WithState(rec, "ABORTED").state = "ABORTED"
                               /\ WithState(rec, "CLEANED").state = "CLEANED"
  BY DEF WithState, StageRecord
<1>2. Staged \in StageRecord /\ Verified \in StageRecord
  BY RecordsTyped
<1> QED
  BY <1>1, <1>2 DEF Absent, Staged, Verified, Published, Recoverable

\* Whatever a harmless request does, the pointer stays on a published record.
LEMMA ExecuteKeepsPointer ==
    ASSUME StoreTypeOK, ActivePublished, NEW q \in Request, Harmless(q),
           NEW ok \in BOOLEAN, Execute(q, ok)
    PROVE  ActivePublished' /\ ReplacesAtOnce
<1> USE NoneAssumption
<1>1. /\ q.gen \in Generation /\ q.stage \in StageRecord /\ q.old \in Generation \cup {None}
  BY DEF Request, AnyRequest
<1>2. CASE UNCHANGED <<record, active, indexed>>
  BY <1>2 DEF ActivePublished, ReplacesAtOnce
<1>3. ASSUME NEW old, Published \notin old, NEW new, RecordScript(q, ok, old, new)
      PROVE  ActivePublished' /\ ReplacesAtOnce
  <2>1. UNCHANGED <<active, indexed>>
    BY <1>3 DEF RecordScript
  <2>2. active # None => record'[active] = record[active]
    <3>1. ASSUME active # None, ok
          PROVE  q.gen # active
      BY <1>3, <3>1 DEF RecordScript, ActivePublished
    <3> QED
      BY <1>1, <1>3, <3>1 DEF RecordScript, StoreTypeOK
  <2> QED
    BY <2>1, <2>2 DEF ActivePublished, ReplacesAtOnce
<1>4. CASE StageScript(q, ok) \/ VerifyScript(q, ok)
  BY <1>3, <1>4, RecordStates DEF StageScript, VerifyScript
<1>5. CASE AbortScript(q, ok) \/ CleanScript(q, ok)
  BY <1>3, <1>5, RecordStates DEF AbortScript, CleanScript, Harmless
<1>6. CASE PublishScript(q, ok)
  <2>1. CASE ~ok
    BY <1>2, <1>6, <2>1 DEF PublishScript
  <2>2. CASE ok
    <3>1. record[q.gen] = Verified /\ active = q.old /\ Publication(q)
      BY <1>6, <2>2 DEF PublishScript
    <3>2. record'[q.gen] = Published /\ active' = q.gen /\ indexed' = TRUE
      BY <1>1, <3>1 DEF Publication, StoreTypeOK
    <3>3. Verified # Published
      BY DEF Verified, Published
    <3>4. active # None => <<active, q.gen>> \in cleanupIndex'
      BY <3>1 DEF Publication
    <3> QED
      BY <1>1, <3>1, <3>2, <3>3, <3>4 DEF ActivePublished, ReplacesAtOnce
  <2> QED
    BY <2>1, <2>2
<1>7. CASE AcquireScript(q, ok) \/ ReleaseScript(q, ok) \/ CleanSupersededScript(q, ok)
           \/ Upsert(q, ok) \/ DeleteGeneration(q, ok)
  BY <1>2, <1>7 DEF AcquireScript, ReleaseScript, CleanSupersededScript, Upsert, DeleteGeneration
<1> QED
  BY <1>4, <1>5, <1>6, <1>7 DEF Execute

\* The requests of a run are harmless as long as what it owns is.
LEMMA RequestHarmless ==
    ASSUME NEW r \in Run, own[r].state # "PUBLISHED"
    PROVE  Harmless(RequestOf(r))
<1>1. ASSUME NEW op, NEW g, NEW stage, stage.state # "PUBLISHED", NEW old, NEW batch
      PROVE  Harmless(Send(op, r, g, stage, old, batch))
  BY <1>1 DEF Harmless, Send
<1> QED
  BY <1>1, RequestAt, RecordStates

\* What a step of ingest does to the store is what its request does, or nothing.
LEMMA IngestStepRequest ==
    ASSUME NEW r \in Run, IngestStep(r)
    PROVE  \/ UNCHANGED storeVars
           \/ pc[r] \in Awaiting /\ \E ok \in BOOLEAN : Execute(RequestOf(r), ok)
<1>1. ASSUME NEW from \in Awaiting, NEW ok \in BOOLEAN, Answered(r, from, ok)
      PROVE  pc[r] \in Awaiting /\ Execute(RequestOf(r), ok)
  BY <1>1 DEF Answered
<1>2. {"stage", "upsert", "markVerified", "publish", "abort", "abortDelete", "clean",
       "deleteSuperseded", "markCleaned", "release"} \subseteq Awaiting
  BY DEF Awaiting, Critical, TrySteps, WriteSteps, AbortSteps, CleanupSteps
<1>3. CASE \/ ReadPointer(r) \/ ReadRecord(r) \/ RetryPreflight(r) \/ EmbedDocuments(r)
           \/ VerifyBatch(r) \/ RereadActive(r) \/ ListPendingCleanups(r)
           \/ RequestFails(r) \/ Halt(r)
  BY <1>3 DEF ReadPointer, ReadRecord, RetryPreflight, EmbedDocuments, VerifyBatch, RereadActive,
              ListPendingCleanups, RequestFails, Halt, Reads
<1>4. CASE \/ StageGeneration(r) \/ UpsertBatch(r) \/ MarkGenerationVerified(r)
           \/ PublishGeneration(r)
  BY <1>1, <1>2, <1>4
     DEF StageGeneration, UpsertBatch, MarkGenerationVerified, PublishGeneration
<1>5. CASE \/ AbortGeneration(r) \/ AbortDelete(r) \/ CleanGeneration(r)
  BY <1>1, <1>2, <1>5 DEF AbortGeneration, AbortDelete, CleanGeneration
<1>6. CASE \/ DeleteSuperseded(r) \/ MarkSupersededCleaned(r) \/ ReleaseLease(r)
  BY <1>1, <1>2, <1>6 DEF DeleteSuperseded, MarkSupersededCleaned, ReleaseLease
<1> QED
  BY <1>3, <1>4, <1>5, <1>6 DEF IngestStep

\* Every step changes the store by one request that a run has sent, by the
\* end of a lease, or by the end of a marker.
LEMMA StoreStep ==
    ASSUME TypeInv, OwnInv, [Next]_vars
    PROVE  \/ UNCHANGED <<record, active, indexed, cleanup, cleanupIndex, points>>
           \/ \E q \in Request, ok \in BOOLEAN : Harmless(q) /\ Execute(q, ok)
           \/ \E g \in Generation : CleanedMarkerExpires(g)
           \/ \E p \in Pair : CleanupMarkerExpires(p)
<1>1. ASSUME NEW r \in Run, IngestStep(r)
      PROVE  \/ UNCHANGED storeVars
             \/ \E q \in Request, ok \in BOOLEAN : Harmless(q) /\ Execute(q, ok)
  BY <1>1, IngestStepRequest, RequestTyped, RequestHarmless DEF OwnInv
<1>2. ASSUME NEW r \in Run, NEW g \in Generation, NEW failed \in BOOLEAN,
             StartIngest(r, g, failed)
      PROVE  \E q \in Request, ok \in BOOLEAN : Harmless(q) /\ Execute(q, ok)
  <2>1. Send("acquire", r, g, Absent, None, 0) \in Request
    BY BatchesAssumption, RecordsTyped DEF Send, Request, AnyRequest, Op
  <2>2. Harmless(Send("acquire", r, g, Absent, None, 0))
    BY RecordStates DEF Send, Harmless
  <2> QED
    BY <1>2, <2>1, <2>2 DEF StartIngest
<1>3. ASSUME NEW r \in Run, NEW g \in Generation, StartUnanswered(r, g)
      PROVE  UNCHANGED storeVars
  BY <1>3 DEF StartUnanswered
<1>4. ASSUME NEW r \in Run, SaveCheckpoint(r)
      PROVE  UNCHANGED storeVars
  BY <1>4 DEF SaveCheckpoint, Reads
<1>5. ASSUME NEW r \in Run, LeaseExpires(r)
      PROVE  UNCHANGED <<record, active, indexed, cleanup, cleanupIndex, points>>
  BY <1>5 DEF LeaseExpires
<1>6. ASSUME NEW q \in late, ArrivesLate(q)
      PROVE  q \in Request /\ Harmless(q) /\ \E ok \in BOOLEAN : Execute(q, ok)
  BY <1>6 DEF ArrivesLate, OwnInv, TypeInv, LifecycleTypeOK
<1>7. CASE Terminated \/ UNCHANGED vars
  BY <1>7 DEF Terminated, vars, storeVars
<1> QED
  BY <1>1, <1>2, <1>3, <1>4, <1>5, <1>6, <1>7 DEF Next, RunStep, storeVars, MarkerExpires

\* No step of a run makes it believe that it owns a published record.
LEMMA OwnAfterStep ==
    ASSUME TypeInv, OwnInv, NEW r \in Run, IngestStep(r) \/ SaveCheckpoint(r)
    PROVE  \A x \in Run : own'[x].state # "PUBLISHED"
<1>1. own \in [Run -> StageRecord]
  BY DEF TypeInv, LifecycleTypeOK, LocalTypeOK
<1>2. ASSUME NEW rec, rec.state # "PUBLISHED", own' = [own EXCEPT ![r] = rec]
      PROVE  \A x \in Run : own'[x].state # "PUBLISHED"
  BY <1>1, <1>2 DEF OwnInv
<1>3. ASSUME UNCHANGED own
      PROVE  \A x \in Run : own'[x].state # "PUBLISHED"
  BY <1>3 DEF OwnInv
<1>4. ASSUME Forget(r)
      PROVE  \A x \in Run : own'[x].state # "PUBLISHED"
  BY <1>2, <1>4, RecordStates DEF Forget
<1>5. ASSUME Raise(r)
      PROVE  \A x \in Run : own'[x].state # "PUBLISHED"
  BY <1>3, <1>4, <1>5 DEF Raise, RaiseInTry, RaiseInAbort, RaiseInCleanup, FinishCleanup,
                          RaiseAtEnd, Returns, Ends
<1>6. CASE \/ ReadPointer(r) \/ ReadRecord(r) \/ RetryPreflight(r) \/ EmbedDocuments(r)
           \/ UpsertBatch(r) \/ VerifyBatch(r) \/ PublishGeneration(r) \/ RereadActive(r)
  BY <1>3, <1>6 DEF ReadPointer, ReadRecord, RetryPreflight, EmbedDocuments, UpsertBatch,
                    VerifyBatch, NextBatch, PublishGeneration, RereadActive
<1>7. CASE \/ AbortDelete(r) \/ CleanGeneration(r) \/ ListPendingCleanups(r)
           \/ DeleteSuperseded(r) \/ MarkSupersededCleaned(r)
  BY <1>3, <1>7 DEF AbortDelete, CleanGeneration, ListPendingCleanups, DeleteSuperseded,
                    MarkSupersededCleaned, FinishCleanup
<1>8. CASE ReleaseLease(r) \/ Halt(r) \/ SaveCheckpoint(r)
  BY <1>4, <1>8 DEF ReleaseLease, Halt, SaveCheckpoint, Returns, Ends
<1>9. CASE StageGeneration(r) \/ MarkGenerationVerified(r)
  <2>1. CASE RaiseInTry(r)
    BY <1>5, <2>1 DEF Raise
  <2>2. CASE own' = [own EXCEPT ![r] = Staged] \/ own' = [own EXCEPT ![r] = Verified]
    BY <1>2, <2>2, RecordStates
  <2> QED
    BY <1>9, <2>1, <2>2 DEF StageGeneration, MarkGenerationVerified
<1>10. CASE AbortGeneration(r)
  <2>1. WithState(own[r], "ABORTED").state = "ABORTED"
    BY <1>1, RecordStates
  <2>2. CASE own' = [own EXCEPT ![r] = WithState(@, "ABORTED")]
    BY <1>2, <2>1, <2>2
  <2> QED
    BY <1>3, <1>10, <2>2 DEF AbortGeneration
<1> QED
  BY <1>5, <1>6, <1>7, <1>8, <1>9, <1>10 DEF IngestStep, RequestFails

\* What a step puts in flight is the request its run waited for.
LEMMA LateStep ==
    ASSUME [Next]_vars
    PROVE  \/ late' \subseteq late
           \/ \E r \in Run : IngestStep(r) /\ late' \subseteq late \cup {RequestOf(r)}
           \/ \E r \in Run, g \in Generation :
                 StartUnanswered(r, g)
                 /\ late' \subseteq late \cup {Send("acquire", r, g, Absent, None, 0)}
<1>1. ASSUME NEW r \in Run, IngestStep(r)
      PROVE  late' \subseteq late \cup {RequestOf(r)}
  BY <1>1 DEF IngestStep, ReadPointer, ReadRecord, RetryPreflight, StageGeneration,
              EmbedDocuments, UpsertBatch, VerifyBatch, MarkGenerationVerified,
              PublishGeneration, RereadActive, AbortGeneration, AbortDelete, CleanGeneration,
              ListPendingCleanups, DeleteSuperseded, MarkSupersededCleaned, ReleaseLease,
              RequestFails, Halt, AbandonRequest, Answered, Reads
<1>2. ASSUME NEW r \in Run, NEW g \in Generation, StartUnanswered(r, g)
      PROVE  late' \subseteq late \cup {Send("acquire", r, g, Absent, None, 0)}
  BY <1>2 DEF StartUnanswered, AbandonRequest
<1>3. ASSUME NEW r \in Run, NEW g \in Generation, NEW failed \in BOOLEAN,
             StartIngest(r, g, failed)
      PROVE  late' \subseteq late
  BY <1>3 DEF StartIngest
<1>4. ASSUME NEW r \in Run, SaveCheckpoint(r) \/ LeaseExpires(r)
      PROVE  late' \subseteq late
  BY <1>4 DEF SaveCheckpoint, Reads, LeaseExpires
<1>5. CASE MarkerExpires \/ Terminated \/ UNCHANGED vars \/ \E q \in late : ArrivesLate(q)
  BY <1>5 DEF MarkerExpires, Terminated, vars, ArrivesLate
<1> QED
  BY <1>1, <1>2, <1>3, <1>4, <1>5 DEF Next, RunStep

\* No step makes any run, or any request in flight, own a published record.
LEMMA OwnStep ==
    ASSUME TypeInv, OwnInv, [Next]_vars
    PROVE  OwnInv'
<1>1. \A x \in Run : own'[x].state # "PUBLISHED"
  <2>1. ASSUME UNCHANGED own
        PROVE  \A x \in Run : own'[x].state # "PUBLISHED"
    BY <2>1 DEF OwnInv
  <2>2. CASE \E r \in Run : IngestStep(r) \/ SaveCheckpoint(r)
    BY <2>2, OwnAfterStep
  <2>3. CASE \E r \in Run, g \in Generation :
                StartUnanswered(r, g) \/ \E failed \in BOOLEAN : StartIngest(r, g, failed)
    BY <2>1, <2>3 DEF StartUnanswered, StartIngest
  <2>4. CASE \/ MarkerExpires \/ Terminated \/ UNCHANGED vars
             \/ (\E q \in late : ArrivesLate(q)) \/ (\E r \in Run : LeaseExpires(r))
    BY <2>1, <2>4 DEF MarkerExpires, Terminated, vars, ArrivesLate, LeaseExpires, runVars,
                      localVars
  <2> QED
    BY <2>2, <2>3, <2>4 DEF Next, RunStep
<1>2. \A r \in Run : Harmless(RequestOf(r))
  BY RequestHarmless DEF OwnInv
<1>3. \A r, g : Harmless(Send("acquire", r, g, Absent, None, 0))
  BY RecordStates DEF Send, Harmless
<1>4. \A q \in late' : Harmless(q)
  BY <1>2, <1>3, LateStep DEF OwnInv
<1>5. OwnInv' <=> (\A x \in Run : own'[x].state # "PUBLISHED") /\ \A q \in late' : Harmless(q)
  BY DEF OwnInv, Harmless
<1> QED
  BY <1>1, <1>4, <1>5

\* The invariant holds initially.
LEMMA PointerInit == Init => PointerInv
<1> SUFFICES ASSUME Init PROVE PointerInv
  OBVIOUS
<1>1. OwnInv
  BY RecordStates DEF Init, OwnInv
<1>2. ActivePublished
  BY DEF Init, StoreInit, ActivePublished
<1> QED
  BY <1>1, <1>2, TypeInit DEF PointerInv

\* The pointer stays on a published record, and is replaced at once.
LEMMA PointerStep ==
    ASSUME PointerInv, [Next]_vars
    PROVE  PointerInv' /\ ReplacesAtOnce
<1>1. TypeInv /\ OwnInv /\ ActivePublished /\ StoreTypeOK
  BY DEF PointerInv, TypeInv, LifecycleTypeOK
<1>2. TypeInv' /\ OwnInv'
  BY <1>1, TypeStep, OwnStep
<1>3. ASSUME NEW g \in Generation, CleanedMarkerExpires(g)
      PROVE  ActivePublished' /\ ReplacesAtOnce
  <2>1. active # None => g # active
    BY <1>1, <1>3, RecordStates DEF ActivePublished, CleanedMarkerExpires
  <2> QED
    BY <1>1, <1>3, <2>1 DEF ActivePublished, ReplacesAtOnce, CleanedMarkerExpires, StoreTypeOK
<1>4. ASSUME UNCHANGED <<record, active, indexed>>
      PROVE  ActivePublished' /\ ReplacesAtOnce
  BY <1>1, <1>4 DEF ActivePublished, ReplacesAtOnce
<1>5. ASSUME NEW q \in Request, NEW ok \in BOOLEAN, Harmless(q), Execute(q, ok)
      PROVE  ActivePublished' /\ ReplacesAtOnce
  BY <1>1, <1>5, ExecuteKeepsPointer
<1>6. ActivePublished' /\ ReplacesAtOnce
  <2>1. ASSUME NEW p \in Pair, CleanupMarkerExpires(p)
        PROVE  ActivePublished' /\ ReplacesAtOnce
    BY <1>4, <2>1 DEF CleanupMarkerExpires
  <2> QED
    BY <1>1, <1>3, <1>4, <1>5, <2>1, StoreStep
<1> QED
  BY <1>2, <1>6 DEF PointerInv

\* The pointer always names a published record, and the accession is indexed
\* exactly when it has one, whoever has lost whichever lease.
THEOREM PointerPublished == Spec => []ActivePublished
<1>1. PointerInv => ActivePublished
  BY DEF PointerInv
<1> QED
  BY <1>1, PointerInit, PointerStep, PTL DEF Spec

\* The pointer only moves to a generation that is being published, and the
\* step that moves it files the cleanup of the one it replaces.
THEOREM PointerReplacedAtOnce == Spec => ReplacedAtOnce
<1>1. PointerInv /\ [Next]_vars => [ReplacesAtOnce]_vars
  BY PointerStep
<1> QED
  BY <1>1, PointerInit, PointerStep, PTL DEF Spec, ReplacedAtOnce, ReplacesAtOnce

-----------------------------------------------------------------------------
(***************************************************************************)
(* With the timing assumptions: what the lease fences off.                 *)
(***************************************************************************)

(***************************************************************************)
(* The inductive invariant.                                                *)
(***************************************************************************)
\* A run between acquire and release has the lease.
LeaseHeld == \A r \in Run : pc[r] \in Critical => lease = r

\* How far a run that left a request behind has got.
LatePhase ==
    \A q \in late :
        /\ pc[q.run] \notin TrySteps \cup {"idle"}
        /\ q.op = "stage" => pc[q.run] \in {"release", "save", "done"}
        /\ q.op \in {"acquire", "release"} => pc[q.run] \in {"save", "done"}

\* Who left an acquire behind has sent nothing else; who left a stage behind
\* has sent nothing but the release.
LateAlone ==
    \A p, q \in late :
        p.run = q.run =>
            /\ p.op = "acquire" => q.op = "acquire"
            /\ p.op = "stage" => q.op \in {"stage", "release"}

\* While a vector request is in flight nobody but its run can do anything
\* under the lease.
VectorFenced ==
    \A q \in late :
        q.op \in VectorOp =>
            /\ \A x \in Run : pc[x] \in Critical => x = q.run
            /\ \A p \in late : p.op # "acquire" /\ lease = p.run => p.run = q.run

\* A published generation that is not active never comes back.
Retired(g) == record[g] = Published /\ g # active

Superseded(p) == p[1]

CleanupsRetired ==
    /\ \A p \in cleanupIndex : Retired(Superseded(p))
    /\ \A r \in Run : \A p \in todo[r] : Retired(Superseded(p))
    /\ \A r \in Run :
          pc[r] \in {"deleteSuperseded", "markCleaned"} => Retired(Superseded(target[r]))

\* A generation that is deleted is neither active nor on its way there.
Dead(g) == g # active /\ record[g] \notin {Staged, Verified}

DeletesDead ==
    /\ \A q \in late : q.op = "delete" => Dead(q.gen)
    /\ \A r \in Run : pc[r] = "abortDelete" => Dead(gen[r])

\* What is verified, served, or about to be verified has all its points.
PointsComplete ==
    /\ \A g \in Generation : record[g] = Verified => points[g] = Batch
    /\ active # None => points[active] = Batch
    /\ \A r \in Run : pc[r] = "verify" => 1..count[r] \subseteq points[gen[r]]
    /\ \A r \in Run : pc[r] = "markVerified" => points[gen[r]] = Batch
    /\ \A q \in late :
          q.op = "verify" /\ lease = q.run /\ record[q.gen] = Staged => points[q.gen] = Batch

\* A run owns nothing before its stage is answered.
NothingOwnedYet ==
    \A r \in Run : pc[r] \in ReadSteps \cup {"idle", "stage"} => own[r] = Absent

FenceInv ==
    /\ PointerInv /\ NothingOwnedYet
    /\ LeaseHeld /\ LatePhase /\ LateAlone /\ VectorFenced
    /\ CleanupsRetired /\ DeletesDead /\ PointsComplete
    /\ SnapshotFresh

(***************************************************************************)
(* What one step of a run does to its own variables.                       *)
(***************************************************************************)
\* The others are left alone.
Alone(r) ==
    \A x \in Run : x # r =>
        /\ pc'[x] = pc[x] /\ gen'[x] = gen[x] /\ current'[x] = current[x]
        /\ own'[x] = own[x] /\ count'[x] = count[x]
        /\ todo'[x] = todo[x] /\ target'[x] = target[x]

\* No step goes back, and a run that leaves a request behind raises.
Advances(r) ==
    /\ pc[r] \in Awaiting /\ pc'[r] # "idle"
    /\ pc'[r] # "done" => gen'[r] = gen[r]
    /\ pc'[r] \in TrySteps => pc[r] \in TrySteps
    /\ pc'[r] \in Critical => pc[r] \in Critical \ {"release"}
    /\ pc[r] \in {"release", "save"} => pc'[r] \in {"save", "done"}
    /\ pc[r] = "publish" => pc'[r] \notin WriteSteps \cup ReadSteps
    /\ pc'[r] \in ReadSteps \cup {"stage"} => own'[r] = own[r] /\ pc[r] \in ReadSteps
    /\ pc'[r] \in WriteSteps \cup (ReadSteps \ {"pointer"}) =>
          IF pc[r] = "pointer" THEN current'[r] = active
          ELSE /\ current'[r] = current[r]
               /\ pc[r] \in WriteSteps \cup (ReadSteps \ {"pointer"})
    /\ pc'[r] = "abortDelete" => pc[r] = "abort"
    /\ todo'[r] \subseteq todo[r] \cup cleanupIndex
    /\ pc'[r] \in {"deleteSuperseded", "markCleaned"} =>
          \/ target'[r] \in todo[r] \cup cleanupIndex
          \/ pc[r] \in {"deleteSuperseded", "markCleaned"} /\ target'[r] = target[r]

\* The two loops over the batches.
Loops(r) ==
    /\ pc'[r] = "verify" =>
          \/ pc[r] = "upsert" /\ count'[r] = 0
          \/ /\ pc[r] = "verify" /\ count'[r] = count[r] + 1
             /\ count[r] + 1 \in points[gen[r]] /\ UNCHANGED storeVars
    /\ pc'[r] = "markVerified" =>
          /\ pc[r] = "verify" /\ count[r] + 1 = Batches
          /\ count[r] + 1 \in points[gen[r]] /\ UNCHANGED storeVars

\* Requests it leaves in flight.
LeavesBehind(r) ==
    \/ late' \subseteq late
    \/ /\ late' \subseteq late \cup {RequestOf(r)}
       /\ RequestOf(r).op # "read" /\ UNCHANGED storeVars
       /\ pc[r] # "save" /\ pc'[r] \notin TrySteps
       /\ own[r] = Absent /\ pc[r] \in TrySteps => pc'[r] \in {"release", "done"}

\* A run that ends or returns changes its own locals alone.
LEMMA AloneForget ==
    ASSUME LocalTypeOK, NEW r \in Run, Forget(r), NEW to, Goto(r, to),
           UNCHANGED gen \/ gen' = [gen EXCEPT ![r] = None]
    PROVE  Alone(r) /\ todo'[r] = {}
BY DEF LocalTypeOK, Forget, Goto, Alone

\* Going on to the next cleanup changes the run's own locals alone.
LEMMA AloneTry ==
    ASSUME LocalTypeOK, NEW r \in Run, NEW pairs, TryCleanup(r, pairs),
           UNCHANGED <<gen, current, own, count>>
    PROVE  /\ Alone(r)
           /\ todo'[r] \subseteq pairs
           /\ \/ pc'[r] = "release"
              \/ pc'[r] = "deleteSuperseded" /\ target'[r] \in pairs
<1>1. CASE pairs = {} /\ todo' = [todo EXCEPT ![r] = {}]
           /\ target' = [target EXCEPT ![r] = NoPair] /\ pc' = [pc EXCEPT ![r] = "release"]
  BY <1>1 DEF LocalTypeOK, Alone
<1>2. ASSUME NEW p \in pairs, todo' = [todo EXCEPT ![r] = pairs \ {p}],
             target' = [target EXCEPT ![r] = p], pc' = [pc EXCEPT ![r] = "deleteSuperseded"]
      PROVE  /\ Alone(r) /\ todo'[r] \subseteq pairs
             /\ pc'[r] = "deleteSuperseded" /\ target'[r] \in pairs
  BY <1>2 DEF LocalTypeOK, Alone
<1> QED
  BY <1>1, <1>2 DEF TryCleanup, Goto

\* An await that raises leads out of the try block.
LEMMA RaiseControl ==
    ASSUME TypeInv, NEW r \in Run, Raise(r)
    PROVE  /\ Alone(r) /\ Advances(r) /\ Loops(r) /\ pc'[r] \notin TrySteps
           /\ own[r] = Absent /\ pc[r] \in TrySteps => pc'[r] = "release"
<1>1. LocalTypeOK
  BY DEF TypeInv, LifecycleTypeOK
<1> USE DEF Pc, Awaiting, Critical, TrySteps, ReadSteps, WriteSteps, RereadSteps, AbortSteps,
            CleanupSteps
<1>2. CASE RaiseInTry(r) \/ RaiseInAbort(r)
  BY <1>1, <1>2 DEF RaiseInTry, RaiseInAbort, Goto, LocalTypeOK, Alone, Advances, Loops
<1>3. CASE RaiseInCleanup(r)
  <2>1. CASE pc[r] = "listCleanups"
    BY <1>1, <1>3, <2>1 DEF RaiseInCleanup, Goto, LocalTypeOK, Alone, Advances, Loops
  <2>2. CASE FinishCleanup(r, TRUE) /\ pc[r] \in {"deleteSuperseded", "markCleaned"}
    BY <1>1, <2>2, AloneTry DEF FinishCleanup, Advances, Loops
  <2> QED
    BY <1>3, <2>1, <2>2 DEF RaiseInCleanup
<1>4. CASE RaiseAtEnd(r)
  <2>1. Forget(r) /\ pc[r] \in {"release", "save"} /\ pc'[r] \in {"save", "done"}
    BY <1>1, <1>4 DEF RaiseAtEnd, Returns, Ends, Goto, LocalTypeOK
  <2>2. Alone(r) /\ todo'[r] = {} /\ (pc'[r] = "save" => UNCHANGED gen)
    BY <1>1, <1>4, <2>1, AloneForget DEF RaiseAtEnd, Returns, Ends, Goto, LocalTypeOK
  <2> QED
    BY <2>1, <2>2 DEF Advances, Loops
<1> QED
  BY <1>2, <1>3, <1>4 DEF Raise

\* Where a step of ingest can lead, and what it may leave in flight.
LEMMA IngestControl ==
    ASSUME TypeInv, NEW r \in Run, IngestStep(r) \/ SaveCheckpoint(r)
    PROVE  Alone(r) /\ Advances(r) /\ Loops(r) /\ LeavesBehind(r)
<1>1. LocalTypeOK /\ \A x \in Run : count[x] \in 0..(Batches - 1)
  BY DEF TypeInv, LifecycleTypeOK, LocalTypeOK
<1> DEFINE Good == Alone(r) /\ Advances(r) /\ Loops(r) /\ LeavesBehind(r)
<1>2. ASSUME UNCHANGED late
      PROVE  LeavesBehind(r)
  BY <1>2 DEF LeavesBehind
<1>3. ASSUME NEW from, NEW ok, Answered(r, from, ok) \/ Reads(r, from)
      PROVE  pc[r] = from /\ UNCHANGED late
  BY <1>3 DEF Answered, Reads
<1>4. ASSUME Halt(r)
      PROVE  Good
  <2>1. Forget(r) /\ pc[r] \in Awaiting /\ pc'[r] = "done" /\ UNCHANGED storeVars
    BY <1>1, <1>4 DEF Halt, Ends, Goto, LocalTypeOK
  <2>2. Alone(r) /\ todo'[r] = {}
    BY <1>1, <1>4, AloneForget DEF Halt, Ends
  <2>3. LeavesBehind(r)
    <3>1. CASE pc[r] = "save"
      BY <1>4, <3>1, RequestAt DEF Halt, AbandonRequest, LeavesBehind, Send
    <3>2. CASE pc[r] # "save"
      BY <1>4, <2>1, <3>2 DEF Halt, AbandonRequest, LeavesBehind, TrySteps, ReadSteps,
                              WriteSteps, RereadSteps
    <3> QED
      BY <3>1, <3>2
  <2> QED
    BY <2>1, <2>2, <2>3 DEF Advances, Loops, Critical, TrySteps, ReadSteps, WriteSteps,
                            RereadSteps, AbortSteps, CleanupSteps
<1>5. ASSUME RequestFails(r)
      PROVE  Good
  <2>1. Alone(r) /\ Advances(r) /\ Loops(r) /\ pc'[r] \notin TrySteps
    BY <1>5, RaiseControl DEF RequestFails
  <2>2. own[r] = Absent /\ pc[r] \in TrySteps => pc'[r] = "release"
    BY <1>5, RaiseControl DEF RequestFails
  <2>3. LeavesBehind(r)
    <3>1. CASE pc[r] = "save"
      BY <1>5, <3>1, RequestAt DEF RequestFails, AbandonRequest, LeavesBehind, Send
    <3>2. CASE pc[r] # "save"
      BY <1>5, <2>1, <2>2, <3>2 DEF RequestFails, AbandonRequest, LeavesBehind
    <3> QED
      BY <3>1, <3>2
  <2> QED
    BY <2>1, <2>3
<1>6. ASSUME SaveCheckpoint(r) \/ ReleaseLease(r)
      PROVE  Good
  <2>1. /\ Forget(r) /\ pc[r] \in {"release", "save"} /\ pc'[r] \in {"save", "done"}
        /\ pc'[r] = "save" => UNCHANGED gen
        /\ UNCHANGED late
    BY <1>1, <1>3, <1>6 DEF SaveCheckpoint, ReleaseLease, Returns, Ends, Goto, LocalTypeOK
  <2>2. Alone(r) /\ todo'[r] = {}
    BY <1>1, <1>6, AloneForget DEF SaveCheckpoint, ReleaseLease, Returns, Ends
  <2> QED
    BY <1>2, <2>1, <2>2 DEF Advances, Loops, Awaiting, Critical, TrySteps, ReadSteps,
                            WriteSteps, RereadSteps, AbortSteps, CleanupSteps
<1> USE DEF Goto, LocalTypeOK, Alone, Advances, Loops, SetOutcome,
            Pc, Awaiting, Critical, TrySteps, ReadSteps, WriteSteps, RereadSteps, AbortSteps,
            CleanupSteps
<1>7. CASE ReadPointer(r)
  <2>1. pc[r] = "pointer" /\ UNCHANGED late
    BY <1>3, <1>7 DEF ReadPointer
  <2> QED
    BY <1>1, <1>2, <1>7, <2>1 DEF ReadPointer
<1>8. CASE ReadRecord(r)
  <2>1. pc[r] = "record" /\ UNCHANGED late
    BY <1>3, <1>8 DEF ReadRecord
  <2> QED
    BY <1>1, <1>2, <1>8, <2>1 DEF ReadRecord
<1>9. CASE RetryPreflight(r)
  BY <1>1, <1>2, <1>3, <1>9 DEF RetryPreflight
<1>10. CASE StageGeneration(r)
  <2>1. pc[r] = "stage" /\ UNCHANGED late
    BY <1>3, <1>10 DEF StageGeneration
  <2>2. CASE RaiseInTry(r)
    BY <1>2, <2>1, <2>2, RaiseControl DEF Raise
  <2> QED
    BY <1>1, <1>2, <1>10, <2>1, <2>2 DEF StageGeneration
<1>11. CASE EmbedDocuments(r)
  <2>1. pc[r] = "embed" /\ UNCHANGED late
    BY <1>3, <1>11 DEF EmbedDocuments
  <2> QED
    BY <1>1, <1>2, <1>11, <2>1 DEF EmbedDocuments
<1>12. CASE UpsertBatch(r)
  <2>1. pc[r] = "upsert" /\ UNCHANGED late
    BY <1>3, <1>12 DEF UpsertBatch
  <2> QED
    BY <1>1, <1>2, <1>12, <2>1 DEF UpsertBatch, NextBatch
<1>13. CASE VerifyBatch(r)
  <2>1. pc[r] = "verify" /\ UNCHANGED late /\ UNCHANGED storeVars
    BY <1>13 DEF VerifyBatch, Reads
  <2> QED
    BY <1>1, <1>2, <1>13, <2>1 DEF VerifyBatch, NextBatch
<1>14. CASE MarkGenerationVerified(r)
  <2>1. pc[r] = "markVerified" /\ UNCHANGED late
    BY <1>3, <1>14 DEF MarkGenerationVerified
  <2>2. CASE RaiseInTry(r)
    BY <1>2, <2>1, <2>2, RaiseControl DEF Raise
  <2> QED
    BY <1>1, <1>2, <1>14, <2>1, <2>2 DEF MarkGenerationVerified
<1>15. CASE PublishGeneration(r)
  <2>1. pc[r] = "publish" /\ UNCHANGED late
    BY <1>3, <1>15 DEF PublishGeneration
  <2> QED
    BY <1>1, <1>2, <1>15, <2>1 DEF PublishGeneration
<1>16. CASE RereadActive(r)
  <2>1. pc[r] \in {"rereadPointer", "rereadRecord"} /\ UNCHANGED late
    BY <1>3, <1>16 DEF RereadActive
  <2> QED
    BY <1>1, <1>2, <1>16, <2>1 DEF RereadActive
<1>17. CASE AbortGeneration(r)
  <2>1. pc[r] = "abort" /\ UNCHANGED late
    BY <1>3, <1>17 DEF AbortGeneration
  <2> QED
    BY <1>1, <1>2, <1>17, <2>1 DEF AbortGeneration
<1>18. CASE AbortDelete(r) \/ CleanGeneration(r) \/ DeleteSuperseded(r)
  <2>1. pc[r] \in {"abortDelete", "clean", "deleteSuperseded"} /\ UNCHANGED late
    BY <1>3, <1>18 DEF AbortDelete, CleanGeneration, DeleteSuperseded
  <2>2. UNCHANGED <<gen, current, own, count, todo, target>>
    BY <1>18 DEF AbortDelete, CleanGeneration, DeleteSuperseded
  <2>3. \/ pc' = [pc EXCEPT ![r] = "clean"] \/ pc' = [pc EXCEPT ![r] = "release"]
        \/ pc' = [pc EXCEPT ![r] = "markCleaned"] /\ pc[r] = "deleteSuperseded"
    BY <1>3, <1>18 DEF AbortDelete, CleanGeneration, DeleteSuperseded
  <2> QED
    BY <1>1, <1>2, <2>1, <2>2, <2>3
<1>19. CASE ListPendingCleanups(r)
  <2>1. pc[r] = "listCleanups" /\ UNCHANGED late
    BY <1>3, <1>19 DEF ListPendingCleanups
  <2>2. /\ Alone(r) /\ todo'[r] \subseteq cleanupIndex
        /\ \/ pc'[r] = "release"
           \/ pc'[r] = "deleteSuperseded" /\ target'[r] \in cleanupIndex
    BY <1>1, <1>19, AloneTry DEF ListPendingCleanups
  <2>3. UNCHANGED <<gen, own>>
    BY <1>19 DEF ListPendingCleanups
  <2> QED
    BY <1>2, <2>1, <2>2, <2>3
<1>20. CASE MarkSupersededCleaned(r)
  <2>1. pc[r] = "markCleaned" /\ UNCHANGED late
    BY <1>3, <1>20 DEF MarkSupersededCleaned
  <2>2. /\ Alone(r) /\ todo'[r] \subseteq todo[r]
        /\ \/ pc'[r] = "release"
           \/ pc'[r] = "deleteSuperseded" /\ target'[r] \in todo[r]
    BY <1>1, <1>20, AloneTry DEF MarkSupersededCleaned, FinishCleanup
  <2>3. UNCHANGED <<gen, own>>
    BY <1>20 DEF MarkSupersededCleaned, FinishCleanup
  <2> QED
    BY <1>2, <2>1, <2>2, <2>3
<1> QED
  BY <1>4, <1>5, <1>6, <1>7, <1>8, <1>9, <1>10, <1>11, <1>12, <1>13, <1>14, <1>15, <1>16, <1>17,
     <1>18, <1>19, <1>20 DEF IngestStep

(***************************************************************************)
(* What one request does to the store.                                     *)
(***************************************************************************)
By(q, op, g) == q.op = op /\ q.gen = g /\ lease = q.run

Effect(q) ==
    /\ \A g \in Generation :
          /\ Retired(g) => record'[g] = Published /\ g # active'
          /\ Dead(g) => \/ g # active' /\ record'[g] \notin {Staged, Verified}
                        \/ By(q, "stage", g)
          /\ record'[g] = Verified =>
                \/ record[g] = Verified
                \/ By(q, "verify", g) /\ record[g] = Staged /\ UNCHANGED points
          /\ record'[g] = Staged => record[g] = Staged \/ By(q, "stage", g)
          /\ (\A b \in points[g] : b \in points'[g]) \/ (q.op = "delete" /\ q.gen = g)
          /\ active' = g => \/ active = g
                            \/ /\ By(q, "publish", g) /\ record[g] = Verified
                               /\ UNCHANGED points
    /\ active # None => active' # None
    /\ \A p \in cleanupIndex' :
          \/ p \in cleanupIndex
          \/ record'[Superseded(p)] = Published /\ Superseded(p) # active'

\* A step that sends nothing has no effect to explain.
LEMMA NoEffect ==
    ASSUME UNCHANGED <<record, active, cleanupIndex, points>>, NEW q
    PROVE  Effect(q)
BY DEF Effect, Retired, Dead

\* What one request can do to the store.
LEMMA ExecuteEffect ==
    ASSUME StoreTypeOK, ActivePublished, NEW q \in Request, Harmless(q),
           NEW ok \in BOOLEAN, Execute(q, ok)
    PROVE  Effect(q)
<1> USE NoneAssumption DEF StoreTypeOK
<1>1. /\ q.gen \in Generation /\ q.stage \in StageRecord /\ q.old \in Generation \cup {None}
  BY DEF Request, AnyRequest
<1>2. Staged # Verified /\ Staged # Published /\ Verified # Published
  BY DEF Staged, Verified, Published
<1>3. ASSUME NEW rec, rec.state \in {"ABORTED", "CLEANED", "ABSENT"}
      PROVE  rec \notin {Staged, Verified, Published}
  BY <1>3, RecordStates
<1>4. ASSUME NEW old, Published \notin old, NEW new, RecordScript(q, ok, old, new),
             \/ new = Staged /\ q.op = "stage"
             \/ new = Verified /\ q.op = "verify" /\ old = {Staged}
             \/ new \notin {Staged, Verified}
      PROVE  Effect(q)
  <2>1. UNCHANGED <<active, cleanupIndex, points, lease>>
    BY <1>4 DEF RecordScript
  <2>2. CASE ~ok
    BY <1>4, <2>1, <2>2, NoEffect DEF RecordScript
  <2>3. CASE ok
    <3>1. lease = q.run /\ record[q.gen] \in old /\ record' = [record EXCEPT ![q.gen] = new]
      BY <1>4, <2>3 DEF RecordScript, Owned
    <3>2. q.gen # active \/ active = None
      BY <1>4, <3>1 DEF ActivePublished
    <3> QED
      BY <1>1, <1>2, <1>4, <2>1, <3>1, <3>2 DEF Effect, Retired, Dead, By
  <2> QED
    BY <2>2, <2>3
<1>5. CASE StageScript(q, ok) /\ q.op = "stage"
  BY <1>4, <1>5, RecordStates DEF StageScript
<1>6. CASE VerifyScript(q, ok) /\ q.op = "verify"
  BY <1>2, <1>4, <1>6 DEF VerifyScript
<1>7. CASE AbortScript(q, ok) \/ CleanScript(q, ok)
  <2>1. /\ WithState(q.stage, "ABORTED") \notin {Staged, Verified}
        /\ WithState(q.stage, "CLEANED") \notin {Staged, Verified}
    BY <1>1, <1>3, RecordStates
  <2>2. Published \notin {q.stage}
    BY RecordStates DEF Harmless
  <2> QED
    BY <1>4, <1>7, <2>1, <2>2 DEF AbortScript, CleanScript
<1>8. CASE PublishScript(q, ok) /\ q.op = "publish"
  <2>1. CASE ~ok
    BY <1>8, <2>1, NoEffect DEF PublishScript
  <2>2. CASE ok
    <3>1. /\ record[q.gen] = Verified /\ active = q.old /\ lease = q.run
          /\ Publication(q) /\ UNCHANGED points
      BY <1>8, <2>2 DEF PublishScript, Owned
    <3>2. record' = [record EXCEPT ![q.gen] = Published] /\ active' = q.gen
      BY <3>1 DEF Publication
    <3>3. ASSUME NEW p \in cleanupIndex', p \notin cleanupIndex
          PROVE  record'[Superseded(p)] = Published /\ Superseded(p) # active'
      <4>1. Superseded(p) = q.old /\ q.old # None
        BY <3>1, <3>3 DEF Publication, Superseded
      <4>2. record[q.old] = Published /\ q.old # q.gen
        BY <1>2, <3>1, <4>1 DEF ActivePublished
      <4> QED
        BY <1>1, <3>2, <4>1, <4>2
    <3>4. ASSUME NEW g \in Generation
          PROVE  /\ Retired(g) => record'[g] = Published /\ g # active'
                 /\ Dead(g) => g # active' /\ record'[g] \notin {Staged, Verified}
                 /\ record'[g] = Verified => record[g] = Verified
                 /\ record'[g] = Staged => record[g] = Staged
      BY <1>1, <1>2, <3>1, <3>2 DEF Retired, Dead
    <3>5. ASSUME NEW g \in Generation, active' = g
          PROVE  By(q, "publish", g) /\ record[g] = Verified
      BY <1>8, <3>1, <3>2, <3>5 DEF By
    <3> QED
      BY <1>1, <3>1, <3>2, <3>3, <3>4, <3>5 DEF Effect
  <2> QED
    BY <2>1, <2>2
<1>9. CASE AcquireScript(q, ok) \/ ReleaseScript(q, ok)
  BY <1>9, NoEffect DEF AcquireScript, ReleaseScript
<1>10. CASE CleanSupersededScript(q, ok)
  BY <1>10 DEF CleanSupersededScript, Effect, Retired, Dead
<1>11. CASE Upsert(q, ok)
  BY <1>1, <1>11 DEF Upsert, Effect, Retired, Dead
<1>12. CASE DeleteGeneration(q, ok) /\ q.op = "delete"
  BY <1>1, <1>12 DEF DeleteGeneration, Effect, Retired, Dead
<1> QED
  BY <1>5, <1>6, <1>7, <1>8, <1>9, <1>10, <1>11, <1>12 DEF Execute

\* A marker that expires was the record of a dead generation.
LEMMA MarkerEffect ==
    ASSUME StoreTypeOK, ActivePublished, NEW q, MarkerExpires
    PROVE  Effect(q)
<1>1. ASSUME NEW g \in Generation, CleanedMarkerExpires(g)
      PROVE  Effect(q)
  <2>1. Absent \notin {Staged, Verified} /\ record[g] # Published
    BY <1>1, RecordStates DEF CleanedMarkerExpires
  <2> QED
    BY <1>1, <2>1 DEF CleanedMarkerExpires, StoreTypeOK, Effect, Retired, Dead
<1>2. ASSUME NEW p \in Pair, CleanupMarkerExpires(p)
      PROVE  Effect(q)
  BY <1>2, NoEffect DEF CleanupMarkerExpires
<1> QED
  BY <1>1, <1>2 DEF MarkerExpires

\* The lease changes hands by acquire and release alone.
LEMMA ExecuteLease ==
    ASSUME NEW q \in Request, NEW ok \in BOOLEAN, Execute(q, ok)
    PROVE  \/ UNCHANGED lease
           \/ q.op = "acquire" /\ lease = None /\ lease' = q.run
           \/ q.op = "release" /\ lease = q.run /\ lease' = None
BY DEF Execute, AcquireScript, ReleaseScript, Owned, StageScript, VerifyScript, AbortScript,
       CleanScript, RecordScript, PublishScript, CleanSupersededScript, Upsert, DeleteGeneration

(***************************************************************************)
(* The request that a step executes, and    what the invariant says of    *)
(* it at that moment.                                                      *)
(***************************************************************************)
Performed(q) ==
    \/ q \in late
    \/ \E r \in Run : pc[r] \in Critical /\ q = RequestOf(r) /\ IngestStep(r)
    \/ q.op \in {"acquire", "read"}

\* The fields of the request a run waits for.
LEMMA RequestFields ==
    ASSUME NEW r \in Run
    PROVE  /\ RequestOf(r).run = r /\ RequestOf(r).op # "acquire"
           /\ RequestOf(r).op = "delete" =>
                 \/ pc[r] = "abortDelete" /\ RequestOf(r).gen = gen[r]
                 \/ pc[r] = "deleteSuperseded" /\ RequestOf(r).gen = Superseded(target[r])
           /\ RequestOf(r).op = "verify" => pc[r] = "markVerified" /\ RequestOf(r).gen = gen[r]
           /\ RequestOf(r).op = "stage" => pc[r] = "stage"
           /\ RequestOf(r).op = "publish" => pc[r] = "publish"
           /\ RequestOf(r).op = "release" => pc[r] = "release"
<1>1. \A op, g, stage, old, batch : /\ Send(op, r, g, stage, old, batch).op = op
                                    /\ Send(op, r, g, stage, old, batch).run = r
                                    /\ Send(op, r, g, stage, old, batch).gen = g
  BY DEF Send
<1> QED
  BY <1>1, RequestAt DEF Superseded

\* What starting a run changes of its control.
LEMMA StartControl ==
    ASSUME TypeInv, VectorSettles, NEW r \in Run, NEW g \in Generation, NEW failed \in BOOLEAN,
           StartIngest(r, g, failed) \/ StartUnanswered(r, g)
    PROVE  /\ pc[r] = "idle" /\ UNCHANGED <<current, own, count, todo, target>>
           /\ \A x \in Run : x # r => pc'[x] = pc[x] /\ gen'[x] = gen[x]
           /\ \/ /\ pc'[r] = "pointer" /\ lease = None /\ lease' = r /\ UNCHANGED late
                 /\ \A q \in late : q.op \notin VectorOp
              \/ /\ pc'[r] = "save" /\ UNCHANGED lease
                 /\ late' \subseteq late \cup {Send("acquire", r, g, Absent, None, 0)}
<1>1. LocalTypeOK
  BY DEF TypeInv, LifecycleTypeOK
<1>2. CASE StartIngest(r, g, failed)
  <2>1. PICK ok \in BOOLEAN : /\ Execute(Send("acquire", r, g, Absent, None, 0), ok)
                              /\ pc' = [pc EXCEPT ![r] = IF ok THEN "pointer" ELSE "save"]
    BY <1>2 DEF StartIngest, Goto
  <2>2. AcquireScript(Send("acquire", r, g, Absent, None, 0), ok)
    BY <2>1 DEF Execute, Send
  <2>3. IF ok THEN lease = None /\ lease' = r ELSE UNCHANGED lease
    BY <2>2 DEF AcquireScript, Send
  <2> QED
    BY <1>1, <1>2, <2>1, <2>3 DEF StartIngest, CanStart, LocalTypeOK
<1>3. CASE StartUnanswered(r, g)
  BY <1>1, <1>3 DEF StartUnanswered, CanStart, AbandonRequest, Goto, storeVars, LocalTypeOK
<1> QED
  BY <1>2, <1>3

\* The steps of the environment, the lease apart.
LEMMA EnvironmentControl ==
    ASSUME TypeInv, LeaseOutlivesRun,
           \/ \E r \in Run : LeaseExpires(r)
           \/ MarkerExpires \/ Terminated \/ UNCHANGED vars
           \/ \E q \in late : ArrivesLate(q)
    PROVE  /\ UNCHANGED <<pc, gen, current, own, count, todo, target>> /\ late' \subseteq late
           /\ \/ UNCHANGED lease
              \/ \E r \in Run : lease = r /\ lease' = None /\ pc[r] = "done"
              \/ \E q \in late : \/ q.op = "acquire" /\ lease = None /\ lease' = q.run
                                 \/ q.op = "release" /\ lease = q.run /\ lease' = None
<1>1. ASSUME UNCHANGED runVars
      PROVE  UNCHANGED <<pc, gen, current, own, count, todo, target>>
  BY <1>1 DEF runVars, localVars
<1>2. CASE \E r \in Run : LeaseExpires(r)
  BY <1>1, <1>2 DEF LeaseExpires
<1>3. CASE MarkerExpires
  BY <1>1, <1>3 DEF MarkerExpires, CleanedMarkerExpires, CleanupMarkerExpires
<1>4. CASE Terminated \/ UNCHANGED vars
  BY <1>1, <1>4 DEF Terminated, vars, storeVars, runVars, localVars
<1>5. CASE \E q \in late : ArrivesLate(q)
  <2>1. PICK q \in late, ok \in BOOLEAN :
           Execute(q, ok) /\ late' = late \ {q} /\ UNCHANGED runVars
    BY <1>5 DEF ArrivesLate
  <2>2. q \in Request
    BY DEF TypeInv, LifecycleTypeOK
  <2>3. \/ UNCHANGED lease
        \/ q.op = "acquire" /\ lease = None /\ lease' = q.run
        \/ q.op = "release" /\ lease = q.run /\ lease' = None
    BY <2>1, <2>2, ExecuteLease
  <2> QED
    BY <1>1, <2>1, <2>3
<1> QED
  BY <1>2, <1>3, <1>4, <1>5

\* The lease of a run that takes a step changes only when it releases.
LEMMA IngestLease ==
    ASSUME TypeInv, NEW r \in Run, IngestStep(r) \/ SaveCheckpoint(r)
    PROVE  UNCHANGED lease \/ (pc[r] = "release" /\ lease = r)
<1>1. CASE SaveCheckpoint(r)
  BY <1>1 DEF SaveCheckpoint, Reads, storeVars
<1>2. ASSUME pc[r] \in Awaiting, NEW ok \in BOOLEAN, Execute(RequestOf(r), ok)
      PROVE  UNCHANGED lease \/ (pc[r] = "release" /\ lease = r)
  BY <1>2, RequestTyped, RequestFields, ExecuteLease
<1> QED
  BY <1>1, <1>2, IngestStepRequest DEF storeVars

\* and then nobody has it.
LEMMA ReleaseFrees ==
    ASSUME TypeInv, NEW r \in Run, IngestStep(r) \/ SaveCheckpoint(r)
    PROVE  UNCHANGED lease \/ lease' = None
<1>1. CASE SaveCheckpoint(r)
  BY <1>1 DEF SaveCheckpoint, Reads, storeVars
<1>2. ASSUME pc[r] \in Awaiting, NEW ok \in BOOLEAN, Execute(RequestOf(r), ok)
      PROVE  UNCHANGED lease \/ lease' = None
  BY <1>2, RequestTyped, RequestFields, ExecuteLease
<1> QED
  BY <1>1, <1>2, IngestStepRequest DEF storeVars

\* Every step but the end of a lease has the effect of a performed request.
LEMMA StepEffect ==
    ASSUME PointerInv, [Next]_vars
    PROVE  \E q : Performed(q) /\ Effect(q)
<1>1. TypeInv /\ OwnInv /\ StoreTypeOK /\ ActivePublished
  BY DEF PointerInv, TypeInv, LifecycleTypeOK
<1> DEFINE nothing == Send("read", None, None, Absent, None, 0)
<1>2. Performed(nothing)
  BY DEF Performed, Send
<1> HIDE DEF nothing
<1>3. ASSUME UNCHANGED <<record, active, cleanupIndex, points>>
      PROVE  \E q : Performed(q) /\ Effect(q)
  BY <1>2, <1>3, NoEffect
<1>4. ASSUME NEW r \in Run, IngestStep(r)
      PROVE  \E q : Performed(q) /\ Effect(q)
  <2>1. CASE UNCHANGED storeVars
    BY <1>3, <2>1 DEF storeVars
  <2>2. CASE pc[r] \in Awaiting /\ \E ok \in BOOLEAN : Execute(RequestOf(r), ok)
    <3>1. RequestOf(r) \in Request /\ Harmless(RequestOf(r))
      BY <1>1, <2>2, RequestTyped, RequestHarmless DEF OwnInv
    <3>2. Effect(RequestOf(r))
      BY <1>1, <2>2, <3>1, ExecuteEffect
    <3>3. Performed(RequestOf(r))
      <4>1. CASE pc[r] \in Critical
        BY <1>4, <4>1 DEF Performed
      <4>2. CASE pc[r] = "save"
        BY <4>2, RequestAt DEF Performed, Send
      <4> QED
        BY <2>2, <4>1, <4>2 DEF Awaiting
    <3> QED
      BY <3>2, <3>3
  <2> QED
    BY <1>4, <2>1, <2>2, IngestStepRequest
<1>5. ASSUME NEW r \in Run, NEW g \in Generation, NEW failed \in BOOLEAN,
             StartIngest(r, g, failed)
      PROVE  \E q : Performed(q) /\ Effect(q)
  <2>1. PICK ok \in BOOLEAN : Execute(Send("acquire", r, g, Absent, None, 0), ok)
    BY <1>5 DEF StartIngest
  <2>2. AcquireScript(Send("acquire", r, g, Absent, None, 0), ok)
    BY <2>1 DEF Execute, Send
  <2> QED
    BY <1>3, <2>2 DEF AcquireScript
<1>6. ASSUME NEW r \in Run, \/ SaveCheckpoint(r) \/ LeaseExpires(r)
                            \/ \E g \in Generation : StartUnanswered(r, g)
      PROVE  \E q : Performed(q) /\ Effect(q)
  BY <1>3, <1>6 DEF SaveCheckpoint, Reads, LeaseExpires, StartUnanswered, storeVars
<1>7. CASE MarkerExpires
  BY <1>1, <1>2, <1>7, MarkerEffect
<1>8. ASSUME NEW q \in late, ArrivesLate(q)
      PROVE  \E p : Performed(p) /\ Effect(p)
  <2>1. q \in Request /\ Harmless(q) /\ \E ok \in BOOLEAN : Execute(q, ok)
    BY <1>1, <1>8 DEF ArrivesLate, OwnInv, TypeInv, LifecycleTypeOK
  <2> QED
    BY <1>1, <2>1, ExecuteEffect DEF Performed
<1>9. CASE Terminated \/ UNCHANGED vars
  BY <1>3, <1>9 DEF Terminated, vars, storeVars
<1> QED
  BY <1>4, <1>5, <1>6, <1>7, <1>8, <1>9 DEF Next, RunStep

\* What the invariant says of a performed request: a delete finds a dead
\* generation and nobody staging, and so on.
Guarded(q) ==
    /\ q.op = "delete" => Dead(q.gen) /\ \A x \in Run : pc[x] \notin TrySteps
    /\ \A g \in Generation :
          By(q, "verify", g) /\ record[g] = Staged => points[g] = Batch
    /\ \A g \in Generation :
          By(q, "stage", g) =>
              /\ \A p \in late : p.op # "delete"
              /\ \A x \in Run : pc[x] # "abortDelete"
              /\ \A p \in late : p.op = "verify" => p.run # q.run

\* A request in flight meets its guard when it arrives.
LEMMA GuardLate ==
    ASSUME FenceInv, NEW q \in late
    PROVE  Guarded(q)
<1> USE DEF FenceInv
<1>1. /\ \A p \in late : p.run \in Run
      /\ {"abortDelete", "deleteSuperseded"} \subseteq Critical /\ TrySteps \subseteq Critical
  BY DEF PointerInv, TypeInv, LifecycleTypeOK, Request, AnyRequest, Critical, AbortSteps,
         CleanupSteps
<1>2. q.op = "delete" => Dead(q.gen) /\ \A x \in Run : pc[x] \notin TrySteps
  BY <1>1 DEF DeletesDead, VectorFenced, VectorOp, LatePhase
<1>3. ASSUME NEW g \in Generation, By(q, "verify", g), record[g] = Staged
      PROVE  points[g] = Batch
  BY <1>3 DEF By, PointsComplete
<1>4. ASSUME NEW g \in Generation, By(q, "stage", g)
      PROVE  /\ \A p \in late : p.op # "delete"
             /\ \A x \in Run : pc[x] # "abortDelete"
             /\ \A p \in late : p.op = "verify" => p.run # q.run
  <2>1. q.op = "stage" /\ lease = q.run /\ pc[q.run] \in {"release", "save", "done"}
    BY <1>4 DEF By, LatePhase
  <2>2. ASSUME NEW p \in late, p.run = q.run
        PROVE  p.op \in {"stage", "release"}
    BY <2>1, <2>2 DEF LateAlone
  <2>3. ASSUME NEW p \in late, p.op = "delete"
        PROVE  p.run = q.run
    BY <2>1, <2>3 DEF VectorFenced, VectorOp
  <2>4. ASSUME NEW x \in Run, pc[x] = "abortDelete"
        PROVE  x = q.run
    BY <1>1, <2>1, <2>4 DEF LeaseHeld
  <2> QED
    BY <2>1, <2>2, <2>3, <2>4
<1> QED
  BY <1>2, <1>3, <1>4 DEF Guarded

\* The request a run waits for meets its guard.
LEMMA GuardOwn ==
    ASSUME FenceInv, NEW r \in Run, pc[r] \in Critical
    PROVE  Guarded(RequestOf(r))
<1> USE DEF FenceInv
<1> DEFINE q == RequestOf(r)
<1>1. /\ q.run = r /\ lease = r
      /\ q.op = "delete" => \/ pc[r] = "abortDelete" /\ q.gen = gen[r]
                            \/ pc[r] = "deleteSuperseded" /\ q.gen = Superseded(target[r])
      /\ q.op = "verify" => pc[r] = "markVerified" /\ q.gen = gen[r]
      /\ q.op = "stage" => pc[r] = "stage"
      /\ q.op = "publish" => pc[r] = "publish"
  BY RequestFields DEF LeaseHeld
<1> HIDE DEF q
<1>2. \A x \in Run : pc[x] \in Critical => x = r
  BY <1>1 DEF LeaseHeld
<1>3. /\ {"stage", "publish"} \subseteq TrySteps /\ TrySteps \subseteq Critical
      /\ {"abortDelete", "deleteSuperseded"} \cap TrySteps = {} /\ "abortDelete" \in Critical
  BY DEF Critical, TrySteps, ReadSteps, WriteSteps, RereadSteps, AbortSteps
<1>4. Staged # Published /\ Verified # Published
  BY DEF Staged, Verified, Published
<1>5. ASSUME q.op = "delete"
      PROVE  Dead(q.gen) /\ \A x \in Run : pc[x] \notin TrySteps
  <2>1. CASE pc[r] = "abortDelete"
    BY <1>1, <1>2, <1>3, <1>5, <2>1 DEF DeletesDead
  <2>2. CASE pc[r] = "deleteSuperseded"
    <3>1. Retired(Superseded(target[r]))
      BY <2>2 DEF CleanupsRetired
    <3> QED
      BY <1>1, <1>2, <1>3, <1>4, <1>5, <2>2, <3>1 DEF Retired, Dead
  <2> QED
    BY <1>1, <1>5, <2>1, <2>2
<1>6. ASSUME NEW g \in Generation, By(q, "verify", g), record[g] = Staged
      PROVE  points[g] = Batch
  BY <1>1, <1>6 DEF By, PointsComplete
<1>7. ASSUME NEW g \in Generation, By(q, "stage", g)
      PROVE  /\ \A p \in late : p.op # "delete"
             /\ \A x \in Run : pc[x] # "abortDelete"
             /\ \A p \in late : p.op = "verify" => p.run # r
  <2>1. pc[r] = "stage"
    BY <1>1, <1>7 DEF By
  <2>2. \A p \in late : p.run # r
    BY <1>3, <2>1 DEF LatePhase
  <2>3. \A p \in late : p.op = "delete" => p.run = r
    BY DEF VectorFenced, VectorOp
  <2> QED
    BY <1>2, <1>3, <2>1, <2>2, <2>3
<1>8. Guarded(q)
  BY <1>1, <1>5, <1>6, <1>7 DEF Guarded
<1> QED
  BY <1>8 DEF q

\* Whatever request is executed meets its guard.
LEMMA Guards ==
    ASSUME FenceInv, NEW q, Performed(q)
    PROVE  Guarded(q)
<1>1. CASE q.op \in {"acquire", "read"}
  BY <1>1 DEF Guarded, By
<1> QED
  BY <1>1, GuardLate, GuardOwn DEF Performed

(***************************************************************************)
(* Every step preserves the invariant, conjunct by conjunct.               *)
(***************************************************************************)
Timing == LeaseOutlivesRun /\ VectorSettles

\* The three kinds of step.
LEMMA StepKinds ==
    ASSUME [Next]_vars
    PROVE  \/ \E r \in Run : IngestStep(r) \/ SaveCheckpoint(r)
           \/ \E r \in Run, g \in Generation, failed \in BOOLEAN :
                 StartIngest(r, g, failed) \/ StartUnanswered(r, g)
           \/ \/ \E r \in Run : LeaseExpires(r)
              \/ MarkerExpires \/ Terminated \/ UNCHANGED vars
              \/ \E q \in late : ArrivesLate(q)
BY DEF Next, RunStep

\* The requests in flight are those of runs.
LEMMA LateRuns ==
    ASSUME FenceInv
    PROVE  \A q \in late : q.run \in Run
BY DEF FenceInv, PointerInv, TypeInv, LifecycleTypeOK, Request, AnyRequest

\* A run keeps its lease until it has sent the release.
LEMMA LeaseHeldStep ==
    ASSUME FenceInv, Timing, [Next]_vars
    PROVE  LeaseHeld'
<1> USE DEF FenceInv
<1>1. TypeInv
  BY DEF PointerInv
<1>2. "done" \notin Critical /\ "save" \notin Critical
  BY DEF Critical, TrySteps, ReadSteps, WriteSteps, RereadSteps, AbortSteps, CleanupSteps
<1>3. ASSUME NEW r \in Run, IngestStep(r) \/ SaveCheckpoint(r)
      PROVE  LeaseHeld'
  <2>1. Alone(r) /\ Advances(r) /\ (UNCHANGED lease \/ (pc[r] = "release" /\ lease = r))
    BY <1>1, <1>3, IngestControl, IngestLease
  <2> QED
    BY <2>1 DEF Alone, Advances, LeaseHeld
<1>4. ASSUME NEW r \in Run, NEW g \in Generation, NEW failed \in BOOLEAN,
             StartIngest(r, g, failed) \/ StartUnanswered(r, g)
      PROVE  LeaseHeld'
  BY <1>1, <1>2, <1>4, StartControl, NoneAssumption DEF LeaseHeld, Timing
<1>5. ASSUME \/ \E r \in Run : LeaseExpires(r)
             \/ MarkerExpires \/ Terminated \/ UNCHANGED vars
             \/ \E q \in late : ArrivesLate(q)
      PROVE  LeaseHeld'
  <2>1. UNCHANGED pc
    BY <1>1, <1>5, EnvironmentControl DEF Timing
  <2>2. ASSUME NEW x \in Run, pc[x] \in Critical
        PROVE  UNCHANGED lease
    <3>1. lease = x /\ x # None
      BY <2>2, NoneAssumption DEF LeaseHeld
    <3>2. \A q \in late : q.op = "release" => q.run # x
      BY <1>2, <2>2 DEF LatePhase
    <3> QED
      BY <1>1, <1>2, <1>5, <2>2, <3>1, <3>2, EnvironmentControl DEF Timing
  <2> QED
    BY <2>1, <2>2 DEF LeaseHeld
<1> QED
  BY <1>3, <1>4, <1>5, StepKinds

Environment ==
    \/ \E r \in Run : LeaseExpires(r)
    \/ MarkerExpires \/ Terminated \/ UNCHANGED vars
    \/ \E q \in late : ArrivesLate(q)

\* The runs of requests in flight stay as far as they have got.
LEMMA LateStepInv ==
    ASSUME FenceInv, Timing, [Next]_vars
    PROVE  LatePhase' /\ LateAlone'
<1> USE DEF FenceInv
<1>1. TypeInv /\ \A q \in late : q.run \in Run
  BY LateRuns DEF PointerInv
<1>2. /\ {"release", "save", "done"} \cap (TrySteps \cup {"idle"}) = {}
      /\ "stage" \in ReadSteps \cup {"idle", "stage"} /\ "stage" \in TrySteps
  BY DEF TrySteps, ReadSteps, WriteSteps, RereadSteps
<1>3. ASSUME NEW r \in Run, IngestStep(r) \/ SaveCheckpoint(r)
      PROVE  LatePhase' /\ LateAlone'
  <2>1. Alone(r) /\ Advances(r) /\ LeavesBehind(r)
    BY <1>1, <1>3, IngestControl
  <2>2. ASSUME NEW q \in late
        PROVE  /\ pc'[q.run] \notin TrySteps \cup {"idle"}
               /\ q.op = "stage" => pc'[q.run] \in {"release", "save", "done"}
               /\ q.op \in {"acquire", "release"} => pc'[q.run] \in {"save", "done"}
    <3>1. CASE q.run # r
      BY <1>1, <2>1, <3>1 DEF Alone, LatePhase
    <3>2. CASE q.run = r
      <4>1. pc[r] # "done"
        BY <2>1 DEF Advances, Awaiting, Critical, TrySteps, ReadSteps, WriteSteps, RereadSteps,
                    AbortSteps, CleanupSteps
      <4>2. pc'[r] \notin TrySteps \cup {"idle"}
        BY <2>1, <3>2 DEF Advances, LatePhase
      <4> QED
        BY <2>1, <3>2, <4>1, <4>2 DEF Advances, LatePhase
    <3> QED
      BY <3>1, <3>2
  <2>3. CASE late' \subseteq late
    BY <2>2, <2>3 DEF LatePhase, LateAlone
  <2>4. CASE /\ late' \subseteq late \cup {RequestOf(r)}
             /\ RequestOf(r).op # "read" /\ pc[r] # "save" /\ pc'[r] \notin TrySteps
             /\ own[r] = Absent /\ pc[r] \in TrySteps => pc'[r] \in {"release", "done"}
    <3> DEFINE n == RequestOf(r)
    <3>1. /\ n.run = r /\ n.op # "acquire" /\ (n.op = "stage" => pc[r] = "stage")
          /\ (n.op = "release" => pc[r] = "release")
      BY RequestFields
    <3> HIDE DEF n
    <3>2. /\ pc'[r] \notin TrySteps \cup {"idle"}
          /\ n.op = "stage" => pc'[r] \in {"release", "save", "done"}
          /\ n.op = "release" => pc'[r] \in {"save", "done"}
      BY <1>2, <2>1, <2>4, <3>1 DEF Advances, NothingOwnedYet
    <3>3. \A q \in late' : q \in late \/ q = n
      BY <2>4 DEF n
    <3>4. LatePhase'
      BY <2>2, <3>1, <3>2, <3>3 DEF LatePhase
    <3>5. pc[r] \notin {"save", "done"}
      BY <2>1, <2>4 DEF Advances, Awaiting, Critical, TrySteps, ReadSteps, WriteSteps,
                        RereadSteps, AbortSteps, CleanupSteps
    <3>6. ASSUME NEW q \in late, q.run = r
          PROVE  /\ q.op # "acquire" /\ n.op # "stage"
                 /\ q.op = "stage" => n.op = "release"
      <4>1. q.op # "acquire" /\ n.op # "stage"
        BY <1>2, <3>1, <3>5, <3>6 DEF LatePhase
      <4>2. ASSUME q.op = "stage"
            PROVE  pc[r] = "release"
        BY <3>5, <3>6, <4>2 DEF LatePhase
      <4>3. pc[r] = "release" => n.op = "release"
        BY RequestAt DEF n, Send
      <4> QED
        BY <4>1, <4>2, <4>3
    <3>7. ASSUME NEW p \in late', NEW q \in late', p.run = q.run
          PROVE  /\ p.op = "acquire" => q.op = "acquire"
                 /\ p.op = "stage" => q.op \in {"stage", "release"}
      <4>1. CASE p \in late /\ q \in late
        BY <3>7, <4>1 DEF LateAlone
      <4>2. CASE p \in late /\ q = n
        BY <3>1, <3>6, <3>7, <4>2
      <4>3. CASE p = n /\ q \in late
        BY <3>1, <3>6, <3>7, <4>3
      <4>4. CASE p = n /\ q = n
        BY <3>1, <4>4
      <4> QED
        BY <3>3, <4>1, <4>2, <4>3, <4>4
    <3> QED
      BY <3>4, <3>7 DEF LateAlone
  <2> QED
    BY <2>1, <2>3, <2>4 DEF LeavesBehind
<1>4. ASSUME NEW r \in Run, NEW g \in Generation, NEW failed \in BOOLEAN,
             StartIngest(r, g, failed) \/ StartUnanswered(r, g)
      PROVE  LatePhase' /\ LateAlone'
  <2> DEFINE n == Send("acquire", r, g, Absent, None, 0)
  <2>1. n.run = r /\ n.op = "acquire"
    BY DEF Send
  <2>2. /\ pc[r] = "idle" /\ \A x \in Run : x # r => pc'[x] = pc[x]
        /\ \/ UNCHANGED late
           \/ pc'[r] = "save" /\ late' \subseteq late \cup {n}
    BY <1>1, <1>4, StartControl DEF Timing
  <2> HIDE DEF n
  <2>3. \A q \in late : q.run # r /\ pc'[q.run] = pc[q.run]
    BY <1>1, <2>2 DEF LatePhase
  <2>4. \A q \in late' : q \in late \/ (q = n /\ pc'[r] = "save")
    BY <2>2
  <2>5. LatePhase'
    BY <1>2, <2>1, <2>3, <2>4 DEF LatePhase
  <2>6. LateAlone'
    BY <2>1, <2>3, <2>4 DEF LateAlone
  <2> QED
    BY <2>5, <2>6
<1>5. ASSUME Environment
      PROVE  LatePhase' /\ LateAlone'
  <2>1. UNCHANGED pc /\ late' \subseteq late
    BY <1>1, <1>5, EnvironmentControl DEF Timing, Environment
  <2> QED
    BY <2>1 DEF LatePhase, LateAlone
<1> QED
  BY <1>3, <1>4, <1>5, StepKinds DEF Environment

\* A vector request in flight keeps everybody else out.
LEMMA VectorFencedStep ==
    ASSUME FenceInv, Timing, [Next]_vars
    PROVE  VectorFenced'
<1> USE DEF FenceInv
<1>1. TypeInv /\ \A q \in late : q.run \in Run
  BY LateRuns DEF PointerInv
<1>2. ASSUME NEW r \in Run, IngestStep(r) \/ SaveCheckpoint(r)
      PROVE  VectorFenced'
  <2>1. /\ Alone(r) /\ Advances(r) /\ LeavesBehind(r)
        /\ UNCHANGED lease \/ (pc[r] = "release" /\ lease = r)
    BY <1>1, <1>2, IngestControl, IngestLease
  <2>2. \A x \in Run : pc'[x] \in Critical => pc[x] \in Critical
    BY <2>1 DEF Alone, Advances
  <2>3. lease' \in Run => lease' = lease
    BY <1>1, <1>2, ReleaseFrees, NoneAssumption
  <2>4. \A q \in late' : q.run \in Run
    BY <1>1, <2>1, RequestFields DEF LeavesBehind
  <2>5. CASE late' \subseteq late
    BY <1>1, <2>2, <2>3, <2>5 DEF VectorFenced
  <2>6. CASE /\ late' \subseteq late \cup {RequestOf(r)} /\ pc[r] # "save"
    <3> DEFINE n == RequestOf(r)
    <3>1. n.run = r /\ pc[r] \in Critical /\ lease = r
      BY <2>1, <2>6, RequestFields DEF Advances, Awaiting, LeaseHeld
    <3> HIDE DEF n
    <3>2. \A x \in Run : pc[x] \in Critical => x = r
      BY <3>1 DEF LeaseHeld
    <3>3. \A q \in late' : q \in late \/ q = n
      BY <2>6 DEF n
    <3>4. \A q \in late : q.op \in VectorOp => q.run = r
      BY <3>1 DEF VectorFenced
    <3> QED
      BY <2>2, <2>3, <2>4, <3>1, <3>2, <3>3, <3>4 DEF VectorFenced
  <2> QED
    BY <2>1, <2>5, <2>6 DEF LeavesBehind
<1>3. ASSUME NEW r \in Run, NEW g \in Generation, NEW failed \in BOOLEAN,
             StartIngest(r, g, failed) \/ StartUnanswered(r, g)
      PROVE  VectorFenced'
  <2> DEFINE n == Send("acquire", r, g, Absent, None, 0)
  <2>1. n.op = "acquire" /\ n.op \notin VectorOp
    BY DEF Send, VectorOp
  <2>2. /\ \A x \in Run : x # r => pc'[x] = pc[x]
        /\ \/ UNCHANGED late /\ \A q \in late : q.op \notin VectorOp
           \/ pc'[r] = "save" /\ UNCHANGED lease /\ late' \subseteq late \cup {n}
    BY <1>1, <1>3, StartControl DEF Timing
  <2> HIDE DEF n
  <2>3. CASE UNCHANGED late /\ \A q \in late : q.op \notin VectorOp
    BY <2>3 DEF VectorFenced
  <2>4. CASE pc'[r] = "save" /\ UNCHANGED lease /\ late' \subseteq late \cup {n}
    <3>1. "save" \notin Critical
      BY DEF Critical, TrySteps, ReadSteps, WriteSteps, RereadSteps, AbortSteps, CleanupSteps
    <3> QED
      BY <2>1, <2>2, <2>4, <3>1 DEF VectorFenced
  <2> QED
    BY <2>2, <2>3, <2>4
<1>4. ASSUME Environment
      PROVE  VectorFenced'
  <2>1. UNCHANGED pc /\ late' \subseteq late
    BY <1>1, <1>4, EnvironmentControl DEF Timing, Environment
  <2>2. \A p \in late' : p.op # "acquire" /\ lease' = p.run => lease = p.run
    <3>1. CASE UNCHANGED lease
      BY <3>1
    <3>2. CASE lease' = None
      BY <1>1, <2>1, <3>2, NoneAssumption
    <3>3. CASE \E q \in late : q.op = "acquire" /\ lease' = q.run
      BY <2>1, <3>3 DEF LateAlone
    <3> QED
      BY <1>1, <1>4, <3>1, <3>2, <3>3, EnvironmentControl DEF Timing, Environment
  <2> QED
    BY <2>1, <2>2 DEF VectorFenced
<1> QED
  BY <1>2, <1>3, <1>4, StepKinds DEF Environment

\* A run owns nothing before it has staged.
LEMMA NothingOwnedYetStep ==
    ASSUME FenceInv, Timing, [Next]_vars
    PROVE  NothingOwnedYet'
<1> USE DEF FenceInv
<1>1. TypeInv
  BY DEF PointerInv
<1>2. ASSUME NEW r \in Run, IngestStep(r) \/ SaveCheckpoint(r)
      PROVE  NothingOwnedYet'
  BY <1>1, <1>2, IngestControl DEF Alone, Advances, NothingOwnedYet
<1>3. ASSUME NEW r \in Run, NEW g \in Generation, NEW failed \in BOOLEAN,
             StartIngest(r, g, failed) \/ StartUnanswered(r, g)
      PROVE  NothingOwnedYet'
  <2>1. /\ pc[r] = "idle" /\ UNCHANGED own /\ \A x \in Run : x # r => pc'[x] = pc[x]
    BY <1>1, <1>3, StartControl DEF Timing
  <2> QED
    BY <2>1 DEF NothingOwnedYet
<1>4. ASSUME Environment
      PROVE  NothingOwnedYet'
  BY <1>1, <1>4, EnvironmentControl DEF Timing, Environment, NothingOwnedYet
<1> QED
  BY <1>2, <1>3, <1>4, StepKinds DEF Environment

\* Retired generations stay retired, and only they are cleaned up.
LEMMA CleanupsRetiredStep ==
    ASSUME FenceInv, Timing, [Next]_vars
    PROVE  CleanupsRetired'
<1> USE DEF FenceInv
<1>1. TypeInv /\ cleanupIndex \in SUBSET Pair /\ \A r \in Run : todo[r] \in SUBSET Pair
  BY DEF PointerInv, TypeInv, LifecycleTypeOK, StoreTypeOK, LocalTypeOK
<1>2. ASSUME NEW p \in Pair
      PROVE  Superseded(p) \in Generation
  BY DEF Superseded, Pair
<1>3. \A r \in Run : pc[r] \in {"deleteSuperseded", "markCleaned"} => target[r] \in Pair
  BY <1>1 DEF TypeInv, LocalInv
<1> DEFINE Then(p) == record'[Superseded(p)] = Published /\ Superseded(p) # active'
<1>4. /\ \A p \in cleanupIndex' : p \in cleanupIndex \/ Then(p)
      /\ \A p \in Pair : Retired(Superseded(p)) => Then(p)
  BY <1>2, StepEffect DEF Effect
<1>5. \A p \in cleanupIndex' : Then(p)
  BY <1>1, <1>4 DEF CleanupsRetired
<1>6. \A p \in cleanupIndex : Then(p)
  BY <1>1, <1>4 DEF CleanupsRetired
<1>7. \A r \in Run : \A p \in todo[r] : Then(p)
  BY <1>1, <1>4 DEF CleanupsRetired
<1>8. \A r \in Run : pc[r] \in {"deleteSuperseded", "markCleaned"} => Then(target[r])
  BY <1>3, <1>4 DEF CleanupsRetired
<1> HIDE DEF Then
<1>9. ASSUME \A r \in Run : \A p \in todo'[r] : Then(p),
             \A r \in Run : pc'[r] \in {"deleteSuperseded", "markCleaned"} => Then(target'[r])
      PROVE  CleanupsRetired'
  BY <1>5, <1>9 DEF CleanupsRetired, Retired, Superseded, Then
<1>10. ASSUME NEW r \in Run, IngestStep(r) \/ SaveCheckpoint(r)
       PROVE  CleanupsRetired'
  <2>1. Alone(r) /\ Advances(r)
    BY <1>1, <1>10, IngestControl
  <2>2. \A x \in Run : \A p \in todo'[x] : Then(p)
    BY <1>6, <1>7, <2>1 DEF Alone, Advances
  <2>3. \A x \in Run : pc'[x] \in {"deleteSuperseded", "markCleaned"} => Then(target'[x])
    <3>1. ASSUME NEW x \in Run, x # r, pc'[x] \in {"deleteSuperseded", "markCleaned"}
          PROVE  Then(target'[x])
      BY <1>8, <2>1, <3>1 DEF Alone
    <3>2. ASSUME pc'[r] \in {"deleteSuperseded", "markCleaned"}
          PROVE  Then(target'[r])
      BY <1>6, <1>7, <1>8, <2>1, <3>2 DEF Advances
    <3> QED
      BY <3>1, <3>2
  <2> QED
    BY <1>9, <2>2, <2>3
<1>11. ASSUME NEW r \in Run, NEW g \in Generation, NEW failed \in BOOLEAN,
              StartIngest(r, g, failed) \/ StartUnanswered(r, g)
       PROVE  CleanupsRetired'
  <2>1. UNCHANGED <<todo, target>> /\ \A x \in Run : x # r => pc'[x] = pc[x]
    BY <1>1, <1>11, StartControl DEF Timing
  <2>2. pc'[r] \in {"pointer", "save"}
    BY <1>1, <1>11, StartControl DEF Timing
  <2> QED
    BY <1>7, <1>8, <1>9, <2>1, <2>2
<1>12. ASSUME Environment
       PROVE  CleanupsRetired'
  <2>1. UNCHANGED <<pc, todo, target>>
    BY <1>1, <1>12, EnvironmentControl DEF Timing, Environment
  <2> QED
    BY <1>7, <1>8, <1>9, <2>1
<1> QED
  BY <1>10, <1>11, <1>12, StepKinds DEF Environment

\* A run that goes on to delete the points of the generation it has aborted
\* finds it dead: it owned the record, and it never owns a published one.
LEMMA AbortDead ==
    ASSUME PointerInv, NEW r \in Run, pc[r] = "abort", pc'[r] = "abortDelete",
           IngestStep(r) \/ SaveCheckpoint(r)
    PROVE  gen'[r] = gen[r] /\ record'[gen[r]] \notin {Staged, Verified} /\ gen[r] # active'
<1>1. /\ TypeInv /\ OwnInv /\ LocalTypeOK /\ StoreTypeOK /\ ActivePublished
      /\ gen[r] \in Generation /\ "abort" \in Awaiting
  BY DEF PointerInv, TypeInv, LifecycleTypeOK, LocalInv, Awaiting, Critical, AbortSteps
<1>2. pc' # [pc EXCEPT ![r] = "release"] /\ pc' # [pc EXCEPT ![r] = "done"] /\ pc # pc'
  BY <1>1 DEF LocalTypeOK
<1>3. Answered(r, "abort", TRUE) /\ UNCHANGED gen
  <2>1. ~RequestFails(r) /\ ~Halt(r)
    BY <1>2 DEF RequestFails, Halt, Ends, Goto, Raise, RaiseInTry, RaiseInAbort, RaiseInCleanup,
                RaiseAtEnd, TrySteps, ReadSteps, WriteSteps, RereadSteps
  <2>2. AbortGeneration(r)
    BY <2>1 DEF IngestStep, SaveCheckpoint, ReadPointer, ReadRecord, RetryPreflight,
                StageGeneration, EmbedDocuments, UpsertBatch, VerifyBatch,
                MarkGenerationVerified, PublishGeneration, RereadActive, AbortDelete,
                CleanGeneration, ListPendingCleanups, DeleteSuperseded, MarkSupersededCleaned,
                ReleaseLease, Answered, Reads
  <2> QED
    BY <1>2, <2>2 DEF AbortGeneration, Goto
<1>4. AbortScript(Send("abort", r, gen[r], own[r], None, 0), TRUE)
  <2> DEFINE q == Send("abort", r, gen[r], own[r], None, 0)
  <2>1. q.op = "abort"
    BY DEF Send
  <2>2. Execute(q, TRUE)
    BY <1>3, RequestAt DEF Answered
  <2> HIDE DEF q
  <2>3. AbortScript(q, TRUE)
    BY <2>1, <2>2 DEF Execute
  <2> QED
    BY <2>3 DEF q
<1>5. /\ record[gen[r]] = own[r] /\ UNCHANGED active
      /\ record' = [record EXCEPT ![gen[r]] = WithState(own[r], "ABORTED")]
  BY <1>4 DEF AbortScript, RecordScript, Send
<1>6. own[r] \in StageRecord /\ own[r] # Published
  BY <1>1, RecordStates DEF LocalTypeOK, OwnInv
<1>7. WithState(own[r], "ABORTED") \notin {Staged, Verified}
  BY <1>6, RecordStates
<1>8. gen[r] # active
  BY <1>1, <1>5, <1>6, NoneAssumption DEF ActivePublished
<1> QED
  BY <1>1, <1>3, <1>5, <1>7, <1>8 DEF StoreTypeOK

\* Deletes stay away from what is served or on its way to it.
LEMMA DeletesDeadStep ==
    ASSUME FenceInv, Timing, [Next]_vars
    PROVE  DeletesDead'
<1> USE DEF FenceInv
<1>1. /\ TypeInv /\ \A q \in late : q.run \in Run /\ q.gen \in Generation
      /\ \A r \in Run : pc[r] = "abortDelete" => gen[r] \in Generation
  BY LateRuns DEF PointerInv, TypeInv, LifecycleTypeOK, Request, AnyRequest, LocalInv, Awaiting,
                  Critical, AbortSteps
<1> DEFINE Then(g) == g # active' /\ record'[g] \notin {Staged, Verified}
<1>2. PICK p : Performed(p) /\ Effect(p)
  BY StepEffect
<1>3. Guarded(p)
  BY <1>2, Guards
<1>4. \A q \in late : q.op = "delete" => Then(q.gen)
  BY <1>1, <1>2, <1>3 DEF DeletesDead, Effect, Guarded
<1>5. \A r \in Run : pc[r] = "abortDelete" => Then(gen[r])
  BY <1>1, <1>2, <1>3 DEF DeletesDead, Effect, Guarded
<1> HIDE DEF Then
<1>6. ASSUME \A q \in late' : q.op = "delete" => Then(q.gen),
             \A r \in Run : pc'[r] = "abortDelete" => Then(gen'[r])
      PROVE  DeletesDead'
  BY <1>6 DEF DeletesDead, Dead, Then
<1>7. ASSUME NEW r \in Run, IngestStep(r) \/ SaveCheckpoint(r)
      PROVE  DeletesDead'
  <2>1. Alone(r) /\ Advances(r) /\ LeavesBehind(r)
    BY <1>1, <1>7, IngestControl
  <2>2. \A x \in Run : pc'[x] = "abortDelete" => Then(gen'[x])
    <3>1. ASSUME NEW x \in Run, x # r, pc'[x] = "abortDelete"
          PROVE  Then(gen'[x])
      BY <1>5, <2>1, <3>1 DEF Alone
    <3>2. ASSUME pc'[r] = "abortDelete"
          PROVE  Then(gen'[r])
      BY <1>7, <2>1, <3>2, AbortDead DEF Advances, Then
    <3> QED
      BY <3>1, <3>2
  <2>3. \A q \in late' : q.op = "delete" => Then(q.gen)
    <3>1. CASE late' \subseteq late
      BY <1>4, <3>1
    <3>2. CASE late' \subseteq late \cup {RequestOf(r)} /\ UNCHANGED storeVars
      <4>1. RequestOf(r).op = "delete" => Dead(RequestOf(r).gen)
        <5>1. ASSUME RequestOf(r).op = "delete"
              PROVE  pc[r] \in Critical
          BY <5>1, RequestFields DEF Critical, AbortSteps, CleanupSteps
        <5> QED
          BY <5>1, GuardOwn DEF Guarded
      <4>2. RequestOf(r).op = "delete" => Then(RequestOf(r).gen)
        BY <3>2, <4>1 DEF Dead, Then, storeVars
      <4> QED
        BY <1>4, <3>2, <4>2
    <3> QED
      BY <2>1, <3>1, <3>2 DEF LeavesBehind
  <2> QED
    BY <1>6, <2>2, <2>3
<1>8. ASSUME NEW r \in Run, NEW g \in Generation, NEW failed \in BOOLEAN,
             StartIngest(r, g, failed) \/ StartUnanswered(r, g)
      PROVE  DeletesDead'
  <2> DEFINE n == Send("acquire", r, g, Absent, None, 0)
  <2>1. n.op = "acquire"
    BY DEF Send
  <2>2. /\ \A x \in Run : x # r => pc'[x] = pc[x] /\ gen'[x] = gen[x]
        /\ pc'[r] \in {"pointer", "save"} /\ late' \subseteq late \cup {n}
    BY <1>1, <1>8, StartControl DEF Timing
  <2> HIDE DEF n
  <2> QED
    BY <1>4, <1>5, <1>6, <2>1, <2>2
<1>9. ASSUME Environment
      PROVE  DeletesDead'
  <2>1. UNCHANGED <<pc, gen>> /\ late' \subseteq late
    BY <1>1, <1>9, EnvironmentControl DEF Timing, Environment
  <2> QED
    BY <1>4, <1>5, <1>6, <2>1
<1> QED
  BY <1>7, <1>8, <1>9, StepKinds DEF Environment

\* What is verified or served keeps all its points.
LEMMA PointsCompleteStep ==
    ASSUME FenceInv, Timing, [Next]_vars
    PROVE  PointsComplete'
<1> USE DEF FenceInv
<1>1. /\ TypeInv /\ TypeInv' /\ points \in [Generation -> SUBSET Batch]
      /\ points' \in [Generation -> SUBSET Batch]
      /\ active \in Generation \cup {None} /\ active' \in Generation \cup {None}
      /\ \A q \in late : q.run \in Run /\ q.gen \in Generation
      /\ \A r \in Run : count[r] \in 0..(Batches - 1)
  BY LateRuns, TypeStep
     DEF PointerInv, TypeInv, LifecycleTypeOK, StoreTypeOK, LocalTypeOK, Request, AnyRequest
<1>2. /\ \A r \in Run : pc[r] \in {"verify", "upsert", "markVerified"} =>
            gen[r] \in Generation /\ pc[r] \in TrySteps
      /\ Staged # Verified /\ Verified # Published /\ Staged # Published
  BY <1>1 DEF TypeInv, LocalInv, Awaiting, Critical, TrySteps, WriteSteps, Staged, Verified,
              Published
<1>3. PICK p : Performed(p) /\ Effect(p)
  BY StepEffect
<1>4. Guarded(p)
  BY <1>3, Guards
\* Points only go from dead generations, and not while a run is staging.
<1>5. ASSUME NEW g \in Generation, ~Dead(g) \/ \E x \in Run : pc[x] \in TrySteps
      PROVE  points[g] \subseteq points'[g]
  <2>1. ~(p.op = "delete" /\ p.gen = g)
    BY <1>4, <1>5 DEF Guarded
  <2>2. \A b \in points[g] : b \in points'[g]
    BY <1>3, <2>1 DEF Effect
  <2> QED
    BY <2>2
<1>6. ASSUME NEW g \in Generation, points[g] = Batch, points[g] \subseteq points'[g]
      PROVE  points'[g] = Batch
  BY <1>1, <1>6
<1>7. ASSUME NEW g \in Generation, record'[g] = Verified
      PROVE  points'[g] = Batch
  <2>1. CASE record[g] = Verified
    BY <1>5, <1>6, <2>1 DEF PointsComplete, Dead
  <2>2. CASE By(p, "verify", g) /\ record[g] = Staged /\ UNCHANGED points
    BY <1>4, <2>2 DEF Guarded
  <2> QED
    BY <1>3, <1>7, <2>1, <2>2 DEF Effect
<1>8. ASSUME active' # None
      PROVE  points'[active'] = Batch
  <2>1. active' \in Generation
    BY <1>1, <1>8
  <2>2. CASE active = active'
    BY <1>5, <1>6, <1>8, <2>1, <2>2 DEF PointsComplete, Dead
  <2>3. CASE record[active'] = Verified /\ UNCHANGED points
    BY <2>1, <2>3 DEF PointsComplete
  <2> QED
    BY <1>3, <2>1, <2>2, <2>3 DEF Effect
<1>9. ASSUME NEW q \in late, q.op = "verify", lease' = q.run, record'[q.gen] = Staged, lease = q.run
      PROVE  points'[q.gen] = Batch
  <2>1. q.gen \in Generation /\ q.run \in Run
    BY <1>1
  <2>2. CASE record[q.gen] = Staged
    BY <1>5, <1>6, <1>9, <2>1, <2>2 DEF PointsComplete, Dead
  <2>3. CASE By(p, "stage", q.gen)
    BY <1>4, <1>9, <2>1, <2>3 DEF Guarded, By
  <2> QED
    BY <1>3, <1>9, <2>1, <2>2, <2>3 DEF Effect
<1>10. ASSUME \A x \in Run : pc'[x] = "verify" => 1..count'[x] \subseteq points'[gen'[x]],
              \A x \in Run : pc'[x] = "markVerified" => points'[gen'[x]] = Batch,
              \A q \in late' : q.op = "verify" /\ lease' = q.run /\ record'[q.gen] = Staged =>
                                  points'[q.gen] = Batch
       PROVE  PointsComplete'
  BY <1>7, <1>8, <1>10 DEF PointsComplete, Batch
\* The runs that do not step.
<1>11. ASSUME NEW x \in Run, pc'[x] = pc[x], gen'[x] = gen[x], count'[x] = count[x]
       PROVE  /\ pc'[x] = "verify" => 1..count'[x] \subseteq points'[gen'[x]]
              /\ pc'[x] = "markVerified" => points'[gen'[x]] = Batch
  <2>1. CASE pc[x] = "verify"
    BY <1>2, <1>5, <1>11, <2>1 DEF PointsComplete
  <2>2. CASE pc[x] = "markVerified"
    BY <1>2, <1>5, <1>6, <1>11, <2>2 DEF PointsComplete
  <2> QED
    BY <1>11, <2>1, <2>2
<1>12. ASSUME NEW r \in Run, IngestStep(r) \/ SaveCheckpoint(r)
       PROVE  PointsComplete'
  <2>1. /\ Alone(r) /\ Advances(r) /\ Loops(r) /\ LeavesBehind(r)
        /\ UNCHANGED lease \/ (pc[r] = "release" /\ lease = r)
    BY <1>1, <1>12, IngestControl, IngestLease
  <2>2. \A x \in Run \ {r} : pc'[x] = pc[x] /\ gen'[x] = gen[x] /\ count'[x] = count[x]
    BY <2>1 DEF Alone
  <2>3. pc'[r] # "done" => gen'[r] = gen[r]
    BY <2>1 DEF Advances
  <2>4. pc'[r] = "verify" => 1..count'[r] \subseteq points'[gen'[r]]
    <3>1. CASE count'[r] = 0
      BY <3>1
    <3>2. CASE /\ pc[r] = "verify" /\ count'[r] = count[r] + 1 /\ pc'[r] = "verify"
               /\ count[r] + 1 \in points[gen[r]] /\ UNCHANGED storeVars
      <4>1. 1..count[r] \subseteq points[gen[r]] /\ points' = points /\ gen'[r] = gen[r]
        BY <2>3, <3>2 DEF PointsComplete, storeVars
      <4>2. 1..(count[r] + 1) = (1..count[r]) \cup {count[r] + 1}
        BY <1>1
      <4> QED
        BY <3>2, <4>1, <4>2
    <3> QED
      BY <2>1, <3>1, <3>2 DEF Loops
  <2>5. pc'[r] = "markVerified" => points'[gen'[r]] = Batch
    <3>1. ASSUME pc'[r] = "markVerified"
          PROVE  points'[gen'[r]] = Batch
      <4>1. /\ pc[r] = "verify" /\ count[r] + 1 = Batches
            /\ count[r] + 1 \in points[gen[r]] /\ points' = points /\ gen'[r] = gen[r]
        BY <2>1, <2>3, <3>1 DEF Loops, storeVars
      <4>2. 1..count[r] \subseteq points[gen[r]] /\ gen[r] \in Generation
        BY <1>2, <4>1 DEF PointsComplete
      <4>3. 1..Batches = (1..count[r]) \cup {count[r] + 1}
        BY <1>1, <4>1
      <4> QED
        BY <1>1, <4>1, <4>2, <4>3 DEF Batch
    <3> QED
      BY <3>1
  <2>6. ASSUME NEW q \in late', q.op = "verify", lease' = q.run, record'[q.gen] = Staged
        PROVE  points'[q.gen] = Batch
    <3>1. CASE q \in late
      <4>1. q.run \in Run /\ q.run # None
        BY <1>1, <3>1, NoneAssumption
      <4>2. lease = q.run
        BY <1>1, <1>12, <2>6, <4>1, ReleaseFrees
      <4> QED
        BY <1>9, <2>6, <3>1, <4>2
    <3>2. CASE q = RequestOf(r) /\ UNCHANGED storeVars
      <4>1. pc[r] = "markVerified" /\ q.gen = gen[r]
        BY <2>6, <3>2, RequestFields
      <4> QED
        BY <3>2, <4>1 DEF PointsComplete, storeVars
    <3> QED
      BY <2>1, <2>6, <3>1, <3>2 DEF LeavesBehind
  <2> QED
    BY <1>10, <1>11, <2>2, <2>4, <2>5, <2>6
<1>13. ASSUME NEW r \in Run, NEW g \in Generation, NEW failed \in BOOLEAN,
              StartIngest(r, g, failed) \/ StartUnanswered(r, g)
       PROVE  PointsComplete'
  <2> DEFINE n == Send("acquire", r, g, Absent, None, 0)
  <2>1. n.op = "acquire"
    BY DEF Send
  <2>2. /\ pc[r] = "idle" /\ UNCHANGED count
        /\ \A x \in Run : x # r => pc'[x] = pc[x] /\ gen'[x] = gen[x]
        /\ pc'[r] \in {"pointer", "save"} /\ late' \subseteq late \cup {n}
        /\ UNCHANGED lease \/ lease' = r
    BY <1>1, <1>13, StartControl DEF Timing
  <2> HIDE DEF n
  <2>3. \A q \in late : q.run # r
    BY <2>2 DEF LatePhase
  <2>4. \A q \in late' : q.op = "verify" /\ lease' = q.run /\ record'[q.gen] = Staged =>
                            points'[q.gen] = Batch
    BY <1>9, <2>1, <2>2, <2>3
  <2> QED
    BY <1>10, <1>11, <2>2, <2>4
<1>14. ASSUME Environment
       PROVE  PointsComplete'
  <2>1. UNCHANGED <<pc, gen, count>> /\ late' \subseteq late
    BY <1>1, <1>14, EnvironmentControl DEF Timing, Environment
  <2>2. \A q \in late : q.op = "verify" /\ lease' = q.run => lease = q.run
    BY <1>1, <1>14, EnvironmentControl, NoneAssumption DEF Timing, Environment, LateAlone
  <2>3. \A q \in late' : q.op = "verify" /\ lease' = q.run /\ record'[q.gen] = Staged =>
                            points'[q.gen] = Batch
    BY <1>9, <2>1, <2>2
  <2> QED
    BY <1>10, <1>11, <2>1, <2>3
<1> QED
  BY <1>12, <1>13, <1>14, StepKinds DEF Environment

\* The active generation only changes by a publication of the lease's owner,
\* who is then past every decision that `current' enters.
LEMMA SnapshotFreshStep ==
    ASSUME FenceInv, Timing, [Next]_vars
    PROVE  SnapshotFresh'
<1> USE DEF FenceInv
<1>1. TypeInv /\ active \in Generation \cup {None} /\ active' \in Generation \cup {None}
  BY TypeStep DEF PointerInv, TypeInv, LifecycleTypeOK, StoreTypeOK
<1> DEFINE Deciding == WriteSteps \cup (ReadSteps \ {"pointer"})
<1>2. Deciding \subseteq TrySteps /\ "pointer" \in TrySteps
  BY DEF TrySteps, ReadSteps
<1>3. PICK p : Performed(p) /\ Effect(p)
  BY StepEffect
<1>4. ASSUME active' # active, NEW x \in Run, pc[x] \in TrySteps
      PROVE  pc'[x] \notin Deciding
  <2>1. active' \in Generation
    BY <1>1, <1>3, <1>4 DEF Effect
  <2>2. p.op = "publish" /\ lease = p.run
    BY <1>3, <1>4, <2>1 DEF Effect, By
  <2>3. lease = x
    BY <1>4 DEF LeaseHeld, Critical
  <2>4. p \notin late
    BY <1>4, <2>2, <2>3 DEF LatePhase
  <2>5. PICK r \in Run : p = RequestOf(r) /\ IngestStep(r)
    BY <1>3, <2>2, <2>4 DEF Performed
  <2>6. pc[r] = "publish" /\ r = x
    BY <2>2, <2>3, <2>5, RequestFields
  <2> QED
    BY <1>1, <2>5, <2>6, IngestControl DEF Advances
<1>5. ASSUME \A x \in Run : pc'[x] \in Deciding => /\ pc[x] \in TrySteps
                                                    /\ \/ active = current'[x]
                                                       \/ /\ pc[x] \in Deciding
                                                          /\ current'[x] = current[x]
      PROVE  SnapshotFresh'
  BY <1>4, <1>5 DEF SnapshotFresh
<1>6. ASSUME NEW r \in Run, IngestStep(r) \/ SaveCheckpoint(r)
      PROVE  SnapshotFresh'
  <2>1. Alone(r) /\ Advances(r)
    BY <1>1, <1>6, IngestControl
  <2> QED
    BY <1>2, <1>5, <2>1 DEF Alone, Advances
<1>7. ASSUME NEW r \in Run, NEW g \in Generation, NEW failed \in BOOLEAN,
             StartIngest(r, g, failed) \/ StartUnanswered(r, g)
      PROVE  SnapshotFresh'
  <2>1. /\ UNCHANGED current /\ \A x \in Run : x # r => pc'[x] = pc[x]
        /\ pc'[r] \in {"pointer", "save"}
    BY <1>1, <1>7, StartControl DEF Timing
  <2>2. "save" \notin Deciding /\ "pointer" \notin Deciding
    BY DEF ReadSteps, WriteSteps
  <2> QED
    BY <1>2, <1>5, <2>1, <2>2
<1>8. ASSUME Environment
      PROVE  SnapshotFresh'
  BY <1>1, <1>2, <1>5, <1>8, EnvironmentControl DEF Timing, Environment
<1> QED
  BY <1>6, <1>7, <1>8, StepKinds DEF Environment

\* The invariant holds initially.
LEMMA FenceInit == Init => FenceInv
<1> SUFFICES ASSUME Init PROVE FenceInv
  OBVIOUS
<1>1. /\ \A r \in Run : /\ pc[r] = "idle" /\ own[r] = Absent /\ todo[r] = {}
      /\ late = {} /\ cleanupIndex = {} /\ active = None
      /\ \A g \in Generation : record[g] = Absent
  BY DEF Init, StoreInit
<1>2. "idle" \notin Critical /\ "idle" \notin WriteSteps \cup ReadSteps
  BY DEF Critical, TrySteps, ReadSteps, WriteSteps, RereadSteps, AbortSteps, CleanupSteps
<1>3. Absent # Verified
  BY DEF Absent, Verified
<1>4. LeaseHeld /\ LatePhase /\ LateAlone /\ VectorFenced /\ SnapshotFresh /\ NothingOwnedYet
  BY <1>1, <1>2
     DEF LeaseHeld, LatePhase, LateAlone, VectorFenced, SnapshotFresh, NothingOwnedYet
<1>5. CleanupsRetired /\ DeletesDead /\ PointsComplete
  BY <1>1, <1>3 DEF CleanupsRetired, DeletesDead, PointsComplete
<1> QED
  BY <1>4, <1>5, PointerInit DEF FenceInv

\* The invariant is inductive.
LEMMA FenceStep ==
    ASSUME Timing, FenceInv, [Next]_vars
    PROVE  FenceInv'
<1>1. PointerInv'
  BY PointerStep DEF FenceInv
<1> QED
  BY <1>1, LeaseHeldStep, LateStepInv, VectorFencedStep, NothingOwnedYetStep,
     CleanupsRetiredStep, DeletesDeadStep, PointsCompleteStep, SnapshotFreshStep DEF FenceInv

(***************************************************************************)
(* The theorems.                                                           *)
(***************************************************************************)
\* Whatever generation a reader finds active is published and has all its
\* points, as long as leases outlive their runs and vector requests settle.
THEOREM ActiveIsComplete ==
    ASSUME Timing
    PROVE  Spec => []ActiveComplete
<1>0. FenceInv /\ [Next]_vars => FenceInv'
  BY FenceStep
<1>1. FenceInv => ActiveComplete
  BY DEF FenceInv, PointerInv, ActivePublished, PointsComplete, ActiveComplete
<1> QED
  BY <1>0, <1>1, FenceInit, PTL DEF Spec

\* No run decides on a snapshot of the active generation that is out of date.
THEOREM SnapshotsAreFresh ==
    ASSUME Timing
    PROVE  Spec => []SnapshotFresh
<1>0. FenceInv /\ [Next]_vars => FenceInv'
  BY FenceStep
<1>1. FenceInv => SnapshotFresh
  BY DEF FenceInv
<1> QED
  BY <1>0, <1>1, FenceInit, PTL DEF Spec

LosesOnlyDead ==
    \A g \in Generation :
        points[g] \ points'[g] # {} =>
            /\ g # active
            /\ record[g] \notin {Staged, Verified}

\* Points only ever go from generations that are dead.
THEOREM OnlyDeadDeleted ==
    ASSUME Timing
    PROVE  Spec => DeletesOnlyDead
<1>0. FenceInv /\ [Next]_vars => FenceInv'
  BY FenceStep
<1>1. FenceInv /\ [Next]_vars => [LosesOnlyDead]_vars
  <2> SUFFICES ASSUME FenceInv, [Next]_vars, NEW g \in Generation,
                      points[g] \ points'[g] # {}
               PROVE  g # active /\ record[g] \notin {Staged, Verified}
    BY DEF LosesOnlyDead
  <2>1. PICK p : Performed(p) /\ Effect(p)
    BY StepEffect DEF FenceInv
  <2>2. Guarded(p)
    BY <2>1, Guards
  <2>3. p.op = "delete" /\ p.gen = g
    BY <2>1 DEF Effect
  <2> QED
    BY <2>2, <2>3 DEF Guarded, Dead
<1> QED
  BY <1>0, <1>1, FenceInit, PTL DEF Spec, DeletesOnlyDead, LosesOnlyDead

OneRunInside ==
    \A r, q \in Run : pc[r] \in Critical /\ pc[q] \in Critical => r = q

\* No two runs are between acquire and release: each lease outlives its run, and a
\* release or an acquire that arrives late frees or takes nobody else's.
THEOREM OneRunAtATime ==
    ASSUME Timing
    PROVE  Spec => []OneRunInside
<1>0. FenceInv /\ [Next]_vars => FenceInv'
  BY FenceStep
<1>1. FenceInv => OneRunInside
  BY DEF FenceInv, LeaseHeld, OneRunInside
<1> QED
  BY <1>0, <1>1, FenceInit, PTL DEF Spec

StaysRetired == \A g \in Generation : Retired(g) => Retired(g)'

\* A generation that was published and replaced is never served again, also by a
\* publication that arrives after its sender has lost the lease (_PUBLISH_SCRIPT).
THEOREM ReplacedForEver == Spec => [][StaysRetired]_vars
<1>1. PointerInv /\ [Next]_vars => [StaysRetired]_vars
  <2> SUFFICES ASSUME PointerInv, [Next]_vars, NEW g \in Generation, Retired(g)
               PROVE  Retired(g)'
    BY DEF StaysRetired
  <2>1. PICK q : Effect(q)
    BY StepEffect
  <2>2. record'[g] = Published /\ g # active'
    BY <2>1 DEF Effect
  <2> QED
    BY <2>2 DEF Retired
<1> QED
  BY <1>1, PointerInit, PointerStep, PTL DEF Spec
=============================================================================
