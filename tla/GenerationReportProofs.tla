------------------------ MODULE GenerationReportProofs ------------------------
(***************************************************************************)
(* What a run reports and what it leaves on file, under the two timing     *)
(* assumptions: superseded generations are filed until they are empty, a   *)
(* reported result is true, a retry starts from a clean slate, and the     *)
(* lifecycle implements CorpusPublication.                                 *)
(***************************************************************************)
EXTENDS GenerationFencingProofs

(***************************************************************************)
(* The inductive invariant.                                                *)
(***************************************************************************)
IndexExact == cleanupIndex = {p \in Pair : cleanup[p] = "PENDING"}

\* A record that says PUBLISHED is the record a publication writes.
PublishedWhole == \A g \in Generation : record[g].state = "PUBLISHED" => record[g] = Published

\* A superseded generation with points left is on file.
Filed ==
    \A g \in Generation :
        Retired(g) /\ points[g] # {} => \E new \in Generation : <<g, new>> \in cleanupIndex

\* Points never come back to a published generation: who upserts has staged it,
\* and an upsert in flight has no publication of its sender beside it.
UpsertsUnpublished ==
    /\ \A r \in Run : pc[r] \in {"embed", "upsert"} => record[gen[r]] = Staged
    /\ \A q \in late :
          q.op = "upsert" =>
              /\ record[q.gen] # Published
              /\ \A p \in late : p.run = q.run => p.op # "publish"

\* Who marks a cleanup has emptied the generation.
Emptied ==
    /\ \A r \in Run : pc[r] = "markCleaned" => points[Superseded(target[r])] = {}
    /\ \A q \in late :
          q.op = "cleaned" => q.old \in Generation /\ Retired(q.old) /\ points[q.old] = {}

\* What a retry has seen on its way to the embedding is still so.
RetryClean ==
    \A r \in Run : retry[r] =>
        /\ pc[r] # "record"
        /\ pc[r] \in {"pending", "recovered", "inspect", "stage", "embed"} => current[r] = None
        /\ pc[r] \in {"recovered", "inspect", "stage", "embed"} => cleanupIndex = {}
        /\ pc[r] \in {"stage", "embed"} => points[gen[r]] = {}

Finishing == CleanupSteps \cup {"release"}

\* Who has a result to report has published, and cleans up or releases; what it
\* does not count as left is done or still to do.
ReportsTrue ==
    /\ \A r \in Run : outcome[r] \in Success =>
          /\ record[gen[r]] = Published /\ pc[r] \in Finishing
          /\ ~left[r] =>
                /\ pc[r] \in {"deleteSuperseded", "markCleaned"} =>
                      cleanupIndex \subseteq todo[r] \cup {target[r]}
                /\ pc[r] = "release" => cleanupIndex = {}
    /\ \A q \in late : q.op = "publish" => outcome[q.run] \notin Success

ReportInv ==
    /\ FenceInv
    /\ IndexExact /\ PublishedWhole /\ Filed /\ UpsertsUnpublished /\ Emptied
    /\ RetryClean /\ ReportsTrue

(***************************************************************************)
(* What one step changes in the store.                                     *)
(***************************************************************************)
RecordOp == {"stage", "verify", "abort", "clean"}

Publishes(q) ==
    /\ q.op = "publish" /\ lease = q.run
    /\ record[q.gen] = Verified /\ active = q.old
    /\ Publication(q) /\ UNCHANGED points

Rewrites(q) ==
    /\ q.op \in RecordOp /\ lease = q.run
    /\ record[q.gen] # Published
    /\ \E new \in StageRecord :
          new.state # "PUBLISHED" /\ record' = [record EXCEPT ![q.gen] = new]
    /\ UNCHANGED <<active, indexed, cleanup, cleanupIndex, points>>

Unfiles(q) ==
    /\ q.op = "cleaned" /\ lease = q.run /\ q.old \in Generation
    /\ cleanup' = [cleanup EXCEPT ![<<q.old, q.gen>>] = "CLEANED"]
    /\ cleanupIndex' = cleanupIndex \ {<<q.old, q.gen>>}
    /\ UNCHANGED <<record, active, indexed, points>>

Fills(q) ==
    /\ q.op = "upsert"
    /\ points' = [points EXCEPT ![q.gen] = @ \cup {q.batch}]
    /\ UNCHANGED <<record, active, indexed, cleanup, cleanupIndex>>

Empties(q) ==
    /\ q.op = "delete"
    /\ points' = [points EXCEPT ![q.gen] = {}]
    /\ UNCHANGED <<record, active, indexed, cleanup, cleanupIndex>>

Forgets ==
    \/ \E g \in Generation : CleanedMarkerExpires(g)
    \/ \E p \in Pair : CleanupMarkerExpires(p)

Nothing == UNCHANGED <<record, active, indexed, cleanup, cleanupIndex, points>>

Change(q) ==
    \/ Nothing \/ Forgets
    \/ /\ q \in Request
       /\ Publishes(q) \/ Rewrites(q) \/ Unfiles(q) \/ Fills(q) \/ Empties(q)

\* One request makes one of these changes, or none.
LEMMA ExecuteChange ==
    ASSUME StoreTypeOK, NEW q \in Request, Harmless(q), NEW ok \in BOOLEAN, Execute(q, ok)
    PROVE  Change(q)
<1>1. q.gen \in Generation /\ q.stage \in StageRecord /\ q.old \in Generation \cup {None}
  BY DEF Request, AnyRequest
<1>2. ASSUME NEW old, Published \notin old, NEW new \in StageRecord, new.state # "PUBLISHED",
             RecordScript(q, ok, old, new), q.op \in RecordOp
      PROVE  Change(q)
  <2>1. CASE ok
    BY <1>2, <2>1 DEF RecordScript, Owned, Rewrites, Change
  <2>2. CASE ~ok
    BY <1>2, <2>2 DEF RecordScript, Nothing, Change
  <2> QED
    BY <2>1, <2>2
<1>3. CASE q.op = "stage" /\ StageScript(q, ok)
  BY <1>2, <1>3, RecordStates, RecordsTyped DEF StageScript, RecordOp
<1>4. CASE q.op = "verify" /\ VerifyScript(q, ok)
  <2>1. Published \notin {Staged}
    BY RecordStates
  <2> QED
    BY <1>2, <1>4, <2>1, RecordStates, RecordsTyped DEF VerifyScript, RecordOp
<1>5. CASE \/ q.op = "abort" /\ AbortScript(q, ok)
           \/ q.op = "clean" /\ CleanScript(q, ok)
  <2>1. Published \notin {q.stage}
    BY RecordStates DEF Harmless
  <2>2. /\ WithState(q.stage, "ABORTED") \in StageRecord
        /\ WithState(q.stage, "ABORTED").state # "PUBLISHED"
        /\ WithState(q.stage, "CLEANED") \in StageRecord
        /\ WithState(q.stage, "CLEANED").state # "PUBLISHED"
    BY <1>1, RecordStates, RecordsTyped
  <2>3. "abort" \in RecordOp /\ "clean" \in RecordOp
    BY DEF RecordOp
  <2>4. CASE q.op = "abort" /\ AbortScript(q, ok)
    BY <1>2, <2>1, <2>2, <2>3, <2>4 DEF AbortScript
  <2>5. CASE q.op = "clean" /\ CleanScript(q, ok)
    BY <1>2, <2>1, <2>2, <2>3, <2>5 DEF CleanScript
  <2> QED
    BY <1>5, <2>4, <2>5
<1>6. CASE q.op = "publish" /\ PublishScript(q, ok)
  <2>1. CASE ok
    BY <1>6, <2>1 DEF PublishScript, Owned, Publishes, Change
  <2>2. CASE ~ok
    BY <1>6, <2>2 DEF PublishScript, Nothing, Change
  <2> QED
    BY <2>1, <2>2
<1>7. CASE q.op = "cleaned" /\ CleanSupersededScript(q, ok)
  <2>1. CASE ok
    BY <1>1, <1>7, <2>1 DEF CleanSupersededScript, Owned, Unfiles, Change
  <2>2. CASE ~ok
    BY <1>7, <2>2 DEF CleanSupersededScript, Nothing, Change
  <2> QED
    BY <2>1, <2>2
<1>8. CASE AcquireScript(q, ok) \/ ReleaseScript(q, ok)
  BY <1>8 DEF AcquireScript, ReleaseScript, Nothing, Change
<1>9. CASE q.op = "upsert" /\ Upsert(q, ok)
  BY <1>9 DEF Upsert, Fills, Change
<1>10. CASE q.op = "delete" /\ DeleteGeneration(q, ok)
  BY <1>10 DEF DeleteGeneration, Empties, Change
<1> QED
  BY <1>3, <1>4, <1>5, <1>6, <1>7, <1>8, <1>9, <1>10, ZenonT(60) DEF Execute

\* Every step makes the change of a performed request.
LEMMA StepChange ==
    ASSUME PointerInv, [Next]_vars
    PROVE  \E q : Performed(q) /\ Change(q)
<1>1. TypeInv /\ OwnInv /\ StoreTypeOK
  BY DEF PointerInv, TypeInv, LifecycleTypeOK
<1> DEFINE nothing == Send("read", None, None, Absent, None, 0)
<1>2. Performed(nothing)
  BY DEF Performed, Send
<1> HIDE DEF nothing
<1>3. ASSUME Nothing \/ Forgets
      PROVE  \E q : Performed(q) /\ Change(q)
  BY <1>2, <1>3 DEF Change
<1>4. ASSUME NEW r \in Run, IngestStep(r)
      PROVE  \E q : Performed(q) /\ Change(q)
  <2>1. CASE UNCHANGED storeVars
    BY <1>3, <2>1 DEF storeVars, Nothing
  <2>2. CASE pc[r] \in Awaiting /\ \E ok \in BOOLEAN : Execute(RequestOf(r), ok)
    <3>1. RequestOf(r) \in Request /\ Harmless(RequestOf(r))
      BY <1>1, <2>2, RequestTyped, RequestHarmless DEF OwnInv
    <3>2. Change(RequestOf(r))
      BY <1>1, <2>2, <3>1, ExecuteChange
    <3>3. Performed(RequestOf(r))
      <4>1. CASE pc[r] \in Critical
        BY <1>4, <4>1 DEF Performed
      <4>2. CASE pc[r] = "save"
        BY <4>2, RequestAt DEF Performed, Send
      <4> QED
        BY <2>2, <4>1, <4>2 DEF Awaiting
    <3> QED
      BY <3>2, <3>3
  <2> QED
    BY <1>4, <2>1, <2>2, IngestStepRequest
<1>5. ASSUME NEW r \in Run, NEW g \in Generation, NEW failed \in BOOLEAN,
             StartIngest(r, g, failed)
      PROVE  \E q : Performed(q) /\ Change(q)
  <2>1. PICK ok \in BOOLEAN : Execute(Send("acquire", r, g, Absent, None, 0), ok)
    BY <1>5 DEF StartIngest
  <2>2. AcquireScript(Send("acquire", r, g, Absent, None, 0), ok)
    BY <2>1 DEF Execute, Send
  <2> QED
    BY <1>3, <2>2 DEF AcquireScript, Nothing
<1>6. ASSUME NEW r \in Run, \/ SaveCheckpoint(r) \/ LeaseExpires(r)
                            \/ \E g \in Generation : StartUnanswered(r, g)
      PROVE  \E q : Performed(q) /\ Change(q)
  BY <1>3, <1>6 DEF SaveCheckpoint, Reads, LeaseExpires, StartUnanswered, storeVars, Nothing
<1>7. CASE MarkerExpires
  BY <1>3, <1>7 DEF MarkerExpires, Forgets
<1>8. ASSUME NEW q \in late, ArrivesLate(q)
      PROVE  \E p : Performed(p) /\ Change(p)
  <2>1. q \in Request /\ Harmless(q) /\ \E ok \in BOOLEAN : Execute(q, ok)
    BY <1>1, <1>8 DEF ArrivesLate, OwnInv, TypeInv, LifecycleTypeOK
  <2> QED
    BY <1>1, <2>1, ExecuteChange DEF Performed
<1>9. CASE Terminated \/ UNCHANGED vars
  BY <1>3, <1>9 DEF Terminated, vars, storeVars, Nothing
<1> QED
  BY <1>4, <1>5, <1>6, <1>7, <1>8, <1>9 DEF Next, RunStep

(***************************************************************************)
(* What one step of a run does to its result and its count.                *)
(***************************************************************************)
\* What is on file is to be done yet.
Covered(r) ==
    /\ pc[r] \in {"deleteSuperseded", "markCleaned"} =>
          cleanupIndex \subseteq todo[r] \cup {target[r]}
    /\ pc[r] = "release" => cleanupIndex = {}

\* The others are left alone.
Apart(r) ==
    \A x \in Run : x # r =>
        retry'[x] = retry[x] /\ left'[x] = left[x] /\ outcome'[x] = outcome[x]

\* How the steps on the way to an embedding and to a mark are reached.
Reaches(r) ==
    /\ pc'[r] = "embed" => pc[r] = "stage" /\ record'[gen[r]] = Staged
    /\ pc'[r] = "upsert" => pc[r] \in {"embed", "upsert"}
    /\ pc'[r] = "markCleaned" =>
          /\ pc[r] = "deleteSuperseded" /\ target'[r] = target[r]
          /\ points'[Superseded(target[r])] = {}

\* What a retry insists on.
Insists(r) ==
    retry'[r] =>
        /\ retry[r] /\ pc'[r] # "record"
        /\ pc'[r] = "pending" => pc[r] = "pointer" /\ current'[r] = None
        /\ pc'[r] = "recovered" => pc[r] = "pending" /\ cleanupIndex = {}
        /\ pc'[r] = "inspect" => pc[r] = "recovered"
        /\ pc'[r] = "stage" =>
              pc[r] = "record" \/ (pc[r] = "inspect" /\ points[gen[r]] = {})

\* How a result comes about, and what becomes of it.
Reports(r) ==
    /\ outcome'[r] \in Success =>
          \/ outcome'[r] = outcome[r]
          \/ /\ pc[r] \in TrySteps /\ pc'[r] = "listCleanups" /\ UNCHANGED late
             /\ record'[gen[r]].state = "PUBLISHED"
    /\ pc[r] \in Finishing /\ outcome'[r] \in Success =>
          /\ pc'[r] \in Finishing
          /\ (~left[r] => Covered(r)) => (~left'[r] => Covered(r)')

Report(r) == Apart(r) /\ Reaches(r) /\ Insists(r) /\ Reports(r)

\* A run that ends or returns has no result any more.
LEMMA ForgetReport ==
    ASSUME LocalTypeOK, NEW r \in Run, Forget(r)
    PROVE  Apart(r) /\ outcome'[r] = "none" /\ ~retry'[r]
BY DEF LocalTypeOK, Forget, Apart

\* The next cleanup, or none.
LEMMA TryReport ==
    ASSUME LocalTypeOK, NEW r \in Run, NEW pairs, TryCleanup(r, pairs)
    PROVE  /\ pc'[r] \in {"release", "deleteSuperseded"}
           /\ pc'[r] = "release" => pairs = {}
           /\ pc'[r] = "deleteSuperseded" => pairs \subseteq todo'[r] \cup {target'[r]}
BY DEF LocalTypeOK, TryCleanup, Goto

\* An await that raises makes no result, and counts a failed cleanup.
LEMMA RaiseReport ==
    ASSUME LocalTypeOK, NEW r \in Run, Raise(r)
    PROVE  Report(r)
<1> USE DEF Report, Reaches, Insists, Reports
<1>1. "release" \in Finishing /\ "deleteSuperseded" \in Finishing
  BY DEF Finishing, CleanupSteps
<1>2. CASE RaiseInTry(r) \/ RaiseInAbort(r)
  <2>1. /\ pc[r] \notin Finishing
        /\ pc'[r] \in {"abort", "release"} /\ UNCHANGED <<retry, left, outcome>>
    BY <1>2 DEF RaiseInTry, RaiseInAbort, Goto, LocalTypeOK, Finishing, CleanupSteps, TrySteps,
                ReadSteps, WriteSteps, RereadSteps, AbortSteps
  <2> QED
    BY <2>1 DEF Apart
<1>3. CASE RaiseInCleanup(r)
  <2>1. /\ pc'[r] \in {"release", "deleteSuperseded"} /\ left'[r]
        /\ \A x \in Run : x # r => left'[x] = left[x]
        /\ UNCHANGED <<retry, outcome>>
    BY <1>3, TryReport DEF RaiseInCleanup, FinishCleanup, Goto, LocalTypeOK
  <2> QED
    BY <1>1, <2>1 DEF Apart
<1>4. CASE RaiseAtEnd(r)
  <2>1. Forget(r) /\ pc'[r] \in {"save", "done"}
    BY <1>4 DEF RaiseAtEnd, Returns, Ends, Goto, LocalTypeOK
  <2> QED
    BY <2>1, ForgetReport DEF Success
<1> QED
  BY <1>2, <1>3, <1>4 DEF Raise

\* Steps on the way to a publication.
LEMMA TryStepReport ==
    ASSUME TypeInv, NEW r \in Run,
           \/ ReadPointer(r) \/ ReadRecord(r) \/ RetryPreflight(r) \/ StageGeneration(r)
           \/ EmbedDocuments(r) \/ UpsertBatch(r) \/ VerifyBatch(r)
           \/ MarkGenerationVerified(r) \/ PublishGeneration(r) \/ RereadActive(r)
    PROVE  Report(r)
<1>1. LocalTypeOK /\ StoreTypeOK
  BY DEF TypeInv, LifecycleTypeOK
<1>2. gen[r] \in Generation \/ pc[r] \notin Awaiting
  BY DEF TypeInv, LocalInv
<1>3. pc[r] \in TrySteps => pc[r] \notin Finishing /\ pc[r] \in Awaiting
  BY DEF TrySteps, ReadSteps, WriteSteps, RereadSteps, Finishing, CleanupSteps, Awaiting, Critical
<1>4. /\ {"pointer", "record", "pending", "recovered", "inspect", "stage", "embed", "upsert",
          "verify", "markVerified", "publish", "rereadPointer", "rereadRecord"} \subseteq TrySteps
  BY DEF TrySteps, ReadSteps, WriteSteps, RereadSteps
<1> USE DEF Report, Goto
<1>5. ASSUME Raise(r)
      PROVE  Report(r)
  BY <1>1, <1>5, RaiseReport
<1>6. CASE ReadPointer(r)
  BY <1>1, <1>3, <1>4, <1>6
  DEF ReadPointer, Reads, storeVars, LocalTypeOK, Apart, Reaches, Insists, Reports
<1>7. CASE ReadRecord(r)
  BY <1>1, <1>3, <1>4, <1>7
  DEF ReadRecord, Reads, storeVars, SetOutcome, LocalTypeOK, Apart, Reaches, Insists, Reports
<1>8. CASE RetryPreflight(r)
  BY <1>1, <1>3, <1>4, <1>8
  DEF RetryPreflight, Reads, storeVars, LocalTypeOK, Apart, Reaches, Insists, Reports
<1>9. CASE StageGeneration(r)
  <2>1. CASE Answered(r, "stage", TRUE) /\ Goto(r, "embed") /\ UNCHANGED <<retry, left, outcome>>
    <3>1. StageScript(Send("stage", r, gen[r], Staged, None, 0), TRUE)
      <4>1. RequestOf(r) = Send("stage", r, gen[r], Staged, None, 0) /\ Execute(RequestOf(r), TRUE)
        BY <2>1, RequestAt DEF Answered
      <4>2. Execute(Send("stage", r, gen[r], Staged, None, 0), TRUE)
        BY <4>1
      <4> QED
        BY <4>2 DEF Execute, Send
    <3>2. record'[gen[r]] = Staged
      BY <1>1, <1>2, <1>3, <1>4, <2>1, <3>1
      DEF StageScript, RecordScript, Send, StoreTypeOK, Answered
    <3> QED
      BY <1>1, <1>3, <1>4, <2>1, <3>2
      DEF Answered, LocalTypeOK, Apart, Reaches, Insists, Reports
  <2>2. CASE RaiseInTry(r)
    BY <1>5, <2>2 DEF Raise
  <2> QED
    BY <1>9, <2>1, <2>2 DEF StageGeneration
<1>10. CASE EmbedDocuments(r)
  BY <1>1, <1>3, <1>4, <1>10
  DEF EmbedDocuments, Reads, LocalTypeOK, Apart, Reaches, Insists, Reports
<1>11. CASE UpsertBatch(r)
  BY <1>1, <1>3, <1>4, <1>11
  DEF UpsertBatch, NextBatch, Answered, LocalTypeOK, Apart, Reaches, Insists, Reports
<1>12. CASE VerifyBatch(r)
  BY <1>1, <1>3, <1>4, <1>12
  DEF VerifyBatch, NextBatch, Reads, LocalTypeOK, Apart, Reaches, Insists, Reports
<1>13. CASE MarkGenerationVerified(r)
  <2>1. CASE /\ Answered(r, "markVerified", TRUE) /\ Goto(r, "publish")
             /\ UNCHANGED <<retry, left, outcome>>
    BY <1>1, <1>3, <1>4, <2>1 DEF Answered, LocalTypeOK, Apart, Reaches, Insists, Reports
  <2>2. CASE RaiseInTry(r)
    BY <1>5, <2>2 DEF Raise
  <2> QED
    BY <1>13, <2>1, <2>2 DEF MarkGenerationVerified
<1>14. CASE PublishGeneration(r)
  <2>1. CASE /\ Answered(r, "publish", TRUE) /\ Goto(r, "listCleanups")
             /\ SetOutcome(r, PublicationOutcome(r)) /\ UNCHANGED <<retry, left>>
    <3>1. PublishScript(Send("publish", r, gen[r], Verified, current[r], 0), TRUE)
      <4>1. /\ RequestOf(r) = Send("publish", r, gen[r], Verified, current[r], 0)
            /\ Execute(RequestOf(r), TRUE)
        BY <2>1, RequestAt DEF Answered
      <4>2. Execute(Send("publish", r, gen[r], Verified, current[r], 0), TRUE)
        BY <4>1
      <4> QED
        BY <4>2 DEF Execute, Send
    <3>2. record'[gen[r]] = Published
      BY <1>1, <1>2, <1>3, <1>4, <2>1, <3>1
      DEF PublishScript, Publication, Send, StoreTypeOK, Answered
    <3>3. record'[gen[r]].state = "PUBLISHED"
      BY <3>2, RecordStates
    <3> QED
      BY <1>1, <1>3, <1>4, <2>1, <3>3
      DEF Answered, SetOutcome, LocalTypeOK, Apart, Reaches, Insists, Reports
  <2>2. CASE /\ Answered(r, "publish", FALSE) /\ Goto(r, "rereadPointer")
             /\ UNCHANGED <<retry, left, outcome>>
    BY <1>1, <1>3, <1>4, <2>2 DEF Answered, LocalTypeOK, Apart, Reaches, Insists, Reports
  <2> QED
    BY <1>14, <2>1, <2>2 DEF PublishGeneration
<1>15. CASE RereadActive(r)
  BY <1>1, <1>3, <1>4, <1>15
  DEF RereadActive, Reads, storeVars, SetOutcome, LocalTypeOK, Apart, Reaches, Insists, Reports
<1> QED
  BY <1>6, <1>7, <1>8, <1>9, <1>10, <1>11, <1>12, <1>13, <1>14, <1>15

\* Steps after it: the abort, the cleanups, the release.
LEMMA EndStepReport ==
    ASSUME TypeInv, NEW r \in Run,
           \/ AbortGeneration(r) \/ AbortDelete(r) \/ CleanGeneration(r)
           \/ ListPendingCleanups(r) \/ DeleteSuperseded(r) \/ MarkSupersededCleaned(r)
           \/ ReleaseLease(r)
    PROVE  Report(r)
<1>1. LocalTypeOK /\ StoreTypeOK
  BY DEF TypeInv, LifecycleTypeOK
<1>2. pc[r] \in {"deleteSuperseded", "markCleaned"} =>
          target[r] \in Pair /\ Superseded(target[r]) \in Generation
  BY DEF TypeInv, LocalInv, Pair, Superseded
<1>3. /\ {"abort", "abortDelete", "clean"} \cap Finishing = {}
      /\ Finishing = {"listCleanups", "deleteSuperseded", "markCleaned", "release"}
  BY DEF Finishing, CleanupSteps
<1> USE DEF Report, Goto
<1>4. CASE AbortGeneration(r) \/ AbortDelete(r) \/ CleanGeneration(r)
  <2>1. /\ pc[r] \in {"abort", "abortDelete", "clean"}
        /\ pc'[r] \in {"abortDelete", "clean", "release"} /\ UNCHANGED <<retry, left, outcome>>
    BY <1>1, <1>4
    DEF AbortGeneration, AbortDelete, CleanGeneration, Answered, LocalTypeOK
  <2> QED
    BY <1>3, <2>1 DEF Apart, Reaches, Insists, Reports
<1>5. CASE ListPendingCleanups(r)
  <2>1. /\ TryCleanup(r, cleanupIndex) /\ UNCHANGED cleanupIndex
        /\ UNCHANGED <<retry, left, outcome>>
    BY <1>5 DEF ListPendingCleanups, Reads, storeVars
  <2> QED
    BY <1>1, <1>3, <2>1, TryReport DEF Apart, Reaches, Insists, Reports, Covered
<1>6. CASE DeleteSuperseded(r)
  <2>1. /\ pc[r] = "deleteSuperseded" /\ pc'[r] = "markCleaned"
        /\ UNCHANGED <<retry, left, outcome, todo, target>>
    BY <1>1, <1>6 DEF DeleteSuperseded, Answered, LocalTypeOK
  <2>2. DeleteGeneration(Send("delete", r, target[r][1], Absent, None, 0), TRUE)
    <3>1. /\ RequestOf(r) = Send("delete", r, target[r][1], Absent, None, 0)
          /\ Execute(RequestOf(r), TRUE)
      BY <1>6, RequestAt DEF DeleteSuperseded, Answered
    <3>2. Execute(Send("delete", r, target[r][1], Absent, None, 0), TRUE)
      BY <3>1
    <3> QED
      BY <3>2 DEF Execute, Send
  <2>3. points'[Superseded(target[r])] = {} /\ UNCHANGED cleanupIndex
    BY <1>1, <1>2, <2>1, <2>2 DEF DeleteGeneration, Send, Superseded, StoreTypeOK
  <2> QED
    BY <1>3, <2>1, <2>3 DEF Apart, Reaches, Insists, Reports, Covered
<1>7. CASE MarkSupersededCleaned(r)
  <2>1. PICK ok \in BOOLEAN : Answered(r, "markCleaned", ok) /\ FinishCleanup(r, ~ok)
    BY <1>7 DEF MarkSupersededCleaned
  <2> DEFINE q == Send("cleaned", r, target[r][2], Absent, target[r][1], 0)
  <2>2. CleanSupersededScript(q, ok)
    <3>1. RequestOf(r) = q /\ Execute(RequestOf(r), ok)
      BY <2>1, RequestAt DEF Answered
    <3>2. Execute(q, ok)
      BY <3>1
    <3> QED
      BY <3>2 DEF Execute, Send
  <2>3. ok => cleanupIndex' = cleanupIndex \ {target[r]}
    <3>1. target[r] = <<target[r][1], target[r][2]>>
      BY <1>2, <2>1 DEF Pair, Answered
    <3>2. q.old = target[r][1] /\ q.gen = target[r][2]
      BY DEF Send
    <3>3. ok => cleanupIndex' = cleanupIndex \ {<<q.old, q.gen>>}
      BY <2>2 DEF CleanSupersededScript
    <3> HIDE DEF q
    <3> QED
      BY <3>1, <3>2, <3>3
  <2>4. /\ pc[r] = "markCleaned" /\ TryCleanup(r, todo[r]) /\ UNCHANGED <<retry, outcome>>
        /\ left' = [left EXCEPT ![r] = @ \/ ~ok]
    BY <2>1 DEF Answered, FinishCleanup
  <2>5. /\ \A x \in Run : x # r => left'[x] = left[x]
        /\ ~left'[r] => ok /\ ~left[r]
    BY <1>1, <2>4 DEF LocalTypeOK
  <2> QED
    BY <1>1, <1>3, <2>3, <2>4, <2>5, TryReport DEF Apart, Reaches, Insists, Reports, Covered
<1>8. CASE ReleaseLease(r)
  <2>1. Forget(r) /\ pc'[r] = "save"
    BY <1>1, <1>8 DEF ReleaseLease, Returns, Answered, LocalTypeOK
  <2> QED
    BY <1>1, <2>1, ForgetReport DEF Reaches, Insists, Reports, Success
<1> QED
  BY <1>4, <1>5, <1>6, <1>7, <1>8

\* Every step of a run.
LEMMA StepReport ==
    ASSUME TypeInv, NEW r \in Run, IngestStep(r) \/ SaveCheckpoint(r)
    PROVE  Report(r)
<1>1. LocalTypeOK
  BY DEF TypeInv, LifecycleTypeOK
<1>2. CASE RequestFails(r)
  BY <1>1, <1>2, RaiseReport DEF RequestFails
<1>3. CASE Halt(r) \/ SaveCheckpoint(r)
  <2>1. Forget(r) /\ pc'[r] = "done"
    BY <1>1, <1>3 DEF Halt, SaveCheckpoint, Ends, Goto, LocalTypeOK
  <2> QED
    BY <1>1, <2>1, ForgetReport DEF Report, Reaches, Insists, Reports, Success
<1> QED
  BY <1>2, <1>3, TryStepReport, EndStepReport DEF IngestStep

(***************************************************************************)
(* What a change leaves as it was.                                         *)
(***************************************************************************)
LEMMA ChangeEffect ==
    ASSUME StoreTypeOK, NEW q, Change(q), NEW g \in Generation
    PROVE  /\ record[g] = Published => record'[g] = Published
           /\ record'[g] = Published =>
                 \/ record[g] = Published
                 \/ q.op = "publish" /\ lease = q.run /\ q.gen = g
           /\ record[g] = Staged =>
                 record'[g] = Staged \/ (lease = q.run /\ q.op \in RecordOp \cup {"publish"})
           /\ points'[g] \subseteq points[g] \/ (q.op = "upsert" /\ q.gen = g)
           /\ cleanupIndex' \subseteq cleanupIndex \/ (q.op = "publish" /\ lease = q.run)
<1> USE DEF StoreTypeOK
<1>1. /\ Published.state = "PUBLISHED" /\ Staged.state = "STAGED" /\ Absent.state = "ABSENT"
      /\ Published # Verified /\ Staged # Verified
  BY RecordStates
<1>2. CASE Nothing
  BY <1>2 DEF Nothing
<1>3. CASE Forgets
  BY <1>1, <1>3 DEF Forgets, CleanedMarkerExpires, CleanupMarkerExpires
<1>4. ASSUME q \in Request
      PROVE  q.gen \in Generation
  BY <1>4 DEF Request, AnyRequest
<1>5. CASE q \in Request /\ Publishes(q)
  <2>1. record' = [record EXCEPT ![q.gen] = Published] /\ UNCHANGED points
    BY <1>5 DEF Publishes, Publication
  <2> QED
    BY <1>1, <1>4, <1>5, <2>1 DEF Publishes
<1>6. CASE q \in Request /\ Rewrites(q)
  BY <1>1, <1>4, <1>6 DEF Rewrites
<1>7. CASE q \in Request /\ Unfiles(q)
  BY <1>7 DEF Unfiles
<1>8. CASE q \in Request /\ (Fills(q) \/ Empties(q))
  BY <1>4, <1>8 DEF Fills, Empties
<1> QED
  BY <1>2, <1>3, <1>5, <1>6, <1>7, <1>8 DEF Change

\* The index and the records of the cleanups change together.
LEMMA IndexExactStep ==
    ASSUME ReportInv, [Next]_vars PROVE IndexExact'
<1>1. StoreTypeOK /\ IndexExact /\ PointerInv
  BY DEF ReportInv, FenceInv, PointerInv, TypeInv, LifecycleTypeOK
<1>2. PICK q : Change(q)
  BY <1>1, StepChange
<1> USE DEF StoreTypeOK, IndexExact
<1>3. CASE Nothing
  BY <1>1, <1>3 DEF Nothing
<1>4. CASE Forgets
  BY <1>1, <1>4 DEF Forgets, CleanedMarkerExpires, CleanupMarkerExpires
<1>5. CASE q \in Request /\ Publishes(q)
  <2>1. q.gen \in Generation /\ q.old \in Generation \cup {None}
    BY <1>5 DEF Request, AnyRequest
  <2>2. q.old # None => <<q.old, q.gen>> \in Pair
    BY <2>1 DEF Pair
  <2> QED
    BY <1>1, <1>5, <2>2 DEF Publishes, Publication
<1>6. CASE q \in Request /\ Unfiles(q)
  BY <1>1, <1>6 DEF Unfiles
<1>7. CASE q \in Request /\ (Rewrites(q) \/ Fills(q) \/ Empties(q))
  BY <1>1, <1>7 DEF Rewrites, Fills, Empties
<1> QED
  BY <1>2, <1>3, <1>4, <1>5, <1>6, <1>7 DEF Change

LEMMA PublishedWholeStep ==
    ASSUME ReportInv, [Next]_vars PROVE PublishedWhole'
<1>1. StoreTypeOK /\ PublishedWhole /\ PointerInv
  BY DEF ReportInv, FenceInv, PointerInv, TypeInv, LifecycleTypeOK
<1>2. PICK q : Change(q)
  BY <1>1, StepChange
<1> USE DEF StoreTypeOK, PublishedWhole
<1>3. CASE Nothing
  BY <1>1, <1>3 DEF Nothing
<1>4. CASE Forgets
  BY <1>1, <1>4, RecordStates DEF Forgets, CleanedMarkerExpires, CleanupMarkerExpires
<1>5. CASE q \in Request /\ Publishes(q)
  BY <1>1, <1>5 DEF Publishes, Publication
<1>6. CASE q \in Request /\ Rewrites(q)
  BY <1>1, <1>6 DEF Rewrites
<1>7. CASE q \in Request /\ (Unfiles(q) \/ Fills(q) \/ Empties(q))
  BY <1>1, <1>7 DEF Unfiles, Fills, Empties
<1> QED
  BY <1>2, <1>3, <1>4, <1>5, <1>6, <1>7 DEF Change

(***************************************************************************)
(* Who can have sent the request that is performed.                        *)
(***************************************************************************)
LEMMA RequestKinds ==
    ASSUME NEW r \in Run
    PROVE  /\ RequestOf(r).op = "upsert" => pc[r] = "upsert" /\ RequestOf(r).gen = gen[r]
           /\ RequestOf(r).op = "cleaned" =>
                 pc[r] = "markCleaned" /\ RequestOf(r).old = target[r][1]
           /\ RequestOf(r).op \in RecordOp => pc[r] \in {"stage", "markVerified", "abort", "clean"}
<1>1. \A op, g, stage, old, batch : /\ Send(op, r, g, stage, old, batch).op = op
                                    /\ Send(op, r, g, stage, old, batch).old = old
                                    /\ Send(op, r, g, stage, old, batch).gen = g
  BY DEF Send
<1> QED
  BY <1>1, RequestAt DEF RecordOp

\* While a run is on its way to a publication, what takes effect under the lease is
\* its own request.
LEMMA OwnWhileTrying ==
    ASSUME FenceInv, NEW x \in Run, pc[x] \in TrySteps,
           NEW q, Performed(q), lease = q.run, q.op \notin {"acquire", "read"}
    PROVE  q = RequestOf(x) /\ IngestStep(x)
<1>1. lease = x
  BY DEF FenceInv, LeaseHeld, Critical
<1>2. q \notin late
  BY <1>1 DEF FenceInv, LatePhase
<1>3. PICK r \in Run : q = RequestOf(r) /\ IngestStep(r)
  BY <1>2 DEF Performed
<1>4. r = x
  BY <1>1, <1>3, RequestFields
<1> QED
  BY <1>3, <1>4

\* Nor does an upsert of another run arrive.
LEMMA OwnUpsertWhileTrying ==
    ASSUME FenceInv, NEW x \in Run, pc[x] \in TrySteps, NEW q, Performed(q), q.op = "upsert"
    PROVE  q = RequestOf(x) /\ pc[x] = "upsert"
<1>1. pc[x] \in Critical
  BY DEF Critical
<1>2. q \notin late
  BY <1>1 DEF FenceInv, VectorFenced, VectorOp, LatePhase
<1>3. PICK r \in Run : pc[r] \in Critical /\ q = RequestOf(r)
  BY <1>2 DEF Performed
<1>4. r = x
  BY <1>1, <1>3 DEF FenceInv, LeaseHeld
<1> QED
  BY <1>3, <1>4, RequestKinds

\* An upsert never finds its generation published.
LEMMA UpsertGuard ==
    ASSUME FenceInv, UpsertsUnpublished, NEW q, Performed(q), q.op = "upsert"
    PROVE  record[q.gen] # Published
<1>1. CASE q \in late
  BY <1>1 DEF UpsertsUnpublished
<1>2. CASE \E r \in Run : q = RequestOf(r)
  BY <1>2, RequestKinds, RecordStates DEF UpsertsUnpublished
<1> QED
  BY <1>1, <1>2 DEF Performed

\* A cleanup is marked when its generation is empty.
LEMMA MarkGuard ==
    ASSUME Emptied, NEW q, Performed(q), q.op = "cleaned"
    PROVE  points[q.old] = {}
<1>1. CASE q \in late
  BY <1>1 DEF Emptied
<1>2. CASE \E r \in Run : q = RequestOf(r)
  BY <1>2, RequestKinds DEF Emptied, Superseded
<1> QED
  BY <1>1, <1>2 DEF Performed

\* Nothing is filed while a run is about to report.
LEMMA NothingFiled ==
    ASSUME ReportInv, NEW x \in Run, outcome[x] \in Success, NEW q, Performed(q)
    PROVE  ~(q.op = "publish" /\ lease = q.run)
<1> SUFFICES ASSUME q.op = "publish", lease = q.run PROVE FALSE
  OBVIOUS
<1>1. pc[x] \in Finishing /\ pc[x] \in Critical /\ pc[x] # "publish"
  BY DEF ReportInv, ReportsTrue, Finishing, Critical, CleanupSteps
<1>2. q.run = x
  BY <1>1 DEF ReportInv, FenceInv, LeaseHeld
<1>3. q \notin late
  BY <1>2 DEF ReportInv, ReportsTrue
<1>4. PICK r \in Run : q = RequestOf(r)
  BY <1>3 DEF Performed
<1> QED
  BY <1>1, <1>2, <1>4, RequestFields

(***************************************************************************)
(* Every step preserves the invariant, conjunct by conjunct.               *)
(***************************************************************************)
\* What the proofs below need of the invariant's types.
LEMMA ReportTypes ==
    ASSUME ReportInv
    PROVE  /\ FenceInv /\ PointerInv /\ TypeInv /\ StoreTypeOK
           /\ \A x \in Run : pc[x] \in Awaiting => gen[x] \in Generation
           /\ \A x \in Run : pc[x] \in {"deleteSuperseded", "markCleaned"} =>
                 Superseded(target[x]) \in Generation
           /\ \A p \in late : p.run \in Run /\ p.gen \in Generation
           /\ TrySteps \subseteq Awaiting /\ Finishing \subseteq Awaiting
           /\ Staged # Published /\ Verified # Published
<1>1. FenceInv /\ PointerInv /\ TypeInv /\ StoreTypeOK
  BY DEF ReportInv, FenceInv, PointerInv, TypeInv, LifecycleTypeOK
<1>2. \A p \in late : p.run \in Run /\ p.gen \in Generation
  BY <1>1 DEF TypeInv, LifecycleTypeOK, Request, AnyRequest
<1>3. \A x \in Run : pc[x] \in {"deleteSuperseded", "markCleaned"} =>
         Superseded(target[x]) \in Generation
  BY <1>1 DEF TypeInv, LocalInv, Pair, Superseded
<1> QED
  BY <1>1, <1>2, <1>3
  DEF TypeInv, LocalInv, Awaiting, Critical, Finishing, Staged, Verified, Published

\* Starting a run says nothing of a result.
LEMMA StartReport ==
    ASSUME ReportInv, NEW r \in Run, NEW g \in Generation, NEW failed \in BOOLEAN,
           StartIngest(r, g, failed) \/ StartUnanswered(r, g)
    PROVE  /\ UNCHANGED <<left, outcome>>
           /\ \A x \in Run : x # r => retry'[x] = retry[x]
           /\ outcome[r] \notin Success
<1>1. retry \in [Run -> BOOLEAN]
  BY ReportTypes DEF TypeInv, LifecycleTypeOK, LocalTypeOK
<1>2. pc[r] = "idle" /\ "idle" \notin Finishing
  BY DEF StartIngest, StartUnanswered, CanStart, Finishing, CleanupSteps
<1> QED
  BY <1>1, <1>2 DEF StartIngest, StartUnanswered, ReportInv, ReportsTrue

LEMMA EnvironmentReport ==
    ASSUME Environment
    PROVE  UNCHANGED <<retry, left, outcome>>
BY DEF Environment, LeaseExpires, MarkerExpires, Terminated, ArrivesLate, vars, runVars, localVars

\* A superseded generation stays on file until it is empty.
LEMMA FiledStep ==
    ASSUME ReportInv, [Next]_vars PROVE Filed'
<1>1. /\ FenceInv /\ PointerInv /\ StoreTypeOK /\ Filed
      /\ UpsertsUnpublished /\ Emptied
  BY ReportTypes DEF ReportInv
<1>2. PICK q : Performed(q) /\ Change(q)
  BY <1>1, StepChange
<1>3. ASSUME NEW g \in Generation, record'[g] = Published, g # active', points'[g] # {}
      PROVE  \E new \in Generation : <<g, new>> \in cleanupIndex'
  <2> USE DEF StoreTypeOK
  <2>1. ASSUME record[g] = Published, g # active, points[g] # {}
        PROVE  \E new \in Generation : <<g, new>> \in cleanupIndex
    BY <1>1, <2>1 DEF Filed, Retired
  <2>2. CASE Nothing
    BY <1>3, <2>1, <2>2 DEF Nothing
  <2>3. CASE Forgets
    <3>1. record[g] = Published /\ UNCHANGED <<active, cleanupIndex, points>>
      BY <1>1, <1>3, <2>3, RecordStates
      DEF Forgets, CleanedMarkerExpires, CleanupMarkerExpires
    <3> QED
      BY <1>3, <2>1, <3>1
  <2>4. CASE q \in Request /\ Publishes(q)
    <3>1. /\ record' = [record EXCEPT ![q.gen] = Published] /\ active' = q.gen
          /\ UNCHANGED points /\ active = q.old /\ q.gen \in Generation
          /\ cleanupIndex \subseteq cleanupIndex'
          /\ q.old # None => <<q.old, q.gen>> \in cleanupIndex'
      BY <2>4 DEF Publishes, Publication, Request, AnyRequest
    <3>2. record[g] = Published /\ points[g] # {} /\ g # None
      BY <1>1, <1>3, <3>1, NoneAssumption
    <3> QED
      BY <2>1, <3>1, <3>2
  <2>5. CASE q \in Request /\ Rewrites(q)
    <3>1. record[g] = Published /\ UNCHANGED <<active, cleanupIndex, points>>
      BY <1>1, <1>3, <2>5, RecordStates DEF Rewrites
    <3> QED
      BY <1>3, <2>1, <3>1
  <2>6. CASE q \in Request /\ Unfiles(q)
    <3>1. points[q.old] = {} /\ UNCHANGED <<record, active, points>>
      BY <1>1, <1>2, <2>6, MarkGuard DEF Unfiles
    <3>2. PICK new \in Generation : <<g, new>> \in cleanupIndex
      BY <1>3, <2>1, <3>1
    <3>3. g # q.old
      BY <1>3, <3>1
    <3> QED
      BY <2>6, <3>2, <3>3 DEF Unfiles
  <2>7. CASE q \in Request /\ Fills(q)
    <3>1. record[q.gen] # Published
      BY <1>1, <1>2, <2>7, UpsertGuard DEF Fills
    <3>2. record[g] = Published /\ UNCHANGED <<active, cleanupIndex>> /\ points'[g] = points[g]
      BY <1>1, <1>3, <2>7, <3>1 DEF Fills
    <3> QED
      BY <1>3, <2>1, <3>2
  <2>8. CASE q \in Request /\ Empties(q)
    <3>1. /\ record[g] = Published /\ UNCHANGED <<active, cleanupIndex>>
          /\ points'[g] \subseteq points[g]
      BY <1>1, <1>3, <2>8 DEF Empties
    <3> QED
      BY <1>3, <2>1, <3>1
  <2> QED
    BY <1>2, <2>2, <2>3, <2>4, <2>5, <2>6, <2>7, <2>8 DEF Change
<1> QED
  BY <1>3 DEF Filed, Retired

\* What is staged stays so while its run embeds and upserts.
LEMMA StagedStays ==
    ASSUME ReportInv, [Next]_vars, NEW x \in Run, pc[x] \in {"embed", "upsert"}
    PROVE  record'[gen[x]] = Staged
<1>1. /\ FenceInv /\ PointerInv /\ StoreTypeOK /\ gen[x] \in Generation
      /\ pc[x] \in TrySteps /\ record[gen[x]] = Staged
  BY ReportTypes
  DEF ReportInv, UpsertsUnpublished, TrySteps, WriteSteps, Awaiting, Critical
<1>2. PICK q : Performed(q) /\ Change(q)
  BY <1>1, StepChange
<1>3. SUFFICES ASSUME lease = q.run, q.op \in RecordOp \cup {"publish"} PROVE FALSE
  BY <1>1, <1>2, ChangeEffect
<1>4. q = RequestOf(x)
  BY <1>1, <1>2, <1>3, OwnWhileTrying DEF RecordOp
<1> QED
  BY <1>3, <1>4, RequestKinds, RequestFields

\* No upsert meets a published generation.
LEMMA UpsertsUnpublishedStep ==
    ASSUME Timing, ReportInv, [Next]_vars PROVE UpsertsUnpublished'
<1>1. /\ FenceInv /\ PointerInv /\ TypeInv /\ StoreTypeOK /\ UpsertsUnpublished
      /\ \A p \in late : p.run \in Run /\ p.gen \in Generation
      /\ Staged # Published
      /\ {"publish", "upsert"} \subseteq TrySteps
  BY ReportTypes DEF ReportInv, TrySteps, WriteSteps
<1>2. PICK q : Performed(q) /\ Change(q)
  BY <1>1, StepChange
\* A request in flight.
<1>3. ASSUME NEW p \in late, p.op = "upsert"
      PROVE  record'[p.gen] # Published
  <2>1. SUFFICES ASSUME q.op = "publish", lease = q.run PROVE FALSE
    BY <1>1, <1>2, <1>3, ChangeEffect DEF UpsertsUnpublished
  <2>2. CASE q \in late
    <3>1. q.run = p.run
      BY <1>1, <1>3, <2>1, <2>2 DEF FenceInv, VectorFenced, VectorOp
    <3> QED
      BY <1>1, <1>3, <2>1, <2>2, <3>1 DEF UpsertsUnpublished
  <2>3. CASE \E r \in Run : pc[r] \in Critical /\ q = RequestOf(r)
    <3>1. PICK r \in Run : pc[r] \in Critical /\ q = RequestOf(r)
      BY <2>3
    <3>2. r = p.run /\ pc[r] = "publish"
      BY <1>3, <1>1, <2>1, <3>1, RequestFields DEF FenceInv, VectorFenced, VectorOp
    <3> QED
      BY <1>1, <1>3, <3>2 DEF FenceInv, LatePhase
  <2> QED
    BY <1>2, <2>1, <2>2, <2>3 DEF Performed
<1>4. ASSUME \A x \in Run : pc'[x] \in {"embed", "upsert"} => record'[gen'[x]] = Staged,
             late' \subseteq late
      PROVE  UpsertsUnpublished'
  BY <1>1, <1>3, <1>4 DEF UpsertsUnpublished
<1>5. ASSUME NEW r \in Run, IngestStep(r) \/ SaveCheckpoint(r)
      PROVE  UpsertsUnpublished'
  <2>1. Alone(r) /\ Advances(r) /\ LeavesBehind(r) /\ Reaches(r)
    BY <1>1, <1>5, IngestControl, StepReport DEF Report
  <2>2. ASSUME NEW x \in Run, pc'[x] \in {"embed", "upsert"}
        PROVE  record'[gen'[x]] = Staged
    <3>1. CASE x # r
      BY <2>1, <2>2, <3>1, StagedStays DEF Alone
    <3>2. CASE x = r
      BY <2>1, <2>2, <3>2, StagedStays DEF Advances, Reaches
    <3> QED
      BY <3>1, <3>2
  <2>3. CASE late' \subseteq late
    BY <1>4, <2>2, <2>3
  <2>4. CASE late' \subseteq late \cup {RequestOf(r)} /\ UNCHANGED storeVars
    <3>1. /\ RequestOf(r).run = r
          /\ RequestOf(r).op = "upsert" => pc[r] = "upsert" /\ RequestOf(r).gen = gen[r]
          /\ RequestOf(r).op = "publish" => pc[r] = "publish"
      BY RequestFields, RequestKinds
    <3>2. pc[r] \in {"upsert", "publish"} => \A p \in late : p.run # r
      BY <1>1 DEF FenceInv, LatePhase
    <3>3. pc[r] = "upsert" => record'[gen[r]] # Published
      BY <1>1, StagedStays
    <3>4. ASSUME NEW p \in late', p.op = "upsert"
          PROVE  record'[p.gen] # Published
      BY <1>3, <2>4, <3>1, <3>3, <3>4
    <3>5. ASSUME NEW p \in late', p.op = "upsert", NEW l \in late', l.run = p.run
          PROVE  l.op # "publish"
      BY <1>1, <2>4, <3>1, <3>2, <3>5 DEF UpsertsUnpublished
    <3> QED
      BY <2>2, <3>4, <3>5 DEF UpsertsUnpublished
  <2> QED
    BY <2>1, <2>3, <2>4 DEF LeavesBehind
<1>6. ASSUME NEW r \in Run, NEW g \in Generation, NEW failed \in BOOLEAN,
             StartIngest(r, g, failed) \/ StartUnanswered(r, g)
      PROVE  UpsertsUnpublished'
  <2> DEFINE n == Send("acquire", r, g, Absent, None, 0)
  <2>1. n.op = "acquire"
    BY DEF Send
  <2>2. /\ pc'[r] \in {"pointer", "save"} /\ late' \subseteq late \cup {n}
        /\ \A x \in Run : x # r => pc'[x] = pc[x] /\ gen'[x] = gen[x]
        /\ n.run = r /\ pc[r] = "idle"
    BY <1>1, <1>6, StartControl DEF Timing, Send
  <2> HIDE DEF n
  <2>3. \A x \in Run : pc'[x] \in {"embed", "upsert"} => record'[gen'[x]] = Staged
    BY <2>2, StagedStays
  <2> QED
    BY <1>1, <1>3, <2>1, <2>2, <2>3 DEF UpsertsUnpublished
<1>7. ASSUME Environment
      PROVE  UpsertsUnpublished'
  <2>1. UNCHANGED <<pc, gen>> /\ late' \subseteq late
    BY <1>1, <1>7, EnvironmentControl DEF Timing, Environment
  <2> QED
    BY <1>4, <2>1, StagedStays
<1> QED
  BY <1>5, <1>6, <1>7, StepKinds DEF Environment

\* A superseded generation that is empty stays empty.
LEMMA RetiredStaysEmpty ==
    ASSUME ReportInv, [Next]_vars, NEW g \in Generation, Retired(g), points[g] = {}
    PROVE  record'[g] = Published /\ g # active' /\ points'[g] = {}
<1>1. /\ FenceInv /\ PointerInv /\ StoreTypeOK /\ UpsertsUnpublished
  BY ReportTypes DEF ReportInv
<1>2. PICK q : Performed(q) /\ Change(q)
  BY <1>1, StepChange
<1>3. points'[g] = {}
  BY <1>1, <1>2, ChangeEffect, UpsertGuard DEF Retired
<1> QED
  BY <1>1, <1>3, StepEffect DEF Effect

\* Who marks a cleanup has emptied the generation.
LEMMA EmptiedStep ==
    ASSUME Timing, ReportInv, [Next]_vars PROVE Emptied'
<1>1. /\ FenceInv /\ PointerInv /\ TypeInv /\ StoreTypeOK /\ Emptied
      /\ \A x \in Run : pc[x] = "markCleaned" =>
            /\ Superseded(target[x]) \in Generation
            /\ Retired(Superseded(target[x])) /\ points[Superseded(target[x])] = {}
  BY ReportTypes DEF ReportInv, Emptied, FenceInv, CleanupsRetired
<1> DEFINE StaysEmpty(g) ==
        g \in Generation /\ record'[g] = Published /\ g # active' /\ points'[g] = {}
<1>2. ASSUME NEW p \in late, p.op = "cleaned"
      PROVE  StaysEmpty(p.old)
  BY <1>1, <1>2, RetiredStaysEmpty DEF Emptied
<1>3. ASSUME NEW x \in Run, pc[x] = "markCleaned"
      PROVE  points'[Superseded(target[x])] = {}
  BY <1>1, <1>3, RetiredStaysEmpty
<1>4. ASSUME \A x \in Run : pc'[x] = "markCleaned" => points'[Superseded(target'[x])] = {},
             late' \subseteq late
      PROVE  Emptied'
  BY <1>2, <1>4 DEF Emptied, Superseded, Retired
<1>5. ASSUME NEW r \in Run, IngestStep(r) \/ SaveCheckpoint(r)
      PROVE  Emptied'
  <2>1. Alone(r) /\ LeavesBehind(r) /\ Reaches(r)
    BY <1>1, <1>5, IngestControl, StepReport DEF Report
  <2>2. \A x \in Run : pc'[x] = "markCleaned" => points'[Superseded(target'[x])] = {}
    BY <1>3, <2>1 DEF Alone, Reaches
  <2>3. CASE late' \subseteq late
    BY <1>4, <2>2, <2>3
  <2>4. CASE late' \subseteq late \cup {RequestOf(r)} /\ UNCHANGED storeVars
    <3>1. ASSUME RequestOf(r).op = "cleaned"
          PROVE  StaysEmpty(RequestOf(r).old)
      <4>1. pc[r] = "markCleaned" /\ RequestOf(r).old = Superseded(target[r])
        BY <3>1, RequestKinds DEF Superseded
      <4> QED
        BY <1>1, <4>1, RetiredStaysEmpty
    <3>2. ASSUME NEW p \in late', p.op = "cleaned"
          PROVE  StaysEmpty(p.old)
      BY <1>2, <2>4, <3>1, <3>2
    <3> QED
      BY <2>2, <3>2 DEF Emptied, Superseded, Retired
  <2> QED
    BY <2>1, <2>3, <2>4 DEF LeavesBehind
<1>6. ASSUME NEW r \in Run, NEW g \in Generation, NEW failed \in BOOLEAN,
             StartIngest(r, g, failed) \/ StartUnanswered(r, g)
      PROVE  Emptied'
  <2> DEFINE n == Send("acquire", r, g, Absent, None, 0)
  <2>1. n.op = "acquire"
    BY DEF Send
  <2>2. /\ pc'[r] \in {"pointer", "save"} /\ late' \subseteq late \cup {n}
        /\ UNCHANGED target /\ \A x \in Run : x # r => pc'[x] = pc[x]
    BY <1>1, <1>6, StartControl DEF Timing
  <2> HIDE DEF n
  <2>3. \A x \in Run : pc'[x] = "markCleaned" => points'[Superseded(target'[x])] = {}
    BY <1>3, <2>2
  <2> QED
    BY <1>2, <2>1, <2>2, <2>3 DEF Emptied, Superseded, Retired
<1>7. ASSUME Environment
      PROVE  Emptied'
  <2>1. UNCHANGED <<pc, target>> /\ late' \subseteq late
    BY <1>1, <1>7, EnvironmentControl DEF Timing, Environment
  <2> QED
    BY <1>3, <1>4, <2>1
<1> QED
  BY <1>5, <1>6, <1>7, StepKinds DEF Environment

\* What a retry has found empty stays empty until it upserts.
LEMMA CleanStays ==
    ASSUME ReportInv, [Next]_vars, NEW x \in Run,
           pc[x] \in {"pending", "recovered", "inspect", "stage", "embed"}
    PROVE  /\ cleanupIndex = {} => cleanupIndex' = {}
           /\ points[gen[x]] = {} => points'[gen[x]] = {}
<1>1. /\ FenceInv /\ PointerInv /\ StoreTypeOK /\ gen[x] \in Generation
      /\ pc[x] \in TrySteps /\ pc[x] \notin {"publish", "upsert"}
  BY ReportTypes DEF TrySteps, ReadSteps, WriteSteps, Awaiting, Critical
<1>2. PICK q : Performed(q) /\ Change(q)
  BY <1>1, StepChange
<1>3. ~(q.op = "publish" /\ lease = q.run)
  BY <1>1, <1>2, OwnWhileTrying, RequestFields
<1>4. q.op # "upsert"
  BY <1>1, <1>2, OwnUpsertWhileTrying
<1> QED
  BY <1>1, <1>2, <1>3, <1>4, ChangeEffect

LEMMA RetryCleanStep ==
    ASSUME Timing, ReportInv, [Next]_vars PROVE RetryClean'
<1>1. FenceInv /\ TypeInv /\ RetryClean
  BY ReportTypes DEF ReportInv
<1> DEFINE Clean(x) ==
        retry'[x] =>
            /\ pc'[x] # "record"
            /\ pc'[x] \in {"pending", "recovered", "inspect", "stage", "embed"} =>
                  current'[x] = None
            /\ pc'[x] \in {"recovered", "inspect", "stage", "embed"} => cleanupIndex' = {}
            /\ pc'[x] \in {"stage", "embed"} => points'[gen'[x]] = {}
<1>2. ASSUME \A x \in Run : Clean(x)
      PROVE  RetryClean'
  BY <1>2 DEF RetryClean
<1>3. ASSUME NEW x \in Run, pc'[x] = pc[x], gen'[x] = gen[x], current'[x] = current[x],
             retry'[x] = retry[x]
      PROVE  Clean(x)
  BY <1>1, <1>3, CleanStays DEF RetryClean
<1>4. ASSUME NEW r \in Run, IngestStep(r) \/ SaveCheckpoint(r)
      PROVE  RetryClean'
  <2>1. Alone(r) /\ Advances(r) /\ Apart(r) /\ Reaches(r) /\ Insists(r)
    BY <1>1, <1>4, IngestControl, StepReport DEF Report
  <2>2. ASSUME NEW x \in Run, x # r
        PROVE  Clean(x)
    BY <1>3, <2>1, <2>2 DEF Alone, Apart
  <2>3. ASSUME retry'[r]
        PROVE  Clean(r)
    <3>1. retry[r] /\ pc'[r] # "record" /\ pc[r] # "record"
      BY <1>1, <2>1, <2>3 DEF Insists, RetryClean
    <3>2. CASE pc'[r] = "pending"
      BY <2>1, <2>3, <3>2 DEF Insists
    <3>3. CASE pc'[r] \in {"recovered", "inspect", "stage", "embed"}
      <4>1. /\ pc'[r] = "recovered" => pc[r] = "pending" /\ cleanupIndex = {}
            /\ pc'[r] = "inspect" => pc[r] = "recovered"
            /\ pc'[r] = "stage" => pc[r] = "inspect" /\ points[gen[r]] = {}
            /\ pc'[r] = "embed" => pc[r] = "stage"
        BY <2>1, <2>3, <3>1 DEF Insists, Reaches
      <4>2. current[r] = None /\ cleanupIndex = {}
        BY <1>1, <3>1, <3>3, <4>1 DEF RetryClean
      <4>3. pc'[r] \in {"stage", "embed"} => points[gen[r]] = {}
        BY <1>1, <3>1, <4>1 DEF RetryClean
      <4>4. pc'[r] \in WriteSteps \cup (ReadSteps \ {"pointer"}) /\ pc[r] # "pointer"
        BY <3>3, <4>1 DEF WriteSteps, ReadSteps
      <4>5. current'[r] = None /\ gen'[r] = gen[r]
        BY <2>1, <3>3, <4>2, <4>4 DEF Advances
      <4>6. /\ cleanupIndex' = {}
            /\ pc'[r] \in {"stage", "embed"} => points'[gen[r]] = {}
        BY <3>3, <4>1, <4>2, <4>3, CleanStays
      <4> QED
        BY <3>1, <4>5, <4>6
    <3> QED
      BY <3>1, <3>2, <3>3
  <2>4. \A x \in Run : Clean(x)
    BY <2>2, <2>3
  <2> HIDE DEF Clean
  <2> QED
    BY <1>2, <2>4
<1>5. ASSUME NEW r \in Run, NEW g \in Generation, NEW failed \in BOOLEAN,
             StartIngest(r, g, failed) \/ StartUnanswered(r, g)
      PROVE  RetryClean'
  <2>1. /\ UNCHANGED current /\ pc'[r] \in {"pointer", "save"}
        /\ \A x \in Run : x # r => pc'[x] = pc[x] /\ gen'[x] = gen[x]
    BY <1>1, <1>5, StartControl DEF Timing
  <2>2. \A x \in Run : x # r => retry'[x] = retry[x]
    BY <1>5, StartReport
  <2>3. \A x \in Run : x # r => Clean(x)
    <3> HIDE DEF Clean
    <3> QED
      BY <1>3, <2>1, <2>2
  <2>4. Clean(r)
    BY <2>1
  <2> HIDE DEF Clean
  <2> QED
    BY <1>2, <2>3, <2>4
<1>6. ASSUME Environment
      PROVE  RetryClean'
  <2>1. UNCHANGED <<pc, gen, current, retry>>
    BY <1>1, <1>6, EnvironmentControl, EnvironmentReport DEF Timing, Environment
  <2> HIDE DEF Clean
  <2> QED
    BY <1>2, <1>3, <2>1
<1> QED
  BY <1>4, <1>5, <1>6, StepKinds DEF Environment

LEMMA ReportsTrueStep ==
    ASSUME Timing, ReportInv, [Next]_vars PROVE ReportsTrue'
<1>1. /\ FenceInv /\ PointerInv /\ TypeInv /\ StoreTypeOK /\ ReportsTrue
      /\ \A x \in Run : pc[x] \in Awaiting => gen[x] \in Generation
      /\ \A p \in late : p.run \in Run
      /\ TrySteps \subseteq Awaiting /\ Finishing \subseteq Awaiting
      /\ "publish" \in TrySteps /\ Finishing \cap (TrySteps \cup {"idle", "done"}) = {}
  BY ReportTypes
  DEF ReportInv, TrySteps, ReadSteps, WriteSteps, RereadSteps, Finishing, CleanupSteps
<1>2. PICK q : Performed(q) /\ Change(q)
  BY <1>1, StepChange
<1> DEFINE True(x) ==
        outcome'[x] \in Success =>
            /\ record'[gen'[x]] = Published /\ pc'[x] \in Finishing
            /\ ~left'[x] => Covered(x)'
<1>3. ASSUME \A x \in Run : True(x),
             \A p \in late' : p.op = "publish" => outcome'[p.run] \notin Success
      PROVE  ReportsTrue'
  BY <1>3 DEF ReportsTrue, Covered
\* A run that takes no step.
<1>4. ASSUME NEW x \in Run, pc'[x] = pc[x], gen'[x] = gen[x], todo'[x] = todo[x],
             target'[x] = target[x], left'[x] = left[x], outcome'[x] = outcome[x]
      PROVE  True(x)
  <2>1. SUFFICES ASSUME outcome[x] \in Success PROVE True(x)
    BY <1>4
  <2>2. /\ record[gen[x]] = Published /\ pc[x] \in Finishing /\ gen[x] \in Generation
        /\ ~left[x] => Covered(x)
    BY <1>1, <2>1 DEF ReportsTrue, Covered
  <2>3. record'[gen[x]] = Published /\ cleanupIndex' \subseteq cleanupIndex
    BY <1>1, <1>2, <2>1, <2>2, ChangeEffect, NothingFiled
  <2> QED
    BY <1>4, <2>2, <2>3 DEF Covered
<1>5. ASSUME NEW p \in late, p.op = "publish", outcome'[p.run] = outcome[p.run]
      PROVE  outcome'[p.run] \notin Success
  BY <1>1, <1>5 DEF ReportsTrue
<1>6. ASSUME NEW r \in Run, IngestStep(r) \/ SaveCheckpoint(r)
      PROVE  ReportsTrue'
  <2>1. Alone(r) /\ Advances(r) /\ LeavesBehind(r) /\ Apart(r) /\ Reports(r)
    BY <1>1, <1>6, IngestControl, StepReport DEF Report
  <2>2. \A x \in Run : x # r => True(x)
    <3> HIDE DEF True
    <3> QED
      BY <1>4, <2>1 DEF Alone, Apart
  <2>3. True(r)
    <3>1. SUFFICES ASSUME outcome'[r] \in Success PROVE True(r)
      OBVIOUS
    <3>2. CASE outcome'[r] = outcome[r]
      <4>1. /\ record[gen[r]] = Published /\ pc[r] \in Finishing /\ gen[r] \in Generation
            /\ ~left[r] => Covered(r)
        BY <1>1, <3>1, <3>2 DEF ReportsTrue, Covered
      <4>2. pc'[r] \in Finishing /\ (~left'[r] => Covered(r)')
        BY <2>1, <3>1, <4>1 DEF Reports
      <4>3. record'[gen[r]] = Published
        BY <1>1, <1>2, <4>1, ChangeEffect
      <4>4. gen'[r] = gen[r]
        BY <1>1, <2>1, <4>2 DEF Advances
      <4> QED
        BY <4>2, <4>3, <4>4
    <3>3. CASE pc[r] \in TrySteps /\ pc'[r] = "listCleanups" /\ record'[gen[r]].state = "PUBLISHED"
      <4>1. gen'[r] = gen[r] /\ gen[r] \in Generation
        BY <1>1, <2>1, <3>3 DEF Advances
      <4>2. record'[gen[r]] = Published
        BY <3>3, <4>1, PublishedWholeStep DEF PublishedWhole
      <4>3. pc'[r] \in Finishing /\ Covered(r)'
        BY <3>3 DEF Finishing, CleanupSteps, Covered
      <4> QED
        BY <4>1, <4>2, <4>3
    <3> QED
      BY <2>1, <3>1, <3>2, <3>3 DEF Reports
  <2>4. ASSUME NEW p \in late', p.op = "publish"
        PROVE  outcome'[p.run] \notin Success
    <3>1. CASE p \in late
      <4>1. CASE p.run = r
        <5>1. outcome[r] \notin Success /\ pc[r] \notin TrySteps
          BY <1>1, <2>4, <3>1, <4>1 DEF ReportsTrue, FenceInv, LatePhase
        <5> QED
          BY <2>1, <4>1, <5>1 DEF Reports
      <4>2. CASE p.run # r
        BY <1>1, <1>5, <2>1, <2>4, <3>1, <4>2 DEF Apart
      <4> QED
        BY <4>1, <4>2
    <3>2. CASE p = RequestOf(r) /\ p \notin late
      <4>1. p.run = r /\ pc[r] \in TrySteps
        BY <1>1, <2>4, <3>2, RequestFields
      <4>2. outcome[r] \notin Success
        BY <1>1, <4>1 DEF ReportsTrue
      <4> QED
        BY <2>1, <2>4, <3>2, <4>1, <4>2 DEF Reports
    <3> QED
      BY <2>1, <2>4, <3>1, <3>2 DEF LeavesBehind
  <2>5. \A x \in Run : True(x)
    <3> HIDE DEF True
    <3> QED
      BY <2>2, <2>3
  <2> HIDE DEF True
  <2> QED
    BY <1>3, <2>4, <2>5
<1>7. ASSUME NEW r \in Run, NEW g \in Generation, NEW failed \in BOOLEAN,
             StartIngest(r, g, failed) \/ StartUnanswered(r, g)
      PROVE  ReportsTrue'
  <2> DEFINE n == Send("acquire", r, g, Absent, None, 0)
  <2>1. n.op = "acquire"
    BY DEF Send
  <2>2. /\ UNCHANGED <<todo, target>> /\ late' \subseteq late \cup {n}
        /\ \A x \in Run : x # r => pc'[x] = pc[x] /\ gen'[x] = gen[x]
    BY <1>1, <1>7, StartControl DEF Timing
  <2> HIDE DEF n
  <2>3. UNCHANGED <<left, outcome>> /\ outcome[r] \notin Success
    BY <1>7, StartReport
  <2>4. True(r)
    BY <2>3
  <2> HIDE DEF True
  <2>5. \A x \in Run : True(x)
    BY <1>4, <2>2, <2>3, <2>4
  <2> QED
    BY <1>3, <1>5, <2>1, <2>2, <2>3, <2>5
<1>8. ASSUME Environment
      PROVE  ReportsTrue'
  <2>1. UNCHANGED <<pc, gen, todo, target, left, outcome>> /\ late' \subseteq late
    BY <1>1, <1>8, EnvironmentControl, EnvironmentReport DEF Timing, Environment
  <2> HIDE DEF True
  <2> QED
    BY <1>3, <1>4, <1>5, <2>1
<1> QED
  BY <1>6, <1>7, <1>8, StepKinds DEF Environment

\* The invariant holds initially, and is inductive.
LEMMA ReportInit == Init => ReportInv
<1> SUFFICES ASSUME Init PROVE ReportInv
  OBVIOUS
<1>1. /\ \A r \in Run : pc[r] = "idle" /\ outcome[r] = "none" /\ ~retry[r]
      /\ late = {} /\ cleanupIndex = {}
      /\ \A p \in Pair : cleanup[p] = "ABSENT"
      /\ \A g \in Generation : record[g] = Absent
  BY DEF Init, StoreInit
<1>2. Absent.state # "PUBLISHED" /\ Absent # Published
  BY RecordStates
<1>3. IndexExact /\ PublishedWhole /\ Filed /\ UpsertsUnpublished
  BY <1>1, <1>2 DEF IndexExact, PublishedWhole, Filed, Retired, UpsertsUnpublished
<1>4. Emptied /\ RetryClean /\ ReportsTrue
  BY <1>1 DEF Emptied, RetryClean, ReportsTrue, Success
<1> QED
  BY <1>3, <1>4, FenceInit DEF ReportInv

LEMMA ReportStep ==
    ASSUME Timing, ReportInv, [Next]_vars
    PROVE  ReportInv'
<1>1. FenceInv'
  BY FenceStep DEF ReportInv
<1> QED
  BY <1>1, IndexExactStep, PublishedWholeStep, FiledStep, UpsertsUnpublishedStep, EmptiedStep,
     RetryCleanStep, ReportsTrueStep DEF ReportInv

(***************************************************************************)
(* The theorems.                                                           *)
(***************************************************************************)
\* A superseded generation that still has points is on file as a pending
\* cleanup, in the record and in the index.
THEOREM SupersededIsTracked ==
    ASSUME Timing
    PROVE  Spec => []SupersededTracked
<1>0. ReportInv /\ [Next]_vars => ReportInv'
  BY ReportStep
<1>1. ReportInv => SupersededTracked
  BY DEF ReportInv, IndexExact, Filed, Retired, SupersededTracked
<1> QED
  BY <1>0, <1>1, ReportInit, PTL DEF Spec

\* What a run reports is so: its generation is published, and where it counts no
\* cleanup as left, none is on file.
THEOREM ReportsAreTrue ==
    ASSUME Timing
    PROVE  Spec => []ReportIsTrue
<1>0. ReportInv /\ [Next]_vars => ReportInv'
  BY ReportStep
<1>1. ReportInv => ReportIsTrue
  BY DEF ReportInv, ReportsTrue, ReportIsTrue
<1> QED
  BY <1>0, <1>1, ReportInit, PTL DEF Spec

\* A retry embeds when nothing is active, nothing is to be cleaned up, and the failed
\* generation has no point left.
THEOREM RetriesStartClean ==
    ASSUME Timing
    PROVE  Spec => []RetryStartsClean
<1>0. ReportInv /\ [Next]_vars => ReportInv'
  BY ReportStep
<1>1. ReportInv => RetryStartsClean
  <2> SUFFICES ASSUME ReportInv, NEW r \in Run, pc[r] = "embed", retry[r]
               PROVE  active = None /\ cleanupIndex = {} /\ points[gen[r]] = {}
    BY DEF RetryStartsClean
  <2>1. current[r] = None /\ cleanupIndex = {} /\ points[gen[r]] = {}
    BY DEF ReportInv, RetryClean
  <2>2. active = current[r]
    BY DEF ReportInv, FenceInv, SnapshotFresh, WriteSteps
  <2> QED
    BY <2>1, <2>2
<1> QED
  BY <1>0, <1>1, ReportInit, PTL DEF Spec

(***************************************************************************)
(* The refinement.                                                         *)
(***************************************************************************)
Recorded == {g \in Generation : record[g] = Published}
Complete == {g \in Generation : points[g] = Batch}

\* What becomes of the promise in one step.
Promised ==
    \E g \in Generation :
        \/ /\ g \notin Recorded \ {active} /\ Complete' = Complete \cup {g}
           /\ UNCHANGED <<indexed, active, Recorded>>
        \/ /\ g # active /\ Complete' = Complete \ {g}
           /\ UNCHANGED <<indexed, active, Recorded>>
        \/ /\ g \in Complete \ Recorded
           /\ indexed' /\ active' = g /\ Recorded' = Recorded \cup {g}
           /\ UNCHANGED Complete

\* Every step of the lifecycle is a step of the promise, or no step of it.
LEMMA PromiseStep ==
    ASSUME ReportInv, [Next]_vars
    PROVE  Promised \/ UNCHANGED <<indexed, active, Recorded, Complete>>
<1>1. /\ FenceInv /\ PointerInv /\ StoreTypeOK /\ UpsertsUnpublished
      /\ Verified # Published /\ Staged # Published
  BY ReportTypes DEF ReportInv
<1>2. PICK q : Performed(q) /\ Change(q)
  BY <1>1, StepChange
<1>3. ASSUME q \in Request
      PROVE  q.gen \in Generation /\ q.gen # None /\ (q.op = "upsert" => q.batch \in Batch)
  BY <1>3, NoneAssumption DEF Request, AnyRequest
<1>4. Batch # {}
  BY BatchesAssumption DEF Batch
<1> USE DEF StoreTypeOK
<1>5. ASSUME UNCHANGED <<indexed, active, points>>,
             \A g \in Generation : record'[g] = Published <=> record[g] = Published
      PROVE  UNCHANGED <<indexed, active, Recorded, Complete>>
  BY <1>5 DEF Recorded, Complete
<1>6. CASE Nothing
  BY <1>5, <1>6 DEF Nothing
<1>7. CASE Forgets
  BY <1>1, <1>5, <1>7, RecordStates DEF Forgets, CleanedMarkerExpires, CleanupMarkerExpires
<1>8. CASE q \in Request /\ Publishes(q)
  <2>1. /\ record' = [record EXCEPT ![q.gen] = Published] /\ active' = q.gen /\ indexed'
        /\ UNCHANGED points /\ record[q.gen] = Verified
    BY <1>8 DEF Publishes, Publication
  <2>2. q.gen \in Complete
    BY <1>1, <1>3, <1>8, <2>1 DEF FenceInv, PointsComplete, Complete
  <2>3. q.gen \notin Recorded
    BY <1>1, <2>1 DEF Recorded
  <2>4. Recorded' = Recorded \cup {q.gen}
    BY <1>1, <1>3, <1>8, <2>1 DEF Recorded
  <2>5. UNCHANGED Complete
    BY <2>1 DEF Complete
  <2> QED
    BY <1>3, <1>8, <2>1, <2>2, <2>3, <2>4, <2>5 DEF Promised
<1>9. CASE q \in Request /\ Rewrites(q)
  BY <1>1, <1>3, <1>5, <1>9, RecordStates DEF Rewrites
<1>10. CASE q \in Request /\ Unfiles(q)
  BY <1>5, <1>10 DEF Unfiles
<1>11. CASE q \in Request /\ Fills(q)
  <2>1. /\ points' = [points EXCEPT ![q.gen] = @ \cup {q.batch}] /\ q.batch \in Batch
        /\ UNCHANGED <<record, active, indexed>> /\ UNCHANGED Recorded
    BY <1>3, <1>11 DEF Fills, Recorded
  <2>2. q.gen \notin Recorded
    BY <1>1, <1>2, <1>11, UpsertGuard DEF Recorded, Fills
  <2>3. CASE points'[q.gen] = Batch
    <3>1. Complete' = Complete \cup {q.gen}
      BY <1>1, <1>3, <1>11, <2>1, <2>3 DEF Complete, Batch
    <3> QED
      BY <1>3, <1>11, <2>1, <2>2, <3>1 DEF Promised
  <2>4. CASE points'[q.gen] # Batch
    <3>1. points[q.gen] # Batch
      BY <1>1, <1>3, <1>11, <2>1, <2>4
    <3>2. UNCHANGED Complete
      BY <1>1, <1>3, <1>11, <2>1, <2>4, <3>1 DEF Complete, Batch
    <3> QED
      BY <2>1, <3>2
  <2> QED
    BY <2>3, <2>4
<1>12. CASE q \in Request /\ Empties(q)
  <2>1. /\ points' = [points EXCEPT ![q.gen] = {}]
        /\ UNCHANGED <<record, active, indexed>> /\ UNCHANGED Recorded
    BY <1>12 DEF Empties, Recorded
  <2>2. q.gen # active
    BY <1>1, <1>2, <1>12, Guards DEF Empties, Guarded, Dead
  <2>3. Complete' = Complete \ {q.gen}
    BY <1>1, <1>3, <1>4, <1>12, <2>1 DEF Complete, Batch
  <2> QED
    BY <1>3, <1>12, <2>1, <2>2, <2>3 DEF Promised
<1> QED
  BY <1>2, <1>6, <1>7, <1>8, <1>9, <1>10, <1>11, <1>12 DEF Change

\* The lifecycle implements the promise readers rely on: in its accession one
\* generation at most is served, with all its points; it comes to be served in the
\* step that records and indexes it, and once replaced it is never served again.
THEOREM PublicationIsImplemented ==
    ASSUME Timing
    PROVE  Spec => PublicationImplemented
<1>0. ReportInv /\ [Next]_vars => ReportInv'
  BY ReportStep
<1>1. Init => Corpus!Init
  <2> SUFFICES ASSUME Init PROVE Corpus!Init
    OBVIOUS
  <2>1. /\ active = None /\ ~indexed
        /\ \A g \in Generation : record[g] = Absent /\ points[g] = {}
    BY DEF Init, StoreInit
  <2>2. Absent # Published /\ Batch # {}
    BY BatchesAssumption, RecordStates DEF Batch
  <2>3. Recorded = {} /\ Complete = {}
    BY <2>1, <2>2 DEF Recorded, Complete
  <2> QED
    BY <2>1, <2>3 DEF Corpus!Init, Recorded, Complete
<1> DEFINE
      index     == {a \in {Here} : indexed}
      serving   == [a \in {Here} |-> active]
      published == [a \in {Here} |-> {g \in Generation : record[g] = Published}]
      complete  == [a \in {Here} |-> {g \in Generation : points[g] = Batch}]
<1>2. ReportInv /\ [Next]_vars => [Corpus!Next]_<<index, serving, published, complete>>
  <2> SUFFICES ASSUME ReportInv, [Next]_vars
               PROVE  Corpus!Next \/ UNCHANGED <<index, serving, published, complete>>
    OBVIOUS
  <2>1. /\ published = [a \in {Here} |-> Recorded] /\ complete = [a \in {Here} |-> Complete]
        /\ published' = [a \in {Here} |-> Recorded'] /\ complete' = [a \in {Here} |-> Complete']
    BY DEF Recorded, Complete
  <2> HIDE DEF published, complete
  <2>2. ASSUME NEW g \in Generation, g \notin Recorded \ {active}, Complete' = Complete \cup {g},
               UNCHANGED <<indexed, active, Recorded>>
        PROVE  Corpus!Load(Here, g)
    BY <2>1, <2>2 DEF Corpus!Load, Corpus!Replaced, published, complete
  <2>3. ASSUME NEW g \in Generation, g # active, Complete' = Complete \ {g},
               UNCHANGED <<indexed, active, Recorded>>
        PROVE  Corpus!Unload(Here, g)
    BY <2>1, <2>3 DEF Corpus!Unload, published, complete
  <2>4. ASSUME NEW g \in Generation, g \in Complete \ Recorded, indexed', active' = g,
               Recorded' = Recorded \cup {g}, UNCHANGED Complete
        PROVE  Corpus!Publish(Here, g)
    BY <2>1, <2>4 DEF Corpus!Publish, published, complete
  <2>5. CASE Promised
    BY <2>2, <2>3, <2>4, <2>5 DEF Promised, Corpus!Next
  <2>6. CASE UNCHANGED <<indexed, active, Recorded, Complete>>
    BY <2>1, <2>6
  <2> QED
    BY <2>5, <2>6, PromiseStep
<1> QED
  BY <1>0, <1>1, <1>2, ReportInit, PTL DEF Spec, PublicationImplemented, Corpus!Spec
=============================================================================
