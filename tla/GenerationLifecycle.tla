------------------------- MODULE GenerationLifecycle -------------------------
(***************************************************************************)
(* ResearchService.ingest for one accession: runs of the operator CLI that *)
(* stage, embed, verify and publish a generation under the accession       *)
(* lease, then clean up the generations it superseded.  A run is one       *)
(* process; every await is one action.  A run may be killed or pass its    *)
(* deadline at any await, any request may fail, and a failed request may   *)
(* still reach its service later.                                          *)
(***************************************************************************)
EXTENDS GenerationControl

CONSTANTS
    RetryRuns,        \* runs that may be started with --retry-failed
    MaxLate,          \* bound: requests in flight that nobody waits for
    LeaseOutlivesRun, \* the lease never expires before its owner's deadline
    VectorSettles     \* abandoned vector requests end before the next lease

ASSUME RetryRunsAssumption == RetryRuns \subseteq Run
ASSUME MaxLateAssumption == MaxLate \in Nat
ASSUME TimingAssumption == LeaseOutlivesRun \in BOOLEAN /\ VectorSettles \in BOOLEAN

VARIABLES
    pc,      \* the await a run is at
    gen,     \* the manifest of the run's document
    retry,   \* retry_failed
    current, \* the active generation as the run read it
    own,     \* generation_stage: the record this run believes it owns
    count,   \* batches upserted, then batches verified
    todo,    \* pending cleanups selected and not yet tried
    target,  \* the pending cleanup being tried, or NoPair
    left,    \* cleanup_pending_count is positive
    outcome, \* the result the run will report; "none" while it has none
    saved,   \* generations whose ingestion is in a saved checkpoint
    late     \* requests in flight that nobody waits for

localVars == <<pc, gen, retry, current, own, count, todo, target, left, outcome>>
runVars == <<localVars, saved>>
vars == <<storeVars, runVars, late>>

ReadSteps   == {"pointer", "record", "pending", "recovered", "inspect"}
WriteSteps  == {"stage", "embed", "upsert", "verify", "markVerified", "publish"}
RereadSteps == {"rereadPointer", "rereadRecord"}
AbortSteps  == {"abort", "abortDelete", "clean"}
CleanupSteps == {"listCleanups", "deleteSuperseded", "markCleaned"}
TrySteps    == ReadSteps \cup WriteSteps \cup RereadSteps
Critical    == TrySteps \cup AbortSteps \cup CleanupSteps \cup {"release"}
Awaiting    == Critical \cup {"save"}
Pc          == Awaiting \cup {"idle", "done"}

Success == {"created", "replaced", "unchanged"}
Outcome == Success \cup {"none"}

NoPair == <<None, None>>

Init ==
    /\ StoreInit
    /\ pc = [r \in Run |-> "idle"]
    /\ gen = [r \in Run |-> None]
    /\ retry = [r \in Run |-> FALSE]
    /\ current = [r \in Run |-> None]
    /\ own = [r \in Run |-> Absent]
    /\ count = [r \in Run |-> 0]
    /\ todo = [r \in Run |-> {}]
    /\ target = [r \in Run |-> NoPair]
    /\ left = [r \in Run |-> FALSE]
    /\ outcome = [r \in Run |-> "none"]
    /\ saved = {}
    /\ late = {}

(***************************************************************************)
(* The request a run waits for at each step.                               *)
(***************************************************************************)
Send(op, r, g, stage, old, batch) ==
    [op |-> op, run |-> r, gen |-> g, stage |-> stage, old |-> old, batch |-> batch]

RequestOf(r) ==
    CASE pc[r] = "stage"        -> Send("stage", r, gen[r], Staged, None, 0)
      [] pc[r] = "upsert"       -> Send("upsert", r, gen[r], Absent, None, count[r] + 1)
      [] pc[r] = "markVerified" -> Send("verify", r, gen[r], Staged, None, 0)
      [] pc[r] = "publish"      -> Send("publish", r, gen[r], Verified, current[r], 0)
      [] pc[r] = "abort"        -> Send("abort", r, gen[r], own[r], None, 0)
      [] pc[r] = "abortDelete"  -> Send("delete", r, gen[r], Absent, None, 0)
      [] pc[r] = "clean"        -> Send("clean", r, gen[r], own[r], None, 0)
      [] pc[r] = "deleteSuperseded" ->
             Send("delete", r, target[r][1], Absent, None, 0)
      [] pc[r] = "markCleaned"  ->
             Send("cleaned", r, target[r][2], Absent, target[r][1], 0)
      [] pc[r] = "release"      -> Send("release", r, gen[r], Absent, None, 0)
      [] OTHER                  -> Send("read", r, gen[r], Absent, None, 0)

\* The run waits at pc[r] = from, and its request is answered ok or not ok.
Answered(r, from, ok) ==
    /\ pc[r] = from
    /\ Execute(RequestOf(r), ok)
    /\ UNCHANGED late

\* The run waits at pc[r] = from for a request that only reads.
Reads(r, from) ==
    /\ pc[r] = from
    /\ UNCHANGED <<storeVars, late>>

Goto(r, to) == pc' = [pc EXCEPT ![r] = to]

\* ingest has returned or raised, or the process is gone: its variables die.
Forget(r) ==
    /\ retry' = [retry EXCEPT ![r] = FALSE]
    /\ current' = [current EXCEPT ![r] = None]
    /\ own' = [own EXCEPT ![r] = Absent]
    /\ count' = [count EXCEPT ![r] = 0]
    /\ todo' = [todo EXCEPT ![r] = {}]
    /\ target' = [target EXCEPT ![r] = NoPair]
    /\ left' = [left EXCEPT ![r] = FALSE]
    /\ outcome' = [outcome EXCEPT ![r] = "none"]

Returns(r) == Goto(r, "save") /\ Forget(r) /\ UNCHANGED gen
Ends(r)    == Goto(r, "done") /\ Forget(r) /\ gen' = [gen EXCEPT ![r] = None]

(***************************************************************************)
(* ingest: chunk the document, build its manifest, take the lease.  A run  *)
(* that does not get it, or gets no answer, sends nothing else.            *)
(***************************************************************************)
CanStart(r, failed) ==
    /\ pc[r] = "idle"
    /\ failed => r \in RetryRuns
    /\ VectorSettles => ~\E q \in late : q.op \in VectorOp

StartIngest(r, g, failed) ==
    /\ CanStart(r, failed)
    /\ \E ok \in BOOLEAN :
          /\ Execute(Send("acquire", r, g, Absent, None, 0), ok)
          /\ gen' = [gen EXCEPT ![r] = g]
          /\ retry' = [retry EXCEPT ![r] = ok /\ failed]
          /\ Goto(r, IF ok THEN "pointer" ELSE "save")
    /\ UNCHANGED <<current, own, count, todo, target, left, outcome, saved, late>>

\* A request nobody waits for any more: it never arrives, or arrives later.
AbandonRequest(q) ==
    \/ UNCHANGED late
    \/ /\ q.op # "read"
       /\ Cardinality(late) < MaxLate
       /\ late' = late \cup {q}

StartUnanswered(r, g) ==
    /\ CanStart(r, FALSE)
    /\ AbandonRequest(Send("acquire", r, g, Absent, None, 0))
    /\ gen' = [gen EXCEPT ![r] = g]
    /\ Goto(r, "save")
    /\ UNCHANGED <<storeVars, retry, current, own, count, todo, target, left, outcome, saved>>

SetOutcome(r, o) == outcome' = [outcome EXCEPT ![r] = o]

\* _cleanup_superseded_generations tries one of the pairs, or returns.  The
\* code takes them in the order of their digests.
TryCleanup(r, pairs) ==
    \/ /\ pairs = {}
       /\ todo' = [todo EXCEPT ![r] = {}]
       /\ target' = [target EXCEPT ![r] = NoPair]
       /\ Goto(r, "release")
    \/ \E p \in pairs :
          /\ todo' = [todo EXCEPT ![r] = pairs \ {p}]
          /\ target' = [target EXCEPT ![r] = p]
          /\ Goto(r, "deleteSuperseded")

\* One pending cleanup is over; remained says it is counted as pending.
FinishCleanup(r, remained) ==
    /\ TryCleanup(r, todo[r])
    /\ left' = [left EXCEPT ![r] = @ \/ remained]
    /\ UNCHANGED <<gen, retry, current, own, count, outcome>>

(***************************************************************************)
(* Where an await that raises leads: `except' aborts what this run staged, *)
(* `finally' releases.  The failure stage it reports is left out.          *)
(***************************************************************************)
\* Mutated: a failed run deletes its points before it has aborted.
RaiseInTryNoAbort(r) ==
    /\ pc[r] \in TrySteps
    /\ Goto(r, IF own[r] # Absent THEN "abortDelete" ELSE "release")
    /\ UNCHANGED <<gen, retry, current, own, count, todo, target, left, outcome>>

RaiseInTry(r) ==
    /\ pc[r] \in TrySteps
    /\ Goto(r, IF own[r] # Absent THEN "abort" ELSE "release")
    /\ UNCHANGED <<gen, retry, current, own, count, todo, target, left, outcome>>

RaiseInAbort(r) ==
    /\ pc[r] \in AbortSteps
    /\ Goto(r, "release")
    /\ UNCHANGED <<gen, retry, current, own, count, todo, target, left, outcome>>

\* Mutated: a delete that failed is marked cleaned all the same.
RaiseInCleanupMarks(r) ==
    /\ pc[r] = "deleteSuperseded"
    /\ Goto(r, "markCleaned")
    /\ UNCHANGED <<gen, retry, current, own, count, todo, target, left, outcome>>

\* Mutated: a cleanup that failed is not counted.
RaiseInCleanupSilent(r) ==
    /\ pc[r] \in {"deleteSuperseded", "markCleaned"}
    /\ FinishCleanup(r, FALSE)

\* A cleanup never fails the ingest; it only counts as still pending.
RaiseInCleanup(r) ==
    \/ /\ pc[r] = "listCleanups"
       /\ left' = [left EXCEPT ![r] = TRUE]
       /\ Goto(r, "release")
       /\ UNCHANGED <<gen, retry, current, own, count, todo, target, outcome>>
    \/ /\ pc[r] \in {"deleteSuperseded", "markCleaned"}
       /\ FinishCleanup(r, TRUE)

RaiseAtEnd(r) ==
    \/ pc[r] = "release" /\ Returns(r)
    \/ pc[r] = "save" /\ Ends(r)

Raise(r) == RaiseInTry(r) \/ RaiseInAbort(r) \/ RaiseInCleanup(r) \/ RaiseAtEnd(r)

\* A request fails or times out: the await raises.
RequestFails(r) == Raise(r) /\ AbandonRequest(RequestOf(r)) /\ UNCHANGED storeVars

\* The process is killed, or its deadline has passed: no handler sends
\* another request.
Halt(r) == pc[r] \in Awaiting /\ Ends(r) /\ AbandonRequest(RequestOf(r)) /\ UNCHANGED storeVars

\* get_active_generation reads the pointer, then the record it points at.  A
\* run refuses by raising (RequestFails) when a guard below does not hold.
ReadPointer(r) ==
    /\ Reads(r, "pointer")
    /\ retry[r] => active = None
    /\ current' = [current EXCEPT ![r] = active]
    /\ Goto(r, IF active # None THEN "record"
               ELSE IF retry[r] THEN "pending" ELSE "stage")
    /\ UNCHANGED <<gen, retry, own, count, todo, target, left, outcome>>

\* An unchanged manifest skips to the cleanup of what it superseded.
ReadRecord(r) ==
    /\ Reads(r, "record")
    /\ record[current[r]].state = "PUBLISHED"
    /\ IF current[r] = gen[r]
       THEN Goto(r, "listCleanups") /\ SetOutcome(r, "unchanged")
       ELSE Goto(r, "stage") /\ UNCHANGED outcome
    /\ UNCHANGED <<gen, retry, current, own, count, todo, target, left>>

\* Mutated: the vector index is not inspected.
RetryPreflightNoInspect(r) ==
    /\ \/ /\ Reads(r, "pending")
          /\ cleanupIndex = {}
          /\ Goto(r, "recovered")
       \/ /\ Reads(r, "recovered")
          /\ record[gen[r]].state = "CLEANED"
          /\ Goto(r, "stage")
    /\ UNCHANGED <<gen, retry, current, own, count, todo, target, left, outcome>>

\* retry_failed insists on a failed generation that was cleaned completely:
\* no pending cleanup, a CLEANED record, no point in the vector index.
RetryPreflight(r) ==
    /\ \/ /\ Reads(r, "pending")
          /\ cleanupIndex = {}
          /\ Goto(r, "recovered")
       \/ /\ Reads(r, "recovered")
          /\ record[gen[r]].state = "CLEANED"
          /\ Goto(r, "inspect")
       \/ /\ Reads(r, "inspect")
          /\ points[gen[r]] = {}
          /\ Goto(r, "stage")
    /\ UNCHANGED <<gen, retry, current, own, count, todo, target, left, outcome>>

StageGeneration(r) ==
    \/ /\ Answered(r, "stage", TRUE)
       /\ own' = [own EXCEPT ![r] = Staged]
       /\ Goto(r, "embed")
       /\ UNCHANGED <<gen, retry, current, count, todo, target, left, outcome>>
    \/ /\ Answered(r, "stage", FALSE)
       /\ RaiseInTry(r)

EmbedDocuments(r) ==
    /\ Reads(r, "embed")
    /\ Goto(r, "upsert")
    /\ UNCHANGED <<gen, retry, current, own, count, todo, target, left, outcome>>

\* Mutated: the counter is not reset between the two loops.
NextBatchNoReset(r, next) ==
    /\ count' = [count EXCEPT ![r] = @ + 1]
    /\ IF count[r] + 1 = Batches THEN Goto(r, next) ELSE UNCHANGED pc
    /\ UNCHANGED <<gen, retry, current, own, todo, target, left, outcome>>

\* Both loops over the batches: the last one resets the counter and goes on.
NextBatch(r, next) ==
    /\ count' = [count EXCEPT ![r] = IF count[r] + 1 = Batches THEN 0 ELSE count[r] + 1]
    /\ IF count[r] + 1 = Batches THEN Goto(r, next) ELSE UNCHANGED pc
    /\ UNCHANGED <<gen, retry, current, own, todo, target, left, outcome>>

UpsertBatch(r) ==
    /\ Answered(r, "upsert", TRUE)
    /\ NextBatch(r, "verify")

\* verify_generation polls while points are missing; a poll that finds some
\* missing changes nothing, so only the last poll is modelled.
VerifyBatch(r) ==
    /\ Reads(r, "verify")
    /\ count[r] + 1 \in points[gen[r]]
    /\ NextBatch(r, "markVerified")

MarkGenerationVerified(r) ==
    \/ /\ Answered(r, "markVerified", TRUE)
       /\ own' = [own EXCEPT ![r] = Verified]
       /\ Goto(r, "publish")
       /\ UNCHANGED <<gen, retry, current, count, todo, target, left, outcome>>
    \/ /\ Answered(r, "markVerified", FALSE)
       /\ RaiseInTry(r)

PublicationOutcome(r) == IF current[r] = None THEN "created" ELSE "replaced"

\* A publication that is not ok is settled by reading the active generation
\* again: it may have been published by another run.
PublishGeneration(r) ==
    \/ /\ Answered(r, "publish", TRUE)
       /\ Goto(r, "listCleanups")
       /\ SetOutcome(r, PublicationOutcome(r))
       /\ UNCHANGED <<gen, retry, current, own, count, todo, target, left>>
    \/ /\ Answered(r, "publish", FALSE)
       /\ Goto(r, "rereadPointer")
       /\ UNCHANGED <<gen, retry, current, own, count, todo, target, left, outcome>>

RereadActive(r) ==
    \/ /\ Reads(r, "rereadPointer")
       /\ active = gen[r]
       /\ Goto(r, "rereadRecord")
       /\ UNCHANGED <<gen, retry, current, own, count, todo, target, left, outcome>>
    \/ /\ Reads(r, "rereadRecord")
       /\ record[gen[r]].state = "PUBLISHED"
       /\ Goto(r, "listCleanups")
       /\ SetOutcome(r, PublicationOutcome(r))
       /\ UNCHANGED <<gen, retry, current, own, count, todo, target, left>>

(***************************************************************************)
(* The except clause: abort the staged record, delete its points, mark it  *)
(* cleaned.  The test of `current' before the delete is always true here:  *)
(* a run whose manifest is active stages nothing.                          *)
(***************************************************************************)
\* Mutated: the points are deleted whether or not the abort was answered ok.
AbortGenerationBlind(r) ==
    /\ \E ok \in BOOLEAN : Answered(r, "abort", ok)
    /\ own' = [own EXCEPT ![r] = WithState(@, "ABORTED")]
    /\ Goto(r, "abortDelete")
    /\ UNCHANGED <<gen, retry, current, count, todo, target, left, outcome>>

AbortGeneration(r) ==
    /\ \/ /\ Answered(r, "abort", TRUE)
          /\ own' = [own EXCEPT ![r] = WithState(@, "ABORTED")]
          /\ Goto(r, "abortDelete")
       \/ /\ Answered(r, "abort", FALSE)
          /\ UNCHANGED own
          /\ Goto(r, "release")
    /\ UNCHANGED <<gen, retry, current, count, todo, target, left, outcome>>

AbortDelete(r) ==
    /\ Answered(r, "abortDelete", TRUE)
    /\ Goto(r, "clean")
    /\ UNCHANGED <<gen, retry, current, own, count, todo, target, left, outcome>>

\* The answer of clean_generation is not looked at.
CleanGeneration(r) ==
    /\ \E ok \in BOOLEAN : Answered(r, "clean", ok)
    /\ Goto(r, "release")
    /\ UNCHANGED <<gen, retry, current, own, count, todo, target, left, outcome>>

(***************************************************************************)
(* _cleanup_superseded_generations: delete the points, then mark.          *)
(***************************************************************************)
ListPendingCleanups(r) ==
    /\ Reads(r, "listCleanups")
    /\ CleanupsReadable
    /\ TryCleanup(r, cleanupIndex)
    /\ UNCHANGED <<gen, retry, current, own, count, left, outcome>>

DeleteSuperseded(r) ==
    /\ Answered(r, "deleteSuperseded", TRUE)
    /\ Goto(r, "markCleaned")
    /\ UNCHANGED <<gen, retry, current, own, count, todo, target, left, outcome>>

MarkSupersededCleaned(r) ==
    \E ok \in BOOLEAN :
        /\ Answered(r, "markCleaned", ok)
        /\ FinishCleanup(r, ~ok)

\* finally.
ReleaseLease(r) ==
    /\ \E ok \in BOOLEAN : Answered(r, "release", ok)
    /\ Returns(r)

\* ResearchIngestionRunner saves its checkpoint once ingest has returned.
SaveCheckpoint(r) ==
    /\ Reads(r, "save")
    /\ saved' = saved \cup {gen[r]}
    /\ Ends(r)

(***************************************************************************)
(* The environment.                                                        *)
(***************************************************************************)
\* Mutated: a TTL shorter than what is left of the deadline.
LeaseExpiresEarly(r) ==
    /\ lease = r
    /\ lease' = None
    /\ UNCHANGED <<record, active, indexed, cleanup, cleanupIndex, points, runVars, late>>

\* Mutated: SET NX without EX.
LeaseNeverExpires(r) == lease # r /\ lease = r /\ UNCHANGED vars

\* EX of the lease key: the TTL is the deadline rounded up, so the owner has
\* stopped by then, unless the key is lost.
LeaseExpires(r) ==
    /\ lease = r
    /\ LeaseOutlivesRun => pc[r] = "done"
    /\ lease' = None
    /\ UNCHANGED <<record, active, indexed, cleanup, cleanupIndex, points, runVars, late>>

MarkerExpires ==
    /\ \/ \E g \in Generation : CleanedMarkerExpires(g)
       \/ \E p \in Pair : CleanupMarkerExpires(p)
    /\ UNCHANGED <<runVars, late>>

\* A request nobody waits for arrives after all, or is lost.
ArrivesLate(q) ==
    /\ q \in late
    /\ late' = late \ {q}
    /\ \E ok \in BOOLEAN : Execute(q, ok)
    /\ UNCHANGED runVars

\* Every run is over.
Terminated ==
    /\ \A r \in Run : pc[r] = "done"
    /\ UNCHANGED vars

IngestStep(r) ==
    \/ ReadPointer(r) \/ ReadRecord(r) \/ RetryPreflight(r)
    \/ StageGeneration(r) \/ EmbedDocuments(r) \/ UpsertBatch(r) \/ VerifyBatch(r)
    \/ MarkGenerationVerified(r) \/ PublishGeneration(r) \/ RereadActive(r)
    \/ AbortGeneration(r) \/ AbortDelete(r) \/ CleanGeneration(r)
    \/ ListPendingCleanups(r) \/ DeleteSuperseded(r) \/ MarkSupersededCleaned(r)
    \/ ReleaseLease(r) \/ RequestFails(r) \/ Halt(r)

RunStep(r) ==
    \/ IngestStep(r) /\ UNCHANGED saved
    \/ SaveCheckpoint(r)

Next ==
    \/ \E r \in Run, g \in Generation :
          StartUnanswered(r, g) \/ \E failed \in BOOLEAN : StartIngest(r, g, failed)
    \/ \E r \in Run : RunStep(r) \/ LeaseExpires(r)
    \/ MarkerExpires
    \/ \E q \in late : ArrivesLate(q)
    \/ Terminated

Spec == Init /\ [][Next]_vars

\* Deadlines make every started run stop, Redis expires a lease whose owner
\* has stopped, and an abandoned request does not travel for ever.
Fairness ==
    /\ \A r \in Run : WF_vars(RunStep(r)) /\ WF_vars(LeaseExpires(r))
    /\ WF_vars(\E q \in late : ArrivesLate(q))

FairSpec == Spec /\ Fairness
=============================================================================
