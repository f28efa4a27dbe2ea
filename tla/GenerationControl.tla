-------------------------- MODULE GenerationControl --------------------------
(***************************************************************************)
(* The state one accession keeps in the Redis control plane and in the     *)
(* vector index, and the requests that change it.  Every Redis script of   *)
(* app/providers/redis_research.py is one operator here: a script is       *)
(* atomic, answers ok or not ok, and changes nothing when it is not ok.    *)
(* The vector index is a service outside the repository: it stores the     *)
(* points of a generation batch by batch and deletes them by filter.       *)
(***************************************************************************)
EXTENDS Integers, FiniteSets

CONSTANTS
    Run,        \* calls of ResearchService.ingest; each has its own owner digest
    Generation, \* generation manifests of the accession
    Batches,    \* upsert/fetch batches in one generation
    None        \* no run, no generation

ASSUME BatchesAssumption == Batches \in Nat \ {0}
ASSUME NoneAssumption == None \notin Run \cup Generation

VARIABLES
    lease,        \* owner of the accession lease, or None
    record,       \* lifecycle record of each generation
    active,       \* active-generation pointer, or None
    indexed,      \* is the accession a member of the active index
    cleanup,      \* superseded-cleanup record of each <<superseded, active>> pair
    cleanupIndex, \* pairs in the cleanup index
    points        \* batches of each generation present in the vector index

storeVars == <<lease, record, active, indexed, cleanup, cleanupIndex, points>>

Batch == 1..Batches

(***************************************************************************)
(* A lifecycle record: its state, and whether it holds the point-set       *)
(* proof.  The manifest is the key of the record.                          *)
(***************************************************************************)
GenerationState == {"ABSENT", "STAGED", "VERIFIED", "PUBLISHED", "ABORTED", "CLEANED"}
StageRecord == [state : GenerationState, proof : BOOLEAN]

Absent    == [state |-> "ABSENT",    proof |-> FALSE]
Staged    == [state |-> "STAGED",    proof |-> FALSE]
Verified  == [state |-> "VERIFIED",  proof |-> TRUE]
Published == [state |-> "PUBLISHED", proof |-> TRUE]

WithState(rec, s) == [rec EXCEPT !.state = s]

\* Mutated: a stage that may also overwrite a published generation.
RecoverableAny == StageRecord

\* What a new stage may overwrite: never a published generation.
Recoverable == {Absent, Staged, Verified}
    \cup {WithState(rec, s) : rec \in {Staged, Verified}, s \in {"ABORTED", "CLEANED"}}

Pair == Generation \X Generation
CleanupState == {"ABSENT", "PENDING", "CLEANED"}

StoreInit ==
    /\ lease = None
    /\ record = [g \in Generation |-> Absent]
    /\ active = None
    /\ indexed = FALSE
    /\ cleanup = [p \in Pair |-> "ABSENT"]
    /\ cleanupIndex = {}
    /\ points = [g \in Generation |-> {}]

(***************************************************************************)
(* A request a run has sent.  `stage' is the exact record the script       *)
(* compares with; `old' is the generation a publication expects to be      *)
(* active (None: no active generation) or a cleanup deletes; `batch' is    *)
(* the batch of an upsert.  Requests that only read change nothing when    *)
(* they arrive and are all "read".                                         *)
(***************************************************************************)
Op == {"acquire", "stage", "verify", "publish", "abort", "clean", "release",
       "cleaned", "upsert", "delete", "read"}
VectorOp == {"upsert", "delete"}

AnyRequest == [op : Op, run : Run, gen : Generation, stage : StageRecord,
               old : Generation \cup {None}, batch : 0..Batches]
Request == {q \in AnyRequest : q.op = "upsert" => q.batch \in Batch}

Owned(q) == lease = q.run

\* SET lease owner NX EX ttl.
AcquireScript(q, ok) ==
    /\ ok = (lease = None)
    /\ lease' = IF ok THEN q.run ELSE lease
    /\ UNCHANGED <<record, active, indexed, cleanup, cleanupIndex, points>>

ReleaseScript(q, ok) ==
    /\ ok = Owned(q)
    /\ lease' = IF ok THEN None ELSE lease
    /\ UNCHANGED <<record, active, indexed, cleanup, cleanupIndex, points>>

\* The scripts that replace one generation record and nothing else.
RecordScript(q, ok, old, new) ==
    /\ ok = (Owned(q) /\ record[q.gen] \in old)
    /\ record' = IF ok THEN [record EXCEPT ![q.gen] = new] ELSE record
    /\ UNCHANGED <<lease, active, indexed, cleanup, cleanupIndex, points>>

StageScript(q, ok)  == RecordScript(q, ok, Recoverable, Staged)
VerifyScript(q, ok) == RecordScript(q, ok, {Staged}, Verified)
\* Mutated: an abort that does not compare the record it replaces.
AbortScriptBlind(q, ok) == RecordScript(q, ok, StageRecord, WithState(q.stage, "ABORTED"))
AbortScript(q, ok)  == RecordScript(q, ok, {q.stage}, WithState(q.stage, "ABORTED"))
CleanScript(q, ok)  == RecordScript(q, ok, {q.stage}, WithState(q.stage, "CLEANED"))

\* What a publication writes: the record, the pointer and the index, and,
\* when it replaces a generation, the PENDING cleanup of that generation.
Publication(q) ==
    LET pair == <<q.old, q.gen>>
    IN  /\ record' = [record EXCEPT ![q.gen] = Published]
        /\ active' = q.gen
        /\ indexed' = TRUE
        /\ IF q.old = None
           THEN UNCHANGED <<cleanup, cleanupIndex>>
           ELSE /\ cleanup' = [cleanup EXCEPT ![pair] = "PENDING"]
                /\ cleanupIndex' = cleanupIndex \cup {pair}

\* Mutated: a publication that compares neither owner nor active pointer.
PublishScriptNoCas(q, ok) ==
    /\ ok = (record[q.gen] = Verified)
    /\ IF ok THEN Publication(q)
       ELSE UNCHANGED <<record, active, indexed, cleanup, cleanupIndex>>
    /\ UNCHANGED <<lease, points>>

\* Compare-and-swap of the active pointer.
PublishScript(q, ok) ==
    /\ ok = /\ Owned(q)
            /\ record[q.gen] = Verified
            /\ active = q.old
            /\ q.old # None => cleanup[<<q.old, q.gen>>] \in {"ABSENT", "PENDING"}
    /\ IF ok THEN Publication(q)
       ELSE UNCHANGED <<record, active, indexed, cleanup, cleanupIndex>>
    /\ UNCHANGED <<lease, points>>

\* Here q.old is the superseded generation and q.gen the one that replaced it.
CleanSupersededScript(q, ok) ==
    LET pair == <<q.old, q.gen>>
    IN  /\ ok = /\ Owned(q)
                /\ active # q.old
                /\ q.old # None
                /\ cleanup[pair] = "PENDING"
        /\ cleanup' = IF ok THEN [cleanup EXCEPT ![pair] = "CLEANED"] ELSE cleanup
        /\ cleanupIndex' = IF ok THEN cleanupIndex \ {pair} ELSE cleanupIndex
        /\ UNCHANGED <<lease, record, active, indexed, points>>

\* The vector index knows no lease: upserts and deletes always take effect.
Upsert(q, ok) ==
    /\ ok = TRUE
    /\ points' = [points EXCEPT ![q.gen] = @ \cup {q.batch}]
    /\ UNCHANGED <<lease, record, active, indexed, cleanup, cleanupIndex>>

DeleteGeneration(q, ok) ==
    /\ ok = TRUE
    /\ points' = [points EXCEPT ![q.gen] = {}]
    /\ UNCHANGED <<lease, record, active, indexed, cleanup, cleanupIndex>>

\* A request reaches the service that executes it.
Execute(q, ok) ==
    \/ q.op = "acquire" /\ AcquireScript(q, ok)
    \/ q.op = "stage"   /\ StageScript(q, ok)
    \/ q.op = "verify"  /\ VerifyScript(q, ok)
    \/ q.op = "publish" /\ PublishScript(q, ok)
    \/ q.op = "abort"   /\ AbortScript(q, ok)
    \/ q.op = "clean"   /\ CleanScript(q, ok)
    \/ q.op = "cleaned" /\ CleanSupersededScript(q, ok)
    \/ q.op = "release" /\ ReleaseScript(q, ok)
    \/ q.op = "upsert"  /\ Upsert(q, ok)
    \/ q.op = "delete"  /\ DeleteGeneration(q, ok)

(***************************************************************************)
(* Keys that Redis expires by itself: the markers of cleaned generations   *)
(* and of completed cleanups (EX 86400).                                   *)
(***************************************************************************)
CleanedMarkerExpires(g) ==
    /\ record[g].state = "CLEANED"
    /\ record' = [record EXCEPT ![g] = Absent]
    /\ UNCHANGED <<lease, active, indexed, cleanup, cleanupIndex, points>>

CleanupMarkerExpires(p) ==
    /\ cleanup[p] = "CLEANED"
    /\ cleanup' = [cleanup EXCEPT ![p] = "ABSENT"]
    /\ UNCHANGED <<lease, record, active, indexed, cleanupIndex, points>>

\* list_pending_cleanups: the index, provided every member is still PENDING.
CleanupsReadable == \A p \in cleanupIndex : cleanup[p] = "PENDING"

StoreTypeOK ==
    /\ lease \in Run \cup {None}
    /\ record \in [Generation -> StageRecord]
    /\ active \in Generation \cup {None}
    /\ indexed \in BOOLEAN
    /\ cleanup \in [Pair -> CleanupState]
    /\ cleanupIndex \in SUBSET Pair
    /\ points \in [Generation -> SUBSET Batch]
=============================================================================
