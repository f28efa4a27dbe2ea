------------------------- MODULE GenerationProperties -------------------------
(***************************************************************************)
(* What GenerationLifecycle must guarantee.                                *)
(***************************************************************************)
EXTENDS GenerationLifecycle

LocalTypeOK ==
    /\ pc \in [Run -> Pc]
    /\ gen \in [Run -> Generation \cup {None}]
    /\ retry \in [Run -> BOOLEAN]
    /\ current \in [Run -> Generation \cup {None}]
    /\ own \in [Run -> StageRecord]
    /\ count \in [Run -> 0..(Batches - 1)]
    /\ todo \in [Run -> SUBSET Pair]
    /\ target \in [Run -> Pair \cup {NoPair}]
    /\ left \in [Run -> BOOLEAN]
    /\ outcome \in [Run -> Outcome]

\* The values of the variables: Redis keys and vector points, the locals of
\* every run, and requests in flight that a run can have sent.
LifecycleTypeOK ==
    /\ StoreTypeOK
    /\ LocalTypeOK
    /\ saved \in SUBSET Generation
    /\ \A q \in late : q \in Request

\* The pointer never leads a reader astray: the generation it names is
\* published and every batch of its points is in the vector index, whatever
\* aborts, cleanups, kills and late requests have happened.
ActiveComplete ==
    active # None => record[active] = Published /\ points[active] = Batch

\* Control-plane half of the above, which must survive even a lost lease:
\* the pointer names a published record, and the accession is indexed
\* exactly when it has an active generation (list_active_generations fails
\* otherwise).
ActivePublished ==
    /\ active # None => record[active] = Published
    /\ indexed <=> active # None

\* Cleanup is resumable: a superseded generation that still has points is
\* on file as a PENDING cleanup, in the record and in the index, so the
\* next run of the accession finds it.
SupersededTracked ==
    /\ cleanupIndex = {p \in Pair : cleanup[p] = "PENDING"}
    /\ \A g \in Generation :
          record[g] = Published /\ g # active /\ points[g] # {} =>
              \E new \in Generation : <<g, new>> \in cleanupIndex

\* A run never decides on a stale snapshot: from the read of the active
\* generation to the publication, `current' is still what is active, so
\* neither the compare-and-swap nor the abort is computed from the past.
SnapshotFresh ==
    \A r \in Run :
        pc[r] \in WriteSteps \cup (ReadSteps \ {"pointer"}) => active = current[r]

\* A reported result is true: "created" and "replaced" mean the generation
\* was published, and a count of zero pending cleanups means that nothing
\* is left on file when the run gives the lease back.
ReportIsTrue ==
    \A r \in Run :
        /\ outcome[r] \in Success => record[gen[r]] = Published
        /\ pc[r] = "release" /\ outcome[r] \in Success /\ ~left[r] => cleanupIndex = {}

\* --retry-failed pays for embeddings only if no generation is active and the
\* failed one has left nothing in the vector index, at the time it pays.
RetryStartsClean ==
    \A r \in Run :
        pc[r] = "embed" /\ retry[r] =>
            active = None /\ cleanupIndex = {} /\ points[gen[r]] = {}

\* The old generation stays active, with all its points, until the step that
\* makes the new one active; that step also files its cleanup; and nothing
\* that was replaced comes back.
ReplacedAtOnce ==
    [][active' # active =>
          /\ active' # None
          /\ record[active'] # Published
          /\ active # None => <<active, active'>> \in cleanupIndex']_vars

\* A run that failed before publishing cannot have removed what another run
\* published: points only disappear from generations that are not active and
\* are aborted or superseded.
DeletesOnlyDead ==
    [][\A g \in Generation :
          points[g] \ points'[g] # {} =>
              /\ g # active
              /\ record[g] \notin {Staged, Verified}]_vars

\* Nobody is locked out for ever: every lease ends, also when its owner was
\* killed, its release was lost or its acquisition arrived after the fact.
LeaseReclaimed == \A r \in Run : lease = r ~> lease # r

\* The lifecycle implements the promise readers rely on, for the one accession it
\* is about: whatever it makes of index, pointer, published records and points is
\* what CorpusPublication lets a reader meet (QueryPath asks its questions there).
Here == "this accession"

Corpus == INSTANCE CorpusPublication WITH
    Accession <- {Here},
    index     <- {a \in {Here} : indexed},
    serving   <- [a \in {Here} |-> active],
    published <- [a \in {Here} |-> {g \in Generation : record[g] = Published}],
    complete  <- [a \in {Here} |-> {g \in Generation : points[g] = Batch}]

PublicationImplemented == Corpus!Spec

\* docs/architecture.md:70, docs/research-runbook.md:146: "checkpoints
\* completion, and only then removes a superseded generation".
CheckpointBeforeCleanup ==
    \A g \in Generation :
        record[g] = Published /\ g # active /\ points[g] # Batch =>
            active \in saved
=============================================================================
