----------------------------- MODULE RetryLedger -----------------------------
(***************************************************************************)
(* The records one ingestion job keeps in Redis - its checkpoint, and the  *)
(* claim and result of its two recovery attempts - and the operator        *)
(* commands that write them: ordinary runs that resume at the checkpoint,  *)
(* --retry-failed, and --retry-failed-attempt-two.  Several commands may   *)
(* run at once, stop at any await, and leave a write in flight.  The       *)
(* ingestion of one filing is a single step here; GenerationLifecycle      *)
(* models what happens inside it.                                          *)
(***************************************************************************)
EXTENDS Integers, FiniteSets

CONSTANTS
    Command,    \* invocations of the command; the attempt digest each would draw
    References, \* number of filings in the job's plan
    None        \* no attempt

ASSUME ReferencesAssumption == References \in Nat
ASSUME NoneAssumption == None \notin Command

VARIABLES
    checkpoint,    \* progress of the job; Nothing while there is no key
    claim,         \* first retry claim
    result,        \* first retry result
    claimTwo,      \* attempt-two claim
    resultTwo,     \* attempt-two result
    pc,            \* the await a command is at
    mode,          \* which of the three commands it is
    authorization, \* the attempt digest an attempt two was authorized with
    base,          \* checkpoint the command has loaded
    previous,      \* checkpoint the store adapter compares with
    here,          \* progress the command has made
    legacy,        \* first claim and result an attempt two has read
    verdict,       \* how the filing of a retry came out
    exit,          \* exit status
    late,          \* write in flight of a command that has stopped
    ingested,      \* filings that some command has ingested successfully
    attempted,     \* filings that some command has tried
    charged        \* retries that have called ingest, which pays for embeddings

ledgerVars == <<checkpoint, claim, result, claimTwo, resultTwo>>
commandVars == <<mode, authorization, base, previous, here, legacy, verdict>>
historyVars == <<ingested, attempted, charged>>
vars == <<ledgerVars, pc, commandVars, exit, late, historyVars>>

Mode == {"run", "retry", "attempt_two"}
Retries == {"retry", "attempt_two"}
Verdict == {"succeeded", "vector_verification", "other"}
Exit == {"none", "success", "partial", "error"}

\* A checkpoint.  The all-zero one is never written and stands for no key.
Progress == [cursor : 0..References, processed : 0..References,
             failed : 0..References, complete : BOOLEAN]
Nothing == [cursor |-> 0, processed |-> 0, failed |-> 0, complete |-> FALSE]

\* Claims and results hold the digests of the records they rest on: a digest
\* is equal to another only if the records are.
NoClaim == [attempt |-> None, checkpoint |-> Nothing]
NoResult == [attempt |-> None, verdict |-> "other"]
NoClaimTwo == [attempt |-> None, checkpoint |-> Nothing, claim |-> NoClaim, result |-> NoResult]
Claim == [attempt : Command \cup {None}, checkpoint : Progress]
Result == [attempt : Command \cup {None}, verdict : Verdict]
ClaimTwo == [attempt : Command \cup {None}, checkpoint : Progress, claim : Claim, result : Result]

Writes == {"save", "final_save", "claim", "finish", "claim_two", "finish_two", "give_up"}
Reading == {"discover", "load", "snapshot", "snapshot_two"}
Awaiting == Writes \cup Reading \cup {"fetch", "ingest"}
Pc == Awaiting \cup {"idle", "done"}

Init ==
    /\ checkpoint = Nothing
    /\ claim = NoClaim /\ result = NoResult
    /\ claimTwo = NoClaimTwo /\ resultTwo = NoResult
    /\ pc = [c \in Command |-> "idle"]
    /\ mode = [c \in Command |-> "run"]
    /\ authorization = [c \in Command |-> None]
    /\ base = [c \in Command |-> Nothing]
    /\ previous = [c \in Command |-> Nothing]
    /\ here = [c \in Command |-> Nothing]
    /\ legacy = [c \in Command |-> <<NoClaim, NoResult>>]
    /\ verdict = [c \in Command |-> "other"]
    /\ exit = [c \in Command |-> "none"]
    /\ late = [c \in Command |-> "none"]
    /\ ingested = {} /\ attempted = {} /\ charged = {}

(***************************************************************************)
(* The Redis scripts.  A script that is not ok changes nothing.            *)
(***************************************************************************)
\* Mutated: the checkpoint is overwritten whatever it is.
CheckpointScriptBlind(c, ok) ==
    /\ ok = TRUE
    /\ checkpoint' = here[c]
    /\ UNCHANGED <<claim, result, claimTwo, resultTwo>>

CheckpointScript(c, ok) ==
    /\ ok = (checkpoint = previous[c])
    /\ checkpoint' = IF ok THEN here[c] ELSE checkpoint
    /\ UNCHANGED <<claim, result, claimTwo, resultTwo>>

\* Mutated: a claim that does not look for an earlier one.
ClaimScriptAgain(c, ok) ==
    /\ ok = (checkpoint = base[c] /\ result = NoResult)
    /\ claim' = IF ok THEN [attempt |-> c, checkpoint |-> base[c]] ELSE claim
    /\ UNCHANGED <<checkpoint, result, claimTwo, resultTwo>>

ClaimScript(c, ok) ==
    /\ ok = (checkpoint = base[c] /\ claim = NoClaim /\ result = NoResult)
    /\ claim' = IF ok THEN [attempt |-> c, checkpoint |-> base[c]] ELSE claim
    /\ UNCHANGED <<checkpoint, result, claimTwo, resultTwo>>

\* Writing the same result again is ok.
FinishScript(c, ok) ==
    LET mine == [attempt |-> c, verdict |-> verdict[c]]
    IN  /\ ok = (claim = [attempt |-> c, checkpoint |-> base[c]] /\ result \in {NoResult, mine})
        /\ result' = IF ok THEN mine ELSE result
        /\ UNCHANGED <<checkpoint, claim, claimTwo, resultTwo>>

\* The legacy records an attempt two has read are still there, byte for byte.
LegacyUnchanged(c) == checkpoint = base[c] /\ <<claim, result>> = legacy[c]

ClaimTwoOf(c) ==
    [attempt |-> c, checkpoint |-> base[c], claim |-> legacy[c][1], result |-> legacy[c][2]]

ClaimTwoScript(c, ok) ==
    /\ ok = (LegacyUnchanged(c) /\ claimTwo = NoClaimTwo /\ resultTwo = NoResult)
    /\ claimTwo' = IF ok THEN ClaimTwoOf(c) ELSE claimTwo
    /\ UNCHANGED <<checkpoint, claim, result, resultTwo>>

FinishTwoScript(c, ok) ==
    LET mine == [attempt |-> c, verdict |-> verdict[c]]
    IN  /\ ok = (LegacyUnchanged(c) /\ claimTwo = ClaimTwoOf(c) /\ resultTwo \in {NoResult, mine})
        /\ resultTwo' = IF ok THEN mine ELSE resultTwo
        /\ UNCHANGED <<checkpoint, claim, result, claimTwo>>

\* The write a command waits for, or has left in flight, reaches Redis.
Write(c, op, ok) ==
    \/ op \in {"save", "final_save"} /\ CheckpointScript(c, ok)
    \/ op = "claim"      /\ ClaimScript(c, ok)
    \/ op = "finish"     /\ FinishScript(c, ok)
    \/ op = "claim_two"  /\ ClaimTwoScript(c, ok)
    \/ op \in {"finish_two", "give_up"} /\ FinishTwoScript(c, ok)

(***************************************************************************)
(* What the two snapshots accept; anything else is "unavailable".          *)
(***************************************************************************)
SnapshotValid(ck, cl, re) ==
    /\ re # NoResult => cl # NoClaim /\ re.attempt = cl.attempt
    /\ cl # NoClaim => ck # Nothing /\ cl.checkpoint = ck

\* The one failed filing of a completed job.
OneFailure(ck) == ck.complete /\ ck.processed = 0 /\ ck.failed = 1 /\ ck.cursor # 0

SnapshotTwoValid ==
    /\ checkpoint # Nothing /\ claim # NoClaim /\ result # NoResult
    /\ SnapshotValid(checkpoint, claim, result)
    /\ OneFailure(checkpoint)
    /\ result.verdict = "vector_verification"
    /\ IF claimTwo = NoClaimTwo
       THEN resultTwo = NoResult
       ELSE /\ claimTwo.attempt # claim.attempt
            /\ <<claimTwo.checkpoint, claimTwo.claim, claimTwo.result>>
                 = <<checkpoint, claim, result>>
            /\ resultTwo # NoResult => resultTwo.attempt = claimTwo.attempt

(***************************************************************************)
(* Steps of a command.                                                     *)
(***************************************************************************)
At(c, from) == pc[c] = from
Goto(c, to) == pc' = [pc EXCEPT ![c] = to] /\ UNCHANGED exit
Ends(c, e) == pc' = [pc EXCEPT ![c] = "done"] /\ exit' = [exit EXCEPT ![c] = e]

Start(c) ==
    \E m \in Mode, a \in Command \cup {None} :
        /\ At(c, "idle")
        /\ a # None <=> m = "attempt_two"
        /\ mode' = [mode EXCEPT ![c] = m]
        /\ authorization' = [authorization EXCEPT ![c] = a]
        /\ Goto(c, IF m = "attempt_two" THEN "snapshot_two" ELSE "discover")
        /\ UNCHANGED <<ledgerVars, base, previous, here, legacy, verdict, late, historyVars>>

\* An await raises, or a check after it does, and ends the command; or the
\* command is killed, or past its deadline.  A write may still arrive.
Stops(c) ==
    /\ pc[c] \in Awaiting
    /\ Ends(c, "error")
    /\ \E op \in {"none"} \cup ({pc[c]} \cap Writes) : late' = [late EXCEPT ![c] = op]
    /\ UNCHANGED <<ledgerVars, commandVars, historyVars>>

\* The SEC lists the plan of this job; an ordinary run or a first retry that
\* is told another plan goes to the ledger of another job (Stops).  An
\* attempt two that cannot go on puts its failure on file.
Discover(c) ==
    /\ At(c, "discover")
    /\ \/ /\ mode[c] # "attempt_two"
          /\ Goto(c, "load")
       \/ /\ mode[c] = "attempt_two"
          /\ References = 1
          /\ Goto(c, "fetch")
       \/ /\ mode[c] = "attempt_two"
          /\ Goto(c, "give_up")
    /\ UNCHANGED <<ledgerVars, commandVars, late, historyVars>>

\* Mutated: the loop goes on past the last filing.
NextFilingPastEnd(c, start, progress) ==
    /\ here' = [here EXCEPT ![c] = progress]
    /\ Goto(c, IF progress.cursor <= References THEN "fetch" ELSE "final_save")

\* The loop over the filings, or the final checkpoint when they are all done.
NextFiling(c, start, progress) ==
    IF progress.cursor < References
    THEN /\ here' = [here EXCEPT ![c] = progress]
         /\ Goto(c, "fetch")
    ELSE /\ here' = [here EXCEPT ![c] = [progress EXCEPT !.complete =
                start.cursor + (progress.processed - start.processed)
                             + (progress.failed - start.failed) >= References]]
         /\ Goto(c, "final_save")

\* Mutated: the run starts over, and keeps the counts.
LoadCheckpointRestart(c) ==
    /\ At(c, "load")
    /\ base' = [base EXCEPT ![c] = checkpoint]
    /\ previous' = [previous EXCEPT ![c] = checkpoint]
    /\ IF mode[c] = "retry"
       THEN Goto(c, "snapshot") /\ UNCHANGED here
       ELSE NextFiling(c, checkpoint, [checkpoint EXCEPT !.cursor = 0, !.complete = FALSE])
    /\ UNCHANGED <<ledgerVars, mode, authorization, legacy, verdict, late, historyVars>>

\* An ordinary run resumes after the cursor.
LoadCheckpoint(c) ==
    /\ At(c, "load")
    /\ base' = [base EXCEPT ![c] = checkpoint]
    /\ previous' = [previous EXCEPT ![c] = checkpoint]
    /\ IF mode[c] = "retry"
       THEN Goto(c, "snapshot") /\ UNCHANGED here
       ELSE NextFiling(c, checkpoint, [checkpoint EXCEPT !.complete = FALSE])
    /\ UNCHANGED <<ledgerVars, mode, authorization, legacy, verdict, late, historyVars>>

\* Mutated: any result on file is replayed.
ReadSnapshotAny(c) ==
    /\ At(c, "snapshot")
    /\ SnapshotValid(checkpoint, claim, result) /\ checkpoint = base[c]
    /\ \/ /\ result # NoResult
          /\ Ends(c, "success")
       \/ /\ result = NoResult /\ claim = NoClaim
          /\ References = 1 /\ OneFailure(base[c])
          /\ Goto(c, "claim")
    /\ UNCHANGED <<ledgerVars, commandVars, late, historyVars>>

\* --retry-failed: a success on file is replayed, a failure or a claim
\* without result refuses (Stops), and one failed filing is claimed.
ReadSnapshot(c) ==
    /\ At(c, "snapshot")
    /\ SnapshotValid(checkpoint, claim, result) /\ checkpoint = base[c]
    /\ \/ /\ result # NoResult /\ result.verdict = "succeeded"
          /\ Ends(c, "success")
       \/ /\ result = NoResult /\ claim = NoClaim
          /\ References = 1 /\ OneFailure(base[c])
          /\ Goto(c, "claim")
    /\ UNCHANGED <<ledgerVars, commandVars, late, historyVars>>

\* Mutated: the first failure may be of any stage.
ReadSnapshotTwoAnyStage(c) ==
    /\ At(c, "snapshot_two")
    /\ claim # NoClaim /\ result # NoResult /\ authorization[c] = claim.attempt
    /\ resultTwo = NoResult /\ claimTwo = NoClaimTwo
    /\ base' = [base EXCEPT ![c] = checkpoint]
    /\ legacy' = [legacy EXCEPT ![c] = <<claim, result>>]
    /\ Goto(c, "claim_two")
    /\ UNCHANGED <<ledgerVars, mode, authorization, previous, here, verdict, late, historyVars>>

\* --retry-failed-attempt-two: as above, and only for the operator who knows
\* the first attempt.
ReadSnapshotTwo(c) ==
    /\ At(c, "snapshot_two")
    /\ SnapshotTwoValid /\ authorization[c] = claim.attempt
    /\ \/ /\ resultTwo # NoResult
          /\ Ends(c, IF resultTwo.verdict = "succeeded" THEN "success" ELSE "partial")
          /\ UNCHANGED <<base, legacy>>
       \/ /\ resultTwo = NoResult /\ claimTwo = NoClaimTwo
          /\ base' = [base EXCEPT ![c] = checkpoint]
          /\ legacy' = [legacy EXCEPT ![c] = <<claim, result>>]
          /\ Goto(c, "claim_two")
    /\ UNCHANGED <<ledgerVars, mode, authorization, previous, here, verdict, late, historyVars>>

\* The claim is answered: whoever does not get it stops.
Claimed(c) ==
    /\ \/ At(c, "claim") /\ Goto(c, "fetch")
       \/ At(c, "claim_two") /\ Goto(c, "discover")
    /\ Write(c, pc[c], TRUE)
    /\ UNCHANGED <<commandVars, late, historyVars>>

\* One filing is done with, and counted: a run saves its progress, a retry
\* its result.
Conclude(c, v) ==
    /\ attempted' = attempted \cup {here[c].cursor + 1}
    /\ IF mode[c] = "run"
       THEN /\ here' = [here EXCEPT ![c] = [cursor |-> @.cursor + 1,
                   processed |-> @.processed + (IF v = "succeeded" THEN 1 ELSE 0),
                   failed |-> @.failed + (IF v = "succeeded" THEN 0 ELSE 1),
                   complete |-> FALSE]]
            /\ UNCHANGED verdict
            /\ Goto(c, "save")
       ELSE /\ verdict' = [verdict EXCEPT ![c] = v]
            /\ UNCHANGED here
            /\ Goto(c, IF mode[c] = "retry" THEN "finish" ELSE "finish_two")
    /\ UNCHANGED <<mode, authorization, base, previous, legacy>>

\* Download and parsing fail before anything is paid for.
FetchFiling(c) ==
    /\ At(c, "fetch")
    /\ \/ /\ Goto(c, "ingest")
          /\ charged' = charged \cup ({c} \cap {d \in Command : mode[d] \in Retries})
          /\ UNCHANGED <<commandVars, attempted>>
       \/ /\ Conclude(c, "other")
          /\ UNCHANGED charged
    /\ UNCHANGED <<ledgerVars, late, ingested>>

IngestFiling(c) ==
    /\ At(c, "ingest")
    /\ \E v \in Verdict :
          /\ Conclude(c, v)
          /\ ingested' = IF v = "succeeded" THEN ingested \cup {here[c].cursor + 1} ELSE ingested
    /\ UNCHANGED <<ledgerVars, late, charged>>

\* save_checkpoint refuses to go back.
Monotonic(old, new) ==
    /\ new.processed >= old.processed
    /\ new.failed >= old.failed
    /\ old.complete => new.complete

\* Mutated: the exit status counts this command's failures only.
SaveCheckpointOwnFailures(c) ==
    /\ pc[c] \in {"save", "final_save"}
    /\ Monotonic(previous[c], here[c])
    /\ Write(c, pc[c], TRUE)
    /\ previous' = [previous EXCEPT ![c] = here[c]]
    /\ IF At(c, "save")
       THEN NextFiling(c, base[c], here[c])
       ELSE Ends(c, IF here[c].failed = base[c].failed THEN "success" ELSE "partial")
            /\ UNCHANGED here
    /\ UNCHANGED <<mode, authorization, base, legacy, verdict, late, historyVars>>

\* The exit status counts the failures of the whole job.
SaveCheckpoint(c) ==
    /\ pc[c] \in {"save", "final_save"}
    /\ Monotonic(previous[c], here[c])
    /\ Write(c, pc[c], TRUE)
    /\ previous' = [previous EXCEPT ![c] = here[c]]
    /\ IF At(c, "save")
       THEN NextFiling(c, base[c], here[c])
       ELSE Ends(c, IF here[c].failed = 0 THEN "success" ELSE "partial") /\ UNCHANGED here
    /\ UNCHANGED <<mode, authorization, base, legacy, verdict, late, historyVars>>

FinishRetry(c) ==
    /\ Write(c, pc[c], TRUE)
    /\ \/ /\ pc[c] \in {"finish", "finish_two"}
          /\ Ends(c, IF verdict[c] = "succeeded" THEN "success" ELSE "partial")
       \/ At(c, "give_up") /\ Ends(c, "error")
    /\ UNCHANGED <<commandVars, late, historyVars>>

\* A write is answered not ok: the command raises.
Refused(c) ==
    /\ pc[c] \in Writes
    /\ Write(c, pc[c], FALSE)
    /\ Ends(c, "error")
    /\ UNCHANGED <<commandVars, late, historyVars>>

\* A write that nobody waits for arrives after all, or is lost.
ArrivesLate(c) ==
    /\ late[c] # "none"
    /\ \E ok \in BOOLEAN : Write(c, late[c], ok) \/ UNCHANGED ledgerVars
    /\ late' = [late EXCEPT ![c] = "none"]
    /\ UNCHANGED <<pc, commandVars, exit, historyVars>>

CommandStep(c) ==
    \/ Start(c) \/ Stops(c) \/ Discover(c)
    \/ LoadCheckpoint(c) \/ ReadSnapshot(c) \/ ReadSnapshotTwo(c) \/ Claimed(c)
    \/ FetchFiling(c) \/ IngestFiling(c)
    \/ SaveCheckpoint(c) \/ FinishRetry(c) \/ Refused(c)

Terminated == (\A c \in Command : pc[c] = "done") /\ UNCHANGED vars

Next == (\E c \in Command : CommandStep(c) \/ ArrivesLate(c)) \/ Terminated

Spec == Init /\ [][Next]_vars
=============================================================================
