--------------------------- MODULE RetryProperties ---------------------------
(***************************************************************************)
(* What RetryLedger must guarantee.                                        *)
(***************************************************************************)
EXTENDS RetryLedger

\* The values of the variables.
LedgerTypeOK ==
    /\ checkpoint \in Progress
    /\ claim \in Claim /\ claimTwo \in ClaimTwo
    /\ result \in Result /\ resultTwo \in Result
    /\ pc \in [Command -> Pc]
    /\ mode \in [Command -> Mode]
    /\ authorization \in [Command -> Command \cup {None}]
    /\ base \in [Command -> Progress]
    /\ previous \in [Command -> Progress]
    /\ here \in [Command -> Progress]
    /\ legacy \in [Command -> Claim \X Result]
    /\ verdict \in [Command -> Verdict]
    /\ exit \in [Command -> Exit]
    /\ late \in [Command -> Writes \cup {"none"}]
    /\ ingested \in SUBSET (1..References)
    /\ attempted \in SUBSET (1..References)
    /\ charged \in SUBSET Command

\* The ledger is readable for ever: whatever commands race, die or leave
\* behind, the five records pass every check of the two snapshots, so that
\* no order of writes makes the job "unavailable".
LedgerReadable ==
    /\ SnapshotValid(checkpoint, claim, result)
    /\ claimTwo # NoClaimTwo => SnapshotTwoValid
    /\ resultTwo # NoResult => claimTwo # NoClaimTwo

\* "The original checkpoint and first retry claim/result are immutable": once
\* a retry is claimed the checkpoint never changes, and no claim or result
\* changes once it is written, also by a write that arrives late.
LedgerAppendOnly ==
    [][/\ claim # NoClaim => UNCHANGED <<checkpoint, claim>>
       /\ result # NoResult => UNCHANGED result
       /\ claimTwo # NoClaimTwo => UNCHANGED claimTwo
       /\ resultTwo # NoResult => UNCHANGED resultTwo]_vars

\* Each of the two attempts is paid for by the one command that holds its
\* claim, the second only after a failed verification of the first.
PaidByClaimant ==
    \A c \in charged :
        \/ mode[c] = "retry" /\ claim.attempt = c
        \/ /\ mode[c] = "attempt_two" /\ claimTwo.attempt = c
           /\ result.verdict = "vector_verification"

\* A checkpoint counts every filing before its cursor exactly once, however
\* often the job was resumed: none was skipped, and no more successes are
\* counted than there were.
CheckpointExact ==
    /\ checkpoint.processed + checkpoint.failed = checkpoint.cursor
    /\ checkpoint.complete => checkpoint.cursor = References
    /\ 1..checkpoint.cursor \subseteq attempted
    /\ checkpoint.processed <= Cardinality(ingested \cap (1..checkpoint.cursor))

\* A command exits with success only if every filing of the plan has been
\* ingested, by it or by a command before it.
ExitIsTrue ==
    \A c \in Command : exit[c] = "success" => 1..References \subseteq ingested

\* The ledger implements the promise of at most two paid attempts.
Outcome(re) == IF re = NoResult THEN "open" ELSE re.verdict
PaidFor(m) == \E c \in charged : mode[c] = m
Both(first, second) == [a \in {1, 2} |-> IF a = 1 THEN first ELSE second]

Attempts == INSTANCE RecoveryAttempts WITH
    owner   <- Both(claim.attempt, claimTwo.attempt),
    paid    <- Both(PaidFor("retry"), PaidFor("attempt_two")),
    outcome <- Both(Outcome(result), Outcome(resultTwo))

AttemptsImplemented == Attempts!Spec
=============================================================================
