-------------------------- MODULE RetryLedgerProofs --------------------------
(***************************************************************************)
(* Proofs about RetryLedger for any number of commands and filings: types, *)
(* the immutable records, who pays, what the counts and the exit status    *)
(* mean, and the refinement of RecoveryAttempts.                           *)
(***************************************************************************)
EXTENDS RetryProperties, FiniteSetTheorems, TLAPS

\* A write the command waits for or has left behind.
Pending(c, op) == pc[c] = op \/ late[c] = op

(***************************************************************************)
(* The inductive invariant.                                                *)
(***************************************************************************)
\* A progress record counts every filing before its cursor.
Counted(p) ==
    /\ p.processed + p.failed = p.cursor
    /\ p.complete => p.cursor = References

\* What a command holds while it makes progress.  A save that meets a
\* complete checkpoint changes nothing.
ProgressInv(c) ==
    /\ Counted(base[c]) /\ Counted(previous[c]) /\ Counted(here[c])
    /\ late[c] # "none" => pc[c] = "done"
    /\ pc[c] = "idle" \/ mode[c] # "run" => here[c] = Nothing
    /\ pc[c] = "load" => mode[c] # "attempt_two"
    /\ pc[c] = "snapshot" => mode[c] = "retry"
    /\ pc[c] = "snapshot_two" => mode[c] = "attempt_two"
    /\ pc[c] \in {"save", "final_save"} => mode[c] = "run"
    /\ pc[c] \in {"fetch", "ingest"} => here[c].cursor < References
    /\ pc[c] \in {"fetch", "ingest"} /\ mode[c] = "run" =>
          here[c] = [previous[c] EXCEPT !.complete = FALSE]
    /\ pc[c] = "save" => ~here[c].complete
    /\ Pending(c, "save") => ~previous[c].complete
    /\ Pending(c, "final_save") => here[c] = [previous[c] EXCEPT !.complete = TRUE]
    /\ Pending(c, "claim") => mode[c] = "retry" /\ References = 1 /\ OneFailure(base[c])

SaveInv == Counted(checkpoint) /\ \A c \in Command : ProgressInv(c)

\* What the records say of one another and of the commands they belong to.
RecordInv ==
    /\ claim # NoClaim =>
          /\ claim.attempt \in Command
          /\ mode[claim.attempt] = "retry" /\ pc[claim.attempt] # "idle"
          /\ claim.checkpoint = checkpoint /\ OneFailure(checkpoint)
    /\ result # NoResult =>
          /\ claim # NoClaim /\ result.attempt = claim.attempt
          /\ pc[claim.attempt] = "done"
    /\ claimTwo # NoClaimTwo =>
          /\ claimTwo.attempt \in Command
          /\ mode[claimTwo.attempt] = "attempt_two" /\ pc[claimTwo.attempt] # "idle"
          /\ claimTwo.checkpoint = checkpoint
          /\ claimTwo.claim = claim /\ claimTwo.result = result
          /\ result # NoResult /\ result.verdict = "vector_verification"
    /\ resultTwo # NoResult =>
          /\ claimTwo # NoClaimTwo /\ resultTwo.attempt = claimTwo.attempt
          /\ pc[claimTwo.attempt] = "done"

\* What a recovery command knows of the records at each of its awaits.
AttemptInv(c) ==
    /\ Pending(c, "finish") => mode[c] = "retry"
    /\ Pending(c, "finish_two") \/ Pending(c, "give_up") => mode[c] = "attempt_two"
    /\ Pending(c, "claim_two") =>
          /\ mode[c] = "attempt_two"
          /\ legacy[c][1] # NoClaim /\ legacy[c][2] # NoResult
          /\ legacy[c][2].verdict = "vector_verification"
    /\ mode[c] = "retry" /\ pc[c] = "fetch" => claim.attempt = c
    /\ mode[c] = "attempt_two" /\ pc[c] \in {"discover", "fetch"} => claimTwo.attempt = c
    /\ mode[c] \in Retries /\ pc[c] = "ingest" => c \in charged
    /\ verdict[c] # "other" => c \in charged
    /\ c \in charged =>
          /\ pc[c] \in {"ingest", "finish", "finish_two", "done"}
          /\ \/ mode[c] = "retry" /\ claim.attempt = c
             \/ mode[c] = "attempt_two" /\ claimTwo.attempt = c

LedgerInv ==
    /\ LedgerTypeOK /\ SaveInv /\ RecordInv
    /\ \A c \in Command : AttemptInv(c)

(***************************************************************************)
(* What a write does to the records.                                       *)
(***************************************************************************)
WriteEffect(c, op) ==
    \/ UNCHANGED ledgerVars
    \/ /\ op \in {"save", "final_save"}
       /\ claim = NoClaim /\ checkpoint = previous[c] /\ checkpoint' = here[c]
       /\ UNCHANGED <<claim, result, claimTwo, resultTwo>>
    \/ /\ op = "claim" /\ mode[c] = "retry"
       /\ claim = NoClaim /\ result = NoResult /\ checkpoint = base[c]
       /\ claim' = [attempt |-> c, checkpoint |-> base[c]]
       /\ UNCHANGED <<checkpoint, result, claimTwo, resultTwo>>
    \/ /\ op = "finish" /\ mode[c] = "retry"
       /\ claim # NoClaim /\ claim.attempt = c /\ result = NoResult
       /\ result' = [attempt |-> c, verdict |-> verdict[c]]
       /\ UNCHANGED <<checkpoint, claim, claimTwo, resultTwo>>
    \/ /\ op = "claim_two" /\ mode[c] = "attempt_two"
       /\ claim # NoClaim /\ result # NoResult /\ result.verdict = "vector_verification"
       /\ claimTwo = NoClaimTwo /\ resultTwo = NoResult
       /\ claimTwo' = [attempt |-> c, checkpoint |-> checkpoint, claim |-> claim, result |-> result]
       /\ UNCHANGED <<checkpoint, claim, result, resultTwo>>
    \/ /\ op \in {"finish_two", "give_up"} /\ mode[c] = "attempt_two"
       /\ claimTwo # NoClaimTwo /\ claimTwo.attempt = c /\ resultTwo = NoResult
       /\ resultTwo' = [attempt |-> c, verdict |-> verdict[c]]
       /\ UNCHANGED <<checkpoint, claim, result, claimTwo>>

\* A claim is only made for a failed filing on file, and a claim in place
\* keeps the checkpoint from changing.
LEMMA WriteEffects ==
    ASSUME LedgerInv, NEW c \in Command, NEW op \in Writes, Pending(c, op),
           NEW ok \in BOOLEAN, Write(c, op, ok)
    PROVE  WriteEffect(c, op)
<1> USE NoneAssumption
<1>0. c # None
  OBVIOUS
<1>1. CASE op \in {"save", "final_save"}
  <2>1. CheckpointScript(c, ok)
    BY <1>1 DEF Write
  <2>2. ProgressInv(c) /\ base[c] \in Progress /\ previous[c] \in Progress /\ here[c] \in Progress
    BY DEF LedgerInv, SaveInv, LedgerTypeOK
  <2>3. claim # NoClaim => checkpoint.complete
    BY DEF LedgerInv, RecordInv, OneFailure
  <2>4. CASE ok /\ claim # NoClaim
    <3>1. previous[c].complete
      BY <2>1, <2>3, <2>4 DEF CheckpointScript
    <3>2. here[c] = [previous[c] EXCEPT !.complete = TRUE]
      BY <1>1, <2>2, <3>1 DEF ProgressInv, Pending
    <3>3. here[c] = previous[c]
      BY <2>2, <3>1, <3>2 DEF Progress
    <3> QED
      BY <2>1, <2>4, <3>3 DEF CheckpointScript, WriteEffect, ledgerVars
  <2> QED
    BY <1>1, <2>1, <2>4 DEF CheckpointScript, WriteEffect, ledgerVars
<1>2. CASE op = "claim"
  <2>1. ClaimScript(c, ok) /\ mode[c] = "retry"
    BY <1>2 DEF Write, LedgerInv, SaveInv, ProgressInv
  <2> QED
    BY <1>2, <2>1 DEF ClaimScript, WriteEffect, ledgerVars
<1>3. CASE op = "finish"
  <2> DEFINE mine == [attempt |-> c, verdict |-> verdict[c]]
  <2>1. FinishScript(c, ok) /\ mode[c] = "retry"
    BY <1>3 DEF Write, LedgerInv, AttemptInv
  <2>2. CASE ok /\ result = NoResult
    <3>1. claim = [attempt |-> c, checkpoint |-> base[c]] /\ result' = mine
      BY <2>1, <2>2 DEF FinishScript
    <3>2. claim.attempt = c /\ claim # NoClaim
      BY <1>0, <3>1 DEF NoClaim
    <3> QED
      BY <1>3, <2>1, <2>2, <3>1, <3>2 DEF FinishScript, WriteEffect
  <2>3. CASE ~(ok /\ result = NoResult)
    <3>1. result' = result
      BY <2>1, <2>3 DEF FinishScript
    <3> QED
      BY <2>1, <3>1 DEF FinishScript, WriteEffect, ledgerVars
  <2> QED
    BY <2>2, <2>3
<1>4. CASE op = "claim_two"
  <2>1. ClaimTwoScript(c, ok) /\ mode[c] = "attempt_two"
    BY <1>4 DEF Write, LedgerInv, AttemptInv
  <2>2. /\ legacy[c][1] # NoClaim /\ legacy[c][2] # NoResult
        /\ legacy[c][2].verdict = "vector_verification"
    BY <1>4 DEF LedgerInv, AttemptInv
  <2>3. legacy[c] \in Claim \X Result
    BY DEF LedgerInv, LedgerTypeOK
  <2>4. CASE ok
    <3>1. checkpoint = base[c] /\ claim = legacy[c][1] /\ result = legacy[c][2]
      <4>1. checkpoint = base[c] /\ <<claim, result>> = legacy[c]
        BY <2>1, <2>4 DEF ClaimTwoScript, LegacyUnchanged
      <4> HIDE DEF LedgerInv
      <4>2. <<claim, result>>[1] = claim /\ <<claim, result>>[2] = result
        OBVIOUS
      <4> QED
        BY <4>1, <4>2
    <3> QED
      BY <1>4, <2>1, <2>2, <2>4, <3>1 DEF ClaimTwoScript, ClaimTwoOf, WriteEffect
  <2> QED
    BY <2>1, <2>4 DEF ClaimTwoScript, WriteEffect, ledgerVars
<1>5. CASE op \in {"finish_two", "give_up"}
  <2> DEFINE mine == [attempt |-> c, verdict |-> verdict[c]]
  <2>1. FinishTwoScript(c, ok) /\ mode[c] = "attempt_two"
    BY <1>5 DEF Write, LedgerInv, AttemptInv
  <2>2. CASE ok /\ resultTwo = NoResult
    <3>1. claimTwo = ClaimTwoOf(c) /\ resultTwo' = mine
      BY <2>1, <2>2 DEF FinishTwoScript
    <3>2. claimTwo.attempt = c /\ claimTwo # NoClaimTwo
      BY <1>0, <3>1 DEF ClaimTwoOf, NoClaimTwo
    <3> QED
      BY <1>5, <2>1, <2>2, <3>1, <3>2 DEF FinishTwoScript, WriteEffect
  <2>3. CASE ~(ok /\ resultTwo = NoResult)
    <3>1. resultTwo' = resultTwo
      BY <2>1, <2>3 DEF FinishTwoScript
    <3> QED
      BY <2>1, <3>1 DEF FinishTwoScript, WriteEffect, ledgerVars
  <2> QED
    BY <2>2, <2>3
<1> QED
  BY <1>1, <1>2, <1>3, <1>4, <1>5 DEF Writes

(***************************************************************************)
(* The records.                                                            *)
(***************************************************************************)
\* The records keep what they say of one another, whatever a write does, if
\* the command that files a result is done.
LEMMA RecordsKept ==
    ASSUME LedgerInv, NEW c \in Command, NEW op \in Writes, WriteEffect(c, op),
           Pending(c, op), pc[c] # "idle", UNCHANGED mode,
           \A d \in Command : pc[d] \in {"idle", "done"} => pc'[d] = pc[d],
           \A d \in Command : pc[d] # "idle" => pc'[d] # "idle",
           op \in {"finish", "finish_two", "give_up"} => pc'[c] = "done"
    PROVE  RecordInv'
<1> USE NoneAssumption
<1>1. CASE UNCHANGED ledgerVars
  BY <1>1 DEF LedgerInv, RecordInv, ledgerVars
<1>2. CASE claim = NoClaim /\ UNCHANGED <<claim, result, claimTwo, resultTwo>>
  BY <1>2 DEF LedgerInv, RecordInv
<1>3. CASE /\ op = "claim" /\ mode[c] = "retry"
           /\ claim = NoClaim /\ result = NoResult /\ checkpoint = base[c]
           /\ claim' = [attempt |-> c, checkpoint |-> base[c]]
           /\ UNCHANGED <<checkpoint, result, claimTwo, resultTwo>>
  <2>1. OneFailure(base[c])
    BY <1>3 DEF LedgerInv, SaveInv, ProgressInv
  <2>2. claim'.attempt = c /\ claim'.checkpoint = checkpoint
    BY <1>3
  <2>3. claimTwo = NoClaimTwo /\ resultTwo = NoResult
    BY <1>3 DEF LedgerInv, RecordInv
  <2> QED
    BY <1>3, <2>1, <2>2, <2>3 DEF RecordInv, OneFailure
<1>4. CASE /\ op = "finish" /\ mode[c] = "retry"
           /\ claim # NoClaim /\ claim.attempt = c /\ result = NoResult
           /\ result' = [attempt |-> c, verdict |-> verdict[c]]
           /\ UNCHANGED <<checkpoint, claim, claimTwo, resultTwo>>
  <2>1. result'.attempt = c /\ claimTwo = NoClaimTwo /\ resultTwo = NoResult
    BY <1>4 DEF LedgerInv, RecordInv
  <2> QED
    BY <1>4, <2>1 DEF LedgerInv, RecordInv, OneFailure
<1>5. CASE /\ op = "claim_two" /\ mode[c] = "attempt_two"
           /\ claim # NoClaim /\ result # NoResult /\ result.verdict = "vector_verification"
           /\ claimTwo = NoClaimTwo /\ resultTwo = NoResult
           /\ claimTwo' = [attempt |-> c, checkpoint |-> checkpoint, claim |-> claim, result |-> result]
           /\ UNCHANGED <<checkpoint, claim, result, resultTwo>>
  BY <1>5 DEF LedgerInv, RecordInv, OneFailure
<1>6. CASE /\ op \in {"finish_two", "give_up"} /\ mode[c] = "attempt_two"
           /\ claimTwo # NoClaimTwo /\ claimTwo.attempt = c /\ resultTwo = NoResult
           /\ resultTwo' = [attempt |-> c, verdict |-> verdict[c]]
           /\ UNCHANGED <<checkpoint, claim, result, claimTwo>>
  BY <1>6 DEF LedgerInv, RecordInv, OneFailure
<1> QED
  BY <1>1, <1>2, <1>3, <1>4, <1>5, <1>6 DEF WriteEffect

\* A write files records of the right types, and a checkpoint that counts.
LEMMA LedgerTyped ==
    ASSUME LedgerInv, NEW c \in Command, NEW op \in Writes, WriteEffect(c, op)
    PROVE  /\ checkpoint' \in Progress /\ Counted(checkpoint')
           /\ claim' \in Claim /\ result' \in Result
           /\ claimTwo' \in ClaimTwo /\ resultTwo' \in Result
<1>1. /\ checkpoint \in Progress /\ Counted(checkpoint)
      /\ claim \in Claim /\ result \in Result
      /\ claimTwo \in ClaimTwo /\ resultTwo \in Result
      /\ here[c] \in Progress /\ Counted(here[c])
      /\ base[c] \in Progress /\ verdict[c] \in Verdict
  BY DEF LedgerInv, LedgerTypeOK, SaveInv, ProgressInv
<1>2. [attempt |-> c, checkpoint |-> base[c]] \in Claim
  BY <1>1 DEF Claim
<1>3. [attempt |-> c, verdict |-> verdict[c]] \in Result
  BY <1>1 DEF Result
<1>4. [attempt |-> c, checkpoint |-> checkpoint, claim |-> claim, result |-> result] \in ClaimTwo
  BY <1>1 DEF ClaimTwo
<1> QED
  BY <1>1, <1>2, <1>3, <1>4 DEF WriteEffect, ledgerVars

(***************************************************************************)
(* The commands.                                                           *)
(***************************************************************************)
CommandTypeOK ==
    /\ pc \in [Command -> Pc] /\ mode \in [Command -> Mode]
    /\ authorization \in [Command -> Command \cup {None}]
    /\ base \in [Command -> Progress] /\ previous \in [Command -> Progress]
    /\ here \in [Command -> Progress]
    /\ legacy \in [Command -> Claim \X Result]
    /\ verdict \in [Command -> Verdict] /\ exit \in [Command -> Exit]
    /\ late \in [Command -> Writes \cup {"none"}]
    /\ ingested \in SUBSET (1..References) /\ attempted \in SUBSET (1..References)
    /\ charged \in SUBSET Command

SameCommand(d) ==
    /\ pc'[d] = pc[d] /\ mode'[d] = mode[d] /\ late'[d] = late[d]
    /\ base'[d] = base[d] /\ previous'[d] = previous[d] /\ here'[d] = here[d]
    /\ legacy'[d] = legacy[d] /\ verdict'[d] = verdict[d]
    /\ d \in charged' <=> d \in charged

\* Whoever holds a claim holds it for ever.
LEMMA HolderStays ==
    ASSUME NEW c \in Command, NEW op \in Writes, WriteEffect(c, op), NEW d \in Command
    PROVE  /\ claim.attempt = d => claim'.attempt = d
           /\ claimTwo.attempt = d => claimTwo'.attempt = d
<1>1. claim = NoClaim => claim.attempt # d
  BY NoneAssumption DEF NoClaim
<1>2. claimTwo = NoClaimTwo => claimTwo.attempt # d
  BY NoneAssumption DEF NoClaimTwo
<1> QED
  BY <1>1, <1>2 DEF WriteEffect, ledgerVars

\* A command that a step leaves alone keeps its part of the invariant,
\* whatever the step writes: what it knows of the records stays true.
LEMMA OthersKept ==
    ASSUME LedgerInv, NEW c \in Command, NEW op \in Writes, WriteEffect(c, op),
           NEW d \in Command, SameCommand(d)
    PROVE  ProgressInv(d)' /\ AttemptInv(d)'
<1>1. ProgressInv(d) /\ AttemptInv(d)
  BY DEF LedgerInv, SaveInv
<1>2. ProgressInv(d)'
  BY <1>1 DEF ProgressInv, SameCommand, Pending, Counted, OneFailure
<1>3. AttemptInv(d)'
  BY <1>1, HolderStays DEF AttemptInv, SameCommand, Pending
<1> QED
  BY <1>2, <1>3

\* It is enough to look at the command that takes the step.
LEMMA StepKept ==
    ASSUME LedgerInv, NEW c \in Command, NEW op \in Writes, WriteEffect(c, op),
           \A d \in Command \ {c} : SameCommand(d),
           CommandTypeOK', ProgressInv(c)', AttemptInv(c)', RecordInv'
    PROVE  LedgerInv'
<1>1. \A d \in Command : ProgressInv(d)' /\ AttemptInv(d)'
  BY OthersKept
<1>2. LedgerTypeOK'
  BY LedgerTyped DEF LedgerTypeOK, CommandTypeOK
<1>3. Counted(checkpoint')
  BY LedgerTyped
<1> QED
  BY <1>1, <1>2, <1>3 DEF LedgerInv, SaveInv, Counted

(***************************************************************************)
(* The steps.  One that writes nothing has the effect of a refused write.  *)
(***************************************************************************)
\* A step that writes nothing and moves a living command keeps the records.
LEMMA QuietRecords ==
    ASSUME LedgerInv, NEW c \in Command, UNCHANGED ledgerVars,
           pc[c] # "done", pc'[c] # "idle",
           mode'[c] = mode[c] \/ pc[c] = "idle",
           \A d \in Command \ {c} : mode'[d] = mode[d] /\ pc'[d] = pc[d]
    PROVE  RecordInv'
BY DEF LedgerInv, RecordInv, ledgerVars

\* A command starts with nothing counted.
LEMMA StartKept ==
    ASSUME LedgerInv, NEW c \in Command, Start(c)
    PROVE  LedgerInv'
<1>1. PICK m \in Mode, a \in Command \cup {None} :
        /\ At(c, "idle")
        /\ mode' = [mode EXCEPT ![c] = m]
        /\ authorization' = [authorization EXCEPT ![c] = a]
        /\ Goto(c, IF m = "attempt_two" THEN "snapshot_two" ELSE "discover")
        /\ UNCHANGED <<ledgerVars, base, previous, here, legacy, verdict, late, historyVars>>
  BY DEF Start
<1>2. LedgerTypeOK /\ ProgressInv(c) /\ AttemptInv(c)
  BY DEF LedgerInv, SaveInv
<1>3. CommandTypeOK'
  BY <1>1, <1>2 DEF LedgerTypeOK, CommandTypeOK, Goto, Pc, Awaiting, Reading, historyVars
<1>4. \A d \in Command \ {c} : SameCommand(d)
  BY <1>1, <1>2 DEF LedgerTypeOK, SameCommand, Goto, historyVars
<1>5. ProgressInv(c)'
  BY <1>1, <1>2 DEF LedgerTypeOK, ProgressInv, Pending, Goto, At, Counted, OneFailure, Writes
<1>6. AttemptInv(c)'
  BY <1>1, <1>2 DEF LedgerTypeOK, ProgressInv, AttemptInv, Pending, Goto, At, historyVars, Writes, Mode
<1>7. RecordInv'
  BY <1>1, <1>2, QuietRecords DEF LedgerTypeOK, Goto, At
<1> QED
  BY <1>1, <1>3, <1>4, <1>5, <1>6, <1>7, StepKept DEF WriteEffect, Writes

\* A command that stops leaves at most its own write behind.
LEMMA StopsKept ==
    ASSUME LedgerInv, NEW c \in Command, Stops(c)
    PROVE  LedgerInv'
<1>1. PICK op \in {"none"} \cup ({pc[c]} \cap Writes) : late' = [late EXCEPT ![c] = op]
  BY DEF Stops
<1>2. /\ pc[c] \in Awaiting /\ Ends(c, "error")
      /\ UNCHANGED <<ledgerVars, commandVars, historyVars>>
  BY DEF Stops
<1>3. LedgerTypeOK /\ ProgressInv(c) /\ AttemptInv(c)
  BY DEF LedgerInv, SaveInv
<1>4. CommandTypeOK'
  BY <1>1, <1>2, <1>3
  DEF LedgerTypeOK, CommandTypeOK, Ends, Pc, Exit, commandVars, historyVars
<1>5. \A d \in Command \ {c} : SameCommand(d)
  BY <1>1, <1>2, <1>3 DEF LedgerTypeOK, SameCommand, Ends, commandVars, historyVars
<1>6. ProgressInv(c)'
  BY <1>1, <1>2, <1>3
  DEF LedgerTypeOK, ProgressInv, Pending, Ends, Counted, OneFailure, Writes, commandVars,
      Awaiting, Reading
<1>7. AttemptInv(c)'
  BY <1>1, <1>2, <1>3
  DEF LedgerTypeOK, AttemptInv, Pending, Ends, Writes, commandVars, historyVars,
      ledgerVars, Awaiting, Reading
<1>8. RecordInv'
  BY <1>2, <1>3, QuietRecords
  DEF LedgerTypeOK, Ends, commandVars, Awaiting, Reading, Writes
<1> QED
  BY <1>2, <1>4, <1>5, <1>6, <1>7, <1>8, StepKept DEF WriteEffect, Writes

\* Discovery sends an attempt two on only where there is one filing.
LEMMA DiscoverKept ==
    ASSUME LedgerInv, NEW c \in Command, Discover(c)
    PROVE  LedgerInv'
<1>1. PICK to \in {"load", "fetch", "give_up"} :
        /\ Goto(c, to)
        /\ to = "load" <=> mode[c] # "attempt_two"
        /\ to = "fetch" => References = 1
  BY Zenon DEF Discover
<1>2. pc[c] = "discover" /\ UNCHANGED <<ledgerVars, commandVars, late, historyVars>>
  BY DEF Discover, At
<1>3. LedgerTypeOK /\ ProgressInv(c) /\ AttemptInv(c)
  BY DEF LedgerInv, SaveInv
<1>4. CommandTypeOK'
  BY <1>1, <1>2, <1>3
  DEF LedgerTypeOK, CommandTypeOK, Goto, Pc, Awaiting, Reading, Writes, commandVars, historyVars
<1>5. \A d \in Command \ {c} : SameCommand(d)
  BY <1>1, <1>2, <1>3 DEF LedgerTypeOK, SameCommand, Goto, commandVars, historyVars
<1>6. ProgressInv(c)'
  <2>1. pc'[c] = to /\ late'[c] = "none"
    BY <1>1, <1>2, <1>3 DEF LedgerTypeOK, ProgressInv, Goto
  <2>2. UNCHANGED <<base, previous, here, mode>>
    BY <1>2 DEF commandVars
  <2>3. to = "fetch" => here[c].cursor < References /\ mode[c] # "run"
    BY <1>1, <1>3 DEF ProgressInv, Nothing
  <2> QED
    BY <1>1, <1>3, <2>1, <2>2, <2>3 DEF ProgressInv, Pending, Counted
<1>7. AttemptInv(c)'
  BY <1>1, <1>2, <1>3
  DEF LedgerTypeOK, ProgressInv, AttemptInv, Pending, Goto, commandVars, historyVars,
      ledgerVars, Mode, Retries
<1>8. RecordInv'
  BY <1>1, <1>2, <1>3, QuietRecords DEF LedgerTypeOK, Goto, commandVars
<1> QED
  BY <1>2, <1>4, <1>5, <1>6, <1>7, <1>8, StepKept DEF WriteEffect, Writes

\* A first retry goes on only with the one failed filing.
LEMMA ReadSnapshotKept ==
    ASSUME LedgerInv, NEW c \in Command, ReadSnapshot(c)
    PROVE  LedgerInv'
<1>1. PICK to \in {"done", "claim"} :
        /\ pc' = [pc EXCEPT ![c] = to]
        /\ exit' = exit \/ exit' = [exit EXCEPT ![c] = "success"]
        /\ to = "claim" => References = 1 /\ OneFailure(base[c])
  BY Zenon DEF ReadSnapshot, Ends, Goto
<1>2. pc[c] = "snapshot" /\ UNCHANGED <<ledgerVars, commandVars, late, historyVars>>
  BY DEF ReadSnapshot, At
<1>3. LedgerTypeOK /\ ProgressInv(c) /\ AttemptInv(c)
  BY DEF LedgerInv, SaveInv
<1>4. CommandTypeOK'
  BY <1>1, <1>2, <1>3
  DEF LedgerTypeOK, CommandTypeOK, Pc, Awaiting, Writes, Exit, commandVars, historyVars
<1>5. \A d \in Command \ {c} : SameCommand(d)
  BY <1>1, <1>2, <1>3 DEF LedgerTypeOK, SameCommand, commandVars, historyVars
<1>6. ProgressInv(c)'
  <2>1. pc'[c] \in {"done", "claim"} /\ late'[c] = "none"
    BY <1>1, <1>2, <1>3 DEF LedgerTypeOK, ProgressInv
  <2>2. pc'[c] = "claim" => References = 1 /\ OneFailure(base[c])
    BY <1>1, <1>3 DEF LedgerTypeOK
  <2>3. UNCHANGED <<base, previous, here, mode>> /\ mode[c] = "retry"
    BY <1>2, <1>3 DEF commandVars, ProgressInv
  <2> QED
    BY <1>3, <2>1, <2>2, <2>3 DEF ProgressInv, Pending, Counted, OneFailure
<1>7. AttemptInv(c)'
  BY <1>1, <1>2, <1>3
  DEF LedgerTypeOK, ProgressInv, AttemptInv, Pending, commandVars, historyVars, ledgerVars
<1>8. RecordInv'
  BY <1>1, <1>2, <1>3, QuietRecords DEF LedgerTypeOK, commandVars
<1> QED
  BY <1>2, <1>4, <1>5, <1>6, <1>7, <1>8, StepKept DEF WriteEffect, Writes

\* An attempt two goes on with the records it has read.
LEMMA ReadSnapshotTwoKept ==
    ASSUME LedgerInv, NEW c \in Command, ReadSnapshotTwo(c)
    PROVE  LedgerInv'
<1>1. /\ pc[c] = "snapshot_two" /\ SnapshotTwoValid
      /\ UNCHANGED <<ledgerVars, mode, authorization, previous, here, verdict, late, historyVars>>
  BY DEF ReadSnapshotTwo, At
<1>2. LedgerTypeOK /\ Counted(checkpoint) /\ ProgressInv(c) /\ AttemptInv(c)
  BY DEF LedgerInv, SaveInv
<1>3. CASE \E e \in Exit : Ends(c, e) /\ UNCHANGED <<base, legacy>>
  <2>1. CommandTypeOK'
    <3>1. /\ pc' \in [Command -> Pc] /\ exit' \in [Command -> Exit]
          /\ base' = base /\ legacy' = legacy
      BY <1>2, <1>3 DEF LedgerTypeOK, Pc, Ends
    <3> QED
      BY <1>1, <1>2, <3>1 DEF LedgerTypeOK, CommandTypeOK, historyVars
  <2>2. \A d \in Command \ {c} : SameCommand(d)
    BY <1>1, <1>2, <1>3 DEF LedgerTypeOK, SameCommand, Ends, historyVars
  <2>3. ProgressInv(c)'
    BY <1>1, <1>2, <1>3
    DEF LedgerTypeOK, ProgressInv, Pending, Counted, OneFailure, Ends
  <2>4. AttemptInv(c)'
    BY <1>1, <1>2, <1>3
    DEF LedgerTypeOK, ProgressInv, AttemptInv, Pending, Ends, historyVars, ledgerVars
  <2>5. RecordInv'
    BY <1>1, <1>2, <1>3, QuietRecords DEF LedgerTypeOK, Ends
  <2> QED
    BY <1>1, <2>1, <2>2, <2>3, <2>4, <2>5, StepKept DEF WriteEffect, Writes
<1>4. CASE /\ base' = [base EXCEPT ![c] = checkpoint]
           /\ legacy' = [legacy EXCEPT ![c] = <<claim, result>>]
           /\ Goto(c, "claim_two")
  <2>1. CommandTypeOK'
    <3>1. <<claim, result>> \in Claim \X Result
      BY <1>2 DEF LedgerTypeOK
    <3>2. legacy' \in [Command -> Claim \X Result] /\ base' \in [Command -> Progress]
      BY <1>2, <1>4, <3>1 DEF LedgerTypeOK
    <3>3. pc' \in [Command -> Pc] /\ exit' = exit
      BY <1>2, <1>4 DEF LedgerTypeOK, Pc, Awaiting, Writes, Goto
    <3> QED
      BY <1>1, <1>2, <3>2, <3>3 DEF LedgerTypeOK, CommandTypeOK, historyVars
  <2>2. \A d \in Command \ {c} : SameCommand(d)
    BY <1>1, <1>2, <1>4 DEF LedgerTypeOK, SameCommand, Goto, historyVars
  <2>3. ProgressInv(c)'
    BY <1>1, <1>2, <1>4
    DEF LedgerTypeOK, ProgressInv, Pending, Counted, OneFailure, Goto
  <2>4. AttemptInv(c)'
    BY <1>1, <1>2, <1>4
    DEF LedgerTypeOK, ProgressInv, AttemptInv, Pending, SnapshotTwoValid, Goto, historyVars,
        ledgerVars
  <2>5. RecordInv'
    BY <1>1, <1>2, <1>4, QuietRecords DEF LedgerTypeOK, Goto
  <2> QED
    BY <1>1, <2>1, <2>2, <2>3, <2>4, <2>5, StepKept DEF WriteEffect, Writes
<1> QED
  BY <1>3, <1>4 DEF ReadSnapshotTwo, Exit

\* The rest of the loop: the next filing, or the last save.
LEMMA LoopKept ==
    ASSUME LedgerInv, NEW c \in Command, NEW start \in Progress, NEW progress \in Progress,
           Counted(start), Counted(progress), ~progress.complete,
           NextFiling(c, start, progress)
    PROVE  /\ here' \in [Command -> Progress]
           /\ \A d \in Command \ {c} : here'[d] = here[d]
           /\ Counted(here'[c])
           /\ \/ /\ Goto(c, "fetch")
                 /\ progress.cursor < References /\ here'[c] = progress
              \/ /\ Goto(c, "final_save")
                 /\ progress.cursor = References
                 /\ here'[c] = [progress EXCEPT !.complete = TRUE]
<1> USE ReferencesAssumption
<1>1. here \in [Command -> Progress]
  BY DEF LedgerInv, LedgerTypeOK
<1>2. CASE progress.cursor < References
  BY <1>1, <1>2 DEF NextFiling, Counted
<1>3. CASE ~(progress.cursor < References)
  <2> DEFINE sum == start.cursor + (progress.processed - start.processed)
                       + (progress.failed - start.failed)
  <2>1. progress.cursor = References
    BY <1>3 DEF Progress
  <2>2. sum >= References
    BY <2>1 DEF Counted, Progress
  <2>3. Goto(c, "final_save") /\ here' = [here EXCEPT ![c] = [progress EXCEPT !.complete = TRUE]]
    BY <1>3, <2>2 DEF NextFiling
  <2>4. /\ [progress EXCEPT !.complete = TRUE] \in Progress
        /\ Counted([progress EXCEPT !.complete = TRUE])
    BY <2>1 DEF Progress, Counted
  <2> QED
    BY <1>1, <2>1, <2>3, <2>4
<1> QED
  BY <1>2, <1>3

\* Where loading the checkpoint takes a command.
LEMMA LoadEffect ==
    ASSUME LedgerInv, NEW c \in Command, LoadCheckpoint(c)
    PROVE  \E to \in {"snapshot", "fetch", "final_save"} :
           /\ Goto(c, to)
           /\ here' \in [Command -> Progress] /\ Counted(here'[c])
           /\ \A d \in Command \ {c} : here'[d] = here[d]
           /\ to = "snapshot" => mode[c] = "retry" /\ here'[c] = here[c]
           /\ to = "fetch" => /\ mode[c] = "run" /\ here'[c].cursor < References
                             /\ here'[c] = [checkpoint EXCEPT !.complete = FALSE]
           /\ to = "final_save" => /\ mode[c] = "run"
                                  /\ here'[c] = [checkpoint EXCEPT !.complete = TRUE]
<1>1. LedgerTypeOK /\ Counted(checkpoint) /\ ProgressInv(c)
  BY DEF LedgerInv, SaveInv
<1>2. mode[c] # "attempt_two"
  BY <1>1 DEF LoadCheckpoint, At, ProgressInv
<1> DEFINE progress == [checkpoint EXCEPT !.complete = FALSE]
<1>3. checkpoint \in Progress /\ progress \in Progress /\ Counted(progress) /\ ~progress.complete
  BY <1>1 DEF LedgerTypeOK, Progress, Counted
<1>4. [progress EXCEPT !.complete = TRUE] = [checkpoint EXCEPT !.complete = TRUE]
  BY <1>3 DEF Progress
<1>5. CASE mode[c] = "retry"
  BY <1>1, <1>5 DEF LoadCheckpoint, ProgressInv, LedgerTypeOK
<1>6. CASE mode[c] # "retry"
  <2>1. mode[c] = "run" /\ NextFiling(c, checkpoint, progress)
    BY <1>1, <1>2, <1>6 DEF LoadCheckpoint, LedgerTypeOK, Mode
  <2>2. /\ here' \in [Command -> Progress] /\ Counted(here'[c])
        /\ \A d \in Command \ {c} : here'[d] = here[d]
        /\ \/ /\ Goto(c, "fetch")
              /\ progress.cursor < References /\ here'[c] = progress
           \/ /\ Goto(c, "final_save")
              /\ here'[c] = [progress EXCEPT !.complete = TRUE]
    BY <1>1, <1>3, <2>1, LoopKept
  <2>3. CASE Goto(c, "fetch") /\ progress.cursor < References /\ here'[c] = progress
    BY <2>1, <2>2, <2>3
  <2>4. CASE Goto(c, "final_save") /\ here'[c] = [progress EXCEPT !.complete = TRUE]
    BY <1>4, <2>1, <2>2, <2>4
  <2> QED
    BY <2>2, <2>3, <2>4
<1> QED
  BY <1>5, <1>6

\* A run resumes with what the checkpoint counts.
LEMMA LoadCheckpointKept ==
    ASSUME LedgerInv, NEW c \in Command, LoadCheckpoint(c)
    PROVE  LedgerInv'
<1> USE ReferencesAssumption
<1>1. /\ pc[c] = "load"
      /\ base' = [base EXCEPT ![c] = checkpoint]
      /\ previous' = [previous EXCEPT ![c] = checkpoint]
      /\ UNCHANGED <<ledgerVars, mode, authorization, legacy, verdict, late, historyVars>>
  BY DEF LoadCheckpoint, At
<1>2. LedgerTypeOK /\ Counted(checkpoint) /\ ProgressInv(c) /\ AttemptInv(c)
  BY DEF LedgerInv, SaveInv
<1>3. late[c] = "none" /\ mode[c] # "attempt_two"
  BY <1>1, <1>2 DEF ProgressInv
<1>4. /\ base'[c] = checkpoint /\ previous'[c] = checkpoint
      /\ base' \in [Command -> Progress] /\ previous' \in [Command -> Progress]
      /\ \A d \in Command \ {c} : base'[d] = base[d] /\ previous'[d] = previous[d]
  BY <1>1, <1>2 DEF LedgerTypeOK
<1>5. PICK to \in {"snapshot", "fetch", "final_save"} :
        /\ Goto(c, to)
        /\ here' \in [Command -> Progress] /\ Counted(here'[c])
        /\ \A d \in Command \ {c} : here'[d] = here[d]
        /\ to = "snapshot" => mode[c] = "retry" /\ here'[c] = here[c]
        /\ to = "fetch" => /\ mode[c] = "run" /\ here'[c].cursor < References
                          /\ here'[c] = [checkpoint EXCEPT !.complete = FALSE]
        /\ to = "final_save" => /\ mode[c] = "run"
                               /\ here'[c] = [checkpoint EXCEPT !.complete = TRUE]
  BY LoadEffect
<1>6. CommandTypeOK'
  BY <1>1, <1>2, <1>4, <1>5
  DEF LedgerTypeOK, CommandTypeOK, Goto, Pc, Awaiting, Reading, Writes, historyVars
<1>7. \A d \in Command \ {c} : SameCommand(d)
  BY <1>1, <1>2, <1>4, <1>5 DEF LedgerTypeOK, SameCommand, Goto, historyVars
<1>8. ProgressInv(c)'
  <2>1. pc'[c] = to /\ late'[c] = "none" /\ mode' = mode
    BY <1>1, <1>2, <1>3, <1>5 DEF LedgerTypeOK, Goto
  <2> QED
    BY <1>1, <1>2, <1>4, <1>5, <2>1 DEF ProgressInv, Pending, Counted
<1>9. AttemptInv(c)'
  BY <1>1, <1>2, <1>3, <1>5
  DEF LedgerTypeOK, AttemptInv, Pending, Goto, historyVars, ledgerVars, Retries
<1>10. RecordInv'
  BY <1>1, <1>2, <1>5, QuietRecords DEF LedgerTypeOK, Goto
<1> QED
  BY <1>1, <1>6, <1>7, <1>8, <1>9, <1>10, StepKept DEF WriteEffect, Writes

\* Whoever is told that the claim is written holds it.
LEMMA ClaimedKept ==
    ASSUME LedgerInv, NEW c \in Command, Claimed(c)
    PROVE  LedgerInv'
<1> USE ReferencesAssumption
<1>1. /\ pc[c] \in {"claim", "claim_two"} /\ Write(c, pc[c], TRUE)
      /\ UNCHANGED <<commandVars, late, historyVars>>
  BY DEF Claimed, At
<1>2. LedgerTypeOK /\ ProgressInv(c) /\ AttemptInv(c)
  BY DEF LedgerInv, SaveInv
<1>3. PICK to \in {"fetch", "discover"} :
        /\ Goto(c, to)
        /\ to = "fetch" <=> pc[c] = "claim"
  BY DEF Claimed, At
<1>4. pc[c] \in Writes /\ Pending(c, pc[c]) /\ WriteEffect(c, pc[c])
  BY <1>1, WriteEffects DEF Writes, Pending
<1>5. CommandTypeOK'
  BY <1>1, <1>2, <1>3
  DEF LedgerTypeOK, CommandTypeOK, Goto, Pc, Awaiting, Reading, commandVars, historyVars
<1>6. \A d \in Command \ {c} : SameCommand(d)
  BY <1>1, <1>2, <1>3 DEF LedgerTypeOK, SameCommand, Goto, commandVars, historyVars
<1>7. pc'[c] = to /\ late'[c] = "none"
  BY <1>1, <1>2, <1>3 DEF LedgerTypeOK, ProgressInv, Goto
<1>8. ProgressInv(c)'
  <2>1. UNCHANGED <<base, previous, here, mode>>
    BY <1>1 DEF commandVars
  <2>2. to = "fetch" => here[c].cursor < References /\ mode[c] = "retry"
    BY <1>2, <1>3 DEF ProgressInv, Nothing, Pending
  <2> QED
    BY <1>2, <1>3, <1>7, <2>1, <2>2 DEF ProgressInv, Pending, Counted
<1>9. AttemptInv(c)'
  <2>1. UNCHANGED <<mode, legacy, verdict, charged>> /\ c \notin charged
    BY <1>1, <1>2 DEF commandVars, historyVars, AttemptInv
  <2>2. CASE pc[c] = "claim"
    <3>1. ClaimScript(c, TRUE) /\ mode[c] = "retry"
      BY <1>1, <1>2, <2>2 DEF Write, ProgressInv, Pending
    <3>2. claim'.attempt = c
      BY <3>1 DEF ClaimScript
    <3> QED
      BY <1>2, <1>3, <1>7, <2>1, <2>2, <3>1, <3>2 DEF AttemptInv, Pending
  <2>3. CASE pc[c] = "claim_two"
    <3>1. ClaimTwoScript(c, TRUE) /\ mode[c] = "attempt_two"
      BY <1>1, <1>2, <2>3 DEF Write, AttemptInv, Pending
    <3>2. claimTwo'.attempt = c
      BY <3>1 DEF ClaimTwoScript, ClaimTwoOf
    <3> QED
      BY <1>2, <1>3, <1>7, <2>1, <2>3, <3>1, <3>2 DEF AttemptInv, Pending
  <2> QED
    BY <1>1, <2>2, <2>3
<1>10. RecordInv'
  <2>1. UNCHANGED mode /\ \A d \in Command \ {c} : pc'[d] = pc[d]
    BY <1>1, <1>6 DEF commandVars, SameCommand
  <2> QED
    BY <1>1, <1>3, <1>4, <1>7, <2>1, RecordsKept
<1> QED
  BY <1>4, <1>5, <1>6, <1>8, <1>9, <1>10, StepKept

\* A filing that is done with.
LEMMA ConcludeKept ==
    ASSUME LedgerInv, NEW c \in Command, NEW v \in Verdict, Conclude(c, v),
           UNCHANGED <<ledgerVars, late>>,
           pc[c] \in {"fetch", "ingest"},
           ingested' \in SUBSET (1..References),
           charged' = charged,
           v # "other" => pc[c] = "ingest"
    PROVE  LedgerInv'
<1> USE ReferencesAssumption
<1>1. LedgerTypeOK /\ ProgressInv(c) /\ AttemptInv(c)
  BY DEF LedgerInv, SaveInv
<1>2. /\ here[c] \in Progress /\ here[c].cursor < References /\ Counted(here[c])
      /\ late[c] = "none"
  BY <1>1 DEF LedgerTypeOK, ProgressInv
<1>3. attempted' \in SUBSET (1..References)
  <2>1. here[c].cursor + 1 \in 1..References
    BY <1>2 DEF Progress
  <2> QED
    BY <1>1, <2>1 DEF Conclude, LedgerTypeOK
<1>4. UNCHANGED <<mode, authorization, base, previous, legacy>> /\ exit' = exit
  BY DEF Conclude, Goto
<1>5. CASE mode[c] = "run"
  <2> DEFINE next == [cursor |-> here[c].cursor + 1,
                 processed |-> here[c].processed + (IF v = "succeeded" THEN 1 ELSE 0),
                 failed |-> here[c].failed + (IF v = "succeeded" THEN 0 ELSE 1),
                 complete |-> FALSE]
  <2>1. here' = [here EXCEPT ![c] = next] /\ verdict' = verdict /\ Goto(c, "save")
    BY <1>5 DEF Conclude
  <2>2. next \in Progress /\ Counted(next) /\ ~next.complete
    BY <1>2 DEF Progress, Counted
  <2>3. here' \in [Command -> Progress] /\ here'[c] = next
    BY <1>1, <2>1, <2>2 DEF LedgerTypeOK
  <2> HIDE DEF next
  <2>4. CommandTypeOK'
    BY <1>1, <1>3, <1>4, <2>1, <2>3
    DEF LedgerTypeOK, CommandTypeOK, Goto, Pc, Awaiting, Writes
  <2>5. \A d \in Command \ {c} : SameCommand(d)
    BY <1>1, <1>4, <2>1 DEF LedgerTypeOK, SameCommand, Goto
  <2>6. pc'[c] = "save"
    BY <1>1, <2>1 DEF LedgerTypeOK, Goto
  <2>7. ~previous[c].complete
    <3>1. here[c] = [previous[c] EXCEPT !.complete = FALSE] /\ previous[c] \in Progress
      BY <1>1, <1>5 DEF ProgressInv, LedgerTypeOK
    <3>2. previous[c].cursor = here[c].cursor
      BY <3>1 DEF Progress
    <3> QED
      BY <1>1, <1>2, <3>1, <3>2 DEF ProgressInv, Progress, Counted
  <2>8. ProgressInv(c)'
    BY <1>1, <1>2, <1>4, <1>5, <2>2, <2>3, <2>6, <2>7 DEF ProgressInv, Pending, Counted
  <2>9. AttemptInv(c)'
    <3>1. c \notin charged
      BY <1>1, <1>5 DEF AttemptInv
    <3> QED
      BY <1>1, <1>2, <1>4, <1>5, <2>1, <2>6, <3>1 DEF AttemptInv, Pending, Retries
  <2>10. RecordInv'
    BY <1>4, <2>5, <2>6, QuietRecords DEF SameCommand
  <2> QED
    BY <2>4, <2>5, <2>8, <2>9, <2>10, StepKept DEF WriteEffect, Writes
<1>6. CASE mode[c] \in Retries
  <2>1. PICK to \in {"finish", "finish_two"} :
          /\ Goto(c, to)
          /\ to = "finish" <=> mode[c] = "retry"
    BY <1>6 DEF Conclude, Retries
  <2>2. verdict' = [verdict EXCEPT ![c] = v] /\ here' = here
    BY <1>6 DEF Conclude, Retries
  <2>3. CommandTypeOK'
    BY <1>1, <1>3, <1>4, <2>1, <2>2
    DEF LedgerTypeOK, CommandTypeOK, Goto, Pc, Awaiting, Writes
  <2>4. \A d \in Command \ {c} : SameCommand(d)
    BY <1>1, <1>4, <2>1, <2>2 DEF LedgerTypeOK, SameCommand, Goto
  <2>5. pc'[c] = to /\ verdict'[c] = v
    BY <1>1, <2>1, <2>2 DEF LedgerTypeOK, Goto
  <2>6. ProgressInv(c)'
    BY <1>1, <1>2, <1>4, <2>2, <2>5 DEF ProgressInv, Pending, Counted
  <2>7. AttemptInv(c)'
    BY <1>1, <1>2, <1>4, <1>6, <2>1, <2>5 DEF AttemptInv, Pending, Retries, ledgerVars
  <2>8. RecordInv'
    BY <1>4, <2>4, <2>5, QuietRecords DEF SameCommand
  <2> QED
    BY <2>3, <2>4, <2>6, <2>7, <2>8, StepKept DEF WriteEffect, Writes
<1> QED
  BY <1>1, <1>5, <1>6 DEF LedgerTypeOK, Mode, Retries

\* Only the holder of a claim gets to the paid call.
LEMMA FetchFilingKept ==
    ASSUME LedgerInv, NEW c \in Command, FetchFiling(c)
    PROVE  LedgerInv'
<1>1. pc[c] = "fetch" /\ UNCHANGED <<ledgerVars, late, ingested>>
  BY DEF FetchFiling, At
<1>2. LedgerTypeOK /\ ProgressInv(c) /\ AttemptInv(c)
  BY DEF LedgerInv, SaveInv
<1>3. CASE /\ Goto(c, "ingest")
           /\ charged' = charged \cup ({c} \cap {d \in Command : mode[d] \in Retries})
           /\ UNCHANGED <<commandVars, attempted>>
  <2>1. CommandTypeOK'
    BY <1>1, <1>2, <1>3 DEF LedgerTypeOK, CommandTypeOK, Goto, Pc, Awaiting, commandVars
  <2>2. \A d \in Command \ {c} : SameCommand(d)
    BY <1>1, <1>2, <1>3 DEF LedgerTypeOK, SameCommand, Goto, commandVars
  <2>3. pc'[c] = "ingest" /\ late'[c] = "none"
    BY <1>1, <1>2, <1>3 DEF LedgerTypeOK, ProgressInv, Goto
  <2>4. ProgressInv(c)'
    BY <1>1, <1>2, <1>3, <2>3 DEF ProgressInv, Pending, Counted, commandVars
  <2>5. AttemptInv(c)'
    BY <1>1, <1>2, <1>3, <2>3
    DEF LedgerTypeOK, AttemptInv, Pending, Retries, Mode, ledgerVars, commandVars
  <2>6. RecordInv'
    BY <1>1, <1>3, <2>2, <2>3, QuietRecords DEF SameCommand, commandVars
  <2> QED
    BY <1>1, <2>1, <2>2, <2>4, <2>5, <2>6, StepKept DEF WriteEffect, Writes
<1>4. CASE Conclude(c, "other") /\ UNCHANGED charged
  BY <1>1, <1>2, <1>4, ConcludeKept DEF LedgerTypeOK, Verdict
<1> QED
  BY <1>3, <1>4 DEF FetchFiling

\* An ingested filing is one of the plan.
LEMMA IngestFilingKept ==
    ASSUME LedgerInv, NEW c \in Command, IngestFiling(c)
    PROVE  LedgerInv'
<1> USE ReferencesAssumption
<1>1. /\ pc[c] = "ingest" /\ UNCHANGED <<ledgerVars, late, charged>>
  BY DEF IngestFiling, At
<1>2. PICK v \in Verdict :
        /\ Conclude(c, v)
        /\ ingested' = IF v = "succeeded" THEN ingested \cup {here[c].cursor + 1} ELSE ingested
  BY DEF IngestFiling
<1>3. ingested' \in SUBSET (1..References)
  <2>1. ingested \in SUBSET (1..References) /\ here[c] \in Progress /\ here[c].cursor < References
    BY <1>1 DEF LedgerInv, LedgerTypeOK, SaveInv, ProgressInv
  <2>2. here[c].cursor + 1 \in 1..References
    BY <2>1 DEF Progress
  <2> QED
    BY <1>2, <2>1, <2>2
<1> QED
  BY <1>1, <1>2, <1>3, ConcludeKept

\* Where a saved checkpoint takes a command.
LEMMA SaveEffect ==
    ASSUME LedgerInv, NEW c \in Command, SaveCheckpoint(c)
    PROVE  \E to \in {"fetch", "final_save", "done"} :
           /\ pc' = [pc EXCEPT ![c] = to] /\ exit' \in [Command -> Exit]
           /\ here' \in [Command -> Progress] /\ Counted(here'[c])
           /\ \A d \in Command \ {c} : here'[d] = here[d]
           /\ to = "fetch" => /\ here'[c].cursor < References
                             /\ here'[c] = [here[c] EXCEPT !.complete = FALSE]
           /\ to = "final_save" => here'[c] = [here[c] EXCEPT !.complete = TRUE]
           /\ to = "done" => here'[c] = here[c]
<1>1. LedgerTypeOK /\ ProgressInv(c)
  BY DEF LedgerInv, SaveInv
<1>2. pc[c] \in {"save", "final_save"}
  BY DEF SaveCheckpoint
<1>3. here[c] \in Progress /\ base[c] \in Progress /\ Counted(here[c]) /\ Counted(base[c])
      /\ exit \in [Command -> Exit]
  BY <1>1 DEF LedgerTypeOK, ProgressInv
<1>4. CASE pc[c] = "save"
  <2>1. ~here[c].complete /\ NextFiling(c, base[c], here[c])
    BY <1>1, <1>4 DEF ProgressInv, SaveCheckpoint, At
  <2>2. /\ here' \in [Command -> Progress] /\ Counted(here'[c])
        /\ \A d \in Command \ {c} : here'[d] = here[d]
        /\ \/ /\ Goto(c, "fetch")
              /\ here[c].cursor < References /\ here'[c] = here[c]
           \/ /\ Goto(c, "final_save")
              /\ here'[c] = [here[c] EXCEPT !.complete = TRUE]
    BY <1>3, <2>1, LoopKept
  <2>3. here[c] = [here[c] EXCEPT !.complete = FALSE]
    BY <1>3, <2>1 DEF Progress
  <2>4. CASE Goto(c, "fetch") /\ here[c].cursor < References /\ here'[c] = here[c]
    BY <1>3, <2>2, <2>3, <2>4 DEF Goto
  <2>5. CASE Goto(c, "final_save") /\ here'[c] = [here[c] EXCEPT !.complete = TRUE]
    BY <1>3, <2>2, <2>5 DEF Goto
  <2> QED
    BY <2>2, <2>4, <2>5
<1>5. CASE pc[c] = "final_save"
  <2>1. here' = here /\ \E e \in Exit : Ends(c, e)
    BY <1>5 DEF SaveCheckpoint, At, Exit
  <2> QED
    BY <1>1, <1>3, <2>1 DEF Ends, LedgerTypeOK
<1> QED
  BY <1>2, <1>4, <1>5

\* After a save the store adapter compares with what was saved.
LEMMA SaveCheckpointKept ==
    ASSUME LedgerInv, NEW c \in Command, SaveCheckpoint(c)
    PROVE  LedgerInv'
<1> USE ReferencesAssumption
<1>1. /\ pc[c] \in {"save", "final_save"} /\ Write(c, pc[c], TRUE)
      /\ previous' = [previous EXCEPT ![c] = here[c]]
      /\ UNCHANGED <<mode, authorization, base, legacy, verdict, late, historyVars>>
  BY DEF SaveCheckpoint
<1>2. LedgerTypeOK /\ ProgressInv(c) /\ AttemptInv(c)
  BY DEF LedgerInv, SaveInv
<1>3. pc[c] \in Writes /\ Pending(c, pc[c]) /\ WriteEffect(c, pc[c])
  BY <1>1, WriteEffects DEF Writes, Pending
<1>4. late[c] = "none" /\ mode[c] = "run" /\ c \notin charged
  BY <1>1, <1>2 DEF ProgressInv, AttemptInv
<1>5. /\ previous'[c] = here[c] /\ previous' \in [Command -> Progress]
      /\ \A d \in Command \ {c} : previous'[d] = previous[d]
  BY <1>1, <1>2 DEF LedgerTypeOK
<1>6. PICK to \in {"fetch", "final_save", "done"} :
        /\ pc' = [pc EXCEPT ![c] = to] /\ exit' \in [Command -> Exit]
        /\ here' \in [Command -> Progress] /\ Counted(here'[c])
        /\ \A d \in Command \ {c} : here'[d] = here[d]
        /\ to = "fetch" => /\ here'[c].cursor < References
                          /\ here'[c] = [here[c] EXCEPT !.complete = FALSE]
        /\ to = "final_save" => here'[c] = [here[c] EXCEPT !.complete = TRUE]
        /\ to = "done" => here'[c] = here[c]
  BY SaveEffect
<1>7. CommandTypeOK'
  BY <1>1, <1>2, <1>5, <1>6
  DEF LedgerTypeOK, CommandTypeOK, Pc, Awaiting, Writes, historyVars
<1>8. \A d \in Command \ {c} : SameCommand(d)
  BY <1>1, <1>2, <1>5, <1>6 DEF LedgerTypeOK, SameCommand, historyVars
<1>9. pc'[c] = to
  BY <1>2, <1>6 DEF LedgerTypeOK
<1>10. ProgressInv(c)'
  BY <1>1, <1>2, <1>4, <1>5, <1>6, <1>9 DEF ProgressInv, Pending, Counted
<1>11. AttemptInv(c)'
  BY <1>1, <1>2, <1>4, <1>6, <1>9 DEF AttemptInv, Pending, Retries, historyVars
<1>12. RecordInv'
  <2>1. \A d \in Command \ {c} : pc'[d] = pc[d]
    BY <1>8 DEF SameCommand
  <2> QED
    BY <1>1, <1>3, <1>9, <2>1, RecordsKept
<1> QED
  BY <1>3, <1>7, <1>8, <1>10, <1>11, <1>12, StepKept

\* A write is answered, or one left behind arrives: the command is done.
LEMMA LastWriteKept ==
    ASSUME LedgerInv, NEW c \in Command, NEW op \in Writes, Pending(c, op),
           NEW ok \in BOOLEAN, Write(c, op, ok),
           pc' = [pc EXCEPT ![c] = "done"],
           exit' \in [Command -> Exit],
           late' = late \/ late' = [late EXCEPT ![c] = "none"],
           UNCHANGED <<commandVars, historyVars>>
    PROVE  LedgerInv'
<1>1. LedgerTypeOK /\ ProgressInv(c) /\ AttemptInv(c)
  BY DEF LedgerInv, SaveInv
<1>2. WriteEffect(c, op)
  BY WriteEffects
<1>3. CommandTypeOK'
  BY <1>1 DEF LedgerTypeOK, CommandTypeOK, Pc, commandVars, historyVars
<1>4. \A d \in Command \ {c} : SameCommand(d)
  BY <1>1 DEF LedgerTypeOK, SameCommand, commandVars, historyVars
<1>5. /\ pc'[c] = "done" /\ late'[c] \in {late[c], "none"}
      /\ pc[c] # "idle"
  BY <1>1 DEF LedgerTypeOK, Pending, ProgressInv, Writes
<1>6. ProgressInv(c)'
  BY <1>1, <1>5 DEF ProgressInv, Pending, Counted, OneFailure, commandVars
<1>7. AttemptInv(c)'
  BY <1>1, <1>2, <1>5, HolderStays DEF AttemptInv, Pending, commandVars, historyVars
<1>8. RecordInv'
  <2>1. UNCHANGED mode /\ \A d \in Command \ {c} : pc'[d] = pc[d]
    BY <1>4 DEF commandVars, SameCommand
  <2> QED
    BY <1>2, <1>5, <2>1, RecordsKept
<1> QED
  BY <1>2, <1>3, <1>4, <1>6, <1>7, <1>8, StepKept

\* A result ends its command.
LEMMA FinishRetryKept ==
    ASSUME LedgerInv, NEW c \in Command, FinishRetry(c)
    PROVE  LedgerInv'
<1>1. pc[c] \in Writes /\ Pending(c, pc[c]) /\ Write(c, pc[c], TRUE)
  BY DEF FinishRetry, At, Writes, Pending
<1>2. PICK e \in Exit : Ends(c, e)
  BY DEF FinishRetry, Exit
<1>3. exit' \in [Command -> Exit]
  BY <1>2 DEF LedgerInv, LedgerTypeOK, Ends
<1> QED
  BY <1>1, <1>2, <1>3, LastWriteKept DEF FinishRetry, Ends

\* A refused write changes nothing.
LEMMA RefusedKept ==
    ASSUME LedgerInv, NEW c \in Command, Refused(c)
    PROVE  LedgerInv'
<1>1. pc[c] \in Writes /\ Pending(c, pc[c]) /\ Write(c, pc[c], FALSE)
  BY DEF Refused, Pending
<1>2. exit' \in [Command -> Exit]
  BY DEF LedgerInv, LedgerTypeOK, Refused, Ends, Exit
<1> QED
  BY <1>1, <1>2, LastWriteKept DEF Refused, Ends

\* A late write meets the records as they are then.
LEMMA ArrivesLateKept ==
    ASSUME LedgerInv, NEW c \in Command, ArrivesLate(c)
    PROVE  LedgerInv'
<1>1. /\ late[c] # "none" /\ late' = [late EXCEPT ![c] = "none"]
      /\ UNCHANGED <<pc, commandVars, exit, historyVars>>
  BY DEF ArrivesLate
<1>2. LedgerTypeOK /\ ProgressInv(c) /\ AttemptInv(c)
  BY DEF LedgerInv, SaveInv
<1>3. late[c] \in Writes /\ Pending(c, late[c]) /\ pc[c] = "done"
  BY <1>1, <1>2 DEF LedgerTypeOK, ProgressInv, Pending
<1>4. pc' = [pc EXCEPT ![c] = "done"] /\ exit' \in [Command -> Exit]
  BY <1>1, <1>2, <1>3 DEF LedgerTypeOK
<1>5. CASE \E ok \in BOOLEAN : Write(c, late[c], ok)
  BY <1>1, <1>3, <1>4, <1>5, LastWriteKept
<1>6. CASE UNCHANGED ledgerVars
  <2>1. CommandTypeOK'
    BY <1>1, <1>2 DEF LedgerTypeOK, CommandTypeOK, commandVars, historyVars
  <2>2. \A d \in Command \ {c} : SameCommand(d)
    BY <1>1, <1>2 DEF LedgerTypeOK, SameCommand, commandVars, historyVars
  <2>3. late'[c] = "none"
    BY <1>1, <1>2 DEF LedgerTypeOK
  <2>4. ProgressInv(c)'
    BY <1>1, <1>2, <2>3 DEF ProgressInv, Pending, Counted, OneFailure, commandVars
  <2>5. AttemptInv(c)'
    BY <1>1, <1>2, <1>3, <1>6, <2>3
    DEF AttemptInv, Pending, ledgerVars, commandVars, historyVars
  <2>6. RecordInv'
    BY <1>1, <1>6 DEF LedgerInv, RecordInv, ledgerVars, commandVars
  <2> QED
    BY <1>6, <2>1, <2>2, <2>4, <2>5, <2>6, StepKept DEF WriteEffect, Writes
<1> QED
  BY <1>5, <1>6 DEF ArrivesLate

(***************************************************************************)
(* The invariant.                                                          *)
(***************************************************************************)
\* The invariant holds with no records.
LEMMA LedgerInvInit == Init => LedgerInv
<1> SUFFICES ASSUME Init PROVE LedgerInv
  OBVIOUS
<1> USE ReferencesAssumption
<1>1. Nothing \in Progress /\ Counted(Nothing)
  BY DEF Nothing, Progress, Counted
<1>2. NoClaim \in Claim /\ NoResult \in Result
  BY <1>1 DEF NoClaim, Claim, NoResult, Result, Verdict
<1>3. NoClaimTwo \in ClaimTwo /\ <<NoClaim, NoResult>> \in Claim \X Result
  BY <1>1, <1>2 DEF NoClaimTwo, ClaimTwo
<1>4. LedgerTypeOK
  BY <1>1, <1>2, <1>3 DEF Init, LedgerTypeOK, Pc, Mode, Verdict, Exit
<1>5. SaveInv
  BY <1>1 DEF Init, SaveInv, ProgressInv, Pending
<1>6. RecordInv /\ \A c \in Command : AttemptInv(c)
  BY DEF Init, RecordInv, AttemptInv, Pending, Retries
<1> QED
  BY <1>4, <1>5, <1>6 DEF LedgerInv

\* Every step keeps the invariant.
LEMMA LedgerInvNext == LedgerInv /\ [Next]_vars => LedgerInv'
<1> SUFFICES ASSUME LedgerInv, [Next]_vars PROVE LedgerInv'
  OBVIOUS
<1>1. CASE UNCHANGED vars
  BY <1>1
  DEF LedgerInv, LedgerTypeOK, SaveInv, ProgressInv, RecordInv, AttemptInv, Pending, Counted,
      OneFailure, vars, ledgerVars, commandVars, historyVars
<1>2. CASE \E c \in Command : CommandStep(c) \/ ArrivesLate(c)
  BY <1>2, StartKept, StopsKept, DiscoverKept, LoadCheckpointKept, ReadSnapshotKept,
     ReadSnapshotTwoKept, ClaimedKept, FetchFilingKept, IngestFilingKept, SaveCheckpointKept,
     FinishRetryKept, RefusedKept, ArrivesLateKept
  DEF CommandStep
<1> QED
  BY <1>1, <1>2 DEF Next, Terminated

\* The invariant holds for ever.
LEMMA Invariance == Spec => []LedgerInv
BY LedgerInvInit, LedgerInvNext, PTL DEF Spec

\* LedgerTypeOK: every variable keeps its type; no count ever runs past the
\* number of filings.
THEOREM LedgerTyping == Spec => []LedgerTypeOK
BY Invariance, PTL DEF LedgerInv

\* LedgerReadable: the records pass the checks of both snapshots for ever,
\* however many commands race, stop, and leave writes behind.
THEOREM ReadableForEver == Spec => []LedgerReadable
<1>1. LedgerInv => LedgerReadable
  BY NoneAssumption
  DEF LedgerInv, RecordInv, LedgerReadable, SnapshotValid, SnapshotTwoValid, OneFailure, Nothing
<1> QED
  BY <1>1, Invariance, PTL

\* PaidByClaimant: each attempt is paid for by the command that holds its
\* claim, and the second only after a failed verification.
THEOREM PaidOnlyByClaimant == Spec => []PaidByClaimant
<1>1. LedgerInv => PaidByClaimant
  <2> SUFFICES ASSUME LedgerInv, NEW c \in charged
               PROVE  \/ mode[c] = "retry" /\ claim.attempt = c
                      \/ /\ mode[c] = "attempt_two" /\ claimTwo.attempt = c
                         /\ result.verdict = "vector_verification"
    BY DEF PaidByClaimant
  <2>1. c \in Command
    BY DEF LedgerInv, LedgerTypeOK
  <2>2. claimTwo.attempt = c => claimTwo # NoClaimTwo
    BY <2>1, NoneAssumption DEF NoClaimTwo
  <2> QED
    BY <2>1, <2>2 DEF LedgerInv, AttemptInv, RecordInv
<1> QED
  BY <1>1, Invariance, PTL

(***************************************************************************)
(* Steps.                                                                  *)
(***************************************************************************)
\* A step writes one record at most, and then moves no money; or it writes
\* nothing.
LEMMA StepEffects ==
    ASSUME LedgerInv, NEW c \in Command, CommandStep(c) \/ ArrivesLate(c)
    PROVE  \/ UNCHANGED ledgerVars
           \/ /\ \E op \in Writes : Pending(c, op) /\ WriteEffect(c, op)
              /\ UNCHANGED <<mode, verdict, charged>>
<1>1. CASE /\ \E op \in Writes, ok \in BOOLEAN : Pending(c, op) /\ Write(c, op, ok)
           /\ UNCHANGED <<mode, verdict, charged>>
  BY <1>1, WriteEffects
<1>2. CASE Claimed(c) \/ SaveCheckpoint(c) \/ FinishRetry(c) \/ Refused(c)
  <2>1. pc[c] \in Writes /\ Pending(c, pc[c])
    BY <1>2 DEF Claimed, SaveCheckpoint, FinishRetry, Refused, At, Writes, Pending
  <2>2. Write(c, pc[c], TRUE) \/ Write(c, pc[c], FALSE)
    BY <1>2 DEF Claimed, SaveCheckpoint, FinishRetry, Refused
  <2>3. UNCHANGED <<mode, verdict, charged>>
    BY <1>2 DEF Claimed, SaveCheckpoint, FinishRetry, Refused, commandVars, historyVars
  <2> QED
    BY <1>1, <2>1, <2>2, <2>3
<1>3. CASE ArrivesLate(c)
  <2>1. late[c] \in Writes /\ Pending(c, late[c])
    BY <1>3 DEF LedgerInv, LedgerTypeOK, ArrivesLate, Pending
  <2>2. UNCHANGED <<mode, verdict, charged>>
    BY <1>3 DEF ArrivesLate, commandVars, historyVars
  <2> QED
    BY <1>1, <1>3, <2>1, <2>2 DEF ArrivesLate
<1>4. CASE \/ Start(c) \/ Stops(c) \/ Discover(c) \/ LoadCheckpoint(c) \/ ReadSnapshot(c)
           \/ ReadSnapshotTwo(c) \/ FetchFiling(c) \/ IngestFiling(c)
  BY <1>4
  DEF Start, Stops, Discover, LoadCheckpoint, ReadSnapshot, ReadSnapshotTwo, FetchFiling,
      IngestFiling
<1> QED
  BY <1>2, <1>3, <1>4 DEF CommandStep

\* LedgerAppendOnly: once a retry is claimed the checkpoint never changes,
\* and no claim or result changes once it is written.
THEOREM RecordsImmutable == Spec => LedgerAppendOnly
<1> DEFINE Immutable ==
        /\ claim # NoClaim => UNCHANGED <<checkpoint, claim>>
        /\ result # NoResult => UNCHANGED result
        /\ claimTwo # NoClaimTwo => UNCHANGED claimTwo
        /\ resultTwo # NoResult => UNCHANGED resultTwo
<1>1. LedgerInv /\ [Next]_vars => [Immutable]_vars
  <2> SUFFICES ASSUME LedgerInv, [Next]_vars PROVE Immutable
    BY DEF Immutable
  <2>1. CASE UNCHANGED ledgerVars
    BY <2>1 DEF ledgerVars
  <2>2. CASE \E c \in Command : \E op \in Writes : WriteEffect(c, op)
    BY <2>2 DEF WriteEffect, ledgerVars
  <2> QED
    BY <2>1, <2>2, StepEffects DEF Next, Terminated, vars
<1> QED
  BY <1>1, Invariance, PTL DEF Spec, LedgerAppendOnly

\* A pair of values, one for each attempt, and what changing one does.
LEMMA BothValues ==
    ASSUME NEW x, NEW y PROVE Both(x, y)[1] = x /\ Both(x, y)[2] = y
BY DEF Both

\* The first of the two changes.
LEMMA BothFirst ==
    ASSUME NEW x, NEW y, NEW z PROVE [Both(x, y) EXCEPT ![1] = z] = Both(z, y)
<1> DEFINE changed == [Both(x, y) EXCEPT ![1] = z]
<1>1. changed = [a \in {1, 2} |-> changed[a]] /\ Both(z, y) = [a \in {1, 2} |-> Both(z, y)[a]]
  BY DEF Both
<1>2. \A a \in {1, 2} : changed[a] = Both(z, y)[a]
  BY DEF Both
<1> QED
  BY <1>1, <1>2

\* The second of the two changes.
LEMMA BothSecond ==
    ASSUME NEW x, NEW y, NEW z PROVE [Both(x, y) EXCEPT ![2] = z] = Both(x, z)
<1> DEFINE changed == [Both(x, y) EXCEPT ![2] = z]
<1>1. changed = [a \in {1, 2} |-> changed[a]] /\ Both(x, z) = [a \in {1, 2} |-> Both(x, z)[a]]
  BY DEF Both
<1>2. \A a \in {1, 2} : changed[a] = Both(x, z)[a]
  BY DEF Both
<1> QED
  BY <1>1, <1>2

\* AttemptsImplemented: the ledger implements RecoveryAttempts.  Each attempt
\* is claimed once, paid for once, and then finished once.
THEOREM TwoAttempts == Spec => AttemptsImplemented
<1>1. Init => Attempts!Init
  BY DEF Init, Attempts!Init, Attempts!Attempt, NoClaim, NoClaimTwo, Outcome, PaidFor, Both
<1>2. LedgerInv /\ [Next]_vars => [Attempts!Next]_(Attempts!vars)
  <2> SUFFICES ASSUME LedgerInv, [Next]_vars PROVE [Attempts!Next]_(Attempts!vars)
    OBVIOUS
  <2>1. CASE UNCHANGED vars
    BY <2>1 DEF vars, ledgerVars, commandVars, historyVars, Attempts!vars, Outcome, PaidFor
  <2>2. ASSUME NEW c \in Command, UNCHANGED ledgerVars, CommandStep(c) \/ ArrivesLate(c)
        PROVE  [Attempts!Next]_(Attempts!vars)
    <3>1. CASE charged' = charged /\ \A d \in charged : mode'[d] = mode[d]
      BY <2>2, <3>1 DEF ledgerVars, Attempts!vars, Outcome, PaidFor
    <3>2. CASE /\ pc[c] = "fetch" /\ mode[c] \in Retries /\ mode' = mode
               /\ charged' = charged \cup {c}
      <4>1. AttemptInv(c) /\ RecordInv /\ \A d \in charged : d \in Command /\ AttemptInv(d)
        BY DEF LedgerInv, LedgerTypeOK
      <4>2. CASE mode[c] = "retry"
        <5>1. claim.attempt = c /\ c \notin charged
          BY <3>2, <4>1, <4>2 DEF AttemptInv
        <5>2. \A d \in charged : mode[d] # "retry"
          BY <4>1, <5>1 DEF AttemptInv
        <5>3. result = NoResult
          BY <3>2, <4>1, <5>1 DEF RecordInv
        <5>4. /\ PaidFor("retry")' = TRUE /\ PaidFor("retry") = FALSE
              /\ PaidFor("attempt_two")' = PaidFor("attempt_two")
          BY <3>2, <4>2, <5>2 DEF PaidFor
        <5>5. Both(PaidFor("retry"), PaidFor("attempt_two"))' =
                [Both(PaidFor("retry"), PaidFor("attempt_two")) EXCEPT ![1] = TRUE]
          <6>1. Both(PaidFor("retry"), PaidFor("attempt_two"))' =
                  Both(PaidFor("retry")', PaidFor("attempt_two")')
            BY DEF Both
          <6>2. Both(PaidFor("retry")', PaidFor("attempt_two")') = Both(TRUE, PaidFor("attempt_two"))
            BY Zenon, <5>4
          <6>3. [Both(PaidFor("retry"), PaidFor("attempt_two")) EXCEPT ![1] = TRUE] = Both(TRUE, PaidFor("attempt_two"))
            BY Zenon, BothFirst
          <6> QED
            BY Zenon, <6>1, <6>2, <6>3
        <5>6. ~Both(PaidFor("retry"), PaidFor("attempt_two"))[1]
          BY Zenon, <5>4, BothValues
        <5>7. Attempts!Pay(1)
          BY <2>2, <5>1, <5>3, <5>5, <5>6, NoneAssumption, BothValues
          DEF Attempts!Pay, Attempts!Attempt, ledgerVars, Outcome
        <5> QED
          BY <5>7 DEF Attempts!Next, Attempts!Attempt
      <4>3. CASE mode[c] = "attempt_two"
        <5>1. claimTwo.attempt = c /\ c \notin charged
          BY <3>2, <4>1, <4>3 DEF AttemptInv
        <5>2. \A d \in charged : mode[d] # "attempt_two"
          BY <4>1, <5>1 DEF AttemptInv
        <5>3. resultTwo = NoResult
          BY <3>2, <4>1, <5>1 DEF RecordInv
        <5>4. /\ PaidFor("attempt_two")' = TRUE /\ PaidFor("attempt_two") = FALSE
              /\ PaidFor("retry")' = PaidFor("retry")
          BY <3>2, <4>3, <5>2 DEF PaidFor
        <5>5. Both(PaidFor("retry"), PaidFor("attempt_two"))' =
                [Both(PaidFor("retry"), PaidFor("attempt_two")) EXCEPT ![2] = TRUE]
          <6>1. Both(PaidFor("retry"), PaidFor("attempt_two"))' =
                  Both(PaidFor("retry")', PaidFor("attempt_two")')
            BY DEF Both
          <6>2. Both(PaidFor("retry")', PaidFor("attempt_two")') = Both(PaidFor("retry"), TRUE)
            BY Zenon, <5>4
          <6>3. [Both(PaidFor("retry"), PaidFor("attempt_two")) EXCEPT ![2] = TRUE] = Both(PaidFor("retry"), TRUE)
            BY Zenon, BothSecond
          <6> QED
            BY Zenon, <6>1, <6>2, <6>3
        <5>6. ~Both(PaidFor("retry"), PaidFor("attempt_two"))[2]
          BY Zenon, <5>4, BothValues
        <5>7. Attempts!Pay(2)
          BY <2>2, <5>1, <5>3, <5>5, <5>6, NoneAssumption, BothValues
          DEF Attempts!Pay, Attempts!Attempt, ledgerVars, Outcome
        <5> QED
          BY <5>7 DEF Attempts!Next, Attempts!Attempt
      <4> QED
        BY <3>2, <4>2, <4>3 DEF Retries
    <3>3. CASE FetchFiling(c)
      <4>1. pc[c] = "fetch" /\ mode' = mode
        BY <3>3 DEF FetchFiling, At, Conclude, commandVars
      <4>2. charged' = charged \/ (mode[c] \in Retries /\ charged' = charged \cup {c})
        BY <3>3 DEF FetchFiling
      <4> QED
        BY <3>1, <3>2, <4>1, <4>2
    <3>4. CASE Start(c)
      <4>1. charged' = charged /\ \A d \in Command \ {c} : mode'[d] = mode[d]
        BY <3>4 DEF Start, LedgerInv, LedgerTypeOK, historyVars
      <4>2. c \notin charged /\ charged \subseteq Command
        BY <3>4 DEF Start, At, LedgerInv, LedgerTypeOK, AttemptInv
      <4> QED
        BY <3>1, <4>1, <4>2
    <3>5. CASE ~FetchFiling(c) /\ ~Start(c)
      <4>1. charged' = charged /\ mode' = mode
        BY <2>2, <3>5
        DEF CommandStep, ArrivesLate, Stops, Discover, LoadCheckpoint, ReadSnapshot,
            ReadSnapshotTwo, Claimed, IngestFiling, Conclude, SaveCheckpoint, FinishRetry,
            Refused, commandVars, historyVars
      <4> QED
        BY <3>1, <4>1
    <3> QED
      BY <3>3, <3>4, <3>5
  <2>3. ASSUME NEW c \in Command, NEW op \in Writes, Pending(c, op), WriteEffect(c, op),
               UNCHANGED <<mode, verdict, charged>>
        PROVE  [Attempts!Next]_(Attempts!vars)
    <3>1. RecordInv /\ ProgressInv(c) /\ AttemptInv(c) /\ verdict[c] \in Verdict
      BY DEF LedgerInv, LedgerTypeOK, SaveInv
    <3>2. CASE UNCHANGED <<claim, result, claimTwo, resultTwo>>
      BY <2>3, <3>2 DEF Attempts!vars, Outcome, PaidFor
    <3>3. CASE /\ claim = NoClaim /\ claim' = [attempt |-> c, checkpoint |-> base[c]]
               /\ UNCHANGED <<result, claimTwo, resultTwo>>
      <4>1. Attempts!Claim(1, c)
        BY <2>3, <3>3, NoneAssumption, BothValues, BothFirst
        DEF Attempts!Claim, Attempts!Attempt, NoClaim, PaidFor
      <4> QED
        BY <4>1 DEF Attempts!Next, Attempts!Attempt
    <3>4. CASE /\ claim # NoClaim /\ claim.attempt = c /\ result = NoResult
               /\ mode[c] = "retry"
               /\ result' = [attempt |-> c, verdict |-> verdict[c]]
               /\ UNCHANGED <<claim, claimTwo, resultTwo>>
      <4>1. verdict[c] # "other" => Both(PaidFor("retry"), PaidFor("attempt_two"))[1]
        <5>1. verdict[c] # "other" => PaidFor("retry")
          BY <3>1, <3>4 DEF AttemptInv, PaidFor
        <5> QED
          BY Zenon, <5>1, BothValues
      <4>2. result' # NoResult /\ result'.verdict = verdict[c]
        BY <3>4, NoneAssumption DEF NoResult
      <4>3. Attempts!Finish(1, verdict[c])
        <5>1. UNCHANGED Both(PaidFor("retry"), PaidFor("attempt_two"))
          BY <2>3 DEF PaidFor
        <5> QED
          BY <3>4, <4>1, <4>2, <5>1, NoneAssumption, BothValues, BothFirst
          DEF Attempts!Finish, Attempts!Attempt, Outcome
      <4>4. verdict[c] \in {"succeeded", "vector_verification", "other"}
        BY <3>1 DEF Verdict
      <4>5. \E v \in {"succeeded", "vector_verification", "other"} : Attempts!Finish(1, v)
        BY Zenon, <4>3, <4>4
      <4> QED
        BY Zenon, <4>5 DEF Attempts!Next, Attempts!Attempt
    <3>5. CASE /\ claimTwo = NoClaimTwo /\ mode[c] = "attempt_two"
               /\ claim # NoClaim /\ result # NoResult
               /\ result.verdict = "vector_verification"
               /\ claimTwo' = [attempt |-> c, checkpoint |-> checkpoint,
                               claim |-> claim, result |-> result]
               /\ UNCHANGED <<claim, result, resultTwo>>
      <4>1. claim.attempt # c
        BY <3>1, <3>5 DEF RecordInv
      <4>2. Attempts!Claim(2, c)
        BY <2>3, <3>5, <4>1, NoneAssumption, BothValues, BothSecond
        DEF Attempts!Claim, Attempts!Attempt, NoClaimTwo, Outcome, PaidFor
      <4> QED
        BY <4>2 DEF Attempts!Next, Attempts!Attempt
    <3>6. CASE /\ claimTwo # NoClaimTwo /\ claimTwo.attempt = c /\ resultTwo = NoResult
               /\ mode[c] = "attempt_two"
               /\ resultTwo' = [attempt |-> c, verdict |-> verdict[c]]
               /\ UNCHANGED <<claim, result, claimTwo>>
      <4>1. verdict[c] # "other" => Both(PaidFor("retry"), PaidFor("attempt_two"))[2]
        <5>1. verdict[c] # "other" => PaidFor("attempt_two")
          BY <3>1, <3>6 DEF AttemptInv, PaidFor
        <5> QED
          BY Zenon, <5>1, BothValues
      <4>2. resultTwo' # NoResult /\ resultTwo'.verdict = verdict[c]
        BY <3>6, NoneAssumption DEF NoResult
      <4>3. Attempts!Finish(2, verdict[c])
        <5>1. UNCHANGED Both(PaidFor("retry"), PaidFor("attempt_two"))
          BY <2>3 DEF PaidFor
        <5> QED
          BY <3>6, <4>1, <4>2, <5>1, NoneAssumption, BothValues, BothSecond
          DEF Attempts!Finish, Attempts!Attempt, Outcome
      <4>4. verdict[c] \in {"succeeded", "vector_verification", "other"}
        BY <3>1 DEF Verdict
      <4>5. \E v \in {"succeeded", "vector_verification", "other"} : Attempts!Finish(2, v)
        BY Zenon, <4>3, <4>4
      <4> QED
        BY Zenon, <4>5 DEF Attempts!Next, Attempts!Attempt
    <3> QED
      BY <2>3, <3>2, <3>3, <3>4, <3>5, <3>6 DEF WriteEffect, ledgerVars
  <2> QED
    BY <2>1, <2>2, <2>3, StepEffects DEF Next, Terminated
<1> QED
  BY <1>1, <1>2, Invariance, PTL DEF Spec, AttemptsImplemented, Attempts!Spec

(***************************************************************************)
(* What the counts and the exit status stand on.                           *)
(***************************************************************************)
\* A progress record stands on the filings that were tried and ingested.
BackedBy(p, done, tried) ==
    /\ 1..p.cursor \subseteq tried
    /\ p.failed = 0 => 1..p.cursor \subseteq done
    /\ p.processed <= Cardinality(done \cap (1..p.cursor))

Backed(p) == BackedBy(p, ingested, attempted)

Successful == 1..References \subseteq ingested

ExactCommand(c) ==
    /\ Backed(base[c]) /\ Backed(previous[c]) /\ Backed(here[c])
    /\ mode[c] \in Retries /\ pc[c] \in {"fetch", "ingest"} => References = 1
    /\ verdict[c] = "succeeded" => Successful
    /\ exit[c] = "success" => Successful

ExactInv ==
    /\ Backed(checkpoint)
    /\ result.verdict = "succeeded" => Successful
    /\ resultTwo.verdict = "succeeded" => Successful
    /\ \A c \in Command : ExactCommand(c)

\* The filings of a set that lie before a cursor can be counted.
LEMMA FiniteBefore ==
    ASSUME NEW S, NEW n \in Nat
    PROVE  IsFiniteSet(S \cap (1..n)) /\ Cardinality(S \cap (1..n)) \in Nat
<1>1. IsFiniteSet(1..n)
  BY FS_Interval
<1>2. S \cap (1..n) \in SUBSET (1..n)
  OBVIOUS
<1>3. IsFiniteSet(S \cap (1..n))
  BY <1>1, <1>2, FS_Subset
<1> QED
  BY <1>3, FS_CardinalityType

\* What a record stands on does not go away.
LEMMA BackedStays ==
    ASSUME NEW p \in Progress, NEW done, NEW tried, BackedBy(p, done, tried),
           NEW more \in SUBSET (1..References), done \subseteq more,
           NEW again, tried \subseteq again
    PROVE  BackedBy(p, more, again)
<1> USE ReferencesAssumption
<1>1. IsFiniteSet(more \cap (1..p.cursor))
  BY FiniteBefore DEF Progress
<1>2. done \cap (1..p.cursor) \subseteq more \cap (1..p.cursor)
  OBVIOUS
<1>3. /\ Cardinality(done \cap (1..p.cursor)) \in Nat
      /\ Cardinality(more \cap (1..p.cursor)) \in Nat
      /\ Cardinality(done \cap (1..p.cursor)) <= Cardinality(more \cap (1..p.cursor))
  BY <1>1, <1>2, FS_Subset, FS_CardinalityType
<1> QED
  BY <1>3 DEF BackedBy, Progress

\* Whether the job is complete is not part of it.
LEMMA BackedComplete ==
    ASSUME NEW p \in Progress, NEW b \in BOOLEAN, NEW done, NEW tried,
           BackedBy(p, done, tried)
    PROVE  BackedBy([p EXCEPT !.complete = b], done, tried)
<1>1. /\ [p EXCEPT !.complete = b].cursor = p.cursor
      /\ [p EXCEPT !.complete = b].failed = p.failed
      /\ [p EXCEPT !.complete = b].processed = p.processed
  BY DEF Progress
<1> HIDE DEF Progress
<1> QED
  BY <1>1 DEF BackedBy

\* The bookkeeping for one more filing that was ingested.
LEMMA BackedSuccess ==
    ASSUME NEW p \in Progress, p.cursor < References,
           NEW done \in SUBSET (1..References), NEW tried, BackedBy(p, done, tried),
           NEW q \in Progress, q.cursor = p.cursor + 1,
           q.processed = p.processed + 1, q.failed = p.failed
    PROVE  BackedBy(q, done \cup {p.cursor + 1}, tried \cup {p.cursor + 1})
<1> USE ReferencesAssumption
<1> DEFINE n == p.cursor
           before == done \cap (1..n)
           after == (done \cup {n + 1}) \cap (1..(n + 1))
<1>1. n \in Nat /\ p.processed \in Nat /\ 1..(n + 1) = (1..n) \cup {n + 1}
  BY DEF Progress
<1>2. IsFiniteSet(before) /\ Cardinality(before) \in Nat
  BY <1>1, FiniteBefore
<1>3. n + 1 \notin before /\ after = before \cup {n + 1}
  BY <1>1
<1>4. Cardinality(after) = Cardinality(before) + 1
  BY <1>2, <1>3, FS_AddElement
<1>5. p.processed <= Cardinality(before)
  BY DEF BackedBy
<1>6. q.processed <= Cardinality(after)
  <2> HIDE DEF n, before, after
  <2> QED
    BY <1>1, <1>2, <1>4, <1>5
<1> QED
  BY <1>1, <1>6 DEF BackedBy

\* And for one that failed.
LEMMA BackedFailure ==
    ASSUME NEW p \in Progress, p.cursor < References,
           NEW done \in SUBSET (1..References), NEW tried, BackedBy(p, done, tried),
           NEW q \in Progress, q.cursor = p.cursor + 1,
           q.processed = p.processed, q.failed = p.failed + 1
    PROVE  BackedBy(q, done, tried \cup {p.cursor + 1})
<1> USE ReferencesAssumption
<1> DEFINE n == p.cursor
           before == done \cap (1..n)
           after == done \cap (1..(n + 1))
<1>1. n \in Nat /\ p.processed \in Nat /\ 1..(n + 1) = (1..n) \cup {n + 1}
  BY DEF Progress
<1>2. IsFiniteSet(after) /\ before \subseteq after
  BY <1>1, FiniteBefore
<1>3. /\ Cardinality(before) \in Nat /\ Cardinality(after) \in Nat
      /\ Cardinality(before) <= Cardinality(after)
  BY <1>2, FS_Subset, FS_CardinalityType
<1>4. p.processed <= Cardinality(before)
  BY DEF BackedBy
<1>5. q.processed <= Cardinality(after)
  <2> HIDE DEF n, before, after
  <2> QED
    BY <1>1, <1>3, <1>4
<1>6. q.failed # 0
  BY DEF Progress
<1> QED
  BY <1>1, <1>5, <1>6 DEF BackedBy

SameReport(d) ==
    /\ pc'[d] = pc[d] /\ mode'[d] = mode[d]
    /\ base'[d] = base[d] /\ previous'[d] = previous[d] /\ here'[d] = here[d]
    /\ verdict'[d] = verdict[d] /\ exit'[d] = exit[d]

\* It is enough to look at the command that takes the step.
LEMMA ExactKept ==
    ASSUME LedgerInv, LedgerInv', ExactInv, NEW c \in Command,
           ingested \subseteq ingested', attempted \subseteq attempted',
           checkpoint' = checkpoint \/ checkpoint' = here[c],
           result' = result \/ result'.verdict = verdict[c],
           resultTwo' = resultTwo \/ resultTwo'.verdict = verdict[c],
           \A d \in Command \ {c} : SameReport(d),
           ExactCommand(c)'
    PROVE  ExactInv'
<1>1. /\ checkpoint \in Progress /\ base \in [Command -> Progress]
      /\ previous \in [Command -> Progress] /\ here \in [Command -> Progress]
      /\ ingested' \in SUBSET (1..References)
  BY DEF LedgerInv, LedgerTypeOK
<1>2. ASSUME NEW p \in Progress, Backed(p)
      PROVE  BackedBy(p, ingested', attempted')
  BY <1>1, <1>2, BackedStays DEF Backed
<1>3. Successful => Successful'
  BY DEF Successful
<1>4. ASSUME NEW d \in Command \ {c} PROVE ExactCommand(d)'
  <2>1. ExactCommand(d)
    BY DEF ExactInv
  <2>2. /\ BackedBy(base[d], ingested', attempted')
        /\ BackedBy(previous[d], ingested', attempted')
        /\ BackedBy(here[d], ingested', attempted')
    BY <1>1, <1>2, <2>1 DEF ExactCommand
  <2> QED
    BY <1>3, <2>1, <2>2 DEF ExactCommand, SameReport, Backed
<1>5. Backed(checkpoint)'
  <2>1. BackedBy(checkpoint, ingested', attempted') /\ BackedBy(here[c], ingested', attempted')
    BY <1>1, <1>2 DEF ExactInv, ExactCommand
  <2> QED
    BY <2>1 DEF Backed
<1>6. verdict[c] = "succeeded" => Successful
  BY DEF ExactInv, ExactCommand
<1> QED
  BY <1>3, <1>4, <1>5, <1>6 DEF ExactInv

\* A step that ingests nothing and writes at most one record.
LEMMA ExactIdle ==
    ASSUME LedgerInv, LedgerInv', ExactInv, NEW c \in Command,
           CommandStep(c) \/ ArrivesLate(c),
           UNCHANGED <<ingested, attempted>>,
           \A d \in Command \ {c} : SameReport(d),
           ExactCommand(c)'
    PROVE  ExactInv'
<1>1. CASE UNCHANGED ledgerVars
  BY <1>1, ExactKept DEF ledgerVars
<1>2. CASE \E op \in Writes : WriteEffect(c, op)
  BY <1>2, ExactKept DEF WriteEffect, ledgerVars
<1> QED
  BY <1>1, <1>2, StepEffects

\* The steps that leave the progress of the command alone.
LEMMA ExactReads ==
    ASSUME LedgerInv, LedgerInv', ExactInv, NEW c \in Command,
           \/ Start(c) \/ Stops(c) \/ Discover(c) \/ ReadSnapshot(c) \/ ReadSnapshotTwo(c)
           \/ Claimed(c) \/ FinishRetry(c) \/ Refused(c) \/ ArrivesLate(c)
    PROVE  ExactInv'
<1>1. LedgerTypeOK /\ ProgressInv(c) /\ ExactCommand(c) /\ Backed(checkpoint)
  BY DEF LedgerInv, SaveInv, ExactInv
<1>2. /\ UNCHANGED <<ingested, attempted, previous, here, verdict>>
      /\ base' = base \/ base' = [base EXCEPT ![c] = checkpoint]
      /\ mode' = mode \/ (pc[c] = "idle" /\ pc'[c] \notin {"fetch", "ingest"}
                           /\ \A d \in Command \ {c} : mode'[d] = mode[d])
  BY <1>1
  DEF Start, Stops, Discover, ReadSnapshot, ReadSnapshotTwo, Claimed, FinishRetry, Refused,
      ArrivesLate, At, Goto, Ends, commandVars, historyVars, LedgerTypeOK
<1>3. /\ \A d \in Command \ {c} : pc'[d] = pc[d] /\ exit'[d] = exit[d]
      /\ pc'[c] = "ingest" => pc[c] = "ingest"
      /\ pc'[c] = "fetch" => pc[c] = "fetch" \/ References = 1
  BY <1>1
  DEF Start, Stops, Discover, ReadSnapshot, ReadSnapshotTwo, Claimed, FinishRetry, Refused,
      ArrivesLate, At, Goto, Ends, LedgerTypeOK, ProgressInv, Pending
<1>4. \A d \in Command \ {c} : SameReport(d)
  BY <1>1, <1>2, <1>3 DEF SameReport, LedgerTypeOK
<1>5. exit'[c] = "success" =>
        \/ exit[c] = "success" \/ verdict[c] = "succeeded"
        \/ result.verdict = "succeeded" \/ resultTwo.verdict = "succeeded"
  BY <1>1
  DEF Start, Stops, Discover, ReadSnapshot, ReadSnapshotTwo, Claimed, FinishRetry, Refused,
      ArrivesLate, At, Goto, Ends, LedgerTypeOK
<1>6. ExactCommand(c)'
  <2>1. Backed(base[c])' /\ Backed(previous[c])' /\ Backed(here[c])'
    BY <1>1, <1>2 DEF ExactCommand, Backed, LedgerTypeOK
  <2>2. exit'[c] = "success" => Successful'
    BY <1>1, <1>2, <1>5 DEF ExactCommand, ExactInv, Successful
  <2> QED
    BY <1>1, <1>2, <1>3, <2>1, <2>2 DEF ExactCommand, Successful
<1> QED
  BY <1>2, <1>4, <1>6, ExactIdle DEF CommandStep

\* A run resumes with a record that stands on the filings.
LEMMA ExactLoad ==
    ASSUME LedgerInv, LedgerInv', ExactInv, NEW c \in Command, LoadCheckpoint(c)
    PROVE  ExactInv'
<1>1. LedgerTypeOK /\ ExactCommand(c) /\ Backed(checkpoint)
  BY DEF LedgerInv, ExactInv
<1>2. /\ base' = [base EXCEPT ![c] = checkpoint]
      /\ previous' = [previous EXCEPT ![c] = checkpoint]
      /\ UNCHANGED <<mode, verdict, ingested, attempted>>
  BY DEF LoadCheckpoint, historyVars
<1>3. PICK to \in {"snapshot", "fetch", "final_save"} :
        /\ Goto(c, to)
        /\ \A d \in Command \ {c} : here'[d] = here[d]
        /\ to = "snapshot" => here'[c] = here[c]
        /\ to = "fetch" => mode[c] = "run" /\ here'[c] = [checkpoint EXCEPT !.complete = FALSE]
        /\ to = "final_save" => here'[c] = [checkpoint EXCEPT !.complete = TRUE]
  BY LoadEffect
<1>4. \A d \in Command \ {c} : SameReport(d)
  BY <1>1, <1>2, <1>3 DEF SameReport, LedgerTypeOK, Goto
<1>5. ExactCommand(c)'
  <2>1. checkpoint \in Progress /\ BackedBy(checkpoint, ingested, attempted)
    BY <1>1 DEF LedgerTypeOK, Backed
  <2>2. /\ BackedBy([checkpoint EXCEPT !.complete = FALSE], ingested, attempted)
        /\ BackedBy([checkpoint EXCEPT !.complete = TRUE], ingested, attempted)
    BY <2>1, BackedComplete
  <2>3. BackedBy(here'[c], ingested, attempted)
    BY <1>1, <1>3, <2>2 DEF ExactCommand, Backed
  <2>4. base'[c] = checkpoint /\ previous'[c] = checkpoint /\ pc'[c] = to /\ exit'[c] = exit[c]
    BY <1>1, <1>2, <1>3 DEF LedgerTypeOK, Goto
  <2> QED
    BY <1>1, <1>2, <1>3, <2>1, <2>3, <2>4 DEF ExactCommand, Backed, Successful, Retries
<1> QED
  BY <1>2, <1>4, <1>5, ExactIdle DEF CommandStep

\* A saved record stands on the filings, and so does an exit with success.
LEMMA ExactSave ==
    ASSUME LedgerInv, LedgerInv', ExactInv, NEW c \in Command, SaveCheckpoint(c)
    PROVE  ExactInv'
<1>1. LedgerTypeOK /\ ProgressInv(c) /\ ExactCommand(c)
  BY DEF LedgerInv, SaveInv, ExactInv
<1>2. /\ previous' = [previous EXCEPT ![c] = here[c]]
      /\ UNCHANGED <<mode, base, verdict, ingested, attempted>>
      /\ pc[c] \in {"save", "final_save"}
  BY DEF SaveCheckpoint, historyVars
<1>3. PICK to \in {"fetch", "final_save", "done"} :
        /\ pc' = [pc EXCEPT ![c] = to]
        /\ \A d \in Command \ {c} : here'[d] = here[d]
        /\ to = "fetch" => here'[c] = [here[c] EXCEPT !.complete = FALSE]
        /\ to = "final_save" => here'[c] = [here[c] EXCEPT !.complete = TRUE]
        /\ to = "done" => here'[c] = here[c]
  BY SaveEffect
<1>4. exit' = exit \/ \E e \in Exit : /\ exit' = [exit EXCEPT ![c] = e]
                                      /\ e = "success" => pc[c] = "final_save" /\ here[c].failed = 0
  BY DEF SaveCheckpoint, NextFiling, Goto, Ends, At, Exit
<1>5. \A d \in Command \ {c} : SameReport(d)
  BY <1>1, <1>2, <1>3, <1>4 DEF SameReport, LedgerTypeOK
<1>6. here[c] \in Progress /\ BackedBy(here[c], ingested, attempted)
  BY <1>1 DEF LedgerTypeOK, ExactCommand, Backed
<1>7. exit'[c] = "success" => Successful
  <2>1. CASE pc[c] = "final_save" /\ here[c].failed = 0
    <3>1. here[c].complete
      BY <1>1, <2>1 DEF ProgressInv, Pending, LedgerTypeOK, Progress
    <3>2. here[c].cursor = References
      BY <1>1, <3>1 DEF ProgressInv, Counted
    <3> QED
      BY <1>6, <2>1, <3>2 DEF BackedBy, Successful
  <2> QED
    BY <1>1, <1>4, <2>1 DEF LedgerTypeOK, ExactCommand
<1>8. ExactCommand(c)'
  <2>1. /\ BackedBy([here[c] EXCEPT !.complete = FALSE], ingested, attempted)
        /\ BackedBy([here[c] EXCEPT !.complete = TRUE], ingested, attempted)
    BY <1>6, BackedComplete
  <2>2. BackedBy(here'[c], ingested, attempted)
    BY <1>3, <1>6, <2>1
  <2>3. previous'[c] = here[c] /\ mode[c] = "run"
    BY <1>1, <1>2 DEF LedgerTypeOK, ProgressInv
  <2> QED
    BY <1>1, <1>2, <1>6, <1>7, <2>2, <2>3 DEF ExactCommand, Backed, Successful, Retries
<1> QED
  BY <1>2, <1>5, <1>8, ExactIdle DEF CommandStep

\* A filing that is done with: what is counted was tried, and what counts as
\* a success was ingested.
LEMMA ExactConclude ==
    ASSUME LedgerInv, LedgerInv', ExactInv, NEW c \in Command, NEW v \in Verdict,
           Conclude(c, v), UNCHANGED ledgerVars,
           pc[c] \in {"fetch", "ingest"},
           ingested' = IF v = "succeeded" THEN ingested \cup {here[c].cursor + 1} ELSE ingested
    PROVE  ExactInv'
<1>1. LedgerTypeOK /\ ProgressInv(c) /\ ExactCommand(c)
  BY DEF LedgerInv, SaveInv, ExactInv
<1>2. /\ attempted' = attempted \cup {here[c].cursor + 1}
      /\ UNCHANGED <<mode, base, previous, exit>>
  BY DEF Conclude, Goto
<1>3. ingested \subseteq ingested' /\ attempted \subseteq attempted'
  BY <1>2
<1>4. /\ here[c] \in Progress /\ base[c] \in Progress /\ previous[c] \in Progress
      /\ here[c].cursor < References
      /\ ingested \in SUBSET (1..References) /\ ingested' \in SUBSET (1..References)
  BY <1>1 DEF LedgerTypeOK, ProgressInv, LedgerInv
<1>5. \A d \in Command \ {c} : SameReport(d)
  BY <1>1, <1>2 DEF Conclude, Goto, SameReport, LedgerTypeOK
<1>6. BackedBy(base[c], ingested', attempted') /\ BackedBy(previous[c], ingested', attempted')
  BY <1>1, <1>3, <1>4, BackedStays DEF ExactCommand, Backed
<1>7. BackedBy(here[c], ingested, attempted) /\ BackedBy(here[c], ingested', attempted')
  BY <1>1, <1>3, <1>4, BackedStays DEF ExactCommand, Backed
<1>8. Successful => Successful'
  BY <1>3 DEF Successful
<1>9. CASE mode[c] = "run"
  <2> DEFINE next == [cursor |-> here[c].cursor + 1,
                 processed |-> here[c].processed + (IF v = "succeeded" THEN 1 ELSE 0),
                 failed |-> here[c].failed + (IF v = "succeeded" THEN 0 ELSE 1),
                 complete |-> FALSE]
  <2>1. here' = [here EXCEPT ![c] = next] /\ verdict' = verdict
    BY <1>9 DEF Conclude
  <2>2. here'[c] = next /\ next \in Progress
    BY <1>1, <2>1 DEF LedgerInv, LedgerTypeOK
  <2>3. /\ next.cursor = here[c].cursor + 1
        /\ v = "succeeded" => next.processed = here[c].processed + 1 /\ next.failed = here[c].failed
        /\ v # "succeeded" => next.processed = here[c].processed /\ next.failed = here[c].failed + 1
    BY <1>4 DEF Progress
  <2> HIDE DEF next
  <2>4. BackedBy(next, ingested', attempted')
    <3>1. CASE v = "succeeded"
      <4>1. BackedBy(next, ingested \cup {here[c].cursor + 1}, attempted \cup {here[c].cursor + 1})
        BY <1>4, <1>7, <2>2, <2>3, <3>1, BackedSuccess
      <4> QED
        BY <1>2, <3>1, <4>1
    <3>2. CASE v # "succeeded"
      <4>1. BackedBy(next, ingested, attempted \cup {here[c].cursor + 1})
        BY <1>4, <1>7, <2>2, <2>3, <3>2, BackedFailure
      <4> QED
        BY <1>2, <3>2, <4>1
    <3> QED
      BY <3>1, <3>2
  <2>5. ExactCommand(c)'
    <3>1. BackedBy(here'[c], ingested', attempted')
      BY <2>2, <2>4
    <3> QED
      BY <1>1, <1>2, <1>6, <1>8, <1>9, <2>1, <3>1 DEF ExactCommand, Backed, Retries
  <2> QED
    BY <1>3, <1>5, <2>5, ExactKept DEF ledgerVars
<1>10. CASE mode[c] \in Retries
  <2>1. here' = here /\ verdict' = [verdict EXCEPT ![c] = v] /\ verdict'[c] = v
    BY <1>1, <1>10 DEF Conclude, Retries, LedgerTypeOK
  <2>2. v = "succeeded" => Successful'
    <3>1. SUFFICES ASSUME v = "succeeded" PROVE Successful'
      OBVIOUS
    <3>2. References = 1 /\ here[c].cursor = 0
      BY <1>1, <1>4, <1>10 DEF ExactCommand, Progress
    <3> QED
      BY <3>1, <3>2 DEF Successful
  <2>3. pc'[c] \in {"finish", "finish_two"}
    BY <1>1, <1>10 DEF Conclude, Goto, Retries, LedgerTypeOK
  <2>4. ExactCommand(c)'
    BY <1>1, <1>2, <1>6, <1>7, <1>8, <2>1, <2>2, <2>3 DEF ExactCommand, Backed
  <2> QED
    BY <1>3, <1>5, <2>4, ExactKept DEF ledgerVars
<1> QED
  BY <1>1, <1>9, <1>10 DEF LedgerTypeOK, Mode, Retries

\* A filing that cannot be fetched counts as failed.
LEMMA ExactFetch ==
    ASSUME LedgerInv, LedgerInv', ExactInv, NEW c \in Command, FetchFiling(c)
    PROVE  ExactInv'
<1>1. LedgerTypeOK /\ ProgressInv(c) /\ ExactCommand(c)
  BY DEF LedgerInv, SaveInv, ExactInv
<1>2. pc[c] = "fetch" /\ UNCHANGED <<ledgerVars, ingested>>
  BY DEF FetchFiling, At
<1>3. CASE Goto(c, "ingest") /\ UNCHANGED <<commandVars, attempted>>
  <2>1. \A d \in Command \ {c} : SameReport(d)
    BY <1>1, <1>3 DEF SameReport, Goto, commandVars, LedgerTypeOK
  <2>2. ExactCommand(c)'
    BY <1>1, <1>2, <1>3 DEF ExactCommand, Backed, Successful, Goto, commandVars
  <2> QED
    BY <1>2, <1>3, <2>1, <2>2, ExactIdle DEF CommandStep
<1>4. CASE Conclude(c, "other")
  BY <1>2, <1>4, ExactConclude DEF Verdict
<1> QED
  BY <1>3, <1>4 DEF FetchFiling

\* A filing that was ingested counts as such.
LEMMA ExactIngest ==
    ASSUME LedgerInv, LedgerInv', ExactInv, NEW c \in Command, IngestFiling(c)
    PROVE  ExactInv'
BY ExactConclude DEF IngestFiling, At

\* Nothing counted stands on nothing.
LEMMA ExactInit == Init => ExactInv
<1> SUFFICES ASSUME Init PROVE ExactInv
  OBVIOUS
<1>1. BackedBy(Nothing, {}, {})
  <2>1. {} \cap (1..0) = {} /\ 1..0 = {}
    OBVIOUS
  <2>2. Cardinality({}) = 0
    BY FS_EmptySet
  <2>3. Nothing.cursor = 0 /\ Nothing.processed = 0
    BY DEF Nothing
  <2> QED
    BY <2>1, <2>2, <2>3 DEF BackedBy
<1> QED
  BY <1>1 DEF Init, ExactInv, ExactCommand, Backed, NoResult, Retries

\* Every step keeps the counts exact.
LEMMA ExactNext == LedgerInv /\ LedgerInv' /\ ExactInv /\ [Next]_vars => ExactInv'
<1> SUFFICES ASSUME LedgerInv, LedgerInv', ExactInv, [Next]_vars PROVE ExactInv'
  OBVIOUS
<1>1. CASE UNCHANGED vars
  BY <1>1
  DEF ExactInv, ExactCommand, Backed, Successful, vars, ledgerVars, commandVars, historyVars
<1>2. CASE \E c \in Command : CommandStep(c) \/ ArrivesLate(c)
  BY <1>2, ExactReads, ExactLoad, ExactFetch, ExactIngest, ExactSave DEF CommandStep
<1> QED
  BY <1>1, <1>2 DEF Next, Terminated

\* The counts are exact for ever.
LEMMA Exactness == Spec => [](LedgerInv /\ ExactInv)
<1>1. LedgerInv /\ ExactInv /\ [Next]_vars => (LedgerInv /\ ExactInv)'
  BY LedgerInvNext, ExactNext
<1> QED
  BY <1>1, LedgerInvInit, ExactInit, PTL DEF Spec

\* CheckpointExact: however often a job is resumed, and whoever races, its
\* checkpoint counts every filing before the cursor once, all of them tried,
\* and no more successes than there were.
THEOREM CheckpointIsExact == Spec => []CheckpointExact
<1>1. LedgerInv /\ ExactInv => CheckpointExact
  BY DEF LedgerInv, SaveInv, Counted, ExactInv, Backed, BackedBy, CheckpointExact
<1> QED
  BY <1>1, Exactness, PTL

\* ExitIsTrue: a command that exits with success leaves every filing of the
\* plan ingested.
THEOREM SuccessIsTrue == Spec => []ExitIsTrue
<1>1. ExactInv => ExitIsTrue
  BY DEF ExactInv, ExactCommand, Successful, ExitIsTrue
<1> QED
  BY <1>1, Exactness, PTL
=============================================================================
