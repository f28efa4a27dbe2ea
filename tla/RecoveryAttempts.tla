--------------------------- MODULE RecoveryAttempts ---------------------------
(***************************************************************************)
(* What the retry ledger promises whoever pays: a failed filing is         *)
(* recovered at most twice, each attempt belongs to one command, is paid   *)
(* for at most once and before its outcome is on file, and the second      *)
(* exists only where the first failed in vector verification.              *)
(***************************************************************************)
CONSTANTS Command, None

VARIABLES
    owner,   \* command each attempt belongs to, or None
    paid,    \* has the attempt been paid for
    outcome  \* "open", or how the attempt ended

vars == <<owner, paid, outcome>>

Attempt == {1, 2}

Init ==
    /\ owner = [a \in Attempt |-> None]
    /\ paid = [a \in Attempt |-> FALSE]
    /\ outcome = [a \in Attempt |-> "open"]

Claim(a, c) ==
    /\ owner[a] = None
    /\ c # owner[1]
    /\ a = 2 => outcome[1] = "vector_verification"
    /\ owner' = [owner EXCEPT ![a] = c]
    /\ UNCHANGED <<paid, outcome>>

Pay(a) ==
    /\ owner[a] # None /\ ~paid[a] /\ outcome[a] = "open"
    /\ paid' = [paid EXCEPT ![a] = TRUE]
    /\ UNCHANGED <<owner, outcome>>

\* Nothing succeeds, and nothing reaches verification, without being paid for.
Finish(a, v) ==
    /\ owner[a] # None /\ outcome[a] = "open"
    /\ v # "other" => paid[a]
    /\ outcome' = [outcome EXCEPT ![a] = v]
    /\ UNCHANGED <<owner, paid>>

Next ==
    \E a \in Attempt :
        \/ \E c \in Command : Claim(a, c)
        \/ Pay(a)
        \/ \E v \in {"succeeded", "vector_verification", "other"} : Finish(a, v)

Spec == Init /\ [][Next]_vars
=============================================================================
