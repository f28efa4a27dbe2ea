------------------------- MODULE ReservationBudget -------------------------
(***************************************************************************)
(* The daily budget of paid research calls: one counter per UTC day and    *)
(* one record per reservation in Redis, moved by three scripts (authorize, *)
(* commit, release), and the clients that call them: requests of the API   *)
(* and runs of the retrieval diagnostic.  A script may be executed after   *)
(* its caller has given up, or its answer may be lost.                     *)
(***************************************************************************)
EXTENDS UtcDay, FiniteSets

CONSTANTS ApiRequest, Diagnostic, Limit,
          MaxLate,      \* scripts in flight without a caller
          StartClock, MaxClock      \* the first and the last tick

Request == ApiRequest \cup Diagnostic

ASSUME BudgetAssumption ==
    /\ IsFiniteSet(Request)
    /\ ApiRequest \cap Diagnostic = {}
    /\ Limit \in Nat \ {0}
    /\ StartClock \in Nat /\ MaxClock \in Nat /\ StartClock <= MaxClock
    /\ MaxLate \in Nat

VARIABLES
    clock,
    counter, counterEnds,    \* per day: the budget key (0 is no key) and its expiry
    record, recordEnds,      \* per request: its reservation and its expiry
    window, day,             \* locals: the seconds to midnight, the day of the key
    pc,
    late,                    \* scripts whose caller has given up, still to arrive
    paid,                    \* history: the requests that made a paid call
    lapsed,                  \* history: the days whose counter has expired
    crossed,                 \* history: requests that date window and day differently
    excused                  \* history: see NothingStranded

redisVars == <<counter, counterEnds, record, recordEnds>>
localVars == <<window, day>>
historyVars == <<paid, lapsed, crossed, excused>>
vars == <<clock, redisVars, localVars, pc, late, historyVars>>

Day == 0..DayOf(MaxClock)
Script == {"authorize", "commit", "release"}
\* Both check the corpus between the authorization and the commit.
Awaiting == Script \cup {"check", "paid"}
Pc == Awaiting \cup {"idle", "date", "done"}

Init ==
    /\ clock = StartClock
    /\ counter = [d \in Day |-> 0]
    /\ counterEnds = [d \in Day |-> 0]
    /\ record = [r \in Request |-> "none"]
    /\ recordEnds = [r \in Request |-> 0]
    /\ window = [r \in Request |-> 0]
    /\ day = [r \in Request |-> 0]
    /\ pc = [r \in Request |-> "idle"]
    /\ late = [r \in Request |-> "none"]
    /\ paid = {} /\ lapsed = {} /\ crossed = {} /\ excused = {}

(***************************************************************************)
(* The scripts.  An expired record (recordEnds = 0) keeps its last state    *)
(* here, for the properties; no script sees it.  Nor does one ask for the   *)
(* expiry of a record that is committed or released.                       *)
(***************************************************************************)
Readable(r, state) == record[r] = state /\ recordEnds[r] # 0

\* Mutated: the limit is compared before the unit is added.
AuthorizeScriptLoose(r, answer) ==
    LET d == day[r]
    IN  /\ answer = (IF counter[d] > Limit THEN "refused" ELSE "ok")
        /\ IF answer = "ok"
           THEN /\ record' = [record EXCEPT ![r] = "authorized"]
                /\ recordEnds' = [recordEnds EXCEPT ![r] = clock + window[r] * TicksPerSecond]
                /\ counter' = [counter EXCEPT ![d] = @ + 1]
                /\ counterEnds' = [counterEnds EXCEPT ![d] =
                      IF counter[d] = 0 THEN clock + window[r] * TicksPerSecond ELSE @]
           ELSE UNCHANGED redisVars

\* Only the first unit of a counter sets its expiry; a counter whose TTL reads
\* zero takes no more.
AuthorizeScript(r, answer) ==
    LET d == day[r]
    IN  /\ \/ answer = (IF counter[d] + 1 > Limit THEN "refused" ELSE "ok")
           \/ counter[d] > 0 /\ MayRoundToZero(counterEnds[d] - clock) /\ answer = "unavailable"
        /\ IF answer = "ok"
           THEN /\ record' = [record EXCEPT ![r] = "authorized"]
                /\ recordEnds' = [recordEnds EXCEPT ![r] = clock + window[r] * TicksPerSecond]
                /\ counter' = [counter EXCEPT ![d] = @ + 1]
                /\ counterEnds' = [counterEnds EXCEPT ![d] =
                      IF counter[d] = 0 THEN clock + window[r] * TicksPerSecond ELSE @]
           ELSE UNCHANGED redisVars

\* Mutated: a commit does not compare the record.
CommitScriptBlind(r, answer) ==
    /\ answer = "ok"
    /\ record' = [record EXCEPT ![r] = "committed"]
    /\ UNCHANGED <<recordEnds, counter, counterEnds>>

CommitScript(r, answer) ==
    /\ answer = (IF Readable(r, "authorized") THEN "ok" ELSE "refused")
    /\ IF answer = "ok"
       THEN /\ record' = [record EXCEPT ![r] = "committed"]
            /\ recordEnds' = [recordEnds EXCEPT ![r] = 0]
       ELSE UNCHANGED <<record, recordEnds>>
    /\ UNCHANGED <<counter, counterEnds>>

\* Mutated: a release gives the unit back in whatever state the record is.
ReleaseScriptAny(r, answer) ==
    LET d == day[r]
    IN  /\ answer = (IF record[r] = "none" \/ counter[d] < 1 THEN "refused" ELSE "ok")
        /\ IF answer = "ok"
           THEN /\ record' = [record EXCEPT ![r] = "released"]
                /\ counter' = [counter EXCEPT ![d] = @ - 1]
                /\ counterEnds' = [counterEnds EXCEPT ![d] = IF counter[d] = 1 THEN 0 ELSE @]
                /\ recordEnds' = [recordEnds EXCEPT ![r] = 0]
           ELSE UNCHANGED redisVars

\* Mutated: a release does not look whether the counter still has the unit.
ReleaseScriptUnchecked(r, answer) ==
    LET d == day[r]
    IN  /\ answer = (IF Readable(r, "authorized") THEN "ok" ELSE "refused")
        /\ IF answer = "ok"
           THEN /\ record' = [record EXCEPT ![r] = "released"]
                /\ counter' = [counter EXCEPT ![d] = @ - 1]
                /\ counterEnds' = [counterEnds EXCEPT ![d] = IF counter[d] = 1 THEN 0 ELSE @]
                /\ recordEnds' = [recordEnds EXCEPT ![r] = 0]
           ELSE UNCHANGED redisVars

\* The counter that reaches zero is deleted.
ReleaseScript(r, answer) ==
    LET d == day[r]
    IN  /\ answer = (IF ~Readable(r, "authorized") THEN "refused"
                     ELSE IF counter[d] < 1 THEN "unavailable" ELSE "ok")
        /\ IF answer = "ok"
           THEN /\ record' = [record EXCEPT ![r] = "released"]
                /\ counter' = [counter EXCEPT ![d] = @ - 1]
                /\ counterEnds' = [counterEnds EXCEPT ![d] = IF counter[d] = 1 THEN 0 ELSE @]
                /\ recordEnds' = [recordEnds EXCEPT ![r] = 0]
           ELSE UNCHANGED redisVars

Executes(r, script, answer) ==
    \/ script = "authorize" /\ AuthorizeScript(r, answer)
    \/ script = "commit"    /\ CommitScript(r, answer)
    \/ script = "release"   /\ ReleaseScript(r, answer)

(***************************************************************************)
(* The clients.                                                            *)
(***************************************************************************)
At(r, from) == pc[r] = from
Goto(r, to) == pc' = [pc EXCEPT ![r] = to]

Starts(r) ==
    /\ At(r, "idle")
    /\ Goto(r, "date")
    /\ UNCHANGED <<clock, redisVars, late, historyVars>>

\* The API computes the window and then the day.
ApiArrives(r) ==
    /\ r \in ApiRequest /\ Starts(r)
    /\ window' = [window EXCEPT ![r] = WindowSeconds(clock)] /\ UNCHANGED day

\* The diagnostic computes the day and then the window.
DiagnosticArrives(r) ==
    /\ r \in Diagnostic /\ Starts(r)
    /\ day' = [day EXCEPT ![r] = DayOf(clock)] /\ UNCHANGED window

SendAuthorize(r) ==
    /\ At(r, "date")
    /\ IF r \in ApiRequest
       THEN day' = [day EXCEPT ![r] = DayOf(clock)] /\ UNCHANGED window
       ELSE window' = [window EXCEPT ![r] = WindowSeconds(clock)] /\ UNCHANGED day
    /\ Goto(r, "authorize")
    /\ UNCHANGED <<clock, redisVars, late, historyVars>>

\* A refusal ends the request (429, "budget rejected"); a counter about to
\* expire is an error like a lost answer.
Authorized(r) ==
    /\ At(r, "authorize")
    /\ \E answer \in {"ok", "refused", "unavailable"} :
          /\ AuthorizeScript(r, answer)
          /\ Goto(r, CASE answer = "ok"          -> "check"
                       [] answer = "refused"     -> "done"
                       [] answer = "unavailable" -> "release")
    /\ UNCHANGED <<clock, localVars, late, historyVars>>

\* The active manifests are listed (API), or read again (diagnostic): an
\* empty or changed corpus, or a refused question, ends it unpaid.
Checked(r) ==
    /\ At(r, "check")
    /\ Goto(r, "commit") \/ Goto(r, "release")
    /\ UNCHANGED <<clock, redisVars, localVars, late, historyVars>>

Committed(r) ==
    /\ At(r, "commit")
    /\ \E answer \in {"ok", "refused"} :
          /\ CommitScript(r, answer)
          /\ Goto(r, IF answer = "ok" THEN "paid" ELSE "release")
    /\ UNCHANGED <<clock, localVars, late, historyVars>>

\* The embedding, and what follows it: paid for whether it fails or not.  The
\* API releases in every case and relies on the script.
MakePaidCall(r) ==
    /\ At(r, "paid")
    /\ paid' = paid \cup {r}
    /\ Goto(r, IF r \in ApiRequest THEN "release" ELSE "done")
    /\ UNCHANGED <<clock, redisVars, localVars, late, lapsed, crossed, excused>>

Released(r) ==
    /\ At(r, "release")
    /\ \E answer \in {"ok", "refused", "unavailable"} : ReleaseScript(r, answer)
    /\ Goto(r, "done")
    /\ UNCHANGED <<clock, localVars, late, historyVars>>

\* What the caller of a script leaves behind when it gets no answer.
LeavesBehind(r) ==
    \/ UNCHANGED late
    \/ /\ pc[r] \in Script
       /\ Cardinality({q \in Request : late[q] # "none"}) < MaxLate
       /\ late[r] = "none"
       /\ late' = [late EXCEPT ![r] = pc[r]]

\* An await raises, runs into the deadline, or is cancelled in it.
GetsNoAnswer(r, next, keeps) ==
    /\ pc[r] \in Script \cup {"check"}
    /\ LeavesBehind(r)
    /\ Goto(r, next)
    /\ excused' = IF keeps THEN excused \cup {r} ELSE excused
    /\ UNCHANGED <<clock, redisVars, localVars, paid, lapsed, crossed>>

\* Mutated: only an authorization without an answer is released.
ApiFailsQuietly(r) ==
    /\ r \in ApiRequest
    /\ GetsNoAnswer(r, IF At(r, "authorize") THEN "release" ELSE "done", At(r, "release"))

\* Whatever the await, the API tries to give the unit back.
ApiFails(r) ==
    /\ r \in ApiRequest
    /\ GetsNoAnswer(r, IF At(r, "release") THEN "done" ELSE "release", At(r, "release"))

\* A diagnostic that does not learn the fate of its commit keeps the unit.
DiagnosticFails(r) ==
    /\ r \in Diagnostic
    /\ LET keeps == pc[r] \in {"commit", "release"}
       IN  GetsNoAnswer(r, IF keeps THEN "done" ELSE "release", keeps)

\* The process is killed; or a diagnostic is cancelled in an await in which it
\* releases nothing (authorize: it does not hold the reservation yet).
Dies(r) ==
    /\ pc[r] \in Awaiting
    /\ LeavesBehind(r)
    /\ Goto(r, "done")
    /\ excused' = excused \cup {r}
    /\ UNCHANGED <<clock, redisVars, localVars, paid, lapsed, crossed>>

\* An authorization that arrives after its release authorizes nobody.
ArrivesLate(r) ==
    /\ late[r] # "none"
    /\ late' = [late EXCEPT ![r] = "none"]
    /\ \E answer \in {"ok", "refused", "unavailable"} : Executes(r, late[r], answer)
    /\ excused' = IF late[r] = "authorize" /\ At(r, "done") THEN excused \cup {r} ELSE excused
    /\ UNCHANGED <<clock, localVars, pc, paid, lapsed, crossed>>

\* Time passes, and keys expire.
Tick ==
    /\ clock < MaxClock
    /\ clock' = clock + 1
    /\ LET gone == {d \in Day : counter[d] > 0 /\ counterEnds[d] <= clock + 1}
       IN  /\ counter' = [d \in Day |-> IF d \in gone THEN 0 ELSE counter[d]]
           /\ counterEnds' = [d \in Day |-> IF d \in gone THEN 0 ELSE counterEnds[d]]
           /\ lapsed' = lapsed \cup gone
    /\ recordEnds' = [r \in Request |-> IF recordEnds[r] <= clock + 1 THEN 0 ELSE recordEnds[r]]
    /\ crossed' = IF DayOf(clock + 1) = DayOf(clock) THEN crossed
                  ELSE crossed \cup {r \in Request : At(r, "date")}
    /\ UNCHANGED <<record, localVars, pc, late, paid, excused>>

RequestStep(r) ==
    \/ ApiArrives(r) \/ DiagnosticArrives(r) \/ SendAuthorize(r)
    \/ Authorized(r) \/ Checked(r) \/ Committed(r) \/ MakePaidCall(r) \/ Released(r)
    \/ ApiFails(r) \/ DiagnosticFails(r) \/ Dies(r) \/ ArrivesLate(r)

Terminated ==
    /\ clock = MaxClock
    /\ \A r \in Request : At(r, "done") /\ late[r] = "none"
    /\ UNCHANGED vars

Next == (\E r \in Request : RequestStep(r)) \/ Tick \/ Terminated

Spec == Init /\ [][Next]_vars
-----------------------------------------------------------------------------
(***************************************************************************)
(* Properties.                                                             *)
(***************************************************************************)
BudgetTypeOK ==
    /\ clock \in StartClock..MaxClock
    /\ counter \in [Day -> Nat]
    /\ counterEnds \in [Day -> Nat]
    /\ record \in [Request -> {"none", "authorized", "committed", "released"}]
    /\ recordEnds \in [Request -> Nat]
    /\ window \in [Request -> 0..SecondsPerDay]
    /\ day \in [Request -> Day]
    /\ pc \in [Request -> Pc]
    /\ late \in [Request -> Script \cup {"none"}]
    /\ paid \subseteq Request
    /\ lapsed \subseteq Day
    /\ crossed \subseteq Request
    /\ excused \subseteq Request

Holders(d) == {r \in Request : day[r] = d /\ record[r] \in {"authorized", "committed"}}

\* The counter of a day is the number of reservations that hold a unit of it,
\* whatever was lost, late or executed out of order: no unit is given back
\* twice, none is forgotten (the three scripts).
CounterIsHeld ==
    \A d \in Day \ lapsed : counter[d] = Cardinality(Holders(d))

\* A paid call has a committed reservation behind it, for ever: a release that
\* overtakes, or is overtaken, never refunds it (the CAS of the scripts, the
\* commit before the paid call).
PaidStaysCharged == \A r \in paid : record[r] = "committed"

\* No day pays for more calls than the limit, as long as its counter lives.
WithinLimit ==
    \A d \in Day \ lapsed : Cardinality({r \in paid : day[r] = d}) <= Limit

\* A counter lapses in the last second of its day, or later: whole seconds are
\* all that rounding loses.  Only a request that reads the window before midnight
\* and the date after it can do worse (api.py computes the window, the service
\* the date).
LapsesAtTheEnd ==
    \A d \in lapsed :
        \/ clock > Midnight(d) - TicksPerSecond
        \/ \E r \in crossed : day[r] = d

\* A finished request has given its unit back or spent it, unless its release
\* went unanswered, its authorization arrived after the release, it died, or
\* it is a diagnostic that keeps a unit whose commit went unanswered.
NothingStranded ==
    \A r \in Request :
        At(r, "done") /\ late[r] = "none" /\ Readable(r, "authorized")
            => r \in excused \/ day[r] \in lapsed
=============================================================================
