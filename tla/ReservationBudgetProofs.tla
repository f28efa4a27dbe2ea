----------------------- MODULE ReservationBudgetProofs -----------------------
(***************************************************************************)
(* Proofs about ReservationBudget for any number of requests, any limit,   *)
(* any length of a day and any number of scripts in flight: the counter is *)
(* the number of units held, what was paid for stays charged, no day pays  *)
(* for more than its limit, and where a unit or a day may be lost.         *)
(***************************************************************************)
EXTENDS ReservationBudget, FiniteSetTheorems, TLAPS

(***************************************************************************)
(* Arithmetic of the day.                                                  *)
(***************************************************************************)
\* Division by a positive number.
LEMMA Quotient ==
    ASSUME NEW n \in Nat \ {0}, NEW t \in Nat
    PROVE  t \div n \in Nat /\ n * (t \div n) <= t /\ t < n * (t \div n) + n
  OBVIOUS

LEMMA QuotientMonotone ==
    ASSUME NEW n \in Nat \ {0}, NEW s \in Nat, NEW t \in Nat, s <= t
    PROVE  s \div n <= t \div n
<1>1. \A p, q \in Int : p > q => n * p >= n * q + n
  OBVIOUS
<1> QED
  BY <1>1, Quotient

LEMMA DayLength == TicksPerDay \in Nat \ {0}
  BY UtcDayAssumption DEF TicksPerDay

\* A tick lies in its day; midnight is what its day ends with.
LEMMA DayHoldsItsTicks ==
    ASSUME NEW t \in Nat
    PROVE  /\ DayOf(t) \in Nat /\ Midnight(DayOf(t)) \in Nat
           /\ t < Midnight(DayOf(t)) /\ Midnight(DayOf(t)) <= t + TicksPerDay
<1>1. /\ DayOf(t) \in Nat
      /\ TicksPerDay * DayOf(t) <= t /\ t < TicksPerDay * DayOf(t) + TicksPerDay
  BY DayLength, Quotient DEF DayOf
<1>2. Midnight(DayOf(t)) = TicksPerDay * DayOf(t) + TicksPerDay
  BY <1>1, DayLength DEF Midnight
<1> QED
  BY <1>1, <1>2, DayLength

\* The window is no longer than a day, and ends in its last second or later.
LEMMA WindowReachesMidnight ==
    ASSUME NEW t \in Nat
    PROVE  /\ WindowSeconds(t) \in 1..SecondsPerDay
           /\ t + WindowSeconds(t) * TicksPerSecond > Midnight(DayOf(t)) - TicksPerSecond
<1> DEFINE ticks == Midnight(DayOf(t)) - t
           left == ticks \div TicksPerSecond
<1>1. ticks \in Nat /\ ticks <= TicksPerSecond * SecondsPerDay
  BY DayHoldsItsTicks, DayLength DEF TicksPerDay
<1>2. left \in Nat /\ TicksPerSecond * left <= ticks /\ ticks < TicksPerSecond * left + TicksPerSecond
  BY <1>1, Quotient, UtcDayAssumption
<1>3. left <= SecondsPerDay
  <2>1. left > SecondsPerDay => TicksPerSecond * left > TicksPerSecond * SecondsPerDay
    BY <1>2, UtcDayAssumption
  <2> QED
    BY <1>1, <1>2, <2>1, UtcDayAssumption
<1>4. WindowSeconds(t) = IF left >= 1 THEN left ELSE 1
  BY DEF WindowSeconds
<1>5. CASE left >= 1
  <2>1. WindowSeconds(t) * TicksPerSecond = TicksPerSecond * left
    BY <1>2, <1>4, <1>5, UtcDayAssumption
  <2> HIDE DEF left
  <2> QED
    BY <1>2, <1>3, <1>4, <1>5, <2>1, DayHoldsItsTicks, UtcDayAssumption
<1>6. CASE ~(left >= 1)
  <2>1. left = 0 /\ TicksPerSecond * left = 0
    BY <1>2, <1>6, UtcDayAssumption
  <2> HIDE DEF left
  <2> QED
    BY <1>2, <1>4, <2>1, DayHoldsItsTicks, UtcDayAssumption
<1> QED
  BY <1>5, <1>6

\* The days a budget can name.
LEMMA ClockInDay ==
    ASSUME NEW t \in StartClock..MaxClock PROVE t \in Nat /\ DayOf(t) \in Day
<1>1. t \in Nat /\ t <= MaxClock /\ MaxClock \in Nat
  BY BudgetAssumption
<1>2. DayOf(t) \in Nat /\ DayOf(MaxClock) \in Nat /\ DayOf(t) <= DayOf(MaxClock)
  BY <1>1, DayLength, Quotient, QuotientMonotone DEF DayOf
<1> QED
  BY <1>1, <1>2 DEF Day

(***************************************************************************)
(* The inductive invariant of the accounts.                                *)
(***************************************************************************)
\* Before its authorization is executed a request has no record, and nothing of
\* it is under way; an authorization left behind belongs to a request that is
\* giving up.  A request that is over and still holds a unit is excused.
ClientInv(r) ==
    /\ pc[r] \in {"idle", "date", "authorize"} => record[r] = "none" /\ late[r] = "none"
    /\ late[r] = "authorize" => record[r] = "none" /\ pc[r] \in {"release", "done"}
    /\ pc[r] = "paid" \/ r \in paid => record[r] = "committed"
    /\ pc[r] = "done" /\ Readable(r, "authorized") => r \in excused \/ day[r] \in lapsed

CounterLimited == \A d \in Day : counter[d] <= Limit

AccountInv ==
    /\ BudgetTypeOK
    /\ CounterIsHeld
    /\ CounterLimited
    /\ \A r \in Request : ClientInv(r)

RecordState == {"none", "authorized", "committed", "released"}

LEMMA AccountInvInit == Init => AccountInv
<1> SUFFICES ASSUME Init PROVE AccountInv
  OBVIOUS
<1>1. BudgetTypeOK
  <2>1. clock \in StartClock..MaxClock /\ 0 \in Day /\ 0 \in 0..SecondsPerDay
    <3>1. DayOf(MaxClock) \in Nat
      BY BudgetAssumption, DayHoldsItsTicks
    <3> QED
      BY <3>1, BudgetAssumption, UtcDayAssumption DEF Init, Day
  <2> QED
    BY <2>1 DEF Init, BudgetTypeOK, Pc
<1>2. CounterIsHeld
  <2>1. \A d \in Day : Holders(d) = {}
    BY DEF Init, Holders
  <2> QED
    BY <2>1, FS_EmptySet DEF Init, CounterIsHeld
<1>3. CounterLimited
  BY BudgetAssumption DEF Init, CounterLimited
<1>4. \A r \in Request : ClientInv(r)
  BY DEF Init, ClientInv, Readable
<1> QED
  BY <1>1, <1>2, <1>3, <1>4 DEF AccountInv

(***************************************************************************)
(* The scripts.                                                            *)
(***************************************************************************)
LEMMA HoldersFinite ==
    ASSUME NEW d PROVE IsFiniteSet(Holders(d)) /\ Cardinality(Holders(d)) \in Nat
<1>1. Holders(d) \in SUBSET Request
  BY DEF Holders
<1> QED
  BY <1>1, BudgetAssumption, FS_Subset, FS_CardinalityType

RedisTypeOK ==
    /\ counter \in [Day -> Nat]
    /\ counterEnds \in [Day -> Nat]
    /\ record \in [Request -> RecordState]
    /\ recordEnds \in [Request -> Nat]

\* What every script keeps: the types, the count, the limit, and the records of
\* the other requests.
ScriptKeeps(r) ==
    /\ RedisTypeOK'
    /\ CounterIsHeld'
    /\ CounterLimited'
    /\ \A q \in Request \ {r} : UNCHANGED <<record[q], recordEnds[q]>>

\* An authorization adds a unit and a holder to its day, or nothing.
LEMMA AuthorizeCounts ==
    ASSUME AccountInv, NEW r \in Request, NEW answer, record[r] = "none",
           AuthorizeScript(r, answer), UNCHANGED <<day, lapsed>>
    PROVE  ScriptKeeps(r)
<1> DEFINE d == day[r]
<1>1. CASE answer # "ok"
  BY <1>1 DEF AuthorizeScript, redisVars, AccountInv, BudgetTypeOK, RedisTypeOK, RecordState,
              CounterIsHeld, CounterLimited, Holders, ScriptKeeps
<1>2. CASE answer = "ok"
  <2>1. /\ record' = [record EXCEPT ![r] = "authorized"]
        /\ recordEnds' = [recordEnds EXCEPT ![r] = clock + window[r] * TicksPerSecond]
        /\ counter' = [counter EXCEPT ![d] = @ + 1]
        /\ counterEnds' = [counterEnds EXCEPT ![d] =
              IF counter[d] = 0 THEN clock + window[r] * TicksPerSecond ELSE @]
        /\ counter[d] + 1 <= Limit
    <3>1. counter[d] \in Nat /\ Limit \in Nat
      BY BudgetAssumption DEF AccountInv, BudgetTypeOK
    <3> QED
      BY <1>2, <3>1 DEF AuthorizeScript
  <2>2. d \in Day /\ clock + window[r] * TicksPerSecond \in Nat
    BY UtcDayAssumption, ClockInDay DEF AccountInv, BudgetTypeOK
  <2>3. RedisTypeOK'
    BY <2>1, <2>2 DEF AccountInv, BudgetTypeOK, RedisTypeOK, RecordState
  <2>4. CounterLimited'
    BY <2>1, <2>2 DEF AccountInv, BudgetTypeOK, CounterLimited
  <2>5. r \notin Holders(d) /\ Holders(d)' = Holders(d) \cup {r}
    BY <2>1 DEF AccountInv, BudgetTypeOK, Holders
  <2>6. \A e \in Day \ {d} : Holders(e)' = Holders(e)
    BY <2>1 DEF AccountInv, BudgetTypeOK, Holders
  <2>7. CounterIsHeld'
    BY <2>1, <2>2, <2>5, <2>6, HoldersFinite, FS_AddElement
    DEF AccountInv, BudgetTypeOK, CounterIsHeld
  <2> QED
    BY <2>1, <2>3, <2>4, <2>7 DEF ScriptKeeps, AccountInv, BudgetTypeOK
<1> QED
  BY <1>1, <1>2

\* A commit changes no count: an authorized holder becomes a committed one.
LEMMA CommitCounts ==
    ASSUME AccountInv, NEW r \in Request, NEW answer,
           CommitScript(r, answer), UNCHANGED <<day, lapsed>>
    PROVE  ScriptKeeps(r)
<1>1. RedisTypeOK' /\ \A q \in Request \ {r} : UNCHANGED <<record[q], recordEnds[q]>>
  BY DEF CommitScript, AccountInv, BudgetTypeOK, RedisTypeOK, RecordState
<1>2. \A d \in Day : Holders(d)' = Holders(d)
  BY DEF CommitScript, Readable, AccountInv, BudgetTypeOK, Holders
<1> QED
  BY <1>1, <1>2 DEF CommitScript, AccountInv, CounterIsHeld, CounterLimited, ScriptKeeps

\* A release takes a unit and its holder away, or nothing.
LEMMA ReleaseCounts ==
    ASSUME AccountInv, NEW r \in Request, NEW answer,
           ReleaseScript(r, answer), UNCHANGED <<day, lapsed>>
    PROVE  ScriptKeeps(r)
<1> DEFINE d == day[r]
<1>1. CASE answer # "ok"
  BY <1>1 DEF ReleaseScript, redisVars, AccountInv, BudgetTypeOK, RedisTypeOK, RecordState,
              CounterIsHeld, CounterLimited, Holders, ScriptKeeps
<1>2. CASE answer = "ok"
  <2>1. /\ Readable(r, "authorized") /\ ~(counter[d] < 1)
        /\ record' = [record EXCEPT ![r] = "released"]
        /\ counter' = [counter EXCEPT ![d] = @ - 1]
        /\ counterEnds' = [counterEnds EXCEPT ![d] = IF counter[d] = 1 THEN 0 ELSE @]
        /\ recordEnds' = [recordEnds EXCEPT ![r] = 0]
    BY <1>2 DEF ReleaseScript
  <2>2. d \in Day /\ counter[d] - 1 \in Nat
    BY <2>1 DEF AccountInv, BudgetTypeOK
  <2>3. RedisTypeOK'
    BY <2>1, <2>2 DEF AccountInv, BudgetTypeOK, RedisTypeOK, RecordState
  <2>4. CounterLimited'
    BY <2>1, <2>2, BudgetAssumption DEF AccountInv, BudgetTypeOK, CounterLimited
  <2>5. r \in Holders(d) /\ Holders(d)' = Holders(d) \ {r}
    BY <2>1 DEF AccountInv, BudgetTypeOK, Holders, Readable
  <2>6. \A e \in Day \ {d} : Holders(e)' = Holders(e)
    BY <2>1 DEF AccountInv, BudgetTypeOK, Holders
  <2>7. CounterIsHeld'
    BY <2>1, <2>2, <2>5, <2>6, HoldersFinite, FS_RemoveElement
    DEF AccountInv, BudgetTypeOK, CounterIsHeld
  <2> QED
    BY <2>1, <2>3, <2>4, <2>7 DEF ScriptKeeps, AccountInv, BudgetTypeOK
<1> QED
  BY <1>1, <1>2

(***************************************************************************)
(* The steps keep the accounts.                                            *)
(***************************************************************************)
\* A step of one request leaves what the others hold as it is.
LEMMA OthersKeepClientInv ==
    ASSUME AccountInv, NEW r \in Request, NEW q \in Request \ {r},
           UNCHANGED <<record[q], recordEnds[q], pc[q], late[q], day[q]>>,
           lapsed \subseteq lapsed', excused \subseteq excused', paid' \subseteq paid \cup {r}
    PROVE  ClientInv(q)'
  BY DEF AccountInv, ClientInv, Readable

\* The window and the date of the key are read before there is a record.
LEMMA DatesKeepAccounts ==
    ASSUME AccountInv, NEW r \in Request,
           ApiArrives(r) \/ DiagnosticArrives(r) \/ SendAuthorize(r)
    PROVE  AccountInv'
<1> USE DEF ApiArrives, DiagnosticArrives, SendAuthorize, Starts, At, Goto
<1>1. /\ WindowSeconds(clock) \in 0..SecondsPerDay /\ DayOf(clock) \in Day
  BY ClockInDay, WindowReachesMidnight, UtcDayAssumption DEF AccountInv, BudgetTypeOK
<1>2. BudgetTypeOK'
  BY <1>1 DEF AccountInv, BudgetTypeOK, Pc, Awaiting, Script, redisVars, historyVars
<1>3. record[r] = "none" /\ late[r] = "none" /\ UNCHANGED <<redisVars, late, historyVars>>
  BY DEF AccountInv, ClientInv
<1>4. \A q \in Request \ {r} : UNCHANGED <<pc[q], day[q]>>
  BY DEF AccountInv, BudgetTypeOK
<1>5. \A d \in Day : Holders(d)' = Holders(d)
  BY <1>3, <1>4 DEF Holders, redisVars
<1>6. CounterIsHeld' /\ CounterLimited'
  BY <1>3, <1>5 DEF AccountInv, CounterIsHeld, CounterLimited, redisVars, historyVars
<1>7. ClientInv(r)'
  BY <1>2, <1>3 DEF AccountInv, BudgetTypeOK, ClientInv, Readable, redisVars, historyVars
<1>8. \A q \in Request \ {r} : ClientInv(q)'
  BY <1>3, <1>4, OthersKeepClientInv DEF redisVars, historyVars
<1> QED
  BY <1>2, <1>6, <1>7, <1>8 DEF AccountInv

\* An answered script, or a late one: what it leaves to be shown.
LEMMA ScriptKeepsAccounts ==
    ASSUME AccountInv, NEW r \in Request, ScriptKeeps(r),
           UNCHANGED <<clock, localVars, paid, lapsed, crossed>>,
           pc' \in [Request -> Pc], late' \in [Request -> Script \cup {"none"}],
           excused' \subseteq Request, excused \subseteq excused',
           \A q \in Request \ {r} : UNCHANGED <<pc[q], late[q]>>,
           ClientInv(r)'
    PROVE  AccountInv'
<1>1. BudgetTypeOK'
  BY DEF AccountInv, BudgetTypeOK, ScriptKeeps, RedisTypeOK, RecordState, localVars
<1>2. \A q \in Request \ {r} : ClientInv(q)'
  BY OthersKeepClientInv DEF ScriptKeeps, localVars
<1> QED
  BY <1>1, <1>2 DEF AccountInv, ScriptKeeps

LEMMA AuthorizedKeepsAccounts ==
    ASSUME AccountInv, NEW r \in Request, Authorized(r) PROVE AccountInv'
<1> USE DEF Authorized, At, Goto, localVars, historyVars
<1>1. PICK answer \in {"ok", "refused", "unavailable"} :
          /\ AuthorizeScript(r, answer)
          /\ pc' = [pc EXCEPT ![r] = CASE answer = "ok"          -> "check"
                                       [] answer = "refused"     -> "done"
                                       [] answer = "unavailable" -> "release"]
  OBVIOUS
<1>2. record[r] = "none" /\ late[r] = "none"
  BY DEF AccountInv, ClientInv
<1>3. ScriptKeeps(r)
  BY <1>1, <1>2, AuthorizeCounts
<1>4. pc' \in [Request -> Pc] /\ \A q \in Request \ {r} : UNCHANGED pc[q]
  BY <1>1 DEF AccountInv, BudgetTypeOK, Pc, Awaiting, Script
<1>5. ClientInv(r)'
  <2>1. r \notin paid
    BY <1>2 DEF AccountInv, ClientInv
  <2>2. CASE answer = "ok"
    BY <1>1, <1>2, <2>1, <2>2 DEF ClientInv, AccountInv, BudgetTypeOK
  <2>3. CASE answer # "ok"
    BY <1>1, <1>2, <2>1, <2>3
    DEF AuthorizeScript, redisVars, ClientInv, AccountInv, BudgetTypeOK, Readable
  <2> QED
    BY <2>2, <2>3
<1> QED
  BY <1>3, <1>4, <1>5, ScriptKeepsAccounts DEF AccountInv, BudgetTypeOK

LEMMA CommittedKeepsAccounts ==
    ASSUME AccountInv, NEW r \in Request, Committed(r) PROVE AccountInv'
<1> USE DEF Committed, At, Goto, localVars, historyVars
<1>1. PICK answer \in {"ok", "refused"} :
          /\ CommitScript(r, answer)
          /\ pc' = [pc EXCEPT ![r] = IF answer = "ok" THEN "paid" ELSE "release"]
  OBVIOUS
<1>2. ScriptKeeps(r)
  BY <1>1, CommitCounts
<1>3. pc' \in [Request -> Pc] /\ \A q \in Request \ {r} : UNCHANGED pc[q]
  BY <1>1 DEF AccountInv, BudgetTypeOK, Pc, Awaiting, Script
<1>4. ClientInv(r)'
  BY <1>1 DEF CommitScript, ClientInv, AccountInv, BudgetTypeOK, Readable
<1> QED
  BY <1>2, <1>3, <1>4, ScriptKeepsAccounts DEF AccountInv, BudgetTypeOK

\* A release finds no unit only when the counter has lapsed.
LEMMA UnitIsThere ==
    ASSUME AccountInv, NEW r \in Request, Readable(r, "authorized"), day[r] \notin lapsed
    PROVE  ~(counter[day[r]] < 1)
<1> DEFINE d == day[r]
<1>1. d \in Day /\ r \in Holders(d)
  BY DEF AccountInv, BudgetTypeOK, Holders, Readable
<1>2. counter[d] = Cardinality(Holders(d))
  BY <1>1 DEF AccountInv, CounterIsHeld
<1>3. Cardinality(Holders(d)) # 0 /\ Cardinality(Holders(d)) \in Nat
  BY <1>1, HoldersFinite, FS_EmptySet
<1> QED
  BY <1>2, <1>3

LEMMA ReleasedKeepsAccounts ==
    ASSUME AccountInv, NEW r \in Request, Released(r) PROVE AccountInv'
<1> USE DEF Released, At, Goto, localVars, historyVars
<1>1. PICK answer \in {"ok", "refused", "unavailable"} : ReleaseScript(r, answer)
  OBVIOUS
<1>2. ScriptKeeps(r)
  BY <1>1, ReleaseCounts
<1>3. pc' \in [Request -> Pc] /\ \A q \in Request \ {r} : UNCHANGED pc[q]
  BY DEF AccountInv, BudgetTypeOK, Pc
<1>4. ClientInv(r)'
  <2>1. CASE answer = "ok"
    BY <1>1, <2>1 DEF ReleaseScript, ClientInv, AccountInv, BudgetTypeOK, Readable
  <2>2. CASE answer # "ok"
    BY <1>1, <2>2, UnitIsThere
    DEF ReleaseScript, redisVars, ClientInv, AccountInv, BudgetTypeOK, Readable
  <2> QED
    BY <2>1, <2>2
<1> QED
  BY <1>2, <1>3, <1>4, ScriptKeepsAccounts DEF AccountInv, BudgetTypeOK

\* Whatever arrives late finds the record of a request that is giving up.
LEMMA LateKeepsAccounts ==
    ASSUME AccountInv, NEW r \in Request, ArrivesLate(r) PROVE AccountInv'
<1> USE DEF ArrivesLate, localVars
<1>1. PICK answer \in {"ok", "refused", "unavailable"} : Executes(r, late[r], answer)
  OBVIOUS
<1>2. /\ late' \in [Request -> Script \cup {"none"}] /\ late'[r] = "none"
      /\ \A q \in Request \ {r} : UNCHANGED late[q]
      /\ excused' \subseteq Request /\ excused \subseteq excused'
      /\ pc \in [Request -> Pc] /\ pc[r] \notin {"idle", "date", "authorize"}
  BY DEF AccountInv, BudgetTypeOK, ClientInv
<1>3. CASE late[r] = "authorize"
  <2>1. AuthorizeScript(r, answer) /\ record[r] = "none" /\ pc[r] \in {"release", "done"}
    BY <1>1, <1>3 DEF Executes, AccountInv, ClientInv
  <2>2. ScriptKeeps(r)
    BY <2>1, AuthorizeCounts
  <2>3. ClientInv(r)'
    BY <1>2, <1>3, <2>1 DEF ClientInv, AccountInv, BudgetTypeOK, At
  <2> QED
    BY <1>2, <2>2, <2>3, ScriptKeepsAccounts
<1>4. CASE late[r] = "commit"
  <2>1. CommitScript(r, answer)
    BY <1>1, <1>4 DEF Executes
  <2>2. ScriptKeeps(r)
    BY <2>1, CommitCounts
  <2>3. ClientInv(r)'
    BY <1>2, <2>1 DEF CommitScript, ClientInv, AccountInv, BudgetTypeOK, Readable
  <2> QED
    BY <1>2, <2>2, <2>3, ScriptKeepsAccounts
<1>5. CASE late[r] = "release"
  <2>1. ReleaseScript(r, answer)
    BY <1>1, <1>5 DEF Executes
  <2>2. ScriptKeeps(r)
    BY <2>1, ReleaseCounts
  <2>3. ClientInv(r)'
    <3>1. CASE answer = "ok"
      BY <1>2, <2>1, <3>1 DEF ReleaseScript, ClientInv, AccountInv, BudgetTypeOK, Readable
    <3>2. CASE answer # "ok"
      BY <1>2, <2>1, <3>2
      DEF ReleaseScript, redisVars, ClientInv, AccountInv, BudgetTypeOK, Readable
    <3> QED
      BY <3>1, <3>2
  <2> QED
    BY <1>2, <2>2, <2>3, ScriptKeepsAccounts
<1> QED
  BY <1>3, <1>4, <1>5 DEF AccountInv, BudgetTypeOK, Script

\* A step that no script takes part in.
LEMMA MoveKeepsAccounts ==
    ASSUME AccountInv, NEW r \in Request,
           UNCHANGED <<clock, redisVars, localVars, lapsed, crossed>>,
           pc' \in [Request -> Pc], late' \in [Request -> Script \cup {"none"}],
           excused' \subseteq Request, excused \subseteq excused',
           paid' \subseteq Request, paid' \subseteq paid \cup {r},
           \A q \in Request \ {r} : UNCHANGED <<pc[q], late[q]>>,
           ClientInv(r)'
    PROVE  AccountInv'
<1>1. BudgetTypeOK'
  BY DEF AccountInv, BudgetTypeOK, redisVars, localVars
<1>2. CounterIsHeld' /\ CounterLimited'
  BY DEF AccountInv, CounterIsHeld, CounterLimited, Holders, redisVars, localVars
<1>3. \A q \in Request \ {r} : ClientInv(q)'
  BY OthersKeepClientInv DEF redisVars, localVars
<1> QED
  BY <1>1, <1>2, <1>3 DEF AccountInv

LEMMA ChecksAndCallsKeepAccounts ==
    ASSUME AccountInv, NEW r \in Request, Checked(r) \/ MakePaidCall(r) PROVE AccountInv'
<1> USE DEF Checked, MakePaidCall, At, Goto
<1>1. /\ pc' \in [Request -> Pc] /\ late' \in [Request -> Script \cup {"none"}]
      /\ excused' \subseteq Request /\ paid' \subseteq Request
      /\ \A q \in Request \ {r} : UNCHANGED <<pc[q], late[q]>>
  BY DEF AccountInv, BudgetTypeOK, Pc, Awaiting, Script, historyVars
<1>2. ClientInv(r)'
  BY DEF AccountInv, BudgetTypeOK, ClientInv, Readable, redisVars, localVars, historyVars
<1> QED
  BY <1>1, <1>2, MoveKeepsAccounts DEF historyVars

\* Wherever a call gets no answer, either a release follows or the unit that may
\* be lost is excused.
LEMMA FailuresKeepAccounts ==
    ASSUME AccountInv, NEW r \in Request, ApiFails(r) \/ DiagnosticFails(r) \/ Dies(r)
    PROVE  AccountInv'
<1>1. PICK next \in {"release", "done"} :
          /\ pc[r] \in Awaiting
          /\ LeavesBehind(r)
          /\ pc' = [pc EXCEPT ![r] = next]
          /\ excused' = excused \/ excused' = excused \cup {r}
          /\ next = "done" => r \in excused'
          /\ UNCHANGED <<clock, redisVars, localVars, paid, lapsed, crossed>>
  BY DEF ApiFails, DiagnosticFails, Dies, GetsNoAnswer, At, Goto, Awaiting
<1>2. \/ late' = late
      \/ pc[r] \in Script /\ late[r] = "none" /\ late' = [late EXCEPT ![r] = pc[r]]
  BY <1>1 DEF LeavesBehind
<1>3. /\ pc' \in [Request -> Pc] /\ late' \in [Request -> Script \cup {"none"}]
      /\ excused' \subseteq Request /\ excused \subseteq excused'
      /\ \A q \in Request \ {r} : UNCHANGED <<pc[q], late[q]>>
  BY <1>1, <1>2 DEF AccountInv, BudgetTypeOK, Pc, Awaiting, Script
<1>4. ClientInv(r)'
  BY <1>1, <1>2 DEF AccountInv, BudgetTypeOK, ClientInv, Readable, redisVars, localVars
<1> QED
  BY <1>1, <1>3, <1>4, MoveKeepsAccounts DEF AccountInv, BudgetTypeOK

\* Time takes counters and records away, and no unit with them that is not
\* accounted for as lapsed.
LEMMA TickKeepsAccounts == AccountInv /\ Tick => AccountInv'
<1> SUFFICES ASSUME AccountInv, Tick PROVE AccountInv'
  OBVIOUS
<1> USE DEF Tick
<1>1. BudgetTypeOK'
  BY BudgetAssumption DEF AccountInv, BudgetTypeOK, localVars
<1>2. \A d \in Day : Holders(d)' = Holders(d)
  BY DEF Holders, localVars
<1>3. \A d \in Day : (d \notin lapsed' => d \notin lapsed /\ counter'[d] = counter[d]) /\ counter'[d] <= counter[d]
  BY DEF AccountInv, BudgetTypeOK
<1>4. CounterIsHeld'
  BY <1>2, <1>3 DEF AccountInv, CounterIsHeld
<1>5. CounterLimited'
  BY <1>3, BudgetAssumption, <1>1 DEF AccountInv, BudgetTypeOK, CounterLimited
<1>6. \A r \in Request : ClientInv(r)'
  BY DEF AccountInv, BudgetTypeOK, ClientInv, Readable, localVars
<1> QED
  BY <1>1, <1>4, <1>5, <1>6 DEF AccountInv

LEMMA AccountInvNext == AccountInv /\ [Next]_vars => AccountInv'
<1> SUFFICES ASSUME AccountInv, [Next]_vars PROVE AccountInv'
  OBVIOUS
<1>1. CASE UNCHANGED vars
  BY <1>1 DEF vars, redisVars, localVars, historyVars, AccountInv, BudgetTypeOK,
              CounterIsHeld, CounterLimited, Holders, ClientInv, Readable
<1>2. ASSUME NEW r \in Request, RequestStep(r) PROVE AccountInv'
  BY <1>2, DatesKeepAccounts, AuthorizedKeepsAccounts, CommittedKeepsAccounts,
     ReleasedKeepsAccounts, LateKeepsAccounts, ChecksAndCallsKeepAccounts, FailuresKeepAccounts
  DEF RequestStep
<1> QED
  BY <1>1, <1>2, TickKeepsAccounts DEF Next, Terminated

LEMMA AccountInvariant == Spec => []AccountInv
  BY AccountInvInit, AccountInvNext, PTL DEF Spec

(***************************************************************************)
(* The theorems about the accounts.                                        *)
(***************************************************************************)
\* BudgetTypeOK: the types, with windows of at most a day and keys of days that
\* the clock has reached.
THEOREM BudgetTyping == Spec => []BudgetTypeOK
<1>1. AccountInv => BudgetTypeOK
  BY DEF AccountInv
<1> QED
  BY <1>1, AccountInvariant, PTL

\* CounterIsHeld: in any order of scripts, lost answers, late executions and
\* expiries, a counter that lives is the number of reservations that hold a unit.
THEOREM CounterCountsHolders == Spec => []CounterIsHeld
<1>1. AccountInv => CounterIsHeld
  BY DEF AccountInv
<1> QED
  BY <1>1, AccountInvariant, PTL

\* PaidStaysCharged: whoever made a paid call has a committed reservation, and no
\* release takes it back.
THEOREM PaidIsCharged == Spec => []PaidStaysCharged
<1>1. AccountInv => PaidStaysCharged
  BY DEF AccountInv, BudgetTypeOK, ClientInv, PaidStaysCharged
<1> QED
  BY <1>1, AccountInvariant, PTL

\* WithinLimit: no day pays for more calls than the limit while its counter lives.
THEOREM LimitHolds == Spec => []WithinLimit
<1>1. ASSUME AccountInv, NEW d \in Day \ lapsed
      PROVE  Cardinality({r \in paid : day[r] = d}) <= Limit
  <2>1. {r \in paid : day[r] = d} \in SUBSET Holders(d)
    BY <1>1 DEF AccountInv, BudgetTypeOK, ClientInv, Holders
  <2>2. Cardinality({r \in paid : day[r] = d}) <= Cardinality(Holders(d))
    BY <2>1, HoldersFinite, FS_Subset
  <2>3. Cardinality({r \in paid : day[r] = d}) \in Nat
    BY <2>1, HoldersFinite, FS_Subset, FS_CardinalityType
  <2>4. Cardinality(Holders(d)) <= Limit /\ Cardinality(Holders(d)) \in Nat
    BY <1>1, HoldersFinite DEF AccountInv, CounterIsHeld, CounterLimited
  <2> QED
    BY <2>2, <2>3, <2>4, BudgetAssumption
<1>2. AccountInv => WithinLimit
  BY <1>1 DEF WithinLimit
<1> QED
  BY <1>2, AccountInvariant, PTL

\* NothingStranded: a request that is over holds a unit only where its caller
\* could not know better, or where the day is over.
THEOREM UnitsComeBack == Spec => []NothingStranded
<1>1. AccountInv => NothingStranded
  BY DEF AccountInv, ClientInv, At, NothingStranded
<1> QED
  BY <1>1, AccountInvariant, PTL

(***************************************************************************)
(* When a counter lapses.                                                  *)
(***************************************************************************)
\* Someone whose window was read before midnight and whose date after it put its
\* unit into this day.
CrossedInto(d) == \E r \in crossed : day[r] = d /\ pc[r] \notin {"idle", "date"}

\* A window that was read on a day ends in the last second of it or later.
WindowInv(r) ==
    /\ pc[r] = "date" /\ r \notin crossed =>
          IF r \in ApiRequest
          THEN clock + window[r] * TicksPerSecond > Midnight(DayOf(clock)) - TicksPerSecond
          ELSE day[r] = DayOf(clock)
    /\ pc[r] \notin {"idle", "date"} /\ r \notin crossed =>
          clock + window[r] * TicksPerSecond > Midnight(day[r]) - TicksPerSecond

CounterEndsLate(d) == counterEnds[d] > Midnight(d) - TicksPerSecond \/ CrossedInto(d)

LapsedLate(d) == clock > Midnight(d) - TicksPerSecond \/ CrossedInto(d)

TimingInv ==
    /\ \A r \in Request : WindowInv(r)
    /\ \A d \in Day : counter[d] > 0 => CounterEndsLate(d)
    /\ \A d \in lapsed : LapsedLate(d)

LEMMA TimingInvInit == Init => TimingInv
  BY DEF Init, TimingInv, WindowInv

\* Ticks and midnights are numbers.
LEMMA TimesAreNumbers ==
    ASSUME BudgetTypeOK
    PROVE  /\ clock \in Nat /\ TicksPerSecond \in Nat
           /\ \A r \in Request : window[r] * TicksPerSecond \in Nat
           /\ \A d \in Day : Midnight(d) \in Nat /\ counterEnds[d] \in Nat /\ counter[d] \in Nat
           /\ DayOf(clock) \in Day
<1>1. clock \in Nat /\ DayOf(clock) \in Day
  BY ClockInDay DEF BudgetTypeOK
<1>2. \A d \in Day : d \in Nat
  BY DayHoldsItsTicks, BudgetAssumption DEF Day
<1>3. \A d \in Day : Midnight(d) \in Nat
  BY <1>2, DayLength DEF Midnight
<1>4. \A r \in Request : window[r] * TicksPerSecond \in Nat
  BY UtcDayAssumption DEF BudgetTypeOK
<1> QED
  BY <1>1, <1>3, <1>4, UtcDayAssumption DEF BudgetTypeOK

\* Who has put a unit into a day stays where it is.
LEMMA CrossedIntoStays ==
    ASSUME AccountInv, NEW r \in Request,
           \A q \in Request \ {r} : UNCHANGED <<pc[q], day[q]>>,
           \/ pc[r] \in {"idle", "date"}
           \/ pc'[r] \notin {"idle", "date"} /\ UNCHANGED day[r],
           crossed \subseteq crossed', NEW d, CrossedInto(d)
    PROVE  CrossedInto(d)'
  BY DEF AccountInv, BudgetTypeOK, CrossedInto

LEMMA DatesKeepTiming ==
    ASSUME AccountInv, TimingInv, NEW r \in Request,
           ApiArrives(r) \/ DiagnosticArrives(r) \/ SendAuthorize(r)
    PROVE  TimingInv'
<1> USE DEF ApiArrives, DiagnosticArrives, SendAuthorize, Starts, At, Goto
<1>1. /\ pc[r] \in {"idle", "date"}
      /\ UNCHANGED <<clock, counter, counterEnds, lapsed, crossed>>
      /\ \A q \in Request \ {r} : UNCHANGED <<pc[q], day[q], window[q]>>
  BY DEF redisVars, historyVars, AccountInv, BudgetTypeOK
<1>2. \A d : CrossedInto(d) => CrossedInto(d)'
  BY <1>1, CrossedIntoStays
<1>3. \A q \in Request \ {r} : WindowInv(q)'
  BY <1>1 DEF TimingInv, WindowInv
<1>4. clock \in Nat
        /\ clock + WindowSeconds(clock) * TicksPerSecond > Midnight(DayOf(clock)) - TicksPerSecond
  BY TimesAreNumbers, WindowReachesMidnight DEF AccountInv
<1>5. WindowInv(r)'
  <2>1. WindowInv(r)
    BY DEF TimingInv
  <2>2. r \in DOMAIN pc /\ r \in DOMAIN day /\ r \in DOMAIN window
    BY DEF AccountInv, BudgetTypeOK
  <2>3. CASE ApiArrives(r) \/ (SendAuthorize(r) /\ r \in ApiRequest)
    BY <1>1, <1>4, <2>1, <2>2, <2>3 DEF WindowInv
  <2>4. CASE DiagnosticArrives(r) \/ (SendAuthorize(r) /\ r \notin ApiRequest)
    BY <1>1, <1>4, <2>1, <2>2, <2>4, BudgetAssumption DEF WindowInv
  <2> QED
    BY <2>3, <2>4
<1> QED
  BY <1>1, <1>2, <1>3, <1>5 DEF TimingInv, CounterEndsLate, LapsedLate

\* Any other step of a request: a counter that gets its first unit ends when the
\* window of that unit does.
LEMMA RequestKeepsTiming ==
    ASSUME AccountInv, TimingInv, NEW r \in Request,
           UNCHANGED <<clock, localVars, lapsed, crossed>>,
           pc[r] \notin {"idle", "date"}, pc'[r] \notin {"idle", "date"},
           \A q \in Request \ {r} : UNCHANGED pc[q],
           \A d \in Day : counter'[d] > 0 =>
               \/ counter[d] > 0 /\ UNCHANGED counterEnds[d]
               \/ d = day[r] /\ counterEnds'[d] = clock + window[r] * TicksPerSecond
    PROVE  TimingInv'
<1>1. \A d : CrossedInto(d) => CrossedInto(d)'
  BY CrossedIntoStays DEF localVars
<1>2. \A q \in Request : WindowInv(q)'
  BY DEF TimingInv, WindowInv, localVars
<1>3. ASSUME NEW d \in Day, counter'[d] > 0 PROVE CounterEndsLate(d)'
  <2>1. CASE counter[d] > 0 /\ UNCHANGED counterEnds[d]
    BY <1>1, <2>1 DEF TimingInv, CounterEndsLate
  <2>2. CASE d = day[r] /\ counterEnds'[d] = clock + window[r] * TicksPerSecond
    <3>1. r \in crossed => CrossedInto(d)'
      BY <2>2 DEF CrossedInto, localVars
    <3> QED
      BY <2>2, <3>1 DEF TimingInv, WindowInv, CounterEndsLate
  <2> QED
    BY <1>3, <2>1, <2>2
<1> QED
  BY <1>1, <1>2, <1>3 DEF TimingInv, LapsedLate

LEMMA ScriptTiming ==
    ASSUME AccountInv, NEW r \in Request, NEW script, NEW answer, Executes(r, script, answer)
    PROVE  \A d \in Day : counter'[d] > 0 =>
               \/ counter[d] > 0 /\ UNCHANGED counterEnds[d]
               \/ d = day[r] /\ counterEnds'[d] = clock + window[r] * TicksPerSecond
<1> USE DEF AccountInv, BudgetTypeOK, redisVars
<1>1. CASE AuthorizeScript(r, answer)
  BY <1>1 DEF AuthorizeScript
<1>2. CASE CommitScript(r, answer)
  BY <1>2 DEF CommitScript
<1>3. CASE ReleaseScript(r, answer)
  BY <1>3 DEF ReleaseScript
<1> QED
  BY <1>1, <1>2, <1>3 DEF Executes

LEMMA StepsKeepTiming ==
    ASSUME AccountInv, TimingInv, NEW r \in Request,
           \/ Authorized(r) \/ Checked(r) \/ Committed(r) \/ MakePaidCall(r) \/ Released(r)
           \/ ApiFails(r) \/ DiagnosticFails(r) \/ Dies(r) \/ ArrivesLate(r)
    PROVE  TimingInv'
<1>1. CASE Authorized(r) \/ Committed(r) \/ Released(r) \/ ArrivesLate(r)
  <2>1. \E script, answer : Executes(r, script, answer)
    BY <1>1 DEF Authorized, Committed, Released, ArrivesLate, Executes
  <2>2. pc[r] \notin {"idle", "date"} /\ pc'[r] \notin {"idle", "date"}
        /\ \A q \in Request \ {r} : UNCHANGED pc[q]
    BY <1>1 DEF Authorized, Committed, Released, ArrivesLate, At, Goto,
                AccountInv, BudgetTypeOK, ClientInv
  <2> QED
    BY <1>1, <2>1, <2>2, ScriptTiming, RequestKeepsTiming
    DEF Authorized, Committed, Released, ArrivesLate, historyVars
<1>2. CASE Checked(r) \/ MakePaidCall(r) \/ ApiFails(r) \/ DiagnosticFails(r) \/ Dies(r)
  <2>1. /\ pc[r] \notin {"idle", "date"} /\ pc'[r] \notin {"idle", "date"}
        /\ \A q \in Request \ {r} : UNCHANGED pc[q]
        /\ UNCHANGED <<clock, redisVars, localVars, lapsed, crossed>>
    BY <1>2 DEF Checked, MakePaidCall, ApiFails, DiagnosticFails, Dies, GetsNoAnswer, At, Goto,
                Script, Awaiting, AccountInv, BudgetTypeOK, historyVars
  <2> QED
    BY <2>1, RequestKeepsTiming DEF redisVars
<1> QED
  BY <1>1, <1>2

LEMMA TickKeepsTiming ==
    ASSUME AccountInv, TimingInv, Tick PROVE TimingInv'
<1> USE DEF Tick
<1>1. \A d : CrossedInto(d) => CrossedInto(d)'
  BY DEF CrossedInto, localVars
<1>2. clock' = clock + 1 /\ crossed \subseteq crossed' /\ UNCHANGED <<pc, window, day>>
  BY DEF localVars
<1>3. ASSUME NEW r \in Request PROVE WindowInv(r)'
  <2>1. WindowInv(r)
    BY DEF TimingInv
  <2>2. CASE pc[r] = "date" /\ r \notin crossed'
    <3>1. DayOf(clock') = DayOf(clock) /\ r \notin crossed
      BY <1>2, <2>2 DEF At
    <3> QED
      BY <1>2, <2>1, <2>2, <3>1, TimesAreNumbers DEF WindowInv, AccountInv
  <2>3. CASE pc[r] \notin {"idle", "date"} /\ r \notin crossed'
    <3>1. day[r] \in Day
      BY DEF AccountInv, BudgetTypeOK
    <3> QED
      BY <1>2, <2>1, <2>3, <3>1, TimesAreNumbers DEF WindowInv, AccountInv
  <2> QED
    BY <1>2, <2>2, <2>3 DEF WindowInv
<1>4. ASSUME NEW d \in Day, counter'[d] > 0 PROVE CounterEndsLate(d)'
  <2>1. counter[d] > 0 /\ counterEnds'[d] = counterEnds[d]
    BY <1>4 DEF AccountInv, BudgetTypeOK
  <2> QED
    BY <1>1, <2>1 DEF TimingInv, CounterEndsLate
<1>5. ASSUME NEW d \in lapsed' PROVE LapsedLate(d)'
  <2>1. d \in Day /\ (d \in lapsed \/ (counter[d] > 0 /\ counterEnds[d] <= clock + 1))
    BY DEF AccountInv, BudgetTypeOK
  <2>2. d \in lapsed => LapsedLate(d)
    BY DEF TimingInv
  <2>3. counter[d] > 0 => CounterEndsLate(d)
    BY <2>1 DEF TimingInv
  <2> QED
    BY <1>1, <1>2, <2>1, <2>2, <2>3, TimesAreNumbers DEF LapsedLate, CounterEndsLate, AccountInv
<1> QED
  BY <1>3, <1>4, <1>5 DEF TimingInv

LEMMA TimingInvNext == AccountInv /\ TimingInv /\ [Next]_vars => TimingInv'
<1> SUFFICES ASSUME AccountInv, TimingInv, [Next]_vars PROVE TimingInv'
  OBVIOUS
<1>1. CASE UNCHANGED vars
  BY <1>1 DEF vars, redisVars, localVars, historyVars,
              TimingInv, WindowInv, CounterEndsLate, LapsedLate, CrossedInto
<1>2. ASSUME NEW r \in Request, RequestStep(r) PROVE TimingInv'
  BY <1>2, DatesKeepTiming, StepsKeepTiming DEF RequestStep
<1> QED
  BY <1>1, <1>2, TickKeepsTiming DEF Next, Terminated

\* LapsesAtTheEnd: a budget is not forgotten before the last second of its day,
\* unless a request read its window before midnight and its date after it.
THEOREM LapsesOnlyAtTheEnd == Spec => []LapsesAtTheEnd
<1>1. AccountInv /\ TimingInv /\ [Next]_vars => (AccountInv /\ TimingInv)'
  BY AccountInvNext, TimingInvNext
<1>2. TimingInv => LapsesAtTheEnd
  BY DEF TimingInv, LapsedLate, CrossedInto, LapsesAtTheEnd
<1> QED
  BY <1>1, <1>2, AccountInvInit, TimingInvInit, PTL DEF Spec
=============================================================================
