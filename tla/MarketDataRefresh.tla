------------------------- MODULE MarketDataRefresh -------------------------
(***************************************************************************)
(* Reading one market-data key through the cache (MarketDataService._cached): *)
(* concurrent requests, in several processes, refresh a stale or missing     *)
(* entry behind a lock object of their process, taken from a registry, and   *)
(* behind a lock in Redis; the refresh is paid for from a daily quota and    *)
(* given back when the provider fails.  Every await may fail or be           *)
(* cancelled, and a command may reach Redis after its caller has gone.       *)
(***************************************************************************)
EXTENDS Integers, FiniteSets

CONSTANTS Request, Process, None,
          Limit,      \* daily_credit_budget
          Polls,      \* lock_wait_attempts
          MaxLate,    \* commands in flight without a caller
          TimesOut    \* does the lock in Redis expire under its owner?

ASSUME RefreshAssumption ==
    /\ None \notin Request \cup Process
    /\ IsFiniteSet(Request)
    /\ Limit \in Nat \ {0} /\ Polls \in Nat \ {0} /\ MaxLate \in Nat
    /\ TimesOut \in BOOLEAN

VARIABLES
    entry,          \* the cached entry of the key
    lock,           \* the lock in Redis: whose token it holds
    counter,        \* the quota counter of one day: another day has another key
    registry,       \* _singleflight of each process: the lock object of the key
    holder,         \* who is inside each lock object
    home,           \* the process of a request
    local,          \* what the coroutine of a request holds, until it returns
    pc,
    late,           \* commands whose caller has given up, still to arrive
    used, lapsed,    \* history: usable answers until the counter lapsed, if it has
    overtime,        \* history: callers of the provider whose lock has expired
    spoiled,         \* history: processes in which a finally clause was interrupted
    refused          \* history: the request that the last step has refused

redisVars == <<entry, lock, counter>>
processVars == <<registry, holder>>
historyVars == <<used, lapsed, overtime, spoiled>>
vars == <<redisVars, processVars, home, local, pc, late, historyVars, refused>>

Entry == {"absent", "fresh", "stale", "negative"}
Error == {"not_found", "failed", "raised"}
Command == {"acquire", "reserve", "rollback", "negative", "store", "unlock"}
\* Inside the lock object, and of these, with the lock in Redis.
Refreshing == {"reserve", "call", "rollback", "negative", "store"}
Inside == {"second", "acquire", "poll"} \cup Refreshing
Awaiting == {"read", "wait", "unlock"} \cup Inside
Pc == Awaiting \cup {"done"}
\* A request is refused because the refresh cannot be made (a busy lock, an
\* exhausted quota, a failed provider, a failed command of the refresh), or ends
\* some other way: with data, fresh or stale, with "not found", with a failed
\* read, cancelled.
Outcome == {"ended", "refused"}

\* A lock object is named after the request that creates it.
LockObject == Request

\* stale is not None; acquired; the lock object; exc; the turn of the loop.
Locals == [held : BOOLEAN, acquired : BOOLEAN, object : LockObject \cup {None},
           error : Error, polls : 0..Polls]
NoLocals == [held |-> FALSE, acquired |-> FALSE, object |-> None, error |-> "failed", polls |-> 0]

Init ==
    /\ entry \in {"absent", "stale"}
    /\ lock = None
    /\ counter = 0
    /\ registry = [p \in Process |-> None]
    /\ holder = [l \in LockObject |-> None]
    /\ home \in [Request -> Process]
    /\ local = [r \in Request |-> NoLocals]
    /\ pc = [r \in Request |-> "read"]
    /\ late = {}
    /\ used = 0 /\ lapsed = FALSE /\ overtime = {} /\ spoiled = {} /\ refused = None

(***************************************************************************)
(* The commands to Redis.                                                  *)
(***************************************************************************)
\* SET NX EX 30
AcquireLock(r) ==
    /\ lock' = IF lock = None THEN r ELSE lock
    /\ UNCHANGED <<entry, counter>>

\* Mutated: the token is not compared.
ReleaseLockBlind(r) == lock' = None /\ UNCHANGED <<entry, counter>>

ReleaseLock(r) ==
    /\ lock' = IF lock = r THEN None ELSE lock
    /\ UNCHANGED <<entry, counter>>

ReserveQuota(r) ==
    /\ counter' = IF counter >= Limit THEN counter ELSE counter + 1
    /\ UNCHANGED <<entry, lock>>

\* Mutated: a counter that has lapsed is decremented.
RollbackQuotaNegative(r) ==
    /\ counter' = counter - 1
    /\ UNCHANGED <<entry, lock>>

RollbackQuota(r) ==
    /\ counter' = IF counter <= 0 THEN 0 ELSE counter - 1
    /\ UNCHANGED <<entry, lock>>

\* A not-found answer takes the place of whatever is cached.
SetEntry(e) == entry' = e /\ UNCHANGED <<lock, counter>>

Executes(r, command) ==
    \/ command = "acquire"  /\ AcquireLock(r)
    \/ command = "reserve"  /\ ReserveQuota(r)
    \/ command = "rollback" /\ RollbackQuota(r)
    \/ command = "negative" /\ SetEntry("negative")
    \/ command = "store"    /\ SetEntry("fresh")
    \/ command = "unlock"   /\ ReleaseLock(r)

(***************************************************************************)
(* Steps of a request.                                                     *)
(***************************************************************************)
At(r, from) == pc[r] = from

NobodyRefused == refused' = None

Goto(r, to) == pc' = [pc EXCEPT ![r] = to] /\ NobodyRefused /\ UNCHANGED processVars

Sets(r, l) == local' = [local EXCEPT ![r] = l]

Returns(r) == pc' = [pc EXCEPT ![r] = "done"] /\ Sets(r, NoLocals)

Ends(r, o) == refused' = IF o = "refused" THEN r ELSE None

\* Mutated: the entry is dropped only if it is the request's own lock object.
DropEntryOwn(r, holders) ==
    registry' = IF holders[local[r].object] = None /\ local[r].object = r
                THEN [registry EXCEPT ![home[r]] = None] ELSE registry

\* The finally clause drops the entry of the key, whichever lock object that
\* is, when its own lock object is not locked.
DropEntry(r, holders) ==
    registry' = IF holders[local[r].object] = None
                THEN [registry EXCEPT ![home[r]] = None] ELSE registry

\* Leaving the lock object.  Without a lock in Redis to release, the rest of
\* the finally clause follows before anybody else runs.
Leaves(r, o) ==
    /\ Ends(r, o)
    /\ holder' = [holder EXCEPT ![local[r].object] = None]
    /\ IF local[r].acquired
       THEN /\ pc' = [pc EXCEPT ![r] = "unlock"]
            /\ Sets(r, [NoLocals EXCEPT !.object = local[r].object])
            /\ UNCHANGED registry
       ELSE Returns(r) /\ DropEntry(r, holder')

\* The stale entry is the answer, if there was one.
StaleOr(r, o) == Leaves(r, IF local[r].held THEN "ended" ELSE o)

\* A read finds a fresh entry; entries for "not found" are always fresh.
Hit == entry \in {"fresh", "negative"}
Held(r) == local[r].held \/ entry = "stale"

\* The first read, and on a miss the lock object from the registry.
Read(r) ==
    /\ At(r, "read")
    /\ IF Hit
       THEN Returns(r) /\ Ends(r, "ended") /\ UNCHANGED registry
       ELSE LET object == IF registry[home[r]] = None THEN r ELSE registry[home[r]]
            IN  /\ Sets(r, [NoLocals EXCEPT !.held = Held(r), !.object = object])
                /\ registry' = [registry EXCEPT ![home[r]] = object]
                /\ pc' = [pc EXCEPT ![r] = "wait"]
                /\ NobodyRefused
    /\ UNCHANGED <<redisVars, holder, home, late, historyVars>>

Enter(r) ==
    /\ At(r, "wait") /\ holder[local[r].object] = None
    /\ holder' = [holder EXCEPT ![local[r].object] = r]
    /\ pc' = [pc EXCEPT ![r] = "second"]
    /\ NobodyRefused
    /\ UNCHANGED <<redisVars, registry, home, local, late, historyVars>>

ReadAgain(r) ==
    /\ At(r, "second")
    /\ IF Hit
       THEN Leaves(r, "ended")
       ELSE Goto(r, "acquire") /\ Sets(r, [local[r] EXCEPT !.held = Held(r)])
    /\ UNCHANGED <<redisVars, home, late, historyVars>>

\* The lock in Redis.  The entry is not read again once it is held.
Acquire(r) ==
    /\ At(r, "acquire")
    /\ AcquireLock(r)
    /\ IF lock = None
       THEN Goto(r, "reserve") /\ Sets(r, [local[r] EXCEPT !.acquired = TRUE])
       ELSE Goto(r, "poll") /\ UNCHANGED local
    /\ UNCHANGED <<home, late, historyVars>>

\* Somebody else holds it: the entry is read until it is fresh, or turns run out.
Poll(r) ==
    /\ At(r, "poll")
    /\ IF Hit THEN Leaves(r, "ended")
       ELSE IF local[r].polls + 1 < Polls
       THEN Goto(r, "poll") /\ Sets(r, [local[r] EXCEPT !.held = Held(r), !.polls = @ + 1])
       ELSE Leaves(r, IF Held(r) THEN "ended" ELSE "refused")
    /\ UNCHANGED <<redisVars, home, late, historyVars>>

\* Mutated: an exhausted quota is reported although a stale entry was read.
ReserveStrictly(r) ==
    /\ At(r, "reserve")
    /\ ReserveQuota(r)
    /\ IF counter >= Limit THEN Leaves(r, "refused") ELSE Goto(r, "call") /\ UNCHANGED local
    /\ UNCHANGED <<home, late, historyVars>>

Reserve(r) ==
    /\ At(r, "reserve")
    /\ ReserveQuota(r)
    /\ IF counter >= Limit THEN StaleOr(r, "refused") ELSE Goto(r, "call") /\ UNCHANGED local
    /\ UNCHANGED <<home, late, historyVars>>

\* The provider answers.
Call(r) ==
    /\ At(r, "call")
    /\ \/ /\ Goto(r, "store")
          /\ used' = IF lapsed THEN 0 ELSE used + 1
          /\ UNCHANGED local
       \/ /\ Goto(r, "rollback")
          /\ \E e \in Error : Sets(r, [local[r] EXCEPT !.error = e])
          /\ UNCHANGED used
    /\ overtime' = overtime \ {r}
    /\ UNCHANGED <<redisVars, home, late, lapsed, spoiled>>

\* After the rollback, whether it was answered or not.
HandleProviderError(r) ==
    \/ local[r].error = "not_found" /\ Goto(r, "negative") /\ UNCHANGED local
    \/ local[r].error = "failed"    /\ StaleOr(r, "refused")
    \/ local[r].error = "raised"    /\ Leaves(r, "ended")

Rollback(r) ==
    /\ At(r, "rollback")
    /\ RollbackQuota(r)
    /\ HandleProviderError(r)
    /\ UNCHANGED <<home, late, historyVars>>

StoreNegative(r) ==
    /\ At(r, "negative")
    /\ SetEntry("negative")
    /\ Leaves(r, "ended")
    /\ UNCHANGED <<home, late, historyVars>>

Store(r) ==
    /\ At(r, "store")
    /\ SetEntry("fresh")
    /\ Leaves(r, "ended")
    /\ UNCHANGED <<home, late, historyVars>>

\* The end of the finally clause: by now another request may have entered the
\* lock object.
Unlock(r) ==
    /\ At(r, "unlock")
    /\ ReleaseLock(r)
    /\ Returns(r)
    /\ DropEntry(r, holder)
    /\ NobodyRefused
    /\ UNCHANGED <<holder, home, late, historyVars>>

\* What a command without an answer leaves behind.
LeavesBehind(r) ==
    \/ UNCHANGED late
    \/ /\ pc[r] \in Command
       /\ Cardinality(late) < MaxLate
       /\ late' = late \cup {<<r, pc[r]>>}

\* Mutated: a usable answer that cannot be cached is rolled back.
StoreFailsRefunding(r) ==
    /\ pc[r] \in {"negative", "store"}
    /\ IF At(r, "store") THEN Goto(r, "rollback") /\ UNCHANGED local ELSE StaleOr(r, "refused")

StoreFails(r) == pc[r] \in {"negative", "store"} /\ StaleOr(r, "refused")

\* Mutated: a failed read in the loop leaves the lock object locked.
ReadFailsLocked(r) ==
    \/ At(r, "read") /\ Returns(r) /\ Ends(r, "ended") /\ UNCHANGED processVars
    \/ At(r, "second") /\ Leaves(r, "ended")
    \/ At(r, "poll") /\ Returns(r) /\ Ends(r, "ended") /\ UNCHANGED processVars

\* A read that fails ends the request even if it holds a stale entry.
ReadFails(r) ==
    \/ At(r, "read") /\ Returns(r) /\ Ends(r, "ended") /\ UNCHANGED processVars
    \/ pc[r] \in {"second", "poll"} /\ Leaves(r, "ended")

Fails(r) ==
    /\ \/ ReadFails(r)
       \/ At(r, "acquire") /\ IF local[r].held THEN Goto(r, "poll") /\ UNCHANGED local
                              ELSE Leaves(r, "refused")
       \/ At(r, "reserve") /\ StaleOr(r, "refused")
       \/ At(r, "rollback") /\ HandleProviderError(r)
       \/ StoreFails(r)
       \/ At(r, "unlock") /\ Returns(r) /\ DropEntry(r, holder) /\ NobodyRefused
          /\ UNCHANGED holder
    /\ LeavesBehind(r)
    /\ overtime' = overtime \ {r}
    /\ UNCHANGED <<redisVars, home, used, lapsed, spoiled>>

\* A cancelled call is rolled back; a cancelled rollback is shielded and goes
\* on by itself; a cancelled release of the lock skips the registry.
Cancelled(r) ==
    /\ \/ At(r, "read") /\ Returns(r) /\ Ends(r, "ended") /\ UNCHANGED <<processVars, spoiled>>
       \/ /\ At(r, "wait")
          /\ Returns(r) /\ Ends(r, "ended")
          /\ DropEntry(r, holder)
          /\ UNCHANGED <<holder, spoiled>>
       \/ pc[r] \in Inside \ {"call"} /\ Leaves(r, "ended") /\ UNCHANGED spoiled
       \/ /\ At(r, "call")
          /\ Goto(r, "rollback")
          /\ Sets(r, [local[r] EXCEPT !.error = "raised"])
          /\ UNCHANGED spoiled
       \/ /\ At(r, "unlock")
          /\ Returns(r)
          /\ spoiled' = spoiled \cup {home[r]}
          /\ NobodyRefused
          /\ UNCHANGED processVars
    /\ LeavesBehind(r)
    /\ overtime' = overtime \ {r}
    /\ UNCHANGED <<redisVars, home, used, lapsed>>

RequestStep(r) ==
    \/ Read(r) \/ Enter(r) \/ ReadAgain(r) \/ Acquire(r) \/ Poll(r) \/ Reserve(r) \/ Call(r)
    \/ Rollback(r) \/ StoreNegative(r) \/ Store(r) \/ Unlock(r)

(***************************************************************************)
(* The environment.                                                        *)
(***************************************************************************)
ArrivesLate ==
    \E command \in late :
        /\ Executes(command[1], command[2])
        /\ late' = late \ {command}
        /\ UNCHANGED <<processVars, home, local, pc, historyVars>>

\* A valid entry is fresh, then stale, then gone; an entry for "not found" has
\* no stale time.
EntryAges ==
    /\ entry # "absent"
    /\ entry' = IF entry = "fresh" THEN "stale" ELSE "absent"
    /\ UNCHANGED <<lock, counter, processVars, home, local, pc, late, historyVars>>

LockExpires ==
    /\ lock # None
    /\ pc[lock] \in Refreshing => TimesOut
    /\ lock' = None
    /\ overtime' = IF pc[lock] \in {"reserve", "call"} THEN overtime \cup {lock} ELSE overtime
    /\ UNCHANGED <<entry, counter, processVars, home, local, pc, late, used, lapsed, spoiled>>

\* A counter lapses in the last second of its day, or later.
CounterLapses ==
    /\ counter > 0
    /\ counter' = 0
    /\ lapsed' = TRUE /\ used' = 0
    /\ UNCHANGED <<entry, lock, processVars, home, local, pc, late, overtime, spoiled>>

Environment ==
    /\ ArrivesLate \/ EntryAges \/ LockExpires \/ CounterLapses
    /\ NobodyRefused

Next ==
    \/ \E r \in Request : RequestStep(r) \/ Fails(r) \/ Cancelled(r)
    \/ Environment

Spec == Init /\ [][Next]_vars

-----------------------------------------------------------------------------
(***************************************************************************)
(* Properties.                                                             *)
(***************************************************************************)
RefreshTypeOK ==
    /\ entry \in Entry
    /\ lock \in Request \cup {None}
    /\ counter \in Nat
    /\ registry \in [Process -> LockObject \cup {None}]
    /\ holder \in [LockObject -> Request \cup {None}]
    /\ home \in [Request -> Process]
    /\ local \in [Request -> Locals]
    /\ pc \in [Request -> Pc]
    /\ refused \in Request \cup {None}
    /\ late \subseteq Request \X Command
    /\ used \in Nat /\ lapsed \in BOOLEAN /\ overtime \subseteq Request
    /\ spoiled \subseteq Process

\* Calls that have used up a credit, or may do so yet.
Spent == used + Cardinality({r \in Request : At(r, "call")})

\* As long as the counter of a day lives, it counts every call that is under way
\* or has brought usable data, and never more than the limit: a rollback gives
\* back the failed call's own credit and no other (_QUOTA_ROLLBACK_SCRIPT).
QuotaHolds ==
    ~lapsed => Spent <= counter /\ counter <= Limit

\* At most one request refreshes the key under a lock that has not expired,
\* however the registry of lock objects loses track of them (the token
\* compared by the release).
OneRefresh ==
    \A r, q \in Request \ overtime :
        At(r, "call") /\ At(q, "call") => r = q

Knows(r) == local[r].held \/ (At(r, "poll") /\ entry = "stale")

\* A request that has read a valid entry answers with it, whatever keeps it from
\* refreshing it: a busy lock, an exhausted quota, a failed provider, a failure
\* of the lock, of the reservation or of either store.  Only a failed read, or a
\* provider that fails in another way, ends it without (_cached).
StaleFallback == [][\A r \in Request :
    refused' = r => ~Knows(r)]_vars

\* The registry keeps no lock object that nobody uses, although requests drop
\* each other's; only a request cancelled in its finally clause leaves one.
RegistryEmptied ==
    \A p \in Process \ spoiled :
        (\A r \in Request : home[r] = p => pc[r] \in {"read", "done"})
            => registry[p] = None

\* A lock object is locked only by a request that is inside it and will leave
\* it: no failure or cancellation leaves the requests that wait for it behind.
NoLockLeftHeld ==
    \A l \in LockObject : holder[l] # None =>
        pc[holder[l]] \in Inside /\ local[holder[l]].object = l

\* docs/architecture.md:156: for a stale entry or miss, the service acquires a
\* Redis lock and double-checks the cache: no credit is spent while the entry is
\* fresh.
DoubleChecked == [][\A r \in Request :
    ~At(r, "call") /\ At(r, "call")' => entry # "fresh"]_vars
=============================================================================
