----------------------- MODULE MarketDataRefreshProofs -----------------------
(***************************************************************************)
(* Proofs about MarketDataRefresh for any number of requests, processes,   *)
(* polls and late commands: the lock objects and their registry, the lock  *)
(* in Redis, the quota, and the stale entry as a fallback.                 *)
(***************************************************************************)
EXTENDS MarketDataRefresh, FiniteSetTheorems, TLAPS

(***************************************************************************)
(* The lock objects of a process.                                          *)
(***************************************************************************)
ObjectTypeOK ==
    /\ registry \in [Process -> LockObject \cup {None}]
    /\ holder \in [LockObject -> Request \cup {None}]
    /\ home \in [Request -> Process]
    /\ local \in [Request -> Locals]
    /\ pc \in [Request -> Pc]
    /\ spoiled \subseteq Process

\* A request between the registry and its return has a lock object of its own
\* process; inside, it is the one that holds it.
ObjectInv ==
    /\ ObjectTypeOK
    /\ \A p \in Process : registry[p] # None => home[registry[p]] = p
    /\ \A r \in Request :
          /\ pc[r] \notin {"read", "done"} =>
                local[r].object # None /\ home[local[r].object] = home[r]
          /\ pc[r] \in Inside => holder[local[r].object] = r
    /\ NoLockLeftHeld
    /\ RegistryEmptied

\* The kinds of steps a request takes among the lock objects.
Stays(r) ==
    /\ pc[r] \in Inside
    /\ \E to \in Inside : pc' = [pc EXCEPT ![r] = to]
    /\ \E l \in Locals : l.object = local[r].object /\ local' = [local EXCEPT ![r] = l]
    /\ UNCHANGED <<processVars, home, spoiled>>

GoesOut(r) ==
    /\ pc[r] \in Inside
    /\ \E o \in Outcome : Leaves(r, o)
    /\ UNCHANGED <<home, spoiled>>

Registers(r) ==
    LET object == IF registry[home[r]] = None THEN r ELSE registry[home[r]]
    IN  /\ At(r, "read")
        /\ \E held \in BOOLEAN : Sets(r, [NoLocals EXCEPT !.held = held, !.object = object])
        /\ registry' = [registry EXCEPT ![home[r]] = object]
        /\ pc' = [pc EXCEPT ![r] = "wait"]
        /\ UNCHANGED <<holder, home, spoiled>>

TurnsBack(r) ==
    /\ At(r, "read") /\ Returns(r)
    /\ UNCHANGED <<processVars, home, spoiled>>

GoesIn(r) ==
    /\ At(r, "wait") /\ holder[local[r].object] = None
    /\ holder' = [holder EXCEPT ![local[r].object] = r]
    /\ pc' = [pc EXCEPT ![r] = "second"]
    /\ UNCHANGED <<registry, home, local, spoiled>>

\* From the queue, or at the end of the finally clause.
LeavesRegistry(r) ==
    /\ pc[r] \in {"wait", "unlock"} /\ Returns(r)
    /\ DropEntry(r, holder)
    /\ UNCHANGED <<holder, home, spoiled>>

\* Cancelled in the finally clause.
Spoils(r) ==
    /\ At(r, "unlock") /\ Returns(r)
    /\ spoiled' = spoiled \cup {home[r]}
    /\ UNCHANGED <<processVars, home>>

ObjectStep(r) ==
    \/ Stays(r) \/ GoesOut(r) \/ Registers(r) \/ TurnsBack(r)
    \/ GoesIn(r) \/ LeavesRegistry(r) \/ Spoils(r)

LEMMA LocalsTyped ==
    /\ NoLocals \in Locals
    /\ \A object \in LockObject \cup {None}, held \in BOOLEAN :
          /\ [NoLocals EXCEPT !.object = object] \in Locals
          /\ [NoLocals EXCEPT !.held = held, !.object = object] \in Locals
<1>1. 0 \in 0..Polls /\ "failed" \in Error /\ FALSE \in BOOLEAN
  BY RefreshAssumption DEF Error
<1>2. NoLocals \in Locals
  BY <1>1 DEF NoLocals, Locals
<1>3. \A object \in LockObject \cup {None} : [NoLocals EXCEPT !.object = object] \in Locals
  BY <1>1 DEF NoLocals, Locals
<1>4. \A object \in LockObject \cup {None}, held \in BOOLEAN :
          [NoLocals EXCEPT !.held = held, !.object = object] \in Locals
  BY <1>1 DEF NoLocals, Locals
<1> QED
  BY <1>2, <1>3, <1>4

LEMMA StaysKeepsObjects ==
    ASSUME ObjectInv, NEW r \in Request, Stays(r) PROVE ObjectInv'
<1> USE DEF Stays, ObjectInv, processVars
<1>1. PICK to \in Inside, l \in Locals :
          /\ pc' = [pc EXCEPT ![r] = to]
          /\ l.object = local[r].object /\ local' = [local EXCEPT ![r] = l]
  OBVIOUS
<1>2. ObjectTypeOK'
  BY <1>1 DEF ObjectTypeOK, Pc, Awaiting
<1>3. \A q \in Request :
        /\ local'[q].object = local[q].object
        /\ pc'[q] \in {"read", "done"} <=> pc[q] \in {"read", "done"}
        /\ pc'[q] \in Inside <=> pc[q] \in Inside
  BY <1>1 DEF ObjectTypeOK, Inside, Refreshing
<1>4. NoLockLeftHeld'
  BY <1>3 DEF ObjectTypeOK, NoLockLeftHeld
<1>5. RegistryEmptied'
  BY <1>3 DEF RegistryEmptied
<1> QED
  BY <1>2, <1>3, <1>4, <1>5

LEMMA GoesOutKeepsObjects ==
    ASSUME ObjectInv, NEW r \in Request, GoesOut(r) PROVE ObjectInv'
<1> USE DEF GoesOut, Leaves, ObjectInv
<1> DEFINE object == local[r].object
<1>1. object \in LockObject /\ home[object] = home[r] /\ holder[object] = r
      /\ pc[r] \notin {"read", "done"}
  BY DEF ObjectTypeOK, Locals, Inside, Refreshing
<1>2. holder' = [holder EXCEPT ![object] = None] /\ holder'[object] = None
  BY <1>1 DEF ObjectTypeOK
<1>3. \/ /\ pc' = [pc EXCEPT ![r] = "unlock"]
         /\ local' = [local EXCEPT ![r] = [NoLocals EXCEPT !.object = object]]
         /\ UNCHANGED registry
      \/ /\ pc' = [pc EXCEPT ![r] = "done"]
         /\ local' = [local EXCEPT ![r] = NoLocals]
         /\ registry' = [registry EXCEPT ![home[r]] = None]
  BY <1>2 DEF Returns, Sets, DropEntry
<1>4. ObjectTypeOK'
  <2>1. local' \in [Request -> Locals]
    <3>1. NoLocals \in Locals /\ [NoLocals EXCEPT !.object = object] \in Locals
      BY <1>1, LocalsTyped
    <3>2. local \in [Request -> Locals]
      BY DEF ObjectTypeOK
    <3> QED
      BY ONLY <1>3, <3>1, <3>2
  <2>2. pc' \in [Request -> Pc]
    BY <1>3 DEF ObjectTypeOK, Pc, Awaiting
  <2>3. registry' \in [Process -> LockObject \cup {None}]
    BY <1>3 DEF ObjectTypeOK
  <2>4. holder' \in [LockObject -> Request \cup {None}]
    BY <1>2 DEF ObjectTypeOK
  <2> QED
    BY <2>1, <2>2, <2>3, <2>4 DEF ObjectTypeOK
<1>5. \A p \in Process : registry'[p] # None => registry[p] = registry'[p]
  BY <1>3 DEF ObjectTypeOK
<1>6. \A q \in Request :
        /\ pc'[q] \notin {"read", "done"} =>
              local'[q].object = local[q].object /\ pc[q] \notin {"read", "done"}
        /\ pc'[q] \in Inside => q # r /\ pc[q] \in Inside /\ local'[q] = local[q]
  BY <1>1, <1>3 DEF ObjectTypeOK, Inside, Refreshing, NoLocals
<1>7. NoLockLeftHeld'
  BY <1>1, <1>2, <1>3 DEF ObjectTypeOK, NoLockLeftHeld
<1>8. RegistryEmptied'
  BY <1>1, <1>3 DEF ObjectTypeOK, RegistryEmptied
<1>9. ASSUME NEW q \in Request, pc'[q] \in Inside PROVE holder'[local'[q].object] = q
  BY <1>1, <1>2, <1>6, <1>9 DEF ObjectTypeOK, Locals
<1> QED
  BY <1>4, <1>5, <1>6, <1>7, <1>8, <1>9

LEMMA RegistersKeepsObjects ==
    ASSUME ObjectInv, NEW r \in Request, Registers(r) PROVE ObjectInv'
<1> USE DEF Registers, At, Sets, ObjectInv
<1> DEFINE object == IF registry[home[r]] = None THEN r ELSE registry[home[r]]
<1>1. object \in LockObject /\ home[object] = home[r] /\ home[r] \in Process
  BY DEF ObjectTypeOK, LockObject
<1>2. PICK held \in BOOLEAN :
          local' = [local EXCEPT ![r] = [NoLocals EXCEPT !.held = held, !.object = object]]
  OBVIOUS
<1>3. registry' = [registry EXCEPT ![home[r]] = object] /\ pc' = [pc EXCEPT ![r] = "wait"]
  OBVIOUS
<1> HIDE DEF object
<1>4. ObjectTypeOK'
  <2>1. local' \in [Request -> Locals]
    BY <1>1, <1>2, LocalsTyped DEF ObjectTypeOK
  <2>2. pc' \in [Request -> Pc]
    BY <1>3 DEF ObjectTypeOK, Pc, Awaiting
  <2>3. registry' \in [Process -> LockObject \cup {None}]
    BY <1>1, <1>3 DEF ObjectTypeOK
  <2> QED
    BY <2>1, <2>2, <2>3 DEF ObjectTypeOK
<1>5. local'[r].object = object /\ object # None
  BY <1>1, <1>2, RefreshAssumption DEF ObjectTypeOK, NoLocals, LockObject
<1>6. \A q \in Request \ {r} : local'[q] = local[q] /\ pc'[q] = pc[q]
  BY <1>2, <1>3 DEF ObjectTypeOK
<1>7. pc'[r] = "wait" /\ pc[r] = "read" /\ "wait" \notin Inside /\ "read" \notin Inside
  BY <1>3 DEF ObjectTypeOK, Inside, Refreshing
<1>8. NoLockLeftHeld'
  BY <1>6, <1>7 DEF ObjectTypeOK, NoLockLeftHeld
<1>9. RegistryEmptied'
  BY <1>1, <1>3, <1>6, <1>7 DEF ObjectTypeOK, RegistryEmptied
<1>10. \A p \in Process : registry'[p] # None => home'[registry'[p]] = p
  BY <1>1, <1>3 DEF ObjectTypeOK
<1> QED
  BY <1>1, <1>4, <1>5, <1>6, <1>7, <1>8, <1>9, <1>10

LEMMA TurnsBackKeepsObjects ==
    ASSUME ObjectInv, NEW r \in Request, TurnsBack(r) PROVE ObjectInv'
<1> USE DEF TurnsBack, At, Returns, Sets, ObjectInv, processVars
<1>1. ObjectTypeOK'
  BY LocalsTyped DEF ObjectTypeOK, Pc
<1>2. \A q \in Request \ {r} : local'[q] = local[q] /\ pc'[q] = pc[q]
  BY DEF ObjectTypeOK
<1>3. pc'[r] = "done" /\ pc[r] = "read" /\ "done" \notin Inside /\ "read" \notin Inside
  BY DEF ObjectTypeOK, Inside, Refreshing
<1>4. NoLockLeftHeld'
  BY <1>2, <1>3 DEF ObjectTypeOK, NoLockLeftHeld
<1>5. RegistryEmptied'
  BY <1>2, <1>3 DEF RegistryEmptied
<1> QED
  BY <1>1, <1>2, <1>3, <1>4, <1>5

LEMMA GoesInKeepsObjects ==
    ASSUME ObjectInv, NEW r \in Request, GoesIn(r) PROVE ObjectInv'
<1> USE DEF GoesIn, At, ObjectInv
<1> DEFINE object == local[r].object
<1>1. object \in LockObject /\ holder[object] = None
  BY DEF ObjectTypeOK, Locals
<1>2. ObjectTypeOK'
  BY <1>1 DEF ObjectTypeOK, Pc, Awaiting, Inside
<1>3. \A q \in Request \ {r} : pc'[q] = pc[q]
  BY DEF ObjectTypeOK
<1>4. pc'[r] = "second" /\ pc[r] = "wait" /\ "second" \in Inside /\ "wait" \notin Inside
  BY DEF ObjectTypeOK, Inside, Refreshing
<1>5. holder'[object] = r /\ \A l \in LockObject \ {object} : holder'[l] = holder[l]
  BY <1>1 DEF ObjectTypeOK
<1>6. NoLockLeftHeld'
  BY <1>3, <1>4, <1>5 DEF ObjectTypeOK, NoLockLeftHeld
<1>7. RegistryEmptied'
  BY <1>3, <1>4 DEF ObjectTypeOK, RegistryEmptied
<1>8. ASSUME NEW q \in Request, pc'[q] \in Inside PROVE holder'[local'[q].object] = q
  <2>1. CASE q = r
    BY <1>5, <2>1
  <2>2. CASE q # r
    <3>1. holder[local[q].object] = q /\ q # None /\ local[q].object \in LockObject
      BY <1>3, <1>8, <2>2, RefreshAssumption DEF ObjectTypeOK, Locals, Inside, Refreshing
    <3> QED
      BY <1>1, <1>5, <3>1
  <2> QED
    BY <2>1, <2>2
<1> QED
  BY <1>2, <1>3, <1>4, <1>6, <1>7, <1>8

\* The entry is dropped, or the lock object is in use by a request of the same
\* process, which will drop it.
LEMMA LeavesRegistryKeepsObjects ==
    ASSUME ObjectInv, NEW r \in Request, LeavesRegistry(r) PROVE ObjectInv'
<1> USE DEF LeavesRegistry, Returns, Sets, ObjectInv
<1> DEFINE object == local[r].object
<1>1. object \in LockObject /\ home[object] = home[r]
  BY DEF ObjectTypeOK, Locals
<1>2. \/ holder[object] = None /\ registry' = [registry EXCEPT ![home[r]] = None]
      \/ holder[object] # None /\ UNCHANGED registry
  BY DEF DropEntry
<1>3. ObjectTypeOK'
  BY <1>2, LocalsTyped DEF ObjectTypeOK, Pc
<1>4. \A q \in Request \ {r} : local'[q] = local[q] /\ pc'[q] = pc[q]
  BY DEF ObjectTypeOK
<1>5. pc'[r] = "done" /\ pc[r] \notin Inside /\ "done" \notin Inside
  BY DEF ObjectTypeOK, Inside, Refreshing
<1>6. NoLockLeftHeld'
  BY <1>4, <1>5 DEF ObjectTypeOK, NoLockLeftHeld
<1>7. RegistryEmptied'
  <2>1. CASE registry' = [registry EXCEPT ![home[r]] = None]
    BY <1>4, <2>1 DEF ObjectTypeOK, RegistryEmptied
  <2>2. CASE holder[object] # None /\ UNCHANGED registry
    <3>1. /\ holder[object] \in Request /\ pc[holder[object]] \in Inside
          /\ local[holder[object]].object = object
      BY <1>1, <2>2 DEF ObjectTypeOK, NoLockLeftHeld
    <3>2. /\ holder[object] # r /\ home[holder[object]] = home[r]
          /\ pc'[holder[object]] \notin {"read", "done"}
      BY <1>1, <1>4, <1>5, <3>1 DEF Inside, Refreshing
    <3> QED
      BY <1>4, <2>2, <3>1, <3>2 DEF ObjectTypeOK, RegistryEmptied
  <2> QED
    BY <1>2, <2>1, <2>2
<1>8. \A p \in Process : registry'[p] # None => home'[registry'[p]] = p
  BY <1>2 DEF ObjectTypeOK
<1> QED
  BY <1>3, <1>4, <1>5, <1>6, <1>7, <1>8

LEMMA SpoilsKeepsObjects ==
    ASSUME ObjectInv, NEW r \in Request, Spoils(r) PROVE ObjectInv'
<1> USE DEF Spoils, At, Returns, Sets, ObjectInv, processVars
<1>1. ObjectTypeOK'
  <2>1. local' \in [Request -> Locals] /\ pc' \in [Request -> Pc]
    BY LocalsTyped DEF ObjectTypeOK, Pc
  <2>2. spoiled' \subseteq Process
    BY DEF ObjectTypeOK
  <2> QED
    BY <2>1, <2>2 DEF ObjectTypeOK
<1>2. \A q \in Request \ {r} : local'[q] = local[q] /\ pc'[q] = pc[q]
  BY DEF ObjectTypeOK
<1>3. pc'[r] = "done" /\ pc[r] \notin Inside /\ "done" \notin Inside
  BY DEF ObjectTypeOK, Inside, Refreshing
<1>4. NoLockLeftHeld'
  BY <1>2, <1>3 DEF ObjectTypeOK, NoLockLeftHeld
<1>5. RegistryEmptied'
  BY <1>2 DEF ObjectTypeOK, RegistryEmptied
<1> QED
  BY <1>1, <1>2, <1>3, <1>4, <1>5

LEMMA ObjectStepKeepsObjects ==
    ASSUME ObjectInv, NEW r \in Request, ObjectStep(r) PROVE ObjectInv'
  BY StaysKeepsObjects, GoesOutKeepsObjects, RegistersKeepsObjects, TurnsBackKeepsObjects,
     GoesInKeepsObjects, LeavesRegistryKeepsObjects, SpoilsKeepsObjects DEF ObjectStep

(***************************************************************************)
(* Every step of a request is one of these kinds.                          *)
(***************************************************************************)
\* What Goto inside the lock object, with these locals or the same ones, comes to.
LEMMA GotoStays ==
    ASSUME ObjectInv, NEW r \in Request, pc[r] \in Inside, NEW to \in Inside, Goto(r, to),
           \/ UNCHANGED local
           \/ \E l \in Locals : l.object = local[r].object /\ Sets(r, l),
           UNCHANGED <<home, spoiled>>
    PROVE  Stays(r)
<1>1. local[r] \in Locals /\ local = [local EXCEPT ![r] = local[r]]
  BY DEF ObjectInv, ObjectTypeOK
<1>2. \E l \in Locals : l.object = local[r].object /\ local' = [local EXCEPT ![r] = l]
  BY <1>1 DEF Sets
<1> QED
  BY <1>2 DEF Stays, Goto

LEMMA LocalsChange ==
    ASSUME ObjectInv, NEW r \in Request
    PROVE  /\ \A held \in BOOLEAN :
                 /\ [local[r] EXCEPT !.held = held] \in Locals
                 /\ local[r].polls + 1 < Polls =>
                       [local[r] EXCEPT !.held = held, !.polls = @ + 1] \in Locals
           /\ [local[r] EXCEPT !.acquired = TRUE] \in Locals
           /\ \A e \in Error : [local[r] EXCEPT !.error = e] \in Locals
           /\ Held(r) \in BOOLEAN /\ local[r].error \in Error
<1> DEFINE l == local[r]
<1>1. l \in Locals
  BY DEF ObjectInv, ObjectTypeOK
<1>2. Held(r) \in BOOLEAN /\ l.error \in Error
  BY <1>1 DEF Locals, Held
<1> HIDE DEF l
<1>3. \A held \in BOOLEAN : [l EXCEPT !.held = held] \in Locals
  BY <1>1 DEF Locals
<1>4. ASSUME NEW held \in BOOLEAN, l.polls + 1 < Polls
      PROVE  [l EXCEPT !.held = held, !.polls = @ + 1] \in Locals
  <2>1. l.polls + 1 \in 0..Polls
    BY <1>1, <1>4, RefreshAssumption DEF Locals
  <2> QED
    BY <1>1, <2>1 DEF Locals
<1>5. [l EXCEPT !.acquired = TRUE] \in Locals
  BY <1>1 DEF Locals
<1>6. \A e \in Error : [l EXCEPT !.error = e] \in Locals
  BY <1>1 DEF Locals
<1> QED
  BY <1>2, <1>3, <1>4, <1>5, <1>6 DEF l

LEMMA LeavesGoesOut ==
    ASSUME NEW r, pc[r] \in Inside, NEW o \in Outcome, Leaves(r, o), UNCHANGED <<home, spoiled>>
    PROVE  GoesOut(r)
  BY DEF GoesOut

LEMMA QuietStepsAreObjectSteps ==
    ASSUME ObjectInv, NEW r \in Request,
           Read(r) \/ Enter(r) \/ Unlock(r) \/ StoreNegative(r) \/ Store(r)
    PROVE  ObjectStep(r)
<1>1. CASE Read(r) /\ Hit
  BY <1>1 DEF Read, TurnsBack, ObjectStep, processVars, historyVars
<1>2. CASE Read(r) /\ ~Hit
  <2>1. Held(r) \in BOOLEAN
    BY LocalsChange
  <2> QED
    BY <1>2, <2>1 DEF Read, Registers, ObjectStep, historyVars
<1>3. CASE Enter(r)
  BY <1>3 DEF Enter, GoesIn, ObjectStep, historyVars
<1>4. CASE Unlock(r)
  BY <1>4 DEF Unlock, At, LeavesRegistry, ObjectStep, historyVars
<1>5. CASE StoreNegative(r) \/ Store(r)
  BY <1>5, LeavesGoesOut
  DEF StoreNegative, Store, At, ObjectStep, historyVars, Outcome, Inside, Refreshing
<1> QED
  BY <1>1, <1>2, <1>3, <1>4, <1>5

LEMMA LockedStepsAreObjectSteps ==
    ASSUME ObjectInv, NEW r \in Request,
           ReadAgain(r) \/ Acquire(r) \/ Poll(r) \/ Reserve(r) \/ Call(r) \/ Rollback(r)
    PROVE  ObjectStep(r)
<1>1. pc[r] \in Inside /\ UNCHANGED <<home, spoiled>>
  BY DEF ReadAgain, Acquire, Poll, Reserve, Call, Rollback, At, historyVars, Inside, Refreshing
<1>2. CASE \E o \in {"ended", "refused"} : Leaves(r, o)
  BY <1>1, <1>2, LeavesGoesOut DEF ObjectStep, Outcome
<1>3. CASE \E to \in Inside : Goto(r, to) /\ UNCHANGED local
  BY <1>1, <1>3, GotoStays DEF ObjectStep
<1>4. CASE \E to \in Inside, l \in Locals : Goto(r, to) /\ l.object = local[r].object /\ Sets(r, l)
  BY <1>1, <1>4, GotoStays DEF ObjectStep
<1>5. \/ \E o \in {"ended", "refused"} : Leaves(r, o)
      \/ \E to \in Inside : Goto(r, to) /\ UNCHANGED local
      \/ \E to \in Inside, l \in Locals : Goto(r, to) /\ l.object = local[r].object /\ Sets(r, l)
  <2>1. local[r] \in Locals
    BY DEF ObjectInv, ObjectTypeOK
  <2>2. CASE ReadAgain(r)
    BY <2>1, <2>2, LocalsChange DEF ReadAgain, Inside, Refreshing, Locals
  <2>3. CASE Acquire(r)
    BY <2>1, <2>3, LocalsChange DEF Acquire, Inside, Refreshing, Locals
  <2>4. CASE Poll(r)
    BY <2>1, <2>4, LocalsChange DEF Poll, Inside, Refreshing, Locals
  <2>5. CASE Reserve(r)
    BY <2>5 DEF Reserve, StaleOr, Inside, Refreshing
  <2>6. CASE Call(r)
    BY <2>1, <2>6, LocalsChange DEF Call, Inside, Refreshing, Locals
  <2>7. CASE Rollback(r)
    BY <2>7 DEF Rollback, HandleProviderError, StaleOr, Inside, Refreshing
  <2> QED
    BY <2>2, <2>3, <2>4, <2>5, <2>6, <2>7
<1> QED
  BY <1>2, <1>3, <1>4, <1>5

LEMMA FailuresAreObjectSteps ==
    ASSUME ObjectInv, NEW r \in Request, Fails(r) \/ Cancelled(r)
    PROVE  ObjectStep(r)
<1>1. UNCHANGED home
  BY DEF Fails, Cancelled
<1>2. CASE /\ pc[r] \in Inside /\ UNCHANGED spoiled
           /\ \E o \in {"ended", "refused"} : Leaves(r, o)
  BY <1>1, <1>2, LeavesGoesOut DEF ObjectStep, Outcome
<1>3. CASE /\ pc[r] \in Inside /\ UNCHANGED spoiled
           /\ \E to \in Inside : Goto(r, to) /\ UNCHANGED local
  BY <1>1, <1>3, GotoStays DEF ObjectStep
<1>4. CASE At(r, "call") /\ Cancelled(r) /\ Goto(r, "rollback")
  <2>1. pc[r] \in Inside /\ "rollback" \in Inside /\ UNCHANGED <<home, spoiled>>
    BY <1>4 DEF At, Cancelled, Inside, Refreshing, Goto
  <2>2. /\ [local[r] EXCEPT !.error = "raised"] \in Locals
        /\ [local[r] EXCEPT !.error = "raised"].object = local[r].object
    <3>1. local[r] \in Locals /\ "raised" \in Error
      BY DEF ObjectInv, ObjectTypeOK, Error
    <3>2. [local[r] EXCEPT !.error = "raised"].object = local[r].object
      BY <3>1 DEF Locals
    <3> QED
      BY <3>1, <3>2, LocalsChange
  <2>3. Sets(r, [local[r] EXCEPT !.error = "raised"])
    BY <1>4 DEF At, Cancelled, Inside
  <2> QED
    BY <1>4, <2>1, <2>2, <2>3, GotoStays DEF ObjectStep
<1>5. CASE At(r, "read") /\ Returns(r) /\ UNCHANGED <<processVars, spoiled>>
  BY <1>1, <1>5 DEF TurnsBack, ObjectStep
<1>6. CASE /\ pc[r] \in {"wait", "unlock"} /\ Returns(r) /\ DropEntry(r, holder)
           /\ UNCHANGED <<holder, spoiled>>
  BY <1>1, <1>6 DEF LeavesRegistry, ObjectStep
<1>7. CASE At(r, "unlock") /\ Returns(r) /\ spoiled' = spoiled \cup {home[r]}
           /\ UNCHANGED processVars
  BY <1>1, <1>7 DEF Spoils, ObjectStep
<1>8. CASE Fails(r)
  <2> USE <1>8 DEF Fails, At, Inside, Refreshing
  <2>1. CASE ReadFails(r)
    BY <2>1, <1>2, <1>5 DEF ReadFails, processVars
  <2>2. CASE At(r, "acquire")
    BY <2>2, <1>2, <1>3 DEF ReadFails, StoreFails
  <2>3. CASE At(r, "reserve")
    BY <2>3, <1>2 DEF ReadFails, StoreFails, StaleOr
  <2>4. CASE At(r, "rollback")
    BY <2>4, <1>2, <1>3 DEF HandleProviderError, StaleOr, ReadFails, StoreFails
  <2>5. CASE StoreFails(r)
    BY <2>5, <1>2 DEF StoreFails, StaleOr
  <2>6. CASE At(r, "unlock")
    BY <2>6, <1>6 DEF ReadFails, StoreFails
  <2> QED
    BY <2>1, <2>2, <2>3, <2>4, <2>5, <2>6
<1>9. CASE Cancelled(r)
  BY <1>9, <1>2, <1>4, <1>5, <1>6, <1>7 DEF Cancelled, At
<1> QED
  BY <1>8, <1>9

LEMMA StepsAreObjectSteps ==
    ASSUME ObjectInv, NEW r \in Request, RequestStep(r) \/ Fails(r) \/ Cancelled(r)
    PROVE  ObjectStep(r)
  BY QuietStepsAreObjectSteps, LockedStepsAreObjectSteps, FailuresAreObjectSteps DEF RequestStep

(***************************************************************************)
(* The lock in Redis.                                                      *)
(***************************************************************************)
\* Who is about to call the provider holds the lock, unless it has expired; a
\* release without a caller belongs to a request that has returned.
LockInv ==
    /\ lock \in Request \cup {None}
    /\ late \subseteq Request \X Command
    /\ overtime \subseteq Request
    /\ \A r \in Request \ overtime : pc[r] \in {"reserve", "call"} => lock = r
    /\ \A command \in late : command[2] = "unlock" => pc[command[1]] = "done"

\* What any step of a request does to the program counters.
LEMMA OnePcMoves ==
    ASSUME ObjectInv, NEW r \in Request, ObjectStep(r)
    PROVE  /\ \A q \in Request \ {r} : pc'[q] = pc[q]
           /\ pc[r] # "done"
<1>1. pc \in [Request -> Pc]
  BY DEF ObjectInv, ObjectTypeOK
<1>2. pc[r] # "done" /\ \E to : pc' = [pc EXCEPT ![r] = to]
  BY DEF ObjectStep, Stays, GoesOut, Leaves, Registers, TurnsBack, GoesIn, LeavesRegistry, Spoils,
         Returns, At, Inside, Refreshing
<1> QED
  BY <1>1, <1>2

\* What the steps of a request do to the lock in Redis and with it.
LEMMA LockMoves ==
    ASSUME ObjectInv, LockInv, NEW r \in Request, RequestStep(r) \/ Fails(r) \/ Cancelled(r)
    PROVE  /\ \/ lock' = lock
              \/ lock = None /\ lock' = r
              \/ lock = r /\ lock' = None /\ pc[r] = "unlock"
           /\ pc'[r] = "reserve" => lock' = r
           /\ pc'[r] = "call" => pc[r] = "reserve" /\ lock' = lock /\ overtime' = overtime
           /\ overtime \ {r} \subseteq overtime' /\ overtime' \subseteq overtime
<1> USE DEF ObjectInv, ObjectTypeOK, At, Goto, Returns, Leaves, Inside, Refreshing
<1>1. CASE Read(r) \/ Enter(r) \/ Unlock(r)
  BY <1>1 DEF Read, Enter, Unlock, ReleaseLock, redisVars, historyVars
<1>2. CASE StoreNegative(r) \/ Store(r)
  BY <1>2 DEF StoreNegative, Store, SetEntry, historyVars
<1>3. CASE ReadAgain(r) \/ Poll(r)
  BY <1>3 DEF ReadAgain, Poll, redisVars, historyVars
<1>4. CASE Acquire(r)
  BY <1>4 DEF Acquire, AcquireLock, historyVars
<1>5. CASE Reserve(r)
  BY <1>5 DEF Reserve, ReserveQuota, StaleOr, historyVars
<1>6. CASE Call(r)
  BY <1>6 DEF Call, redisVars
<1>7. CASE Rollback(r)
  BY <1>7 DEF Rollback, RollbackQuota, HandleProviderError, StaleOr, historyVars
<1>8. CASE Fails(r)
  BY <1>8 DEF Fails, ReadFails, HandleProviderError, StaleOr, StoreFails, redisVars
<1>9. CASE Cancelled(r)
  BY <1>9 DEF Cancelled, redisVars
<1> QED
  BY <1>1, <1>2, <1>3, <1>4, <1>5, <1>6, <1>7, <1>8, <1>9 DEF RequestStep

\* Commands are left behind by failures and cancellations; a release only by a
\* request that returns.
LEMMA LateMoves ==
    ASSUME ObjectInv, NEW r \in Request, RequestStep(r) \/ Fails(r) \/ Cancelled(r)
    PROVE  \/ late' = late
           \/ /\ pc[r] \in Command /\ late' = late \cup {<<r, pc[r]>>}
              /\ pc[r] = "unlock" => pc'[r] = "done"
<1> USE DEF ObjectInv, ObjectTypeOK, At, Returns
<1>1. CASE RequestStep(r)
  BY <1>1 DEF RequestStep, Read, Enter, ReadAgain, Acquire, Poll, Reserve, Call, Rollback,
              StoreNegative, Store, Unlock
<1>2. CASE Fails(r) \/ Cancelled(r)
  <2>1. \/ UNCHANGED late
        \/ pc[r] \in Command /\ late' = late \cup {<<r, pc[r]>>}
    BY <1>2 DEF Fails, Cancelled, LeavesBehind
  <2>2. pc[r] = "unlock" => pc'[r] = "done"
    BY <1>2 DEF Fails, Cancelled, ReadFails, StoreFails, Inside, Refreshing
  <2> QED
    BY <2>1, <2>2
<1> QED
  BY <1>1, <1>2

LEMMA RequestKeepsLock ==
    ASSUME ObjectInv, LockInv, NEW r \in Request, RequestStep(r) \/ Fails(r) \/ Cancelled(r)
    PROVE  LockInv'
<1>1. \A q \in Request \ {r} : pc'[q] = pc[q]
  BY StepsAreObjectSteps, OnePcMoves
<1>2. pc[r] # "done"
  BY StepsAreObjectSteps, OnePcMoves
<1>3. lock' \in Request \cup {None} /\ overtime' \subseteq Request
  BY LockMoves DEF LockInv
<1>4. late' \subseteq Request \X Command
  BY LateMoves DEF LockInv
<1>5. ASSUME NEW q \in Request \ overtime', pc'[q] \in {"reserve", "call"} PROVE lock' = q
  <2>1. CASE q = r
    BY <1>5, <2>1, LockMoves DEF LockInv
  <2>2. CASE q # r
    <3>1. q \notin overtime /\ pc[q] \in {"reserve", "call"} /\ lock = q
      BY <1>1, <1>5, <2>2, LockMoves DEF LockInv
    <3> QED
      BY <1>5, <2>2, <3>1, LockMoves, RefreshAssumption
  <2> QED
    BY <2>1, <2>2
<1>6. ASSUME NEW command \in late', command[2] = "unlock" PROVE pc'[command[1]] = "done"
  <2>1. CASE command \in late
    <3>1. pc[command[1]] = "done" /\ command[1] \in Request
      BY <1>6, <2>1 DEF LockInv
    <3> QED
      BY <1>1, <1>2, <3>1
  <2>2. CASE command \notin late
    BY <1>6, <2>2, LateMoves
  <2> QED
    BY <2>1, <2>2
<1> QED
  BY <1>3, <1>4, <1>5, <1>6 DEF LockInv

\* A late acquisition finds the lock free; a late release belongs to nobody who
\* calls the provider; an expiry is noted.
LEMMA EnvironmentKeepsLock ==
    ASSUME ObjectInv, LockInv, Environment PROVE LockInv'
<1>1. CASE ArrivesLate
  <2>1. PICK command \in late : Executes(command[1], command[2]) /\ late' = late \ {command}
    BY <1>1 DEF ArrivesLate
  <2>2. UNCHANGED <<pc, overtime>>
    BY <1>1 DEF ArrivesLate, historyVars
  <2>3. command[1] \in Request
    BY DEF LockInv
  <2>4. \/ lock' = lock
        \/ lock = None /\ lock' = command[1]
        \/ lock = command[1] /\ lock' = None /\ pc[command[1]] = "done"
    BY <2>1 DEF LockInv, Executes, AcquireLock, ReserveQuota, RollbackQuota, SetEntry, ReleaseLock
  <2> QED
    BY <2>1, <2>2, <2>3, <2>4, RefreshAssumption DEF LockInv
<1>2. CASE LockExpires
  <2>1. \A r \in Request \ overtime' : pc[r] \notin {"reserve", "call"}
    BY <1>2 DEF LockExpires, LockInv
  <2> QED
    BY <1>2, <2>1 DEF LockExpires, LockInv
<1>3. CASE EntryAges \/ CounterLapses
  BY <1>3 DEF EntryAges, CounterLapses, LockInv, historyVars
<1> QED
  BY <1>1, <1>2, <1>3 DEF Environment

(***************************************************************************)
(* The quota.                                                              *)
(***************************************************************************)
Charged == {r \in Request : pc[r] \in {"call", "rollback"}}

Returning == {command \in late : command[2] = "rollback"}

\* A living counter covers the usable answers, the calls under way or to be
\* rolled back, and the rollbacks still to arrive.
QuotaInv ==
    /\ counter \in 0..Limit
    /\ used \in Nat
    /\ lapsed \in BOOLEAN
    /\ IsFiniteSet(late)
    /\ ~lapsed => used + Cardinality(Charged) + Cardinality(Returning) <= counter

\* The sizes are numbers.
LEMMA SizesTyped ==
    ASSUME QuotaInv
    PROVE  /\ IsFiniteSet(Charged) /\ Cardinality(Charged) \in Nat
           /\ IsFiniteSet(Returning) /\ Cardinality(Returning) \in Nat
           /\ Limit \in Nat /\ counter \in Nat
<1>1. Charged \in SUBSET Request /\ Returning \in SUBSET late
  BY DEF Charged, Returning
<1> QED
  BY <1>1, RefreshAssumption, FS_Subset, FS_CardinalityType DEF QuotaInv

\* What the steps of a request do to the quota: nothing, a reservation, a call
\* that succeeds, a rollback, or a rollback without an answer.
LEMMA QuotaMoves ==
    ASSUME ObjectInv, QuotaInv, NEW r \in Request, RequestStep(r) \/ Fails(r) \/ Cancelled(r)
    PROVE  LET before == pc[r] \in {"call", "rollback"}
               after == pc'[r] \in {"call", "rollback"}
           IN  \/ /\ before <=> after
                  /\ UNCHANGED <<counter, used, lapsed>>
                  /\ \/ late' = late
                     \/ \E command : command[2] # "rollback" /\ late' = late \cup {command}
               \/ /\ ~before /\ after /\ counter < Limit /\ counter' = counter + 1
                  /\ UNCHANGED <<used, lapsed, late>>
               \/ /\ before /\ ~after /\ used' = (IF lapsed THEN 0 ELSE used + 1)
                  /\ UNCHANGED <<counter, lapsed, late>>
               \/ /\ before /\ ~after /\ RollbackQuota(r)
                  /\ UNCHANGED <<used, lapsed, late>>
               \/ /\ before /\ ~after /\ UNCHANGED <<counter, used, lapsed>>
                  /\ \/ late' = late
                     \/ \E command : command[2] = "rollback" /\ late' = late \cup {command}
<1> USE DEF ObjectInv, ObjectTypeOK, At, Goto, Returns, Leaves, Inside, Refreshing
<1>1. CASE Read(r) \/ Enter(r) \/ Unlock(r)
  BY <1>1 DEF Read, Enter, Unlock, ReleaseLock, redisVars, historyVars
<1>2. CASE StoreNegative(r) \/ Store(r)
  BY <1>2 DEF StoreNegative, Store, SetEntry, historyVars
<1>3. CASE ReadAgain(r) \/ Poll(r)
  BY <1>3 DEF ReadAgain, Poll, redisVars, historyVars
<1>4. CASE Acquire(r)
  BY <1>4 DEF Acquire, AcquireLock, historyVars
<1>5. CASE Reserve(r)
  <2>1. CASE counter >= Limit
    BY <1>5, <2>1 DEF Reserve, ReserveQuota, StaleOr, historyVars
  <2>2. CASE ~(counter >= Limit)
    <3>1. counter < Limit
      BY <2>2, SizesTyped
    <3>2. /\ pc[r] = "reserve" /\ pc'[r] = "call"
          /\ counter' = counter + 1 /\ UNCHANGED <<used, lapsed, late>>
      BY <1>5, <2>2 DEF Reserve, ReserveQuota, historyVars
    <3> QED
      BY <3>1, <3>2
  <2> QED
    BY <2>1, <2>2
<1>6. CASE Call(r)
  BY <1>6 DEF Call, redisVars
<1>7. CASE Rollback(r)
  BY <1>7 DEF Rollback, HandleProviderError, StaleOr, historyVars
<1>8. CASE (Fails(r) \/ Cancelled(r)) /\ pc[r] = "rollback"
  <2>1. pc'[r] \notin {"call", "rollback"} /\ UNCHANGED <<counter, used, lapsed>>
    BY <1>8 DEF Fails, Cancelled, ReadFails, HandleProviderError, StaleOr, StoreFails, redisVars
  <2>2. late' = late \/ late' = late \cup {<<r, "rollback">>}
    BY <1>8 DEF Fails, Cancelled, LeavesBehind
  <2>3. <<r, "rollback">>[2] = "rollback"
    OBVIOUS
  <2> QED
    BY <1>8, <2>1, <2>2, <2>3
<1>9. CASE (Fails(r) \/ Cancelled(r)) /\ pc[r] # "rollback"
  <2>1. /\ UNCHANGED <<counter, used, lapsed>>
        /\ pc[r] \in {"call", "rollback"} <=> pc'[r] \in {"call", "rollback"}
    BY <1>9 DEF Fails, Cancelled, ReadFails, StoreFails, StaleOr, redisVars
  <2>2. late' = late \/ late' = late \cup {<<r, pc[r]>>}
    BY <1>9 DEF Fails, Cancelled, LeavesBehind
  <2>3. <<r, pc[r]>>[2] # "rollback"
    BY <1>9
  <2> QED
    BY <2>1, <2>2, <2>3
<1> QED
  BY <1>1, <1>2, <1>3, <1>4, <1>5, <1>6, <1>7, <1>8, <1>9 DEF RequestStep

\* How a step of one request changes who is charged.
LEMMA ChargedMoves ==
    ASSUME QuotaInv, NEW r \in Request, \A q \in Request \ {r} : pc'[q] = pc[q]
    PROVE  LET before == pc[r] \in {"call", "rollback"}
               after == pc'[r] \in {"call", "rollback"}
           IN  /\ (before <=> after) => Cardinality(Charged') = Cardinality(Charged)
               /\ ~before /\ after => Cardinality(Charged') = Cardinality(Charged) + 1
               /\ before /\ ~after => /\ Cardinality(Charged') = Cardinality(Charged) - 1
                                      /\ Cardinality(Charged) > 0
<1> DEFINE before == pc[r] \in {"call", "rollback"}
           after == pc'[r] \in {"call", "rollback"}
<1>1. ASSUME before <=> after PROVE Charged' = Charged
  BY <1>1 DEF Charged
<1>2. ASSUME ~before, after PROVE Charged' = Charged \cup {r} /\ r \notin Charged
  BY <1>2 DEF Charged
<1>3. ASSUME before, ~after PROVE Charged' = Charged \ {r} /\ r \in Charged
  BY <1>3 DEF Charged
<1>4. ASSUME r \in Charged PROVE Cardinality(Charged) > 0
  BY <1>4, SizesTyped, FS_EmptySet
<1> QED
  BY <1>1, <1>2, <1>3, <1>4, SizesTyped, FS_AddElement, FS_RemoveElement

\* How a command left behind changes the rollbacks still to arrive.
LEMMA ReturningMoves ==
    ASSUME QuotaInv, NEW command, late' = late \cup {command}
    PROVE  /\ IsFiniteSet(late')
           /\ Cardinality(Returning') \in Nat
           /\ Cardinality(Returning') <= Cardinality(Returning) + 1
           /\ command[2] # "rollback" => Cardinality(Returning') = Cardinality(Returning)
<1>1. IsFiniteSet(late')
  BY FS_AddElement DEF QuotaInv
<1>2. CASE command[2] = "rollback"
  <2>1. Returning' = Returning \cup {command}
    BY <1>2 DEF Returning
  <2> QED
    <3>1. IsFiniteSet(Returning) /\ Cardinality(Returning) \in Nat
      BY SizesTyped
    <3>2. Cardinality(Returning \cup {command}) =
            IF command \in Returning THEN Cardinality(Returning) ELSE Cardinality(Returning) + 1
      BY <3>1, FS_AddElement
    <3>3. /\ Cardinality(Returning') \in Nat
          /\ Cardinality(Returning') <= Cardinality(Returning) + 1
      BY <2>1, <3>1, <3>2
    <3> QED
      BY <1>1, <1>2, <3>3
<1>3. CASE command[2] # "rollback"
  <2>1. Returning' = Returning
    BY <1>3 DEF Returning
  <2> QED
    BY <1>1, <1>3, <2>1, SizesTyped
<1> QED
  BY <1>2, <1>3

LEMMA RequestKeepsQuota ==
    ASSUME ObjectInv, QuotaInv, NEW r \in Request, RequestStep(r) \/ Fails(r) \/ Cancelled(r)
    PROVE  QuotaInv'
<1> DEFINE before == pc[r] \in {"call", "rollback"}
           after == pc'[r] \in {"call", "rollback"}
           charged == Cardinality(Charged)
           returning == Cardinality(Returning)
<1>1. /\ (before <=> after) => charged' = charged
      /\ ~before /\ after => charged' = charged + 1
      /\ before /\ ~after => charged' = charged - 1 /\ charged > 0
  BY StepsAreObjectSteps, OnePcMoves, ChargedMoves
<1>2. /\ charged \in Nat /\ returning \in Nat /\ counter \in 0..Limit /\ used \in Nat
      /\ lapsed \in BOOLEAN /\ Limit \in Nat /\ IsFiniteSet(late)
      /\ ~lapsed => used + charged + returning <= counter
  BY SizesTyped DEF QuotaInv
<1>3. late' = late => returning' = returning
  BY DEF Returning
<1>4. CASE /\ before <=> after
           /\ UNCHANGED <<counter, used, lapsed>>
           /\ \/ late' = late
              \/ \E command : command[2] # "rollback" /\ late' = late \cup {command}
  <2>1. IsFiniteSet(late') /\ returning' = returning
    BY <1>2, <1>3, <1>4, ReturningMoves
  <2> QED
    BY <1>1, <1>2, <1>4, <2>1 DEF QuotaInv
<1>5. CASE /\ ~before /\ after /\ counter < Limit /\ counter' = counter + 1
           /\ UNCHANGED <<used, lapsed, late>>
  BY <1>1, <1>2, <1>3, <1>5 DEF QuotaInv
<1>6. CASE /\ before /\ ~after /\ used' = (IF lapsed THEN 0 ELSE used + 1)
           /\ UNCHANGED <<counter, lapsed, late>>
  BY <1>1, <1>2, <1>3, <1>6 DEF QuotaInv
<1>7. CASE /\ before /\ ~after /\ RollbackQuota(r)
           /\ UNCHANGED <<used, lapsed, late>>
  <2>1. counter' = IF counter <= 0 THEN 0 ELSE counter - 1
    BY <1>7 DEF RollbackQuota
  <2> QED
    BY <1>1, <1>2, <1>3, <1>7, <2>1 DEF QuotaInv
<1>8. CASE /\ before /\ ~after /\ UNCHANGED <<counter, used, lapsed>>
           /\ \/ late' = late
              \/ \E command : command[2] = "rollback" /\ late' = late \cup {command}
  <2>1. IsFiniteSet(late') /\ returning' \in Nat /\ returning' <= returning + 1
    BY <1>2, <1>3, <1>8, ReturningMoves
  <2> QED
    BY <1>1, <1>2, <1>8, <2>1 DEF QuotaInv
<1> QED
  BY <1>4, <1>5, <1>6, <1>7, <1>8, QuotaMoves

\* A rollback that arrives late finds its own credit on a living counter.
LEMMA EnvironmentKeepsQuota ==
    ASSUME LockInv, QuotaInv, Environment PROVE QuotaInv'
<1>1. CASE ArrivesLate
  <2>1. PICK command \in late : Executes(command[1], command[2]) /\ late' = late \ {command}
    BY <1>1 DEF ArrivesLate
  <2>2. UNCHANGED <<pc, used, lapsed>>
    BY <1>1 DEF ArrivesLate, historyVars
  <2>3. Charged' = Charged
    BY <2>2 DEF Charged
  <2>4. IsFiniteSet(late')
    BY <2>1, FS_RemoveElement DEF QuotaInv
  <2>5. CASE command[2] = "rollback"
    <3>1. Returning' = Returning \ {command} /\ command \in Returning
      BY <2>1, <2>5 DEF Returning
    <3>2. Cardinality(Returning') = Cardinality(Returning) - 1 /\ Cardinality(Returning) > 0
      <4>1. IsFiniteSet(Returning) /\ Cardinality(Returning) \in Nat
        BY SizesTyped
      <4>2. Cardinality(Returning \ {command}) = Cardinality(Returning) - 1
        BY <3>1, <4>1, FS_RemoveElement
      <4>3. Cardinality(Returning) # 0
        BY <3>1, <4>1, FS_EmptySet
      <4> QED
        BY <3>1, <4>1, <4>2, <4>3
    <3>3. counter' = IF counter <= 0 THEN 0 ELSE counter - 1
      BY <2>1, <2>5 DEF Executes, RollbackQuota
    <3> QED
      BY <2>2, <2>3, <2>4, <3>2, <3>3, SizesTyped DEF QuotaInv
  <2>6. CASE command[2] # "rollback"
    <3>1. Returning' = Returning
      BY <2>1, <2>6 DEF Returning
    <3>2. counter' = counter \/ counter' = (IF counter >= Limit THEN counter ELSE counter + 1)
      BY <2>1, <2>6 DEF Executes, AcquireLock, ReserveQuota, SetEntry, ReleaseLock
    <3> QED
      BY <2>2, <2>3, <2>4, <3>1, <3>2, SizesTyped DEF QuotaInv
  <2> QED
    BY <2>5, <2>6
<1>2. CASE EntryAges \/ LockExpires
  BY <1>2 DEF EntryAges, LockExpires, QuotaInv, Charged, Returning, historyVars
<1>3. CASE CounterLapses
  BY <1>3, RefreshAssumption DEF CounterLapses, QuotaInv
<1> QED
  BY <1>1, <1>2, <1>3 DEF Environment

(***************************************************************************)
(* The inductive invariant.                                                *)
(***************************************************************************)
RefreshInv == entry \in Entry /\ ObjectInv /\ LockInv /\ QuotaInv

LEMMA RefreshInvInit == Init => RefreshInv
<1> SUFFICES ASSUME Init PROVE RefreshInv
  OBVIOUS
<1>1. ObjectInv
  <2>1. ObjectTypeOK
    BY LocalsTyped DEF Init, ObjectTypeOK, Pc, Awaiting, Outcome
  <2> QED
    BY <2>1 DEF Init, ObjectInv, NoLockLeftHeld, RegistryEmptied, Inside, Refreshing
<1>2. LockInv
  BY DEF Init, LockInv
<1>3. QuotaInv
  <2>1. Charged = {} /\ Returning = {}
    BY DEF Init, Charged, Returning
  <2> QED
    <3>1. IsFiniteSet(late) /\ Cardinality(Charged) = 0 /\ Cardinality(Returning) = 0
      BY <2>1, FS_EmptySet DEF Init
    <3>2. counter = 0 /\ used = 0 /\ lapsed = FALSE
      BY DEF Init
    <3>3. 0 \in 0..Limit
      BY RefreshAssumption
    <3>4. lapsed \in BOOLEAN
      BY <3>2
    <3>5. used + Cardinality(Charged) + Cardinality(Returning) <= counter
      BY <3>1, <3>2
    <3>6. counter \in 0..Limit /\ used \in Nat
      BY <3>2, <3>3
    <3> QED
      BY <3>1, <3>4, <3>5, <3>6 DEF QuotaInv
<1> QED
  BY <1>1, <1>2, <1>3 DEF Init, RefreshInv, Entry

\* Commands to Redis keep the type of the entry.
LEMMA EntryTyped ==
    ASSUME entry \in Entry, Next PROVE entry' \in Entry
<1>1. ASSUME NEW r \in Request, RequestStep(r) PROVE entry' \in Entry
  BY <1>1 DEF RequestStep, Read, Enter, ReadAgain, Acquire, Poll, Reserve, Call, Rollback,
              StoreNegative, Store, Unlock, AcquireLock, ReserveQuota, RollbackQuota, SetEntry,
              ReleaseLock, redisVars, Entry
<1>2. ASSUME NEW r \in Request, Fails(r) \/ Cancelled(r) PROVE entry' \in Entry
  BY <1>2 DEF Fails, Cancelled, redisVars
<1>3. CASE ArrivesLate
  BY <1>3 DEF ArrivesLate, Executes, AcquireLock, ReserveQuota, RollbackQuota, SetEntry,
              ReleaseLock, Entry
<1>4. CASE EntryAges \/ LockExpires \/ CounterLapses
  BY <1>4 DEF EntryAges, LockExpires, CounterLapses, Entry
<1> QED
  BY <1>1, <1>2, <1>3, <1>4 DEF Next, Environment

LEMMA EnvironmentKeepsObjects ==
    ASSUME ObjectInv, Environment PROVE ObjectInv'
<1>1. UNCHANGED <<processVars, home, local, pc, spoiled>>
  BY DEF Environment, ArrivesLate, EntryAges, LockExpires, CounterLapses, historyVars
<1> QED
  BY <1>1 DEF ObjectInv, ObjectTypeOK, NoLockLeftHeld, RegistryEmptied, processVars

LEMMA RefreshInvNext == RefreshInv /\ [Next]_vars => RefreshInv'
<1> SUFFICES ASSUME RefreshInv, [Next]_vars PROVE RefreshInv'
  OBVIOUS
<1>1. CASE UNCHANGED vars
  BY <1>1 DEF vars, redisVars, processVars, historyVars, RefreshInv, ObjectInv, ObjectTypeOK,
              NoLockLeftHeld, RegistryEmptied, LockInv, QuotaInv, Charged, Returning
<1>2. CASE \E r \in Request : RequestStep(r) \/ Fails(r) \/ Cancelled(r)
  BY <1>2, EntryTyped, StepsAreObjectSteps, ObjectStepKeepsObjects, RequestKeepsLock,
     RequestKeepsQuota DEF RefreshInv, Next
<1>3. CASE Environment
  BY <1>3, EntryTyped, EnvironmentKeepsObjects, EnvironmentKeepsLock, EnvironmentKeepsQuota
  DEF RefreshInv, Next
<1> QED
  BY <1>1, <1>2, <1>3 DEF Next

LEMMA RefreshInvariant == Spec => []RefreshInv
  BY RefreshInvInit, RefreshInvNext, PTL DEF Spec

\* A refusal is one's own, and comes from a poll that found nothing valid, or
\* from a request that holds no stale entry.
LEMMA RefusesOnlyWithout ==
    ASSUME RefreshInv, NEW r \in Request, RequestStep(r) \/ Fails(r) \/ Cancelled(r),
           refused' # None
    PROVE  refused' = r /\ ~Knows(r)
<1> USE DEF RefreshInv, ObjectInv, ObjectTypeOK, Knows, At, Goto, NobodyRefused, Ends, Leaves
<1>1. CASE Read(r) \/ Enter(r) \/ Unlock(r) \/ ReadAgain(r) \/ Acquire(r) \/ Call(r)
           \/ StoreNegative(r) \/ Store(r)
  BY <1>1 DEF Read, Enter, Unlock, ReadAgain, Acquire, Call, StoreNegative, Store
<1>2. CASE Poll(r)
  BY <1>2 DEF Poll, Held
<1>3. CASE Reserve(r)
  BY <1>3 DEF Reserve, StaleOr
<1>4. CASE Rollback(r)
  BY <1>4 DEF Rollback, HandleProviderError, StaleOr
<1>5. CASE Fails(r)
  BY <1>5 DEF Fails, ReadFails, HandleProviderError, StaleOr, StoreFails
<1>6. CASE Cancelled(r)
  BY <1>6 DEF Cancelled
<1> QED
  BY <1>1, <1>2, <1>3, <1>4, <1>5, <1>6 DEF RequestStep

(***************************************************************************)
(* The theorems.                                                           *)
(***************************************************************************)
\* RefreshTypeOK: the types.
THEOREM RefreshTyping == Spec => []RefreshTypeOK
<1> DEFINE RefusedOK == refused \in Request \cup {None}
<1>1. RefreshInv /\ RefusedOK => RefreshTypeOK
  BY SizesTyped DEF RefreshInv, ObjectInv, ObjectTypeOK, LockInv, QuotaInv, RefreshTypeOK
<1>2. Init => RefusedOK
  BY DEF Init
<1>3. RefreshInv /\ RefusedOK /\ [Next]_vars => RefusedOK'
  <2> SUFFICES ASSUME RefreshInv, RefusedOK, Next PROVE refused' \in Request \cup {None}
    BY DEF vars
  <2>1. CASE \E r \in Request : RequestStep(r) \/ Fails(r) \/ Cancelled(r)
    BY <2>1, RefusesOnlyWithout
  <2>2. CASE Environment
    BY <2>2 DEF Environment, NobodyRefused
  <2> QED
    BY <2>1, <2>2 DEF Next
<1> QED
  BY <1>1, <1>2, <1>3, RefreshInvariant, PTL DEF Spec

\* OneRefresh: whichever lock objects the registry has lost track of, in however
\* many processes, one request at a time calls the provider under a lock that
\* has not expired.
THEOREM OneRefreshAtATime == Spec => []OneRefresh
<1>1. RefreshInv => OneRefresh
  BY DEF RefreshInv, LockInv, At, OneRefresh
<1> QED
  BY <1>1, RefreshInvariant, PTL

\* QuotaHolds: a living counter covers all usable answers and all calls under
\* way, and never exceeds the limit, in any order of failures and rollbacks.
THEOREM QuotaCovers == Spec => []QuotaHolds
<1>1. ASSUME QuotaInv, ~lapsed PROVE Spent <= counter /\ counter <= Limit
  <2>1. {r \in Request : At(r, "call")} \in SUBSET Charged
    BY DEF At, Charged
  <2>2. /\ Cardinality({r \in Request : At(r, "call")}) <= Cardinality(Charged)
        /\ Cardinality({r \in Request : At(r, "call")}) \in Nat
    BY <1>1, <2>1, SizesTyped, FS_Subset, FS_CardinalityType
  <2> QED
    BY <1>1, <2>2, SizesTyped DEF QuotaInv, Spent
<1>2. RefreshInv => QuotaHolds
  BY <1>1 DEF RefreshInv, QuotaHolds
<1> QED
  BY <1>2, RefreshInvariant, PTL

\* NoLockLeftHeld: a lock object is held only from the inside.
THEOREM LockObjectsReleased == Spec => []NoLockLeftHeld
<1>1. RefreshInv => NoLockLeftHeld
  BY DEF RefreshInv, ObjectInv
<1> QED
  BY <1>1, RefreshInvariant, PTL

\* RegistryEmptied: an idle process keeps no lock object of the key, unless a
\* request of it was cancelled in its finally clause.
THEOREM RegistryIsEmptied == Spec => []RegistryEmptied
<1>1. RefreshInv => RegistryEmptied
  BY DEF RefreshInv, ObjectInv
<1> QED
  BY <1>1, RefreshInvariant, PTL

\* StaleFallback: whoever has read a valid entry is answered with it, whatever
\* the lock, the quota, the provider and the stores do.
THEOREM StaleIsFallback == Spec => StaleFallback
<1> DEFINE FallsBack == \A r \in Request : refused' = r => ~Knows(r)
<1>1. ASSUME RefreshInv, Next, NEW r \in Request, refused' = r PROVE ~Knows(r)
  <2>1. refused' # None
    BY <1>1, RefreshAssumption
  <2>2. CASE \E q \in Request : RequestStep(q) \/ Fails(q) \/ Cancelled(q)
    BY <1>1, <2>1, <2>2, RefusesOnlyWithout
  <2>3. CASE Environment
    BY <2>1, <2>3 DEF Environment, NobodyRefused
  <2> QED
    BY <1>1, <2>2, <2>3 DEF Next
<1>2. RefreshInv /\ [Next]_vars => [FallsBack]_vars
  BY <1>1
<1> QED
  BY <1>2, RefreshInvariant, PTL DEF Spec, StaleFallback
=============================================================================
