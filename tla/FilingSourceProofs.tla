------------------------- MODULE FilingSourceProofs -------------------------
(***************************************************************************)
(* Proofs about FilingSource, for any number of callers, slots, ticks and  *)
(* files: the throttle spaces the requests, a caller that gives up leaves   *)
(* nothing behind in it, and a discovery that reads all pages, each of them *)
(* made from all the files that mattered, has been shown every filing that  *)
(* was there when it began.                                                 *)
(***************************************************************************)
EXTENDS FilingSource, FiniteSetTheorems, SequenceTheorems, TLAPS

(***************************************************************************)
(* The inductive invariant.                                                *)
(***************************************************************************)
ThrottleTypeOK ==
    /\ since \in 0..Interval
    /\ until \in Nat
    /\ delay \in [Caller -> Nat]
    /\ throttle \in Caller \cup {None}
    /\ DOMAIN pc = Caller

\* Only the holder of the throttle sleeps, for as long as the next turn is away.
SleeperHolds ==
    /\ throttle # None => pc[throttle] = "sleep"
    /\ \A c \in Caller : pc[c] = "sleep" => throttle = c /\ delay[c] = until

ThrottleInv == ThrottleTypeOK /\ TurnsNotLost /\ SleeperHolds

(***************************************************************************)
(* The steps.                                                              *)
(***************************************************************************)
LEMMA ThrottleInvInit == Init => ThrottleInv
  BY SourceAssumption DEF Init, ThrottleInv, ThrottleTypeOK, TurnsNotLost, SleeperHolds

\* A step in which nobody enters or leaves the throttle.
LEMMA OutsideKeepsInv ==
    ASSUME ThrottleInv, NEW c \in Caller, NEW to \in {"slot", "throttle", "done"},
           pc[c] # "sleep", pc' = [pc EXCEPT ![c] = to], UNCHANGED throttleVars
    PROVE  ThrottleInv'
  BY SourceAssumption
  DEF ThrottleInv, ThrottleTypeOK, TurnsNotLost, SleeperHolds, throttleVars

\* Whoever gets the free throttle finds nobody asleep.
LEMMA WaitKeepsInv == ASSUME ThrottleInv, NEW c \in Caller, Wait(c) PROVE ThrottleInv'
<1>1. \A b \in Caller : pc[b] # "sleep"
  BY SourceAssumption DEF ThrottleInv, SleeperHolds, Wait
<1>2. CASE until > 0
  BY <1>1, <1>2, SourceAssumption
  DEF ThrottleInv, ThrottleTypeOK, TurnsNotLost, SleeperHolds, Wait, Sleep, Goto
<1>3. CASE until = 0
  BY <1>1, <1>3, SourceAssumption
  DEF ThrottleInv, ThrottleTypeOK, TurnsNotLost, SleeperHolds, Wait, LetThrough, Goto
<1> QED
  BY <1>2, <1>3 DEF ThrottleInv, ThrottleTypeOK

\* The sleeper wakes when its turn has come, not before.
LEMMA WakeKeepsInv ==
    ASSUME ThrottleInv, NEW c \in Caller, Wake(c) PROVE ThrottleInv' /\ since = Interval
<1>1. throttle = c /\ until = 0
  BY DEF ThrottleInv, SleeperHolds, Wake
<1>2. \A b \in Caller \ {c} : pc[b] # "sleep"
  BY <1>1 DEF ThrottleInv, SleeperHolds
<1> QED
  BY <1>1, <1>2, SourceAssumption
  DEF ThrottleInv, ThrottleTypeOK, TurnsNotLost, SleeperHolds, Wake, LetThrough, Goto

LEMMA GiveUpKeepsInv == ASSUME ThrottleInv, NEW c \in Caller, GiveUp(c) PROVE ThrottleInv'
  BY SourceAssumption
  DEF ThrottleInv, ThrottleTypeOK, TurnsNotLost, SleeperHolds, GiveUp, Goto

LEMMA TickKeepsInv == ThrottleInv /\ Tick => ThrottleInv'
  BY SourceAssumption
  DEF ThrottleInv, ThrottleTypeOK, TurnsNotLost, SleeperHolds, Tick

\* The answers of the SEC come to callers that have left the throttle.
LEMMA AnswersKeepInv ==
    ASSUME ThrottleInv, NEW d \in Discovery, RecentArrives(d) \/ OlderArrives(d)
    PROVE  ThrottleInv'
<1>1. \E to \in {"slot", "done"} : pc' = [pc EXCEPT ![d] = to]
  BY DEF RecentArrives, OlderArrives, TableRead, ShowPage, Goto
<1>2. pc[d] # "sleep" /\ d \in Caller /\ UNCHANGED throttleVars
  BY DEF RecentArrives, OlderArrives, Caller
<1> QED
  BY <1>1, <1>2, OutsideKeepsInv

LEMMA ThrottleInvNext == ThrottleInv /\ [Next]_vars => ThrottleInv'
<1> SUFFICES ASSUME ThrottleInv, [Next]_vars PROVE ThrottleInv'
  OBVIOUS
<1>1. ASSUME NEW c \in Caller, Begin(c) \/ TakeSlot(c) \/ Fetched(c) PROVE ThrottleInv'
  BY <1>1, OutsideKeepsInv DEF Begin, TakeSlot, Fetched, Goto
<1>2. CASE SecPublishes \/ SecArchives \/ UNCHANGED vars
  BY <1>2 DEF SecPublishes, SecArchives, vars, throttleVars,
              ThrottleInv, ThrottleTypeOK, TurnsNotLost, SleeperHolds
<1> QED
  BY <1>1, <1>2, WaitKeepsInv, WakeKeepsInv, GiveUpKeepsInv, TickKeepsInv, AnswersKeepInv
  DEF Next

LEMMA ThrottleInvariant == Spec => []ThrottleInv
  BY ThrottleInvInit, ThrottleInvNext, PTL DEF Spec

(***************************************************************************)
(* The theorems.                                                           *)
(***************************************************************************)
\* TurnsNotLost: whoever gives up, and wherever, the next turn is Interval ticks
\* after the last request that was let through.
THEOREM NoTurnLost == Spec => []TurnsNotLost
<1>1. ThrottleInv => TurnsNotLost
  BY DEF ThrottleInv
<1> QED
  BY <1>1, ThrottleInvariant, PTL

\* Spaced: two requests are never let through less than Interval ticks apart
\* (SecFairAccessThrottle.wait).
THEOREM RequestsSpaced == Spec => Spaced
<1> DEFINE InTime == \A c \in Caller : pc[c] # "request" /\ pc[c]' = "request" => since = Interval
<1>1. ASSUME ThrottleInv, [Next]_vars,
             NEW c \in Caller, pc[c] # "request", pc[c]' = "request"
      PROVE  since = Interval
  <2>1. CASE Wait(c)
    <3>1. until = 0
      BY <1>1, <2>1 DEF Wait, Sleep, Goto, ThrottleInv, ThrottleTypeOK
    <3> QED
      BY <1>1, <3>1, SourceAssumption DEF ThrottleInv, ThrottleTypeOK, TurnsNotLost
  <2>2. CASE Wake(c)
    BY <1>1, <2>2, WakeKeepsInv
  <2>3. pc' # pc
    BY <1>1
  <2>4. PICK b \in Caller : \E to \in {"slot", "throttle", "sleep", "done", "failed", "request"} :
            /\ pc' = [pc EXCEPT ![b] = to]
            /\ to = "request" => Wait(b) \/ Wake(b)
    <3>1. ASSUME NEW b \in Caller, Begin(b) \/ TakeSlot(b) \/ Wait(b) \/ Wake(b) \/ Fetched(b) \/ GiveUp(b)
          PROVE  \E to \in {"slot", "throttle", "sleep", "done", "failed", "request"} :
                    /\ pc' = [pc EXCEPT ![b] = to]
                    /\ to = "request" => Wait(b) \/ Wake(b)
      <4>1. CASE Begin(b) \/ TakeSlot(b) \/ Fetched(b) \/ GiveUp(b)
        BY <4>1 DEF Begin, TakeSlot, Fetched, GiveUp, Goto
      <4>2. CASE Wait(b) \/ Wake(b)
        BY <4>2 DEF Wait, Wake, Sleep, LetThrough, Goto
      <4> QED
        BY <3>1, <4>1, <4>2
    <3>2. ASSUME NEW d \in Discovery, RecentArrives(d) \/ OlderArrives(d)
          PROVE  d \in Caller /\ \E to \in {"slot", "done"} : pc' = [pc EXCEPT ![d] = to]
      BY <3>2 DEF RecentArrives, OlderArrives, TableRead, ShowPage, Goto, Caller
    <3> QED
      BY <1>1, <2>3, <3>1, <3>2 DEF Next, vars, SecPublishes, SecArchives, Tick
  <2>5. b = c /\ (Wait(c) \/ Wake(c))
    BY <1>1, <2>4 DEF ThrottleInv, ThrottleTypeOK
  <2> QED
    BY <2>1, <2>2, <2>5
<1>2. ThrottleInv /\ [Next]_vars => [InTime]_vars
  BY <1>1
<1> QED
  BY <1>2, ThrottleInvariant, PTL DEF Spec, Spaced

(***************************************************************************)
(* The order of the filings.                                               *)
(***************************************************************************)
\* There are finitely many filings.
LEMMA FilingsFinite == ASSUME NEW S \in SUBSET Filing PROVE IsFiniteSet(S) /\ Cardinality(S) \in Nat
<1>1. IsFiniteSet(Filing)
  BY SourceAssumption, FS_Interval, 1 \in Int, Filings \in Int DEF Filing
<1> QED
  BY <1>1, FS_Subset, FS_CardinalityType

\* The oldest of some filings, or the first of some files, is one of them.
LEMMA LeastIsLeast ==
    ASSUME NEW S \in SUBSET Nat, S # {}
    PROVE  Least(S) \in S /\ \A y \in S : Least(S) <= y
<1>1. S \subseteq Nat
  OBVIOUS
<1>2. PICK x \in S : \A y \in S : <<y, x>> \notin OpToRel(<, Nat)
  BY <1>1, NatLessThanWellFounded, WFMin
<1>3. OpToRel(<, Nat) = {pair \in Nat \X Nat : pair[1] < pair[2]}
  BY DEF OpToRel
<1>4. \A y \in S : x <= y
  <2> TAKE y \in S
  <2>1. <<y, x>> \notin {pair \in Nat \X Nat : pair[1] < pair[2]}
    BY <1>2, <1>3
  <2> QED
    BY <1>1, <2>1
<1> QED
  BY <1>4 DEF Least

\* What is newer among fewer filings is no more.
LEMMA NewerGrows ==
    ASSUME NEW T \in SUBSET Filing, NEW S \in SUBSET T, NEW x \in Filing
    PROVE  /\ Cardinality(Newer(S, x)) \in Nat
           /\ Cardinality(Newer(S, x)) <= Cardinality(Newer(T, x))
<1>1. Newer(S, x) \in SUBSET Newer(T, x) /\ Newer(T, x) \in SUBSET Filing
  BY DEF Newer
<1> QED
  BY <1>1, FilingsFinite, FS_Subset

\* Of two filings the newer one has fewer that are newer still.
LEMMA NewerDecides ==
    ASSUME NEW S \in SUBSET Filing, NEW x \in S, NEW y \in S, x < y
    PROVE  Cardinality(Newer(S, y)) < Cardinality(Newer(S, x))
<1> S \subseteq Int
  BY DEF Filing
<1>1. /\ Newer(S, y) \in SUBSET Newer(S, x) /\ Newer(S, x) \in SUBSET Filing
      /\ y \in Newer(S, x) /\ y \notin Newer(S, y)
  <2>1. \A z \in S : z > y => z > x
    OBVIOUS
  <2>2. y > x /\ ~(y > y)
    OBVIOUS
  <2> QED
    BY <2>1, <2>2 DEF Newer
<1>2. IsFiniteSet(Newer(S, x)) /\ Newer(S, y) # Newer(S, x)
  BY <1>1, FilingsFinite
<1> QED
  BY <1>1, <1>2, FilingsFinite, FS_Subset

\* A filing stands at the place after those that are newer.
LEMMA PlaceOfFiling ==
    ASSUME NEW S \in SUBSET Filing, NEW x \in S
    PROVE  /\ Cardinality(Newer(S, x)) + 1 \in 1..Cardinality(S)
           /\ Ordered(S)[Cardinality(Newer(S, x)) + 1] = x
<1> DEFINE place == Cardinality(Newer(S, x)) + 1
           Here(f) == Cardinality(Newer(S, f)) = place - 1
<1>1. Newer(S, x) \in SUBSET S /\ x \notin Newer(S, x)
  BY SourceAssumption DEF Newer, Filing
<1>2. IsFiniteSet(S) /\ Cardinality(S) \in Nat /\ Cardinality(Newer(S, x)) \in Nat
  BY <1>1, FilingsFinite
<1>3. place \in 1..Cardinality(S)
  BY <1>1, <1>2, FS_Subset
<1>4. \A f \in S : Here(f) => f = x
  <2> TAKE f \in S
  <2>1. Cardinality(Newer(S, f)) \in Nat
    BY FilingsFinite DEF Newer
  <2>2. f \in Nat /\ x \in Nat
    BY DEF Filing
  <2> QED
    BY <1>2, <2>1, <2>2, NewerDecides
<1>5. Ordered(S)[place] = CHOOSE f \in S : Here(f)
  BY <1>3 DEF Ordered
<1>6. Here(x)
  BY <1>2
<1> HIDE DEF Here
<1>7. (CHOOSE f \in S : Here(f)) = x
  BY <1>4, <1>6
<1> QED
  BY <1>3, <1>5, <1>7

\* Every place is taken: what is ordered is all there is.
LEMMA OrderedIsSequence ==
    ASSUME NEW S \in SUBSET Filing
    PROVE  Ordered(S) \in [1..Cardinality(S) -> S]
<1> DEFINE place == [x \in S |-> Cardinality(Newer(S, x)) + 1]
           n == Cardinality(S)
<1>1. n \in Nat /\ IsFiniteSet(S)
  BY FilingsFinite
<1>2. \A x \in S : place[x] \in 1..n /\ Ordered(S)[place[x]] = x
  BY PlaceOfFiling
<1>3. place \in Injection(S, 1..n)
  BY <1>2 DEF Injection, IsInjective
<1>4. IsFiniteSet(1..n) /\ Cardinality(1..n) = n
  BY <1>1, FS_Interval, 1 \in Int
<1>5. place \in Surjection(S, 1..n)
  BY <1>3, <1>4, FS_Injection
<1>6. \A i \in 1..n : \E x \in S : place[x] = i
  BY <1>5 DEF Surjection
<1> HIDE DEF place, n
<1>7. Ordered(S) = [i \in 1..n |-> Ordered(S)[i]]
  BY DEF Ordered, n
<1> QED
  BY <1>2, <1>6, <1>7 DEF n

(***************************************************************************)
(* The pages of a discovery: the inductive invariant.                      *)
(***************************************************************************)
PagesTypeOK ==
    /\ recent \in SUBSET Filing
    /\ files \in [File -> SUBSET Filing]
    /\ DOMAIN pc = Caller
    /\ unread \in [Discovery -> SUBSET Table]
    /\ offset \in [Discovery -> Nat]
    /\ candidates \in [Discovery -> SUBSET Filing]
    /\ seen \in [Discovery -> SUBSET Filing]
    /\ present \in [Discovery -> SUBSET Filing]
    /\ short \in [Discovery -> BOOLEAN]

\* What is in some of the files.
FiledIn(some) == {x \in Filing : \E i \in File : i \in some /\ x \in files[i]}

\* What a discovery has read or has yet to read for its next page.
Collected(d) ==
    IF unread[d] = {Recent} THEN References(Known)
    ELSE candidates[d] \cup References(FiledIn(unread[d]))

\* It never loses sight of a filing between the tables, and filings only move
\* down: one that it has not shown is not before its cursor.
Sighted(d) ==
    /\ present[d] \subseteq Collected(d)
    /\ \A x \in present[d] \ seen[d] : offset[d] <= Cardinality(Newer(Collected(d), x))
    /\ pc[d] = "done" => present[d] \subseteq seen[d]

Ahead(d) ==
    /\ candidates[d] \subseteq References(Known)
    /\ unread[d] # {} /\ (unread[d] = {Recent} \/ unread[d] \subseteq File)
    /\ pc[d] = "idle" => unread[d] = {Recent} /\ offset[d] = 0
    /\ ~short[d] => Sighted(d)

PagesInv == PagesTypeOK /\ \A d \in Discovery : Ahead(d)

LEMMA PagesInvInit == Init => PagesInv
<1> SUFFICES ASSUME Init PROVE PagesInv
  OBVIOUS
<1>1. PagesTypeOK
  BY SourceAssumption DEF Init, PagesTypeOK, Filing, Table, Caller
<1>2. ASSUME NEW d \in Discovery PROVE Ahead(d)
  <2>1. /\ present[d] = {} /\ candidates[d] = {} /\ unread[d] = {Recent} /\ offset[d] = 0
        /\ pc[d] = "idle"
    BY DEF Init, Caller
  <2> QED
    BY <2>1 DEF Ahead, Sighted
<1> QED
  BY <1>1, <1>2 DEF PagesInv

\* The tables hold filings, and files hold what is archived.
LEMMA KnownTyped ==
    ASSUME PagesTypeOK
    PROVE  /\ References(Known) \in SUBSET Filing
           /\ \A some : FiledIn(some) \subseteq Archived
           /\ \A d \in Discovery : Collected(d) \in SUBSET Filing
<1>1. Archived \in SUBSET Filing
  BY DEF PagesTypeOK, Archived
<1>2. References(Known) \in SUBSET Filing
  BY <1>1 DEF PagesTypeOK, Known, References
<1>3. \A some : FiledIn(some) \subseteq Archived /\ FiledIn(some) \subseteq Filing
  BY DEF FiledIn, Archived
<1> QED
  BY <1>2, <1>3 DEF Collected, References, PagesTypeOK

\* Filings come and change tables, and a caller moves on within its request.
LEMMA PagesGrow ==
    ASSUME PagesInv, UNCHANGED discoveryVars,
           recent' \in SUBSET Filing, files' \in [File -> SUBSET Filing],
           Known \subseteq Known', \A i \in File : files[i] \subseteq files'[i],
           DOMAIN pc' = Caller,
           \A d \in Discovery : pc'[d] = pc[d] \/ pc'[d] \notin {"idle", "done"}
    PROVE  PagesInv'
<1>1. PagesTypeOK'
  BY DEF PagesInv, PagesTypeOK, discoveryVars
<1>2. ASSUME NEW d \in Discovery PROVE Ahead(d)'
  <2>1. Ahead(d) /\ unread'[d] = unread[d] /\ candidates'[d] = candidates[d]
    BY DEF PagesInv, discoveryVars
  <2>2. References(Known) \subseteq References(Known)'
    BY DEF References
  <2>3. FiledIn(unread[d]) \subseteq FiledIn(unread[d])'
    BY <2>1 DEF FiledIn
  <2>4. Collected(d) \subseteq Collected(d)'
    BY <2>1, <2>2, <2>3 DEF Collected, References
  <2>5. Collected(d)' \in SUBSET Filing /\ present[d] \subseteq Filing
    <3>1. Archived' \in SUBSET Filing /\ candidates'[d] \in SUBSET Filing
      BY <1>1 DEF PagesTypeOK, Archived
    <3>2. References(Known)' \in SUBSET Filing /\ References(FiledIn(unread[d]))' \in SUBSET Filing
      BY <1>1, <3>1 DEF PagesTypeOK, Known, References, FiledIn
    <3>3. Collected(d)' \in SUBSET Filing
      BY <3>1, <3>2 DEF Collected
    <3> QED
      BY <3>3 DEF PagesInv, PagesTypeOK
  <2>6. ASSUME Sighted(d), NEW x \in present[d] \ seen[d]
        PROVE  offset[d] <= Cardinality(Newer(Collected(d)', x))
    <3>1. /\ offset[d] \in Nat
          /\ offset[d] <= Cardinality(Newer(Collected(d), x))
      BY <2>6 DEF Sighted, PagesInv, PagesTypeOK
    <3>2. /\ Collected(d) \in SUBSET Collected(d)' /\ Collected(d) \in SUBSET Filing
          /\ x \in Filing
      BY <2>4, <2>5, <2>6
    <3>3. /\ Cardinality(Newer(Collected(d), x)) \in Nat
          /\ Cardinality(Newer(Collected(d)', x)) \in Nat
          /\ Cardinality(Newer(Collected(d), x)) <= Cardinality(Newer(Collected(d)', x))
      BY <2>5, <3>2, NewerGrows
    <3> QED
      BY <3>1, <3>3
  <2>7. ASSUME Sighted(d) PROVE Sighted(d)'
    <3>1. /\ present[d]' \subseteq Collected(d)'
          /\ pc[d]' = "done" => present[d]' \subseteq seen[d]'
      BY <2>4, <2>7 DEF Sighted, discoveryVars
    <3>2. \A x \in (present[d] \ seen[d])' : offset[d]' <= Cardinality(Newer(Collected(d), x))'
      BY <2>6, <2>7 DEF discoveryVars, Newer
    <3> QED
      BY <3>1, <3>2 DEF Sighted, Newer
  <2> QED
    BY <2>1, <2>2, <2>7 DEF Ahead, discoveryVars
<1> QED
  BY <1>1, <1>2 DEF PagesInv

\* A filing that is not before the cursor is on the page, or behind the next
\* cursor, and then there is a next page.
LEMMA PageTakesNext ==
    ASSUME NEW d \in Discovery, offset[d] \in Nat, NEW all \in SUBSET Filing
    PROVE  /\ ToSet(Page(d, all)) \subseteq all
           /\ NextOffset(d, Page(d, all)) \in Nat
           /\ \A x \in all :
                 offset[d] <= Cardinality(Newer(all, x)) =>
                     \/ x \in ToSet(Page(d, all))
                     \/ /\ NextOffset(d, Page(d, all)) <= Cardinality(Newer(all, x))
                        /\ NextOffset(d, Page(d, all)) < Cardinality(all)
<1> DEFINE from == offset[d]
           n == Cardinality(all)
           last == IF from + PageLimit < n THEN from + PageLimit ELSE n
           page == SubSeq(Ordered(all), from + 1, last)
<1>1. n \in Nat /\ PageLimit \in Nat \ {0} /\ Page(d, all) = page
  BY FilingsFinite, SourceAssumption DEF Page
<1>2. Ordered(all) \in [1..n -> all]
  BY OrderedIsSequence
<1> HIDE DEF n
<1>3. /\ from \in Nat /\ last \in Nat /\ last <= n
      /\ last < n => last = from + PageLimit
  BY <1>1
<1> HIDE DEF from, last
<1>4. \A i \in (from + 1)..last : Ordered(all)[i] \in all
  <2>1. \A i \in (from + 1)..last : i \in 1..n
    BY <1>1, <1>3
  <2> QED
    BY <1>2, <2>1
<1>5. /\ page \in Seq(all)
      /\ Len(page) = IF from + 1 <= last THEN last - from ELSE 0
      /\ \A i \in 1..(last - from) : page[i] = Ordered(all)[from + i]
  <2> DEFINE ordered == Ordered(all)
             first == from + 1
  <2>1. first \in Int /\ last \in Int /\ \A i \in first..last : ordered[i] \in all
    BY <1>3, <1>4
  <2> HIDE DEF ordered, first
  <2>2. /\ SubSeq(ordered, first, last) \in Seq(all)
        /\ Len(SubSeq(ordered, first, last)) = IF first <= last THEN last - first + 1 ELSE 0
        /\ \A i \in 1..(last - first + 1) :
              SubSeq(ordered, first, last)[i] = ordered[first + i - 1]
    BY <2>1, SubSeqProperties
  <2>3. /\ last - first + 1 = last - from
        /\ \A i \in 1..(last - from) : first + i - 1 = from + i
    BY <1>3 DEF first
  <2>4. page = SubSeq(ordered, first, last)
    BY DEF ordered, first
  <2> QED
    BY <2>2, <2>3, <2>4 DEF ordered, first
<1> HIDE DEF page
<1>6. /\ ToSet(page) \subseteq all
      /\ DOMAIN page = 1..Len(page)
      /\ NextOffset(d, page) = from + Len(page) /\ NextOffset(d, page) \in Nat
  BY <1>3, <1>5 DEF ToSet, NextOffset, from
<1>7. ASSUME NEW x \in all, from <= Cardinality(Newer(all, x)), x \notin ToSet(page)
      PROVE  /\ NextOffset(d, page) <= Cardinality(Newer(all, x))
             /\ NextOffset(d, page) < n
  <2> DEFINE place == Cardinality(Newer(all, x)) + 1
  <2>1. place \in 1..n /\ Ordered(all)[place] = x /\ Cardinality(Newer(all, x)) = place - 1
    BY <1>7, PlaceOfFiling, NewerGrows, all \in SUBSET all DEF n
  <2> HIDE DEF place
  <2>2. CASE place <= last
    <3>1. place - from \in 1..(last - from) /\ from + (place - from) = place
      BY <1>1, <1>3, <1>7, <2>1, <2>2
    <3>2. page[place - from] = x /\ place - from \in 1..Len(page)
      BY <1>3, <1>5, <2>1, <3>1
    <3> QED
      BY <1>6, <1>7, <3>2 DEF ToSet
  <2>3. CASE last < place
    BY <1>1, <1>3, <1>5, <1>6, <1>7, <2>1, <2>3
  <2> QED
    BY <1>1, <1>3, <2>1, <2>2, <2>3
<1> QED
  BY <1>1, <1>6, <1>7 DEF from, n

\* What one discovery reads and shows is nothing to the others.
LEMMA OthersKeep ==
    ASSUME PagesInv, NEW d \in Discovery, PagesTypeOK', Ahead(d)', UNCHANGED secVars,
           \A e \in Discovery \ {d} :
               UNCHANGED <<pc[e], unread[e], offset[e], candidates[e], seen[e], present[e], short[e]>>
    PROVE  PagesInv'
<1> SUFFICES ASSUME NEW e \in Discovery \ {d} PROVE Ahead(e)'
  BY DEF PagesInv
<1>1. Ahead(e)
  BY DEF PagesInv
<1>2. References(Known)' = References(Known) /\ FiledIn(unread[e])' = FiledIn(unread[e])
  BY DEF References, Known, Archived, FiledIn, secVars
<1>3. Collected(e)' = Collected(e)
  BY <1>2 DEF Collected, References
<1> QED
  BY <1>1, <1>2, <1>3 DEF Ahead, Sighted, Newer

\* A page is shown: what is left for the next one is behind the new cursor.
LEMMA ShownPage ==
    ASSUME PagesInv, NEW d \in Discovery, NEW all \in SUBSET Filing,
           all \subseteq References(Known),
           short' \in [Discovery -> BOOLEAN],
           \A e \in Discovery \ {d} : short'[e] = short[e],
           ~short'[d] =>
               /\ present[d] \subseteq all
               /\ \A x \in present[d] \ seen[d] : offset[d] <= Cardinality(Newer(all, x)),
           ShowPage(d, all), UNCHANGED <<secVars, present>>
    PROVE  PagesInv'
<1> DEFINE next == NextOffset(d, Page(d, all))
<1>1. PagesTypeOK /\ offset[d] \in Nat /\ d \in Caller
  BY DEF PagesInv, PagesTypeOK, Caller
<1>2. /\ ToSet(Page(d, all)) \subseteq all
      /\ next \in Nat
      /\ \A x \in all : offset[d] <= Cardinality(Newer(all, x)) =>
            \/ x \in ToSet(Page(d, all))
            \/ next <= Cardinality(Newer(all, x)) /\ next < Cardinality(all)
  BY <1>1, PageTakesNext
<1> HIDE DEF next
<1>3. /\ seen' = [seen EXCEPT ![d] = @ \cup ToSet(Page(d, all))]
      /\ candidates' = [candidates EXCEPT ![d] = {}]
      /\ unread' = [unread EXCEPT ![d] = {Recent}]
      /\ \/ /\ offset' = [offset EXCEPT ![d] = next] /\ pc' = [pc EXCEPT ![d] = "slot"]
         \/ /\ ~(next < Cardinality(all))
            /\ UNCHANGED offset /\ pc' = [pc EXCEPT ![d] = "done"]
      /\ recent' = recent /\ files' = files /\ present' = present
  BY DEF ShowPage, next, Goto, secVars
<1>4. PagesTypeOK'
  <2>1. seen' \in [Discovery -> SUBSET Filing] /\ offset' \in [Discovery -> Nat]
    BY <1>1, <1>2, <1>3 DEF PagesTypeOK
  <2>2. unread' \in [Discovery -> SUBSET Table] /\ DOMAIN pc' = Caller
    BY <1>1, <1>3 DEF PagesTypeOK, Table
  <2>3. candidates' \in [Discovery -> SUBSET Filing]
    BY <1>1, <1>3 DEF PagesTypeOK
  <2> QED
    BY <1>1, <1>3, <2>1, <2>2, <2>3 DEF PagesTypeOK
<1>5. ASSUME NEW e \in Discovery \ {d}
      PROVE  UNCHANGED <<pc[e], unread[e], offset[e], candidates[e], seen[e], present[e], short[e]>>
  <2>1. e \in Caller /\ e # d
    BY DEF Caller
  <2>2. pc'[e] = pc[e]
    BY <1>1, <1>3, <2>1 DEF PagesTypeOK
  <2>3. offset'[e] = offset[e] /\ seen'[e] = seen[e]
    BY <1>1, <1>3, <2>1 DEF PagesTypeOK
  <2>4. unread'[e] = unread[e] /\ candidates'[e] = candidates[e]
    BY <1>1, <1>3, <2>1 DEF PagesTypeOK
  <2> QED
    BY <1>3, <2>2, <2>3, <2>4
<1>6. /\ unread'[d] = {Recent} /\ candidates'[d] = {} /\ present'[d] = present[d]
      /\ seen'[d] = seen[d] \cup ToSet(Page(d, all))
  BY <1>1, <1>3 DEF PagesTypeOK
<1>7. Collected(d)' = References(Known) /\ References(Known)' = References(Known)
  BY <1>3, <1>6 DEF Collected, References, Known, Archived
<1>8. pc'[d] \in {"slot", "done"} /\ (pc'[d] = "done" => ~(next < Cardinality(all)))
  BY <1>1, <1>3 DEF PagesTypeOK
<1>9. ASSUME ~short'[d] PROVE Sighted(d)'
  <2>1. present[d] \subseteq all
    BY <1>9
  <2>2. ASSUME NEW x \in present[d] \ seen'[d]
        PROVE  next <= Cardinality(Newer(all, x)) /\ next < Cardinality(all)
    BY <1>2, <1>6, <1>9, <2>2
  <2>3. ASSUME NEW x \in present[d] \ seen'[d]
        PROVE  offset'[d] <= Cardinality(Newer(References(Known), x))
    <3>1. next <= Cardinality(Newer(all, x)) /\ next < Cardinality(all)
      BY <2>2, <2>3
    <3>2. offset'[d] = next
      BY <1>1, <1>3, <3>1 DEF PagesTypeOK
    <3>3. /\ References(Known) \in SUBSET Filing /\ all \in SUBSET References(Known)
          /\ x \in Filing
      BY <1>1, KnownTyped, <2>3 DEF PagesTypeOK
    <3>4. /\ Cardinality(Newer(all, x)) \in Nat
          /\ Cardinality(Newer(References(Known), x)) \in Nat
          /\ Cardinality(Newer(all, x)) <= Cardinality(Newer(References(Known), x))
      BY <3>3, NewerGrows
    <3> QED
      BY <1>2, <3>1, <3>2, <3>4
  <2>4. pc'[d] = "done" => present[d] \subseteq seen'[d]
    BY <1>8, <2>2
  <2> QED
    BY <1>6, <1>7, <2>1, <2>3, <2>4 DEF Sighted, Newer
<1>10. Ahead(d)'
  BY <1>6, <1>7, <1>8, <1>9 DEF Ahead
<1> QED
  BY <1>4, <1>5, <1>10, OthersKeep

\* A table has come, and there are files left to read.
LEMMA MoreToRead ==
    ASSUME PagesInv, NEW d \in Discovery, NEW all \in SUBSET Filing,
           all \subseteq References(Known),
           NEW rest \in SUBSET File, rest # {},
           short' \in [Discovery -> BOOLEAN],
           \A e \in Discovery \ {d} : short'[e] = short[e],
           ~short'[d] =>
               LET whole == all \cup References(FiledIn(rest))
               IN  /\ present[d] \subseteq whole
                   /\ \A x \in present[d] \ seen[d] : offset[d] <= Cardinality(Newer(whole, x)),
           TableRead(d, all, rest), UNCHANGED <<secVars, present>>
    PROVE  PagesInv'
<1> DEFINE whole == all \cup References(FiledIn(rest))
<1>1. PagesTypeOK /\ d \in Caller
  BY DEF PagesInv, Caller
<1>2. /\ candidates' = [candidates EXCEPT ![d] = all]
      /\ unread' = [unread EXCEPT ![d] = rest]
      /\ pc' = [pc EXCEPT ![d] = "slot"]
      /\ UNCHANGED <<offset, seen, present, recent, files>>
  BY DEF TableRead, Goto, secVars
<1>3. PagesTypeOK'
  BY <1>1, <1>2 DEF PagesTypeOK, Table
<1>4. ASSUME NEW e \in Discovery \ {d}
      PROVE  UNCHANGED <<pc[e], unread[e], offset[e], candidates[e], seen[e], present[e], short[e]>>
  <2>1. e \in Caller /\ e # d
    BY DEF Caller
  <2>2. pc'[e] = pc[e] /\ unread'[e] = unread[e] /\ candidates'[e] = candidates[e]
    BY <1>1, <1>2, <2>1 DEF PagesTypeOK
  <2> QED
    BY <1>2, <2>2
<1>5. pc'[d] = "slot" /\ unread'[d] = rest /\ candidates'[d] = all
  BY <1>1, <1>2 DEF PagesTypeOK
<1>6. rest # {Recent}
  BY DEF File, Recent
<1>7. References(Known)' = References(Known) /\ Collected(d)' = whole
  BY <1>2, <1>5, <1>6 DEF Collected, References, Known, Archived, FiledIn
<1> HIDE DEF whole
<1>8. ASSUME ~short'[d] PROVE Sighted(d)'
  <2>1. /\ present[d] \subseteq whole
        /\ \A x \in present[d] \ seen[d] : offset[d] <= Cardinality(Newer(whole, x))
    BY <1>8 DEF whole
  <2> QED
    BY <1>2, <1>5, <1>7, <2>1 DEF Sighted, Newer
<1>9. Ahead(d)'
  BY <1>5, <1>7, <1>8 DEF Ahead
<1> QED
  BY <1>2, <1>3, <1>4, <1>9, OthersKeep DEF secVars

\* A table has come, and what was to be read before is what there is now, or is left.
LEMMA TableKeepsPages ==
    ASSUME PagesInv, NEW d \in Discovery, NEW all \in SUBSET Filing,
           all \subseteq References(Known), NEW rest \in SUBSET File,
           short' \in [Discovery -> BOOLEAN],
           \A e \in Discovery \ {d} : short'[e] = short[e],
           ~short'[d] => ~short[d] /\ Collected(d) = all \cup References(FiledIn(rest)),
           TableRead(d, all, rest), UNCHANGED <<secVars, present>>
    PROVE  PagesInv'
<1> DEFINE whole == all \cup References(FiledIn(rest))
<1>1. ~short'[d] =>
          /\ present[d] \subseteq whole
          /\ \A x \in present[d] \ seen[d] : offset[d] <= Cardinality(Newer(whole, x))
  BY DEF PagesInv, Ahead, Sighted
<1>2. CASE rest = {}
  <2>1. whole = all
    BY <1>2 DEF FiledIn, References
  <2>2. ShowPage(d, all)
    BY <1>2 DEF TableRead
  <2> HIDE DEF whole
  <2> QED
    BY <1>1, <2>1, <2>2, ShownPage
<1>3. CASE rest # {}
  BY <1>1, <1>3, MoreToRead
<1> QED
  BY <1>2, <1>3

\* The recent table has come.  Unless a file that matters is left out, what is asked
\* for is in it or in the files it references.
LEMMA RecentKeepsPages ==
    ASSUME PagesInv, NEW d \in Discovery, RecentArrives(d) PROVE PagesInv'
<1>1. /\ PagesTypeOK /\ Ahead(d) /\ Collected(d) = References(Known)
      /\ UNCHANGED <<secVars, present>>
  BY DEF PagesInv, RecentArrives, Collected
<1>2. PICK unreadable \in SUBSET Listed : \E overlapping \in OverlapsRequest(unreadable) :
          /\ TableRead(d, References(recent), UpToLimit(overlapping))
          /\ short' = [short EXCEPT ![d] =
                @ \/ Holding \cap (unreadable \cup (overlapping \ UpToLimit(overlapping))) # {}]
  BY DEF RecentArrives
<1>3. PICK overlapping \in OverlapsRequest(unreadable) :
          /\ TableRead(d, References(recent), UpToLimit(overlapping))
          /\ short' = [short EXCEPT ![d] =
                @ \/ Holding \cap (unreadable \cup (overlapping \ UpToLimit(overlapping))) # {}]
  BY <1>2
<1> DEFINE referenced == UpToLimit(overlapping)
           missed == Holding \cap (unreadable \cup (overlapping \ referenced))
<1>4. /\ referenced \in SUBSET File
      /\ Holding \ unreadable \subseteq overlapping
  BY DEF OverlapsRequest, UpToLimit, Listed
<1>5. missed = {} => Holding \subseteq referenced
  BY <1>4
<1> HIDE DEF referenced
<1>6. short' = [short EXCEPT ![d] = @ \/ missed # {}]
  BY <1>3 DEF referenced
<1> HIDE DEF missed
<1>7. /\ short' \in [Discovery -> BOOLEAN]
      /\ \A e \in Discovery \ {d} : short'[e] = short[e]
      /\ ~short'[d] => ~short[d] /\ missed = {}
  <2>1. short \in [Discovery -> BOOLEAN] /\ (missed # {}) \in BOOLEAN
    BY <1>1 DEF PagesTypeOK
  <2>2. short'[d] = (short[d] \/ missed # {})
    BY <1>6, <2>1, Zenon
  <2> QED
    BY <1>6, <2>1, <2>2
<1>8. References(recent) \in SUBSET Filing /\ References(recent) \subseteq References(Known)
  BY <1>1 DEF PagesTypeOK, References, Known
<1>9. ASSUME Holding \subseteq referenced
      PROVE  References(Known) = References(recent) \cup References(FiledIn(referenced))
  <2>1. References(Archived) \subseteq FiledIn(referenced)
    BY <1>1, <1>9 DEF PagesTypeOK, References, Archived, FiledIn, Holding
  <2>2. FiledIn(referenced) \subseteq Archived
    BY <1>1, KnownTyped
  <2> QED
    BY <2>1, <2>2 DEF References, Known
<1>10. TableRead(d, References(recent), referenced)
  BY <1>3 DEF referenced
<1> QED
  BY <1>1, <1>4, <1>5, <1>7, <1>8, <1>9, <1>10, TableKeepsPages DEF referenced

\* One of the files has come: what it held is with the candidates, whatever is
\* added to it from now on was in the recent table, or was not there at all.
LEMMA OlderKeepsPages ==
    ASSUME PagesInv, NEW d \in Discovery, OlderArrives(d) PROVE PagesInv'
<1> DEFINE file == Least(unread[d])
           all == candidates[d] \cup References(files[file])
           rest == unread[d] \ {file}
<1>1. /\ PagesTypeOK /\ Ahead(d) /\ unread[d] # {Recent}
      /\ Collected(d) = candidates[d] \cup References(FiledIn(unread[d]))
      /\ UNCHANGED <<secVars, present, short>> /\ TableRead(d, all, rest)
  BY DEF PagesInv, OlderArrives, Collected
<1>2. unread[d] \in SUBSET File /\ unread[d] # {}
  BY <1>1 DEF Ahead
<1>3. file \in unread[d] /\ file \in File
  <2>1. unread[d] \in SUBSET Nat
    BY <1>2 DEF File
  <2> QED
    BY <1>2, <2>1, LeastIsLeast
<1> HIDE DEF file
<1>4. all \in SUBSET Filing /\ all \subseteq References(Known)
  <2>1. files[file] \in SUBSET Filing /\ files[file] \subseteq Archived
    BY <1>1, <1>3 DEF PagesTypeOK, Archived
  <2> QED
    BY <1>1, <2>1 DEF PagesTypeOK, Ahead, References, Known
<1>5. FiledIn(unread[d]) = files[file] \cup FiledIn(rest)
  BY <1>1, <1>2, <1>3 DEF FiledIn, PagesTypeOK
<1>6. Collected(d) = all \cup References(FiledIn(rest))
  BY <1>1, <1>5 DEF References
<1>7. rest \in SUBSET File /\ short' = short /\ short \in [Discovery -> BOOLEAN]
  BY <1>1, <1>2 DEF PagesTypeOK
<1> HIDE DEF all, rest
<1> QED
  BY <1>1, <1>4, <1>6, <1>7, TableKeepsPages

\* It begins with what is there, at the first page.
LEMMA BeginKeepsPages ==
    ASSUME PagesInv, NEW c \in Caller, Begin(c) PROVE PagesInv'
<1>1. PagesTypeOK /\ UNCHANGED secVars /\ pc' = [pc EXCEPT ![c] = "slot"]
  BY DEF PagesInv, Begin, Goto
<1>2. CASE c \in Discovery
  <2>1. /\ present' = [present EXCEPT ![c] = References(Known)]
        /\ UNCHANGED <<unread, offset, candidates, seen, short>>
    BY <1>2 DEF Begin
  <2>2. References(Known) \in SUBSET Filing
    BY <1>1, KnownTyped
  <2>3. PagesTypeOK'
    BY <1>1, <2>1, <2>2 DEF PagesTypeOK, secVars
  <2>4. /\ pc[c] = "idle" /\ pc'[c] = "slot" /\ present'[c] = References(Known)
        /\ unread[c] = {Recent} /\ offset[c] = 0 /\ candidates[c] \subseteq References(Known)
    BY <1>1, <1>2, <2>1 DEF Begin, PagesInv, PagesTypeOK, Ahead
  <2>5. Collected(c)' = References(Known) /\ References(Known)' = References(Known)
    BY <1>1, <2>1, <2>4 DEF Collected, References, Known, Archived, secVars
  <2>6. \A x \in References(Known) : 0 <= Cardinality(Newer(References(Known), x))
    <3> TAKE x \in References(Known)
    <3>1. x \in Filing /\ Cardinality(Newer(References(Known), x)) \in Nat
      BY <2>2, NewerGrows
    <3> QED
      BY <3>1
  <2>7. Ahead(c)'
    BY <2>1, <2>4, <2>5, <2>6 DEF Ahead, Sighted, Newer
  <2>8. ASSUME NEW d \in Discovery \ {c}
        PROVE  UNCHANGED <<pc[d], unread[d], offset[d], candidates[d], seen[d], present[d], short[d]>>
    <3>1. d \in Caller /\ pc'[d] = pc[d]
      BY <1>1 DEF PagesTypeOK, Caller
    <3> QED
      BY <2>1, <3>1 DEF PagesTypeOK
  <2> QED
    BY <1>1, <1>2, <2>3, <2>7, <2>8, OthersKeep
<1>3. CASE c \notin Discovery
  <2>1. \A d \in Discovery : pc'[d] = pc[d]
    BY <1>1, <1>3 DEF PagesTypeOK, Caller
  <2> QED
    BY <1>1, <1>3, <2>1, PagesGrow DEF Begin, PagesTypeOK, secVars, Known, Archived
<1> QED
  BY <1>2, <1>3

LEMMA PagesInvNext == PagesInv /\ [Next]_vars => PagesInv'
<1> SUFFICES ASSUME PagesInv, [Next]_vars PROVE PagesInv'
  OBVIOUS
<1>1. PagesTypeOK /\ Discovery \subseteq Caller
  BY DEF PagesInv, Caller
<1>2. ASSUME NEW c \in Caller, TakeSlot(c) \/ Wait(c) \/ Wake(c) \/ Fetched(c) \/ GiveUp(c)
      PROVE  PagesInv'
  <2>1. PICK to \in {"throttle", "sleep", "request", "done", "failed"} :
            pc' = [pc EXCEPT ![c] = to] /\ (to = "done" => c \notin Discovery)
    <3>1. CASE Fetched(c)
      BY <3>1, SourceAssumption DEF Fetched, Goto
    <3>2. CASE TakeSlot(c) \/ Wait(c) \/ Wake(c) \/ GiveUp(c)
      BY <3>2 DEF TakeSlot, Wait, Wake, GiveUp, LetThrough, Sleep, Goto
    <3> QED
      BY <1>2, <3>1, <3>2
  <2>2. \A d \in Discovery : pc'[d] = pc[d] \/ pc'[d] \notin {"idle", "done"}
    BY <1>1, <2>1 DEF PagesTypeOK
  <2>3. UNCHANGED <<secVars, discoveryVars>>
    BY <1>2 DEF TakeSlot, Wait, Wake, Fetched, GiveUp
  <2> QED
    BY <1>1, <2>1, <2>2, <2>3, PagesGrow DEF PagesTypeOK, secVars, Known, Archived
<1>3. CASE SecPublishes
  <2>1. /\ UNCHANGED <<files, pc, discoveryVars>> /\ recent \subseteq recent'
        /\ recent' \in SUBSET Filing
    BY <1>1, <1>3 DEF SecPublishes, PagesTypeOK
  <2>2. Known \subseteq Known'
    BY <2>1 DEF Known, Archived
  <2> QED
    BY <1>1, <2>1, <2>2, PagesGrow DEF PagesTypeOK
<1>4. CASE SecArchives
  <2> DEFINE oldest == Least(recent)
  <2>1. oldest \in recent /\ oldest \in Filing
    <3>1. recent \in SUBSET Nat /\ recent # {}
      BY <1>1, <1>4 DEF SecArchives, PagesTypeOK, Filing
    <3> QED
      BY <1>1, <3>1, LeastIsLeast DEF PagesTypeOK
  <2> HIDE DEF oldest
  <2>2. PICK i \in File : files' = [files EXCEPT ![i] = @ \cup {oldest}]
    BY <1>4 DEF SecArchives, oldest
  <2>3. recent' = recent \ {oldest} /\ UNCHANGED <<pc, discoveryVars>>
    BY <1>4 DEF SecArchives, oldest
  <2>4. /\ recent' \in SUBSET Filing /\ files' \in [File -> SUBSET Filing]
        /\ \A j \in File : files[j] \subseteq files'[j]
        /\ oldest \in files'[i]
    BY <1>1, <2>1, <2>2, <2>3 DEF PagesTypeOK
  <2>5. Known \subseteq Known'
    <3>1. Archived \subseteq Archived' /\ oldest \in Archived'
      BY <2>4 DEF Archived
    <3> QED
      BY <2>3, <3>1 DEF Known
  <2> QED
    BY <1>1, <2>3, <2>4, <2>5, PagesGrow DEF PagesTypeOK
<1>5. CASE Tick \/ UNCHANGED vars
  <2>1. UNCHANGED <<secVars, pc, discoveryVars>>
    BY <1>5 DEF Tick, vars
  <2> QED
    BY <1>1, <2>1, PagesGrow DEF PagesTypeOK, secVars, Known, Archived
<1> QED
  BY <1>2, <1>3, <1>4, <1>5, BeginKeepsPages, RecentKeepsPages, OlderKeepsPages DEF Next

\* NothingSkipped: reading page after page, a discovery is shown every filing
\* that was there when it began, however many files the SEC has and whatever it
\* publishes, archives or begins between the requests, provided that no page was
\* made without a file that mattered (_discover_outcome, _referenced_files).
THEOREM AllPagesShowAll == Spec => []NothingSkipped
<1>1. PagesInv => NothingSkipped
  BY DEF PagesInv, Ahead, Sighted, NothingSkipped
<1> QED
  BY <1>1, PagesInvInit, PagesInvNext, PTL DEF Spec
=============================================================================
