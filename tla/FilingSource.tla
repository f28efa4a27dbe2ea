---------------------------- MODULE FilingSource ----------------------------
(***************************************************************************)
(* SEC filings for one company (SecFilingSource): discoveries, page by page,  *)
(* and downloads share two request slots and a throttle (SecFairAccessThrottle)*)
(* that spaces their requests, while the SEC publishes filings and moves older *)
(* ones from the table of recent ones into files of their own, of which a     *)
(* discovery reads a limited number.  A caller may give up at any await.      *)
(***************************************************************************)
EXTENDS Integers, SequencesExt

CONSTANTS Discovery,    \* callers that read all pages, one after the other
          Fetch,        \* callers that download one document
          None,
          Filings,      \* bound: filings the SEC ever publishes, by age
          Matching,     \* those of them the request asks for
          Files,        \* bound: files of older filings, in the order they are listed
          FileLimit,    \* _MAX_REFERENCED_SUBMISSIONS
          PageLimit,    \* request.limit
          Interval,     \* ticks between requests
          Slots         \* requests under way at a time

Caller == Discovery \cup Fetch
Filing == 1..Filings
File == 1..Files

\* The tables a discovery may read: that of recent filings, then the files.
Recent == 0
Table == {Recent} \cup File

ASSUME SourceAssumption ==
    /\ Discovery \cap Fetch = {} /\ None \notin Caller
    /\ Filings \in Nat /\ Matching \subseteq Filing /\ Files \in Nat
    /\ FileLimit \in Nat \ {0} /\ PageLimit \in Nat \ {0}
    /\ Interval \in Nat \ {0} /\ Slots \in Nat \ {0}

VARIABLES
    recent, files,  \* the SEC's tables; a file without filings is not listed
    until,          \* ticks until _next_request_at, zero once it is past
    since,          \* history: ticks since a caller was last let through
    delay,          \* what is left of a caller's sleep
    throttle,       \* who holds the lock of the throttle
    pc,
    unread,         \* the tables a discovery has yet to read for its page
    offset,         \* its cursor
    candidates,     \* what it has read for the page
    seen, present,  \* history: filings on its pages; those there when it began
    short           \* history: a page was made without a file that mattered

secVars == <<recent, files>>
throttleVars == <<until, since, delay, throttle>>
discoveryVars == <<unread, offset, candidates, seen, present, short>>
vars == <<secVars, throttleVars, pc, discoveryVars>>

Archived == UNION {files[i] : i \in File}
Known == recent \cup Archived

\* The filings of a table that the request asks for.
References(filings) == filings \cap Matching

Least(S) == CHOOSE x \in S : \A y \in S : x <= y

Init ==
    /\ \E n \in 0..Filings : recent = 1..n
    /\ files = [i \in File |-> {}]
    /\ until = 0
    /\ since = Interval
    /\ delay = [c \in Caller |-> 0]
    /\ throttle = None
    /\ pc = [c \in Caller |-> "idle"]
    /\ unread = [d \in Discovery |-> {Recent}]
    /\ offset = [d \in Discovery |-> 0]
    /\ candidates = [d \in Discovery |-> {}]
    /\ seen = [d \in Discovery |-> {}]
    /\ present = [d \in Discovery |-> {}]
    /\ short = [d \in Discovery |-> FALSE]

(***************************************************************************)
(* A request (_bytes): a slot, then the throttle, then the answer.          *)
(***************************************************************************)
Goto(c, to) == pc' = [pc EXCEPT ![c] = to]

InSlot == {c \in Caller : pc[c] \in {"throttle", "sleep", "request"}}

Begin(c) ==
    /\ pc[c] = "idle"
    /\ Goto(c, "slot")
    /\ IF c \in Discovery
       THEN /\ present' = [present EXCEPT ![c] = References(Known)]
            /\ UNCHANGED <<unread, offset, candidates, seen, short>>
       ELSE UNCHANGED discoveryVars
    /\ UNCHANGED <<secVars, throttleVars>>

TakeSlot(c) ==
    /\ pc[c] = "slot" /\ Cardinality(InSlot) < Slots
    /\ Goto(c, "throttle")
    /\ UNCHANGED <<secVars, throttleVars, discoveryVars>>

\* The caller is let through, and the next one not before Interval ticks.
LetThrough(c) ==
    /\ Goto(c, "request")
    /\ until' = until + Interval
    /\ since' = 0
    /\ UNCHANGED delay

Sleep(c) ==
    /\ Goto(c, "sleep")
    /\ delay' = [delay EXCEPT ![c] = until]

\* Mutated: the lock is not kept over the sleep.
WaitShared(c) ==
    /\ pc[c] = "throttle" /\ throttle = None
    /\ IF until > 0 THEN Sleep(c) /\ UNCHANGED <<until, since>> ELSE LetThrough(c)
    /\ UNCHANGED <<throttle, secVars, discoveryVars>>

\* Mutated: the caller's turn is taken before it sleeps.
WaitReserving(c) ==
    /\ pc[c] = "throttle" /\ throttle = None
    /\ IF until > 0
       THEN Sleep(c) /\ throttle' = c /\ until' = until + Interval /\ UNCHANGED since
       ELSE LetThrough(c) /\ UNCHANGED throttle
    /\ UNCHANGED <<secVars, discoveryVars>>

\* wait: the lock is kept over the sleep, and waiters may get it in any order.
Wait(c) ==
    /\ pc[c] = "throttle" /\ throttle = None
    /\ IF until > 0
       THEN Sleep(c) /\ throttle' = c /\ UNCHANGED <<until, since>>
       ELSE LetThrough(c) /\ UNCHANGED throttle
    /\ UNCHANGED <<secVars, discoveryVars>>

Wake(c) ==
    /\ pc[c] = "sleep" /\ delay[c] = 0
    /\ LetThrough(c)
    /\ throttle' = IF throttle = c THEN None ELSE throttle
    /\ UNCHANGED <<secVars, discoveryVars>>

Fetched(c) ==
    /\ c \in Fetch /\ pc[c] = "request"
    /\ Goto(c, "done")
    /\ UNCHANGED <<secVars, throttleVars, discoveryVars>>

\* The call fails, passes its deadline or is cancelled; leaving the throttle and
\* the slot takes nothing with it.
GiveUp(c) ==
    /\ pc[c] \in {"slot", "throttle", "sleep", "request"}
    /\ Goto(c, "failed")
    /\ throttle' = IF throttle = c THEN None ELSE throttle
    /\ delay' = [delay EXCEPT ![c] = 0]
    /\ UNCHANGED <<secVars, until, since, discoveryVars>>

(***************************************************************************)
(* A discovery (_discover_outcome): the recent table, then each of the files *)
(* it references; what they hold, without duplicates, newest first.          *)
(***************************************************************************)
\* Newest first: at place i is the filing that i - 1 others are newer than.
Newer(filings, f) == {g \in filings : g > f}

Ordered(filings) ==
    [i \in 1..Cardinality(filings) |-> CHOOSE f \in filings : Cardinality(Newer(filings, f)) = i - 1]

Page(d, all) ==
    LET last == offset[d] + PageLimit
    IN  SubSeq(Ordered(all), offset[d] + 1, IF last < Cardinality(all) THEN last ELSE Cardinality(all))

\* Mutated: the cursor passes over a filing.
NextOffsetPast(d, page) == offset[d] + Len(page) + 1

NextOffset(d, page) == offset[d] + Len(page)

ShowPage(d, all) ==
    LET next == NextOffset(d, Page(d, all))
    IN  /\ seen' = [seen EXCEPT ![d] = @ \cup ToSet(Page(d, all))]
        /\ candidates' = [candidates EXCEPT ![d] = {}]
        /\ unread' = [unread EXCEPT ![d] = {Recent}]
        /\ IF next < Cardinality(all)
           THEN offset' = [offset EXCEPT ![d] = next] /\ Goto(d, "slot")
           ELSE UNCHANGED offset /\ Goto(d, "done")

\* A table has come, and these are left to read: each is a request of its own.
TableRead(d, all, rest) ==
    IF rest = {} THEN ShowPage(d, all)
    ELSE /\ candidates' = [candidates EXCEPT ![d] = all]
         /\ unread' = [unread EXCEPT ![d] = rest]
         /\ Goto(d, "slot")
         /\ UNCHANGED <<offset, seen>>

Listed == {i \in File : files[i] # {}}

\* The files that hold a filing asked for.
Holding == {i \in File : References(files[i]) # {}}

\* A file is listed with a first and a last date: it overlaps the request if it
\* holds a filing asked for, and may do so if it does not.  An entry that cannot be
\* read is passed over, whatever the file holds.
OverlapsRequest(unreadable) ==
    {overlapping \in SUBSET (Listed \ unreadable) : Holding \ unreadable \subseteq overlapping}

\* The listing is left, without a word, when it has given so many files.
UpToLimit(overlapping) ==
    {i \in overlapping : Cardinality({j \in overlapping : j <= i}) <= FileLimit}

RecentArrives(d) ==
    /\ d \in Discovery /\ pc[d] = "request" /\ unread[d] = {Recent}
    /\ \E unreadable \in SUBSET Listed : \E overlapping \in OverlapsRequest(unreadable) :
        LET referenced == UpToLimit(overlapping)
        IN  /\ TableRead(d, References(recent), referenced)
            /\ short' = [short EXCEPT ![d] =
                  @ \/ Holding \cap (unreadable \cup (overlapping \ referenced)) # {}]
    /\ UNCHANGED <<secVars, throttleVars, present>>

OlderArrives(d) ==
    /\ d \in Discovery /\ pc[d] = "request" /\ unread[d] # {Recent}
    /\ LET file == Least(unread[d])
       IN  TableRead(d, candidates[d] \cup References(files[file]), unread[d] \ {file})
    /\ UNCHANGED <<secVars, throttleVars, present, short>>

(***************************************************************************)
(* The SEC, and time.                                                      *)
(***************************************************************************)
SecPublishes ==
    /\ \E f \in Filing \ Known :
        /\ \A g \in Filing \ Known : f <= g
        /\ recent' = recent \cup {f}
    /\ UNCHANGED <<files, throttleVars, pc, discoveryVars>>

\* The oldest of the recent filings joins those archived last, or begins a file.
SecArchives ==
    /\ recent # {}
    /\ \E i \in File :
        /\ files[i] = {} \/ \E f \in files[i] : \A g \in Archived : g <= f
        /\ files' = [files EXCEPT ![i] = @ \cup {Least(recent)}]
    /\ recent' = recent \ {Least(recent)}
    /\ UNCHANGED <<throttleVars, pc, discoveryVars>>

Tick ==
    /\ since < Interval \/ until > 0
    /\ until' = IF until > 0 THEN until - 1 ELSE 0
    /\ delay' = [c \in Caller |-> IF delay[c] > 0 THEN delay[c] - 1 ELSE 0]
    /\ since' = IF since < Interval THEN since + 1 ELSE since
    /\ UNCHANGED <<secVars, throttle, pc, discoveryVars>>

Next ==
    \/ \E c \in Caller : Begin(c) \/ TakeSlot(c) \/ Wait(c) \/ Wake(c) \/ Fetched(c) \/ GiveUp(c)
    \/ \E d \in Discovery : RecentArrives(d) \/ OlderArrives(d)
    \/ SecPublishes \/ SecArchives \/ Tick

Spec == Init /\ [][Next]_vars

-----------------------------------------------------------------------------
(***************************************************************************)
(* Properties.                                                             *)
(***************************************************************************)
\* docs/research-runbook.md:25: whoever waits, sleeps or gives up in between, no
\* request is let through before Interval ticks have passed since the last one.
Spaced == [][\A c \in Caller :
    pc[c] # "request" /\ pc[c]' = "request" => since = Interval]_vars

\* A caller that gives up while it waits takes no turn with it: the next one
\* waits for the last request that was let through and for nothing else.
TurnsNotLost == until = Interval - since

\* Reading all pages misses no filing that was there when it began, although
\* filings are published and change tables between the requests, and files are
\* begun and grow while others are read.  It needs the whole list at each page: one
\* page made without a file that mattered, because more than FileLimit overlap the
\* request or an entry is malformed, may skip filings for good and nobody is told.
NothingSkipped ==
    \A d \in Discovery : pc[d] = "done" /\ ~short[d] => present[d] \subseteq seen[d]
=============================================================================
