-------------------------- MODULE SymbolDirectory --------------------------
(***************************************************************************)
(* The symbol directory in the cache: runs of refresh_symbols write a new    *)
(* generation bucket by bucket and then switch the manifest to it, while      *)
(* searches read the manifest and then the buckets it promises.  Runs may     *)
(* overlap, fail or die at any command, and a command may be carried out      *)
(* although its answer is lost, at once or later.                             *)
(***************************************************************************)
EXTENDS SymbolIndex

CONSTANTS Refresh,      \* runs of the command: each loads a generation of its own
          Search,       \* requests
          None,
          Payload,      \* answers of the SEC: sets of rows
          Query,
          Limit,        \* results on a page
          Ttl, Stale,   \* lifetimes of a cache entry
          MaxClock

ASSUME DirectoryAssumption ==
    /\ None \notin Refresh
    /\ Payload \subseteq SUBSET Row /\ \A rows \in Payload : IsFiniteSet(rows)
    /\ Query \subseteq Text
    /\ Limit \in Nat \ {0} /\ Ttl \in Nat \ {0} /\ Stale \in Nat /\ MaxClock \in Nat

Directories == {ParsePayload(rows) : rows \in Payload}

Prefix == UNION {BucketsOf(ParsePayload(rows)) : rows \in Payload}

VARIABLES
    clock,
    bucket,         \* the bucket entries, by generation and prefix
    manifest,       \* the manifest entry
    records,        \* the directory each run has loaded
    step, unwritten, \* where a run is, and the buckets it has yet to write
    late,           \* manifests sent by runs that had no answer, yet to arrive
    pc, query,      \* where a search is, and what it looks for
    active,         \* the generation of the manifest it has read
    unread, found,  \* the buckets it has yet to read, and what it has found
    stale, asked,   \* has it read a stale entry; history: when it began
    answer

cacheVars == <<bucket, manifest>>
refreshVars == <<records, step, unwritten, late>>
searchVars == <<pc, query, active, unread, found, stale, asked, answer>>
vars == <<clock, cacheVars, refreshVars, searchVars>>

\* An entry holds what one run wrote at one time.
Entry == [of : Refresh, at : 0..MaxClock]
NoEntry == [of |-> None, at |-> 0]

Live(entry) == entry # NoEntry /\ clock < entry.at + Ttl + Stale
Fresh(entry) == clock < entry.at + Ttl

Key == Refresh \X Prefix

Init ==
    /\ clock = 0
    /\ bucket = [key \in Key |-> NoEntry]
    /\ manifest = NoEntry
    /\ records = [r \in Refresh |-> {}]
    /\ step = [r \in Refresh |-> "load"]
    /\ unwritten = [r \in Refresh |-> {}]
    /\ late = {}
    /\ pc = [s \in Search |-> "idle"]
    /\ query = [s \in Search |-> <<>>]
    /\ active = [s \in Search |-> None]
    /\ unread = [s \in Search |-> {}]
    /\ found = [s \in Search |-> {}]
    /\ stale = [s \in Search |-> FALSE]
    /\ asked = [s \in Search |-> 0]
    /\ answer = [s \in Search |-> <<>>]

(***************************************************************************)
(* A refresh.                                                              *)
(***************************************************************************)
\* _generation_bucket_cache_key
BucketKey(r, p) == <<r, p>>

\* The run loads and validates a directory and builds its buckets.
Load(r) ==
    /\ step[r] = "load"
    /\ \E rows \in Payload :
        /\ ParsePayload(rows) # {} /\ BucketsOf(ParsePayload(rows)) # {}
        /\ records' = [records EXCEPT ![r] = ParsePayload(rows)]
        /\ unwritten' = [unwritten EXCEPT ![r] = BucketsOf(ParsePayload(rows))]
    /\ step' = [step EXCEPT ![r] = "buckets"]
    /\ UNCHANGED <<clock, cacheVars, late, searchVars>>

\* UpstashCache.set: the lifetimes of an entry are fixed when it is sent.
Envelope(r) == [of |-> r, at |-> clock]

SetBucket(r, p) ==
    /\ bucket' = [bucket EXCEPT ![BucketKey(r, p)] = Envelope(r)]
    /\ UNCHANGED manifest

SetManifest(entry) ==
    /\ manifest' = entry
    /\ UNCHANGED bucket

\* The next bucket in order of the prefixes.
NextBucket(r) == First(unwritten[r])

\* Mutated: the manifest follows the first bucket, the rest comes after it.
WriteBucketEager(r) ==
    /\ step[r] = "buckets"
    /\ SetBucket(r, NextBucket(r))
    /\ unwritten' = [unwritten EXCEPT ![r] = @ \ {NextBucket(r)}]
    /\ step' = [step EXCEPT ![r] = "manifest"]
    /\ UNCHANGED <<clock, records, late, searchVars>>

WriteBucket(r) ==
    /\ step[r] = "buckets"
    /\ SetBucket(r, NextBucket(r))
    /\ unwritten' = [unwritten EXCEPT ![r] = @ \ {NextBucket(r)}]
    /\ step' = [step EXCEPT ![r] = IF unwritten'[r] = {} THEN "manifest" ELSE "buckets"]
    /\ UNCHANGED <<clock, records, late, searchVars>>

WriteManifest(r) ==
    /\ step[r] = "manifest"
    /\ SetManifest(Envelope(r))
    /\ step' = [step EXCEPT ![r] = "refreshed"]
    /\ UNCHANGED <<clock, records, unwritten, late, searchVars>>

\* The source or a command fails, or the run is stopped.  A bucket nobody was
\* promised may have been written; the manifest may still be.
RefreshFails(r) ==
    /\ step[r] \in {"load", "buckets", "manifest"}
    /\ step' = [step EXCEPT ![r] = "failed"]
    /\ \/ UNCHANGED <<cacheVars, late>>
       \/ step[r] = "buckets" /\ SetBucket(r, NextBucket(r)) /\ UNCHANGED late
       \/ step[r] = "manifest" /\ late' = late \cup {Envelope(r)} /\ UNCHANGED cacheVars
    /\ unwritten' = [unwritten EXCEPT ![r] = {}]
    /\ UNCHANGED <<clock, records, searchVars>>

ManifestArrives ==
    \E entry \in late :
        /\ SetManifest(entry)
        /\ late' = late \ {entry}
        /\ UNCHANGED <<clock, records, step, unwritten, searchVars>>

(***************************************************************************)
(* A search.                                                               *)
(***************************************************************************)
Finishes(s, outcome) ==
    /\ pc' = [pc EXCEPT ![s] = outcome]
    /\ unread' = [unread EXCEPT ![s] = {}]
    /\ found' = [found EXCEPT ![s] = {}]

Answers(s, all, isStale) ==
    /\ Finishes(s, "answered")
    /\ answer' = [answer EXCEPT ![s] = Top(Rank(all, query[s]'), Limit)]
    /\ stale' = [stale EXCEPT ![s] = isStale]

\* Buckets of the query that the manifest promises.
Relevant(q, r) == QueryPrefixes(q) \cap BucketsOf(records[r])

Ask(s) ==
    /\ pc[s] = "idle"
    /\ \E q \in Query : query' = [query EXCEPT ![s] = q]
    /\ pc' = [pc EXCEPT ![s] = "manifest"]
    /\ asked' = [asked EXCEPT ![s] = clock]
    /\ UNCHANGED <<clock, cacheVars, refreshVars, active, unread, found, stale, answer>>

\* Without a live manifest the directory is unavailable; a query with no
\* relevant bucket has an empty answer.
ReadManifest(s) ==
    /\ pc[s] = "manifest"
    /\ UNCHANGED query
    /\ IF ~Live(manifest)
       THEN Finishes(s, "unavailable") /\ UNCHANGED <<active, stale, answer>>
       ELSE /\ active' = [active EXCEPT ![s] = manifest.of]
            /\ IF Relevant(query[s], manifest.of) = {}
               THEN Answers(s, {}, ~Fresh(manifest))
               ELSE /\ pc' = [pc EXCEPT ![s] = "buckets"]
                    /\ unread' = [unread EXCEPT ![s] = Relevant(query[s], manifest.of)]
                    /\ stale' = [stale EXCEPT ![s] = ~Fresh(manifest)]
                    /\ UNCHANGED <<found, answer>>
    /\ UNCHANGED <<clock, cacheVars, refreshVars, asked>>

\* Mutated: only the manifest tells whether the answer is stale.
StaleReadManifestOnly(s, entry) == stale[s]

StaleRead(s, entry) == stale[s] \/ ~Fresh(entry)

\* Mutated: the generation is that of the manifest of the moment.
ReadsFromCurrent(s, p) == bucket[BucketKey(manifest.of, p)]

ReadsFrom(s, p) == bucket[BucketKey(active[s], p)]

\* One bucket of that generation, in order; a missing one makes the directory
\* unavailable.
ReadBucket(s) ==
    /\ pc[s] = "buckets"
    /\ UNCHANGED query
    /\ LET p == First(unread[s])
           entry == ReadsFrom(s, p)
           all == found[s] \cup Bucket(records[entry.of], p)
       IN  IF ~Live(entry)
           THEN Finishes(s, "missing") /\ UNCHANGED <<stale, answer>>
           ELSE IF unread[s] = {p}
           THEN Answers(s, all, StaleRead(s, entry))
           ELSE /\ unread' = [unread EXCEPT ![s] = @ \ {p}]
                /\ found' = [found EXCEPT ![s] = all]
                /\ stale' = [stale EXCEPT ![s] = StaleRead(s, entry)]
                /\ UNCHANGED <<pc, answer>>
    /\ UNCHANGED <<clock, cacheVars, refreshVars, active, asked>>

\* A read fails: the directory is unavailable, whatever has been read before.
SearchFails(s) ==
    /\ pc[s] \in {"manifest", "buckets"}
    /\ Finishes(s, "unavailable")
    /\ UNCHANGED <<clock, cacheVars, refreshVars, query, active, stale, asked, answer>>

Tick ==
    /\ clock < MaxClock
    /\ clock' = clock + 1
    /\ UNCHANGED <<cacheVars, refreshVars, searchVars>>

Next ==
    \/ \E r \in Refresh : Load(r) \/ WriteBucket(r) \/ WriteManifest(r) \/ RefreshFails(r)
    \/ \E s \in Search : Ask(s) \/ ReadManifest(s) \/ ReadBucket(s) \/ SearchFails(s)
    \/ ManifestArrives \/ Tick

Spec == Init /\ [][Next]_vars

-----------------------------------------------------------------------------
(***************************************************************************)
(* Properties.                                                             *)
(***************************************************************************)
\* A manifest, even one that arrives late, promises only buckets its own run has
\* written before it: a search that does not find one has met an entry at the
\* end of its life, never a generation half published (refresh_directory).
PromisesKept ==
    manifest # NoEntry =>
        \A p \in BucketsOf(records[manifest.of]) :
            LET entry == bucket[BucketKey(manifest.of, p)]
            IN  entry.of = manifest.of /\ entry.at <= manifest.at

\* An answer that is not labelled stale was made only from entries that were
\* fresh when it was asked for, although buckets are older than their manifest.
LabelledStale ==
    \A s \in Search : pc[s] = "answered" /\ ~stale[s] =>
        \A p \in Relevant(query[s], active[s]) :
            asked[s] < bucket[BucketKey(active[s], p)].at + Ttl

(***************************************************************************)
(* The register that the directory is when seen from outside.              *)
(***************************************************************************)
PageOf ==
    [d \in Directories |-> [q \in Query |->
        Top(Rank({record \in d : Reachable(record, q)}, q), Limit)]]

Serving == IF manifest = NoEntry THEN {} ELSE records[manifest.of]

Phase == [idle |-> "idle", manifest |-> "asked", buckets |-> "looking",
          answered |-> "answered", unavailable |-> "failed", missing |-> "failed"]
Phases == [s \in Search |-> Phase[pc[s]]]

Views == [s \in Search |-> IF pc[s] \in {"buckets", "answered"} THEN records[active[s]] ELSE {}]

Register == INSTANCE DirectoryRegister WITH
    Directory <- Directories \ {{}}, Page <- PageOf,
    current <- Serving, phase <- Phases, view <- Views, shown <- answer

\* Although it is written and read bucket by bucket, by runs that overlap, fail
\* and are late, the directory is one register that is replaced as a whole: a
\* search shows the page of the directory that was current when it read the
\* manifest (refresh_directory, search_symbols).
ReplacedAsAWhole == Register!Spec
=============================================================================
