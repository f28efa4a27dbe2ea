----------------------- MODULE SymbolDirectoryProofs -----------------------
(***************************************************************************)
(* Proofs about SymbolDirectory, for any number of refreshes and searches,  *)
(* any directories and queries, and any lifetimes of the entries.           *)
(*                                                                         *)
(* First the index: the buckets a query reads hold exactly the matches that *)
(* a two-character index can find at all.  Then the refresh: a manifest     *)
(* promises only buckets that are written and stay as they are.  Then the   *)
(* search: what it has found in the buckets it has read, and how old they   *)
(* were; and what the ranking shows of it.  Last, the directory as one      *)
(* register.                                                                *)
(***************************************************************************)
EXTENDS SymbolDirectory, FiniteSetTheorems, SequenceTheorems, WellFoundedInduction, TLAPS

(***************************************************************************)
(* The order of the prefixes.                                              *)
(***************************************************************************)
LEMMA LeastNatural ==
    ASSUME NEW S \in SUBSET Nat, S # {}
    PROVE  \E x \in S : \A y \in S : x <= y
<1>1. PICK x \in S : \A y \in S : <<y, x>> \notin OpToRel(<, Nat)
  BY NatLessThanWellFounded, WFMin
<1>2. OpToRel(<, Nat) = {pair \in Nat \X Nat : pair[1] < pair[2]}
  BY DEF OpToRel
<1>3. \A y \in S : x <= y
  <2> TAKE y \in S
  <2>1. <<y, x>> \notin {pair \in Nat \X Nat : pair[1] < pair[2]}
    BY <1>1, <1>2
  <2> QED
    BY <2>1
<1> QED
  BY <1>3

TwoCharacters == {p \in Seq(Nat) : Len(p) = 2}

\* Some prefixes have a first one.
LEMMA FirstIsOne ==
    ASSUME NEW S \in SUBSET TwoCharacters, S # {}
    PROVE  First(S) \in S
<1>1. \A p \in S : p \in Seq(Nat) /\ Len(p) = 2 /\ DOMAIN p = 1..2 /\ p[1] \in Nat /\ p[2] \in Nat
  BY DEF TwoCharacters
<1> DEFINE Heads == {p[1] : p \in S}
<1>2. PICK a \in Heads : \A b \in Heads : a <= b
  <2>1. Heads \in SUBSET Nat /\ Heads # {}
    BY <1>1
  <2> HIDE DEF Heads
  <2> QED
    BY <2>1, LeastNatural
<1> DEFINE Those == {p \in S : p[1] = a}
           Tails == {p[2] : p \in Those}
<1>3. Tails \in SUBSET Nat /\ Tails # {}
  BY <1>1
<1>4. PICK c \in Tails : \A b \in Tails : c <= b
  BY <1>3, LeastNatural
<1>5. PICK p \in S : p[1] = a /\ p[2] = c
  OBVIOUS
<1>6. ASSUME NEW q \in S \ {p} PROVE Before(p, q)
  <2>1. /\ p[1] \in Nat /\ q[1] \in Nat /\ p[2] \in Nat /\ q[2] \in Nat
        /\ DOMAIN p \cap DOMAIN q = 1..2
    BY <1>1
  <2>2. CASE p[1] # q[1]
    <3>1. p[1] < q[1]
      BY <1>2, <1>5, <2>1, <2>2
    <3> QED
      BY <2>1, <3>1 DEF Before
  <2>3. CASE p[1] = q[1]
    <3>1. p[2] <= q[2]
      BY <1>4, <1>5, <2>3
    <3>2. p[2] # q[2]
      <4>1. p[2] = q[2] => p = q
        <5> SUFFICES ASSUME p[2] = q[2] PROVE p = q
          OBVIOUS
        <5>1. \A i \in 1..2 : i = 1 \/ i = 2
          OBVIOUS
        <5>2. p \in Seq(Nat) /\ q \in Seq(Nat) /\ Len(p) = 2 /\ Len(q) = 2
          BY <1>1
        <5>3. \A i \in 1..Len(p) : p[i] = q[i]
          BY <2>3, <5>1, <5>2
        <5> QED
          BY <5>2, <5>3, SeqEqual
      <4> QED
        BY <4>1
    <3>3. p[2] < q[2] /\ 2 \in DOMAIN p \cap DOMAIN q /\ \A k \in 1..(2 - 1) : p[k] = q[k]
      BY <2>1, <2>3, <3>1, <3>2
    <3> QED
      BY <3>3 DEF Before
  <2> QED
    BY <2>2, <2>3
<1> QED
  BY <1>6 DEF First

(***************************************************************************)
(* Texts and their first two characters.                                   *)
(***************************************************************************)
LEMMA FirstTwo ==
    ASSUME NEW S, NEW t \in Seq(S), Len(t) >= 2
    PROVE  /\ SubSeq(t, 1, 2) \in Seq(S) /\ Len(SubSeq(t, 1, 2)) = 2
           /\ SubSeq(t, 1, 2)[1] = t[1] /\ SubSeq(t, 1, 2)[2] = t[2]
           /\ t[1] \in S /\ t[2] \in S
<1>1. Len(t) \in Nat /\ \A i \in 1..2 : t[i] \in S
  BY LenProperties
<1>2. /\ SubSeq(t, 1, 2) \in Seq(S)
      /\ Len(SubSeq(t, 1, 2)) = IF 1 <= 2 THEN 2 - 1 + 1 ELSE 0
      /\ \A i \in 1..(2 - 1 + 1) : SubSeq(t, 1, 2)[i] = t[1 + i - 1]
  BY <1>1, SubSeqProperties
<1> QED
  BY <1>1, <1>2

\* A text that begins with another has the same first two characters.
LEMMA PrefixKeepsTwo ==
    ASSUME NEW s \in Seq(Nat), NEW t \in Seq(Nat), Len(s) >= 2, IsPrefix(s, t)
    PROVE  Len(t) >= 2 /\ SubSeq(t, 1, 2) = SubSeq(s, 1, 2)
<1> DEFINE n == Len(s)
<1>1. n \in Nat /\ Len(t) \in Nat /\ n <= Len(t) /\ SubSeq(s, 1, n) = SubSeq(t, 1, n)
  BY LenProperties DEF IsPrefix
<1>2. \A i \in 1..n : s[i] \in Nat /\ t[i] \in Nat
  BY <1>1, LenProperties
<1> HIDE DEF n
<1>3. \A i \in 1..(n - 1 + 1) : SubSeq(s, 1, n)[i] = s[1 + i - 1]
  BY <1>1, <1>2, SubSeqProperties
<1>4. \A i \in 1..(n - 1 + 1) : SubSeq(t, 1, n)[i] = t[1 + i - 1]
  BY <1>1, <1>2, SubSeqProperties
<1>5. s[1] = t[1] /\ s[2] = t[2] /\ Len(t) >= 2
  BY <1>1, <1>3, <1>4 DEF n
<1>6. /\ SubSeq(s, 1, 2) \in Seq(Nat) /\ Len(SubSeq(s, 1, 2)) = 2
      /\ SubSeq(s, 1, 2)[1] = s[1] /\ SubSeq(s, 1, 2)[2] = s[2]
  BY FirstTwo
<1>7. /\ SubSeq(t, 1, 2) \in Seq(Nat) /\ Len(SubSeq(t, 1, 2)) = 2
      /\ SubSeq(t, 1, 2)[1] = t[1] /\ SubSeq(t, 1, 2)[2] = t[2]
  BY <1>5, FirstTwo
<1> QED
  BY <1>5, <1>6, <1>7, SeqEqual

LEMMA TwoIsPrefix ==
    ASSUME NEW s \in Seq(Nat), NEW t \in Seq(Nat), Len(s) >= 2
    PROVE  IsPrefix(SubSeq(s, 1, 2), t) <=> Len(t) >= 2 /\ SubSeq(t, 1, 2) = SubSeq(s, 1, 2)
<1>1. SubSeq(s, 1, 2) \in Seq(Nat) /\ Len(SubSeq(s, 1, 2)) = 2
  BY FirstTwo
<1>2. SubSeq(SubSeq(s, 1, 2), 1, 2) = SubSeq(s, 1, 2)
  BY <1>1, SubSeqFull
<1> QED
  BY <1>1, <1>2 DEF IsPrefix

(***************************************************************************)
(* Tokens.                                                                 *)
(***************************************************************************)
LEMMA TokensAreTokens ==
    ASSUME NEW q \in Seq(Nat), NEW t \in Tokens(q)
    PROVE  t \in Token
<1>1. PICK i \in DOMAIN q, j \in DOMAIN q :
          i <= j /\ (\A k \in i..j : q[k] \in Letter) /\ t = SubSeq(q, i, j)
  BY DEF Tokens
<1>2. i \in Int /\ j \in Int /\ i <= j
  BY <1>1, LenProperties
<1>3. t \in Seq(Letter) /\ Len(t) = IF i <= j THEN j - i + 1 ELSE 0
  BY <1>1, <1>2, SubSeqProperties
<1>4. Len(t) > 0
  BY <1>2, <1>3
<1>5. t # <<>>
  BY <1>4, EmptySeq
<1> QED
  BY <1>3, <1>5 DEF Token

\* Two letters at the beginning belong to one token: it ends before the first
\* character that is none.
LEMMA TwoLettersMakeToken ==
    ASSUME NEW q \in Seq(Nat), Len(q) >= 2, q[1] \in Letter, q[2] \in Letter
    PROVE  \E t \in Tokens(q) : Len(t) >= 2
<1> DEFINE Others == {k \in DOMAIN q : q[k] \notin Letter}
<1>1. Len(q) \in Nat /\ DOMAIN q = 1..Len(q)
  BY LenProperties
<1>2. PICK j \in DOMAIN q :
          /\ j >= 2 /\ \A k \in 1..j : q[k] \in Letter
          /\ j + 1 \in DOMAIN q => q[j + 1] \notin Letter
  <2>1. CASE Others = {}
    <3>1. \A k \in 1..Len(q) : q[k] \in Letter
      BY <1>1, <2>1
    <3> QED
      BY <1>1, <3>1
  <2>2. CASE Others # {}
    <3>1. Others \in SUBSET Nat
      BY <1>1
    <3>2. PICK m \in Others : \A k \in Others : m <= k
      <4> HIDE DEF Others
      <4> QED
        BY <2>2, <3>1, LeastNatural
    <3>3. m \in 1..Len(q) /\ q[m] \notin Letter
      BY <1>1
    <3>4. m # 1 /\ m # 2
      BY <3>3
    <3>5. ASSUME NEW k \in 1..(m - 1) PROVE q[k] \in Letter
      <4>1. k \in DOMAIN q /\ ~(m <= k)
        BY <1>1, <3>3
      <4> QED
        BY <3>2, <4>1
    <3>6. m - 1 \in DOMAIN q /\ m - 1 >= 2 /\ (m - 1) + 1 = m
      BY <1>1, <3>3, <3>4
    <3> QED
      BY <3>3, <3>5, <3>6
  <2> QED
    BY <2>1, <2>2
<1>3. 1 \in DOMAIN q /\ 1 - 1 \notin DOMAIN q /\ j \in Int /\ 1 <= j
  BY <1>1, <1>2
<1>4. SubSeq(q, 1, j) \in Tokens(q)
  <2> DEFINE run == <<1, j>>
  <2>1. run \in (DOMAIN q) \X (DOMAIN q) /\ run[1] = 1 /\ run[2] = j
    BY <1>3
  <2> QED
    BY <1>2, <1>3, <2>1 DEF Tokens
<1>5. Len(SubSeq(q, 1, j)) = IF 1 <= j THEN j - 1 + 1 ELSE 0
  BY <1>2, <1>3, SubSeqProperties, \A i \in 1..j : q[i] \in Letter
<1>6. Len(SubSeq(q, 1, j)) >= 2
  BY <1>2, <1>3, <1>5
<1> QED
  BY <1>4, <1>6

(***************************************************************************)
(* The index.                                                              *)
(***************************************************************************)
LEMMA BucketName ==
    ASSUME NEW texts, NEW p
    PROVE  p \in BucketNames(texts) <=>
               IsBucket(p) /\ \E t \in texts : Len(t) >= 2 /\ p = SubSeq(t, 1, 2)
  BY DEF BucketNames

\* A match is in one of the buckets its query reads if and only if a two-character
\* index can find it at all (_query_prefixes, _record_prefixes).
THEOREM IndexFindsReachable ==
    ASSUME NEW q \in Text, NEW record \in Record, Score(record, q) < 9
    PROVE  Reachable(record, q) <=>
               \E p \in QueryPrefixes(q) : p \in RecordPrefixes(record)
<1> DEFINE two == SubSeq(q, 1, 2)
           symbol == record.symbol
<1>1. /\ q \in Seq(Nat) /\ Len(q) >= 2
      /\ symbol \in Seq(Nat \ {Blank}) /\ symbol \in Seq(Nat) /\ symbol[1] \in Letter
      /\ record.name \in SUBSET Token
  <2>1. symbol \in Seq(Nat \ {Blank}) /\ symbol[1] \in Letter /\ record.name \in SUBSET Token
    BY DEF Record, Symbol
  <2>2. symbol \in Seq(Nat)
    BY <2>1, SeqMonotonic
  <2> QED
    BY <2>1, <2>2 DEF Text
<1>2. \A t \in Token : t \in Seq(Letter) /\ t \in Seq(Nat)
  <2>1. Letter \subseteq Nat
    BY DEF Letter
  <2> QED
    BY <2>1, SeqMonotonic DEF Token
<1>3. two \in Seq(Nat) /\ Len(two) = 2 /\ two[1] = q[1] /\ two[2] = q[2]
  BY <1>1, FirstTwo
\* A symbol that begins like the query is in the bucket of both.
<1>4. ASSUME Len(symbol) >= 2, SubSeq(symbol, 1, 2) = two
      PROVE  \E p \in QueryPrefixes(q) : p \in RecordPrefixes(record)
  <2>1. SubSeq(symbol, 1, 2)[1] = symbol[1] /\ SubSeq(symbol, 1, 2)[2] \in Nat \ {Blank}
    BY <1>1, <1>4, FirstTwo
  <2>2. IsBucket(two)
    BY <1>1, <1>3, <1>4, <2>1 DEF IsBucket
  <2>3. two \in QueryPrefixes(q) /\ two \in RecordPrefixes(record)
    BY <1>1, <1>4, <2>2, BucketName DEF QueryPrefixes, RecordPrefixes
  <2> QED
    BY <2>3
\* A token of the query that begins a token of the name names a bucket of both.
<1>5. ASSUME NEW t \in Tokens(q), Len(t) >= 2, NEW n \in record.name, IsPrefix(t, n)
      PROVE  \E p \in QueryPrefixes(q) : p \in RecordPrefixes(record)
  <2>1. t \in Seq(Letter) /\ t \in Seq(Nat) /\ n \in Seq(Letter) /\ n \in Seq(Nat)
    BY <1>1, <1>2, TokensAreTokens
  <2>2. Len(n) >= 2 /\ SubSeq(n, 1, 2) = SubSeq(t, 1, 2)
    BY <1>5, <2>1, PrefixKeepsTwo
  <2>3. Len(SubSeq(t, 1, 2)) = 2 /\ SubSeq(t, 1, 2)[1] \in Letter /\ SubSeq(t, 1, 2)[2] \in Letter
    BY <1>5, <2>1, FirstTwo
  <2>4. IsBucket(SubSeq(t, 1, 2))
    BY <2>3 DEF IsBucket, Letter
  <2>5. SubSeq(t, 1, 2) \in QueryPrefixes(q) /\ SubSeq(t, 1, 2) \in RecordPrefixes(record)
    BY <1>5, <2>2, <2>4, BucketName DEF QueryPrefixes, RecordPrefixes
  <2> QED
    BY <2>5
<1>6. ASSUME Reachable(record, q)
      PROVE  \E p \in QueryPrefixes(q) : p \in RecordPrefixes(record)
  <2>1. CASE IsPrefix(two, symbol)
    BY <1>1, <1>4, <2>1, TwoIsPrefix
  <2>2. CASE IsPrefix(q, symbol)
    BY <1>1, <1>4, <2>2, PrefixKeepsTwo
  <2>3. CASE ~IsPrefix(two, symbol) /\ ~IsPrefix(q, symbol)
    <3>1. PICK t \in Tokens(q) : Len(t) >= 2
      BY <1>6, <2>3 DEF Reachable
    <3>2. PICK n \in record.name : IsPrefix(t, n)
      BY <2>3, <3>1 DEF Score
    <3> QED
      BY <1>5, <3>1, <3>2
  <2> QED
    BY <2>1, <2>2, <2>3
<1>7. ASSUME NEW p \in QueryPrefixes(q), p \in RecordPrefixes(record)
      PROVE  Reachable(record, q)
  <2>1. IsBucket(p)
    BY <1>7, BucketName DEF QueryPrefixes
  <2>2. CASE \E t \in Tokens(q) : Len(t) >= 2
    BY <2>2 DEF Reachable
  <2>3. CASE ~\E t \in Tokens(q) : Len(t) >= 2
    <3>1. p = two
      BY <1>7, <2>3, BucketName DEF QueryPrefixes
    <3>2. q[1] \in Letter /\ q[2] \notin Letter
      BY <1>1, <1>3, <2>1, <2>3, <3>1, TwoLettersMakeToken DEF IsBucket
    <3>3. \A n \in record.name : Len(n) >= 2 => SubSeq(n, 1, 2)[2] \in Letter
      BY <1>1, <1>2, FirstTwo
    <3>4. PICK n \in {symbol} \cup record.name : Len(n) >= 2 /\ p = SubSeq(n, 1, 2)
      BY <1>7, BucketName DEF RecordPrefixes
    <3>5. n = symbol
      BY <1>3, <3>1, <3>2, <3>3, <3>4
    <3> QED
      BY <1>1, <3>1, <3>4, <3>5, TwoIsPrefix DEF Reachable
  <2> QED
    BY <2>2, <2>3
<1> QED
  BY <1>6, <1>7

(***************************************************************************)
(* The inductive invariant.                                                *)
(***************************************************************************)
DirectoryTypeOK ==
    /\ clock \in 0..MaxClock
    /\ bucket \in [Key -> Entry \cup {NoEntry}]
    /\ manifest \in Entry \cup {NoEntry}
    /\ records \in [Refresh -> Directories \cup {{}}]
    /\ step \in [Refresh -> {"load", "buckets", "manifest", "refreshed", "failed"}]
    /\ unwritten \in [Refresh -> SUBSET Prefix]
    /\ late \in SUBSET Entry

Written(r, p) == bucket[BucketKey(r, p)].of = r
Complete(r) == \A p \in BucketsOf(records[r]) : Written(r, p)

\* A run that will not write a bucket any more.
Settled(r) == step[r] \in {"refreshed", "failed"}

\* A bucket holds what its own run has written.
BucketsOwned ==
    \A r \in Refresh : \A p \in Prefix :
        LET entry == bucket[BucketKey(r, p)]
        IN  entry.of \in {r, None} /\ entry.at <= clock

\* A run goes from bucket to bucket and leaves none behind it.
RunsProgress ==
    \A r \in Refresh :
        /\ step[r] = "buckets" => \A p \in BucketsOf(records[r]) \ unwritten[r] : Written(r, p)
        /\ step[r] \in {"manifest", "refreshed"} => Complete(r)

\* Every bucket that a manifest promises was written before it was sent.
Promises(entry) ==
    \A p \in BucketsOf(records[entry.of]) : bucket[BucketKey(entry.of, p)].at <= entry.at

\* A manifest, written or on its way, is that of a complete generation, which
\* stays as it is.
ManifestsComplete ==
    /\ \A entry \in late :
          /\ entry.at <= clock /\ step[entry.of] = "failed"
          /\ Complete(entry.of) /\ Promises(entry)
    /\ manifest # NoEntry => /\ manifest.at <= clock
                             /\ Settled(manifest.of) /\ Complete(manifest.of)

DirectoryInv ==
    DirectoryTypeOK /\ BucketsOwned /\ RunsProgress /\ ManifestsComplete /\ PromisesKept

SearchTypeOK ==
    /\ pc \in [Search -> {"idle", "manifest", "buckets", "answered", "unavailable", "missing"}]
    /\ stale \in [Search -> BOOLEAN]
    /\ asked \in [Search -> Nat]
    /\ query = [s \in Search |-> query[s]] /\ active = [s \in Search |-> active[s]]
    /\ unread = [s \in Search |-> unread[s]] /\ found = [s \in Search |-> found[s]]
    /\ answer = [s \in Search |-> answer[s]]

\* What some buckets of a generation hold.
Held(r, prefixes) == UNION {Bucket(records[r], p) : p \in prefixes}

\* They were fresh when the search began.
FreshFor(s, prefixes) ==
    \A p \in prefixes : asked[s] < bucket[BucketKey(active[s], p)].at + Ttl

\* A search stays with one settled generation, and has found what the buckets
\* hold that it has read.
Searching(s) ==
    /\ pc[s] # "idle" => query[s] \in Query /\ asked[s] <= clock
    /\ pc[s] \in {"buckets", "answered"} => active[s] \in Refresh /\ Settled(active[s])
    /\ pc[s] = "buckets" =>
          LET relevant == Relevant(query[s], active[s])
          IN  /\ unread[s] # {} /\ unread[s] \subseteq relevant
              /\ found[s] = Held(active[s], relevant \ unread[s])
              /\ ~stale[s] => FreshFor(s, relevant \ unread[s])
    /\ pc[s] = "answered" =>
          LET relevant == Relevant(query[s], active[s])
          IN  /\ answer[s] = Top(Rank(Held(active[s], relevant), query[s]), Limit)
              /\ ~stale[s] => FreshFor(s, relevant)
    /\ found[s] = {} \/ pc[s] = "buckets"

SearchInv == SearchTypeOK /\ \A s \in Search : Searching(s)

(***************************************************************************)
(* Directories.                                                            *)
(***************************************************************************)
LEMMA DirectoriesTyped ==
    ASSUME NEW directory \in Directories \cup {{}}
    PROVE  directory \in SUBSET Record /\ BucketsOf(directory) \subseteq Prefix
<1>1. CASE directory = {}
  BY <1>1 DEF BucketsOf
<1>2. CASE directory \in Directories
  <2>1. PICK rows \in Payload : directory = ParsePayload(rows)
    BY <1>2 DEF Directories
  <2> DEFINE Valid == {row \in rows : row.symbol # <<>>}
             Chosen(symbol) == CHOOSE row \in Valid : row.symbol = symbol
  <2>2. Valid \in SUBSET Record
    BY DirectoryAssumption DEF Row, Record
  <2>3. ASSUME NEW row \in Valid PROVE Chosen(row.symbol) \in Valid
    BY <2>3
  <2>4. directory = {Chosen(symbol) : symbol \in {row.symbol : row \in Valid}}
    BY <2>1 DEF ParsePayload
  <2> HIDE DEF Valid, Chosen
  <2>5. directory \subseteq Valid
    BY <2>3, <2>4
  <2>6. BucketsOf(directory) \subseteq Prefix
    BY <2>1 DEF Prefix
  <2> QED
    BY <2>2, <2>5, <2>6
<1> QED
  BY <1>1, <1>2

LEMMA PrefixesTyped == Prefix \subseteq TwoCharacters
<1> SUFFICES ASSUME NEW rows \in Payload, NEW p \in BucketsOf(ParsePayload(rows))
             PROVE  p \in TwoCharacters
  BY DEF Prefix
<1>1. ParsePayload(rows) \in SUBSET Record
  BY DirectoriesTyped DEF Directories
<1>2. PICK record \in Record : p \in RecordPrefixes(record)
  BY <1>1 DEF BucketsOf
<1>3. PICK t \in {record.symbol} \cup record.name : Len(t) >= 2 /\ p = SubSeq(t, 1, 2)
  BY <1>2, BucketName DEF RecordPrefixes
<1>4. t \in Seq(Nat \ {Blank}) \/ t \in Seq(Letter)
  BY <1>2, <1>3 DEF Record, Symbol, Token
<1>5. t \in Seq(Nat)
  BY <1>4, SeqMonotonic, Letter \subseteq Nat DEF Letter
<1> QED
  BY <1>3, <1>5, FirstTwo DEF TwoCharacters

LEMMA KeysTyped ==
    \A r \in Refresh : \A p \in Prefix :
        /\ BucketKey(r, p) \in Key
        /\ \A x, y : BucketKey(r, p) = BucketKey(x, y) <=> x = r /\ y = p
  BY DEF BucketKey, Key

LEMMA EntriesTyped ==
    /\ NoEntry.of = None /\ NoEntry.at = 0 /\ None \notin Refresh
    /\ \A entry \in Entry : entry.of \in Refresh /\ entry.at \in 0..MaxClock
    /\ \A entry \in Entry \cup {NoEntry} : entry.at \in Nat /\ (entry.of = None <=> entry = NoEntry)
    /\ \A r \in Refresh, t \in 0..MaxClock : [of |-> r, at |-> t] \in Entry
  BY DirectoryAssumption DEF Entry, NoEntry

(***************************************************************************)
(* The steps of the refreshes.                                             *)
(***************************************************************************)
LEMMA DirectoryInvInit == Init => DirectoryInv
<1> SUFFICES ASSUME Init PROVE DirectoryInv
  OBVIOUS
<1>1. DirectoryTypeOK
  BY DirectoryAssumption DEF Init, DirectoryTypeOK
<1>2. \A r \in Refresh : \A p \in Prefix : bucket[BucketKey(r, p)] = NoEntry
  BY KeysTyped DEF Init
<1>3. BucketsOwned
  BY <1>2, EntriesTyped DEF BucketsOwned, Init
<1> QED
  BY <1>1, <1>3 DEF Init, DirectoryInv, RunsProgress, ManifestsComplete, PromisesKept

\* One bucket is written.
LEMMA SetBucketEffect ==
    ASSUME DirectoryTypeOK, BucketsOwned, NEW r \in Refresh, NEW p, SetBucket(r, p), UNCHANGED clock
    PROVE  /\ bucket' \in [Key -> Entry \cup {NoEntry}] /\ BucketsOwned'
           /\ \A x \in Refresh, q \in Prefix :
                 bucket'[BucketKey(x, q)] =
                     IF x = r /\ q = p THEN [of |-> r, at |-> clock] ELSE bucket[BucketKey(x, q)]
<1>1. [of |-> r, at |-> clock] \in Entry
  BY EntriesTyped DEF DirectoryTypeOK
<1>2. bucket' = [bucket EXCEPT ![BucketKey(r, p)] = [of |-> r, at |-> clock]]
  BY DEF SetBucket, Envelope
<1>3. bucket' \in [Key -> Entry \cup {NoEntry}]
  BY <1>1, <1>2 DEF DirectoryTypeOK
<1>4. ASSUME NEW x \in Refresh, NEW q \in Prefix
      PROVE  bucket'[BucketKey(x, q)] =
                 IF x = r /\ q = p THEN [of |-> r, at |-> clock] ELSE bucket[BucketKey(x, q)]
  BY <1>2, KeysTyped DEF DirectoryTypeOK
<1>5. clock \in Nat
  BY DEF DirectoryTypeOK
<1>6. BucketsOwned'
  BY <1>4, <1>5 DEF BucketsOwned
<1> QED
  BY <1>3, <1>4, <1>6

\* What a settled run has written stays, its records too, and it stays settled.
LEMMA SettledStays ==
    ASSUME DirectoryInv, [Next]_vars, NEW r \in Refresh, Settled(r)
    PROVE  /\ step'[r] = step[r] /\ records'[r] = records[r]
           /\ \A p \in Prefix : bucket'[BucketKey(r, p)] = bucket[BucketKey(r, p)]
<1>1. DirectoryTypeOK /\ BucketsOwned /\ step[r] \in {"refreshed", "failed"}
  BY DEF DirectoryInv, Settled
<1>2. ASSUME NEW x \in Refresh, Load(x) \/ WriteManifest(x)
      PROVE  step'[r] = step[r] /\ records'[r] = records[r] /\ UNCHANGED bucket
  <2>1. x # r
    BY <1>1, <1>2 DEF Load, WriteManifest
  <2> QED
    BY <1>1, <1>2, <2>1 DEF Load, WriteManifest, SetManifest, cacheVars, DirectoryTypeOK
<1>3. ASSUME NEW x \in Refresh, WriteBucket(x) \/ RefreshFails(x)
      PROVE  /\ step'[r] = step[r] /\ records'[r] = records[r]
             /\ \A p \in Prefix : bucket'[BucketKey(r, p)] = bucket[BucketKey(r, p)]
  <2>1. x # r
    BY <1>1, <1>3 DEF WriteBucket, RefreshFails
  <2>2. step'[r] = step[r] /\ records'[r] = records[r] /\ UNCHANGED clock
    BY <1>1, <1>3, <2>1 DEF WriteBucket, RefreshFails, DirectoryTypeOK
  <2>3. UNCHANGED bucket \/ SetBucket(x, NextBucket(x))
    BY <1>3 DEF WriteBucket, RefreshFails, cacheVars
  <2> QED
    BY <1>1, <2>1, <2>2, <2>3, SetBucketEffect
<1>4. CASE ManifestArrives \/ Tick \/ UNCHANGED vars
  BY <1>4 DEF ManifestArrives, SetManifest, Tick, vars, refreshVars, cacheVars
<1>5. ASSUME NEW s \in Search, Ask(s) \/ ReadManifest(s) \/ ReadBucket(s) \/ SearchFails(s)
      PROVE  UNCHANGED <<step, records, bucket>>
  BY <1>5 DEF Ask, ReadManifest, ReadBucket, SearchFails, refreshVars, cacheVars
<1> QED
  BY <1>2, <1>3, <1>4, <1>5 DEF Next

\* What the manifest has promised stays, and so does what a manifest on its way
\* will promise.
LEMMA PromisesStay ==
    ASSUME DirectoryInv, [Next]_vars, clock' \in Nat, clock <= clock'
    PROVE  /\ \A entry \in late :
                 /\ entry.at <= clock' /\ step'[entry.of] = "failed"
                 /\ Complete(entry.of)' /\ Promises(entry)'
           /\ UNCHANGED manifest =>
                 /\ manifest' # NoEntry => /\ manifest'.at <= clock'
                                          /\ Settled(manifest.of)' /\ Complete(manifest.of)'
                 /\ PromisesKept'
<1>1. DirectoryTypeOK /\ ManifestsComplete /\ PromisesKept
  BY DEF DirectoryInv
<1>2. ASSUME NEW r \in Refresh, Settled(r), Complete(r)
      PROVE  /\ step'[r] = step[r] /\ records'[r] = records[r] /\ BucketsOf(records[r]) \subseteq Prefix
             /\ \A p \in BucketsOf(records[r]) : bucket'[BucketKey(r, p)] = bucket[BucketKey(r, p)]
             /\ \A p \in BucketsOf(records'[r]) : bucket'[BucketKey(r, p)].of = r
  <2>1. BucketsOf(records[r]) \subseteq Prefix
    BY <1>1, DirectoriesTyped DEF DirectoryTypeOK
  <2> QED
    BY <1>2, <2>1, SettledStays DEF Complete, Written
<1>3. ASSUME NEW entry \in late
      PROVE  /\ entry.at <= clock' /\ step'[entry.of] = "failed"
             /\ Complete(entry.of)' /\ Promises(entry)'
  <2> DEFINE r == entry.of
  <2>1. r \in Refresh /\ entry.at \in Nat /\ clock \in Nat
    BY <1>1, EntriesTyped DEF DirectoryTypeOK
  <2>2. entry.at <= clock /\ step[r] = "failed" /\ Settled(r) /\ Complete(r) /\ Promises(entry)
    BY <1>1 DEF ManifestsComplete, Settled
  <2>3. entry.at <= clock'
    BY <2>1, <2>2
  <2> HIDE DEF r
  <2>4. /\ step'[r] = step[r] /\ records'[r] = records[r]
        /\ \A p \in BucketsOf(records[r]) : bucket'[BucketKey(r, p)] = bucket[BucketKey(r, p)]
        /\ \A p \in BucketsOf(records'[r]) : bucket'[BucketKey(r, p)].of = r
    BY <1>2, <2>1, <2>2
  <2>5. Promises(entry)'
    BY <2>2, <2>4 DEF Promises, r
  <2> QED
    BY <2>2, <2>3, <2>4, <2>5 DEF Complete, Written, r
<1>4. ASSUME UNCHANGED manifest, manifest # NoEntry
      PROVE  /\ manifest'.at <= clock' /\ Settled(manifest.of)' /\ Complete(manifest.of)'
             /\ PromisesKept'
  <2> DEFINE r == manifest.of
  <2>1. r \in Refresh /\ manifest.at \in Nat
    BY <1>1, <1>4, EntriesTyped DEF DirectoryTypeOK
  <2>2. manifest.at <= clock /\ clock \in Nat /\ Settled(r) /\ Complete(r)
    BY <1>1, <1>4 DEF ManifestsComplete, DirectoryTypeOK
  <2>3. manifest'.at <= clock' /\ manifest'.of = r
    BY <1>4, <2>1, <2>2
  <2> HIDE DEF r
  <2>4. /\ step'[r] = step[r] /\ records'[r] = records[r] /\ BucketsOf(records[r]) \subseteq Prefix
        /\ \A p \in BucketsOf(records[r]) : bucket'[BucketKey(r, p)] = bucket[BucketKey(r, p)]
        /\ \A p \in BucketsOf(records'[r]) : bucket'[BucketKey(r, p)].of = r
    BY <1>2, <2>1, <2>2
  <2>5. Settled(manifest.of)' /\ Complete(manifest.of)'
    BY <2>2, <2>3, <2>4 DEF Settled, Complete, Written
  <2>6. PromisesKept'
    BY <1>1, <1>4, <2>3, <2>4 DEF PromisesKept, r
  <2> QED
    BY <2>3, <2>5, <2>6
<1>5. UNCHANGED manifest /\ manifest = NoEntry => PromisesKept'
  BY DEF PromisesKept
<1> QED
  BY <1>3, <1>4, <1>5

\* A manifest is set for a complete generation: every bucket was written earlier.
LEMMA SetManifestPromises ==
    ASSUME DirectoryInv, NEW entry \in Entry, entry.at <= clock, Complete(entry.of),
           Promises(entry), SetManifest(entry), UNCHANGED <<clock, records>>,
           step'[entry.of] \in {"refreshed", "failed"}
    PROVE  /\ manifest' \in Entry /\ manifest'.at <= clock'
           /\ Settled(manifest.of)' /\ Complete(manifest.of)' /\ PromisesKept'
<1>1. manifest' = entry /\ UNCHANGED <<bucket, records, clock>>
  BY DEF SetManifest
<1>2. Settled(manifest.of)' /\ Complete(manifest.of)'
  BY <1>1 DEF Settled, Complete, Written
<1>3. PromisesKept'
  BY <1>1 DEF PromisesKept, Promises, Complete, Written
<1> QED
  BY <1>1, <1>2, <1>3

\* What a run sends when its last bucket is written is such a manifest.
LEMMA EnvelopePromises ==
    ASSUME DirectoryInv, NEW r \in Refresh, Complete(r)
    PROVE  /\ Envelope(r) \in Entry /\ Envelope(r).of = r /\ Envelope(r).at = clock
           /\ Promises(Envelope(r))
<1>1. Envelope(r) \in Entry /\ Envelope(r).of = r /\ Envelope(r).at = clock
  BY EntriesTyped DEF Envelope, DirectoryInv, DirectoryTypeOK
<1>2. ASSUME NEW p \in BucketsOf(records[r]) PROVE bucket[BucketKey(r, p)].at <= clock
  <2>1. p \in Prefix
    BY DirectoriesTyped DEF DirectoryInv, DirectoryTypeOK
  <2> QED
    BY <2>1 DEF DirectoryInv, BucketsOwned
<1> QED
  BY <1>1, <1>2 DEF Promises

LEMMA LoadStep == ASSUME DirectoryInv, [Next]_vars, NEW r \in Refresh, Load(r) PROVE DirectoryInv'
<1>1. DirectoryTypeOK /\ BucketsOwned /\ RunsProgress /\ step[r] = "load" /\ clock \in Nat
  BY DEF DirectoryInv, Load, DirectoryTypeOK
<1>2. UNCHANGED <<clock, bucket, manifest, late>>
  BY DEF Load, cacheVars
<1>3. PICK rows \in Payload :
          /\ records' = [records EXCEPT ![r] = ParsePayload(rows)]
          /\ unwritten' = [unwritten EXCEPT ![r] = BucketsOf(ParsePayload(rows))]
          /\ step' = [step EXCEPT ![r] = "buckets"]
  BY DEF Load
<1>4. ParsePayload(rows) \in Directories /\ BucketsOf(ParsePayload(rows)) \subseteq Prefix
  BY DirectoriesTyped DEF Directories
<1>5. DirectoryTypeOK'
  BY <1>1, <1>2, <1>3, <1>4 DEF DirectoryTypeOK
<1>6. BucketsOwned'
  BY <1>1, <1>2 DEF BucketsOwned
<1>7. RunsProgress'
  <2> SUFFICES ASSUME NEW x \in Refresh
               PROVE  /\ step'[x] = "buckets" =>
                            \A p \in BucketsOf(records'[x]) \ unwritten'[x] : Written(x, p)'
                      /\ step'[x] \in {"manifest", "refreshed"} => Complete(x)'
    BY DEF RunsProgress
  <2>1. CASE x = r
    BY <1>1, <1>3, <2>1 DEF DirectoryTypeOK
  <2>2. CASE x # r
    BY <1>1, <1>2, <1>3, <2>2 DEF DirectoryTypeOK, RunsProgress, Complete, Written
  <2> QED
    BY <2>1, <2>2
<1> QED
  BY <1>1, <1>2, <1>5, <1>6, <1>7, PromisesStay DEF DirectoryInv, ManifestsComplete

LEMMA WriteBucketStep ==
    ASSUME DirectoryInv, [Next]_vars, NEW r \in Refresh, WriteBucket(r) PROVE DirectoryInv'
<1> DEFINE next == NextBucket(r)
<1>1. DirectoryTypeOK /\ BucketsOwned /\ RunsProgress /\ step[r] = "buckets" /\ clock \in Nat
  BY DEF DirectoryInv, WriteBucket, DirectoryTypeOK
<1>2. /\ UNCHANGED <<clock, manifest, late, records>> /\ SetBucket(r, next)
      /\ unwritten' = [unwritten EXCEPT ![r] = @ \ {next}]
      /\ step' = [step EXCEPT ![r] = IF unwritten'[r] = {} THEN "manifest" ELSE "buckets"]
  BY DEF WriteBucket, SetBucket
<1> HIDE DEF next
<1>3. /\ bucket' \in [Key -> Entry \cup {NoEntry}] /\ BucketsOwned'
      /\ \A x \in Refresh, q \in Prefix :
            bucket'[BucketKey(x, q)] =
                IF x = r /\ q = next THEN [of |-> r, at |-> clock] ELSE bucket[BucketKey(x, q)]
  BY <1>1, <1>2, SetBucketEffect
<1>4. DirectoryTypeOK'
  BY <1>1, <1>2, <1>3 DEF DirectoryTypeOK
<1>5. \A x \in Refresh, p \in Prefix : Written(x, p) => Written(x, p)'
  BY <1>3 DEF Written
<1>6. \A x \in Refresh : BucketsOf(records[x]) \subseteq Prefix
  BY <1>1, DirectoriesTyped DEF DirectoryTypeOK
<1>7. RunsProgress'
  <2> SUFFICES ASSUME NEW x \in Refresh
               PROVE  /\ step'[x] = "buckets" =>
                            \A p \in BucketsOf(records'[x]) \ unwritten'[x] : Written(x, p)'
                      /\ step'[x] \in {"manifest", "refreshed"} => Complete(x)'
    BY DEF RunsProgress
  <2>1. CASE x = r
    <3>1. \A p \in BucketsOf(records[r]) \ unwritten'[r] : Written(r, p)'
      <4> TAKE p \in BucketsOf(records[r]) \ unwritten'[r]
      <4>1. p \in Prefix /\ (p = next \/ p \notin unwritten[r])
        BY <1>1, <1>2, <1>6 DEF DirectoryTypeOK
      <4>2. CASE p = next
        BY <1>3, <4>1, <4>2 DEF Written
      <4>3. CASE p \notin unwritten[r]
        BY <1>1, <1>5, <4>1, <4>3 DEF RunsProgress
      <4> QED
        BY <4>1, <4>2, <4>3
    <3>2. step'[r] = IF unwritten'[r] = {} THEN "manifest" ELSE "buckets"
      BY <1>1, <1>2 DEF DirectoryTypeOK
    <3> QED
      BY <1>2, <2>1, <3>1, <3>2 DEF Complete
  <2>2. CASE x # r
    <3>1. step'[x] = step[x] /\ unwritten'[x] = unwritten[x] /\ records'[x] = records[x]
      BY <1>1, <1>2, <2>2 DEF DirectoryTypeOK
    <3> QED
      BY <1>1, <1>5, <1>6, <3>1 DEF RunsProgress, Complete
  <2> QED
    BY <2>1, <2>2
<1> QED
  BY <1>1, <1>2, <1>3, <1>4, <1>7, PromisesStay DEF DirectoryInv, ManifestsComplete

LEMMA WriteManifestStep ==
    ASSUME DirectoryInv, [Next]_vars, NEW r \in Refresh, WriteManifest(r) PROVE DirectoryInv'
<1>1. DirectoryTypeOK /\ BucketsOwned /\ RunsProgress /\ step[r] = "manifest" /\ clock \in Nat
  BY DEF DirectoryInv, WriteManifest, DirectoryTypeOK
<1>2. /\ UNCHANGED <<clock, bucket, late, records, unwritten>> /\ SetManifest(Envelope(r))
      /\ step' = [step EXCEPT ![r] = "refreshed"] /\ Complete(r)
  BY <1>1 DEF WriteManifest, SetManifest, RunsProgress
<1>3. step'[r] = "refreshed" /\ \A x \in Refresh \ {r} : step'[x] = step[x]
  BY <1>1, <1>2 DEF DirectoryTypeOK
<1>4. /\ manifest' \in Entry /\ manifest'.at <= clock'
      /\ Settled(manifest.of)' /\ Complete(manifest.of)' /\ PromisesKept'
  <2>1. /\ Envelope(r) \in Entry /\ Envelope(r).of = r /\ Envelope(r).at = clock
        /\ Promises(Envelope(r))
    BY <1>2, EnvelopePromises
  <2>2. Envelope(r).at <= clock
    BY <1>1, <2>1
  <2> QED
    BY <1>2, <1>3, <2>1, <2>2, SetManifestPromises
<1>5. DirectoryTypeOK'
  BY <1>1, <1>2, <1>4 DEF DirectoryTypeOK
<1>6. BucketsOwned'
  BY <1>1, <1>2 DEF BucketsOwned
<1>7. \A x \in Refresh : Complete(x)' <=> Complete(x)
  BY <1>2 DEF Complete, Written
<1>8. RunsProgress'
  <2>1. \A x \in Refresh : step'[x] = "buckets" =>
            \A p \in BucketsOf(records[x]) \ unwritten[x] : Written(x, p)'
    BY <1>1, <1>2, <1>3 DEF RunsProgress, Written
  <2>2. \A x \in Refresh : step'[x] \in {"manifest", "refreshed"} => Complete(x)'
    BY <1>1, <1>2, <1>3, <1>7 DEF RunsProgress
  <2> QED
    BY <1>2, <2>1, <2>2 DEF RunsProgress
<1> QED
  BY <1>1, <1>2, <1>4, <1>5, <1>6, <1>8, PromisesStay DEF DirectoryInv, ManifestsComplete

LEMMA RefreshFailsStep ==
    ASSUME DirectoryInv, [Next]_vars, NEW r \in Refresh, RefreshFails(r) PROVE DirectoryInv'
<1>1. DirectoryTypeOK /\ BucketsOwned /\ RunsProgress /\ clock \in Nat
  BY DEF DirectoryInv, DirectoryTypeOK
<1>2. /\ UNCHANGED <<clock, manifest, records>>
      /\ step' = [step EXCEPT ![r] = "failed"] /\ unwritten' = [unwritten EXCEPT ![r] = {}]
      /\ UNCHANGED bucket \/ SetBucket(r, NextBucket(r))
      /\ \/ late' = late
         \/ step[r] = "manifest" /\ late' = late \cup {Envelope(r)} /\ UNCHANGED bucket
  BY DEF RefreshFails, cacheVars, SetBucket
<1>3. /\ bucket' \in [Key -> Entry \cup {NoEntry}] /\ BucketsOwned'
      /\ \A x \in Refresh, p \in Prefix : Written(x, p) => Written(x, p)'
  <2>1. CASE UNCHANGED bucket
    <3>1. bucket' \in [Key -> Entry \cup {NoEntry}]
      BY <1>1, <2>1 DEF DirectoryTypeOK
    <3>2. BucketsOwned'
      BY <1>1, <1>2, <2>1 DEF BucketsOwned
    <3>3. \A x \in Refresh, p \in Prefix : Written(x, p) => Written(x, p)'
      BY <2>1 DEF Written
    <3> QED
      BY <3>1, <3>2, <3>3
  <2>2. CASE SetBucket(r, NextBucket(r))
    <3>1. /\ bucket' \in [Key -> Entry \cup {NoEntry}] /\ BucketsOwned'
          /\ \A x \in Refresh, q \in Prefix :
                bucket'[BucketKey(x, q)] = IF x = r /\ q = NextBucket(r)
                                           THEN [of |-> r, at |-> clock]
                                           ELSE bucket[BucketKey(x, q)]
      BY <1>1, <1>2, <2>2, SetBucketEffect
    <3>2. \A x \in Refresh, p \in Prefix : Written(x, p) => Written(x, p)'
      BY <3>1 DEF Written
    <3> QED
      BY <3>1, <3>2
  <2> QED
    BY <1>2, <2>1, <2>2
<1>4. DirectoryTypeOK'
  <2>1. Envelope(r) \in Entry
    BY <1>1, EntriesTyped DEF Envelope, DirectoryTypeOK
  <2> QED
    BY <1>1, <1>2, <1>3, <2>1 DEF DirectoryTypeOK
<1>5. \A x \in Refresh : BucketsOf(records[x]) \subseteq Prefix
  BY <1>1, DirectoriesTyped DEF DirectoryTypeOK
<1>6. \A x \in Refresh : Complete(x) => Complete(x)'
  BY <1>2, <1>3, <1>5 DEF Complete
<1>7. step'[r] = "failed" /\ \A x \in Refresh \ {r} : step'[x] = step[x] /\ unwritten'[x] = unwritten[x]
  BY <1>1, <1>2 DEF DirectoryTypeOK
<1>8. RunsProgress'
  <2>1. \A x \in Refresh : step'[x] = "buckets" =>
            \A p \in BucketsOf(records[x]) \ unwritten'[x] : Written(x, p)'
    BY <1>1, <1>3, <1>5, <1>7 DEF RunsProgress
  <2>2. \A x \in Refresh : step'[x] \in {"manifest", "refreshed"} => Complete(x)'
    BY <1>1, <1>6, <1>7 DEF RunsProgress
  <2> QED
    BY <1>2, <2>1, <2>2 DEF RunsProgress
<1>9. ASSUME NEW entry \in late'
      PROVE  /\ entry.at <= clock' /\ step'[entry.of] = "failed"
             /\ Complete(entry.of)' /\ Promises(entry)'
  <2>1. CASE entry \in late
    BY <1>1, <1>2, <2>1, PromisesStay
  <2>2. CASE entry = Envelope(r) /\ step[r] = "manifest" /\ UNCHANGED bucket
    <3>1. Complete(r) /\ Complete(r)'
      BY <1>1, <1>6, <2>2 DEF RunsProgress
    <3>2. entry.of = r /\ entry.at = clock /\ Promises(entry)
      BY <2>2, <3>1, EnvelopePromises
    <3>3. Promises(entry)'
      BY <1>2, <2>2, <3>2 DEF Promises
    <3> QED
      BY <1>1, <1>2, <1>7, <3>1, <3>2, <3>3
  <2> QED
    BY <1>2, <1>9, <2>1, <2>2
<1> QED
  BY <1>1, <1>2, <1>3, <1>4, <1>8, <1>9, PromisesStay DEF DirectoryInv, ManifestsComplete

LEMMA ManifestArrivesStep ==
    ASSUME DirectoryInv, [Next]_vars, ManifestArrives PROVE DirectoryInv'
<1>1. DirectoryTypeOK /\ BucketsOwned /\ RunsProgress /\ clock \in Nat
  BY DEF DirectoryInv, DirectoryTypeOK
<1>2. PICK entry \in late : SetManifest(entry) /\ late' = late \ {entry}
  BY DEF ManifestArrives
<1>3. UNCHANGED <<clock, bucket, records, step, unwritten>>
  BY DEF ManifestArrives, SetManifest
<1>4. /\ entry \in Entry /\ entry.at <= clock /\ Complete(entry.of) /\ Promises(entry)
      /\ step'[entry.of] = "failed"
  BY <1>1, <1>2, <1>3 DEF DirectoryInv, ManifestsComplete, DirectoryTypeOK
<1>5. /\ manifest' \in Entry /\ manifest'.at <= clock'
      /\ Settled(manifest.of)' /\ Complete(manifest.of)' /\ PromisesKept'
  BY <1>2, <1>3, <1>4, SetManifestPromises
<1>6. DirectoryTypeOK'
  BY <1>1, <1>2, <1>3, <1>5 DEF DirectoryTypeOK
<1>7. BucketsOwned' /\ RunsProgress'
  BY <1>1, <1>3 DEF BucketsOwned, RunsProgress, Complete, Written
<1> QED
  BY <1>1, <1>2, <1>3, <1>5, <1>6, <1>7, PromisesStay DEF DirectoryInv, ManifestsComplete

LEMMA DirectoryInvNext == DirectoryInv /\ [Next]_vars => DirectoryInv'
<1> SUFFICES ASSUME DirectoryInv, [Next]_vars PROVE DirectoryInv'
  OBVIOUS
<1>1. ASSUME UNCHANGED <<cacheVars, refreshVars>>, clock' \in 0..MaxClock, clock <= clock'
      PROVE  DirectoryInv'
  <2>1. /\ UNCHANGED <<bucket, manifest, records, step, unwritten, late>>
        /\ DirectoryTypeOK /\ clock \in Nat /\ clock' \in Nat
    BY <1>1 DEF cacheVars, refreshVars, DirectoryInv, DirectoryTypeOK
  <2>2. DirectoryTypeOK'
    BY <1>1, <2>1 DEF DirectoryTypeOK
  <2>3. BucketsOwned'
    <3> SUFFICES ASSUME NEW r \in Refresh, NEW p \in Prefix
                 PROVE  LET entry == bucket[BucketKey(r, p)]
                        IN  entry.of \in {r, None} /\ entry.at <= clock'
      BY <2>1 DEF BucketsOwned
    <3>1. bucket[BucketKey(r, p)] \in Entry \cup {NoEntry}
      BY <2>1, KeysTyped DEF DirectoryTypeOK
    <3>2. bucket[BucketKey(r, p)].at \in Nat
      BY <3>1, EntriesTyped
    <3> QED
      BY <1>1, <2>1, <3>2 DEF DirectoryInv, BucketsOwned
  <2>4. RunsProgress'
    BY <2>1 DEF DirectoryInv, RunsProgress, Complete, Written
  <2> QED
    BY <1>1, <2>1, <2>2, <2>3, <2>4, PromisesStay DEF DirectoryInv, ManifestsComplete
<1>2. CASE Tick
  BY <1>1, <1>2, DirectoryAssumption DEF Tick, DirectoryInv, DirectoryTypeOK
<1>3. CASE UNCHANGED vars
  BY <1>1, <1>3 DEF vars, DirectoryInv, DirectoryTypeOK
<1>4. ASSUME NEW s \in Search, Ask(s) \/ ReadManifest(s) \/ ReadBucket(s) \/ SearchFails(s)
      PROVE  DirectoryInv'
  <2>1. UNCHANGED <<clock, cacheVars, refreshVars>>
    BY <1>4 DEF Ask, ReadManifest, ReadBucket, SearchFails
  <2> QED
    BY <1>1, <2>1 DEF DirectoryInv, DirectoryTypeOK
<1> QED
  BY <1>2, <1>3, <1>4, LoadStep, WriteBucketStep, WriteManifestStep, RefreshFailsStep,
     ManifestArrivesStep DEF Next

LEMMA DirectoryInvariant == Spec => []DirectoryInv
  BY DirectoryInvInit, DirectoryInvNext, PTL DEF Spec

Settles ==
    \A r \in Refresh : Settled(r) =>
        /\ Settled(r)'
        /\ records'[r] = records[r]
        /\ \A p \in Prefix : bucket'[BucketKey(r, p)] = bucket[BucketKey(r, p)]

\* A run that has ended leaves its generation as it is, whatever other runs do and
\* whatever arrives late: what a search reads one bucket at a time cannot change
\* under it (_generation_bucket_cache_key).
THEOREM GenerationsStay == Spec => [][Settles]_vars
<1>1. DirectoryInv /\ [Next]_vars => [Settles]_vars
  BY SettledStays DEF Settles, Settled
<1> QED
  BY <1>1, DirectoryInvariant, PTL DEF Spec

\* PromisesKept: whatever fails or arrives late, a manifest promises only buckets
\* that its own run has written before it (refresh_directory).
THEOREM ManifestPromisesKept == Spec => []PromisesKept
<1>1. DirectoryInv => PromisesKept
  BY DEF DirectoryInv
<1> QED
  BY <1>1, DirectoryInvariant, PTL

(***************************************************************************)
(* The steps of a search.                                                  *)
(***************************************************************************)
\* What a query finds in its buckets are the matches that the index can find.
LEMMA HeldMatches ==
    ASSUME NEW r, records[r] \in SUBSET Record, NEW q \in Text
    PROVE  Matches(Held(r, Relevant(q, r)), q)
               = Matches({record \in records[r] : Reachable(record, q)}, q)
<1>1. ASSUME NEW record \in records[r]
      PROVE  record \in Held(r, Relevant(q, r)) <=>
                 \E p \in QueryPrefixes(q) : p \in RecordPrefixes(record)
  BY DEF Held, Bucket, Relevant, BucketsOf
<1>2. Held(r, Relevant(q, r)) \subseteq records[r]
  BY DEF Held, Bucket
<1>3. \A record \in records[r] :
          Score(record, q) < 9 =>
              (record \in Held(r, Relevant(q, r)) <=> Reachable(record, q))
  BY <1>1, IndexFindsReachable
<1> QED
  BY <1>2, <1>3 DEF Matches

LEMMA SearchInvInit == Init => SearchInv
  BY DEF Init, SearchInv, SearchTypeOK, Searching

\* A search that does not move sees its generation as before.
LEMMA SearchStays ==
    ASSUME DirectoryInv, SearchTypeOK, [Next]_vars, NEW s \in Search, Searching(s),
           pc'[s] = pc[s], query'[s] = query[s], active'[s] = active[s], unread'[s] = unread[s],
           found'[s] = found[s], stale'[s] = stale[s], asked'[s] = asked[s],
           answer'[s] = answer[s], clock' \in Nat, clock <= clock'
    PROVE  Searching(s)'
<1> DEFINE r == active[s]
           relevant == Relevant(query[s], r)
<1>1. clock \in Nat /\ asked[s] \in Nat
  BY DEF DirectoryInv, DirectoryTypeOK, SearchTypeOK
<1>2. pc'[s] # "idle" => query'[s] \in Query /\ asked'[s] <= clock'
  BY <1>1 DEF Searching
<1>3. CASE pc[s] \in {"buckets", "answered"}
  <2>1. r \in Refresh /\ Settled(r)
    BY <1>3 DEF Searching
  <2>2. /\ step'[r] = step[r] /\ records'[r] = records[r]
        /\ \A p \in Prefix : bucket'[BucketKey(r, p)] = bucket[BucketKey(r, p)]
    BY <2>1, SettledStays
  <2>3. relevant \subseteq Prefix
    BY <2>1, DirectoriesTyped DEF Relevant, DirectoryInv, DirectoryTypeOK
  <2>4. Settled(active[s])' /\ active'[s] \in Refresh
    BY <2>1, <2>2 DEF Settled
  <2>5. Relevant(query[s], active[s])' = relevant
    BY <2>2 DEF Relevant
  <2>6. ASSUME NEW some \in SUBSET relevant
        PROVE  UNION {Bucket(records'[active'[s]], p) : p \in some} = Held(r, some)
    BY <2>2 DEF Held
  <2>7. ASSUME NEW some \in SUBSET relevant
        PROVE  (\A p \in some : asked'[s] < bucket'[BucketKey(active'[s], p)].at + Ttl)
                   <=> FreshFor(s, some)
    BY <2>2, <2>3 DEF FreshFor
  <2>8. pc'[s] = "buckets" =>
            /\ unread'[s] # {} /\ unread'[s] \subseteq Relevant(query[s], active[s])'
            /\ found'[s] = Held(active[s], Relevant(query[s], active[s]) \ unread[s])'
            /\ ~stale'[s] => FreshFor(s, Relevant(query[s], active[s]) \ unread[s])'
    <3> SUFFICES ASSUME pc[s] = "buckets"
                 PROVE  /\ unread[s] # {} /\ unread[s] \subseteq relevant
                        /\ found[s] = Held(active[s], Relevant(query[s], active[s]) \ unread[s])'
                        /\ ~stale[s] => FreshFor(s, Relevant(query[s], active[s]) \ unread[s])'
      BY <2>5
    <3> DEFINE rest == relevant \ unread[s]
    <3>1. /\ unread[s] # {} /\ unread[s] \subseteq relevant
          /\ found[s] = Held(r, rest) /\ (~stale[s] => FreshFor(s, rest))
      BY DEF Searching
    <3>2. /\ Held(active[s], Relevant(query[s], active[s]) \ unread[s])'
                = UNION {Bucket(records'[active'[s]], p) : p \in rest}
          /\ FreshFor(s, Relevant(query[s], active[s]) \ unread[s])'
                <=> \A p \in rest : asked'[s] < bucket'[BucketKey(active'[s], p)].at + Ttl
      BY <2>5 DEF Held, FreshFor
    <3>3. rest \in SUBSET relevant
      OBVIOUS
    <3> HIDE DEF rest
    <3> QED
      BY <2>6, <2>7, <3>1, <3>2, <3>3
  <2>9. pc'[s] = "answered" =>
            /\ answer'[s] = Top(Rank(Held(active[s], Relevant(query[s], active[s])), query[s]), Limit)'
            /\ ~stale'[s] => FreshFor(s, Relevant(query[s], active[s]))'
    <3> SUFFICES ASSUME pc[s] = "answered"
                 PROVE  /\ answer[s] = Top(Rank(Held(active[s], Relevant(query[s], active[s])), query[s]), Limit)'
                        /\ ~stale[s] => FreshFor(s, Relevant(query[s], active[s]))'
      OBVIOUS
    <3>1. /\ answer[s] = Top(Rank(Held(r, relevant), query[s]), Limit)
          /\ ~stale[s] => FreshFor(s, relevant)
      BY DEF Searching
    <3>2. /\ Held(active[s], Relevant(query[s], active[s]))'
                = UNION {Bucket(records'[active'[s]], p) : p \in relevant}
          /\ FreshFor(s, Relevant(query[s], active[s]))'
                <=> \A p \in relevant : asked'[s] < bucket'[BucketKey(active'[s], p)].at + Ttl
      BY <2>5 DEF Held, FreshFor
    <3>3. Held(active[s], Relevant(query[s], active[s]))' = Held(r, relevant)
      BY <2>6, <3>2
    <3> QED
      BY <2>7, <3>1, <3>2, <3>3
  <2> QED
    BY <1>2, <2>4, <2>8, <2>9 DEF Searching
<1>4. CASE pc[s] \notin {"buckets", "answered"}
  BY <1>2, <1>4 DEF Searching
<1> QED
  BY <1>3, <1>4

SearchStep(s) == Ask(s) \/ ReadManifest(s) \/ ReadBucket(s) \/ SearchFails(s)

\* One search moves: nothing else does.
LEMMA OneSearchMoves ==
    ASSUME DirectoryInv, SearchInv, [Next]_vars, NEW s \in Search, SearchStep(s)
    PROVE  /\ UNCHANGED <<clock, bucket, manifest, records, step>>
           /\ SearchTypeOK'
           /\ \A x \in Search \ {s} : Searching(x)'
<1>1. UNCHANGED <<clock, bucket, manifest, records, step>>
  BY DEF SearchStep, Ask, ReadManifest, ReadBucket, SearchFails, cacheVars, refreshVars
<1>2. SearchTypeOK /\ clock \in Nat
  BY DEF SearchInv, DirectoryInv, DirectoryTypeOK
<1>3. /\ stale' = [stale EXCEPT ![s] = stale'[s]] /\ stale'[s] \in BOOLEAN
      /\ asked' = [asked EXCEPT ![s] = asked'[s]] /\ asked'[s] \in Nat
  <2>1. CASE Ask(s)
    BY <1>2, <2>1 DEF Ask, SearchTypeOK
  <2>2. CASE ReadManifest(s)
    <3>1. stale' = [stale EXCEPT ![s] = ~Fresh(manifest)] \/ stale' = stale
      BY <2>2 DEF ReadManifest, Answers
    <3>2. (~Fresh(manifest)) \in BOOLEAN
      BY DEF Fresh
    <3>3. stale' = [stale EXCEPT ![s] = stale'[s]] /\ stale'[s] \in BOOLEAN
      BY <1>2, <3>1, <3>2, Zenon DEF SearchTypeOK
    <3> QED
      BY <1>2, <2>2, <3>3 DEF ReadManifest, SearchTypeOK
  <2>3. CASE ReadBucket(s)
    <3> DEFINE read == StaleRead(s, ReadsFrom(s, First(unread[s])))
    <3>1. stale' = [stale EXCEPT ![s] = read] \/ stale' = stale
      BY <2>3 DEF ReadBucket, Answers
    <3>2. read \in BOOLEAN
      BY DEF StaleRead
    <3> HIDE DEF read
    <3>3. stale' = [stale EXCEPT ![s] = stale'[s]] /\ stale'[s] \in BOOLEAN
      BY <1>2, <3>1, <3>2, Zenon DEF SearchTypeOK
    <3> QED
      BY <1>2, <2>3, <3>3 DEF ReadBucket, SearchTypeOK
  <2>4. CASE SearchFails(s)
    BY <1>2, <2>4 DEF SearchFails, SearchTypeOK
  <2> QED
    BY <2>1, <2>2, <2>3, <2>4 DEF SearchStep
<1>4. /\ pc' = [pc EXCEPT ![s] = pc'[s]]
      /\ pc'[s] \in {"idle", "manifest", "buckets", "answered", "unavailable", "missing"}
  BY <1>2 DEF SearchStep, Ask, ReadManifest, ReadBucket, SearchFails, Answers, Finishes, SearchTypeOK
<1>5. query' = [query EXCEPT ![s] = query'[s]] /\ active' = [active EXCEPT ![s] = active'[s]]
  <2>1. query' = query \/ \E q \in Query : query' = [query EXCEPT ![s] = q]
    BY DEF SearchStep, Ask, ReadManifest, ReadBucket, SearchFails
  <2>2. active' = active \/ active' = [active EXCEPT ![s] = manifest.of]
    BY DEF SearchStep, Ask, ReadManifest, ReadBucket, SearchFails, Answers, Finishes
  <2> QED
    BY <1>2, <2>1, <2>2 DEF SearchTypeOK
<1>6. /\ unread' = [unread EXCEPT ![s] = unread'[s]] /\ found' = [found EXCEPT ![s] = found'[s]]
      /\ answer' = [answer EXCEPT ![s] = answer'[s]]
  <2>1. /\ unread' = unread \/ \E some : unread' = [unread EXCEPT ![s] = some]
        /\ found' = found \/ \E some : found' = [found EXCEPT ![s] = some]
        /\ answer' = answer \/ \E some : answer' = [answer EXCEPT ![s] = some]
    BY DEF SearchStep, Ask, ReadManifest, ReadBucket, SearchFails, Answers, Finishes
  <2> QED
    BY <1>2, <2>1 DEF SearchTypeOK
<1>7. SearchTypeOK'
  BY <1>2, <1>3, <1>4, <1>5, <1>6 DEF SearchTypeOK
<1>8. ASSUME NEW x \in Search \ {s} PROVE Searching(x)'
  <2>1. /\ pc'[x] = pc[x] /\ query'[x] = query[x] /\ active'[x] = active[x]
        /\ unread'[x] = unread[x] /\ found'[x] = found[x] /\ stale'[x] = stale[x]
        /\ asked'[x] = asked[x] /\ answer'[x] = answer[x]
    BY <1>2, <1>3, <1>4, <1>5, <1>6 DEF SearchTypeOK
  <2>2. clock' \in Nat /\ clock <= clock'
    BY <1>1, <1>2
  <2> QED
    BY <1>2, <2>1, <2>2, SearchStays DEF SearchInv
<1> QED
  BY <1>1, <1>7, <1>8

LEMMA AskStep ==
    ASSUME DirectoryInv, SearchInv, [Next]_vars, NEW s \in Search, Ask(s)
    PROVE  Searching(s)'
<1>1. UNCHANGED <<clock, bucket, manifest, records, step>>
  BY OneSearchMoves DEF SearchStep
<1>2. SearchTypeOK /\ Searching(s) /\ clock \in Nat
  BY DEF SearchInv, DirectoryInv, DirectoryTypeOK
<1>3. pc'[s] = "manifest" /\ query'[s] \in Query /\ asked'[s] = clock /\ found'[s] = {}
  BY <1>2 DEF Ask, SearchTypeOK, Searching
<1> QED
  BY <1>1, <1>2, <1>3 DEF Searching

LEMMA SearchFailsStep ==
    ASSUME DirectoryInv, SearchInv, [Next]_vars, NEW s \in Search, SearchFails(s)
    PROVE  Searching(s)'
<1>1. UNCHANGED <<clock, bucket, manifest, records, step>>
  BY OneSearchMoves DEF SearchStep
<1>2. SearchTypeOK /\ Searching(s)
  BY DEF SearchInv
<1>3. pc'[s] = "unavailable" /\ found'[s] = {} /\ query' = query /\ asked' = asked
  BY <1>2 DEF SearchFails, Finishes, SearchTypeOK
<1> QED
  BY <1>1, <1>2, <1>3 DEF SearchFails, Searching

\* A search that finishes with nothing to show.
LEMMA NothingToShow ==
    ASSUME SearchTypeOK, NEW s \in Search, Searching(s), pc[s] # "idle",
           Finishes(s, "unavailable") \/ Finishes(s, "missing"),
           UNCHANGED <<clock, query, asked>>
    PROVE  Searching(s)'
<1>1. pc'[s] \in {"unavailable", "missing"} /\ found'[s] = {}
  BY DEF Finishes, SearchTypeOK
<1> QED
  BY <1>1 DEF Searching

\* The manifest names a settled generation, and there is nothing found yet.
LEMMA ReadManifestStep ==
    ASSUME DirectoryInv, SearchInv, [Next]_vars, NEW s \in Search, ReadManifest(s)
    PROVE  Searching(s)'
<1>1. UNCHANGED <<clock, bucket, manifest, records, step>>
  BY OneSearchMoves DEF SearchStep
<1>2. SearchTypeOK /\ Searching(s)
  BY DEF SearchInv
<1>3. pc[s] = "manifest" /\ query' = query /\ asked' = asked
  BY DEF ReadManifest
<1>4. CASE ~Live(manifest)
  BY <1>1, <1>2, <1>3, <1>4, NothingToShow DEF ReadManifest
<1>5. CASE Live(manifest)
  <2> DEFINE r == manifest.of
             relevant == Relevant(query[s], r)
  <2>1. r \in Refresh /\ Settled(r)
    BY <1>5, EntriesTyped DEF Live, DirectoryInv, DirectoryTypeOK, ManifestsComplete
  <2>2. active'[s] = r /\ query'[s] \in Query /\ asked'[s] <= clock' /\ Settled(active[s])'
    BY <1>1, <1>2, <1>3, <1>5, <2>1 DEF ReadManifest, Searching, SearchTypeOK, Settled
  <2>3. Relevant(query[s], active[s])' = relevant
    BY <1>1, <1>3, <2>2 DEF Relevant
  <2>4. CASE relevant = {}
    <3>1. Answers(s, {}, ~Fresh(manifest))
      BY <1>5, <2>4 DEF ReadManifest
    <3>2. /\ pc'[s] = "answered" /\ found'[s] = {}
          /\ answer'[s] = Top(Rank({}, query'[s]), Limit)
      BY <1>2, <1>3, <3>1 DEF Answers, Finishes, SearchTypeOK
    <3>3. /\ Held(active[s], Relevant(query[s], active[s]))' = {}
          /\ FreshFor(s, Relevant(query[s], active[s]))'
      BY <2>3, <2>4 DEF Held, FreshFor
    <3> QED
      BY <2>1, <2>2, <3>2, <3>3 DEF Searching
  <2>5. CASE relevant # {}
    <3>1. /\ pc'[s] = "buckets" /\ unread'[s] = relevant /\ found'[s] = {}
      BY <1>2, <1>3, <1>5, <2>5 DEF ReadManifest, SearchTypeOK, Searching
    <3>2. (Relevant(query[s], active[s]) \ unread[s])' = {}
      BY <2>3, <3>1
    <3>3. /\ Held(active[s], Relevant(query[s], active[s]) \ unread[s])' = {}
          /\ FreshFor(s, Relevant(query[s], active[s]) \ unread[s])'
      BY <3>2 DEF Held, FreshFor
    <3> QED
      BY <2>1, <2>2, <2>3, <2>5, <3>1, <3>3 DEF Searching
  <2> QED
    BY <2>4, <2>5
<1> QED
  BY <1>4, <1>5

\* A live entry holds its own generation's bucket, so that one more bucket of
\* that generation has been read.
LEMMA ReadBucketStep ==
    ASSUME DirectoryInv, SearchInv, [Next]_vars, NEW s \in Search, ReadBucket(s)
    PROVE  Searching(s)'
<1> DEFINE r == active[s]
           relevant == Relevant(query[s], r)
           p == First(unread[s])
           entry == ReadsFrom(s, p)
           all == found[s] \cup Bucket(records[entry.of], p)
           seen == (relevant \ unread[s]) \cup {p}
<1>1. UNCHANGED <<clock, bucket, manifest, records, step>>
  BY OneSearchMoves DEF SearchStep
<1>2. SearchTypeOK /\ Searching(s) /\ DirectoryTypeOK /\ BucketsOwned
  BY DEF SearchInv, DirectoryInv
<1>3. pc[s] = "buckets" /\ query' = query /\ asked' = asked /\ active' = active
  BY DEF ReadBucket
<1>4. /\ query[s] \in Query /\ asked[s] <= clock /\ r \in Refresh /\ Settled(r)
      /\ unread[s] # {} /\ unread[s] \subseteq relevant
      /\ found[s] = Held(r, relevant \ unread[s])
      /\ ~stale[s] => FreshFor(s, relevant \ unread[s])
  BY <1>2, <1>3 DEF Searching
<1>5. relevant \subseteq Prefix
  <2>1. records[r] \in Directories \cup {{}}
    BY <1>2, <1>4 DEF DirectoryTypeOK
  <2> QED
    BY <2>1, DirectoriesTyped DEF Relevant
<1>6. p \in unread[s] /\ p \in Prefix
  <2>1. unread[s] \in SUBSET TwoCharacters
    BY <1>4, <1>5, PrefixesTyped
  <2> QED
    BY <1>4, <1>5, <2>1, FirstIsOne
<1>7. entry \in Entry \cup {NoEntry} /\ entry = bucket[BucketKey(r, p)]
  BY <1>2, <1>4, <1>6, KeysTyped DEF ReadsFrom, DirectoryTypeOK
<1>8. query'[s] \in Query /\ asked'[s] <= clock' /\ active'[s] \in Refresh /\ Settled(active[s])'
  BY <1>1, <1>3, <1>4 DEF Settled
<1>9. Relevant(query[s], active[s])' = relevant
  BY <1>1, <1>3 DEF Relevant
<1>10. CASE ~Live(entry)
  <2>1. Finishes(s, "missing")
    BY <1>10 DEF ReadBucket
  <2> QED
    BY <1>1, <1>2, <1>3, <2>1, NothingToShow
<1>11. CASE Live(entry)
  <2>1. entry.of = r
    <3>1. entry.of \in {r, None}
      BY <1>2, <1>4, <1>6, <1>7 DEF BucketsOwned
    <3>2. entry # NoEntry
      BY <1>11 DEF Live
    <3> HIDE DEF entry, r, p
    <3> QED
      BY <1>7, <3>1, <3>2, EntriesTyped
  <2>2. all = Held(r, seen)
    <3>1. found[s] = UNION {Bucket(records[r], q) : q \in relevant \ unread[s]}
      BY <1>4 DEF Held
    <3>2. all = found[s] \cup Bucket(records[r], p)
      BY <2>1
    <3> QED
      BY <3>1, <3>2 DEF Held
  <2>3. StaleRead(s, entry) \/ FreshFor(s, seen)
    <3> SUFFICES ASSUME ~StaleRead(s, entry) PROVE FreshFor(s, seen)
      OBVIOUS
    <3>1. ~stale[s] /\ clock < entry.at + Ttl
      BY DEF StaleRead, Fresh
    <3>2. clock \in Nat /\ asked[s] \in Nat /\ entry.at \in Nat /\ Ttl \in Nat
      BY <1>2, <1>7, EntriesTyped, DirectoryAssumption DEF DirectoryTypeOK, SearchTypeOK
    <3>3. asked[s] < bucket[BucketKey(r, p)].at + Ttl
      <4> HIDE DEF entry, r, p
      <4> QED
        BY <1>4, <1>7, <3>1, <3>2
    <3> QED
      BY <1>4, <3>1, <3>3 DEF FreshFor
  <2>4. CASE unread[s] = {p}
    <3>1. Answers(s, all, StaleRead(s, entry))
      BY <1>11, <2>4 DEF ReadBucket
    <3>2. /\ pc'[s] = "answered" /\ found'[s] = {}
          /\ answer'[s] = Top(Rank(all, query'[s]), Limit)
          /\ stale'[s] = StaleRead(s, entry)
      BY <1>2, <1>3, <3>1 DEF Answers, Finishes, SearchTypeOK
    <3>3. seen = relevant
      BY <1>4, <2>4
    <3>4. Held(active[s], Relevant(query[s], active[s]))' = Held(r, relevant)
      BY <1>1, <1>3, <1>9 DEF Held
    <3>5. FreshFor(s, Relevant(query[s], active[s]))' <=> FreshFor(s, relevant)
      BY <1>1, <1>3, <1>9 DEF FreshFor
    <3>6. ~stale'[s] => FreshFor(s, Relevant(query[s], active[s]))'
      BY <2>3, <3>2, <3>3, <3>5
    <3>7. answer'[s] = Top(Rank(Held(active[s], Relevant(query[s], active[s])), query[s]), Limit)'
      BY <2>2, <3>2, <3>3, <3>4
    <3> QED
      BY <1>8, <3>2, <3>6, <3>7 DEF Searching
  <2>5. CASE unread[s] # {p}
    <3>1. /\ pc'[s] = "buckets" /\ unread'[s] = unread[s] \ {p} /\ found'[s] = all
          /\ stale'[s] = StaleRead(s, entry)
      BY <1>2, <1>3, <1>11, <2>5 DEF ReadBucket, SearchTypeOK
    <3>2. unread'[s] # {} /\ unread'[s] \subseteq relevant /\ relevant \ unread'[s] = seen
      BY <1>4, <1>6, <2>5, <3>1
    <3>3. Held(active[s], Relevant(query[s], active[s]) \ unread[s])' = Held(r, seen)
      BY <1>1, <1>3, <1>9, <3>2 DEF Held
    <3>4. FreshFor(s, Relevant(query[s], active[s]) \ unread[s])' <=> FreshFor(s, seen)
      BY <1>1, <1>3, <1>9, <3>2 DEF FreshFor
    <3>5. found'[s] = Held(active[s], Relevant(query[s], active[s]) \ unread[s])'
      BY <2>2, <3>1, <3>3
    <3>6. ~stale'[s] => FreshFor(s, Relevant(query[s], active[s]) \ unread[s])'
      BY <2>3, <3>1, <3>4
    <3> QED
      BY <1>8, <1>9, <3>1, <3>2, <3>5, <3>6 DEF Searching
  <2> QED
    BY <2>4, <2>5
<1> QED
  BY <1>10, <1>11

LEMMA SearchInvNext == DirectoryInv /\ SearchInv /\ [Next]_vars => SearchInv'
<1> SUFFICES ASSUME DirectoryInv, SearchInv, [Next]_vars PROVE SearchInv'
  OBVIOUS
<1>1. ASSUME NEW s \in Search, SearchStep(s) PROVE SearchInv'
  <2>1. SearchTypeOK' /\ \A x \in Search \ {s} : Searching(x)'
    BY <1>1, OneSearchMoves
  <2>2. Searching(s)'
    BY <1>1, AskStep, ReadManifestStep, ReadBucketStep, SearchFailsStep DEF SearchStep
  <2> QED
    BY <2>1, <2>2 DEF SearchInv
<1>2. ASSUME UNCHANGED searchVars, clock' \in Nat, clock <= clock' PROVE SearchInv'
  <2>1. UNCHANGED <<pc, query, active, unread, found, stale, asked, answer>>
    BY <1>2 DEF searchVars
  <2>2. SearchTypeOK'
    BY <2>1 DEF SearchInv, SearchTypeOK
  <2>3. ASSUME NEW s \in Search PROVE Searching(s)'
    BY <1>2, <2>1, SearchStays DEF SearchInv
  <2> QED
    BY <2>2, <2>3 DEF SearchInv
<1>3. clock \in Nat
  BY DEF DirectoryInv, DirectoryTypeOK
<1>4. CASE Tick
  BY <1>2, <1>3, <1>4 DEF Tick
<1>5. CASE UNCHANGED vars
  BY <1>2, <1>3, <1>5 DEF vars
<1>6. CASE \E r \in Refresh : Load(r) \/ WriteBucket(r) \/ WriteManifest(r) \/ RefreshFails(r)
  BY <1>2, <1>3, <1>6 DEF Load, WriteBucket, WriteManifest, RefreshFails
<1>7. CASE ManifestArrives
  BY <1>2, <1>3, <1>7 DEF ManifestArrives
<1> QED
  BY <1>1, <1>4, <1>5, <1>6, <1>7 DEF Next, SearchStep

LEMMA SearchInvariant == Spec => [](DirectoryInv /\ SearchInv)
  BY DirectoryInvInit, DirectoryInvNext, SearchInvInit, SearchInvNext, PTL DEF Spec

\* However many refreshes a search overlaps, and although it reads bucket by
\* bucket, its answer is the best of what one whole directory holds: what a
\* ranking of all its records would have shown (search_symbols).
WholeAnswer ==
    \A s \in Search : pc[s] = "answered" =>
        LET reachable == {record \in records[active[s]] : Reachable(record, query[s])}
        IN  answer[s] = Top(Rank(reachable, query[s]), Limit)

\* WholeAnswer: whatever refreshes it overlaps, a search shows the best of what
\* one whole directory holds (search_symbols).
THEOREM AnswerIsWhole == Spec => []WholeAnswer
<1>1. DirectoryInv /\ SearchInv => WholeAnswer
  <2> SUFFICES ASSUME DirectoryInv, SearchInv, NEW s \in Search, pc[s] = "answered"
               PROVE  LET reachable == {record \in records[active[s]] :
                                            Reachable(record, query[s])}
                      IN  answer[s] = Top(Rank(reachable, query[s]), Limit)
    BY DEF WholeAnswer
  <2> DEFINE r == active[s]
             q == query[s]
  <2>1. /\ q \in Query /\ r \in Refresh
        /\ answer[s] = Top(Rank(Held(r, Relevant(q, r)), q), Limit)
    BY DEF SearchInv, Searching
  <2>2. q \in Text
    BY <2>1, DirectoryAssumption
  <2>3. records[r] \in SUBSET Record
    BY <2>1, DirectoriesTyped DEF DirectoryInv, DirectoryTypeOK
  <2>4. Matches(Held(r, Relevant(q, r)), q)
            = Matches({record \in records[r] : Reachable(record, q)}, q)
    BY <2>2, <2>3, HeldMatches
  <2> QED
    BY <2>1, <2>4 DEF Rank
<1> QED
  BY <1>1, SearchInvariant, PTL

\* LabelledStale: an answer not labelled stale was made only from entries that
\* were fresh when it was asked for (search_symbols).
THEOREM FreshAnswerIsFresh == Spec => []LabelledStale
<1>1. SearchInv => LabelledStale
  BY DEF SearchInv, Searching, LabelledStale, FreshFor
<1> QED
  BY <1>1, SearchInvariant, PTL

(***************************************************************************)
(* The order of the matches.                                               *)
(***************************************************************************)
\* Two texts agree on their first n characters, and then the first is at its
\* end or has the smaller character.
PartAt(s, t, n) ==
    /\ n <= Len(s) /\ n < Len(t) /\ \A k \in 1..n : s[k] = t[k]
    /\ n = Len(s) \/ s[n + 1] < t[n + 1]

LEMMA BeforeByPart ==
    ASSUME NEW s \in Seq(Nat), NEW t \in Seq(Nat)
    PROVE  Before(s, t) <=> \E n \in Nat : PartAt(s, t, n)
<1> DEFINE a == Len(s)
           b == Len(t)
<1>1. /\ a \in Nat /\ b \in Nat /\ DOMAIN s = 1..a /\ DOMAIN t = 1..b
      /\ (\A k \in 1..a : s[k] \in Nat) /\ (\A k \in 1..b : t[k] \in Nat)
  BY LenProperties
<1>2. IsPrefix(s, t) <=> a <= b /\ \A k \in 1..a : s[k] = t[k]
  <2>1. CASE a <= b
    <3> HIDE DEF a, b
    <3>1. /\ SubSeq(s, 1, a) \in Seq(Nat) /\ Len(SubSeq(s, 1, a)) = a
          /\ \A i \in 1..(a - 1 + 1) : SubSeq(s, 1, a)[i] = s[1 + i - 1]
      BY <1>1, SubSeqProperties, 1 \in Int DEF a
    <3>2. /\ SubSeq(t, 1, a) \in Seq(Nat) /\ Len(SubSeq(t, 1, a)) = a
          /\ \A i \in 1..(a - 1 + 1) : SubSeq(t, 1, a)[i] = t[1 + i - 1]
      <4>1. \A i \in 1..a : t[i] \in Nat
        BY <1>1, <2>1
      <4> QED
        BY <1>1, <4>1, SubSeqProperties, 1 \in Int
    <3>3. \A i \in 1..a : SubSeq(s, 1, a)[i] = s[i] /\ SubSeq(t, 1, a)[i] = t[i]
      <4> TAKE i \in 1..a
      <4>1. i \in 1..(a - 1 + 1) /\ 1 + i - 1 = i
        BY <1>1
      <4> QED
        BY <3>1, <3>2, <4>1
    <3>4. SubSeq(s, 1, a) = SubSeq(t, 1, a) <=> \A i \in 1..a : s[i] = t[i]
      BY <3>1, <3>2, <3>3, SeqEqual
    <3> QED
      BY <2>1, <3>4 DEF IsPrefix, a, b
  <2>2. CASE ~(a <= b)
    BY <2>2 DEF IsPrefix
  <2> QED
    BY <2>1, <2>2
<1>3. s = t <=> a = b /\ \A k \in 1..a : s[k] = t[k]
  BY SeqEqual
<1>4. IsStrictPrefix(s, t) <=> PartAt(s, t, a)
  <2> HIDE DEF a, b
  <2>1. IsStrictPrefix(s, t) <=> a <= b /\ a # b /\ \A k \in 1..a : s[k] = t[k]
    BY <1>2, <1>3 DEF IsStrictPrefix
  <2>2. a \in Nat /\ a <= a /\ (a <= b /\ a # b <=> a < b)
    BY <1>1
  <2>3. PartAt(s, t, a) <=> a < b /\ \A k \in 1..a : s[k] = t[k]
    BY <2>2 DEF PartAt, a, b
  <2> QED
    BY <2>1, <2>2, <2>3
<1>5. ASSUME NEW i \in DOMAIN s \cap DOMAIN t, s[i] < t[i], \A k \in 1..(i - 1) : s[k] = t[k]
      PROVE  i - 1 \in Nat /\ PartAt(s, t, i - 1)
  BY <1>1, <1>5 DEF PartAt
<1>6. ASSUME NEW n \in Nat, PartAt(s, t, n), n # a
      PROVE  n + 1 \in DOMAIN s \cap DOMAIN t /\ s[n + 1] < t[n + 1]
             /\ \A k \in 1..(n + 1 - 1) : s[k] = t[k]
  <2>1. n <= a /\ n < b /\ s[n + 1] < t[n + 1] /\ \A k \in 1..n : s[k] = t[k]
    BY <1>6 DEF PartAt
  <2>2. n + 1 \in 1..a /\ n + 1 \in 1..b /\ n + 1 - 1 = n
    <3>1. n \in Nat /\ a \in Nat /\ b \in Nat /\ n <= a /\ n < b /\ n # a
      BY <1>1, <1>6, <2>1
    <3> HIDE DEF a, b
    <3> QED
      BY <3>1
  <2> QED
    BY <1>1, <2>1, <2>2
<1>7. ASSUME Before(s, t) PROVE \E n \in Nat : PartAt(s, t, n)
  BY <1>1, <1>4, <1>5, <1>7 DEF Before
<1>8. ASSUME NEW n \in Nat, PartAt(s, t, n) PROVE Before(s, t)
  BY <1>4, <1>6, <1>8 DEF Before
<1> QED
  BY <1>7, <1>8

LEMMA BeforeTransitive ==
    ASSUME NEW r \in Seq(Nat), NEW s \in Seq(Nat), NEW t \in Seq(Nat), Before(r, s), Before(s, t)
    PROVE  Before(r, t)
<1>1. /\ Len(r) \in Nat /\ Len(s) \in Nat /\ Len(t) \in Nat
      /\ (\A k \in 1..Len(r) : r[k] \in Nat) /\ (\A k \in 1..Len(s) : s[k] \in Nat)
      /\ (\A k \in 1..Len(t) : t[k] \in Nat)
  BY LenProperties
<1>2. PICK m \in Nat : PartAt(r, s, m)
  BY BeforeByPart
<1>3. PICK n \in Nat : PartAt(s, t, n)
  BY BeforeByPart
<1>4. CASE m < n
  <2>1. PartAt(r, t, m)
    BY <1>1, <1>2, <1>3, <1>4 DEF PartAt
  <2> QED
    BY <2>1, BeforeByPart
<1>5. CASE m = n
  <2>1. /\ m <= Len(r) /\ m < Len(s) /\ m < Len(t) /\ s[m + 1] < t[m + 1]
        /\ \A k \in 1..m : r[k] = s[k] /\ s[k] = t[k]
        /\ m = Len(r) \/ r[m + 1] < s[m + 1]
    BY <1>1, <1>2, <1>3, <1>5 DEF PartAt
  <2>2. m # Len(r) => r[m + 1] < t[m + 1]
    <3> SUFFICES ASSUME m # Len(r) PROVE r[m + 1] < t[m + 1]
      OBVIOUS
    <3>1. m + 1 \in 1..Len(r) /\ m + 1 \in 1..Len(s) /\ m + 1 \in 1..Len(t)
      BY <1>1, <2>1
    <3>2. r[m + 1] \in Nat /\ s[m + 1] \in Nat /\ t[m + 1] \in Nat
      BY <1>1, <3>1
    <3> QED
      BY <2>1, <3>2
  <2>3. PartAt(r, t, m)
    BY <2>1, <2>2 DEF PartAt
  <2> QED
    BY <2>3, BeforeByPart
<1>6. CASE n < m
  <2>1. /\ m <= Len(r) /\ n <= Len(s) /\ m < Len(s) /\ n < Len(t)
        /\ (\A k \in 1..m : r[k] = s[k]) /\ \A k \in 1..n : s[k] = t[k]
        /\ n = Len(s) \/ s[n + 1] < t[n + 1]
    BY <1>2, <1>3 DEF PartAt
  <2> DEFINE lr == Len(r)
             ls == Len(s)
  <2>10. lr \in Nat /\ ls \in Nat /\ n < m /\ m <= lr /\ m < ls
    BY <1>1, <1>6, <2>1
  <2> HIDE DEF lr, ls
  <2>11. n + 1 \in 1..m /\ n <= lr /\ n # ls
    BY <2>10
  <2>12. \A k \in 1..n : k \in 1..m
    BY <2>10
  <2> USE DEF lr, ls
  <2>2. n + 1 \in 1..m /\ n <= Len(r) /\ n # Len(s) /\ \A k \in 1..n : k \in 1..m
    BY <2>11, <2>12
  <2>3. r[n + 1] < t[n + 1] /\ \A k \in 1..n : r[k] = t[k]
    BY <2>1, <2>2
  <2>4. PartAt(r, t, n)
    BY <2>1, <2>2, <2>3 DEF PartAt
  <2> QED
    BY <2>4, BeforeByPart
<1> QED
  BY <1>4, <1>5, <1>6

LEMMA BeforeIrreflexive == ASSUME NEW s \in Seq(Nat) PROVE ~Before(s, s)
<1> SUFFICES ASSUME NEW n \in Nat, PartAt(s, s, n) PROVE FALSE
  BY BeforeByPart
<1>1. Len(s) \in Nat /\ \A k \in 1..Len(s) : s[k] \in Nat
  BY LenProperties
<1> QED
  BY <1>1 DEF PartAt

LEMMA BeforeTotal ==
    ASSUME NEW s \in Seq(Nat), NEW t \in Seq(Nat), s # t
    PROVE  Before(s, t) \/ Before(t, s)
<1> DEFINE a == Len(s)
           b == Len(t)
           Differ == {k \in 1..a : k <= b /\ s[k] # t[k]}
<1>1. /\ a \in Nat /\ b \in Nat
      /\ (\A k \in 1..a : s[k] \in Nat) /\ (\A k \in 1..b : t[k] \in Nat)
  BY LenProperties
<1>2. CASE Differ = {}
  <2>0. \A k \in 1..a : k <= b => s[k] = t[k]
    BY <1>2
  <2>1. a # b
    <3> SUFFICES ASSUME a = b PROVE FALSE
      OBVIOUS
    <3>1. \A k \in 1..a : s[k] = t[k]
      BY <1>1, <2>0
    <3> QED
      BY <3>1, SeqEqual
  <2>2. CASE a < b
    <3>1. PartAt(s, t, a)
      BY <1>1, <2>0, <2>2 DEF PartAt
    <3> QED
      BY <1>1, <3>1, BeforeByPart
  <2>3. CASE b < a
    <3>1. \A k \in 1..b : t[k] = s[k]
      BY <1>1, <2>0, <2>3
    <3>2. PartAt(t, s, b)
      BY <1>1, <2>3, <3>1 DEF PartAt
    <3> QED
      BY <1>1, <3>2, BeforeByPart
  <2> QED
    BY <1>1, <2>1, <2>2, <2>3
<1>3. CASE Differ # {}
  <2>1. PICK i \in Differ : \A k \in Differ : i <= k
    <3>1. Differ \in SUBSET Nat
      BY <1>1
    <3> HIDE DEF Differ
    <3> QED
      BY <1>3, <3>1, LeastNatural
  <2>2. i \in 1..a /\ i <= b /\ s[i] # t[i] /\ i - 1 \in Nat
    BY <1>1
  <2>3. \A k \in 1..(i - 1) : s[k] = t[k]
    <3> TAKE k \in 1..(i - 1)
    <3>1. k \in 1..a /\ k <= b /\ ~(i <= k)
      BY <1>1, <2>2
    <3> QED
      BY <2>1, <3>1
  <2>4. CASE s[i] < t[i]
    <3>1. PartAt(s, t, i - 1)
      BY <1>1, <2>2, <2>3, <2>4 DEF PartAt
    <3> QED
      BY <2>2, <3>1, BeforeByPart
  <2>5. CASE t[i] < s[i]
    <3>1. PartAt(t, s, i - 1)
      BY <1>1, <2>2, <2>3, <2>5 DEF PartAt
    <3> QED
      BY <2>2, <3>1, BeforeByPart
  <2>6. s[i] \in Nat /\ t[i] \in Nat
    BY <1>1, <2>2
  <2> QED
    BY <2>2, <2>4, <2>5, <2>6
<1> QED
  BY <1>2, <1>3

\* A directory: finitely many records, no two with the same symbol.
Directory == {d \in SUBSET Record : IsFiniteSet(d) /\ \A x, y \in d : x.symbol = y.symbol => x = y}

\* Better is a strict order in which any two matches of a directory compare.
LEMMA BetterOrders ==
    ASSUME NEW M \in Directory, NEW q, NEW x \in M, NEW y \in M, NEW z \in M
    PROVE  /\ ~Better(x, x, q)
           /\ Better(x, y, q) /\ Better(y, z, q) => Better(x, z, q)
           /\ x # y => Better(x, y, q) \/ Better(y, x, q)
<1>1. x.symbol \in Seq(Nat) /\ y.symbol \in Seq(Nat) /\ z.symbol \in Seq(Nat)
  <2>1. \A r \in M : r.symbol \in Seq(Nat \ {Blank})
    BY DEF Directory, Record, Symbol
  <2> QED
    BY <2>1, SeqMonotonic
<1>2. Score(x, q) \in Nat /\ Score(y, q) \in Nat /\ Score(z, q) \in Nat
  BY DEF Score
<1>3. ~Better(x, x, q)
  BY <1>1, <1>2, BeforeIrreflexive DEF Better
<1>4. ASSUME Better(x, y, q), Better(y, z, q) PROVE Better(x, z, q)
  <2>1. CASE Score(x, q) = Score(y, q) /\ Score(y, q) = Score(z, q)
    <3>1. Before(x.symbol, y.symbol) /\ Before(y.symbol, z.symbol)
      BY <1>2, <1>4, <2>1 DEF Better
    <3> QED
      BY <1>1, <2>1, <3>1, BeforeTransitive DEF Better
  <2>2. CASE Score(x, q) # Score(y, q) \/ Score(y, q) # Score(z, q)
    BY <1>2, <1>4, <2>2 DEF Better
  <2> QED
    BY <2>1, <2>2
<1>5. ASSUME x # y PROVE Better(x, y, q) \/ Better(y, x, q)
  <2>1. Before(x.symbol, y.symbol) \/ Before(y.symbol, x.symbol)
    BY <1>1, <1>5, BeforeTotal DEF Directory
  <2> QED
    BY <1>2, <2>1 DEF Better
<1> QED
  BY <1>3, <1>4, <1>5

\* Of two matches the better one has fewer that are better still.
LEMMA BetterDecides ==
    ASSUME NEW M \in Directory, NEW q, NEW x \in M, NEW y \in M, Better(x, y, q)
    PROVE  Cardinality(BetterThan(M, x, q)) < Cardinality(BetterThan(M, y, q))
<1>1. /\ BetterThan(M, x, q) \in SUBSET BetterThan(M, y, q)
      /\ x \in BetterThan(M, y, q) /\ x \notin BetterThan(M, x, q)
  BY BetterOrders DEF BetterThan
<1>2. IsFiniteSet(BetterThan(M, y, q))
  BY FS_Subset DEF BetterThan, Directory
<1> QED
  BY <1>1, <1>2, FS_Subset, FS_CardinalityType

\* A match stands at the place after those that are better.
LEMMA PlaceOfMatch ==
    ASSUME NEW M \in Directory, NEW q, NEW x \in M
    PROVE  /\ Cardinality(BetterThan(M, x, q)) \in Nat
           /\ Cardinality(BetterThan(M, x, q)) + 1 \in 1..Cardinality(M)
           /\ \A f \in M :
                 Cardinality(BetterThan(M, f, q)) = Cardinality(BetterThan(M, x, q)) => f = x
<1>1. BetterThan(M, x, q) \in SUBSET M /\ x \notin BetterThan(M, x, q) /\ IsFiniteSet(M)
  BY BetterOrders DEF BetterThan, Directory
<1>2. /\ Cardinality(M) \in Nat /\ Cardinality(BetterThan(M, x, q)) \in Nat
      /\ Cardinality(BetterThan(M, x, q)) < Cardinality(M)
  BY <1>1, FS_Subset, FS_CardinalityType
<1>3. ASSUME NEW f \in M, Cardinality(BetterThan(M, f, q)) = Cardinality(BetterThan(M, x, q))
      PROVE  f = x
  <2>1. CASE Better(f, x, q)
    BY <1>2, <1>3, <2>1, BetterDecides
  <2>2. CASE Better(x, f, q)
    BY <1>2, <1>3, <2>2, BetterDecides
  <2> QED
    BY <2>1, <2>2, BetterOrders
<1> QED
  BY <1>2, <1>3

\* Who is not among the first i of a list is worse than the i-th.
BestFirst(shown, matches, q) ==
    \A i \in DOMAIN shown : \A m \in matches :
        (\E j \in 1..i : m = shown[j]) \/ Better(shown[i], m, q)

LEMMA RankedIsBestFirst ==
    ASSUME NEW M \in Directory, NEW q
    PROVE  /\ Cardinality(M) \in Nat
           /\ \E shown \in [1..Cardinality(M) -> M] :
                 /\ Ranked(M, q) = [i \in 1..Cardinality(M) |-> shown[i].symbol]
                 /\ BestFirst(shown, M, q)
<1> DEFINE n == Cardinality(M)
           place == [x \in M |-> Cardinality(BetterThan(M, x, q)) + 1]
           Here(i, r) == Cardinality(BetterThan(M, r, q)) = i - 1
           shown == [i \in 1..n |-> CHOOSE r \in M : Here(i, r)]
<1>1. n \in Nat /\ IsFiniteSet(M)
  BY FS_CardinalityType DEF Directory
<1>2. \A x \in M : place[x] \in 1..n /\ \A y \in M : place[y] = place[x] => y = x
  <2> TAKE x \in M
  <2>1. \A y \in M : place[y] = Cardinality(BetterThan(M, y, q)) + 1
                     /\ Cardinality(BetterThan(M, y, q)) \in Nat
    BY PlaceOfMatch
  <2>2. \A y \in M : Cardinality(BetterThan(M, y, q)) = Cardinality(BetterThan(M, x, q)) => y = x
    BY PlaceOfMatch
  <2>3. place[x] \in 1..n
    BY PlaceOfMatch
  <2> HIDE DEF place, n
  <2>4. ASSUME NEW y \in M, place[y] = place[x] PROVE y = x
    <3>1. Cardinality(BetterThan(M, y, q)) = Cardinality(BetterThan(M, x, q))
      BY <2>1, <2>4
    <3> QED
      BY <2>2, <3>1
  <2> QED
    BY <2>3, <2>4
<1>3. \A i \in 1..n : \E x \in M : place[x] = i
  <2>1. IsFiniteSet(1..n) /\ Cardinality(1..n) = n
    BY <1>1, FS_Interval, 1 \in Int
  <2>2. place \in Injection(M, 1..n)
    BY <1>2 DEF Injection, IsInjective
  <2>3. place \in Surjection(M, 1..n)
    BY <1>1, <2>1, <2>2, FS_Injection
  <2> QED
    BY <2>3 DEF Surjection
<1>4. ASSUME NEW i \in 1..n PROVE shown[i] \in M /\ place[shown[i]] = i
  <2>1. PICK x \in M : place[x] = i
    BY <1>3
  <2>2. Here(i, x)
    <3>1. i = Cardinality(BetterThan(M, x, q)) + 1 /\ Cardinality(BetterThan(M, x, q)) \in Nat
      BY <2>1, PlaceOfMatch
    <3> QED
      BY <3>1
  <2>3. shown[i] = CHOOSE r \in M : Here(i, r)
    OBVIOUS
  <2> HIDE DEF Here, shown
  <2>4. shown[i] \in M /\ Here(i, shown[i])
    BY <2>2, <2>3
  <2>5. Cardinality(BetterThan(M, shown[i], q)) = i - 1
    BY <2>4 DEF Here
  <2> QED
    BY <1>1, <2>4, <2>5
<1>5. Ranked(M, q) = [i \in 1..n |-> shown[i].symbol]
  BY DEF Ranked
<1>6. BestFirst(shown, M, q)
  <2> SUFFICES ASSUME NEW i \in 1..n, NEW m \in M, ~Better(shown[i], m, q)
               PROVE  \E j \in 1..i : m = shown[j]
    BY DEF BestFirst
  <2>1. shown[i] \in M /\ place[shown[i]] = i /\ place[m] \in 1..n
    BY <1>2, <1>4
  <2>2. shown[place[m]] = m
    <3>1. shown[place[m]] \in M /\ place[shown[place[m]]] = place[m]
      BY <1>4, <2>1
    <3> HIDE DEF shown, place
    <3> QED
      BY <1>2, <3>1
  <2>3. CASE m = shown[i]
    <3>1. i \in 1..i
      BY <1>1
    <3> QED
      BY <2>3, <3>1
  <2>4. CASE m # shown[i]
    <3>1. Better(m, shown[i], q)
      BY <2>1, <2>4, BetterOrders
    <3>2. Cardinality(BetterThan(M, m, q)) < Cardinality(BetterThan(M, shown[i], q))
      BY <2>1, <3>1, BetterDecides
    <3>3. /\ place[m] = Cardinality(BetterThan(M, m, q)) + 1
          /\ i = Cardinality(BetterThan(M, shown[i], q)) + 1
          /\ Cardinality(BetterThan(M, m, q)) \in Nat
          /\ Cardinality(BetterThan(M, shown[i], q)) \in Nat
      <4>1. \A y \in M : place[y] = Cardinality(BetterThan(M, y, q)) + 1
                         /\ Cardinality(BetterThan(M, y, q)) \in Nat
        BY PlaceOfMatch
      <4> HIDE DEF place, shown
      <4> QED
        BY <2>1, <4>1
    <3>4. place[m] \in 1..i
      <4> HIDE DEF place, shown
      <4> QED
        BY <2>1, <3>2, <3>3
    <3> HIDE DEF place, shown
    <3> QED
      BY <2>2, <3>4
  <2> QED
    BY <2>3, <2>4
<1> QED
  <2>1. shown \in [1..n -> M]
    BY <1>4
  <2> HIDE DEF shown
  <2> QED
    BY <1>1, <1>5, <1>6, <2>1

\* What the source's answers become are directories: one record for a symbol.
LEMMA LoadedAreDirectories ==
    ASSUME NEW directory \in Directories \cup {{}}
    PROVE  directory \in Directory
<1>1. directory \in SUBSET Record
  BY DirectoriesTyped
<1>2. CASE directory = {}
  BY <1>2, FS_EmptySet DEF Directory
<1>3. CASE directory \in Directories
  <2>1. PICK rows \in Payload : directory = ParsePayload(rows)
    BY <1>3 DEF Directories
  <2> DEFINE Valid == {row \in rows : row.symbol # <<>>}
             Chosen(symbol) == CHOOSE row \in Valid : row.symbol = symbol
             symbols == {row.symbol : row \in Valid}
  <2>2. IsFiniteSet(rows)
    BY DirectoryAssumption
  <2>3. IsFiniteSet(Valid)
    BY <2>2, FS_Subset
  <2>4. \A symbol \in symbols : Chosen(symbol).symbol = symbol
    OBVIOUS
  <2>5. directory = {Chosen(symbol) : symbol \in symbols}
    BY <2>1 DEF ParsePayload
  <2>6. IsFiniteSet(directory)
    <3> DEFINE first == [row \in Valid |-> Chosen(row.symbol)]
    <3> HIDE DEF Chosen, Valid
    <3>1. directory = {Chosen(row.symbol) : row \in Valid}
      BY <2>5 DEF symbols
    <3> HIDE DEF symbols
    <3>2. first \in Surjection(Valid, directory)
      BY <3>1 DEF Surjection
    <3> QED
      BY <2>3, <3>2, FS_Surjection
  <2> HIDE DEF Chosen, symbols
  <2>7. \A x, y \in directory : x.symbol = y.symbol => x = y
    BY <2>4, <2>5
  <2> QED
    BY <1>1, <2>6, <2>7 DEF Directory
<1> QED
  BY <1>2, <1>3

\* The first page of a ranking.
LEMMA TopOfRanking ==
    ASSUME NEW M \in Directory, NEW q, NEW limit \in Nat \ {0}
    PROVE  LET n == Cardinality(M)
               size == IF n < limit THEN n ELSE limit
           IN  /\ size \in Nat
               /\ \E shown \in [1..size -> M] :
                     /\ Top(Ranked(M, q), limit) = [i \in 1..size |-> shown[i].symbol]
                     /\ BestFirst(shown, M, q)
<1> DEFINE n == Cardinality(M)
           size == IF n < limit THEN n ELSE limit
           ranking == Ranked(M, q)
<1>1. n \in Nat /\ size \in Nat /\ size <= n
  BY RankedIsBestFirst
<1>2. PICK all \in [1..n -> M] : /\ ranking = [i \in 1..n |-> all[i].symbol]
                                 /\ BestFirst(all, M, q)
  BY RankedIsBestFirst
<1>3. ranking \in Seq({r.symbol : r \in M}) /\ Len(ranking) = n
  BY <1>1, <1>2
<1>4. Top(ranking, limit) = SubSeq(ranking, 1, size)
  BY <1>3 DEF Top
<1> HIDE DEF n, size, ranking
<1>5. \A i \in 1..n : ranking[i] \in {r.symbol : r \in M}
  BY <1>2
<1>6. /\ SubSeq(ranking, 1, size) \in Seq({r.symbol : r \in M})
      /\ Len(SubSeq(ranking, 1, size)) = IF 1 <= size THEN size - 1 + 1 ELSE 0
      /\ \A i \in 1..(size - 1 + 1) : SubSeq(ranking, 1, size)[i] = ranking[1 + i - 1]
  <2>1. \A i \in 1..size : ranking[i] \in {r.symbol : r \in M}
    BY <1>1, <1>5
  <2> QED
    BY <1>1, <2>1, SubSeqProperties, 1 \in Int
<1> DEFINE shown == [i \in 1..size |-> all[i]]
<1>7. shown \in [1..size -> M]
  BY <1>1
<1>8. Top(ranking, limit) = [i \in 1..size |-> shown[i].symbol]
  <2>1. \A i \in 1..size : SubSeq(ranking, 1, size)[i] = shown[i].symbol
    <3> TAKE i \in 1..size
    <3>1. i \in 1..(size - 1 + 1) /\ 1 + i - 1 = i /\ i \in 1..n
      BY <1>1
    <3> QED
      BY <1>2, <1>6, <3>1
  <2>2. SubSeq(ranking, 1, size)
            = [i \in 1..Len(SubSeq(ranking, 1, size)) |-> SubSeq(ranking, 1, size)[i]]
    BY <1>6
  <2>3. Len(SubSeq(ranking, 1, size)) = size
    BY <1>1, <1>6
  <2> HIDE DEF shown
  <2> QED
    BY <1>4, <2>1, <2>2, <2>3
<1>9. BestFirst(shown, M, q)
  <2> SUFFICES ASSUME NEW i \in 1..size, NEW m \in M, ~Better(shown[i], m, q)
               PROVE  \E j \in 1..i : m = shown[j]
    BY DEF BestFirst
  <2>1. i \in 1..n /\ \A j \in 1..i : j \in 1..size
    BY <1>1
  <2>2. PICK j \in 1..i : m = all[j]
    BY <1>2, <2>1 DEF BestFirst
  <2> QED
    BY <2>1, <2>2
<1> QED
  BY <1>1, <1>7, <1>8, <1>9 DEF n, size, ranking

BestShown ==
    \A s \in Search : pc[s] = "answered" =>
        LET matches == {record \in Matches(records[active[s]], query[s]) :
                           Reachable(record, query[s])}
            size == IF Cardinality(matches) < Limit THEN Cardinality(matches) ELSE Limit
        IN  \E shown \in [1..size -> matches] :
               /\ answer[s] = [i \in 1..size |-> shown[i].symbol]
               /\ BestFirst(shown, matches, query[s])

\* A search shows as many of the reachable matches of one directory as a page has
\* room for, each once, the best first, and none that is left out is better
\* than one that is shown (search_symbols, _rank).
THEOREM BestAreShown == Spec => []BestShown
<1>1. DirectoryInv /\ SearchInv /\ WholeAnswer => BestShown
  <2> SUFFICES ASSUME DirectoryInv, SearchInv, WholeAnswer, NEW s \in Search, pc[s] = "answered"
               PROVE  LET matches == {record \in Matches(records[active[s]], query[s]) :
                                         Reachable(record, query[s])}
                          size == IF Cardinality(matches) < Limit THEN Cardinality(matches) ELSE Limit
                      IN  \E shown \in [1..size -> matches] :
                             /\ answer[s] = [i \in 1..size |-> shown[i].symbol]
                             /\ BestFirst(shown, matches, query[s])
    BY DEF BestShown
  <2> DEFINE q == query[s]
             directory == records[active[s]]
             matches == {record \in Matches(directory, q) : Reachable(record, q)}
  <2>1. answer[s] = Top(Rank({record \in directory : Reachable(record, q)}, q), Limit)
    BY DEF WholeAnswer
  <2>2. Matches({record \in directory : Reachable(record, q)}, q) = matches
    BY DEF Matches
  <2>3. answer[s] = Top(Ranked(matches, q), Limit)
    BY <2>1, <2>2 DEF Rank
  <2>4. directory \in Directory
    BY LoadedAreDirectories DEF SearchInv, Searching, DirectoryInv, DirectoryTypeOK
  <2>5. matches \in Directory
    <3>1. matches \in SUBSET directory
      BY DEF Matches
    <3> HIDE DEF matches, directory
    <3> QED
      BY <2>4, <3>1, FS_Subset DEF Directory
  <2> HIDE DEF matches
  <2>6. Limit \in Nat \ {0}
    BY DirectoryAssumption
  <2> QED
    BY <2>3, <2>5, <2>6, TopOfRanking DEF matches
<1> QED
  BY <1>1, SearchInvariant, AnswerIsWhole, PTL

(***************************************************************************)
(* The directory is a register that is replaced as a whole.                *)
(***************************************************************************)
\* Whatever is served, or may be yet, has been loaded.
LoadedFirst ==
    /\ \A r \in Refresh : step[r] \in {"buckets", "manifest", "refreshed"} => records[r] # {}
    /\ \A entry \in late : records[entry.of] # {}
    /\ manifest # NoEntry => records[manifest.of] # {}

\* A manifest follows what its run has loaded.
LEMMA LoadedFirstNext == DirectoryInv /\ LoadedFirst /\ [Next]_vars => LoadedFirst'
<1> SUFFICES ASSUME DirectoryInv, LoadedFirst, [Next]_vars PROVE LoadedFirst'
  OBVIOUS
<1>1. DirectoryTypeOK /\ ManifestsComplete
  BY DEF DirectoryInv
<1>2. manifest # NoEntry => manifest.of \in Refresh
  BY <1>1, EntriesTyped DEF DirectoryTypeOK
<1>3. \A r \in Refresh : Envelope(r).of = r
  BY DEF Envelope
<1>4. ASSUME NEW r \in Refresh, Load(r) PROVE LoadedFirst'
  <2>1. /\ step[r] = "load" /\ step' = [step EXCEPT ![r] = "buckets"]
        /\ UNCHANGED <<manifest, late>>
        /\ records'[r] # {} /\ \A x \in Refresh \ {r} : records'[x] = records[x]
    BY <1>1, <1>4 DEF Load, DirectoryTypeOK, cacheVars
  <2>2. /\ \A entry \in late : entry.of # r
        /\ manifest # NoEntry => manifest.of # r
    BY <1>1, <2>1 DEF ManifestsComplete, Settled
  <2>3. \A entry \in late : entry.of \in Refresh
    BY <1>1, EntriesTyped DEF DirectoryTypeOK
  <2>4. \A x \in Refresh :
            step'[x] \in {"buckets", "manifest", "refreshed"} => records'[x] # {}
    BY <1>1, <2>1 DEF DirectoryTypeOK, LoadedFirst
  <2> QED
    BY <1>2, <2>1, <2>2, <2>3, <2>4 DEF LoadedFirst
<1>5. ASSUME NEW r \in Refresh, WriteBucket(r) PROVE LoadedFirst'
  <2>1. /\ step[r] = "buckets" /\ UNCHANGED <<manifest, late, records>>
        /\ \E to \in {"manifest", "buckets"} : step' = [step EXCEPT ![r] = to]
    BY <1>5 DEF WriteBucket, SetBucket
  <2> QED
    BY <1>1, <2>1 DEF LoadedFirst, DirectoryTypeOK
<1>6. ASSUME NEW r \in Refresh, WriteManifest(r) PROVE LoadedFirst'
  <2>1. /\ step[r] = "manifest" /\ UNCHANGED <<late, records>> /\ manifest'.of = r
        /\ step' = [step EXCEPT ![r] = "refreshed"]
    BY <1>3, <1>6 DEF WriteManifest, SetManifest
  <2> QED
    BY <1>1, <2>1 DEF LoadedFirst, DirectoryTypeOK
<1>7. ASSUME NEW r \in Refresh, RefreshFails(r) PROVE LoadedFirst'
  <2>1. /\ UNCHANGED <<manifest, records>> /\ step' = [step EXCEPT ![r] = "failed"]
        /\ late' = late \/ (step[r] = "manifest" /\ late' = late \cup {Envelope(r)})
    BY <1>7 DEF RefreshFails, SetBucket, cacheVars
  <2> QED
    BY <1>1, <1>3, <2>1 DEF LoadedFirst, DirectoryTypeOK
<1>8. CASE ManifestArrives
  <2>1. PICK entry \in late :
            /\ SetManifest(entry) /\ late' = late \ {entry} /\ UNCHANGED <<records, step>>
    BY <1>8 DEF ManifestArrives
  <2> QED
    BY <2>1 DEF LoadedFirst, SetManifest
<1>9. CASE UNCHANGED <<manifest, records, step, late>>
  BY <1>9 DEF LoadedFirst
<1>10. ASSUME NEW s \in Search, SearchStep(s) PROVE UNCHANGED <<manifest, records, step, late>>
  BY <1>10 DEF SearchStep, Ask, ReadManifest, ReadBucket, SearchFails, cacheVars, refreshVars
<1>11. Tick \/ UNCHANGED vars => UNCHANGED <<manifest, records, step, late>>
  BY DEF Tick, vars, cacheVars, refreshVars
<1> QED
  BY <1>4, <1>5, <1>6, <1>7, <1>8, <1>9, <1>10, <1>11 DEF Next, SearchStep

\* What the steps of the register rest on.
RegisterInv == DirectoryInv /\ SearchInv /\ LoadedFirst /\ WholeAnswer

LEMMA RegisterInvariant == Spec => []RegisterInv
<1>1. Init => LoadedFirst
  BY DEF Init, LoadedFirst
<1>2. DirectoryInv /\ LoadedFirst /\ [Next]_vars => LoadedFirst'
  BY LoadedFirstNext
<1>3. Spec => []DirectoryInv /\ []SearchInv
  BY SearchInvariant, PTL
<1>4. Spec => []LoadedFirst
  BY <1>1, <1>2, DirectoryInvariant, PTL DEF Spec
<1> QED
  BY <1>3, <1>4, AnswerIsWhole, PTL DEF RegisterInv

\* A refresh step leaves what a search has seen as it was.
LEMMA ViewsStay ==
    ASSUME RegisterInv, [Next]_vars, UNCHANGED searchVars
    PROVE  UNCHANGED <<Phases, query, Views, answer>>
<1>1. UNCHANGED <<pc, query, active, answer>>
  BY DEF searchVars
<1>2. ASSUME NEW s \in Search, pc[s] \in {"buckets", "answered"}
      PROVE  records'[active[s]] = records[active[s]]
  BY <1>2, SettledStays DEF RegisterInv, SearchInv, Searching
<1>3. Views' = Views
  BY <1>1, <1>2 DEF Views
<1> QED
  BY <1>1, <1>3 DEF Phases

\* A search step leaves the register as it is, and changes one view.
LEMMA OneViewMoves ==
    ASSUME RegisterInv, [Next]_vars, NEW s \in Search, SearchStep(s)
    PROVE  /\ Serving' = Serving
           /\ Phases[s] = Phase[pc[s]]
           /\ Phases' = [Phases EXCEPT ![s] = Phase[pc'[s]]]
           /\ Views' = [Views EXCEPT ![s] = IF pc'[s] \in {"buckets", "answered"}
                                           THEN records[active'[s]] ELSE {}]
<1>1. SearchTypeOK /\ SearchTypeOK' /\ UNCHANGED <<manifest, records>>
  BY OneSearchMoves DEF RegisterInv, SearchInv
<1>2. ASSUME NEW x \in Search \ {s} PROVE pc'[x] = pc[x] /\ active'[x] = active[x]
  <2>1. /\ pc' = pc \/ \E to : pc' = [pc EXCEPT ![s] = to]
        /\ active' = active \/ \E r : active' = [active EXCEPT ![s] = r]
    BY DEF SearchStep, Ask, ReadManifest, ReadBucket, SearchFails, Answers, Finishes
  <2> QED
    BY <1>1, <2>1 DEF SearchTypeOK
<1>3. Serving' = Serving
  BY <1>1 DEF Serving
<1> QED
  BY <1>1, <1>2, <1>3 DEF Phases, Views

\* What a search has seen, by where it is.
LEMMA ViewOf ==
    ASSUME NEW s \in Search
    PROVE  Views[s] = IF pc[s] \in {"buckets", "answered"} THEN records[active[s]] ELSE {}
  BY DEF Views

\* Each step of a search is a step of the register, or is not seen.
LEMMA AskRefines ==
    ASSUME RegisterInv, [Next]_vars, NEW s \in Search, Ask(s)
    PROVE  Register!Ask(s)
<1>1. SearchTypeOK /\ pc[s] = "idle" /\ pc' = [pc EXCEPT ![s] = "manifest"]
      /\ UNCHANGED <<answer, active>> /\ \E q \in Query : query' = [query EXCEPT ![s] = q]
  BY DEF Ask, RegisterInv, SearchInv
<1>2. pc'[s] = "manifest"
  BY <1>1 DEF SearchTypeOK
<1>3. Serving' = Serving /\ Phases[s] = "idle" /\ Phases' = [Phases EXCEPT ![s] = "asked"]
  BY <1>1, <1>2, OneViewMoves DEF SearchStep, Phase
<1>4. Views' = [Views EXCEPT ![s] = {}]
  BY <1>2, OneViewMoves DEF SearchStep
<1>5. Views[s] = {} /\ Views = [x \in Search |-> Views[x]]
  BY <1>1, ViewOf DEF Views
<1>6. Views' = Views
  BY <1>4, <1>5
<1> QED
  BY <1>1, <1>3, <1>6 DEF Register!Ask

\* However a search ends without an answer, it fails.
LEMMA FailRefines ==
    ASSUME RegisterInv, [Next]_vars, NEW s \in Search, SearchStep(s),
           pc[s] \in {"manifest", "buckets"}, pc'[s] \in {"unavailable", "missing"},
           UNCHANGED <<query, answer>>
    PROVE  Register!Fail(s)
<1>1. Serving' = Serving /\ Views' = [Views EXCEPT ![s] = {}]
  BY OneViewMoves
<1>2. Phases[s] \in {"asked", "looking"} /\ Phases' = [Phases EXCEPT ![s] = "failed"]
  BY OneViewMoves DEF Phase
<1> QED
  BY <1>1, <1>2 DEF Register!Fail

LEMMA SearchFailsRefines ==
    ASSUME RegisterInv, [Next]_vars, NEW s \in Search, SearchFails(s)
    PROVE  Register!Fail(s)
<1>1. pc[s] \in {"manifest", "buckets"} /\ pc'[s] = "unavailable" /\ UNCHANGED <<query, answer>>
  BY DEF SearchFails, Finishes, RegisterInv, SearchInv, SearchTypeOK
<1> QED
  BY <1>1, FailRefines DEF SearchStep

\* Whatever a search may see is a directory some run has loaded.
LEMMA SeenIsLoaded ==
    ASSUME RegisterInv, NEW s \in Search, NEW d, Register!Sees(s, d)
    PROVE  d \in Directories \ {{}}
<1>1. DirectoryTypeOK /\ SearchTypeOK /\ Searching(s)
  BY DEF RegisterInv, DirectoryInv, SearchInv
<1>2. CASE Serving # {} /\ d = Serving
  <2>1. manifest # NoEntry /\ d = records[manifest.of]
    BY <1>2 DEF Serving
  <2>2. manifest.of \in Refresh
    BY <1>1, <2>1, EntriesTyped DEF DirectoryTypeOK
  <2> QED
    BY <1>1, <1>2, <2>1, <2>2 DEF DirectoryTypeOK
<1>3. CASE Phases[s] = "looking" /\ d = Views[s]
  <2>1. pc[s] = "buckets"
    BY <1>1, <1>3 DEF Phases, Phase, SearchTypeOK
  <2>2. active[s] \in Refresh /\ Relevant(query[s], active[s]) # {}
    BY <1>1, <2>1 DEF Searching
  <2>3. d = records[active[s]]
    BY <1>3, <2>1, ViewOf
  <2>4. d # {}
    BY <2>2, <2>3 DEF Relevant, BucketsOf
  <2> QED
    BY <1>1, <2>2, <2>3, <2>4 DEF DirectoryTypeOK
<1> QED
  BY <1>2, <1>3 DEF Register!Sees

\* A search that finishes shows the page of one directory it may see.
LEMMA ShowRefines ==
    ASSUME RegisterInv, RegisterInv', [Next]_vars, NEW s \in Search, SearchStep(s),
           pc[s] # "idle", pc'[s] = "answered", UNCHANGED query,
           NEW some, answer' = [answer EXCEPT ![s] = some],
           Register!Sees(s, records[active'[s]])
    PROVE  \E d \in Directories \ {{}} : Register!Show(s, d)
<1> DEFINE d == records[active'[s]]
           page == Top(Rank({record \in d : Reachable(record, query[s])}, query[s]), Limit)
<1>1. SearchTypeOK /\ Searching(s) /\ WholeAnswer' /\ UNCHANGED <<records, manifest>>
  BY OneSearchMoves DEF RegisterInv, SearchInv
<1>2. query[s] \in Query
  BY <1>1 DEF Searching
<1>3. d \in Directories \ {{}}
  BY SeenIsLoaded
<1>4. answer'[s] = page
  <2>1. answer'[s] = Top(Rank({record \in records'[active'[s]] : Reachable(record, query'[s])},
                              query'[s]), Limit)
    BY <1>1 DEF WholeAnswer
  <2> QED
    BY <1>1, <2>1
<1>5. PageOf[d][query[s]] = page
  BY <1>2, <1>3 DEF PageOf
<1> HIDE DEF page
<1>6. answer' = [answer EXCEPT ![s] = PageOf[d][query[s]]]
  <2>1. answer = [x \in Search |-> answer[x]]
    BY <1>1 DEF SearchTypeOK
  <2>2. some = page
    BY <1>4, <2>1
  <2> QED
    BY <1>5, <2>2
<1>7. /\ Serving' = Serving /\ Phases' = [Phases EXCEPT ![s] = "answered"]
      /\ Views' = [Views EXCEPT ![s] = d]
  BY OneViewMoves DEF Phase
<1> HIDE DEF d
<1>8. Register!Show(s, d)
  BY <1>6, <1>7 DEF Register!Show, d
<1> QED
  BY <1>3, <1>8

\* A search that reads the manifest looks at what is served then.
LEMMA ReadManifestRefines ==
    ASSUME RegisterInv, RegisterInv', [Next]_vars, NEW s \in Search, ReadManifest(s)
    PROVE  Register!Fail(s) \/ Register!Look(s) \/ \E d \in Directories \ {{}} : Register!Show(s, d)
<1>1. SearchTypeOK /\ pc[s] = "manifest" /\ UNCHANGED query
  BY DEF ReadManifest, RegisterInv, SearchInv
<1>2. CASE ~Live(manifest)
  <2>1. pc'[s] = "unavailable" /\ UNCHANGED <<query, answer>>
    BY <1>1, <1>2 DEF ReadManifest, Finishes, SearchTypeOK
  <2> QED
    BY <1>1, <2>1, FailRefines DEF SearchStep
<1>3. CASE Live(manifest)
  <2>1. active'[s] = manifest.of
    BY <1>1, <1>3 DEF ReadManifest, SearchTypeOK
  <2>2. Serving = records[manifest.of] /\ Serving # {}
    BY <1>3 DEF Live, Serving, RegisterInv, LoadedFirst
  <2>3. Phases[s] = "asked"
    BY <1>1 DEF Phases, Phase
  <2>4. CASE Relevant(query[s], manifest.of) = {}
    <3>1. Answers(s, {}, ~Fresh(manifest))
      BY <1>3, <2>4 DEF ReadManifest
    <3>2. /\ pc'[s] = "answered"
          /\ answer' = [answer EXCEPT ![s] = Top(Rank({}, query[s]'), Limit)]
      BY <1>1, <3>1 DEF Answers, Finishes, SearchTypeOK
    <3>3. Register!Sees(s, records[active'[s]])
      BY <2>1, <2>2, <2>3 DEF Register!Sees
    <3> QED
      BY <1>1, <3>2, <3>3, ShowRefines DEF SearchStep
  <2>5. CASE Relevant(query[s], manifest.of) # {}
    <3>1. pc'[s] = "buckets" /\ UNCHANGED answer
      BY <1>1, <1>3, <2>5 DEF ReadManifest, SearchTypeOK
    <3>2. /\ Serving' = Serving /\ Phases' = [Phases EXCEPT ![s] = "looking"]
          /\ Views' = [Views EXCEPT ![s] = Serving]
      BY <2>1, <2>2, <3>1, OneViewMoves DEF SearchStep, Phase, RegisterInv
    <3> QED
      BY <1>1, <2>2, <2>3, <3>1, <3>2 DEF Register!Look
  <2> QED
    BY <2>4, <2>5
<1> QED
  BY <1>2, <1>3

\* Between its buckets a search goes on with what it has seen.
LEMMA ReadBucketRefines ==
    ASSUME RegisterInv, RegisterInv', [Next]_vars, NEW s \in Search, ReadBucket(s)
    PROVE  \/ Register!Fail(s) \/ \E d \in Directories \ {{}} : Register!Show(s, d)
           \/ UNCHANGED <<Serving, Phases, query, Views, answer>>
<1> DEFINE p == First(unread[s])
           entry == ReadsFrom(s, p)
           all == found[s] \cup Bucket(records[entry.of], p)
<1>1. SearchTypeOK /\ pc[s] = "buckets" /\ UNCHANGED <<query, active>>
  BY DEF ReadBucket, RegisterInv, SearchInv
<1>2. UNCHANGED records /\ Views[s] = records[active[s]]
  BY <1>1, OneSearchMoves, ViewOf DEF SearchStep, RegisterInv
<1>3. CASE ~Live(entry)
  <2>1. pc'[s] = "missing" /\ UNCHANGED <<query, answer>>
    BY <1>1, <1>3 DEF ReadBucket, Finishes, SearchTypeOK
  <2> QED
    BY <1>1, <2>1, FailRefines DEF SearchStep
<1>4. CASE Live(entry) /\ unread[s] = {p}
  <2>1. Answers(s, all, StaleRead(s, entry))
    BY <1>4 DEF ReadBucket
  <2>2. /\ pc'[s] = "answered"
        /\ answer' = [answer EXCEPT ![s] = Top(Rank(all, query[s]'), Limit)]
    BY <1>1, <2>1 DEF Answers, Finishes, SearchTypeOK
  <2>3. Register!Sees(s, records[active'[s]])
    BY <1>1, <1>2 DEF Register!Sees, Phases, Phase
  <2> HIDE DEF all
  <2> QED
    BY <1>1, <2>2, <2>3, ShowRefines DEF SearchStep
<1>5. CASE Live(entry) /\ unread[s] # {p}
  <2>1. UNCHANGED <<pc, answer>>
    BY <1>5 DEF ReadBucket
  <2> QED
    BY <1>1, <1>2, <2>1, OneSearchMoves DEF SearchStep, RegisterInv, Serving, Phases, Views
<1> QED
  BY <1>3, <1>4, <1>5

\* A refresh that leaves the manifest alone is not seen from outside.
LEMMA WorkNotSeen ==
    ASSUME RegisterInv, [Next]_vars, UNCHANGED <<manifest, searchVars>>,
           \A r \in Refresh : step[r] # "load" => records'[r] = records[r]
    PROVE  UNCHANGED <<Serving, Phases, query, Views, answer>>
<1>1. Serving' = Serving
  <2>1. manifest # NoEntry => manifest.of \in Refresh /\ step[manifest.of] # "load"
    BY EntriesTyped DEF RegisterInv, DirectoryInv, DirectoryTypeOK, ManifestsComplete, Settled
  <2> QED
    BY <2>1 DEF Serving
<1> QED
  BY <1>1, ViewsStay

\* A manifest that is written replaces the directory.
LEMMA SetManifestRefines ==
    ASSUME RegisterInv, [Next]_vars, NEW entry \in Entry, records[entry.of] # {},
           SetManifest(entry), UNCHANGED <<records, searchVars>>
    PROVE  \E d \in Directories \ {{}} : Register!Replace(d)
<1> DEFINE r == entry.of
<1>1. r \in Refresh
  BY EntriesTyped
<1>2. manifest' # NoEntry /\ manifest'.of = r
  BY <1>1, DirectoryAssumption DEF SetManifest, NoEntry
<1> HIDE DEF r
<1>3. Serving' = records[r]
  BY <1>2 DEF Serving
<1>4. records[r] \in Directories \ {{}}
  BY <1>1 DEF RegisterInv, DirectoryInv, DirectoryTypeOK, r
<1>5. UNCHANGED <<Phases, query, Views, answer>>
  BY ViewsStay
<1> QED
  BY <1>3, <1>4, <1>5 DEF Register!Replace, Register!searchVars

LEMMA StepRefines ==
    ASSUME RegisterInv, RegisterInv', [Next]_vars
    PROVE  [Register!Next]_(Register!vars)
<1> DEFINE Unseen == UNCHANGED <<Serving, Phases, query, Views, answer>>
<1>1. Unseen => UNCHANGED Register!vars
  BY DEF Register!vars, Register!searchVars
<1>2. ASSUME NEW s \in Search, SearchStep(s) PROVE Unseen \/ Register!Next
  <2>1. \/ Unseen \/ Register!Ask(s) \/ Register!Look(s) \/ Register!Fail(s)
        \/ \E d \in Directories \ {{}} : Register!Show(s, d)
    BY <1>2, AskRefines, ReadManifestRefines, ReadBucketRefines, SearchFailsRefines DEF SearchStep
  <2> QED
    BY <2>1 DEF Register!Next
<1>3. ASSUME NEW r \in Refresh, Load(r) \/ WriteBucket(r) \/ RefreshFails(r) PROVE Unseen
  <2>1. UNCHANGED <<manifest, searchVars>>
    BY <1>3 DEF Load, WriteBucket, RefreshFails, SetBucket, cacheVars
  <2>2. \A x \in Refresh : step[x] # "load" => records'[x] = records[x]
    BY <1>3 DEF Load, WriteBucket, RefreshFails, RegisterInv, DirectoryInv, DirectoryTypeOK
  <2> QED
    BY <2>1, <2>2, WorkNotSeen
<1>4. ASSUME NEW r \in Refresh, WriteManifest(r) PROVE Register!Next
  <2>1. SetManifest(Envelope(r)) /\ UNCHANGED <<records, searchVars>> /\ records[r] # {}
    BY <1>4 DEF WriteManifest, RegisterInv, LoadedFirst
  <2>2. Envelope(r) \in Entry /\ Envelope(r).of = r
    BY EntriesTyped DEF Envelope, RegisterInv, DirectoryInv, DirectoryTypeOK
  <2> QED
    BY <2>1, <2>2, SetManifestRefines DEF Register!Next
<1>5. CASE ManifestArrives
  <2>1. PICK entry \in late : SetManifest(entry) /\ UNCHANGED <<records, searchVars>>
    BY <1>5 DEF ManifestArrives
  <2>2. entry \in Entry /\ records[entry.of] # {}
    BY DEF RegisterInv, LoadedFirst, DirectoryInv, DirectoryTypeOK
  <2> QED
    BY <2>1, <2>2, SetManifestRefines DEF Register!Next
<1>6. CASE Tick \/ UNCHANGED vars
  <2>1. UNCHANGED <<manifest, records, searchVars>>
    BY <1>6 DEF Tick, vars, cacheVars, refreshVars
  <2> QED
    BY <1>1, <2>1, WorkNotSeen
<1> QED
  BY <1>1, <1>2, <1>3, <1>4, <1>5, <1>6 DEF Next, SearchStep

\* ReplacedAsAWhole: seen from outside the directory is one register, replaced as
\* a whole, whatever runs overlap, fail or are late, and whenever a search reads
\* its buckets (refresh_directory, search_symbols).
THEOREM DirectoryIsRegister == Spec => ReplacedAsAWhole
<1>1. Init => Register!Init
  BY DEF Init, Register!Init, Serving, Phases, Phase, Views
<1>2. RegisterInv /\ RegisterInv' /\ [Next]_vars => [Register!Next]_(Register!vars)
  BY StepRefines
<1> QED
  BY <1>1, <1>2, RegisterInvariant, PTL DEF Spec, ReplacedAsAWhole, Register!Spec
=============================================================================
