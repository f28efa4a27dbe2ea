---------------------------- MODULE SymbolIndex ----------------------------
(***************************************************************************)
(* The index of the symbol directory: which two-character buckets hold a     *)
(* company, which of them a query reads, and how what they hold is ranked    *)
(* (SymbolSearchService).  A text is a sequence of characters; a character is *)
(* a number, in the order of its code.                                       *)
(***************************************************************************)
EXTENDS Integers, SequencesExt

Blank == 0
Hyphen == 1
Dot == 2
Letter == Nat \ {Blank, Hyphen, Dot}

\* What validate_symbol_query lets through, what a token of a name is, and what
\* SymbolRecord takes for a symbol.
Text == {q \in Seq(Nat) : Len(q) >= 2}
Token == {t \in Seq(Letter) : t # <<>>}
Symbol == {t \in Seq(Nat \ {Blank}) : t # <<>> /\ t[1] \in Letter}

\* _COMPANY_TOKEN_PATTERN: the longest runs of letters and digits.
Tokens(text) ==
    LET At == DOMAIN text
        Run(i, j) ==
            /\ i <= j /\ \A k \in i..j : text[k] \in Letter
            /\ i - 1 \in At => text[i - 1] \notin Letter
            /\ j + 1 \in At => text[j + 1] \notin Letter
    IN  {SubSeq(text, run[1], run[2]) : run \in {ij \in At \X At : Run(ij[1], ij[2])}}

\* _BUCKET_PATTERN
IsBucket(p) == Len(p) = 2 /\ p[1] \in Letter /\ p[2] # Blank

BucketNames(texts) ==
    {p \in {SubSeq(t, 1, 2) : t \in {t \in texts : Len(t) >= 2}} : IsBucket(p)}

\* A record has a symbol, and a name given by its tokens.
RecordPrefixes(record) == BucketNames({record.symbol} \cup record.name)

QueryPrefixes(query) == BucketNames({query} \cup Tokens(query))

BucketsOf(records) == UNION {RecordPrefixes(record) : record \in records}

Bucket(records, p) == {record \in records : p \in RecordPrefixes(record)}

\* 0: the symbol begins with the query; 1: each token of the query begins a
\* token of the name; 9: no match.
Score(record, query) ==
    IF IsPrefix(query, record.symbol) THEN 0
    ELSE IF /\ Tokens(query) # {}
            /\ \A t \in Tokens(query) : \E n \in record.name : IsPrefix(t, n)
         THEN 1 ELSE 9

Before(s, t) ==
    \/ IsStrictPrefix(s, t)
    \/ \E i \in DOMAIN s \cap DOMAIN t :
           s[i] < t[i] /\ \A k \in 1..(i - 1) : s[k] = t[k]

\* The first of some prefixes.
First(prefixes) == CHOOSE p \in prefixes : \A q \in prefixes \ {p} : Before(p, q)

Matches(records, query) == {record \in records : Score(record, query) < 9}

\* One match is better than another by its score, then by its symbol.
Better(r, s, query) ==
    \/ Score(r, query) < Score(s, query)
    \/ Score(r, query) = Score(s, query) /\ Before(r.symbol, s.symbol)

BetterThan(matches, r, query) == {s \in matches : Better(s, r, query)}

\* The symbols of the matches, best first: no two have the same symbol.
Ranked(matches, query) ==
    [i \in 1..Cardinality(matches) |->
        (CHOOSE r \in matches : Cardinality(BetterThan(matches, r, query)) = i - 1).symbol]

Rank(records, query) == Ranked(Matches(records, query), query)

Top(symbols, limit) == SubSeq(symbols, 1, IF Len(symbols) < limit THEN Len(symbols) ELSE limit)

\* What the two-character index can find at all: with a token of two characters
\* in the query every match, otherwise only symbols that begin like the query.
Reachable(record, query) ==
    \/ \E t \in Tokens(query) : Len(t) >= 2
    \/ IsPrefix(SubSeq(query, 1, 2), record.symbol)

\* A row is a record, unless its symbol is none.
Row == [symbol : Symbol \cup {<<>>}, name : SUBSET Token]
Record == [symbol : Symbol, name : SUBSET Token]

\* The first row of each symbol, of the rows that are well formed; the order
\* among rows of one symbol is fixed, so CHOOSE stands for it.
ParsePayload(rows) ==
    LET Valid == {row \in rows : row.symbol # <<>>}
    IN  {CHOOSE row \in Valid : row.symbol = s : s \in {row.symbol : row \in Valid}}
=============================================================================
