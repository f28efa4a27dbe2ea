------------------------- MODULE MCSymbolDirectory -------------------------
(***************************************************************************)
(* Instances of SymbolDirectory: companies over the letters 3 and 4.       *)
(***************************************************************************)
EXTENDS SymbolDirectory, TLC

Company(symbol, name) == [symbol |-> symbol, name |-> name]

Short     == Company(<<3>>, {<<3, 3, 4>>})              \* a symbol of one letter
Pair      == Company(<<3, 4>>, {<<3, 3>>, <<4>>})
PairAgain == Company(<<3, 4>>, {<<3, 3>>, <<4, 4>>})    \* the same symbol again
Class     == Company(<<4, Dot, 3, 3>>, {<<3, 4, 4>>})   \* a symbol with a period
Malformed == Company(<<>>, {})

Payloads == {{Short, Pair, PairAgain, Malformed}, {Pair, Class}, {Malformed}}

\* Two letters, a token of one letter and one of two, two tokens of one letter,
\* and a symbol with a period whose tokens begin those of another company: it
\* needs one bucket for the symbol and one for the name.
Queries == {<<3, 3>>, <<3, Blank, 3, 3>>, <<3, Blank, 4>>, <<4, Dot, 3, 3>>}

Symmetric == Permutations(Refresh)
=============================================================================
