------------------------ MODULE MCMarketDataRefresh ------------------------
(* TLC instances of MarketDataRefresh. *)
EXTENDS MarketDataRefresh, TLC

Symmetric == Permutations(Request) \cup Permutations(Process)
=============================================================================
