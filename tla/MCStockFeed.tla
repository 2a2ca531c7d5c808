----------------------------- MODULE MCStockFeed -----------------------------
(* Instances of StockFeed for TLC: one product, requests that all meet on it.*)
EXTENDS StockFeed, TLC

CONSTANT p1

MCBatches == {<<[product |-> p1, quantity |-> 1]>>}
MCPatches == {[product |-> p1, set |-> [stock |-> 3, price |-> 1]]}
MCInitRows == {[price |-> 0, stock |-> 2, available |-> TRUE]}

Symmetric == Permutations(Requests) \cup Permutations(Workers)
=============================================================================
