------------------------------- MODULE MCStock -------------------------------
(* Instances of Stock for TLC. *)
EXTENDS Stock, TLC

CONSTANTS p1, p2

Item(p, n) == [product |-> p, quantity |-> n]

\* One product, two in both orders, a malformed list.
MCBatches == {<<Item(p1, 2)>>, <<Item(p1, 1), Item(p2, 1)>>,
              <<Item(p2, 2), Item(p1, 1)>>, <<Item(p1, 0)>>}

MCPatches == {[product |-> p1, set |-> [stock |-> 3]],
              [product |-> p2, set |-> [price |-> 1, available |-> FALSE]]}

MCInitRows == {[price |-> 0, stock |-> 2, available |-> TRUE]}

\* A list that names one product twice, with quantities that differ.
DupBatches == {<<Item(p1, 1), Item(p1, 2)>>, <<Item(p1, 1), Item(p2, 1)>>}

\* Three requests on both rows: cycles of waiting requests.
CrossBatches == {<<Item(p1, 1), Item(p2, 1)>>}
OnePatch == {[product |-> p1, set |-> [stock |-> 3]]}

Symmetric == Permutations(Requests)
=============================================================================
