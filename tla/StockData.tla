------------------------------ MODULE StockData ------------------------------
(***************************************************************************)
(* The data that Stock and StockLedger have in common: what can be asked   *)
(* of a branch's stock, and what is announced about it.                    *)
(***************************************************************************)
EXTENDS Integers, Sequences

CONSTANTS Products,     \* the products of the branch's restaurant
          Batches,      \* item lists a caller may ask to reserve or release
          Patches,      \* column changes a manager may ask for
          MaxInt,       \* the largest value of a Postgres int column
          InitRows      \* rows the branch may start with

ASSUME StockDataAssumption ==
  /\ MaxInt \in Nat
  /\ \A items \in Batches : items \in Seq([product : Products, quantity : Int])
  /\ \A patch \in Patches :
       /\ patch.product \in Products
       /\ DOMAIN patch.set \in (SUBSET {"price", "stock", "available"}) \ {{}}
       /\ \A c \in DOMAIN patch.set :
            patch.set[c] \in IF c = "available" THEN BOOLEAN ELSE Nat
  /\ InitRows \subseteq [price : 0..MaxInt, stock : 0..MaxInt,
                         available : BOOLEAN]

NewRow == [price |-> 0, stock |-> 0, available |-> FALSE]

Target(items) == {items[i].product : i \in DOMAIN items}

\* A list that names a product once asks for this quantity of it.
Quantity(items, p) ==
  items[CHOOSE i \in DOMAIN items : items[i].product = p].quantity

StockChange(p, n) == [aggregate |-> p, type |-> "stock", value |-> n]
PriceChange(p, n) == [aggregate |-> p, type |-> "price", value |-> n]
Content(e) == [aggregate |-> e.aggregate, type |-> e.type, value |-> e.value]
=============================================================================
