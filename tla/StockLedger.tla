----------------------------- MODULE StockLedger -----------------------------
(***************************************************************************)
(* What the product service promises about the price, stock and            *)
(* availability of the products at one branch: every operation happens at  *)
(* once and in full, on the values it finds, and announces exactly its own *)
(* changes, after everything announced before for the same product.        *)
(* Stock.tla, the transactions of the code, implements this module.        *)
(***************************************************************************)
EXTENDS StockData

VARIABLES provisioned,  \* products that have a product_branch_details row
          row,          \* the row of each product
          feed          \* the announcements made so far

ledgerVars == <<provisioned, row, feed>>

(* The feed grows by one announcement per change, later than all those     *)
(* made before about the same product.                                     *)
Announce(changes) ==
  LET new == feed' \ feed
  IN  /\ feed \subseteq feed'
      /\ {Content(e) : e \in new} = changes
      /\ \A e, f \in new : Content(e) = Content(f) => e = f
      /\ \A e \in feed, f \in new : e.aggregate = f.aggregate => e.id < f.id

-----------------------------------------------------------------------------
LedgerInit ==
  /\ provisioned \in SUBSET Products
  /\ row \in [Products -> InitRows]
  /\ feed = {}

Provision(p) ==
  /\ p \notin provisioned
  /\ provisioned' = provisioned \cup {p}
  /\ row' = [row EXCEPT ![p] = NewRow]
  /\ UNCHANGED feed

Reserve(items) ==
  /\ \A p \in Target(items) : /\ p \in provisioned
                              /\ row[p].available
                              /\ row[p].stock >= Quantity(items, p)
  /\ row' = [p \in Products |->
               IF p \in Target(items)
               THEN [row[p] EXCEPT !.stock = @ - Quantity(items, p)]
               ELSE row[p]]
  /\ Announce({StockChange(p, row'[p].stock) : p \in Target(items)})
  /\ UNCHANGED provisioned

Release(items) ==
  LET known == Target(items) \cap provisioned
  IN  /\ \A p \in known : row[p].stock + Quantity(items, p) <= MaxInt
      /\ row' = [p \in Products |->
                   IF p \in known
                   THEN [row[p] EXCEPT !.stock = @ + Quantity(items, p)]
                   ELSE row[p]]
      /\ Announce({StockChange(p, row'[p].stock) : p \in known})
      /\ UNCHANGED provisioned

(* A patch gives some columns of one row a value; a change of stock or of  *)
(* availability announces the stock, a change of price the price.          *)
Patch(patch) ==
  LET p     == patch.product
      named == DOMAIN patch.set
  IN  /\ p \in provisioned
      /\ row' = [row EXCEPT ![p] =
                   [c \in DOMAIN row[p] |->
                      IF c \in named THEN patch.set[c] ELSE row[p][c]]]
      /\ Announce({PriceChange(p, row'[p].price) : c \in named \cap {"price"}}
                  \cup {StockChange(p, row'[p].stock)
                          : c \in named \cap {"stock", "available"}})
      /\ UNCHANGED provisioned

LedgerNext ==
  \/ \E p \in Products : Provision(p)
  \/ \E items \in Batches : Reserve(items) \/ Release(items)
  \/ \E patch \in Patches : Patch(patch)

LedgerSpec == LedgerInit /\ [][LedgerNext]_ledgerVars
=============================================================================
