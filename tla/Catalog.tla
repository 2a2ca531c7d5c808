------------------------------- MODULE Catalog -------------------------------
(***************************************************************************)
(* Products, their categories and their rows at the branches, while        *)
(* branches are opened.  A trigger gives a new product a row at every      *)
(* branch of its restaurant that is committed by then, and nothing ever    *)
(* adds one later.  An update writes the category, the product and the     *)
(* branch's row one after the other, each in a transaction of its own.     *)
(***************************************************************************)
EXTENDS Integers

CONSTANTS Calls,        \* calls, each made once
          Products,     \* ids, drawn by inserts
          Branches, Home,   \* ids, and the restaurant each is opened for
          Opened,       \* branches there from the start
          Old, OldHome, \* a product that is there already, and its restaurant
          MaxFaults,    \* bound: calls that break off
          None

Restaurants == {Home[b] : b \in Branches}

VARIABLES branches, products, categories,  \* committed rows
          details,             \* product_branch_details: last writer per pair
          inserted,            \* products with their rows, not yet committed
          opening,             \* branches not yet committed
          pc, args,            \* calls
          edited, broken,      \* history: product written, not answered; broken off
          late,                \* history: branches that came after the trigger
          faults

tables == <<branches, products, categories, details, inserted, opening>>
vars   == <<tables, pc, args, edited, broken, late, faults>>

Callers == Restaurants \cup {"admin"}
Names   == {"c"}                       \* category names
Pairs   == Branches \X Products
Row     == [restaurant : Restaurants, category : (Restaurants \X Names) \cup {None}]
Args    == [who : Callers, restaurant : Restaurants, name : Names \cup {None},
            product : Products \cup {None}, branch : Branches \cup {None}]

Drawn == {p \in Products : products[p] # None \/ inserted[p] # None}

\* Mutant: only branches that sell something already get a row.
SellingBranches(r) ==
  {b \in branches : Home[b] = r /\ \E p \in Products : details[<<b, p>>] # None}

\* Mutant: the WHERE of the trigger is missing.
AllBranches(r) == branches

\* The trigger: the committed branches of the restaurant.
ProvisionedAt(r) == {b \in branches : Home[b] = r}

Init ==
  /\ branches = Opened
  /\ products = [p \in Products |-> IF p # Old THEN None
                   ELSE [restaurant |-> OldHome, category |-> None]]
  /\ categories = {}
  /\ details = [bp \in Pairs |->
                  IF bp[2] = Old /\ bp[1] \in Opened /\ Home[bp[1]] = OldHome
                  THEN "trigger" ELSE None]
  /\ inserted = [p \in Products |-> None]
  /\ opening = {}
  /\ pc = [c \in Calls |-> "idle"]
  /\ args = [c \in Calls |-> None]
  /\ edited = {} /\ broken = {} /\ late = {}
  /\ faults = 0

Move(c, from, to) == pc[c] = from /\ pc' = [pc EXCEPT ![c] = to]

\* A call that was answered, whatever the answer, is done.  It is forgotten,
\* unless it failed half-way.
Forget(c) ==
  /\ args'   = [args EXCEPT ![c] = IF pc'[c] = "failed" /\ c \in edited THEN @ ELSE None]
  /\ edited' = IF pc'[c] = "done" THEN edited \ {c} ELSE edited

\* The check that every service method makes: the caller's restaurant.
MayActFor(who, r) == who \in {"admin", r}

(* No such restaurant or product, or somebody else's.                      *)
TurnedAway(c) ==
  /\ Move(c, "idle", "done")
  /\ UNCHANGED <<tables, args, edited, broken, late, faults>>

(* create *)
Create(c) ==
  \E a \in [who : Callers, restaurant : Restaurants, name : Names \cup {None},
            product : {None}, branch : {None}] :
    /\ MayActFor(a.who, a.restaurant)
    /\ Move(c, "idle", IF a.name = None THEN "writing" ELSE "looking")
    /\ args' = [args EXCEPT ![c] = a]
    /\ UNCHANGED <<tables, edited, broken, late, faults>>

(* update: the branch comes from the query string, and only owners and     *)
(* admins can name one that is not the caller's (requireBranchAccess).     *)
Update(c) ==
  \E p \in Products, who \in Callers, n \in Names \cup {None}, b \in Branches \cup {None} :
    /\ products[p] # None
    /\ MayActFor(who, products[p].restaurant)
    /\ Move(c, "idle", IF n = None THEN "writing" ELSE "looking")
    /\ args' = [args EXCEPT ![c] = [who |-> who, restaurant |-> products[p].restaurant,
                                    name |-> n, product |-> p, branch |-> b]]
    /\ UNCHANGED <<tables, edited, broken, late, faults>>

-----------------------------------------------------------------------------
\* Mutant: the category is looked up and created at the caller's restaurant.
CallersCategory(c) ==
  IF args[c].name = None THEN None
  ELSE <<IF args[c].who = "admin" THEN CHOOSE r \in Restaurants : TRUE
         ELSE args[c].who, args[c].name>>

\* The category a call means, at the product's restaurant.
Category(c) == IF args[c].name = None THEN None ELSE <<args[c].restaurant, args[c].name>>

FindCategory(c) ==
  /\ Move(c, "looking", IF Category(c) \in categories THEN "writing" ELSE "naming")
  /\ UNCHANGED <<tables, args, edited, broken, late, faults>>

(* createCategory: the unique constraint stops the second of two calls     *)
(* that both found none.                                                   *)
CreateCategory(c) ==
  /\ Move(c, "naming", IF Category(c) \in categories THEN "done" ELSE "writing")
  /\ categories' = categories \cup {Category(c)}
  /\ IF pc'[c] = "done" THEN Forget(c) ELSE UNCHANGED <<args, edited>>
  /\ UNCHANGED <<branches, products, details, inserted, opening, broken, late, faults>>

(* createProduct: one statement with its trigger, and then its commit.     *)
InsertProduct(c) ==
  /\ pc[c] = "writing" /\ args[c].product = None
  /\ \E p \in Products \ Drawn :
       /\ inserted' = [inserted EXCEPT ![p] =
                         [row |-> [restaurant |-> args[c].restaurant, category |-> Category(c)],
                          at |-> ProvisionedAt(args[c].restaurant)]]
       /\ args' = [args EXCEPT ![c].product = p]
  /\ pc' = [pc EXCEPT ![c] = "inserted"]
  /\ UNCHANGED <<branches, products, categories, details, opening,
                 edited, broken, late, faults>>

CommitProduct(c) ==
  LET p == args[c].product IN
  /\ Move(c, "inserted", "done")
  /\ products' = [products EXCEPT ![p] = inserted[p].row]
  /\ details' = [bp \in Pairs |-> IF bp[2] = p /\ bp[1] \in inserted[p].at
                                  THEN "trigger" ELSE details[bp]]
  /\ inserted' = [inserted EXCEPT ![p] = None]
  /\ Forget(c)
  /\ UNCHANGED <<branches, categories, opening, broken, late, faults>>

(* updateProduct: committed at once.                                       *)
UpdateProduct(c) ==
  LET p == args[c].product IN
  /\ pc[c] = "writing" /\ p # None
  /\ pc' = [pc EXCEPT ![c] = IF args[c].branch = None THEN "done" ELSE "patching"]
  /\ products' = [products EXCEPT ![p].category =
                    IF Category(c) = None THEN @ ELSE Category(c)]
  /\ IF pc'[c] = "done" THEN Forget(c)
     ELSE UNCHANGED args /\ edited' = edited \cup {c}
  /\ UNCHANGED <<branches, categories, details, inserted, opening, broken, late, faults>>

\* Mutant: it is only now that the branch is compared with the caller.
PatchOwn(c) ==
  LET bp == <<args[c].branch, args[c].product>>
      ok == details[bp] # None /\ args[c].who = Home[args[c].branch] IN
  /\ Move(c, "patching", IF ok THEN "done" ELSE "failed")
  /\ details' = IF ok THEN [details EXCEPT ![bp] = args[c].who] ELSE details
  /\ Forget(c)
  /\ UNCHANGED <<branches, products, categories, inserted, opening, broken, late, faults>>

(* updateBranchDetails and its event, in a transaction (see Stock).  If    *)
(* the branch has no row, toEntity(undefined) throws and it is rolled back.*)
PatchRow(c) ==
  LET bp == <<args[c].branch, args[c].product>> IN
  /\ Move(c, "patching", IF details[bp] = None THEN "failed" ELSE "done")
  /\ details' = [details EXCEPT ![bp] = IF @ = None THEN None ELSE args[c].who]
  /\ Forget(c)
  /\ UNCHANGED <<branches, products, categories, inserted, opening, broken, late, faults>>

-----------------------------------------------------------------------------
(* A branch is created: one statement, and then its commit.                *)
InsertBranch(c) ==
  \E b \in Branches \ (branches \cup opening) :
    /\ Move(c, "idle", "opening")
    /\ args' = [args EXCEPT ![c] = [who |-> Home[b], restaurant |-> Home[b], name |-> None,
                                    product |-> None, branch |-> b]]
    /\ opening' = opening \cup {b}
    /\ UNCHANGED <<branches, products, categories, details, inserted,
                   edited, broken, late, faults>>

CommitBranch(c) ==
  LET b == args[c].branch IN
  /\ Move(c, "opening", "done")
  /\ branches' = branches \cup {b}
  /\ opening' = opening \ {b}
  /\ late' = late \cup {<<b, p>> : p \in Drawn}
  /\ Forget(c)
  /\ UNCHANGED <<products, categories, details, inserted, broken, faults>>

(* The process dies, or the statement fails: an open insert is undone.     *)
BreakOff(c) ==
  /\ faults < MaxFaults /\ faults' = faults + 1
  /\ pc[c] \in {"looking", "naming", "writing", "inserted", "patching", "opening"}
  /\ pc' = [pc EXCEPT ![c] = "failed"]
  /\ broken' = broken \cup {c}
  /\ inserted' = IF pc[c] = "inserted" THEN [inserted EXCEPT ![args[c].product] = None]
                                       ELSE inserted
  /\ opening' = IF pc[c] = "opening" THEN opening \ {args[c].branch} ELSE opening
  /\ late' = IF pc[c] = "inserted" THEN {bp \in late : bp[2] # args[c].product} ELSE late
  /\ Forget(c)
  /\ UNCHANGED <<branches, products, categories, details>>

Handle(c) == \/ TurnedAway(c) \/ Create(c) \/ Update(c)
             \/ FindCategory(c) \/ CreateCategory(c)
             \/ InsertProduct(c) \/ CommitProduct(c)
             \/ UpdateProduct(c) \/ PatchRow(c)
             \/ InsertBranch(c) \/ CommitBranch(c) \/ BreakOff(c)

Next == \E c \in Calls : Handle(c)

Spec == Init /\ [][Next]_vars
-----------------------------------------------------------------------------
(* Types of the variables. *)
TypeOK ==
  /\ branches \in SUBSET Branches /\ opening \in SUBSET (Branches \ branches)
  /\ products \in [Products -> Row \cup {None}]
  /\ categories \in SUBSET (Restaurants \X Names)
  /\ details \in [Pairs -> Callers \cup {"trigger", None}]
  /\ inserted \in [Products -> [row : Row, at : SUBSET Branches] \cup {None}]
  /\ pc \in [Calls -> {"idle", "looking", "naming", "writing", "inserted", "patching",
                       "opening", "done", "failed"}]
  /\ args \in [Calls -> Args \cup {None}]
  /\ edited \in SUBSET Calls /\ broken \in SUBSET Calls
  /\ late \in SUBSET Pairs /\ faults \in Nat

(* "Auto-provisioned for every existing branch": a product has a row at a  *)
(* branch exactly if the branch is its restaurant's and was committed when *)
(* the trigger ran.  A branch whose insert was still open then is without  *)
(* the product for good.                                                   *)
ProvisionedExactly ==
  \A b \in branches, p \in Products : products[p] # None =>
    (details[<<b, p>>] # None
       <=> Home[b] = products[p].restaurant /\ <<b, p>> \notin late)

(* No column ties a category, or a branch's row, to the restaurant of the  *)
(* product, but no sequence of calls by owners and admins mixes them up.   *)
CatalogStaysHome ==
  \A p \in Products : products[p] # None =>
    /\ products[p].category # None =>
         products[p].category \in categories
           /\ products[p].category[1] = products[p].restaurant
    /\ \A b \in Branches : details[<<b, p>>] # None => Home[b] = products[p].restaurant

(* The row of a branch is written by its own restaurant or an admin only,  *)
(* although an owner may name any branch in the query string and the       *)
(* service compares the product's restaurant alone.                        *)
ForeignBranchesUntouched ==
  [][\A bp \in Pairs : details[bp] # None /\ details'[bp] # details[bp] =>
       details'[bp] \in {Home[bp[1]], "admin"}]_vars

(* An update that failed has nevertheless changed the product only if it   *)
(* broke off, or if the branch had no row: and then it has none to this    *)
(* day, so that repeating the call cannot help.                            *)
HalfDoneOnlyWithoutRow ==
  \A c \in edited : pc[c] = "failed" =>
    c \in broken \/ details[<<args[c].branch, args[c].product>>] = None

-----------------------------------------------------------------------------
\* A category is of the restaurant of the product that names it.
AtHome(row) ==
  row.category # None => row.category \in categories /\ row.category[1] = row.restaurant

\* What the trigger did for a product, before its commit and after.
Provisioning ==
  /\ \A b \in Branches, p \in Products :
       details[<<b, p>>] # None \/ <<b, p>> \in late => b \in branches
  /\ \A p \in Products :
       /\ inserted[p] # None =>
            /\ products[p] = None /\ AtHome(inserted[p].row)
            /\ inserted[p].at \subseteq branches
            /\ \A b \in branches :
                 b \in inserted[p].at
                   <=> Home[b] = inserted[p].row.restaurant /\ <<b, p>> \notin late
       /\ products[p] = None => \A b \in Branches : details[<<b, p>>] = None
       /\ p \notin Drawn => \A b \in Branches : <<b, p>> \notin late

\* What a call has found out and still relies on.
InFlight(c) ==
  /\ pc[c] \in {"looking", "naming", "writing", "inserted", "patching", "opening"} =>
       args[c] \in Args
  /\ pc[c] \in {"looking", "naming"} => args[c].name # None
  /\ pc[c] = "writing" /\ args[c].name # None => Category(c) \in categories
  /\ pc[c] \in {"looking", "naming", "writing", "patching"} /\ args[c].product # None =>
       /\ products[args[c].product] # None
       /\ products[args[c].product].restaurant = args[c].restaurant
       /\ MayActFor(args[c].who, args[c].restaurant)
  /\ pc[c] = "patching" => args[c].product # None /\ args[c].branch # None
  /\ pc[c] = "inserted" => args[c].product # None /\ inserted[args[c].product] # None
  /\ pc[c] = "opening" => args[c].branch # None /\ args[c].branch \in opening

CallsInFlight == \A c \in Calls : InFlight(c)

\* Two open inserts are of two rows.
InsertsApart ==
  \A c, d \in Calls : c # d /\ pc[c] = pc[d] =>
    /\ pc[c] = "inserted" => args[c].product # args[d].product
    /\ pc[c] = "opening" => args[c].branch # args[d].branch

\* A call that has written its product goes on to the branch, or failed there.
EditsKnown ==
  \A c \in edited :
    /\ pc[c] \in {"patching", "failed"} /\ args[c] \in Args
    /\ args[c].branch # None /\ args[c].product # None
    /\ products[args[c].product] # None

(* The inductive invariant from which the properties follow.               *)
CatalogInv ==
  /\ TypeOK /\ Provisioning /\ CallsInFlight /\ InsertsApart /\ EditsKnown
  /\ ProvisionedExactly /\ CatalogStaysHome /\ HalfDoneOnlyWithoutRow
=============================================================================
