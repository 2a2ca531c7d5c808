---------------------------- MODULE Stock_proofs ----------------------------
(***************************************************************************)
(* Safety of the stock transactions for any number of requests, any set of *)
(* products, any batches (with or without duplicate products) and patches; *)
(* and, where no batch names a product twice, that the last announcement   *)
(* is current and that the transactions implement StockLedger.             *)
(***************************************************************************)
EXTENDS Stock, FiniteSetTheorems, TLAPS

-----------------------------------------------------------------------------
(* Partial functions on the products: the rows seen and written.           *)

LEMMA PartialIs ==
  ASSUME NEW S, NEW f
  PROVE  f \in Partial(S) <=> DOMAIN f \subseteq Products /\ f \in [DOMAIN f -> S]
<1>1. ASSUME f \in Partial(S)
      PROVE  DOMAIN f \subseteq Products /\ f \in [DOMAIN f -> S]
  BY <1>1 DEF Partial
<1>2. ASSUME DOMAIN f \subseteq Products, f \in [DOMAIN f -> S] PROVE f \in Partial(S)
  BY <1>2 DEF Partial
<1> QED
  BY <1>1, <1>2

LEMMA PartialEmpty ==
  ASSUME NEW S
  PROVE  <<>> \in Partial(S) /\ DOMAIN <<>> = {}
<1>1. <<>> \in Seq(S) /\ Len(<<>>) = 0
  OBVIOUS
<1>2. <<>> \in [1..0 -> S] /\ DOMAIN <<>> = 1..0
  BY <1>1
<1>3. 1..0 = {}
  OBVIOUS
<1> QED
  BY <1>2, <1>3, PartialIs

LEMMA PartialExtended ==
  ASSUME NEW S, NEW f \in Partial(S), NEW p \in Products, NEW v \in S
  PROVE  [q \in DOMAIN f \cup {p} |-> IF q = p THEN v ELSE f[q]] \in Partial(S)
<1> DEFINE g == [q \in DOMAIN f \cup {p} |-> IF q = p THEN v ELSE f[q]]
<1>1. DOMAIN f \subseteq Products /\ f \in [DOMAIN f -> S]
  BY PartialIs
<1>2. DOMAIN g = DOMAIN f \cup {p} /\ g \in [DOMAIN f \cup {p} -> S]
  BY <1>1
<1> QED
  BY <1>1, <1>2, PartialIs

-----------------------------------------------------------------------------
(* Requests.                                                               *)

LEMMA RequestShape ==
  ASSUME NEW q \in Ops
  PROVE  /\ q.op \in {"reserve", "release", "patch"}
         /\ q.op = "patch" => q.patch \in Patches
         /\ q.op # "patch" => q.items \in Batches
                              /\ q.items \in Seq([product : Products, quantity : Int])
  BY StockDataAssumption DEF Ops

LEMMA SeqElements ==
  ASSUME NEW S, NEW s \in Seq(S)
  PROVE  /\ Len(s) \in Nat /\ DOMAIN s = 1..Len(s)
         /\ \A i \in DOMAIN s : s[i] \in S
  OBVIOUS

LEMMA SeqHeadTail ==
  ASSUME NEW S, NEW s \in Seq(S), s # <<>>
  PROVE  /\ Tail(s) \in Seq(S) /\ 1 \in DOMAIN s /\ Head(s) = s[1]
         /\ \A i \in DOMAIN Tail(s) : i + 1 \in DOMAIN s /\ Tail(s)[i] = s[i + 1]
<1>1. /\ Len(s) \in Nat \ {0} /\ DOMAIN s = 1..Len(s)
      /\ Head(s) = s[1]
      /\ Tail(s) \in Seq(S) /\ Len(Tail(s)) = Len(s) - 1
      /\ DOMAIN Tail(s) = 1..(Len(s) - 1)
  OBVIOUS
<1>2. \A i \in 1..(Len(s) - 1) : Tail(s)[i] = s[i + 1]
  OBVIOUS
<1> QED
  BY <1>1, <1>2

LEMMA ItemsShape ==
  ASSUME NEW items \in Seq([product : Products, quantity : Int])
  PROVE  /\ Len(items) \in Nat /\ DOMAIN items = 1..Len(items)
         /\ \A i \in DOMAIN items : items[i].product \in Products
                                     /\ items[i].quantity \in Int
<1> DEFINE Item == [product : Products, quantity : Int]
<1>1. \A i \in DOMAIN items : items[i] \in Item
  BY SeqElements, Zenon
<1>2. \A x \in Item : x.product \in Products /\ x.quantity \in Int
  OBVIOUS
<1> QED
  BY <1>1, <1>2, SeqElements, Zenon

LEMMA TargetsAreProducts ==
  ASSUME NEW q \in Ops
  PROVE  Targets(q) \subseteq Products /\ IsFiniteSet(Targets(q))
<1>1. CASE q.op = "patch"
  <2>1. q.patch \in Patches
    BY <1>1, RequestShape
  <2>2. q.patch.product \in Products
    BY <2>1, StockDataAssumption, Zenon
  <2>3. IsFiniteSet({q.patch.product})
    BY FS_Singleton, Zenon
  <2> QED
    BY <1>1, <2>2, <2>3 DEF Targets
<1>2. CASE q.op # "patch"
  <2>1. q.items \in Seq([product : Products, quantity : Int])
    BY <1>2, RequestShape
  <2>2. /\ Len(q.items) \in Nat /\ DOMAIN q.items = 1..Len(q.items)
        /\ \A i \in DOMAIN q.items : q.items[i].product \in Products
    BY <2>1, ItemsShape
  <2> DEFINE f == [i \in DOMAIN q.items |-> q.items[i].product]
  <2>3. f \in Surjection(DOMAIN q.items, Target(q.items))
    <3>1. f \in [DOMAIN q.items -> Target(q.items)]
      BY DEF Target
    <3>2. \A t \in Target(q.items) : \E i \in DOMAIN q.items : f[i] = t
      BY DEF Target
    <3> HIDE DEF f
    <3> QED
      BY <3>1, <3>2 DEF Surjection
  <2>4. IsFiniteSet(DOMAIN q.items)
    <3>1. 1 \in Int /\ Len(q.items) \in Int
      BY <2>2
    <3>2. IsFiniteSet(1..Len(q.items))
      BY <3>1, FS_Interval, Zenon
    <3> QED
      BY <2>2, <3>2, Zenon
  <2> HIDE DEF f
  <2> QED
    BY <1>2, <2>2, <2>3, <2>4, FS_Surjection DEF Targets, Target
<1> QED
  BY <1>1, <1>2

LEMMA ScanOrdersAreSequences ==
  ASSUME NEW S \in SUBSET Products, IsFiniteSet(S), NEW s \in ScanOrders(S)
  PROVE  s \in Seq(Products) /\ \A i \in DOMAIN s : s[i] \in S
<1>1. Cardinality(S) \in Nat
  BY FS_CardinalityType
<1>2. s \in [1..Cardinality(S) -> S]
  BY DEF ScanOrders
<1> QED
  BY <1>1, <1>2

-----------------------------------------------------------------------------
(* What a request computes from the rows it has read.                      *)

LEMMA SeenRows ==
  ASSUME TypeOK, NEW r \in Requests, NEW p \in DOMAIN seen[r]
  PROVE  /\ p \in Products /\ seen[r][p] \in Row
         /\ DOMAIN seen[r][p] = {"price", "stock", "available"}
         /\ seen[r][p].stock \in 0..MaxInt /\ seen[r][p].price \in 0..MaxInt
         /\ seen[r][p].available \in BOOLEAN
<1>1. seen[r] \in Partial(Row)
  BY DEF TypeOK
<1>2. p \in Products /\ seen[r][p] \in Row
  BY <1>1, PartialIs
<1>3. \A x \in Row : /\ DOMAIN x = {"price", "stock", "available"}
                     /\ x.stock \in 0..MaxInt /\ x.price \in 0..MaxInt
                     /\ x.available \in BOOLEAN
  BY DEF Row
<1> QED
  BY <1>2, <1>3, Zenon

(* An accepted batch asks for positive quantities; a reservation never     *)
(* takes more than there is.                                               *)
LEMMA ComputedTyped ==
  ASSUME TypeOK, OnlySanitized, NEW r \in Requests, Accepted(r),
         req[r].op # "patch", NEW c \in Computed(r)
  PROVE  /\ c \in Change
         /\ c.aggregate \in DOMAIN seen[r] /\ c.ix \in 1..Drawn(r)
<1> DEFINE items == req[r].items
           sign  == IF req[r].op = "reserve" THEN -1 ELSE 1
<1>1. /\ req[r].op \in {"reserve", "release"}
      /\ items \in Seq([product : Products, quantity : Int])
  BY RequestShape DEF TypeOK
<1>2. PICK i \in DOMAIN items :
        /\ items[i].product \in DOMAIN seen[r]
        /\ c = [ix |-> i, aggregate |-> items[i].product, type |-> "stock",
                value |-> seen[r][items[i].product].stock + sign * items[i].quantity]
  BY DEF Computed
<1>3. /\ i \in 1..Len(items) /\ Len(items) \in Nat
      /\ items[i].product \in Products /\ items[i].quantity \in Int
  BY <1>1, ItemsShape
<1>4. items[i].quantity > 0
  BY DEF OnlySanitized, Sanitized, Accepted, InTrx
<1> DEFINE have == seen[r][items[i].product].stock
           n    == items[i].quantity
<1>5. have \in Nat
  <2>1. have \in 0..MaxInt
    BY <1>2, SeenRows
  <2>2. MaxInt \in Nat
    BY StockDataAssumption, Zenon
  <2> HIDE DEF have
  <2> QED
    BY <2>1, <2>2
<1>6. req[r].op = "reserve" => ~ (have < n)
  BY <1>2 DEF Accepted, Offending
<1>7. have + sign * n \in Nat
  <2> HIDE DEF have, n, items
  <2>1. n \in Int /\ n > 0
    BY <1>3, <1>4 DEF n
  <2> QED
    BY <1>5, <1>6, <2>1
<1>8. req[r].op # "patch" /\ Drawn(r) = Len(items)
  BY DEF Drawn
<1> HIDE DEF items, have, sign, n
<1>9. c = [ix |-> i, aggregate |-> items[i].product, type |-> "stock",
           value |-> have + sign * n]
  BY <1>2 DEF have, n
<1>10. c \in Change
  BY <1>3, <1>7, <1>9 DEF Change
<1> QED
  BY <1>2, <1>3, <1>8, <1>9, <1>10

LEMMA PatchShape ==
  ASSUME NEW patch \in Patches
  PROVE  /\ patch.product \in Products
         /\ \A c \in DOMAIN patch.set :
              /\ c = "available" => patch.set[c] \in BOOLEAN
              /\ c # "available" => patch.set[c] \in Nat
<1>1. \A c \in DOMAIN patch.set :
        patch.set[c] \in IF c = "available" THEN BOOLEAN ELSE Nat
  BY StockDataAssumption, Zenon
<1>2. patch.product \in Products
  BY StockDataAssumption, Zenon
<1> QED
  BY <1>1, <1>2, Zenon

(* An accepted patch has read its row.                                     *)
LEMMA PatchReads ==
  ASSUME TypeOK, WithinLocks, NEW r \in Requests, Accepted(r), req[r].op = "patch"
  PROVE  /\ req[r].patch \in Patches
         /\ DOMAIN seen[r] = {req[r].patch.product}
<1>1. req[r].patch \in Patches
  BY RequestShape DEF TypeOK
<1>2. DOMAIN seen[r] \subseteq {req[r].patch.product}
  BY DEF WithinLocks, Targets
<1>3. DOMAIN seen[r] # {}
  BY DEF Accepted
<1> QED
  BY <1>1, <1>2, <1>3, Zenon

LEMMA PatchPlanTyped ==
  ASSUME TypeOK, WithinLocks, NEW r \in Requests, Accepted(r),
         req[r].op = "patch", NEW c \in PatchPlan(r)
  PROVE  /\ c \in Change
         /\ c.aggregate \in DOMAIN seen[r] /\ c.ix \in 1..Drawn(r)
<1> DEFINE patch == req[r].patch
           old   == seen[r][patch.product]
<1>1. patch \in Patches /\ patch.product \in DOMAIN seen[r]
  BY PatchReads
<1>2. /\ patch.product \in Products /\ DOMAIN old = {"price", "stock", "available"}
      /\ old.stock \in 0..MaxInt /\ old.price \in 0..MaxInt
  BY <1>1, SeenRows
<1>3. \A k \in DOMAIN patch.set : k # "available" => patch.set[k] \in Nat
  BY <1>1, PatchShape
<1>4. ASSUME NEW k \in {"price", "stock"} PROVE Patched(r)[k] \in Nat
  <2>1. Patched(r)[k] = IF k \in DOMAIN patch.set THEN patch.set[k] ELSE old[k]
    BY <1>2 DEF Patched
  <2>2. old[k] \in Nat
    BY <1>2, StockDataAssumption
  <2>3. k # "available"
    OBVIOUS
  <2> QED
    BY <1>3, <2>1, <2>2, <2>3, Zenon
<1>5. PICK ix \in {1, 2}, type \in {"price", "stock"} :
        c = [ix |-> ix, aggregate |-> patch.product, type |-> type,
             value |-> Patched(r)[type]]
  BY DEF PatchPlan
<1> HIDE DEF patch
<1> QED
  BY <1>1, <1>2, <1>4, <1>5 DEF Change, Drawn, patch

(* The changes of an accepted request are well typed and about rows it has *)
(* read.                                                                   *)
LEMMA PlanTyped ==
  ASSUME TypeOK, OnlySanitized, WithinLocks, NEW r \in Requests, Accepted(r)
  PROVE  /\ Plan(r) \in SUBSET Change
         /\ \A c \in Plan(r) : c.aggregate \in DOMAIN seen[r] /\ c.ix \in 1..Drawn(r)
  BY ComputedTyped, PatchPlanTyped DEF Plan

(* What an UPDATE writes fits the columns.                                 *)
LEMMA PatchedFits ==
  ASSUME TypeOK, WithinLocks, NEW r \in Requests, Accepted(r),
         req[r].op = "patch", \A c \in PatchPlan(r) : c.value <= MaxInt
  PROVE  Patched(r) \in Row
<1> DEFINE patch == req[r].patch
           old   == seen[r][patch.product]
           new(k) == IF k \in DOMAIN patch.set THEN patch.set[k] ELSE old[k]
<1>1. patch \in Patches /\ patch.product \in DOMAIN seen[r]
  BY PatchReads
<1>2. /\ DOMAIN old = {"price", "stock", "available"}
      /\ old.stock \in 0..MaxInt /\ old.price \in 0..MaxInt
      /\ old.available \in BOOLEAN
  BY <1>1, SeenRows
<1>3. Patched(r) = [k \in {"price", "stock", "available"} |-> new(k)]
  BY <1>2 DEF Patched
<1>4. new("available") \in BOOLEAN
  BY <1>1, <1>2, PatchShape
<1>5. ASSUME NEW k \in {"price", "stock"} PROVE new(k) \in 0..MaxInt
  <2>1. CASE k \in DOMAIN patch.set
    <3>1. patch.set[k] \in Nat
      BY <1>1, <2>1, PatchShape
    <3>2. \E c \in PatchPlan(r) : c.value = Patched(r)[k]
      <4> DEFINE event(ix, type) == [ix |-> ix, aggregate |-> patch.product,
                                     type |-> type, value |-> Patched(r)[type]]
      <4>1. event(1, "price").value = Patched(r)["price"]
            /\ event(2, "stock").value = Patched(r)["stock"]
        OBVIOUS
      <4>2. CASE k = "price"
        <5>1. event(1, "price") \in PatchPlan(r)
          BY <2>1, <4>2 DEF PatchPlan
        <5> HIDE DEF event
        <5> QED
          BY <4>1, <4>2, <5>1
      <4>3. CASE k = "stock"
        <5>1. event(2, "stock") \in PatchPlan(r)
          BY <2>1, <4>3 DEF PatchPlan
        <5> HIDE DEF event
        <5> QED
          BY <4>1, <4>3, <5>1
      <4> QED
        BY <4>2, <4>3
    <3>3. Patched(r)[k] = patch.set[k]
      BY <1>3, <2>1
    <3> QED
      BY <2>1, <3>1, <3>2, <3>3, StockDataAssumption
  <2>2. CASE k \notin DOMAIN patch.set
    BY <1>2, <2>2
  <2> QED
    BY <2>1, <2>2
<1> HIDE DEF new
<1>6. Patched(r) = [price |-> new("price"), stock |-> new("stock"),
                    available |-> new("available")]
  BY <1>3
<1> QED
  BY <1>4, <1>5, <1>6 DEF Row

LEMMA WrittenTyped ==
  ASSUME TypeOK, OnlySanitized, WithinLocks, NEW r \in Requests, Accepted(r),
         \A c \in Plan(r) : c.value <= MaxInt, NEW w \in Written(r)
  PROVE  w \in Partial(Row) /\ DOMAIN w \subseteq DOMAIN seen[r]
<1> DEFINE touched == {c.aggregate : c \in Plan(r)}
<1>1. touched \subseteq DOMAIN seen[r] /\ DOMAIN seen[r] \subseteq Products
  BY PlanTyped, SeenRows
<1>2. CASE req[r].op = "patch"
  <2>1. w = [p \in touched |-> Patched(r)]
    BY <1>2 DEF Written
  <2>2. Patched(r) \in Row
    BY <1>2, PatchedFits DEF Plan
  <2> HIDE DEF touched
  <2>3. DOMAIN w = touched /\ w \in [touched -> Row]
    BY <2>1, <2>2
  <2> QED
    BY <1>1, <2>3, PartialIs
<1>3. CASE req[r].op # "patch"
  <2>1. PICK pick \in [touched -> Plan(r)] :
          w = [p \in touched |-> [seen[r][p] EXCEPT !.stock = pick[p].value]]
    BY <1>3 DEF Written
  <2>2. ASSUME NEW p \in touched
        PROVE  [seen[r][p] EXCEPT !.stock = pick[p].value] \in Row
    <3>1. pick[p] \in Plan(r)
      OBVIOUS
    <3>2. pick[p].value \in 0..MaxInt
      <4>1. pick[p] \in Change /\ pick[p].value <= MaxInt
        BY <3>1, PlanTyped
      <4>2. pick[p].value \in Nat
        BY <4>1 DEF Change
      <4> QED
        BY <4>1, <4>2, StockDataAssumption
    <3>3. seen[r][p] \in Row
      BY <1>1, SeenRows
    <3>4. \A x \in Row, n \in 0..MaxInt : [x EXCEPT !.stock = n] \in Row
      BY DEF Row
    <3> QED
      BY <3>2, <3>3, <3>4
  <2> HIDE DEF touched
  <2>3. DOMAIN w = touched /\ w \in [touched -> Row]
    BY <2>1, <2>2
  <2> QED
    BY <1>1, <2>3, PartialIs
<1> QED
  BY <1>2, <1>3
-----------------------------------------------------------------------------
(* The inductive invariant.                                                *)

LEMMA StockInvInit == Init => StockInv
<1> SUFFICES ASSUME Init PROVE StockInv
  OBVIOUS
<1>1. <<>> \in Partial(Row) /\ DOMAIN <<>> = {} /\ <<>> \in Seq(Products)
  BY PartialEmpty
<1>2. InitRows \subseteq Row
  BY StockDataAssumption DEF Row
<1>3. TypeOK
  BY <1>1, <1>2 DEF Init, TypeOK
<1>4. OnlySanitized /\ WithinLocks /\ IdsDrawn /\ ReadsStayCurrent /\ DrawnAbove
  BY <1>1 DEF Init, OnlySanitized, WithinLocks, IdsDrawn, ReadsStayCurrent,
     DrawnAbove, InTrx
<1> QED
  BY <1>3, <1>4 DEF StockInv

(* A rollback frees the locks of the transaction and forgets all it did.   *)
LEMMA RollbackKeepsInv ==
  ASSUME StockInv, NEW r \in Requests, NEW answer \in Answered, Rollback(r, answer)
  PROVE  StockInv'
<1>1. <<>> \in Partial(Row) /\ DOMAIN <<>> = {} /\ <<>> \in Seq(Products)
  BY PartialEmpty
<1>2. TypeOK'
  BY <1>1 DEF StockInv, TypeOK, Rollback
<1>3. OnlySanitized'
  BY DEF StockInv, TypeOK, OnlySanitized, Rollback, Answered, InTrx
<1>4. WithinLocks'
  BY <1>1 DEF StockInv, TypeOK, WithinLocks, Rollback, Drawn
<1>5. IdsDrawn' /\ DrawnAbove'
  BY DEF StockInv, TypeOK, IdsDrawn, DrawnAbove, Rollback
<1>6. ReadsStayCurrent'
  <2> SUFFICES ASSUME NEW s \in Requests, NEW p \in DOMAIN seen'[s]
               PROVE  lock'[p] = s /\ p \in provisioned' /\ seen'[s][p] = row'[p]
    BY DEF ReadsStayCurrent
  <2>1. s # r /\ seen'[s] = seen[s]
    BY <1>1 DEF StockInv, TypeOK, Rollback
  <2>2. lock[p] = s /\ p \in provisioned /\ seen[s][p] = row[p] /\ p \in Products
    BY <2>1, SeenRows DEF StockInv, ReadsStayCurrent
  <2> QED
    BY <2>1, <2>2 DEF Rollback
<1> QED
  BY <1>2, <1>3, <1>4, <1>5, <1>6 DEF StockInv

LEMMA BeginKeepsInv ==
  ASSUME StockInv, NEW r \in Requests, Begin(r)
  PROVE  StockInv'
<1>1. UNCHANGED <<provisioned, row, outbox, nextId, lock, req, seen, plan, written,
                  inserted>>
  BY DEF Begin
<1>2. /\ req[r] \in Ops /\ Targets(req[r]) \subseteq Products
      /\ IsFiniteSet(Targets(req[r]) \cap provisioned)
  BY TargetsAreProducts, FS_Intersection DEF StockInv, TypeOK
<1>3. /\ scan' \in [Requests -> Seq(Products)]
      /\ \A s \in Requests : \A i \in DOMAIN scan'[s] :
           scan'[s][i] \in Targets(req[s]) \cap provisioned
  <2>1. CASE UNCHANGED scan
    BY <2>1 DEF StockInv, TypeOK, WithinLocks
  <2>2. CASE \E o \in ScanOrders(Targets(req[r]) \cap provisioned) :
               scan' = [scan EXCEPT ![r] = o]
    <3> PICK o \in ScanOrders(Targets(req[r]) \cap provisioned) :
               scan' = [scan EXCEPT ![r] = o]
      BY <2>2
    <3>1. o \in Seq(Products)
          /\ \A i \in DOMAIN o : o[i] \in Targets(req[r]) \cap provisioned
      BY <1>2, ScanOrdersAreSequences
    <3> QED
      BY <3>1 DEF StockInv, TypeOK, WithinLocks
  <2> QED
    BY <2>1, <2>2 DEF Begin
<1>4. /\ pc' \in [Requests -> {"idle"} \cup InTrx \cup Answered]
      /\ OnlySanitized'
  BY DEF Begin, StockInv, TypeOK, OnlySanitized, InTrx, Answered
<1>5. TypeOK'
  BY <1>1, <1>3, <1>4 DEF StockInv, TypeOK
<1>6. WithinLocks'
  BY <1>1, <1>3 DEF StockInv, WithinLocks, Drawn
<1>7. IdsDrawn' /\ DrawnAbove' /\ ReadsStayCurrent'
  BY <1>1 DEF StockInv, IdsDrawn, DrawnAbove, ReadsStayCurrent
<1> QED
  BY <1>4, <1>5, <1>6, <1>7 DEF StockInv

(* The row was free: nobody has read it for update.                        *)
LEMMA LockRowKeepsInv ==
  ASSUME StockInv, NEW r \in Requests, LockRow(r)
  PROVE  StockInv'
<1> DEFINE p == Head(scan[r])
           read == [q \in DOMAIN seen[r] \cup {p} |->
                      IF q = p THEN row[p] ELSE seen[r][q]]
<1>1. /\ pc[r] = "locking" /\ scan[r] # <<>> /\ lock[p] = NoTrx
      /\ lock' = [lock EXCEPT ![p] = r]
      /\ seen' = [seen EXCEPT ![r] = read]
      /\ scan' = [scan EXCEPT ![r] = Tail(@)]
      /\ UNCHANGED <<provisioned, row, outbox, nextId, pc, req, plan, written,
                     inserted>>
  BY DEF LockRow
<1>2. /\ scan[r] \in Seq(Products) /\ Tail(scan[r]) \in Seq(Products)
      /\ 1 \in DOMAIN scan[r] /\ p = scan[r][1]
      /\ \A i \in DOMAIN Tail(scan[r]) :
           i + 1 \in DOMAIN scan[r] /\ Tail(scan[r])[i] = scan[r][i + 1]
  <2>1. scan[r] \in Seq(Products)
    BY DEF StockInv, TypeOK
  <2> QED
    BY <1>1, <2>1, SeqHeadTail
<1>3. p \in Targets(req[r]) \cap provisioned /\ p \in Products
  BY <1>2 DEF StockInv, WithinLocks, TypeOK
<1>4. read \in Partial(Row) /\ DOMAIN read = DOMAIN seen[r] \cup {p}
  <2>1. seen[r] \in Partial(Row) /\ row[p] \in Row
    BY <1>3 DEF StockInv, TypeOK
  <2>2. read \in Partial(Row)
    <3> HIDE DEF p
    <3> QED
      BY <1>3, <2>1, PartialExtended
  <2> QED
    BY <2>2
<1>5. \A q \in DOMAIN read : read[q] = IF q = p THEN row[p] ELSE seen[r][q]
  OBVIOUS
<1> HIDE DEF p, read
<1>6. TypeOK'
  BY <1>1, <1>2, <1>3, <1>4 DEF StockInv, TypeOK
<1>7. OnlySanitized' /\ IdsDrawn' /\ DrawnAbove'
  BY <1>1 DEF StockInv, OnlySanitized, IdsDrawn, DrawnAbove
<1>8. WithinLocks'
  <2> SUFFICES ASSUME NEW s \in Requests PROVE WithinLocks!(s)'
    BY DEF WithinLocks
  <2>1. CASE s = r
    BY <1>1, <1>2, <1>3, <1>4, <2>1 DEF StockInv, TypeOK, WithinLocks, Drawn
  <2>2. CASE s # r
    BY <1>1, <2>2 DEF StockInv, TypeOK, WithinLocks, Drawn
  <2> QED
    BY <2>1, <2>2
<1>9. ReadsStayCurrent'
  <2> SUFFICES ASSUME NEW s \in Requests, NEW q \in DOMAIN seen'[s]
               PROVE  lock'[q] = s /\ q \in provisioned' /\ seen'[s][q] = row'[q]
    BY DEF ReadsStayCurrent
  <2>1. CASE s = r /\ q = p
    BY <1>1, <1>3, <1>4, <1>5, <2>1 DEF StockInv, TypeOK
  <2>2. CASE s = r /\ q # p
    BY <1>1, <1>4, <1>5, <2>2, SeenRows DEF StockInv, TypeOK, ReadsStayCurrent
  <2>3. CASE s # r
    <3>1. seen'[s] = seen[s]
      BY <1>1, <2>3 DEF StockInv, TypeOK
    <3>2. lock[q] = s /\ q \in Products
      BY <3>1, SeenRows DEF StockInv, ReadsStayCurrent
    <3>3. q # p
      BY <1>1, <3>2, NoTrxAssumption
    <3> QED
      BY <1>1, <3>1, <3>2, <3>3 DEF StockInv, TypeOK, ReadsStayCurrent
  <2> QED
    BY <2>1, <2>2, <2>3
<1> QED
  BY <1>6, <1>7, <1>8, <1>9 DEF StockInv
LEMMA UpdateKeepsInv ==
  ASSUME StockInv, NEW r \in Requests, Update(r)
  PROVE  StockInv'
<1> PICK w \in Written(r) : written' = [written EXCEPT ![r] = w]
  BY DEF Update
<1>1. /\ Accepted(r) /\ \A c \in Plan(r) : c.value <= MaxInt
      /\ plan' = [plan EXCEPT ![r] = Plan(r)]
      /\ pc' = [pc EXCEPT ![r] = "emitting"]
      /\ UNCHANGED <<provisioned, row, outbox, nextId, lock, req, scan, seen, inserted>>
  BY DEF Update
<1>2. /\ Plan(r) \in SUBSET Change
      /\ \A c \in Plan(r) : c.aggregate \in DOMAIN seen[r] /\ c.ix \in 1..Drawn(r)
      /\ w \in Partial(Row) /\ DOMAIN w \subseteq DOMAIN seen[r]
  BY <1>1, PlanTyped, WrittenTyped DEF StockInv
<1>3. TypeOK'
  BY <1>1, <1>2 DEF StockInv, TypeOK, InTrx
<1>4. OnlySanitized'
  BY <1>1 DEF StockInv, TypeOK, OnlySanitized, InTrx, Accepted
<1>5. WithinLocks'
  <2> SUFFICES ASSUME NEW s \in Requests PROVE WithinLocks!(s)'
    BY DEF WithinLocks
  <2>1. Drawn(s)' = Drawn(s)
    BY <1>1 DEF Drawn
  <2>2. CASE s = r
    BY <1>1, <1>2, <2>1, <2>2 DEF StockInv, TypeOK, WithinLocks
  <2>3. CASE s # r
    BY <1>1, <2>1, <2>3 DEF StockInv, TypeOK, WithinLocks
  <2> QED
    BY <2>2, <2>3
<1>6. IdsDrawn' /\ DrawnAbove' /\ ReadsStayCurrent'
  BY <1>1 DEF StockInv, IdsDrawn, DrawnAbove, ReadsStayCurrent
<1> QED
  BY <1>3, <1>4, <1>5, <1>6 DEF StockInv

(* Ids are drawn above every id drawn before.                              *)
LEMMA EmitKeepsInv ==
  ASSUME StockInv, NEW r \in Requests, Emit(r)
  PROVE  StockInv'
<1> DEFINE event(c) == [id |-> nextId + c.ix, aggregate |-> c.aggregate,
                        type |-> c.type, value |-> c.value]
           new == Numbered(nextId, plan[r])
<1>1. /\ pc[r] = "emitting" /\ nextId' = nextId + Drawn(r)
      /\ inserted' = [inserted EXCEPT ![r] = new]
      /\ pc' = [pc EXCEPT ![r] = "committing"]
      /\ UNCHANGED <<provisioned, row, outbox, lock, req, scan, seen, plan, written>>
  BY DEF Emit
<1>2. Drawn(r) \in Nat /\ nextId \in Nat
  <2>1. req[r].op # "patch" => Len(req[r].items) \in Nat
    <3>1. req[r] \in Ops
      BY DEF StockInv, TypeOK
    <3> QED
      BY <3>1, RequestShape, ItemsShape
  <2> QED
    BY <2>1 DEF Drawn, StockInv, TypeOK
<1>3. ASSUME NEW c \in plan[r]
      PROVE  /\ event(c) \in Event /\ event(c).aggregate \in DOMAIN seen[r]
             /\ event(c).id > nextId /\ event(c).id <= nextId + Drawn(r)
  <2>1. c \in Change /\ c.aggregate \in DOMAIN seen[r] /\ c.ix \in 1..Drawn(r)
    BY DEF StockInv, TypeOK, WithinLocks
  <2> QED
    BY <1>2, <2>1 DEF Change, Event
<1>4. \A f \in new : /\ f \in Event /\ f.aggregate \in DOMAIN seen[r]
                     /\ f.id > nextId /\ f.id <= nextId + Drawn(r)
  BY <1>3 DEF Numbered
<1> HIDE DEF new
<1>5. TypeOK'
  BY <1>1, <1>2, <1>4 DEF StockInv, TypeOK, InTrx
<1>6. OnlySanitized'
  BY <1>1 DEF StockInv, TypeOK, OnlySanitized, InTrx
<1>7. WithinLocks'
  <2> SUFFICES ASSUME NEW s \in Requests PROVE WithinLocks!(s)'
    BY DEF WithinLocks
  <2>1. Drawn(s)' = Drawn(s)
    BY <1>1 DEF Drawn
  <2> QED
    BY <1>1, <1>4, <2>1 DEF StockInv, TypeOK, WithinLocks
<1>8. IdsDrawn'
  <2>1. ASSUME NEW e \in outbox PROVE e.id <= nextId'
    BY <1>1, <1>2, <2>1 DEF StockInv, TypeOK, IdsDrawn, Event
  <2>2. ASSUME NEW s \in Requests, NEW f \in inserted'[s] PROVE f.id <= nextId'
    <3>1. CASE s = r
      BY <1>1, <1>4, <3>1 DEF StockInv, TypeOK
    <3>2. CASE s # r
      <4>1. f \in inserted[s] /\ f.id \in Nat
        BY <1>1, <3>2 DEF StockInv, TypeOK, Event
      <4> QED
        BY <1>1, <1>2, <4>1 DEF StockInv, IdsDrawn
    <3> QED
      BY <3>1, <3>2
  <2> QED
    BY <1>1, <2>1, <2>2 DEF IdsDrawn
<1>9. DrawnAbove'
  <2> SUFFICES ASSUME NEW s \in Requests, NEW f \in inserted'[s], NEW e \in outbox,
                      e.aggregate = f.aggregate
               PROVE  e.id < f.id
    BY <1>1 DEF DrawnAbove
  <2>1. CASE s = r
    <3>1. f.id > nextId /\ f.id \in Nat /\ e.id <= nextId /\ e.id \in Nat
      BY <1>1, <1>4, <2>1 DEF StockInv, TypeOK, IdsDrawn, Event
    <3> QED
      BY <1>2, <3>1
  <2>2. CASE s # r
    BY <1>1, <2>2 DEF StockInv, TypeOK, DrawnAbove
  <2> QED
    BY <2>1, <2>2
<1>10. ReadsStayCurrent'
  BY <1>1 DEF StockInv, ReadsStayCurrent
<1> QED
  BY <1>5, <1>6, <1>7, <1>8, <1>9, <1>10 DEF StockInv

(* The commit changes and announces only rows the transaction has locked,  *)
(* so nobody else has read them or drawn an id for them.                   *)
LEMMA CommitKeepsInv ==
  ASSUME StockInv, NEW r \in Requests, Commit(r)
  PROVE  StockInv'
<1> PICK answer \in {"ok", "failed"} : pc' = [pc EXCEPT ![r] = answer]
  BY DEF Commit
<1>1. /\ row' = [p \in Products |->
                   IF p \in DOMAIN written[r] THEN written[r][p] ELSE row[p]]
      /\ outbox' = outbox \cup inserted[r]
      /\ lock' = [p \in Products |-> IF lock[p] = r THEN NoTrx ELSE lock[p]]
      /\ seen' = [seen EXCEPT ![r] = <<>>]
      /\ plan' = [plan EXCEPT ![r] = {}]
      /\ written' = [written EXCEPT ![r] = <<>>]
      /\ inserted' = [inserted EXCEPT ![r] = {}]
      /\ UNCHANGED <<provisioned, nextId, req, scan>>
  BY DEF Commit
<1>2. <<>> \in Partial(Row) /\ DOMAIN <<>> = {}
  BY PartialEmpty
<1>3. \A p \in DOMAIN written[r] : written[r][p] \in Row /\ lock[p] = r
  <2>1. written[r] \in Partial(Row) /\ DOMAIN written[r] \subseteq DOMAIN seen[r]
    BY DEF StockInv, TypeOK, WithinLocks
  <2> QED
    BY <2>1, PartialIs DEF StockInv, ReadsStayCurrent
<1>4. TypeOK'
  <2>1. row' \in [Products -> Row]
    BY <1>1, <1>3 DEF StockInv, TypeOK
  <2> QED
    BY <1>1, <1>2, <2>1 DEF StockInv, TypeOK, Answered
<1>5. OnlySanitized'
  BY <1>1 DEF StockInv, TypeOK, OnlySanitized, InTrx
<1>6. WithinLocks'
  <2> SUFFICES ASSUME NEW s \in Requests PROVE WithinLocks!(s)'
    BY DEF WithinLocks
  <2>1. Drawn(s)' = Drawn(s)
    BY <1>1 DEF Drawn
  <2> QED
    BY <1>1, <1>2, <2>1 DEF StockInv, TypeOK, WithinLocks
<1>7. ReadsStayCurrent'
  <2> SUFFICES ASSUME NEW s \in Requests, NEW p \in DOMAIN seen'[s]
               PROVE  lock'[p] = s /\ p \in provisioned' /\ seen'[s][p] = row'[p]
    BY DEF ReadsStayCurrent
  <2>1. s # r /\ seen'[s] = seen[s]
    BY <1>1, <1>2 DEF StockInv, TypeOK
  <2>2. lock[p] = s /\ p \in provisioned /\ seen[s][p] = row[p] /\ p \in Products
    BY <2>1, SeenRows DEF StockInv, ReadsStayCurrent
  <2>3. p \notin DOMAIN written[r]
    BY <1>3, <2>1, <2>2
  <2> QED
    BY <1>1, <2>1, <2>2, <2>3
<1>8. IdsDrawn'
  BY <1>1 DEF StockInv, TypeOK, IdsDrawn
<1>9. DrawnAbove'
  <2> SUFFICES ASSUME NEW s \in Requests, NEW f \in inserted'[s], NEW e \in outbox',
                      e.aggregate = f.aggregate
               PROVE  e.id < f.id
    BY DEF DrawnAbove
  <2>1. s # r /\ f \in inserted[s]
    BY <1>1 DEF StockInv, TypeOK
  <2>2. CASE e \in outbox
    BY <2>1, <2>2 DEF StockInv, DrawnAbove
  <2>3. CASE e \in inserted[r]
    <3>1. e.aggregate \in DOMAIN seen[r] /\ f.aggregate \in DOMAIN seen[s]
      BY <2>1, <2>3 DEF StockInv, WithinLocks
    <3>2. lock[e.aggregate] = r /\ lock[f.aggregate] = s
      BY <3>1 DEF StockInv, ReadsStayCurrent
    <3> QED
      BY <2>1, <3>2
  <2> QED
    BY <1>1, <2>2, <2>3
<1> QED
  BY <1>4, <1>5, <1>6, <1>7, <1>8, <1>9 DEF StockInv

(* Nobody has read the row of a product that has none yet.                 *)
LEMMA CreateProductKeepsInv ==
  ASSUME StockInv, NEW p \in Products, CreateProduct(p)
  PROVE  StockInv'
<1>1. /\ p \notin provisioned /\ provisioned' = provisioned \cup {p}
      /\ row' = [row EXCEPT ![p] = NewRow]
      /\ UNCHANGED <<outbox, nextId, lock, pc, req, scan, seen, plan, written, inserted>>
  BY DEF CreateProduct, trxVars
<1>2. NewRow \in Row
  BY StockDataAssumption DEF NewRow, Row
<1>3. TypeOK'
  BY <1>1, <1>2 DEF StockInv, TypeOK
<1>4. OnlySanitized' /\ IdsDrawn' /\ DrawnAbove'
  BY <1>1 DEF StockInv, OnlySanitized, IdsDrawn, DrawnAbove
<1>5. WithinLocks'
  BY <1>1 DEF StockInv, WithinLocks, Drawn
<1>6. ReadsStayCurrent'
  BY <1>1 DEF StockInv, TypeOK, ReadsStayCurrent
<1> QED
  BY <1>3, <1>4, <1>5, <1>6 DEF StockInv

LEMMA StockInvStep == StockInv /\ [Next]_vars => StockInv'
<1> SUFFICES ASSUME StockInv, [Next]_vars PROVE StockInv'
  OBVIOUS
<1>1. ASSUME NEW r \in Requests, Statement(r) PROVE StockInv'
  <2>1. CASE Refuse(r) \/ Overflow(r)
    BY <2>1, RollbackKeepsInv DEF Refuse, Overflow, Answered
  <2> QED
    BY <1>1, <2>1, BeginKeepsInv, LockRowKeepsInv, UpdateKeepsInv, EmitKeepsInv,
       CommitKeepsInv DEF Statement
<1>2. ASSUME NEW r \in Requests, Abort(r) \/ DeadlockVictim(r) PROVE StockInv'
  BY <1>2, RollbackKeepsInv DEF Abort, DeadlockVictim, Answered
<1>3. ASSUME NEW p \in Products, CreateProduct(p) PROVE StockInv'
  BY <1>3, CreateProductKeepsInv
<1>4. ASSUME UNCHANGED vars PROVE StockInv'
  BY <1>4 DEF vars, trxVars, StockInv, TypeOK, OnlySanitized, WithinLocks, IdsDrawn,
     ReadsStayCurrent, DrawnAbove, Drawn
<1> QED
  BY <1>1, <1>2, <1>3, <1>4 DEF Next
-----------------------------------------------------------------------------
(* What a transaction has decided.                                         *)

LEMMA DecisionInvInit == Init => DecisionInv
<1> SUFFICES ASSUME Init PROVE DecisionInv
  OBVIOUS
<1>1. StockInv
  BY StockInvInit
<1>2. \A r \in Requests : ReadsAll(r) /\ KeepsToPlan(r) /\ AnnouncesPlan(r)
  BY DEF Init, ReadsAll, KeepsToPlan, AnnouncesPlan, InTrx
<1>3. outbox = {}
  BY DEF Init
<1> QED
  BY <1>1, <1>2, <1>3 DEF DecisionInv

(* What a request decides depends on what it asks for and what it has read.*)
LEMMA SameDecision ==
  ASSUME NEW r \in Requests, req' = req, seen'[r] = seen[r]
  PROVE  /\ Offending(r)' = Offending(r)
         /\ Plan(r)' = Plan(r)
         /\ Written(r)' = Written(r)
<1>1. Offending(r)' = Offending(r)
  BY DEF Offending
<1>2. Patched(r)' = Patched(r)
  BY DEF Patched
<1>3. Plan(r)' = Plan(r)
  <2>1. PatchPlan(r)' = PatchPlan(r)
    BY <1>2 DEF PatchPlan
  <2>2. Computed(r)' = Computed(r)
    BY DEF Computed
  <2> QED
    BY <2>1, <2>2 DEF Plan
<1>4. Written(r)' = Written(r)
  BY <1>2, <1>3 DEF Written
<1> QED
  BY <1>1, <1>3, <1>4

(* A step of somebody else leaves a transaction's decision alone.          *)
LEMMA DecisionKept ==
  ASSUME DecisionInv, NEW r \in Requests,
         pc'[r] = pc[r], scan'[r] = scan[r], seen'[r] = seen[r], plan'[r] = plan[r],
         written'[r] = written[r], inserted'[r] = inserted[r], req' = req,
         Targets(req[r]) \cap provisioned' = Targets(req[r]) \cap provisioned
           \/ pc[r] \notin InTrx,
         nextId' \in Nat, nextId <= nextId'
  PROVE  ReadsAll(r)' /\ KeepsToPlan(r)' /\ AnnouncesPlan(r)'
<1>1. ReadsAll(r) /\ KeepsToPlan(r) /\ AnnouncesPlan(r) /\ nextId \in Nat
  BY DEF DecisionInv, StockInv, TypeOK
<1>2. ReadsAll(r)'
  BY <1>1 DEF ReadsAll
<1>3. KeepsToPlan(r)'
  BY <1>1, SameDecision DEF KeepsToPlan
<1>4. AnnouncesPlan(r)'
  <2>1. \A n \in 0..nextId : n \in 0..nextId'
    BY <1>1
  <2> QED
    BY <1>1, <2>1 DEF AnnouncesPlan, Numbered
<1> QED
  BY <1>2, <1>3, <1>4

(* A scan order visits every row.                                          *)
LEMMA ScanOrdersVisitAll ==
  ASSUME NEW S, IsFiniteSet(S), NEW s \in ScanOrders(S)
  PROVE  {s[i] : i \in DOMAIN s} = S
<1> DEFINE n == Cardinality(S)
<1>1. n \in Nat
  BY FS_CardinalityType
<1>2. s \in [1..n -> S] /\ DOMAIN s = 1..n
  BY DEF ScanOrders
<1>3. s \in Injection(1..n, S)
  BY <1>2 DEF ScanOrders, Injection, IsInjective
<1>4. Cardinality(1..n) = n
  <2>1. 1 \in Int /\ n \in Int
    BY <1>1
  <2>2. Cardinality(1..n) = IF 1 > n THEN 0 ELSE n - 1 + 1
    <3> HIDE DEF n
    <3> QED
      BY <2>1, FS_Interval, Zenon
  <2> HIDE DEF n
  <2> QED
    BY <1>1, <2>2
<1>5. s \in Surjection(1..n, S)
  <2> HIDE DEF n
  <2>1. Cardinality(1..n) = Cardinality(S)
    BY <1>4 DEF n
  <2> QED
    BY <1>3, <2>1, FS_Injection
<1>6. \A t \in S : \E i \in 1..n : s[i] = t
  BY <1>5 DEF Surjection
<1> HIDE DEF n
<1> QED
  BY <1>2, <1>6

LEMMA RollbackKeepsDecision ==
  ASSUME DecisionInv, NEW r \in Requests, NEW answer \in Answered, Rollback(r, answer)
  PROVE  DecisionInv'
<1>1. StockInv'
  BY RollbackKeepsInv DEF DecisionInv
<1>2. \A e \in outbox' : e.aggregate \in provisioned'
  BY DEF DecisionInv, Rollback
<1>3. ASSUME NEW s \in Requests
      PROVE  ReadsAll(s)' /\ KeepsToPlan(s)' /\ AnnouncesPlan(s)'
  <2>1. CASE s = r
    <3>1. pc'[r] = answer /\ inserted'[r] = {}
      BY DEF Rollback, DecisionInv, StockInv, TypeOK
    <3>2. answer \notin InTrx
      BY DEF Answered, InTrx
    <3> QED
      BY <2>1, <3>1, <3>2 DEF ReadsAll, KeepsToPlan, AnnouncesPlan, InTrx
  <2>2. CASE s # r
    <3>1. /\ pc'[s] = pc[s] /\ scan'[s] = scan[s] /\ seen'[s] = seen[s]
          /\ plan'[s] = plan[s] /\ written'[s] = written[s] /\ inserted'[s] = inserted[s]
          /\ req' = req /\ provisioned' = provisioned /\ nextId' = nextId
          /\ nextId \in Nat
      BY <2>2 DEF Rollback, DecisionInv, StockInv, TypeOK
    <3> QED
      BY <3>1, DecisionKept
  <2> QED
    BY <2>1, <2>2
<1> QED
  BY <1>1, <1>2, <1>3 DEF DecisionInv

LEMMA BeginKeepsDecision ==
  ASSUME DecisionInv, NEW r \in Requests, Begin(r)
  PROVE  DecisionInv'
<1>1. StockInv'
  BY BeginKeepsInv DEF DecisionInv
<1>2. UNCHANGED <<provisioned, row, outbox, nextId, lock, req, seen, plan, written,
                  inserted>>
  BY DEF Begin
<1>3. ASSUME NEW s \in Requests
      PROVE  ReadsAll(s)' /\ KeepsToPlan(s)' /\ AnnouncesPlan(s)'
  <2>1. CASE s = r
    <3>1. inserted[r] = {} /\ pc[r] = "idle"
      BY DEF DecisionInv, AnnouncesPlan, Begin
    <3>2. CASE pc'[r] = "rejected"
      BY <1>2, <2>1, <3>1, <3>2 DEF ReadsAll, KeepsToPlan, AnnouncesPlan, InTrx
    <3>3. CASE /\ pc'[r] = "locking"
               /\ \E o \in ScanOrders(Targets(req[r]) \cap provisioned) :
                    scan' = [scan EXCEPT ![r] = o]
      <4> DEFINE S == Targets(req[r]) \cap provisioned
      <4>1. PICK o \in ScanOrders(S) : scan' = [scan EXCEPT ![r] = o]
        BY <3>3
      <4>2. scan'[r] = o
        BY <4>1 DEF DecisionInv, StockInv, TypeOK
      <4>3. IsFiniteSet(S)
        BY TargetsAreProducts, FS_Intersection DEF DecisionInv, StockInv, TypeOK
      <4>4. {o[i] : i \in DOMAIN o} = S
        <5> HIDE DEF S
        <5> QED
          BY <4>3, ScanOrdersVisitAll
      <4>5. DOMAIN seen[r] \subseteq S
        BY DEF DecisionInv, StockInv, WithinLocks, ReadsStayCurrent
      <4>6. ReadsAll(s)'
        BY <1>2, <2>1, <4>2, <4>4, <4>5 DEF ReadsAll
      <4> QED
        BY <1>2, <2>1, <3>1, <3>3, <4>6 DEF KeepsToPlan, AnnouncesPlan
    <3> QED
      BY <3>2, <3>3 DEF Begin, DecisionInv, StockInv, TypeOK
  <2>2. CASE s # r
    <3>1. pc'[s] = pc[s] /\ scan'[s] = scan[s] /\ nextId \in Nat
      BY <2>2 DEF Begin, DecisionInv, StockInv, TypeOK
    <3> QED
      BY <1>2, <3>1, DecisionKept
  <2> QED
    BY <2>1, <2>2
<1> QED
  BY <1>1, <1>2, <1>3 DEF DecisionInv

LEMMA LockRowKeepsDecision ==
  ASSUME DecisionInv, NEW r \in Requests, LockRow(r)
  PROVE  DecisionInv'
<1>1. StockInv'
  BY LockRowKeepsInv DEF DecisionInv
<1>2. UNCHANGED <<provisioned, row, outbox, nextId, pc, req, plan, written, inserted>>
  BY DEF LockRow
<1>3. ASSUME NEW s \in Requests
      PROVE  ReadsAll(s)' /\ KeepsToPlan(s)' /\ AnnouncesPlan(s)'
  <2>1. CASE s = r
    <3>1. /\ pc[r] = "locking" /\ scan[r] # <<>> /\ scan[r] \in Seq(Products)
          /\ scan'[r] = Tail(scan[r])
          /\ DOMAIN seen'[r] = DOMAIN seen[r] \cup {Head(scan[r])}
      BY DEF LockRow, DecisionInv, StockInv, TypeOK
    <3>2. {scan[r][i] : i \in DOMAIN scan[r]}
            = {Head(scan[r])} \cup {Tail(scan[r])[i] : i \in DOMAIN Tail(scan[r])}
      <4> DEFINE q == scan[r]
      <4>1. /\ Len(q) \in Nat \ {0} /\ DOMAIN q = 1..Len(q) /\ Head(q) = q[1]
            /\ DOMAIN Tail(q) = 1..(Len(q) - 1)
            /\ \A i \in 1..(Len(q) - 1) : Tail(q)[i] = q[i + 1]
        <5> HIDE DEF q
        <5>1. q \in Seq(Products) /\ q # <<>>
          BY <3>1 DEF q
        <5> QED
          BY <5>1
      <4>2. ASSUME NEW i \in DOMAIN q
            PROVE  q[i] = Head(q) \/ \E j \in DOMAIN Tail(q) : q[i] = Tail(q)[j]
        <5>1. CASE i = 1
          BY <4>1, <5>1
        <5>2. CASE i # 1
          <6>1. i - 1 \in 1..(Len(q) - 1) /\ (i - 1) + 1 = i
            BY <4>1, <5>2
          <6> QED
            BY <4>1, <6>1
        <5> QED
          BY <5>1, <5>2
      <4>3. ASSUME NEW j \in DOMAIN Tail(q)
            PROVE  \E i \in DOMAIN q : Tail(q)[j] = q[i]
        <5>1. j + 1 \in DOMAIN q
          BY <4>1
        <5> QED
          BY <4>1, <5>1
      <4>4. 1 \in DOMAIN q
        BY <4>1
      <4> DEFINE rest == {Tail(q)[i] : i \in DOMAIN Tail(q)}
      <4>5. \A i \in DOMAIN q : q[i] \in {Head(q)} \cup rest
        BY <4>2
      <4>6. \A j \in DOMAIN Tail(q) : Tail(q)[j] \in {q[i] : i \in DOMAIN q}
        BY <4>3
      <4>7. Head(q) \in {q[i] : i \in DOMAIN q}
        BY <4>1, <4>4
      <4> HIDE DEF q
      <4> QED
        BY <4>5, <4>6, <4>7 DEF q
    <3>3. ReadsAll(r)
      BY DEF DecisionInv
    <3>4. ReadsAll(r)'
      BY <1>2, <3>1, <3>2, <3>3 DEF ReadsAll, InTrx
    <3> QED
      BY <1>2, <2>1, <3>1, <3>4 DEF KeepsToPlan, AnnouncesPlan, DecisionInv
  <2>2. CASE s # r
    <3>1. scan'[s] = scan[s] /\ seen'[s] = seen[s] /\ nextId \in Nat
      BY <2>2 DEF LockRow, DecisionInv, StockInv, TypeOK
    <3> QED
      BY <1>2, <3>1, DecisionKept
  <2> QED
    BY <2>1, <2>2
<1> QED
  BY <1>1, <1>2, <1>3 DEF DecisionInv

LEMMA UpdateKeepsDecision ==
  ASSUME DecisionInv, NEW r \in Requests, Update(r)
  PROVE  DecisionInv'
<1>1. StockInv'
  BY UpdateKeepsInv DEF DecisionInv
<1>2. /\ Accepted(r) /\ \A c \in Plan(r) : c.value <= MaxInt
      /\ plan' = [plan EXCEPT ![r] = Plan(r)]
      /\ pc' = [pc EXCEPT ![r] = "emitting"]
      /\ \E w \in Written(r) : written' = [written EXCEPT ![r] = w]
      /\ UNCHANGED <<provisioned, row, outbox, nextId, lock, req, scan, seen, inserted>>
  BY DEF Update
<1>3. ASSUME NEW s \in Requests
      PROVE  ReadsAll(s)' /\ KeepsToPlan(s)' /\ AnnouncesPlan(s)'
  <2>1. CASE s = r
    <3>1. /\ pc[r] = "locking" /\ scan[r] = <<>>
          /\ req[r].op = "reserve" => Offending(r) = {}
          /\ req[r].op = "patch" => DOMAIN seen[r] # {}
      BY <1>2 DEF Accepted
    <3>2. pc'[r] = "emitting" /\ plan'[r] = Plan(r) /\ written'[r] \in Written(r)
      BY <1>2 DEF DecisionInv, StockInv, TypeOK
    <3>3. /\ Plan(r)' = Plan(r) /\ Written(r)' = Written(r)
          /\ Offending(r)' = Offending(r)
      BY <1>2, SameDecision
    <3>4. ReadsAll(r) /\ inserted[r] = {}
      BY <3>1 DEF DecisionInv, AnnouncesPlan
    <3>5. ReadsAll(r)'
      BY <1>2, <3>1, <3>4 DEF ReadsAll, InTrx
    <3>6. KeepsToPlan(r)'
      BY <1>2, <3>1, <3>2, <3>3 DEF KeepsToPlan
    <3>7. AnnouncesPlan(r)'
      BY <1>2, <3>2, <3>4 DEF AnnouncesPlan
    <3> QED
      BY <2>1, <3>5, <3>6, <3>7
  <2>2. CASE s # r
    <3>1. /\ pc'[s] = pc[s] /\ plan'[s] = plan[s] /\ written'[s] = written[s]
          /\ nextId \in Nat
      BY <1>2, <2>2 DEF DecisionInv, StockInv, TypeOK
    <3> QED
      BY <1>2, <3>1, DecisionKept
  <2> QED
    BY <2>1, <2>2
<1> QED
  BY <1>1, <1>2, <1>3 DEF DecisionInv

LEMMA EmitKeepsDecision ==
  ASSUME DecisionInv, NEW r \in Requests, Emit(r)
  PROVE  DecisionInv'
<1>1. StockInv'
  BY EmitKeepsInv DEF DecisionInv
<1>2. /\ pc[r] = "emitting" /\ nextId' = nextId + Drawn(r)
      /\ inserted' = [inserted EXCEPT ![r] = Numbered(nextId, plan[r])]
      /\ pc' = [pc EXCEPT ![r] = "committing"]
      /\ UNCHANGED <<provisioned, row, outbox, lock, req, scan, seen, plan, written>>
  BY DEF Emit
<1>3. nextId \in Nat /\ nextId' \in Nat /\ nextId <= nextId'
  <2>1. req[r].op # "patch" => Len(req[r].items) \in Nat
    BY RequestShape, ItemsShape DEF DecisionInv, StockInv, TypeOK
  <2> QED
    BY <1>2, <2>1 DEF Drawn, DecisionInv, StockInv, TypeOK
<1>4. ASSUME NEW s \in Requests
      PROVE  ReadsAll(s)' /\ KeepsToPlan(s)' /\ AnnouncesPlan(s)'
  <2>1. CASE s = r
    <3>1. pc'[r] = "committing" /\ inserted'[r] = Numbered(nextId, plan[r])
      BY <1>2 DEF DecisionInv, StockInv, TypeOK
    <3>2. ReadsAll(r) /\ KeepsToPlan(r)
      BY DEF DecisionInv
    <3>3. ReadsAll(r)'
      BY <1>2, <3>1, <3>2 DEF ReadsAll, InTrx
    <3>4. KeepsToPlan(r)'
      BY <1>2, <3>1, <3>2, SameDecision DEF KeepsToPlan
    <3>5. AnnouncesPlan(r)'
      <4>1. nextId \in 0..nextId'
        BY <1>3
      <4>2. Numbered(nextId, plan'[r]) = Numbered(nextId, plan[r])
        BY <1>2 DEF Numbered
      <4>3. AnnouncesPlan(r)' <=> (IF pc'[r] = "committing"
              THEN \E n \in 0..nextId' : inserted'[r] = Numbered(n, plan'[r])
              ELSE inserted'[r] = {})
        BY DEF AnnouncesPlan
      <4> QED
        BY <3>1, <4>1, <4>2, <4>3
    <3> QED
      BY <2>1, <3>3, <3>4, <3>5
  <2>2. CASE s # r
    <3>1. pc'[s] = pc[s] /\ inserted'[s] = inserted[s]
      BY <1>2, <2>2 DEF DecisionInv, StockInv, TypeOK
    <3> QED
      BY <1>2, <1>3, <3>1, DecisionKept
  <2> QED
    BY <2>1, <2>2
<1> QED
  BY <1>1, <1>2, <1>4 DEF DecisionInv

LEMMA CommitKeepsDecision ==
  ASSUME DecisionInv, NEW r \in Requests, Commit(r)
  PROVE  DecisionInv'
<1>1. StockInv'
  BY CommitKeepsInv DEF DecisionInv
<1>2. /\ outbox' = outbox \cup inserted[r]
      /\ \E answer \in {"ok", "failed"} : pc' = [pc EXCEPT ![r] = answer]
      /\ seen' = [seen EXCEPT ![r] = <<>>]
      /\ plan' = [plan EXCEPT ![r] = {}]
      /\ written' = [written EXCEPT ![r] = <<>>]
      /\ inserted' = [inserted EXCEPT ![r] = {}]
      /\ UNCHANGED <<provisioned, nextId, req, scan>>
  BY DEF Commit
<1>3. \A e \in outbox' : e.aggregate \in provisioned'
  <2>1. \A f \in inserted[r] : f.aggregate \in provisioned
    BY DEF DecisionInv, StockInv, WithinLocks, ReadsStayCurrent
  <2> QED
    BY <1>2, <2>1 DEF DecisionInv
<1>4. ASSUME NEW s \in Requests
      PROVE  ReadsAll(s)' /\ KeepsToPlan(s)' /\ AnnouncesPlan(s)'
  <2>1. CASE s = r
    <3>1. pc'[r] \in {"ok", "failed"} /\ inserted'[r] = {}
      BY <1>2 DEF DecisionInv, StockInv, TypeOK
    <3> QED
      BY <2>1, <3>1 DEF ReadsAll, KeepsToPlan, AnnouncesPlan, InTrx
  <2>2. CASE s # r
    <3>1. /\ pc'[s] = pc[s] /\ seen'[s] = seen[s] /\ plan'[s] = plan[s]
          /\ written'[s] = written[s] /\ inserted'[s] = inserted[s] /\ nextId \in Nat
      BY <1>2, <2>2 DEF DecisionInv, StockInv, TypeOK
    <3> QED
      BY <1>2, <3>1, DecisionKept
  <2> QED
    BY <2>1, <2>2
<1> QED
  BY <1>1, <1>3, <1>4 DEF DecisionInv

LEMMA CreateProductKeepsDecision ==
  ASSUME DecisionInv, NEW p \in Products, CreateProduct(p)
  PROVE  DecisionInv'
<1>1. StockInv'
  BY CreateProductKeepsInv DEF DecisionInv
<1>2. /\ \A r \in Requests : pc[r] \in InTrx => p \notin Targets(req[r])
      /\ provisioned' = provisioned \cup {p}
      /\ UNCHANGED <<outbox, nextId, lock, pc, req, scan, seen, plan, written, inserted>>
  BY DEF CreateProduct, trxVars
<1>3. \A e \in outbox' : e.aggregate \in provisioned'
  BY <1>2 DEF DecisionInv
<1>4. nextId \in Nat
  BY DEF DecisionInv, StockInv, TypeOK
<1>5. ASSUME NEW s \in Requests
      PROVE  ReadsAll(s)' /\ KeepsToPlan(s)' /\ AnnouncesPlan(s)'
  <2>1. \/ Targets(req[s]) \cap provisioned' = Targets(req[s]) \cap provisioned
        \/ pc[s] \notin InTrx
    BY <1>2
  <2> QED
    BY <1>2, <1>4, <2>1, DecisionKept
<1> QED
  BY <1>1, <1>3, <1>5 DEF DecisionInv

LEMMA DecisionInvStep == DecisionInv /\ [Next]_vars => DecisionInv'
<1> SUFFICES ASSUME DecisionInv, [Next]_vars PROVE DecisionInv'
  OBVIOUS
<1>1. ASSUME NEW r \in Requests, Statement(r) PROVE DecisionInv'
  <2>1. CASE Refuse(r) \/ Overflow(r)
    BY <2>1, RollbackKeepsDecision DEF Refuse, Overflow, Answered
  <2> QED
    BY <1>1, <2>1, BeginKeepsDecision, LockRowKeepsDecision, UpdateKeepsDecision,
       EmitKeepsDecision, CommitKeepsDecision DEF Statement
<1>2. ASSUME NEW r \in Requests, Abort(r) \/ DeadlockVictim(r) PROVE DecisionInv'
  BY <1>2, RollbackKeepsDecision DEF Abort, DeadlockVictim, Answered
<1>3. ASSUME NEW p \in Products, CreateProduct(p) PROVE DecisionInv'
  BY <1>3, CreateProductKeepsDecision
<1>4. CASE UNCHANGED vars
  <2>1. StockInv'
    BY <1>4, StockInvStep DEF DecisionInv
  <2>2. UNCHANGED <<provisioned, outbox, nextId, pc, req, scan, seen, plan, written, inserted>>
    BY <1>4 DEF vars, trxVars
  <2>3. nextId \in Nat
    BY DEF DecisionInv, StockInv, TypeOK
  <2>4. ASSUME NEW s \in Requests
        PROVE  ReadsAll(s)' /\ KeepsToPlan(s)' /\ AnnouncesPlan(s)'
    BY <2>2, <2>3, DecisionKept
  <2> QED
    BY <2>1, <2>2, <2>4 DEF DecisionInv
<1> QED
  BY <1>1, <1>2, <1>3, <1>4 DEF Next
-----------------------------------------------------------------------------
(* What a commit does to the rows.                                         *)

(* Before its commit a transaction holds the current value of every row it *)
(* asked for that exists.                                                  *)
LEMMA CommitReads ==
  ASSUME DecisionInv, NEW r \in Requests, pc[r] = "committing"
  PROVE  /\ DOMAIN seen[r] = Targets(req[r]) \cap provisioned
         /\ \A p \in DOMAIN seen[r] : seen[r][p] = row[p] /\ p \in Products
         /\ plan[r] = Plan(r) /\ written[r] \in Written(r)
<1>1. ReadsAll(r) /\ KeepsToPlan(r) /\ ReadsStayCurrent /\ TypeOK
  BY DEF DecisionInv, StockInv
<1>2. scan[r] = <<>> /\ plan[r] = Plan(r) /\ written[r] \in Written(r)
  BY <1>1 DEF KeepsToPlan
<1>3. {scan[r][i] : i \in DOMAIN scan[r]} = {}
  BY <1>2, PartialEmpty
<1>4. DOMAIN seen[r] = Targets(req[r]) \cap provisioned
  BY <1>1, <1>3 DEF ReadsAll, InTrx
<1>5. \A p \in DOMAIN seen[r] : seen[r][p] = row[p] /\ p \in Products
  BY <1>1, SeenRows DEF ReadsStayCurrent
<1> QED
  BY <1>2, <1>4, <1>5

(* A reservation takes from the stock, a release adds to it.                *)
Sign(r) == IF req[r].op = "reserve" THEN -1 ELSE 1

LEMMA BatchWrites ==
  ASSUME NamedOnce, DecisionInv, NEW r \in Requests, pc[r] = "committing",
         req[r].op # "patch"
  PROVE  /\ DOMAIN written[r] = Target(req[r].items) \cap provisioned
         /\ \A i \in DOMAIN req[r].items :
              req[r].items[i].product \in provisioned =>
                written[r][req[r].items[i].product] =
                  [row[req[r].items[i].product] EXCEPT !.stock =
                     row[req[r].items[i].product].stock
                       + Sign(r) * req[r].items[i].quantity]
<1> DEFINE items == req[r].items
           touched == {c.aggregate : c \in Plan(r)}
           change(i) == [ix |-> i, aggregate |-> items[i].product, type |-> "stock",
                         value |-> seen[r][items[i].product].stock
                                     + Sign(r) * items[i].quantity]
<1>1. /\ DOMAIN seen[r] = Target(items) \cap provisioned
      /\ \A p \in DOMAIN seen[r] : seen[r][p] = row[p]
      /\ written[r] \in Written(r)
  BY CommitReads DEF Targets
<1>2. \A i, j \in DOMAIN items : items[i].product = items[j].product => i = j
  BY RequestShape DEF NamedOnce, DecisionInv, StockInv, TypeOK
<1>3. Plan(r) = {change(i) : i \in {j \in DOMAIN items : items[j].product \in DOMAIN seen[r]}}
  BY DEF Plan, Computed, Sign
<1>4. \A i : change(i).aggregate = items[i].product /\ change(i).ix = i
             /\ change(i).value = seen[r][items[i].product].stock
                                    + Sign(r) * items[i].quantity
  OBVIOUS
<1>5. PICK pick \in [touched -> Plan(r)] :
        /\ \A p \in touched : pick[p].aggregate = p
        /\ written[r] = [p \in touched |-> [seen[r][p] EXCEPT !.stock = pick[p].value]]
  BY <1>1 DEF Written
<1> HIDE DEF change
<1>6. touched = Target(items) \cap provisioned
  <2>1. \A c \in Plan(r) : c.aggregate \in DOMAIN seen[r]
    BY <1>3, <1>4
  <2>2. \A p \in DOMAIN seen[r] : \E i \in DOMAIN items : p = items[i].product
    BY <1>1 DEF Target
  <2>3. \A p \in DOMAIN seen[r] : \E c \in Plan(r) : p = c.aggregate
    BY <1>3, <1>4, <2>2
  <2>4. \A p \in DOMAIN seen[r] : p \in touched
    BY <2>3
  <2> QED
    BY <1>1, <2>1, <2>4
<1>7. ASSUME NEW i \in DOMAIN items, items[i].product \in provisioned
      PROVE  pick[items[i].product].value = seen[r][items[i].product].stock
                                              + Sign(r) * items[i].quantity
  <2>1. items[i].product \in touched
    BY <1>6, <1>7 DEF Target
  <2>2. pick[items[i].product] \in Plan(r)
        /\ pick[items[i].product].aggregate = items[i].product
    <3> HIDE DEF touched
    <3> QED
      BY <1>5, <2>1
  <2>3. PICK j \in DOMAIN items : pick[items[i].product] = change(j)
    BY <1>3, <2>2
  <2>4. i = j
    BY <1>2, <1>4, <2>2, <2>3
  <2> QED
    BY <1>4, <2>3, <2>4
<1>8. ASSUME NEW i \in DOMAIN items, items[i].product \in provisioned
      PROVE  written[r][items[i].product] =
               [row[items[i].product] EXCEPT !.stock =
                  row[items[i].product].stock + Sign(r) * items[i].quantity]
  <2> DEFINE p == items[i].product
  <2>1. p \in touched /\ p \in DOMAIN seen[r]
    BY <1>1, <1>6, <1>8 DEF Target
  <2>2. written[r][p] = [seen[r][p] EXCEPT !.stock = pick[p].value]
    <3> HIDE DEF touched, p
    <3> QED
      BY <1>5, <2>1
  <2>3. pick[p].value = seen[r][p].stock + Sign(r) * items[i].quantity
    BY <1>7, <1>8
  <2>4. seen[r][p] = row[p]
    BY <1>1, <2>1
  <2> HIDE DEF p
  <2> QED
    BY <2>2, <2>3, <2>4 DEF p
<1>9. DOMAIN written[r] = touched
  BY <1>5
<1> QED
  BY <1>6, <1>8, <1>9

LEMMA PatchWrites ==
  ASSUME DecisionInv, NEW r \in Requests, pc[r] = "committing", req[r].op = "patch"
  PROVE  /\ req[r].patch \in Patches /\ req[r].patch.product \in provisioned
         /\ req[r].patch.product \in Products
         /\ written[r] = [p \in {req[r].patch.product} |-> Patched(r)]
         /\ Patched(r) = [c \in DOMAIN row[req[r].patch.product] |->
                            IF c \in DOMAIN req[r].patch.set THEN req[r].patch.set[c]
                            ELSE row[req[r].patch.product][c]]
<1> DEFINE patch == req[r].patch
           touched == {c.aggregate : c \in Plan(r)}
           event(ix, type) == [ix |-> ix, aggregate |-> patch.product,
                               type |-> type, value |-> Patched(r)[type]]
<1>1. patch \in Patches
  BY RequestShape DEF DecisionInv, StockInv, TypeOK
<1>2. /\ DOMAIN seen[r] = {patch.product} \cap provisioned
      /\ \A p \in DOMAIN seen[r] : seen[r][p] = row[p] /\ p \in Products
      /\ written[r] \in Written(r)
  BY CommitReads DEF Targets
<1>3. DOMAIN seen[r] # {}
  BY DEF DecisionInv, KeepsToPlan
<1>4. patch.product \in DOMAIN seen[r] /\ patch.product \in provisioned
  BY <1>2, <1>3
<1>5. Patched(r) = [c \in DOMAIN row[patch.product] |->
                      IF c \in DOMAIN patch.set THEN patch.set[c]
                      ELSE row[patch.product][c]]
  BY <1>2, <1>4 DEF Patched
<1>6. touched = {patch.product}
  <2>1. DOMAIN patch.set \in (SUBSET {"price", "stock", "available"}) \ {{}}
    BY <1>1, StockDataAssumption, Zenon
  <2>2. Plan(r) = {event(1, "price") : c \in DOMAIN patch.set \cap {"price"}}
                    \cup {event(2, "stock") : c \in DOMAIN patch.set \cap {"stock", "available"}}
    BY DEF Plan, PatchPlan
  <2>3. \A ix, type : event(ix, type).aggregate = patch.product
    OBVIOUS
  <2> HIDE DEF event
  <2>4. Plan(r) # {}
    BY <2>1, <2>2
  <2>5. \A c \in Plan(r) : c.aggregate = patch.product
    BY <2>2, <2>3
  <2> QED
    BY <2>4, <2>5
<1>7. written[r] = [p \in {patch.product} |-> Patched(r)]
  <2>1. written[r] = [p \in touched |-> Patched(r)]
    BY <1>2 DEF Written
  <2> HIDE DEF touched
  <2> QED
    BY <1>6, <2>1
<1> QED
  BY <1>1, <1>2, <1>4, <1>5, <1>7
-----------------------------------------------------------------------------
(* What a commit announces.                                                *)

\* What changes announce, whatever their numbers.
Contents(changes) ==
  {[aggregate |-> c.aggregate, type |-> c.type, value |-> c.value] : c \in changes}

(* The announcements of a commit are those of its plan, numbered above all *)
(* those made before about the same products, in the order of the plan.    *)
LEMMA CommitAnnounces ==
  ASSUME DecisionInv, NEW r \in Requests, Commit(r),
         \A c, d \in plan[r] :
           c.aggregate = d.aggregate /\ c.type = d.type => c.ix = d.ix
  PROVE  Ledger!Announce(Contents(plan[r]))
<1>1. pc[r] = "committing" /\ outbox' = outbox \cup inserted[r]
  BY DEF Commit
<1>2. PICK n \in 0..nextId : inserted[r] = Numbered(n, plan[r])
  BY <1>1 DEF DecisionInv, AnnouncesPlan
<1> DEFINE event(c) == [id |-> n + c.ix, aggregate |-> c.aggregate, type |-> c.type,
                        value |-> c.value]
<1>3. inserted[r] = {event(c) : c \in plan[r]}
  BY <1>2 DEF Numbered
<1>4. \A c : /\ event(c).id = n + c.ix /\ event(c).aggregate = c.aggregate
             /\ event(c).type = c.type /\ event(c).value = c.value
  OBVIOUS
<1>5. \A e \in outbox, f \in inserted[r] : e.aggregate = f.aggregate => e.id < f.id
  BY DEF DecisionInv, StockInv, DrawnAbove
<1>6. outbox' \ outbox = inserted[r]
  <2>1. \A f \in inserted[r] : f.id \in Nat
    BY DEF DecisionInv, StockInv, TypeOK, Event
  <2>2. \A f \in inserted[r] : f \notin outbox
    BY <1>5, <2>1
  <2> QED
    BY <1>1, <2>2
<1> HIDE DEF event
<1>7. {Ledger!Content(e) : e \in inserted[r]} = Contents(plan[r])
  <2>1. \A c \in plan[r] :
          Ledger!Content(event(c)) =
            [aggregate |-> c.aggregate, type |-> c.type, value |-> c.value]
    BY <1>4 DEF Ledger!Content
  <2> QED
    BY <1>3, <2>1 DEF Contents
<1>8. ASSUME NEW e \in inserted[r], NEW f \in inserted[r],
             Ledger!Content(e) = Ledger!Content(f)
      PROVE  e = f
  <2>1. PICK c \in plan[r], d \in plan[r] : e = event(c) /\ f = event(d)
    BY <1>3
  <2>2. e.aggregate = f.aggregate /\ e.type = f.type /\ e.value = f.value
    BY <1>8 DEF Ledger!Content
  <2>3. c.aggregate = d.aggregate /\ c.type = d.type /\ c.value = d.value
    BY <1>4, <2>1, <2>2
  <2>4. c.ix = d.ix
    BY <2>3
  <2> QED
    BY <2>1, <2>3, <2>4 DEF event
<1>9. outbox \subseteq outbox'
  BY <1>1
<1> QED
  BY <1>5, <1>6, <1>7, <1>8, <1>9 DEF Ledger!Announce

LEMMA BatchPlan ==
  ASSUME NamedOnce, DecisionInv, NEW r \in Requests, pc[r] = "committing",
         req[r].op # "patch"
  PROVE  /\ plan[r] =
              {[ix |-> i, aggregate |-> req[r].items[i].product, type |-> "stock",
                value |-> row[req[r].items[i].product].stock
                            + Sign(r) * req[r].items[i].quantity]
                 : i \in {j \in DOMAIN req[r].items :
                            req[r].items[j].product \in provisioned}}
         /\ \A c, d \in plan[r] : c.aggregate = d.aggregate => c.ix = d.ix
<1> DEFINE items == req[r].items
           known == {j \in DOMAIN items : items[j].product \in provisioned}
           change(i) == [ix |-> i, aggregate |-> items[i].product, type |-> "stock",
                         value |-> row[items[i].product].stock
                                     + Sign(r) * items[i].quantity]
<1>1. /\ DOMAIN seen[r] = Target(items) \cap provisioned
      /\ \A p \in DOMAIN seen[r] : seen[r][p] = row[p]
      /\ plan[r] = Plan(r)
  BY CommitReads DEF Targets
<1>2. {j \in DOMAIN items : items[j].product \in DOMAIN seen[r]} = known
  BY <1>1 DEF Target
<1>3. \A j \in known : seen[r][items[j].product] = row[items[j].product]
  BY <1>1, <1>2
<1>4. Plan(r) = {[ix |-> i, aggregate |-> items[i].product, type |-> "stock",
                  value |-> seen[r][items[i].product].stock
                              + Sign(r) * items[i].quantity] : i \in known}
  <2> HIDE DEF known
  <2> QED
    BY <1>2 DEF Plan, Computed, Sign
<1>5. plan[r] = {change(i) : i \in known}
  <2> HIDE DEF known
  <2> QED
    BY <1>1, <1>3, <1>4
<1>6. \A i, j \in DOMAIN items : items[i].product = items[j].product => i = j
  BY RequestShape DEF NamedOnce, DecisionInv, StockInv, TypeOK
<1>7. \A i : change(i).aggregate = items[i].product /\ change(i).ix = i
  OBVIOUS
<1> HIDE DEF change
<1>8. \A c, d \in plan[r] : c.aggregate = d.aggregate => c.ix = d.ix
  BY <1>5, <1>6, <1>7
<1> QED
  BY <1>5, <1>8 DEF change

LEMMA PatchPlanAnnounces ==
  ASSUME DecisionInv, NEW r \in Requests, pc[r] = "committing", req[r].op = "patch"
  PROVE  LET patch == req[r].patch
             event(ix, type) == [ix |-> ix, aggregate |-> patch.product,
                                 type |-> type, value |-> Patched(r)[type]]
         IN  /\ plan[r] = {event(1, "price") : c \in DOMAIN patch.set \cap {"price"}}
                            \cup {event(2, "stock") :
                                    c \in DOMAIN patch.set \cap {"stock", "available"}}
             /\ \A c, d \in plan[r] : c.type = d.type => c.ix = d.ix
<1> DEFINE patch == req[r].patch
           event(ix, type) == [ix |-> ix, aggregate |-> patch.product,
                               type |-> type, value |-> Patched(r)[type]]
<1>1. plan[r] = {event(1, "price") : c \in DOMAIN patch.set \cap {"price"}}
                  \cup {event(2, "stock") :
                          c \in DOMAIN patch.set \cap {"stock", "available"}}
  BY CommitReads DEF Plan, PatchPlan
<1>2. /\ event(1, "price").type = "price" /\ event(1, "price").ix = 1
      /\ event(2, "stock").type = "stock" /\ event(2, "stock").ix = 2
  OBVIOUS
<1>3. \A c, d \in plan[r] : c.type = d.type => c.ix = d.ix
  <2> HIDE DEF event
  <2>1. \A c \in plan[r] : c = event(1, "price") \/ c = event(2, "stock")
    BY <1>1
  <2> QED
    BY <1>2, <2>1
<1> QED
  BY <1>1, <1>3
-----------------------------------------------------------------------------
(* Commits are the operations of the ledger.                               *)

LEMMA QuantityIs ==
  ASSUME NamedOnce, NEW items \in Batches, NEW i \in DOMAIN items
  PROVE  Ledger!Quantity(items, items[i].product) = items[i].quantity
<1>1. \A j \in DOMAIN items : items[j].product = items[i].product => j = i
  BY DEF NamedOnce
<1> DEFINE j == CHOOSE k \in DOMAIN items : items[k].product = items[i].product
<1>2. j \in DOMAIN items /\ items[j].product = items[i].product
  OBVIOUS
<1>3. j = i
  BY <1>1, <1>2
<1> QED
  BY <1>3 DEF Ledger!Quantity

(* A batch changes and announces the stock of each of its products that    *)
(* has a row.                                                              *)
LEMMA BatchCommits ==
  ASSUME NamedOnce, DecisionInv, NEW r \in Requests, Commit(r), req[r].op # "patch"
  PROVE  LET items == req[r].items
             known == Target(items) \cap provisioned
             more(p) == row[p].stock + Sign(r) * Ledger!Quantity(items, p)
         IN  /\ \A p \in known : more(p) <= MaxInt
             /\ row' = [p \in Products |->
                          IF p \in known THEN [row[p] EXCEPT !.stock = more(p)]
                          ELSE row[p]]
             /\ Ledger!Announce({Ledger!StockChange(p, row'[p].stock) : p \in known})
<1> DEFINE items == req[r].items
           known == Target(items) \cap provisioned
           more(p) == row[p].stock + Sign(r) * Ledger!Quantity(items, p)
<1>1. /\ pc[r] = "committing" /\ UNCHANGED provisioned
      /\ row' = [p \in Products |->
                   IF p \in DOMAIN written[r] THEN written[r][p] ELSE row[p]]
  BY DEF Commit
<1>2. items \in Batches
  BY RequestShape DEF DecisionInv, StockInv, TypeOK
<1>3. \A i \in DOMAIN items : /\ Ledger!Quantity(items, items[i].product) = items[i].quantity
                              /\ items[i].quantity \in Int /\ items[i].product \in Products
  BY <1>2, QuantityIs, RequestShape, ItemsShape DEF DecisionInv, StockInv, TypeOK
<1>4. ASSUME NEW p \in known
      PROVE  /\ p \in Products /\ row[p] \in Row /\ p \in DOMAIN written[r]
             /\ \E i \in DOMAIN items : p = items[i].product
             /\ written[r][p] = [row[p] EXCEPT !.stock = more(p)]
             /\ row'[p] = written[r][p] /\ row'[p].stock = more(p)
             /\ \E c \in plan[r] : c.value = more(p)
  <2>1. PICK i \in DOMAIN items : p = items[i].product
    BY DEF Target
  <2>2. p \in Products /\ p \in provisioned /\ row[p] \in Row
    BY <1>3, <2>1 DEF DecisionInv, StockInv, TypeOK
  <2>3. /\ p \in DOMAIN written[r]
        /\ written[r][p] = [row[p] EXCEPT !.stock = row[p].stock + Sign(r) * items[i].quantity]
    BY <1>1, <1>2, <2>1, <2>2, BatchWrites
  <2>4. Ledger!Quantity(items, p) = items[i].quantity
    BY <1>3, <2>1
  <2>5. written[r][p] = [row[p] EXCEPT !.stock = more(p)]
    BY <2>3, <2>4
  <2>6. row'[p] = written[r][p] /\ row'[p].stock = more(p)
    <3>1. row'[p] = written[r][p]
      BY <1>1, <2>2, <2>3
    <3>2. \A x \in Row : \A v : [x EXCEPT !.stock = v].stock = v
      BY DEF Row
    <3> HIDE DEF more
    <3> QED
      BY <2>2, <2>5, <3>1, <3>2
  <2>7. \E c \in plan[r] : c.value = more(p)
    <3>1. [ix |-> i, aggregate |-> p, type |-> "stock",
           value |-> row[p].stock + Sign(r) * items[i].quantity] \in plan[r]
      BY <1>1, <1>2, <2>1, <2>2, BatchPlan
    <3> QED
      BY <2>4, <3>1
  <2> QED
    BY <2>1, <2>2, <2>3, <2>5, <2>6, <2>7
<1>5. \A p \in known : more(p) <= MaxInt
  <2>1. \A c \in plan[r] : c.value <= MaxInt
    BY <1>1 DEF DecisionInv, KeepsToPlan
  <2>2. \A p \in known : \E c \in plan[r] : c.value = more(p)
    BY <1>4
  <2> HIDE DEF more, known
  <2> QED
    BY <2>1, <2>2
<1>6. row' = [p \in Products |-> IF p \in known THEN [row[p] EXCEPT !.stock = more(p)]
                                 ELSE row[p]]
  <2>1. DOMAIN written[r] = known
    BY <1>1, <1>2, BatchWrites
  <2>2. \A p \in known : written[r][p] = [row[p] EXCEPT !.stock = more(p)]
    BY <1>4
  <2> HIDE DEF known, more
  <2> QED
    BY <1>1, <2>1, <2>2
<1>7. Contents(plan[r]) = {Ledger!StockChange(p, row'[p].stock) : p \in known}
  <2> DEFINE change(i) == [ix |-> i, aggregate |-> items[i].product, type |-> "stock",
                         value |-> row[items[i].product].stock
                                     + Sign(r) * items[i].quantity]
             hit == {j \in DOMAIN items : items[j].product \in provisioned}
  <2>1. plan[r] = {change(i) : i \in hit}
    BY <1>1, <1>2, BatchPlan
  <2>2. ASSUME NEW i \in hit
        PROVE  /\ items[i].product \in known
               /\ [aggregate |-> change(i).aggregate, type |-> change(i).type,
                   value |-> change(i).value]
                    = Ledger!StockChange(items[i].product, row'[items[i].product].stock)
    <3>1. items[i].product \in known
      BY DEF Target
    <3>2. row'[items[i].product].stock = more(items[i].product)
      BY <1>4, <3>1
    <3>3. more(items[i].product) = change(i).value
      BY <1>2, <1>3
    <3> QED
      BY <3>1, <3>2, <3>3 DEF Ledger!StockChange
  <2>3. \A p \in known : \E i \in hit : p = items[i].product
    BY DEF Target
  <2> DEFINE content(c) == [aggregate |-> c.aggregate, type |-> c.type, value |-> c.value]
             told(p) == Ledger!StockChange(p, row'[p].stock)
  <2>4. Contents(plan[r]) = {content(c) : c \in plan[r]}
    BY DEF Contents
  <2>5. \A i \in hit : content(change(i)) = told(items[i].product)
                        /\ items[i].product \in known
    BY <2>2
  <2> HIDE DEF hit, change, known, content, told
  <2>6. \A c \in plan[r] : \E p \in known : content(c) = told(p)
    BY <2>1, <2>5
  <2>7. \A p \in known : \E c \in plan[r] : content(c) = told(p)
    BY <2>1, <2>3, <2>5
  <2>8. Contents(plan[r]) = {told(p) : p \in known}
    BY <2>4, <2>6, <2>7
  <2> QED
    BY <2>8 DEF told
<1>8. Ledger!Announce(Contents(plan[r]))
  BY <1>1, <1>2, BatchPlan, CommitAnnounces
<1>9. Ledger!Announce({Ledger!StockChange(p, row'[p].stock) : p \in known})
  BY <1>7, <1>8
<1> QED
  BY <1>5, <1>6, <1>9

LEMMA CommitReleases ==
  ASSUME NamedOnce, DecisionInv, NEW r \in Requests, Commit(r), req[r].op = "release"
  PROVE  Ledger!Release(req[r].items)
<1> DEFINE items == req[r].items
           known == Target(items) \cap provisioned
           more(p) == row[p].stock + Sign(r) * Ledger!Quantity(items, p)
<1>1. UNCHANGED provisioned /\ items \in Batches
  BY RequestShape DEF Commit, DecisionInv, StockInv, TypeOK
<1>2. /\ \A p \in known : more(p) <= MaxInt
      /\ row' = [p \in Products |-> IF p \in known THEN [row[p] EXCEPT !.stock = more(p)]
                                    ELSE row[p]]
      /\ Ledger!Announce({Ledger!StockChange(p, row'[p].stock) : p \in known})
  BY BatchCommits
<1>3. \A p \in known : more(p) = row[p].stock + Ledger!Quantity(items, p)
  <2> SUFFICES ASSUME NEW p \in known
               PROVE  more(p) = row[p].stock + Ledger!Quantity(items, p)
    OBVIOUS
  <2>1. PICK i \in DOMAIN items : p = items[i].product
    BY DEF Target
  <2>2. items[i].quantity \in Int
    BY RequestShape, ItemsShape DEF DecisionInv, StockInv, TypeOK
  <2>3. Ledger!Quantity(items, p) = items[i].quantity
    BY <1>1, <2>1, QuantityIs
  <2>4. Sign(r) = 1
    BY DEF Sign
  <2> QED
    BY <2>2, <2>3, <2>4
<1>4. Ledger!Target(items) \cap provisioned = known
  BY DEF Target, Ledger!Target
<1> HIDE DEF known, more
<1>5. row' = [p \in Products |->
                IF p \in known
                THEN [row[p] EXCEPT !.stock = @ + Ledger!Quantity(items, p)]
                ELSE row[p]]
  BY <1>2, <1>3
<1>6. \A p \in known : row[p].stock + Ledger!Quantity(items, p) <= MaxInt
  BY <1>2, <1>3
<1> QED
  BY <1>1, <1>2, <1>4, <1>5, <1>6, Zenon DEF Ledger!Release

LEMMA CommitReserves ==
  ASSUME NamedOnce, DecisionInv, NEW r \in Requests, Commit(r), req[r].op = "reserve"
  PROVE  Ledger!Reserve(req[r].items)
<1> DEFINE items == req[r].items
           known == Target(items) \cap provisioned
           more(p) == row[p].stock + Sign(r) * Ledger!Quantity(items, p)
<1>1. UNCHANGED provisioned /\ items \in Batches /\ pc[r] = "committing"
  BY RequestShape DEF Commit, DecisionInv, StockInv, TypeOK
<1>2. /\ row' = [p \in Products |-> IF p \in known THEN [row[p] EXCEPT !.stock = more(p)]
                                    ELSE row[p]]
      /\ Ledger!Announce({Ledger!StockChange(p, row'[p].stock) : p \in known})
  BY BatchCommits
<1>3. ASSUME NEW p \in Target(items)
      PROVE  /\ p \in provisioned /\ row[p].available
             /\ row[p].stock >= Ledger!Quantity(items, p)
             /\ more(p) = row[p].stock - Ledger!Quantity(items, p)
  <2>1. PICK i \in DOMAIN items : p = items[i].product
    BY DEF Target
  <2>2. items[i].quantity \in Int /\ items[i].product \in Products
    BY RequestShape, ItemsShape DEF DecisionInv, StockInv, TypeOK
  <2>3. Ledger!Quantity(items, p) = items[i].quantity
    BY <1>1, <2>1, QuantityIs
  <2>4. Sign(r) = -1
    BY DEF Sign
  <2>5. Offending(r) = {}
    BY <1>1 DEF DecisionInv, KeepsToPlan
  <2>6. /\ p \in DOMAIN seen[r] /\ seen[r][p].available
        /\ ~ (seen[r][p].stock < items[i].quantity)
    BY <2>1, <2>5 DEF Offending
  <2>7. p \in provisioned /\ seen[r][p] = row[p]
    BY <1>1, <2>6, CommitReads
  <2>8. row[p].stock \in Int
    <3>1. row[p] \in Row
      BY <2>1, <2>2 DEF DecisionInv, StockInv, TypeOK
    <3>2. \A x \in Row : x.stock \in 0..MaxInt
      BY DEF Row
    <3> QED
      BY <3>1, <3>2, StockDataAssumption
  <2> QED
    BY <2>2, <2>3, <2>4, <2>6, <2>7, <2>8
<1>4. known = Target(items) /\ Ledger!Target(items) = Target(items)
  BY <1>3 DEF Target, Ledger!Target
<1> HIDE DEF known, more
<1>5. row' = [p \in Products |->
                IF p \in Target(items)
                THEN [row[p] EXCEPT !.stock = @ - Ledger!Quantity(items, p)]
                ELSE row[p]]
  BY <1>2, <1>3, <1>4
<1> QED
  BY <1>1, <1>2, <1>3, <1>4, <1>5, Zenon DEF Ledger!Reserve

LEMMA CommitPatches ==
  ASSUME DecisionInv, NEW r \in Requests, Commit(r), req[r].op = "patch"
  PROVE  Ledger!Patch(req[r].patch)
<1> DEFINE patch == req[r].patch
           p     == patch.product
           named == DOMAIN patch.set
           event(ix, type) == [ix |-> ix, aggregate |-> p,
                               type |-> type, value |-> Patched(r)[type]]
           content(c) == [aggregate |-> c.aggregate, type |-> c.type, value |-> c.value]
<1>1. /\ pc[r] = "committing" /\ UNCHANGED provisioned
      /\ row' = [q \in Products |->
                   IF q \in DOMAIN written[r] THEN written[r][q] ELSE row[q]]
  BY DEF Commit
<1>2. /\ patch \in Patches /\ p \in provisioned /\ p \in Products
      /\ written[r] = [q \in {p} |-> Patched(r)]
      /\ Patched(r) = [c \in DOMAIN row[p] |->
                         IF c \in named THEN patch.set[c] ELSE row[p][c]]
  BY <1>1, PatchWrites
<1>3. row \in [Products -> Row]
  BY DEF DecisionInv, StockInv, TypeOK
<1>4. row' = [row EXCEPT ![p] = Patched(r)] /\ row'[p] = Patched(r)
  <2> HIDE DEF p
  <2> QED
    BY <1>1, <1>2, <1>3
<1>5. /\ plan[r] = {event(1, "price") : c \in named \cap {"price"}}
                     \cup {event(2, "stock") : c \in named \cap {"stock", "available"}}
      /\ \A c, d \in plan[r] : c.type = d.type => c.ix = d.ix
  BY <1>1, PatchPlanAnnounces
<1>6. Ledger!Announce(Contents(plan[r]))
  BY <1>5, CommitAnnounces
<1>7. /\ content(event(1, "price")) = Ledger!PriceChange(p, row'[p].price)
      /\ content(event(2, "stock")) = Ledger!StockChange(p, row'[p].stock)
  BY <1>4 DEF Ledger!PriceChange, Ledger!StockChange
<1>8. Contents(plan[r]) =
        {Ledger!PriceChange(p, row'[p].price) : c \in named \cap {"price"}}
          \cup {Ledger!StockChange(p, row'[p].stock) : c \in named \cap {"stock", "available"}}
  <2>1. Contents(plan[r]) = {content(c) : c \in plan[r]}
    BY DEF Contents
  <2> HIDE DEF event, content, p, named
  <2> QED
    BY <1>5, <1>7, <2>1
<1>9. row' = [row EXCEPT ![p] = [c \in DOMAIN row[p] |->
                                   IF c \in named THEN patch.set[c] ELSE row[p][c]]]
  BY <1>2, <1>4
<1> QED
  BY <1>1, <1>2, <1>6, <1>8, <1>9, Zenon DEF Ledger!Patch
-----------------------------------------------------------------------------
(* Every step is an operation of the ledger or leaves it as it is.         *)
LEMMA LedgerStep ==
  ASSUME NamedOnce, DecisionInv, [Next]_vars
  PROVE  [Ledger!LedgerNext]_(Ledger!ledgerVars)
<1>1. ASSUME NEW r \in Requests, Commit(r) PROVE Ledger!LedgerNext
  <2>1. CASE req[r].op = "reserve"
    <3>1. req[r].items \in Batches
      BY <2>1, RequestShape DEF DecisionInv, StockInv, TypeOK
    <3> QED
      BY <1>1, <2>1, <3>1, CommitReserves DEF Ledger!LedgerNext
  <2>2. CASE req[r].op = "release"
    <3>1. req[r].items \in Batches
      BY <2>2, RequestShape DEF DecisionInv, StockInv, TypeOK
    <3> QED
      BY <1>1, <2>2, <3>1, CommitReleases DEF Ledger!LedgerNext
  <2>3. CASE req[r].op = "patch"
    <3>1. req[r].patch \in Patches
      BY <2>3, RequestShape DEF DecisionInv, StockInv, TypeOK
    <3> QED
      BY <1>1, <2>3, <3>1, CommitPatches DEF Ledger!LedgerNext
  <2> QED
    BY <2>1, <2>2, <2>3, RequestShape DEF DecisionInv, StockInv, TypeOK
<1>2. ASSUME NEW p \in Products, CreateProduct(p) PROVE Ledger!LedgerNext
  <2>1. Ledger!Provision(p)
    BY <1>2 DEF CreateProduct, Ledger!Provision, NewRow, Ledger!NewRow
  <2> QED
    BY <2>1 DEF Ledger!LedgerNext
<1>3. ASSUME NEW r \in Requests, Statement(r), ~ Commit(r)
      PROVE  UNCHANGED <<provisioned, row, outbox>>
  BY <1>3 DEF Statement, Begin, LockRow, Refuse, Overflow, Update, Emit, Rollback
<1>4. ASSUME NEW r \in Requests, Abort(r) \/ DeadlockVictim(r)
      PROVE  UNCHANGED <<provisioned, row, outbox>>
  BY <1>4 DEF Abort, DeadlockVictim, Rollback
<1>5. CASE UNCHANGED vars
  BY <1>5 DEF vars, Ledger!ledgerVars
<1> QED
  BY <1>1, <1>2, <1>3, <1>4, <1>5 DEF Next, Ledger!ledgerVars

LEMMA LedgerInitial == Init => Ledger!LedgerInit
  BY DEF Init, Ledger!LedgerInit
-----------------------------------------------------------------------------
(* The last announcement.                                                  *)

(* A commit announces what it writes, and announces whatever it changes.   *)
LEMMA CommitTellsTruth ==
  ASSUME NamedOnce, DecisionInv, NEW r \in Requests, Commit(r)
  PROVE  /\ \A f \in inserted[r] : f.value = row'[f.aggregate][f.type]
         /\ \A p \in Products, type \in {"stock", "price"} :
              \/ row'[p][type] = row[p][type]
              \/ \E f \in inserted[r] : f.aggregate = p /\ f.type = type
<1>1. /\ pc[r] = "committing"
      /\ row' = [p \in Products |->
                   IF p \in DOMAIN written[r] THEN written[r][p] ELSE row[p]]
  BY DEF Commit
<1>2. PICK n \in 0..nextId : inserted[r] = Numbered(n, plan[r])
  BY <1>1 DEF DecisionInv, AnnouncesPlan
<1> DEFINE told(c) == [id |-> n + c.ix, aggregate |-> c.aggregate, type |-> c.type,
                       value |-> c.value]
<1>3. inserted[r] = {told(c) : c \in plan[r]}
  BY <1>2 DEF Numbered
<1>4. \A c : told(c).aggregate = c.aggregate /\ told(c).type = c.type /\ told(c).value = c.value
  OBVIOUS
<1> HIDE DEF told
<1>5. SUFFICES /\ \A c \in plan[r] : c.value = row'[c.aggregate][c.type]
               /\ \A p \in Products, type \in {"stock", "price"} :
                    \/ row'[p][type] = row[p][type]
                    \/ \E c \in plan[r] : c.aggregate = p /\ c.type = type
  <2>1. ASSUME \A c \in plan[r] : c.value = row'[c.aggregate][c.type],
               NEW f \in inserted[r]
        PROVE  f.value = row'[f.aggregate][f.type]
    BY <1>3, <1>4, <2>1
  <2>2. ASSUME NEW p \in Products, NEW type \in {"stock", "price"},
               \E c \in plan[r] : c.aggregate = p /\ c.type = type
        PROVE  \E f \in inserted[r] : f.aggregate = p /\ f.type = type
    BY <1>3, <1>4, <2>2
  <2> QED
    BY <2>1, <2>2
<1>6. row \in [Products -> Row] /\ \A x \in Row : DOMAIN x = {"price", "stock", "available"}
  BY DEF DecisionInv, StockInv, TypeOK, Row
<1>7. CASE req[r].op # "patch"
  <2> DEFINE items == req[r].items
             hit == {j \in DOMAIN items : items[j].product \in provisioned}
             more(i) == row[items[i].product].stock + Sign(r) * items[i].quantity
             change(i) == [ix |-> i, aggregate |-> items[i].product, type |-> "stock",
                           value |-> more(i)]
  <2>1. plan[r] = {change(i) : i \in hit}
    BY <1>1, <1>7, BatchPlan
  <2>2. /\ DOMAIN written[r] = Target(items) \cap provisioned
        /\ \A i \in hit : written[r][items[i].product] =
                            [row[items[i].product] EXCEPT !.stock = more(i)]
    BY <1>1, <1>7, BatchWrites
  <2>3. \A i \in DOMAIN items : items[i].product \in Products
    BY <1>7, RequestShape, ItemsShape DEF DecisionInv, StockInv, TypeOK
  <2>4. \A x \in Row : \A v : /\ [x EXCEPT !.stock = v]["stock"] = v
                               /\ [x EXCEPT !.stock = v]["price"] = x["price"]
    BY DEF Row
  <2>5. ASSUME NEW i \in hit
        PROVE  /\ items[i].product \in DOMAIN written[r]
               /\ row'[items[i].product]["stock"] = more(i)
               /\ row'[items[i].product]["price"] = row[items[i].product]["price"]
    <3>1. items[i].product \in DOMAIN written[r] /\ items[i].product \in Products
      BY <2>2, <2>3 DEF Target
    <3>2. row'[items[i].product] = [row[items[i].product] EXCEPT !.stock = more(i)]
      BY <1>1, <2>2, <3>1
    <3>3. row[items[i].product] \in Row
      BY <1>6, <3>1
    <3> HIDE DEF more
    <3> QED
      BY <2>4, <3>1, <3>2, <3>3
  <2>6. \A i : change(i).aggregate = items[i].product /\ change(i).type = "stock"
               /\ change(i).value = more(i)
    OBVIOUS
  <2>7. \A p \in DOMAIN written[r] : \E i \in hit : p = items[i].product
    BY <2>2 DEF Target
  <2> HIDE DEF change, more, hit
  <2>8. \A c \in plan[r] : c.value = row'[c.aggregate][c.type]
    BY <2>1, <2>5, <2>6
  <2>9. ASSUME NEW p \in Products, NEW type \in {"stock", "price"}
        PROVE  \/ row'[p][type] = row[p][type]
               \/ \E c \in plan[r] : c.aggregate = p /\ c.type = type
    <3>1. CASE p \notin DOMAIN written[r]
      BY <1>1, <3>1
    <3>2. CASE p \in DOMAIN written[r]
      <4>1. PICK i \in hit : p = items[i].product
        BY <2>7, <3>2
      <4>2. CASE type = "price"
        BY <2>5, <4>1, <4>2
      <4>3. CASE type = "stock"
        BY <2>1, <2>6, <4>1, <4>3
      <4> QED
        BY <4>2, <4>3
    <3> QED
      BY <3>1, <3>2
  <2> QED
    BY <2>8, <2>9
<1>8. CASE req[r].op = "patch"
  <2> DEFINE patch == req[r].patch
             p0    == patch.product
             named == DOMAIN patch.set
             event(ix, type) == [ix |-> ix, aggregate |-> p0,
                                 type |-> type, value |-> Patched(r)[type]]
  <2>1. plan[r] = {event(1, "price") : c \in named \cap {"price"}}
                    \cup {event(2, "stock") : c \in named \cap {"stock", "available"}}
    BY <1>1, <1>8, PatchPlanAnnounces
  <2>2. /\ p0 \in Products
        /\ written[r] = [q \in {p0} |-> Patched(r)]
        /\ Patched(r) = [c \in DOMAIN row[p0] |->
                           IF c \in named THEN patch.set[c] ELSE row[p0][c]]
    BY <1>1, <1>8, PatchWrites
  <2>3. \A ix, type : /\ event(ix, type).aggregate = p0 /\ event(ix, type).type = type
                      /\ event(ix, type).value = Patched(r)[type]
    OBVIOUS
  <2>4. row'[p0] = Patched(r) /\ \A p \in Products : p # p0 => row'[p] = row[p]
    <3> HIDE DEF p0
    <3> QED
      BY <1>1, <2>2
  <2>5. DOMAIN row[p0] = {"price", "stock", "available"}
    BY <1>6, <2>2
  <2> HIDE DEF event, p0, named
  <2>6. \A c \in plan[r] : c.value = row'[c.aggregate][c.type]
    BY <2>1, <2>3, <2>4
  <2>7. ASSUME NEW type \in {"stock", "price"}
        PROVE  \/ row'[p0][type] = row[p0][type]
               \/ \E c \in plan[r] : c.aggregate = p0 /\ c.type = type
    <3>1. CASE type \notin named
      BY <2>2, <2>4, <2>5, <3>1
    <3>2. CASE type \in named /\ type = "price"
      BY <2>1, <2>3, <3>2
    <3>3. CASE type \in named /\ type = "stock"
      BY <2>1, <2>3, <3>3
    <3> QED
      BY <3>1, <3>2, <3>3
  <2> QED
    BY <2>4, <2>6, <2>7
<1> QED
  BY <1>7, <1>8

(* The last announcement of a value stays true: a commit announces later   *)
(* what it changes, and a new product has not been announced.              *)
LEMMA LatestStep ==
  ASSUME NamedOnce, DecisionInv, LatestEventIsCurrent, [Next]_vars
  PROVE  LatestEventIsCurrent'
<1>1. ASSUME NEW r \in Requests, Commit(r) PROVE LatestEventIsCurrent'
  <2> SUFFICES ASSUME NEW e \in outbox', Latest(e)'
               PROVE  e.value = row'[e.aggregate][e.type]
    BY DEF LatestEventIsCurrent
  <2>1. outbox' = outbox \cup inserted[r]
    BY <1>1 DEF Commit
  <2>2. \A f \in inserted[r] : f.value = row'[f.aggregate][f.type]
    BY <1>1, CommitTellsTruth
  <2>3. CASE e \in outbox /\ e \notin inserted[r]
    <3>1. e \in Event
      BY <2>3 DEF DecisionInv, StockInv, TypeOK
    <3>2. e.aggregate \in Products /\ e.type \in {"stock", "price"} /\ e.id \in Nat
      BY <3>1 DEF Event
    <3>3. ASSUME NEW f \in inserted[r], f.aggregate = e.aggregate, f.type = e.type
          PROVE  FALSE
      <4>1. f.id <= e.id
        BY <2>1, <3>3 DEF Latest
      <4>2. e.id < f.id
        BY <2>3, <3>3 DEF DecisionInv, StockInv, DrawnAbove
      <4>3. f.id \in Nat
        BY DEF DecisionInv, StockInv, TypeOK, Event
      <4> QED
        BY <3>2, <4>1, <4>2, <4>3
    <3>4. row'[e.aggregate][e.type] = row[e.aggregate][e.type]
      BY <1>1, <3>2, <3>3, CommitTellsTruth
    <3>5. Latest(e)
      BY <2>1 DEF Latest
    <3> QED
      BY <2>3, <3>4, <3>5 DEF LatestEventIsCurrent
  <2> QED
    BY <2>1, <2>2, <2>3
<1>2. ASSUME NEW p \in Products, CreateProduct(p) PROVE LatestEventIsCurrent'
  <2>1. p \notin provisioned /\ row' = [row EXCEPT ![p] = NewRow] /\ outbox' = outbox
    BY <1>2 DEF CreateProduct
  <2>2. ASSUME NEW e \in outbox
        PROVE  row'[e.aggregate] = row[e.aggregate] /\ Latest(e)' = Latest(e)
    <3>1. e.aggregate \in provisioned /\ row \in [Products -> Row]
      BY DEF DecisionInv, StockInv, TypeOK
    <3>2. Latest(e)' = Latest(e)
      BY <2>1 DEF Latest
    <3> QED
      BY <2>1, <3>1, <3>2
  <2> QED
    BY <2>1, <2>2 DEF LatestEventIsCurrent
<1>3. ASSUME UNCHANGED <<row, outbox>> PROVE LatestEventIsCurrent'
  BY <1>3 DEF LatestEventIsCurrent, Latest
<1>4. ASSUME NEW r \in Requests, Statement(r), ~ Commit(r)
      PROVE  UNCHANGED <<row, outbox>>
  BY <1>4 DEF Statement, Begin, LockRow, Refuse, Overflow, Update, Emit, Rollback
<1>5. ASSUME NEW r \in Requests, Abort(r) \/ DeadlockVictim(r)
      PROVE  UNCHANGED <<row, outbox>>
  BY <1>5 DEF Abort, DeadlockVictim, Rollback
<1>6. CASE UNCHANGED vars
  BY <1>3, <1>6 DEF vars
<1> QED
  BY <1>1, <1>2, <1>3, <1>4, <1>5, <1>6 DEF Next
-----------------------------------------------------------------------------
(* The inductive invariant holds in every reachable state, for any batches, *)
(* patches and number of concurrent requests.                               *)
THEOREM StockInvariant == Spec => []StockInv
  BY StockInvInit, StockInvStep, PTL DEF Spec

(* Variables keep their types: in particular no stock and no price is ever *)
(* negative or beyond the int column, whatever is requested.               *)
THEOREM StockTypes == Spec => []TypeOK
<1>1. StockInv => TypeOK
  BY DEF StockInv
<1> QED
  BY <1>1, StockInvariant, PTL

(* No lost update: what a transaction read before its UPDATE is still the  *)
(* committed row, and it alone holds the lock, until it ends.              *)
THEOREM NoLostUpdate == Spec => []ReadsStayCurrent
<1>1. StockInv => ReadsStayCurrent
  BY DEF StockInv
<1> QED
  BY <1>1, StockInvariant, PTL

(* Outbox ids agree with the commit order of each product, although they   *)
(* are drawn before the commit.                                            *)
THEOREM IdsFollowCommits == Spec => []DrawnAbove
<1>1. StockInv => DrawnAbove
  BY DEF StockInv
<1> QED
  BY <1>1, StockInvariant, PTL

(* What a transaction writes and announces is what it decided from the     *)
(* rows it read, whatever the others did in between: for any batches,      *)
(* duplicates included, patches and number of concurrent requests.         *)
THEOREM DecisionInvariant == Spec => []DecisionInv
  BY DecisionInvInit, DecisionInvStep, PTL DEF Spec

(* Where no list names a product twice, the last event of the outbox about *)
(* a product's stock or price carries the value of its row: consumers that *)
(* apply the events in id order agree with the database.                   *)
THEOREM AnnouncementsAreCurrent ==
  ASSUME NamedOnce
  PROVE  Spec => []LatestEventIsCurrent
<1>1. Init => LatestEventIsCurrent
  BY DEF Init, LatestEventIsCurrent
<1>2. DecisionInv /\ LatestEventIsCurrent /\ [Next]_vars => LatestEventIsCurrent'
  BY LatestStep
<1> QED
  BY <1>1, <1>2, DecisionInvariant, PTL DEF Spec

(* Where no list names a product twice, the interleaved transactions behave *)
(* as the atomic operations of StockLedger on row, provisioned and outbox:  *)
(* every commit is one Reserve, Release or Patch on the values it finds,    *)
(* every other step leaves them alone or provisions a new product.          *)
THEOREM ImplementsLedger ==
  ASSUME NamedOnce
  PROVE  Spec => AtomicOperations
<1>1. DecisionInv /\ [Next]_vars => [Ledger!LedgerNext]_(Ledger!ledgerVars)
  BY LedgerStep
<1> QED
  BY <1>1, LedgerInitial, DecisionInvariant, PTL
     DEF Spec, AtomicOperations, Ledger!LedgerSpec
=============================================================================
