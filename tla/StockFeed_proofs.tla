-------------------------- MODULE StockFeed_proofs --------------------------
(***************************************************************************)
(* With one worker, consumers end up with the stock and the prices of the  *)
(* database: for any number of products and requests, any batch size, and  *)
(* any failures of the broker and the worker.                              *)
(***************************************************************************)
EXTENDS StockFeed, Stock_proofs

-----------------------------------------------------------------------------
(* The rows of the outbox: fresh ids, in the order of each product.        *)

(* The relay's Cardinality is the one the theorems are about.              *)
LEMMA RelayCardinality == ASSUME NEW S PROVE Relay!Cardinality(S) = Cardinality(S)
BY DEF Cardinality, Relay!Cardinality

(* Nothing is in the outbox, and nobody drains it.                         *)
LEMMA FeedStarts == FeedInit => FeedInv
<1> SUFFICES ASSUME FeedInit PROVE FeedInv
  OBVIOUS
<1>1. /\ outbox = {} /\ \A r \in Requests : inserted[r] = {}
  BY DEF FeedInit, Init
<1>2. RowsIdentified
  BY <1>1 DEF RowsIdentified
<1>3. FeedTypes
  BY <1>1 DEF FeedInit, FeedTypes, WorkerPlaces
<1>4. \A w \in Workers : DrainInOrder(w)
  BY DEF FeedInit, DrainInOrder
<1> QED
  BY <1>1, <1>2, <1>3, <1>4 DEF FeedInv, RetiredInOrder

(* No two changes of a plan have the same number.                          *)
LEMMA PlanNumbers ==
  ASSUME NEW r \in Requests
  PROVE  \A c, d \in Plan(r) : c.ix = d.ix => c = d
<1>1. CASE req[r].op = "patch"
  <2> DEFINE price == [ix |-> 1, aggregate |-> req[r].patch.product,
                       type |-> "price", value |-> Patched(r)["price"]]
             stock == [ix |-> 2, aggregate |-> req[r].patch.product,
                       type |-> "stock", value |-> Patched(r)["stock"]]
  <2>1. Plan(r) \subseteq {price, stock}
    BY <1>1 DEF Plan, PatchPlan
  <2>2. price.ix = 1 /\ stock.ix = 2
    OBVIOUS
  <2> HIDE DEF price, stock
  <2> QED
    BY <2>1, <2>2
<1>2. CASE req[r].op # "patch"
  <2> DEFINE items == req[r].items
             sign  == IF req[r].op = "reserve" THEN -1 ELSE 1
             known == {i \in DOMAIN items : items[i].product \in DOMAIN seen[r]}
             change(i) == [ix |-> i, aggregate |-> items[i].product, type |-> "stock",
                           value |-> seen[r][items[i].product].stock
                                       + sign * items[i].quantity]
  <2>1. Plan(r) = {change(i) : i \in known}
    BY <1>2 DEF Plan, Computed
  <2>2. \A i \in known : change(i).ix = i
    OBVIOUS
  <2> HIDE DEF known, change
  <2> QED
    BY <2>1, <2>2
<1> QED
  BY <1>1, <1>2

(* The transactions of Stock add rows with fresh ids, above those of the   *)
(* rows about the same product.                                            *)
LEMMA OutboxGrows ==
  ASSUME DecisionInv, RowsIdentified, [Next]_vars
  PROVE  /\ RowsIdentified' /\ outbox \subseteq outbox'
         /\ \A e \in outbox' \ outbox, f \in outbox :
              e.id # f.id /\ (f.aggregate = e.aggregate => f.id < e.id)
<1>1. TypeOK /\ IdsDrawn /\ DrawnAbove
  BY DEF DecisionInv, StockInv
<1>2. CASE UNCHANGED <<outbox, inserted>>
  BY <1>2 DEF RowsIdentified
<1>3. ASSUME NEW r \in Requests, inserted' = [inserted EXCEPT ![r] = {}], outbox' = outbox
      PROVE  RowsIdentified'
  <2>1. \A s \in Requests : inserted'[s] \subseteq inserted[s]
    BY <1>1, <1>3 DEF TypeOK
  <2> QED
    BY <1>3, <2>1 DEF RowsIdentified
<1>4. ASSUME NEW r \in Requests, Emit(r) PROVE RowsIdentified' /\ outbox' = outbox
  <2>1. /\ inserted' = [inserted EXCEPT ![r] = Numbered(nextId, plan[r])] /\ outbox' = outbox
        /\ pc[r] = "emitting"
    BY <1>4 DEF Emit
  <2>2. /\ inserted'[r] = Numbered(nextId, plan[r])
        /\ \A s \in Requests \ {r} : inserted'[s] = inserted[s]
    BY <1>1, <2>1 DEF TypeOK
  <2>3. nextId \in Nat /\ plan[r] \in SUBSET Change /\ plan[r] = Plan(r)
    BY <1>1, <2>1 DEF TypeOK, DecisionInv, KeepsToPlan
  <2>4. \A c \in plan[r] : c.ix \in Nat /\ c.ix >= 1
    <3>1. \A c \in plan[r] : c.ix \in 1..Drawn(r)
      BY DEF DecisionInv, StockInv, WithinLocks
    <3>2. \A c \in plan[r] : c.ix \in Nat
      BY <2>3 DEF Change
    <3> QED
      BY <3>1, <3>2
  <2>5. \A c, d \in plan[r] : c.ix = d.ix => c = d
    BY <2>3, PlanNumbers
  <2>6. ASSUME NEW e \in inserted'[r]
        PROVE  \E c \in plan[r] : e = [id |-> nextId + c.ix, aggregate |-> c.aggregate,
                                       type |-> c.type, value |-> c.value]
    BY <2>2 DEF Numbered
  <2>7. \A e \in inserted'[r] : e.id > nextId
    BY <2>3, <2>4, <2>6
  <2>8. \A e, f \in inserted'[r] : e.id = f.id => e = f
    <3> SUFFICES ASSUME NEW e \in inserted'[r], NEW f \in inserted'[r], e.id = f.id
                 PROVE  e = f
      OBVIOUS
    <3>1. PICK c \in plan[r] : e = [id |-> nextId + c.ix, aggregate |-> c.aggregate,
                                    type |-> c.type, value |-> c.value]
      BY <2>6
    <3>2. PICK d \in plan[r] : f = [id |-> nextId + d.ix, aggregate |-> d.aggregate,
                                    type |-> d.type, value |-> d.value]
      BY <2>6
    <3>3. c.ix = d.ix
      BY <2>3, <2>4, <3>1, <3>2
    <3> QED
      BY <2>5, <3>1, <3>2, <3>3
  <2>9. /\ \A e \in outbox : e.id \in Nat /\ e.id <= nextId
        /\ \A s \in Requests : \A e \in inserted[s] : e.id \in Nat /\ e.id <= nextId
    BY <1>1 DEF TypeOK, IdsDrawn, Event
  <2>10. \A e \in inserted'[r] : \A f : f.id <= nextId => e.id # f.id
    BY <2>3, <2>4, <2>6
  <2> QED
    BY <2>1, <2>2, <2>8, <2>9, <2>10 DEF RowsIdentified
<1>5. ASSUME NEW r \in Requests, Commit(r)
      PROVE  /\ RowsIdentified' /\ outbox \subseteq outbox'
             /\ \A e \in outbox' \ outbox, f \in outbox :
                  e.id # f.id /\ (f.aggregate = e.aggregate => f.id < e.id)
  <2>1. outbox' = outbox \cup inserted[r] /\ inserted' = [inserted EXCEPT ![r] = {}]
    BY <1>5 DEF Commit
  <2>2. /\ inserted'[r] = {} /\ \A s \in Requests \ {r} : inserted'[s] = inserted[s]
    BY <1>1, <2>1 DEF TypeOK
  <2>3. RowsIdentified'
    BY <2>1, <2>2 DEF RowsIdentified
  <2> QED
    BY <1>1, <2>1, <2>3 DEF RowsIdentified, DrawnAbove
<1>6. CASE UNCHANGED vars
  BY <1>2, <1>6 DEF vars, trxVars
<1>7. ASSUME NEW p \in Products, CreateProduct(p) PROVE UNCHANGED <<outbox, inserted>>
  BY <1>7 DEF CreateProduct, trxVars
<1>8. ASSUME NEW r \in Requests, Begin(r) \/ LockRow(r) \/ Update(r)
      PROVE  UNCHANGED <<outbox, inserted>>
  BY <1>8 DEF Begin, LockRow, Update
<1>9. ASSUME NEW r \in Requests, Refuse(r) \/ Overflow(r) \/ Abort(r) \/ DeadlockVictim(r)
      PROVE  inserted' = [inserted EXCEPT ![r] = {}] /\ outbox' = outbox
  BY <1>9 DEF Refuse, Overflow, Abort, DeadlockVictim, Rollback
<1> QED
  BY <1>2, <1>3, <1>4, <1>5, <1>6, <1>7, <1>8, <1>9 DEF Next, Statement

(* What is retired, or will be, is a committed row.                        *)
LEMMA RetiringAreRows ==
  ASSUME FeedInv
  PROVE  /\ Retiring \subseteq {e.id : e \in outbox}
         /\ \A i \in DOMAIN published : published[i] \in {e.id : e \in outbox}
<1>1. FeedTypes
  BY DEF FeedInv
<1>2. \A i \in DOMAIN published : published[i] \in {e.id : e \in outbox}
  <2>1. published \in Seq({e.id : e \in outbox})
    BY <1>1 DEF FeedTypes
  <2> QED
    BY <2>1, SeqElements
<1>3. ASSUME NEW w \in Workers PROVE Relay!WillRetire(w) \subseteq {e.id : e \in outbox}
  <2>1. /\ held[w] \subseteq outbox /\ todo[w] \subseteq outbox
        /\ marked[w] \subseteq {e.id : e \in held[w]}
    BY <1>1 DEF FeedTypes, FeedInv, DrainInOrder
  <2> QED
    BY <2>1 DEF Relay!WillRetire
<1>4. dispatched \subseteq {e.id : e \in outbox}
  BY <1>1 DEF FeedTypes
<1> QED
  BY <1>2, <1>3, <1>4 DEF Retiring

(* New rows are not retired, and come after what is.                       *)
LEMMA GrowthKeepsFeed ==
  ASSUME TypeOK, TypeOK', FeedInv, RowsIdentified', UNCHANGED relayVars,
         outbox \subseteq outbox',
         \A e \in outbox' \ outbox, f \in outbox :
           e.id # f.id /\ (f.aggregate = e.aggregate => f.id < e.id)
  PROVE  FeedInv'
<1>1. FeedTypes /\ RetiredInOrder
  BY DEF FeedInv
<1>2. \A e \in outbox' : e.id \in Nat
  BY DEF TypeOK, Event
<1>3. UNCHANGED <<dispatched, wpc, held, todo, marked, published>>
  BY DEF relayVars
<1> DEFINE ids == {e.id : e \in outbox}
<1>4. /\ ids \subseteq {e.id : e \in outbox'}
      /\ \A e \in outbox' : e.id \in ids => e \in outbox
      /\ dispatched \subseteq ids
  BY <1>1 DEF FeedTypes
<1>5. FeedTypes'
  <2>1. published \in Seq({e.id : e \in outbox'})
    <3>1. published \in Seq(ids)
      BY <1>1 DEF FeedTypes
    <3> HIDE DEF ids
    <3> QED
      BY <1>4, <3>1
  <2> QED
    BY <1>1, <1>3, <1>4, <2>1 DEF FeedTypes
<1>6. ASSUME NEW e \in outbox, NEW f \in outbox', Earlier(f, e) PROVE f \in outbox
  <2>1. f.aggregate = e.aggregate /\ f.id < e.id /\ e.id \in Nat /\ f.id \in Nat
    BY <1>2, <1>6 DEF Earlier
  <2>2. CASE f \notin outbox
    BY <2>1, <2>2
  <2> QED
    BY <2>2
<1>7. RetiredInOrder'
  BY <1>1, <1>3, <1>4, <1>6 DEF RetiredInOrder, Earlier
<1>8. ASSUME NEW w \in Workers PROVE DrainInOrder(w)'
  <2>1. DrainInOrder(w) /\ held[w] \subseteq outbox
    BY <1>1 DEF FeedInv, FeedTypes
  <2>2. Relay!Undispatched' = {e \in outbox' : e.id \notin dispatched}
    BY <1>3 DEF Relay!Undispatched
  <2>3. \A e \in held[w], f \in Relay!Undispatched' : Earlier(f, e) => f \in held[w]
    BY <1>6, <2>1, <2>2 DEF DrainInOrder, Relay!Undispatched
  <2>4. held[w] \subseteq Relay!Undispatched'
    BY <2>1, <2>2 DEF DrainInOrder, Relay!Undispatched
  <2> QED
    BY <1>3, <2>1, <2>3, <2>4 DEF DrainInOrder, Earlier
<1>9. ASSUME NEW e \in outbox', e.id \in Retiring' PROVE LastHeard(e)'
  <2>1. Retiring' = Retiring
    BY <1>3 DEF Retiring, Relay!WillRetire, Relay!IsHead
  <2>2. /\ Retiring \subseteq ids /\ \A i \in DOMAIN published : published[i] \in ids
    BY RetiringAreRows
  <2>3. e \in outbox
    BY <1>4, <1>9, <2>1, <2>2
  <2>4. LastHeard(e)
    BY <1>9, <2>1, <2>3 DEF FeedInv
  <2>5. \A i \in DOMAIN published, f \in outbox' : published[i] = f.id => f \in outbox
    BY <1>4, <2>2
  <2> HIDE DEF ids
  <2> QED
    BY <1>3, <2>4, <2>5 DEF LastHeard
<1> QED
  BY <1>5, <1>7, <1>8, <1>9 DEF FeedInv
-----------------------------------------------------------------------------
(* The worker: what it publishes, marks and retires.                       *)

(* What a lone worker will retire.                                         *)
LEMMA RetiringByOne ==
  ASSUME OneWorker, NEW w \in Workers
  PROVE  /\ Retiring = dispatched \cup Relay!WillRetire(w)
         /\ Retiring' = dispatched' \cup Relay!WillRetire(w)'
BY DEF OneWorker, Retiring

(* The drain, spelled out.                                                 *)
LEMMA DrainParts ==
  ASSUME FeedInv, NEW w \in Workers
  PROVE  /\ FeedTypes /\ DrainInOrder(w) /\ RetiredInOrder /\ RowsIdentified
         /\ held[w] \subseteq outbox /\ todo[w] \subseteq held[w]
         /\ \A e \in held[w] : e.id \notin dispatched
         /\ \A e \in todo[w] : e.id \notin marked[w]
         /\ \A e \in outbox : e.id \in marked[w] => e \in held[w]
<1>1. FeedTypes /\ DrainInOrder(w) /\ RetiredInOrder /\ RowsIdentified
  BY DEF FeedInv
<1>2. held[w] \subseteq outbox
  BY <1>1 DEF FeedTypes
<1>3. /\ todo[w] \subseteq held[w] /\ \A e \in todo[w] : e.id \notin marked[w]
      /\ \A e \in held[w] : e.id \notin dispatched
  BY <1>1 DEF DrainInOrder, Relay!Undispatched
<1>4. ASSUME NEW e \in outbox, e.id \in marked[w] PROVE e \in held[w]
  <2>1. PICK f \in held[w] : f.id = e.id
    BY <1>1, <1>4 DEF DrainInOrder
  <2> QED
    BY <1>1, <1>2, <2>1 DEF RowsIdentified
<1> QED
  BY <1>1, <1>2, <1>3, <1>4

(* Steps of the worker that keep its claim and its marks.                  *)
LEMMA QuietKeepsFeed ==
  ASSUME FeedInv, UNCHANGED <<outbox, inserted, dispatched, held, todo, marked, published>>,
         wpc' \in [Workers -> WorkerPlaces],
         \A w \in Workers : \/ wpc'[w] = wpc[w]
                            \/ wpc[w] = "booting" /\ wpc'[w] = "idle"
                            \/ wpc[w] = "publishing" /\ wpc'[w] = "failing"
  PROVE  FeedInv'
<1>1. FeedTypes /\ RowsIdentified /\ RetiredInOrder
  BY DEF FeedInv
<1>2. FeedTypes' /\ RowsIdentified' /\ RetiredInOrder'
  BY <1>1 DEF FeedTypes, RowsIdentified, RetiredInOrder, Earlier
<1>3. Relay!Undispatched' = Relay!Undispatched
  BY DEF Relay!Undispatched
<1>4. ASSUME NEW w \in Workers PROVE DrainInOrder(w)'
  BY <1>3 DEF FeedInv, DrainInOrder, Earlier
<1>5. ASSUME NEW w \in Workers PROVE Relay!WillRetire(w)' \subseteq Relay!WillRetire(w)
  BY DEF Relay!WillRetire, Relay!IsHead
<1>6. Retiring' \subseteq Retiring
  BY <1>5 DEF Retiring
<1>7. \A e \in outbox : LastHeard(e) => LastHeard(e)'
  BY DEF LastHeard
<1> QED
  BY <1>2, <1>4, <1>6, <1>7 DEF FeedInv

(* Nothing about a product is retired before the head of the claim that    *)
(* has a greater id.                                                       *)
LEMMA HeadIsNext ==
  ASSUME OneWorker, FeedInv, TypeOK, NEW w \in Workers, wpc[w] # "marking",
         NEW h \in todo[w], NEW e \in outbox, e.id \in Retiring, e.aggregate = h.aggregate
  PROVE  e.id <= h.id
<1>1. /\ FeedTypes /\ DrainInOrder(w) /\ RetiredInOrder /\ RowsIdentified
      /\ held[w] \subseteq outbox /\ todo[w] \subseteq held[w]
      /\ \A f \in held[w] : f.id \notin dispatched
      /\ \A f \in todo[w] : f.id \notin marked[w]
      /\ \A f \in outbox : f.id \in marked[w] => f \in held[w]
  BY DrainParts
<1>2. e.id \in Nat /\ h.id \in Nat
  BY <1>1 DEF TypeOK, Event
<1>3. e.id \in dispatched \cup marked[w]
  BY RetiringByOne DEF Relay!WillRetire
<1> SUFFICES ASSUME h.id < e.id PROVE FALSE
  BY <1>2
<1>4. CASE e.id \in dispatched
  BY <1>1, <1>4 DEF RetiredInOrder, Earlier
<1>5. CASE e.id \in marked[w]
  BY <1>1, <1>5 DEF DrainInOrder
<1> QED
  BY <1>3, <1>4, <1>5

(* One more message, about the head of the claim.                          *)
LEMMA MessageKeepsHeard ==
  ASSUME OneWorker, FeedInv, TypeOK, NEW w \in Workers, wpc[w] # "marking",
         NEW h \in todo[w], published' = Append(published, h.id), outbox' = outbox
  PROVE  /\ published' \in Seq({e.id : e \in outbox})
         /\ LastHeard(h)'
         /\ \A e \in outbox : e.id \in Retiring => LastHeard(e)'
<1> DEFINE ids == {e.id : e \in outbox}
           n == Len(published)
<1>1. /\ FeedTypes /\ RowsIdentified /\ h \in outbox
  BY DrainParts
<1>2. h.id \in ids /\ published \in Seq(ids) /\ ids \subseteq Nat
  BY <1>1 DEF FeedTypes, TypeOK, Event
<1>3. /\ published' \in Seq(ids) /\ n \in Nat /\ DOMAIN published = 1..n
      /\ DOMAIN published' = 1..(n + 1)
      /\ published'[n + 1] = h.id /\ \A i \in 1..n : published'[i] = published[i]
  <2> HIDE DEF ids
  <2> QED
    BY <1>2
<1> HIDE DEF n
<1>4. LastHeard(h)'
  <2>1. n + 1 \in DOMAIN published' /\ \A i \in DOMAIN published' : ~(i > n + 1)
    BY <1>3
  <2> QED
    BY <1>3, <2>1 DEF LastHeard
<1>5. ASSUME NEW e \in outbox, e.id \in Retiring PROVE LastHeard(e)'
  <2>1. PICK j \in DOMAIN published :
          /\ published[j] = e.id
          /\ \A i \in DOMAIN published, f \in outbox :
               i > j /\ published[i] = f.id /\ f.aggregate = e.aggregate /\ f.type = e.type
                 => e.id <= f.id
    BY <1>5 DEF FeedInv, LastHeard
  <2>2. j \in DOMAIN published' /\ published'[j] = e.id
    BY <1>3, <2>1
  <2>3. ASSUME NEW i \in DOMAIN published', NEW f \in outbox', i > j, published'[i] = f.id,
               f.aggregate = e.aggregate, f.type = e.type
        PROVE  e.id <= f.id
    <3>1. CASE i \in 1..n
      BY <1>3, <2>1, <2>3, <3>1
    <3>2. CASE i = n + 1
      <4>1. f = h
        BY <1>1, <1>3, <2>3, <3>2 DEF RowsIdentified
      <4> QED
        BY <1>5, <2>3, <4>1, HeadIsNext
    <3> QED
      BY <1>3, <3>1, <3>2
  <2> QED
    BY <2>2, <2>3 DEF LastHeard
<1> QED
  BY <1>3, <1>4, <1>5

(* The broker stores the head of the claim, with or without a confirm.     *)
LEMMA PublishKeepsFeed ==
  ASSUME OneWorker, TypeOK, FeedInv, NEW w \in Workers, wpc[w] = "publishing",
         NEW h \in todo[w], Relay!IsHead(w, h), published' = Append(published, h.id),
         NEW at \in {"publishing", "marking", "failing"}, wpc' = [wpc EXCEPT ![w] = at],
         UNCHANGED <<outbox, inserted, dispatched, held, todo, marked>>
  PROVE  FeedInv'
<1>1. FeedTypes /\ RowsIdentified /\ RetiredInOrder /\ DrainInOrder(w) /\ h \in outbox
  BY DrainParts
<1>2. /\ published' \in Seq({e.id : e \in outbox})
      /\ LastHeard(h)'
      /\ \A e \in outbox : e.id \in Retiring => LastHeard(e)'
  BY MessageKeepsHeard
<1>3. wpc'[w] = at /\ wpc' \in [Workers -> WorkerPlaces]
  BY <1>1 DEF FeedTypes, WorkerPlaces
<1>4. FeedTypes'
  BY <1>1, <1>2, <1>3 DEF FeedTypes
<1>5. RowsIdentified' /\ RetiredInOrder'
  BY <1>1 DEF RowsIdentified, RetiredInOrder, Earlier
<1>6. Relay!Undispatched' = Relay!Undispatched
  BY DEF Relay!Undispatched
<1>7. DrainInOrder(w)'
  BY <1>1, <1>3, <1>6 DEF DrainInOrder, Earlier
<1>8. \A v \in Workers : DrainInOrder(v)'
  BY <1>7 DEF OneWorker
<1>9. ASSUME NEW e \in outbox', e.id \in Retiring' PROVE LastHeard(e)'
  <2>1. e.id \in dispatched \cup marked[w] \/ \E f \in todo[w] : f.id = e.id /\ Relay!IsHead(w, f)
    BY <1>9, RetiringByOne DEF Relay!WillRetire, Relay!IsHead
  <2>2. CASE e.id \in dispatched \cup marked[w]
    BY <1>2, <2>2, RetiringByOne DEF Relay!WillRetire
  <2>3. CASE \E f \in todo[w] : f.id = e.id /\ Relay!IsHead(w, f)
    <3>1. PICK f \in todo[w] : f.id = e.id /\ Relay!IsHead(w, f)
      BY <2>3
    <3>2. f \in outbox /\ f.id \in Nat /\ h.id \in Nat
      BY <1>1, DrainParts DEF TypeOK, Event
    <3>3. f.id <= h.id /\ h.id <= f.id
      BY <3>1 DEF Relay!IsHead
    <3>4. e = h
      BY <1>1, <3>1, <3>2, <3>3 DEF RowsIdentified
    <3> QED
      BY <1>2, <3>4
  <2> QED
    BY <2>1, <2>2, <2>3
<1> QED
  BY <1>4, <1>5, <1>8, <1>9 DEF FeedInv

(* The head is marked, or the rest of the claim is left for another drain. *)
LEMMA MarksKeepFeed ==
  ASSUME OneWorker, TypeOK, FeedInv, NEW w \in Workers, NEW h \in todo[w],
         Relay!MarkDispatched(w, h) \/ Relay!MarkFailed(w, h), UNCHANGED <<vars, published>>
  PROVE  FeedInv'
<1>1. /\ FeedTypes /\ RowsIdentified /\ RetiredInOrder /\ DrainInOrder(w)
      /\ held[w] \subseteq outbox /\ todo[w] \subseteq held[w] /\ h \in outbox
  BY DrainParts
<1>2. UNCHANGED <<outbox, inserted>>
  BY DEF vars, trxVars
<1>3. /\ wpc[w] \in {"marking", "failing"} /\ Relay!IsHead(w, h)
      /\ UNCHANGED <<dispatched, held>>
  BY DEF Relay!MarkDispatched, Relay!MarkFailed
<1> DEFINE m == IF wpc[w] = "marking" THEN marked[w] \cup {h.id} ELSE marked[w]
           rest == IF wpc[w] = "marking" THEN todo[w] \ {h} ELSE {}
           at == IF rest = {} THEN "committing" ELSE "publishing"
<1>4. /\ marked' = [marked EXCEPT ![w] = m]
      /\ todo' = [todo EXCEPT ![w] = rest]
      /\ wpc' = [wpc EXCEPT ![w] = at]
  <2>1. CASE Relay!MarkDispatched(w, h)
    <3>1. wpc[w] = "marking" /\ (todo[w] = {h} <=> rest = {})
      BY <2>1 DEF Relay!MarkDispatched
    <3> QED
      BY <2>1, <3>1 DEF Relay!MarkDispatched
  <2>2. CASE Relay!MarkFailed(w, h)
    <3>1. wpc[w] = "failing" /\ UNCHANGED marked
      BY <2>2 DEF Relay!MarkFailed
    <3>2. marked = [marked EXCEPT ![w] = marked[w]]
      BY <1>1 DEF FeedTypes
    <3> QED
      BY <2>2, <3>1, <3>2 DEF Relay!MarkFailed
  <2> QED
    BY <2>1, <2>2
<1>5. /\ rest \subseteq todo[w] /\ m \in SUBSET Nat
      /\ m \subseteq {e.id : e \in held[w]} /\ marked[w] \subseteq m
  BY <1>1 DEF FeedTypes, TypeOK, Event, DrainInOrder
<1>6. /\ marked' \in [Workers -> SUBSET Nat] /\ marked'[w] = m
      /\ todo' \in [Workers -> SUBSET outbox] /\ todo'[w] = rest
      /\ wpc' \in [Workers -> WorkerPlaces]
      /\ wpc'[w] = at
  <2>1. at \in {"committing", "publishing"} /\ rest \in SUBSET outbox
    BY <1>1, <1>5
  <2> HIDE DEF at, rest, m
  <2> QED
    BY <1>1, <1>4, <1>5, <2>1 DEF FeedTypes, WorkerPlaces
<1>7. FeedTypes'
  BY <1>1, <1>2, <1>3, <1>6 DEF FeedTypes
<1>8. RowsIdentified' /\ RetiredInOrder'
  BY <1>1, <1>2, <1>3 DEF RowsIdentified, RetiredInOrder, Earlier
<1>9. Relay!Undispatched' = Relay!Undispatched
  BY <1>2, <1>3 DEF Relay!Undispatched
<1>10. todo[w] = {e \in held[w] : e.id \notin marked[w]}
  BY <1>1, <1>3 DEF DrainInOrder
<1>11. rest = IF at \in {"publishing", "marking", "failing"}
              THEN {e \in held[w] : e.id \notin m} ELSE {}
  <2>1. CASE wpc[w] = "marking"
    <3>1. rest = {e \in held[w] : e.id \notin m}
      BY <1>1, <1>10, <2>1 DEF RowsIdentified
    <3> QED
      BY <3>1
  <2>2. CASE wpc[w] # "marking"
    BY <2>2
  <2> QED
    BY <2>1, <2>2
<1>12. \A e, f \in held[w] : f.id < e.id /\ e.id \in m => f.id \in m
  <2> SUFFICES ASSUME NEW e \in held[w], NEW f \in held[w], f.id < e.id, e.id \in m
               PROVE  f.id \in m
    OBVIOUS
  <2>1. CASE e.id \in marked[w]
    BY <1>1, <1>5, <2>1 DEF DrainInOrder
  <2>2. CASE e.id \notin marked[w]
    <3>1. e.id = h.id
      BY <2>2
    <3>2. f.id \in Nat /\ h.id \in Nat
      BY <1>1 DEF TypeOK, Event
    <3>3. f \notin todo[w]
      BY <1>3, <3>1, <3>2 DEF Relay!IsHead
    <3> QED
      BY <1>5, <1>10, <3>3
  <2> QED
    BY <2>1, <2>2
<1>13. DrainInOrder(w)'
  <2>1. at \notin {"booting", "idle"}
    OBVIOUS
  <2> HIDE DEF at, rest, m
  <2> QED
    BY <1>1, <1>3, <1>5, <1>6, <1>9, <1>11, <1>12, <2>1 DEF DrainInOrder, Earlier
<1>14. Retiring' \subseteq Retiring
  <2>1. Relay!WillRetire(w)' = m
    BY <1>6 DEF Relay!WillRetire
  <2>2. m \subseteq Relay!WillRetire(w)
    BY <1>3 DEF Relay!WillRetire
  <2> HIDE DEF m
  <2> QED
    BY <1>3, <2>1, <2>2, RetiringByOne
<1>15. ASSUME NEW e \in outbox', e.id \in Retiring' PROVE LastHeard(e)'
  <2>1. LastHeard(e)
    BY <1>2, <1>14, <1>15 DEF FeedInv
  <2> QED
    BY <1>2, <2>1 DEF LastHeard
<1> QED
  BY <1>7, <1>8, <1>13, <1>15 DEF FeedInv, OneWorker

(* A drain ends: what it marked is retired, or nothing is.                 *)
LEMMA EndKeepsFeed ==
  ASSUME OneWorker, TypeOK, FeedInv, NEW w \in Workers, NEW at \in {"idle", "booting"},
         Relay!EndTransaction(w, at), UNCHANGED <<vars, published>>,
         dispatched' = dispatched \/ dispatched' = dispatched \cup marked[w]
  PROVE  FeedInv'
<1>1. /\ FeedTypes /\ RowsIdentified /\ RetiredInOrder /\ DrainInOrder(w)
      /\ held[w] \subseteq outbox
      /\ \A e \in outbox : e.id \in marked[w] => e \in held[w]
  BY DrainParts
<1>2. UNCHANGED <<outbox, inserted>>
  BY DEF vars, trxVars
<1>3. /\ held' \in [Workers -> SUBSET outbox] /\ held'[w] = {}
      /\ todo' \in [Workers -> SUBSET outbox] /\ todo'[w] = {}
      /\ marked' \in [Workers -> SUBSET Nat] /\ marked'[w] = {}
      /\ wpc' \in [Workers -> WorkerPlaces]
      /\ wpc'[w] = at
  BY <1>1 DEF Relay!EndTransaction, FeedTypes, WorkerPlaces
<1>4. FeedTypes'
  BY <1>1, <1>2, <1>3 DEF FeedTypes, DrainInOrder
<1>5. ASSUME NEW e \in outbox, NEW f \in outbox, Earlier(f, e), e.id \in dispatched'
      PROVE  f.id \in dispatched'
  <2>1. CASE e.id \in dispatched
    BY <1>1, <1>5, <2>1 DEF RetiredInOrder
  <2>2. CASE e.id \notin dispatched
    <3>1. e \in held[w] /\ e.id \in marked[w] /\ dispatched' = dispatched \cup marked[w]
      BY <1>1, <1>5, <2>2
    <3>2. CASE f.id \notin dispatched
      <4>1. f \in held[w]
        BY <1>1, <1>5, <3>1, <3>2 DEF DrainInOrder, Relay!Undispatched
      <4> QED
        BY <1>1, <1>5, <3>1, <4>1 DEF DrainInOrder, Earlier
    <3> QED
      BY <3>1, <3>2
  <2> QED
    BY <2>1, <2>2
<1>6. RowsIdentified' /\ RetiredInOrder'
  BY <1>1, <1>2, <1>5 DEF RowsIdentified, RetiredInOrder, Earlier
<1>7. DrainInOrder(w)'
  BY <1>3 DEF DrainInOrder
<1>8. Retiring' \subseteq Retiring
  BY <1>3, RetiringByOne DEF Relay!WillRetire
<1>9. ASSUME NEW e \in outbox', e.id \in Retiring' PROVE LastHeard(e)'
  <2>1. LastHeard(e)
    BY <1>2, <1>8, <1>9 DEF FeedInv
  <2> QED
    BY <1>2, <2>1 DEF LastHeard
<1> QED
  BY <1>4, <1>6, <1>7, <1>9 DEF FeedInv, OneWorker

(* Below any id there are finitely many rows.                              *)
LEMMA RowsBelow ==
  ASSUME TypeOK, RowsIdentified, NEW S \in SUBSET outbox, NEW n \in Nat
  PROVE  IsFiniteSet({e \in S : e.id < n})
<1> DEFINE below == {e \in S : e.id < n}
           f == [e \in below |-> e.id]
<1>1. \A e \in below : e.id \in 0..n
  BY DEF TypeOK, Event
<1>2. f \in Injection(below, 0..n)
  BY <1>1 DEF Injection, IsInjective, RowsIdentified
<1>3. IsFiniteSet(0..n)
  BY FS_Interval
<1> HIDE DEF f, below
<1>4. IsFiniteSet(below)
  BY <1>2, <1>3, FS_Injection
<1> QED
  BY <1>4 DEF below

(* The claim: no row it leaves has a smaller id than one it takes.         *)
LEMMA ClaimIsFirst ==
  ASSUME TypeOK, RowsIdentified, NEW S \in SUBSET outbox,
         NEW e \in Relay!FirstRows(S, BatchSize), NEW f \in S, f.id < e.id
  PROVE  f \in Relay!FirstRows(S, BatchSize)
<1> DEFINE Below(g) == {x \in S : x.id < g.id}
<1>1. e \in S /\ Cardinality(Below(e)) < BatchSize
  BY RelayCardinality DEF Relay!FirstRows
<1>2. e.id \in Nat /\ f.id \in Nat /\ \A x \in S : x.id \in Nat
  BY <1>1 DEF TypeOK, Event
<1>3. Below(f) \subseteq Below(e)
  BY <1>2
<1>4. IsFiniteSet(Below(e))
  BY <1>2, RowsBelow
<1>5. /\ Cardinality(Below(f)) <= Cardinality(Below(e))
      /\ Cardinality(Below(f)) \in Nat /\ Cardinality(Below(e)) \in Nat
  <2> HIDE DEF Below
  <2> QED
    BY <1>3, <1>4, FS_Subset, FS_CardinalityType
<1>6. Cardinality(Below(f)) < BatchSize
  <2> HIDE DEF Below
  <2> QED
    BY <1>1, <1>5, FeedAssumption
<1> QED
  BY <1>6, RelayCardinality DEF Relay!FirstRows

(* A claim is complete up to its last id.                                  *)
LEMMA ClaimKeepsFeed ==
  ASSUME OneWorker, TypeOK, FeedInv, NEW w \in Workers, Relay!Claim(w), UNCHANGED vars
  PROVE  FeedInv'
<1>1. /\ FeedTypes /\ RowsIdentified /\ RetiredInOrder /\ DrainInOrder(w)
  BY DrainParts
<1>2. UNCHANGED <<outbox, inserted, dispatched, marked, published>> /\ wpc[w] = "idle"
  BY DEF vars, trxVars, Relay!Claim, Relay!brokerVars
<1>3. held[w] = {} /\ marked[w] = {} /\ todo[w] = {}
  BY <1>1, <1>2 DEF DrainInOrder
<1>4. Relay!HeldBySome = {}
  BY <1>3 DEF Relay!HeldBySome, OneWorker
<1> DEFINE batch == Relay!FirstRows(Relay!Undispatched, BatchSize)
<1>5. /\ held' = [held EXCEPT ![w] = batch] /\ todo' = [todo EXCEPT ![w] = batch]
      /\ wpc' = [wpc EXCEPT ![w] = "publishing"]
  <2>1. Relay!Undispatched \ Relay!HeldBySome = Relay!Undispatched
    BY <1>4
  <2> QED
    BY <2>1 DEF Relay!Claim
<1>6. batch \subseteq Relay!Undispatched /\ Relay!Undispatched \subseteq outbox
  BY DEF Relay!FirstRows, Relay!Undispatched
<1>7. \A e \in batch, f \in Relay!Undispatched : f.id < e.id => f \in batch
  BY <1>1, <1>6, ClaimIsFirst
<1> HIDE DEF batch
<1>8. /\ held' \in [Workers -> SUBSET outbox] /\ held'[w] = batch
      /\ todo' \in [Workers -> SUBSET outbox] /\ todo'[w] = batch
      /\ wpc' \in [Workers -> WorkerPlaces]
      /\ wpc'[w] = "publishing"
  BY <1>1, <1>5, <1>6 DEF FeedTypes, WorkerPlaces
<1>9. FeedTypes'
  BY <1>1, <1>2, <1>8 DEF FeedTypes
<1>10. RowsIdentified' /\ RetiredInOrder'
  BY <1>1, <1>2 DEF RowsIdentified, RetiredInOrder, Earlier
<1>11. DrainInOrder(w)'
  <2>1. Relay!Undispatched' = Relay!Undispatched
    BY <1>2 DEF Relay!Undispatched
  <2> QED
    BY <1>2, <1>3, <1>6, <1>7, <1>8, <2>1 DEF DrainInOrder, Earlier
<1>12. Retiring' \subseteq Retiring
  BY <1>2, <1>3, <1>8, RetiringByOne DEF Relay!WillRetire
<1>13. ASSUME NEW e \in outbox', e.id \in Retiring' PROVE LastHeard(e)'
  <2>1. LastHeard(e)
    BY <1>2, <1>12, <1>13 DEF FeedInv
  <2> QED
    BY <1>2, <2>1 DEF LastHeard
<1> QED
  BY <1>9, <1>10, <1>11, <1>13 DEF FeedInv, OneWorker

(* The relay's part of FeedNext.                                           *)
LEMMA DrainKeepsFeed ==
  ASSUME OneWorker, TypeOK, FeedInv, NEW w \in Workers,
         Relay!Drain(w) \/ Relay!Failure(w), UNCHANGED vars
  PROVE  FeedInv'
<1>1. FeedTypes
  BY DEF FeedInv
<1>2. UNCHANGED <<outbox, inserted>>
  BY DEF vars, trxVars
<1>3. CASE Relay!Boot(w) \/ Relay!PublishRejected(w)
  <2>1. /\ UNCHANGED <<dispatched, held, todo, marked, published>>
        /\ \/ wpc[w] = "booting" /\ wpc' = [wpc EXCEPT ![w] = "idle"]
           \/ wpc[w] = "publishing" /\ wpc' = [wpc EXCEPT ![w] = "failing"]
    BY <1>3 DEF Relay!Boot, Relay!PublishRejected, Relay!brokerVars
  <2>2. wpc' \in [Workers -> WorkerPlaces]
    BY <1>1, <2>1 DEF FeedTypes, WorkerPlaces
  <2>3. \A v \in Workers : \/ wpc'[v] = wpc[v]
                           \/ wpc[v] = "booting" /\ wpc'[v] = "idle"
                           \/ wpc[v] = "publishing" /\ wpc'[v] = "failing"
    BY <1>1, <2>1 DEF FeedTypes
  <2> QED
    BY <1>2, <2>1, <2>2, <2>3, QuietKeepsFeed
<1>4. ASSUME NEW h \in todo[w], Relay!Publish(w, h) \/ Relay!ConfirmLost(w, h) PROVE FeedInv'
  <2>1. /\ wpc[w] = "publishing" /\ Relay!IsHead(w, h) /\ published' = Append(published, h.id)
        /\ UNCHANGED <<dispatched, held, todo, marked>>
    BY <1>4 DEF Relay!Publish, Relay!ConfirmLost
  <2>2. wpc' = wpc \/ \E at \in {"marking", "failing"} : wpc' = [wpc EXCEPT ![w] = at]
    BY <1>4 DEF Relay!Publish, Relay!ConfirmLost
  <2>3. wpc = [wpc EXCEPT ![w] = "publishing"]
    BY <1>1, <2>1 DEF FeedTypes
  <2>4. PICK at \in {"publishing", "marking", "failing"} : wpc' = [wpc EXCEPT ![w] = at]
    BY <2>2, <2>3
  <2> QED
    BY <1>2, <2>1, <2>4, PublishKeepsFeed
<1>5. ASSUME NEW h \in todo[w], Relay!MarkDispatched(w, h) \/ Relay!MarkFailed(w, h) PROVE FeedInv'
  <2>1. UNCHANGED published
    BY <1>5 DEF Relay!MarkDispatched, Relay!MarkFailed, Relay!brokerVars
  <2> QED
    BY <1>5, <2>1, MarksKeepFeed
<1>6. CASE Relay!Commit(w) \/ Relay!RollbackDrain(w)
  <2>1. PICK at \in {"idle", "booting"} : Relay!EndTransaction(w, at)
    BY <1>6 DEF Relay!Commit, Relay!RollbackDrain
  <2>2. /\ UNCHANGED published
        /\ dispatched' = dispatched \/ dispatched' = dispatched \cup marked[w]
    BY <1>6 DEF Relay!Commit, Relay!RollbackDrain, Relay!brokerVars
  <2> QED
    BY <2>1, <2>2, EndKeepsFeed
<1> QED
  BY <1>3, <1>4, <1>5, <1>6, ClaimKeepsFeed DEF Relay!Drain, Relay!Failure
-----------------------------------------------------------------------------
(* The consumer.                                                           *)

(* A smaller subset is below in the order of the subsets.                  *)
LEMMA StrictlyIn ==
  ASSUME NEW S, NEW a \in SUBSET S, NEW b \in SUBSET S, a \subseteq b, a # b
  PROVE  <<a, b>> \in StrictSubsetOrdering(S)
BY DEF StrictSubsetOrdering

(* A set of positions that is not empty has a last one.                    *)
LEMMA LastPosition ==
  ASSUME NEW n \in Nat, NEW S \in SUBSET (1..n), S # {}
  PROVE  Max(S) \in S /\ \A i \in S : i <= Max(S)
<1> DEFINE Later(i) == {j \in S : i < j}
           F == {Later(i) : i \in S}
           R == StrictSubsetOrdering(S)
<1>1. IsFiniteSet(S)
  <2>1. IsFiniteSet(1..n)
    BY FS_Interval
  <2> QED
    BY <2>1, FS_Subset
<1>2. IsWellFoundedOn(R, SUBSET S)
  <2>1. FiniteSubsetsOf(S) = SUBSET S
    BY <1>1, FS_FiniteSubsetsOfFinite
  <2> QED
    BY <2>1, FS_StrictSubsetOrderingWellFounded
<1>3. F \subseteq SUBSET S /\ F # {}
  OBVIOUS
<1>4. \E x \in F : \A y \in F : ~(<<y, x>> \in R)
  <2> HIDE DEF F, R
  <2> QED
    BY <1>2, <1>3, WFMin
<1>5. PICK i \in S : \A j \in S : ~(<<Later(j), Later(i)>> \in R)
  BY <1>4
<1>6. ASSUME NEW j \in S, i < j PROVE FALSE
  <2>1. /\ Later(j) \subseteq Later(i) /\ j \in Later(i) /\ j \notin Later(j)
        /\ Later(i) \subseteq S
    <3>1. i \in Int /\ j \in Int /\ \A k \in S : k \in Int
      OBVIOUS
    <3>2. \A k \in S : j < k => i < k
      BY <1>6, <3>1
    <3> QED
      <4>1. Later(i) \subseteq S /\ j \in Later(i)
        BY <1>6
      <4>2. j \notin Later(j)
        BY <3>1
      <4>3. Later(j) \subseteq Later(i)
        BY <3>2
      <4> QED
        BY <4>1, <4>2, <4>3
  <2>2. <<Later(j), Later(i)>> \in R
    <3> HIDE DEF Later
    <3> QED
      BY <2>1, StrictlyIn
  <2> QED
    BY <1>5, <2>2
<1>7. \A j \in S : i >= j
  BY <1>6
<1>8. \E x \in S : \A y \in S : x >= y
  BY <1>7
<1> QED
  BY <1>8 DEF Max

(* Every step keeps FeedInv.                                               *)
LEMMA FeedStep ==
  ASSUME OneWorker, DecisionInv, DecisionInv', FeedInv, [FeedNext]_feedVars
  PROVE  FeedInv'
<1>1. TypeOK /\ TypeOK' /\ RowsIdentified /\ FeedTypes
  BY DEF DecisionInv, StockInv, FeedInv
<1>2. CASE [Next]_vars /\ UNCHANGED relayVars
  BY <1>1, <1>2, OutboxGrows, GrowthKeepsFeed
<1>3. ASSUME NEW w \in Workers, Relay!Drain(w) \/ Relay!Failure(w), UNCHANGED vars
      PROVE  FeedInv'
  BY <1>1, <1>3, DrainKeepsFeed
<1>4. CASE (Relay!BrokerDown \/ Relay!BrokerUp) /\ UNCHANGED vars
  <2>1. UNCHANGED <<outbox, inserted, dispatched, wpc, held, todo, marked, published>>
    BY <1>4 DEF Relay!BrokerDown, Relay!BrokerUp, Relay!workerVars, vars, trxVars
  <2> QED
    BY <1>1, <2>1, QuietKeepsFeed DEF FeedTypes
<1> QED
  BY <1>2, <1>3, <1>4 DEF FeedNext, feedVars

(* The worker leaves the tables of Stock alone.                            *)
LEMMA FeedHasStock == FeedSpec => Spec
<1>1. FeedInit => Init
  BY DEF FeedInit
<1>2. [FeedNext]_feedVars => [Next]_vars
  BY DEF FeedNext, feedVars
<1> QED
  BY <1>1, <1>2, PTL DEF FeedSpec, Spec

(* With one worker FeedInv holds throughout, for any number of requests,   *)
(* of products, and of failures of the broker and the worker.              *)
THEOREM FeedInvariant ==
  ASSUME OneWorker
  PROVE  FeedSpec => []FeedInv
<1>1. DecisionInv /\ DecisionInv' /\ FeedInv /\ [FeedNext]_feedVars => FeedInv'
  BY FeedStep
<1> QED
  BY <1>1, FeedStarts, FeedHasStock, DecisionInvariant, PTL DEF FeedSpec

(* Once all is dispatched, the last message about a column of a product is *)
(* about its last row in the outbox.                                       *)
LEMMA LastMessageIsLatest ==
  ASSUME FeedInv, TypeOK, Relay!Undispatched = {},
         NEW p \in Products, NEW type \in {"stock", "price"}, Heard(p, type) # {}
  PROVE  \E e \in outbox : /\ e.aggregate = p /\ e.type = type /\ Latest(e)
                          /\ Copy(p, type) = e.value
<1> DEFINE last == Max(Heard(p, type))
           e == CHOOSE g \in outbox : g.id = published[last]
<1>1. FeedTypes /\ RowsIdentified
  BY DEF FeedInv
<1>2. /\ Len(published) \in Nat /\ DOMAIN published = 1..Len(published)
  BY <1>1, SeqElements DEF FeedTypes
<1>3. Heard(p, type) \subseteq DOMAIN published
  BY DEF Heard
<1>4. last \in Heard(p, type) /\ \A i \in Heard(p, type) : i <= last
  BY <1>2, <1>3, LastPosition
<1> HIDE DEF last
<1>5. PICK h \in outbox : h.id = published[last] /\ h.aggregate = p /\ h.type = type
  BY <1>4 DEF Heard
<1>6. e \in outbox /\ e.id = published[last]
  BY <1>5
<1>7. e = h
  BY <1>1, <1>5, <1>6 DEF RowsIdentified
<1>8. ASSUME NEW f \in outbox, f.aggregate = p, f.type = type PROVE f.id <= h.id
  <2>1. f.id \in dispatched
    BY DEF Relay!Undispatched
  <2>2. LastHeard(f)
    BY <2>1 DEF FeedInv, Retiring
  <2>3. PICK j \in DOMAIN published :
          /\ published[j] = f.id
          /\ \A i \in DOMAIN published, g \in outbox :
               i > j /\ published[i] = g.id /\ g.aggregate = f.aggregate /\ g.type = f.type
                 => f.id <= g.id
    BY <2>2 DEF LastHeard
  <2>4. j \in Heard(p, type)
    BY <1>8, <2>3 DEF Heard
  <2>5. j <= last /\ j \in Int /\ last \in Int /\ last \in DOMAIN published
    BY <1>2, <1>3, <1>4, <2>4
  <2>6. CASE j = last
    BY <1>5, <2>3, <2>6 DEF TypeOK, Event
  <2>7. CASE j < last
    BY <1>5, <1>8, <2>3, <2>5, <2>7
  <2> QED
    BY <2>5, <2>6, <2>7
<1>9. Latest(h)
  BY <1>5, <1>8 DEF Latest
<1>10. Copy(p, type) = e.value
  BY DEF Copy, last
<1> QED
  BY <1>5, <1>7, <1>9, <1>10

(* With one worker, and where no list names a product twice, a consumer    *)
(* that keeps the last message it heard holds the stock and the price of   *)
(* the database whenever the outbox is drained.                            *)
THEOREM ConsumerConverges ==
  ASSUME OneWorker, NamedOnce
  PROVE  FeedSpec => []ConsumerAgreesWhenDrained
<1>1. FeedInv /\ DecisionInv /\ LatestEventIsCurrent => ConsumerAgreesWhenDrained
  <2> SUFFICES ASSUME FeedInv, DecisionInv, LatestEventIsCurrent, Relay!Undispatched = {},
                      NEW p \in Products, NEW type \in {"stock", "price"}, Heard(p, type) # {}
               PROVE  Copy(p, type) = row[p][type]
    BY DEF ConsumerAgreesWhenDrained
  <2>1. TypeOK
    BY DEF DecisionInv, StockInv
  <2>2. PICK e \in outbox : /\ e.aggregate = p /\ e.type = type /\ Latest(e)
                           /\ Copy(p, type) = e.value
    BY <2>1, LastMessageIsLatest
  <2>3. e.value = row[e.aggregate][e.type]
    BY <2>2 DEF LatestEventIsCurrent
  <2> QED
    BY <2>2, <2>3
<1> QED
  BY <1>1, FeedInvariant, FeedHasStock, DecisionInvariant, AnnouncementsAreCurrent, PTL
=============================================================================
