-------------------------------- MODULE Stock --------------------------------
(***************************************************************************)
(* The transactions of ProductService on product_branch_details and        *)
(* events_outbox, for the products of one branch: reserveStock,            *)
(* releaseStock, the branch part of update, and the trigger that creates   *)
(* the rows.  Each request is one Postgres transaction (READ COMMITTED)    *)
(* whose statements interleave with those of the others: a SELECT ... FOR  *)
(* UPDATE that takes the row locks one by one and waits for those already  *)
(* taken, one UPDATE, one INSERT into the outbox, a COMMIT.  A request     *)
(* runs once; a retry is another request.                                  *)
(***************************************************************************)
EXTENDS StockData, FiniteSets, FiniteSetsExt

CONSTANTS Requests,     \* the requests in flight
          NoTrx         \* the holder of a free row lock

ASSUME NoTrxAssumption == NoTrx \notin Requests

VARIABLES provisioned,  \* products that have a row at the branch
          row,          \* the committed row of each product
          lock,         \* the transaction that holds each row's lock
          pc,           \* where a request is
          req,          \* what it asks for
          scan,         \* rows its statement still has to lock, in scan order
          seen,         \* the rows it has read, by product
          plan,         \* the changes it has computed, one per item
          written,      \* its uncommitted UPDATE, by product
          inserted,     \* its uncommitted outbox rows
          outbox,       \* the committed outbox rows
          nextId        \* events_outbox.id is a BIGSERIAL: drawn at INSERT

trxVars == <<lock, pc, req, scan, seen, plan, written, inserted>>
vars    == <<provisioned, row, outbox, nextId, trxVars>>

Ops == [op : {"reserve", "release"}, items : Batches]
         \cup [op : {"patch"}, patch : Patches]

InTrx    == {"locking", "emitting", "committing"}
Answered == {"ok", "rejected", "failed"}

Row    == [price : 0..MaxInt, stock : 0..MaxInt, available : BOOLEAN]
Change == [ix : Nat, aggregate : Products, type : {"stock", "price"}, value : Nat]
Event  == [id : Nat, aggregate : Products, type : {"stock", "price"}, value : Nat]

\* Functions from some of the products.
Partial(S) == UNION {[D -> S] : D \in SUBSET Products}

Targets(q) == IF q.op = "patch" THEN {q.patch.product} ELSE Target(q.items)

-----------------------------------------------------------------------------
Init ==
  /\ provisioned \in SUBSET Products
  /\ row \in [Products -> InitRows]
  /\ outbox = {} /\ nextId = 1
  /\ lock = [p \in Products |-> NoTrx]
  /\ pc = [r \in Requests |-> "idle"]
  /\ req \in [Requests -> Ops]
  /\ scan = [r \in Requests |-> <<>>]
  /\ seen = [r \in Requests |-> <<>>]
  /\ plan = [r \in Requests |-> {}]
  /\ written = [r \in Requests |-> <<>>]
  /\ inserted = [r \in Requests |-> {}]

\* sanitizeStockItems keeps every item, and the controller found one.
Sanitized(items) ==
  items # <<>> /\ \A i \in DOMAIN items : items[i].quantity > 0

ScanOrders(S) ==
  {s \in [1..Cardinality(S) -> S] : \A i, j \in DOMAIN s : s[i] = s[j] => i = j}

(* The request arrives.  A malformed list is refused before the database   *)
(* is touched; otherwise the transaction begins and its first statement    *)
(* finds the rows that exist, in whatever order the plan scans them.       *)
Begin(r) ==
  /\ pc[r] = "idle"
  /\ IF req[r].op # "patch" /\ ~ Sanitized(req[r].items)
     THEN pc' = [pc EXCEPT ![r] = "rejected"] /\ UNCHANGED scan
     ELSE /\ pc' = [pc EXCEPT ![r] = "locking"]
          /\ \E s \in ScanOrders(Targets(req[r]) \cap provisioned) :
               scan' = [scan EXCEPT ![r] = s]
  /\ UNCHANGED <<provisioned, row, outbox, nextId, lock, req, seen, plan,
                 written, inserted>>

\* Mutant: the rows are read without FOR UPDATE.
LockRowPlain(r) ==
  /\ pc[r] = "locking" /\ scan[r] # <<>>
  /\ LET p == Head(scan[r])
     IN  seen' = [seen EXCEPT ![r] =
                    [q \in DOMAIN seen[r] \cup {p} |->
                       IF q = p THEN row[p] ELSE seen[r][q]]]
  /\ scan' = [scan EXCEPT ![r] = Tail(@)]
  /\ UNCHANGED <<provisioned, row, outbox, nextId, lock, pc, req, plan, written,
                 inserted>>

(* The statement locks the next row and reads its latest committed version.*)
LockRow(r) ==
  /\ pc[r] = "locking" /\ scan[r] # <<>>
  /\ LET p == Head(scan[r])
     IN  /\ lock[p] = NoTrx
         /\ lock' = [lock EXCEPT ![p] = r]
         /\ seen' = [seen EXCEPT ![r] =
                       [q \in DOMAIN seen[r] \cup {p} |->
                          IF q = p THEN row[p] ELSE seen[r][q]]]
  /\ scan' = [scan EXCEPT ![r] = Tail(@)]
  /\ UNCHANGED <<provisioned, row, outbox, nextId, pc, req, plan, written,
                 inserted>>

\* Mutant: the catch answers without rolling back.
RollbackForgotten(r, answer) ==
  /\ pc' = [pc EXCEPT ![r] = answer]
  /\ UNCHANGED <<provisioned, row, outbox, nextId, lock, req, scan, seen, plan,
                 written, inserted>>

(* Rollback: by the service's catch, or by Postgres when the connection    *)
(* or the process is gone.  Ids already drawn stay drawn.                  *)
Rollback(r, answer) ==
  /\ pc' = [pc EXCEPT ![r] = answer]
  /\ lock' = [p \in Products |-> IF lock[p] = r THEN NoTrx ELSE lock[p]]
  /\ scan' = [scan EXCEPT ![r] = <<>>]
  /\ seen' = [seen EXCEPT ![r] = <<>>]
  /\ plan' = [plan EXCEPT ![r] = {}]
  /\ written' = [written EXCEPT ![r] = <<>>]
  /\ inserted' = [inserted EXCEPT ![r] = {}]
  /\ UNCHANGED <<provisioned, row, outbox, nextId, req>>

\* Mutant: the stock is not compared with the quantity.
OffendingUnavailable(r) ==
  {i \in DOMAIN req[r].items :
     LET p == req[r].items[i].product
     IN  p \notin DOMAIN seen[r] \/ ~ seen[r][p].available}

(* Some item is missing, switched off or short: the whole batch fails.     *)
Offending(r) ==
  LET items == req[r].items
  IN  {i \in DOMAIN items :
         LET p == items[i].product
         IN  \/ p \notin DOMAIN seen[r]
             \/ ~ seen[r][p].available
             \/ seen[r][p].stock < items[i].quantity}

(* What the request is going to change, each item computed on its own from *)
(* the rows read; an item of a release whose product has no row is skipped.*)
Computed(r) ==
  LET q       == req[r]
      sign    == IF q.op = "reserve" THEN -1 ELSE 1
      known   == {i \in DOMAIN q.items : q.items[i].product \in DOMAIN seen[r]}
  IN  {[ix        |-> i,
        aggregate |-> q.items[i].product,
        type      |-> "stock",
        value     |-> seen[r][q.items[i].product].stock
                        + sign * q.items[i].quantity] : i \in known}

Patched(r) ==
  LET patch == req[r].patch
      old   == seen[r][patch.product]
  IN  [c \in DOMAIN old |->
         IF c \in DOMAIN patch.set THEN patch.set[c] ELSE old[c]]

PatchPlan(r) ==
  LET patch == req[r].patch
      named == DOMAIN patch.set
      event(ix, type) == [ix |-> ix, aggregate |-> patch.product,
                          type |-> type, value |-> Patched(r)[type]]
  IN  {event(1, "price") : c \in named \cap {"price"}}
        \cup {event(2, "stock") : c \in named \cap {"stock", "available"}}

Plan(r) == IF req[r].op = "patch" THEN PatchPlan(r) ELSE Computed(r)

(* The statement's scan is over.  No UPDATE happens when a reservation has *)
(* an offending item, or a patch found no row (its RETURNING is empty).    *)
Refuse(r) ==
  /\ pc[r] = "locking" /\ scan[r] = <<>>
  /\ CASE req[r].op = "reserve" -> Offending(r) # {}
       [] req[r].op = "patch"   -> DOMAIN seen[r] = {}
       [] OTHER                 -> FALSE
  /\ Rollback(r, "rejected")

Accepted(r) ==
  /\ pc[r] = "locking" /\ scan[r] = <<>>
  /\ CASE req[r].op = "reserve" -> Offending(r) = {}
       [] req[r].op = "patch"   -> DOMAIN seen[r] # {}
       [] OTHER                 -> TRUE

(* A value that does not fit the column makes the UPDATE fail.             *)
Overflow(r) ==
  /\ Accepted(r)
  /\ \E c \in Plan(r) : c.value > MaxInt
  /\ Rollback(r, "failed")

(* UPDATE ... FROM (VALUES ...): a product listed twice matches two rows   *)
(* of the VALUES table, and Postgres takes one of them.                    *)
Written(r) ==
  LET touched == {c.aggregate : c \in Plan(r)}
  IN  IF req[r].op = "patch"
      THEN {[p \in touched |-> Patched(r)]}
      ELSE {[p \in touched |-> [seen[r][p] EXCEPT !.stock = pick[p].value]] :
              pick \in {f \in [touched -> Plan(r)] :
                          \A p \in touched : f[p].aggregate = p}}

Update(r) ==
  /\ Accepted(r)
  /\ \A c \in Plan(r) : c.value <= MaxInt
  /\ plan' = [plan EXCEPT ![r] = Plan(r)]
  /\ \E w \in Written(r) : written' = [written EXCEPT ![r] = w]
  /\ pc' = [pc EXCEPT ![r] = "emitting"]
  /\ UNCHANGED <<provisioned, row, outbox, nextId, lock, req, scan, seen,
                 inserted>>

\* The ids a request draws: a batch one per item, a patch two at most.
Drawn(r) == IF req[r].op = "patch" THEN 2 ELSE Len(req[r].items)

\* The outbox rows of some changes, numbered from n.
Numbered(n, changes) ==
  {[id |-> n + c.ix, aggregate |-> c.aggregate, type |-> c.type,
    value |-> c.value] : c \in changes}

\* Mutant: the events are inserted outside the transaction.
EmitOutside(r) ==
  /\ pc[r] = "emitting"
  /\ outbox' = outbox \cup Numbered(nextId, plan[r])
  /\ nextId' = nextId + Drawn(r)
  /\ pc' = [pc EXCEPT ![r] = "committing"]
  /\ UNCHANGED <<provisioned, row, lock, req, scan, seen, plan, written, inserted>>

(* insertOutboxEvents: the ids are drawn now, and the rows become visible  *)
(* with the commit.  A serial column may skip numbers.                     *)
Emit(r) ==
  /\ pc[r] = "emitting"
  /\ inserted' = [inserted EXCEPT ![r] = Numbered(nextId, plan[r])]
  /\ nextId' = nextId + Drawn(r)
  /\ pc' = [pc EXCEPT ![r] = "committing"]
  /\ UNCHANGED <<provisioned, row, outbox, lock, req, scan, seen, plan, written>>

(* The commit may take place and its acknowledgement be lost: the caller   *)
(* is then told of a failure.                                              *)
Commit(r) ==
  /\ pc[r] = "committing"
  /\ row' = [p \in Products |->
               IF p \in DOMAIN written[r] THEN written[r][p] ELSE row[p]]
  /\ outbox' = outbox \cup inserted[r]
  /\ lock' = [p \in Products |-> IF lock[p] = r THEN NoTrx ELSE lock[p]]
  /\ \E answer \in {"ok", "failed"} : pc' = [pc EXCEPT ![r] = answer]
  /\ seen' = [seen EXCEPT ![r] = <<>>]
  /\ plan' = [plan EXCEPT ![r] = {}]
  /\ written' = [written EXCEPT ![r] = <<>>]
  /\ inserted' = [inserted EXCEPT ![r] = {}]
  /\ UNCHANGED <<provisioned, nextId, req, scan>>

(* The connection or the process fails in the middle of the transaction.   *)
Abort(r) == pc[r] \in InTrx /\ Rollback(r, "failed")

WaitsFor(r, s) ==
  /\ r # s
  /\ pc[r] = "locking" /\ scan[r] # <<>>
  /\ lock[Head(scan[r])] = s

(* Nothing orders the rows of a FOR UPDATE, so transactions can wait in a  *)
(* cycle; Postgres then aborts one on it.                                  *)
InDeadlock(r) ==
  \E S \in SUBSET Requests :
    /\ r \in S
    /\ \A a \in S : \E b \in S : WaitsFor(a, b)
    /\ \A b \in S : \E a \in S : WaitsFor(a, b)

DeadlockVictim(r) == InDeadlock(r) /\ Rollback(r, "failed")

(* The trigger on products gives a new product its row at the branch.  The *)
(* id is new: no request in flight names it.  A product older than the     *)
(* branch never gets a row, and its requests find none.                    *)
CreateProduct(p) ==
  /\ p \notin provisioned
  /\ \A r \in Requests : pc[r] \in InTrx => p \notin Targets(req[r])
  /\ provisioned' = provisioned \cup {p}
  /\ row' = [row EXCEPT ![p] = NewRow]
  /\ UNCHANGED <<outbox, nextId, trxVars>>

Statement(r) == \/ Begin(r) \/ LockRow(r) \/ Refuse(r) \/ Overflow(r)
                \/ Update(r) \/ Emit(r) \/ Commit(r)

Next ==
  \/ \E r \in Requests : Statement(r) \/ Abort(r) \/ DeadlockVictim(r)
  \/ \E p \in Products : CreateProduct(p)

Spec == Init /\ [][Next]_vars

(* The service issues the next statement as soon as the last one returned, *)
(* Postgres gives a free lock to somebody who waits for it and looks for   *)
(* deadlocks after deadlock_timeout.  Nobody has to send a request, and    *)
(* no failure has to happen.                                               *)
Fairness ==
  \A r \in Requests : /\ WF_vars(pc[r] # "idle" /\ Statement(r))
                      /\ WF_vars(DeadlockVictim(r))

FairSpec == Spec /\ Fairness
-----------------------------------------------------------------------------
(* Types of the variables. *)
TypeOK ==
  /\ provisioned \in SUBSET Products
  /\ row \in [Products -> Row]
  /\ outbox \in SUBSET Event
  /\ nextId \in Nat
  /\ lock \in [Products -> Requests \cup {NoTrx}]
  /\ pc \in [Requests -> {"idle"} \cup InTrx \cup Answered]
  /\ req \in [Requests -> Ops]
  /\ scan \in [Requests -> Seq(Products)]
  /\ seen \in [Requests -> Partial(Row)]
  /\ plan \in [Requests -> SUBSET Change]
  /\ written \in [Requests -> Partial(Row)]
  /\ inserted \in [Requests -> SUBSET Event]

(* What a transaction has read of a row it will write is still the          *)
(* committed value: FOR UPDATE leaves no window for a lost update between   *)
(* the SELECT of reserveStock or releaseStock and its UPDATE.               *)
ReadsStayCurrent ==
  \A r \in Requests : \A p \in DOMAIN seen[r] :
    lock[p] = r /\ p \in provisioned /\ seen[r][p] = row[p]

(* Ids drawn by a transaction are above those of every committed row of     *)
(* the same product, although ids are drawn before the commit: the row lock *)
(* is held across both.                                                     *)
DrawnAbove ==
  \A r \in Requests : \A f \in inserted[r] : \A e \in outbox :
    e.aggregate = f.aggregate => e.id < f.id

(* The inductive invariant behind the last two: a list was sanitized before *)
(* its transaction began, whatever a transaction is going to write or       *)
(* announce is about rows it has read, and no id is beyond the sequence.    *)
OnlySanitized ==
  \A r \in Requests :
    pc[r] \in InTrx /\ req[r].op # "patch" => Sanitized(req[r].items)

WithinLocks ==
  \A r \in Requests :
    /\ \A i \in DOMAIN scan[r] : scan[r][i] \in Targets(req[r]) \cap provisioned
    /\ DOMAIN seen[r] \subseteq Targets(req[r])
    /\ DOMAIN written[r] \subseteq DOMAIN seen[r]
    /\ \A c \in plan[r] : c.aggregate \in DOMAIN seen[r] /\ c.ix \in 1..Drawn(r)
    /\ \A f \in inserted[r] : f.aggregate \in DOMAIN seen[r]

IdsDrawn ==
  /\ \A e \in outbox : e.id <= nextId
  /\ \A r \in Requests : \A f \in inserted[r] : f.id <= nextId

(* The inductive invariant: the types (stock and price are never negative  *)
(* and never too large for their column) and the parts above.              *)
StockInv ==
  /\ TypeOK /\ OnlySanitized /\ WithinLocks /\ IdsDrawn
  /\ ReadsStayCurrent /\ DrawnAbove

(* From its UPDATE to its end a transaction keeps to what it decided: it    *)
(* has read every row there is of those it asked for, and what it is going  *)
(* to write and announce follows from them.                                 *)
ReadsAll(r) ==
  pc[r] \in InTrx =>
    DOMAIN seen[r] \cup {scan[r][i] : i \in DOMAIN scan[r]}
      = Targets(req[r]) \cap provisioned

KeepsToPlan(r) ==
  pc[r] \in {"emitting", "committing"} =>
    /\ scan[r] = <<>>
    /\ req[r].op = "reserve" => Offending(r) = {}
    /\ req[r].op = "patch" => DOMAIN seen[r] # {}
    /\ \A c \in Plan(r) : c.value <= MaxInt
    /\ plan[r] = Plan(r) /\ written[r] \in Written(r)

AnnouncesPlan(r) ==
  IF pc[r] = "committing"
  THEN \E n \in 0..nextId : inserted[r] = Numbered(n, plan[r])
  ELSE inserted[r] = {}

(* The invariant behind the announcements and the atomic operations: no     *)
(* product without a row has been announced either.                         *)
DecisionInv ==
  /\ StockInv
  /\ \A e \in outbox : e.aggregate \in provisioned
  /\ \A r \in Requests : ReadsAll(r) /\ KeepsToPlan(r) /\ AnnouncesPlan(r)

\* No list of items names a product twice (the code does not refuse one).
NamedOnce ==
  \A items \in Batches : \A i, j \in DOMAIN items :
    items[i].product = items[j].product => i = j

(* The last announcement about a product carries the value of its row: a    *)
(* consumer that reads the outbox in id order ends up with the stock and    *)
(* the price of the database.                                               *)
Latest(e) == \A f \in outbox : f.aggregate = e.aggregate /\ f.type = e.type
                                 => f.id <= e.id
LatestEventIsCurrent ==
  \A e \in outbox : Latest(e) => e.value = row[e.aggregate][e.type]

(* Reservations, releases, patches and provisioning behave as the atomic    *)
(* operations of StockLedger, announcements included.                       *)
Ledger == INSTANCE StockLedger WITH feed <- outbox
AtomicOperations == Ledger!LedgerSpec

(* A caller gets an answer whatever the others do: neither lock waits nor   *)
(* deadlocks nor failures leave a started request hanging.                  *)
EveryRequestAnswered ==
  \A r \in Requests : pc[r] \in InTrx ~> pc[r] \in Answered

(* "Atomically decrements branch stock for each item": a reservation that   *)
(* is committed takes from each product everything its items ask for.       *)
Requested(items, p) ==
  MapThenSumSet(LAMBDA i : items[i].quantity,
                {i \in DOMAIN items : items[i].product = p})
ReservedInFull ==
  [][\A r \in Requests :
       pc[r] = "committing" /\ pc'[r] = "ok" /\ req[r].op = "reserve" =>
         \A p \in Targets(req[r]) :
           row'[p].stock = row[p].stock - Requested(req[r].items, p)]_vars
=============================================================================
