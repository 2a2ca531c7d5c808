------------------------------ MODULE StockFeed ------------------------------
(***************************************************************************)
(* A branch's stock from the transaction to a consumer's copy: the         *)
(* transactions of Stock fill events_outbox, the workers of OutboxRelay    *)
(* drain it, and a consumer of the core.events exchange keeps the last     *)
(* value it heard of each product.  The payload of a stock event is the    *)
(* new stock, not a difference, and its occurredAt is the time of the      *)
(* publish, so a consumer can only take the last message.                  *)
(***************************************************************************)
EXTENDS Stock

CONSTANTS Workers, BatchSize, MaxRows, MaxFaults

ASSUME FeedAssumption == BatchSize \in Nat

VARIABLES dispatched, attempts, wpc, held, todo, marked, failed,
          published, brokerUp, faults

relayVars == <<dispatched, attempts, wpc, held, todo, marked, failed,
               published, brokerUp, faults>>
feedVars  == <<vars, relayVars>>

\* The rows of open transactions are the producers' part of the relay.
Relay == INSTANCE OutboxRelay
           WITH Aggregates <- Products,
                inserting  <- UNION {inserted[r] : r \in Requests}

FeedInit ==
  /\ Init
  /\ dispatched = {}
  /\ attempts = [i \in 1..MaxRows |-> 0]
  /\ wpc = [w \in Workers |-> "idle"]
  /\ held = [w \in Workers |-> {}]
  /\ todo = [w \in Workers |-> {}]
  /\ marked = [w \in Workers |-> {}]
  /\ failed = [w \in Workers |-> {}]
  /\ published = <<>>
  /\ brokerUp = TRUE
  /\ faults = 0

FeedNext ==
  \/ Next /\ UNCHANGED relayVars
  \/ /\ UNCHANGED vars
     /\ \/ \E w \in Workers : Relay!Drain(w) \/ Relay!Failure(w)
        \/ Relay!BrokerDown \/ Relay!BrokerUp

FeedSpec == FeedInit /\ [][FeedNext]_feedVars
-----------------------------------------------------------------------------
\* The positions of the messages about one column of p.
Heard(p, type) ==
  {i \in DOMAIN published :
     \E e \in outbox : e.id = published[i] /\ e.aggregate = p /\ e.type = type}

\* What a consumer holds of it after all of them.
Copy(p, type) ==
  LET last == Max(Heard(p, type))
  IN  (CHOOSE e \in outbox : e.id = published[last]).value

(* Once the outbox is drained, the consumer's copy of every stock and price *)
(* it ever heard of is the value in the database: with one worker, whatever *)
(* requests, crashes and duplicates came before.                            *)
ConsumerAgreesWhenDrained ==
  Relay!Undispatched = {} =>
    \A p \in Products, type \in {"stock", "price"} :
      Heard(p, type) # {} => Copy(p, type) = row[p][type]

-----------------------------------------------------------------------------
\* A single worker process drains the outbox.
OneWorker == \A v, w \in Workers : v = w

\* An id tells an outbox row from all others, committed or not.
RowsIdentified ==
  /\ \A e, f \in outbox : e.id = f.id => e = f
  /\ \A r, s \in Requests : \A e \in inserted[r], f \in inserted[s] :
       e.id = f.id => r = s /\ e = f
  /\ \A r \in Requests : \A e \in inserted[r], f \in outbox : e.id # f.id

WorkerPlaces == {"booting", "idle", "publishing", "marking", "failing", "committing"}

\* The relay's variables are about committed rows.
FeedTypes ==
  /\ published \in Seq({e.id : e \in outbox})
  /\ dispatched \subseteq {e.id : e \in outbox}
  /\ wpc \in [Workers -> WorkerPlaces]
  /\ held \in [Workers -> SUBSET outbox] /\ todo \in [Workers -> SUBSET outbox]
  /\ marked \in [Workers -> SUBSET Nat]

Earlier(f, e) == f.aggregate = e.aggregate /\ f.id < e.id

\* A drain has the oldest rows of each product, and retires them in order.
DrainInOrder(w) ==
  /\ wpc[w] \in {"booting", "idle"} => held[w] = {} /\ marked[w] = {}
  /\ todo[w] = IF wpc[w] \in {"publishing", "marking", "failing"}
               THEN {e \in held[w] : e.id \notin marked[w]} ELSE {}
  /\ held[w] \subseteq Relay!Undispatched
  /\ marked[w] \subseteq {e.id : e \in held[w]}
  /\ \A e \in held[w], f \in Relay!Undispatched : Earlier(f, e) => f \in held[w]
  /\ \A e, f \in held[w] : f.id < e.id /\ e.id \in marked[w] => f.id \in marked[w]

RetiredInOrder ==
  \A e, f \in outbox : Earlier(f, e) /\ e.id \in dispatched => f.id \in dispatched

\* After its last message only later ones about the same column came.
LastHeard(e) ==
  \E j \in DOMAIN published :
    /\ published[j] = e.id
    /\ \A i \in DOMAIN published, f \in outbox :
         i > j /\ published[i] = f.id /\ f.aggregate = e.aggregate /\ f.type = e.type
           => e.id <= f.id

Retiring == dispatched \cup UNION {Relay!WillRetire(w) : w \in Workers}

(* The invariant behind it, for one worker: the messages about a product   *)
(* may be repeated, but what is retired has been heard after all that is   *)
(* older.                                                                  *)
FeedInv ==
  /\ RowsIdentified /\ FeedTypes /\ RetiredInOrder
  /\ \A w \in Workers : DrainInOrder(w)
  /\ \A e \in outbox : e.id \in Retiring => LastHeard(e)
=============================================================================
