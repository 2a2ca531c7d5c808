----------------------------- MODULE OutboxRelay -----------------------------
(***************************************************************************)
(* The outbox worker: drainOutbox, the repository functions it calls, the  *)
(* cron job and the boot of worker.ts, run by several worker processes.    *)
(* One drain is one Postgres transaction: it claims a batch with FOR       *)
(* UPDATE SKIP LOCKED, publishes row after row with a publisher confirm,   *)
(* marks each one, and commits.  Croner's protect option lets a worker run *)
(* one drain at a time.  The services that fill the outbox are the actions *)
(* Insert, CommitInsert and RollbackInsert.                                *)
(***************************************************************************)
EXTENDS Integers, Sequences, FiniteSets

CONSTANTS Workers,      \* the worker processes
          Aggregates,   \* aggregate ids: a branch, a restaurant, a product at a branch
          BatchSize,    \* OUTBOX_BATCH_SIZE
          MaxRows,      \* bound: rows inserted
          MaxFaults     \* bound: failures of the broker, of a worker, of the database

ASSUME RelayAssumption ==
  /\ BatchSize \in Nat \ {0}
  /\ MaxRows \in Nat /\ MaxFaults \in Nat

VARIABLES outbox,       \* the committed rows
          inserting,    \* rows of transactions that have not ended
          nextId,       \* the id the next INSERT draws
          dispatched,   \* ids whose dispatched_at is committed
          attempts,     \* the committed attempts of each id
          wpc,          \* where a worker is
          held,         \* the rows its transaction holds locked
          todo,         \* those it has not come to yet
          marked,       \* ids it has marked dispatched, uncommitted
          failed,       \* ids it has marked failed, uncommitted
          published,    \* the ids the broker has stored, in order
          brokerUp,
          faults

producerVars == <<outbox, inserting, nextId>>
workerVars   == <<dispatched, attempts, wpc, held, todo, marked, failed>>
brokerVars   == <<published, brokerUp>>
vars == <<producerVars, workerVars, brokerVars, faults>>

Ids     == 1..MaxRows
RowType == [id : Ids, aggregate : Aggregates]

Published == {published[i] : i \in DOMAIN published}

Init ==
  /\ outbox = {} /\ inserting = {} /\ nextId = 1
  /\ dispatched = {}
  /\ attempts = [i \in Ids |-> 0]
  /\ wpc = [w \in Workers |-> "booting"]
  /\ held = [w \in Workers |-> {}]
  /\ todo = [w \in Workers |-> {}]
  /\ marked = [w \in Workers |-> {}]
  /\ failed = [w \in Workers |-> {}]
  /\ published = <<>>
  /\ brokerUp \in BOOLEAN
  /\ faults = 0

Fault == faults < MaxFaults /\ faults' = faults + 1

-----------------------------------------------------------------------------
(* Producers.  The id is drawn at the INSERT and the row appears with the  *)
(* commit.  Every service updates the aggregate's row before it inserts    *)
(* the event, so the row lock admits one such transaction per aggregate.   *)
Insert(a) ==
  /\ nextId <= MaxRows
  /\ \A e \in inserting : e.aggregate # a
  /\ inserting' = inserting \cup {[id |-> nextId, aggregate |-> a]}
  /\ nextId' = nextId + 1
  /\ UNCHANGED <<outbox, workerVars, brokerVars, faults>>

CommitInsert(e) ==
  /\ e \in inserting
  /\ inserting' = inserting \ {e}
  /\ outbox' = outbox \cup {e}
  /\ UNCHANGED <<nextId, workerVars, brokerVars, faults>>

RollbackInsert(e) ==
  /\ e \in inserting
  /\ inserting' = inserting \ {e}
  /\ UNCHANGED <<outbox, nextId, workerVars, brokerVars, faults>>

-----------------------------------------------------------------------------
(* Boot waits for the broker before the cron job is scheduled: connect     *)
(* resolves with the first connection, and the exchange is declared then.  *)
Boot(w) ==
  /\ wpc[w] = "booting" /\ brokerUp
  /\ wpc' = [wpc EXCEPT ![w] = "idle"]
  /\ UNCHANGED <<producerVars, dispatched, attempts, held, todo, marked, failed,
                 brokerVars, faults>>

\* Mutant: rows of open transactions are claimed as well (a dirty read).
UndispatchedDirty == {e \in outbox \cup inserting : e.id \notin dispatched}

\* Mutant: a row that failed once is not claimed again.
UndispatchedOnce == {e \in outbox : e.id \notin dispatched /\ attempts[e.id] = 0}

Undispatched == {e \in outbox : e.id \notin dispatched}

\* Mutant: the claim neither locks nor skips.
HeldByNone == {}

HeldBySome == UNION {held[w] : w \in Workers}

\* The first n rows of S by id.
FirstRows(S, n) == {e \in S : Cardinality({f \in S : f.id < e.id}) < n}

(* One statement: the oldest undispatched rows nobody has locked.  When    *)
(* there is none the drain commits and returns, which changes nothing.     *)
Claim(w) ==
  LET batch == FirstRows(Undispatched \ HeldBySome, BatchSize)
  IN  /\ wpc[w] = "idle" /\ batch # {}
      /\ held' = [held EXCEPT ![w] = batch]
      /\ todo' = [todo EXCEPT ![w] = batch]
      /\ wpc' = [wpc EXCEPT ![w] = "publishing"]
      /\ UNCHANGED <<producerVars, dispatched, attempts, marked, failed,
                     brokerVars, faults>>

IsHead(w, e) == e \in todo[w] /\ \A f \in todo[w] : e.id <= f.id

(* The broker stores the message and confirms it.                          *)
Publish(w, e) ==
  /\ wpc[w] = "publishing" /\ IsHead(w, e)
  /\ brokerUp
  /\ published' = Append(published, e.id)
  /\ wpc' = [wpc EXCEPT ![w] = "marking"]
  /\ UNCHANGED <<producerVars, dispatched, attempts, held, todo, marked, failed,
                 brokerUp, faults>>

(* The broker stores the message and the confirm is lost: the client       *)
(* library rejects the promise, or keeps the message and sends it again.   *)
ConfirmLost(w, e) ==
  /\ wpc[w] = "publishing" /\ IsHead(w, e)
  /\ brokerUp /\ Fault
  /\ published' = Append(published, e.id)
  /\ wpc' \in {wpc, [wpc EXCEPT ![w] = "failing"]}
  /\ UNCHANGED <<producerVars, dispatched, attempts, held, todo, marked, failed,
                 brokerUp>>

(* The broker refuses the message, or it never arrives.                    *)
PublishRejected(w) ==
  /\ wpc[w] = "publishing" /\ Fault
  /\ wpc' = [wpc EXCEPT ![w] = "failing"]
  /\ UNCHANGED <<producerVars, dispatched, attempts, held, todo, marked, failed,
                 brokerVars>>

MarkDispatched(w, e) ==
  /\ wpc[w] = "marking" /\ IsHead(w, e)
  /\ marked' = [marked EXCEPT ![w] = @ \cup {e.id}]
  /\ todo' = [todo EXCEPT ![w] = @ \ {e}]
  /\ wpc' = [wpc EXCEPT ![w] =
               IF todo[w] = {e} THEN "committing" ELSE "publishing"]
  /\ UNCHANGED <<producerVars, dispatched, attempts, held, failed, brokerVars,
                 faults>>

\* Mutant: the catch falls through to the next row.
MarkFailedContinue(w, e) ==
  /\ wpc[w] = "failing" /\ IsHead(w, e)
  /\ failed' = [failed EXCEPT ![w] = {e.id}]
  /\ todo' = [todo EXCEPT ![w] = @ \ {e}]
  /\ wpc' = [wpc EXCEPT ![w] =
               IF todo[w] = {e} THEN "committing" ELSE "publishing"]
  /\ UNCHANGED <<producerVars, dispatched, attempts, held, marked, brokerVars,
                 faults>>

\* Mutant: the failed row is marked dispatched too.
MarkFailedDispatched(w, e) ==
  /\ wpc[w] = "failing" /\ IsHead(w, e)
  /\ marked' = [marked EXCEPT ![w] = @ \cup {e.id}]
  /\ failed' = [failed EXCEPT ![w] = {e.id}]
  /\ todo' = [todo EXCEPT ![w] = {}]
  /\ wpc' = [wpc EXCEPT ![w] = "committing"]
  /\ UNCHANGED <<producerVars, dispatched, attempts, held, brokerVars, faults>>

(* The failed row ends the batch; the rows before it stay marked.          *)
MarkFailed(w, e) ==
  /\ wpc[w] = "failing" /\ IsHead(w, e)
  /\ failed' = [failed EXCEPT ![w] = {e.id}]
  /\ todo' = [todo EXCEPT ![w] = {}]
  /\ wpc' = [wpc EXCEPT ![w] = "committing"]
  /\ UNCHANGED <<producerVars, dispatched, attempts, held, marked, brokerVars,
                 faults>>

EndTransaction(w, at) ==
  /\ held' = [held EXCEPT ![w] = {}]
  /\ todo' = [todo EXCEPT ![w] = {}]
  /\ marked' = [marked EXCEPT ![w] = {}]
  /\ failed' = [failed EXCEPT ![w] = {}]
  /\ wpc' = [wpc EXCEPT ![w] = at]

\* Mutant: the next drain still has the marks of this one.
CommitKeepsMarks(w) ==
  /\ wpc[w] = "committing"
  /\ dispatched' = dispatched \cup marked[w]
  /\ attempts' = [i \in Ids |-> attempts[i] + (IF i \in failed[w] THEN 1 ELSE 0)]
  /\ held' = [held EXCEPT ![w] = {}]
  /\ todo' = [todo EXCEPT ![w] = {}]
  /\ failed' = [failed EXCEPT ![w] = {}]
  /\ wpc' = [wpc EXCEPT ![w] = "idle"]
  /\ UNCHANGED <<producerVars, marked, brokerVars, faults>>

Commit(w) ==
  /\ wpc[w] = "committing"
  /\ dispatched' = dispatched \cup marked[w]
  /\ attempts' = [i \in Ids |-> attempts[i] + (IF i \in failed[w] THEN 1 ELSE 0)]
  /\ EndTransaction(w, "idle")
  /\ UNCHANGED <<producerVars, brokerVars, faults>>

(* A statement fails and the catch rolls back, or the process dies (the    *)
(* shutdown handler does not wait for the drain) and Postgres does.        *)
RollbackDrain(w) ==
  /\ wpc[w] \notin {"booting", "idle"}
  /\ Fault
  /\ \E at \in {"idle", "booting"} : EndTransaction(w, at)
  /\ UNCHANGED <<producerVars, dispatched, attempts, brokerVars>>

BrokerDown == /\ brokerUp /\ brokerUp' = FALSE /\ Fault
              /\ UNCHANGED <<producerVars, workerVars, published>>
BrokerUp   == /\ ~ brokerUp /\ brokerUp' = TRUE
              /\ UNCHANGED <<producerVars, workerVars, published, faults>>

-----------------------------------------------------------------------------
Produce == \/ \E a \in Aggregates : Insert(a)
           \/ \E e \in inserting : CommitInsert(e) \/ RollbackInsert(e)

Drain(w) == \/ Boot(w) \/ Claim(w) \/ Commit(w)
            \/ \E e \in todo[w] : \/ Publish(w, e) \/ MarkDispatched(w, e)
                                  \/ MarkFailed(w, e)

Failure(w) == \/ PublishRejected(w) \/ RollbackDrain(w)
              \/ \E e \in todo[w] : ConfirmLost(w, e)

Next == \/ Produce
        \/ \E w \in Workers : Drain(w) \/ Failure(w)
        \/ BrokerDown \/ BrokerUp

Spec == Init /\ [][Next]_vars

(* The cron job ticks for ever, a drain runs to its end, and the client    *)
(* library reconnects once the broker is back.  The outages are finitely   *)
(* many (MaxFaults); nobody has to insert a row.                           *)
Fairness == WF_vars(BrokerUp) /\ \A w \in Workers : WF_vars(Drain(w))
FairSpec == Spec /\ Fairness
-----------------------------------------------------------------------------
(* Types of the variables. *)
TypeOK ==
  /\ outbox \in SUBSET RowType /\ inserting \in SUBSET RowType
  /\ nextId \in 1..(MaxRows + 1)
  /\ dispatched \in SUBSET Ids
  /\ attempts \in [Ids -> Nat]
  /\ wpc \in [Workers -> {"booting", "idle", "publishing", "marking", "failing",
                          "committing"}]
  /\ held \in [Workers -> SUBSET RowType]
  /\ todo \in [Workers -> SUBSET RowType]
  /\ marked \in [Workers -> SUBSET Ids]
  /\ failed \in [Workers -> SUBSET Ids]
  /\ published \in Seq(Ids)
  /\ brokerUp \in BOOLEAN
  /\ faults \in Nat

(* Transactional outbox, one half: only what a service committed is ever    *)
(* published, never the event of a mutation that was rolled back.           *)
OnlyCommittedPublished == Published \subseteq {e.id : e \in outbox}

(* The other half: a row is retired only after the broker has stored it,    *)
(* whatever fails between the publish, the mark and the commit.             *)
RetiredWasPublished == dispatched \subseteq Published

(* SKIP LOCKED: no row is in the hands of two workers, and none that is     *)
(* already dispatched is claimed.                                           *)
ClaimsExclusive ==
  /\ \A v, w \in Workers : v # w => held[v] \cap held[w] = {}
  /\ \A w \in Workers : held[w] \subseteq Undispatched

(* The inductive invariant behind the last three: rows are told apart by    *)
(* their ids, a worker's claim lasts as long as its transaction, and what   *)
(* it has marked, or is about to mark, is at the broker.                    *)
RowsIdentified ==
  /\ outbox \cap inserting = {}
  /\ \A e \in outbox \cup inserting : e.id < nextId
  /\ \A e, f \in outbox \cup inserting : e.id = f.id => e = f

DrainConsistent ==
  \A w \in Workers :
    /\ wpc[w] \in {"booting", "idle"} =>
         held[w] = {} /\ todo[w] = {} /\ marked[w] = {}
    /\ todo[w] \subseteq held[w]
    /\ marked[w] \subseteq {e.id : e \in held[w]}
    /\ marked[w] \subseteq Published
    /\ wpc[w] = "marking" => \A e \in todo[w] : IsHead(w, e) => e.id \in Published

(* The inductive invariant: the types and the parts that carry each other. *)
RelayInv ==
  /\ TypeOK /\ RowsIdentified /\ ClaimsExclusive /\ DrainConsistent
  /\ OnlyCommittedPublished /\ RetiredWasPublished

(* What a drain will retire if it commits: the rows it has marked, and the  *)
(* one whose confirm it has just seen.                                      *)
WillRetire(w) ==
  marked[w] \cup {e.id : e \in {f \in todo[w] : wpc[w] = "marking" /\ IsHead(w, f)}}

(* Published, and bound to be published again.                              *)
Exposed == Published \ (dispatched \cup UNION {WillRetire(w) : w \in Workers})

Duplicates == Len(published) - Cardinality(Published)

(* The invariant behind the number of duplicates: a claim is a batch at     *)
(* most, a row is marked once, and the failures pay for the duplicates      *)
(* there are and for those still to come.                                   *)
DuplicatesInv ==
  /\ RelayInv
  /\ \A w \in Workers : /\ IsFiniteSet(held[w]) /\ Cardinality(held[w]) <= BatchSize
                        /\ \A e \in todo[w] : e.id \notin marked[w]
  /\ Duplicates + Cardinality(Exposed) <= faults * BatchSize

(* A message is published again only because of a failure, and one failure  *)
(* costs at most one batch of duplicates; with none, every event is         *)
(* published once however many workers run.                                 *)
DuplicatesBounded == Duplicates <= faults * BatchSize

(* Every committed event gets out, through refused publishes, lost          *)
(* confirms, broker outages and worker crashes.                             *)
EveryEventDispatched ==
  \A i \in Ids : (\E e \in outbox : e.id = i) ~> i \in dispatched
=============================================================================
