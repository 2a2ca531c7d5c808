-------------------------- MODULE OutboxRelay_proofs --------------------------
(***************************************************************************)
(* Safety of the outbox worker for any number of workers, rows, aggregates *)
(* and failures, and any batch size; and how many duplicates the failures  *)
(* can cost.                                                               *)
(***************************************************************************)
EXTENDS OutboxRelay, FiniteSetTheorems, TLAPS

LEMMA PublishedGrows ==
  ASSUME published \in Seq(Ids), NEW i \in Ids, published' = Append(published, i)
  PROVE  /\ published' \in Seq(Ids)
         /\ Published' = Published \cup {i}
<1>1. /\ published' \in Seq(Ids)
      /\ Len(published') = Len(published) + 1
      /\ \A k \in 1..Len(published) : published'[k] = published[k]
      /\ published'[Len(published) + 1] = i
  OBVIOUS
<1>2. DOMAIN published = 1..Len(published) /\ DOMAIN published' = 1..(Len(published) + 1)
  BY <1>1
<1>3. Len(published) \in Nat
  OBVIOUS
<1> QED
  BY <1>1, <1>2, <1>3 DEF Published

LEMMA FirstRowsWithin ==
  ASSUME NEW S, NEW n
  PROVE  FirstRows(S, n) \subseteq S
  BY DEF FirstRows

(* Variables keep their types. *)
LEMMA TypeStep == TypeOK /\ [Next]_vars => TypeOK'
<1> SUFFICES ASSUME TypeOK, [Next]_vars PROVE TypeOK'
  OBVIOUS
<1> USE RelayAssumption DEF TypeOK
<1>1. ASSUME NEW a \in Aggregates, Insert(a) PROVE TypeOK'
  BY <1>1 DEF Insert, RowType, Ids, workerVars, brokerVars
<1>2. ASSUME NEW e \in inserting, CommitInsert(e) \/ RollbackInsert(e) PROVE TypeOK'
  BY <1>2 DEF CommitInsert, RollbackInsert, workerVars, brokerVars
<1>3. ASSUME NEW w \in Workers, Boot(w) PROVE TypeOK'
  BY <1>3 DEF Boot, producerVars, brokerVars
<1>4. ASSUME NEW w \in Workers, Claim(w) PROVE TypeOK'
  <2>1. FirstRows(Undispatched \ HeldBySome, BatchSize) \in SUBSET RowType
    BY FirstRowsWithin DEF Undispatched
  <2> QED
    BY <1>4, <2>1 DEF Claim, producerVars, brokerVars
<1>5. ASSUME NEW w \in Workers, NEW e \in todo[w], Publish(w, e) \/ ConfirmLost(w, e)
      PROVE  TypeOK'
  <2>1. e.id \in Ids
    BY DEF RowType
  <2>2. published' \in Seq(Ids)
    BY <1>5, <2>1, PublishedGrows DEF Publish, ConfirmLost
  <2>3. faults' \in Nat
    BY <1>5 DEF Publish, ConfirmLost, Fault
  <2> QED
    BY <1>5, <2>2, <2>3 DEF Publish, ConfirmLost, producerVars
<1>6. ASSUME NEW w \in Workers, PublishRejected(w) PROVE TypeOK'
  BY <1>6 DEF PublishRejected, Fault, producerVars, brokerVars
<1>7. ASSUME NEW w \in Workers, NEW e \in todo[w],
             MarkDispatched(w, e) \/ MarkFailed(w, e)
      PROVE  TypeOK'
  <2>1. e.id \in Ids
    BY DEF RowType
  <2>2. CASE MarkDispatched(w, e)
    <3>1. marked' \in [Workers -> SUBSET Ids]
      BY <2>1, <2>2 DEF MarkDispatched
    <3>2. todo' \in [Workers -> SUBSET RowType]
      BY <2>2 DEF MarkDispatched
    <3>3. wpc' \in [Workers -> {"booting", "idle", "publishing", "marking", "failing",
                                "committing"}]
      BY <2>2 DEF MarkDispatched
    <3> QED
      BY <2>2, <3>1, <3>2, <3>3 DEF MarkDispatched, producerVars, brokerVars
  <2>3. CASE MarkFailed(w, e)
    BY <2>1, <2>3 DEF MarkFailed, producerVars, brokerVars
  <2> QED
    BY <1>7, <2>2, <2>3
<1>8. ASSUME NEW w \in Workers, Commit(w) PROVE TypeOK'
  <2>1. attempts' \in [Ids -> Nat]
    <3>1. \A i \in Ids : attempts[i] + (IF i \in failed[w] THEN 1 ELSE 0) \in Nat
      OBVIOUS
    <3> QED
      BY <1>8, <3>1, Zenon DEF Commit
  <2>2. dispatched' \in SUBSET Ids
    BY <1>8 DEF Commit
  <2> QED
    BY <1>8, <2>1, <2>2 DEF Commit, EndTransaction, producerVars, brokerVars
<1>9. ASSUME NEW w \in Workers, RollbackDrain(w) PROVE TypeOK'
  BY <1>9 DEF RollbackDrain, EndTransaction, Fault, producerVars, brokerVars
<1>10. ASSUME BrokerDown \/ BrokerUp PROVE TypeOK'
  <2>1. brokerUp' \in BOOLEAN
    BY <1>10 DEF BrokerDown, BrokerUp
  <2>2. faults' \in Nat
    BY <1>10 DEF BrokerDown, BrokerUp, Fault
  <2> QED
    BY <1>10, <2>1, <2>2 DEF BrokerDown, BrokerUp, producerVars, workerVars
<1>11. ASSUME UNCHANGED vars PROVE TypeOK'
  BY <1>11 DEF vars, producerVars, workerVars, brokerVars
<1> QED
  BY <1>1, <1>2, <1>3, <1>4, <1>5, <1>6, <1>7, <1>8, <1>9, <1>10, <1>11
     DEF Next, Produce, Drain, Failure

(* The variables have their types in every reachable state. *)
THEOREM RelayTypes == Spec => []TypeOK
<1>1. Init => TypeOK
  BY RelayAssumption DEF Init, TypeOK, Ids
<1> QED
  BY <1>1, TypeStep, PTL DEF Spec

-----------------------------------------------------------------------------
(* The inductive invariant, one lemma for each part of the system that     *)
(* takes a step.                                                           *)

LEMMA RelayInvInit == Init => RelayInv
<1> SUFFICES ASSUME Init PROVE RelayInv
  OBVIOUS
<1>1. TypeOK
  BY RelayAssumption DEF Init, TypeOK, Ids
<1>2. Published = {}
  BY DEF Init, Published
<1> QED
  BY <1>1, <1>2 DEF Init, RelayInv, RowsIdentified, ClaimsExclusive,
     DrainConsistent, OnlyCommittedPublished, RetiredWasPublished

(* A service's transaction: rows keep distinct ids, and nothing the        *)
(* workers hold or have published is taken away.                           *)
LEMMA ProduceKeepsInv == RelayInv /\ TypeOK' /\ Produce => RelayInv'
<1> SUFFICES ASSUME RelayInv, TypeOK', Produce PROVE RelayInv'
  OBVIOUS
<1>1. UNCHANGED <<workerVars, brokerVars, faults>>
  BY DEF Produce, Insert, CommitInsert, RollbackInsert
<1>2. Published' = Published
  BY <1>1 DEF Published, brokerVars
<1>3. RowsIdentified' /\ outbox \subseteq outbox'
  <2>1. CASE \E a \in Aggregates : Insert(a)
    <3> PICK a \in Aggregates : Insert(a)
      BY <2>1
    <3> DEFINE new == [id |-> nextId, aggregate |-> a]
    <3>1. /\ outbox' = outbox /\ inserting' = inserting \cup {new}
          /\ nextId' = nextId + 1 /\ new.id = nextId
      BY DEF Insert
    <3>2. /\ nextId \in Nat
          /\ \A e \in outbox \cup inserting : e.id \in Nat /\ e.id < nextId
      BY RelayAssumption DEF RelayInv, TypeOK, RowsIdentified, RowType, Ids
    <3> HIDE DEF new
    <3>3. \A e \in outbox \cup inserting : e.id # nextId /\ e # new
      BY <3>1, <3>2
    <3>4. \A e \in outbox' \cup inserting' : e.id < nextId'
      BY <3>1, <3>2
    <3>5. \A e, f \in outbox' \cup inserting' : e.id = f.id => e = f
      BY <3>1, <3>3 DEF RelayInv, RowsIdentified
    <3>6. outbox' \cap inserting' = {}
      BY <3>1, <3>3 DEF RelayInv, RowsIdentified
    <3> QED
      BY <3>1, <3>4, <3>5, <3>6 DEF RowsIdentified
  <2>2. CASE \E e \in inserting : CommitInsert(e) \/ RollbackInsert(e)
    BY <2>2 DEF CommitInsert, RollbackInsert, RelayInv, RowsIdentified
  <2> QED
    BY <2>1, <2>2 DEF Produce
<1>4. ClaimsExclusive'
  BY <1>1, <1>3 DEF RelayInv, ClaimsExclusive, Undispatched, workerVars
<1>5. DrainConsistent'
  BY <1>1, <1>2 DEF RelayInv, DrainConsistent, IsHead, workerVars
<1>6. OnlyCommittedPublished' /\ RetiredWasPublished'
  BY <1>1, <1>2, <1>3 DEF RelayInv, OnlyCommittedPublished, RetiredWasPublished,
     workerVars
<1> QED
  BY <1>3, <1>4, <1>5, <1>6 DEF RelayInv

(* The claim takes rows nobody holds and nobody has dispatched.            *)
LEMMA ClaimKeepsInv ==
  ASSUME RelayInv, TypeOK', NEW w \in Workers, Claim(w)
  PROVE  RelayInv'
<1> DEFINE batch == FirstRows(Undispatched \ HeldBySome, BatchSize)
<1>1. /\ batch \subseteq Undispatched
      /\ \A v \in Workers : batch \cap held[v] = {}
  BY FirstRowsWithin DEF HeldBySome
<1>2. /\ wpc[w] = "idle"
      /\ held' = [held EXCEPT ![w] = batch]
      /\ todo' = [todo EXCEPT ![w] = batch]
      /\ wpc' = [wpc EXCEPT ![w] = "publishing"]
      /\ UNCHANGED <<producerVars, dispatched, attempts, marked, failed, brokerVars,
                     faults>>
  BY DEF Claim
<1> HIDE DEF batch
<1>3. Published' = Published /\ RowsIdentified' /\ Undispatched' = Undispatched
  BY <1>2 DEF Published, RelayInv, RowsIdentified, Undispatched, producerVars,
     brokerVars
<1>4. ClaimsExclusive'
  BY <1>1, <1>2, <1>3 DEF RelayInv, TypeOK, ClaimsExclusive
<1>5. DrainConsistent'
  BY <1>2, <1>3 DEF RelayInv, TypeOK, DrainConsistent, IsHead
<1> QED
  BY <1>2, <1>3, <1>4, <1>5 DEF RelayInv, OnlyCommittedPublished,
     RetiredWasPublished, producerVars

(* The broker stores a row the worker holds, and that row is committed.    *)
LEMMA PublishKeepsInv ==
  ASSUME RelayInv, TypeOK', NEW w \in Workers, NEW e \in todo[w],
         Publish(w, e) \/ ConfirmLost(w, e)
  PROVE  RelayInv'
<1>1. e \in RowType /\ e.id \in Ids
  BY DEF RelayInv, TypeOK, RowType
<1>2. e \in outbox
  BY DEF RelayInv, DrainConsistent, ClaimsExclusive, Undispatched
<1>3. /\ wpc[w] = "publishing" /\ IsHead(w, e)
      /\ wpc' \in {wpc, [wpc EXCEPT ![w] = "failing"], [wpc EXCEPT ![w] = "marking"]}
      /\ UNCHANGED <<producerVars, dispatched, attempts, held, todo, marked, failed>>
  BY DEF Publish, ConfirmLost
<1>4. Published' = Published \cup {e.id}
  BY <1>1, PublishedGrows DEF Publish, ConfirmLost, RelayInv, TypeOK
<1>5. RowsIdentified' /\ ClaimsExclusive'
  BY <1>3 DEF RelayInv, RowsIdentified, ClaimsExclusive, Undispatched, producerVars
<1>6. DrainConsistent'
  <2> SUFFICES ASSUME NEW v \in Workers
               PROVE  /\ wpc'[v] \in {"booting", "idle"} =>
                           held[v] = {} /\ todo[v] = {} /\ marked[v] = {}
                      /\ wpc'[v] = "marking" =>
                           \A f \in todo[v] : IsHead(v, f) => f.id \in Published'
    BY <1>3, <1>4 DEF RelayInv, DrainConsistent, IsHead
  <2>1. CASE v # w
    BY <1>3, <1>4, <2>1 DEF RelayInv, TypeOK, DrainConsistent
  <2>2. CASE v = w
    <3>1. \A f \in todo[w] : IsHead(w, f) => f.id = e.id
      BY <1>1, <1>3 DEF IsHead, RelayInv, TypeOK, RowType, Ids
    <3> QED
      BY <1>3, <1>4, <2>2, <3>1 DEF RelayInv, TypeOK
  <2> QED
    BY <2>1, <2>2
<1>7. OnlyCommittedPublished' /\ RetiredWasPublished'
  BY <1>2, <1>3, <1>4 DEF RelayInv, OnlyCommittedPublished, RetiredWasPublished,
     producerVars
<1> QED
  BY <1>5, <1>6, <1>7 DEF RelayInv

(* A row is marked only in the step after its publish was confirmed.       *)
LEMMA MarkKeepsInv ==
  ASSUME RelayInv, TypeOK', NEW w \in Workers, NEW e \in todo[w],
         MarkDispatched(w, e) \/ MarkFailed(w, e)
  PROVE  RelayInv'
<1>1. UNCHANGED <<producerVars, dispatched, held, brokerVars>>
  BY DEF MarkDispatched, MarkFailed
<1>2. Published' = Published /\ RowsIdentified' /\ ClaimsExclusive'
  BY <1>1 DEF Published, RelayInv, RowsIdentified, ClaimsExclusive, Undispatched,
     producerVars, brokerVars
<1>3. DrainConsistent'
  <2>1. CASE MarkDispatched(w, e)
    <3>1. e \in held[w] /\ e.id \in Published
      BY <2>1 DEF MarkDispatched, RelayInv, DrainConsistent
    <3>2. /\ wpc'[w] \in {"committing", "publishing"}
          /\ marked'[w] = marked[w] \cup {e.id} /\ todo'[w] = todo[w] \ {e}
      BY <2>1 DEF MarkDispatched, RelayInv, TypeOK
    <3>3. \A v \in Workers \ {w} :
            wpc'[v] = wpc[v] /\ marked'[v] = marked[v] /\ todo'[v] = todo[v]
      BY <2>1 DEF MarkDispatched, RelayInv, TypeOK
    <3> SUFFICES ASSUME NEW v \in Workers PROVE DrainConsistent!(v)'
      BY DEF DrainConsistent
    <3>4. CASE v = w
      BY <1>1, <1>2, <3>1, <3>2, <3>4 DEF RelayInv, DrainConsistent
    <3>5. CASE v # w
      BY <1>1, <1>2, <3>3, <3>5 DEF RelayInv, DrainConsistent, IsHead
    <3> QED
      BY <3>4, <3>5
  <2>2. CASE MarkFailed(w, e)
    BY <1>1, <1>2, <2>2 DEF MarkFailed, RelayInv, TypeOK, DrainConsistent, IsHead
  <2> QED
    BY <2>1, <2>2
<1>4. OnlyCommittedPublished' /\ RetiredWasPublished'
  BY <1>1, <1>2 DEF RelayInv, OnlyCommittedPublished, RetiredWasPublished,
     producerVars
<1> QED
  BY <1>2, <1>3, <1>4 DEF RelayInv

(* The commit retires what was marked: it was published, and no other      *)
(* worker holds it because an id names one row.                            *)
LEMMA CommitKeepsInv ==
  ASSUME RelayInv, TypeOK', NEW w \in Workers, Commit(w)
  PROVE  RelayInv'
<1>1. /\ dispatched' = dispatched \cup marked[w]
      /\ EndTransaction(w, "idle")
      /\ UNCHANGED <<producerVars, brokerVars>>
  BY DEF Commit
<1>2. Published' = Published /\ RowsIdentified'
  BY <1>1 DEF Published, RelayInv, RowsIdentified, producerVars, brokerVars
<1>3. ClaimsExclusive'
  <2>1. \A v \in Workers : held'[v] \subseteq held[v] /\ (v = w => held'[v] = {})
    BY <1>1 DEF EndTransaction, RelayInv, TypeOK
  <2>2. ASSUME NEW v \in Workers \ {w}, NEW e \in held[v], e.id \in marked[w]
        PROVE  FALSE
    <3>1. PICK f \in held[w] : f.id = e.id
      BY <2>2 DEF RelayInv, DrainConsistent
    <3>2. e \in outbox /\ f \in outbox
      BY DEF RelayInv, ClaimsExclusive, Undispatched
    <3>3. e = f
      BY <3>1, <3>2 DEF RelayInv, RowsIdentified
    <3> QED
      BY <3>1, <3>3 DEF RelayInv, ClaimsExclusive
  <2>3. \A v \in Workers : held'[v] \subseteq Undispatched'
    BY <1>1, <2>1, <2>2 DEF RelayInv, ClaimsExclusive, Undispatched, producerVars
  <2> QED
    BY <2>1, <2>3 DEF RelayInv, ClaimsExclusive
<1>4. DrainConsistent'
  BY <1>1, <1>2 DEF EndTransaction, RelayInv, TypeOK, DrainConsistent, IsHead
<1>5. OnlyCommittedPublished' /\ RetiredWasPublished'
  BY <1>1, <1>2 DEF RelayInv, DrainConsistent, OnlyCommittedPublished,
     RetiredWasPublished, producerVars
<1> QED
  BY <1>2, <1>3, <1>4, <1>5 DEF RelayInv

(* A rollback forgets the claim and the marks, not what was published.     *)
LEMMA RollbackKeepsInv ==
  ASSUME RelayInv, TypeOK', NEW w \in Workers, RollbackDrain(w)
  PROVE  RelayInv'
<1>1. /\ UNCHANGED <<producerVars, dispatched, brokerVars>>
      /\ \E at \in {"idle", "booting"} : EndTransaction(w, at)
  BY DEF RollbackDrain
<1>2. Published' = Published /\ RowsIdentified' /\ Undispatched' = Undispatched
  BY <1>1 DEF Published, RelayInv, RowsIdentified, Undispatched, producerVars,
     brokerVars
<1>3. ClaimsExclusive'
  BY <1>1, <1>2 DEF EndTransaction, RelayInv, TypeOK, ClaimsExclusive
<1>4. DrainConsistent'
  BY <1>1, <1>2 DEF EndTransaction, RelayInv, TypeOK, DrainConsistent, IsHead
<1> QED
  BY <1>1, <1>2, <1>3, <1>4 DEF RelayInv, OnlyCommittedPublished,
     RetiredWasPublished, producerVars

(* Boot and a refused publish move a worker on and nothing else.           *)
LEMMA MoveKeepsInv ==
  ASSUME RelayInv, TypeOK', NEW w \in Workers, Boot(w) \/ PublishRejected(w)
  PROVE  RelayInv'
<1>1. /\ UNCHANGED <<producerVars, dispatched, held, todo, marked, brokerVars>>
      /\ \/ wpc[w] = "booting" /\ wpc' = [wpc EXCEPT ![w] = "idle"]
         \/ wpc' = [wpc EXCEPT ![w] = "failing"]
  BY DEF Boot, PublishRejected
<1>2. Published' = Published /\ RowsIdentified' /\ ClaimsExclusive'
  BY <1>1 DEF Published, RelayInv, RowsIdentified, ClaimsExclusive, Undispatched,
     producerVars, brokerVars
<1>3. DrainConsistent'
  BY <1>1, <1>2 DEF RelayInv, TypeOK, DrainConsistent, IsHead
<1> QED
  BY <1>1, <1>2, <1>3 DEF RelayInv, OnlyCommittedPublished, RetiredWasPublished,
     producerVars

LEMMA RelayInvStep == RelayInv /\ [Next]_vars => RelayInv'
<1> SUFFICES ASSUME RelayInv, [Next]_vars PROVE RelayInv'
  OBVIOUS
<1>1. TypeOK'
  BY TypeStep DEF RelayInv
<1>2. CASE Produce
  BY <1>1, <1>2, ProduceKeepsInv
<1>3. ASSUME NEW w \in Workers, Drain(w) \/ Failure(w) PROVE RelayInv'
  BY <1>1, <1>3, ClaimKeepsInv, PublishKeepsInv, MarkKeepsInv, CommitKeepsInv,
     RollbackKeepsInv, MoveKeepsInv DEF Drain, Failure
<1>4. CASE BrokerDown \/ BrokerUp \/ UNCHANGED vars
  <2>1. UNCHANGED <<producerVars, workerVars, published>>
    BY <1>4 DEF BrokerDown, BrokerUp, vars, brokerVars
  <2> QED
    BY <1>1, <2>1 DEF RelayInv, RowsIdentified, ClaimsExclusive, DrainConsistent,
       OnlyCommittedPublished, RetiredWasPublished, Published, Undispatched, IsHead,
       producerVars, workerVars
<1> QED
  BY <1>2, <1>3, <1>4 DEF Next

(* The inductive invariant of the relay holds in every reachable state.    *)
THEOREM RelayInvariant == Spec => []RelayInv
  BY RelayInvInit, RelayInvStep, PTL DEF Spec

(* No event of a mutation that was rolled back, or has not committed, is   *)
(* ever published, whatever fails and however many workers drain.          *)
THEOREM NoPhantomEvent == Spec => []OnlyCommittedPublished
<1>1. RelayInv => OnlyCommittedPublished
  BY DEF RelayInv
<1> QED
  BY <1>1, RelayInvariant, PTL

(* No event is lost: a row whose dispatched_at is committed was stored by  *)
(* the broker, through failed publishes, lost confirms and rollbacks.      *)
THEOREM NoLostEvent == Spec => []RetiredWasPublished
<1>1. RelayInv => RetiredWasPublished
  BY DEF RelayInv
<1> QED
  BY <1>1, RelayInvariant, PTL

(* Two workers never hold the same row, and none holds a retired one.      *)
THEOREM ClaimsNeverOverlap == Spec => []ClaimsExclusive
<1>1. RelayInv => ClaimsExclusive
  BY DEF RelayInv
<1> QED
  BY <1>1, RelayInvariant, PTL

-----------------------------------------------------------------------------
(* Finite sets of rows and ids.                                            *)

LEMMA IdsFinite ==
  ASSUME NEW S \in SUBSET Ids
  PROVE  IsFiniteSet(S) /\ Cardinality(S) \in Nat
<1>1. IsFiniteSet(Ids)
  <2>1. 1 \in Int /\ MaxRows \in Int
    BY RelayAssumption
  <2> QED
    BY <2>1, FS_Interval, Zenon DEF Ids
<1>2. IsFiniteSet(S)
  BY <1>1, FS_Subset
<1> QED
  BY <1>2, FS_CardinalityType

\* Rows that their ids tell apart.
Distinct(S) == S \subseteq RowType /\ \A e, f \in S : e.id = f.id => e = f

LEMMA RowsFinite ==
  ASSUME NEW S, Distinct(S)
  PROVE  IsFiniteSet(S) /\ Cardinality(S) \in Nat
<1> DEFINE f == [e \in S |-> e.id]
<1>1. \A e \in S : e.id \in Ids
  BY DEF Distinct, RowType
<1>2. f \in Injection(S, Ids)
  <2>1. f \in [S -> Ids]
    BY <1>1
  <2>2. \A e, g \in S : f[e] = f[g] => e = g
    BY DEF Distinct
  <2> HIDE DEF f
  <2> QED
    BY <2>1, <2>2 DEF Injection, IsInjective
<1>3. IsFiniteSet(Ids)
  BY IdsFinite
<1>4. IsFiniteSet(S)
  <2> HIDE DEF f
  <2> QED
    BY <1>2, <1>3, FS_Injection
<1> QED
  BY <1>4, FS_CardinalityType

(* A claim is a batch at most: each of its rows has another number of rows *)
(* before it, all of them below the limit.                                 *)
LEMMA FirstRowsBounded ==
  ASSUME NEW S, Distinct(S), NEW n \in Nat
  PROVE  /\ IsFiniteSet(FirstRows(S, n))
         /\ Cardinality(FirstRows(S, n)) <= n
<1> DEFINE T == FirstRows(S, n)
           before(e) == {f \in S : f.id < e.id}
           rank == [e \in T |-> Cardinality(before(e))]
<1>1. IsFiniteSet(S) /\ T \subseteq S
  BY RowsFinite, FirstRowsWithin
<1>2. \A e \in S : IsFiniteSet(before(e)) /\ Cardinality(before(e)) \in Nat
  <2> SUFFICES ASSUME NEW e \in S
               PROVE  IsFiniteSet(before(e)) /\ Cardinality(before(e)) \in Nat
    OBVIOUS
  <2>1. before(e) \in SUBSET S
    OBVIOUS
  <2> HIDE DEF before
  <2> QED
    BY <1>1, <2>1, FS_Subset, FS_CardinalityType
<1>3. \A e \in T : Cardinality(before(e)) < n
  BY DEF FirstRows
<1>4. ASSUME NEW e \in S, NEW f \in S, e.id < f.id
      PROVE  Cardinality(before(e)) # Cardinality(before(f))
  <2>1. e.id \in Nat /\ f.id \in Nat /\ \A g \in S : g.id \in Nat
    BY DEF Distinct, RowType, Ids
  <2>2. before(e) \in SUBSET before(f) /\ e \in before(f) /\ e \notin before(e)
    BY <1>4, <2>1
  <2>3. IsFiniteSet(before(f))
    BY <1>2
  <2> HIDE DEF before
  <2> QED
    BY <2>2, <2>3, FS_Subset
<1>5. ASSUME NEW e \in T, NEW f \in T, rank[e] = rank[f] PROVE e = f
  <2>1. e.id \in Nat /\ f.id \in Nat /\ e \in S /\ f \in S
    BY <1>1 DEF Distinct, RowType, Ids
  <2>2. ~ (e.id < f.id) /\ ~ (f.id < e.id)
    BY <1>4, <1>5, <2>1
  <2>3. e.id = f.id
    BY <2>1, <2>2
  <2> QED
    BY <2>1, <2>3 DEF Distinct
<1>6. rank \in [T -> 0..(n - 1)]
  <2>1. \A e \in T : Cardinality(before(e)) \in 0..(n - 1)
    <3> SUFFICES ASSUME NEW e \in T PROVE Cardinality(before(e)) \in 0..(n - 1)
      OBVIOUS
    <3>1. Cardinality(before(e)) \in Nat /\ Cardinality(before(e)) < n
      BY <1>1, <1>2, <1>3
    <3> HIDE DEF before
    <3> QED
      BY <3>1
  <2> HIDE DEF T, before
  <2> QED
    BY <2>1
<1>7. rank \in Injection(T, 0..(n - 1))
  <2> HIDE DEF rank, T
  <2> QED
    BY <1>5, <1>6 DEF Injection, IsInjective
<1>8. IsFiniteSet(0..(n - 1)) /\ Cardinality(0..(n - 1)) = n
  <2>1. 0 \in Int /\ n - 1 \in Int
    OBVIOUS
  <2>2. /\ IsFiniteSet(0..(n - 1))
        /\ Cardinality(0..(n - 1)) = IF 0 > n - 1 THEN 0 ELSE (n - 1) - 0 + 1
    BY <2>1, FS_Interval, Zenon
  <2> QED
    BY <2>2
<1> HIDE DEF T, rank
<1>9. IsFiniteSet(T) /\ Cardinality(T) <= Cardinality(0..(n - 1))
  BY <1>7, <1>8, FS_Injection
<1> QED
  BY <1>8, <1>9 DEF T

(* The ids of some rows are no more than the rows.                         *)
LEMMA IdsOfRows ==
  ASSUME NEW S, IsFiniteSet(S)
  PROVE  /\ IsFiniteSet({e.id : e \in S})
         /\ Cardinality({e.id : e \in S}) <= Cardinality(S)
<1> DEFINE f == [e \in S |-> e.id]
           T == {e.id : e \in S}
<1>1. f \in [S -> T] /\ \A t \in T : \E e \in S : f[e] = t
  OBVIOUS
<1>2. f \in Surjection(S, T)
  <2> HIDE DEF f, T
  <2> QED
    BY <1>1 DEF Surjection
<1> HIDE DEF f
<1> QED
  BY <1>2, FS_Surjection

-----------------------------------------------------------------------------
(* The number of duplicates.                                               *)

LEMMA DuplicatesTyped ==
  ASSUME TypeOK
  PROVE  /\ Published \in SUBSET Ids /\ Exposed \in SUBSET Ids
         /\ IsFiniteSet(Published) /\ Cardinality(Published) \in Nat
         /\ IsFiniteSet(Exposed) /\ Cardinality(Exposed) \in Nat
         /\ Len(published) \in Nat /\ Duplicates \in Int
<1>1. published \in Seq(Ids)
  BY DEF TypeOK
<1>2. Published \in SUBSET Ids
  BY <1>1 DEF Published
<1>3. Exposed \in SUBSET Ids
  BY <1>2 DEF Exposed
<1>4. Len(published) \in Nat
  BY <1>1
<1> QED
  BY <1>2, <1>3, <1>4, IdsFinite DEF Duplicates

LEMMA BudgetGrows ==
  ASSUME NEW n \in Nat
  PROVE  /\ n * BatchSize \in Nat
         /\ (n + 1) * BatchSize = n * BatchSize + BatchSize
  BY RelayAssumption

LEMMA DuplicatesInvInit == Init => DuplicatesInv
<1> SUFFICES ASSUME Init PROVE DuplicatesInv
  OBVIOUS
<1>1. RelayInv
  BY RelayInvInit
<1>2. \A w \in Workers : held[w] = {} /\ todo[w] = {}
  BY DEF Init
<1>3. IsFiniteSet({}) /\ Cardinality({}) = 0
  BY FS_EmptySet
<1>4. Published = {} /\ Len(published) = 0
  BY DEF Init, Published
<1>5. Exposed = {}
  BY <1>4 DEF Exposed
<1>6. faults * BatchSize = 0 /\ Duplicates = 0
  BY <1>3, <1>4, RelayAssumption DEF Init, Duplicates
<1> QED
  BY <1>1, <1>2, <1>3, <1>5, <1>6, RelayAssumption DEF DuplicatesInv

-----------------------------------------------------------------------------
(* Whatever is in the hands of a worker is neither retired nor marked by   *)
(* another, nor marked by itself before it is at the head.                 *)
LEMMA TodoUncovered ==
  ASSUME DuplicatesInv, NEW w \in Workers, NEW e \in todo[w]
  PROVE  /\ e.id \in Ids /\ e.id \notin dispatched /\ e.id \notin marked[w]
         /\ \A v \in Workers \ {w} : e.id \notin WillRetire(v)
<1>1. e \in held[w] /\ e \in outbox /\ e.id \notin dispatched
  BY DEF DuplicatesInv, RelayInv, DrainConsistent, ClaimsExclusive, Undispatched
<1>2. e.id \in Ids /\ e.id \notin marked[w]
  BY DEF DuplicatesInv, RelayInv, TypeOK, RowType
<1>3. ASSUME NEW v \in Workers \ {w}, e.id \in WillRetire(v) PROVE FALSE
  <2>1. PICK f \in held[v] : f.id = e.id
    BY <1>3 DEF WillRetire, DuplicatesInv, RelayInv, DrainConsistent
  <2>2. f \in outbox
    BY DEF DuplicatesInv, RelayInv, ClaimsExclusive, Undispatched
  <2>3. f = e
    BY <1>1, <2>1, <2>2 DEF DuplicatesInv, RelayInv, RowsIdentified
  <2> QED
    BY <1>1, <2>1, <2>3 DEF DuplicatesInv, RelayInv, ClaimsExclusive
<1> QED
  BY <1>1, <1>2, <1>3

(* The head of a claim is one row.                                         *)
LEMMA OneHead ==
  ASSUME TypeOK, NEW w \in Workers, NEW e \in todo[w], IsHead(w, e)
  PROVE  {f.id : f \in {g \in todo[w] : IsHead(w, g)}} = {e.id}
<1>1. \A f \in todo[w] : f.id \in Nat
  BY DEF TypeOK, RowType, Ids
<1>2. \A f \in todo[w] : IsHead(w, f) => f.id = e.id
  BY <1>1 DEF IsHead
<1> QED
  BY <1>2

(* A step that retires, marks and publishes nothing costs nothing.         *)
LEMMA SameExposure ==
  ASSUME published' = published, dispatched' = dispatched,
         \A w \in Workers : WillRetire(w)' = WillRetire(w)
  PROVE  Exposed' = Exposed /\ Duplicates' = Duplicates /\ Published' = Published
<1>1. Published' = Published
  BY DEF Published
<1>2. UNION {WillRetire(w)' : w \in Workers} = UNION {WillRetire(w) : w \in Workers}
  OBVIOUS
<1> QED
  BY <1>1, <1>2 DEF Exposed, Duplicates

LEMMA SameWillRetire ==
  ASSUME NEW w \in Workers, wpc'[w] = wpc[w], todo'[w] = todo[w], marked'[w] = marked[w]
  PROVE  WillRetire(w)' = WillRetire(w)
  BY DEF WillRetire, IsHead

(* Producers, and what happens to the broker.                              *)
LEMMA ElsewhereKeepsCount ==
  ASSUME DuplicatesInv, RelayInv', UNCHANGED <<workerVars, published>>,
         faults' \in {faults, faults + 1}
  PROVE  DuplicatesInv'
<1>1. UNCHANGED <<dispatched, wpc, held, todo, marked, published>>
  BY DEF workerVars
<1>2. Exposed' = Exposed /\ Duplicates' = Duplicates
  BY <1>1, SameWillRetire, SameExposure
<1>3. /\ faults \in Nat /\ faults * BatchSize \in Nat
      /\ (faults + 1) * BatchSize = faults * BatchSize + BatchSize
  BY BudgetGrows DEF DuplicatesInv, RelayInv, TypeOK
<1>4. Duplicates \in Int /\ Cardinality(Exposed) \in Nat
  BY DuplicatesTyped DEF DuplicatesInv, RelayInv
<1>5. Duplicates + Cardinality(Exposed) <= faults' * BatchSize
  BY <1>3, <1>4, RelayAssumption DEF DuplicatesInv
<1> QED
  BY <1>1, <1>2, <1>5 DEF DuplicatesInv

LEMMA ClaimKeepsCount ==
  ASSUME DuplicatesInv, RelayInv', NEW w \in Workers, Claim(w)
  PROVE  DuplicatesInv'
<1> DEFINE batch == FirstRows(Undispatched \ HeldBySome, BatchSize)
<1>1. /\ wpc[w] = "idle"
      /\ held' = [held EXCEPT ![w] = batch]
      /\ todo' = [todo EXCEPT ![w] = batch]
      /\ wpc' = [wpc EXCEPT ![w] = "publishing"]
      /\ UNCHANGED <<dispatched, marked, published, faults>>
  BY DEF Claim, brokerVars
<1>2. Distinct(Undispatched \ HeldBySome)
  BY DEF DuplicatesInv, RelayInv, RowsIdentified, TypeOK, Undispatched, Distinct
<1>3. IsFiniteSet(batch) /\ Cardinality(batch) <= BatchSize
  <2>1. BatchSize \in Nat
    BY RelayAssumption
  <2> QED
    BY <1>2, <2>1, FirstRowsBounded
<1>4. marked[w] = {} /\ todo[w] = {}
  BY <1>1 DEF DuplicatesInv, RelayInv, DrainConsistent
<1> HIDE DEF batch
<1>5. \A v \in Workers : WillRetire(v)' = WillRetire(v)
  <2> SUFFICES ASSUME NEW v \in Workers PROVE WillRetire(v)' = WillRetire(v)
    OBVIOUS
  <2>1. CASE v = w
    <3>1. wpc'[w] = "publishing" /\ marked'[w] = {}
      BY <1>1, <1>4 DEF DuplicatesInv, RelayInv, TypeOK
    <3> QED
      BY <1>4, <2>1, <3>1 DEF WillRetire
  <2>2. CASE v # w
    BY <1>1, <2>2, SameWillRetire DEF DuplicatesInv, RelayInv, TypeOK
  <2> QED
    BY <2>1, <2>2
<1>6. Exposed' = Exposed /\ Duplicates' = Duplicates
  BY <1>1, <1>5, SameExposure
<1>7. \A v \in Workers : /\ IsFiniteSet(held'[v]) /\ Cardinality(held'[v]) <= BatchSize
                         /\ \A e \in todo'[v] : e.id \notin marked'[v]
  BY <1>1, <1>3, <1>4 DEF DuplicatesInv, RelayInv, TypeOK
<1> QED
  BY <1>1, <1>6, <1>7 DEF DuplicatesInv

(* A publish adds a duplicate only of a row that was exposed, and then it  *)
(* is not any more; without its confirm it adds one thing to be paid, and  *)
(* the failure pays.                                                       *)
LEMMA PublishKeepsCount ==
  ASSUME DuplicatesInv, RelayInv', NEW w \in Workers, NEW e \in todo[w],
         Publish(w, e) \/ ConfirmLost(w, e)
  PROVE  DuplicatesInv'
<1>1. /\ wpc[w] = "publishing" /\ IsHead(w, e)
      /\ UNCHANGED <<dispatched, held, todo, marked>>
      /\ published' = Append(published, e.id)
  BY DEF Publish, ConfirmLost
<1>2. /\ e.id \in Ids /\ e.id \notin dispatched /\ e.id \notin marked[w]
      /\ \A v \in Workers \ {w} : e.id \notin WillRetire(v)
  BY TodoUncovered
<1>3. TypeOK /\ TypeOK'
  BY DEF DuplicatesInv, RelayInv
<1>4. Published' = Published \cup {e.id} /\ Len(published') = Len(published) + 1
  BY <1>1, <1>2, <1>3, PublishedGrows DEF TypeOK
<1>5. \A v \in Workers \ {w} : WillRetire(v)' = WillRetire(v)
  <2>1. \A v \in Workers \ {w} : wpc'[v] = wpc[v]
    BY <1>3 DEF Publish, ConfirmLost, TypeOK
  <2> QED
    BY <1>1, <2>1, SameWillRetire
<1>6. WillRetire(w) = marked[w]
  BY <1>1 DEF WillRetire
<1>7. e.id \notin UNION {WillRetire(v) : v \in Workers}
  BY <1>2, <1>6
<1>8. /\ IsFiniteSet(Published) /\ Cardinality(Published) \in Nat
      /\ IsFiniteSet(Exposed) /\ Cardinality(Exposed) \in Nat
      /\ Len(published) \in Nat
      /\ faults \in Nat /\ faults * BatchSize \in Nat
      /\ (faults + 1) * BatchSize = faults * BatchSize + BatchSize
  BY <1>3, DuplicatesTyped, BudgetGrows DEF TypeOK
<1>9. Cardinality(Published') =
        IF e.id \in Published THEN Cardinality(Published) ELSE Cardinality(Published) + 1
  BY <1>4, <1>8, FS_AddElement
<1>10. e.id \in Published => e.id \in Exposed
  BY <1>2, <1>7 DEF Exposed
<1>11. Duplicates + Cardinality(Exposed) <= faults * BatchSize
  BY DEF DuplicatesInv
<1>12. CASE Publish(w, e)
  <2>1. wpc'[w] = "marking" /\ faults' = faults
    BY <1>3, <1>12 DEF Publish, TypeOK
  <2>2. WillRetire(w)' = marked[w] \cup {e.id}
    <3>1. {f.id : f \in {g \in todo[w] : IsHead(w, g)}} = {e.id}
      BY <1>1, <1>3, OneHead
    <3>2. WillRetire(w)' = marked'[w] \cup {f.id : f \in {g \in todo'[w] :
                                               wpc'[w] = "marking" /\ IsHead(w, g)'}}
      BY DEF WillRetire
    <3>3. \A g : IsHead(w, g)' <=> IsHead(w, g)
      BY <1>1 DEF IsHead
    <3>4. {g \in todo'[w] : wpc'[w] = "marking" /\ IsHead(w, g)'}
            = {g \in todo[w] : IsHead(w, g)}
      BY <1>1, <2>1, <3>3
    <3> QED
      BY <1>1, <3>1, <3>2, <3>4
  <2>3. \A x : (\E v \in Workers : x \in WillRetire(v)')
                 <=> (\E v \in Workers : x \in WillRetire(v)) \/ x = e.id
    <3>1. \A x : x \in WillRetire(w)' <=> x \in WillRetire(w) \/ x = e.id
      BY <1>6, <2>2
    <3>2. \A v \in Workers : v = w \/ WillRetire(v)' = WillRetire(v)
      BY <1>5
    <3> QED
      BY <3>1, <3>2
  <2>4. Exposed' = Exposed \ {e.id}
    <3>1. \A x : x \in Exposed' <=> /\ x \in Published'
                                     /\ x \notin dispatched'
                                     /\ ~ \E v \in Workers : x \in WillRetire(v)'
      BY DEF Exposed
    <3>2. \A x : x \in Exposed <=> /\ x \in Published
                                    /\ x \notin dispatched
                                    /\ ~ \E v \in Workers : x \in WillRetire(v)
      BY DEF Exposed
    <3>3. \A x : x \in Exposed' <=> x \in Exposed /\ x # e.id
      BY <1>1, <1>4, <2>3, <3>1, <3>2
    <3> QED
      BY <3>3
  <2>5. Cardinality(Exposed') =
          IF e.id \in Exposed THEN Cardinality(Exposed) - 1 ELSE Cardinality(Exposed)
    BY <1>8, <2>4, FS_RemoveElement
  <2>6. Duplicates' + Cardinality(Exposed') <= faults' * BatchSize
    <3>1. Duplicates' = Len(published') - Cardinality(Published')
          /\ Duplicates = Len(published) - Cardinality(Published)
      BY DEF Duplicates
    <3>2. e.id \in Exposed => e.id \in Published
      BY DEF Exposed
    <3> DEFINE bound == faults * BatchSize
    <3>3. faults' * BatchSize = bound /\ Duplicates + Cardinality(Exposed) <= bound
      BY <1>11, <2>1
    <3>4. /\ Cardinality(Published) \in Nat /\ Cardinality(Exposed) \in Nat
          /\ Len(published) \in Nat /\ bound \in Nat
      BY <1>8
    <3>5. Len(published') = Len(published) + 1
      BY <1>4
    <3> HIDE DEF bound
    <3> QED
      BY <1>9, <1>10, <2>5, <3>1, <3>2, <3>3, <3>4, <3>5
  <2> QED
    BY <1>1, <2>6 DEF DuplicatesInv
<1>13. CASE ConfirmLost(w, e)
  <2>1. wpc'[w] # "marking" /\ faults' = faults + 1
    BY <1>1, <1>3, <1>13 DEF ConfirmLost, Fault, TypeOK
  <2>2. WillRetire(w)' = WillRetire(w)
    BY <1>1, <2>1 DEF WillRetire
  <2>3. UNION {WillRetire(v)' : v \in Workers} = UNION {WillRetire(v) : v \in Workers}
    BY <1>5, <2>2
  <2>4. Exposed' = Exposed \cup {e.id}
    BY <1>1, <1>2, <1>4, <1>7, <2>3 DEF Exposed
  <2>5. Cardinality(Exposed') =
          IF e.id \in Exposed THEN Cardinality(Exposed) ELSE Cardinality(Exposed) + 1
    BY <1>8, <2>4, FS_AddElement
  <2>6. Duplicates' + Cardinality(Exposed') <= faults' * BatchSize
    <3>1. Duplicates' = Len(published') - Cardinality(Published')
          /\ Duplicates = Len(published) - Cardinality(Published)
      BY DEF Duplicates
    <3>2. e.id \in Exposed => e.id \in Published
      BY DEF Exposed
    <3> DEFINE bound == faults * BatchSize
           after == faults' * BatchSize
    <3>3. after = bound + BatchSize /\ Duplicates + Cardinality(Exposed) <= bound
      BY <1>8, <1>11, <2>1
    <3>4. /\ Cardinality(Published) \in Nat /\ Cardinality(Exposed) \in Nat
          /\ Len(published) \in Nat
      BY <1>8
    <3>5. Len(published') = Len(published) + 1
      BY <1>4
    <3>6. \/ /\ Cardinality(Published') = Cardinality(Published)
             /\ Cardinality(Exposed') = Cardinality(Exposed)
          \/ /\ Cardinality(Published') = Cardinality(Published) + 1
             /\ Cardinality(Exposed') = Cardinality(Exposed) + 1
      BY <1>9, <1>10, <2>5, <3>2
    <3>7. /\ Duplicates' + Cardinality(Exposed') <= Duplicates + Cardinality(Exposed) + 1
          /\ Duplicates' \in Int /\ Cardinality(Exposed') \in Int
          /\ Duplicates \in Int /\ Cardinality(Exposed) \in Int
      <4>1. CASE Cardinality(Published') = Cardinality(Published)
        BY <3>1, <3>4, <3>5, <3>6, <4>1
      <4>2. CASE Cardinality(Published') = Cardinality(Published) + 1
        <5>1. Cardinality(Exposed') = Cardinality(Exposed) + 1
          BY <3>4, <3>6, <4>2
        <5> QED
          BY <3>1, <3>4, <3>5, <4>2, <5>1
      <4> QED
        BY <3>6, <4>1, <4>2
    <3>8. bound \in Nat /\ BatchSize \in Nat /\ BatchSize >= 1
      BY <1>8, RelayAssumption
    <3> HIDE DEF bound, after
    <3>9. Duplicates + Cardinality(Exposed) + 1 <= after
      BY <3>3, <3>7, <3>8
    <3>10. after \in Int
      BY <3>3, <3>8
    <3>11. Duplicates' + Cardinality(Exposed') <= after
      BY <3>7, <3>9, <3>10
    <3> QED
      BY <3>11 DEF after
  <2> QED
    BY <1>1, <2>6 DEF DuplicatesInv
<1> QED
  BY <1>12, <1>13

(* Whether a row is marked or about to be marked makes no difference.      *)
LEMMA MarkKeepsCount ==
  ASSUME DuplicatesInv, RelayInv', NEW w \in Workers, NEW e \in todo[w],
         MarkDispatched(w, e) \/ MarkFailed(w, e)
  PROVE  DuplicatesInv'
<1>1. /\ IsHead(w, e) /\ UNCHANGED <<dispatched, held, published, faults>>
      /\ \A v \in Workers \ {w} :
           wpc'[v] = wpc[v] /\ todo'[v] = todo[v] /\ marked'[v] = marked[v]
  BY DEF MarkDispatched, MarkFailed, brokerVars, DuplicatesInv, RelayInv, TypeOK
<1>2. /\ WillRetire(w)' = WillRetire(w)
      /\ \A f \in todo'[w] : f.id \notin marked'[w]
  <2>1. CASE MarkDispatched(w, e)
    <3>1. /\ wpc[w] = "marking" /\ wpc'[w] \in {"committing", "publishing"}
          /\ marked'[w] = marked[w] \cup {e.id} /\ todo'[w] = todo[w] \ {e}
      BY <2>1 DEF MarkDispatched, DuplicatesInv, RelayInv, TypeOK
    <3>2. {f.id : f \in {g \in todo[w] : IsHead(w, g)}} = {e.id}
      BY <1>1, OneHead DEF DuplicatesInv, RelayInv
    <3>3. WillRetire(w) = marked[w] \cup {e.id}
      BY <3>1, <3>2 DEF WillRetire
    <3>4. WillRetire(w)' = marked'[w]
      BY <3>1 DEF WillRetire
    <3>5. ASSUME NEW f \in todo'[w], f.id \in marked'[w] PROVE FALSE
      <4>1. f \in todo[w] /\ f # e
        BY <3>1
      <4>2. f.id # e.id
        <5>1. f \in outbox /\ e \in outbox
          BY <4>1 DEF DuplicatesInv, RelayInv, DrainConsistent, ClaimsExclusive,
             Undispatched
        <5> QED
          BY <4>1, <5>1 DEF DuplicatesInv, RelayInv, RowsIdentified
      <4> QED
        BY <3>1, <3>5, <4>1, <4>2 DEF DuplicatesInv
    <3> QED
      BY <3>1, <3>3, <3>4, <3>5
  <2>2. CASE MarkFailed(w, e)
    <3>1. /\ wpc[w] = "failing" /\ wpc'[w] = "committing"
          /\ marked'[w] = marked[w] /\ todo'[w] = {}
      BY <2>2 DEF MarkFailed, DuplicatesInv, RelayInv, TypeOK
    <3> QED
      BY <3>1 DEF WillRetire
  <2> QED
    BY <2>1, <2>2
<1>3. \A v \in Workers : WillRetire(v)' = WillRetire(v)
  BY <1>1, <1>2, SameWillRetire
<1>4. Exposed' = Exposed /\ Duplicates' = Duplicates
  BY <1>1, <1>3, SameExposure
<1>5. \A v \in Workers : /\ IsFiniteSet(held'[v]) /\ Cardinality(held'[v]) <= BatchSize
                         /\ \A f \in todo'[v] : f.id \notin marked'[v]
  BY <1>1, <1>2 DEF DuplicatesInv
<1> QED
  BY <1>1, <1>4, <1>5 DEF DuplicatesInv

(* A worker that boots, or whose publish was refused, has nothing covered. *)
LEMMA MoveKeepsCount ==
  ASSUME DuplicatesInv, RelayInv', NEW w \in Workers, Boot(w) \/ PublishRejected(w)
  PROVE  DuplicatesInv'
<1>1. /\ UNCHANGED <<dispatched, held, todo, marked, published>>
      /\ faults' \in {faults, faults + 1}
      /\ wpc[w] # "marking" /\ wpc'[w] # "marking"
      /\ \A v \in Workers \ {w} : wpc'[v] = wpc[v]
  BY DEF Boot, PublishRejected, Fault, brokerVars, DuplicatesInv, RelayInv, TypeOK
<1>2. WillRetire(w)' = WillRetire(w)
  BY <1>1 DEF WillRetire
<1>3. \A v \in Workers : WillRetire(v)' = WillRetire(v)
  BY <1>1, <1>2, SameWillRetire
<1>4. Exposed' = Exposed /\ Duplicates' = Duplicates
  BY <1>1, <1>3, SameExposure
<1>5. /\ faults \in Nat /\ faults * BatchSize \in Nat
      /\ (faults + 1) * BatchSize = faults * BatchSize + BatchSize
      /\ Duplicates \in Int /\ Cardinality(Exposed) \in Nat
  BY BudgetGrows, DuplicatesTyped DEF DuplicatesInv, RelayInv, TypeOK
<1>6. Duplicates + Cardinality(Exposed) <= faults' * BatchSize
  BY <1>1, <1>5, RelayAssumption DEF DuplicatesInv
<1> QED
  BY <1>1, <1>4, <1>6 DEF DuplicatesInv

(* The commit retires exactly what was covered.                            *)
LEMMA CommitKeepsCount ==
  ASSUME DuplicatesInv, RelayInv', NEW w \in Workers, Commit(w)
  PROVE  DuplicatesInv'
<1>1. /\ wpc[w] = "committing" /\ dispatched' = dispatched \cup marked[w]
      /\ UNCHANGED <<published, faults>>
      /\ held'[w] = {} /\ todo'[w] = {} /\ marked'[w] = {} /\ wpc'[w] = "idle"
      /\ \A v \in Workers \ {w} : wpc'[v] = wpc[v] /\ todo'[v] = todo[v]
                                  /\ marked'[v] = marked[v] /\ held'[v] = held[v]
  BY DEF Commit, EndTransaction, brokerVars, DuplicatesInv, RelayInv, TypeOK
<1>2. WillRetire(w) = marked[w] /\ WillRetire(w)' = {}
  BY <1>1 DEF WillRetire
<1>3. \A v \in Workers \ {w} : WillRetire(v)' = WillRetire(v)
  BY <1>1, SameWillRetire
<1>4. dispatched' \cup UNION {WillRetire(v)' : v \in Workers}
        = dispatched \cup UNION {WillRetire(v) : v \in Workers}
  BY <1>1, <1>2, <1>3
<1>5. Exposed' = Exposed /\ Duplicates' = Duplicates
  BY <1>1, <1>4 DEF Exposed, Duplicates, Published
<1>6. IsFiniteSet({}) /\ Cardinality({}) <= BatchSize
  BY FS_EmptySet, RelayAssumption
<1>7. \A v \in Workers : /\ IsFiniteSet(held'[v]) /\ Cardinality(held'[v]) <= BatchSize
                         /\ \A f \in todo'[v] : f.id \notin marked'[v]
  BY <1>1, <1>6 DEF DuplicatesInv
<1> QED
  BY <1>1, <1>5, <1>7 DEF DuplicatesInv

(* A rollback exposes what was covered, a batch at most.                   *)
LEMMA RollbackKeepsCount ==
  ASSUME DuplicatesInv, RelayInv', NEW w \in Workers, RollbackDrain(w)
  PROVE  DuplicatesInv'
<1>1. /\ UNCHANGED <<dispatched, published>> /\ faults' = faults + 1
      /\ held'[w] = {} /\ todo'[w] = {} /\ marked'[w] = {}
      /\ \A v \in Workers \ {w} : wpc'[v] = wpc[v] /\ todo'[v] = todo[v]
                                  /\ marked'[v] = marked[v] /\ held'[v] = held[v]
  BY DEF RollbackDrain, EndTransaction, Fault, brokerVars, DuplicatesInv, RelayInv, TypeOK
<1> DEFINE mine == {e.id : e \in held[w]}
<1>2. WillRetire(w) \subseteq mine
  BY DEF WillRetire, DuplicatesInv, RelayInv, DrainConsistent
<1>3. \A v \in Workers \ {w} : WillRetire(v)' = WillRetire(v)
  BY <1>1, SameWillRetire
<1>4. Published' = Published
  BY <1>1 DEF Published
<1>5. Exposed' \subseteq Exposed \cup mine
  BY <1>1, <1>2, <1>3, <1>4 DEF Exposed
<1>6. IsFiniteSet(mine) /\ Cardinality(mine) <= BatchSize /\ Cardinality(mine) \in Nat
  <2>1. /\ IsFiniteSet(held[w]) /\ Cardinality(held[w]) <= BatchSize
        /\ Cardinality(held[w]) \in Nat
    BY FS_CardinalityType DEF DuplicatesInv
  <2>2. IsFiniteSet(mine) /\ Cardinality(mine) <= Cardinality(held[w])
    BY <2>1, IdsOfRows
  <2> HIDE DEF mine
  <2>3. Cardinality(mine) \in Nat
    BY <2>2, FS_CardinalityType
  <2> QED
    BY <2>1, <2>2, <2>3, RelayAssumption
<1> HIDE DEF mine
<1>7. /\ IsFiniteSet(Exposed) /\ Cardinality(Exposed) \in Nat
      /\ Duplicates \in Int
      /\ faults \in Nat /\ faults * BatchSize \in Nat
      /\ (faults + 1) * BatchSize = faults * BatchSize + BatchSize
  BY DuplicatesTyped, BudgetGrows DEF DuplicatesInv, RelayInv, TypeOK
<1>8. /\ IsFiniteSet(Exposed \cup mine)
      /\ Cardinality(Exposed \cup mine) <= Cardinality(Exposed) + Cardinality(mine)
      /\ Cardinality(Exposed \cup mine) \in Nat
  <2>1. /\ IsFiniteSet(Exposed \cup mine)
        /\ Cardinality(Exposed \cup mine) =
             Cardinality(Exposed) + Cardinality(mine) - Cardinality(Exposed \cap mine)
    BY <1>6, <1>7, FS_Union
  <2>2. Cardinality(Exposed \cap mine) \in Nat
    BY <1>7, FS_Intersection, FS_CardinalityType
  <2>3. Cardinality(Exposed \cup mine) \in Nat
    BY <2>1, FS_CardinalityType
  <2> QED
    BY <1>6, <1>7, <2>1, <2>2, <2>3
<1>9. Cardinality(Exposed') <= Cardinality(Exposed \cup mine) /\ Cardinality(Exposed') \in Nat
  <2>1. IsFiniteSet(Exposed') /\ Cardinality(Exposed') <= Cardinality(Exposed \cup mine)
    BY <1>5, <1>8, FS_Subset
  <2> QED
    BY <2>1, FS_CardinalityType
<1>10. Duplicates' = Duplicates
  BY <1>1, <1>4 DEF Duplicates
<1>11. Duplicates' + Cardinality(Exposed') <= faults' * BatchSize
  BY <1>1, <1>6, <1>7, <1>8, <1>9, <1>10, RelayAssumption DEF DuplicatesInv
<1>12. IsFiniteSet({}) /\ Cardinality({}) <= BatchSize
  BY FS_EmptySet, RelayAssumption
<1>13. \A v \in Workers : /\ IsFiniteSet(held'[v]) /\ Cardinality(held'[v]) <= BatchSize
                          /\ \A f \in todo'[v] : f.id \notin marked'[v]
  BY <1>1, <1>12 DEF DuplicatesInv
<1> QED
  BY <1>1, <1>11, <1>13 DEF DuplicatesInv

LEMMA DuplicatesInvStep == DuplicatesInv /\ [Next]_vars => DuplicatesInv'
<1> SUFFICES ASSUME DuplicatesInv, [Next]_vars PROVE DuplicatesInv'
  OBVIOUS
<1>1. RelayInv'
  BY RelayInvStep DEF DuplicatesInv
<1>2. CASE Produce
  <2>1. UNCHANGED <<workerVars, published, faults>>
    BY <1>2 DEF Produce, Insert, CommitInsert, RollbackInsert, brokerVars
  <2> QED
    BY <1>1, <2>1, ElsewhereKeepsCount
<1>3. ASSUME NEW w \in Workers, Drain(w) \/ Failure(w) PROVE DuplicatesInv'
  BY <1>1, <1>3, ClaimKeepsCount, PublishKeepsCount, MarkKeepsCount,
     CommitKeepsCount, RollbackKeepsCount, MoveKeepsCount DEF Drain, Failure
<1>4. CASE BrokerDown \/ BrokerUp \/ UNCHANGED vars
  <2>1. UNCHANGED <<workerVars, published>> /\ faults' \in {faults, faults + 1}
    BY <1>4 DEF BrokerDown, BrokerUp, Fault, vars, brokerVars
  <2> QED
    BY <1>1, <2>1, ElsewhereKeepsCount
<1> QED
  BY <1>2, <1>3, <1>4 DEF Next

(* At every moment the failures so far pay for the duplicates so far and  *)
(* for those that are bound to come.                                       *)
THEOREM DuplicatesInvariant == Spec => []DuplicatesInv
  BY DuplicatesInvInit, DuplicatesInvStep, PTL DEF Spec

(* However many workers drain, a failure costs at most a batch of           *)
(* duplicates, and without failures nothing is published twice.             *)
THEOREM FailuresPayForDuplicates == Spec => []DuplicatesBounded
<1>1. DuplicatesInv => DuplicatesBounded
  <2> SUFFICES ASSUME DuplicatesInv PROVE DuplicatesBounded
    OBVIOUS
  <2>1. Duplicates \in Int /\ Cardinality(Exposed) \in Nat /\ faults * BatchSize \in Nat
    BY DuplicatesTyped, BudgetGrows DEF DuplicatesInv, RelayInv, TypeOK
  <2> QED
    BY <2>1 DEF DuplicatesInv, DuplicatesBounded
<1> QED
  BY <1>1, DuplicatesInvariant, PTL
=============================================================================
