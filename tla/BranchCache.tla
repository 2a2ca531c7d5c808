----------------------------- MODULE BranchCache -----------------------------
(***************************************************************************)
(* The withCache middleware in front of the internal branch lookups, and   *)
(* the writes that make its entries stale: BranchService.update and        *)
(* updateStatus, which delete one entry after their commit, and            *)
(* RestaurantService.updateStatus, which deletes none although the cached  *)
(* answer contains the restaurant's status.  One branch, its restaurant,   *)
(* several API processes and one Redis; a row is represented by the number *)
(* of writes it has seen.                                                  *)
(***************************************************************************)
EXTENDS Integers, FiniteSets

CONSTANTS Lookups,      \* GET requests
          Updates,      \* PATCH requests on the branch
          Suspensions,  \* PATCH requests on the restaurant's status
          Nothing       \* no entry, no answer

VARIABLES branch, restaurant,   \* the committed rows
          cache,                \* the Redis entries
          storing,              \* SETs sent and not yet executed
          pc, url, read,        \* a lookup: where it is, what it asks, what it read
          answer,               \* and what it was answered
          wpc,                  \* where a write is
          version,              \* the row an update committed
          racing                \* lookups filling an entry when it committed

readVars  == <<pc, url, read, answer>>
writeVars == <<wpc, version, racing>>
vars == <<branch, restaurant, cache, storing, readVars, writeVars>>

\* /internal/branches/:id, and the batch /internal/branches?ids=...
Urls   == {"one", "list"}
Writes == Updates \cup Suspensions
Count  == 0..Cardinality(Writes)
Entry  == [branch : Count, restaurant : Count]

Init ==
  /\ branch = 0 /\ restaurant = 0
  /\ cache = [u \in Urls |-> Nothing]
  /\ storing = {}
  /\ pc = [q \in Lookups |-> "idle"]
  /\ url \in [Lookups -> Urls]
  /\ read = [q \in Lookups |-> [branch |-> 0, restaurant |-> 0]]
  /\ answer = [q \in Lookups |-> Nothing]
  /\ wpc = [w \in Writes |-> "idle"]
  /\ version = [w \in Updates |-> 0]
  /\ racing = [w \in Updates |-> {}]

-----------------------------------------------------------------------------
(* A hit is answered from the cache.                                       *)
ReadCache(q) ==
  /\ pc[q] = "idle"
  /\ IF cache[url[q]] # Nothing
     THEN /\ pc' = [pc EXCEPT ![q] = "answered"]
          /\ answer' = [answer EXCEPT ![q] = cache[url[q]]]
     ELSE pc' = [pc EXCEPT ![q] = "branch"] /\ UNCHANGED answer
  /\ UNCHANGED <<branch, restaurant, cache, storing, url, read, writeVars>>

(* Redis does not answer the GET: the error goes to the error handler.     *)
CacheDown(q) ==
  /\ pc[q] = "idle"
  /\ pc' = [pc EXCEPT ![q] = "answered"]
  /\ UNCHANGED <<branch, restaurant, cache, storing, url, read, answer, writeVars>>

(* On a miss the handler reads the branch and then its restaurant, in two  *)
(* statements outside any transaction.                                     *)
ReadBranch(q) ==
  /\ pc[q] = "branch"
  /\ read' = [read EXCEPT ![q].branch = branch]
  /\ pc' = [pc EXCEPT ![q] = "restaurant"]
  /\ UNCHANGED <<branch, restaurant, cache, storing, url, answer, writeVars>>

ReadRestaurant(q) ==
  /\ pc[q] = "restaurant"
  /\ read' = [read EXCEPT ![q].restaurant = restaurant]
  /\ pc' = [pc EXCEPT ![q] = "respond"]
  /\ UNCHANGED <<branch, restaurant, cache, storing, url, answer, writeVars>>

(* The wrapped res.json sends the SET, does not wait for it, and answers.  *)
Respond(q) ==
  /\ pc[q] = "respond"
  /\ storing' = storing \cup {[by |-> q, url |-> url[q], entry |-> read[q]]}
  /\ answer' = [answer EXCEPT ![q] = read[q]]
  /\ pc' = [pc EXCEPT ![q] = "answered"]
  /\ UNCHANGED <<branch, restaurant, cache, url, read, writeVars>>

Store(s) ==
  /\ s \in storing
  /\ storing' = storing \ {s}
  /\ cache' = [cache EXCEPT ![s.url] = s.entry]
  /\ UNCHANGED <<branch, restaurant, readVars, writeVars>>

\* Mutant: the SET gives no TTL and the entry stays.
ExpireNever(u) == cache[u] # Nothing /\ UNCHANGED vars

(* The TTL runs out.                                                       *)
Expire(u) ==
  /\ cache[u] # Nothing
  /\ cache' = [cache EXCEPT ![u] = Nothing]
  /\ UNCHANGED <<branch, restaurant, storing, readVars, writeVars>>

-----------------------------------------------------------------------------
\* Lookups that may still store what they read, or are about to read.
Filling == {q \in Lookups : \/ pc[q] \in {"restaurant", "respond"}
                            \/ \E s \in storing : s.by = q}

(* The transaction of update and updateStatus, event included, commits.    *)
CommitBranch(w) ==
  /\ w \in Updates /\ wpc[w] = "idle"
  /\ branch' = branch + 1
  /\ version' = [version EXCEPT ![w] = branch + 1]
  /\ racing' = [racing EXCEPT ![w] = Filling]
  /\ wpc' = [wpc EXCEPT ![w] = "committed"]
  /\ UNCHANGED <<restaurant, cache, storing, readVars>>

\* Mutant: the batch entry is deleted in place of the branch's own.
InvalidateOther(w) ==
  /\ wpc[w] = "committed"
  /\ cache' = [cache EXCEPT !["list"] = Nothing]
  /\ wpc' = [wpc EXCEPT ![w] = "ok"]
  /\ UNCHANGED <<branch, restaurant, storing, readVars, version, racing>>

(* Then the entry of the branch is deleted, and the caller answered.       *)
Invalidate(w) ==
  /\ wpc[w] = "committed"
  /\ cache' = [cache EXCEPT !["one"] = Nothing]
  /\ wpc' = [wpc EXCEPT ![w] = "ok"]
  /\ UNCHANGED <<branch, restaurant, storing, readVars, version, racing>>

(* The DEL fails, or the process dies before it: the catch rolls back a    *)
(* transaction that is over, and the caller gets an error.                 *)
InvalidateFails(w) ==
  /\ wpc[w] = "committed"
  /\ wpc' = [wpc EXCEPT ![w] = "error"]
  /\ UNCHANGED <<branch, restaurant, cache, storing, readVars, version, racing>>

CommitRestaurant(w) ==
  /\ w \in Suspensions /\ wpc[w] = "idle"
  /\ restaurant' = restaurant + 1
  /\ wpc' = [wpc EXCEPT ![w] = "ok"]
  /\ UNCHANGED <<branch, cache, storing, readVars, version, racing>>

LookupStep(q) == \/ ReadCache(q) \/ CacheDown(q) \/ ReadBranch(q)
                 \/ ReadRestaurant(q) \/ Respond(q)
WriteStep(w)  == \/ CommitBranch(w) \/ Invalidate(w) \/ InvalidateFails(w)
                 \/ CommitRestaurant(w)

Next == \/ \E q \in Lookups : LookupStep(q)
        \/ \E w \in Writes : WriteStep(w)
        \/ \E s \in storing : Store(s)
        \/ \E u \in Urls : Expire(u)

Spec == Init /\ [][Next]_vars

(* Redis expires what has a TTL and executes what it was sent; a request   *)
(* that was begun goes on.                                                 *)
Fairness ==
  /\ \A u \in Urls : WF_vars(Expire(u))
  /\ WF_vars(\E s \in storing : Store(s))
  /\ \A q \in Lookups : WF_vars(pc[q] # "idle" /\ LookupStep(q))

FairSpec == Spec /\ Fairness
-----------------------------------------------------------------------------
(* Types of the variables. *)
TypeOK ==
  /\ branch \in Count /\ restaurant \in Count
  /\ cache \in [Urls -> Entry \cup {Nothing}]
  /\ storing \in SUBSET [by : Lookups, url : Urls, entry : Entry]
  /\ pc \in [Lookups -> {"idle", "branch", "restaurant", "respond", "answered"}]
  /\ url \in [Lookups -> Urls]
  /\ read \in [Lookups -> Entry]
  /\ answer \in [Lookups -> Entry \cup {Nothing}]
  /\ wpc \in [Writes -> {"idle", "committed", "ok", "error"}]
  /\ version \in [Updates -> Count]
  /\ racing \in [Updates -> SUBSET Lookups]

\* The branch's own entry is older than an update that was acknowledged.
OutlivesUpdate(w) ==
  wpc[w] = "ok" /\ cache["one"] # Nothing /\ cache["one"].branch < version[w]

(* After an acknowledged update the branch's entry can only be older than   *)
(* the update if some lookup was between its read of the branch and its SET *)
(* when the update committed: deleting after the commit leaves no other     *)
(* way.                                                                     *)
StaleOnlyByRacingFill ==
  \A w \in Updates : OutlivesUpdate(w) => racing[w] # {}

(* When the writes stop, every entry is in the end either gone or equal to  *)
(* the database, whatever raced and whichever DEL failed or was never sent: *)
(* the TTL repairs them.                                                    *)
EntriesConverge ==
  <>[](\A u \in Urls : cache[u] # Nothing =>
         cache[u] = [branch |-> branch, restaurant |-> restaurant])

-----------------------------------------------------------------------------
\* An update that committed while no lookup was filling an entry.
Unraced(w) == wpc[w] # "idle" /\ racing[w] = {}

\* Since then nothing older than the update is read, on its way to Redis, or,
\* once the entry was deleted, stored.
NothingOlder(w) ==
  /\ \A q \in Lookups : pc[q] \in {"restaurant", "respond"} => version[w] <= read[q].branch
  /\ \A s \in storing : version[w] <= s.entry.branch
  /\ wpc[w] = "ok" /\ cache["one"] # Nothing => version[w] <= cache["one"].branch

\* A write that was begun is over, and counted by one of the two rows.
Begun == {w \in Writes : wpc[w] # "idle"}

(* The inductive invariant behind it.                                      *)
CacheInv ==
  /\ TypeOK
  /\ branch + restaurant = Cardinality(Begun)
  /\ \A w \in Updates : version[w] <= branch /\ (Unraced(w) => NothingOlder(w))
=============================================================================
