-------------------------- MODULE Requests_proofs --------------------------
(***************************************************************************)
(* What Requests checks on a small instance, for any number of lookups,    *)
(* updates, registrations and restaurants, any size of the pool, any limit *)
(* and any bound on the faults: BranchCache, Registration and Listing, one *)
(* after the other, and Requests itself.                                   *)
(***************************************************************************)
EXTENDS Requests, FiniteSetTheorems, TLAPS

-----------------------------------------------------------------------------
(* BranchCache: nothing older than an update nothing raced with.           *)

(* The instances' Cardinality is the one the theorems are about.           *)
LEMMA SameCardinality ==
  ASSUME NEW S
  PROVE  /\ BranchCache!Cardinality(S) = Cardinality(S)
         /\ Registration!Cardinality(S) = Cardinality(S)
         /\ Listing!Cardinality(S) = Cardinality(S)
BY DEF Cardinality, BranchCache!Cardinality, Registration!Cardinality, Listing!Cardinality

Total == Cardinality(BranchCache!Writes)

(* The writes that have begun can be counted.                              *)
LEMMA WritesCounted ==
  /\ Total \in Nat /\ BranchCache!Count = 0..Total
  /\ IsFiniteSet(BranchCache!Begun) /\ Cardinality(BranchCache!Begun) \in 0..Total
<1>1. IsFiniteSet(BranchCache!Writes)
  BY BranchCacheAssumption DEF BranchCache!Writes
<1>2. BranchCache!Begun \subseteq BranchCache!Writes
  BY DEF BranchCache!Begun
<1> QED
  BY <1>1, <1>2, FS_CardinalityType, FS_Subset, SameCardinality DEF Total, BranchCache!Count

(* A write that begins is one more.                                        *)
LEMMA OneMoreBegun ==
  ASSUME NEW w \in BranchCache!Writes, wpc[w] = "idle", BranchCache!TypeOK,
         NEW to, to # "idle", wpc' = [wpc EXCEPT ![w] = to]
  PROVE  /\ Cardinality(BranchCache!Begun)' = Cardinality(BranchCache!Begun) + 1
         /\ Cardinality(BranchCache!Begun)' <= Total
<1>1. BranchCache!Begun' = BranchCache!Begun \cup {w}
  BY DEF BranchCache!Begun, BranchCache!TypeOK
<1>2. w \notin BranchCache!Begun
  BY DEF BranchCache!Begun
<1>3. IsFiniteSet(BranchCache!Begun)
  BY WritesCounted
<1>4. Cardinality(BranchCache!Begun \cup {w}) = Cardinality(BranchCache!Begun) + 1
  BY <1>2, <1>3, FS_AddElement
<1>5. BranchCache!Begun \cup {w} \subseteq BranchCache!Writes /\ IsFiniteSet(BranchCache!Writes)
  BY BranchCacheAssumption DEF BranchCache!Begun, BranchCache!Writes
<1>6. Cardinality(BranchCache!Begun \cup {w}) <= Total
  BY <1>5, FS_Subset DEF Total
<1> QED
  BY <1>1, <1>4, <1>6

(* Nothing is cached and nothing has been written.                         *)
LEMMA CacheInit == BranchCache!Init => BranchCache!CacheInv
<1> SUFFICES ASSUME BranchCache!Init PROVE BranchCache!CacheInv
  OBVIOUS
<1>1. 0 \in BranchCache!Count
  BY WritesCounted
<1>2. BranchCache!TypeOK
  BY <1>1 DEF BranchCache!Init, BranchCache!TypeOK, BranchCache!Entry
<1>3. BranchCache!Begun = {}
  BY DEF BranchCache!Init, BranchCache!Begun
<1>4. branch + restaurant = BranchCache!Cardinality(BranchCache!Begun)
  BY <1>3, FS_EmptySet, SameCardinality DEF BranchCache!Init
<1>5. ASSUME NEW w \in Updates
      PROVE  version[w] <= branch /\ (BranchCache!Unraced(w) => BranchCache!NothingOlder(w))
  BY DEF BranchCache!Init, BranchCache!Unraced, BranchCache!Writes
<1> QED
  BY <1>2, <1>4, <1>5 DEF BranchCache!CacheInv

(* A lookup or Redis moves, and the writes do not.                         *)
LEMMA LookupKeepsCache ==
  ASSUME BranchCache!CacheInv, BranchCache!TypeOK',
         UNCHANGED <<branch, restaurant, wpc, version, racing>>,
         \A n \in 0..branch : 
           /\ \A q \in Lookups : qpc[q] \in {"restaurant", "respond"} => n <= read[q].branch
           /\ \A s \in storing : n <= s.entry.branch
           => /\ \A q \in Lookups : qpc'[q] \in {"restaurant", "respond"} => n <= read'[q].branch
              /\ \A s \in storing' : n <= s.entry.branch,
         cache'["one"] \in {cache["one"], None} \/ \E s \in storing : cache'["one"] = s.entry
  PROVE  BranchCache!CacheInv'
<1>1. BranchCache!Begun' = BranchCache!Begun
  BY DEF BranchCache!Begun
<1>2. (branch + restaurant = BranchCache!Cardinality(BranchCache!Begun))'
  BY <1>1, SameCardinality DEF BranchCache!CacheInv
<1>3. ASSUME NEW w \in Updates
      PROVE  /\ version'[w] <= branch'
             /\ (BranchCache!Unraced(w) => BranchCache!NothingOlder(w))'
  <2>1. version[w] \in 0..branch
    BY WritesCounted DEF BranchCache!CacheInv, BranchCache!TypeOK
  <2>2. ASSUME BranchCache!Unraced(w)' PROVE BranchCache!NothingOlder(w)'
    <3>1. BranchCache!NothingOlder(w)
      BY <2>2 DEF BranchCache!Unraced, BranchCache!CacheInv
    <3>2. /\ \A q \in Lookups : qpc'[q] \in {"restaurant", "respond"} => version[w] <= read'[q].branch
          /\ \A s \in storing' : version[w] <= s.entry.branch
      BY <2>1, <3>1 DEF BranchCache!NothingOlder
    <3>3. wpc[w] = "ok" /\ cache'["one"] # None => version[w] <= cache'["one"].branch
      BY <3>1 DEF BranchCache!NothingOlder
    <3> QED
      BY <3>2, <3>3 DEF BranchCache!NothingOlder
  <2> QED
    BY <2>1, <2>2
<1> QED
  BY <1>2, <1>3 DEF BranchCache!CacheInv

(* The cache is asked.                                                     *)
LEMMA ReadCacheKeepsCache ==
  ASSUME BranchCache!CacheInv, NEW q \in Lookups, BranchCache!ReadCache(q)
  PROVE  BranchCache!CacheInv'
<1> USE DEF BranchCache!ReadCache, BranchCache!writeVars
<1>1. BranchCache!TypeOK
  BY DEF BranchCache!CacheInv
<1>2. /\ \A r \in Lookups : qpc'[r] \in {"restaurant", "respond"} => qpc[r] \in {"restaurant", "respond"}
      /\ qpc' \in [Lookups -> {"idle", "branch", "restaurant", "respond", "answered"}]
  BY <1>1 DEF BranchCache!TypeOK
<1>3. answer' \in [Lookups -> BranchCache!Entry \cup {None}]
  <2>1. CASE cache[url[q]] # None
    <3>1. cache[url[q]] \in BranchCache!Entry
      BY <1>1, <2>1 DEF BranchCache!TypeOK
    <3> QED
      BY <1>1, <2>1, <3>1, Zenon DEF BranchCache!TypeOK
  <2>2. CASE cache[url[q]] = None
    BY <1>1, <2>2 DEF BranchCache!TypeOK
  <2> QED
    BY <2>1, <2>2
<1>4. BranchCache!TypeOK'
  BY <1>1, <1>2, <1>3 DEF BranchCache!TypeOK
<1> QED
  BY <1>2, <1>4, LookupKeepsCache

(* The cache is down: the lookup goes on to the tables.                    *)
LEMMA CacheDownKeepsCache ==
  ASSUME BranchCache!CacheInv, NEW q \in Lookups, BranchCache!CacheDown(q)
  PROVE  BranchCache!CacheInv'
<1> USE DEF BranchCache!CacheDown, BranchCache!writeVars
<1>1. BranchCache!TypeOK
  BY DEF BranchCache!CacheInv
<1>2. /\ \A r \in Lookups : qpc'[r] \in {"restaurant", "respond"} => qpc[r] \in {"restaurant", "respond"}
      /\ qpc' \in [Lookups -> {"idle", "branch", "restaurant", "respond", "answered"}]
  BY <1>1 DEF BranchCache!TypeOK
<1>3. BranchCache!TypeOK'
  BY <1>1, <1>2 DEF BranchCache!TypeOK
<1> QED
  BY <1>2, <1>3, LookupKeepsCache

(* The branch is read, at its present version.                             *)
LEMMA ReadBranchKeepsCache ==
  ASSUME BranchCache!CacheInv, NEW q \in Lookups, BranchCache!ReadBranch(q)
  PROVE  BranchCache!CacheInv'
<1>1. BranchCache!TypeOK
  BY DEF BranchCache!CacheInv
<1> DEFINE r == [read[q] EXCEPT !.branch = branch]
<1>2. r \in BranchCache!Entry /\ r.branch = branch
  BY <1>1 DEF BranchCache!TypeOK, BranchCache!Entry
<1>3. /\ read' = [read EXCEPT ![q] = r] /\ qpc' = [qpc EXCEPT ![q] = "restaurant"]
      /\ UNCHANGED <<branch, restaurant, cache, storing, url, answer, wpc, version, racing>>
  BY DEF BranchCache!ReadBranch, BranchCache!writeVars
<1> HIDE DEF r
<1>4. /\ read' \in [Lookups -> BranchCache!Entry] /\ read'[q].branch = branch
      /\ \A p \in Lookups \ {q} : read'[p] = read[p]
  <2>1. read' \in [Lookups -> BranchCache!Entry]
    BY <1>1, <1>2, <1>3, Zenon DEF BranchCache!TypeOK
  <2> QED
    BY <1>1, <1>2, <1>3, <2>1 DEF BranchCache!TypeOK
<1>5. /\ \A p \in Lookups \ {q} : qpc'[p] = qpc[p]
      /\ qpc' \in [Lookups -> {"idle", "branch", "restaurant", "respond", "answered"}]
  BY <1>1, <1>3 DEF BranchCache!TypeOK
<1>6. BranchCache!TypeOK'
  BY <1>1, <1>3, <1>4, <1>5 DEF BranchCache!TypeOK
<1>7. ASSUME NEW n \in 0..branch,
             \A p \in Lookups : qpc[p] \in {"restaurant", "respond"} => n <= read[p].branch
      PROVE  \A p \in Lookups : qpc'[p] \in {"restaurant", "respond"} => n <= read'[p].branch
  <2>1. n <= branch
    BY <1>1, WritesCounted DEF BranchCache!TypeOK
  <2> QED
    BY <1>4, <1>5, <1>7, <2>1
<1> QED
  BY <1>3, <1>6, <1>7, LookupKeepsCache

(* The restaurant is read.                                                 *)
LEMMA ReadRestaurantKeepsCache ==
  ASSUME BranchCache!CacheInv, NEW q \in Lookups, BranchCache!ReadRestaurant(q)
  PROVE  BranchCache!CacheInv'
<1>1. BranchCache!TypeOK
  BY DEF BranchCache!CacheInv
<1> DEFINE r == [read[q] EXCEPT !.restaurant = restaurant]
<1>2. r \in BranchCache!Entry /\ r.branch = read[q].branch
  BY <1>1 DEF BranchCache!TypeOK, BranchCache!Entry
<1>3. /\ read' = [read EXCEPT ![q] = r] /\ qpc[q] = "restaurant"
      /\ qpc' = [qpc EXCEPT ![q] = "respond"]
      /\ UNCHANGED <<branch, restaurant, cache, storing, url, answer, wpc, version, racing>>
  BY DEF BranchCache!ReadRestaurant, BranchCache!writeVars
<1> HIDE DEF r
<1>4. /\ read' \in [Lookups -> BranchCache!Entry]
      /\ \A p \in Lookups : read'[p].branch = read[p].branch
  <2>1. read' \in [Lookups -> BranchCache!Entry]
    BY <1>1, <1>2, <1>3, Zenon DEF BranchCache!TypeOK
  <2> QED
    BY <1>1, <1>2, <1>3, <2>1 DEF BranchCache!TypeOK
<1>5. /\ \A p \in Lookups : qpc'[p] \in {"restaurant", "respond"} => qpc[p] \in {"restaurant", "respond"}
      /\ qpc' \in [Lookups -> {"idle", "branch", "restaurant", "respond", "answered"}]
  BY <1>1, <1>3 DEF BranchCache!TypeOK
<1>6. BranchCache!TypeOK'
  BY <1>1, <1>3, <1>4, <1>5 DEF BranchCache!TypeOK
<1> QED
  BY <1>3, <1>4, <1>5, <1>6, LookupKeepsCache

(* The answer is given, and is to be stored if it was read.                *)
LEMMA RespondKeepsCache ==
  ASSUME BranchCache!CacheInv, NEW q \in Lookups, BranchCache!Respond(q)
  PROVE  BranchCache!CacheInv'
<1>1. BranchCache!TypeOK
  BY DEF BranchCache!CacheInv
<1> DEFINE s == [by |-> q, url |-> url[q], entry |-> read[q]]
<1>2. /\ qpc[q] = "respond" /\ qpc' = [qpc EXCEPT ![q] = "answered"]
      /\ storing' = storing \cup {s} /\ answer' = [answer EXCEPT ![q] = read[q]]
      /\ UNCHANGED <<branch, restaurant, cache, url, read, wpc, version, racing>>
  BY DEF BranchCache!Respond, BranchCache!writeVars
<1>3. /\ s \in [by : Lookups, url : BranchCache!Urls, entry : BranchCache!Entry]
      /\ s.entry = read[q] /\ read[q] \in BranchCache!Entry
  BY <1>1 DEF BranchCache!TypeOK
<1> HIDE DEF s
<1>4. answer' \in [Lookups -> BranchCache!Entry \cup {None}]
  BY <1>1, <1>2, <1>3, Zenon DEF BranchCache!TypeOK
<1>5. /\ \A p \in Lookups : qpc'[p] \in {"restaurant", "respond"} => qpc[p] \in {"restaurant", "respond"}
      /\ qpc' \in [Lookups -> {"idle", "branch", "restaurant", "respond", "answered"}]
  BY <1>1, <1>2 DEF BranchCache!TypeOK
<1>6. BranchCache!TypeOK'
  BY <1>1, <1>2, <1>3, <1>4, <1>5 DEF BranchCache!TypeOK
<1> QED
  BY <1>2, <1>3, <1>5, <1>6, LookupKeepsCache

(* The fill: what was read enters the cache.                               *)
LEMMA StoreKeepsCache ==
  ASSUME BranchCache!CacheInv, NEW s \in storing, BranchCache!Store(s)
  PROVE  BranchCache!CacheInv'
<1>1. BranchCache!TypeOK
  BY DEF BranchCache!CacheInv
<1>2. /\ storing' = storing \ {s} /\ cache' = [cache EXCEPT ![s.url] = s.entry]
      /\ UNCHANGED <<branch, restaurant, qpc, url, read, answer, wpc, version, racing>>
  BY DEF BranchCache!Store, BranchCache!readVars, BranchCache!writeVars
<1>3. s.entry \in BranchCache!Entry
  BY <1>1 DEF BranchCache!TypeOK
<1>4. cache' \in [BranchCache!Urls -> BranchCache!Entry \cup {None}]
  BY <1>1, <1>2, <1>3, Zenon DEF BranchCache!TypeOK
<1>5. cache'["one"] \in {cache["one"], s.entry}
  BY <1>1, <1>2 DEF BranchCache!TypeOK, BranchCache!Urls
<1>6. BranchCache!TypeOK'
  BY <1>1, <1>2, <1>4 DEF BranchCache!TypeOK
<1> QED
  BY <1>2, <1>5, <1>6, LookupKeepsCache

(* An entry expires.                                                       *)
LEMMA ExpireKeepsCache ==
  ASSUME BranchCache!CacheInv, NEW u \in BranchCache!Urls, BranchCache!Expire(u)
  PROVE  BranchCache!CacheInv'
<1>1. BranchCache!TypeOK
  BY DEF BranchCache!CacheInv
<1>2. /\ cache' = [cache EXCEPT ![u] = None]
      /\ UNCHANGED <<branch, restaurant, storing, qpc, url, read, answer, wpc, version, racing>>
  BY DEF BranchCache!Expire, BranchCache!readVars, BranchCache!writeVars
<1>3. cache' \in [BranchCache!Urls -> BranchCache!Entry \cup {None}]
  BY <1>1, <1>2, Zenon DEF BranchCache!TypeOK
<1>4. cache'["one"] \in {cache["one"], None}
  BY <1>1, <1>2 DEF BranchCache!TypeOK, BranchCache!Urls
<1>5. BranchCache!TypeOK'
  BY <1>1, <1>2, <1>3 DEF BranchCache!TypeOK
<1> QED
  BY <1>2, <1>4, <1>5, LookupKeepsCache

(* A branch is written, under a version nothing in the cache has yet.      *)
LEMMA CommitBranchKeepsCache ==
  ASSUME BranchCache!CacheInv, NEW w \in BranchCache!Writes, BranchCache!CommitBranch(w)
  PROVE  BranchCache!CacheInv'
<1>1. BranchCache!TypeOK
  BY DEF BranchCache!CacheInv
<1>2. /\ w \in Updates /\ wpc[w] = "idle" /\ wpc' = [wpc EXCEPT ![w] = "committed"]
      /\ branch' = branch + 1 /\ version' = [version EXCEPT ![w] = branch + 1]
      /\ racing' = [racing EXCEPT ![w] = BranchCache!Filling]
      /\ UNCHANGED <<restaurant, cache, storing, qpc, url, read, answer>>
  BY DEF BranchCache!CommitBranch, BranchCache!readVars
<1>3. /\ branch \in Int /\ restaurant \in Int /\ branch >= 0 /\ restaurant >= 0
      /\ Total \in Nat /\ BranchCache!Count = 0..Total
      /\ branch + restaurant = Cardinality(BranchCache!Begun)
  BY <1>1, WritesCounted, SameCardinality DEF BranchCache!CacheInv, BranchCache!TypeOK
<1>4. /\ Cardinality(BranchCache!Begun)' = branch + restaurant + 1
      /\ branch + restaurant + 1 <= Total
  <2>1. /\ Cardinality(BranchCache!Begun)' = Cardinality(BranchCache!Begun) + 1
        /\ Cardinality(BranchCache!Begun)' <= Total
    BY <1>1, <1>2, OneMoreBegun
  <2> QED
    BY <1>3, <2>1
<1>5. branch + 1 \in BranchCache!Count
  BY <1>3, <1>4
<1>6. /\ version' \in [Updates -> BranchCache!Count] /\ version'[w] = branch + 1
      /\ \A v \in Updates \ {w} : version'[v] = version[v]
  BY <1>1, <1>2, <1>5 DEF BranchCache!TypeOK
<1>7. /\ racing' \in [Updates -> SUBSET Lookups] /\ racing'[w] = BranchCache!Filling
      /\ \A v \in Updates \ {w} : racing'[v] = racing[v]
  BY <1>1, <1>2 DEF BranchCache!TypeOK, BranchCache!Filling
<1>8. /\ wpc'[w] = "committed" /\ \A v \in Updates \ {w} : wpc'[v] = wpc[v]
      /\ wpc' \in [BranchCache!Writes -> {"idle", "committed", "ok", "error"}]
  BY <1>1, <1>2 DEF BranchCache!TypeOK, BranchCache!Writes
<1>9. BranchCache!TypeOK'
  BY <1>1, <1>2, <1>5, <1>6, <1>7, <1>8 DEF BranchCache!TypeOK
<1>10. (branch + restaurant = BranchCache!Cardinality(BranchCache!Begun))'
  BY <1>2, <1>3, <1>4, SameCardinality
<1>11. ASSUME NEW v \in Updates
       PROVE  /\ version'[v] <= branch'
              /\ (BranchCache!Unraced(v) => BranchCache!NothingOlder(v))'
  <2>1. CASE v = w
    <3>1. ASSUME BranchCache!Unraced(w)' PROVE BranchCache!NothingOlder(w)'
      <4>1. BranchCache!Filling = {}
        BY <1>7, <3>1 DEF BranchCache!Unraced
      <4>2. /\ \A q \in Lookups : qpc[q] \notin {"restaurant", "respond"}
            /\ storing = {}
        BY <1>1, <4>1 DEF BranchCache!Filling, BranchCache!TypeOK
      <4> QED
        BY <1>2, <1>8, <4>2 DEF BranchCache!NothingOlder
    <3> QED
      BY <1>2, <1>3, <1>6, <2>1, <3>1
  <2>2. CASE v # w
    <3>1. version[v] <= branch /\ version[v] \in Int
      BY <1>1, <1>3 DEF BranchCache!CacheInv, BranchCache!TypeOK
    <3>2. version'[v] <= branch'
      BY <1>2, <1>3, <1>6, <2>2, <3>1
    <3>3. BranchCache!Unraced(v)' => BranchCache!NothingOlder(v)
      BY <1>7, <1>8, <2>2 DEF BranchCache!Unraced, BranchCache!CacheInv
    <3>4. BranchCache!NothingOlder(v) => BranchCache!NothingOlder(v)'
      BY <1>2, <1>6, <1>8, <2>2 DEF BranchCache!NothingOlder
    <3> QED
      BY <3>2, <3>3, <3>4
  <2> QED
    BY <2>1, <2>2
<1> QED
  BY <1>9, <1>10, <1>11 DEF BranchCache!CacheInv

(* A committed write is answered, and the entry deleted or left.           *)
LEMMA InvalidateKeepsCache ==
  ASSUME BranchCache!CacheInv, NEW w \in BranchCache!Writes,
         BranchCache!Invalidate(w) \/ BranchCache!InvalidateFails(w)
  PROVE  BranchCache!CacheInv'
<1>1. BranchCache!TypeOK
  BY DEF BranchCache!CacheInv
<1>2. /\ wpc[w] = "committed"
      /\ UNCHANGED <<branch, restaurant, storing, qpc, url, read, answer, version, racing>>
      /\ \/ /\ cache' = [cache EXCEPT !["one"] = None] /\ wpc' = [wpc EXCEPT ![w] = "ok"]
         \/ cache' = cache /\ wpc' = [wpc EXCEPT ![w] = "error"]
  BY DEF BranchCache!Invalidate, BranchCache!InvalidateFails, BranchCache!readVars
<1>3. /\ cache' \in [BranchCache!Urls -> BranchCache!Entry \cup {None}]
      /\ cache'["one"] = None \/ (wpc'[w] = "error" /\ cache' = cache)
  <2>1. CASE cache' = [cache EXCEPT !["one"] = None]
    <3>1. cache' \in [BranchCache!Urls -> BranchCache!Entry \cup {None}]
      BY <1>1, <2>1, Zenon DEF BranchCache!TypeOK
    <3> QED
      BY <1>1, <2>1, <3>1 DEF BranchCache!TypeOK, BranchCache!Urls
  <2>2. CASE cache' = cache /\ wpc' = [wpc EXCEPT ![w] = "error"]
    BY <1>1, <2>2 DEF BranchCache!TypeOK
  <2> QED
    BY <1>2, <2>1, <2>2
<1>4. /\ wpc' \in [BranchCache!Writes -> {"idle", "committed", "ok", "error"}]
      /\ wpc'[w] # "idle" /\ \A v \in BranchCache!Writes \ {w} : wpc'[v] = wpc[v]
  BY <1>1, <1>2 DEF BranchCache!TypeOK
<1>5. BranchCache!TypeOK'
  BY <1>1, <1>2, <1>3, <1>4 DEF BranchCache!TypeOK
<1>6. BranchCache!Begun' = BranchCache!Begun
  BY <1>2, <1>4 DEF BranchCache!Begun
<1>7. (branch + restaurant = BranchCache!Cardinality(BranchCache!Begun))'
  BY <1>2, <1>6, SameCardinality DEF BranchCache!CacheInv
<1>8. ASSUME NEW v \in Updates
      PROVE  /\ version'[v] <= branch'
             /\ (BranchCache!Unraced(v) => BranchCache!NothingOlder(v))'
  <2>1. v \in BranchCache!Writes
    BY DEF BranchCache!Writes
  <2>2. BranchCache!Unraced(v)' => BranchCache!Unraced(v)
    BY <1>2, <1>4, <2>1 DEF BranchCache!Unraced
  <2>3. BranchCache!NothingOlder(v) => BranchCache!NothingOlder(v)'
    BY <1>2, <1>3, <1>4, <2>1 DEF BranchCache!NothingOlder
  <2> QED
    BY <1>2, <2>2, <2>3 DEF BranchCache!CacheInv
<1> QED
  BY <1>5, <1>7, <1>8 DEF BranchCache!CacheInv

(* A suspension reaches no cache entry.                                    *)
LEMMA CommitRestaurantKeepsCache ==
  ASSUME BranchCache!CacheInv, NEW w \in BranchCache!Writes, BranchCache!CommitRestaurant(w)
  PROVE  BranchCache!CacheInv'
<1>1. BranchCache!TypeOK
  BY DEF BranchCache!CacheInv
<1>2. /\ wpc[w] = "idle" /\ wpc' = [wpc EXCEPT ![w] = "ok"] /\ restaurant' = restaurant + 1
      /\ UNCHANGED <<branch, cache, storing, qpc, url, read, answer, version, racing>>
  BY DEF BranchCache!CommitRestaurant, BranchCache!readVars
<1>3. /\ branch \in Int /\ restaurant \in Int /\ branch >= 0 /\ restaurant >= 0
      /\ Total \in Nat /\ BranchCache!Count = 0..Total
      /\ branch + restaurant = Cardinality(BranchCache!Begun)
  BY <1>1, WritesCounted, SameCardinality DEF BranchCache!CacheInv, BranchCache!TypeOK
<1>4. /\ Cardinality(BranchCache!Begun)' = branch + restaurant + 1
      /\ branch + restaurant + 1 <= Total
  <2>1. /\ Cardinality(BranchCache!Begun)' = Cardinality(BranchCache!Begun) + 1
        /\ Cardinality(BranchCache!Begun)' <= Total
    BY <1>1, <1>2, OneMoreBegun
  <2> QED
    BY <1>3, <2>1
<1>5. restaurant + 1 \in BranchCache!Count
  BY <1>3, <1>4
<1>6. /\ wpc' \in [BranchCache!Writes -> {"idle", "committed", "ok", "error"}]
      /\ \A v \in BranchCache!Writes \ {w} : wpc'[v] = wpc[v]
  BY <1>1, <1>2 DEF BranchCache!TypeOK
<1>7. BranchCache!TypeOK'
  BY <1>1, <1>2, <1>5, <1>6 DEF BranchCache!TypeOK
<1>8. (branch + restaurant = BranchCache!Cardinality(BranchCache!Begun))'
  BY <1>2, <1>3, <1>4, SameCardinality
<1>9. ASSUME NEW v \in Updates
      PROVE  /\ version'[v] <= branch'
             /\ (BranchCache!Unraced(v) => BranchCache!NothingOlder(v))'
  <2>1. v # w /\ v \in BranchCache!Writes
    BY BranchCacheAssumption DEF BranchCache!CommitRestaurant, BranchCache!Writes
  <2>2. wpc'[v] = wpc[v]
    BY <1>6, <2>1
  <2>3. BranchCache!Unraced(v)' => BranchCache!Unraced(v)
    BY <1>2, <2>2 DEF BranchCache!Unraced
  <2>4. BranchCache!NothingOlder(v) => BranchCache!NothingOlder(v)'
    BY <1>2, <2>2 DEF BranchCache!NothingOlder
  <2> QED
    BY <1>2, <2>3, <2>4 DEF BranchCache!CacheInv
<1> QED
  BY <1>7, <1>8, <1>9 DEF BranchCache!CacheInv

(* Every step keeps CacheInv.                                              *)
LEMMA CacheStep == BranchCache!CacheInv /\ [BranchCache!Next]_(BranchCache!vars) => BranchCache!CacheInv'
<1> SUFFICES ASSUME BranchCache!CacheInv, [BranchCache!Next]_(BranchCache!vars)
             PROVE  BranchCache!CacheInv'
  OBVIOUS
<1>1. CASE UNCHANGED BranchCache!vars
  <2>1. UNCHANGED <<branch, restaurant, cache, storing, qpc, url, read, answer, wpc, version, racing>>
    BY <1>1 DEF BranchCache!vars, BranchCache!readVars, BranchCache!writeVars
  <2>2. BranchCache!TypeOK'
    BY <2>1 DEF BranchCache!CacheInv, BranchCache!TypeOK
  <2> QED
    BY <2>1, <2>2, LookupKeepsCache
<1>2. CASE BranchCache!Next
  BY <1>2, ReadCacheKeepsCache, CacheDownKeepsCache, ReadBranchKeepsCache, ReadRestaurantKeepsCache,
     RespondKeepsCache, StoreKeepsCache, ExpireKeepsCache, CommitBranchKeepsCache,
     InvalidateKeepsCache, CommitRestaurantKeepsCache
  DEF BranchCache!Next, BranchCache!LookupStep, BranchCache!WriteStep
<1> QED
  BY <1>1, <1>2

(* CacheInv holds throughout: what is cached, read or about to be stored   *)
(* is not older than an update that nothing raced with.                    *)
THEOREM CacheInvariant == BranchCache!Spec => []BranchCache!CacheInv
BY CacheInit, CacheStep, PTL DEF BranchCache!Spec

(* The entry of a branch is older than an acknowledged update only if some *)
(* lookup was between its read and its SET when the update committed.      *)
THEOREM StalenessHasARace == BranchCache!Spec => []StaleOnlyByRacingFill
<1>1. BranchCache!CacheInv => StaleOnlyByRacingFill
  <2> SUFFICES ASSUME BranchCache!CacheInv, NEW w \in Updates, BranchCache!OutlivesUpdate(w)
               PROVE  racing[w] # {}
    BY DEF StaleOnlyByRacingFill, BranchCache!StaleOnlyByRacingFill
  <2>1. wpc[w] = "ok" /\ cache["one"] # None /\ cache["one"].branch < version[w]
    BY DEF BranchCache!OutlivesUpdate
  <2>2. cache["one"].branch \in Int /\ version[w] \in Int
    <3>1. cache["one"] \in BranchCache!Entry
      BY <2>1 DEF BranchCache!CacheInv, BranchCache!TypeOK, BranchCache!Urls
    <3> QED
      BY <3>1, WritesCounted DEF BranchCache!CacheInv, BranchCache!TypeOK, BranchCache!Entry
  <2>3. racing[w] = {} => version[w] <= cache["one"].branch
    BY <2>1 DEF BranchCache!CacheInv, BranchCache!Unraced, BranchCache!NothingOlder
  <2> QED
    BY <2>1, <2>2, <2>3
<1> QED
  BY <1>1, CacheInvariant, PTL
-----------------------------------------------------------------------------
(* Registration: the pool and the unique indexes, one lemma per action.    *)

RegistrationPcs == {"idle", "queueing"} \cup Registration!Holding \cup Registration!Ended
Holders == {c \in Calls : gpc[c] \in Registration!Holding}

(* Nobody is registered, and nothing is open.                              *)
LEMMA RegistrationInit == Registration!Init => Registration!RegistrationInv
<1> SUFFICES ASSUME Registration!Init PROVE Registration!RegistrationInv
  OBVIOUS
<1> USE DEF Registration!Init
<1>1. {c \in Calls : gpc[c] \in Registration!Holding} = {}
  BY DEF Registration!Holding
<1>2. Registration!Free = PoolMax - 0
  BY <1>1, FS_EmptySet, SameCardinality DEF Registration!Free
<1>3. Registration!TypeOK
  BY <1>2, RegistrationAssumption DEF Registration!TypeOK
<1>4. Registration!People = {}
  BY DEF Registration!People
<1>5. Registration!IndexesUnique
  BY <1>4 DEF Registration!IndexesUnique
<1>6. ASSUME NEW c \in Calls PROVE Registration!AtItsPlace(c) /\ Registration!CheckStands(c)
  BY RegistrationAssumption
  DEF Registration!AtItsPlace, Registration!CheckStands, Registration!Written
<1> QED
  BY <1>3, <1>5, <1>6 DEF Registration!RegistrationInv

(* The pool: a call that gets a connection or gives its own back.          *)
LEMMA PoolCounts ==
  ASSUME Registration!TypeOK, NEW c \in Calls, NEW to \in RegistrationPcs,
         gpc' = [gpc EXCEPT ![c] = to],
         \/ Registration!Free > 0 
         \/ gpc[c] \in Registration!Holding
         \/ to \notin Registration!Holding
  PROVE  Registration!Free' >= 0
<1>1. IsFiniteSet(Holders) /\ Cardinality(Holders) \in Nat
  <2>1. Holders \subseteq Calls
    BY DEF Holders
  <2> QED
    BY <2>1, FS_Subset, FS_CardinalityType, RegistrationAssumption
<1>2. Holders' = IF to \in Registration!Holding THEN Holders \cup {c} ELSE Holders \ {c}
  BY DEF Registration!TypeOK, Holders
<1>3. c \in Holders <=> gpc[c] \in Registration!Holding
  BY DEF Holders
<1>4. Cardinality(Holders)' = Cardinality(Holders')
  OBVIOUS
<1>5. /\ Cardinality(Holders \cup {c}) =
           IF c \in Holders THEN Cardinality(Holders) ELSE Cardinality(Holders) + 1
      /\ Cardinality(Holders \ {c}) = IF c \in Holders THEN Cardinality(Holders) - 1 ELSE Cardinality(Holders)
  BY <1>1, FS_AddElement, FS_RemoveElement
<1>6. Registration!Free = PoolMax - Cardinality(Holders)
  BY SameCardinality DEF Registration!Free, Holders
<1>7. Registration!Free' = PoolMax - Cardinality(Holders')
  BY SameCardinality DEF Registration!Free, Holders
<1>8. Registration!Free >= 0 /\ PoolMax \in Nat
  BY RegistrationAssumption DEF Registration!TypeOK
<1> QED
  BY <1>1, <1>2, <1>3, <1>5, <1>6, <1>7, <1>8

(* One registration moves: the others stand where they stood.              *)
LEMMA OthersStand ==
  ASSUME Registration!RegistrationInv, NEW c \in Calls,
         \A d \in Calls \ {c} :
           /\ gpc'[d] = gpc[d] /\ form'[d] = form[d] /\ entries'[d] = entries[d]
           /\ mine'[d] = mine[d] /\ told'[d] = told[d] /\ wasThere'[d] = wasThere[d],
         form'[c] = form[c] \/ c \notin Registration!People,
         committed \subseteq committed',
         \A t \in Registration!Tables, d \in Calls \ {c} :
           <<t, d>> \in committed' => <<t, d>> \in committed,
         NEW d \in Calls \ {c}
  PROVE  Registration!AtItsPlace(d)' /\ Registration!CheckStands(d)'
<1>1. Registration!AtItsPlace(d) /\ Registration!CheckStands(d) /\ Registration!TypeOK
  BY DEF Registration!RegistrationInv
<1>2. Registration!Written(d)' = Registration!Written(d)
  BY DEF Registration!Written
<1>3. Registration!ToWrite(d)' = Registration!ToWrite(d)
  BY DEF Registration!ToWrite
<1>4. Registration!AtItsPlace(d)'
  BY <1>1, <1>2, <1>3 DEF Registration!AtItsPlace
<1>5. \A e \in Registration!People : e \in Registration!People' /\ form'[e] = form[e]
  BY DEF Registration!People
<1>6. \A e \in Registration!People : Registration!Clash(d, e)' <=> Registration!Clash(d, e)
  BY <1>5 DEF Registration!Clash
<1>7. Registration!CheckStands(d)'
  BY <1>1, <1>5, <1>6 DEF Registration!CheckStands
<1> QED
  BY <1>4, <1>7

(* A step of one registration that inserts nothing into the indexes and    *)
(* commits nothing.                                                        *)
LEMMA QuietStep ==
  ASSUME Registration!RegistrationInv, NEW c \in Calls, Registration!TypeOK',
         \A d \in Calls \ {c} :
           /\ gpc'[d] = gpc[d] /\ form'[d] = form[d] /\ entries'[d] = entries[d]
           /\ mine'[d] = mine[d] /\ told'[d] = told[d] /\ wasThere'[d] = wasThere[d],
         entries'[c] \subseteq entries[c],
         form'[c] = form[c] \/ (entries[c] = {} /\ c \notin Registration!People),
         committed' = committed,
         Registration!AtItsPlace(c)', Registration!CheckStands(c)'
  PROVE  Registration!RegistrationInv'
<1>1. \A d \in Calls : Registration!AtItsPlace(d)' /\ Registration!CheckStands(d)'
  BY OthersStand
<1>2. /\ Registration!People' = Registration!People
      /\ Registration!People \subseteq Calls
  BY DEF Registration!People
<1>3. \A d \in Calls : \A x \in entries'[d] : x \in entries[d] /\ form'[d] = form[d]
  OBVIOUS
<1>4. \A d \in Registration!People : form'[d] = form[d]
  BY <1>2
<1>5. Registration!IndexesUnique
  BY DEF Registration!RegistrationInv
<1>6. \A d, e \in Calls : d # e =>
        \A x \in entries'[d] \cap entries'[e] : form'[d][x] # form'[e][x]
  BY <1>3, <1>5 DEF Registration!IndexesUnique
<1>7. \A d \in Calls, e \in Registration!People' : \A x \in entries'[d] : form'[d][x] # form'[e][x]
  BY <1>2, <1>3, <1>4, <1>5 DEF Registration!IndexesUnique
<1>8. \A d, e \in Registration!People' : d # e => ~Registration!Clash(d, e)'
  BY <1>2, <1>4, <1>5 DEF Registration!IndexesUnique, Registration!Clash
<1>9. Registration!IndexesUnique'
  BY <1>6, <1>7, <1>8 DEF Registration!IndexesUnique
<1> QED
  BY <1>1, <1>9 DEF Registration!RegistrationInv

(* A registration that gives up is as its type says, and has left nothing  *)
(* behind that it had not committed.                                       *)
LEMMA GivesUp ==
  ASSUME Registration!RegistrationInv, NEW c \in Calls, NEW text \in Registration!Answers,
         Registration!GiveUp(c, text)
  PROVE  /\ gpc' = [gpc EXCEPT ![c] = "answered"] /\ gpc'[c] = "answered"
         /\ gpc' \in [Calls -> RegistrationPcs]
         /\ mine' \in [Calls -> SUBSET Registration!Tables] /\ mine'[c] = {}
         /\ entries' \in [Calls -> SUBSET {"email", "phone"}] /\ entries'[c] = {}
         /\ told' \in [Calls -> Registration!Answers \cup {None}] /\ told'[c] = text
         /\ Registration!Free' >= 0
         /\ \A d \in Calls \ {c} :
              /\ gpc'[d] = gpc[d] /\ entries'[d] = entries[d]
              /\ mine'[d] = mine[d] /\ told'[d] = told[d]
<1>1. Registration!TypeOK
  BY DEF Registration!RegistrationInv
<1>2. /\ gpc' = [gpc EXCEPT ![c] = "answered"] /\ mine' = [mine EXCEPT ![c] = {}]
      /\ entries' = [entries EXCEPT ![c] = {}] /\ told' = [told EXCEPT ![c] = text]
  BY DEF Registration!GiveUp
<1>3. "answered" \in RegistrationPcs /\ "answered" \notin Registration!Holding
  BY DEF RegistrationPcs, Registration!Ended, Registration!Holding
<1>4. Registration!Free' >= 0
  BY <1>1, <1>2, <1>3, PoolCounts
<1>5. told' \in [Calls -> Registration!Answers \cup {None}] /\ told'[c] = text
      /\ \A d \in Calls \ {c} : told'[d] = told[d]
  <2>1. told' \in [Calls -> Registration!Answers \cup {None}]
    BY <1>1, <1>2, Zenon DEF Registration!TypeOK
  <2> QED
    BY <2>1, <1>1, <1>2 DEF Registration!TypeOK
<1>6. gpc' \in [Calls -> RegistrationPcs] /\ gpc'[c] = "answered"
      /\ \A d \in Calls \ {c} : gpc'[d] = gpc[d]
  BY <1>1, <1>2, <1>3 DEF Registration!TypeOK, RegistrationPcs
<1>7. /\ mine' \in [Calls -> SUBSET Registration!Tables] /\ mine'[c] = {}
      /\ entries' \in [Calls -> SUBSET {"email", "phone"}] /\ entries'[c] = {}
      /\ \A d \in Calls \ {c} : entries'[d] = entries[d] /\ mine'[d] = mine[d]
  BY <1>1, <1>2 DEF Registration!TypeOK
<1> QED
  BY <1>2, <1>4, <1>5, <1>6, <1>7

(* A registration that has not ended has committed nothing.                *)
LEMMA NothingYet ==
  ASSUME Registration!RegistrationInv, NEW c \in Calls, gpc[c] # "answered"
  PROVE  /\ Registration!Written(c) = {} /\ c \notin Registration!People
         /\ \A t \in Registration!Tables : <<t, c>> \notin committed
         /\ told[c] = None
<1>1. Registration!AtItsPlace(c)
  BY DEF Registration!RegistrationInv
<1>2. Registration!Written(c) = {} /\ told[c] = None
  BY <1>1 DEF Registration!AtItsPlace
<1>3. \A t \in Registration!Tables : <<t, c>> \notin committed
  BY <1>2 DEF Registration!Written
<1> QED
  BY <1>2, <1>3 DEF Registration!People, Registration!Tables

(* A refusal or an error without a commit.                                 *)
LEMMA RefusalKeeps ==
  ASSUME Registration!RegistrationInv, NEW c \in Calls,
         NEW text \in {"conflict", "refused", "error"},
         gpc[c] \notin {"idle", "answered"}, Registration!GiveUp(c, text),
         committed' = committed, form' = form, faults' \in Nat,
         wasThere' = wasThere \/ wasThere' = [wasThere EXCEPT ![c] = Registration!People]
  PROVE  Registration!RegistrationInv'
<1>1. Registration!TypeOK /\ Registration!AtItsPlace(c) /\ Registration!CheckStands(c)
  BY DEF Registration!RegistrationInv
<1>2. text \in Registration!Answers /\ text # None
  BY RegistrationAssumption DEF Registration!Answers
<1>3. /\ wasThere' \in [Calls -> SUBSET Calls]
      /\ wasThere'[c] \subseteq Registration!People
      /\ \A d \in Calls \ {c} : wasThere'[d] = wasThere[d]
  <2>1. Registration!People \subseteq Calls
    BY DEF Registration!People
  <2> QED
    BY <1>1, <2>1 DEF Registration!TypeOK, Registration!CheckStands
<1>4. Registration!TypeOK'
  BY <1>1, <1>2, <1>3, GivesUp DEF Registration!TypeOK, RegistrationPcs
<1>5. Registration!AtItsPlace(c)'
  <2>1. Registration!Written(c)' = {}
    BY NothingYet DEF Registration!Written
  <2> QED
    BY <1>1, <1>2, <2>1, GivesUp DEF Registration!AtItsPlace
<1>6. Registration!CheckStands(c)'
  BY <1>2, <1>3, GivesUp DEF Registration!CheckStands, Registration!People
<1> QED
  BY <1>2, <1>3, <1>4, <1>5, <1>6, GivesUp, QuietStep

(* A call moves to another place, and may write into its transaction.      *)
LEMMA MoveIsTyped ==
  ASSUME Registration!TypeOK, NEW c \in Calls, NEW to \in RegistrationPcs,
         gpc' = [gpc EXCEPT ![c] = to],
         NEW m \in SUBSET Registration!Tables, mine' = [mine EXCEPT ![c] = m],
         \/ Registration!Free > 0
         \/ gpc[c] \in Registration!Holding
         \/ to \notin Registration!Holding,
         form' \in [Calls -> Forms \cup {None}],
         UNCHANGED <<committed, entries, told, wasThere, faults>>
  PROVE  /\ Registration!TypeOK' /\ gpc'[c] = to /\ mine'[c] = m
         /\ \A d \in Calls \ {c} : gpc'[d] = gpc[d] /\ mine'[d] = mine[d]
<1>1. gpc' \in [Calls -> RegistrationPcs] /\ gpc'[c] = to
      /\ \A d \in Calls \ {c} : gpc'[d] = gpc[d]
  BY DEF Registration!TypeOK, RegistrationPcs
<1>2. mine' \in [Calls -> SUBSET Registration!Tables] /\ mine'[c] = m
      /\ \A d \in Calls \ {c} : mine'[d] = mine[d]
  BY DEF Registration!TypeOK
<1>3. Registration!Free' >= 0
  BY PoolCounts
<1> QED
  BY <1>1, <1>2, <1>3 DEF Registration!TypeOK, RegistrationPcs

(* A registration arrives.                                                 *)
LEMMA ArriveKeeps ==
  ASSUME Registration!RegistrationInv, NEW c \in Calls, Registration!Arrive(c)
  PROVE  Registration!RegistrationInv'
<1>1. Registration!TypeOK /\ Registration!AtItsPlace(c) /\ Registration!CheckStands(c)
  BY DEF Registration!RegistrationInv
<1>2. PICK f \in Forms :
        /\ gpc[c] = "idle" /\ gpc' = [gpc EXCEPT ![c] = "queueing"]
        /\ form' = [form EXCEPT ![c] = f]
        /\ UNCHANGED <<committed, mine, entries, told, wasThere, faults>>
  BY DEF Registration!Arrive, Registration!Move
<1>3. /\ form' \in [Calls -> Forms \cup {None}] /\ form'[c] = f
      /\ \A d \in Calls \ {c} : form'[d] = form[d]
  BY <1>1, <1>2 DEF Registration!TypeOK
<1>4. /\ mine[c] \in SUBSET Registration!Tables /\ mine' = [mine EXCEPT ![c] = mine[c]]
  BY <1>1, <1>2 DEF Registration!TypeOK
<1>5. "queueing" \in RegistrationPcs /\ "queueing" \notin Registration!Holding
  BY DEF RegistrationPcs, Registration!Holding
<1>6. /\ Registration!TypeOK' /\ gpc'[c] = "queueing" /\ mine'[c] = mine[c]
      /\ \A d \in Calls \ {c} : gpc'[d] = gpc[d] /\ mine'[d] = mine[d]
  BY <1>1, <1>2, <1>3, <1>4, <1>5, MoveIsTyped
<1>7. c \notin Registration!People /\ Registration!Written(c) = {} /\ told[c] = None
  BY <1>2, NothingYet
<1>8. Registration!AtItsPlace(c)'
  <2>1. Registration!Written(c)' = {}
    BY <1>2, <1>7 DEF Registration!Written
  <2> QED
    BY <1>1, <1>2, <1>3, <1>6, <1>7, <2>1, RegistrationAssumption DEF Registration!AtItsPlace
<1>9. Registration!CheckStands(c)'
  BY <1>1, <1>2, <1>6, <1>7, RegistrationAssumption DEF Registration!CheckStands, Registration!People
<1> QED
  BY <1>1, <1>2, <1>3, <1>6, <1>7, <1>8, <1>9, QuietStep DEF Registration!AtItsPlace

(* It gets its connection.                                                 *)
LEMMA BeginTransactionKeeps ==
  ASSUME Registration!RegistrationInv, NEW c \in Calls, Registration!BeginTransaction(c)
  PROVE  Registration!RegistrationInv'
<1>1. Registration!TypeOK /\ Registration!AtItsPlace(c) /\ Registration!CheckStands(c)
  BY DEF Registration!RegistrationInv
<1>2. /\ Registration!Free > 0 /\ gpc[c] = "queueing" /\ gpc' = [gpc EXCEPT ![c] = "checking"]
      /\ UNCHANGED <<committed, mine, entries, form, told, wasThere, faults>>
  BY DEF Registration!BeginTransaction, Registration!Move
<1>3. /\ mine[c] \in SUBSET Registration!Tables /\ mine' = [mine EXCEPT ![c] = mine[c]]
      /\ form' \in [Calls -> Forms \cup {None}]
  BY <1>1, <1>2 DEF Registration!TypeOK
<1>4. "checking" \in RegistrationPcs
  BY DEF RegistrationPcs, Registration!Holding
<1>5. /\ Registration!TypeOK' /\ gpc'[c] = "checking" /\ mine'[c] = mine[c]
      /\ \A d \in Calls \ {c} : gpc'[d] = gpc[d] /\ mine'[d] = mine[d]
  BY <1>1, <1>2, <1>3, <1>4, MoveIsTyped
<1>6. Registration!Written(c) = {} /\ told[c] = None
  BY <1>2, NothingYet
<1>7. Registration!AtItsPlace(c)'
  <2>1. Registration!Written(c)' = {}
    BY <1>2, <1>6 DEF Registration!Written
  <2> QED
    BY <1>1, <1>2, <1>5, <1>6, <2>1, RegistrationAssumption DEF Registration!AtItsPlace
<1>8. Registration!CheckStands(c)'
  BY <1>1, <1>2, <1>5, <1>6, RegistrationAssumption DEF Registration!CheckStands, Registration!People
<1> QED
  BY <1>2, <1>5, <1>7, <1>8, QuietStep

(* The check sees the persons that are there.                              *)
LEMMA CheckExistsKeeps ==
  ASSUME Registration!RegistrationInv, NEW c \in Calls, Registration!CheckExists(c)
  PROVE  Registration!RegistrationInv'
<1>1. Registration!TypeOK /\ Registration!AtItsPlace(c) /\ Registration!CheckStands(c)
  BY DEF Registration!RegistrationInv
<1>2. /\ gpc[c] = "checking" /\ wasThere' = [wasThere EXCEPT ![c] = Registration!People]
      /\ UNCHANGED <<committed, form, faults>>
  BY DEF Registration!CheckExists
<1>3. CASE \E d \in Registration!People : Registration!Seen(c, d)
  <2>1. Registration!GiveUp(c, "conflict") /\ faults' \in Nat
    BY <1>1, <1>3 DEF Registration!CheckExists, Registration!TypeOK
  <2> QED
    BY <1>2, <2>1, RefusalKeeps
<1>4. CASE \A d \in Registration!People : ~Registration!Seen(c, d)
  <2>1. gpc' = [gpc EXCEPT ![c] = "email"] /\ UNCHANGED <<mine, entries, told>>
    BY <1>4 DEF Registration!CheckExists
  <2>2. /\ Registration!People \subseteq Calls
        /\ Registration!People' = Registration!People
    BY <1>2 DEF Registration!People
  <2>3. /\ wasThere' \in [Calls -> SUBSET Calls] /\ wasThere'[c] = Registration!People
        /\ \A d \in Calls \ {c} : wasThere'[d] = wasThere[d]
    BY <1>1, <1>2, <2>2 DEF Registration!TypeOK
  <2>4. "email" \in RegistrationPcs /\ gpc[c] \in Registration!Holding
    BY <1>2 DEF RegistrationPcs, Registration!Holding
  <2>5. Registration!Free' >= 0
    BY <1>1, <2>1, <2>4, PoolCounts
  <2>6. /\ gpc' \in [Calls -> RegistrationPcs] /\ gpc'[c] = "email"
        /\ \A d \in Calls \ {c} : gpc'[d] = gpc[d]
    BY <1>1, <2>1, <2>4 DEF Registration!TypeOK, RegistrationPcs
  <2>7. Registration!TypeOK'
    BY <1>1, <1>2, <2>1, <2>3, <2>5, <2>6 DEF Registration!TypeOK, RegistrationPcs
  <2>8. Registration!Written(c) = {} /\ told[c] = None
    BY <1>2, NothingYet
  <2>9. Registration!AtItsPlace(c)'
    <3>1. Registration!Written(c)' = {}
      BY <1>2, <2>8 DEF Registration!Written
    <3> QED
      BY <1>1, <1>2, <2>1, <2>6, <2>8, <3>1, RegistrationAssumption DEF Registration!AtItsPlace
  <2>10. Registration!CheckStands(c)'
    <3>1. \A d \in Registration!People : ~Registration!Clash(c, d)'
      BY <1>2, <1>4 DEF Registration!Seen, Registration!Clash
    <3>2. told'[c] # "collided"
      BY <2>1, <2>8, RegistrationAssumption
    <3> QED
      BY <2>2, <2>3, <3>1, <3>2 DEF Registration!CheckStands
  <2> QED
    BY <1>2, <2>1, <2>3, <2>6, <2>7, <2>9, <2>10, QuietStep
<1> QED
  BY <1>3, <1>4

(* Timeouts, the owner without restaurant data, and what breaks off.       *)
LEMMA RefusalsKeep ==
  ASSUME Registration!RegistrationInv, NEW c \in Calls,
         \/ Registration!AcquireTimeout(c)
         \/ Registration!RequireRestaurant(c)
         \/ Registration!BreakOff(c)
  PROVE  Registration!RegistrationInv'
<1>1. faults \in Nat
  BY DEF Registration!RegistrationInv, Registration!TypeOK
<1>2. CASE Registration!AcquireTimeout(c)
  BY <1>1, <1>2, RefusalKeeps DEF Registration!AcquireTimeout
<1>3. CASE Registration!RequireRestaurant(c)
  BY <1>1, <1>3, RefusalKeeps DEF Registration!RequireRestaurant
<1>4. CASE Registration!BreakOff(c)
  <2>1. /\ gpc[c] \in Registration!Holding /\ Registration!GiveUp(c, "error")
        /\ faults' = faults + 1 /\ UNCHANGED <<committed, form, wasThere>>
    BY <1>4 DEF Registration!BreakOff
  <2>2. gpc[c] \notin {"idle", "answered"} /\ faults' \in Nat
    BY <1>1, <2>1 DEF Registration!Holding
  <2> QED
    BY <2>1, <2>2, RefusalKeeps
<1> QED
  BY <1>2, <1>3, <1>4

(* The rows an owner's registration writes after the user.                 *)
LEMMA InsertsKeep ==
  ASSUME Registration!RegistrationInv, NEW c \in Calls,
         Registration!InsertRestaurant(c) \/ Registration!InsertOwner(c)
  PROVE  Registration!RegistrationInv'
<1>1. Registration!TypeOK /\ Registration!AtItsPlace(c) /\ Registration!CheckStands(c)
  BY DEF Registration!RegistrationInv
<1> DEFINE to == IF gpc[c] = "restaurant" THEN "owner" ELSE "committing"
           m  == IF gpc[c] = "restaurant" THEN {"users", "restaurants"}
                                          ELSE Registration!Tables
<1>2. /\ gpc[c] \in {"restaurant", "owner"} /\ gpc' = [gpc EXCEPT ![c] = to]
      /\ mine' = [mine EXCEPT ![c] = m]
      /\ UNCHANGED <<committed, entries, form, told, wasThere, faults>>
  <2>1. CASE Registration!InsertRestaurant(c)
    <3>1. gpc[c] = "restaurant" /\ mine[c] = {"users"}
      BY <1>1, <2>1 DEF Registration!AtItsPlace, Registration!InsertRestaurant, Registration!Move
    <3>2. mine[c] \cup {"restaurants"} = m
      BY <3>1
    <3> QED
      BY <2>1, <3>1, <3>2 DEF Registration!InsertRestaurant, Registration!Move
  <2>2. CASE Registration!InsertOwner(c)
    <3>1. gpc[c] = "owner" /\ mine[c] = {"users", "restaurants"}
      BY <1>1, <2>2 DEF Registration!AtItsPlace, Registration!InsertOwner, Registration!Move
    <3>2. mine[c] \cup {"restaurant_members"} = m
      BY <3>1 DEF Registration!Tables
    <3> QED
      BY <2>2, <3>1, <3>2 DEF Registration!InsertOwner, Registration!Move
  <2> QED
    BY <2>1, <2>2
<1>3. /\ to \in RegistrationPcs /\ to \in {"owner", "committing"} /\ m \in SUBSET Registration!Tables
      /\ gpc[c] \in Registration!Holding /\ form' \in [Calls -> Forms \cup {None}]
  BY <1>1, <1>2 DEF RegistrationPcs, Registration!Holding, Registration!Tables, Registration!TypeOK
<1>4. to = "owner" => m = {"users", "restaurants"}
  OBVIOUS
<1>5. to = "committing" => m = Registration!Tables
  OBVIOUS
<1> HIDE DEF to, m
<1>6. /\ Registration!TypeOK' /\ gpc'[c] = to /\ mine'[c] = m
      /\ \A d \in Calls \ {c} : gpc'[d] = gpc[d] /\ mine'[d] = mine[d]
  BY <1>1, <1>2, <1>3, MoveIsTyped
<1>7. Registration!Written(c) = {} /\ told[c] = None
  BY <1>2, NothingYet
<1>8. /\ form[c] \in Forms /\ form[c].kind = "owner" /\ entries[c] = Registration!Indexes
  BY <1>1, <1>2 DEF Registration!AtItsPlace
<1>9. Registration!AtItsPlace(c)'
  <2>1. Registration!Written(c)' = {} /\ told'[c] = None
    BY <1>2, <1>7 DEF Registration!Written
  <2>2. Registration!ToWrite(c)' = Registration!Tables
    BY <1>2, <1>8 DEF Registration!ToWrite
  <2>3. entries'[c] = Registration!Indexes /\ form'[c] = form[c]
    BY <1>2, <1>8
  <2>4. CASE to = "owner"
    BY <1>4, <1>6, <1>8, <2>1, <2>2, <2>3, <2>4, RegistrationAssumption DEF Registration!AtItsPlace
  <2>5. CASE to = "committing"
    BY <1>5, <1>6, <1>8, <2>1, <2>2, <2>3, <2>5, RegistrationAssumption DEF Registration!AtItsPlace
  <2> QED
    BY <1>3, <2>4, <2>5
<1>10. Registration!CheckStands(c)'
  <2>1. \A d \in Calls : Registration!Clash(c, d)' <=> Registration!Clash(c, d)
    BY <1>2 DEF Registration!Clash
  <2>2. Registration!People' = Registration!People /\ Registration!People \subseteq Calls
    BY <1>2 DEF Registration!People
  <2> QED
    BY <1>1, <1>2, <1>7, <2>1, <2>2, RegistrationAssumption DEF Registration!CheckStands
<1> QED
  BY <1>2, <1>6, <1>9, <1>10, QuietStep

(* The unique index refuses: the person with that key committed after the  *)
(* check.                                                                  *)
LEMMA CollisionKeeps ==
  ASSUME Registration!RegistrationInv, NEW c \in Calls, gpc[c] \in {"email", "phone"},
         NEW e \in Registration!People, form[c][gpc[c]] = form[e][gpc[c]],
         Registration!GiveUp(c, "collided"),
         UNCHANGED <<committed, form, wasThere, faults>>
  PROVE  Registration!RegistrationInv'
<1>1. Registration!TypeOK /\ Registration!AtItsPlace(c) /\ Registration!CheckStands(c)
  BY DEF Registration!RegistrationInv
<1>2. "collided" \in Registration!Answers
  BY DEF Registration!Answers
<1>3. Registration!TypeOK'
  BY <1>1, <1>2, GivesUp DEF Registration!TypeOK, RegistrationPcs
<1>4. Registration!AtItsPlace(c)'
  <2>1. Registration!Written(c)' = {}
    BY NothingYet DEF Registration!Written
  <2> QED
    BY <1>1, <1>2, <2>1, GivesUp DEF Registration!AtItsPlace
<1>5. Registration!CheckStands(c)'
  <2>1. Registration!Clash(c, e)
    BY DEF Registration!Clash
  <2>2. \A d \in wasThere[c] : ~Registration!Clash(c, d)
    BY <1>1 DEF Registration!CheckStands
  <2>3. e \notin wasThere[c]
    BY <2>1, <2>2
  <2>4. Registration!People' = Registration!People /\ wasThere[c] \subseteq Registration!People
    BY <1>1 DEF Registration!People, Registration!CheckStands
  <2>5. \A d \in Calls : Registration!Clash(c, d)' <=> Registration!Clash(c, d)
    BY DEF Registration!Clash
  <2>6. Registration!People \subseteq Calls
    BY DEF Registration!People
  <2> QED
    BY <2>1, <2>2, <2>3, <2>4, <2>5, <2>6 DEF Registration!CheckStands
<1> QED
  BY <1>2, <1>3, <1>4, <1>5, GivesUp, QuietStep

(* Where a registration goes once an index has taken its key.              *)
After(c) == IF gpc[c] = "email" THEN "phone"
            ELSE CASE form[c].kind = "customer" -> "committing"
                   [] form[c].kind = "owner"    -> "restaurant"
                   [] form[c].kind = "bare"     -> "rolling"

(* The form decides what comes after the phone.                            *)
LEMMA Goes ==
  ASSUME NEW c \in Calls, form[c] \in Forms, gpc[c] \in {"email", "phone"}
  PROVE  /\ After(c) \in {"phone", "committing", "restaurant", "rolling"}
         /\ gpc[c] = "email" <=> After(c) = "phone"
         /\ After(c) = "committing" => form[c].kind = "customer"
         /\ After(c) = "restaurant" => form[c].kind = "owner"
<1>1. form[c].kind \in {"customer", "owner", "bare"}
  BY RegistrationAssumption
<1> QED
  BY <1>1 DEF After

(* A registration that has inserted the user is where AtItsPlace says.     *)
LEMMA InsertedAll ==
  ASSUME NEW c \in Calls, form'[c] \in Forms, told'[c] = None, None # "created",
         Registration!Written(c)' = {}, entries'[c] = Registration!Indexes,
         mine'[c] = {"users"}, gpc'[c] \in {"committing", "restaurant", "rolling"},
         gpc'[c] = "committing" => Registration!ToWrite(c)' = {"users"},
         gpc'[c] = "restaurant" => form'[c].kind = "owner"
  PROVE  Registration!AtItsPlace(c)'
<1>1. CASE gpc'[c] = "committing"
  BY <1>1 DEF Registration!AtItsPlace
<1>2. CASE gpc'[c] = "restaurant"
  BY <1>2 DEF Registration!AtItsPlace
<1>3. CASE gpc'[c] = "rolling"
  BY <1>3 DEF Registration!AtItsPlace
<1> QED
  BY <1>1, <1>2, <1>3

(* An index takes the key: no other transaction and no person has it.      *)
LEMMA EntryKeeps ==
  ASSUME Registration!RegistrationInv, NEW c \in Calls,
         gpc[c] \in {"email", "phone"}, Registration!InsertedBy(c, gpc[c]) = {},
         \A e \in Registration!People : form[c][gpc[c]] # form[e][gpc[c]],
         gpc' = [gpc EXCEPT ![c] = After(c)],
         entries' = [entries EXCEPT ![c] = @ \cup {gpc[c]}],
         mine' = [mine EXCEPT ![c] = IF gpc[c] = "phone" THEN {"users"} ELSE @],
         UNCHANGED <<committed, form, told, wasThere, faults>>
  PROVE  Registration!RegistrationInv'
<1>1. Registration!TypeOK /\ Registration!AtItsPlace(c) /\ Registration!CheckStands(c)
  BY DEF Registration!RegistrationInv
<1>2. form[c] \in Forms
  BY <1>1 DEF Registration!AtItsPlace
<1>3. /\ After(c) \in {"phone", "committing", "restaurant", "rolling"}
      /\ gpc[c] = "email" <=> After(c) = "phone"
      /\ After(c) = "committing" => form[c].kind = "customer"
      /\ After(c) = "restaurant" => form[c].kind = "owner"
  BY <1>2, Goes
<1>4. After(c) \in RegistrationPcs /\ gpc[c] \in Registration!Holding
  BY <1>3 DEF RegistrationPcs, Registration!Holding
<1>5. Registration!Free' >= 0
  BY <1>1, <1>4, PoolCounts
<1>6. /\ gpc' \in [Calls -> RegistrationPcs] /\ gpc'[c] = After(c)
      /\ \A d \in Calls \ {c} : gpc'[d] = gpc[d]
  BY <1>1, <1>4 DEF Registration!TypeOK, RegistrationPcs
<1>7. /\ entries' \in [Calls -> SUBSET {"email", "phone"}]
      /\ entries'[c] = entries[c] \cup {gpc[c]}
      /\ \A d \in Calls \ {c} : entries'[d] = entries[d]
  BY <1>1 DEF Registration!TypeOK
<1>8. /\ mine' \in [Calls -> SUBSET Registration!Tables]
      /\ mine'[c] = IF gpc[c] = "phone" THEN {"users"} ELSE mine[c]
      /\ \A d \in Calls \ {c} : mine'[d] = mine[d]
  BY <1>1 DEF Registration!TypeOK, Registration!Tables
<1>9. Registration!TypeOK'
  BY <1>1, <1>5, <1>6, <1>7, <1>8 DEF Registration!TypeOK, RegistrationPcs
<1>10. Registration!Written(c) = {} /\ told[c] = None /\ c \notin Registration!People
  BY NothingYet
<1>11. Registration!AtItsPlace(c)'
  <2>1. Registration!Written(c)' = {} /\ told'[c] = None /\ form'[c] = form[c]
    BY <1>10 DEF Registration!Written
  <2>2. Registration!ToWrite(c)' = Registration!ToWrite(c)
    BY DEF Registration!ToWrite
  <2>3. CASE gpc[c] = "email"
    <3>1. entries'[c] = {"email"} /\ mine'[c] = {} /\ gpc'[c] = "phone"
      BY <1>1, <1>3, <1>6, <1>7, <1>8, <2>3 DEF Registration!AtItsPlace
    <3> QED
      BY <1>2, <2>1, <3>1, RegistrationAssumption DEF Registration!AtItsPlace
  <2>4. CASE gpc[c] = "phone"
    <3>1. entries'[c] = Registration!Indexes /\ mine'[c] = {"users"}
      BY <1>1, <1>7, <1>8, <2>4 DEF Registration!AtItsPlace, Registration!Indexes
    <3>2. gpc'[c] \in {"committing", "restaurant", "rolling"}
      BY <1>3, <1>6, <2>4
    <3>3. gpc'[c] = "committing" => Registration!ToWrite(c)' = {"users"}
      BY <1>3, <1>6, <2>2 DEF Registration!ToWrite
    <3>4. gpc'[c] = "restaurant" => form'[c].kind = "owner"
      BY <1>3, <1>6
    <3>5. form'[c] \in Forms /\ told'[c] = None /\ None # "created"
      BY <1>2, <2>1, RegistrationAssumption
    <3> QED
      BY <2>1, <3>1, <3>2, <3>3, <3>4, <3>5, InsertedAll
  <2> QED
    BY <2>3, <2>4
<1>12. Registration!CheckStands(c)'
  <2>1. \A d \in Calls : Registration!Clash(c, d)' <=> Registration!Clash(c, d)
    BY DEF Registration!Clash
  <2>2. Registration!People' = Registration!People /\ Registration!People \subseteq Calls
    BY DEF Registration!People
  <2> QED
    BY <1>1, <1>10, <2>1, <2>2, RegistrationAssumption DEF Registration!CheckStands
<1>13. \A d \in Calls : Registration!AtItsPlace(d)' /\ Registration!CheckStands(d)'
  BY <1>6, <1>7, <1>8, <1>11, <1>12, OthersStand
<1>14. /\ Registration!People' = Registration!People
       /\ Registration!People \subseteq Calls
  BY DEF Registration!People
<1>15. Registration!IndexesUnique
  BY DEF Registration!RegistrationInv
<1>16. \A d \in Calls \ {c} : gpc[c] \in entries[d] => form[c][gpc[c]] # form[d][gpc[c]]
  BY DEF Registration!InsertedBy
<1>17. \A d, e \in Calls : d # e =>
         \A x \in entries'[d] \cap entries'[e] : form'[d][x] # form'[e][x]
  BY <1>7, <1>15, <1>16 DEF Registration!IndexesUnique
<1>18. \A d \in Calls, e \in Registration!People' : \A x \in entries'[d] : form'[d][x] # form'[e][x]
  BY <1>7, <1>14, <1>15 DEF Registration!IndexesUnique
<1>19. \A d, e \in Registration!People' : d # e => ~Registration!Clash(d, e)'
  BY <1>14, <1>15 DEF Registration!IndexesUnique, Registration!Clash
<1>20. Registration!IndexesUnique'
  BY <1>17, <1>18, <1>19 DEF Registration!IndexesUnique
<1> QED
  BY <1>9, <1>13, <1>20 DEF Registration!RegistrationInv

(* The INSERT into users, index by index.                                  *)
LEMMA InsertUserKeeps ==
  ASSUME Registration!RegistrationInv, NEW c \in Calls, Registration!InsertUser(c)
  PROVE  Registration!RegistrationInv'
<1>1. /\ gpc[c] \in {"email", "phone"} /\ Registration!InsertEntry(c, gpc[c], After(c))
  <2>1. CASE Registration!InsertEntry(c, "email", "phone")
    BY <2>1 DEF Registration!InsertEntry, After
  <2>2. CASE ~Registration!InsertEntry(c, "email", "phone")
    BY <2>2 DEF Registration!InsertUser, Registration!InsertEntry, After
  <2> QED
    BY <2>1, <2>2
<1>2. /\ Registration!InsertedBy(c, gpc[c]) = {}
      /\ UNCHANGED <<committed, form, wasThere, faults>>
  BY <1>1 DEF Registration!InsertEntry
<1>3. CASE \E e \in Registration!People : form[c][gpc[c]] = form[e][gpc[c]]
  <2>1. PICK e \in Registration!People : form[c][gpc[c]] = form[e][gpc[c]]
    BY <1>3
  <2>2. Registration!GiveUp(c, "collided")
    BY <1>1, <1>3 DEF Registration!InsertEntry
  <2> QED
    BY <1>1, <1>2, <2>1, <2>2, CollisionKeeps
<1>4. CASE \A e \in Registration!People : form[c][gpc[c]] # form[e][gpc[c]]
  <2>1. /\ gpc' = [gpc EXCEPT ![c] = After(c)]
        /\ entries' = [entries EXCEPT ![c] = @ \cup {gpc[c]}]
        /\ mine' = [mine EXCEPT ![c] = IF gpc[c] = "phone" THEN {"users"} ELSE @]
        /\ UNCHANGED told
    BY <1>1, <1>4 DEF Registration!InsertEntry
  <2> QED
    BY <1>1, <1>2, <1>4, <2>1, EntryKeeps
<1> QED
  BY <1>3, <1>4

(* The commit: the keys of the new person were already the transaction's.  *)
LEMMA CommitKeeps ==
  ASSUME Registration!RegistrationInv, NEW c \in Calls, Registration!Commit(c)
  PROVE  Registration!RegistrationInv'
<1>1. Registration!TypeOK /\ Registration!AtItsPlace(c) /\ Registration!CheckStands(c)
      /\ Registration!IndexesUnique
  BY DEF Registration!RegistrationInv
<1>2. PICK text \in {"created", "error"} :
        /\ gpc[c] = "committing" /\ Registration!GiveUp(c, text)
        /\ committed' = committed \cup {<<t, c>> : t \in mine[c]}
        /\ UNCHANGED <<form, wasThere>> /\ faults' \in Nat
  BY <1>1 DEF Registration!Commit, Registration!TypeOK
<1>3. /\ form[c] \in Forms /\ entries[c] = Registration!Indexes
      /\ mine[c] = Registration!ToWrite(c) /\ mine[c] \subseteq Registration!Tables
      /\ "users" \in mine[c]
  BY <1>1, <1>2 DEF Registration!AtItsPlace, Registration!TypeOK, Registration!ToWrite,
     Registration!Tables
<1>4. text \in Registration!Answers /\ text # None
  BY RegistrationAssumption DEF Registration!Answers
<1>5. Registration!Written(c) = {} /\ told[c] = None /\ c \notin Registration!People
      /\ \A t \in Registration!Tables : <<t, c>> \notin committed
  BY <1>2, NothingYet
<1>6. committed' \in SUBSET (Registration!Tables \X Calls)
  BY <1>1, <1>2, <1>3 DEF Registration!TypeOK
<1>7. Registration!TypeOK'
  BY <1>1, <1>2, <1>4, <1>6, GivesUp DEF Registration!TypeOK, RegistrationPcs
<1>8. Registration!Written(c)' = Registration!ToWrite(c)'
  <2>1. Registration!Written(c)' = mine[c]
    BY <1>2, <1>3, <1>5 DEF Registration!Written
  <2> QED
    BY <1>2, <1>3, <2>1 DEF Registration!ToWrite
<1>9. Registration!AtItsPlace(c)'
  BY <1>2, <1>3, <1>4, <1>8, GivesUp DEF Registration!AtItsPlace
<1>10. /\ Registration!People' = Registration!People \cup {c}
       /\ Registration!People \subseteq Calls
  BY <1>2, <1>3 DEF Registration!People
<1>11. Registration!CheckStands(c)'
  BY <1>1, <1>2, <1>4, <1>10, GivesUp DEF Registration!CheckStands
<1>12. \A d \in Calls : Registration!AtItsPlace(d)' /\ Registration!CheckStands(d)'
  <2>1. \A t \in Registration!Tables, d \in Calls \ {c} :
          <<t, d>> \in committed' => <<t, d>> \in committed
    BY <1>2
  <2>2. committed \subseteq committed' /\ form'[c] = form[c]
    BY <1>2
  <2> QED
    BY <1>2, <1>4, <1>9, <1>11, <2>1, <2>2, GivesUp, OthersStand
<1>13. /\ entries'[c] = {} /\ \A d \in Calls \ {c} : entries'[d] = entries[d]
  BY <1>2, <1>4, GivesUp
<1>14. \A d \in Calls : \A x \in entries'[d] : d # c /\ x \in entries[d] /\ x \in Registration!Indexes
  BY <1>1, <1>13 DEF Registration!TypeOK, Registration!Indexes
<1>15. \A d, e \in Calls : d # e =>
         \A x \in entries'[d] \cap entries'[e] : form'[d][x] # form'[e][x]
  BY <1>1, <1>2, <1>14 DEF Registration!IndexesUnique
<1>16. \A d \in Calls, e \in Registration!People' : \A x \in entries'[d] : form'[d][x] # form'[e][x]
  BY <1>1, <1>2, <1>3, <1>10, <1>14 DEF Registration!IndexesUnique
<1>17. \A d \in Registration!People : ~Registration!Clash(c, d) /\ ~Registration!Clash(d, c)
  BY <1>1, <1>3 DEF Registration!IndexesUnique, Registration!Clash, Registration!Indexes
<1>18. \A d, e \in Registration!People' : d # e => ~Registration!Clash(d, e)'
  <2>1. \A d, e \in Calls : Registration!Clash(d, e)' <=> Registration!Clash(d, e)
    BY <1>2 DEF Registration!Clash
  <2> QED
    BY <1>1, <1>10, <1>17, <2>1 DEF Registration!IndexesUnique
<1>19. Registration!IndexesUnique'
  BY <1>15, <1>16, <1>18 DEF Registration!IndexesUnique
<1> QED
  BY <1>7, <1>12, <1>19 DEF Registration!RegistrationInv

(* Every step keeps RegistrationInv.                                       *)
LEMMA RegistrationStep ==
  ASSUME Registration!RegistrationInv, [Registration!Next]_registration
  PROVE  Registration!RegistrationInv'
<1>1. CASE Registration!Next
  BY <1>1, ArriveKeeps, BeginTransactionKeeps, CheckExistsKeeps, RefusalsKeep, InsertsKeep,
     InsertUserKeeps, CommitKeeps DEF Registration!Next, Registration!Proceed
<1>2. CASE UNCHANGED registration
  <2>1. /\ UNCHANGED <<committed, mine, entries, gpc, form, told, wasThere, faults>>
    BY <1>2 DEF registration
  <2>2. Registration!Free' = Registration!Free
    BY <2>1 DEF Registration!Free
  <2>3. Registration!TypeOK'
    BY <2>1, <2>2 DEF Registration!RegistrationInv, Registration!TypeOK
  <2>4. \A d, e : Registration!Clash(d, e)' <=> Registration!Clash(d, e)
    BY <2>1 DEF Registration!Clash
  <2>5. Registration!People' = Registration!People
    BY <2>1 DEF Registration!People
  <2>6. Registration!IndexesUnique'
    BY <2>1, <2>4, <2>5 DEF Registration!RegistrationInv, Registration!IndexesUnique
  <2>7. ASSUME NEW d \in Calls PROVE Registration!AtItsPlace(d)' /\ Registration!CheckStands(d)'
    BY <2>1, <2>4, <2>5 DEF Registration!RegistrationInv, Registration!AtItsPlace,
       Registration!CheckStands, Registration!Written, Registration!ToWrite
  <2> QED
    BY <2>3, <2>6, <2>7 DEF Registration!RegistrationInv
<1> QED
  BY <1>1, <1>2

(* RegistrationInv holds throughout: the indexes are unique, and every     *)
(* registration has written what its place says.                           *)
THEOREM RegistrationInvariant == Registration!Spec => []Registration!RegistrationInv
<1>1. [Registration!Next]_(Registration!vars) /\ Registration!RegistrationInv => Registration!RegistrationInv'
  BY RegistrationStep DEF Registration!vars, registration
<1> QED
  BY <1>1, RegistrationInit, PTL DEF Registration!Spec

(* What a registration is told is true: "created" is all of it under keys  *)
(* nobody shares, a refusal nothing, a 500 all or nothing.                 *)
THEOREM AnswersHoldTrue == Registration!Spec => []AnswersAreTrue
<1>1. Registration!RegistrationInv => Registration!AnswersAreTrue
  <2> SUFFICES ASSUME Registration!RegistrationInv, NEW c \in Calls
               PROVE  /\ Registration!Written(c) # {} => Registration!Written(c) = Registration!ToWrite(c)
                      /\ told[c] = "created" =>
                           c \in Registration!People
                           /\ \A d \in Registration!People \ {c} : ~Registration!Clash(c, d)
                      /\ told[c] \in {"conflict", "refused", "collided"} => Registration!Written(c) = {}
                      /\ told[c] = "collided" =>
                           /\ \E d \in Registration!People \ wasThere[c] : Registration!Clash(c, d)
                           /\ \A d \in wasThere[c] : ~Registration!Clash(c, d)
    BY DEF Registration!AnswersAreTrue
  <2>1. /\ Registration!AtItsPlace(c) /\ Registration!CheckStands(c) /\ Registration!IndexesUnique
    BY DEF Registration!RegistrationInv
  <2>2. Registration!Written(c) # {} => Registration!Written(c) = Registration!ToWrite(c)
    BY <2>1 DEF Registration!AtItsPlace
  <2>3. ASSUME told[c] = "created"
        PROVE  c \in Registration!People
               /\ \A d \in Registration!People \ {c} : ~Registration!Clash(c, d)
    <3>1. "users" \in Registration!Written(c)
      BY <2>1, <2>3 DEF Registration!AtItsPlace, Registration!ToWrite, Registration!Tables
    <3>2. c \in Registration!People
      BY <3>1 DEF Registration!Written, Registration!People
    <3> QED
      BY <2>1, <3>2 DEF Registration!IndexesUnique
  <2>4. told[c] \in {"conflict", "refused", "collided"} => Registration!Written(c) = {}
    BY <2>1 DEF Registration!AtItsPlace
  <2> QED
    BY <2>1, <2>2, <2>3, <2>4 DEF Registration!CheckStands
<1> QED
  BY <1>1, RegistrationInvariant, PTL DEF AnswersAreTrue
-----------------------------------------------------------------------------
(* Listing: the last row of a page, and what a walk has given.             *)

(* Some row of a page is the last.                                         *)
LEMMA SomeLast ==
  ASSUME NEW data \in SUBSET Restaurants, data # {}, order \in {"asc", "desc"},
         \A i \in data : listed[i].key \in Int
  PROVE  \E i \in data : \A j \in data : ~Listing!Before(listed[i].key, listed[j].key)
<1> DEFINE Later(i) == {j \in data : Listing!Before(listed[i].key, listed[j].key)}
           F == {Later(i) : i \in data}
           R == StrictSubsetOrdering(data)
<1>1. IsFiniteSet(data)
  BY FS_Subset, ListingAssumption
<1>2. IsWellFoundedOn(R, SUBSET data)
  <2>1. FiniteSubsetsOf(data) = SUBSET data
    BY <1>1, FS_FiniteSubsetsOfFinite
  <2> QED
    BY <2>1, FS_StrictSubsetOrderingWellFounded
<1>3. F \subseteq SUBSET data /\ F # {}
  OBVIOUS
<1>4. \E x \in F : \A y \in F : ~(<<y, x>> \in R)
  <2> HIDE DEF F, R
  <2> QED
    BY <1>2, <1>3, WFMin
<1>5. PICK i \in data : \A j \in data : ~(<<Later(j), Later(i)>> \in R)
  BY <1>4
<1>6. ASSUME NEW j \in data, Listing!Before(listed[i].key, listed[j].key) PROVE FALSE
  <2>1. Later(j) \subseteq Later(i)
    BY <1>6 DEF Listing!Before
  <2>2. j \in Later(i) /\ j \notin Later(j)
    BY <1>6 DEF Listing!Before
  <2>3. <<Later(j), Later(i)>> \in R
    BY <2>1, <2>2 DEF StrictSubsetOrdering
  <2> QED
    BY <1>5, <2>3
<1> QED
  BY <1>6

(* The cursor of a page is the key of one of its rows, and of none before  *)
(* another.                                                                *)
LEMMA CursorIsLast ==
  ASSUME NEW data \in SUBSET Restaurants, data # {}, order \in {"asc", "desc"},
         \A i \in data : listed[i].key \in Int
  PROVE  /\ \E i \in data : Listing!CursorOf(data) = listed[i].key
         /\ \A i \in data : ~Listing!Before(Listing!CursorOf(data), listed[i].key)
<1>1. \E k \in {listed[i].key : i \in data} : \A i \in data : ~Listing!Before(k, listed[i].key)
  BY SomeLast
<1>2. /\ Listing!CursorOf(data) \in {listed[i].key : i \in data}
      /\ \A i \in data : ~Listing!Before(Listing!CursorOf(data), listed[i].key)
  BY <1>1 DEF Listing!CursorOf
<1> QED
  BY <1>2

(* A page has as many rows as restaurants.                                 *)
LEMMA PageCounts ==
  ASSUME NEW data \in SUBSET Restaurants
  PROVE  LET pairs == {<<i, listed[i].key>> : i \in data}
         IN  IsFiniteSet(pairs) /\ Cardinality(pairs) = Cardinality(data)
<1> DEFINE pairs == {<<i, listed[i].key>> : i \in data}
           f == [i \in data |-> <<i, listed[i].key>>]
<1>1. IsFiniteSet(data)
  BY FS_Subset, ListingAssumption
<1>2. f \in Injection(data, pairs) /\ f \in Surjection(data, pairs)
  BY DEF Injection, Surjection, IsInjective
<1> HIDE DEF f, pairs
<1>3. IsFiniteSet(pairs) /\ (Cardinality(pairs) = Cardinality(data) <=> f \in Injection(data, pairs))
  BY <1>1, <1>2, FS_Surjection
<1> QED
  BY <1>2, <1>3 DEF pairs

(* No page has been given.                                                 *)
LEMMA ListingInit == Listing!Init => Listing!ListingInv
<1> SUFFICES ASSUME Listing!Init PROVE Listing!ListingInv
  OBVIOUS
<1> USE DEF Listing!Init
<1>1. Listing!Cardinality({}) = 0
  BY FS_EmptySet, SameCardinality
<1>2. Listing!TypeOK
  <2>1. listed \in [Restaurants -> Listing!Rows \cup {None}]
    BY DEF Listing!Rows
  <2>2. Listing!Listed(listed) \subseteq Restaurants
    BY DEF Listing!Listed
  <2>3. Listing!Limit # None => Listing!Cardinality(page) <= MaxLimit
    BY <1>1, ListingAssumption
  <2>4. /\ asked \in Asked /\ order \in {"asc", "desc"} /\ cursor \in Keys \cup {None}
        /\ lpc \in {"asking", "done", "failed"}
        /\ page \in SUBSET (Restaurants \X Keys) /\ shown \in SUBSET (Restaurants \X Keys)
        /\ settled \in SUBSET Restaurants /\ tied \in SUBSET Keys /\ hasMore \in BOOLEAN
    BY <2>2
  <2>5. writes \in 0..MaxWrites
    BY ListingAssumption
  <2> QED
    BY <2>1, <2>3, <2>4, <2>5 DEF Listing!TypeOK
<1>3. Listing!UpToCursor
  BY DEF Listing!UpToCursor, Listing!Given
<1>4. Listing!SkipsOnlyTies
  BY DEF Listing!SkipsOnlyTies
<1> QED
  BY <1>2, <1>3, <1>4 DEF Listing!ListingInv

\* All rows are wanted, page by page or at once.
AllWanted == Listing!Limit = None \/ Listing!Limit >= 1

(* The rows of a table that the filters match.                             *)
LEMMA MatchingRows ==
  ASSUME Listing!TypeOK
  PROVE  /\ Listing!Matching \subseteq Listing!Listed(listed)
         /\ Listing!Listed(listed) \subseteq Restaurants
         /\ \A i \in Listing!Listed(listed) : listed[i].key \in Keys /\ listed[i].key \in Int
         /\ \A i \in Listing!Matching : Listing!Beyond(listed[i].key)
         /\ IsFiniteSet(Listing!Matching)
<1>1. /\ Listing!Matching \subseteq Listing!Listed(listed)
      /\ Listing!Listed(listed) \subseteq Restaurants
      /\ \A i \in Listing!Matching : Listing!Beyond(listed[i].key)
  BY DEF Listing!Matching, Listing!Listed
<1>2. ASSUME NEW i \in Listing!Listed(listed) PROVE listed[i].key \in Keys /\ listed[i].key \in Int
  <2>1. listed[i] \in Listing!Rows
    BY DEF Listing!TypeOK, Listing!Listed
  <2> QED
    BY <2>1, ListingAssumption DEF Listing!Rows
<1>3. IsFiniteSet(Listing!Matching)
  BY <1>1, FS_Subset, ListingAssumption
<1> QED
  BY <1>1, <1>2, <1>3

(* Beyond the cursor of a page is beyond the cursor it was asked with.     *)
LEMMA BeyondMoves ==
  ASSUME NEW k \in Int, cursor \in Int \cup {None}, order \in {"asc", "desc"},
         Listing!Beyond(k), NEW j \in Int
  PROVE  /\ ~Listing!Beyond(j) => ~Listing!Before(k, j)
         /\ ~Listing!Before(k, j) /\ ~Listing!Before(j, k) => j = k
BY ListingAssumption DEF Listing!Beyond, Listing!Before

(* A page has rows of the table, and not more than MaxLimit.               *)
LEMMA AnswerIsTyped ==
  ASSUME Listing!ListingInv, NEW data \in SUBSET Listing!Matching, NEW more \in BOOLEAN,
         Listing!Answer(data, more),
         Listing!Limit # None => Cardinality(data) <= MaxLimit
  PROVE  Listing!TypeOK'
<1>1. Listing!TypeOK
  BY DEF Listing!ListingInv
<1>2. /\ data \subseteq Restaurants
      /\ \A i \in Listing!Matching : listed[i].key \in Keys /\ listed[i].key \in Int
  BY <1>1, MatchingRows
<1>3. /\ page' = {<<i, listed[i].key>> : i \in data} /\ shown' = shown \cup page
      /\ hasMore' = more
      /\ lpc' \in {"asking", "done", "failed"}
      /\ UNCHANGED <<listed, asked, order, settled, writes>>
  BY DEF Listing!Answer, Listing!walk
<1>4. Cardinality(page') = Cardinality(data)
  BY <1>2, <1>3, PageCounts
<1>5. Listing!Limit' # None => Listing!Cardinality(page)' <= MaxLimit
  <2>1. Listing!Limit' = Listing!Limit
    BY <1>3 DEF Listing!Limit
  <2>2. Listing!Cardinality(page') = Cardinality(page')
    BY SameCardinality
  <2> QED
    BY <1>4, <2>1, <2>2
<1>6. /\ page' \in SUBSET (Restaurants \X Keys) /\ shown' \in SUBSET (Restaurants \X Keys)
  BY <1>1, <1>2, <1>3 DEF Listing!TypeOK
<1>7. cursor' \in Keys \cup {None}
  <2>1. ASSUME data # {} PROVE Listing!CursorOf(data) \in Keys
    BY <1>1, <1>2, <2>1, CursorIsLast DEF Listing!TypeOK
  <2> QED
    BY <2>1 DEF Listing!Answer
<1>8. tied' \in SUBSET Keys
  BY <1>1, <1>2 DEF Listing!Answer, Listing!TypeOK
<1> QED
  BY <1>1, <1>3, <1>5, <1>6, <1>7, <1>8 DEF Listing!TypeOK

(* A page keeps ListingInv if none of its rows comes after one it leaves   *)
(* out, and it leaves none out at the end of the walk.                     *)
LEMMA AnswerKeeps ==
  ASSUME Listing!ListingInv, lpc = "asking",
         NEW data \in SUBSET Listing!Matching, NEW more \in BOOLEAN,
         Listing!Answer(data, more),
         Listing!Limit # None => Cardinality(data) <= MaxLimit,
         \A i \in data, j \in Listing!Matching \ data :
           ~Listing!Before(listed[j].key, listed[i].key),
         AllWanted => IF more THEN data # {} ELSE data = Listing!Matching
  PROVE  Listing!ListingInv'
<1>1. /\ Listing!TypeOK /\ settled \subseteq Listing!Listed(listed) /\ Listing!UpToCursor
  BY DEF Listing!ListingInv
<1>2. Listing!TypeOK'
  BY AnswerIsTyped
<1>3. /\ data \subseteq Restaurants /\ Listing!Matching \subseteq Listing!Listed(listed)
      /\ \A i \in Listing!Matching : Listing!Beyond(listed[i].key)
      /\ \A i \in Listing!Listed(listed) : listed[i].key \in Keys /\ listed[i].key \in Int
  BY <1>1, MatchingRows
<1>4. /\ page' = {<<i, listed[i].key>> : i \in data} /\ shown' = shown \cup page
      /\ UNCHANGED <<listed, asked, order, settled, writes>>
      /\ Listing!Given = shown'
      /\ Listing!Given' = Listing!Given \cup page'
  BY DEF Listing!Answer, Listing!walk, Listing!Given
<1>5. settled' \subseteq Listing!Listed(listed)'
  BY <1>1, <1>4 DEF Listing!Listed
<1>6. \A g \in Listing!Given : ~Listing!Beyond(g[2])
  BY <1>1 DEF Listing!UpToCursor
<1>7. \A i \in settled :
        Listing!Beyond(listed[i].key) \/ <<i, listed[i].key>> \in Listing!Given
        \/ listed[i].key \in tied
  BY <1>1 DEF Listing!UpToCursor, Listing!Beyond
<1>8. \A i \in settled : Listing!Beyond(listed[i].key) <=> i \in Listing!Matching
  BY <1>1 DEF Listing!Matching
<1>9. tied \subseteq tied'
  BY DEF Listing!Answer
<1>10. Listing!SkipsOnlyTies'
  <2>1. page' \cap shown' = {}
    <3>1. \A g \in page' : Listing!Beyond(g[2])
      BY <1>3, <1>4
    <3> QED
      BY <1>4, <1>6, <3>1
  <2>2. ASSUME lpc' = "done", AllWanted, NEW i \in settled
        PROVE  <<i, listed[i].key>> \in shown' \cup page' \/ listed[i].key \in tied'
    <3>1. data = Listing!Matching
      BY <2>2, <1>3, CursorIsLast, <1>1, <1>2, ListingAssumption
      DEF Listing!Answer, Listing!TypeOK
    <3> QED
      BY <1>4, <1>7, <1>8, <1>9, <3>1
  <2>3. AllWanted' <=> AllWanted
    BY <1>4 DEF AllWanted, Listing!Limit
  <2> QED
    BY <1>4, <2>1, <2>2, <2>3 DEF Listing!SkipsOnlyTies, AllWanted
<1>11. ASSUME lpc' = "asking" PROVE Listing!UpToCursor'
  <2>1. /\ data # {} /\ cursor' = Listing!CursorOf(data) /\ cursor' # None
        /\ tied' = tied \cup ({listed[i].key : i \in data}
                              \cap {listed[i].key : i \in Listing!Matching \ data})
    BY <1>11 DEF Listing!Answer
  <2>2. order \in {"asc", "desc"} /\ cursor \in Int \cup {None}
    BY <1>1, ListingAssumption DEF Listing!TypeOK
  <2>3. PICK last \in data : /\ cursor' = listed[last].key
                             /\ \A i \in data : ~Listing!Before(cursor', listed[i].key)
    BY <1>3, <2>1, <2>2, CursorIsLast
  <2>4. cursor' \in Int /\ Listing!Beyond(cursor')
    BY <1>3, <2>3
  <2>5. \A j \in Int : Listing!Beyond(j)' <=> Listing!Before(cursor', j)
    BY <1>4, <2>1 DEF Listing!Beyond, Listing!Before
  <2>6. ASSUME NEW g \in Listing!Given' PROVE ~Listing!Beyond(g[2])'
    <3>1. g[2] \in Int
      BY <1>2, ListingAssumption DEF Listing!Given, Listing!TypeOK
    <3>2. CASE g \in Listing!Given
      BY <1>6, <2>2, <2>4, <2>5, <3>1, <3>2, BeyondMoves
    <3>3. CASE g \in page'
      BY <1>4, <2>3, <2>5, <3>1, <3>3
    <3> QED
      BY <1>4, <3>2, <3>3
  <2>7. ASSUME NEW i \in settled
        PROVE  Listing!Beyond(listed[i].key)' \/ <<i, listed[i].key>> \in Listing!Given'
               \/ listed[i].key \in tied'
    <3>1. listed[i].key \in Int
      BY <1>1, <1>3
    <3>2. CASE i \notin Listing!Matching
      BY <1>4, <1>7, <1>8, <1>9, <3>2
    <3>3. CASE i \in data
      BY <1>4, <3>3
    <3>4. CASE i \in Listing!Matching \ data
      <4>1. ~Listing!Before(listed[i].key, cursor')
        BY <2>3, <3>4
      <4>2. CASE Listing!Before(cursor', listed[i].key)
        BY <1>4, <2>5, <3>1, <4>2
      <4>3. CASE ~Listing!Before(cursor', listed[i].key)
        <5>1. listed[i].key = listed[last].key
          BY <2>2, <2>3, <2>4, <3>1, <4>1, <4>3, BeyondMoves
        <5> QED
          BY <2>1, <3>4, <5>1
      <4> QED
        BY <4>2, <4>3
    <3> QED
      BY <3>2, <3>3, <3>4
  <2> QED
    BY <1>4, <2>1, <2>6, <2>7 DEF Listing!UpToCursor
<1> QED
  BY <1>2, <1>5, <1>10, <1>11 DEF Listing!ListingInv

(* The pages, with a limit, without one, and without rows.                 *)
LEMMA PagesKeep ==
  ASSUME Listing!ListingInv, Listing!NextPage \/ Listing!WholeList \/ Listing!EmptyPage
  PROVE  Listing!ListingInv'
<1>1. Listing!TypeOK /\ MaxLimit \in Nat
  BY ListingAssumption DEF Listing!ListingInv
<1>2. Listing!Limit = None \/ (Listing!Limit \in Int /\ Listing!Limit <= MaxLimit)
  BY <1>1, ListingAssumption DEF Listing!TypeOK, Listing!Limit
<1>3. IsFiniteSet(Listing!Matching) /\ Cardinality(Listing!Matching) \in Nat
  BY <1>1, MatchingRows, FS_CardinalityType
<1>4. CASE Listing!NextPage
  <2>1. PICK data \in Listing!FirstRows(Listing!Limit) :
          Listing!Answer(data, Cardinality(Listing!Matching) > Listing!Limit)
    BY <1>4, SameCardinality DEF Listing!NextPage
  <2>2. /\ lpc = "asking" /\ Listing!Limit \in Int /\ Listing!Limit >= 1
    BY <1>2, <1>4 DEF Listing!NextPage
  <2>3. /\ data \in SUBSET Listing!Matching
        /\ \A i \in data, j \in Listing!Matching \ data :
             ~Listing!Before(listed[j].key, listed[i].key)
        /\ Cardinality(data) = IF Cardinality(Listing!Matching) < Listing!Limit
                               THEN Cardinality(Listing!Matching) ELSE Listing!Limit
    BY <2>1, SameCardinality DEF Listing!FirstRows
  <2>4. Cardinality(data) <= MaxLimit
    BY <1>2, <1>3, <2>2, <2>3, ListingAssumption
  <2>5. CASE Cardinality(Listing!Matching) > Listing!Limit
    <3>1. data # {}
      BY <1>3, <2>2, <2>3, <2>5, FS_EmptySet
    <3>2. Listing!Answer(data, TRUE)
      BY <2>1, <2>5, Zenon
    <3> QED
      BY <2>2, <2>3, <2>4, <3>1, <3>2, AnswerKeeps
  <2>6. CASE ~(Cardinality(Listing!Matching) > Listing!Limit)
    <3>1. Cardinality(data) = Cardinality(Listing!Matching)
      BY <1>3, <2>2, <2>3, <2>6
    <3>2. data = Listing!Matching
      BY <1>3, <2>3, <3>1, FS_Subset
    <3>3. Listing!Answer(data, FALSE)
      <4>1. (Cardinality(Listing!Matching) > Listing!Limit) = FALSE
        BY <2>6
      <4> QED
        BY <2>1, <4>1, Zenon
    <3> QED
      BY <2>2, <2>3, <2>4, <3>2, <3>3, AnswerKeeps
  <2> QED
    BY <2>5, <2>6
<1>5. CASE Listing!WholeList
  BY <1>5, AnswerKeeps DEF Listing!WholeList
<1>6. CASE Listing!EmptyPage
  <2>1. PICK more \in BOOLEAN : Listing!Answer({}, more)
    BY <1>6 DEF Listing!EmptyPage
  <2>2. /\ lpc = "asking" /\ Listing!Limit # None /\ Listing!Limit \in {0, -1}
    BY <1>6 DEF Listing!EmptyPage
  <2>3. ~AllWanted
    BY <2>2 DEF AllWanted
  <2>4. Cardinality({}) <= MaxLimit
    BY <1>1, FS_EmptySet
  <2> QED
    BY <2>1, <2>2, <2>3, <2>4, AnswerKeeps
<1> QED
  BY <1>4, <1>5, <1>6

(* The rows that did not change are where they were.                       *)
LEMMA TableKeeps ==
  ASSUME Listing!ListingInv, listed' \in [Restaurants -> Listing!Rows \cup {None}],
         settled' \subseteq settled, \A i \in settled' : listed'[i] = listed[i],
         writes' \in 0..MaxWrites,
         UNCHANGED <<asked, order, cursor, lpc, page, hasMore, shown, tied>>
  PROVE  Listing!ListingInv'
<1>1. Listing!Limit' = Listing!Limit
  BY DEF Listing!Limit
<1>2. Listing!TypeOK'
  BY <1>1 DEF Listing!ListingInv, Listing!TypeOK
<1>3. settled' \subseteq Listing!Listed(listed)'
  BY DEF Listing!ListingInv, Listing!Listed
<1>4. Listing!SkipsOnlyTies'
  BY <1>1 DEF Listing!ListingInv, Listing!SkipsOnlyTies
<1>5. lpc' = "asking" => Listing!UpToCursor'
  BY DEF Listing!ListingInv, Listing!UpToCursor, Listing!Beyond, Listing!Before, Listing!Given
<1> QED
  BY <1>2, <1>3, <1>4, <1>5 DEF Listing!ListingInv

(* A restaurant is created, renamed or suspended during the walk.          *)
LEMMA WritesKeep ==
  ASSUME Listing!ListingInv, NEW i \in Restaurants,
         Listing!CreateRestaurant(i) \/ Listing!UpdateRestaurant(i)
  PROVE  Listing!ListingInv'
<1>1. Listing!TypeOK /\ settled \subseteq Listing!Listed(listed)
  BY DEF Listing!ListingInv
<1>2. PICK r \in Listing!Rows : listed' = [listed EXCEPT ![i] = r]
  BY DEF Listing!CreateRestaurant, Listing!UpdateRestaurant
<1>3. listed' \in [Restaurants -> Listing!Rows \cup {None}]
  BY <1>1, <1>2, Zenon DEF Listing!TypeOK
<1>4. \A j \in Restaurants \ {i} : listed'[j] = listed[j]
  BY <1>1, <1>2 DEF Listing!TypeOK
<1>5. /\ writes < MaxWrites /\ writes' = writes + 1
      /\ UNCHANGED <<asked, order, cursor, lpc, page, hasMore, shown, tied>>
  BY DEF Listing!CreateRestaurant, Listing!UpdateRestaurant, Listing!walk, Listing!history
<1>6. writes' \in 0..MaxWrites
  BY <1>1, <1>5, ListingAssumption DEF Listing!TypeOK
<1>7. settled' \subseteq settled /\ i \notin settled'
  <2>1. CASE Listing!CreateRestaurant(i)
    BY <1>1, <2>1 DEF Listing!CreateRestaurant, Listing!history, Listing!Listed
  <2>2. CASE Listing!UpdateRestaurant(i)
    BY <2>2 DEF Listing!UpdateRestaurant
  <2> QED
    BY <2>1, <2>2
<1>8. \A j \in settled' : listed'[j] = listed[j]
  BY <1>1, <1>4, <1>7 DEF Listing!Listed
<1> QED
  BY <1>3, <1>5, <1>6, <1>7, <1>8, TableKeeps

(* Every step keeps ListingInv.                                            *)
LEMMA ListingStep ==
  ASSUME Listing!ListingInv, [Listing!Next]_listing
  PROVE  Listing!ListingInv'
<1>1. Listing!TypeOK
  BY DEF Listing!ListingInv
<1>2. CASE Listing!NextPage \/ Listing!WholeList \/ Listing!EmptyPage
  BY <1>2, PagesKeep
<1>3. CASE Listing!BadLimit
  <2>1. lpc' = "failed" /\ UNCHANGED <<listed, asked, order, cursor, page, hasMore, shown,
                                     settled, tied, writes>>
    BY <1>3 DEF Listing!BadLimit, Listing!walk, Listing!history
  <2>2. Listing!Limit' = Listing!Limit
    BY <2>1 DEF Listing!Limit
  <2>3. Listing!TypeOK'
    BY <1>1, <2>1, <2>2 DEF Listing!TypeOK
  <2> QED
    BY <2>1, <2>3 DEF Listing!ListingInv, Listing!SkipsOnlyTies, Listing!Listed
<1>4. CASE Listing!Write
  BY <1>4, WritesKeep DEF Listing!Write
<1>5. CASE UNCHANGED listing
  BY <1>1, <1>5, TableKeeps DEF listing, Listing!TypeOK
<1> QED
  BY <1>2, <1>3, <1>4, <1>5 DEF Listing!Next, Listing!Read

(* ListingInv holds throughout: a walk has given all up to its cursor but  *)
(* ties.                                                                   *)
THEOREM ListingInvariant == Listing!Spec => []Listing!ListingInv
<1>1. [Listing!Next]_(Listing!vars) /\ Listing!ListingInv => Listing!ListingInv'
  BY ListingStep DEF Listing!vars, Listing!walk, Listing!history, listing
<1> QED
  BY <1>1, ListingInit, PTL DEF Listing!Spec

(* No row that stays is given twice, and none skipped but those with the   *)
(* key of the last row of a page.                                          *)
THEOREM OnlyTiesSkipped == Listing!Spec => []SkipsOnlyTies
<1>1. Listing!ListingInv => SkipsOnlyTies
  BY DEF Listing!ListingInv, SkipsOnlyTies
<1> QED
  BY <1>1, ListingInvariant, PTL
-----------------------------------------------------------------------------
(* Side by side: each part, seen alone, behaves as its own module says.    *)

(* Requests implements its three instantiated parts, with their fairness.  *)
THEOREM RequestPartsBehave ==
  RequestsSpec => BranchCache!Spec /\ Registration!Spec /\ Listing!Spec
<1>1. RequestsInit => BranchCache!Init /\ Registration!Init /\ Listing!Init
  BY DEF RequestsInit
<1>2. UNCHANGED branchCache => UNCHANGED BranchCache!vars
  BY DEF branchCache, BranchCache!vars, BranchCache!readVars, BranchCache!writeVars
<1>3. UNCHANGED registration => UNCHANGED Registration!vars
  BY DEF registration, Registration!vars
<1>4. UNCHANGED listing => UNCHANGED Listing!vars
  BY DEF listing, Listing!vars, Listing!walk, Listing!history
<1>5. [RequestsNext]_<<part, vars, branchCache, registration, listing>>
        => /\ [BranchCache!Next]_(BranchCache!vars) /\ [Registration!Next]_(Registration!vars)
           /\ [Listing!Next]_(Listing!vars)
  BY <1>2, <1>3, <1>4 DEF RequestsNext
<1> QED
  BY <1>1, <1>5, PTL
  DEF RequestsSpec, Fairness, BranchCache!Spec, Registration!Spec, Listing!Spec

(* The inductive invariants of the three parts hold together.              *)
THEOREM RequestsInvariant == RequestsSpec => []RequestsInv
<1>1. BranchCache!CacheInv /\ Registration!RegistrationInv /\ Listing!ListingInv => RequestsInv
  BY DEF RequestsInv
<1> QED
  BY <1>1, RequestPartsBehave, CacheInvariant, RegistrationInvariant, ListingInvariant, PTL
=============================================================================
