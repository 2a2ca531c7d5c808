------------------------------- MODULE Listing -------------------------------
(***************************************************************************)
(* GET /restaurants, page after page, while restaurants are registered,    *)
(* renamed and suspended.  A page is one SELECT; its cursor is the value   *)
(* of the sort column in the page's last row, and that column (createdAt,  *)
(* name or status) need not tell two rows apart.  A row is represented by  *)
(* its value in the sort column and by whether the filters match it.       *)
(***************************************************************************)
EXTENDS Integers, FiniteSets

CONSTANTS Ids,         \* restaurants that may exist
          Keys,        \* values of the sort column, in their order
          Asked,       \* what clients may give as limit
          MaxLimit,    \* the cap of 1000
          MaxWrites,   \* bound: rows inserted or changed during the walk
          None         \* no row, no cursor, no limit (NaN)

VARIABLES rows,             \* the restaurants table
          asked, order,     \* the query string of the walk
          cursor, pc,       \* the client's place
          page, hasMore,    \* the last answer: rows with their keys, and meta
          shown,            \* history: rows with their keys, on earlier pages
          settled,          \* history: rows that matched and did not change
          tied,             \* history: keys at which a page cut a tie
          writes

walk    == <<asked, order>>
history == <<shown, settled, tied>>
vars    == <<rows, walk, cursor, pc, page, hasMore, history, writes>>

Rows == [key : Keys, listed : BOOLEAN]
Listed(table) == {i \in Ids : table[i] # None /\ table[i].listed}

\* Mutant: the cap is missing.
UncappedLimit == asked

\* parsePaginationQuery: Math.min(1000, Number(query.limit)).
Limit == IF asked = None THEN None ELSE IF asked < MaxLimit THEN asked ELSE MaxLimit

Init ==
  /\ rows \in [Ids -> [key : Keys, listed : {TRUE}] \cup {None}]
  /\ asked \in Asked /\ order \in {"asc", "desc"}
  /\ cursor = None /\ pc = "asking"
  /\ page = {} /\ hasMore = FALSE
  /\ shown = {} /\ settled = Listed(rows) /\ tied = {}
  /\ writes = 0

-----------------------------------------------------------------------------
Before(j, k) == IF order = "asc" THEN j < k ELSE j > k

\* WHERE column > cursor, or < for a descending walk.
Beyond(k) == cursor = None \/ Before(cursor, k)

\* applyFilters and the WHERE of applyCursorPagination.
Matching == {i \in Listed(rows) : Beyond(rows[i].key)}

\* ORDER BY and LIMIT: some n rows such that no other comes before one of them.
FirstRows(n) ==
  {data \in SUBSET Matching :
     /\ Cardinality(data) = IF Cardinality(Matching) < n THEN Cardinality(Matching) ELSE n
     /\ \A i \in data, j \in Matching \ data : ~Before(rows[j].key, rows[i].key)}

\* Mutant: the cursor is that of the row that shows that there is more.
CursorBehind(data) ==
  CHOOSE k \in {rows[i].key : i \in Matching \ data} :
    \A i \in Matching \ data : ~Before(rows[i].key, k)

\* The value of the sort column in the last row of the page.
CursorOf(data) ==
  CHOOSE k \in {rows[i].key : i \in data} : \A i \in data : ~Before(k, rows[i].key)

Answer(data, more) ==
  /\ page' = {<<i, rows[i].key>> : i \in data}
  /\ hasMore' = more
  /\ shown' = shown \cup page
  /\ cursor' = IF more /\ data # {} THEN CursorOf(data) ELSE None
  /\ pc' = IF cursor' = None THEN "done" ELSE "asking"
  /\ tied' = IF cursor' = None THEN tied
             ELSE tied \cup ({rows[i].key : i \in data} \cap {rows[i].key : i \in Matching \ data})
  /\ UNCHANGED <<rows, walk, settled, writes>>

(* findAll with limit 1 or more: limit + 1 rows are read and limit given.  *)
NextPage ==
  /\ pc = "asking" /\ Limit # None /\ Limit >= 1
  /\ \E data \in FirstRows(Limit) : Answer(data, Cardinality(Matching) > Limit)

(* Without a limit knex reads all rows, and nothing exceeds NaN.           *)
WholeList ==
  /\ pc = "asking" /\ Limit = None
  /\ Answer(Matching, FALSE)

(* limit=0 reads one row and gives none; limit=-1 reads none and finds     *)
(* that more than -1 rows are there.  Neither has a row for the cursor.    *)
EmptyPage ==
  /\ pc = "asking" /\ Limit # None /\ Limit \in {0, -1}
  /\ Answer({}, Limit = -1 \/ Matching # {})

(* Below that Postgres refuses the LIMIT.                                  *)
BadLimit ==
  /\ pc = "asking" /\ Limit # None /\ Limit < -1
  /\ pc' = "failed"
  /\ UNCHANGED <<rows, walk, cursor, page, hasMore, history, writes>>

-----------------------------------------------------------------------------
(* A restaurant is created.                                                *)
CreateRestaurant(i) ==
  /\ writes < MaxWrites /\ writes' = writes + 1
  /\ rows[i] = None
  /\ \E r \in Rows : rows' = [rows EXCEPT ![i] = r]
  /\ UNCHANGED <<walk, cursor, pc, page, hasMore, history>>

(* update changes the name, updateStatus the status: a row moves in the    *)
(* order, or in or out of the filter, or neither.                          *)
UpdateRestaurant(i) ==
  /\ writes < MaxWrites /\ writes' = writes + 1
  /\ rows[i] # None
  /\ \E r \in Rows \ {rows[i]} : rows' = [rows EXCEPT ![i] = r]
  /\ settled' = settled \ {i}
  /\ UNCHANGED <<walk, cursor, pc, page, hasMore, shown, tied>>

Read  == NextPage \/ WholeList \/ EmptyPage \/ BadLimit
Write == \E i \in Ids : CreateRestaurant(i) \/ UpdateRestaurant(i)

Next == Read \/ Write

Spec == Init /\ [][Next]_vars
-----------------------------------------------------------------------------
(* Types of the variables. *)
TypeOK ==
  /\ rows \in [Ids -> Rows \cup {None}]
  /\ asked \in Asked /\ order \in {"asc", "desc"}
  /\ cursor \in Keys \cup {None}
  /\ pc \in {"asking", "done", "failed"}
  /\ page \in SUBSET (Ids \X Keys) /\ shown \in SUBSET (Ids \X Keys)
  /\ Limit # None => Cardinality(page) <= MaxLimit
  /\ hasMore \in BOOLEAN
  /\ settled \in SUBSET Ids /\ tied \in SUBSET Keys
  /\ writes \in 0..MaxWrites

(* A restaurant that stands where it stood is never listed twice, and a    *)
(* walk that ran to its end has listed every restaurant that was there,    *)
(* matched and did not change all the time, whatever is inserted or moved  *)
(* between two pages; except for those with the same value in the sort     *)
(* column as the last row of a page: these are skipped.  No other row is.  *)
SkipsOnlyTies ==
  /\ page \cap shown = {}
  /\ pc = "done" /\ (Limit = None \/ Limit >= 1) =>
       \A i \in settled :
         <<i, rows[i].key>> \in shown \cup page \/ rows[i].key \in tied

-----------------------------------------------------------------------------
\* What the client has been given.
Given == shown \cup page

\* A walk that has not begun has given nothing; one that goes on has given
\* rows up to the cursor, and of those that did not change all but ties.
UpToCursor ==
  IF cursor = None THEN Given = {}
  ELSE /\ \A g \in Given : ~Beyond(g[2])
       /\ \A i \in settled :
            Beyond(rows[i].key) \/ <<i, rows[i].key>> \in Given \/ rows[i].key \in tied

(* The inductive invariant behind it.                                      *)
ListingInv ==
  /\ TypeOK /\ SkipsOnlyTies
  /\ settled \subseteq Listed(rows)
  /\ pc = "asking" => UpToCursor
=============================================================================
