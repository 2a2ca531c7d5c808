--------------------------- MODULE Addresses_proofs ---------------------------
(***************************************************************************)
(* The default address of a user, for any number of users, calls and rows. *)
(***************************************************************************)
EXTENDS Addresses, TLAPS

(* None is no row; a row written or cleared is a row of the same user.     *)
LEMMA RowNotNone == None \notin Rows
  BY AddressesAssumption DEF Rows

LEMMA Flagged ==
  ASSUME NEW r \in Rows, NEW b \in BOOLEAN
  PROVE  /\ [r EXCEPT !.default = b] \in Rows
         /\ [r EXCEPT !.default = b].user = r.user
         /\ [r EXCEPT !.default = b].default = b
  BY DEF Rows

LEMMA InvInit == Init => AddressesInv
<1> SUFFICES ASSUME Init PROVE AddressesInv
  OBVIOUS
<1>1. rows \in [Ids -> Rows \cup {None}] /\ (\A i \in Ids : i > 1 => rows[i] = None)
  BY DEF Init
<1>2. TypeOK
  BY <1>1 DEF Init, TypeOK, New
<1>3. \A u \in Users : Moving(u) = {}
  BY DEF Init, Moving
<1>4. \A i \in Ids : i = 1 \/ i > 1
  BY DEF Ids
<1>5. OneDefault
  BY <1>1, <1>4 DEF OneDefault, Defaults
<1>6. \A i \in Ids : i >= nextId => rows[i] = None
  BY <1>1, <1>4 DEF Init
<1>7. \A c \in Calls : target[c] \notin Ids
  BY DEF Init, New, Ids
<1> QED
  BY <1>2, <1>3, <1>5, <1>6, <1>7 DEF Init, AddressesInv, DefaultKept, Undisturbed

(* A call that starts, or that fails, writes no row and leaves the calls   *)
(* that have cleared a default as they are, except itself.                 *)
LEMMA StartKeepsInv ==
  ASSUME AddressesInv, NEW c \in Calls,
         TurnedAway(c) \/ Create(c) \/ Update(c) \/ Remove(c)
  PROVE  AddressesInv'
<1>1. /\ UNCHANGED <<rows, nextId, caller, raced, chosen>>
      /\ pc[c] = "idle"
      /\ \E to \in {"refused", "clearing", "writing", "deleting"},
            w \in {"yes", "no", "omit"}, i \in Ids \cup {New} :
           /\ pc' = [pc EXCEPT ![c] = to]
           /\ wish' = [wish EXCEPT ![c] = w]
           /\ target' = [target EXCEPT ![c] = i]
           /\ to = "clearing" => w = "yes"
           /\ to = "writing" => w # "yes"
           /\ to = "deleting" => i \in Ids
           /\ i \in Ids /\ i # target[c] => i \in Owned(caller[c])
  <2>0. /\ pc \in [Calls -> {"idle", "clearing", "writing", "deleting",
                             "done", "refused", "failed"}]
        /\ wish[c] \in {"yes", "no", "omit"} /\ wish = [wish EXCEPT ![c] = wish[c]]
        /\ target[c] \in Ids \cup {New} /\ target = [target EXCEPT ![c] = target[c]]
    BY DEF AddressesInv, TypeOK
  <2>1. CASE TurnedAway(c)
    BY <2>0, <2>1 DEF TurnedAway, Start
  <2>2. CASE Create(c)
    BY <2>0, <2>2 DEF Create, Start
  <2>3. CASE Update(c)
    BY <2>0, <2>3 DEF Update, Start, Owned
  <2>4. CASE Remove(c)
    BY <2>0, <2>4 DEF Remove, Start, Owned
  <2> QED
    BY <2>1, <2>2, <2>3, <2>4
<1>2. TypeOK'
  BY <1>1 DEF AddressesInv, TypeOK
<1>3. \A d \in Calls :
        /\ d # c => pc'[d] = pc[d] /\ wish'[d] = wish[d] /\ target'[d] = target[d]
        /\ pc'[d] = "writing" /\ wish'[d] = "yes" <=> pc[d] = "writing" /\ wish[d] = "yes"
  BY <1>1 DEF AddressesInv, TypeOK
<1>4. \A u \in Users : Moving(u)' = Moving(u) /\ Defaults(u)' = Defaults(u)
  BY <1>1, <1>3 DEF Moving, Defaults
<1>5. \A d \in Calls :
        target'[d] \in Ids =>
          /\ target'[d] < nextId
          /\ rows[target'[d]] # None => rows[target'[d]].user = caller[d]
  <2>1. CASE target'[c] \notin Ids \/ target'[c] = target[c]
    BY <1>3, <2>1 DEF AddressesInv, Undisturbed
  <2>2. CASE target'[c] \in Owned(caller[c])
    <3>1. target'[c] \in Ids /\ rows[target'[c]] # None
          /\ rows[target'[c]].user = caller[c]
      BY <2>2 DEF Owned
    <3>2. target'[c] < nextId
      BY <3>1 DEF AddressesInv, TypeOK, Undisturbed, Ids
    <3> QED
      BY <1>3, <3>1, <3>2 DEF AddressesInv, Undisturbed
  <2> QED
    BY <1>1, <2>1, <2>2 DEF AddressesInv, TypeOK
<1>6. \A d \in Calls : /\ pc'[d] = "deleting" => target'[d] \in Ids
                       /\ pc'[d] = "clearing" => wish'[d] = "yes"
  BY <1>1, <1>3 DEF AddressesInv, TypeOK, Undisturbed
<1>7. Undisturbed'
  BY <1>1, <1>4, <1>5, <1>6 DEF AddressesInv, Undisturbed
<1> QED
  BY <1>1, <1>2, <1>4, <1>7 DEF AddressesInv, TypeOK, OneDefault, DefaultKept

LEMMA FailKeepsInv ==
  ASSUME AddressesInv, NEW c \in Calls, UpdateMissing(c) \/ BreakOff(c)
  PROVE  AddressesInv'
<1>1. /\ UNCHANGED <<rows, nextId, caller, target, wish, raced>>
      /\ pc' = [pc EXCEPT ![c] = "failed"]
      /\ chosen' \subseteq chosen
      /\ c \in Moving(caller[c]) => caller[c] \notin chosen'
  BY DEF UpdateMissing, BreakOff, Moving
<1>2. TypeOK'
  BY <1>1 DEF AddressesInv, TypeOK
<1>3. \A d \in Calls : (d # c => pc'[d] = pc[d]) /\ pc'[c] = "failed"
  BY <1>1 DEF AddressesInv, TypeOK
<1>4. \A u \in Users : /\ Moving(u)' \subseteq Moving(u) /\ Defaults(u)' = Defaults(u)
                       /\ u \in chosen' => Moving(u)' = Moving(u)
  BY <1>1, <1>3 DEF Moving, Defaults
<1>5. Undisturbed'
  BY <1>1, <1>3, <1>4 DEF AddressesInv, Undisturbed
<1>6. OneDefault'
  BY <1>1, <1>4 DEF AddressesInv, OneDefault
<1>7. DefaultKept'
  BY <1>1, <1>2, <1>4 DEF AddressesInv, DefaultKept, TypeOK
<1> QED
  BY <1>2, <1>5, <1>6, <1>7 DEF AddressesInv

(* Clearing leaves the caller no default, whatever a race had left.        *)
LEMMA ClearKeepsInv ==
  ASSUME AddressesInv, NEW c \in Calls, ClearDefault(c)
  PROVE  AddressesInv'
<1> DEFINE me == caller[c]
<1>1. /\ UNCHANGED <<nextId, caller, target, wish, chosen>>
      /\ pc[c] = "clearing" /\ pc' = [pc EXCEPT ![c] = "writing"]
      /\ raced' = raced \ {me}
      /\ me \in Users /\ wish[c] = "yes"
  BY DEF ClearDefault, AddressesInv, TypeOK, Undisturbed
<1>2. \A i \in Ids :
        /\ rows[i] \in Rows \cup {None} /\ rows'[i] \in Rows \cup {None}
        /\ rows[i] = None <=> rows'[i] = None
        /\ rows[i] # None => /\ rows'[i].user = rows[i].user
                             /\ rows'[i].default = (rows[i].default /\ rows[i].user # me)
  <2> SUFFICES ASSUME NEW i \in Ids
               PROVE  /\ rows[i] \in Rows \cup {None} /\ rows'[i] \in Rows \cup {None}
                      /\ rows[i] = None <=> rows'[i] = None
                      /\ rows[i] # None =>
                           /\ rows'[i].user = rows[i].user
                           /\ rows'[i].default = (rows[i].default /\ rows[i].user # me)
    OBVIOUS
  <2>1. /\ rows[i] \in Rows \cup {None}
        /\ rows'[i] = IF i \in Defaults(me)
                      THEN [rows[i] EXCEPT !.default = FALSE] ELSE rows[i]
    BY DEF ClearDefault, AddressesInv, TypeOK
  <2>2. CASE i \in Defaults(me)
    <3>1. rows[i] \in Rows /\ rows[i].user = me
      BY <2>1, <2>2 DEF Defaults
    <3>2. rows'[i] \in Rows /\ rows'[i].user = rows[i].user /\ rows'[i].default = FALSE
      BY <2>1, <2>2, <3>1, Flagged
    <3> QED
      BY <3>1, <3>2, RowNotNone
  <2>3. CASE i \notin Defaults(me)
    <3>1. rows'[i] = rows[i]
      BY <2>1, <2>3
    <3>2. rows[i] # None => rows[i].default \in BOOLEAN
      BY <2>1 DEF Rows
    <3>3. rows[i] # None => ~ (rows[i].user = me /\ rows[i].default)
      BY <2>3 DEF Defaults
    <3> QED
      BY <2>1, <3>1, <3>2, <3>3
  <2> QED
    BY <2>2, <2>3
<1>3. \A u \in Users : Defaults(u)' = IF u = me THEN {} ELSE Defaults(u)
  <2> SUFFICES ASSUME NEW u \in Users, NEW i \in Ids
               PROVE  i \in Defaults(u)' <=> u # me /\ i \in Defaults(u)
    BY DEF Defaults
  <2> QED
    BY <1>2 DEF Defaults
<1>4. \A d \in Calls : (d # c => pc'[d] = pc[d]) /\ pc'[c] = "writing"
  BY <1>1 DEF AddressesInv, TypeOK
<1>5. \A u \in Users : /\ u # me => Moving(u)' = Moving(u)
                       /\ c \in Moving(me)'
  BY <1>1, <1>4 DEF Moving
<1>6. TypeOK'
  <2>1. rows' \in [Ids -> Rows \cup {None}]
    BY <1>2 DEF ClearDefault
  <2> QED
    BY <1>1, <2>1 DEF AddressesInv, TypeOK
<1>7. OneDefault'
  BY <1>1, <1>3 DEF AddressesInv, OneDefault
<1>8. DefaultKept'
  BY <1>1, <1>3, <1>5, <1>6 DEF AddressesInv, DefaultKept, TypeOK
<1>9. Undisturbed'
  <2>1. \A u \in Users : u \notin raced' /\ Moving(u)' # {} => Defaults(u)' = {}
    BY <1>1, <1>3, <1>5 DEF AddressesInv, Undisturbed
  <2> QED
    BY <1>1, <1>2, <1>4, <2>1 DEF AddressesInv, Undisturbed
<1> QED
  BY <1>6, <1>7, <1>8, <1>9 DEF AddressesInv

(* One row of the caller's is written, by an INSERT or an UPDATE: a call   *)
(* that chose it as the default finds none, unless another call is between *)
(* its two statements.                                                     *)
LEMMA WriteKeepsInv ==
  ASSUME AddressesInv, NEW c \in Calls, NEW i \in Ids, NEW r \in Rows,
         UNCHANGED <<caller, target, wish>>,
         pc[c] = "writing", pc' = [pc EXCEPT ![c] = "done"],
         rows' = [rows EXCEPT ![i] = r],
         nextId' \in Nat, nextId' >= nextId, i < nextId',
         r.user = caller[c],
         IF rows[i] = None THEN i = nextId ELSE rows[i].user = caller[c],
         wish[c] = "yes" => r.default /\ Noted(c),
         wish[c] # "yes" =>
           /\ r.default => i \in Defaults(caller[c])
           /\ raced' = raced
           /\ chosen' \subseteq chosen
           /\ i \in Defaults(caller[c]) /\ ~r.default => caller[c] \notin chosen'
           /\ chosen \subseteq chosen' \cup {caller[c]}
  PROVE  AddressesInv'
<1> DEFINE me == caller[c]
<1>1. me \in Users /\ r # None /\ r.default \in BOOLEAN
  BY RowNotNone DEF AddressesInv, TypeOK, Rows
<1>2. \A j \in Ids : (j # i => rows'[j] = rows[j]) /\ rows'[i] = r
  BY DEF AddressesInv, TypeOK
<1>3. \A u \in Users : Defaults(u)' = IF u # me THEN Defaults(u)
                                      ELSE IF r.default THEN Defaults(u) \cup {i}
                                      ELSE Defaults(u) \ {i}
  <2>1. \A u \in Users : u # me => i \notin Defaults(u)
    BY DEF Defaults
  <2>2. \A u \in Users : \A j \in Ids :
          j \in Defaults(u)' <=> IF j = i THEN u = me /\ r.default ELSE j \in Defaults(u)
    BY <1>1, <1>2 DEF Defaults
  <2>3. \A u \in Users : Defaults(u) \subseteq Ids /\ Defaults(u)' \subseteq Ids
    BY DEF Defaults
  <2> QED
    BY <2>1, <2>2, <2>3
<1>4. \A d \in Calls : (d # c => pc'[d] = pc[d]) /\ pc'[c] = "done"
  BY DEF AddressesInv, TypeOK
<1>5. \A u \in Users : Moving(u)' = Moving(u) \ {c}
  BY <1>4 DEF Moving
<1>6. /\ wish[c] = "yes" => c \in Moving(me)
      /\ wish[c] # "yes" => \A u \in Users : c \notin Moving(u)
      /\ \A u \in Users : u # me => c \notin Moving(u)
  BY DEF Moving
<1>7. raced \subseteq raced' /\ raced' \subseteq raced \cup {me}
      /\ chosen' \subseteq chosen \cup {me}
  BY DEF Noted
<1>8. me \notin raced' /\ wish[c] = "yes" => Moving(me)' = {} /\ Defaults(me) = {}
  <2> SUFFICES ASSUME me \notin raced', wish[c] = "yes"
               PROVE  Moving(me)' = {} /\ Defaults(me) = {}
    OBVIOUS
  <2>1. me \notin raced /\ Moving(me) \ {c} = {}
    BY DEF Noted
  <2> QED
    BY <1>1, <1>5, <1>6, <2>1 DEF AddressesInv, Undisturbed
<1>9. TypeOK'
  <2>1. rows' \in [Ids -> Rows \cup {None}]
    BY DEF AddressesInv, TypeOK
  <2>2. raced' \in SUBSET Users /\ chosen' \in SUBSET Users
    BY <1>1, <1>7 DEF AddressesInv, TypeOK
  <2> QED
    BY <2>1, <2>2 DEF AddressesInv, TypeOK
<1>10. OneDefault'
  <2> SUFFICES ASSUME NEW u \in Users, u \notin raced',
                      NEW j \in Defaults(u)', NEW k \in Defaults(u)'
               PROVE  j = k
    BY DEF OneDefault
  <2>1. \A x, y \in Defaults(u) : x = y
    BY <1>7 DEF AddressesInv, OneDefault
  <2>2. CASE u # me
    BY <1>3, <2>1, <2>2
  <2>3. CASE u = me /\ wish[c] = "yes"
    BY <1>3, <1>8, <2>3
  <2>4. CASE u = me /\ wish[c] # "yes"
    BY <1>3, <2>1, <2>4
  <2> QED
    BY <2>2, <2>3, <2>4
<1>11. DefaultKept'
  <2> SUFFICES ASSUME NEW u \in chosen', Moving(u)' = {}
               PROVE  Defaults(u)' # {}
    BY DEF DefaultKept
  <2>1. u \in Users
    BY <1>9 DEF TypeOK
  <2>2. u \in chosen /\ Moving(u) = {} => Defaults(u) # {}
    BY DEF AddressesInv, DefaultKept
  <2>3. CASE u # me
    BY <1>3, <1>5, <1>6, <1>7, <2>1, <2>2, <2>3
  <2>4. CASE u = me /\ wish[c] = "yes"
    BY <1>3, <2>1, <2>4
  <2>5. CASE u = me /\ wish[c] # "yes"
    BY <1>3, <1>5, <1>6, <2>1, <2>2, <2>5
  <2> QED
    BY <2>3, <2>4, <2>5
<1>12. Undisturbed'
  <2>1. ASSUME NEW u \in Users, u \notin raced', Moving(u)' # {}
        PROVE  Defaults(u)' = {}
    <3>1. Moving(u) # {} /\ u \notin raced /\ Defaults(u) = {}
      BY <1>5, <1>7, <2>1 DEF AddressesInv, Undisturbed
    <3>2. CASE u # me
      BY <1>3, <2>1, <3>1, <3>2
    <3>3. CASE u = me /\ wish[c] = "yes"
      BY <1>8, <2>1, <3>3
    <3>4. CASE u = me /\ wish[c] # "yes"
      BY <1>3, <2>1, <3>1, <3>4
    <3> QED
      BY <3>2, <3>3, <3>4
  <2>2. ASSUME NEW j \in Ids, j >= nextId' PROVE rows'[j] = None
    <3>1. j >= nextId /\ j # i
      BY <2>2 DEF AddressesInv, TypeOK, Ids
    <3> QED
      BY <1>2, <3>1 DEF AddressesInv, Undisturbed
  <2>3. ASSUME NEW d \in Calls, target[d] \in Ids
        PROVE  /\ target[d] < nextId'
               /\ rows'[target[d]] # None => rows'[target[d]].user = caller[d]
    <3>1. target[d] < nextId /\ (rows[target[d]] # None => rows[target[d]].user = caller[d])
      BY <2>3 DEF AddressesInv, Undisturbed
    <3>2. CASE target[d] # i
      BY <1>2, <2>3, <3>1, <3>2 DEF AddressesInv, TypeOK, Ids
    <3>3. CASE target[d] = i
      <4>1. target[d] < nextId' /\ rows[i] # None
        BY <3>1, <3>3 DEF AddressesInv, TypeOK, Ids
      <4>2. rows'[i].user = caller[d]
        BY <1>2, <3>1, <3>3, <4>1
      <4> QED
        BY <3>3, <4>1, <4>2
    <3> QED
      BY <3>2, <3>3
  <2>4. ASSUME NEW d \in Calls
        PROVE  /\ pc'[d] = "deleting" => target[d] \in Ids
               /\ pc'[d] = "clearing" => wish[d] = "yes"
    BY <1>4 DEF AddressesInv, Undisturbed
  <2> QED
    BY <2>1, <2>2, <2>3, <2>4 DEF Undisturbed
<1> QED
  BY <1>9, <1>10, <1>11, <1>12 DEF AddressesInv

LEMMA InsertKeepsInv ==
  ASSUME AddressesInv, NEW c \in Calls, InsertAddress(c)
  PROVE  AddressesInv'
<1> DEFINE r == [user |-> caller[c], default |-> wish[c] = "yes"]
<1>1. /\ nextId \in Ids /\ nextId' = nextId + 1
      /\ pc[c] = "writing" /\ pc' = [pc EXCEPT ![c] = "done"]
      /\ rows' = [rows EXCEPT ![nextId] = r]
      /\ UNCHANGED <<caller, target, wish>>
  BY DEF InsertAddress, FreshId
<1>2. r \in Rows /\ r.user = caller[c] /\ r.default = (wish[c] = "yes")
  BY DEF AddressesInv, TypeOK, Rows
<1>3. nextId' \in Nat /\ nextId' >= nextId /\ nextId < nextId' /\ rows[nextId] = None
  BY <1>1 DEF AddressesInv, TypeOK, Undisturbed, Ids
<1>4. nextId \notin Defaults(caller[c])
  BY <1>3 DEF Defaults
<1>5. IF wish[c] = "yes" THEN Noted(c) ELSE UNCHANGED <<raced, chosen>>
  BY DEF InsertAddress
<1> HIDE DEF r
<1> QED
  BY <1>1, <1>2, <1>3, <1>4, <1>5, WriteKeepsInv

(* The row of an update is its caller's still, although only the SELECT    *)
(* compared the owner.                                                     *)
LEMMA UpdateKeepsInv ==
  ASSUME AddressesInv, NEW c \in Calls, UpdateAddress(c)
  PROVE  AddressesInv'
<1> DEFINE i == target[c]
           r == [rows[i] EXCEPT !.default = NewDefault(rows[i].default, wish[c])]
<1>1. /\ i \in Ids /\ rows[i] # None
      /\ pc[c] = "writing" /\ pc' = [pc EXCEPT ![c] = "done"]
      /\ UNCHANGED <<nextId, caller, target, wish>>
  BY DEF UpdateAddress
<1>2. rows' = [rows EXCEPT ![i] = r]
  BY DEF UpdateAddress
<1>3. rows[i] \in Rows /\ rows[i].default \in BOOLEAN /\ rows[i].user = caller[c]
  BY <1>1 DEF AddressesInv, TypeOK, Rows, Undisturbed
<1>4. NewDefault(rows[i].default, wish[c]) \in BOOLEAN
  BY <1>3 DEF NewDefault
<1>5. /\ r \in Rows /\ r.user = caller[c]
      /\ r.default = NewDefault(rows[i].default, wish[c])
  BY <1>3, <1>4, Flagged
<1>6. nextId' \in Nat /\ nextId' >= nextId /\ i < nextId'
  BY <1>1 DEF AddressesInv, TypeOK, Undisturbed, Ids
<1>7. i \in Defaults(caller[c]) <=> rows[i].default
  BY <1>1, <1>3 DEF Defaults
<1>8. wish[c] = "yes" => r.default /\ Noted(c)
  BY <1>5 DEF UpdateAddress, NewDefault
<1>9. wish[c] # "yes" =>
        /\ r.default => i \in Defaults(caller[c])
        /\ raced' = raced
        /\ chosen' \subseteq chosen
        /\ i \in Defaults(caller[c]) /\ ~r.default => caller[c] \notin chosen'
        /\ chosen \subseteq chosen' \cup {caller[c]}
  <2> SUFFICES ASSUME wish[c] # "yes"
               PROVE  /\ r.default => rows[i].default
                      /\ raced' = raced
                      /\ chosen' \subseteq chosen
                      /\ rows[i].default /\ ~r.default => caller[c] \notin chosen'
                      /\ chosen \subseteq chosen' \cup {caller[c]}
    BY <1>7
  <2>1. CASE wish[c] = "no" /\ rows[i].default
    BY <1>5, <2>1 DEF UpdateAddress, NewDefault
  <2>2. CASE ~ (wish[c] = "no" /\ rows[i].default)
    <3>1. UNCHANGED <<raced, chosen>>
      BY <2>2 DEF UpdateAddress
    <3>2. wish[c] \in {"no", "omit"}
      BY DEF AddressesInv, TypeOK
    <3> QED
      BY <1>3, <1>5, <2>2, <3>1, <3>2 DEF NewDefault
  <2> QED
    BY <2>1, <2>2
<1> HIDE DEF i, r
<1> QED
  BY <1>1, <1>2, <1>3, <1>5, <1>6, <1>8, <1>9, WriteKeepsInv

LEMMA DeleteKeepsInv ==
  ASSUME AddressesInv, NEW c \in Calls, DeleteAddress(c)
  PROVE  AddressesInv'
<1> DEFINE me == caller[c]
<1>1. /\ UNCHANGED <<nextId, caller, target, wish, raced>>
      /\ target[c] \in Ids
      /\ rows' = [rows EXCEPT ![target[c]] = None]
      /\ chosen' = IF target[c] \in Defaults(me) THEN chosen \ {me} ELSE chosen
      /\ pc[c] = "deleting" /\ pc' = [pc EXCEPT ![c] = "done"]
  BY DEF DeleteAddress, AddressesInv, Undisturbed
<1>2. TypeOK'
  BY <1>1 DEF AddressesInv, TypeOK
<1>3. \A j \in Ids : (j # target[c] => rows'[j] = rows[j]) /\ rows'[target[c]] = None
  BY <1>1 DEF AddressesInv, TypeOK
<1>4. \A d \in Calls : (d # c => pc'[d] = pc[d]) /\ pc'[c] = "done"
  BY <1>1 DEF AddressesInv, TypeOK
<1>5. \A u \in Users : /\ Moving(u)' = Moving(u)
                       /\ Defaults(u)' = Defaults(u) \ {target[c]}
                       /\ u # me => Defaults(u)' = Defaults(u)
  <2>1. \A u \in Users : u # me => target[c] \notin Defaults(u)
    BY <1>1 DEF AddressesInv, Undisturbed, Defaults
  <2>2. \A u \in Users : Defaults(u)' = Defaults(u) \ {target[c]}
    BY <1>1, <1>3 DEF Defaults
  <2> QED
    BY <1>1, <1>4, <2>1, <2>2 DEF Moving
<1>6. OneDefault'
  BY <1>1, <1>5 DEF AddressesInv, OneDefault
<1>7. DefaultKept'
  BY <1>1, <1>2, <1>5 DEF AddressesInv, DefaultKept, TypeOK
<1>8. Undisturbed'
  <2>1. \A u \in Users : u \notin raced' /\ Moving(u)' # {} => Defaults(u)' = {}
    BY <1>1, <1>5 DEF AddressesInv, Undisturbed
  <2>2. \A j \in Ids : rows'[j] # None => rows'[j] = rows[j]
    BY <1>3
  <2> QED
    BY <1>1, <1>4, <2>1, <2>2 DEF AddressesInv, Undisturbed
<1> QED
  BY <1>2, <1>6, <1>7, <1>8 DEF AddressesInv

LEMMA InvStep == AddressesInv /\ [Next]_vars => AddressesInv'
<1> SUFFICES ASSUME AddressesInv, [Next]_vars PROVE AddressesInv'
  OBVIOUS
<1>1. ASSUME NEW c \in Calls, Handle(c) PROVE AddressesInv'
  BY <1>1, StartKeepsInv, FailKeepsInv, ClearKeepsInv, InsertKeepsInv, UpdateKeepsInv,
     DeleteKeepsInv DEF Handle
<1>2. CASE UNCHANGED vars
  BY <1>2 DEF vars, callVars, AddressesInv, TypeOK, OneDefault, DefaultKept, Undisturbed,
     Defaults, Moving
<1> QED
  BY <1>1, <1>2 DEF Next

(* The inductive invariant of the table and of the calls in flight.        *)
THEOREM AddressesInvariant == Spec => []AddressesInv
  BY InvInit, InvStep, PTL DEF Spec

(* Two defaults take two calls of the same user whose statements interleave*)
(* and a later choice repairs them.                                        *)
THEOREM AtMostOneDefault == Spec => []OneDefault
<1>1. AddressesInv => OneDefault
  BY DEF AddressesInv
<1> QED
  BY <1>1, AddressesInvariant, PTL

(* No interleaving writes, clears or deletes somebody else's address.      *)
THEOREM OwnRowsOnly == Spec => OthersUntouched
<1> DEFINE Own == \A i \in Ids : rows[i] # None /\ rows'[i] # rows[i] =>
                    \E c \in Calls : pc'[c] # pc[c] /\ caller[c] = rows[i].user
<1>1. AddressesInv /\ [Next]_vars => [Own]_vars
  <2> SUFFICES ASSUME AddressesInv, NEW c \in Calls, Handle(c),
                      NEW i \in Ids, rows[i] # None, rows'[i] # rows[i]
               PROVE  pc'[c] # pc[c] /\ caller[c] = rows[i].user
    BY DEF Next
  <2>1. CASE ClearDefault(c)
    <3>1. i \in Defaults(caller[c])
      BY <2>1 DEF ClearDefault, AddressesInv, TypeOK
    <3>2. pc'[c] = "writing" /\ pc[c] = "clearing"
      BY <2>1 DEF ClearDefault, AddressesInv, TypeOK
    <3> QED
      BY <3>1, <3>2 DEF Defaults
  <2>2. CASE InsertAddress(c)
    <3>1. rows[nextId] = None
      BY <2>2 DEF InsertAddress, FreshId, AddressesInv, TypeOK, Undisturbed
    <3> QED
      BY <2>2, <3>1 DEF InsertAddress, FreshId, AddressesInv, TypeOK
  <2>3. CASE UpdateAddress(c) \/ DeleteAddress(c)
    <3>1. i = target[c] /\ pc'[c] = "done" /\ pc[c] # "done"
      BY <2>3 DEF UpdateAddress, DeleteAddress, AddressesInv, TypeOK
    <3> QED
      BY <3>1 DEF AddressesInv, Undisturbed
  <2> QED
    BY <2>1, <2>2, <2>3 DEF Handle, TurnedAway, Create, Update, Remove, UpdateMissing,
       BreakOff
<1> QED
  BY <1>1, AddressesInvariant, PTL DEF Spec, OthersUntouched
=============================================================================
