------------------------------ MODULE Addresses ------------------------------
(***************************************************************************)
(* The customer_addresses table under concurrent calls.  A user has at     *)
(* most one default address by the code alone: no constraint says so, and  *)
(* the old default is cleared and the new one written by two statements    *)
(* that share no transaction.                                              *)
(***************************************************************************)
EXTENDS Integers

CONSTANTS Users,
          Calls,      \* calls, each made once
          MaxRows,    \* bound: rows ever inserted
          None        \* no row

ASSUME AddressesAssumption ==
  /\ MaxRows \in Nat
  /\ None \notin [user : Users, default : BOOLEAN]

VARIABLES rows, nextId,            \* the table and its SERIAL
          pc, caller, target, wish, \* calls: whose, on which row, isDefault
          raced,                   \* history: users whose default was written
                                   \* while another call had cleared it
          chosen                   \* history: users whose default must exist

callVars == <<pc, caller, target, wish>>
vars     == <<rows, nextId, callVars, raced, chosen>>

Ids  == 1..MaxRows
Rows == [user : Users, default : BOOLEAN]
New  == 0                           \* the target of a create

Defaults(u) == {i \in Ids : rows[i] # None /\ rows[i].user = u /\ rows[i].default}
Owned(u)    == {i \in Ids : rows[i] # None /\ rows[i].user = u}

\* The calls that have cleared u's default and not written the new one.
Moving(u) == {c \in Calls : /\ pc[c] = "writing" /\ wish[c] = "yes"
                            /\ caller[c] = u}

Init ==
  /\ rows \in {r \in [Ids -> Rows \cup {None}] :
                 /\ \A i \in Ids : i > 1 => r[i] = None
                 /\ \A i \in Ids : r[i] # None => r[i].default}
  /\ nextId = IF \E i \in Ids : rows[i] # None THEN 2 ELSE 1
  /\ pc = [c \in Calls |-> "idle"]
  /\ caller \in [Calls -> Users]
  /\ target = [c \in Calls |-> New]
  /\ wish = [c \in Calls |-> "omit"]
  /\ raced = {}
  /\ chosen = {u \in Users : Defaults(u) # {}}

Start(c, to) == pc[c] = "idle" /\ pc' = [pc EXCEPT ![c] = to]

(* The DTO is not satisfied, or the address is missing or another user's.  *)
TurnedAway(c) ==
  /\ Start(c, "refused")
  /\ UNCHANGED <<rows, nextId, caller, target, wish, raced, chosen>>

(* create: isDefault is mandatory.                                         *)
Create(c) ==
  \E w \in {"yes", "no"} :
    /\ Start(c, IF w = "yes" THEN "clearing" ELSE "writing")
    /\ wish' = [wish EXCEPT ![c] = w]
    /\ UNCHANGED <<rows, nextId, caller, target, raced, chosen>>

(* update: isDefault may be omitted.  The owner is compared here only.     *)
Update(c) ==
  \E i \in Owned(caller[c]), w \in {"yes", "no", "omit"} :
    /\ Start(c, IF w = "yes" THEN "clearing" ELSE "writing")
    /\ target' = [target EXCEPT ![c] = i]
    /\ wish' = [wish EXCEPT ![c] = w]
    /\ UNCHANGED <<rows, nextId, caller, raced, chosen>>

(* remove                                                                  *)
Remove(c) ==
  \E i \in Owned(caller[c]) :
    /\ Start(c, "deleting")
    /\ target' = [target EXCEPT ![c] = i]
    /\ UNCHANGED <<rows, nextId, caller, wish, raced, chosen>>

-----------------------------------------------------------------------------
\* Mutant: the clearing forgets that there may be a default at all.
ClearNothing(c) ==
  /\ pc[c] = "clearing"
  /\ pc' = [pc EXCEPT ![c] = "writing"]
  /\ raced' = raced \ {caller[c]}
  /\ UNCHANGED <<rows, nextId, caller, target, wish, chosen>>

\* Mutant: the WHERE on the user is missing.
ClearEverybody(c) ==
  /\ pc[c] = "clearing"
  /\ pc' = [pc EXCEPT ![c] = "writing"]
  /\ rows' = [i \in Ids |-> IF rows[i] # None
                            THEN [rows[i] EXCEPT !.default = FALSE] ELSE rows[i]]
  /\ raced' = raced \ {caller[c]}
  /\ UNCHANGED <<nextId, caller, target, wish, chosen>>

(* clearDefaultByUserId                                                    *)
ClearDefault(c) ==
  /\ pc[c] = "clearing"
  /\ pc' = [pc EXCEPT ![c] = "writing"]
  /\ rows' = [i \in Ids |-> IF i \in Defaults(caller[c])
                            THEN [rows[i] EXCEPT !.default = FALSE] ELSE rows[i]]
  /\ raced' = raced \ {caller[c]}
  /\ UNCHANGED <<nextId, caller, target, wish, chosen>>

\* What a default written by c means to the two histories.
Noted(c) ==
  /\ raced'  = IF Moving(caller[c]) \ {c} = {} THEN raced ELSE raced \cup {caller[c]}
  /\ chosen' = chosen \cup {caller[c]}

\* Mutant: the smallest id that is free, as if ids were given out again.
ReusedId == CHOOSE i \in 1..(MaxRows + 1) :
              /\ i \in Ids => rows[i] = None
              /\ \A j \in 1..(i - 1) : rows[j] # None

\* The next value of the sequence.
FreshId == nextId

InsertAddress(c) ==
  /\ pc[c] = "writing" /\ target[c] = New /\ FreshId \in Ids
  /\ pc' = [pc EXCEPT ![c] = "done"]
  /\ rows' = [rows EXCEPT ![FreshId] = [user |-> caller[c], default |-> wish[c] = "yes"]]
  /\ nextId' = nextId + 1
  /\ IF wish[c] = "yes" THEN Noted(c) ELSE UNCHANGED <<raced, chosen>>
  /\ UNCHANGED <<caller, target, wish>>

\* The column after the UPDATE: knex leaves an undefined value out.
NewDefault(old, w) == IF w = "omit" THEN old ELSE w = "yes"

(* updateAddress, on a row that may be gone: then nothing is written and   *)
(* toEntity(undefined) throws.                                             *)
UpdateAddress(c) ==
  LET i == target[c] IN
  /\ pc[c] = "writing" /\ i \in Ids /\ rows[i] # None
  /\ pc' = [pc EXCEPT ![c] = "done"]
  /\ rows' = [rows EXCEPT ![i].default = NewDefault(rows[i].default, wish[c])]
  /\ CASE wish[c] = "yes" -> Noted(c)
       [] wish[c] = "no" /\ rows[i].default ->
            UNCHANGED raced /\ chosen' = chosen \ {caller[c]}
       [] OTHER -> UNCHANGED <<raced, chosen>>
  /\ UNCHANGED <<nextId, caller, target, wish>>

UpdateMissing(c) ==
  /\ pc[c] = "writing" /\ target[c] \in Ids /\ rows[target[c]] = None
  /\ pc' = [pc EXCEPT ![c] = "failed"]
  /\ chosen' = IF wish[c] = "yes" THEN chosen \ {caller[c]} ELSE chosen
  /\ UNCHANGED <<rows, nextId, caller, target, wish, raced>>

(* deleteAddress                                                           *)
DeleteAddress(c) ==
  /\ pc[c] = "deleting"
  /\ pc' = [pc EXCEPT ![c] = "done"]
  /\ rows' = [rows EXCEPT ![target[c]] = None]
  /\ chosen' = IF target[c] \in Defaults(caller[c]) THEN chosen \ {caller[c]} ELSE chosen
  /\ UNCHANGED <<nextId, caller, target, wish, raced>>

(* The process dies or the next statement fails: the DTOs let a coordinate *)
(* through that DECIMAL(10,7) refuses.                                     *)
BreakOff(c) ==
  /\ pc[c] \in {"clearing", "writing", "deleting"}
  /\ pc' = [pc EXCEPT ![c] = "failed"]
  /\ chosen' = IF c \in Moving(caller[c]) THEN chosen \ {caller[c]} ELSE chosen
  /\ UNCHANGED <<rows, nextId, caller, target, wish, raced>>

Handle(c) ==
  \/ TurnedAway(c) \/ Create(c) \/ Update(c) \/ Remove(c)
  \/ ClearDefault(c) \/ InsertAddress(c)
  \/ UpdateAddress(c) \/ UpdateMissing(c) \/ DeleteAddress(c) \/ BreakOff(c)

Next == \E c \in Calls : Handle(c)

Spec == Init /\ [][Next]_vars
-----------------------------------------------------------------------------
(* Types of the variables, and where a call can be.                        *)
TypeOK ==
  /\ rows \in [Ids -> Rows \cup {None}]
  /\ nextId \in Nat
  /\ pc \in [Calls -> {"idle", "clearing", "writing", "deleting",
                       "done", "refused", "failed"}]
  /\ caller \in [Calls -> Users]
  /\ target \in [Calls -> Ids \cup {New}]
  /\ wish \in [Calls -> {"yes", "no", "omit"}]
  /\ raced \in SUBSET Users /\ chosen \in SUBSET Users

(* A user has two defaults only after two calls raced for it, the one      *)
(* writing between the other's two statements; the next call that chooses  *)
(* a default repairs it.                                                   *)
OneDefault ==
  \A u \in Users : u \notin raced =>
    \A i, j \in Defaults(u) : i = j

(* A user who chose a default has one unless it was removed, was unset, or *)
(* a call that had cleared it failed: calls that overlap never lose it.    *)
DefaultKept ==
  \A u \in chosen : Moving(u) = {} => Defaults(u) # {}

(* While a call that nobody raced with is between its statements, there is *)
(* no default to collide with; and a call's row is its caller's while it   *)
(* exists, because ids are not given out again.                            *)
Undisturbed ==
  /\ \A u \in Users : u \notin raced /\ Moving(u) # {} => Defaults(u) = {}
  /\ \A i \in Ids : i >= nextId => rows[i] = None
  /\ \A c \in Calls :
       target[c] \in Ids =>
         /\ target[c] < nextId
         /\ rows[target[c]] # None => rows[target[c]].user = caller[c]
  /\ \A c \in Calls : pc[c] = "deleting" => target[c] \in Ids
  /\ \A c \in Calls : pc[c] = "clearing" => wish[c] = "yes"

AddressesInv == TypeOK /\ OneDefault /\ DefaultKept /\ Undisturbed

(* No step touches another user's address, although ownership is compared  *)
(* one statement before the write and the write names the id alone.        *)
OthersUntouched ==
  [][\A i \in Ids : rows[i] # None /\ rows'[i] # rows[i] =>
       \E c \in Calls : pc'[c] # pc[c] /\ caller[c] = rows[i].user]_vars
=============================================================================
