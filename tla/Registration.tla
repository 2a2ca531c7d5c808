---------------------------- MODULE Registration -----------------------------
(***************************************************************************)
(* Overlapping registrations in one API process: a person, and for an      *)
(* owner the restaurant and the owner's membership, in one transaction.    *)
(* The check that the e-mail and the phone are new runs outside of it, on  *)
(* a second connection of the same pool; two unique indexes have the last  *)
(* word.  AuthService.register and RestaurantService.createWithOwner issue *)
(* the same statements.                                                    *)
(***************************************************************************)
EXTENDS Integers, FiniteSets

CONSTANTS Calls,          \* registrations, each made once
          Forms,          \* what they may ask for
          PoolMax,        \* DB_POOL_MAX
          MaxFaults,      \* bound: statements that fail, commits unacknowledged
          None

VARIABLES rows,       \* committed rows: <<table, call that inserted it>>
          mine,       \* tables written by the open transaction of a call
          entries,    \* index entries of the open transaction of a call
          pc, form, answer,
          wasThere,   \* history: users committed at a call's check
          faults

vars == <<rows, mine, entries, pc, form, answer, wasThere, faults>>

Tables  == {"users", "restaurants", "restaurant_members"}
Holding == {"checking", "email", "phone", "restaurant", "owner",
            "committing", "rolling"}
Ended   == {"answered"}

\* What a caller is told: 201, an AppError (400), or 500 for what
\* is none: "collided" if a unique index refused, "error" otherwise.
Answers == {"created", "conflict", "refused", "collided", "error"}

People  == {c \in Calls : <<"users", c>> \in rows}

\* Connections nobody holds: a transaction keeps its own until it ends.
Free == PoolMax - Cardinality({c \in Calls : pc[c] \in Holding})

Init ==
  /\ rows = {}
  /\ mine = [c \in Calls |-> {}]
  /\ entries = [c \in Calls |-> {}]
  /\ pc = [c \in Calls |-> "idle"]
  /\ form = [c \in Calls |-> None]
  /\ answer = [c \in Calls |-> None]
  /\ wasThere = [c \in Calls |-> {}]
  /\ faults = 0

Move(c, from, to) == pc[c] = from /\ pc' = [pc EXCEPT ![c] = to]

\* The transaction is rolled back: its rows, entries and connection are gone.
GiveUp(c, text) ==
  /\ pc' = [pc EXCEPT ![c] = "answered"]
  /\ answer' = [answer EXCEPT ![c] = text]
  /\ mine' = [mine EXCEPT ![c] = {}]
  /\ entries' = [entries EXCEPT ![c] = {}]

(* The controller has validated the form; nobody signs up as an admin, and *)
(* only an admin calls createWithOwner.                                    *)
Arrive(c) ==
  /\ Move(c, "idle", "queueing")
  /\ \E f \in Forms : form' = [form EXCEPT ![c] = f]
  /\ UNCHANGED <<rows, mine, entries, answer, wasThere, faults>>

(* db.transaction() *)
BeginTransaction(c) ==
  /\ Free > 0
  /\ Move(c, "queueing", "checking")
  /\ UNCHANGED <<rows, mine, entries, form, answer, wasThere, faults>>

Clash(c, d) == form[c].email = form[d].email \/ form[c].phone = form[d].phone

\* findUserExistsByEmailOrPhone
Seen(c, d) == Clash(c, d)

(* userService.create: the query takes a free connection for its duration; *)
(* then the password is hashed.                                            *)
CheckExists(c) ==
  /\ pc[c] = "checking" /\ Free > 0
  /\ wasThere' = [wasThere EXCEPT ![c] = People]
  /\ IF \E d \in People : Seen(c, d)
     THEN GiveUp(c, "conflict")
     ELSE pc' = [pc EXCEPT ![c] = "email"] /\ UNCHANGED <<mine, entries, answer>>
  /\ UNCHANGED <<rows, form, faults>>

\* Mutant: the pool hands out a connection however long that takes.
WaitForever(c) == FALSE /\ UNCHANGED vars

(* acquireConnectionTimeout: knex gives up waiting for the pool, at the    *)
(* BEGIN or at the check, and the registration is rolled back.             *)
AcquireTimeout(c) ==
  /\ pc[c] \in {"queueing", "checking"} /\ Free <= 0
  /\ GiveUp(c, "error")
  /\ UNCHANGED <<rows, form, wasThere, faults>>

-----------------------------------------------------------------------------
\* The calls whose open transactions hold the same key of an index.
InsertedBy(c, index) ==
  {d \in Calls \ {c} : index \in entries[d] /\ form[c][index] = form[d][index]}

(* The INSERT into users writes one unique index after the other.  An      *)
(* entry of an open transaction is waited for, one of a committed row      *)
(* fails the statement: no AppError, so the caller is told 500.            *)
InsertEntry(c, index, next) ==
  /\ pc[c] = index /\ InsertedBy(c, index) = {}
  /\ IF \E d \in People : form[c][index] = form[d][index]
     THEN GiveUp(c, "collided")
     ELSE /\ pc' = [pc EXCEPT ![c] = next]
          /\ entries' = [entries EXCEPT ![c] = @ \cup {index}]
          /\ mine' = [mine EXCEPT ![c] = IF index = "phone" THEN {"users"} ELSE @]
          /\ UNCHANGED answer
  /\ UNCHANGED <<rows, form, wasThere, faults>>

InsertUser(c) ==
  \/ InsertEntry(c, "email", "phone")
  \/ InsertEntry(c, "phone",
       CASE form[c].kind = "customer" -> "committing"
         [] form[c].kind = "owner"    -> "restaurant"
         [] form[c].kind = "bare"     -> "rolling")

(* An owner without restaurant data: RestaurantDataRequiredError.          *)
RequireRestaurant(c) ==
  /\ pc[c] = "rolling"
  /\ GiveUp(c, "refused")
  /\ UNCHANGED <<rows, form, wasThere, faults>>

InsertRestaurant(c) ==
  /\ Move(c, "restaurant", "owner")
  /\ mine' = [mine EXCEPT ![c] = @ \cup {"restaurants"}]
  /\ UNCHANGED <<rows, entries, form, answer, wasThere, faults>>

\* Mutant: the membership is inserted without the caller's transaction.
InsertOwnerOutside(c) ==
  /\ Move(c, "owner", "committing")
  /\ rows' = rows \cup {<<"restaurant_members", c>>}
  /\ UNCHANGED <<mine, entries, form, answer, wasThere, faults>>

(* createOwnerMember *)
InsertOwner(c) ==
  /\ Move(c, "owner", "committing")
  /\ mine' = [mine EXCEPT ![c] = @ \cup {"restaurant_members"}]
  /\ UNCHANGED <<rows, entries, form, answer, wasThere, faults>>

(* The acknowledgement of the COMMIT may be lost: then the caller is told  *)
(* of an error, and the rows are there.                                    *)
Commit(c) ==
  /\ pc[c] = "committing"
  /\ rows' = rows \cup {<<t, c>> : t \in mine[c]}
  /\ \/ GiveUp(c, "created") /\ UNCHANGED faults
     \/ faults < MaxFaults /\ GiveUp(c, "error") /\ faults' = faults + 1
  /\ UNCHANGED <<form, wasThere>>

(* A statement fails or the connection is lost: the catch rolls back.      *)
BreakOff(c) ==
  /\ faults < MaxFaults /\ faults' = faults + 1
  /\ pc[c] \in Holding
  /\ GiveUp(c, "error")
  /\ UNCHANGED <<rows, form, wasThere>>

Proceed(c) == \/ BeginTransaction(c) \/ CheckExists(c) \/ AcquireTimeout(c)
              \/ InsertUser(c) \/ RequireRestaurant(c)
              \/ InsertRestaurant(c) \/ InsertOwner(c) \/ Commit(c)

Next == \E c \in Calls : Arrive(c) \/ Proceed(c) \/ BreakOff(c)

Fairness == \A c \in Calls : WF_vars(Proceed(c))
Spec == Init /\ [][Next]_vars /\ Fairness
-----------------------------------------------------------------------------
(* Types of the variables; the pool never lends more than it has.          *)
TypeOK ==
  /\ rows \in SUBSET (Tables \X Calls)
  /\ mine \in [Calls -> SUBSET Tables]
  /\ entries \in [Calls -> SUBSET {"email", "phone"}]
  /\ pc \in [Calls -> {"idle", "queueing"} \cup Holding \cup Ended]
  /\ form \in [Calls -> Forms \cup {None}]
  /\ answer \in [Calls -> Answers \cup {None}]
  /\ wasThere \in [Calls -> SUBSET Calls]
  /\ faults \in Nat /\ Free >= 0

ToWrite(c) == IF form[c].kind = "owner" THEN Tables ELSE {"users"}
Written(c) == {t \in Tables : <<t, c>> \in rows}

(* What the caller is told is true, wherever a registration breaks off:    *)
(* "created" means all that was asked for, the person, the restaurant and  *)
(* the owner's membership, under an e-mail and a phone that nobody shares; *)
(* a refusal leaves nothing behind; after an error there is all or         *)
(* nothing.  Against earlier registrations a duplicate is an AppError, and *)
(* a 500 takes one that committed after the check.                         *)
AnswersAreTrue ==
  \A c \in Calls :
    /\ Written(c) # {} => Written(c) = ToWrite(c)
    /\ answer[c] = "created" =>
         c \in People /\ \A d \in People \ {c} : ~Clash(c, d)
    /\ answer[c] \in {"conflict", "refused", "collided"} => Written(c) = {}
    /\ answer[c] = "collided" =>
         /\ \E d \in People \ wasThere[c] : Clash(c, d)
         /\ \A d \in wasThere[c] : ~Clash(c, d)

(* A registration that has arrived is answered, although transactions that *)
(* hold every connection of the pool all wait for one more: the timeout of *)
(* the pool is what lets them out.                                         *)
EveryRegistrationAnswered ==
  \A c \in Calls : pc[c] = "queueing" ~> pc[c] = "answered"

-----------------------------------------------------------------------------
Indexes == {"email", "phone"}

\* Two entries of an index differ: those of two open transactions, those of an
\* open transaction and a person, and those of two persons.
IndexesUnique ==
  /\ \A c, d \in Calls : c # d => \A x \in entries[c] \cap entries[d] : form[c][x] # form[d][x]
  /\ \A c \in Calls, d \in People : \A x \in entries[c] : form[c][x] # form[d][x]
  /\ \A c, d \in People : c # d => ~Clash(c, d)

\* Where a registration is says what it has written; nothing is committed
\* before its end, and then all of it.
AtItsPlace(c) ==
  /\ pc[c] # "idle" => form[c] \in Forms
  /\ entries[c] = IF pc[c] = "phone" THEN {"email"}
                  ELSE IF pc[c] \in {"restaurant", "owner", "committing", "rolling"}
                       THEN Indexes ELSE {}
  /\ mine[c] = CASE pc[c] \in {"restaurant", "rolling"} -> {"users"}
                 [] pc[c] = "owner"      -> {"users", "restaurants"}
                 [] pc[c] = "committing" -> ToWrite(c)
                 [] OTHER                -> {}
  /\ pc[c] \in {"restaurant", "owner"} => form[c].kind = "owner"
  /\ Written(c) # {} =>
       /\ pc[c] = "answered" /\ Written(c) = ToWrite(c)
       /\ answer[c] \in {"created", "error"}
  /\ pc[c] # "answered" => answer[c] = None
  /\ answer[c] = "created" => Written(c) = ToWrite(c)

\* What the check saw is still there, and did not clash.
CheckStands(c) ==
  /\ wasThere[c] \subseteq People
  /\ pc[c] \notin {"idle", "queueing", "checking", "answered"} \/ answer[c] = "collided" =>
       \A d \in wasThere[c] : ~Clash(c, d)
  /\ answer[c] = "collided" => \E d \in People \ wasThere[c] : Clash(c, d)

(* The inductive invariant behind it.                                      *)
RegistrationInv ==
  TypeOK /\ IndexesUnique /\ \A c \in Calls : AtItsPlace(c) /\ CheckStands(c)
=============================================================================
