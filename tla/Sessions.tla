------------------------------ MODULE Sessions -------------------------------
(***************************************************************************)
(* Who is let through: claims that a token carries long after the rows     *)
(* they were read from, permissions that every API process caches for      *)
(* itself, and the guards in front of the handlers.  One person is a       *)
(* member of one restaurant, and that membership changes; the owner of     *)
(* another restaurant, an admin and a customer knock as well.  Time is a   *)
(* number of ticks.                                                        *)
(***************************************************************************)
EXTENDS Integers

CONSTANTS Calls,         \* logins and requests, each made once
          Processes,     \* API processes
          AccessLife, RefreshLife,   \* ACCESS_EXPIRES_IN, REFRESH_EXPIRES_IN
          CacheLife,     \* the TTL of the permission cache
          MaxTime,       \* bound: ticks
          MaxChanges,    \* bound: changes of rows, and restarts
          None           \* not a member, no branch, not cached

VARIABLES now,
          member, assigned,     \* the active member's role, and branches
          granted,              \* roles whose permission the tables hold
          access, refresh,      \* tokens issued to the person
          cache,                \* per process and role
          pc, proc, claims, asks, got,   \* calls
          heldRole, heldBranch, heldGrant,  \* history: when last true
          changes

tables   == <<member, assigned, granted>>
tokens   == <<access, refresh>>
callVars == <<pc, proc, claims, asks, got>>
history  == <<heldRole, heldBranch, heldGrant>>
vars     == <<now, tables, tokens, cache, callVars, history, changes>>

Roles    == {"owner", "manager", "staff"}
BranchIds == {"b1", "b2"}
HomeOf(b) == IF b = "b1" THEN "mine" ELSE "other"

MemberClaims(role, branches) ==
  [system |-> "restaurant_user", restaurant |-> "mine",
   role |-> role, branches |-> branches]

\* Whose tokens do not change: the other owner, an admin, a customer.
Strangers ==
  {[system |-> "restaurant_user", restaurant |-> "other", role |-> "owner", branches |-> {}],
   [system |-> "system_admin", restaurant |-> None, role |-> None, branches |-> {}],
   [system |-> "customer", restaurant |-> None, role |-> None, branches |-> {}]}

Claims == {MemberClaims(r, bs) : r \in Roles, bs \in SUBSET {"b1"}} \cup Strangers

\* What a request asks for: the restaurant that the row it names belongs to,
\* and the branch it names.  PATCH /products/:id names a branch or none.
Targets ==
  [route : {"restaurant"}, restaurant : {"mine", "other"}, branch : {None}]
    \cup {[route |-> "branch", restaurant |-> HomeOf(b), branch |-> b] : b \in BranchIds}
    \cup [route : {"product"}, restaurant : {"mine", "other"}, branch : BranchIds \cup {None}]

Never == 0 - AccessLife - RefreshLife - CacheLife

Init ==
  /\ now = 0
  /\ member = "manager" /\ assigned = {"b1"}
  /\ granted = {"owner", "manager"}
  /\ access = {} /\ refresh = {}
  /\ cache = [p \in Processes |-> [r \in Roles |-> None]]
  /\ pc = [c \in Calls |-> "idle"]
  /\ proc \in [Calls -> Processes]
  /\ claims = [c \in Calls |-> None]
  /\ asks = [c \in Calls |-> None]
  /\ got = [c \in Calls |-> None]
  /\ heldRole = [r \in Roles |-> IF r = member THEN 0 ELSE Never]
  /\ heldBranch = [b \in BranchIds |-> IF b \in assigned THEN 0 ELSE Never]
  /\ heldGrant = [r \in Roles |-> [a \in BOOLEAN |->
                    IF a = (r \in granted) THEN 0 ELSE Never]]
  /\ changes = 0

Go(c, to) == pc' = [pc EXCEPT ![c] = to]
-----------------------------------------------------------------------------
(* login: the membership, then its branches, then both tokens.             *)
FindMembership(c) ==
  /\ pc[c] = "idle"
  /\ Go(c, IF member = None THEN "failed" ELSE "signing")
  /\ claims' = [claims EXCEPT ![c] = IF member = None THEN None ELSE MemberClaims(member, {})]
  /\ UNCHANGED <<now, tables, tokens, cache, proc, asks, got, history, changes>>

Sign(c) ==
  LET payload == MemberClaims(claims[c].role, assigned) IN
  /\ pc[c] = "signing"
  /\ Go(c, "done")
  /\ access'  = access \cup {[claims |-> payload, exp |-> now + AccessLife]}
  /\ refresh' = refresh \cup {[claims |-> payload, exp |-> now + RefreshLife]}
  /\ claims' = [claims EXCEPT ![c] = None]
  /\ UNCHANGED <<now, tables, cache, proc, asks, got, history, changes>>

\* Mutant: the refresh token is renewed as well.
RefreshBoth(t) ==
  /\ now < t.exp
  /\ access' = access \cup {[claims |-> t.claims, exp |-> now + AccessLife]}
  /\ refresh' = refresh \cup {[claims |-> t.claims, exp |-> now + RefreshLife]}
  /\ UNCHANGED <<now, tables, cache, callVars, history, changes>>

(* refresh: the claims of the refresh token, not of the tables.            *)
Refresh(t) ==
  /\ now < t.exp
  /\ access' = access \cup {[claims |-> t.claims, exp |-> now + AccessLife]}
  /\ UNCHANGED <<now, tables, refresh, cache, callVars, history, changes>>

-----------------------------------------------------------------------------
(* requireRestaurantMember, on routes that name the restaurant.            *)
RequireRestaurantMember(who, restaurant) ==
  who.system = "system_admin" \/ who.restaurant = restaurant

(* requireBranchAccess: owners of any restaurant pass, and so does a       *)
(* request that names no branch.                                           *)
RequireBranchAccess(who, branch) ==
  \/ who.system = "system_admin"
  \/ who.role = "owner"
  \/ branch \in who.branches \cup {None}

Guard(who, t) == IF t.route = "restaurant" THEN RequireRestaurantMember(who, t.restaurant)
                                           ELSE RequireBranchAccess(who, t.branch)

\* Mutant: the middleware is trusted to have scoped the restaurant.
TrustGuards(who, t) == TRUE

(* The services compare the restaurant of the row with the caller's.       *)
OwnRestaurant(who, t) == who.system = "system_admin" \/ who.restaurant = t.restaurant

Verdict(who, t, allowed) ==
  IF allowed /\ OwnRestaurant(who, t) THEN "admitted" ELSE "refused"

\* The callers whose token verifies now.
Authentic == Strangers \cup {t.claims : t \in {a \in access : now < a.exp}}

Cached(p, role) == cache[p][role] # None /\ now - cache[p][role].at < CacheLife

\* A request that was refused is done.
Answer(c, next, who, t) ==
  /\ Go(c, IF next = "refused" THEN "done" ELSE next)
  /\ claims' = [claims EXCEPT ![c] = IF next = "refused" THEN None ELSE who]
  /\ asks'   = [asks EXCEPT ![c] = IF next = "refused" THEN None ELSE t]

(* authenticate, the guard and the head of rbac run without yielding: only *)
(* a restaurant user whose role is not cached waits for the tables.        *)
Authenticate(c) ==
  \E who \in Authentic, t \in Targets :
    /\ pc[c] = "idle"
    /\ LET next == IF ~Guard(who, t) \/ who.system = "customer" THEN "refused"
                   ELSE IF who.system = "system_admin" THEN Verdict(who, t, TRUE)
                   ELSE IF Cached(proc[c], who.role)
                        THEN Verdict(who, t, cache[proc[c]][who.role].allowed)
                   ELSE "fetching"
       IN  Answer(c, next, who, t)
    /\ UNCHANGED <<now, tables, tokens, cache, proc, got, history, changes>>

(* getPermissionsByRoleName                                                *)
FetchPermissions(c) ==
  /\ pc[c] = "fetching"
  /\ Go(c, "storing")
  /\ got' = [got EXCEPT ![c] = claims[c].role \in granted]
  /\ UNCHANGED <<now, tables, tokens, cache, proc, claims, asks, history, changes>>

\* Mutant: whatever is cached already is kept, and counts as new.
StoreRenewed(c) ==
  LET old == cache[proc[c]][claims[c].role] IN
  /\ pc[c] = "storing"
  /\ Answer(c, Verdict(claims[c], asks[c], got[c]), claims[c], asks[c])
  /\ got' = [got EXCEPT ![c] = None]
  /\ cache' = [cache EXCEPT ![proc[c]][claims[c].role] =
                 [allowed |-> IF old = None THEN got[c] ELSE old.allowed, at |-> now]]
  /\ UNCHANGED <<now, tables, tokens, proc, history, changes>>

\* Mutant: the entry is dated with its expiry.
StoreExpiry(c) ==
  /\ pc[c] = "storing"
  /\ Answer(c, Verdict(claims[c], asks[c], got[c]), claims[c], asks[c])
  /\ got' = [got EXCEPT ![c] = None]
  /\ cache' = [cache EXCEPT ![proc[c]][claims[c].role] =
                 [allowed |-> got[c], at |-> now + CacheLife]]
  /\ UNCHANGED <<now, tables, tokens, proc, history, changes>>

(* The entry is dated when the answer is there, not when it was read.      *)
StorePermissions(c) ==
  /\ pc[c] = "storing"
  /\ Answer(c, Verdict(claims[c], asks[c], got[c]), claims[c], asks[c])
  /\ got' = [got EXCEPT ![c] = None]
  /\ cache' = [cache EXCEPT ![proc[c]][claims[c].role] = [allowed |-> got[c], at |-> now]]
  /\ UNCHANGED <<now, tables, tokens, proc, history, changes>>

-----------------------------------------------------------------------------
(* updateMember, updateMemberBranches, deleteMember: see Membership.  A     *)
(* member who was suspended can be made active again.                      *)
ChangeMember ==
  /\ changes < MaxChanges /\ changes' = changes + 1
  /\ member' \in Roles \cup {None}
  /\ assigned' \in IF member' = None THEN {{}} ELSE SUBSET {"b1"}
  /\ heldRole' = [r \in Roles |-> IF r = member' THEN now ELSE heldRole[r]]
  /\ heldBranch' = [b \in BranchIds |-> IF b \in assigned' THEN now ELSE heldBranch[b]]
  /\ UNCHANGED <<now, granted, tokens, cache, callVars, heldGrant>>

(* A migration grants or revokes while the processes run.                  *)
Migrate ==
  \E r \in Roles :
    /\ changes < MaxChanges /\ changes' = changes + 1
    /\ granted' = IF r \in granted THEN granted \ {r} ELSE granted \cup {r}
    /\ heldGrant' = [heldGrant EXCEPT ![r][r \in granted'] = now]
    /\ UNCHANGED <<now, member, assigned, tokens, cache, callVars, heldRole, heldBranch>>

(* A process ends and its successor starts with an empty cache.            *)
Restart(p) ==
  /\ changes < MaxChanges /\ changes' = changes + 1
  /\ cache' = [cache EXCEPT ![p] = [r \in Roles |-> None]]
  /\ pc' = [c \in Calls |-> IF proc[c] = p /\ pc[c] \in {"signing", "fetching", "storing"}
                            THEN "failed" ELSE pc[c]]
  /\ claims' = [c \in Calls |-> IF pc'[c] # pc[c] THEN None ELSE claims[c]]
  /\ asks' = [c \in Calls |-> IF pc'[c] # pc[c] THEN None ELSE asks[c]]
  /\ got' = [c \in Calls |-> IF pc'[c] # pc[c] THEN None ELSE got[c]]
  /\ UNCHANGED <<now, tables, tokens, proc, history>>

\* What is true at the next tick, or in the hands of a call that has read it;
\* tokens that have expired are of no use any more.
Tick ==
  /\ now < MaxTime
  /\ now' = now + 1
  /\ heldRole' = [r \in Roles |->
       IF r = member \/ \E c \in Calls : pc[c] = "signing" /\ claims[c].role = r
       THEN now' ELSE heldRole[r]]
  /\ heldBranch' = [b \in BranchIds |-> IF b \in assigned THEN now' ELSE heldBranch[b]]
  /\ heldGrant' = [r \in Roles |-> [a \in BOOLEAN |->
       IF \/ a = (r \in granted)
          \/ \E c \in Calls : pc[c] = "storing" /\ claims[c].role = r /\ got[c] = a
       THEN now' ELSE heldGrant[r][a]]]
  /\ access'  = {t \in access : now' < t.exp}
  /\ refresh' = {t \in refresh : now' < t.exp}
  /\ UNCHANGED <<tables, cache, callVars, changes>>

Next ==
  \/ \E c \in Calls : FindMembership(c) \/ Sign(c) \/ Authenticate(c)
                        \/ FetchPermissions(c) \/ StorePermissions(c)
  \/ \E t \in refresh : Refresh(t)
  \/ \E p \in Processes : Restart(p)
  \/ ChangeMember \/ Migrate \/ Tick

Spec == Init /\ [][Next]_vars
-----------------------------------------------------------------------------
(* Types of the variables. *)
TypeOK ==
  /\ now \in 0..MaxTime /\ changes \in 0..MaxChanges
  /\ member \in Roles \cup {None} /\ assigned \in SUBSET {"b1"}
  /\ granted \in SUBSET Roles
  /\ \A t \in access \cup refresh : t.claims \in Claims \ Strangers /\ t.exp \in Nat
  /\ cache \in [Processes -> [Roles -> [allowed : BOOLEAN, at : Nat] \cup {None}]]
  /\ \A p \in Processes, r \in Roles : cache[p][r] # None => cache[p][r].at <= now
  /\ pc \in [Calls -> {"idle", "signing", "fetching", "storing",
                       "done", "admitted", "failed"}]
  /\ proc \in [Calls -> Processes]
  /\ claims \in [Calls -> Claims \cup {None}]
  /\ asks \in [Calls -> Targets \cup {None}]
  /\ got \in [Calls -> BOOLEAN \cup {None}]

\* When what a token claims was last true.
LastHeld(who) == {heldRole[who.role]} \cup {heldBranch[b] : b \in who.branches}

(* Nothing revokes a token, but what a token claims was true, or in the    *)
(* hands of a login, within the life of a refresh token and of an access   *)
(* token (a token last serves one tick before it expires): a member who is *)
(* removed, demoted or taken off a branch is out after that.               *)
ClaimsExpire ==
  \A t \in access : now < t.exp =>
    \A held \in LastHeld(t.claims) : now - held <= (RefreshLife - 1) + (AccessLife - 1)

(* Nothing invalidates the permission cache, but what it still answers has *)
(* been in the tables, or in the hands of a request that had read it, less *)
(* than one TTL ago, whichever of two requests stored last.                *)
PermissionsExpire ==
  \A p \in Processes, r \in Roles :
    Cached(p, r) => now - heldGrant[r][cache[p][r].allowed] < CacheLife

(* "This check is the sole cross-restaurant guard": whichever guards let a *)
(* request through, only an admin acts on another restaurant's rows, and a *)
(* member who is not an owner only at branches of the token.               *)
KeptApart ==
  \A c \in Calls : pc[c] = "admitted" /\ claims[c].system # "system_admin" =>
    /\ claims[c].restaurant = asks[c].restaurant
    /\ claims[c].role = "owner" \/ asks[c].branch \in claims[c].branches \cup {None}

-----------------------------------------------------------------------------
\* The history is about the past.
HistoryTyped ==
  /\ heldRole \in [Roles -> Int] /\ \A r \in Roles : heldRole[r] <= now
  /\ heldBranch \in [BranchIds -> Int] /\ \A b \in BranchIds : heldBranch[b] <= now
  /\ heldGrant \in [Roles -> [BOOLEAN -> Int]]
  /\ \A r \in Roles, a \in BOOLEAN : heldGrant[r][a] <= now

\* What the tables say, or a call has read and not used yet, held until now.
StillHeld ==
  /\ member # None => heldRole[member] = now
  /\ \A b \in assigned : heldBranch[b] = now
  /\ \A r \in Roles : heldGrant[r][(r \in granted)] = now
  /\ \A c \in Calls : pc[c] = "signing" => heldRole[claims[c].role] = now
  /\ \A c \in Calls : pc[c] = "storing" => heldGrant[claims[c].role][got[c]] = now

\* Signed when the claims held, or while a refresh token lived that was.
TokensDated ==
  /\ \A t \in refresh : \A held \in LastHeld(t.claims) : t.exp - RefreshLife <= held
  /\ \A t \in access : \A held \in LastHeld(t.claims) :
       t.exp - AccessLife - (RefreshLife - 1) <= held

\* An entry is not younger than what it says.
EntriesDated ==
  \A p \in Processes, r \in Roles : cache[p][r] # None =>
    cache[p][r].at <= heldGrant[r][cache[p][r].allowed]

\* A login knows a role; whoever waits for permissions has passed the guard.
CallsInFlight ==
  \A c \in Calls :
    /\ pc[c] = "signing" => \E r \in Roles : claims[c] = MemberClaims(r, {})
    /\ pc[c] \in {"fetching", "storing"} =>
         /\ claims[c] \in Claims /\ claims[c].system = "restaurant_user"
         /\ asks[c] \in Targets /\ Guard(claims[c], asks[c])
    /\ pc[c] = "storing" => got[c] \in BOOLEAN

(* The inductive invariant from which the three properties follow.         *)
SessionsInv ==
  /\ TypeOK /\ HistoryTyped /\ StillHeld /\ TokensDated /\ EntriesDated
  /\ CallsInFlight /\ KeptApart
=============================================================================
