-------------------------- MODULE Services_proofs --------------------------
(***************************************************************************)
(* What Services checks on a small instance, for any number of calls, any  *)
(* life of the tokens, any bound on the faults, and any products,          *)
(* branches, keys and processes: Sessions, Catalog and Idempotency, one    *)
(* after the other, and Services itself.                                   *)
(***************************************************************************)
EXTENDS Services, FiniteSetTheorems, TLAPS

-----------------------------------------------------------------------------
(* Sessions: one lemma per action.                                         *)

(* The history starts with what the tables hold.                           *)
LEMMA SessionsInit == Sessions!Init => Sessions!SessionsInv
<1> SUFFICES ASSUME Sessions!Init PROVE Sessions!SessionsInv
  OBVIOUS
<1>1. Sessions!TypeOK
  BY SessionsAssumption DEF Sessions!Init, Sessions!TypeOK, Sessions!Roles
<1>2. Sessions!HistoryTyped
  BY SessionsAssumption DEF Sessions!Init, Sessions!HistoryTyped, Sessions!Roles, Sessions!BranchIds, Sessions!Never
<1>3. Sessions!StillHeld
  BY SessionsAssumption DEF Sessions!Init, Sessions!StillHeld, Sessions!Roles, Sessions!BranchIds
<1>4. Sessions!TokensDated
  BY DEF Sessions!Init, Sessions!TokensDated
<1>5. Sessions!EntriesDated
  BY DEF Sessions!Init, Sessions!EntriesDated
<1>6. Sessions!CallsInFlight /\ Sessions!KeptApart
  BY DEF Sessions!Init, Sessions!CallsInFlight, Sessions!KeptApart
<1> QED
  BY <1>1, <1>2, <1>3, <1>4, <1>5, <1>6 DEF Sessions!SessionsInv

LEMMA TokensTyped ==
  ASSUME Sessions!TypeOK, NEW t \in access \cup refresh
  PROVE  /\ t.exp \in Nat /\ t.claims \in Sessions!Claims
         /\ t.claims.role \in Sessions!Roles /\ t.claims.branches \subseteq Sessions!BranchIds
<1>1. t.exp \in Nat /\ t.claims \in Sessions!Claims \ Sessions!Strangers
  BY DEF Sessions!TypeOK
<1>2. PICK r \in Sessions!Roles, bs \in SUBSET {"b1"} : t.claims = Sessions!MemberClaims(r, bs)
  <2> DEFINE own == {Sessions!MemberClaims(r, bs) : r \in Sessions!Roles, bs \in SUBSET {"b1"}}
  <2>1. Sessions!Claims = own \cup Sessions!Strangers
    BY DEF Sessions!Claims
  <2>2. t.claims \in own
    <3> HIDE DEF own
    <3> QED
      BY <1>1, <2>1
  <2> QED
    BY <2>2
<1>3. t.claims.role = r /\ t.claims.branches = bs
  BY <1>2 DEF Sessions!MemberClaims
<1> QED
  BY <1>1, <1>2, <1>3 DEF Sessions!BranchIds

(* What a token claims stays as true as it was.                            *)
LEMMA TokensStayDated ==
  ASSUME Sessions!TypeOK, Sessions!TokensDated,
         access' \subseteq access, refresh' \subseteq refresh,
         \A r \in Sessions!Roles : heldRole'[r] >= heldRole[r],
         \A b \in Sessions!BranchIds : heldBranch'[b] >= heldBranch[b],
         Sessions!HistoryTyped, Sessions!HistoryTyped'
  PROVE  Sessions!TokensDated'
<1>1. \A t \in access \cup refresh : t.exp \in Nat /\ t.claims.role \in Sessions!Roles
                                       /\ t.claims.branches \subseteq Sessions!BranchIds
  BY TokensTyped
<1>2. \A t \in refresh : /\ t.exp - RefreshLife <= heldRole[t.claims.role]
                         /\ \A b \in t.claims.branches : t.exp - RefreshLife <= heldBranch[b]
  BY DEF Sessions!TokensDated, Sessions!LastHeld
<1>3. \A t \in access :
        /\ t.exp - AccessLife - (RefreshLife - 1) <= heldRole[t.claims.role]
        /\ \A b \in t.claims.branches : t.exp - AccessLife - (RefreshLife - 1) <= heldBranch[b]
  BY DEF Sessions!TokensDated, Sessions!LastHeld
<1>4. \A t \in refresh' : \A held \in Sessions!LastHeld(t.claims)' : t.exp - RefreshLife <= held
  BY <1>1, <1>2, SessionsAssumption DEF Sessions!LastHeld, Sessions!HistoryTyped
<1>5. \A t \in access' : \A held \in Sessions!LastHeld(t.claims)' :
        t.exp - AccessLife - (RefreshLife - 1) <= held
  BY <1>1, <1>3, SessionsAssumption DEF Sessions!LastHeld, Sessions!HistoryTyped
<1> QED
  BY <1>4, <1>5 DEF Sessions!TokensDated

LEMMA FindMembershipKeeps ==
  ASSUME Sessions!SessionsInv, NEW c \in Visits, Sessions!FindMembership(c)
  PROVE  Sessions!SessionsInv'
<1> USE DEF Sessions!SessionsInv, Sessions!FindMembership, Sessions!Go,
            Sessions!tables, Sessions!tokens, Sessions!history
<1>1. Sessions!TypeOK'
  <2>1. member # None => Sessions!MemberClaims(member, {}) \in Sessions!Claims
    BY DEF Sessions!TypeOK, Sessions!Claims
  <2>2. claims' \in [Visits -> Sessions!Claims \cup {None}]
    BY <2>1, Zenon DEF Sessions!TypeOK
  <2>3. spc' \in [Visits -> {"idle", "signing", "fetching", "storing", "done", "admitted", "failed"}]
    BY DEF Sessions!TypeOK
  <2> QED
    BY <2>2, <2>3 DEF Sessions!TypeOK
<1>2. Sessions!HistoryTyped'
  BY DEF Sessions!HistoryTyped
<1>3. Sessions!StillHeld'
  BY DEF Sessions!StillHeld, Sessions!TypeOK, Sessions!MemberClaims
<1>4. Sessions!TokensDated'
  BY <1>2, TokensStayDated DEF Sessions!HistoryTyped
<1>5. Sessions!EntriesDated'
  BY DEF Sessions!EntriesDated
<1>6. Sessions!CallsInFlight'
  BY DEF Sessions!CallsInFlight, Sessions!TypeOK
<1>7. Sessions!KeptApart'
  BY DEF Sessions!KeptApart, Sessions!TypeOK
<1> QED
  BY <1>1, <1>2, <1>3, <1>4, <1>5, <1>6, <1>7

LEMMA SignKeeps ==
  ASSUME Sessions!SessionsInv, NEW c \in Visits, Sessions!Sign(c)
  PROVE  Sessions!SessionsInv'
<1> USE DEF Sessions!SessionsInv, Sessions!Sign, Sessions!Go, Sessions!tables, Sessions!history
<1> DEFINE who == Sessions!MemberClaims(claims[c].role, assigned)
<1>1. claims[c].role \in Sessions!Roles /\ heldRole[claims[c].role] = now
  <2>1. PICK r \in Sessions!Roles : claims[c] = Sessions!MemberClaims(r, {})
    BY DEF Sessions!CallsInFlight
  <2>2. claims[c].role = r
    BY <2>1 DEF Sessions!MemberClaims
  <2> QED
    BY <2>2 DEF Sessions!StillHeld
<1>2. /\ who \in Sessions!Claims \ Sessions!Strangers
      /\ who.role = claims[c].role /\ who.branches = assigned
  <2>1. who \in Sessions!Claims
    BY <1>1 DEF Sessions!Claims, Sessions!TypeOK
  <2>2. /\ who.role = claims[c].role /\ who.branches = assigned
        /\ who.restaurant = "mine" /\ who.system = "restaurant_user"
    BY DEF Sessions!MemberClaims
  <2>3. \A s \in Sessions!Strangers : s.system # "restaurant_user" \/ s.restaurant # "mine"
    BY DEF Sessions!Strangers
  <2> QED
    BY <2>1, <2>2, <2>3
<1>3. \A held \in Sessions!LastHeld(who) : held = now
  BY <1>1, <1>2 DEF Sessions!LastHeld, Sessions!StillHeld
<1> DEFINE short == [claims |-> who, exp |-> now + AccessLife]
           long  == [claims |-> who, exp |-> now + RefreshLife]
<1>4. access' = access \cup {short} /\ refresh' = refresh \cup {long}
  OBVIOUS
<1>5. /\ short.claims = who /\ short.exp = now + AccessLife
      /\ long.claims = who /\ long.exp = now + RefreshLife
  OBVIOUS
<1> HIDE DEF who, short, long
<1>6. Sessions!TypeOK'
  <2>1. \A t \in access' \cup refresh' : t.claims \in Sessions!Claims \ Sessions!Strangers /\ t.exp \in Nat
    BY <1>2, <1>4, <1>5, SessionsAssumption DEF Sessions!TypeOK
  <2>2. claims' \in [Visits -> Sessions!Claims \cup {None}]
    BY Zenon DEF Sessions!TypeOK
  <2>3. spc' \in [Visits -> {"idle", "signing", "fetching", "storing", "done", "admitted", "failed"}]
    BY DEF Sessions!TypeOK
  <2> QED
    BY <2>1, <2>2, <2>3 DEF Sessions!TypeOK
<1>7. Sessions!HistoryTyped'
  BY DEF Sessions!HistoryTyped
<1>8. Sessions!StillHeld'
  BY DEF Sessions!StillHeld, Sessions!TypeOK
<1>9. Sessions!TokensDated'
  <2>1. \A w : Sessions!LastHeld(w)' = Sessions!LastHeld(w)
    BY DEF Sessions!LastHeld
  <2>2. now \in Int
    BY DEF Sessions!TypeOK
  <2>3. \A held \in Sessions!LastHeld(long.claims) : long.exp - RefreshLife <= held
    BY <1>3, <1>5, <2>2, SessionsAssumption
  <2>4. \A held \in Sessions!LastHeld(short.claims) : short.exp - AccessLife - (RefreshLife - 1) <= held
    BY <1>3, <1>5, <2>2, SessionsAssumption
  <2> QED
    BY <1>4, <2>1, <2>3, <2>4 DEF Sessions!TokensDated
<1>10. Sessions!EntriesDated'
  BY DEF Sessions!EntriesDated
<1>11. Sessions!CallsInFlight'
  BY DEF Sessions!CallsInFlight, Sessions!TypeOK
<1>12. Sessions!KeptApart'
  BY DEF Sessions!KeptApart, Sessions!TypeOK
<1> QED
  BY <1>6, <1>7, <1>8, <1>9, <1>10, <1>11, <1>12

LEMMA RefreshKeeps ==
  ASSUME Sessions!SessionsInv, NEW t \in refresh, Sessions!Refresh(t)
  PROVE  Sessions!SessionsInv'
<1> USE DEF Sessions!SessionsInv, Sessions!Refresh, Sessions!tables, Sessions!history, Sessions!callVars
<1> DEFINE new == [claims |-> t.claims, exp |-> now + AccessLife]
<1>1. access' = access \cup {new} /\ refresh' = refresh
  OBVIOUS
<1>2. new.claims = t.claims /\ new.exp = now + AccessLife
  OBVIOUS
<1> HIDE DEF new
<1>3. Sessions!TypeOK'
  <2>1. \A u \in access' \cup refresh' : u.claims \in Sessions!Claims \ Sessions!Strangers /\ u.exp \in Nat
    BY <1>1, <1>2, SessionsAssumption DEF Sessions!TypeOK
  <2> QED
    BY <2>1 DEF Sessions!TypeOK
<1>4. Sessions!HistoryTyped'
  BY DEF Sessions!HistoryTyped
<1>5. Sessions!StillHeld'
  BY DEF Sessions!StillHeld
<1>6. Sessions!TokensDated'
  <2>1. \A w : Sessions!LastHeld(w)' = Sessions!LastHeld(w)
    BY DEF Sessions!LastHeld
  <2>2. now \in Int /\ t.exp \in Int
    BY DEF Sessions!TypeOK
  <2>3. Sessions!LastHeld(t.claims) \subseteq Int
    BY TokensTyped DEF Sessions!LastHeld, Sessions!HistoryTyped
  <2>4. \A held \in Sessions!LastHeld(t.claims) : t.exp - RefreshLife <= held
    BY DEF Sessions!TokensDated
  <2>5. AccessLife \in Nat /\ RefreshLife \in Nat
    BY SessionsAssumption
  <2>6. \A held \in Sessions!LastHeld(t.claims) :
          now + AccessLife - AccessLife - (RefreshLife - 1) <= held
    <3> TAKE held \in Sessions!LastHeld(t.claims)
    <3>1. held \in Int /\ t.exp - RefreshLife <= held /\ now < t.exp
      BY <2>3, <2>4
    <3> HIDE DEF Sessions!SessionsInv, Sessions!Refresh
    <3> QED
      BY <3>1, <2>2, <2>5
  <2>7. ASSUME NEW u \in access'
        PROVE  \A held \in Sessions!LastHeld(u.claims) :
                 u.exp - AccessLife - (RefreshLife - 1) <= held
    <3>1. CASE u = new
      <4>1. u.claims = t.claims /\ u.exp = now + AccessLife
        BY <3>1, <1>2
      <4> QED
        BY <4>1, <2>2, <2>3, <2>5, <2>6
    <3>2. CASE u \in access
      BY <3>2 DEF Sessions!TokensDated
    <3> QED
      BY <3>1, <3>2, <1>1
  <2> QED
    BY <1>1, <2>1, <2>4, <2>7 DEF Sessions!TokensDated
<1>7. Sessions!EntriesDated'
  BY DEF Sessions!EntriesDated
<1>8. Sessions!CallsInFlight'
  BY DEF Sessions!CallsInFlight
<1>9. Sessions!KeptApart'
  BY DEF Sessions!KeptApart
<1> QED
  BY <1>3, <1>4, <1>5, <1>6, <1>7, <1>8, <1>9

(* What is decided of a request, and with which claims: the guard has let  *)
(* it pass, and its own restaurant if it is admitted.                      *)
LEMMA AuthenticateKeeps ==
  ASSUME Sessions!SessionsInv, NEW c \in Visits, Sessions!Authenticate(c)
  PROVE  Sessions!SessionsInv'
<1> USE DEF Sessions!SessionsInv, Sessions!tables, Sessions!tokens, Sessions!history
<1> DEFINE step(w, t) ==
             IF ~Sessions!Guard(w, t) \/ w.system = "customer" THEN "refused"
             ELSE IF w.system = "system_admin" THEN Sessions!Verdict(w, t, TRUE)
             ELSE IF Sessions!Cached(proc[c], w.role)
                  THEN Sessions!Verdict(w, t, permissions[proc[c]][w.role].allowed)
             ELSE "fetching"
<1>0. PICK who \in Sessions!Authentic, t \in Sessions!Targets :
        /\ spc[c] = "idle"
        /\ Sessions!Answer(c, step(who, t), who, t)
        /\ UNCHANGED <<now, Sessions!tables, Sessions!tokens, permissions, proc, got,
                       Sessions!history, changes>>
  BY Zenon DEF Sessions!Authenticate
<1> USE <1>0
<1> DEFINE next == step(who, t)
<1> HIDE DEF next, step
<1>1. who \in Sessions!Claims
  BY TokensTyped DEF Sessions!Authentic, Sessions!Claims
<1>2. who.system \in {"restaurant_user", "system_admin", "customer"}
  BY <1>1 DEF Sessions!Claims, Sessions!MemberClaims, Sessions!Strangers
<1>3. /\ next \in {"refused", "admitted", "fetching"}
      /\ next \in {"admitted", "fetching"} => Sessions!Guard(who, t)
      /\ next = "admitted" => Sessions!OwnRestaurant(who, t)
      /\ next = "fetching" => who.system = "restaurant_user"
  BY <1>2 DEF Sessions!Verdict, next, step
<1>4. Sessions!Answer(c, next, who, t)
  BY DEF next
<1>5. /\ spc' = [spc EXCEPT ![c] = IF next = "refused" THEN "done" ELSE next]
      /\ claims' = [claims EXCEPT ![c] = IF next = "refused" THEN None ELSE who]
      /\ asks' = [asks EXCEPT ![c] = IF next = "refused" THEN None ELSE t]
  BY <1>4 DEF Sessions!Answer, Sessions!Go
<1>6. Sessions!TypeOK'
  <2>1. claims' \in [Visits -> Sessions!Claims \cup {None}]
    BY <1>1, <1>5, Zenon DEF Sessions!TypeOK
  <2>2. asks' \in [Visits -> Sessions!Targets \cup {None}]
    BY <1>5, Zenon DEF Sessions!TypeOK
  <2>3. spc' \in [Visits -> {"idle", "signing", "fetching", "storing", "done", "admitted", "failed"}]
    BY <1>3, <1>5 DEF Sessions!TypeOK
  <2> QED
    BY <2>1, <2>2, <2>3 DEF Sessions!TypeOK
<1>7. /\ spc'[c] = IF next = "refused" THEN "done" ELSE next
      /\ next # "refused" => claims'[c] = who /\ asks'[c] = t
      /\ \A d \in Visits : d # c => spc'[d] = spc[d] /\ claims'[d] = claims[d] /\ asks'[d] = asks[d]
  BY <1>5 DEF Sessions!TypeOK
<1>8. Sessions!HistoryTyped'
  BY DEF Sessions!HistoryTyped
<1>9. Sessions!StillHeld'
  BY <1>3, <1>7 DEF Sessions!StillHeld
<1>10. Sessions!TokensDated'
  BY <1>8, TokensStayDated DEF Sessions!HistoryTyped
<1>11. Sessions!EntriesDated'
  BY DEF Sessions!EntriesDated
<1>12. Sessions!CallsInFlight'
  BY <1>1, <1>3, <1>7 DEF Sessions!CallsInFlight
<1>13. Sessions!KeptApart'
  <2> SUFFICES ASSUME NEW d \in Visits, spc'[d] = "admitted", claims'[d].system # "system_admin"
               PROVE  /\ claims'[d].restaurant = asks'[d].restaurant
                      /\ claims'[d].role = "owner" \/ asks'[d].branch \in claims'[d].branches \cup {None}
    BY DEF Sessions!KeptApart
  <2>1. CASE d # c
    BY <2>1, <1>7 DEF Sessions!KeptApart
  <2>2. CASE d = c
    BY <2>2, <1>3, <1>7 DEF Sessions!OwnRestaurant, Sessions!Guard, Sessions!RequireBranchAccess, Sessions!Targets
  <2> QED
    BY <2>1, <2>2
<1> QED
  BY <1>6, <1>8, <1>9, <1>10, <1>11, <1>12, <1>13

LEMMA FetchPermissionsKeeps ==
  ASSUME Sessions!SessionsInv, NEW c \in Visits, Sessions!FetchPermissions(c)
  PROVE  Sessions!SessionsInv'
<1> USE DEF Sessions!SessionsInv, Sessions!FetchPermissions, Sessions!Go,
            Sessions!tables, Sessions!tokens, Sessions!history
<1>1. claims[c].role \in Sessions!Roles
  BY DEF Sessions!CallsInFlight, Sessions!Claims, Sessions!MemberClaims, Sessions!Strangers, Sessions!Roles
<1>2. /\ spc'[c] = "storing" /\ got'[c] = (claims[c].role \in granted) /\ got'[c] \in BOOLEAN
      /\ \A d \in Visits : d # c => spc'[d] = spc[d] /\ got'[d] = got[d]
  BY DEF Sessions!TypeOK
<1>3. Sessions!TypeOK'
  BY DEF Sessions!TypeOK
<1>4. Sessions!HistoryTyped'
  BY DEF Sessions!HistoryTyped
<1>5. Sessions!StillHeld'
  BY <1>1, <1>2 DEF Sessions!StillHeld
<1>6. Sessions!TokensDated'
  BY <1>4, TokensStayDated DEF Sessions!HistoryTyped
<1>7. Sessions!EntriesDated'
  BY DEF Sessions!EntriesDated
<1>8. Sessions!CallsInFlight'
  BY <1>2 DEF Sessions!CallsInFlight
<1>9. Sessions!KeptApart'
  BY <1>2 DEF Sessions!KeptApart
<1> QED
  BY <1>3, <1>4, <1>5, <1>6, <1>7, <1>8, <1>9

(* The entry is dated now, and what it says still held now.                *)
LEMMA StorePermissionsKeeps ==
  ASSUME Sessions!SessionsInv, NEW c \in Visits, Sessions!StorePermissions(c)
  PROVE  Sessions!SessionsInv'
<1> USE DEF Sessions!SessionsInv, Sessions!tables, Sessions!tokens, Sessions!history
<1> DEFINE next == Sessions!Verdict(claims[c], asks[c], got[c])
           role == claims[c].role
<1>1. /\ role \in Sessions!Roles /\ got[c] \in BOOLEAN
      /\ Sessions!Guard(claims[c], asks[c]) /\ asks[c] \in Sessions!Targets
      /\ heldGrant[role][got[c]] = now
  BY DEF Sessions!StorePermissions, Sessions!CallsInFlight, Sessions!StillHeld, Sessions!Claims,
         Sessions!MemberClaims, Sessions!Strangers, Sessions!Roles
<1>2. next \in {"refused", "admitted"} /\ (next = "admitted" => Sessions!OwnRestaurant(claims[c], asks[c]))
  BY DEF Sessions!Verdict
<1> HIDE DEF next
<1>3. /\ spc' = [spc EXCEPT ![c] = IF next = "refused" THEN "done" ELSE next]
      /\ claims' = [claims EXCEPT ![c] = IF next = "refused" THEN None ELSE claims[c]]
      /\ asks' = [asks EXCEPT ![c] = IF next = "refused" THEN None ELSE asks[c]]
      /\ got' = [got EXCEPT ![c] = None]
  BY DEF Sessions!StorePermissions, Sessions!Answer, Sessions!Go, next
<1>4. /\ permissions' = [permissions EXCEPT ![proc[c]][role] = [allowed |-> got[c], at |-> now]]
      /\ UNCHANGED <<now, member, assigned, granted, access, refresh, proc,
                     heldRole, heldBranch, heldGrant, changes>>
  BY DEF Sessions!StorePermissions
<1> HIDE DEF role
<1>5. Sessions!TypeOK'
  <2>1. claims' \in [Visits -> Sessions!Claims \cup {None}]
    BY <1>3, Zenon DEF Sessions!TypeOK
  <2>2. asks' \in [Visits -> Sessions!Targets \cup {None}]
    BY <1>3, Zenon DEF Sessions!TypeOK
  <2>3. spc' \in [Visits -> {"idle", "signing", "fetching", "storing", "done", "admitted", "failed"}]
    BY <1>2, <1>3 DEF Sessions!TypeOK
  <2>4. got' \in [Visits -> BOOLEAN \cup {None}]
    BY <1>3 DEF Sessions!TypeOK
  <2>5. proc[c] \in Processes
    BY DEF Sessions!TypeOK
  <2>6. /\ permissions' \in [Processes -> [Sessions!Roles -> [allowed : BOOLEAN, at : Nat] \cup {None}]]
        /\ \A p \in Processes, r \in Sessions!Roles :
             permissions'[p][r] # None => permissions'[p][r].at <= now
    <3> DEFINE entry == [allowed |-> got[c], at |-> now]
    <3>1. entry \in [allowed : BOOLEAN, at : Nat] /\ entry.at = now /\ now \in Nat
      BY <1>1 DEF Sessions!TypeOK
    <3>2. permissions' = [permissions EXCEPT ![proc[c]][role] = entry]
      BY <1>4
    <3> HIDE DEF entry
    <3> QED
      BY <1>1, <2>5, <3>1, <3>2 DEF Sessions!TypeOK
  <2> QED
    BY <1>4, <2>1, <2>2, <2>3, <2>4, <2>6 DEF Sessions!TypeOK
<1>6. /\ spc'[c] = IF next = "refused" THEN "done" ELSE next
      /\ next # "refused" => claims'[c] = claims[c] /\ asks'[c] = asks[c]
      /\ \A d \in Visits : d # c => spc'[d] = spc[d] /\ claims'[d] = claims[d] /\ asks'[d] = asks[d]
                                      /\ got'[d] = got[d]
  BY <1>3 DEF Sessions!TypeOK
<1>7. Sessions!HistoryTyped'
  BY <1>4 DEF Sessions!HistoryTyped
<1>8. Sessions!StillHeld'
  BY <1>2, <1>4, <1>6 DEF Sessions!StillHeld
<1>9. Sessions!TokensDated'
  BY <1>4, <1>7, TokensStayDated DEF Sessions!HistoryTyped
<1>10. Sessions!EntriesDated'
  <2> SUFFICES ASSUME NEW p \in Processes, NEW r \in Sessions!Roles, permissions'[p][r] # None
               PROVE  permissions'[p][r].at <= heldGrant[r][permissions'[p][r].allowed]
    BY <1>4 DEF Sessions!EntriesDated
  <2>1. CASE p = proc[c] /\ r = role
    <3>1. permissions'[p][r] = [allowed |-> got[c], at |-> now]
      BY <1>1, <1>4, <2>1 DEF Sessions!TypeOK
    <3> QED
      BY <1>1, <2>1, <3>1 DEF Sessions!TypeOK
  <2>2. CASE ~(p = proc[c] /\ r = role)
    <3>1. permissions'[p][r] = permissions[p][r]
      BY <1>1, <1>4, <2>2 DEF Sessions!TypeOK
    <3> QED
      BY <3>1 DEF Sessions!EntriesDated
  <2> QED
    BY <2>1, <2>2
<1>11. Sessions!CallsInFlight'
  BY <1>2, <1>6 DEF Sessions!CallsInFlight
<1>12. Sessions!KeptApart'
  <2> SUFFICES ASSUME NEW d \in Visits, spc'[d] = "admitted", claims'[d].system # "system_admin"
               PROVE  /\ claims'[d].restaurant = asks'[d].restaurant
                      /\ claims'[d].role = "owner" \/ asks'[d].branch \in claims'[d].branches \cup {None}
    BY DEF Sessions!KeptApart
  <2>1. CASE d # c
    BY <2>1, <1>6 DEF Sessions!KeptApart
  <2>2. CASE d = c
    BY <2>2, <1>1, <1>2, <1>6
       DEF Sessions!OwnRestaurant, Sessions!Guard, Sessions!RequireBranchAccess, Sessions!Targets
  <2> QED
    BY <2>1, <2>2
<1> QED
  BY <1>5, <1>7, <1>8, <1>9, <1>10, <1>11, <1>12

LEMMA SigningRole ==
  ASSUME Sessions!CallsInFlight, NEW c \in Visits, spc[c] = "signing"
  PROVE  claims[c].role \in Sessions!Roles
<1>1. PICK r \in Sessions!Roles : claims[c] = Sessions!MemberClaims(r, {})
  BY DEF Sessions!CallsInFlight
<1>2. claims[c].role = r
  BY <1>1 DEF Sessions!MemberClaims
<1> QED
  BY <1>2

LEMMA ChangeMemberKeeps ==
  ASSUME Sessions!SessionsInv, Sessions!ChangeMember
  PROVE  Sessions!SessionsInv'
<1> USE DEF Sessions!SessionsInv, Sessions!tokens, Sessions!callVars
<1>1. /\ changes' = changes + 1 /\ changes < MaxChanges
      /\ member' \in Sessions!Roles \cup {None} /\ assigned' \in SUBSET {"b1"}
      /\ heldRole' = [r \in Sessions!Roles |-> IF r = member' THEN now ELSE heldRole[r]]
      /\ heldBranch' = [b \in Sessions!BranchIds |-> IF b \in assigned' THEN now ELSE heldBranch[b]]
      /\ UNCHANGED <<now, granted, access, refresh, permissions, spc, proc, claims, asks, got, heldGrant>>
  BY DEF Sessions!ChangeMember
<1>2. Sessions!TypeOK'
  BY <1>1, SessionsAssumption DEF Sessions!TypeOK
<1>3. now \in Int
  BY DEF Sessions!TypeOK
<1>4. Sessions!HistoryTyped'
  BY <1>1, <1>3 DEF Sessions!HistoryTyped
<1>5. Sessions!StillHeld'
  <2>1. \A c \in Visits : spc[c] = "signing" => claims[c].role \in Sessions!Roles
    BY SigningRole
  <2>2. "b1" \in Sessions!BranchIds
    BY DEF Sessions!BranchIds
  <2>3. \A c \in Visits : spc[c] = "signing" => heldRole'[claims[c].role] = now
    BY <1>1, <2>1 DEF Sessions!StillHeld
  <2>4. \A b \in assigned' : heldBranch'[b] = now
    BY <1>1, <2>2
  <2>5. member' # None => heldRole'[member'] = now
    BY <1>1
  <2> QED
    BY <1>1, <2>3, <2>4, <2>5 DEF Sessions!StillHeld
<1>6. Sessions!TokensDated'
  <2>1. \A r \in Sessions!Roles : heldRole'[r] >= heldRole[r]
    BY <1>1, <1>3 DEF Sessions!HistoryTyped
  <2>2. \A b \in Sessions!BranchIds : heldBranch'[b] >= heldBranch[b]
    BY <1>1, <1>3 DEF Sessions!HistoryTyped
  <2> QED
    BY <1>1, <1>4, <2>1, <2>2, TokensStayDated
<1>7. Sessions!EntriesDated'
  BY <1>1 DEF Sessions!EntriesDated
<1>8. Sessions!CallsInFlight' /\ Sessions!KeptApart'
  BY <1>1 DEF Sessions!CallsInFlight, Sessions!KeptApart
<1> QED
  BY <1>2, <1>4, <1>5, <1>6, <1>7, <1>8

LEMMA MigrateKeeps ==
  ASSUME Sessions!SessionsInv, Sessions!Migrate
  PROVE  Sessions!SessionsInv'
<1> USE DEF Sessions!SessionsInv, Sessions!tokens, Sessions!callVars
<1>1. PICK r \in Sessions!Roles :
        /\ changes' = changes + 1 /\ changes < MaxChanges
        /\ granted' = IF r \in granted THEN granted \ {r} ELSE granted \cup {r}
        /\ heldGrant' = [heldGrant EXCEPT ![r][(r \in granted')] = now]
        /\ UNCHANGED <<now, member, assigned, access, refresh, permissions, spc, proc, claims, asks, got,
                       heldRole, heldBranch>>
  BY DEF Sessions!Migrate
<1>2. Sessions!TypeOK'
  BY <1>1, SessionsAssumption DEF Sessions!TypeOK
<1>3. now \in Int
  BY DEF Sessions!TypeOK
<1>4. /\ heldGrant' \in [Sessions!Roles -> [BOOLEAN -> Int]]
      /\ \A q \in Sessions!Roles, a \in BOOLEAN :
           heldGrant'[q][a] = IF q = r /\ a = (r \in granted') THEN now ELSE heldGrant[q][a]
  <2> DEFINE to == (r \in granted')
  <2>1. to \in BOOLEAN
    OBVIOUS
  <2>2. heldGrant' = [heldGrant EXCEPT ![r][to] = now]
    BY <1>1
  <2> HIDE DEF to
  <2>3. /\ heldGrant' \in [Sessions!Roles -> [BOOLEAN -> Int]]
        /\ \A q \in Sessions!Roles, a \in BOOLEAN :
             heldGrant'[q][a] = IF q = r /\ a = to THEN now ELSE heldGrant[q][a]
    BY <1>3, <2>1, <2>2 DEF Sessions!HistoryTyped
  <2> QED
    BY <2>3 DEF to
<1>5. Sessions!HistoryTyped'
  <2>1. \A q \in Sessions!Roles, a \in BOOLEAN : heldGrant'[q][a] <= now
    BY <1>3, <1>4 DEF Sessions!HistoryTyped
  <2> QED
    BY <1>1, <1>4, <2>1 DEF Sessions!HistoryTyped
<1>6. Sessions!StillHeld'
  <2>1. ASSUME NEW q \in Sessions!Roles
        PROVE  heldGrant'[q][(q \in granted')] = now
    <3>1. CASE q = r
      <4>1. (r \in granted') \in BOOLEAN
        OBVIOUS
      <4>2. heldGrant'[r][(r \in granted')] = now
        BY <4>1, <1>4
      <4> QED
        BY <3>1, <4>2
    <3>2. CASE q # r
      <4>1. (q \in granted') = (q \in granted)
        BY <1>1, <3>2
      <4>2. (q \in granted) \in BOOLEAN
        OBVIOUS
      <4>3. \A a \in BOOLEAN : heldGrant'[q][a] = heldGrant[q][a]
        BY <1>4, <3>2
      <4>4. heldGrant[q][(q \in granted)] = now
        BY DEF Sessions!StillHeld
      <4> QED
        BY <4>1, <4>2, <4>3, <4>4
    <3> QED
      BY <3>1, <3>2
  <2>2. \A c \in Visits : spc[c] = "storing" =>
          claims[c].role \in Sessions!Roles /\ got[c] \in BOOLEAN
    BY DEF Sessions!CallsInFlight, Sessions!Claims, Sessions!MemberClaims, Sessions!Strangers, Sessions!Roles
  <2>3. \A c \in Visits : spc[c] = "storing" => heldGrant'[claims[c].role][got[c]] = now
    BY <1>4, <2>2 DEF Sessions!StillHeld
  <2> QED
    BY <1>1, <2>1, <2>3 DEF Sessions!StillHeld
<1>7. Sessions!TokensDated'
  BY <1>1, <1>5, TokensStayDated DEF Sessions!HistoryTyped
<1>8. Sessions!EntriesDated'
  <2>1. \A q \in Sessions!Roles, a \in BOOLEAN :
          /\ heldGrant'[q][a] >= heldGrant[q][a]
          /\ heldGrant[q][a] \in Int /\ heldGrant'[q][a] \in Int
    BY <1>3, <1>4 DEF Sessions!HistoryTyped
  <2>2. \A p \in Processes, q \in Sessions!Roles : permissions[p][q] # None =>
          permissions[p][q].allowed \in BOOLEAN /\ permissions[p][q].at \in Nat
    BY DEF Sessions!TypeOK
  <2> QED
    BY <1>1, <2>1, <2>2 DEF Sessions!EntriesDated
<1>9. Sessions!CallsInFlight' /\ Sessions!KeptApart'
  BY <1>1 DEF Sessions!CallsInFlight, Sessions!KeptApart
<1> QED
  BY <1>2, <1>5, <1>6, <1>7, <1>8, <1>9

LEMMA RestartKeeps ==
  ASSUME Sessions!SessionsInv, NEW p \in Processes, Sessions!Restart(p)
  PROVE  Sessions!SessionsInv'
<1> USE DEF Sessions!SessionsInv, Sessions!tables, Sessions!tokens, Sessions!history
<1>1. /\ changes' = changes + 1 /\ changes < MaxChanges
      /\ permissions' = [permissions EXCEPT ![p] = [r \in Sessions!Roles |-> None]]
      /\ UNCHANGED <<now, member, assigned, granted, access, refresh, proc,
                     heldRole, heldBranch, heldGrant>>
  BY DEF Sessions!Restart
<1>2. \A c \in Visits :
        \/ /\ spc'[c] = spc[c] /\ claims'[c] = claims[c] /\ asks'[c] = asks[c] /\ got'[c] = got[c]
        \/ /\ spc'[c] = "failed" /\ claims'[c] = None /\ asks'[c] = None /\ got'[c] = None
  BY DEF Sessions!Restart
<1>3. \A q \in Processes, r \in Sessions!Roles :
        permissions'[q][r] # None => permissions'[q][r] = permissions[q][r]
  BY <1>1 DEF Sessions!TypeOK
<1>4. Sessions!TypeOK'
  <2>1. permissions' \in [Processes -> [Sessions!Roles -> [allowed : BOOLEAN, at : Nat] \cup {None}]]
    <3>1. [r \in Sessions!Roles |-> None] \in [Sessions!Roles -> [allowed : BOOLEAN, at : Nat] \cup {None}]
      BY Zenon
    <3> QED
      BY <1>1, <3>1, Zenon DEF Sessions!TypeOK
  <2>2. /\ DOMAIN claims' = Visits /\ claims' = [c \in Visits |-> claims'[c]]
        /\ asks' = [c \in Visits |-> asks'[c]] /\ got' = [c \in Visits |-> got'[c]]
        /\ spc' = [c \in Visits |-> spc'[c]]
    BY DEF Sessions!Restart
  <2>3. claims' \in [Visits -> Sessions!Claims \cup {None}]
    <3>1. \A c \in Visits : claims'[c] \in Sessions!Claims \cup {None}
      BY <1>2, Zenon DEF Sessions!TypeOK
    <3> QED
      BY <2>2, <3>1, Zenon
  <2>4. asks' \in [Visits -> Sessions!Targets \cup {None}]
    <3>1. \A c \in Visits : asks'[c] \in Sessions!Targets \cup {None}
      BY <1>2, Zenon DEF Sessions!TypeOK
    <3> QED
      BY <2>2, <3>1, Zenon
  <2>5. got' \in [Visits -> BOOLEAN \cup {None}]
    <3>1. \A c \in Visits : got'[c] \in BOOLEAN \cup {None}
      BY <1>2, Zenon DEF Sessions!TypeOK
    <3> QED
      BY <2>2, <3>1, Zenon
  <2>6. spc' \in [Visits -> {"idle", "signing", "fetching", "storing", "done", "admitted", "failed"}]
    BY <1>2, <2>2 DEF Sessions!TypeOK
  <2> QED
    BY <1>1, <1>3, <2>1, <2>3, <2>4, <2>5, <2>6, SessionsAssumption DEF Sessions!TypeOK
<1>5. Sessions!HistoryTyped'
  BY <1>1 DEF Sessions!HistoryTyped
<1>6. Sessions!StillHeld'
  BY <1>1, <1>2 DEF Sessions!StillHeld
<1>7. Sessions!TokensDated'
  BY <1>1, <1>5, TokensStayDated DEF Sessions!HistoryTyped
<1>8. Sessions!EntriesDated'
  BY <1>1, <1>3 DEF Sessions!EntriesDated
<1>9. Sessions!CallsInFlight' /\ Sessions!KeptApart'
  BY <1>2 DEF Sessions!CallsInFlight, Sessions!KeptApart
<1> QED
  BY <1>4, <1>5, <1>6, <1>7, <1>8, <1>9

(* What is true, or in the hands of a call, is carried to the next tick.   *)
LEMMA TickKeeps ==
  ASSUME Sessions!SessionsInv, Sessions!Tick
  PROVE  Sessions!SessionsInv'
<1> USE DEF Sessions!SessionsInv, Sessions!tables, Sessions!callVars
<1>1. /\ now < MaxTime /\ now' = now + 1
      /\ heldRole' = [r \in Sessions!Roles |->
           IF r = member \/ \E c \in Visits : spc[c] = "signing" /\ claims[c].role = r
           THEN now' ELSE heldRole[r]]
      /\ heldBranch' = [b \in Sessions!BranchIds |-> IF b \in assigned THEN now' ELSE heldBranch[b]]
      /\ heldGrant' = [r \in Sessions!Roles |-> [a \in BOOLEAN |->
           IF \/ a = (r \in granted)
              \/ \E c \in Visits : spc[c] = "storing" /\ claims[c].role = r /\ got[c] = a
           THEN now' ELSE heldGrant[r][a]]]
      /\ access' \subseteq access /\ refresh' \subseteq refresh
      /\ UNCHANGED <<member, assigned, granted, permissions, spc, proc, claims, asks, got, changes>>
  BY DEF Sessions!Tick
<1>2. now \in Nat /\ now' \in Nat /\ now <= now'
  BY <1>1 DEF Sessions!TypeOK
<1>3. Sessions!TypeOK'
  BY <1>1, <1>2, SessionsAssumption DEF Sessions!TypeOK
<1>4. \A r \in Sessions!Roles : heldRole'[r] \in {now', heldRole[r]}
  BY <1>1
<1>5. \A b \in Sessions!BranchIds : heldBranch'[b] \in {now', heldBranch[b]}
  BY <1>1
<1>6. \A r \in Sessions!Roles, a \in BOOLEAN : heldGrant'[r][a] \in {now', heldGrant[r][a]}
  BY <1>1
<1>7. Sessions!HistoryTyped'
  <2>1. heldRole' \in [Sessions!Roles -> Int] /\ \A r \in Sessions!Roles : heldRole'[r] <= now'
    BY <1>1, <1>2 DEF Sessions!HistoryTyped
  <2>2. heldBranch' \in [Sessions!BranchIds -> Int] /\ \A b \in Sessions!BranchIds : heldBranch'[b] <= now'
    BY <1>1, <1>2 DEF Sessions!HistoryTyped
  <2>3. heldGrant' \in [Sessions!Roles -> [BOOLEAN -> Int]]
    BY <1>1, <1>2 DEF Sessions!HistoryTyped
  <2>4. \A r \in Sessions!Roles, a \in BOOLEAN : heldGrant'[r][a] <= now'
    BY <1>2, <1>6 DEF Sessions!HistoryTyped
  <2> QED
    BY <2>1, <2>2, <2>3, <2>4 DEF Sessions!HistoryTyped
<1>8. Sessions!StillHeld'
  <2>1. member # None => heldRole'[member] = now'
    BY <1>1, SessionsAssumption DEF Sessions!TypeOK
  <2>2. \A b \in assigned : heldBranch'[b] = now'
    BY <1>1 DEF Sessions!TypeOK, Sessions!BranchIds
  <2>3. \A r \in Sessions!Roles : heldGrant'[r][(r \in granted)] = now'
    BY <1>1
  <2>4. ASSUME NEW c \in Visits, spc[c] = "signing"
        PROVE  heldRole'[claims[c].role] = now'
    BY <1>1, <2>4, SigningRole
  <2>5. ASSUME NEW c \in Visits, spc[c] = "storing"
        PROVE  heldGrant'[claims[c].role][got[c]] = now'
    <3>1. claims[c].role \in Sessions!Roles /\ got[c] \in BOOLEAN
      BY <2>5 DEF Sessions!CallsInFlight, Sessions!Claims, Sessions!MemberClaims, Sessions!Strangers, Sessions!Roles
    <3> QED
      BY <1>1, <2>5, <3>1
  <2> QED
    BY <1>1, <2>1, <2>2, <2>3, <2>4, <2>5 DEF Sessions!StillHeld
<1>9. Sessions!TokensDated'
  <2>1. \A r \in Sessions!Roles : heldRole'[r] >= heldRole[r]
    BY <1>2, <1>4 DEF Sessions!HistoryTyped
  <2>2. \A b \in Sessions!BranchIds : heldBranch'[b] >= heldBranch[b]
    BY <1>2, <1>5 DEF Sessions!HistoryTyped
  <2> QED
    BY <1>1, <1>7, <2>1, <2>2, TokensStayDated
<1>10. Sessions!EntriesDated'
  <2>1. \A r \in Sessions!Roles, a \in BOOLEAN :
          /\ heldGrant'[r][a] >= heldGrant[r][a]
          /\ heldGrant[r][a] \in Int /\ heldGrant'[r][a] \in Int
    BY <1>2, <1>6 DEF Sessions!HistoryTyped
  <2>2. \A p \in Processes, r \in Sessions!Roles : permissions[p][r] # None =>
          permissions[p][r].allowed \in BOOLEAN /\ permissions[p][r].at \in Nat
    BY DEF Sessions!TypeOK
  <2> QED
    BY <1>1, <2>1, <2>2 DEF Sessions!EntriesDated
<1>11. Sessions!CallsInFlight' /\ Sessions!KeptApart'
  BY <1>1 DEF Sessions!CallsInFlight, Sessions!KeptApart
<1> QED
  BY <1>3, <1>7, <1>8, <1>9, <1>10, <1>11

LEMMA SessionsStep ==
  ASSUME Sessions!SessionsInv, [Sessions!Next]_(Sessions!vars)
  PROVE  Sessions!SessionsInv'
<1>1. CASE UNCHANGED Sessions!vars
  BY <1>1 DEF Sessions!vars, Sessions!tables, Sessions!tokens, Sessions!callVars, Sessions!history,
     Sessions!SessionsInv, Sessions!TypeOK, Sessions!HistoryTyped, Sessions!StillHeld,
     Sessions!TokensDated, Sessions!LastHeld, Sessions!EntriesDated, Sessions!CallsInFlight,
     Sessions!KeptApart
<1>2. CASE Sessions!Next
  BY <1>2, FindMembershipKeeps, SignKeeps, AuthenticateKeeps, FetchPermissionsKeeps,
     StorePermissionsKeeps, RefreshKeeps, RestartKeeps, ChangeMemberKeeps, MigrateKeeps, TickKeeps
     DEF Sessions!Next
<1> QED
  BY <1>1, <1>2

(* The inductive invariant of tokens, guards and permission caches.        *)
THEOREM SessionsInvariant == Sessions!Spec => []Sessions!SessionsInv
<1>1. Sessions!Init => Sessions!SessionsInv
  BY SessionsInit
<1>2. Sessions!SessionsInv /\ [Sessions!Next]_(Sessions!vars) => Sessions!SessionsInv'
  BY SessionsStep
<1> QED
  BY <1>1, <1>2, PTL DEF Sessions!Spec

(* Whatever a token claims was true within the life of a refresh token and *)
(* of an access token, for any of these lives (auth.service.ts, refresh).  *)
THEOREM ClaimsAlwaysExpire == Sessions!Spec => []ClaimsExpire
<1>1. Sessions!SessionsInv => ClaimsExpire
  <2> SUFFICES ASSUME Sessions!SessionsInv, NEW t \in access, now < t.exp,
                      NEW held \in Sessions!LastHeld(t.claims)
               PROVE  now - held <= (RefreshLife - 1) + (AccessLife - 1)
    BY DEF ClaimsExpire, Sessions!ClaimsExpire
  <2>1. t.exp - AccessLife - (RefreshLife - 1) <= held
    BY DEF Sessions!SessionsInv, Sessions!TokensDated
  <2>2. now \in Int /\ t.exp \in Int
    BY TokensTyped DEF Sessions!SessionsInv, Sessions!TypeOK
  <2>3. held \in Int
    BY TokensTyped DEF Sessions!LastHeld, Sessions!SessionsInv, Sessions!HistoryTyped
  <2> QED
    BY <2>1, <2>2, <2>3, SessionsAssumption
<1> QED
  BY <1>1, SessionsInvariant, PTL

(* Whatever a permission cache still answers was true less than one TTL    *)
(* ago (permission-cache.service.ts, getPermissions).                      *)
THEOREM PermissionsAlwaysExpire == Sessions!Spec => []PermissionsExpire
<1>1. Sessions!SessionsInv => PermissionsExpire
  <2> SUFFICES ASSUME Sessions!SessionsInv, NEW p \in Processes, NEW r \in Sessions!Roles,
                      Sessions!Cached(p, r)
               PROVE  now - heldGrant[r][permissions[p][r].allowed] < CacheLife
    BY DEF PermissionsExpire, Sessions!PermissionsExpire
  <2> DEFINE entry == permissions[p][r]
  <2>1. entry # None /\ now - entry.at < CacheLife
    BY DEF Sessions!Cached
  <2>2. entry.at <= heldGrant[r][entry.allowed]
    BY <2>1 DEF Sessions!SessionsInv, Sessions!EntriesDated
  <2>3. entry.at \in Int /\ entry.allowed \in BOOLEAN /\ now \in Int
    BY <2>1 DEF Sessions!SessionsInv, Sessions!TypeOK
  <2>4. heldGrant[r][entry.allowed] \in Int
    BY <2>3 DEF Sessions!SessionsInv, Sessions!HistoryTyped
  <2> QED
    BY <2>1, <2>2, <2>3, <2>4, SessionsAssumption
<1> QED
  BY <1>1, SessionsInvariant, PTL

(* No guard, whichever routes it stands on and however the claims and the  *)
(* caches lag behind, lets a member act on another restaurant's rows, or   *)
(* on a branch that is not in the token (rbac.ts, product.service.ts).     *)
THEOREM RestaurantsKeptApart == Sessions!Spec => []KeptApart
<1>1. Sessions!SessionsInv => KeptApart
  BY DEF Sessions!SessionsInv, KeptApart
<1> QED
  BY <1>1, SessionsInvariant, PTL
-----------------------------------------------------------------------------
(* Catalog: a call that moves, the tables, one lemma per action.           *)

(* The product that is there has its rows.                                 *)
LEMMA CatalogInit == Catalog!Init => Catalog!CatalogInv
<1> SUFFICES ASSUME Catalog!Init PROVE Catalog!CatalogInv
  OBVIOUS
<1> USE DEF Catalog!Init, Catalog!Pairs
<1>1. \A p \in Products : products[p] = IF p # Old THEN None
                          ELSE [restaurant |-> OldHome, category |-> None]
  OBVIOUS
<1>2. [restaurant |-> OldHome, category |-> None] \in Catalog!Row
  BY CatalogAssumption DEF Catalog!Row, Catalog!Restaurants
<1>3. \A b \in Branches, p \in Products :
        details[<<b, p>>] = IF p = Old /\ b \in Opened /\ Home[b] = OldHome THEN "trigger" ELSE None
  OBVIOUS
<1>4. Catalog!TypeOK
  <2>1. products \in [Products -> Catalog!Row \cup {None}]
    BY <1>2, Zenon
  <2>2. details \in [Catalog!Pairs -> Catalog!Callers \cup {"trigger", None}]
    OBVIOUS
  <2>3. inserted \in [Products -> [row : Catalog!Row, at : SUBSET Branches] \cup {None}]
    BY Zenon
  <2>4. args \in [Calls -> Catalog!Args \cup {None}]
    BY Zenon
  <2> QED
    BY <2>1, <2>2, <2>3, <2>4, CatalogAssumption DEF Catalog!TypeOK
<1>5. Catalog!Provisioning
  BY <1>1, <1>2, <1>3, CatalogAssumption DEF Catalog!Provisioning, Catalog!Drawn
<1>6. Catalog!CallsInFlight /\ Catalog!InsertsApart /\ Catalog!EditsKnown /\ Catalog!HalfDoneOnlyWithoutRow
  BY DEF Catalog!CallsInFlight, Catalog!InFlight, Catalog!InsertsApart, Catalog!EditsKnown,
         Catalog!HalfDoneOnlyWithoutRow
<1>7. Catalog!ProvisionedExactly
  BY <1>1, <1>3, CatalogAssumption DEF Catalog!ProvisionedExactly
<1>8. Catalog!CatalogStaysHome
  BY <1>1, <1>3 DEF Catalog!CatalogStaysHome
<1> QED
  BY <1>4, <1>5, <1>6, <1>7, <1>8 DEF Catalog!CatalogInv

(* One call moves, the others may rely on what they relied on.             *)
LEMMA OthersGoOn ==
  ASSUME Catalog!CatalogInv, Catalog!TypeOK', NEW c \in Calls,
         \A d \in Calls \ {c} : /\ cpc'[d] = cpc[d] /\ args'[d] = args[d]
                                /\ d \in edited' <=> d \in edited
                                /\ cpc[d] = "inserted" => inserted'[args[d].product] # None
                                /\ cpc[d] = "opening" => args[d].branch \in opening',
         broken \subseteq broken', categories \subseteq categories',
         \A p \in Products : products[p] # None =>
           products'[p] # None /\ products'[p].restaurant = products[p].restaurant,
         \A b \in Branches, p \in Products :
           products[p] # None /\ details[<<b, p>>] = None => details'[<<b, p>>] = None,
         Catalog!InFlight(c)',
         \A d \in Calls \ {c} :
           /\ cpc'[c] = "inserted" /\ cpc[d] = "inserted" => args'[c].product # args[d].product
           /\ cpc'[c] = "opening" /\ cpc[d] = "opening" => args'[c].branch # args[d].branch,
         c \in edited' =>
           /\ cpc'[c] \in {"patching", "failed"} /\ args'[c] \in Catalog!Args
           /\ args'[c].branch # None /\ args'[c].product # None
           /\ products'[args'[c].product] # None
           /\ cpc'[c] = "failed" =>
                c \in broken' \/ details'[<<args'[c].branch, args'[c].product>>] = None
  PROVE  /\ Catalog!CallsInFlight' /\ Catalog!InsertsApart'
         /\ Catalog!EditsKnown' /\ Catalog!HalfDoneOnlyWithoutRow'
<1> USE DEF Catalog!CatalogInv
<1>1. \A d \in Calls : args[d] \in Catalog!Args =>
        args[d].product \in Products \cup {None} /\ args[d].branch \in Branches \cup {None}
  BY DEF Catalog!Args
<1>2. ASSUME NEW d \in Calls, d # c PROVE Catalog!InFlight(d)'
  BY <1>1, <1>2 DEF Catalog!CallsInFlight, Catalog!InFlight, Catalog!Category, Catalog!MayActFor
<1>3. Catalog!CallsInFlight'
  BY <1>2 DEF Catalog!CallsInFlight
<1>4. Catalog!InsertsApart'
  BY DEF Catalog!InsertsApart
<1>5. ASSUME NEW d \in edited', d # c
      PROVE  /\ cpc'[d] \in {"patching", "failed"} /\ args'[d] \in Catalog!Args
             /\ args'[d].branch # None /\ args'[d].product # None
             /\ products'[args'[d].product] # None
             /\ cpc'[d] = "failed" =>
                  d \in broken' \/ details'[<<args'[d].branch, args'[d].product>>] = None
  <2>1. d \in Calls /\ d \in edited
    BY <1>5 DEF Catalog!TypeOK
  <2>2. /\ cpc[d] \in {"patching", "failed"} /\ args[d] \in Catalog!Args
        /\ args[d].branch \in Branches /\ args[d].product \in Products
        /\ products[args[d].product] # None
    BY <2>1, <1>1 DEF Catalog!EditsKnown
  <2>3. cpc[d] = "failed" => d \in broken \/ details[<<args[d].branch, args[d].product>>] = None
    BY <2>1 DEF Catalog!HalfDoneOnlyWithoutRow
  <2>4. cpc'[d] = cpc[d] /\ args'[d] = args[d]
    BY <1>5, <2>1
  <2>5. details[<<args[d].branch, args[d].product>>] = None
          => details'[<<args[d].branch, args[d].product>>] = None
    BY <2>2
  <2>6. args[d].branch # None /\ args[d].product # None /\ products'[args[d].product] # None
    BY <2>1, <2>2 DEF Catalog!EditsKnown
  <2> QED
    BY <2>2, <2>3, <2>4, <2>5, <2>6
<1>6. Catalog!EditsKnown'
  BY <1>5 DEF Catalog!EditsKnown
<1>7. Catalog!HalfDoneOnlyWithoutRow'
  BY <1>5 DEF Catalog!HalfDoneOnlyWithoutRow
<1> QED
  BY <1>3, <1>4, <1>6, <1>7

(* The rows and what the trigger did are as they were.                     *)
LEMMA SameCatalog ==
  ASSUME Catalog!CatalogInv, categories \subseteq categories',
         UNCHANGED <<branches, products, details, inserted, late>>
  PROVE  Catalog!Provisioning' /\ Catalog!ProvisionedExactly' /\ Catalog!CatalogStaysHome'
<1> USE DEF Catalog!CatalogInv
<1>1. Catalog!Provisioning'
  BY DEF Catalog!Provisioning, Catalog!Drawn, Catalog!AtHome
<1>2. Catalog!ProvisionedExactly'
  BY DEF Catalog!ProvisionedExactly
<1>3. Catalog!CatalogStaysHome'
  BY DEF Catalog!CatalogStaysHome
<1> QED
  BY <1>1, <1>2, <1>3

(* A call moves on, and leaves the tables and its history alone.           *)
LEMMA CallMovesOn ==
  ASSUME Catalog!CatalogInv, NEW c \in Calls, NEW to, NEW a \in Catalog!Args \cup {None},
         to \in {"looking", "writing", "naming", "done", "failed"},
         cpc[c] \notin {"patching", "failed"},
         cpc' = [cpc EXCEPT ![c] = to], args' = [args EXCEPT ![c] = a],
         UNCHANGED <<branches, products, details, inserted, opening, edited, broken, late>>,
         \/ categories' = categories
         \/ /\ categories' = categories \cup {Catalog!Category(c)}
            /\ Catalog!Category(c) \in Catalog!Restaurants \X Catalog!Names,
         cfaults' \in Nat,
         Catalog!InFlight(c)'
  PROVE  Catalog!CatalogInv'
<1> USE DEF Catalog!CatalogInv
<1>1. Catalog!TypeOK'
  <2>1. args' \in [Calls -> Catalog!Args \cup {None}]
    BY Zenon DEF Catalog!TypeOK
  <2>2. cpc' \in [Calls -> {"idle", "looking", "naming", "writing", "inserted", "patching",
                            "opening", "done", "failed"}]
    BY DEF Catalog!TypeOK
  <2>3. categories' \in SUBSET (Catalog!Restaurants \X Catalog!Names)
    BY DEF Catalog!TypeOK
  <2> QED
    BY <2>1, <2>2, <2>3 DEF Catalog!TypeOK
<1>2. cpc'[c] = to /\ args'[c] = a /\ \A d \in Calls \ {c} : cpc'[d] = cpc[d] /\ args'[d] = args[d]
  BY DEF Catalog!TypeOK
<1>3. c \notin edited
  BY DEF Catalog!EditsKnown
<1>4. \A d \in Calls : /\ cpc[d] = "inserted" => inserted[args[d].product] # None
                       /\ cpc[d] = "opening" => args[d].branch \in opening
  BY DEF Catalog!CallsInFlight, Catalog!InFlight
<1>5. /\ Catalog!CallsInFlight' /\ Catalog!InsertsApart'
      /\ Catalog!EditsKnown' /\ Catalog!HalfDoneOnlyWithoutRow'
  BY <1>1, <1>2, <1>3, <1>4, OthersGoOn
<1>6. Catalog!Provisioning' /\ Catalog!ProvisionedExactly' /\ Catalog!CatalogStaysHome'
  BY SameCatalog
<1> QED
  BY <1>1, <1>5, <1>6

LEMMA TurnedAwayKeepsCatalog ==
  ASSUME Catalog!CatalogInv, NEW c \in Calls, Catalog!TurnedAway(c)
  PROVE  Catalog!CatalogInv'
<1> USE DEF Catalog!TurnedAway, Catalog!Move, Catalog!tables
<1>1. /\ args[c] \in Catalog!Args \cup {None} /\ args' = [args EXCEPT ![c] = args[c]]
      /\ cfaults' \in Nat /\ cpc'[c] = "done"
  BY DEF Catalog!CatalogInv, Catalog!TypeOK
<1>2. Catalog!InFlight(c)'
  BY <1>1 DEF Catalog!InFlight
<1> QED
  BY <1>1, <1>2, CallMovesOn

LEMMA CreateKeepsCatalog ==
  ASSUME Catalog!CatalogInv, NEW c \in Calls, Catalog!Create(c)
  PROVE  Catalog!CatalogInv'
<1> USE DEF Catalog!Move, Catalog!tables
<1>1. PICK a \in [who : Catalog!Callers, restaurant : Catalog!Restaurants,
                  name : Catalog!Names \cup {None}, product : {None}, branch : {None}] :
        /\ Catalog!MayActFor(a.who, a.restaurant)
        /\ cpc[c] = "idle" /\ cpc' = [cpc EXCEPT ![c] = IF a.name = None THEN "writing" ELSE "looking"]
        /\ args' = [args EXCEPT ![c] = a]
        /\ UNCHANGED <<branches, products, categories, details, inserted, opening,
                       edited, broken, late, cfaults>>
  BY DEF Catalog!Create
<1>2. a \in Catalog!Args /\ a.product = None
  BY DEF Catalog!Args
<1>3. cfaults' \in Nat /\ args'[c] = a /\ cpc'[c] = IF a.name = None THEN "writing" ELSE "looking"
  BY <1>1 DEF Catalog!CatalogInv, Catalog!TypeOK
<1>4. Catalog!InFlight(c)'
  BY <1>2, <1>3 DEF Catalog!InFlight
<1>5. /\ cpc[c] \notin {"patching", "failed"} /\ categories' = categories
      /\ UNCHANGED <<branches, products, details, inserted, opening, edited, broken, late>>
  BY <1>1
<1> QED
  BY <1>1, <1>2, <1>3, <1>4, <1>5, CallMovesOn

LEMMA UpdateKeepsCatalog ==
  ASSUME Catalog!CatalogInv, NEW c \in Calls, Catalog!Update(c)
  PROVE  Catalog!CatalogInv'
<1> USE DEF Catalog!Move, Catalog!tables
<1>1. PICK p \in Products, who \in Catalog!Callers, n \in Catalog!Names \cup {None},
           b \in Branches \cup {None} :
        /\ products[p] # None /\ Catalog!MayActFor(who, products[p].restaurant)
        /\ cpc[c] = "idle" /\ cpc' = [cpc EXCEPT ![c] = IF n = None THEN "writing" ELSE "looking"]
        /\ args' = [args EXCEPT ![c] = [who |-> who, restaurant |-> products[p].restaurant,
                                        name |-> n, product |-> p, branch |-> b]]
        /\ UNCHANGED <<branches, products, categories, details, inserted, opening,
                       edited, broken, late, cfaults>>
  BY DEF Catalog!Update
<1> DEFINE a == [who |-> who, restaurant |-> products[p].restaurant,
                 name |-> n, product |-> p, branch |-> b]
<1>2. products[p].restaurant \in Catalog!Restaurants
  BY <1>1 DEF Catalog!CatalogInv, Catalog!TypeOK, Catalog!Row
<1>3. /\ a \in Catalog!Args /\ a.product = p /\ a.restaurant = products[p].restaurant
      /\ a.name = n /\ a.who = who
  BY <1>2 DEF Catalog!Args
<1>4. args' = [args EXCEPT ![c] = a]
  BY <1>1
<1> HIDE DEF a
<1>5. cfaults' \in Nat /\ args'[c] = a /\ cpc'[c] = IF n = None THEN "writing" ELSE "looking"
  BY <1>1, <1>4 DEF Catalog!CatalogInv, Catalog!TypeOK
<1>6. Catalog!InFlight(c)'
  BY <1>1, <1>3, <1>5 DEF Catalog!InFlight, Catalog!MayActFor
<1>7. /\ cpc[c] \notin {"patching", "failed"} /\ categories' = categories
      /\ UNCHANGED <<branches, products, details, inserted, opening, edited, broken, late>>
  BY <1>1
<1> QED
  BY <1>1, <1>3, <1>4, <1>5, <1>6, <1>7, CallMovesOn

LEMMA FindCategoryKeepsCatalog ==
  ASSUME Catalog!CatalogInv, NEW c \in Calls, Catalog!FindCategory(c)
  PROVE  Catalog!CatalogInv'
<1> USE DEF Catalog!FindCategory, Catalog!Move, Catalog!tables
<1>1. /\ args[c] \in Catalog!Args \cup {None} /\ args' = [args EXCEPT ![c] = args[c]]
      /\ cfaults' \in Nat
      /\ cpc'[c] = IF Catalog!Category(c) \in categories THEN "writing" ELSE "naming"
  BY DEF Catalog!CatalogInv, Catalog!TypeOK
<1>2. Catalog!InFlight(c)
  BY DEF Catalog!CatalogInv, Catalog!CallsInFlight
<1>3. Catalog!InFlight(c)'
  BY <1>1, <1>2 DEF Catalog!InFlight, Catalog!Category
<1>4. /\ cpc[c] \notin {"patching", "failed"} /\ categories' = categories
      /\ UNCHANGED <<branches, products, details, inserted, opening, edited, broken, late>>
  OBVIOUS
<1>5. CASE Catalog!Category(c) \in categories
  <2>1. cpc' = [cpc EXCEPT ![c] = "writing"]
    BY <1>5
  <2> QED
    BY <1>1, <1>3, <1>4, <2>1, CallMovesOn
<1>6. CASE Catalog!Category(c) \notin categories
  <2>1. cpc' = [cpc EXCEPT ![c] = "naming"]
    BY <1>6
  <2> QED
    BY <1>1, <1>3, <1>4, <2>1, CallMovesOn
<1> QED
  BY <1>5, <1>6

LEMMA CreateCategoryKeepsCatalog ==
  ASSUME Catalog!CatalogInv, NEW c \in Calls, Catalog!CreateCategory(c)
  PROVE  Catalog!CatalogInv'
<1> USE DEF Catalog!CreateCategory, Catalog!Move, Catalog!Forget
<1>1. Catalog!InFlight(c) /\ args[c] \in Catalog!Args /\ args[c].name # None
  BY DEF Catalog!CatalogInv, Catalog!CallsInFlight, Catalog!InFlight
<1>2. Catalog!Category(c) = <<args[c].restaurant, args[c].name>>
      /\ Catalog!Category(c) \in Catalog!Restaurants \X Catalog!Names
  BY <1>1 DEF Catalog!Category, Catalog!Args
<1>3. c \notin edited /\ cfaults' \in Nat
  BY DEF Catalog!CatalogInv, Catalog!EditsKnown, Catalog!TypeOK
<1>4. CASE Catalog!Category(c) \in categories
  <2>1. cpc' = [cpc EXCEPT ![c] = "done"] /\ cpc'[c] = "done"
    BY <1>4 DEF Catalog!CatalogInv, Catalog!TypeOK
  <2>2. args' = [args EXCEPT ![c] = None] /\ edited' = edited
    BY <2>1, <1>3
  <2>3. Catalog!InFlight(c)'
    BY <2>1 DEF Catalog!InFlight
  <2> QED
    BY <1>2, <1>3, <2>1, <2>2, <2>3, CallMovesOn
<1>5. CASE Catalog!Category(c) \notin categories
  <2>1. cpc' = [cpc EXCEPT ![c] = "writing"] /\ cpc'[c] = "writing"
    BY <1>5 DEF Catalog!CatalogInv, Catalog!TypeOK
  <2>2. args' = args /\ edited' = edited /\ args' = [args EXCEPT ![c] = args[c]]
    BY <2>1 DEF Catalog!CatalogInv, Catalog!TypeOK
  <2>3. Catalog!InFlight(c)'
    BY <1>1, <2>1, <2>2 DEF Catalog!InFlight, Catalog!Category
  <2> QED
    BY <1>1, <1>2, <1>3, <2>1, <2>2, <2>3, CallMovesOn
<1> QED
  BY <1>4, <1>5

(* An update of the category leaves the rest of a row alone.               *)
LEMMA Recategorized ==
  ASSUME NEW r \in Catalog!Row, NEW v \in (Catalog!Restaurants \X Catalog!Names) \cup {None},
         NEW new, new = [r EXCEPT !.category = v]
  PROVE  new \in Catalog!Row /\ new.restaurant = r.restaurant /\ new.category = v
  BY DEF Catalog!Row

(* What an open insert relies on.                                          *)
LEMMA OpenCalls ==
  ASSUME Catalog!CatalogInv, NEW d \in Calls
  PROVE  /\ cpc[d] = "inserted" => inserted[args[d].product] # None
         /\ cpc[d] = "opening" => args[d].branch \in opening
  BY DEF Catalog!CatalogInv, Catalog!CallsInFlight, Catalog!InFlight

LEMMA UpdateProductKeepsCatalog ==
  ASSUME Catalog!CatalogInv, NEW c \in Calls, Catalog!UpdateProduct(c)
  PROVE  Catalog!CatalogInv'
<1> USE DEF Catalog!CatalogInv, Catalog!Forget
<1> DEFINE p == args[c].product
           cat == Catalog!Category(c)
           new == IF cat = None THEN products[p] ELSE [products[p] EXCEPT !.category = cat]
<1>1. /\ cpc[c] = "writing" /\ p # None
      /\ cpc' = [cpc EXCEPT ![c] = IF args[c].branch = None THEN "done" ELSE "patching"]
      /\ UNCHANGED <<branches, categories, details, inserted, opening, broken, late, cfaults>>
  BY DEF Catalog!UpdateProduct
<1>2. Catalog!InFlight(c)
  BY DEF Catalog!CallsInFlight
<1>3. /\ args[c] \in Catalog!Args /\ p \in Products /\ args[c].branch \in Branches \cup {None}
      /\ products[p] \in Catalog!Row /\ products[p] # None
      /\ products[p].restaurant = args[c].restaurant
      /\ Catalog!MayActFor(args[c].who, args[c].restaurant)
  BY <1>1, <1>2 DEF Catalog!InFlight, Catalog!Args, Catalog!TypeOK
<1>4. cat # None => cat \in categories /\ cat[1] = args[c].restaurant
  BY <1>1, <1>2, <1>3 DEF Catalog!InFlight, Catalog!Category
<1>5. categories \subseteq Catalog!Restaurants \X Catalog!Names
  BY DEF Catalog!TypeOK
<1>6. /\ new \in Catalog!Row /\ new.restaurant = products[p].restaurant
      /\ new.category = IF cat = None THEN products[p].category ELSE cat
  <2>1. CASE cat = None
    BY <2>1, <1>3
  <2>2. CASE cat # None
    BY <2>2, <1>3, <1>4, <1>5, Recategorized
  <2> QED
    BY <2>1, <2>2
<1>7. products' = [products EXCEPT ![p] = new]
  <2>1. products' = [products EXCEPT ![p].category = IF cat = None THEN @ ELSE cat]
    BY DEF Catalog!UpdateProduct
  <2>2. CASE cat = None
    BY <2>1, <2>2, <1>3 DEF Catalog!TypeOK, Catalog!Row
  <2>3. CASE cat # None
    BY <2>1, <2>3, <1>3 DEF Catalog!TypeOK
  <2> QED
    BY <2>2, <2>3
<1>8. c \notin edited
  BY <1>1 DEF Catalog!EditsKnown
<1>9. /\ cpc'[c] = IF args[c].branch = None THEN "done" ELSE "patching"
      /\ \A d \in Calls \ {c} : cpc'[d] = cpc[d]
      /\ cpc' \in [Calls -> {"idle", "looking", "naming", "writing", "inserted", "patching",
                             "opening", "done", "failed"}]
  BY <1>1 DEF Catalog!TypeOK
<1>10. /\ args' \in [Calls -> Catalog!Args \cup {None}]
       /\ \A d \in Calls \ {c} : args'[d] = args[d] /\ (d \in edited' <=> d \in edited)
       /\ cpc'[c] = "patching" => args'[c] = args[c]
       /\ c \in edited' => cpc'[c] = "patching"
       /\ edited' \in SUBSET Calls
  <2>1. CASE args[c].branch = None
    <3>1. args' = [args EXCEPT ![c] = None] /\ edited' = edited /\ cpc'[c] = "done"
      BY <2>1, <1>8, <1>9 DEF Catalog!UpdateProduct
    <3>2. args' \in [Calls -> Catalog!Args \cup {None}]
      BY <3>1, Zenon DEF Catalog!TypeOK
    <3>3. \A d \in Calls \ {c} : args'[d] = args[d]
      BY <3>1 DEF Catalog!TypeOK
    <3> QED
      BY <3>1, <3>2, <3>3, <1>8 DEF Catalog!TypeOK
  <2>2. CASE args[c].branch # None
    <3>1. args' = args /\ edited' = edited \cup {c} /\ cpc'[c] = "patching"
      BY <2>2, <1>9 DEF Catalog!UpdateProduct
    <3> QED
      BY <3>1 DEF Catalog!TypeOK
  <2> QED
    BY <2>1, <2>2
<1> HIDE DEF p, cat, new
<1>11. /\ \A q \in Products : products'[q] = IF q = p THEN new ELSE products[q]
       /\ products' \in [Products -> Catalog!Row \cup {None}]
  <2>1. products' \in [Products -> Catalog!Row \cup {None}]
    BY <1>6, <1>7, Zenon DEF Catalog!TypeOK
  <2> QED
    BY <2>1, <1>7 DEF Catalog!TypeOK
<1>12. new # None
  BY <1>6, CatalogAssumption
<1>13. Catalog!TypeOK'
  BY <1>1, <1>9, <1>10, <1>11 DEF Catalog!TypeOK
<1>14. \A q \in Products : products[q] # None =>
         products'[q] # None /\ products'[q].restaurant = products[q].restaurant
  BY <1>6, <1>11, <1>12
<1>15. Catalog!InFlight(c)'
  <2>1. products'[args[c].product] # None /\ products'[args[c].product].restaurant = args[c].restaurant
    BY <1>3, <1>14 DEF p
  <2> QED
    BY <1>1, <1>3, <1>9, <1>10, <2>1 DEF Catalog!InFlight, Catalog!MayActFor, p
<1>16. c \in edited' =>
         /\ cpc'[c] = "patching" /\ args'[c] \in Catalog!Args
         /\ args'[c].branch # None /\ args'[c].product # None
         /\ products'[args'[c].product] # None
  BY <1>1, <1>3, <1>9, <1>10, <1>14 DEF p
<1>17. /\ Catalog!CallsInFlight' /\ Catalog!InsertsApart'
       /\ Catalog!EditsKnown' /\ Catalog!HalfDoneOnlyWithoutRow'
  BY <1>1, <1>9, <1>10, <1>13, <1>14, <1>15, <1>16, OthersGoOn, OpenCalls
<1>18. Catalog!Provisioning'
  <2>1. Catalog!Drawn' = Catalog!Drawn
    BY <1>1, <1>3, <1>11, <1>12 DEF Catalog!Drawn, p
  <2>2. \A q \in Products : products'[q] = None <=> products[q] = None
    BY <1>3, <1>11, <1>12 DEF p
  <2> QED
    BY <1>1, <2>1, <2>2 DEF Catalog!Provisioning, Catalog!AtHome
<1>19. Catalog!ProvisionedExactly'
  BY <1>1, <1>3, <1>6, <1>11, <1>12 DEF Catalog!ProvisionedExactly, p
<1>20. Catalog!CatalogStaysHome'
  <2> SUFFICES ASSUME NEW q \in Products, products'[q] # None
               PROVE  /\ products'[q].category # None =>
                           products'[q].category \in categories
                             /\ products'[q].category[1] = products'[q].restaurant
                      /\ \A b \in Branches : details[<<b, q>>] # None => Home[b] = products'[q].restaurant
    BY <1>1 DEF Catalog!CatalogStaysHome
  <2>1. CASE q # p
    BY <2>1, <1>11 DEF Catalog!CatalogStaysHome
  <2>2. CASE q = p
    BY <2>2, <1>3, <1>4, <1>6, <1>11 DEF Catalog!CatalogStaysHome, p
  <2> QED
    BY <2>1, <2>2
<1> QED
  BY <1>13, <1>17, <1>18, <1>19, <1>20

LEMMA PatchRowKeepsCatalog ==
  ASSUME Catalog!CatalogInv, NEW c \in Calls, Catalog!PatchRow(c)
  PROVE  Catalog!CatalogInv'
<1> USE DEF Catalog!CatalogInv
<1> DEFINE bp == <<args[c].branch, args[c].product>>
<1>1. /\ cpc[c] = "patching"
      /\ cpc' = [cpc EXCEPT ![c] = IF details[bp] = None THEN "failed" ELSE "done"]
      /\ details' = [details EXCEPT ![bp] = IF details[bp] = None THEN None ELSE args[c].who]
      /\ args' = [args EXCEPT ![c] = IF cpc'[c] = "failed" /\ c \in edited THEN args[c] ELSE None]
      /\ edited' = IF cpc'[c] = "done" THEN edited \ {c} ELSE edited
      /\ UNCHANGED <<branches, products, categories, inserted, opening, broken, late, cfaults>>
  BY DEF Catalog!PatchRow, Catalog!Move, Catalog!Forget
<1>2. Catalog!InFlight(c)
  BY DEF Catalog!CallsInFlight
<1>3. /\ args[c] \in Catalog!Args /\ args[c].branch \in Branches /\ args[c].product \in Products
      /\ args[c].who \in Catalog!Callers /\ bp \in Catalog!Pairs
      /\ products[args[c].product] # None
  BY <1>1, <1>2 DEF Catalog!InFlight, Catalog!Args, Catalog!Pairs
<1> HIDE DEF bp
<1>4. /\ details' \in [Catalog!Pairs -> Catalog!Callers \cup {"trigger", None}]
      /\ \A b \in Branches, q \in Products : details'[<<b, q>>] = None <=> details[<<b, q>>] = None
  <2>1. details' \in [Catalog!Pairs -> Catalog!Callers \cup {"trigger", None}]
    BY <1>1, <1>3, Zenon DEF Catalog!TypeOK
  <2>2. args[c].who # None
    BY <1>3, CatalogAssumption
  <2>3. \A x \in Catalog!Pairs : details'[x] = None <=> details[x] = None
    BY <1>1, <1>3, <2>2 DEF Catalog!TypeOK
  <2> QED
    BY <2>1, <2>3 DEF Catalog!Pairs
<1>5. /\ cpc'[c] = IF details[bp] = None THEN "failed" ELSE "done"
      /\ \A d \in Calls \ {c} : cpc'[d] = cpc[d]
      /\ cpc' \in [Calls -> {"idle", "looking", "naming", "writing", "inserted", "patching",
                             "opening", "done", "failed"}]
  BY <1>1 DEF Catalog!TypeOK
<1>6. /\ \A d \in Calls \ {c} : args'[d] = args[d] /\ (d \in edited' <=> d \in edited)
      /\ args'[c] = IF cpc'[c] = "failed" /\ c \in edited THEN args[c] ELSE None
      /\ edited' \subseteq edited
  BY <1>1 DEF Catalog!TypeOK
<1>7. args' \in [Calls -> Catalog!Args \cup {None}]
  BY <1>1, <1>3, Zenon DEF Catalog!TypeOK
<1>8. Catalog!TypeOK'
  BY <1>1, <1>4, <1>5, <1>6, <1>7 DEF Catalog!TypeOK
<1>9. Catalog!InFlight(c)'
  BY <1>5 DEF Catalog!InFlight
<1>10. c \in edited' =>
         /\ cpc'[c] = "failed" /\ args'[c] = args[c] /\ details'[bp] = None
         /\ args'[c].branch # None /\ args'[c].product # None
  <2>1. c \in edited' => cpc'[c] = "failed" /\ args'[c] = args[c]
    BY <1>1, <1>5, <1>6
  <2>2. c \in edited' => details[bp] = None
    BY <2>1, <1>5
  <2>3. details[bp] = None => details'[bp] = None
    BY <1>1, <1>3 DEF Catalog!TypeOK
  <2> QED
    BY <2>1, <2>2, <2>3, <1>1, <1>2 DEF Catalog!InFlight
<1>11. /\ Catalog!CallsInFlight' /\ Catalog!InsertsApart'
       /\ Catalog!EditsKnown' /\ Catalog!HalfDoneOnlyWithoutRow'
  <2>1. c \in edited' =>
          /\ cpc'[c] \in {"patching", "failed"} /\ args'[c] \in Catalog!Args
          /\ args'[c].branch # None /\ args'[c].product # None
          /\ products'[args'[c].product] # None
          /\ cpc'[c] = "failed" =>
               c \in broken' \/ details'[<<args'[c].branch, args'[c].product>>] = None
    BY <1>1, <1>3, <1>10 DEF bp
  <2>2. cpc'[c] \notin {"inserted", "opening"}
    BY <1>5
  <2>3. \A b \in Branches, q \in Products :
          products[q] # None /\ details[<<b, q>>] = None => details'[<<b, q>>] = None
    BY <1>4
  <2>4. \A q \in Products : products[q] # None =>
          products'[q] # None /\ products'[q].restaurant = products[q].restaurant
    BY <1>1
  <2>5. \A d \in Calls \ {c} : /\ cpc[d] = "inserted" => inserted'[args[d].product] # None
                               /\ cpc[d] = "opening" => args[d].branch \in opening'
    BY <1>1, OpenCalls
  <2>6. broken \subseteq broken' /\ categories \subseteq categories'
    BY <1>1
  <2> QED
    BY <1>5, <1>6, <1>8, <1>9, <2>1, <2>2, <2>3, <2>4, <2>5, <2>6, OthersGoOn
<1>12. Catalog!Provisioning'
  <2>1. Catalog!Drawn' = Catalog!Drawn
    BY <1>1 DEF Catalog!Drawn
  <2> QED
    BY <1>1, <1>4, <2>1 DEF Catalog!Provisioning, Catalog!AtHome
<1>13. Catalog!ProvisionedExactly' /\ Catalog!CatalogStaysHome'
  <2>1. branches \subseteq Branches
    BY DEF Catalog!TypeOK
  <2> QED
    BY <1>1, <1>4, <2>1 DEF Catalog!ProvisionedExactly, Catalog!CatalogStaysHome
<1> QED
  BY <1>8, <1>11, <1>12, <1>13

CatalogPcs == {"idle", "looking", "naming", "writing", "inserted", "patching",
               "opening", "done", "failed"}

LEMMA InsertProductKeepsCatalog ==
  ASSUME Catalog!CatalogInv, NEW c \in Calls, Catalog!InsertProduct(c)
  PROVE  Catalog!CatalogInv'
<1> USE DEF Catalog!CatalogInv
<1> DEFINE rest == args[c].restaurant
           fresh == [row |-> [restaurant |-> rest, category |-> Catalog!Category(c)],
                     at |-> Catalog!ProvisionedAt(rest)]
<1>1. PICK p \in Products \ Catalog!Drawn :
        /\ inserted' = [inserted EXCEPT ![p] = fresh]
        /\ args' = [args EXCEPT ![c].product = p]
  BY DEF Catalog!InsertProduct
<1>2. /\ cpc[c] = "writing" /\ args[c].product = None
      /\ cpc' = [cpc EXCEPT ![c] = "inserted"]
      /\ UNCHANGED <<branches, products, categories, details, opening,
                     edited, broken, late, cfaults>>
  BY DEF Catalog!InsertProduct
<1>3. /\ args[c] \in Catalog!Args /\ rest \in Catalog!Restaurants
      /\ args[c].name # None => Catalog!Category(c) \in categories
  BY <1>2 DEF Catalog!CallsInFlight, Catalog!InFlight, Catalog!Args
<1>4. /\ products[p] = None /\ inserted[p] = None
      /\ \A b \in Branches : details[<<b, p>>] = None /\ <<b, p>> \notin late
  BY <1>1 DEF Catalog!Drawn, Catalog!Provisioning
<1> DEFINE cat == Catalog!Category(c)
<1>5. cat # None => cat \in categories /\ cat[1] = rest
  BY <1>3 DEF Catalog!Category
<1>6. /\ fresh.row \in Catalog!Row /\ fresh.row.restaurant = rest /\ fresh.row.category = cat
      /\ fresh.at = {b \in branches : Home[b] = rest}
      /\ fresh \in [row : Catalog!Row, at : SUBSET Branches]
  <2>1. cat \in (Catalog!Restaurants \X Catalog!Names) \cup {None}
    BY <1>5 DEF Catalog!TypeOK
  <2> HIDE DEF cat
  <2>2. [restaurant |-> rest, category |-> cat] \in Catalog!Row
    BY <1>3, <2>1 DEF Catalog!Row
  <2>3. Catalog!ProvisionedAt(rest) \in SUBSET Branches
    BY DEF Catalog!ProvisionedAt, Catalog!TypeOK
  <2> QED
    BY <2>2, <2>3 DEF cat, Catalog!ProvisionedAt
<1>7. fresh # None
  BY <1>6, CatalogAssumption
<1> HIDE DEF fresh, rest, cat
<1>8. /\ \A q \in Products : inserted'[q] = IF q = p THEN fresh ELSE inserted[q]
      /\ inserted' \in [Products -> [row : Catalog!Row, at : SUBSET Branches] \cup {None}]
  <2>1. inserted' \in [Products -> [row : Catalog!Row, at : SUBSET Branches] \cup {None}]
    BY <1>1, <1>6, Zenon DEF Catalog!TypeOK
  <2> QED
    BY <2>1, <1>1 DEF Catalog!TypeOK
<1>9. /\ args'[c] \in Catalog!Args /\ args'[c].product = p
      /\ \A d \in Calls \ {c} : args'[d] = args[d]
      /\ args' \in [Calls -> Catalog!Args \cup {None}]
  <2> DEFINE a == [args[c] EXCEPT !.product = p]
  <2>1. a \in Catalog!Args /\ a.product = p
    BY <1>3 DEF Catalog!Args
  <2>2. args' = [args EXCEPT ![c] = a]
    BY <1>1
  <2> HIDE DEF a
  <2>3. args' \in [Calls -> Catalog!Args \cup {None}]
    BY <2>1, <2>2, Zenon DEF Catalog!TypeOK
  <2> QED
    BY <2>1, <2>2, <2>3 DEF Catalog!TypeOK
<1>10. /\ cpc'[c] = "inserted" /\ \A d \in Calls \ {c} : cpc'[d] = cpc[d]
       /\ cpc' \in [Calls -> CatalogPcs]
  BY <1>2 DEF Catalog!TypeOK, CatalogPcs
<1>11. Catalog!TypeOK'
  BY <1>2, <1>8, <1>9, <1>10 DEF Catalog!TypeOK, CatalogPcs
<1>12. Catalog!InFlight(c)'
  <2>1. p # None
    BY CatalogAssumption
  <2> QED
    BY <1>7, <1>8, <1>9, <1>10, <2>1 DEF Catalog!InFlight
<1>13. c \notin edited
  BY <1>2 DEF Catalog!EditsKnown
<1>14. \A d \in Calls \ {c} : /\ cpc[d] = "inserted" => inserted'[args[d].product] # None
                              /\ cpc[d] = "inserted" => args[d].product # p
                              /\ cpc[d] = "opening" => args[d].branch \in opening
  <2>1. \A d \in Calls : cpc[d] = "inserted" => args[d].product \in Products
    BY DEF Catalog!CallsInFlight, Catalog!InFlight, Catalog!Args
  <2> QED
    BY <1>4, <1>8, <2>1, OpenCalls
<1>15. /\ Catalog!CallsInFlight' /\ Catalog!InsertsApart'
       /\ Catalog!EditsKnown' /\ Catalog!HalfDoneOnlyWithoutRow'
  BY <1>2, <1>9, <1>10, <1>11, <1>12, <1>13, <1>14, OthersGoOn
<1>16. Catalog!Provisioning'
  <2>1. Catalog!Drawn \subseteq Catalog!Drawn'
    BY <1>2, <1>7, <1>8 DEF Catalog!Drawn
  <2>2. \A b \in Branches, q \in Products :
          details[<<b, q>>] # None \/ <<b, q>> \in late => b \in branches
    BY DEF Catalog!Provisioning
  <2>3. branches \subseteq Branches
    BY DEF Catalog!TypeOK
  <2>4. /\ products'[p] = None
        /\ fresh.row.category # None =>
             fresh.row.category \in categories' /\ fresh.row.category[1] = fresh.row.restaurant
    BY <1>2, <1>4, <1>5, <1>6
  <2>5. \A b \in branches : b \in fresh.at <=> Home[b] = fresh.row.restaurant /\ <<b, p>> \notin late
    BY <1>4, <1>6, <2>3
  <2>6. ASSUME NEW q \in Products
        PROVE  /\ inserted'[q] # None =>
                    /\ products'[q] = None
                    /\ inserted'[q].row.category # None =>
                         inserted'[q].row.category \in categories'
                           /\ inserted'[q].row.category[1] = inserted'[q].row.restaurant
                    /\ inserted'[q].at \subseteq branches'
                    /\ \A b \in branches' :
                         b \in inserted'[q].at
                           <=> Home[b] = inserted'[q].row.restaurant /\ <<b, q>> \notin late'
               /\ products'[q] = None => \A b \in Branches : details'[<<b, q>>] = None
               /\ q \notin Catalog!Drawn' => \A b \in Branches : <<b, q>> \notin late'
    <3>1. CASE q = p
      <4>1. inserted'[q] = fresh /\ fresh.at \subseteq branches
        BY <3>1, <1>6, <1>8
      <4>2. q \in Catalog!Drawn'
        BY <4>1, <1>7 DEF Catalog!Drawn
      <4> QED
        BY <3>1, <4>1, <4>2, <1>2, <1>4, <2>4, <2>5
    <3>2. CASE q # p
      <4>1. inserted'[q] = inserted[q]
        BY <3>2, <1>8
      <4> QED
        BY <4>1, <1>2, <2>1 DEF Catalog!Provisioning, Catalog!AtHome
    <3> QED
      BY <3>1, <3>2
  <2>7. \A b \in Branches, q \in Products :
          details'[<<b, q>>] # None \/ <<b, q>> \in late' => b \in branches'
    BY <1>2, <2>2
  <2> QED
    BY <2>6, <2>7 DEF Catalog!Provisioning, Catalog!AtHome
<1>17. Catalog!ProvisionedExactly' /\ Catalog!CatalogStaysHome'
  BY <1>2 DEF Catalog!ProvisionedExactly, Catalog!CatalogStaysHome
<1> QED
  BY <1>11, <1>15, <1>16, <1>17

LEMMA CommitProductKeepsCatalog ==
  ASSUME Catalog!CatalogInv, NEW c \in Calls, Catalog!CommitProduct(c)
  PROVE  Catalog!CatalogInv'
<1> USE DEF Catalog!CatalogInv
<1> DEFINE p == args[c].product
           made == inserted[p]
<1>1. /\ cpc[c] = "inserted" /\ cpc' = [cpc EXCEPT ![c] = "done"]
      /\ products' = [products EXCEPT ![p] = made.row]
      /\ details' = [bp \in Catalog!Pairs |-> IF bp[2] = p /\ bp[1] \in made.at
                                              THEN "trigger" ELSE details[bp]]
      /\ inserted' = [inserted EXCEPT ![p] = None]
      /\ args' = [args EXCEPT ![c] = IF cpc'[c] = "failed" /\ c \in edited THEN args[c] ELSE None]
      /\ edited' = IF cpc'[c] = "done" THEN edited \ {c} ELSE edited
      /\ UNCHANGED <<branches, categories, opening, broken, late, cfaults>>
  BY DEF Catalog!CommitProduct, Catalog!Move, Catalog!Forget
<1>2. p \in Products /\ made # None
  BY <1>1 DEF Catalog!CallsInFlight, Catalog!InFlight, Catalog!Args
<1>3. /\ made.row \in Catalog!Row /\ made.at \subseteq branches /\ products[p] = None
      /\ Catalog!AtHome(made.row)
      /\ \A b \in branches : b \in made.at <=> Home[b] = made.row.restaurant /\ <<b, p>> \notin late
      /\ \A b \in Branches : details[<<b, p>>] = None
  BY <1>2 DEF Catalog!Provisioning, Catalog!TypeOK
<1>4. made.row # None
  BY <1>3, CatalogAssumption
<1>5. c \notin edited
  BY <1>1 DEF Catalog!EditsKnown
<1>6. /\ cpc'[c] = "done" /\ \A d \in Calls \ {c} : cpc'[d] = cpc[d]
      /\ cpc' \in [Calls -> CatalogPcs]
  BY <1>1 DEF Catalog!TypeOK, CatalogPcs
<1>7. args' = [args EXCEPT ![c] = None] /\ edited' = edited
  BY <1>1, <1>5, <1>6
<1>8. \A d \in Calls \ {c} : cpc[d] = "inserted" => args[d].product \in Products \ {p}
  BY <1>1 DEF Catalog!CallsInFlight, Catalog!InFlight, Catalog!Args, Catalog!InsertsApart
<1> HIDE DEF p, made
<1>9. /\ args' \in [Calls -> Catalog!Args \cup {None}]
      /\ \A d \in Calls \ {c} : args'[d] = args[d]
  <2>1. args' \in [Calls -> Catalog!Args \cup {None}]
    BY <1>7, Zenon DEF Catalog!TypeOK
  <2> QED
    BY <2>1, <1>7 DEF Catalog!TypeOK
<1>10. /\ products' \in [Products -> Catalog!Row \cup {None}]
       /\ \A q \in Products : products'[q] = IF q = p THEN made.row ELSE products[q]
  <2>1. products' \in [Products -> Catalog!Row \cup {None}]
    BY <1>1, <1>3, Zenon DEF Catalog!TypeOK
  <2> QED
    BY <2>1, <1>1 DEF Catalog!TypeOK
<1>11. /\ inserted' \in [Products -> [row : Catalog!Row, at : SUBSET Branches] \cup {None}]
       /\ \A q \in Products : inserted'[q] = IF q = p THEN None ELSE inserted[q]
  <2>1. inserted' \in [Products -> [row : Catalog!Row, at : SUBSET Branches] \cup {None}]
    BY <1>1, Zenon DEF Catalog!TypeOK
  <2> QED
    BY <2>1, <1>1 DEF Catalog!TypeOK
<1>12. /\ details' \in [Catalog!Pairs -> Catalog!Callers \cup {"trigger", None}]
       /\ \A b \in Branches, q \in Products :
            details'[<<b, q>>] = IF q = p /\ b \in made.at THEN "trigger" ELSE details[<<b, q>>]
  <2>1. \A bp \in Catalog!Pairs :
          details'[bp] = IF bp[2] = p /\ bp[1] \in made.at THEN "trigger" ELSE details[bp]
    BY <1>1
  <2>2. \A bp \in Catalog!Pairs : details'[bp] \in Catalog!Callers \cup {"trigger", None}
    BY <2>1 DEF Catalog!TypeOK
  <2>3. details' \in [Catalog!Pairs -> Catalog!Callers \cup {"trigger", None}]
    BY <1>1, <2>2, Zenon
  <2> QED
    BY <2>1, <2>3 DEF Catalog!Pairs
<1>13. Catalog!TypeOK'
  BY <1>1, <1>6, <1>7, <1>9, <1>10, <1>11, <1>12 DEF Catalog!TypeOK, CatalogPcs
<1>14. \A q \in Products : products[q] # None =>
         products'[q] # None /\ products'[q].restaurant = products[q].restaurant
  BY <1>3, <1>10
<1>15. \A b \in Branches, q \in Products :
         products[q] # None /\ details[<<b, q>>] = None => details'[<<b, q>>] = None
  BY <1>3, <1>12
<1>16. Catalog!InFlight(c)'
  BY <1>6 DEF Catalog!InFlight
<1>17. \A d \in Calls \ {c} : /\ cpc[d] = "inserted" => inserted'[args[d].product] # None
                              /\ cpc[d] = "opening" => args[d].branch \in opening'
  BY <1>1, <1>8, <1>11, OpenCalls
<1>18. /\ Catalog!CallsInFlight' /\ Catalog!InsertsApart'
       /\ Catalog!EditsKnown' /\ Catalog!HalfDoneOnlyWithoutRow'
  BY <1>1, <1>5, <1>6, <1>7, <1>9, <1>13, <1>14, <1>15, <1>16, <1>17, OthersGoOn
<1>19. branches \subseteq Branches
  BY DEF Catalog!TypeOK
<1>20. Catalog!Provisioning'
  <2>1. Catalog!Drawn' = Catalog!Drawn
    BY <1>2, <1>4, <1>10, <1>11 DEF Catalog!Drawn, made
  <2>2. \A b \in Branches, q \in Products :
          details'[<<b, q>>] # None \/ <<b, q>> \in late' => b \in branches'
    BY <1>1, <1>3, <1>12 DEF Catalog!Provisioning
  <2>3. \A q \in Products : inserted'[q] # None => q # p /\ inserted'[q] = inserted[q] /\ products'[q] = products[q]
    BY <1>10, <1>11
  <2>4. \A q \in Products : products'[q] = None =>
          q # p /\ products[q] = None /\ \A b \in Branches : details'[<<b, q>>] = details[<<b, q>>]
    BY <1>4, <1>10, <1>12
  <2> QED
    BY <1>1, <2>1, <2>2, <2>3, <2>4 DEF Catalog!Provisioning, Catalog!AtHome
<1>21. Catalog!ProvisionedExactly'
  <2> SUFFICES ASSUME NEW b \in branches, NEW q \in Products, products'[q] # None
               PROVE  details'[<<b, q>>] # None
                        <=> Home[b] = products'[q].restaurant /\ <<b, q>> \notin late
    BY <1>1 DEF Catalog!ProvisionedExactly
  <2>1. CASE q = p
    BY <2>1, <1>3, <1>10, <1>12, <1>19, CatalogAssumption
  <2>2. CASE q # p
    BY <2>2, <1>10, <1>12, <1>19 DEF Catalog!ProvisionedExactly
  <2> QED
    BY <2>1, <2>2
<1>22. Catalog!CatalogStaysHome'
  <2> SUFFICES ASSUME NEW q \in Products, products'[q] # None
               PROVE  /\ products'[q].category # None =>
                           products'[q].category \in categories
                             /\ products'[q].category[1] = products'[q].restaurant
                      /\ \A b \in Branches : details'[<<b, q>>] # None => Home[b] = products'[q].restaurant
    BY <1>1 DEF Catalog!CatalogStaysHome
  <2>1. CASE q = p
    BY <2>1, <1>3, <1>10, <1>12 DEF Catalog!AtHome
  <2>2. CASE q # p
    BY <2>2, <1>10, <1>12 DEF Catalog!CatalogStaysHome
  <2> QED
    BY <2>1, <2>2
<1> QED
  BY <1>13, <1>18, <1>20, <1>21, <1>22

LEMMA InsertBranchKeepsCatalog ==
  ASSUME Catalog!CatalogInv, NEW c \in Calls, Catalog!InsertBranch(c)
  PROVE  Catalog!CatalogInv'
<1> USE DEF Catalog!CatalogInv
<1>1. PICK b \in Branches \ (branches \cup opening) :
        /\ cpc[c] = "idle" /\ cpc' = [cpc EXCEPT ![c] = "opening"]
        /\ args' = [args EXCEPT ![c] = [who |-> Home[b], restaurant |-> Home[b], name |-> None,
                                        product |-> None, branch |-> b]]
        /\ opening' = opening \cup {b}
        /\ UNCHANGED <<branches, products, categories, details, inserted,
                       edited, broken, late, cfaults>>
  BY DEF Catalog!InsertBranch, Catalog!Move
<1> DEFINE a == [who |-> Home[b], restaurant |-> Home[b], name |-> None,
                 product |-> None, branch |-> b]
<1>2. a \in Catalog!Args /\ a.branch = b /\ a.product = None /\ b # None
  BY CatalogAssumption DEF Catalog!Args, Catalog!Callers, Catalog!Restaurants
<1>3. args' = [args EXCEPT ![c] = a]
  BY <1>1
<1> HIDE DEF a
<1>4. /\ args' \in [Calls -> Catalog!Args \cup {None}] /\ args'[c] = a
      /\ \A d \in Calls \ {c} : args'[d] = args[d]
  <2>1. args' \in [Calls -> Catalog!Args \cup {None}]
    BY <1>2, <1>3, Zenon DEF Catalog!TypeOK
  <2> QED
    BY <2>1, <1>3 DEF Catalog!TypeOK
<1>5. /\ cpc'[c] = "opening" /\ \A d \in Calls \ {c} : cpc'[d] = cpc[d]
      /\ cpc' \in [Calls -> CatalogPcs]
  BY <1>1 DEF Catalog!TypeOK, CatalogPcs
<1>6. Catalog!TypeOK'
  BY <1>1, <1>4, <1>5 DEF Catalog!TypeOK, CatalogPcs
<1>7. Catalog!InFlight(c)'
  BY <1>1, <1>2, <1>4, <1>5 DEF Catalog!InFlight
<1>8. c \notin edited
  BY <1>1 DEF Catalog!EditsKnown
<1>9. \A d \in Calls \ {c} : /\ cpc[d] = "inserted" => inserted'[args[d].product] # None
                             /\ cpc[d] = "opening" => args[d].branch \in opening /\ args[d].branch # b
  BY <1>1, OpenCalls
<1>10. /\ Catalog!CallsInFlight' /\ Catalog!InsertsApart'
       /\ Catalog!EditsKnown' /\ Catalog!HalfDoneOnlyWithoutRow'
  BY <1>1, <1>2, <1>4, <1>5, <1>6, <1>7, <1>8, <1>9, OthersGoOn
<1>11. Catalog!Provisioning' /\ Catalog!ProvisionedExactly' /\ Catalog!CatalogStaysHome'
  BY <1>1, SameCatalog
<1> QED
  BY <1>6, <1>10, <1>11

LEMMA CommitBranchKeepsCatalog ==
  ASSUME Catalog!CatalogInv, NEW c \in Calls, Catalog!CommitBranch(c)
  PROVE  Catalog!CatalogInv'
<1> USE DEF Catalog!CatalogInv
<1> DEFINE b == args[c].branch
<1>1. /\ cpc[c] = "opening" /\ cpc' = [cpc EXCEPT ![c] = "done"]
      /\ branches' = branches \cup {b} /\ opening' = opening \ {b}
      /\ late' = late \cup {<<b, p>> : p \in Catalog!Drawn}
      /\ args' = [args EXCEPT ![c] = IF cpc'[c] = "failed" /\ c \in edited THEN args[c] ELSE None]
      /\ edited' = IF cpc'[c] = "done" THEN edited \ {c} ELSE edited
      /\ UNCHANGED <<products, categories, details, inserted, broken, cfaults>>
  BY DEF Catalog!CommitBranch, Catalog!Move, Catalog!Forget
<1>2. b \in opening /\ b \in Branches /\ b \notin branches
  BY <1>1, OpenCalls DEF Catalog!TypeOK
<1>3. c \notin edited
  BY <1>1 DEF Catalog!EditsKnown
<1>4. /\ cpc'[c] = "done" /\ \A d \in Calls \ {c} : cpc'[d] = cpc[d]
      /\ cpc' \in [Calls -> CatalogPcs]
  BY <1>1 DEF Catalog!TypeOK, CatalogPcs
<1>5. args' = [args EXCEPT ![c] = None] /\ edited' = edited
  BY <1>1, <1>3, <1>4
<1>6. \A d \in Calls \ {c} : cpc[d] = "opening" => args[d].branch # b
  BY <1>1 DEF Catalog!InsertsApart
<1> HIDE DEF b
<1>7. /\ args' \in [Calls -> Catalog!Args \cup {None}]
      /\ \A d \in Calls \ {c} : args'[d] = args[d]
  <2>1. args' \in [Calls -> Catalog!Args \cup {None}]
    BY <1>5, Zenon DEF Catalog!TypeOK
  <2> QED
    BY <2>1, <1>5 DEF Catalog!TypeOK
<1>8. /\ Catalog!Drawn \subseteq Products /\ Catalog!Drawn' = Catalog!Drawn
      /\ \A q \in Products : q \in Catalog!Drawn <=> products[q] # None \/ inserted[q] # None
  BY <1>1 DEF Catalog!Drawn
<1>9. /\ late' \subseteq Catalog!Pairs
      /\ \A x \in Branches, q \in Products :
           <<x, q>> \in late' <=> <<x, q>> \in late \/ (x = b /\ q \in Catalog!Drawn)
  BY <1>1, <1>2, <1>8 DEF Catalog!TypeOK, Catalog!Pairs
<1>10. Catalog!TypeOK'
  BY <1>1, <1>2, <1>4, <1>5, <1>7, <1>9 DEF Catalog!TypeOK, CatalogPcs
<1>11. Catalog!InFlight(c)'
  BY <1>4 DEF Catalog!InFlight
<1>12. \A d \in Calls \ {c} : /\ cpc[d] = "inserted" => inserted'[args[d].product] # None
                              /\ cpc[d] = "opening" => args[d].branch \in opening'
  BY <1>1, <1>6, OpenCalls
<1>13. /\ Catalog!CallsInFlight' /\ Catalog!InsertsApart'
       /\ Catalog!EditsKnown' /\ Catalog!HalfDoneOnlyWithoutRow'
  BY <1>1, <1>3, <1>4, <1>5, <1>7, <1>10, <1>11, <1>12, OthersGoOn
<1>14. /\ branches \subseteq Branches
       /\ \A q \in Products : details[<<b, q>>] = None /\ <<b, q>> \notin late
  BY <1>2 DEF Catalog!TypeOK, Catalog!Provisioning
<1>15. Catalog!Provisioning'
  <2>1. \A x \in Branches, q \in Products :
          details'[<<x, q>>] # None \/ <<x, q>> \in late' => x \in branches'
    BY <1>1, <1>9 DEF Catalog!Provisioning
  <2>2. ASSUME NEW q \in Products
        PROVE  /\ inserted'[q] # None =>
                    /\ products'[q] = None
                    /\ inserted'[q].row.category # None =>
                         inserted'[q].row.category \in categories'
                           /\ inserted'[q].row.category[1] = inserted'[q].row.restaurant
                    /\ inserted'[q].at \subseteq branches'
                    /\ \A x \in branches' :
                         x \in inserted'[q].at
                           <=> Home[x] = inserted'[q].row.restaurant /\ <<x, q>> \notin late'
               /\ products'[q] = None => \A x \in Branches : details'[<<x, q>>] = None
               /\ q \notin Catalog!Drawn' => \A x \in Branches : <<x, q>> \notin late'
    <3>1. ASSUME inserted[q] # None, NEW x \in branches'
          PROVE  x \in inserted[q].at
                   <=> Home[x] = inserted[q].row.restaurant /\ <<x, q>> \notin late'
      BY <3>1, <1>1, <1>2, <1>8, <1>9, <1>14 DEF Catalog!Provisioning
    <3>2. q \notin Catalog!Drawn' => \A x \in Branches : <<x, q>> \notin late'
      BY <1>8, <1>9 DEF Catalog!Provisioning
    <3> QED
      BY <3>1, <3>2, <1>1 DEF Catalog!Provisioning, Catalog!AtHome
  <2> QED
    BY <2>1, <2>2 DEF Catalog!Provisioning, Catalog!AtHome
<1>16. Catalog!ProvisionedExactly'
  BY <1>1, <1>2, <1>8, <1>9, <1>14 DEF Catalog!ProvisionedExactly
<1>17. Catalog!CatalogStaysHome'
  BY <1>1 DEF Catalog!CatalogStaysHome
<1> QED
  BY <1>10, <1>13, <1>15, <1>16, <1>17

LEMMA BreakOffKeepsCatalog ==
  ASSUME Catalog!CatalogInv, NEW c \in Calls, Catalog!BreakOff(c)
  PROVE  Catalog!CatalogInv'
<1> USE DEF Catalog!CatalogInv
<1> DEFINE undone == cpc[c] = "inserted"
           p == args[c].product
<1>1. /\ cpc[c] \in {"looking", "naming", "writing", "inserted", "patching", "opening"}
      /\ cpc' = [cpc EXCEPT ![c] = "failed"] /\ broken' = broken \cup {c}
      /\ inserted' = IF undone THEN [inserted EXCEPT ![p] = None] ELSE inserted
      /\ opening' = IF cpc[c] = "opening" THEN opening \ {args[c].branch} ELSE opening
      /\ late' = IF undone THEN {bp \in late : bp[2] # p} ELSE late
      /\ args' = [args EXCEPT ![c] = IF cpc'[c] = "failed" /\ c \in edited THEN args[c] ELSE None]
      /\ edited' = IF cpc'[c] = "done" THEN edited \ {c} ELSE edited
      /\ cfaults' = cfaults + 1
      /\ UNCHANGED <<branches, products, categories, details>>
  BY DEF Catalog!BreakOff, Catalog!Forget
<1>2. /\ args[c] \in Catalog!Args
      /\ undone => p \in Products /\ inserted[p] # None /\ products[p] = None
  BY <1>1 DEF Catalog!CallsInFlight, Catalog!InFlight, Catalog!Args, Catalog!Provisioning
<1>3. \A d \in Calls \ {c} :
        /\ cpc[d] = "inserted" => args[d].product \in Products
        /\ undone /\ cpc[d] = "inserted" => args[d].product # p
        /\ cpc[c] = "opening" /\ cpc[d] = "opening" => args[d].branch # args[c].branch
  BY DEF Catalog!CallsInFlight, Catalog!InFlight, Catalog!Args, Catalog!InsertsApart
<1>4. /\ cpc'[c] = "failed" /\ \A d \in Calls \ {c} : cpc'[d] = cpc[d]
      /\ cpc' \in [Calls -> CatalogPcs]
  BY <1>1 DEF Catalog!TypeOK, CatalogPcs
<1>5. /\ edited' = edited
      /\ args' = [args EXCEPT ![c] = IF c \in edited THEN args[c] ELSE None]
  BY <1>1, <1>4
<1> HIDE DEF undone, p
<1>6. /\ args' \in [Calls -> Catalog!Args \cup {None}]
      /\ \A d \in Calls \ {c} : args'[d] = args[d]
      /\ c \in edited => args'[c] = args[c]
  <2>1. args' \in [Calls -> Catalog!Args \cup {None}]
    BY <1>2, <1>5, Zenon DEF Catalog!TypeOK
  <2> QED
    BY <2>1, <1>5 DEF Catalog!TypeOK
<1>7. /\ inserted' \in [Products -> [row : Catalog!Row, at : SUBSET Branches] \cup {None}]
      /\ \A q \in Products : inserted'[q] = IF undone /\ q = p THEN None ELSE inserted[q]
  <2>1. inserted' \in [Products -> [row : Catalog!Row, at : SUBSET Branches] \cup {None}]
    BY <1>1, Zenon DEF Catalog!TypeOK
  <2> QED
    BY <2>1, <1>1 DEF Catalog!TypeOK
<1>8. /\ late' \subseteq late
      /\ \A x \in Branches, q \in Products :
           <<x, q>> \in late' <=> <<x, q>> \in late /\ ~(undone /\ q = p)
  BY <1>1
<1>9. opening' \subseteq opening
  BY <1>1
<1>10. Catalog!TypeOK'
  BY <1>1, <1>4, <1>5, <1>6, <1>7, <1>8, <1>9 DEF Catalog!TypeOK, CatalogPcs
<1>11. Catalog!InFlight(c)'
  BY <1>4 DEF Catalog!InFlight
<1>12. \A d \in Calls \ {c} : /\ cpc[d] = "inserted" => inserted'[args[d].product] # None
                              /\ cpc[d] = "opening" => args[d].branch \in opening'
  BY <1>1, <1>3, <1>7, OpenCalls
<1>13. c \in edited' =>
         /\ args'[c] \in Catalog!Args /\ args'[c].branch # None /\ args'[c].product # None
         /\ products'[args'[c].product] # None /\ c \in broken'
  BY <1>1, <1>2, <1>5, <1>6 DEF Catalog!EditsKnown
<1>14. /\ Catalog!CallsInFlight' /\ Catalog!InsertsApart'
       /\ Catalog!EditsKnown' /\ Catalog!HalfDoneOnlyWithoutRow'
  BY <1>1, <1>4, <1>5, <1>6, <1>10, <1>11, <1>12, <1>13, OthersGoOn
<1>15. branches \subseteq Branches
  BY DEF Catalog!TypeOK
<1>16. Catalog!Provisioning'
  <2>1. \A x \in Branches, q \in Products :
          details'[<<x, q>>] # None \/ <<x, q>> \in late' => x \in branches'
    BY <1>1, <1>8 DEF Catalog!Provisioning
  <2>2. ASSUME NEW q \in Products
        PROVE  /\ inserted'[q] # None =>
                    /\ products'[q] = None
                    /\ inserted'[q].row.category # None =>
                         inserted'[q].row.category \in categories'
                           /\ inserted'[q].row.category[1] = inserted'[q].row.restaurant
                    /\ inserted'[q].at \subseteq branches'
                    /\ \A x \in branches' :
                         x \in inserted'[q].at
                           <=> Home[x] = inserted'[q].row.restaurant /\ <<x, q>> \notin late'
               /\ products'[q] = None => \A x \in Branches : details'[<<x, q>>] = None
               /\ q \notin Catalog!Drawn' => \A x \in Branches : <<x, q>> \notin late'
    <3>1. CASE undone /\ q = p
      BY <3>1, <1>1, <1>7, <1>8 DEF Catalog!Provisioning
    <3>2. CASE ~(undone /\ q = p)
      <4>1. /\ inserted'[q] = inserted[q] /\ q \in Catalog!Drawn' <=> q \in Catalog!Drawn
            /\ \A x \in Branches : <<x, q>> \in late' <=> <<x, q>> \in late
        BY <3>2, <1>1, <1>7, <1>8 DEF Catalog!Drawn
      <4> QED
        BY <4>1, <1>1, <1>15 DEF Catalog!Provisioning, Catalog!AtHome
    <3> QED
      BY <3>1, <3>2
  <2> QED
    BY <2>1, <2>2 DEF Catalog!Provisioning, Catalog!AtHome
<1>17. Catalog!ProvisionedExactly'
  BY <1>1, <1>2, <1>8, <1>15 DEF Catalog!ProvisionedExactly
<1>18. Catalog!CatalogStaysHome'
  BY <1>1 DEF Catalog!CatalogStaysHome
<1> QED
  BY <1>10, <1>14, <1>16, <1>17, <1>18

(* Every step keeps CatalogInv.                                            *)
LEMMA CatalogStep ==
  Catalog!CatalogInv /\ [Catalog!Next]_(Catalog!vars) => Catalog!CatalogInv'
<1> SUFFICES ASSUME Catalog!CatalogInv, [Catalog!Next]_(Catalog!vars)
             PROVE  Catalog!CatalogInv'
  OBVIOUS
<1>1. CASE UNCHANGED Catalog!vars
  <2>1. UNCHANGED <<branches, products, categories, details, inserted, opening,
                    cpc, args, edited, broken, late, cfaults>>
    BY <1>1 DEF Catalog!vars, Catalog!tables
  <2>2. Catalog!TypeOK' /\ Catalog!EditsKnown' /\ Catalog!InsertsApart'
    BY <2>1 DEF Catalog!CatalogInv, Catalog!TypeOK, Catalog!EditsKnown, Catalog!InsertsApart
  <2>3. Catalog!CallsInFlight' /\ Catalog!HalfDoneOnlyWithoutRow'
    BY <2>1 DEF Catalog!CatalogInv, Catalog!CallsInFlight, Catalog!InFlight, Catalog!Category,
                Catalog!HalfDoneOnlyWithoutRow
  <2> QED
    BY <2>1, <2>2, <2>3, SameCatalog DEF Catalog!CatalogInv
<1>2. ASSUME NEW c \in Calls, Catalog!Handle(c) PROVE Catalog!CatalogInv'
  BY <1>2, TurnedAwayKeepsCatalog, CreateKeepsCatalog, UpdateKeepsCatalog,
     FindCategoryKeepsCatalog, CreateCategoryKeepsCatalog, InsertProductKeepsCatalog,
     CommitProductKeepsCatalog, UpdateProductKeepsCatalog, PatchRowKeepsCatalog,
     InsertBranchKeepsCatalog, CommitBranchKeepsCatalog, BreakOffKeepsCatalog
  DEF Catalog!Handle
<1> QED
  BY <1>1, <1>2 DEF Catalog!Next

(* CatalogInv holds throughout: no step of a call, of the trigger or of a  *)
(* branch being opened leaves it.                                          *)
THEOREM CatalogInvariant == Catalog!Spec => []Catalog!CatalogInv
BY CatalogInit, CatalogStep, PTL DEF Catalog!Spec

(* A product has a row at exactly the branches of its restaurant that were *)
(* committed when its trigger ran.                                         *)
THEOREM ProvisioningIsExact == Catalog!Spec => []ProvisionedExactly
<1>1. Catalog!CatalogInv => ProvisionedExactly
  BY DEF Catalog!CatalogInv, ProvisionedExactly
<1> QED
  BY <1>1, CatalogInvariant, PTL

(* Categories and the rows of branches stay with the restaurant of their   *)
(* product.                                                                *)
THEOREM RowsStayHome == Catalog!Spec => []CatalogStaysHome
<1>1. Catalog!CatalogInv => CatalogStaysHome
  BY DEF Catalog!CatalogInv, CatalogStaysHome
<1> QED
  BY <1>1, CatalogInvariant, PTL

(* An update that wrote the product and failed broke off, or meant a branch *)
(* without a row.                                                          *)
THEOREM HalfDoneExplained == Catalog!Spec => []HalfDoneOnlyWithoutRow
<1>1. Catalog!CatalogInv => HalfDoneOnlyWithoutRow
  BY DEF Catalog!CatalogInv, HalfDoneOnlyWithoutRow
<1> QED
  BY <1>1, CatalogInvariant, PTL

(* Only the commit of a product and the patch of a row write rows: the     *)
(* former only new ones, the latter only at home.                          *)
LEMMA StepsSpareForeignRows ==
  ASSUME Catalog!CatalogInv, Catalog!Next, NEW bp \in Catalog!Pairs,
         details[bp] # None, details'[bp] # details[bp]
  PROVE  details'[bp] \in {Home[bp[1]], "admin"}
<1>1. PICK c \in Calls : Catalog!Handle(c)
  BY DEF Catalog!Next
<1>2. PICK b \in Branches, p \in Products : bp = <<b, p>>
  BY DEF Catalog!Pairs
<1>3. CASE Catalog!CommitProduct(c)
  <2> DEFINE q == args[c].product
  <2>1. /\ cpc[c] = "inserted"
        /\ details' = [x \in Catalog!Pairs |-> IF x[2] = q /\ x[1] \in inserted[q].at
                                               THEN "trigger" ELSE details[x]]
    BY <1>3 DEF Catalog!CommitProduct, Catalog!Move
  <2>2. p = q
    BY <2>1, <1>2
  <2>3. inserted[q] # None
    BY <2>1, OpenCalls
  <2> HIDE DEF q
  <2>4. details[<<b, p>>] = None
    BY <2>2, <2>3 DEF Catalog!CatalogInv, Catalog!Provisioning
  <2> QED
    BY <2>4, <1>2
<1>4. CASE Catalog!PatchRow(c)
  <2> DEFINE x == <<args[c].branch, args[c].product>>
  <2>1. /\ cpc[c] = "patching"
        /\ details' = [details EXCEPT ![x] = IF details[x] = None THEN None ELSE args[c].who]
    BY <1>4 DEF Catalog!PatchRow, Catalog!Move
  <2>2. /\ args[c] \in Catalog!Args /\ args[c].product # None
        /\ products[args[c].product] # None
        /\ products[args[c].product].restaurant = args[c].restaurant
        /\ Catalog!MayActFor(args[c].who, args[c].restaurant)
    BY <2>1 DEF Catalog!CatalogInv, Catalog!CallsInFlight, Catalog!InFlight
  <2>3. bp = x /\ details'[bp] = args[c].who
    BY <2>1 DEF Catalog!CatalogInv, Catalog!TypeOK
  <2>4. b = args[c].branch /\ p = args[c].product
    BY <2>3, <1>2
  <2>5. Home[b] = args[c].restaurant
    BY <2>2, <2>4, <1>2 DEF Catalog!CatalogInv, Catalog!CatalogStaysHome
  <2> QED
    BY <2>2, <2>3, <2>5, <1>2 DEF Catalog!MayActFor
<1>5. CASE ~Catalog!CommitProduct(c) /\ ~Catalog!PatchRow(c)
  <2>1. details' = details
    BY <1>1, <1>5 DEF Catalog!Handle, Catalog!TurnedAway, Catalog!Create, Catalog!Update,
       Catalog!FindCategory, Catalog!CreateCategory, Catalog!InsertProduct,
       Catalog!UpdateProduct, Catalog!InsertBranch, Catalog!CommitBranch, Catalog!BreakOff,
       Catalog!tables
  <2> QED
    BY <2>1
<1> QED
  BY <1>3, <1>4, <1>5

(* No step writes the row of a branch but for its own restaurant or an     *)
(* admin, whichever branch the query string names.                         *)
THEOREM ForeignRowsSpared == Catalog!Spec => ForeignBranchesUntouched
<1>1. Catalog!CatalogInv /\ [Catalog!Next]_(Catalog!vars) =>
        [\A bp \in Catalog!Pairs : details[bp] # None /\ details'[bp] # details[bp] =>
           details'[bp] \in {Home[bp[1]], "admin"}]_(Catalog!vars)
  BY StepsSpareForeignRows
<1> QED
  BY <1>1, CatalogInvariant, PTL DEF Catalog!Spec, ForeignBranchesUntouched, Catalog!ForeignBranchesUntouched
-----------------------------------------------------------------------------
(* Idempotency: counting the attempts that may yet run.                    *)

\* How many attempts at a key may yet run its operation, and whether one is
\* under way at all.
Waiting(k) == Cardinality(Idempotency!Pending(k))
Busy(k)    == \E c \in Calls : key[c] = k /\ ipc[c] \in Idempotency!Unfinished

IdempotencyPcs == {"idle"} \cup Idempotency!Unfinished \cup Idempotency!Ended

(* The instance's Cardinality is the one the theorems are about.           *)
LEMMA SameCardinality == ASSUME NEW S PROVE Idempotency!Cardinality(S) = Cardinality(S)
BY DEF Cardinality, Idempotency!Cardinality

(* Finite counts of the attempts.                                          *)
LEMMA WaitingCounts ==
  ASSUME NEW k
  PROVE  /\ IsFiniteSet(Idempotency!Pending(k)) /\ Waiting(k) \in Nat
         /\ Idempotency!Looking(k) \subseteq Idempotency!Pending(k)
         /\ Waiting(k) = 0 <=> Idempotency!Pending(k) = {}
<1>1. IsFiniteSet(Idempotency!Pending(k))
  <2>1. Idempotency!Pending(k) \subseteq Calls
    BY DEF Idempotency!Pending
  <2> QED
    BY <2>1, FS_Subset, IdempotencyAssumption
<1>2. Waiting(k) \in Nat /\ (Waiting(k) = 0 <=> Idempotency!Pending(k) = {})
  BY <1>1, FS_CardinalityType, FS_EmptySet DEF Waiting
<1>3. Idempotency!Looking(k) \subseteq Idempotency!Pending(k)
  BY DEF Idempotency!Looking, Idempotency!Pending
<1> QED
  BY <1>1, <1>2, <1>3

(* What Chances says, in terms of these.                                   *)
ChancesSay(k) ==
  /\ Idempotency!Known(k) /\ Idempotency!Looking(k) = {}
       => Idempotency!Chances(k) = Waiting(k)
  /\ Idempotency!Known(k) /\ Idempotency!Looking(k) # {}
       => Idempotency!Chances(k) = Waiting(k) - 1 /\ Waiting(k) >= 1
  /\ ~Idempotency!Known(k) /\ Busy(k) => Idempotency!Chances(k) = Waiting(k)
  /\ ~Idempotency!Known(k) /\ ~Busy(k) => Idempotency!Chances(k) = 1 /\ Waiting(k) = 0
  /\ Idempotency!Looking(k) # {} => Busy(k)
  /\ Waiting(k) \in Nat /\ Idempotency!Chances(k) \in Nat

(* Chances is as it says.                                                  *)
LEMMA ChancesByCase == ASSUME NEW k PROVE ChancesSay(k)
<1>1. /\ Waiting(k) \in Nat /\ Idempotency!Looking(k) \subseteq Idempotency!Pending(k)
      /\ Waiting(k) = 0 <=> Idempotency!Pending(k) = {}
  BY WaitingCounts
<1>2. /\ Idempotency!Looking(k) # {} => Waiting(k) >= 1 /\ Busy(k)
      /\ ~Busy(k) => Waiting(k) = 0
  <2>1. Idempotency!Pending(k) # {} => Busy(k)
    BY DEF Idempotency!Pending, Busy, Idempotency!Unfinished
  <2> QED
    BY <1>1, <2>1
<1>3. Idempotency!Chances(k) =
        IF Idempotency!Known(k) THEN Waiting(k) - (IF Idempotency!Looking(k) = {} THEN 0 ELSE 1)
        ELSE IF Busy(k) THEN Waiting(k) ELSE 1
  BY SameCardinality DEF Idempotency!Chances, Waiting, Busy
<1> QED
  BY <1>1, <1>2, <1>3 DEF ChancesSay

(* The same of the state a step leads to.                                  *)
LEMMA ChancesBeforeAndAfter == ASSUME NEW k PROVE ChancesSay(k) /\ ChancesSay(k)'
<1>1. ChancesSay(k)
  BY ChancesByCase
<1> QED
  BY <1>1, PTL

(* One attempt moves.                                                      *)
LEMMA AttemptMoves ==
  ASSUME Idempotency!TypeOK, NEW c \in Calls, NEW to \in IdempotencyPcs, NEW k,
         ipc' = [ipc EXCEPT ![c] = to], key' = key
  PROVE  /\ key[c] # k => /\ Waiting(k)' = Waiting(k) /\ (Busy(k)' <=> Busy(k))
                          /\ Idempotency!Looking(k)' = Idempotency!Looking(k)
         /\ key[c] = k =>
              /\ Waiting(k)' = Waiting(k) + (IF to \in {"lookup", "running"} THEN 1 ELSE 0)
                                          - (IF ipc[c] \in {"lookup", "running"} THEN 1 ELSE 0)
              /\ to \in Idempotency!Unfinished => Busy(k)'
              /\ ipc[c] \in Idempotency!Unfinished => Busy(k)
              /\ to = "lookup" => Idempotency!Looking(k)' # {}
              /\ to # "lookup" /\ ipc[c] # "lookup"
                   => Idempotency!Looking(k)' = Idempotency!Looking(k)
              /\ ipc[c] = "lookup" => Idempotency!Looking(k) # {}
<1>1. /\ ipc'[c] = to /\ \A d \in Calls \ {c} : ipc'[d] = ipc[d]
  BY DEF Idempotency!TypeOK
<1>2. ASSUME key[c] # k
      PROVE  /\ Idempotency!Pending(k)' = Idempotency!Pending(k) /\ (Busy(k)' <=> Busy(k))
             /\ Idempotency!Looking(k)' = Idempotency!Looking(k)
  <2>1. \A d \in Calls : key'[d] = key[d] /\ (key[d] = k => ipc'[d] = ipc[d])
    BY <1>1, <1>2
  <2>2. Idempotency!Pending(k)' = Idempotency!Pending(k)
    BY <2>1 DEF Idempotency!Pending
  <2>3. Idempotency!Looking(k)' = Idempotency!Looking(k)
    BY <2>1 DEF Idempotency!Looking
  <2>4. Busy(k)' <=> Busy(k)
    BY <2>1 DEF Busy
  <2> QED
    BY <2>2, <2>3, <2>4
<1>3. ASSUME key[c] = k
      PROVE  Waiting(k)' = Waiting(k) + (IF to \in {"lookup", "running"} THEN 1 ELSE 0)
                                      - (IF ipc[c] \in {"lookup", "running"} THEN 1 ELSE 0)
  <2> DEFINE S == Idempotency!Pending(k)
  <2>1. Idempotency!Pending(k)' = IF to \in {"lookup", "running"} THEN S \cup {c} ELSE S \ {c}
    BY <1>1, <1>3 DEF Idempotency!Pending
  <2>2. c \in S <=> ipc[c] \in {"lookup", "running"}
    BY <1>3 DEF Idempotency!Pending
  <2> HIDE DEF S
  <2>3. /\ IsFiniteSet(S) /\ Cardinality(S) \in Nat
    BY WaitingCounts, FS_CardinalityType DEF S
  <2>4. /\ Cardinality(S \cup {c}) = IF c \in S THEN Cardinality(S) ELSE Cardinality(S) + 1
        /\ Cardinality(S \ {c}) = IF c \in S THEN Cardinality(S) - 1 ELSE Cardinality(S)
    BY <2>3, FS_AddElement, FS_RemoveElement
  <2>5. Waiting(k)' = IF to \in {"lookup", "running"} THEN Cardinality(S \cup {c})
                                                      ELSE Cardinality(S \ {c})
    BY <2>1 DEF Waiting
  <2>6. Waiting(k) = Cardinality(S)
    BY DEF Waiting, S
  <2> QED
    BY <2>2, <2>3, <2>4, <2>5, <2>6
<1>4. key[c] = k =>
              /\ to \in Idempotency!Unfinished => Busy(k)'
              /\ ipc[c] \in Idempotency!Unfinished => Busy(k)
              /\ to = "lookup" => Idempotency!Looking(k)' # {}
              /\ to # "lookup" /\ ipc[c] # "lookup"
                   => Idempotency!Looking(k)' = Idempotency!Looking(k)
              /\ ipc[c] = "lookup" => Idempotency!Looking(k) # {}
  BY <1>1 DEF Busy, Idempotency!Looking
<1>5. Idempotency!Pending(k)' = Idempotency!Pending(k) => Waiting(k)' = Waiting(k)
  BY DEF Waiting
<1> QED
  BY <1>2, <1>3, <1>4, <1>5

(* Nothing is known, and each key has its one chance.                      *)
LEMMA IdempotencyInit == Idempotency!Init => Idempotency!IdempotencyInv
<1> SUFFICES ASSUME Idempotency!Init PROVE Idempotency!IdempotencyInv
  OBVIOUS
<1> USE DEF Idempotency!Init
<1>1. Idempotency!TypeOK
  BY DEF Idempotency!TypeOK, Idempotency!Unfinished, Idempotency!Ran, Idempotency!Ended
<1>2. ASSUME NEW k \in Keys PROVE effects[k] + Idempotency!Chances(k) <= 1 + causes[k]
  <2>1. ~Idempotency!Known(k) /\ ~Busy(k)
    BY DEF Idempotency!Known, Busy, Idempotency!Unfinished, Idempotency!Ran
  <2> QED
    BY <2>1, ChancesByCase DEF ChancesSay
<1> QED
  BY <1>1, <1>2 DEF Idempotency!IdempotencyInv

(* No key may gain more chances and effects than it is charged for.        *)
LEMMA BudgetKept ==
  ASSUME Idempotency!IdempotencyInv, Idempotency!TypeOK',
         \A k \in Keys : \E more \in Nat :
           /\ causes'[k] = causes[k] + more
           /\ effects'[k] + Idempotency!Chances(k)'
                <= effects[k] + Idempotency!Chances(k) + more
  PROVE  Idempotency!IdempotencyInv'
<1>1. ASSUME NEW k \in Keys PROVE effects'[k] + Idempotency!Chances(k)' <= 1 + causes'[k]
  <2>1. PICK more \in Nat :
          /\ causes'[k] = causes[k] + more
          /\ effects'[k] + Idempotency!Chances(k)'
               <= effects[k] + Idempotency!Chances(k) + more
    OBVIOUS
  <2>2. /\ effects[k] \in Nat /\ causes[k] \in Nat /\ effects'[k] \in Nat
        /\ Idempotency!Chances(k) \in Nat /\ Idempotency!Chances(k)' \in Nat
    BY ChancesBeforeAndAfter DEF ChancesSay, Idempotency!IdempotencyInv, Idempotency!TypeOK
  <2>3. effects[k] + Idempotency!Chances(k) <= 1 + causes[k]
    BY DEF Idempotency!IdempotencyInv
  <2> QED
    BY <2>1, <2>2, <2>3
<1> QED
  BY <1>1 DEF Idempotency!IdempotencyInv

(* One attempt moves: the other keys are as they were.                     *)
LEMMA OneKeyMoves ==
  ASSUME Idempotency!IdempotencyInv, Idempotency!TypeOK',
         NEW c \in Calls, NEW to \in IdempotencyPcs, NEW k \in Keys, key[c] = k,
         ipc' = [ipc EXCEPT ![c] = to], key' = key,
         \A j \in Keys \ {k} : /\ Idempotency!Known(j)' <=> Idempotency!Known(j)
                               /\ effects'[j] = effects[j] /\ causes'[j] = causes[j],
         \E more \in Nat :
           /\ causes'[k] = causes[k] + more
           /\ effects'[k] + Idempotency!Chances(k)'
                <= effects[k] + Idempotency!Chances(k) + more
  PROVE  Idempotency!IdempotencyInv'
<1>1. Idempotency!TypeOK
  BY DEF Idempotency!IdempotencyInv
<1>2. ASSUME NEW j \in Keys \ {k}
      PROVE  \E more \in Nat :
               /\ causes'[j] = causes[j] + more
               /\ effects'[j] + Idempotency!Chances(j)'
                    <= effects[j] + Idempotency!Chances(j) + more
  <2>1. /\ Waiting(j)' = Waiting(j) /\ (Busy(j)' <=> Busy(j))
        /\ Idempotency!Looking(j)' = Idempotency!Looking(j)
    BY <1>1, <1>2, AttemptMoves
  <2>2. Idempotency!Chances(j)' = Idempotency!Chances(j)
    BY <2>1, <1>2, ChancesBeforeAndAfter DEF ChancesSay
  <2>3. effects[j] \in Nat /\ causes[j] \in Nat /\ Idempotency!Chances(j) \in Nat
    BY <1>1, ChancesByCase DEF ChancesSay, Idempotency!TypeOK
  <2>4. 0 \in Nat /\ causes'[j] = causes[j] + 0
        /\ effects'[j] + Idempotency!Chances(j)' <= effects[j] + Idempotency!Chances(j) + 0
    BY <2>2, <2>3, <1>2
  <2> QED
    BY <2>4
<1>3. ASSUME NEW j \in Keys
      PROVE  \E more \in Nat :
               /\ causes'[j] = causes[j] + more
               /\ effects'[j] + Idempotency!Chances(j)'
                    <= effects[j] + Idempotency!Chances(j) + more
  <2>1. CASE j # k
    BY <2>1, <1>2
  <2>2. CASE j = k
    BY <2>2
  <2> QED
    BY <2>1, <2>2
<1> QED
  BY <1>3, BudgetKept

LEMMA SendKeepsBudget ==
  ASSUME Idempotency!IdempotencyInv, NEW c \in Calls, Idempotency!Send(c)
  PROVE  Idempotency!IdempotencyInv'
<1>1. Idempotency!TypeOK
  BY DEF Idempotency!IdempotencyInv
<1>2. /\ ipc[c] = "idle" /\ ipc' = [ipc EXCEPT ![c] = "lookup"]
      /\ causes' = [k \in Keys |-> causes[k] + (IF key[c] = k /\ Busy(k) THEN 1 ELSE 0)]
      /\ UNCHANGED <<answers, storing, key, inst, answer, effects, ifaults>>
  BY DEF Idempotency!Send, Idempotency!Charge, Busy
<1>3. Idempotency!TypeOK'
  BY <1>1, <1>2 DEF Idempotency!TypeOK, Idempotency!Unfinished
<1>4. PICK k \in Keys : key[c] = k
  BY <1>1 DEF Idempotency!TypeOK
<1>5. "lookup" \in IdempotencyPcs /\ "lookup" \in Idempotency!Unfinished
  BY DEF IdempotencyPcs, Idempotency!Unfinished
<1>6. \A j \in Keys : Idempotency!Known(j)' <=> Idempotency!Known(j)
  BY <1>2 DEF Idempotency!Known
<1>7. \A j \in Keys \ {k} : effects'[j] = effects[j] /\ causes'[j] = causes[j]
  BY <1>1, <1>2, <1>4 DEF Idempotency!TypeOK
<1> DEFINE more == IF Busy(k) THEN 1 ELSE 0
<1>8. /\ causes'[k] = causes[k] + more /\ effects'[k] = effects[k] /\ more \in Nat
  BY <1>2, <1>4
<1>9. /\ Waiting(k)' = Waiting(k) + (IF "lookup" \in {"lookup", "running"} THEN 1 ELSE 0)
                                  - (IF ipc[c] \in {"lookup", "running"} THEN 1 ELSE 0)
      /\ Busy(k)' /\ Idempotency!Looking(k)' # {}
  BY <1>1, <1>2, <1>4, <1>5, AttemptMoves
<1>10. effects'[k] + Idempotency!Chances(k)' <= effects[k] + Idempotency!Chances(k) + more
  <2>1. effects[k] \in Nat
    BY <1>1 DEF Idempotency!TypeOK
  <2> QED
    BY <2>1, <1>2, <1>6, <1>8, <1>9, ChancesBeforeAndAfter DEF ChancesSay
<1> HIDE DEF more
<1> QED
  BY <1>2, <1>3, <1>4, <1>5, <1>6, <1>7, <1>8, <1>10, OneKeyMoves

LEMMA LookupKeepsBudget ==
  ASSUME Idempotency!IdempotencyInv, NEW c \in Calls, Idempotency!Lookup(c)
  PROVE  Idempotency!IdempotencyInv'
<1>1. Idempotency!TypeOK
  BY DEF Idempotency!IdempotencyInv
<1>2. PICK k \in Keys : key[c] = k
  BY <1>1 DEF Idempotency!TypeOK
<1>3. /\ ipc[c] = "lookup"
      /\ UNCHANGED <<answers, storing, key, inst, effects, ifaults>>
  BY DEF Idempotency!Lookup
<1>4. \A j \in Keys : Idempotency!Known(j)' <=> Idempotency!Known(j)
  BY <1>3 DEF Idempotency!Known
<1>5. effects[k] \in Nat /\ causes[k] \in Nat
  BY <1>1 DEF Idempotency!TypeOK
<1>6. CASE answers[k] # None
  <2>1. /\ ipc' = [ipc EXCEPT ![c] = "answered"] /\ causes' = causes
        /\ answer' = [answer EXCEPT ![c] = [status |-> 200, body |-> answers[k]]]
    BY <1>2, <1>6 DEF Idempotency!Lookup
  <2>2. Idempotency!Known(k) /\ Idempotency!Looking(k) # {}
    BY <1>2, <1>3, <1>6 DEF Idempotency!Known, Idempotency!Looking
  <2>3. "answered" \in IdempotencyPcs
    BY DEF IdempotencyPcs, Idempotency!Ended
  <2>4. Idempotency!TypeOK'
    <3>1. [status |-> 200, body |-> answers[k]] \in Idempotency!Answers
      BY <1>1, <1>6 DEF Idempotency!TypeOK, Idempotency!Answers
    <3>2. answer' \in [Calls -> Idempotency!Answers \cup {None}]
      BY <2>1, <3>1, <1>1, Zenon DEF Idempotency!TypeOK
    <3> QED
      BY <1>1, <1>3, <2>1, <3>2 DEF Idempotency!TypeOK, Idempotency!Ended
  <2>5. Waiting(k)' = Waiting(k) + (IF "answered" \in {"lookup", "running"} THEN 1 ELSE 0)
                                 - (IF ipc[c] \in {"lookup", "running"} THEN 1 ELSE 0)
    BY <1>1, <1>2, <1>3, <2>1, <2>3, AttemptMoves
  <2>6. effects'[k] + Idempotency!Chances(k)' <= effects[k] + Idempotency!Chances(k) + 0
    BY <1>3, <1>4, <1>5, <2>2, <2>5, ChancesBeforeAndAfter DEF ChancesSay
  <2>7. 0 \in Nat /\ causes'[k] = causes[k] + 0
    BY <1>5, <2>1
  <2>8. \A j \in Keys \ {k} : effects'[j] = effects[j] /\ causes'[j] = causes[j]
    BY <1>3, <2>1
  <2> QED
    BY <1>2, <1>3, <1>4, <2>1, <2>3, <2>4, <2>6, <2>7, <2>8, OneKeyMoves
<1>7. CASE answers[k] = None
  <2> DEFINE more == IF \E s \in storing : s.key = k THEN 1 ELSE 0
  <2>1. /\ ipc' = [ipc EXCEPT ![c] = "running"] /\ answer' = answer
        /\ causes' = [j \in Keys |-> causes[j] + (IF j = k THEN more ELSE 0)]
    BY <1>2, <1>7 DEF Idempotency!Lookup, Idempotency!Charge
  <2>2. Idempotency!Known(k) => more = 1
    BY <1>7 DEF Idempotency!Known
  <2>3. "running" \in IdempotencyPcs /\ "running" \in Idempotency!Unfinished
    BY DEF IdempotencyPcs, Idempotency!Unfinished
  <2>4. more \in Nat
    OBVIOUS
  <2> HIDE DEF more
  <2>5. Idempotency!TypeOK'
    BY <1>1, <1>3, <2>1, <2>4 DEF Idempotency!TypeOK, Idempotency!Unfinished
  <2>6. /\ Waiting(k)' = Waiting(k) + (IF "running" \in {"lookup", "running"} THEN 1 ELSE 0)
                                    - (IF ipc[c] \in {"lookup", "running"} THEN 1 ELSE 0)
        /\ Busy(k)' /\ (ipc[c] \in Idempotency!Unfinished => Busy(k))
    BY <1>1, <1>2, <1>3, <2>1, <2>3, AttemptMoves
  <2>7. Busy(k)
    BY <1>3, <2>6 DEF Idempotency!Unfinished
  <2>8. effects'[k] + Idempotency!Chances(k)' <= effects[k] + Idempotency!Chances(k) + more
    BY <1>3, <1>4, <1>5, <2>2, <2>4, <2>6, <2>7, ChancesBeforeAndAfter DEF ChancesSay
  <2>9. causes'[k] = causes[k] + more
    BY <2>1
  <2>10. \A j \in Keys \ {k} : effects'[j] = effects[j] /\ causes'[j] = causes[j]
    BY <1>1, <1>3, <2>1 DEF Idempotency!TypeOK
  <2> QED
    BY <1>2, <1>3, <1>4, <2>1, <2>3, <2>4, <2>5, <2>8, <2>9, <2>10, OneKeyMoves
<1> QED
  BY <1>6, <1>7

LEMMA LookupFailsKeepsBudget ==
  ASSUME Idempotency!IdempotencyInv, NEW c \in Calls, Idempotency!LookupFails(c)
  PROVE  Idempotency!IdempotencyInv'
<1>1. Idempotency!TypeOK
  BY DEF Idempotency!IdempotencyInv
<1>2. PICK k \in Keys : key[c] = k
  BY <1>1 DEF Idempotency!TypeOK
<1>3. /\ ipc[c] = "lookup" /\ ipc' = [ipc EXCEPT ![c] = "answered"]
      /\ answer' = [answer EXCEPT ![c] = [status |-> 503, body |-> "error"]]
      /\ UNCHANGED <<answers, storing, key, inst, effects, causes, ifaults>>
  BY DEF Idempotency!LookupFails
<1>4. \A j \in Keys : Idempotency!Known(j)' <=> Idempotency!Known(j)
  BY <1>3 DEF Idempotency!Known
<1>5. effects[k] \in Nat /\ causes[k] \in Nat
  BY <1>1 DEF Idempotency!TypeOK
<1>6. "answered" \in IdempotencyPcs
  BY DEF IdempotencyPcs, Idempotency!Ended
<1>7. Idempotency!TypeOK'
  <2>1. [status |-> 503, body |-> "error"] \in Idempotency!Answers
    BY DEF Idempotency!Answers, Idempotency!Bodies
  <2>2. answer' \in [Calls -> Idempotency!Answers \cup {None}]
    BY <1>3, <2>1, <1>1, Zenon DEF Idempotency!TypeOK
  <2> QED
    BY <1>1, <1>3, <2>2 DEF Idempotency!TypeOK, Idempotency!Ended
<1>8. /\ Waiting(k)' = Waiting(k) + (IF "answered" \in {"lookup", "running"} THEN 1 ELSE 0)
                                  - (IF ipc[c] \in {"lookup", "running"} THEN 1 ELSE 0)
      /\ ipc[c] = "lookup" => Idempotency!Looking(k) # {}
  BY <1>1, <1>2, <1>3, <1>6, AttemptMoves
<1>9. effects'[k] + Idempotency!Chances(k)' <= effects[k] + Idempotency!Chances(k) + 0
  BY <1>2, <1>3, <1>4, <1>5, <1>8, ChancesBeforeAndAfter DEF ChancesSay
<1>10. 0 \in Nat /\ causes'[k] = causes[k] + 0
  BY <1>3, <1>5
<1>11. \A j \in Keys \ {k} : effects'[j] = effects[j] /\ causes'[j] = causes[j]
  BY <1>3
<1> QED
  BY <1>2, <1>3, <1>4, <1>6, <1>7, <1>9, <1>10, <1>11, OneKeyMoves

LEMMA HandleKeepsBudget ==
  ASSUME Idempotency!IdempotencyInv, NEW c \in Calls, Idempotency!Handle(c)
  PROVE  Idempotency!IdempotencyInv'
<1>1. Idempotency!TypeOK
  BY DEF Idempotency!IdempotencyInv
<1>2. PICK k \in Keys : key[c] = k
  BY <1>1 DEF Idempotency!TypeOK
<1>3. PICK end \in Idempotency!Ran, done \in {0, 1} :
        /\ ipc[c] = "running" /\ ipc' = [ipc EXCEPT ![c] = end]
        /\ effects' = [effects EXCEPT ![k] = effects[k] + done]
        /\ UNCHANGED <<answers, storing, key, inst, answer, causes, ifaults>>
  BY <1>2 DEF Idempotency!Handle
<1>4. \A j \in Keys : Idempotency!Known(j)' <=> Idempotency!Known(j)
  BY <1>3 DEF Idempotency!Known
<1>5. effects[k] \in Nat /\ causes[k] \in Nat
  BY <1>1 DEF Idempotency!TypeOK
<1>6. /\ end \in IdempotencyPcs /\ end \in Idempotency!Unfinished
      /\ end # "lookup" /\ end # "running"
  BY DEF IdempotencyPcs, Idempotency!Unfinished, Idempotency!Ran
<1>7. Idempotency!TypeOK'
  BY <1>1, <1>2, <1>3 DEF Idempotency!TypeOK, Idempotency!Unfinished
<1>8. /\ Waiting(k)' = Waiting(k) + (IF end \in {"lookup", "running"} THEN 1 ELSE 0)
                                  - (IF ipc[c] \in {"lookup", "running"} THEN 1 ELSE 0)
      /\ Busy(k)' /\ (ipc[c] \in Idempotency!Unfinished => Busy(k))
      /\ Idempotency!Looking(k)' = Idempotency!Looking(k)
  BY <1>1, <1>2, <1>3, <1>6, AttemptMoves
<1>9. Waiting(k)' = Waiting(k) - 1 /\ Busy(k)
  BY <1>3, <1>6, <1>8, ChancesByCase DEF ChancesSay, Idempotency!Unfinished
<1>10. effects'[k] + Idempotency!Chances(k)' <= effects[k] + Idempotency!Chances(k) + 0
  <2>1. effects'[k] = effects[k] + done
    BY <1>1, <1>3 DEF Idempotency!TypeOK
  <2> QED
    BY <2>1, <1>4, <1>5, <1>8, <1>9, ChancesBeforeAndAfter DEF ChancesSay
<1>11. 0 \in Nat /\ causes'[k] = causes[k] + 0
  BY <1>3, <1>5
<1>12. \A j \in Keys \ {k} : effects'[j] = effects[j] /\ causes'[j] = causes[j]
  BY <1>1, <1>3 DEF Idempotency!TypeOK
<1> QED
  BY <1>2, <1>3, <1>4, <1>6, <1>7, <1>10, <1>11, <1>12, OneKeyMoves

LEMMA RespondKeepsBudget ==
  ASSUME Idempotency!IdempotencyInv, NEW c \in Calls, Idempotency!Respond(c)
  PROVE  Idempotency!IdempotencyInv'
<1>1. Idempotency!TypeOK
  BY DEF Idempotency!IdempotencyInv
<1>2. PICK k \in Keys : key[c] = k
  BY <1>1 DEF Idempotency!TypeOK
<1> DEFINE body   == IF ipc[c] = "ran" THEN "done" ELSE "error"
           status == [ran |-> 200, refused |-> 409, failed |-> 500]
           s      == [key |-> k, inst |-> inst[c], body |-> body]
           a      == [status |-> status[ipc[c]], body |-> body]
<1>3. /\ ipc[c] \in Idempotency!Ran /\ ipc' = [ipc EXCEPT ![c] = "answered"]
      /\ storing' = storing \cup {s} /\ answer' = [answer EXCEPT ![c] = a]
      /\ UNCHANGED <<answers, key, inst, effects, causes, ifaults>>
  BY <1>2 DEF Idempotency!Respond
<1>4. /\ s \in [key : Keys, inst : Instances, body : Idempotency!Bodies] /\ s.key = k
      /\ a \in Idempotency!Answers
  BY <1>1, <1>3 DEF Idempotency!TypeOK, Idempotency!Bodies, Idempotency!Answers, Idempotency!Ran
<1> HIDE DEF s, a
<1>5. /\ Idempotency!Known(k)'
      /\ \A j \in Keys \ {k} : Idempotency!Known(j)' <=> Idempotency!Known(j)
  BY <1>3, <1>4 DEF Idempotency!Known
<1>6. effects[k] \in Nat /\ causes[k] \in Nat
  BY <1>1 DEF Idempotency!TypeOK
<1>7. "answered" \in IdempotencyPcs
  BY DEF IdempotencyPcs, Idempotency!Ended
<1>8. Idempotency!TypeOK'
  <2>1. answer' \in [Calls -> Idempotency!Answers \cup {None}]
    BY <1>3, <1>4, <1>1, Zenon DEF Idempotency!TypeOK
  <2>2. storing' \in SUBSET [key : Keys, inst : Instances, body : Idempotency!Bodies]
    BY <1>1, <1>3, <1>4 DEF Idempotency!TypeOK
  <2> QED
    BY <1>1, <1>3, <2>1, <2>2 DEF Idempotency!TypeOK, Idempotency!Ended
<1>9. /\ Waiting(k)' = Waiting(k) + (IF "answered" \in {"lookup", "running"} THEN 1 ELSE 0)
                                  - (IF ipc[c] \in {"lookup", "running"} THEN 1 ELSE 0)
      /\ ipc[c] \in Idempotency!Unfinished => Busy(k)
      /\ ipc[c] # "lookup" => Idempotency!Looking(k)' = Idempotency!Looking(k)
  BY <1>1, <1>2, <1>3, <1>7, AttemptMoves
<1>10. /\ Waiting(k)' = Waiting(k) /\ Busy(k)
       /\ Idempotency!Looking(k)' = Idempotency!Looking(k)
  BY <1>3, <1>9, ChancesByCase DEF ChancesSay, Idempotency!Unfinished, Idempotency!Ran
<1>11. effects'[k] + Idempotency!Chances(k)' <= effects[k] + Idempotency!Chances(k) + 0
  BY <1>3, <1>5, <1>6, <1>10, ChancesBeforeAndAfter DEF ChancesSay
<1>12. 0 \in Nat /\ causes'[k] = causes[k] + 0
  BY <1>3, <1>6
<1>13. \A j \in Keys \ {k} : effects'[j] = effects[j] /\ causes'[j] = causes[j]
  BY <1>3
<1> QED
  BY <1>2, <1>3, <1>5, <1>7, <1>8, <1>11, <1>12, <1>13, OneKeyMoves

LEMMA StoreKeepsBudget ==
  ASSUME Idempotency!IdempotencyInv, NEW s \in storing, Idempotency!Store(s)
  PROVE  Idempotency!IdempotencyInv'
<1>1. Idempotency!TypeOK
  BY DEF Idempotency!IdempotencyInv
<1>2. /\ storing' = storing \ {s} /\ answers' = [answers EXCEPT ![s.key] = s.body]
      /\ UNCHANGED <<ipc, key, inst, answer, effects, causes, ifaults>>
  BY DEF Idempotency!Store, Idempotency!callVars
<1>3. s.key \in Keys /\ s.body \in Idempotency!Bodies /\ s.body # None
  BY <1>1, IdempotencyAssumption DEF Idempotency!TypeOK, Idempotency!Bodies
<1>4. /\ answers' \in [Keys -> Idempotency!Bodies \cup {None}]
      /\ answers'[s.key] # None /\ \A j \in Keys \ {s.key} : answers'[j] = answers[j]
  <2>1. answers' \in [Keys -> Idempotency!Bodies \cup {None}]
    BY <1>1, <1>2, <1>3, Zenon DEF Idempotency!TypeOK
  <2> QED
    BY <2>1, <1>1, <1>2, <1>3 DEF Idempotency!TypeOK
<1>5. Idempotency!TypeOK'
  BY <1>1, <1>2, <1>4 DEF Idempotency!TypeOK
<1>6. ASSUME NEW k \in Keys
      PROVE  \E more \in Nat :
               /\ causes'[k] = causes[k] + more
               /\ effects'[k] + Idempotency!Chances(k)'
                    <= effects[k] + Idempotency!Chances(k) + more
  <2>1. Idempotency!Known(k)' <=> Idempotency!Known(k)
    BY <1>2, <1>4 DEF Idempotency!Known
  <2>2. /\ Waiting(k)' = Waiting(k) /\ (Busy(k)' <=> Busy(k))
        /\ Idempotency!Looking(k)' = Idempotency!Looking(k)
    BY <1>2 DEF Waiting, Busy, Idempotency!Looking, Idempotency!Pending
  <2>3. Idempotency!Chances(k)' = Idempotency!Chances(k)
    BY <2>1, <2>2, ChancesBeforeAndAfter DEF ChancesSay
  <2>4. effects[k] \in Nat /\ causes[k] \in Nat /\ Idempotency!Chances(k) \in Nat
    BY <1>1, ChancesByCase DEF ChancesSay, Idempotency!TypeOK
  <2>5. 0 \in Nat /\ causes'[k] = causes[k] + 0
        /\ effects'[k] + Idempotency!Chances(k)' <= effects[k] + Idempotency!Chances(k) + 0
    BY <1>2, <2>3, <2>4
  <2> QED
    BY <2>5
<1> QED
  BY <1>5, <1>6, BudgetKept

LEMMA ExpireKeepsBudget ==
  ASSUME Idempotency!IdempotencyInv, NEW e \in Keys, Idempotency!Expire(e)
  PROVE  Idempotency!IdempotencyInv'
<1>1. Idempotency!TypeOK
  BY DEF Idempotency!IdempotencyInv
<1>2. /\ answers[e] # None /\ answers' = [answers EXCEPT ![e] = None]
      /\ causes' = [k \in Keys |-> causes[k] + (IF k = e THEN 1 ELSE 0)]
      /\ ifaults' = ifaults + 1
      /\ UNCHANGED <<storing, ipc, key, inst, answer, effects>>
  BY DEF Idempotency!Expire, Idempotency!Charge, Idempotency!callVars
<1>3. /\ answers' \in [Keys -> Idempotency!Bodies \cup {None}]
      /\ \A j \in Keys \ {e} : answers'[j] = answers[j]
  <2>1. answers' \in [Keys -> Idempotency!Bodies \cup {None}]
    BY <1>1, <1>2, Zenon DEF Idempotency!TypeOK
  <2> QED
    BY <2>1, <1>1, <1>2 DEF Idempotency!TypeOK
<1>4. Idempotency!TypeOK'
  BY <1>1, <1>2, <1>3 DEF Idempotency!TypeOK
<1>5. ASSUME NEW k \in Keys
      PROVE  \E more \in Nat :
               /\ causes'[k] = causes[k] + more
               /\ effects'[k] + Idempotency!Chances(k)'
                    <= effects[k] + Idempotency!Chances(k) + more
  <2> DEFINE more == IF k = e THEN 1 ELSE 0
  <2>1. /\ k # e => (Idempotency!Known(k)' <=> Idempotency!Known(k))
        /\ k = e => Idempotency!Known(k)
    BY <1>2, <1>3 DEF Idempotency!Known
  <2>2. /\ Waiting(k)' = Waiting(k) /\ (Busy(k)' <=> Busy(k))
        /\ Idempotency!Looking(k)' = Idempotency!Looking(k)
    BY <1>2 DEF Waiting, Busy, Idempotency!Looking, Idempotency!Pending
  <2>3. Idempotency!Chances(k)' <= Idempotency!Chances(k) + more
    BY <2>1, <2>2, ChancesBeforeAndAfter DEF ChancesSay
  <2>4. /\ effects[k] \in Nat /\ causes[k] \in Nat
        /\ Idempotency!Chances(k) \in Nat /\ Idempotency!Chances(k)' \in Nat
    BY <1>1, ChancesBeforeAndAfter DEF ChancesSay, Idempotency!TypeOK
  <2>5. more \in Nat /\ causes'[k] = causes[k] + more
        /\ effects'[k] + Idempotency!Chances(k)' <= effects[k] + Idempotency!Chances(k) + more
    BY <1>2, <2>3, <2>4
  <2> QED
    BY <2>5
<1> QED
  BY <1>4, <1>5, BudgetKept

LEMMA CrashKeepsBudget ==
  ASSUME Idempotency!IdempotencyInv, NEW i \in Instances, Idempotency!Crash(i)
  PROVE  Idempotency!IdempotencyInv'
<1> DEFINE cutOff == {c \in Calls : inst[c] = i /\ ipc[c] \in Idempotency!Unfinished}
           lost   == {s \in storing : s.inst = i}
           hit    == {key[c] : c \in cutOff} \cup {s.key : s \in lost}
<1>1. Idempotency!TypeOK
  BY DEF Idempotency!IdempotencyInv
<1>2. /\ ipc' = [c \in Calls |-> IF c \in cutOff THEN "cut" ELSE ipc[c]]
      /\ storing' = storing \ lost
      /\ causes' = [k \in Keys |-> causes[k] + (IF k \in hit THEN 1 ELSE 0)]
      /\ ifaults' = ifaults + 1
      /\ UNCHANGED <<answers, key, inst, answer, effects>>
  BY DEF Idempotency!Crash, Idempotency!Charge
<1>3. Idempotency!TypeOK'
  BY <1>1, <1>2 DEF Idempotency!TypeOK, Idempotency!Ended
<1>4. ASSUME NEW k \in Keys
      PROVE  \E more \in Nat :
               /\ causes'[k] = causes[k] + more
               /\ effects'[k] + Idempotency!Chances(k)'
                    <= effects[k] + Idempotency!Chances(k) + more
  <2> DEFINE more == IF k \in hit THEN 1 ELSE 0
  <2>1. \A c \in Calls : ipc'[c] = IF c \in cutOff THEN "cut" ELSE ipc[c]
    BY <1>2
  <2>2. Idempotency!Pending(k)' \subseteq Idempotency!Pending(k)
    BY <1>2, <2>1 DEF Idempotency!Pending
  <2>3. Waiting(k)' <= Waiting(k)
    BY <2>2, WaitingCounts, FS_Subset DEF Waiting
  <2>4. /\ Idempotency!Looking(k)' \subseteq Idempotency!Looking(k)
        /\ Busy(k)' => Busy(k)
    BY <1>2, <2>1 DEF Idempotency!Looking, Busy, Idempotency!Unfinished, Idempotency!Ran
  <2>5. Idempotency!Known(k)' => Idempotency!Known(k)
    BY <1>2 DEF Idempotency!Known
  <2>6. k \notin hit =>
          /\ Idempotency!Known(k)' <=> Idempotency!Known(k)
          /\ Busy(k)' <=> Busy(k)
          /\ Waiting(k)' = Waiting(k) /\ Idempotency!Looking(k)' = Idempotency!Looking(k)
    <3> SUFFICES ASSUME k \notin hit
                 PROVE  /\ Idempotency!Known(k)' <=> Idempotency!Known(k)
                        /\ Busy(k)' <=> Busy(k)
                        /\ Waiting(k)' = Waiting(k) /\ Idempotency!Looking(k)' = Idempotency!Looking(k)
      OBVIOUS
    <3>1. /\ \A c \in Calls : key[c] = k => ipc'[c] = ipc[c]
          /\ \A s \in storing : s.key = k => s \in storing'
      BY <1>2, <2>1
    <3>2. Idempotency!Known(k)' <=> Idempotency!Known(k)
      BY <1>2, <3>1 DEF Idempotency!Known
    <3>3. Busy(k)' <=> Busy(k)
      BY <1>2, <3>1 DEF Busy
    <3>4. Idempotency!Pending(k)' = Idempotency!Pending(k)
      BY <1>2, <3>1 DEF Idempotency!Pending
    <3>5. Idempotency!Looking(k)' = Idempotency!Looking(k)
      BY <1>2, <3>1 DEF Idempotency!Looking
    <3> QED
      BY <3>2, <3>3, <3>4, <3>5 DEF Waiting
  <2>7. k \in hit => Busy(k) \/ Idempotency!Known(k)
    BY DEF Busy, Idempotency!Known
  <2>8. causes'[k] = causes[k] + more
    BY <1>2
  <2> HIDE DEF hit, cutOff, lost
  <2>9. Idempotency!Chances(k)' <= Idempotency!Chances(k) + more
    <3>1. CASE k \notin hit
      BY <3>1, <2>6, ChancesBeforeAndAfter DEF ChancesSay
    <3>2. CASE k \in hit
      BY <3>2, <2>3, <2>4, <2>5, <2>7, ChancesBeforeAndAfter DEF ChancesSay
    <3> QED
      BY <3>1, <3>2
  <2>10. /\ effects[k] \in Nat /\ causes[k] \in Nat /\ more \in Nat
         /\ Idempotency!Chances(k) \in Nat /\ Idempotency!Chances(k)' \in Nat
    BY <1>1, ChancesBeforeAndAfter DEF ChancesSay, Idempotency!TypeOK
  <2> HIDE DEF more
  <2> QED
    BY <1>2, <2>8, <2>9, <2>10
<1> QED
  BY <1>3, <1>4, BudgetKept

(* Every step keeps IdempotencyInv.                                        *)
LEMMA IdempotencyStep ==
  Idempotency!IdempotencyInv /\ [Idempotency!Next]_(Idempotency!vars)
    => Idempotency!IdempotencyInv'
<1> SUFFICES ASSUME Idempotency!IdempotencyInv, [Idempotency!Next]_(Idempotency!vars)
             PROVE  Idempotency!IdempotencyInv'
  OBVIOUS
<1>1. CASE UNCHANGED Idempotency!vars
  BY <1>1 DEF Idempotency!vars, Idempotency!callVars, Idempotency!IdempotencyInv,
     Idempotency!TypeOK, Idempotency!Chances, Idempotency!Known, Idempotency!Pending,
     Idempotency!Looking
<1>2. CASE Idempotency!Next
  BY <1>2, SendKeepsBudget, LookupKeepsBudget, LookupFailsKeepsBudget, HandleKeepsBudget,
     RespondKeepsBudget, StoreKeepsBudget, ExpireKeepsBudget, CrashKeepsBudget
  DEF Idempotency!Next
<1> QED
  BY <1>1, <1>2

(* Chances are paid for before they are taken, throughout.                 *)
THEOREM IdempotencyInvariant == Idempotency!Spec => []Idempotency!IdempotencyInv
BY IdempotencyInit, IdempotencyStep, PTL DEF Idempotency!Spec

(* However many attempts, processes, crashes and expiries: an operation    *)
(* takes effect at most once more than something gave it cause to.         *)
THEOREM EveryRepeatHasACause == Idempotency!Spec => []RepeatsHaveACause
<1>1. Idempotency!IdempotencyInv => RepeatsHaveACause
  <2> SUFFICES ASSUME Idempotency!IdempotencyInv, NEW k \in Keys
               PROVE  effects[k] <= 1 + causes[k]
    BY DEF RepeatsHaveACause, Idempotency!RepeatsHaveACause
  <2>1. /\ effects[k] \in Nat /\ causes[k] \in Nat /\ Idempotency!Chances(k) \in Nat
        /\ effects[k] + Idempotency!Chances(k) <= 1 + causes[k]
    BY ChancesByCase DEF ChancesSay, Idempotency!IdempotencyInv, Idempotency!TypeOK
  <2> QED
    BY <2>1
<1> QED
  BY <1>1, IdempotencyInvariant, PTL
-----------------------------------------------------------------------------
(* Side by side: each part, seen alone, behaves as its own module says.    *)

(* Services implements its three instantiated parts: a step of one of them *)
(* leaves the variables of the others alone.                               *)
THEOREM PartsBehave == ServicesSpec => Sessions!Spec /\ Catalog!Spec /\ Idempotency!Spec
<1>1. ServicesInit => Sessions!Init /\ Catalog!Init /\ Idempotency!Init
  BY DEF ServicesInit
<1>2. UNCHANGED sessions => UNCHANGED Sessions!vars
  BY DEF sessions, Sessions!vars, Sessions!tables, Sessions!tokens, Sessions!callVars,
         Sessions!history
<1>3. UNCHANGED catalog => UNCHANGED Catalog!vars
  BY DEF catalog, Catalog!vars, Catalog!tables
<1>4. UNCHANGED idempotency => UNCHANGED Idempotency!vars
  BY DEF idempotency, Idempotency!vars, Idempotency!callVars
<1>5. [ServicesNext]_<<part, vars, sessions, catalog, idempotency>>
        => /\ [Sessions!Next]_(Sessions!vars) /\ [Catalog!Next]_(Catalog!vars)
           /\ [Idempotency!Next]_(Idempotency!vars)
  BY <1>2, <1>3, <1>4 DEF ServicesNext
<1> QED
  BY <1>1, <1>5, PTL DEF ServicesSpec, Sessions!Spec, Catalog!Spec, Idempotency!Spec

(* The inductive invariants of the three parts hold together.              *)
THEOREM ServicesInvariant == ServicesSpec => []ServicesInv
<1>1. Sessions!SessionsInv /\ Catalog!CatalogInv /\ Idempotency!IdempotencyInv => ServicesInv
  BY DEF ServicesInv
<1> QED
  BY <1>1, PartsBehave, SessionsInvariant, CatalogInvariant, IdempotencyInvariant, PTL

=============================================================================
