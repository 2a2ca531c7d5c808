-------------------------- MODULE Membership_proofs --------------------------
(***************************************************************************)
(* Members, invitations and codes for any number of calls, branches,       *)
(* passwords and break-offs.                                               *)
(***************************************************************************)
EXTENDS Membership, TLAPS

LEMMA MoveEffect ==
  ASSUME TypeOK, NEW r \in Requests, NEW from, NEW to, Move(r, from, to)
  PROVE  pc[r] = from /\ pc'[r] = to /\ \A s \in Requests \ {r} : pc'[s] = pc[s]
BY DEF TypeOK, Move

LEMMA MembersPresent == Absent \notin Members
BY MembershipAssumption DEF Members, Roles, Statuses

LEMMA ChangedRole ==
  ASSUME NEW f \in [Requests -> Changes], NEW r \in Requests, NEW role \in Roles
  PROVE  LET g == [f EXCEPT ![r].role = role]
         IN  /\ g \in [Requests -> Changes]
             /\ g[r].role = role
             /\ \A s \in Requests \ {r} : g[s] = f[s]
<1>1. /\ [f[r] EXCEPT !.role = role] \in Changes
      /\ [f[r] EXCEPT !.role = role].role = role
  BY DEF Changes
<1> QED
  BY <1>1

LEMMA WrittenMember ==
  ASSUME NEW m \in Members, NEW c \in Changes
  PROVE  [role   |-> IF c.role = "keep" THEN m.role ELSE c.role,
          status |-> IF c.status = "keep" THEN m.status ELSE c.status] \in Members
BY DEF Members, Changes

LEMMA ActivatedMember ==
  ASSUME NEW m \in Members
  PROVE  /\ [m EXCEPT !.status = "active"] \in Members
         /\ [m EXCEPT !.status = "active"].status = "active"
BY DEF Members, Statuses

Appended ==
  /\ DOMAIN resets' = DOMAIN resets \cup {Len(resets) + 1}
  /\ Len(resets) + 1 \notin DOMAIN resets
  /\ \A i \in DOMAIN resets : resets'[i] = resets[i]
  /\ ~ resets'[Len(resets) + 1].consumed

LEMMA AppendEffect ==
  ASSUME resets \in Seq(Resets), resets' = Append(resets, NewReset)
  PROVE  resets' \in Seq(Resets) /\ Appended
<1>1. NewReset \in Resets /\ ~ NewReset.consumed
  BY DEF NewReset, Resets
<1> QED
  BY <1>1 DEF Appended

ConsumedOnly(r) ==
  /\ DOMAIN resets' = DOMAIN resets
  /\ resets'[code[r]].consumed
  /\ \A i \in DOMAIN resets \ {code[r]} : resets'[i] = resets[i]

LEMMA SeqUpdate ==
  ASSUME NEW S, NEW s \in Seq(S), NEW i \in DOMAIN s, NEW y \in S
  PROVE  LET t == [s EXCEPT ![i] = y]
         IN  /\ t \in Seq(S) /\ DOMAIN t = DOMAIN s /\ t[i] = y
             /\ \A j \in DOMAIN s \ {i} : t[j] = s[j]
OBVIOUS

LEMMA SeqElement ==
  ASSUME NEW S, NEW s \in Seq(S), NEW i \in DOMAIN s
  PROVE  s[i] \in S
OBVIOUS

LEMMA FlagSet ==
  ASSUME NEW x \in Resets
  PROVE  /\ [x EXCEPT !.consumed = TRUE] \in Resets
         /\ [x EXCEPT !.consumed = TRUE].consumed
         /\ [x EXCEPT !.expired = TRUE] \in Resets
         /\ [x EXCEPT !.expired = TRUE].consumed = x.consumed
BY DEF Resets

LEMMA ConsumeEffect ==
  ASSUME resets \in Seq(Resets), NEW r \in Requests, code[r] \in DOMAIN resets,
         resets' = [resets EXCEPT ![code[r]].consumed = TRUE]
  PROVE  resets' \in Seq(Resets) /\ ConsumedOnly(r)
<1> DEFINE x == resets[code[r]]
           y == [x EXCEPT !.consumed = TRUE]
<1>1. x \in Resets
  BY SeqElement
<1>2. y \in Resets /\ y.consumed
  BY <1>1, FlagSet
<1>3. resets' = [resets EXCEPT ![code[r]] = y]
  OBVIOUS
<1> HIDE DEF x, y
<1> QED
  BY <1>2, <1>3, SeqUpdate DEF ConsumedOnly

LEMMA ExpireEffect ==
  ASSUME resets \in Seq(Resets), NEW i \in DOMAIN resets,
         resets' = [resets EXCEPT ![i].expired = TRUE]
  PROVE  /\ resets' \in Seq(Resets)
         /\ DOMAIN resets' = DOMAIN resets
         /\ \A j \in DOMAIN resets : resets'[j].consumed = resets[j].consumed
<1> DEFINE x == resets[i]
           y == [x EXCEPT !.expired = TRUE]
<1>1. x \in Resets
  BY SeqElement
<1>2. y \in Resets
  BY <1>1, FlagSet
<1>c. y.consumed = x.consumed
  BY <1>1, FlagSet
<1>3. resets' = [resets EXCEPT ![i] = y]
  OBVIOUS
<1>4. x.consumed = resets[i].consumed
  OBVIOUS
<1> HIDE DEF x, y
<1> DEFINE t == [resets EXCEPT ![i] = y]
<1>d. /\ t \in Seq(Resets) /\ DOMAIN t = DOMAIN resets /\ t[i] = y
      /\ \A j \in DOMAIN resets \ {i} : t[j] = resets[j]
  BY <1>2, SeqUpdate
<1>5. /\ resets' \in Seq(Resets) /\ DOMAIN resets' = DOMAIN resets
      /\ resets'[i] = y
      /\ \A j \in DOMAIN resets \ {i} : resets'[j] = resets[j]
  BY <1>3, <1>d
<1>6. ASSUME NEW j \in DOMAIN resets PROVE resets'[j].consumed = resets[j].consumed
  <2>1. CASE j = i
    BY <1>c, <1>4, <1>5, <2>1
  <2>2. CASE j # i
    BY <1>5, <2>2
  <2> QED
    BY <2>1, <2>2
<1> QED
  BY <1>5, <1>6

LEMMA CodeIndexes ==
  ASSUME NEW s \in Seq(Resets)
  PROVE  /\ Len(s) \in Nat
         /\ \A i \in DOMAIN s : i \in Nat /\ i <= Len(s)
         /\ DOMAIN s # {} => Len(s) \in DOMAIN s /\ Len(s) > 0
<1>1. DOMAIN s = 1 .. Len(s) /\ Len(s) \in Nat
  OBVIOUS
<1> QED
  BY <1>1

\* Whoever stored the password still did, and the rest is as it was.
LEMMA StatusKept ==
  ASSUME StatusFollows, password' = password, member' = member,
         Untouched' => Untouched, \A s \in Requests : StoredBy(s) => StoredBy(s)'
  PROVE  StatusFollows'
BY DEF StatusFollows

LEMMA NoCodes == resets = <<>> => DOMAIN resets = {}
OBVIOUS

LEMMA MoveType ==
  ASSUME TypeOK, NEW r \in Requests, NEW from, NEW to \in Open \cup Ended,
         Move(r, from, to)
  PROVE  pc' \in [Requests -> {"idle"} \cup Open \cup Ended]
BY DEF TypeOK, Move

(* Variables keep their types. *)
LEMMA TypeStep == MembershipInv /\ [Next]_vars => TypeOK'
<1> SUFFICES ASSUME TypeOK, CallsKnown, CodesIssued, [Next]_vars PROVE TypeOK'
  BY DEF MembershipInv
<1>1. ASSUME NEW r \in Requests, TurnedAway(r) PROVE TypeOK'
  <2>1. pc' \in [Requests -> {"idle"} \cup Open \cup Ended]
    BY <1>1, MoveType DEF TurnedAway, Open, Ended
  <2> QED
    BY <1>1, <2>1 DEF TurnedAway, Arrive, tables, bodies, TypeOK, Tokens
<1>2. ASSUME NEW r \in Requests, Invite(r) PROVE TypeOK'
  <2>1. pc' \in [Requests -> {"idle"} \cup Open \cup Ended]
    BY <1>2, MoveType DEF Invite, Arrive, Open, Ended
  <2>2. kind' \in [Requests -> Kinds]
    BY <1>2 DEF Invite, Arrive, Kinds, TypeOK
  <2>3. branches' \in [Requests -> SUBSET Branches]
    <3>1. branches \in [Requests -> SUBSET Branches]
      BY DEF TypeOK
    <3> QED
      BY <1>2, <3>1 DEF Invite
  <2>4. change' \in [Requests -> Changes]
    <3>1. change \in [Requests -> Changes]
      BY DEF TypeOK
    <3> QED
      BY <1>2, <3>1, ChangedRole DEF Invite
  <2> QED
    BY <1>2, <2>1, <2>2, <2>3, <2>4
       DEF Invite, Arrive, tables, bodies, TypeOK, Tokens
<1>3. ASSUME NEW r \in Requests, Update(r) PROVE TypeOK'
  <2>1. pc' \in [Requests -> {"idle"} \cup Open \cup Ended]
    BY <1>3, MoveType DEF Update, Arrive, Open, Ended
  <2>2. kind' \in [Requests -> Kinds]
    BY <1>3 DEF Update, Arrive, Kinds, TypeOK
  <2>3. change' \in [Requests -> Changes]
    <3>1. change \in [Requests -> Changes]
      BY DEF TypeOK
    <3> QED
      BY <1>3, <3>1 DEF Update
  <2> QED
    BY <1>3, <2>1, <2>2, <2>3
       DEF Update, Arrive, tables, bodies, TypeOK, Tokens
<1>4. ASSUME NEW r \in Requests, Remove(r) PROVE TypeOK'
  <2>1. pc' \in [Requests -> {"idle"} \cup Open \cup Ended]
    BY <1>4, MoveType DEF Remove, Arrive, Open, Ended
  <2>2. kind' \in [Requests -> Kinds]
    BY <1>4 DEF Remove, Arrive, Kinds, TypeOK
  <2> QED
    BY <1>4, <2>1, <2>2 DEF Remove, Arrive, tables, bodies, TypeOK, Tokens
<1>5. ASSUME NEW r \in Requests, Assign(r) PROVE TypeOK'
  <2>1. pc' \in [Requests -> {"idle"} \cup Open \cup Ended]
    BY <1>5, MoveType DEF Assign, Arrive, Open, Ended
  <2>2. kind' \in [Requests -> Kinds]
    BY <1>5 DEF Assign, Arrive, Kinds, TypeOK
  <2>3. branches' \in [Requests -> SUBSET Branches]
    <3>1. branches \in [Requests -> SUBSET Branches]
      BY DEF TypeOK
    <3> QED
      BY <1>5, <3>1 DEF Assign
  <2> QED
    BY <1>5, <2>1, <2>2, <2>3
       DEF Assign, Arrive, tables, bodies, TypeOK, Tokens
<1>6. ASSUME NEW r \in Requests, Forget(r) PROVE TypeOK'
  <2>1. pc' \in [Requests -> {"idle"} \cup Open \cup Ended]
    BY <1>6, MoveType DEF Forget, Arrive, Open, Ended
  <2>2. kind' \in [Requests -> Kinds]
    BY <1>6 DEF Forget, Arrive, Kinds, TypeOK
  <2> QED
    BY <1>6, <2>1, <2>2 DEF Forget, Arrive, tables, bodies, TypeOK, Tokens
<1>7. ASSUME NEW r \in Requests, SubmitCode(r) PROVE TypeOK'
  <2>1. pc' \in [Requests -> {"idle"} \cup Open \cup Ended]
    BY <1>7, MoveType DEF SubmitCode, Arrive, Open, Ended
  <2>2. kind' \in [Requests -> Kinds]
    BY <1>7 DEF SubmitCode, Arrive, Kinds, TypeOK
  <2>3. code' \in [Requests -> Nat]
    <3>1. code \in [Requests -> Nat] /\ resets \in Seq(Resets)
      BY DEF TypeOK
    <3> QED
      BY <1>7, <3>1 DEF SubmitCode
  <2>4. entered' \in [Requests -> Passwords \cup {""}]
    <3>1. /\ entered \in [Requests -> Passwords \cup {""}]
          /\ password \in Passwords \cup {"", Absent}
      BY DEF TypeOK
    <3> QED
      BY <1>7, <3>1 DEF SubmitCode
  <2> QED
    BY <1>7, <2>1, <2>2, <2>3, <2>4
       DEF SubmitCode, Arrive, tables, bodies, TypeOK, Tokens
<1>8. ASSUME NEW r \in Requests, Login(r) PROVE TypeOK'
  <2>1. pc' \in [Requests -> {"idle"} \cup Open \cup Ended]
    BY <1>8, MoveType DEF Login, Arrive, Open, Ended
  <2>2. kind' \in [Requests -> Kinds]
    BY <1>8 DEF Login, Arrive, Kinds, TypeOK
  <2>3. entered' \in [Requests -> Passwords \cup {""}]
    <3>1. /\ entered \in [Requests -> Passwords \cup {""}]
          /\ password \in Passwords \cup {"", Absent}
      BY DEF TypeOK
    <3> QED
      BY <1>8, <3>1 DEF Login
  <2> QED
    BY <1>8, <2>1, <2>2, <2>3 DEF Login, Arrive, tables, bodies, TypeOK, Tokens
<1>9. ASSUME NEW r \in Requests, InsertUser(r) PROVE TypeOK'
  <2>1. pc' \in [Requests -> {"idle"} \cup Open \cup Ended]
    BY <1>9, MoveType DEF InsertUser, Open, Ended
  <2> QED
    BY <1>9, <2>1 DEF InsertUser, Arrive, tables, bodies, TypeOK, Tokens
<1>10. ASSUME NEW r \in Requests, CommitInvite(r) PROVE TypeOK'
  <2>1. pc' \in [Requests -> {"idle"} \cup Open \cup Ended]
    BY <1>10, MoveType DEF CommitInvite, Open, Ended
  <2>2. password' \in Passwords \cup {"", Absent}
    BY <1>10 DEF CommitInvite
  <2>3. member' \in Members \cup {Absent}
    <3>1. /\ member \in Members \cup {Absent}
          /\ change \in [Requests -> Changes]
      BY DEF TypeOK
    <3>2. change[r].role \in Roles
      BY <1>10 DEF CommitInvite, Move, CallsKnown
    <3> QED
      BY <1>10, <3>1, <3>2 DEF CommitInvite, Members, Statuses
  <2>4. assigned' \in SUBSET Branches
    <3>1. /\ assigned \in SUBSET Branches
          /\ branches \in [Requests -> SUBSET Branches]
      BY DEF TypeOK
    <3> QED
      BY <1>10, <3>1 DEF CommitInvite
  <2>5. wanted' \in (SUBSET Branches) \cup {Unknown}
    <3>1. /\ wanted \in (SUBSET Branches) \cup {Unknown}
          /\ branches \in [Requests -> SUBSET Branches]
      BY DEF TypeOK
    <3> QED
      BY <1>10, <3>1 DEF CommitInvite
  <2>6. resets' \in Seq(Resets)
    <3>1. resets \in Seq(Resets)
      BY DEF TypeOK
    <3> QED
      BY <1>10, <3>1, AppendEffect DEF CommitInvite
  <2> QED
    BY <1>10, <2>1, <2>2, <2>3, <2>4, <2>5, <2>6
       DEF CommitInvite, Arrive, tables, bodies, TypeOK, Tokens
<1>11. ASSUME NEW r \in Requests, WriteMember(r) PROVE TypeOK'
  <2>1. pc' \in [Requests -> {"idle"} \cup Open \cup Ended]
    BY <1>11, MoveType DEF WriteMember, Open, Ended
  <2>2. member' \in Members \cup {Absent}
    <3>1. /\ member \in Members \cup {Absent}
          /\ change \in [Requests -> Changes]
      BY DEF TypeOK
    <3> QED
      BY <1>11, <3>1, WrittenMember, Zenon DEF WriteMember
  <2> QED
    BY <1>11, <2>1, <2>2
       DEF WriteMember, Arrive, tables, bodies, TypeOK, Tokens
<1>12. ASSUME NEW r \in Requests, DeleteBranches(r) PROVE TypeOK'
  <2>1. pc' \in [Requests -> {"idle"} \cup Open \cup Ended]
    BY <1>12, MoveType DEF DeleteBranches, Open, Ended
  <2>2. assigned' \in SUBSET Branches
    BY <1>12 DEF DeleteBranches
  <2>3. wanted' \in (SUBSET Branches) \cup {Unknown}
    <3>1. /\ wanted \in (SUBSET Branches) \cup {Unknown}
          /\ branches \in [Requests -> SUBSET Branches]
      BY DEF TypeOK
    <3>2. wanted' \in {Unknown, {}}
      BY <1>12 DEF DeleteBranches
    <3>3. {} \in SUBSET Branches /\ branches[r] \in SUBSET Branches
      BY DEF TypeOK
    <3> QED
      BY <3>1, <3>2, <3>3, Zenon
  <2> QED
    BY <1>12, <2>1, <2>2, <2>3
       DEF DeleteBranches, Arrive, tables, bodies, TypeOK, Tokens
<1>13. ASSUME NEW r \in Requests, DeleteMember(r) PROVE TypeOK'
  <2>1. pc' \in [Requests -> {"idle"} \cup Open \cup Ended]
    BY <1>13, MoveType DEF DeleteMember, Open, Ended
  <2>2. member' \in Members \cup {Absent}
    BY <1>13 DEF DeleteMember
  <2>3. assigned' \in SUBSET Branches
    BY <1>13 DEF DeleteMember
  <2> QED
    BY <1>13, <2>1, <2>2, <2>3
       DEF DeleteMember, Arrive, tables, bodies, TypeOK, Tokens
<1>14. ASSUME NEW r \in Requests, Clear(r) PROVE TypeOK'
  <2>1. pc' \in [Requests -> {"idle"} \cup Open \cup Ended]
    BY <1>14, MoveType DEF Clear, Open, Ended
  <2>2. assigned' \in SUBSET Branches
    BY <1>14 DEF Clear
  <2>3. wanted' \in (SUBSET Branches) \cup {Unknown}
    <3>1. /\ wanted \in (SUBSET Branches) \cup {Unknown}
          /\ branches \in [Requests -> SUBSET Branches]
      BY DEF TypeOK
    <3>2. wanted' = Unknown \/ wanted' = branches[r]
      BY <1>14 DEF Clear
    <3>3. {} \in SUBSET Branches /\ branches[r] \in SUBSET Branches
      BY DEF TypeOK
    <3> QED
      BY <3>1, <3>2, <3>3, Zenon
  <2> QED
    BY <1>14, <2>1, <2>2, <2>3
       DEF Clear, Arrive, tables, bodies, TypeOK, Tokens
<1>15. ASSUME NEW r \in Requests, Place(r) PROVE TypeOK'
  <2>1. pc' \in [Requests -> {"idle"} \cup Open \cup Ended]
    BY <1>15, MoveType DEF Place, Open, Ended
  <2>2. assigned' \in SUBSET Branches
    <3>1. /\ assigned \in SUBSET Branches
          /\ branches \in [Requests -> SUBSET Branches]
      BY DEF TypeOK
    <3> QED
      BY <1>15, <3>1 DEF Place
  <2>3. wanted' \in (SUBSET Branches) \cup {Unknown}
    <3>1. /\ wanted \in (SUBSET Branches) \cup {Unknown}
          /\ branches \in [Requests -> SUBSET Branches]
      BY DEF TypeOK
    <3>2. wanted' = wanted \/ wanted' = Unknown
      BY <1>15 DEF Place
    <3>3. {} \in SUBSET Branches /\ branches[r] \in SUBSET Branches
      BY DEF TypeOK
    <3> QED
      BY <3>1, <3>2, <3>3, Zenon
  <2> QED
    BY <1>15, <2>1, <2>2, <2>3
       DEF Place, Arrive, tables, bodies, TypeOK, Tokens
<1>16. ASSUME NEW r \in Requests, Issue(r) PROVE TypeOK'
  <2>1. pc' \in [Requests -> {"idle"} \cup Open \cup Ended]
    BY <1>16, MoveType DEF Issue, Open, Ended
  <2>2. resets' \in Seq(Resets)
    <3>1. resets \in Seq(Resets)
      BY DEF TypeOK
    <3> QED
      BY <1>16, <3>1, AppendEffect DEF Issue
  <2> QED
    BY <1>16, <2>1, <2>2 DEF Issue, Arrive, tables, bodies, TypeOK, Tokens
<1>17. ASSUME NEW r \in Requests, CompareCode(r) PROVE TypeOK'
  <2>1. pc' \in [Requests -> {"idle"} \cup Open \cup Ended]
    BY <1>17, MoveType DEF CompareCode, Open, Ended
  <2> QED
    BY <1>17, <2>1 DEF CompareCode, Arrive, tables, bodies, TypeOK, Tokens
<1>18. ASSUME NEW r \in Requests, StorePassword(r) PROVE TypeOK'
  <2>1. pc' \in [Requests -> {"idle"} \cup Open \cup Ended]
    BY <1>18, MoveType DEF StorePassword, Open, Ended
  <2>2. password' \in Passwords \cup {"", Absent}
    <3>1. entered \in [Requests -> Passwords \cup {""}]
      BY DEF TypeOK
    <3> QED
      BY <1>18, <3>1 DEF StorePassword
  <2> QED
    BY <1>18, <2>1, <2>2
       DEF StorePassword, Arrive, tables, bodies, TypeOK, Tokens
<1>19. ASSUME NEW r \in Requests, Consume(r) PROVE TypeOK'
  <2>1. pc' \in [Requests -> {"idle"} \cup Open \cup Ended]
    BY <1>19, MoveType DEF Consume, Open, Ended
  <2>2. resets' \in Seq(Resets)
    <3>1. resets \in Seq(Resets)
      BY DEF TypeOK
    <3>2. code[r] \in DOMAIN resets
      BY <1>19 DEF Consume, Move, CodesIssued, Carrying
    <3> QED
      BY <1>19, <3>1, <3>2, ConsumeEffect DEF Consume
  <2> QED
    BY <1>19, <2>1, <2>2 DEF Consume, Arrive, tables, bodies, TypeOK, Tokens
<1>20. ASSUME NEW r \in Requests, Activate(r) PROVE TypeOK'
  <2>1. pc' \in [Requests -> {"idle"} \cup Open \cup Ended]
    BY <1>20, MoveType DEF Activate, Open, Ended
  <2>2. member' \in Members \cup {Absent}
    <3>1. /\ member \in Members \cup {Absent}
          /\ change \in [Requests -> Changes]
      BY DEF TypeOK
    <3> QED
      BY <1>20, <3>1, ActivatedMember DEF Activate
  <2> QED
    BY <1>20, <2>1, <2>2 DEF Activate, Arrive, tables, bodies, TypeOK, Tokens
<1>21. ASSUME NEW r \in Requests, FindMembership(r) PROVE TypeOK'
  <2>1. pc' \in [Requests -> {"idle"} \cup Open \cup Ended]
    BY <1>21, MoveType DEF FindMembership, Open, Ended
  <2>2. token' \in [Requests -> Tokens \cup {Absent}]
    <3>1. /\ token \in [Requests -> Tokens \cup {Absent}]
          /\ member \in Members \cup {Absent}
          /\ assigned \in SUBSET Branches
      BY DEF TypeOK
    <3>2. \/ token' = token
          \/ \E role \in Roles :
               token' = [token EXCEPT ![r] = [role |-> role, branches |-> {}]]
      BY <1>21, <3>1 DEF FindMembership, Members
    <3> QED
      BY <3>1, <3>2 DEF Tokens
  <2> QED
    BY <1>21, <2>1, <2>2
       DEF FindMembership, Arrive, tables, bodies, TypeOK, Tokens
<1>22. ASSUME NEW r \in Requests, ReadBranches(r) PROVE TypeOK'
  <2>1. pc' \in [Requests -> {"idle"} \cup Open \cup Ended]
    BY <1>22, MoveType DEF ReadBranches, Open, Ended
  <2>2. token' \in [Requests -> Tokens \cup {Absent}]
    <3>1. /\ token \in [Requests -> Tokens \cup {Absent}]
          /\ member \in Members \cup {Absent}
          /\ assigned \in SUBSET Branches
      BY DEF TypeOK
    <3>2. token[r] \in Tokens
      BY <1>22 DEF ReadBranches, Move, CallsKnown
    <3>3. [token[r] EXCEPT !.branches = assigned] \in Tokens
      BY <3>1, <3>2 DEF Tokens
    <3> QED
      BY <1>22, <3>1, <3>3 DEF ReadBranches
  <2> QED
    BY <1>22, <2>1, <2>2
       DEF ReadBranches, Arrive, tables, bodies, TypeOK, Tokens
<1>23. ASSUME NEW r \in Requests, BreakOff(r) PROVE TypeOK'
  <2>1. pc' \in [Requests -> {"idle"} \cup Open \cup Ended]
    BY <1>23, MoveType DEF BreakOff, TypeOK, Open, Ended
  <2>2. wanted' \in (SUBSET Branches) \cup {Unknown}
    <3>1. /\ wanted \in (SUBSET Branches) \cup {Unknown}
          /\ branches \in [Requests -> SUBSET Branches]
      BY DEF TypeOK
    <3>2. wanted' = wanted \/ wanted' = Unknown
      BY <1>23 DEF BreakOff
    <3>3. {} \in SUBSET Branches /\ branches[r] \in SUBSET Branches
      BY DEF TypeOK
    <3> QED
      BY <3>1, <3>2, <3>3, Zenon
  <2>3. faults' \in Nat
    <3>1. faults \in Nat
      BY DEF TypeOK
    <3> QED
      BY <1>23, <3>1 DEF BreakOff
  <2> QED
    BY <1>23, <2>1, <2>2, <2>3
       DEF BreakOff, Arrive, tables, bodies, TypeOK, Tokens
<1>24. ASSUME NEW i \in DOMAIN resets, Expire(i) PROVE TypeOK'
  <2>1. resets' \in Seq(Resets)
    BY <1>24, ExpireEffect DEF Expire, TypeOK
  <2> QED
    BY <1>24, <2>1 DEF Expire, bodies, TypeOK
<1>25. CASE UNCHANGED vars
  BY <1>25 DEF vars, tables, bodies, TypeOK
<1> QED
  BY <1>1, <1>2, <1>3, <1>4, <1>5, <1>6, <1>7, <1>8, <1>9, <1>10, <1>11,
     <1>12, <1>13, <1>14, <1>15, <1>16, <1>17, <1>18, <1>19, <1>20, <1>21,
     <1>22, <1>23, <1>24, <1>25
     DEF Next, Arrival, Proceed

(* The other parts of the invariant: one step per action, under it one for *)
(* each part.                                                              *)
LEMMA InvariantStep == MembershipInv /\ [Next]_vars => MembershipInv'
<1> SUFFICES ASSUME TypeOK, OneInvitation, AccountFirst, CallsKnown,
                    CodesIssued, NoOrphanAssignments, ReplacementInFlight,
                    ReplacementIsExact, CodesOpen, StatusFollows, [Next]_vars,
                    TypeOK'
             PROVE  MembershipInv'
  BY TypeStep DEF MembershipInv
<1>1. ASSUME NEW r \in Requests, TurnedAway(r) PROVE MembershipInv'
  <2>1. /\ pc[r] = "idle" /\ pc'[r] = "refused"
        /\ \A s \in Requests \ {r} : pc'[s] = pc[s]
    BY <1>1, MoveEffect DEF TurnedAway
  <2>2. OneInvitation' /\ AccountFirst'
    BY <1>1, <2>1
       DEF TurnedAway, tables, bodies, OneInvitation, AccountFirst,
           ForAccount, Carrying
  <2>3. CallsKnown' /\ CodesIssued'
    BY <1>1, <2>1
       DEF TurnedAway, tables, bodies, CallsKnown, CodesIssued, Carrying
  <2>4. NoOrphanAssignments' /\ ReplacementInFlight' /\ ReplacementIsExact'
    BY <1>1, <2>1
       DEF TurnedAway, tables, bodies, NoOrphanAssignments,
           ReplacementInFlight, ReplacementIsExact, AccountFirst, ForAccount
  <2>5. CodesOpen'
    BY <1>1, <2>1
       DEF TurnedAway, tables, bodies, CodesOpen, AccountFirst, CodesIssued,
           Carrying
  <2>6. StatusFollows'
    BY <1>1, <2>1
       DEF TurnedAway, tables, bodies, StatusFollows, Untouched, StoredBy,
           CallsKnown, CodesIssued, Carrying
  <2> QED
    BY <2>2, <2>3, <2>4, <2>5, <2>6 DEF MembershipInv
<1>2. ASSUME NEW r \in Requests, Invite(r) PROVE MembershipInv'
  <2>1. /\ pc[r] = "idle" /\ pc'[r] = "inserting"
        /\ \A s \in Requests \ {r} : pc'[s] = pc[s]
    BY <1>2, MoveEffect DEF Invite, Arrive
  <2>2. /\ kind'[r] = "invite"
        /\ \A s \in Requests \ {r} : kind'[s] = kind[s]
    BY <1>2 DEF Invite, Arrive, TypeOK
  <2>3. change \in [Requests -> Changes]
    BY DEF TypeOK
  <2>4. /\ change'[r].role \in Roles
        /\ \A s \in Requests \ {r} : change'[s] = change[s]
    BY <1>2, <2>3, ChangedRole DEF Invite
  <2>5. OneInvitation' /\ AccountFirst'
    BY <1>2, <2>1, <2>2, <2>3, <2>4
       DEF Invite, tables, bodies, OneInvitation, AccountFirst, ForAccount,
           Carrying
  <2>6. CallsKnown' /\ CodesIssued'
    BY <1>2, <2>1, <2>2, <2>3, <2>4
       DEF Invite, tables, bodies, CallsKnown, CodesIssued, Carrying
  <2>7. NoOrphanAssignments' /\ ReplacementInFlight' /\ ReplacementIsExact'
    BY <1>2, <2>1, <2>2, <2>3, <2>4
       DEF Invite, tables, bodies, NoOrphanAssignments, ReplacementInFlight,
           ReplacementIsExact, AccountFirst, ForAccount
  <2>8. CodesOpen'
    BY <1>2, <2>1, <2>2, <2>3, <2>4
       DEF Invite, tables, bodies, CodesOpen, AccountFirst, CodesIssued,
           Carrying
  <2>9. StatusFollows'
    <3>1. password' = password /\ member' = member
      BY <1>2 DEF Invite, tables
    <3>2. Untouched' => Untouched
      BY <1>2, <2>1, <2>2, <2>3, <2>4 DEF Invite, Untouched, CallsKnown
    <3>3. ASSUME NEW s \in Requests, StoredBy(s) PROVE StoredBy(s)'
      <4>1. s # r
        BY <2>1, <3>3 DEF StoredBy
      <4> QED
        BY <1>2, <2>1, <2>2, <2>3, <2>4, <3>1, <3>3, <4>1 DEF Invite, StoredBy
    <3> QED
      BY <3>1, <3>2, <3>3, StatusKept
  <2> QED
    BY <2>5, <2>6, <2>7, <2>8, <2>9 DEF MembershipInv
<1>3. ASSUME NEW r \in Requests, Update(r) PROVE MembershipInv'
  <2>1. /\ pc[r] = "idle" /\ pc'[r] = "updating"
        /\ \A s \in Requests \ {r} : pc'[s] = pc[s]
    BY <1>3, MoveEffect DEF Update, Arrive
  <2>2. /\ kind'[r] = "update"
        /\ \A s \in Requests \ {r} : kind'[s] = kind[s]
    BY <1>3 DEF Update, Arrive, TypeOK
  <2>3. \A s \in Requests \ {r} : change'[s] = change[s]
    BY <1>3 DEF Update, TypeOK
  <2>4. OneInvitation' /\ AccountFirst'
    BY <1>3, <2>1, <2>2, <2>3
       DEF Update, tables, bodies, OneInvitation, AccountFirst, ForAccount,
           Carrying
  <2>5. CallsKnown' /\ CodesIssued'
    BY <1>3, <2>1, <2>2, <2>3
       DEF Update, tables, bodies, CallsKnown, CodesIssued, Carrying
  <2>6. NoOrphanAssignments' /\ ReplacementInFlight' /\ ReplacementIsExact'
    BY <1>3, <2>1, <2>2, <2>3
       DEF Update, tables, bodies, NoOrphanAssignments, ReplacementInFlight,
           ReplacementIsExact, AccountFirst, ForAccount
  <2>7. CodesOpen'
    BY <1>3, <2>1, <2>2, <2>3
       DEF Update, tables, bodies, CodesOpen, AccountFirst, CodesIssued,
           Carrying
  <2>8. StatusFollows'
    <3>1. password' = password /\ member' = member
      BY <1>3 DEF Update, tables
    <3>2. Untouched' => Untouched
      BY <1>3, <2>1, <2>2, <2>3 DEF Update, Untouched, CallsKnown
    <3>3. ASSUME NEW s \in Requests, StoredBy(s) PROVE StoredBy(s)'
      <4>1. s # r
        BY <2>1, <3>3 DEF StoredBy
      <4> QED
        BY <1>3, <2>1, <2>2, <2>3, <3>1, <3>3, <4>1 DEF Update, StoredBy
    <3> QED
      BY <3>1, <3>2, <3>3, StatusKept
  <2> QED
    BY <2>4, <2>5, <2>6, <2>7, <2>8 DEF MembershipInv
<1>4. ASSUME NEW r \in Requests, Remove(r) PROVE MembershipInv'
  <2>1. /\ pc[r] = "idle" /\ pc'[r] = "unassigning"
        /\ \A s \in Requests \ {r} : pc'[s] = pc[s]
    BY <1>4, MoveEffect DEF Remove, Arrive
  <2>2. /\ kind'[r] = "remove"
        /\ \A s \in Requests \ {r} : kind'[s] = kind[s]
    BY <1>4 DEF Remove, Arrive, TypeOK
  <2>3. OneInvitation' /\ AccountFirst'
    BY <1>4, <2>1, <2>2
       DEF Remove, tables, bodies, OneInvitation, AccountFirst, ForAccount,
           Carrying
  <2>4. CallsKnown' /\ CodesIssued'
    BY <1>4, <2>1, <2>2
       DEF Remove, tables, bodies, CallsKnown, CodesIssued, Carrying
  <2>5. NoOrphanAssignments' /\ ReplacementInFlight' /\ ReplacementIsExact'
    BY <1>4, <2>1, <2>2
       DEF Remove, tables, bodies, NoOrphanAssignments, ReplacementInFlight,
           ReplacementIsExact, AccountFirst, ForAccount
  <2>6. CodesOpen'
    BY <1>4, <2>1, <2>2
       DEF Remove, tables, bodies, CodesOpen, AccountFirst, CodesIssued,
           Carrying
  <2>7. StatusFollows'
    BY <1>4, <2>1, <2>2
       DEF Remove, tables, bodies, StatusFollows, Untouched, StoredBy,
           CallsKnown, CodesIssued, Carrying
  <2> QED
    BY <2>3, <2>4, <2>5, <2>6, <2>7 DEF MembershipInv
<1>5. ASSUME NEW r \in Requests, Assign(r) PROVE MembershipInv'
  <2>1. /\ pc[r] = "idle" /\ pc'[r] = "clearing"
        /\ \A s \in Requests \ {r} : pc'[s] = pc[s]
    BY <1>5, MoveEffect DEF Assign, Arrive
  <2>2. /\ kind'[r] = "assign"
        /\ \A s \in Requests \ {r} : kind'[s] = kind[s]
    BY <1>5 DEF Assign, Arrive, TypeOK
  <2>3. password # Absent
    BY <1>5, MembersPresent DEF Assign, Assignable, AccountFirst
  <2>4. OneInvitation' /\ AccountFirst'
    BY <1>5, <2>1, <2>2, <2>3
       DEF Assign, tables, bodies, OneInvitation, AccountFirst, ForAccount,
           Carrying
  <2>5. CallsKnown' /\ CodesIssued'
    BY <1>5, <2>1, <2>2, <2>3
       DEF Assign, tables, bodies, CallsKnown, CodesIssued, Carrying
  <2>6. NoOrphanAssignments' /\ ReplacementInFlight' /\ ReplacementIsExact'
    BY <1>5, <2>1, <2>2, <2>3
       DEF Assign, tables, bodies, NoOrphanAssignments, ReplacementInFlight,
           ReplacementIsExact, AccountFirst, ForAccount
  <2>7. CodesOpen'
    BY <1>5, <2>1, <2>2, <2>3
       DEF Assign, tables, bodies, CodesOpen, AccountFirst, CodesIssued,
           Carrying
  <2>8. StatusFollows'
    BY <1>5, <2>1, <2>2, <2>3
       DEF Assign, tables, bodies, StatusFollows, Untouched, StoredBy,
           CallsKnown, CodesIssued, Carrying
  <2> QED
    BY <2>4, <2>5, <2>6, <2>7, <2>8 DEF MembershipInv
<1>6. ASSUME NEW r \in Requests, Forget(r) PROVE MembershipInv'
  <2>1. /\ pc[r] = "idle" /\ pc'[r] = "issuing"
        /\ \A s \in Requests \ {r} : pc'[s] = pc[s]
    BY <1>6, MoveEffect DEF Forget, Arrive
  <2>2. /\ kind'[r] = "forget"
        /\ \A s \in Requests \ {r} : kind'[s] = kind[s]
    BY <1>6 DEF Forget, Arrive, TypeOK
  <2>3. OneInvitation' /\ AccountFirst'
    BY <1>6, <2>1, <2>2
       DEF Forget, tables, bodies, OneInvitation, AccountFirst, ForAccount,
           Carrying
  <2>4. CallsKnown' /\ CodesIssued'
    BY <1>6, <2>1, <2>2
       DEF Forget, tables, bodies, CallsKnown, CodesIssued, Carrying
  <2>5. NoOrphanAssignments' /\ ReplacementInFlight' /\ ReplacementIsExact'
    BY <1>6, <2>1, <2>2
       DEF Forget, tables, bodies, NoOrphanAssignments, ReplacementInFlight,
           ReplacementIsExact, AccountFirst, ForAccount
  <2>6. CodesOpen'
    BY <1>6, <2>1, <2>2
       DEF Forget, tables, bodies, CodesOpen, AccountFirst, CodesIssued,
           Carrying
  <2>7. StatusFollows'
    BY <1>6, <2>1, <2>2
       DEF Forget, tables, bodies, StatusFollows, Untouched, StoredBy,
           CallsKnown, CodesIssued, Carrying
  <2> QED
    BY <2>3, <2>4, <2>5, <2>6, <2>7 DEF MembershipInv
<1>7. ASSUME NEW r \in Requests, SubmitCode(r) PROVE MembershipInv'
  <2>1. /\ pc[r] = "idle" /\ pc'[r] = "comparing"
        /\ \A s \in Requests \ {r} : pc'[s] = pc[s]
    BY <1>7, MoveEffect DEF SubmitCode, Arrive
  <2>2. /\ kind'[r] \in {"reset", "accept"}
        /\ \A s \in Requests \ {r} : kind'[s] = kind[s]
    BY <1>7 DEF SubmitCode, Arrive, TypeOK
  <2>3. /\ code'[r] \in DOMAIN resets
        /\ \A s \in Requests \ {r} : code'[s] = code[s]
    BY <1>7 DEF SubmitCode, TypeOK
  <2>4. /\ entered'[r] \in Passwords
        /\ \A s \in Requests \ {r} : entered'[s] = entered[s]
    BY <1>7 DEF SubmitCode, TypeOK
  <2>5. OneInvitation' /\ AccountFirst'
    BY <1>7, <2>1, <2>2, <2>3, <2>4
       DEF SubmitCode, tables, bodies, OneInvitation, AccountFirst,
           ForAccount, Carrying
  <2>6. CallsKnown' /\ CodesIssued'
    BY <1>7, <2>1, <2>2, <2>3, <2>4
       DEF SubmitCode, tables, bodies, CallsKnown, CodesIssued, Carrying
  <2>7. NoOrphanAssignments' /\ ReplacementInFlight' /\ ReplacementIsExact'
    BY <1>7, <2>1, <2>2, <2>3, <2>4
       DEF SubmitCode, tables, bodies, NoOrphanAssignments,
           ReplacementInFlight, ReplacementIsExact, AccountFirst, ForAccount
  <2>8. CodesOpen'
    BY <1>7, <2>1, <2>2, <2>3, <2>4
       DEF SubmitCode, tables, bodies, CodesOpen, AccountFirst, CodesIssued,
           Carrying
  <2>9. StatusFollows'
    <3>1. password' = password /\ member' = member
      BY <1>7 DEF SubmitCode, tables
    <3>2. Untouched' => Untouched
      BY <1>7, <2>1, <2>2, <2>3, <2>4 DEF SubmitCode, Untouched, CallsKnown
    <3>3. ASSUME NEW s \in Requests, StoredBy(s) PROVE StoredBy(s)'
      <4>1. s # r
        BY <2>1, <3>3 DEF StoredBy
      <4> QED
        BY <1>7, <2>1, <2>2, <2>3, <2>4, <3>1, <3>3, <4>1
           DEF SubmitCode, StoredBy
    <3> QED
      BY <3>1, <3>2, <3>3, StatusKept
  <2> QED
    BY <2>5, <2>6, <2>7, <2>8, <2>9 DEF MembershipInv
<1>8. ASSUME NEW r \in Requests, Login(r) PROVE MembershipInv'
  <2>1. /\ pc[r] = "idle" /\ pc'[r] = "finding"
        /\ \A s \in Requests \ {r} : pc'[s] = pc[s]
    BY <1>8, MoveEffect DEF Login, Arrive
  <2>2. /\ kind'[r] = "login"
        /\ \A s \in Requests \ {r} : kind'[s] = kind[s]
    BY <1>8 DEF Login, Arrive, TypeOK
  <2>3. \A s \in Requests \ {r} : entered'[s] = entered[s]
    BY <1>8 DEF Login, TypeOK
  <2>4. OneInvitation' /\ AccountFirst'
    BY <1>8, <2>1, <2>2, <2>3
       DEF Login, tables, bodies, OneInvitation, AccountFirst, ForAccount,
           Carrying
  <2>5. CallsKnown' /\ CodesIssued'
    BY <1>8, <2>1, <2>2, <2>3
       DEF Login, tables, bodies, CallsKnown, CodesIssued, Carrying
  <2>6. NoOrphanAssignments' /\ ReplacementInFlight' /\ ReplacementIsExact'
    BY <1>8, <2>1, <2>2, <2>3
       DEF Login, tables, bodies, NoOrphanAssignments, ReplacementInFlight,
           ReplacementIsExact, AccountFirst, ForAccount
  <2>7. CodesOpen'
    BY <1>8, <2>1, <2>2, <2>3
       DEF Login, tables, bodies, CodesOpen, AccountFirst, CodesIssued,
           Carrying
  <2>8. StatusFollows'
    <3>1. password' = password /\ member' = member
      BY <1>8 DEF Login, tables
    <3>2. Untouched' => Untouched
      BY <1>8, <2>1, <2>2, <2>3 DEF Login, Untouched, CallsKnown
    <3>3. ASSUME NEW s \in Requests, StoredBy(s) PROVE StoredBy(s)'
      <4>1. s # r
        BY <2>1, <3>3 DEF StoredBy
      <4> QED
        BY <1>8, <2>1, <2>2, <2>3, <3>1, <3>3, <4>1 DEF Login, StoredBy
    <3> QED
      BY <3>1, <3>2, <3>3, StatusKept
  <2> QED
    BY <2>4, <2>5, <2>6, <2>7, <2>8 DEF MembershipInv
<1>9. ASSUME NEW r \in Requests, InsertUser(r) PROVE MembershipInv'
  <2>1. /\ pc[r] = "inserting" /\ pc'[r] \in {"inserted", "failed"}
        /\ \A s \in Requests \ {r} : pc'[s] = pc[s]
    BY <1>9, MoveEffect DEF InsertUser
  <2>2. pc'[r] = "inserted" =>
          password = Absent /\ \A s \in Requests : pc[s] # "inserted"
    BY <1>9, <2>1, MoveEffect DEF InsertUser
  <2>3. OneInvitation' /\ AccountFirst'
    BY <1>9, <2>1, <2>2
       DEF InsertUser, tables, bodies, OneInvitation, AccountFirst,
           ForAccount, Carrying
  <2>4. CallsKnown' /\ CodesIssued'
    BY <1>9, <2>1, <2>2
       DEF InsertUser, tables, bodies, CallsKnown, CodesIssued, Carrying
  <2>5. NoOrphanAssignments' /\ ReplacementInFlight' /\ ReplacementIsExact'
    BY <1>9, <2>1, <2>2
       DEF InsertUser, tables, bodies, NoOrphanAssignments,
           ReplacementInFlight, ReplacementIsExact, AccountFirst, ForAccount
  <2>6. CodesOpen'
    BY <1>9, <2>1, <2>2
       DEF InsertUser, tables, bodies, CodesOpen, AccountFirst, CodesIssued,
           Carrying
  <2>7. StatusFollows'
    BY <1>9, <2>1, <2>2
       DEF InsertUser, tables, bodies, StatusFollows, Untouched, StoredBy,
           CallsKnown, CodesIssued, Carrying
  <2> QED
    BY <2>3, <2>4, <2>5, <2>6, <2>7 DEF MembershipInv
<1>10. ASSUME NEW r \in Requests, CommitInvite(r) PROVE MembershipInv'
  <2>1. /\ pc[r] = "inserted" /\ pc'[r] \in {"done", "failed"}
        /\ \A s \in Requests \ {r} : pc'[s] = pc[s]
    BY <1>10, MoveEffect DEF CommitInvite
  <2>2. password' = "" /\ password' # Absent
    BY <1>10, MembershipAssumption DEF CommitInvite
  <2>3. change[r].role \in Roles
    BY <2>1 DEF CallsKnown
  <2>4. member' \in Members
    BY <1>10, <2>3 DEF CommitInvite, Members, Statuses
  <2>5. member' # Absent
    BY <2>4, MembersPresent
  <2>6. Appended
    BY <1>10, AppendEffect DEF CommitInvite, TypeOK
  <2>7. \A s \in Requests : pc[s] \notin ForAccount
    BY <2>1 DEF OneInvitation, AccountFirst
  <2>8. OneInvitation'
    BY <1>10, <2>1, <2>2, <2>3, <2>4, <2>5, <2>6, <2>7
       DEF CommitInvite, tables, bodies, OneInvitation, AccountFirst,
           ForAccount, Carrying, Appended
  <2>9. AccountFirst'
    BY <1>10, <2>1, <2>2, <2>3, <2>4, <2>5, <2>6, <2>7
       DEF CommitInvite, tables, bodies, AccountFirst, OneInvitation,
           ForAccount, Carrying, Appended
  <2>10. CallsKnown' /\ CodesIssued'
    BY <1>10, <2>1, <2>2, <2>3, <2>4, <2>5, <2>6, <2>7
       DEF CommitInvite, tables, bodies, CallsKnown, CodesIssued, Carrying,
           ForAccount, Appended
  <2>11. NoOrphanAssignments' /\ ReplacementInFlight' /\ ReplacementIsExact'
    BY <1>10, <2>1, <2>2, <2>3, <2>4, <2>5, <2>6, <2>7
       DEF CommitInvite, tables, bodies, NoOrphanAssignments,
           ReplacementInFlight, ReplacementIsExact, AccountFirst, ForAccount,
           Appended
  <2>12. DOMAIN resets = {}
    BY <2>1, NoCodes DEF OneInvitation, AccountFirst
  <2>13. CodesOpen'
    BY <1>10, <2>1, <2>2, <2>3, <2>4, <2>5, <2>6, <2>7, <2>12
       DEF CommitInvite, tables, bodies, CodesOpen, AccountFirst,
           CodesIssued, Carrying, ForAccount, Appended
  <2>14. StatusFollows'
    BY <1>10, <2>1, <2>2, <2>3, <2>4, <2>5, <2>6, <2>7, <2>12
       DEF CommitInvite, tables, bodies, StatusFollows, Untouched, StoredBy,
           CallsKnown, CodesIssued, Carrying, ForAccount, Appended
  <2> QED
    BY <2>8, <2>9, <2>10, <2>11, <2>13, <2>14 DEF MembershipInv
<1>11. ASSUME NEW r \in Requests, WriteMember(r) PROVE MembershipInv'
  <2>1. /\ pc[r] = "updating" /\ pc'[r] = "done"
        /\ \A s \in Requests \ {r} : pc'[s] = pc[s]
    BY <1>11, MoveEffect DEF WriteMember
  <2>2. member \in Members \cup {Absent} /\ change[r] \in Changes
    BY DEF TypeOK
  <2>3. member' = Absent <=> member = Absent
    BY <1>11, <2>2, WrittenMember, MembersPresent, Zenon DEF WriteMember
  <2>4. member # Absent =>
          member'.status = IF change[r].status = "keep" THEN member.status
                           ELSE change[r].status
    BY <1>11 DEF WriteMember
  <2>5. OneInvitation' /\ AccountFirst'
    BY <1>11, <2>1, <2>2, <2>3, <2>4
       DEF WriteMember, tables, bodies, OneInvitation, AccountFirst,
           ForAccount, Carrying
  <2>6. CallsKnown' /\ CodesIssued'
    BY <1>11, <2>1, <2>2, <2>3, <2>4
       DEF WriteMember, tables, bodies, CallsKnown, CodesIssued, Carrying
  <2>7. NoOrphanAssignments' /\ ReplacementInFlight' /\ ReplacementIsExact'
    BY <1>11, <2>1, <2>2, <2>3, <2>4
       DEF WriteMember, tables, bodies, NoOrphanAssignments,
           ReplacementInFlight, ReplacementIsExact, AccountFirst, ForAccount
  <2>8. CodesOpen'
    BY <1>11, <2>1, <2>2, <2>3, <2>4
       DEF WriteMember, tables, bodies, CodesOpen, AccountFirst, CodesIssued,
           Carrying
  <2>9. StatusFollows'
    BY <1>11, <2>1, <2>2, <2>3, <2>4
       DEF WriteMember, tables, bodies, StatusFollows, Untouched, StoredBy,
           CallsKnown, CodesIssued, Carrying
  <2> QED
    BY <2>5, <2>6, <2>7, <2>8, <2>9 DEF MembershipInv
<1>12. ASSUME NEW r \in Requests, DeleteBranches(r) PROVE MembershipInv'
  <2>1. /\ pc[r] = "unassigning" /\ pc'[r] = "removing"
        /\ \A s \in Requests \ {r} : pc'[s] = pc[s]
    BY <1>12, MoveEffect DEF DeleteBranches
  <2>2. wanted' # Unknown => \A s \in Requests \ {r} : pc[s] # "placing"
    BY <1>12 DEF DeleteBranches, Placing
  <2>3. wanted' \in {{}, Unknown} /\ assigned' = {}
    BY <1>12 DEF DeleteBranches
  <2>4. OneInvitation' /\ AccountFirst'
    BY <1>12, <2>1, <2>2, <2>3
       DEF DeleteBranches, tables, bodies, OneInvitation, AccountFirst,
           ForAccount, Carrying
  <2>5. CallsKnown' /\ CodesIssued'
    BY <1>12, <2>1, <2>2, <2>3
       DEF DeleteBranches, tables, bodies, CallsKnown, CodesIssued, Carrying
  <2>6. NoOrphanAssignments' /\ ReplacementInFlight' /\ ReplacementIsExact'
    BY <1>12, <2>1, <2>2, <2>3
       DEF DeleteBranches, tables, bodies, NoOrphanAssignments,
           ReplacementInFlight, ReplacementIsExact, AccountFirst, ForAccount
  <2>7. CodesOpen'
    BY <1>12, <2>1, <2>2, <2>3
       DEF DeleteBranches, tables, bodies, CodesOpen, AccountFirst,
           CodesIssued, Carrying
  <2>8. StatusFollows'
    BY <1>12, <2>1, <2>2, <2>3
       DEF DeleteBranches, tables, bodies, StatusFollows, Untouched,
           StoredBy, CallsKnown, CodesIssued, Carrying
  <2> QED
    BY <2>4, <2>5, <2>6, <2>7, <2>8 DEF MembershipInv
<1>13. ASSUME NEW r \in Requests, DeleteMember(r) PROVE MembershipInv'
  <2>1. /\ pc[r] = "removing" /\ pc'[r] = "done"
        /\ \A s \in Requests \ {r} : pc'[s] = pc[s]
    BY <1>13, MoveEffect DEF DeleteMember
  <2>2. OneInvitation' /\ AccountFirst'
    BY <1>13, <2>1
       DEF DeleteMember, tables, bodies, OneInvitation, AccountFirst,
           ForAccount, Carrying
  <2>3. CallsKnown' /\ CodesIssued'
    BY <1>13, <2>1
       DEF DeleteMember, tables, bodies, CallsKnown, CodesIssued, Carrying
  <2>4. NoOrphanAssignments' /\ ReplacementInFlight' /\ ReplacementIsExact'
    BY <1>13, <2>1
       DEF DeleteMember, tables, bodies, NoOrphanAssignments,
           ReplacementInFlight, ReplacementIsExact, AccountFirst, ForAccount
  <2>5. CodesOpen'
    BY <1>13, <2>1
       DEF DeleteMember, tables, bodies, CodesOpen, AccountFirst,
           CodesIssued, Carrying
  <2>6. StatusFollows'
    BY <1>13, <2>1
       DEF DeleteMember, tables, bodies, StatusFollows, Untouched, StoredBy,
           CallsKnown, CodesIssued, Carrying
  <2> QED
    BY <2>2, <2>3, <2>4, <2>5, <2>6 DEF MembershipInv
<1>14. ASSUME NEW r \in Requests, Clear(r) PROVE MembershipInv'
  <2>1. /\ pc[r] = "clearing" /\ pc'[r] \in {"done", "placing"}
        /\ \A s \in Requests \ {r} : pc'[s] = pc[s]
    BY <1>14, MoveEffect DEF Clear
  <2>2. wanted' # Unknown => \A s \in Requests \ {r} : pc[s] # "placing"
    BY <1>14 DEF Clear, Placing
  <2>3. wanted' # Unknown => wanted' = branches[r] /\ assigned' = {}
    BY <1>14 DEF Clear
  <2>4. pc'[r] = "done" => branches[r] = {}
    BY <1>14, <2>1, MoveEffect DEF Clear
  <2>5. OneInvitation' /\ AccountFirst'
    BY <1>14, <2>1, <2>2, <2>3, <2>4
       DEF Clear, tables, bodies, OneInvitation, AccountFirst, ForAccount,
           Carrying
  <2>6. CallsKnown' /\ CodesIssued'
    BY <1>14, <2>1, <2>2, <2>3, <2>4
       DEF Clear, tables, bodies, CallsKnown, CodesIssued, Carrying
  <2>7. NoOrphanAssignments' /\ ReplacementInFlight' /\ ReplacementIsExact'
    BY <1>14, <2>1, <2>2, <2>3, <2>4
       DEF Clear, tables, bodies, NoOrphanAssignments, ReplacementInFlight,
           ReplacementIsExact, AccountFirst, ForAccount
  <2>8. CodesOpen'
    BY <1>14, <2>1, <2>2, <2>3, <2>4
       DEF Clear, tables, bodies, CodesOpen, AccountFirst, CodesIssued,
           Carrying
  <2>9. StatusFollows'
    BY <1>14, <2>1, <2>2, <2>3, <2>4
       DEF Clear, tables, bodies, StatusFollows, Untouched, StoredBy,
           CallsKnown, CodesIssued, Carrying
  <2> QED
    BY <2>5, <2>6, <2>7, <2>8, <2>9 DEF MembershipInv
<1>15. ASSUME NEW r \in Requests, Place(r) PROVE MembershipInv'
  <2>1. /\ pc[r] = "placing" /\ pc'[r] \in {"done", "failed"}
        /\ \A s \in Requests \ {r} : pc'[s] = pc[s]
    BY <1>15, MoveEffect DEF Place
  <2>2. OneInvitation' /\ AccountFirst'
    BY <1>15, <2>1
       DEF Place, tables, bodies, OneInvitation, AccountFirst, ForAccount,
           Carrying
  <2>3. CallsKnown' /\ CodesIssued'
    BY <1>15, <2>1 DEF Place, tables, bodies, CallsKnown, CodesIssued, Carrying
  <2>4. NoOrphanAssignments' /\ ReplacementInFlight' /\ ReplacementIsExact'
    BY <1>15, <2>1
       DEF Place, tables, bodies, NoOrphanAssignments, ReplacementInFlight,
           ReplacementIsExact, AccountFirst, ForAccount
  <2>5. CodesOpen'
    BY <1>15, <2>1
       DEF Place, tables, bodies, CodesOpen, AccountFirst, CodesIssued,
           Carrying
  <2>6. StatusFollows'
    BY <1>15, <2>1
       DEF Place, tables, bodies, StatusFollows, Untouched, StoredBy,
           CallsKnown, CodesIssued, Carrying
  <2> QED
    BY <2>2, <2>3, <2>4, <2>5, <2>6 DEF MembershipInv
<1>16. ASSUME NEW r \in Requests, Issue(r) PROVE MembershipInv'
  <2>1. /\ pc[r] = "issuing" /\ pc'[r] = "done"
        /\ \A s \in Requests \ {r} : pc'[s] = pc[s]
    BY <1>16, MoveEffect DEF Issue
  <2>2. Appended
    BY <1>16, AppendEffect DEF Issue, TypeOK
  <2>3. password # Absent
    BY <2>1 DEF AccountFirst, ForAccount
  <2>4. OneInvitation' /\ AccountFirst'
    BY <1>16, <2>1, <2>2, <2>3
       DEF Issue, tables, bodies, OneInvitation, AccountFirst, ForAccount,
           Carrying, Appended
  <2>5. CallsKnown' /\ CodesIssued'
    BY <1>16, <2>1, <2>2, <2>3
       DEF Issue, tables, bodies, CallsKnown, CodesIssued, Carrying, Appended
  <2>6. NoOrphanAssignments' /\ ReplacementInFlight' /\ ReplacementIsExact'
    BY <1>16, <2>1, <2>2, <2>3
       DEF Issue, tables, bodies, NoOrphanAssignments, ReplacementInFlight,
           ReplacementIsExact, AccountFirst, ForAccount, Appended
  <2>7. CodesOpen'
    BY <1>16, <2>1, <2>2, <2>3
       DEF Issue, tables, bodies, CodesOpen, AccountFirst, CodesIssued,
           Carrying, Appended
  <2>8. StatusFollows'
    BY <1>16, <2>1, <2>2, <2>3
       DEF Issue, tables, bodies, StatusFollows, Untouched, StoredBy,
           CallsKnown, CodesIssued, Carrying, Appended
  <2> QED
    BY <2>4, <2>5, <2>6, <2>7, <2>8 DEF MembershipInv
<1>17. ASSUME NEW r \in Requests, CompareCode(r) PROVE MembershipInv'
  <2>1. /\ pc[r] = "comparing" /\ pc'[r] \in {"storing", "refused"}
        /\ \A s \in Requests \ {r} : pc'[s] = pc[s]
    BY <1>17, MoveEffect DEF CompareCode
  <2>2. OneInvitation' /\ AccountFirst'
    BY <1>17, <2>1
       DEF CompareCode, tables, bodies, OneInvitation, AccountFirst,
           ForAccount, Carrying
  <2>3. CallsKnown' /\ CodesIssued'
    BY <1>17, <2>1
       DEF CompareCode, tables, bodies, CallsKnown, CodesIssued, Carrying
  <2>4. NoOrphanAssignments' /\ ReplacementInFlight' /\ ReplacementIsExact'
    BY <1>17, <2>1
       DEF CompareCode, tables, bodies, NoOrphanAssignments,
           ReplacementInFlight, ReplacementIsExact, AccountFirst, ForAccount
  <2>5. CodesOpen'
    BY <1>17, <2>1
       DEF CompareCode, tables, bodies, CodesOpen, AccountFirst, CodesIssued,
           Carrying
  <2>6. StatusFollows'
    BY <1>17, <2>1
       DEF CompareCode, tables, bodies, StatusFollows, Untouched, StoredBy,
           CallsKnown, CodesIssued, Carrying
  <2> QED
    BY <2>2, <2>3, <2>4, <2>5, <2>6 DEF MembershipInv
<1>18. ASSUME NEW r \in Requests, StorePassword(r) PROVE MembershipInv'
  <2>1. /\ pc[r] = "storing" /\ pc'[r] = "consuming"
        /\ \A s \in Requests \ {r} : pc'[s] = pc[s]
    BY <1>18, MoveEffect DEF StorePassword
  <2>2. entered[r] \in Passwords
    BY <2>1 DEF CodesIssued, Carrying
  <2>3. password' \in Passwords /\ password' \notin {"", Absent}
    BY <1>18, <2>2, MembershipAssumption DEF StorePassword
  <2>4. OneInvitation' /\ AccountFirst'
    BY <1>18, <2>1, <2>2, <2>3
       DEF StorePassword, tables, bodies, OneInvitation, AccountFirst,
           ForAccount, Carrying
  <2>5. CallsKnown' /\ CodesIssued'
    BY <1>18, <2>1, <2>2, <2>3
       DEF StorePassword, tables, bodies, CallsKnown, CodesIssued, Carrying
  <2>6. NoOrphanAssignments' /\ ReplacementInFlight' /\ ReplacementIsExact'
    BY <1>18, <2>1, <2>2, <2>3
       DEF StorePassword, tables, bodies, NoOrphanAssignments,
           ReplacementInFlight, ReplacementIsExact, AccountFirst, ForAccount
  <2>7. CodesOpen'
    BY <1>18, <2>1, <2>2, <2>3
       DEF StorePassword, tables, bodies, CodesOpen, AccountFirst,
           CodesIssued, Carrying
  <2>8. StatusFollows'
    BY <1>18, <2>1, <2>2, <2>3
       DEF StorePassword, tables, bodies, StatusFollows, Untouched, StoredBy,
           CallsKnown, CodesIssued, Carrying
  <2> QED
    BY <2>4, <2>5, <2>6, <2>7, <2>8 DEF MembershipInv
<1>19. ASSUME NEW r \in Requests, Consume(r) PROVE MembershipInv'
  <2>1. /\ pc[r] = "consuming" /\ pc'[r] \in {"activating", "done"}
        /\ \A s \in Requests \ {r} : pc'[s] = pc[s]
    BY <1>19, MoveEffect DEF Consume
  <2>2. kind[r] \in {"reset", "accept"} /\ code[r] \in DOMAIN resets
    BY <2>1 DEF CodesIssued, Carrying
  <2>3. pc'[r] = IF kind[r] = "accept" THEN "activating" ELSE "done"
    BY <1>19, MoveEffect DEF Consume
  <2>4. ConsumedOnly(r)
    BY <1>19, <2>2, ConsumeEffect DEF Consume, TypeOK
  <2>5. OneInvitation' /\ AccountFirst'
    BY <1>19, <2>1, <2>2, <2>3, <2>4
       DEF Consume, tables, bodies, OneInvitation, AccountFirst, ForAccount,
           Carrying, ConsumedOnly
  <2>6. CallsKnown' /\ CodesIssued'
    BY <1>19, <2>1, <2>2, <2>3, <2>4
       DEF Consume, tables, bodies, CallsKnown, CodesIssued, Carrying,
           ConsumedOnly
  <2>7. NoOrphanAssignments' /\ ReplacementInFlight' /\ ReplacementIsExact'
    BY <1>19, <2>1, <2>2, <2>3, <2>4
       DEF Consume, tables, bodies, NoOrphanAssignments, ReplacementInFlight,
           ReplacementIsExact, AccountFirst, ForAccount, ConsumedOnly
  <2>8. password \in Passwords /\ password # ""
    BY <2>1, MembershipAssumption DEF CodesIssued
  <2>9. CodesOpen'
    BY <1>19, <2>1, <2>2, <2>3, <2>4, <2>8
       DEF Consume, tables, bodies, CodesOpen, AccountFirst, CodesIssued,
           Carrying, ConsumedOnly
  <2>10. StatusFollows'
    <3>1. /\ password' = password /\ member' = member
          /\ kind' = kind /\ entered' = entered /\ change' = change
      BY <1>19 DEF Consume, bodies
    <3>2. ASSUME NEW s \in Requests, StoredBy(s) PROVE StoredBy(s)'
      <4>1. CASE s = r
        BY <2>1, <2>2, <2>3, <3>1, <3>2, <4>1 DEF StoredBy
      <4>2. CASE s # r
        BY <2>1, <3>1, <3>2, <4>2 DEF StoredBy
      <4> QED
        BY <4>1, <4>2
    <3>3. Untouched' => Untouched
      BY <3>1 DEF Untouched
    <3> QED
      BY <3>1, <3>2, <3>3, StatusKept
  <2> QED
    BY <2>5, <2>6, <2>7, <2>9, <2>10 DEF MembershipInv
<1>20. ASSUME NEW r \in Requests, Activate(r) PROVE MembershipInv'
  <2>1. /\ pc[r] = "activating" /\ pc'[r] = "done"
        /\ \A s \in Requests \ {r} : pc'[s] = pc[s]
    BY <1>20, MoveEffect DEF Activate
  <2>2. member' = Absent <=> member = Absent
    BY <1>20, ActivatedMember, MembersPresent DEF Activate, TypeOK
  <2>3. member # Absent => member'.status = "active"
    BY <1>20, ActivatedMember DEF Activate, TypeOK
  <2>4. OneInvitation' /\ AccountFirst'
    BY <1>20, <2>1, <2>2, <2>3
       DEF Activate, tables, bodies, OneInvitation, AccountFirst, ForAccount,
           Carrying
  <2>5. CallsKnown' /\ CodesIssued'
    BY <1>20, <2>1, <2>2, <2>3
       DEF Activate, tables, bodies, CallsKnown, CodesIssued, Carrying
  <2>6. NoOrphanAssignments' /\ ReplacementInFlight' /\ ReplacementIsExact'
    BY <1>20, <2>1, <2>2, <2>3
       DEF Activate, tables, bodies, NoOrphanAssignments,
           ReplacementInFlight, ReplacementIsExact, AccountFirst, ForAccount
  <2>7. password \in Passwords /\ password # ""
    BY <2>1, MembershipAssumption DEF CodesIssued
  <2>8. CodesOpen'
    BY <1>20, <2>1, <2>2, <2>3, <2>7
       DEF Activate, tables, bodies, CodesOpen, AccountFirst, CodesIssued,
           Carrying
  <2>9. StatusFollows'
    BY <1>20, <2>1, <2>2, <2>3, <2>7
       DEF Activate, tables, bodies, StatusFollows, Untouched, StoredBy,
           CallsKnown, CodesIssued, Carrying
  <2> QED
    BY <2>4, <2>5, <2>6, <2>8, <2>9 DEF MembershipInv
<1>21. ASSUME NEW r \in Requests, FindMembership(r) PROVE MembershipInv'
  <2>1. /\ pc[r] = "finding" /\ pc'[r] \in {"reading", "failed"}
        /\ \A s \in Requests \ {r} : pc'[s] = pc[s]
    BY <1>21, MoveEffect DEF FindMembership
  <2>2. pc'[r] = "reading" => member \in Members
    BY <1>21, <2>1, MoveEffect DEF FindMembership
  <2>3. member \in Members => [role |-> member.role, branches |-> {}] \in Tokens
    BY DEF Members, Tokens
  <2>4. token \in [Requests -> Tokens \cup {Absent}]
    BY DEF TypeOK
  <2>5. /\ pc'[r] = "reading" => token'[r] \in Tokens
        /\ \A s \in Requests \ {r} : token'[s] = token[s]
    BY <1>21, <2>1, <2>2, <2>3, <2>4, MoveEffect DEF FindMembership
  <2>6. OneInvitation' /\ AccountFirst'
    BY <1>21, <2>1, <2>2, <2>3, <2>4, <2>5
       DEF FindMembership, tables, bodies, OneInvitation, AccountFirst,
           ForAccount, Carrying
  <2>7. CallsKnown' /\ CodesIssued'
    BY <1>21, <2>1, <2>2, <2>3, <2>4, <2>5
       DEF FindMembership, tables, bodies, CallsKnown, CodesIssued, Carrying
  <2>8. NoOrphanAssignments' /\ ReplacementInFlight' /\ ReplacementIsExact'
    BY <1>21, <2>1, <2>2, <2>3, <2>4, <2>5
       DEF FindMembership, tables, bodies, NoOrphanAssignments,
           ReplacementInFlight, ReplacementIsExact, AccountFirst, ForAccount
  <2>9. CodesOpen'
    BY <1>21, <2>1, <2>2, <2>3, <2>4, <2>5
       DEF FindMembership, tables, bodies, CodesOpen, AccountFirst,
           CodesIssued, Carrying
  <2>10. StatusFollows'
    BY <1>21, <2>1, <2>2, <2>3, <2>4, <2>5
       DEF FindMembership, tables, bodies, StatusFollows, Untouched,
           StoredBy, CallsKnown, CodesIssued, Carrying
  <2> QED
    BY <2>6, <2>7, <2>8, <2>9, <2>10 DEF MembershipInv
<1>22. ASSUME NEW r \in Requests, ReadBranches(r) PROVE MembershipInv'
  <2>1. /\ pc[r] = "reading" /\ pc'[r] = "done"
        /\ \A s \in Requests \ {r} : pc'[s] = pc[s]
    BY <1>22, MoveEffect DEF ReadBranches
  <2>2. \A s \in Requests \ {r} : token'[s] = token[s]
    BY <1>22 DEF ReadBranches, TypeOK
  <2>3. OneInvitation' /\ AccountFirst'
    BY <1>22, <2>1, <2>2
       DEF ReadBranches, tables, bodies, OneInvitation, AccountFirst,
           ForAccount, Carrying
  <2>4. CallsKnown' /\ CodesIssued'
    BY <1>22, <2>1, <2>2
       DEF ReadBranches, tables, bodies, CallsKnown, CodesIssued, Carrying
  <2>5. NoOrphanAssignments' /\ ReplacementInFlight' /\ ReplacementIsExact'
    BY <1>22, <2>1, <2>2
       DEF ReadBranches, tables, bodies, NoOrphanAssignments,
           ReplacementInFlight, ReplacementIsExact, AccountFirst, ForAccount
  <2>6. CodesOpen'
    BY <1>22, <2>1, <2>2
       DEF ReadBranches, tables, bodies, CodesOpen, AccountFirst,
           CodesIssued, Carrying
  <2>7. StatusFollows'
    BY <1>22, <2>1, <2>2
       DEF ReadBranches, tables, bodies, StatusFollows, Untouched, StoredBy,
           CallsKnown, CodesIssued, Carrying
  <2> QED
    BY <2>3, <2>4, <2>5, <2>6, <2>7 DEF MembershipInv
<1>23. ASSUME NEW r \in Requests, BreakOff(r) PROVE MembershipInv'
  <2>1. /\ pc[r] \in Open /\ pc'[r] = "failed"
        /\ \A s \in Requests \ {r} : pc'[s] = pc[s]
    BY <1>23, MoveEffect DEF BreakOff, TypeOK
  <2>2. OneInvitation' /\ AccountFirst'
    BY <1>23, <2>1
       DEF BreakOff, tables, bodies, OneInvitation, AccountFirst, ForAccount,
           Carrying, Open
  <2>3. CallsKnown' /\ CodesIssued'
    BY <1>23, <2>1
       DEF BreakOff, tables, bodies, CallsKnown, CodesIssued, Carrying, Open
  <2>4. NoOrphanAssignments' /\ ReplacementInFlight' /\ ReplacementIsExact'
    BY <1>23, <2>1
       DEF BreakOff, tables, bodies, NoOrphanAssignments,
           ReplacementInFlight, ReplacementIsExact, AccountFirst, ForAccount,
           Open
  <2>5. CodesOpen'
    BY <1>23, <2>1
       DEF BreakOff, tables, bodies, CodesOpen, AccountFirst, CodesIssued,
           Carrying, Open
  <2>6. StatusFollows'
    <3>1. /\ password' = password /\ member' = member
          /\ kind' = kind /\ entered' = entered /\ change' = change
      BY <1>23 DEF BreakOff, tables, bodies
    <3>2. ASSUME NEW s \in Requests, StoredBy(s) PROVE StoredBy(s)'
      <4>1. CASE s = r
        BY <2>1, <3>1, <3>2, <4>1 DEF StoredBy, Open
      <4>2. CASE s # r
        BY <2>1, <3>1, <3>2, <4>2 DEF StoredBy
      <4> QED
        BY <4>1, <4>2
    <3>3. Untouched' => Untouched
      BY <3>1 DEF Untouched
    <3> QED
      BY <3>1, <3>2, <3>3, StatusKept
  <2> QED
    BY <2>2, <2>3, <2>4, <2>5, <2>6 DEF MembershipInv
<1>24. ASSUME NEW i \in DOMAIN resets, Expire(i) PROVE MembershipInv'
  <2>1. /\ DOMAIN resets' = DOMAIN resets
        /\ \A j \in DOMAIN resets : resets'[j].consumed = resets[j].consumed
    BY <1>24, ExpireEffect DEF Expire, TypeOK
  <2>2. OneInvitation'
    BY <1>24, <2>1
       DEF Expire, bodies, OneInvitation, AccountFirst, ForAccount, Carrying
  <2>3. AccountFirst'
    BY <1>24, <2>1
       DEF Expire, bodies, AccountFirst, OneInvitation, ForAccount, Carrying
  <2>4. CallsKnown'
    BY <1>24, <2>1 DEF Expire, bodies, CallsKnown
  <2>5. CodesIssued'
    BY <1>24, <2>1 DEF Expire, bodies, CodesIssued, Carrying
  <2>6. NoOrphanAssignments'
    BY <1>24, <2>1 DEF Expire, bodies, NoOrphanAssignments
  <2>7. ReplacementInFlight'
    BY <1>24, <2>1
       DEF Expire, bodies, ReplacementInFlight, ReplacementIsExact,
           AccountFirst, ForAccount
  <2>8. ReplacementIsExact'
    BY <1>24, <2>1
       DEF Expire, bodies, ReplacementInFlight, ReplacementIsExact,
           AccountFirst, ForAccount
  <2>9. CodesOpen'
    BY <1>24, <2>1
       DEF Expire, bodies, CodesOpen, AccountFirst, CodesIssued, Carrying
  <2>10. StatusFollows'
    BY <1>24, <2>1
       DEF Expire, bodies, StatusFollows, Untouched, StoredBy, CallsKnown,
           CodesIssued, Carrying
  <2> QED
    BY <2>2, <2>3, <2>4, <2>5, <2>6, <2>7, <2>8, <2>9, <2>10 DEF MembershipInv
<1>25. CASE UNCHANGED vars
  <2>1. OneInvitation'
    BY <1>25
       DEF vars, tables, bodies, OneInvitation, AccountFirst, ForAccount,
           Carrying
  <2>2. AccountFirst'
    BY <1>25
       DEF vars, tables, bodies, AccountFirst, OneInvitation, ForAccount,
           Carrying
  <2>3. CallsKnown'
    BY <1>25 DEF vars, tables, bodies, CallsKnown
  <2>4. CodesIssued'
    BY <1>25 DEF vars, tables, bodies, CodesIssued, Carrying
  <2>5. NoOrphanAssignments'
    BY <1>25 DEF vars, tables, bodies, NoOrphanAssignments
  <2>6. ReplacementInFlight'
    BY <1>25
       DEF vars, tables, bodies, ReplacementInFlight, ReplacementIsExact,
           AccountFirst, ForAccount
  <2>7. ReplacementIsExact'
    BY <1>25
       DEF vars, tables, bodies, ReplacementInFlight, ReplacementIsExact,
           AccountFirst, ForAccount
  <2>8. CodesOpen'
    BY <1>25
       DEF vars, tables, bodies, CodesOpen, AccountFirst, CodesIssued,
           Carrying
  <2>9. StatusFollows'
    BY <1>25
       DEF vars, tables, bodies, StatusFollows, Untouched, StoredBy,
           CallsKnown, CodesIssued, Carrying
  <2> QED
    BY <2>1, <2>2, <2>3, <2>4, <2>5, <2>6, <2>7, <2>8, <2>9 DEF MembershipInv
<1> QED
  BY <1>1, <1>2, <1>3, <1>4, <1>5, <1>6, <1>7, <1>8, <1>9, <1>10, <1>11,
     <1>12, <1>13, <1>14, <1>15, <1>16, <1>17, <1>18, <1>19, <1>20, <1>21,
     <1>22, <1>23, <1>24, <1>25
     DEF Next, Arrival, Proceed

LEMMA FirstCodes ==
  /\ <<>> \in Seq(Resets)
  /\ <<NewReset>> \in Seq(Resets)
  /\ <<[NewReset EXCEPT !.consumed = TRUE]>> \in Seq(Resets)
  /\ DOMAIN <<NewReset>> = {1} /\ ~ <<NewReset>>[1].consumed
<1>1. NewReset \in Resets /\ ~ NewReset.consumed
  BY DEF NewReset, Resets
<1>2. [NewReset EXCEPT !.consumed = TRUE] \in Resets
  BY <1>1, FlagSet
<1> QED
  BY <1>1, <1>2

LEMMA InvariantInit == Init => MembershipInv
<1> SUFFICES ASSUME Init PROVE MembershipInv
  OBVIOUS
<1> DEFINE invited == [role |-> "staff", status |-> "inactive"]
           active  == [role |-> "staff", status |-> "active"]
           owner   == [role |-> "owner", status |-> "active"]
<1>0. {invited, active, owner} \subseteq Members /\ Absent \notin Members
  BY MembersPresent DEF Members, Roles, Statuses
<1>1. \/ password = Absent /\ member = Absent /\ resets = <<>>
      \/ password = "" /\ member = invited /\ resets = <<NewReset>>
      \/ /\ password \in Passwords /\ member = active
         /\ resets = <<[NewReset EXCEPT !.consumed = TRUE]>>
      \/ password \in Passwords /\ member = owner /\ resets = <<>>
  BY DEF Init
<1>2. TypeOK
  <2>1. password \in Passwords \cup {"", Absent}
    BY <1>1
  <2>2. member \in Members \cup {Absent}
    BY <1>0, <1>1
  <2>3. resets \in Seq(Resets)
    BY <1>1, FirstCodes
  <2>4. change \in [Requests -> Changes]
    BY DEF Init, Changes, Nothing
  <2> QED
    BY <2>1, <2>2, <2>3, <2>4 DEF Init, TypeOK, Kinds
<1>3. password = Absent => member = Absent /\ resets = <<>>
  BY <1>1, MembershipAssumption
<1>4. OneInvitation /\ AccountFirst /\ CallsKnown /\ CodesIssued
  BY <1>3 DEF Init, OneInvitation, AccountFirst, CallsKnown, CodesIssued,
              ForAccount, Carrying
<1>5. NoOrphanAssignments /\ ReplacementInFlight /\ ReplacementIsExact
  BY DEF Init, NoOrphanAssignments, ReplacementInFlight, ReplacementIsExact
<1>6. CodesOpen
  <2>1. password = "" => resets = <<NewReset>>
    BY <1>1, MembershipAssumption
  <2> QED
    BY <2>1, FirstCodes, Zenon DEF CodesOpen
<1>7. StatusFollows
  <2>1. /\ invited.status = "inactive"
        /\ active.status = "active" /\ owner.status = "active"
    OBVIOUS
  <2> HIDE DEF invited, active, owner
  <2>2. password = "" => member \in {invited, Absent}
    BY <1>1, MembershipAssumption
  <2>3. password # "" => member \in {active, owner, Absent}
    BY <1>1
  <2> QED
    BY <2>1, <2>2, <2>3 DEF StatusFollows
<1> QED
  BY <1>2, <1>4, <1>5, <1>6, <1>7 DEF MembershipInv

-----------------------------------------------------------------------------
(* The inductive invariant holds for any number of calls and break-offs,   *)
(* branches and passwords.                                                 *)
THEOREM MembershipInvariant == Spec => []MembershipInv
  BY InvariantInit, InvariantStep, PTL DEF Spec

(* The variables keep their types: passwords, rows, codes and tokens.      *)
THEOREM MembershipTypes == Spec => []TypeOK
<1>1. MembershipInv => TypeOK
  BY DEF MembershipInv
<1> QED
  BY <1>1, MembershipInvariant, PTL

(* Nobody is assigned to a branch without being a member.                  *)
THEOREM AssignmentsHaveMember == Spec => []NoOrphanAssignments
<1>1. MembershipInv => NoOrphanAssignments
  BY DEF MembershipInv
<1> QED
  BY <1>1, MembershipInvariant, PTL

(* A replacement that ran alone leaves exactly what it asked for.          *)
THEOREM UndisturbedReplacement == Spec => []ReplacementIsExact
<1>1. MembershipInv => ReplacementIsExact
  BY DEF MembershipInv
<1> QED
  BY <1>1, MembershipInvariant, PTL

(* The code that resetPassword looks for is the newest, unless that one is *)
(* consumed.                                                               *)
LEMMA NewestIsLatest ==
  ASSUME TypeOK, Len(resets) \in Unconsumed
  PROVE  Latest = Len(resets)
<1>1. /\ Len(resets) \in Nat
      /\ \A i \in DOMAIN resets : i \in Nat /\ i <= Len(resets)
  BY CodeIndexes DEF TypeOK
<1>2. \A i \in Unconsumed : i \in Nat /\ i <= Len(resets)
  BY <1>1 DEF Unconsumed
<1>3. \A i \in Unconsumed : (\A j \in Unconsumed : j <= i) => i = Len(resets)
  BY <1>1, <1>2
<1>4. Latest = CHOOSE i \in Unconsumed : \A j \in Unconsumed : j <= i
  BY DEF Latest
<1> QED
  BY <1>1, <1>2, <1>3, <1>4

(* An invitation is open until a password is stored: its newest code, if   *)
(* not expired, is the one that is accepted.  From then on the member is   *)
(* active, unless the password came from reset-password, or from an        *)
(* acceptance that is not over or broke off.                               *)
THEOREM InvitationsSettle == Spec => []InviteOpenOrSettled
<1>1. MembershipInv => InviteOpenOrSettled
  <2> SUFFICES ASSUME TypeOK, CodesOpen, StatusFollows, password = ""
               PROVE  /\ Len(resets) > 0
                      /\ \/ resets[Len(resets)].expired
                         \/ Accepts(Len(resets))
    BY DEF MembershipInv, InviteOpenOrSettled
  <2>1. Len(resets) \in DOMAIN resets /\ Len(resets) > 0
    BY CodeIndexes DEF CodesOpen, TypeOK
  <2>2. Len(resets) \in Unconsumed
    BY <2>1 DEF CodesOpen, Unconsumed
  <2>3. Len(resets) = Latest
    BY <2>2, NewestIsLatest
  <2> QED
    BY <2>1, <2>2, <2>3 DEF Accepts
<1> QED
  BY <1>1, MembershipInvariant, PTL

-----------------------------------------------------------------------------
(* Only an invitation in flight creates a member, and it holds an e-mail   *)
(* that has no account.                                                    *)
LEMMA RemovalStep ==
  MembershipInv /\ [Next]_vars =>
    (Removed => /\ Removed'
                /\ \A r \in Requests : pc'[r] = "reading" => pc[r] = "reading")
<1> SUFFICES ASSUME TypeOK, OneInvitation, MembershipInv', Removed, [Next]_vars
             PROVE  /\ Removed'
                    /\ \A r \in Requests : pc'[r] = "reading" => pc[r] = "reading"
  BY InvariantStep DEF MembershipInv
<1> DEFINE Final == /\ password' # Absent /\ member' = Absent
                    /\ \A r \in Requests : pc'[r] = "reading" => pc[r] = "reading"
<1>0. password # Absent /\ member = Absent
  BY DEF Removed
<1>1. ASSUME NEW r \in Requests, TurnedAway(r) PROVE Final
  <2>1. /\ pc'[r] = "refused"
        /\ \A s \in Requests \ {r} : pc'[s] = pc[s]
    BY <1>1, MoveEffect DEF TurnedAway
  <2> QED
    BY <1>0, <1>1, <2>1 DEF TurnedAway, tables
<1>2. ASSUME NEW r \in Requests, Invite(r) PROVE Final
  <2>1. /\ pc'[r] = "inserting"
        /\ \A s \in Requests \ {r} : pc'[s] = pc[s]
    BY <1>2, MoveEffect DEF Invite, Arrive
  <2> QED
    BY <1>0, <1>2, <2>1 DEF Invite, tables
<1>3. ASSUME NEW r \in Requests, Update(r) PROVE Final
  <2>1. /\ pc'[r] = "updating"
        /\ \A s \in Requests \ {r} : pc'[s] = pc[s]
    BY <1>3, MoveEffect DEF Update, Arrive
  <2> QED
    BY <1>0, <1>3, <2>1 DEF Update, tables
<1>4. ASSUME NEW r \in Requests, Remove(r) PROVE Final
  <2>1. /\ pc'[r] = "unassigning"
        /\ \A s \in Requests \ {r} : pc'[s] = pc[s]
    BY <1>4, MoveEffect DEF Remove, Arrive
  <2> QED
    BY <1>0, <1>4, <2>1 DEF Remove, tables
<1>5. ASSUME NEW r \in Requests, Assign(r) PROVE Final
  <2>1. /\ pc'[r] = "clearing"
        /\ \A s \in Requests \ {r} : pc'[s] = pc[s]
    BY <1>5, MoveEffect DEF Assign, Arrive
  <2> QED
    BY <1>0, <1>5, <2>1 DEF Assign, tables
<1>6. ASSUME NEW r \in Requests, Forget(r) PROVE Final
  <2>1. /\ pc'[r] = "issuing"
        /\ \A s \in Requests \ {r} : pc'[s] = pc[s]
    BY <1>6, MoveEffect DEF Forget, Arrive
  <2> QED
    BY <1>0, <1>6, <2>1 DEF Forget, tables
<1>7. ASSUME NEW r \in Requests, SubmitCode(r) PROVE Final
  <2>1. /\ pc'[r] = "comparing"
        /\ \A s \in Requests \ {r} : pc'[s] = pc[s]
    BY <1>7, MoveEffect DEF SubmitCode, Arrive
  <2> QED
    BY <1>0, <1>7, <2>1 DEF SubmitCode, tables
<1>8. ASSUME NEW r \in Requests, Login(r) PROVE Final
  <2>1. /\ pc'[r] = "finding"
        /\ \A s \in Requests \ {r} : pc'[s] = pc[s]
    BY <1>8, MoveEffect DEF Login, Arrive
  <2> QED
    BY <1>0, <1>8, <2>1 DEF Login, tables
<1>9. ASSUME NEW r \in Requests, InsertUser(r) PROVE Final
  <2>1. /\ pc'[r] \in {"inserted", "failed"}
        /\ \A s \in Requests \ {r} : pc'[s] = pc[s]
    BY <1>9, MoveEffect DEF InsertUser
  <2> QED
    BY <1>0, <1>9, <2>1 DEF InsertUser, tables
<1>10. ASSUME NEW r \in Requests, CommitInvite(r) PROVE Final
  BY <1>0, <1>10 DEF CommitInvite, Move, OneInvitation
<1>11. ASSUME NEW r \in Requests, WriteMember(r) PROVE Final
  <2>1. /\ pc'[r] = "done"
        /\ \A s \in Requests \ {r} : pc'[s] = pc[s]
    BY <1>11, MoveEffect DEF WriteMember
  <2> QED
    BY <1>0, <1>11, <2>1 DEF WriteMember, tables
<1>12. ASSUME NEW r \in Requests, DeleteBranches(r) PROVE Final
  <2>1. /\ pc'[r] = "removing"
        /\ \A s \in Requests \ {r} : pc'[s] = pc[s]
    BY <1>12, MoveEffect DEF DeleteBranches
  <2> QED
    BY <1>0, <1>12, <2>1 DEF DeleteBranches, tables
<1>13. ASSUME NEW r \in Requests, DeleteMember(r) PROVE Final
  <2>1. /\ pc'[r] = "done"
        /\ \A s \in Requests \ {r} : pc'[s] = pc[s]
    BY <1>13, MoveEffect DEF DeleteMember
  <2> QED
    BY <1>0, <1>13, <2>1 DEF DeleteMember, tables
<1>14. ASSUME NEW r \in Requests, Clear(r) PROVE Final
  <2>1. /\ pc'[r] \in {"done", "placing"}
        /\ \A s \in Requests \ {r} : pc'[s] = pc[s]
    BY <1>14, MoveEffect DEF Clear
  <2> QED
    BY <1>0, <1>14, <2>1 DEF Clear, tables
<1>15. ASSUME NEW r \in Requests, Place(r) PROVE Final
  <2>1. /\ pc'[r] \in {"done", "failed"}
        /\ \A s \in Requests \ {r} : pc'[s] = pc[s]
    BY <1>15, MoveEffect DEF Place
  <2> QED
    BY <1>0, <1>15, <2>1 DEF Place, tables
<1>16. ASSUME NEW r \in Requests, Issue(r) PROVE Final
  <2>1. /\ pc'[r] = "done"
        /\ \A s \in Requests \ {r} : pc'[s] = pc[s]
    BY <1>16, MoveEffect DEF Issue
  <2> QED
    BY <1>0, <1>16, <2>1 DEF Issue, tables
<1>17. ASSUME NEW r \in Requests, CompareCode(r) PROVE Final
  <2>1. /\ pc'[r] \in {"storing", "refused"}
        /\ \A s \in Requests \ {r} : pc'[s] = pc[s]
    BY <1>17, MoveEffect DEF CompareCode
  <2> QED
    BY <1>0, <1>17, <2>1 DEF CompareCode, tables
<1>18. ASSUME NEW r \in Requests, StorePassword(r) PROVE Final
  <2>1. /\ pc'[r] = "consuming"
        /\ \A s \in Requests \ {r} : pc'[s] = pc[s]
    BY <1>18, MoveEffect DEF StorePassword
  <2>2. entered[r] \in Passwords \cup {""}
    BY DEF TypeOK
  <2> QED
    BY <1>0, <1>18, <2>1, <2>2, MembershipAssumption DEF StorePassword
<1>19. ASSUME NEW r \in Requests, Consume(r) PROVE Final
  <2>1. /\ pc'[r] \in {"activating", "done"}
        /\ \A s \in Requests \ {r} : pc'[s] = pc[s]
    BY <1>19, MoveEffect DEF Consume
  <2> QED
    BY <1>0, <1>19, <2>1 DEF Consume, tables
<1>20. ASSUME NEW r \in Requests, Activate(r) PROVE Final
  <2>1. /\ pc'[r] = "done"
        /\ \A s \in Requests \ {r} : pc'[s] = pc[s]
    BY <1>20, MoveEffect DEF Activate
  <2> QED
    BY <1>0, <1>20, <2>1 DEF Activate, tables
<1>21. ASSUME NEW r \in Requests, FindMembership(r) PROVE Final
  <2>1. member \notin Members
    BY <1>0, MembersPresent
  <2>2. /\ pc'[r] = "failed"
        /\ \A s \in Requests \ {r} : pc'[s] = pc[s]
    BY <1>21, <2>1, MoveEffect DEF FindMembership
  <2> QED
    BY <1>0, <1>21, <2>2 DEF FindMembership, tables
<1>22. ASSUME NEW r \in Requests, ReadBranches(r) PROVE Final
  <2>1. /\ pc'[r] = "done"
        /\ \A s \in Requests \ {r} : pc'[s] = pc[s]
    BY <1>22, MoveEffect DEF ReadBranches
  <2> QED
    BY <1>0, <1>22, <2>1 DEF ReadBranches, tables
<1>23. ASSUME NEW r \in Requests, BreakOff(r) PROVE Final
  <2>1. /\ pc'[r] = "failed"
        /\ \A s \in Requests \ {r} : pc'[s] = pc[s]
    BY <1>23, MoveEffect DEF BreakOff, TypeOK
  <2> QED
    BY <1>0, <1>23, <2>1 DEF BreakOff, tables
<1>24. ASSUME NEW i \in DOMAIN resets, Expire(i) PROVE Final
  BY <1>0, <1>24 DEF Expire
<1>25. CASE UNCHANGED vars
  BY <1>0, <1>25 DEF vars, tables, Removed
<1> QED
  BY <1>1, <1>2, <1>3, <1>4, <1>5, <1>6, <1>7, <1>8, <1>9, <1>10, <1>11,
     <1>12, <1>13, <1>14, <1>15, <1>16, <1>17, <1>18, <1>19, <1>20, <1>21,
     <1>22, <1>23, <1>24, <1>25
     DEF Next, Arrival, Proceed, Removed

(* A spent code is accepted by nobody: the comparison looks at unconsumed  *)
(* codes only, and nothing makes a consumed one unconsumed.                *)
LEMMA SpentStep ==
  MembershipInv /\ [Next]_vars => \A i \in DOMAIN resets : Spent(i) => Spent(i)'
<1> SUFFICES ASSUME TypeOK, CodesIssued, [Next]_vars,
                    NEW i \in DOMAIN resets, Spent(i)
             PROVE  Spent(i)'
  BY DEF MembershipInv
<1>0. /\ resets[i].consumed
      /\ \A r \in Requests : pc[r] \in {"storing", "consuming"} => code[r] # i
  BY DEF Spent
<1>1. ASSUME NEW r \in Requests, TurnedAway(r) PROVE Spent(i)'
  <2>1. /\ pc[r] = "idle" /\ pc'[r] = "refused"
        /\ \A s \in Requests \ {r} : pc'[s] = pc[s]
    BY <1>1, MoveEffect DEF TurnedAway
  <2> QED
    BY <1>0, <1>1, <2>1 DEF TurnedAway, tables, bodies, Spent
<1>2. ASSUME NEW r \in Requests, Invite(r) PROVE Spent(i)'
  <2>1. /\ pc[r] = "idle" /\ pc'[r] = "inserting"
        /\ \A s \in Requests \ {r} : pc'[s] = pc[s]
    BY <1>2, MoveEffect DEF Invite, Arrive
  <2> QED
    BY <1>0, <1>2, <2>1 DEF Invite, tables, bodies, Spent
<1>3. ASSUME NEW r \in Requests, Update(r) PROVE Spent(i)'
  <2>1. /\ pc[r] = "idle" /\ pc'[r] = "updating"
        /\ \A s \in Requests \ {r} : pc'[s] = pc[s]
    BY <1>3, MoveEffect DEF Update, Arrive
  <2> QED
    BY <1>0, <1>3, <2>1 DEF Update, tables, bodies, Spent
<1>4. ASSUME NEW r \in Requests, Remove(r) PROVE Spent(i)'
  <2>1. /\ pc[r] = "idle" /\ pc'[r] = "unassigning"
        /\ \A s \in Requests \ {r} : pc'[s] = pc[s]
    BY <1>4, MoveEffect DEF Remove, Arrive
  <2> QED
    BY <1>0, <1>4, <2>1 DEF Remove, tables, bodies, Spent
<1>5. ASSUME NEW r \in Requests, Assign(r) PROVE Spent(i)'
  <2>1. /\ pc[r] = "idle" /\ pc'[r] = "clearing"
        /\ \A s \in Requests \ {r} : pc'[s] = pc[s]
    BY <1>5, MoveEffect DEF Assign, Arrive
  <2> QED
    BY <1>0, <1>5, <2>1 DEF Assign, tables, bodies, Spent
<1>6. ASSUME NEW r \in Requests, Forget(r) PROVE Spent(i)'
  <2>1. /\ pc[r] = "idle" /\ pc'[r] = "issuing"
        /\ \A s \in Requests \ {r} : pc'[s] = pc[s]
    BY <1>6, MoveEffect DEF Forget, Arrive
  <2> QED
    BY <1>0, <1>6, <2>1 DEF Forget, tables, bodies, Spent
<1>7. ASSUME NEW r \in Requests, SubmitCode(r) PROVE Spent(i)'
  <2>1. /\ pc[r] = "idle" /\ pc'[r] = "comparing"
        /\ \A s \in Requests \ {r} : pc'[s] = pc[s]
    BY <1>7, MoveEffect DEF SubmitCode, Arrive
  <2>2. \A s \in Requests \ {r} : code'[s] = code[s]
    BY <1>7 DEF SubmitCode, TypeOK
  <2> QED
    BY <1>0, <1>7, <2>1, <2>2 DEF SubmitCode, tables, bodies, Spent
<1>8. ASSUME NEW r \in Requests, Login(r) PROVE Spent(i)'
  <2>1. /\ pc[r] = "idle" /\ pc'[r] = "finding"
        /\ \A s \in Requests \ {r} : pc'[s] = pc[s]
    BY <1>8, MoveEffect DEF Login, Arrive
  <2> QED
    BY <1>0, <1>8, <2>1 DEF Login, tables, bodies, Spent
<1>9. ASSUME NEW r \in Requests, InsertUser(r) PROVE Spent(i)'
  <2>1. /\ pc[r] = "inserting" /\ pc'[r] \in {"inserted", "failed"}
        /\ \A s \in Requests \ {r} : pc'[s] = pc[s]
    BY <1>9, MoveEffect DEF InsertUser
  <2> QED
    BY <1>0, <1>9, <2>1 DEF InsertUser, tables, bodies, Spent
<1>10. ASSUME NEW r \in Requests, CommitInvite(r) PROVE Spent(i)'
  <2>1. /\ pc[r] = "inserted" /\ pc'[r] \in {"done", "failed"}
        /\ \A s \in Requests \ {r} : pc'[s] = pc[s]
    BY <1>10, MoveEffect DEF CommitInvite
  <2>2. Appended
    BY <1>10, AppendEffect DEF CommitInvite, TypeOK
  <2> QED
    BY <1>0, <1>10, <2>1, <2>2
       DEF CommitInvite, tables, bodies, Spent, Appended
<1>11. ASSUME NEW r \in Requests, WriteMember(r) PROVE Spent(i)'
  <2>1. /\ pc[r] = "updating" /\ pc'[r] = "done"
        /\ \A s \in Requests \ {r} : pc'[s] = pc[s]
    BY <1>11, MoveEffect DEF WriteMember
  <2> QED
    BY <1>0, <1>11, <2>1 DEF WriteMember, tables, bodies, Spent
<1>12. ASSUME NEW r \in Requests, DeleteBranches(r) PROVE Spent(i)'
  <2>1. /\ pc[r] = "unassigning" /\ pc'[r] = "removing"
        /\ \A s \in Requests \ {r} : pc'[s] = pc[s]
    BY <1>12, MoveEffect DEF DeleteBranches
  <2> QED
    BY <1>0, <1>12, <2>1 DEF DeleteBranches, tables, bodies, Spent
<1>13. ASSUME NEW r \in Requests, DeleteMember(r) PROVE Spent(i)'
  <2>1. /\ pc[r] = "removing" /\ pc'[r] = "done"
        /\ \A s \in Requests \ {r} : pc'[s] = pc[s]
    BY <1>13, MoveEffect DEF DeleteMember
  <2> QED
    BY <1>0, <1>13, <2>1 DEF DeleteMember, tables, bodies, Spent
<1>14. ASSUME NEW r \in Requests, Clear(r) PROVE Spent(i)'
  <2>1. /\ pc[r] = "clearing" /\ pc'[r] \in {"done", "placing"}
        /\ \A s \in Requests \ {r} : pc'[s] = pc[s]
    BY <1>14, MoveEffect DEF Clear
  <2> QED
    BY <1>0, <1>14, <2>1 DEF Clear, tables, bodies, Spent
<1>15. ASSUME NEW r \in Requests, Place(r) PROVE Spent(i)'
  <2>1. /\ pc[r] = "placing" /\ pc'[r] \in {"done", "failed"}
        /\ \A s \in Requests \ {r} : pc'[s] = pc[s]
    BY <1>15, MoveEffect DEF Place
  <2> QED
    BY <1>0, <1>15, <2>1 DEF Place, tables, bodies, Spent
<1>16. ASSUME NEW r \in Requests, Issue(r) PROVE Spent(i)'
  <2>1. /\ pc[r] = "issuing" /\ pc'[r] = "done"
        /\ \A s \in Requests \ {r} : pc'[s] = pc[s]
    BY <1>16, MoveEffect DEF Issue
  <2>2. Appended
    BY <1>16, AppendEffect DEF Issue, TypeOK
  <2> QED
    BY <1>0, <1>16, <2>1, <2>2 DEF Issue, tables, bodies, Spent, Appended
<1>17. ASSUME NEW r \in Requests, CompareCode(r) PROVE Spent(i)'
  <2>1. /\ pc[r] = "comparing" /\ pc'[r] \in {"storing", "refused"}
        /\ \A s \in Requests \ {r} : pc'[s] = pc[s]
    BY <1>17, MoveEffect DEF CompareCode
  <2>2. pc'[r] = "storing" => code[r] \in Unconsumed
    BY <1>17, MoveEffect DEF CompareCode, Accepts
  <2> QED
    BY <1>0, <1>17, <2>1, <2>2
       DEF CompareCode, tables, bodies, Spent, Unconsumed
<1>18. ASSUME NEW r \in Requests, StorePassword(r) PROVE Spent(i)'
  <2>1. /\ pc[r] = "storing" /\ pc'[r] = "consuming"
        /\ \A s \in Requests \ {r} : pc'[s] = pc[s]
    BY <1>18, MoveEffect DEF StorePassword
  <2> QED
    BY <1>0, <1>18, <2>1 DEF StorePassword, tables, bodies, Spent
<1>19. ASSUME NEW r \in Requests, Consume(r) PROVE Spent(i)'
  <2>1. /\ pc[r] = "consuming" /\ pc'[r] \in {"activating", "done"}
        /\ \A s \in Requests \ {r} : pc'[s] = pc[s]
    BY <1>19, MoveEffect DEF Consume
  <2>2. code[r] \in DOMAIN resets
    BY <2>1 DEF CodesIssued, Carrying
  <2>3. ConsumedOnly(r)
    BY <1>19, <2>2, ConsumeEffect DEF Consume, TypeOK
  <2> QED
    BY <1>0, <1>19, <2>1, <2>3 DEF Consume, tables, bodies, Spent, ConsumedOnly
<1>20. ASSUME NEW r \in Requests, Activate(r) PROVE Spent(i)'
  <2>1. /\ pc[r] = "activating" /\ pc'[r] = "done"
        /\ \A s \in Requests \ {r} : pc'[s] = pc[s]
    BY <1>20, MoveEffect DEF Activate
  <2> QED
    BY <1>0, <1>20, <2>1 DEF Activate, tables, bodies, Spent
<1>21. ASSUME NEW r \in Requests, FindMembership(r) PROVE Spent(i)'
  <2>1. /\ pc[r] = "finding" /\ pc'[r] \in {"reading", "failed"}
        /\ \A s \in Requests \ {r} : pc'[s] = pc[s]
    BY <1>21, MoveEffect DEF FindMembership
  <2> QED
    BY <1>0, <1>21, <2>1 DEF FindMembership, tables, bodies, Spent
<1>22. ASSUME NEW r \in Requests, ReadBranches(r) PROVE Spent(i)'
  <2>1. /\ pc[r] = "reading" /\ pc'[r] = "done"
        /\ \A s \in Requests \ {r} : pc'[s] = pc[s]
    BY <1>22, MoveEffect DEF ReadBranches
  <2> QED
    BY <1>0, <1>22, <2>1 DEF ReadBranches, tables, bodies, Spent
<1>23. ASSUME NEW r \in Requests, BreakOff(r) PROVE Spent(i)'
  <2>1. /\ pc[r] \in Open /\ pc'[r] = "failed"
        /\ \A s \in Requests \ {r} : pc'[s] = pc[s]
    BY <1>23, MoveEffect DEF BreakOff, TypeOK
  <2> QED
    BY <1>0, <1>23, <2>1 DEF BreakOff, tables, bodies, Spent
<1>24. ASSUME NEW j \in DOMAIN resets, Expire(j) PROVE Spent(i)'
  <2>1. /\ DOMAIN resets' = DOMAIN resets
        /\ \A k \in DOMAIN resets : resets'[k].consumed = resets[k].consumed
    BY <1>24, ExpireEffect DEF Expire, TypeOK
  <2> QED
    BY <1>0, <1>24, <2>1 DEF Expire, bodies, Spent
<1>25. CASE UNCHANGED vars
  BY <1>0, <1>25 DEF vars, tables, bodies, Spent
<1> QED
  BY <1>1, <1>2, <1>3, <1>4, <1>5, <1>6, <1>7, <1>8, <1>9, <1>10, <1>11,
     <1>12, <1>13, <1>14, <1>15, <1>16, <1>17, <1>18, <1>19, <1>20, <1>21,
     <1>22, <1>23, <1>24, <1>25
     DEF Next, Arrival, Proceed

(* A removed member stays removed, and no login finds the membership again. *)
THEOREM RemovedForGood == Spec => RemovalIsFinal
<1>1. MembershipInv /\ [Next]_vars =>
        [Removed => /\ Removed'
                    /\ \A r \in Requests : pc'[r] = "reading" => pc[r] = "reading"]_vars
  BY RemovalStep
<1> QED
  BY <1>1, MembershipInvariant, PTL DEF Spec, RemovalIsFinal

(* A code that was consumed, with nobody still using it, is dead for good. *)
THEOREM SpentForGood == Spec => SpentCodeIsDead
<1>1. MembershipInv /\ [Next]_vars =>
        [\A i \in DOMAIN resets : Spent(i) => Spent(i)']_vars
  BY SpentStep
<1> QED
  BY <1>1, MembershipInvariant, PTL DEF Spec, SpentCodeIsDead
=============================================================================
