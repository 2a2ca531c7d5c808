------------------------------ MODULE Membership ------------------------------
(***************************************************************************)
(* One person's account at one restaurant: the users row, the              *)
(* restaurant_members row, the member_branches rows and the codes of       *)
(* password_resets, under concurrent calls of the member and the auth      *)
(* service.  All tables are partitioned by person, so one is enough.  Only *)
(* the invitation is a transaction; every other statement commits by       *)
(* itself, and the API process may stop between any two.                   *)
(***************************************************************************)
EXTENDS Integers, Sequences, FiniteSets

CONSTANTS Requests,     \* calls, each made once
          Branches,     \* branches of the restaurant
          Passwords,
          MaxFaults,    \* bound: calls that break off
          Absent,       \* no row, no token
          Unknown       \* no replacement ran alone

ASSUME MembershipAssumption ==
  /\ MaxFaults \in Nat
  /\ Absent \notin Passwords \cup {""}
  /\ Absent \notin [role : {"owner", "staff"},
                     status : {"active", "inactive", "suspended"}]
  /\ "" \notin Passwords
  /\ \A B \in SUBSET Branches : Unknown # B

VARIABLES password,     \* users.password_hash, or Absent without a user
          member,       \* the restaurant_members row, or Absent
          assigned,     \* member_branches
          resets,       \* password_resets in id order
          pc, kind,     \* where a call stands, and which call it is
          branches,     \* its body: branchIds
          code,         \* its body: the otp, as the id of its reset
          entered,      \* its body: password or newPassword
          change,       \* its body: role and status
          token,        \* the claims a login collects
          wanted,       \* history: what the last undisturbed replacement asked for
          faults

tables == <<password, member, assigned, resets>>
bodies == <<kind, branches, code, entered, change>>
vars   == <<tables, pc, bodies, token, wanted, faults>>

Roles    == {"owner", "staff"}
Statuses == {"active", "inactive", "suspended"}
Members  == [role : Roles, status : Statuses]
Changes  == [role : Roles \cup {"keep"}, status : Statuses \cup {"keep"}]
Tokens   == [role : Roles, branches : SUBSET Branches]
Resets   == [consumed : BOOLEAN, expired : BOOLEAN]
Kinds    == {"none", "invite", "forget", "reset", "accept", "update", "remove",
             "assign", "login"}
Open     == {"inserting", "inserted", "issuing", "comparing", "storing",
             "consuming", "activating", "updating", "unassigning", "removing",
             "clearing", "placing", "finding", "reading"}
Ended    == {"done", "refused", "failed"}

NewReset == [consumed |-> FALSE, expired |-> FALSE]
Nothing  == [role |-> "keep", status |-> "keep"]

(* findLatestPasswordResetByUserId: the unconsumed code with the greatest  *)
(* id, or 0.                                                               *)
Unconsumed == {i \in DOMAIN resets : ~ resets[i].consumed}
Latest == IF Unconsumed = {} THEN 0
          ELSE CHOOSE i \in Unconsumed : \A j \in Unconsumed : j <= i

\* resetPassword goes on with this code, and with no other.
Accepts(i) == i \in Unconsumed /\ i = Latest /\ ~ resets[i].expired

Placing(r) == \E s \in Requests \ {r} : pc[s] = "placing"

(* Who the person is to begin with: nobody yet, an invited member, an      *)
(* active one without branches, or the owner who registered.               *)
Init ==
  /\ \/ password = Absent /\ member = Absent /\ resets = <<>>
     \/ password = "" /\ resets = <<NewReset>>
          /\ member = [role |-> "staff", status |-> "inactive"]
     \/ password \in Passwords /\ resets = <<[NewReset EXCEPT !.consumed = TRUE]>>
          /\ member = [role |-> "staff", status |-> "active"]
     \/ password \in Passwords /\ resets = <<>>
          /\ member = [role |-> "owner", status |-> "active"]
  /\ assigned = {} /\ wanted = {}
  /\ pc = [r \in Requests |-> "idle"]
  /\ kind = [r \in Requests |-> "none"]
  /\ branches = [r \in Requests |-> {}]
  /\ code = [r \in Requests |-> 0]
  /\ entered = [r \in Requests |-> ""]
  /\ change = [r \in Requests |-> Nothing]
  /\ token = [r \in Requests |-> Absent]
  /\ faults = 0

Move(r, from, to) == pc[r] = from /\ pc' = [pc EXCEPT ![r] = to]

\* A call arrives with its body and passes its first reads of the tables.
Arrive(r, k, to) ==
  /\ Move(r, "idle", to)
  /\ kind' = [kind EXCEPT ![r] = k]

(* A call that its first checks turn away has no effect: an invitation as  *)
(* owner, to a foreign branch or for a known e-mail; a change of a member  *)
(* who is gone or of another restaurant, or with an unknown role; the      *)
(* removal of an owner, or branches for one; a wrong password, a code      *)
(* nobody was sent or an unknown e-mail.                                   *)
TurnedAway(r) ==
  /\ Move(r, "idle", "refused")
  /\ UNCHANGED <<tables, bodies, token, wanted, faults>>

-----------------------------------------------------------------------------
(* createMember.  The exists check runs on its own connection.             *)
Invite(r) ==
  /\ password = Absent
  /\ Arrive(r, "invite", "inserting")
  /\ \E role \in Roles \ {"owner"}, B \in SUBSET Branches :
       /\ branches' = [branches EXCEPT ![r] = B]
       /\ change' = [change EXCEPT ![r].role = role]
  /\ UNCHANGED <<tables, code, entered, token, wanted, faults>>

\* Mutant: the INSERT waits for nobody.
InsertAtOnce(r) ==
  /\ Move(r, "inserting", IF password = Absent THEN "inserted" ELSE "failed")
  /\ UNCHANGED <<tables, bodies, token, wanted, faults>>

(* INSERT INTO users waits while another transaction holds the same e-mail *)
(* and breaks the unique constraint when that one has committed.           *)
InsertUser(r) ==
  /\ \A s \in Requests : pc[s] # "inserted"
  /\ Move(r, "inserting", IF password = Absent THEN "inserted" ELSE "failed")
  /\ UNCHANGED <<tables, bodies, token, wanted, faults>>

(* Member, branches and code appear together with the user.  The e-mail is *)
(* sent afterwards and its failure swallowed; a lost acknowledgement makes *)
(* the call fail all the same.                                             *)
CommitInvite(r) ==
  /\ \E end \in {"done", "failed"} : Move(r, "inserted", end)
  /\ password' = ""
  /\ member' = [role |-> change[r].role, status |-> "inactive"]
  /\ assigned' = branches[r] /\ wanted' = branches[r]
  /\ resets' = Append(resets, NewReset)
  /\ UNCHANGED <<bodies, token, faults>>

(* updateMember: the row is read, then written by its id.                  *)
Update(r) ==
  /\ member # Absent
  /\ Arrive(r, "update", "updating")
  /\ \E c \in Changes \ {Nothing} : change' = [change EXCEPT ![r] = c]
  /\ UNCHANGED <<tables, branches, code, entered, token, wanted, faults>>

WriteMember(r) ==
  /\ Move(r, "updating", "done")
  /\ member' = IF member = Absent THEN Absent ELSE
       [role   |-> IF change[r].role = "keep" THEN member.role ELSE change[r].role,
        status |-> IF change[r].status = "keep" THEN member.status ELSE change[r].status]
  /\ UNCHANGED <<password, assigned, resets, bodies, token, wanted, faults>>

\* There is a member, who is not an owner.
Assignable == member \in Members /\ member.role # "owner"

(* deleteMember: the role is looked at first, then two statements.         *)
Remove(r) ==
  /\ Assignable
  /\ Arrive(r, "remove", "unassigning")
  /\ UNCHANGED <<tables, branches, code, entered, change, token, wanted, faults>>

DeleteBranches(r) ==
  /\ Move(r, "unassigning", "removing")
  /\ assigned' = {}
  /\ wanted' = IF Placing(r) THEN Unknown ELSE {}
  /\ UNCHANGED <<password, member, resets, bodies, token, faults>>

\* Mutant: no ON DELETE CASCADE on member_branches, and no foreign key.
DeleteMemberOnly(r) ==
  /\ Move(r, "removing", "done")
  /\ member' = Absent
  /\ UNCHANGED <<password, assigned, resets, bodies, token, wanted, faults>>

(* The foreign key cascades to branches that were assigned in between.     *)
DeleteMember(r) ==
  /\ Move(r, "removing", "done")
  /\ member' = Absent /\ assigned' = {}
  /\ UNCHANGED <<password, resets, bodies, token, wanted, faults>>

(* updateMemberBranches: validated, then DELETE and INSERT by themselves.  *)
Assign(r) ==
  /\ Assignable
  /\ Arrive(r, "assign", "clearing")
  /\ \E B \in SUBSET Branches : branches' = [branches EXCEPT ![r] = B]
  /\ UNCHANGED <<tables, code, entered, change, token, wanted, faults>>

\* Mutant: setMemberBranches adds to what is there.
ClearNothing(r) ==
  /\ Move(r, "clearing", IF branches[r] = {} THEN "done" ELSE "placing")
  /\ wanted' = IF Placing(r) THEN Unknown ELSE branches[r]
  /\ UNCHANGED <<tables, bodies, token, faults>>

Clear(r) ==
  /\ Move(r, "clearing", IF branches[r] = {} THEN "done" ELSE "placing")
  /\ assigned' = {}
  /\ wanted' = IF Placing(r) THEN Unknown ELSE branches[r]
  /\ UNCHANGED <<password, member, resets, bodies, token, faults>>

(* The INSERT breaks the foreign key when the member is gone, and the      *)
(* primary key when another call has assigned one of the branches.         *)
Place(r) ==
  LET fits == member # Absent /\ assigned \cap branches[r] = {}
  IN  /\ Move(r, "placing", IF fits THEN "done" ELSE "failed")
      /\ assigned' = IF fits THEN assigned \cup branches[r] ELSE assigned
      /\ wanted' = IF fits THEN wanted ELSE Unknown
      /\ UNCHANGED <<password, member, resets, bodies, token, faults>>

-----------------------------------------------------------------------------
(* forgetPassword.  An unknown e-mail gets the answer of a known one.      *)
Forget(r) ==
  /\ password # Absent
  /\ Arrive(r, "forget", "issuing")
  /\ UNCHANGED <<tables, branches, code, entered, change, token, wanted, faults>>

Issue(r) ==
  /\ Move(r, "issuing", "done")
  /\ resets' = Append(resets, NewReset)
  /\ UNCHANGED <<password, member, assigned, bodies, token, wanted, faults>>

(* resetPassword, by itself or as the first half of acceptInvite.          *)
SubmitCode(r) ==
  /\ password # Absent
  /\ \E k \in {"reset", "accept"} : Arrive(r, k, "comparing")
  /\ \E i \in DOMAIN resets : code' = [code EXCEPT ![r] = i]
  /\ \E p \in Passwords : entered' = [entered EXCEPT ![r] = p]
  /\ UNCHANGED <<tables, branches, change, token, wanted, faults>>

\* Mutant: the latest code is taken whether it was consumed or not.
CompareAny(r) ==
  /\ Move(r, "comparing",
          IF code[r] \in DOMAIN resets /\ code[r] = Len(resets)
               /\ ~ resets[code[r]].expired
          THEN "storing" ELSE "refused")
  /\ UNCHANGED <<tables, bodies, token, wanted, faults>>

\* Mutant: the code is consumed before the password is stored.
CompareConsumes(r) ==
  /\ Move(r, "comparing", IF Accepts(code[r]) THEN "storing" ELSE "refused")
  /\ resets' = IF Accepts(code[r])
               THEN [resets EXCEPT ![code[r]].consumed = TRUE] ELSE resets
  /\ UNCHANGED <<password, member, assigned, bodies, token, wanted, faults>>

CompareCode(r) ==
  /\ Move(r, "comparing", IF Accepts(code[r]) THEN "storing" ELSE "refused")
  /\ UNCHANGED <<tables, bodies, token, wanted, faults>>

StorePassword(r) ==
  /\ Move(r, "storing", "consuming")
  /\ password' = entered[r]
  /\ UNCHANGED <<member, assigned, resets, bodies, token, wanted, faults>>

Consume(r) ==
  /\ Move(r, "consuming", IF kind[r] = "accept" THEN "activating" ELSE "done")
  /\ resets' = [resets EXCEPT ![code[r]].consumed = TRUE]
  /\ UNCHANGED <<password, member, assigned, bodies, token, wanted, faults>>

\* Mutant: the row is inserted again when it is not there.
ActivateOrInsert(r) ==
  /\ Move(r, "activating", "done")
  /\ member' = [role |-> "staff", status |-> "active"]
  /\ UNCHANGED <<password, assigned, resets, bodies, token, wanted, faults>>

(* activateMemberByUserId has no condition on the status.                  *)
Activate(r) ==
  /\ Move(r, "activating", "done")
  /\ member' = IF member = Absent THEN Absent
               ELSE [member EXCEPT !.status = "active"]
  /\ UNCHANGED <<password, assigned, resets, bodies, token, wanted, faults>>

(* login: the empty hash of an invited user matches no password.           *)
Login(r) ==
  /\ password \in Passwords
  /\ entered' = [entered EXCEPT ![r] = password]
  /\ Arrive(r, "login", "finding")
  /\ UNCHANGED <<tables, branches, code, change, token, wanted, faults>>

(* Without an active membership the lookup dereferences an undefined row.  *)
FindMembership(r) ==
  LET active == member \in Members /\ member.status = "active"
  IN  /\ Move(r, "finding", IF active THEN "reading" ELSE "failed")
      /\ token' = IF active
                  THEN [token EXCEPT ![r] = [role |-> member.role, branches |-> {}]]
                  ELSE token
      /\ UNCHANGED <<tables, bodies, wanted, faults>>

ReadBranches(r) ==
  /\ Move(r, "reading", "done")
  /\ token' = [token EXCEPT ![r].branches = assigned]
  /\ UNCHANGED <<tables, bodies, wanted, faults>>

-----------------------------------------------------------------------------
(* The process dies or a statement fails; an open invitation rolls back.   *)
BreakOff(r) ==
  /\ pc[r] \in Open /\ faults < MaxFaults
  /\ pc' = [pc EXCEPT ![r] = "failed"]
  /\ faults' = faults + 1
  /\ wanted' = IF pc[r] = "placing" THEN Unknown ELSE wanted
  /\ UNCHANGED <<tables, bodies, token>>

(* expires_at passes.                                                      *)
Expire(i) ==
  /\ i \in Unconsumed /\ ~ resets[i].expired
  /\ resets' = [resets EXCEPT ![i].expired = TRUE]
  /\ UNCHANGED <<password, member, assigned, pc, bodies, token, wanted, faults>>

Arrival(r) == \/ TurnedAway(r)
              \/ Invite(r) \/ Update(r) \/ Remove(r) \/ Assign(r)
              \/ Forget(r) \/ SubmitCode(r) \/ Login(r)

Proceed(r) == \/ InsertUser(r) \/ CommitInvite(r) \/ WriteMember(r)
              \/ DeleteBranches(r) \/ DeleteMember(r) \/ Clear(r) \/ Place(r)
              \/ Issue(r) \/ CompareCode(r) \/ StorePassword(r) \/ Consume(r)
              \/ Activate(r) \/ FindMembership(r) \/ ReadBranches(r)

Next == \/ \E r \in Requests : Arrival(r) \/ Proceed(r) \/ BreakOff(r)
        \/ \E i \in DOMAIN resets : Expire(i)

Spec == Init /\ [][Next]_vars
-----------------------------------------------------------------------------
(* Types of the variables. *)
TypeOK ==
  /\ password \in Passwords \cup {"", Absent}
  /\ member \in Members \cup {Absent}
  /\ assigned \in SUBSET Branches
  /\ resets \in Seq(Resets)
  /\ pc \in [Requests -> {"idle"} \cup Open \cup Ended]
  /\ kind \in [Requests -> Kinds]
  /\ branches \in [Requests -> SUBSET Branches]
  /\ code \in [Requests -> Nat]
  /\ entered \in [Requests -> Passwords \cup {""}]
  /\ change \in [Requests -> Changes]
  /\ token \in [Requests -> Tokens \cup {Absent}]
  /\ wanted \in (SUBSET Branches) \cup {Unknown}
  /\ faults \in Nat

(* Why the properties below hold. *)
OneInvitation ==
  \A r \in Requests : pc[r] = "inserted" =>
    password = Absent /\ \A s \in Requests : pc[s] = "inserted" => s = r

\* Calls that carry a code, and calls that only start for an account.
Carrying == {"comparing", "storing", "consuming", "activating"}
ForAccount == Carrying \cup {"issuing", "clearing", "placing"}

AccountFirst ==
  /\ password = Absent => member = Absent /\ resets = <<>>
  /\ \A r \in Requests : pc[r] \in ForAccount => password # Absent

CallsKnown ==
  \A r \in Requests :
    /\ pc[r] = "idle" => kind[r] = "none"
    /\ pc[r] = "updating" => kind[r] = "update"
    /\ pc[r] \in {"inserting", "inserted"} => change[r].role \in Roles
    /\ pc[r] = "reading" => token[r] \in Tokens

CodesIssued ==
  \A r \in Requests :
    /\ pc[r] \in Carrying =>
         /\ code[r] \in DOMAIN resets /\ kind[r] \in {"reset", "accept"}
         /\ entered[r] \in Passwords
    /\ pc[r] \in {"consuming", "activating"} => password \in Passwords

\* Until a password is stored there are codes, and none is consumed.
CodesOpen ==
  password = "" =>
    DOMAIN resets # {} /\ \A i \in DOMAIN resets : ~ resets[i].consumed

\* Nobody has set the member's status by hand.
Untouched == \A r \in Requests : kind[r] = "update" => change[r].status = "keep"

(* r stored the password and left the status alone: it reset the password, *)
(* or is an acceptance that has not activated yet or broke off.            *)
StoredBy(r) ==
  /\ entered[r] = password
  /\ \/ kind[r] = "reset" /\ pc[r] \in {"consuming", "done", "failed"}
     \/ kind[r] = "accept" /\ pc[r] \in {"consuming", "activating", "failed"}

StatusFollows ==
  member # Absent /\ Untouched =>
    IF password = ""
    THEN member.status = "inactive"
    ELSE member.status = "active" \/ \E r \in Requests : StoredBy(r)

\* A replacement in flight that is alone has cleared the way for its rows.
ReplacementInFlight ==
  member # Absent /\ wanted # Unknown =>
    \A r \in Requests : pc[r] = "placing" =>
      /\ assigned = {} /\ wanted = branches[r]
      /\ \A s \in Requests : pc[s] = "placing" => s = r

(* Nobody is assigned to a branch without being a member, in whatever      *)
(* order removal and assignment interleave or break off.                   *)
NoOrphanAssignments == member = Absent => assigned = {}

(* A replacement of a member's branches that overlapped with no other and  *)
(* did not break off leaves exactly the branches it asked for, whatever    *)
(* earlier ones left behind.                                               *)
ReplacementIsExact ==
  member # Absent /\ wanted # Unknown /\ (\A r \in Requests : pc[r] # "placing")
    => assigned = wanted

(* "Replace a member's branch assignments": what a member is assigned to   *)
(* is what some one call asked for, or nothing.                            *)
AssignmentWasAsked ==
  assigned = {} \/ \E r \in Requests : branches[r] = assigned

(* An invitation is open or settled.  As long as no password was stored,   *)
(* the newest code is the one resetPassword accepts, unless it expired: no *)
(* earlier code, failed attempt or break-off stands in its way.  Once one  *)
(* is stored, the member is active, unless nobody accepted: the call that  *)
(* stored it was a reset-password, or an acceptance that has not activated *)
(* yet or broke off before it did.                                         *)
InviteOpenOrSettled ==
  /\ password = "" => LET newest == Len(resets)
                      IN  newest > 0 /\ (resets[newest].expired \/ Accepts(newest))
  /\ StatusFollows

(* The inductive invariant: the parts above and what they are for. *)
MembershipInv ==
  /\ TypeOK /\ OneInvitation /\ AccountFirst /\ CallsKnown /\ CodesIssued
  /\ NoOrphanAssignments /\ ReplacementInFlight /\ ReplacementIsExact
  /\ CodesOpen /\ StatusFollows

(* A removed member stays removed: the account outlives the membership, so *)
(* no later invitation, acceptance or update brings the row back, and no   *)
(* login finds a membership any more.                                      *)
Removed == password # Absent /\ member = Absent

RemovalIsFinal ==
  [][Removed => /\ Removed'
                /\ \A r \in Requests : pc'[r] = "reading" => pc[r] = "reading"]_vars

(* Once a code is consumed and no call that had accepted it before is      *)
(* still on its way, no call will ever set a password with it again.       *)
Spent(i) ==
  /\ i \in DOMAIN resets /\ resets[i].consumed
  /\ \A r \in Requests : pc[r] \in {"storing", "consuming"} => code[r] # i

SpentCodeIsDead == [][\A i \in DOMAIN resets : Spent(i) => Spent(i)']_vars
=============================================================================
