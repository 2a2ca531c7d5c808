-------------------------------- MODULE Media --------------------------------
(***************************************************************************)
(* One upload: its row in the media table, its object in the bucket and    *)
(* the presigned URL, under concurrent calls of the media service.  Every  *)
(* row has a key of its own, so one is enough.  No call is a transaction   *)
(* and none conditions its UPDATE on the status it has read; the client    *)
(* sends the bytes straight to S3 whenever the URL admits them.            *)
(***************************************************************************)
EXTENDS Integers, FiniteSets

CONSTANTS Calls,        \* calls, each made once
          MaxFaults,    \* bound: calls that break off
          None          \* no row, no object, no restaurant

ASSUME MediaAssumption ==
  /\ MaxFaults \in Nat
  /\ None \notin {"small", "big", "restaurant"}
  /\ None \notin [restaurant : {"restaurant", None},
                  status : {"pending", "ready", "failed", "deleted"},
                  size : {"small", "big", None}]

VARIABLES row,          \* the media row, or None
          object,       \* the object under its key, or None
          url,          \* the presigned URL
          arriving,     \* PUTs that S3 has admitted
          pc, stat,     \* where a call stands, and the size it was told
          torn,         \* history: calls that broke off between delete and UPDATE
          overtaken,    \* history: calls whose object was deleted after HeadObject
          before,       \* history: what S3 has been asked for already
          rewritten,    \* history: what a later PUT came after
          faults

tables  == <<row, object, url, arriving>>
history == <<torn, overtaken, before, rewritten>>
vars    == <<tables, pc, stat, history, faults>>

Sizes    == {"small", "big"}    \* within MEDIA_MAX_UPLOAD_BYTES, and over it
Statuses == {"pending", "ready", "failed", "deleted"}
Rows     == [restaurant : {"restaurant", None}, status : Statuses,
             size : Sizes \cup {None}]
Open     == {"signing", "stating", "dropping", "failing", "readying",
             "deleting", "marking"}

\* Callers: members of the restaurant, the owner of another one, a customer.
Members == {"owner", "manager", "staff"}
Callers == Members \cup {"admin", "stranger", "customer"}

\* The core:media permissions of the roles.
Granted(who, action) ==
  \/ who \in {"admin", "owner", "stranger"}
  \/ who = "manager" /\ action \in {"create", "read"}

CanAccess(who, media) ==
  who = "admin" \/ (media.restaurant # None /\ who \in Members)

\* findById gives the row out.
Found(who) == row # None /\ row.status # "deleted" /\ CanAccess(who, row)

Init ==
  /\ row = None /\ object = None /\ url = "none" /\ arriving = {}
  /\ pc = [c \in Calls |-> "idle"]
  /\ stat = [c \in Calls |-> None]
  /\ torn = {} /\ overtaken = {} /\ before = {} /\ rewritten = {}
  /\ faults = 0

Move(c, from, to) == pc[c] = from /\ pc' = [pc EXCEPT ![c] = to]

(* No permission, an unsupported type, a foreign or a missing restaurant,  *)
(* a row that is not found or that belongs to somebody else.               *)
TurnedAway(c) ==
  /\ Move(c, "idle", "refused")
  /\ UNCHANGED <<tables, stat, history, faults>>

(* createUpload: an admin may name a restaurant or none, a member gets     *)
(* their own.  The row is inserted before the URL is signed.               *)
OwningRestaurant(who) ==
  IF who = "admin" THEN {"restaurant", None}
  ELSE IF who \in Members THEN {"restaurant"} ELSE {}

Reserve(c) ==
  /\ row = None
  /\ Move(c, "idle", "signing")
  /\ \E who \in Callers : \E owner \in OwningRestaurant(who) :
       /\ Granted(who, "create")
       /\ row' = [restaurant |-> owner, status |-> "pending", size |-> None]
  /\ UNCHANGED <<object, url, arriving, stat, history, faults>>

GetUploadUrl(c) ==
  /\ Move(c, "signing", "done")
  /\ url' = "valid"
  /\ UNCHANGED <<row, object, arriving, stat, history, faults>>

-----------------------------------------------------------------------------
(* S3 checks the signature when a PUT begins; the object appears, or is    *)
(* overwritten, when it ends.                                              *)
BeginPut(size) ==
  /\ url = "valid" /\ size \notin arriving
  /\ arriving' = arriving \cup {size}
  /\ UNCHANGED <<row, object, url, pc, stat, history, faults>>

EndPut(size) ==
  /\ size \in arriving
  /\ arriving' = arriving \ {size}
  /\ object' = size
  /\ rewritten' = rewritten \cup before
  /\ UNCHANGED <<row, url, pc, stat, torn, overtaken, before, faults>>

LapseUrl ==
  /\ url = "valid"
  /\ url' = "expired"
  /\ UNCHANGED <<row, object, arriving, pc, stat, history, faults>>

-----------------------------------------------------------------------------
\* Mutant: the row of a removed upload is found too.
CompleteAny(c) ==
  /\ row # None
  /\ \E who \in Callers : Granted(who, "create") /\ CanAccess(who, row)
  /\ Move(c, "idle", IF row.status = "ready" THEN "done" ELSE "stating")
  /\ UNCHANGED <<tables, stat, history, faults>>

(* complete: a row that is ready already is left alone.                    *)
Complete(c) ==
  /\ \E who \in Callers : Granted(who, "create") /\ Found(who)
  /\ Move(c, "idle", IF row.status = "ready" THEN "done" ELSE "stating")
  /\ UNCHANGED <<tables, stat, history, faults>>

\* Mutant: an error of HeadObject counts as an object.
StatAnything(c) ==
  /\ Move(c, "stating", IF object = "big" THEN "dropping" ELSE "readying")
  /\ stat' = [stat EXCEPT ![c] = object]
  /\ before' = before \cup {"stat"}
  /\ UNCHANGED <<tables, torn, overtaken, rewritten, faults>>

\* Mutant: the cap is not looked at.
StatUncapped(c) ==
  /\ Move(c, "stating", IF object = None THEN "refused" ELSE "readying")
  /\ stat' = [stat EXCEPT ![c] = object]
  /\ before' = IF object = None THEN before ELSE before \cup {"stat"}
  /\ UNCHANGED <<tables, torn, overtaken, rewritten, faults>>

(* HeadObject: 409 without an object, and the cap decides the rest.        *)
StatObject(c) ==
  /\ Move(c, "stating",
          IF object = None THEN "refused"
          ELSE IF object = "big" THEN "dropping" ELSE "readying")
  /\ stat' = [stat EXCEPT ![c] = object]
  /\ before' = IF object = None THEN before ELSE before \cup {"stat"}
  /\ UNCHANGED <<tables, torn, overtaken, rewritten, faults>>

(* DeleteObject, of an oversized object and of a removed one; to delete    *)
(* what is not there is no error.                                          *)
DeleteObject(c) ==
  /\ pc[c] \in {"dropping", "deleting"}
  /\ pc' = [pc EXCEPT ![c] = IF pc[c] = "dropping" THEN "failing" ELSE "marking"]
  /\ object' = None
  /\ overtaken' = overtaken \cup {d \in Calls : pc[d] = "readying"}
  /\ before' = before \cup {"delete"}
  /\ UNCHANGED <<row, url, arriving, stat, torn, rewritten, faults>>

MarkReady(c) ==
  /\ Move(c, "readying", "done")
  /\ row' = [row EXCEPT !.status = "ready", !.size = stat[c]]
  /\ UNCHANGED <<object, url, arriving, stat, history, faults>>

MarkFailed(c) ==
  /\ Move(c, "failing", "refused")
  /\ row' = [row EXCEPT !.status = "failed", !.size = stat[c]]
  /\ UNCHANGED <<object, url, arriving, stat, history, faults>>

(* remove                                                                  *)
Remove(c) ==
  /\ \E who \in Callers : Granted(who, "delete") /\ Found(who)
  /\ Move(c, "idle", "deleting")
  /\ UNCHANGED <<tables, stat, history, faults>>

MarkDeleted(c) ==
  /\ Move(c, "marking", "done")
  /\ row' = [row EXCEPT !.status = "deleted"]
  /\ UNCHANGED <<object, url, arriving, stat, history, faults>>

(* The process dies, or S3 or the database refuses the next step.          *)
BreakOff(c) ==
  /\ pc[c] \in Open /\ faults < MaxFaults
  /\ pc' = [pc EXCEPT ![c] = "failed"]
  /\ torn' = IF pc[c] \in {"failing", "marking"} THEN torn \cup {c} ELSE torn
  /\ faults' = faults + 1
  /\ UNCHANGED <<tables, stat, overtaken, before, rewritten>>

Handle(c) == \/ TurnedAway(c) \/ Reserve(c) \/ GetUploadUrl(c)
             \/ Complete(c) \/ StatObject(c) \/ DeleteObject(c)
             \/ MarkReady(c) \/ MarkFailed(c) \/ Remove(c) \/ MarkDeleted(c)

Client == (\E size \in Sizes : BeginPut(size) \/ EndPut(size)) \/ LapseUrl

Next == (\E c \in Calls : Handle(c) \/ BreakOff(c)) \/ Client

Spec == Init /\ [][Next]_vars
-----------------------------------------------------------------------------
(* Types of the variables. *)
TypeOK ==
  /\ row \in Rows \cup {None}
  /\ object \in Sizes \cup {None}
  /\ url \in {"none", "valid", "expired"}
  /\ arriving \in SUBSET Sizes
  /\ pc \in [Calls -> {"idle", "done", "refused", "failed"} \cup Open]
  /\ stat \in [Calls -> Sizes \cup {None}]
  /\ torn \in SUBSET Calls /\ overtaken \in SUBSET Calls
  /\ before \in SUBSET {"stat", "delete"}
  /\ rewritten \in SUBSET {"stat", "delete"}
  /\ faults \in Nat

Status == IF row = None THEN "none" ELSE row.status

(* "Object confirmed present in the bucket": a row is ready without an     *)
(* object only while a call is between its delete and its UPDATE, after    *)
(* one broke off there, or because a delete fell between another call's    *)
(* HeadObject and its UPDATE.                                              *)
ReadyIsBacked ==
  Status = "ready" /\ object = None =>
    torn \cup overtaken \cup {c \in Calls : pc[c] \in {"failing", "marking"}} # {}

(* "bytes removed", "Object removed from the bucket": a failed or deleted  *)
(* row has an object only if a PUT ended after a delete.  Nothing removes  *)
(* such an object any more.                                                *)
RemovedUnlessPutAgain ==
  Status \in {"failed", "deleted"} /\ object # None => "delete" \in rewritten

(* The size cap, which the URL cannot enforce: an object over it is        *)
(* referenced as ready only if it replaced the one HeadObject had measured,*)
(* and the size on record is always within the cap.                        *)
CapUnlessPutAgain ==
  Status = "ready" =>
    row.size = "small" /\ (object = "big" => "stat" \in rewritten)

(* What a call still on its way knows; with the types it makes the three   *)
(* properties above inductive.                                             *)
CallsInFlight ==
  /\ row = None => \A c \in Calls : pc[c] \notin Open
  /\ \A c \in Calls :
       /\ pc[c] = "readying" =>
            /\ stat[c] = "small" /\ "stat" \in before
            /\ object = None => c \in overtaken
            /\ object = "big" => "stat" \in rewritten
       /\ pc[c] \in {"dropping", "failing"} => stat[c] = "big"
       /\ pc[c] \in {"failing", "marking"} =>
            "delete" \in before /\ (object # None => "delete" \in rewritten)
  /\ Status = "ready" => "stat" \in before
  /\ Status \in {"failed", "deleted"} => "delete" \in before

(* A removed upload stays removed: once it is deleted no further call sets *)
(* out to complete it, and when those that had found it before have ended, *)
(* nothing brings it back.                                                 *)
Completing == {c \in Calls : pc[c] \in {"stating", "readying", "dropping", "failing"}}
DeletedStays ==
  [][Status = "deleted" =>
       /\ Completing' \subseteq Completing
       /\ Completing = {} => Status' = "deleted"]_vars

MediaInv == /\ TypeOK /\ CallsInFlight /\ ReadyIsBacked
            /\ RemovedUnlessPutAgain /\ CapUnlessPutAgain
=============================================================================
