---------------------------- MODULE Media_proofs -----------------------------
(***************************************************************************)
(* What the media rows say about the bucket, for any number of calls and   *)
(* of break-offs.                                                          *)
(***************************************************************************)
EXTENDS Media, TLAPS

(* None is no row, and a row whose status is written is still a row.       *)
LEMMA RowNotNone == None \notin Rows
<1>1. Rows = [restaurant : {"restaurant", None},
              status : {"pending", "ready", "failed", "deleted"},
              size : {"small", "big", None}]
  <2>1. Sizes \cup {None} = {"small", "big", None}
    BY DEF Sizes
  <2> QED
    BY <2>1 DEF Rows, Statuses
<1> QED
  BY <1>1, MediaAssumption

LEMMA Written ==
  ASSUME NEW r \in Rows, NEW s \in Statuses
  PROVE  /\ [r EXCEPT !.status = s] \in Rows
         /\ [r EXCEPT !.status = s].status = s
  BY DEF Rows

LEMMA Measured ==
  ASSUME NEW r \in Rows, NEW s \in Statuses, NEW n \in Sizes \cup {None},
         NEW new, new = [r EXCEPT !.status = s, !.size = n]
  PROVE  new \in Rows /\ new.status = s /\ new.size = n
  BY DEF Rows

LEMMA MediaInvInit == Init => MediaInv
<1> SUFFICES ASSUME Init PROVE MediaInv
  OBVIOUS
<1>1. TypeOK
  BY DEF Init, TypeOK, Sizes
<1>2. Status = "none"
  BY DEF Init, Status
<1>3. CallsInFlight
  BY <1>2 DEF Init, CallsInFlight, Open
<1> QED
  BY <1>1, <1>2, <1>3 DEF MediaInv, ReadyIsBacked, RemovedUnlessPutAgain,
     CapUnlessPutAgain

(* Calls that are turned away, or that find a row, move on and change      *)
(* nothing else.                                                           *)
LEMMA MoveKeepsInv ==
  ASSUME MediaInv, NEW c \in Calls, TurnedAway(c) \/ Complete(c) \/ Remove(c)
  PROVE  MediaInv'
<1>1. /\ UNCHANGED <<tables, stat, history, faults>>
      /\ pc[c] = "idle"
      /\ \/ pc' = [pc EXCEPT ![c] = "refused"]
         \/ row # None /\ \E to \in {"done", "stating", "deleting"} :
                            pc' = [pc EXCEPT ![c] = to]
  BY DEF TurnedAway, Complete, Remove, Found, Move
<1>2. TypeOK'
  BY <1>1 DEF MediaInv, TypeOK, Open, tables, history
<1>3. \A d \in Calls :
        /\ pc'[d] \in {"signing", "dropping", "failing", "readying", "marking"}
             => pc'[d] = pc[d]
        /\ pc[d] \in {"signing", "dropping", "failing", "readying", "marking"}
             => pc'[d] = pc[d]
        /\ row = None => pc'[d] \notin Open
  BY <1>1 DEF MediaInv, TypeOK, CallsInFlight, Open
<1>4. Status' = Status
  BY <1>1 DEF Status, tables
<1>5. CallsInFlight'
  BY <1>1, <1>3, <1>4 DEF MediaInv, CallsInFlight, tables, history
<1>6. ReadyIsBacked'
  BY <1>1, <1>3, <1>4 DEF MediaInv, ReadyIsBacked, tables, history
<1> QED
  BY <1>1, <1>2, <1>4, <1>5, <1>6 DEF MediaInv, RemovedUnlessPutAgain,
     CapUnlessPutAgain, tables, history

(* createUpload: there was no row, so no call can be in flight.            *)
LEMMA CreateKeepsInv ==
  ASSUME MediaInv, NEW c \in Calls, Reserve(c) \/ GetUploadUrl(c)
  PROVE  MediaInv'
<1>1. CASE Reserve(c)
  <2>1. /\ row = None /\ row' \in Rows /\ row'.status = "pending"
        /\ pc' = [pc EXCEPT ![c] = "signing"]
        /\ UNCHANGED <<object, url, arriving, stat, history, faults>>
    <3>1. PICK who \in Callers : \E owner \in OwningRestaurant(who) :
            row' = [restaurant |-> owner, status |-> "pending", size |-> None]
      BY <1>1 DEF Reserve
    <3>2. PICK owner \in OwningRestaurant(who) :
            row' = [restaurant |-> owner, status |-> "pending", size |-> None]
      BY <3>1
    <3>3. owner \in {"restaurant", None}
      BY DEF OwningRestaurant
    <3> QED
      BY <1>1, <3>2, <3>3 DEF Reserve, Move, Rows, Statuses
  <2>2. row' # None /\ Status' = "pending"
    BY <2>1, RowNotNone DEF Status
  <2>3. TypeOK'
    BY <2>1 DEF MediaInv, TypeOK, Open, history
  <2>4. \A d \in Calls : pc'[d] \in Open => pc'[d] = "signing"
    BY <2>1 DEF MediaInv, TypeOK, CallsInFlight
  <2>5. CallsInFlight'
    BY <2>2, <2>4 DEF CallsInFlight, Open
  <2> QED
    BY <2>2, <2>3, <2>5 DEF MediaInv, ReadyIsBacked, RemovedUnlessPutAgain,
       CapUnlessPutAgain
<1>2. CASE GetUploadUrl(c)
  <2>1. /\ UNCHANGED <<row, object, arriving, stat, history, faults>>
        /\ url' = "valid" /\ pc[c] = "signing" /\ pc' = [pc EXCEPT ![c] = "done"]
    BY <1>2 DEF GetUploadUrl, Move
  <2>2. TypeOK'
    BY <2>1 DEF MediaInv, TypeOK, Open, history
  <2>3. \A d \in Calls :
          /\ pc'[d] \in Open => pc'[d] = pc[d]
          /\ pc[d] \in {"failing", "marking"} => pc'[d] = pc[d]
    BY <2>1 DEF MediaInv, TypeOK, Open
  <2>4. Status' = Status
    BY <2>1 DEF Status
  <2>5. CallsInFlight'
    BY <2>1, <2>3, <2>4 DEF MediaInv, CallsInFlight, Open, history
  <2>6. ReadyIsBacked'
    BY <2>1, <2>3, <2>4 DEF MediaInv, ReadyIsBacked, history
  <2> QED
    BY <2>1, <2>2, <2>4, <2>5, <2>6 DEF MediaInv, RemovedUnlessPutAgain,
       CapUnlessPutAgain, history
<1> QED
  BY <1>1, <1>2

(* A PUT that ends comes after all that S3 has been asked for.             *)
LEMMA ClientKeepsInv ==
  ASSUME MediaInv, Client
  PROVE  MediaInv'
<1>1. CASE LapseUrl \/ \E size \in Sizes : BeginPut(size)
  <2>1. /\ UNCHANGED <<row, object, pc, stat, history, faults>>
        /\ url' \in {"valid", "expired"} /\ arriving' \in SUBSET Sizes
    BY <1>1 DEF LapseUrl, BeginPut, MediaInv, TypeOK
  <2>2. Status' = Status
    BY <2>1 DEF Status
  <2> QED
    BY <2>1, <2>2 DEF MediaInv, TypeOK, CallsInFlight, ReadyIsBacked,
       RemovedUnlessPutAgain, CapUnlessPutAgain, history
<1>2. ASSUME NEW size \in Sizes, EndPut(size) PROVE MediaInv'
  <2>1. /\ UNCHANGED <<row, url, pc, stat, torn, overtaken, before, faults>>
        /\ object' = size /\ rewritten' = rewritten \cup before
        /\ arriving' = arriving \ {size}
    BY <1>2 DEF EndPut
  <2>2. TypeOK'
    BY <2>1 DEF MediaInv, TypeOK
  <2>3. Status' = Status
    BY <2>1 DEF Status
  <2>4. object' # None
    BY <2>1, MediaAssumption DEF Sizes
  <2>5. CallsInFlight'
    BY <2>1, <2>3, <2>4 DEF MediaInv, CallsInFlight
  <2> QED
    BY <2>1, <2>2, <2>3, <2>4, <2>5 DEF MediaInv, CallsInFlight, ReadyIsBacked,
       RemovedUnlessPutAgain, CapUnlessPutAgain
<1> QED
  BY <1>1, <1>2 DEF Client

(* HeadObject: only an object within the cap makes a call mark the row     *)
(* ready, and from then on S3 has been asked for its size.                 *)
LEMMA StatKeepsInv ==
  ASSUME MediaInv, NEW c \in Calls, StatObject(c)
  PROVE  MediaInv'
<1>1. /\ UNCHANGED <<tables, torn, overtaken, rewritten, faults>>
      /\ pc[c] = "stating"
      /\ pc' = [pc EXCEPT ![c] = IF object = None THEN "refused"
                                 ELSE IF object = "big" THEN "dropping" ELSE "readying"]
      /\ stat' = [stat EXCEPT ![c] = object]
      /\ before' = IF object = None THEN before ELSE before \cup {"stat"}
  BY DEF StatObject, Move
<1>2. TypeOK'
  BY <1>1 DEF MediaInv, TypeOK, Open, tables
<1>3. Status' = Status
  BY <1>1 DEF Status, tables
<1>4. row # None
  BY <1>1 DEF MediaInv, CallsInFlight, Open
<1>5. \A d \in Calls : d # c => pc'[d] = pc[d] /\ stat'[d] = stat[d]
  BY <1>1 DEF MediaInv, TypeOK
<1>6. /\ pc'[c] \in {"refused", "dropping", "readying"}
      /\ stat'[c] = object
      /\ pc'[c] = "dropping" => object = "big"
      /\ pc'[c] = "readying" => object = "small" /\ "stat" \in before'
  BY <1>1 DEF MediaInv, TypeOK, Sizes
<1>7. before \subseteq before'
  BY <1>1
<1>8. object' = object /\ row' = row /\ object = "small" => object # None
  BY <1>1, MediaAssumption DEF tables
<1>9. CallsInFlight'
  <2>1. ASSUME NEW d \in Calls, d # c
        PROVE  /\ pc'[d] = "readying" =>
                    /\ stat'[d] = "small" /\ "stat" \in before'
                    /\ object' = None => d \in overtaken'
                    /\ object' = "big" => "stat" \in rewritten'
               /\ pc'[d] \in {"dropping", "failing"} => stat'[d] = "big"
               /\ pc'[d] \in {"failing", "marking"} =>
                    "delete" \in before' /\ (object' # None => "delete" \in rewritten')
    BY <1>1, <1>5, <1>7, <2>1 DEF MediaInv, CallsInFlight, tables
  <2>2. /\ pc'[c] = "readying" =>
             /\ stat'[c] = "small" /\ "stat" \in before'
             /\ object' = None => c \in overtaken'
             /\ object' = "big" => "stat" \in rewritten'
        /\ pc'[c] \in {"dropping", "failing"} => stat'[c] = "big"
        /\ pc'[c] \notin {"failing", "marking"}
    BY <1>1, <1>6, MediaAssumption DEF tables
  <2>3. /\ Status' = "ready" => "stat" \in before'
        /\ Status' \in {"failed", "deleted"} => "delete" \in before'
    BY <1>3, <1>7 DEF MediaInv, CallsInFlight
  <2> QED
    BY <1>1, <1>4, <2>1, <2>2, <2>3 DEF CallsInFlight, tables
<1>10. ReadyIsBacked'
  BY <1>1, <1>3, <1>5, <1>6 DEF MediaInv, ReadyIsBacked, tables
<1> QED
  BY <1>1, <1>2, <1>3, <1>9, <1>10 DEF MediaInv, RemovedUnlessPutAgain,
     CapUnlessPutAgain, tables

(* DeleteObject leaves a call that will write the row, and overtakes the   *)
(* calls that have measured the object.                                    *)
LEMMA DeleteKeepsInv ==
  ASSUME MediaInv, NEW c \in Calls, DeleteObject(c)
  PROVE  MediaInv'
<1>1. /\ UNCHANGED <<row, url, arriving, stat, torn, rewritten, faults>>
      /\ pc[c] \in {"dropping", "deleting"}
      /\ pc' = [pc EXCEPT ![c] = IF pc[c] = "dropping" THEN "failing" ELSE "marking"]
      /\ object' = None
      /\ overtaken' = overtaken \cup {d \in Calls : pc[d] = "readying"}
      /\ before' = before \cup {"delete"}
  BY DEF DeleteObject
<1>2. TypeOK'
  BY <1>1 DEF MediaInv, TypeOK, Open
<1>3. Status' = Status
  BY <1>1 DEF Status
<1>4. row # None
  BY <1>1 DEF MediaInv, CallsInFlight, Open
<1>5. \A d \in Calls : d # c => pc'[d] = pc[d]
  BY <1>1 DEF MediaInv, TypeOK
<1>6. /\ pc'[c] \in {"failing", "marking"}
      /\ pc'[c] = "failing" => pc[c] = "dropping"
  BY <1>1 DEF MediaInv, TypeOK
<1>7. object' # "big"
  BY <1>1, MediaAssumption
<1>8. CallsInFlight'
  BY <1>1, <1>3, <1>4, <1>5, <1>6, <1>7 DEF MediaInv, CallsInFlight
<1>9. ReadyIsBacked'
  BY <1>6 DEF ReadyIsBacked
<1> QED
  BY <1>1, <1>2, <1>3, <1>7, <1>8, <1>9 DEF MediaInv, RemovedUnlessPutAgain,
     CapUnlessPutAgain

(* The three UPDATEs of the status.                                        *)
LEMMA MarkKeepsInv ==
  ASSUME MediaInv, NEW c \in Calls, MarkReady(c) \/ MarkFailed(c) \/ MarkDeleted(c)
  PROVE  MediaInv'
<1>1. /\ UNCHANGED <<object, url, arriving, stat, history, faults>>
      /\ pc[c] \in {"readying", "failing", "marking"}
      /\ \E to \in {"done", "refused"} : pc' = [pc EXCEPT ![c] = to]
  BY DEF MarkReady, MarkFailed, MarkDeleted, Move
<1>2. row \in Rows
  BY <1>1 DEF MediaInv, TypeOK, CallsInFlight, Open
<1>3. stat[c] \in Sizes \cup {None}
  BY DEF MediaInv, TypeOK
<1>4. /\ row' \in Rows /\ row'.status \in {"ready", "failed", "deleted"}
      /\ row'.status = "ready" => pc[c] = "readying" /\ row'.size = stat[c]
      /\ row'.status # "ready" => pc[c] \in {"failing", "marking"}
  <2>1. CASE MarkReady(c)
    <3>1. pc[c] = "readying" /\ row' = [row EXCEPT !.status = "ready", !.size = stat[c]]
      BY <2>1 DEF MarkReady, Move
    <3>2. row' \in Rows /\ row'.status = "ready" /\ row'.size = stat[c]
      BY <1>2, <1>3, <3>1 DEF Rows, Statuses
    <3> QED
      BY <3>1, <3>2
  <2>2. CASE MarkFailed(c)
    <3>1. pc[c] = "failing" /\ row' = [row EXCEPT !.status = "failed", !.size = stat[c]]
      BY <2>2 DEF MarkFailed, Move
    <3>2. row' \in Rows /\ row'.status = "failed"
      BY <1>2, <1>3, <3>1 DEF Rows, Statuses
    <3> QED
      BY <3>1, <3>2
  <2>3. CASE MarkDeleted(c)
    BY <1>2, <1>3, <2>3, Written DEF MarkDeleted, Move, Statuses
  <2> QED
    BY <2>1, <2>2, <2>3
<1>5. row' # None /\ Status' = row'.status
  BY <1>4, RowNotNone DEF Status
<1>6. TypeOK'
  BY <1>1, <1>4 DEF MediaInv, TypeOK, Open, history
<1>7. \A d \in Calls : pc'[d] \in Open => pc'[d] = pc[d]
  BY <1>1 DEF MediaInv, TypeOK, Open
<1>8. CallsInFlight'
  BY <1>1, <1>4, <1>5, <1>7 DEF MediaInv, CallsInFlight, Open, history
<1>9. ReadyIsBacked'
  BY <1>1, <1>4, <1>5 DEF MediaInv, CallsInFlight, ReadyIsBacked, history
<1>10. RemovedUnlessPutAgain' /\ CapUnlessPutAgain'
  BY <1>1, <1>4, <1>5 DEF MediaInv, CallsInFlight, RemovedUnlessPutAgain,
     CapUnlessPutAgain, history
<1> QED
  BY <1>6, <1>8, <1>9, <1>10 DEF MediaInv

LEMMA BreakOffKeepsInv ==
  ASSUME MediaInv, NEW c \in Calls, BreakOff(c)
  PROVE  MediaInv'
<1>1. /\ UNCHANGED <<tables, stat, overtaken, before, rewritten>>
      /\ pc' = [pc EXCEPT ![c] = "failed"]
      /\ torn' = IF pc[c] \in {"failing", "marking"} THEN torn \cup {c} ELSE torn
      /\ faults' = faults + 1
  BY DEF BreakOff
<1>2. TypeOK'
  BY <1>1 DEF MediaInv, TypeOK, tables
<1>3. Status' = Status
  BY <1>1 DEF Status, tables
<1>4. \A d \in Calls : pc'[d] = pc[d] \/ (pc'[d] = "failed" /\ d = c)
  BY <1>1 DEF MediaInv, TypeOK
<1>5. CallsInFlight'
  BY <1>1, <1>3, <1>4 DEF MediaInv, CallsInFlight, Open, tables
<1>6. ASSUME torn \cup overtaken \cup {d \in Calls : pc[d] \in {"failing", "marking"}} # {}
      PROVE  torn' \cup overtaken' \cup {d \in Calls : pc'[d] \in {"failing", "marking"}} # {}
  <2>1. CASE torn \cup overtaken # {}
    BY <1>1, <2>1
  <2>2. CASE \E d \in Calls : pc[d] \in {"failing", "marking"}
    <3>1. PICK d \in Calls : pc[d] \in {"failing", "marking"}
      BY <2>2
    <3>2. pc'[d] = pc[d] \/ d \in torn'
      BY <1>1, <1>4, <3>1
    <3> QED
      BY <3>1, <3>2
  <2> QED
    BY <1>6, <2>1, <2>2
<1>7. ReadyIsBacked'
  BY <1>1, <1>3, <1>6 DEF MediaInv, ReadyIsBacked, tables
<1> QED
  BY <1>1, <1>2, <1>3, <1>5, <1>7 DEF MediaInv, RemovedUnlessPutAgain,
     CapUnlessPutAgain, tables

LEMMA MediaInvStep == MediaInv /\ [Next]_vars => MediaInv'
<1> SUFFICES ASSUME MediaInv, [Next]_vars PROVE MediaInv'
  OBVIOUS
<1>1. ASSUME NEW c \in Calls, Handle(c) PROVE MediaInv'
  BY <1>1, MoveKeepsInv, CreateKeepsInv, StatKeepsInv, DeleteKeepsInv, MarkKeepsInv
     DEF Handle
<1>2. ASSUME NEW c \in Calls, BreakOff(c) PROVE MediaInv'
  BY <1>2, BreakOffKeepsInv
<1>3. CASE Client
  BY <1>3, ClientKeepsInv
<1>4. CASE UNCHANGED vars
  BY <1>4 DEF vars, tables, history, MediaInv, TypeOK, CallsInFlight, ReadyIsBacked,
     RemovedUnlessPutAgain, CapUnlessPutAgain, Status
<1> QED
  BY <1>1, <1>2, <1>3, <1>4 DEF Next

(* The inductive invariant: what a row says about its object, and what the *)
(* calls in flight know of both.                                           *)
THEOREM MediaInvariant == Spec => []MediaInv
  BY MediaInvInit, MediaInvStep, PTL DEF Spec

(* "Object confirmed present in the bucket": a ready row lacks its object  *)
(* only after a call broke off, or was overtaken, between the two.         *)
THEOREM ReadyMeansPresent == Spec => []ReadyIsBacked
<1>1. MediaInv => ReadyIsBacked
  BY DEF MediaInv
<1> QED
  BY <1>1, MediaInvariant, PTL

(* A removed upload is brought back by nothing but a call to complete that *)
(* had found it before it was removed.                                     *)
THEOREM DeletedForGood == Spec => DeletedStays
<1> DEFINE Stays == Status = "deleted" => /\ Completing' \subseteq Completing
                                          /\ Completing = {} => Status' = "deleted"
<1>1. MediaInv /\ Next /\ Status = "deleted" => Completing' \subseteq Completing
  <2> SUFFICES ASSUME MediaInv, Next, Status = "deleted",
                      NEW d \in Calls, pc'[d] \in {"stating", "readying", "dropping", "failing"}
               PROVE  pc[d] \in {"stating", "readying", "dropping", "failing"}
    BY DEF Completing
  <2>1. row.status = "deleted"
    BY DEF Status
  <2>2. ASSUME NEW c \in Calls, Complete(c) PROVE FALSE
    BY <2>1, <2>2 DEF Complete, Found
  <2>3. ASSUME NEW c \in Calls, StatObject(c) \/ DeleteObject(c)
        PROVE  pc[d] \in {"stating", "readying", "dropping", "failing"}
    BY <2>3 DEF StatObject, DeleteObject, Move, MediaInv, TypeOK
  <2>4. ASSUME NEW c \in Calls,
               NEW to \in {"refused", "signing", "done", "deleting", "failed"},
               pc' = [pc EXCEPT ![c] = to]
        PROVE  pc[d] \in {"stating", "readying", "dropping", "failing"}
    BY <2>4 DEF MediaInv, TypeOK
  <2>5. CASE Client
    BY <2>5 DEF Client, BeginPut, EndPut, LapseUrl
  <2> QED
    BY <2>2, <2>3, <2>4, <2>5 DEF Next, Handle, TurnedAway, Reserve, GetUploadUrl,
       MarkReady, MarkFailed, Remove, MarkDeleted, BreakOff, Move
<1>2. MediaInv /\ Next /\ Status = "deleted" /\ Completing = {} => Status' = "deleted"
  <2> SUFFICES ASSUME MediaInv, Next, Status = "deleted", Completing = {}
               PROVE  Status' = "deleted"
    OBVIOUS
  <2>1. row \in Rows /\ row.status = "deleted"
    BY DEF MediaInv, TypeOK, Status
  <2>2. ASSUME NEW c \in Calls, MarkReady(c) \/ MarkFailed(c) \/ Reserve(c)
        PROVE  FALSE
    BY <2>1, <2>2, RowNotNone DEF MarkReady, MarkFailed, Reserve, Move, Completing
  <2>3. ASSUME NEW c \in Calls, MarkDeleted(c) PROVE Status' = "deleted"
    <3>1. row' \in Rows /\ row'.status = "deleted"
      BY <2>1, <2>3, Written DEF MarkDeleted, Statuses
    <3> QED
      BY <3>1, RowNotNone DEF Status
  <2>4. CASE row' = row
    BY <2>4 DEF Status
  <2> QED
    BY <2>2, <2>3, <2>4 DEF Next, Handle, Client, TurnedAway, GetUploadUrl, Complete,
       StatObject, DeleteObject, Remove, BreakOff, BeginPut, EndPut, LapseUrl, tables
<1>3. MediaInv /\ [Next]_vars => [Stays]_vars
  BY <1>1, <1>2
<1> QED
  BY <1>3, MediaInvariant, PTL DEF Spec, DeletedStays
=============================================================================
