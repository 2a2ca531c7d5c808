----------------------------- MODULE Idempotency -----------------------------
(***************************************************************************)
(* The strict idempotency middleware in front of reserve-stock and         *)
(* release-stock, on several API processes that share one Redis.  A key    *)
(* stands for one operation of the caller; every attempt at it is a call   *)
(* of its own.  The handler behind the middleware is abstracted to whether *)
(* its transaction took effect and what it answered.                       *)
(***************************************************************************)
EXTENDS Integers, FiniteSets

CONSTANTS Calls,        \* attempts
          Keys,         \* Idempotency-Key values
          Instances,    \* API processes
          MaxFaults,    \* bound: crashes and expiries
          Nothing       \* no cache entry

VARIABLES cache,        \* the Redis entry of each key
          storing,      \* SET commands sent and not yet executed
          pc, key, inst,
          answer,       \* the status and the body a call was answered with
          effects,      \* how often the operation of a key took effect
          causes,       \* how often something gave a key another chance to run
          faults

callVars == <<pc, key, inst, answer>>
vars == <<cache, storing, callVars, effects, causes, faults>>

\* An answer's body says whether the operation was done.
Bodies  == {"done", "error"}
Answers == [status : {200, 409, 500, 503}, body : Bodies]

Ran        == {"ran", "refused", "failed"}
Unfinished == {"lookup", "running"} \cup Ran
Ended      == {"answered", "cut"}

Init ==
  /\ cache = [k \in Keys |-> Nothing]
  /\ storing = {}
  /\ pc = [c \in Calls |-> "idle"]
  /\ key \in [Calls -> Keys]
  /\ inst \in [Calls -> Instances]
  /\ answer = [c \in Calls |-> Nothing]
  /\ effects = [k \in Keys |-> 0]
  /\ causes = [k \in Keys |-> 0]
  /\ faults = 0

\* One more chance for every key of K.
Charge(K) == causes' = [k \in Keys |-> causes[k] + (IF k \in K THEN 1 ELSE 0)]

(* The caller sends an attempt, possibly while an earlier one is still     *)
(* unanswered (it timed out, or two of its workers took the same order).   *)
Send(c) ==
  /\ pc[c] = "idle"
  /\ pc' = [pc EXCEPT ![c] = "lookup"]
  /\ Charge(IF \E d \in Calls : key[d] = key[c] /\ pc[d] \in Unfinished
            THEN {key[c]} ELSE {})
  /\ UNCHANGED <<cache, storing, key, inst, answer, effects, faults>>

(* GET.  The commands of one process reach Redis in the order they were    *)
(* sent, so its own SETs come first; those of the others may be overtaken. *)
(* A hit is answered with the stored body and status 200.                  *)
Lookup(c) ==
  LET k == key[c]
  IN  /\ pc[c] = "lookup"
      /\ \A s \in storing : s.key = k => s.inst # inst[c]
      /\ IF cache[k] # Nothing
         THEN /\ pc' = [pc EXCEPT ![c] = "answered"]
              /\ answer' = [answer EXCEPT ![c] = [status |-> 200, body |-> cache[k]]]
              /\ UNCHANGED causes
         ELSE /\ pc' = [pc EXCEPT ![c] = "running"]
              /\ Charge(IF \E s \in storing : s.key = k THEN {k} ELSE {})
              /\ UNCHANGED answer
      /\ UNCHANGED <<cache, storing, key, inst, effects, faults>>

(* Redis does not answer the GET: strict mode refuses.                     *)
LookupFails(c) ==
  /\ pc[c] = "lookup"
  /\ pc' = [pc EXCEPT ![c] = "answered"]
  /\ answer' = [answer EXCEPT ![c] = [status |-> 503, body |-> "error"]]
  /\ UNCHANGED <<cache, storing, key, inst, effects, causes, faults>>

(* The handler's transaction commits; or it is refused; or it commits and  *)
(* the acknowledgement is lost, so that the service throws.                *)
Handle(c) ==
  /\ pc[c] = "running"
  /\ \E effect \in BOOLEAN, end \in Ran :
       /\ end = "ran" => effect
       /\ end = "refused" => ~ effect
       /\ effects' = [effects EXCEPT ![key[c]] = @ + (IF effect THEN 1 ELSE 0)]
       /\ pc' = [pc EXCEPT ![c] = end]
  /\ UNCHANGED <<cache, storing, key, inst, answer, causes, faults>>

\* Mutant: the wrapper of res.json forgets the SET.
RespondOnly(c) ==
  /\ pc[c] \in Ran
  /\ pc' = [pc EXCEPT ![c] = "answered"]
  /\ answer' = [answer EXCEPT ![c] = [status |-> 200, body |-> "done"]]
  /\ UNCHANGED <<cache, storing, key, inst, effects, causes, faults>>

(* The wrapped res.json sends the SET, whatever the status, does not wait  *)
(* for it, and answers.                                                    *)
Respond(c) ==
  /\ pc[c] \in Ran
  /\ LET body   == IF pc[c] = "ran" THEN "done" ELSE "error"
         status == [ran |-> 200, refused |-> 409, failed |-> 500]
     IN  /\ storing' = storing \cup
                         {[key |-> key[c], inst |-> inst[c], body |-> body]}
         /\ answer' = [answer EXCEPT ![c] =
                         [status |-> status[pc[c]], body |-> body]]
  /\ pc' = [pc EXCEPT ![c] = "answered"]
  /\ UNCHANGED <<cache, key, inst, effects, causes, faults>>

(* Redis executes a SET; the last one wins.                                *)
Store(s) ==
  /\ s \in storing
  /\ storing' = storing \ {s}
  /\ cache' = [cache EXCEPT ![s.key] = s.body]
  /\ UNCHANGED <<callVars, effects, causes, faults>>

(* The one-day TTL runs out.                                               *)
Expire(k) ==
  /\ cache[k] # Nothing /\ faults < MaxFaults
  /\ cache' = [cache EXCEPT ![k] = Nothing]
  /\ Charge({k})
  /\ faults' = faults + 1
  /\ UNCHANGED <<storing, callVars, effects>>

(* An API process dies, for instance of the unhandled rejection of a SET   *)
(* that failed.  Its calls are cut off and its SETs lost; transactions it  *)
(* had committed stay committed.                                           *)
Crash(i) ==
  LET cutOff == {c \in Calls : inst[c] = i /\ pc[c] \in Unfinished}
      lost   == {s \in storing : s.inst = i}
  IN  /\ faults < MaxFaults /\ cutOff \cup lost # {}
      /\ faults' = faults + 1
      /\ pc' = [c \in Calls |-> IF c \in cutOff THEN "cut" ELSE pc[c]]
      /\ storing' = storing \ lost
      /\ Charge({key[c] : c \in cutOff} \cup {s.key : s \in lost})
      /\ UNCHANGED <<cache, key, inst, answer, effects>>

Next ==
  \/ \E c \in Calls : Send(c) \/ Lookup(c) \/ LookupFails(c) \/ Handle(c) \/ Respond(c)
  \/ \E s \in storing : Store(s)
  \/ \E k \in Keys : Expire(k)
  \/ \E i \in Instances : Crash(i)

Spec == Init /\ [][Next]_vars
-----------------------------------------------------------------------------
(* Types of the variables. *)
TypeOK ==
  /\ cache \in [Keys -> Bodies \cup {Nothing}]
  /\ storing \in SUBSET [key : Keys, inst : Instances, body : Bodies]
  /\ pc \in [Calls -> {"idle"} \cup Unfinished \cup Ended]
  /\ key \in [Calls -> Keys]
  /\ inst \in [Calls -> Instances]
  /\ answer \in [Calls -> Answers \cup {Nothing}]
  /\ effects \in [Keys -> Nat]
  /\ causes \in [Keys -> Nat]
  /\ faults \in Nat

(* An operation takes effect again only when an attempt overlapped another, *)
(* overtook the SET of another process, or followed a crash or an expiry:   *)
(* a caller that retries after its answer, on one process that stays up,    *)
(* runs its operation at most once per key.                                 *)
RepeatsHaveACause ==
  \A k \in Keys : effects[k] <= 1 + causes[k]

Looking(k) == {c \in Calls : key[c] = k /\ pc[c] = "lookup"}
Pending(k) == {c \in Calls : key[c] = k /\ pc[c] \in {"lookup", "running"}}

\* An answer of the key is stored, or about to be.
Known(k) == cache[k] # Nothing \/ \E s \in storing : s.key = k

\* How often the operation may still take effect if nothing more goes wrong.
\* As long as an answer is known, the first attempt that looks is no chance
\* (it is answered); the others were charged for when they were sent.
Chances(k) ==
  IF Known(k) THEN Cardinality(Pending(k)) - (IF Looking(k) = {} THEN 0 ELSE 1)
  ELSE IF \E c \in Calls : key[c] = k /\ pc[c] \in Unfinished
       THEN Cardinality(Pending(k)) ELSE 1

(* The inductive invariant behind it: chances are paid for before they are *)
(* taken.                                                                  *)
IdempotencyInv == TypeOK /\ \A k \in Keys : effects[k] + Chances(k) <= 1 + causes[k]

(* "Stock decremented exactly once, not twice": a repeated key never runs   *)
(* the operation again.                                                     *)
RepeatedKeyRunsOnce == \A k \in Keys : effects[k] <= 1

(* A caller that is told 200 has had its operation done, at least when no  *)
(* attempt failed and each was sent after the answer to the one before: a  *)
(* replay answers what the first attempt was answered.                     *)
SuccessMeansDone ==
  (\A c \in Calls : answer[c] # Nothing => answer[c].status # 500) =>
    \A c \in Calls :
      pc[c] = "answered" /\ answer[c].status = 200 /\ causes[key[c]] = 0
        => effects[key[c]] >= 1
=============================================================================
