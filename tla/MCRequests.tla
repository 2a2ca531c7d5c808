----------------------------- MODULE MCRequests ------------------------------
(***************************************************************************)
(* Requests for TLC.  Some requests must be answered here, so no symmetry  *)
(* is declared; but of three calls on addresses two are the same user's,   *)
(* and they are named c1 and c2, and their user u1.                        *)
(***************************************************************************)
EXTENDS Requests, TLC

CONSTANTS c1, c2, u1            \* calls and a user of Addresses

\* The second owner asks for the e-mail of the first, one customer shares the
\* e-mail and one the phone, and one owner forgets the restaurant.
MCForms == {[kind |-> "owner", email |-> "e1", phone |-> "p1"],
            [kind |-> "customer", email |-> "e1", phone |-> "p2"],
            [kind |-> "customer", email |-> "e2", phone |-> "p1"],
            [kind |-> "bare", email |-> "e2", phone |-> "p2"]}

MCKeys  == 1..3
MCAsked == {-2, -1, 0, 1, 2, 3, None}

\* The parts that a behaviour does not pick have one initial state.
MCInit ==
  /\ RequestsInit
  /\ \A c \in {c1, c2} : caller[c] = u1
  /\ part # "addresses" =>
       (\A i \in Ids : rows[i] = None) /\ \A c \in Calls : caller[c] = u1
  /\ part # "branch cache" => \A q \in Lookups : url[q] = "one"
  /\ part # "listing" => /\ \A r \in Restaurants : listed[r] = None
                         /\ asked = None /\ order = "asc"

MCSpec ==
  /\ MCInit
  /\ [][RequestsNext]_<<part, vars, branchCache, registration, listing>>
  /\ Fairness
=============================================================================
