----------------------------- MODULE MCServices ------------------------------
(* Services for TLC, on two products, and two branches of two restaurants. *)
EXTENDS Services, TLC

CONSTANTS p1, b1, b2, k1, i1

MCHome == (b1 :> "r1") @@ (b2 :> "r2")

\* The parts that a behaviour does not pick have one initial state.
MCInit ==
  /\ ServicesInit
  /\ part # "idempotency" => \A c \in Calls : key[c] = k1 /\ inst[c] = i1

MCSpec == MCInit /\ [][ServicesNext]_<<part, vars, sessions, catalog, idempotency>>

Symmetric == Permutations(Calls)
=============================================================================
