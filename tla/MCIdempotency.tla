---------------------------- MODULE MCIdempotency ----------------------------
(* Instances of Idempotency for TLC. *)
EXTENDS Idempotency, TLC

Symmetric == Permutations(Calls) \cup Permutations(Keys) \cup Permutations(Instances)
=============================================================================
