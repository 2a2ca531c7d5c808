----------------------------- MODULE MCMembership -----------------------------
(* Instances of Membership for TLC. *)
EXTENDS Membership, TLC

Symmetric ==
  Permutations(Requests) \cup Permutations(Branches) \cup Permutations(Passwords)
=============================================================================
