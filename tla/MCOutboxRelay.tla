---------------------------- MODULE MCOutboxRelay ----------------------------
(* Instances of OutboxRelay for TLC. *)
EXTENDS OutboxRelay, TLC
=============================================================================
