-------------------------- MODULE MCApprovalBroker --------------------------
(* One approval decided by two concurrent handlers. *)
EXTENDS ApprovalBroker, TLC

CONSTANTS t1, t2, t3, a1, d1, d2, c1

NoProcess == {}

Symmetry == Permutations(Tokens) \cup Permutations(Deciders)
=============================================================================
