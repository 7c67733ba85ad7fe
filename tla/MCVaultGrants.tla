--------------------------- MODULE MCVaultGrants ---------------------------
(* Small instances of VaultGrants. *)
EXTENDS VaultGrants, TLC

CONSTANTS w1, w2, w3, i1

OneProcess    == [w \in Workers |-> 1]
SessionPolicy == [i \in Items |-> "session"]
=============================================================================
