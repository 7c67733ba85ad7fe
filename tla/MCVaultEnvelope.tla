-------------------------- MODULE MCVaultEnvelope --------------------------
(* Two goroutines of the daemon and one CLI process over one vault file. *)
EXTENDS VaultEnvelope, TLC

CONSTANTS d1, d2, c1, daemon, cli, p1, p2

Home == (d1 :> daemon) @@ (d2 :> daemon) @@ (c1 :> cli)
Daemons == Permutations({d1, d2})
=============================================================================
