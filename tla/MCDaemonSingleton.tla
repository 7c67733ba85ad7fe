------------------------- MODULE MCDaemonSingleton -------------------------
(* Small instances of DaemonSingleton. *)
EXTENDS DaemonSingleton

CONSTANTS d1, d2, c1, c2, s1
=============================================================================
