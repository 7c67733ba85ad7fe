----------------------------- MODULE MCJobStore -----------------------------
(* Small instances of JobStore. *)
EXTENDS JobStore

CONSTANTS j1, j2, c1, c2
=============================================================================
