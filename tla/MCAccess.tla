------------------------------ MODULE MCAccess ------------------------------
(***************************************************************************)
(* Small instances of VaultGrants and of RevealCache, the two ways a value *)
(* leaves the vault, which share no state: a behaviour is one of the part  *)
(* in focus, the other rests in its initial state.                         *)
(***************************************************************************)
EXTENDS VaultGrants, RevealCache, TLC

CONSTANTS w1, w2, w3, i1, q1, a1, a2, r1, r2

OwnProcess == [w \in Workers |-> w]
AutoPolicy == [i \in Items |-> "auto"]

\* The w are the workers of the one and the requests of the other.
Symmetry == Permutations(Workers)
            \cup Permutations(Actors) \cup Permutations(Refs)

VARIABLE focus

AccessInit == focus \in {"grants", "reveal"} /\ Init /\ RevealInit

AccessNext ==
    /\ UNCHANGED focus
    /\ \/ focus = "grants" /\ Next /\ UNCHANGED revealVars
       \/ focus = "reveal" /\ RevealNext /\ UNCHANGED vars

AccessSpec == AccessInit /\ [][AccessNext]_<<focus, vars, revealVars>>
=============================================================================
