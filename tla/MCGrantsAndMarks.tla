-------------------------- MODULE MCGrantsAndMarks --------------------------
(***************************************************************************)
(* Small instances of VaultGrants with once grants and of AuditMarks, which *)
(* share no state: a behaviour is one of the part in focus, the other rests *)
(* in its initial state.                                                   *)
(***************************************************************************)
EXTENDS MCVaultGrants, AuditMarks

VARIABLE focus

FocusInit == /\ focus \in {"grants", "marks"} /\ Init /\ MarksInit
             /\ focus = "grants" => logger

FocusNext ==
    /\ UNCHANGED focus
    /\ \/ focus = "grants" /\ OnceNext /\ UNCHANGED marksVars
       \/ focus = "marks" /\ MarksNext /\ UNCHANGED vars

OnceFairness == \A w \in Workers : SF_vars(OnceStep(w))

FocusSpec == /\ FocusInit /\ [][FocusNext]_<<focus, vars, marksVars>>
             /\ \/ focus = "grants" /\ OnceFairness
                \/ focus = "marks" /\ MarksFairness
=============================================================================
