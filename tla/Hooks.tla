------------------------------- MODULE Hooks -------------------------------
(***************************************************************************)
(* Installing HASP's Git hooks over the user's own (hooks/hooks.go), and   *)
(* the report on them (hooks/diagnostics.go).                              *)
(*                                                                         *)
(* A write of a file first empties it; the process may die between any two *)
(* steps, and the next installation finds what was left.  Between two      *)
(* installations the user writes hooks of its own, edits HASP's, and       *)
(* changes their modes.                                                    *)
(***************************************************************************)
EXTENDS Naturals, Sequences

CONSTANTS
    OwnScripts,    \* hooks users write
    HooksPaths,    \* values of core.hooksPath, "" when it is empty
    PathLeads,     \* value -> where it really leads: "project", "common", "outside"
    MaxInstalls,   \* bound: installations
    MaxUserEdits   \* bound: changes by users between them

HookNames == <<"pre-commit", "pre-push">>
HookSet == {HookNames[1], HookNames[2]}

\* "hasp" is the script this version writes; "older" has the marker and is
\* not that script; "" is a file that was emptied and not yet written.
Managed(s) == s \in {"hasp", "older"}

ASSUME HooksAssumption ==
    /\ OwnScripts \cap {"none", "", "hasp", "older"} = {}
    /\ HooksPaths \ {"", "/dev/null"} \subseteq DOMAIN PathLeads

Nothing == [script |-> "none", exec |-> FALSE, link |-> FALSE]

VARIABLES
    hooksPath,    \* core.hooksPath, "unset" when it is not set
    dir,          \* the directory Git reads hooks from
    hookFile,     \* hook -> file
    savedFile,    \* hook -> the file <hook>.pre-hasp
    replaced,     \* hook -> scripts in <hook>.hasp-replaced-*
    installer,    \* the installation under way
    lastInstall,  \* how the last one ended
    ownWritten,   \* hook -> scripts the user had there
    installs, userEdits

hookVars == <<hooksPath, dir, hookFile, savedFile, replaced, installer, lastInstall,
              ownWritten, installs, userEdits>>

NotInstalling == [at |-> "idle", hook |-> 1, existing |-> Nothing]

\* An empty path or /dev/null switches hooks off; a path that leads out of the
\* project and of the common directory is not HASP's to write to.
resolveCustomHooksDir(p) ==
    IF p \in {"", "/dev/null"} \/ PathLeads[p] = "outside" THEN "refused" ELSE PathLeads[p]

ResolveInstallPlan == IF hooksPath = "unset" THEN "common" ELSE resolveCustomHooksDir(hooksPath)

\* Where Git looks, which is wherever the path leads.
HooksInit ==
    /\ hooksPath \in HooksPaths \cup {"unset"}
    /\ dir = IF hooksPath = "unset" THEN "common" ELSE IF hooksPath \in DOMAIN PathLeads
             THEN PathLeads[hooksPath] ELSE "nowhere"
    /\ hookFile \in [HookSet -> {Nothing}
                      \cup [script : OwnScripts, exec : BOOLEAN, link : {FALSE}]
                      \cup [script : {"older"}, exec : {TRUE}, link : {FALSE}]
                      \cup [script : OwnScripts, exec : {TRUE}, link : {TRUE}]]
    /\ hookFile["pre-push"] \in {Nothing, hookFile["pre-commit"]}
    /\ savedFile = [h \in HookSet |-> Nothing]
    /\ replaced = [h \in HookSet |-> {}]
    /\ installer = NotInstalling /\ lastInstall = "none"
    /\ ownWritten = [h \in HookSet |-> {hookFile[h].script} \cap OwnScripts]
    /\ installs = 0 /\ userEdits = 0

Hook == HookNames[installer.hook]

InstallAt(at) == installer' = [installer EXCEPT !.at = at]

FilesSame == UNCHANGED <<hookFile, savedFile, replaced>>
OtherSame == UNCHANGED <<hooksPath, dir, ownWritten, installs, userEdits>>

InstallFails == /\ installer' = NotInstalling /\ lastInstall' = "failed"
                /\ FilesSame /\ OtherSame

Install ==
    /\ installer.at = "idle" /\ installs < MaxInstalls
    /\ installs' = installs + 1
    /\ IF ResolveInstallPlan = "refused"
       THEN lastInstall' = "failed" /\ UNCHANGED installer
       ELSE lastInstall' = "none" /\ InstallAt("inspect")
    /\ FilesSame /\ UNCHANGED <<hooksPath, dir, ownWritten, userEdits>>

\* Mutant: a hook that Git does not run is not kept.
ToKeep_Executable(f) == f.exec /\ ~Managed(f.script)

ToKeep(f) == f.script # "none" /\ ~Managed(f.script)

\* refuseSymlink and the read: a hook without the marker is the user's.
installHook ==
    /\ installer.at = "inspect"
    /\ IF hookFile[Hook].link
       THEN InstallFails
       ELSE /\ installer' = [installer EXCEPT !.existing = hookFile[Hook],
                !.at = IF ToKeep(hookFile[Hook]) THEN "saved" ELSE "script"]
            /\ FilesSame /\ OtherSame /\ UNCHANGED lastInstall

\* What is about to be overwritten goes to a file of its own.
saveReplacedHook(h, script) == replaced' = [replaced EXCEPT ![h] = @ \cup {script}]

\* The saved hook is kept if it is the same; another one is put aside first.
SaveExisting ==
    /\ installer.at = "saved"
    /\ LET previous == savedFile[Hook]
       IN  IF previous.link
           THEN InstallFails
           ELSE /\ InstallAt(IF previous.script = installer.existing.script
                             THEN "script" ELSE "empty saved")
                /\ IF previous.script \in {"none", installer.existing.script}
                   THEN UNCHANGED replaced
                   ELSE saveReplacedHook(Hook, previous.script)
                /\ UNCHANGED <<hookFile, savedFile, lastInstall>> /\ OtherSame

\* os.WriteFile keeps the mode of a file that is there; Chmod sets it after.
EmptySaved ==
    /\ installer.at = "empty saved" /\ InstallAt("write saved")
    /\ savedFile' = [savedFile EXCEPT ![Hook] = [script |-> "", link |-> FALSE,
          exec |-> IF @.script = "none" THEN installer.existing.exec ELSE @.exec]]
    /\ UNCHANGED <<hookFile, replaced, lastInstall>> /\ OtherSame

WriteSaved ==
    /\ installer.at = "write saved" /\ InstallAt("chmod saved")
    /\ savedFile' = [savedFile EXCEPT ![Hook].script = installer.existing.script]
    /\ UNCHANGED <<hookFile, replaced, lastInstall>> /\ OtherSame

ChmodSaved ==
    /\ installer.at = "chmod saved" /\ InstallAt("script")
    /\ savedFile' = [savedFile EXCEPT ![Hook].exec = installer.existing.exec]
    /\ UNCHANGED <<hookFile, replaced, lastInstall>> /\ OtherSame

\* A hook that is this version's script only has its mode repaired; one that
\* was HASP's and differs is put aside.
CompareScript ==
    /\ installer.at = "script"
    /\ InstallAt(IF installer.existing.script = "hasp" THEN "chmod" ELSE "empty")
    /\ IF installer.existing.script = "older"
       THEN saveReplacedHook(Hook, "older")
       ELSE UNCHANGED replaced
    /\ UNCHANGED <<hookFile, savedFile, lastInstall>> /\ OtherSame

EmptyHook ==
    /\ installer.at = "empty" /\ InstallAt("write")
    /\ hookFile' = [hookFile EXCEPT ![Hook] = [script |-> "", link |-> FALSE,
          exec |-> @.script = "none" \/ @.exec]]
    /\ UNCHANGED <<savedFile, replaced, lastInstall>> /\ OtherSame

WriteHook ==
    /\ installer.at = "write" /\ InstallAt("chmod")
    /\ hookFile' = [hookFile EXCEPT ![Hook].script = "hasp"]
    /\ UNCHANGED <<savedFile, replaced, lastInstall>> /\ OtherSame

\* The hook is made executable; the other one follows.
ChmodHook ==
    /\ installer.at = "chmod"
    /\ hookFile' = [hookFile EXCEPT ![Hook].exec = TRUE]
    /\ IF installer.hook = 1
       THEN /\ installer' = [NotInstalling EXCEPT !.at = "inspect", !.hook = 2]
            /\ UNCHANGED lastInstall
       ELSE installer' = NotInstalling /\ lastInstall' = "done"
    /\ UNCHANGED <<savedFile, replaced>> /\ OtherSame

\* A call fails, or the process dies: what was done stays.
StepFails == installer.at # "idle" /\ InstallFails

\* A user replaces a hook by one of its own, edits HASP's or changes a mode.
UserEdits(h, to) ==
    /\ installer.at = "idle" /\ userEdits < MaxUserEdits /\ userEdits' = userEdits + 1
    /\ to # hookFile[h] /\ hookFile' = [hookFile EXCEPT ![h] = to]
    /\ ownWritten' = [ownWritten EXCEPT ![h] =
          (@ \ {hookFile[h].script}) \cup ({to.script} \cap OwnScripts)
          \cup (@ \cap ({savedFile[h].script} \cup replaced[h]))]
    /\ lastInstall' = "none"
    /\ UNCHANGED <<hooksPath, dir, savedFile, replaced, installer, installs>>

UserFiles(h) ==
    [script : OwnScripts, exec : BOOLEAN, link : {FALSE}]
    \cup (IF hookFile[h].script = "hasp"
          THEN {[hookFile[h] EXCEPT !.script = "older"], [hookFile[h] EXCEPT !.exec = ~@]} ELSE {})

HooksNext ==
    \/ Install \/ installHook \/ SaveExisting \/ EmptySaved \/ WriteSaved \/ ChmodSaved
    \/ CompareScript \/ EmptyHook \/ WriteHook \/ ChmodHook \/ StepFails
    \/ \E h \in HookSet : \E to \in UserFiles(h) : UserEdits(h, to)

HooksSpec == HooksInit /\ [][HooksNext]_hookVars

-----------------------------------------------------------------------------
(* The report *)

inspectHook(h) ==
    LET f == hookFile[h]
    IN  IF f.script = "none" THEN "missing"
        ELSE IF f.link \/ ~Managed(f.script) THEN "custom_unverified"
        ELSE CASE ~f.exec -> "not_executable"
               [] f.exec /\ f.script = "older" -> "outdated"
               [] OTHER -> "ready"

Inspect ==
    IF ResolveInstallPlan = "refused" THEN "disabled or unsafe"
    ELSE IF \A h \in HookSet : inspectHook(h) = "ready" THEN "ready"
    ELSE "repair"

-----------------------------------------------------------------------------
\* No installation loses a hook: whatever step it dies at, and however often
\* it is repeated, a script a user had as a hook is the hook, the saved hook or
\* one of the files put aside, unless the user itself removed it.  And one that
\* ended well left both gates in force, in the directory Git reads: the report
\* says ready until a user changes something.
UserHooksKept ==
    /\ \A h \in HookSet : \A s \in ownWritten[h] :
        s \in {hookFile[h].script, savedFile[h].script} \cup replaced[h]
    /\ lastInstall = "done" => Inspect = "ready" /\ dir = ResolveInstallPlan
=============================================================================
