---------------------------- MODULE MCServices ----------------------------
(***************************************************************************)
(* Small instances of the services of the daemon and of the MCP server,    *)
(* which share no state in the model: a behaviour is one of the service in *)
(* focus, the others rest in an initial state.                             *)
(***************************************************************************)
EXTENDS RequestAuth, JobOutput, VaultDoor, Backup, Redactor, Runner, AuditLog,
        AgentTools, TLC

CONSTANTS
    Focus,       \* the services this run is about
    h1, h2, n1, n2, u1, u2, u3, v1, v2, d1, c1, k1, k2, r1

\* Two secrets whose values overlap, and one too short to be redacted.
mcSecrets == <<[name |-> "s", value |-> <<"x", "y">>, confidential |-> TRUE],
               [name |-> "t", value |-> <<"y", "x">>, confidential |-> TRUE],
               [name |-> "k", value |-> <<"x">>, confidential |-> TRUE]>>
mcAlphabet == TRUE :> {"x", "y", "e", "["} @@ FALSE :> {"x", "y", "%"}
mcMaxInput == TRUE :> 6 @@ FALSE :> 7

\* Agent tools: one of each kind.
mcTools == "hasp_status" :> "open" @@ "hasp_job_status" :> "session"
           @@ "hasp_list" :> "lease" @@ "hasp_capture" :> "writes"

\* Processes of the backup, of the runner and of the master password checks are
\* alike; the daemon and the CLI process of the audit log are not.
Symmetry == Permutations({v1, v2})

VARIABLE focus

servicesVars == <<focus, vars, outputVars, doorVars, backupVars,
                  redactorVars, runnerVars, logVars, toolVars>>

Rest(s) ==
    /\ s # "auth" => Init
    /\ s # "output" => OutputInit
    /\ s # "door" => DoorInit /\ password = ""
    /\ s # "backup" => /\ BackupInit
                       /\ vaultFile = Gone
                       /\ shelf[u1] # NoBackup /\ shelf[u1].dek = "own"
                       /\ shelf[u1].log = <<>> /\ shelf[u1].sig = ""
    /\ s # "redactor" => RedactorInit /\ ansiAware
    /\ s # "runner" => RunnerInit
    /\ s # "audit" => LogInit
    /\ s # "tools" => /\ daemonSessions = <<>>
                      /\ inherited = [c \in Connections |-> Tokenless]
                      /\ ToolsInit

ServicesInit ==
    /\ focus \in Focus
    /\ CASE focus = "auth" -> Init
         [] focus = "output" -> OutputInit
         [] focus = "door" -> DoorInit
         [] focus = "backup" -> BackupInit
         [] focus = "redactor" -> RedactorInit
         [] focus = "runner" -> RunnerInit
         [] focus = "audit" -> LogInit
         [] focus = "tools" -> ToolsInit
    /\ Rest(focus)

ServicesNext ==
    /\ UNCHANGED focus
    /\ \/ /\ focus = "auth" /\ Next
          /\ UNCHANGED <<outputVars, doorVars, backupVars, redactorVars, runnerVars, logVars, toolVars>>
       \/ /\ focus = "output" /\ OutputNext
          /\ UNCHANGED <<vars, doorVars, backupVars, redactorVars, runnerVars, logVars, toolVars>>
       \/ /\ focus = "door" /\ DoorNext
          /\ UNCHANGED <<vars, outputVars, backupVars, redactorVars, runnerVars, logVars, toolVars>>
       \/ /\ focus = "backup" /\ BackupNext
          /\ UNCHANGED <<vars, outputVars, doorVars, redactorVars, runnerVars, logVars, toolVars>>
       \/ /\ focus = "redactor" /\ RedactorNext
          /\ UNCHANGED <<vars, outputVars, doorVars, backupVars, runnerVars, logVars, toolVars>>
       \/ /\ focus = "runner" /\ RunnerNext
          /\ UNCHANGED <<vars, outputVars, doorVars, backupVars, redactorVars, logVars, toolVars>>
       \/ /\ focus = "audit" /\ LogNext
          /\ UNCHANGED <<vars, outputVars, doorVars, backupVars, redactorVars, runnerVars, toolVars>>
       \/ /\ focus = "tools" /\ ToolsNext
          /\ UNCHANGED <<vars, outputVars, doorVars, backupVars, redactorVars, runnerVars, logVars>>

ServicesSpec == ServicesInit /\ [][ServicesNext]_servicesVars
=============================================================================
