----------------------------- MODULE Telemetry -----------------------------
(***************************************************************************)
(* Optional telemetry of the command line (telemetry/state.go,             *)
(* telemetry/transport.go, app/telemetry_command.go, app/app.go).          *)
(*                                                                         *)
(* The state file is read whole and written whole, with no lock and by     *)
(* emptying it first; several commands may be under way at once.  A ping   *)
(* or an erasure may be lost, or arrive and its answer be lost.  Counters  *)
(* are left out: they are sent and decide nothing.                         *)
(***************************************************************************)
EXTENDS Naturals, Sequences, FiniteSets

CONSTANTS
    Processes,     \* commands under way
    DaysPerYear,   \* days in a year of the install identity
    ErasureTTL,    \* days a hash is kept after its year
    NoStateFile,   \* there is no state file
    TornState,     \* the state file has been emptied and not written
    MaxDay,        \* bound: days
    MaxRuns,       \* bound: commands
    MaxLost        \* bound: posts and saves that fail

ASSUME TelemetryAssumption ==
    DaysPerYear \in Nat \ {0} /\ ErasureTTL \in Nat /\ NoStateFile # TornState

VARIABLES
    stateFile,   \* NoStateFile, TornState or a state
    process,     \* process -> where its command is
    rows,        \* the server's rows: hash and day
    today,       \* the day
    lastID,      \* install ids drawn so far
    withdrawn,   \* disable or forget was the last word, with nothing else under way
    forgotten,   \* the last word was a forget whose erasures were all requested
    disturbed,   \* commands overlapped, or a save or an erasure was not completed
    begun, lost

telemetryVars == <<stateFile, process, rows, today, lastID, withdrawn, forgotten, disturbed,
                   begun, lost>>

\* Mutant: a state that cannot be read counts as consent.
emptyState_Enabled ==
    [enabled |-> TRUE, id |-> 0, year |-> 0, lastPing |-> 0, erasures |-> <<>>]

emptyState == [enabled |-> FALSE, id |-> 0, year |-> 0, lastPing |-> 0, erasures |-> <<>>]

NoCommand == [at |-> "idle", command |-> "none", blocked |-> FALSE, state |-> emptyState,
              then |-> "idle", hashes |-> <<>>]

Year == 1 + today \div DaysPerYear

InstallHash(id, year) == <<id, year>>

\* Hashes past their time are dropped at every read and write.
normalizeState(s) ==
    [s EXCEPT !.erasures = SelectSeq(@, LAMBDA e : e.until >= today)]

\* A file that is missing or does not parse is a first start.
Load == IF stateFile \in {NoStateFile, TornState} THEN emptyState ELSE normalizeState(stateFile)

Current(s) == s.id # 0 /\ s.year = Year

\* A new identity each year; the hash of the old one is kept for erasure.
ensureInstallID(s) ==
    IF Current(s) THEN s
    ELSE [s EXCEPT !.id = lastID + 1, !.year = Year,
                   !.erasures = IF s.id = 0 THEN @
                                ELSE Append(@, [hash |-> InstallHash(s.id, s.year),
                                                until |-> today + ErasureTTL])]

Draws(s) == lastID' = IF Current(s) THEN lastID ELSE lastID + 1

\* On to the next part, or done; what was read is forgotten.
Proceeds(p, at) ==
    process' = [process EXCEPT ![p] = IF at = "idle" THEN NoCommand
                                      ELSE [@ EXCEPT !.at = at, !.state = emptyState]]
Saves(p, s, then) ==
    process' = [process EXCEPT ![p].at = "truncate", ![p].state = normalizeState(s),
                               ![p].then = then]

Alone(p) == \A q \in Processes \ {p} : process[q].at = "idle"

TelemetryInit ==
    /\ stateFile = NoStateFile /\ process = [p \in Processes |-> NoCommand]
    /\ rows = {} /\ today = 1 /\ lastID = 0
    /\ withdrawn = TRUE /\ forgotten = TRUE /\ disturbed = FALSE
    /\ begun = 0 /\ lost = 0

\* A command starts.  Any other than those of telemetry is recorded and pings
\* once it has succeeded; "unlisted" is one whose name is not counted.
\* HASP_TELEMETRY_DISABLED is read from the process's environment.
Begin(p, command, blocked) ==
    /\ process[p].at = "idle" /\ begun < MaxRuns
    /\ command = "enable" => ~blocked
    /\ process' = [process EXCEPT ![p] =
         [NoCommand EXCEPT !.at = IF command \in {"listed", "unlisted"} THEN "record" ELSE "run",
                           !.command = command, !.blocked = blocked]]
    /\ withdrawn' = (withdrawn /\ command # "enable")
    /\ forgotten' = (forgotten /\ command # "enable")
    /\ disturbed' = (disturbed \/ ~Alone(p))
    /\ begun' = begun + 1
    /\ UNCHANGED <<stateFile, rows, today, lastID, lost>>

DisabledByEnv(p) == process[p].blocked

\* A post is refused, or not answered in time.
PostFails == lost < MaxLost /\ lost' = lost + 1

Runs(p, command) == process[p].at = "run" /\ process[p].command = command

StoreEnable(s) == [ensureInstallID(s) EXCEPT !.enabled = TRUE]
StoreDisable(s) == [s EXCEPT !.enabled = FALSE]

Enable(p) ==
    /\ Runs(p, "enable")
    /\ Saves(p, StoreEnable(Load), "record") /\ Draws(Load)
    /\ UNCHANGED <<stateFile, rows, today, withdrawn, forgotten, disturbed, begun, lost>>

Disable(p) ==
    /\ Runs(p, "disable")
    /\ Saves(p, StoreDisable(Load), "record")
    /\ UNCHANGED <<stateFile, rows, today, lastID, withdrawn, forgotten, disturbed, begun, lost>>

Known(s) == (IF s.id = 0 THEN <<>> ELSE <<InstallHash(s.id, s.year)>>)
            \o [i \in DOMAIN s.erasures |-> s.erasures[i].hash]

\* Forget reads the hashes and then removes the file.
ForgetReads(p) ==
    /\ Runs(p, "forget")
    /\ process' = [process EXCEPT ![p].at = "remove", ![p].hashes = Known(Load)]
    /\ UNCHANGED <<stateFile, rows, today, lastID, withdrawn, forgotten, disturbed, begun, lost>>

AsksErasure(p) == process[p].hashes # <<>> /\ ~DisabledByEnv(p)

Forget(p) ==
    /\ process[p].at = "remove"
    /\ stateFile' = NoStateFile
    /\ withdrawn' = Alone(p)
    /\ forgotten' = (forgotten /\ Alone(p))
    /\ Proceeds(p, IF AsksErasure(p) THEN "erase" ELSE "record")
    /\ disturbed' = (disturbed \/ (process[p].hashes # <<>> /\ ~AsksErasure(p)))
    /\ UNCHANGED <<rows, today, lastID, begun, lost>>

\* One hash after the other; the first failure ends it and is only told.
SendErasures(p) ==
    /\ process[p].at = "erase"
    /\ LET h == Head(process[p].hashes)
           rest == Tail(process[p].hashes)
       IN \/ /\ rows' = {r \in rows : r.hash # h}
             /\ process' = [process EXCEPT ![p].hashes = rest,
                                           ![p].at = IF rest = <<>> THEN "record" ELSE @]
             /\ forgotten' = (rest = <<>> /\ Alone(p)) /\ UNCHANGED <<disturbed, lost>>
          \/ /\ PostFails
             /\ rows' \in {rows, {r \in rows : r.hash # h}}
             /\ Proceeds(p, "record") /\ disturbed' = TRUE /\ UNCHANGED forgotten
    /\ UNCHANGED <<stateFile, today, lastID, withdrawn, begun>>

\* The preview saves the identity it had to draw.
telemetryStatus(p) ==
    /\ Runs(p, "preview")
    /\ IF Load.enabled /\ ~DisabledByEnv(p) /\ ~Current(Load)
       THEN Saves(p, ensureInstallID(Load), "record") /\ Draws(Load)
       ELSE Proceeds(p, "record") /\ UNCHANGED lastID
    /\ UNCHANGED <<stateFile, rows, today, withdrawn, forgotten, disturbed, begun, lost>>

\* A command of telemetry itself does not ping.
AfterRecord(p) == IF process[p].command \in {"listed", "unlisted"} THEN "ping" ELSE "idle"

RecordRootCommand(p) ==
    /\ process[p].at = "record"
    /\ IF DisabledByEnv(p) \/ ~Load.enabled \/ process[p].command = "unlisted"
       THEN Proceeds(p, AfterRecord(p)) /\ UNCHANGED lastID
       ELSE Saves(p, ensureInstallID(Load), AfterRecord(p)) /\ Draws(Load)
    /\ UNCHANGED <<stateFile, rows, today, withdrawn, forgotten, disturbed, begun, lost>>

\* At most one ping a day.
PingDue(p) == ~DisabledByEnv(p) /\ Load.enabled /\ Load.lastPing # today

BuildPayload(p) ==
    /\ process[p].at = "ping"
    /\ IF PingDue(p)
       THEN /\ process' = [process EXCEPT ![p].at = "post", ![p].state = ensureInstallID(Load)]
            /\ Draws(Load)
       ELSE Proceeds(p, "idle") /\ UNCHANGED lastID
    /\ UNCHANGED <<stateFile, rows, today, withdrawn, forgotten, disturbed, begun, lost>>

\* Without an answer in time the identity the ping carried is not saved.
TrySendPing(p) ==
    /\ process[p].at = "post"
    /\ LET s == process[p].state
           arrived == rows \cup {[hash |-> InstallHash(s.id, s.year), day |-> today]}
       IN \/ /\ rows' = arrived
             /\ Saves(p, [s EXCEPT !.lastPing = today], "idle") /\ UNCHANGED lost
          \/ /\ PostFails
             /\ rows' \in {rows, arrived} /\ Proceeds(p, "idle")
    /\ UNCHANGED <<stateFile, today, lastID, withdrawn, forgotten, disturbed, begun>>

\* os.WriteFile: the file is emptied, then written.
TruncateState(p) ==
    /\ process[p].at = "truncate"
    /\ stateFile' = TornState /\ process' = [process EXCEPT ![p].at = "write"]
    /\ UNCHANGED <<rows, today, lastID, withdrawn, forgotten, disturbed, begun, lost>>

WriteState(p) ==
    /\ process[p].at = "write"
    /\ stateFile' = process[p].state
    /\ Proceeds(p, process[p].then)
    /\ withdrawn' = IF process[p].command = "disable" /\ ~process[p].state.enabled
                    THEN Alone(p) ELSE withdrawn
    /\ UNCHANGED <<rows, today, lastID, forgotten, disturbed, begun, lost>>

\* A save fails: enable and disable fail with it, the others do not care.
SaveFails(p) ==
    /\ process[p].at \in {"truncate", "write"}
    /\ lost < MaxLost /\ lost' = lost + 1
    /\ Proceeds(p, IF process[p].command \in {"enable", "disable"} /\ process[p].then = "record"
               THEN "idle" ELSE process[p].then)
    /\ disturbed' = TRUE
    /\ UNCHANGED <<stateFile, rows, today, lastID, withdrawn, forgotten, begun>>

\* The process dies, or its command fails before it changed anything.
Dies(p) ==
    /\ process[p].at # "idle"
    /\ process' = [process EXCEPT ![p] = NoCommand]
    /\ disturbed' = (disturbed \/ process[p].at \in {"write", "erase"})
    /\ UNCHANGED <<stateFile, rows, today, lastID, withdrawn, forgotten, begun, lost>>

NextDay ==
    /\ today < MaxDay /\ today' = today + 1
    /\ disturbed' = (disturbed \/ \E p \in Processes : process[p].at # "idle")
    /\ UNCHANGED <<stateFile, process, rows, lastID, withdrawn, forgotten, begun, lost>>

TelemetryNext ==
    \/ \E p \in Processes :
          \/ \E command \in {"enable", "disable", "forget", "preview", "listed", "unlisted"},
                blocked \in BOOLEAN : Begin(p, command, blocked)
          \/ Enable(p) \/ Disable(p) \/ ForgetReads(p) \/ Forget(p) \/ SendErasures(p)
          \/ telemetryStatus(p) \/ RecordRootCommand(p) \/ BuildPayload(p) \/ TrySendPing(p)
          \/ TruncateState(p) \/ WriteState(p) \/ SaveFails(p) \/ Dies(p)
    \/ NextDay

TelemetrySpec == TelemetryInit /\ [][TelemetryNext]_telemetryVars

-----------------------------------------------------------------------------
(* Properties *)

\* Once consent is withdrawn, or before it was ever given, nothing is sent,
\* whatever was lost, torn or killed in between: a state that cannot be read
\* is one without consent (Load, RecordRootCommand, TrySendPing).  A command
\* that was under way when consent was withdrawn may still write the consent
\* it had read back.
QuietWhenWithdrawn == [][withdrawn => rows' \subseteq rows]_telemetryVars

\* After a forget whose requests were all answered the server holds nothing of
\* this machine, when commands ran one after the other and every save
\* succeeded (Forget, SendErasures; docs/telemetry.md).
ForgottenIsErased == forgotten /\ ~disturbed => rows = {}
=============================================================================
