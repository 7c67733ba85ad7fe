------------------------------- MODULE Agents -------------------------------
(***************************************************************************)
(* hasp agent connect, disconnect, launch, shell and mcp (app/agentops)    *)
(* with the wrappers and the client configurations of app/setup_agents.go: *)
(* the client's own configuration file is read, edited and replaced, and   *)
(* the client may save it at any moment.  A configuration in TOML is a     *)
(* sequence of lines; one in JSON is the set of entries of the object (or  *)
(* list) that names the servers.                                           *)
(***************************************************************************)
EXTENDS Integers, Sequences, FiniteSets

CONSTANTS
    Clients,       \* supported agents: id -> format
    FirstConfigs,  \* configurations clients may have, by format
    Headers,       \* lines that open a section of somebody else
    ClientAdds,    \* format -> what the client adds when it saves
    Squatted,      \* clients whose wrapper path holds a file of the user's
    OwnEnv,        \* environments `hasp agent mcp' may be started in
    ProjectOf,     \* client -> the project root of its profile, "": none
    MaxCommands,   \* bound: commands
    MaxClientSaves,\* bound: saves of a client
    MaxFailures    \* bound: calls that fail

VARIABLES
    config,     \* client -> its configuration file
    backups,    \* client -> the .bak files of its configuration, by second
    wrapper,    \* client -> hasp-agent-<id>: "none", "hasp" or "user"
    saved,      \* the agent consumers in the vault
    cmd,        \* the command under way
    child,      \* the process agent launch started
    env,        \* the environment of the mcp process
    second,     \* the clock, in the seconds a backup is named by
    commandsRun, clientSaves, failures

agentVars == <<config, backups, wrapper, saved, cmd, child, env, second,
               commandsRun, clientSaves, failures>>

Lines(s) == s \in Seq({s[i] : i \in DOMAIN s})

Variables == {"consumer", "root", "token"}

\* A header opens a section of HASP's or of somebody else.
ASSUME AgentsAssumption ==
    /\ \A a \in DOMAIN Clients :
          Clients[a] \in {"toml", "json", "opencode-json", "pi-package", "manual"}
    /\ \A x \in DOMAIN FirstConfigs : \A c \in FirstConfigs[x] :
          /\ DOMAIN c = {"there", "link", "parses", "servers", "lines"}
          /\ c = [k \in DOMAIN c |-> c[k]] /\ Lines(c.lines)
    /\ \A x \in DOMAIN ClientAdds : Lines(ClientAdds[x].lines)
    /\ Headers \cap {"[mcp_servers.hasp]", "[mcp_servers.hasp.env]", "command"} = {}
    /\ \A e \in OwnEnv : DOMAIN e = Variables /\ e = [k \in Variables |-> e[k]]

NoConfig == [there |-> FALSE, link |-> FALSE, parses |-> TRUE, servers |-> {}, lines |-> <<>>]
NoCmd == [op |-> "none", at |-> "", agent |-> "", read |-> NoConfig, next |-> NoConfig,
          restores |-> <<>>, todo |-> <<>>]
NoChild == [alive |-> FALSE, token |-> FALSE, registered |-> FALSE]

EmptyFile(c) == c.lines = <<>> /\ c.servers = {}

-----------------------------------------------------------------------------
(* Configurations *)

HaspHeaders == {"[mcp_servers.hasp]", "[mcp_servers.hasp.env]"}
HaspBlock == <<"[mcp_servers.hasp]", "command">>

\* The line filter both directions share: the lines of HASP's sections go.
Filter(st, line, skipping) ==
    LET first == line \in HaspHeaders /\ ~st.inserted IN
    [block |-> st.block, skipping |-> skipping, inserted |-> st.inserted \/ first,
     out |-> st.out \o (IF first THEN st.block ELSE <<>>)
                    \o (IF skipping THEN <<>> ELSE <<line>>)]

SkipOwn_NoReset(st, line) == Filter(st, line, line \in HaspHeaders \/ st.skipping)

SkipOwn(st, line) ==
    Filter(st, line, line \in HaspHeaders \/ (st.skipping /\ line \notin Headers))

Filtered(lines, block) ==
    LET st[i \in 0..Len(lines)] ==
            IF i = 0 THEN [skipping |-> FALSE, inserted |-> FALSE, out |-> <<>>, block |-> block]
            ELSE SkipOwn(st[i - 1], lines[i])
    IN  st[Len(lines)]

upsertCodexMCPServerConfig(c) ==
    LET done == Filtered(c.lines, HaspBlock) IN
    [c EXCEPT !.lines = IF done.inserted THEN done.out ELSE done.out \o HaspBlock]

removeCodexMCPServerConfig(c) == [c EXCEPT !.lines = Filtered(c.lines, <<>>).out]

upsertJSONMCPServerConfig(c) == [c EXCEPT !.servers = @ \cup {"hasp"}]
removeJSONMCPServerConfig(c) == [c EXCEPT !.servers = @ \ {"hasp"}]

\* Pi's list names the package, so another copy of it is another entry.
upsertPiSettingsPackageConfig(c) == [c EXCEPT !.servers = @ \cup {"pi-package"}]
removePiSettingsPackageConfig(c) == [c EXCEPT !.servers = @ \ {"pi-package"}]

\* A file that does not parse, or whose servers are no object, is refused, and
\* for OpenCode one of the other version.
updateOpenCodeMCPConfig(c, remove) ==
    IF remove THEN removeJSONMCPServerConfig(c) ELSE upsertJSONMCPServerConfig(c)

Unusable(format, c) ==
    \/ format # "toml" /\ ~c.parses
    \/ format = "opencode-json" /\ "servers" \in c.servers

Upserted(format, c) ==
    CASE format = "toml"          -> upsertCodexMCPServerConfig(c)
      [] format = "json"          -> upsertJSONMCPServerConfig(c)
      [] format = "opencode-json" -> updateOpenCodeMCPConfig(c, FALSE)
      [] format = "pi-package"    -> upsertPiSettingsPackageConfig(c)

Removed(format, c) ==
    CASE format = "toml"          -> removeCodexMCPServerConfig(c)
      [] format = "json"          -> removeJSONMCPServerConfig(c)
      [] format = "opencode-json" -> updateOpenCodeMCPConfig(c, TRUE)
      [] format = "pi-package"    -> removePiSettingsPackageConfig(c)

-----------------------------------------------------------------------------
AgentsInit ==
    /\ config \in {f \in [DOMAIN Clients -> UNION {FirstConfigs[x] : x \in DOMAIN FirstConfigs}] :
                      \A a \in DOMAIN Clients : f[a] \in FirstConfigs[Clients[a]]}
    /\ backups = [a \in DOMAIN Clients |-> <<>>]
    /\ wrapper = [a \in DOMAIN Clients |-> IF a \in Squatted THEN "user" ELSE "none"]
    /\ saved = {} /\ cmd = NoCmd /\ child = NoChild
    /\ env \in OwnEnv
    /\ second = 1 /\ commandsRun = 0 /\ clientSaves = 0 /\ failures = 0

End == cmd' = NoCmd
At(at) == cmd' = [cmd EXCEPT !.at = at]

AgentBegins ==
    /\ cmd.op = "none" /\ commandsRun < MaxCommands
    /\ commandsRun' = commandsRun + 1

agentConnect(a) ==
    /\ AgentBegins
    /\ cmd' = [NoCmd EXCEPT !.op = "connect", !.at = "wrapper", !.agent = a]
    /\ UNCHANGED <<config, backups, wrapper, saved, child, env, second, clientSaves, failures>>

\* A wrapper that somebody else put there is left alone.
setupInstallAgentWrapper ==
    /\ cmd.op = "connect" /\ cmd.at = "wrapper"
    /\ IF wrapper[cmd.agent] = "user"
       THEN End /\ UNCHANGED wrapper
       ELSE /\ wrapper' = [wrapper EXCEPT ![cmd.agent] = "hasp"]
            /\ At(IF Clients[cmd.agent] = "manual" THEN "save" ELSE "read")
    /\ UNCHANGED <<config, backups, saved, child, env, second, commandsRun, clientSaves, failures>>

\* setupWriteAgentConfigs reads the file and computes its successor.
ReadConfig ==
    LET a == cmd.agent  c == config[a]  format == Clients[a] IN
    /\ cmd.at = "read"
    /\ CASE cmd.op = "connect" /\ (c.link \/ Unusable(format, c)) -> End
         [] cmd.op = "connect" /\ ~(c.link \/ Unusable(format, c)) ->
                cmd' = [cmd EXCEPT !.at = "backup", !.read = c,
                                   !.next = [Upserted(format, c) EXCEPT !.there = TRUE]]
         [] cmd.op = "disconnect" /\ ~c.there -> At("delete")
         [] cmd.op = "disconnect" /\ c.there /\ Unusable(format, c) -> End
         [] OTHER -> cmd' = [cmd EXCEPT !.at = "backup", !.read = c, !.next = Removed(format, c)]
    /\ UNCHANGED <<config, backups, wrapper, saved, child, env, second, commandsRun, clientSaves, failures>>

AfterWrite == IF cmd.op = "connect" THEN "save" ELSE "delete"

\* setupAtomicWrite: a copy of what was read, named by the second, and then a
\* temporary file renamed over the path.
setupAtomicWrite ==
    /\ cmd.at = "backup"
    /\ IF cmd.next = cmd.read
       THEN At(AfterWrite) /\ UNCHANGED backups
       ELSE /\ At("rename")
            /\ IF EmptyFile(cmd.read) THEN UNCHANGED backups
               ELSE backups' = [backups EXCEPT ![cmd.agent] =
                        [t \in DOMAIN backups[cmd.agent] \cup {second} |->
                            IF t = second THEN cmd.read ELSE backups[cmd.agent][t]]]
    /\ UNCHANGED <<config, wrapper, saved, child, env, second, commandsRun, clientSaves, failures>>

RenameConfig ==
    /\ cmd.at = "rename"
    /\ config' = [config EXCEPT ![cmd.agent] = [cmd.next EXCEPT !.link = FALSE]]
    /\ At(AfterWrite)
    /\ UNCHANGED <<backups, wrapper, saved, child, env, second, commandsRun, clientSaves, failures>>

UpsertAgentConsumer ==
    /\ cmd.op = "connect" /\ cmd.at = "save"
    /\ saved' = saved \cup {cmd.agent}
    /\ End
    /\ UNCHANGED <<config, backups, wrapper, child, env, second, commandsRun, clientSaves, failures>>

agentDisconnect(a) ==
    /\ AgentBegins
    /\ a \in saved
    /\ cmd' = [NoCmd EXCEPT !.op = "disconnect", !.agent = a,
                   !.at = IF Clients[a] = "manual" THEN "delete" ELSE "read"]
    /\ UNCHANGED <<config, backups, wrapper, saved, child, env, second, clientSaves, failures>>

DeleteAgentConsumer ==
    /\ cmd.op = "disconnect" /\ cmd.at = "delete"
    /\ saved' = saved \ {cmd.agent}
    /\ End
    /\ UNCHANGED <<config, backups, wrapper, child, env, second, commandsRun, clientSaves, failures>>

-----------------------------------------------------------------------------
(* Launching *)

\* buildAgentExecutionEnv opens the session, then the child is started with
\* its token.
agentLaunch(a) ==
    /\ AgentBegins
    /\ ~child.alive
    /\ cmd' = [NoCmd EXCEPT !.op = "launch", !.agent = a, !.at = "register"]
    /\ child' = [alive |-> TRUE, token |-> TRUE, registered |-> FALSE]
    /\ UNCHANGED <<config, backups, wrapper, saved, env, second, clientSaves, failures>>

registerProtectedProcess ==
    /\ cmd.op = "launch" /\ cmd.at = "register"
    /\ child' = [child EXCEPT !.registered = TRUE]
    /\ At("wait")
    /\ UNCHANGED <<config, backups, wrapper, saved, env, second, commandsRun, clientSaves, failures>>

\* The daemon does not answer, or refuses the pid: the child is killed.
KillUnregistered ==
    /\ cmd.op = "launch" /\ cmd.at = "register" /\ failures < MaxFailures
    /\ child' = NoChild /\ failures' = failures + 1
    /\ End
    /\ UNCHANGED <<config, backups, wrapper, saved, env, second, commandsRun, clientSaves>>

ChildExits ==
    /\ child.alive
    /\ cmd.at = "wait"
    /\ child' = NoChild
    /\ End
    /\ UNCHANGED <<config, backups, wrapper, saved, env, second, commandsRun, clientSaves, failures>>

-----------------------------------------------------------------------------
(* agent mcp *)

PreflightKeys == <<"consumer", "root", "consumer", "token", "root">>

\* What setMCPEnv remembers to restore.
setMCPEnv(key) == Append(cmd.restores, [key |-> key, old |-> env[key]])

agentMCP(a) ==
    /\ AgentBegins
    /\ env' = [env EXCEPT !.consumer = a]
    /\ cmd' = [NoCmd EXCEPT !.op = "mcp", !.agent = a, !.at = "preflight", !.todo = PreflightKeys,
                            !.restores = <<[key |-> "consumer", old |-> env.consumer]>>]
    /\ UNCHANGED <<config, backups, wrapper, saved, child, second, clientSaves, failures>>

\* The profile's project root, else the one of the environment.
RootOf(a) == IF a \in saved /\ ProjectOf[a] # "" THEN ProjectOf[a] ELSE env.root

\* prepareAgentMCPEnv sets the consumer again and the root, and once the
\* process is registered the variables of buildAgentExecutionEnv.
prepareAgentMCPEnv ==
    LET key == Head(cmd.todo)
        value == CASE key = "consumer" -> cmd.agent [] key = "token" -> "session"
                   [] key = "root" -> RootOf(cmd.agent)
    IN
    /\ cmd.at = "preflight" /\ cmd.todo # <<>>
    /\ IF value = "" THEN UNCHANGED env /\ cmd' = [cmd EXCEPT !.todo = Tail(@)]
       ELSE /\ env' = [env EXCEPT ![key] = value]
            /\ cmd' = [cmd EXCEPT !.todo = Tail(@), !.restores = setMCPEnv(key)]
    /\ UNCHANGED <<config, backups, wrapper, saved, child, second, commandsRun, clientSaves, failures>>

\* The preflight fails or takes longer than its 250 ms: the server is run all
\* the same, without a session.
PreflightFails ==
    /\ cmd.at = "preflight" /\ cmd.todo # <<>> /\ failures < MaxFailures
    /\ failures' = failures + 1
    /\ cmd' = [cmd EXCEPT !.todo = <<>>]
    /\ UNCHANGED <<config, backups, wrapper, saved, child, env, second, commandsRun, clientSaves>>

\* The restores run in the reverse order, as deferred calls do.
Restored(from, restores) ==
    LET n == Len(restores)
        back[i \in 0..n] ==
            IF i = 0 THEN from
            ELSE [back[i - 1] EXCEPT ![restores[n - i + 1].key] = restores[n - i + 1].old]
    IN  back[n]

AgentServeMCP ==
    /\ cmd.at = "preflight" /\ cmd.todo = <<>>
    /\ env' = Restored(env, cmd.restores)
    /\ End
    /\ UNCHANGED <<config, backups, wrapper, saved, child, second, commandsRun, clientSaves, failures>>

-----------------------------------------------------------------------------
\* The client saves its configuration, with a setting of its own.
ClientSaves(a) ==
    /\ clientSaves < MaxClientSaves /\ Clients[a] \in DOMAIN ClientAdds
    /\ clientSaves' = clientSaves + 1
    /\ LET c == config[a]  add == ClientAdds[Clients[a]] IN
       config' = [config EXCEPT ![a] = [c EXCEPT !.there = TRUE,
           !.lines = c.lines \o add.lines, !.servers = c.servers \cup add.servers]]
    /\ UNCHANGED <<backups, wrapper, saved, cmd, child, env, second, commandsRun, failures>>

\* Any other call of a command fails, and the command with it.
CallFails ==
    /\ cmd.op \in {"connect", "disconnect"} /\ failures < MaxFailures
    /\ failures' = failures + 1
    /\ End
    /\ UNCHANGED <<config, backups, wrapper, saved, child, env, second, commandsRun, clientSaves>>

SecondPasses ==
    /\ second < MaxCommands
    /\ second' = second + 1
    /\ UNCHANGED <<config, backups, wrapper, saved, cmd, child, env, commandsRun, clientSaves, failures>>

AgentsNext ==
    \/ \E a \in DOMAIN Clients :
        agentConnect(a) \/ agentDisconnect(a) \/ agentLaunch(a) \/ agentMCP(a) \/ ClientSaves(a)
    \/ setupInstallAgentWrapper \/ ReadConfig \/ setupAtomicWrite \/ RenameConfig
    \/ UpsertAgentConsumer \/ DeleteAgentConsumer
    \/ registerProtectedProcess \/ KillUnregistered \/ ChildExits
    \/ prepareAgentMCPEnv \/ PreflightFails \/ AgentServeMCP
    \/ CallFails \/ SecondPasses

AgentsSpec == AgentsInit /\ [][AgentsNext]_agentVars

-----------------------------------------------------------------------------
(* Properties *)

\* Line i is in a section of HASP's: no other header is between it and one.
InHaspSection(lines, i) ==
    \E j \in 1..i : /\ lines[j] \in HaspHeaders
                    /\ \A k \in (j + 1)..i : lines[k] \notin HaspHeaders \cup Headers

\* The lines of a TOML file that are in nobody's or somebody else's section.
OthersLines(lines) ==
    LET kept[i \in 0..Len(lines)] ==
            IF i = 0 THEN <<>>
            ELSE IF InHaspSection(lines, i) THEN kept[i - 1] ELSE Append(kept[i - 1], lines[i])
    IN  kept[Len(lines)]

Others(c) == [lines |-> OthersLines(c.lines), servers |-> c.servers \ {"hasp", "pi-package"}]

\* "setup writes only local MCP config stanzas for selected agents": a command
\* that edits a client's configuration keeps every other setting it read, in
\* order, and keeps a copy of the file it is about to replace.  When a command is
\* over, a launched agent that holds a session token is under the daemon's watch
\* or dead, and serving MCP has left the environment as it was, in whichever step
\* its preflight failed.
OthersKept ==
    /\ cmd.at = "rename" =>
        /\ Others(cmd.next) = Others(cmd.read)
        /\ ~EmptyFile(cmd.read) =>
              \E t \in DOMAIN backups[cmd.agent] : backups[cmd.agent][t] = cmd.read
    /\ cmd.op = "none" => (child.alive => child.registered) /\ env \in OwnEnv
=============================================================================
