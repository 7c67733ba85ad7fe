----------------------------- MODULE AgentTools -----------------------------
(***************************************************************************)
(* The MCP server's connections.  One connection answers one request after *)
(* another.  A tool that touches a project needs a session of the daemon   *)
(* for that project: the token the agent names, the one the process        *)
(* inherited, or the one an earlier call of the connection left.  Sessions *)
(* end while calls are under way, and a daemon that starts again knows     *)
(* none.  A project lease belongs to one token.                            *)
(***************************************************************************)
EXTENDS Integers, Sequences, FiniteSets

CONSTANTS
    Connections,    \* MCP processes
    Roots,          \* project roots
    Tools,          \* tool -> "open" | "session" | "lease" | "writes"
    WritesEnabled,  \* are the tools that write secrets switched on?
    MaxTokens,      \* bound on the sessions opened
    MaxCalls,       \* bound on the calls
    Tokenless

\* No token and no answer of a call is taken for another.
ASSUME ToolsAssumption ==
    /\ MaxTokens \in Nat \ {0} /\ Tokenless \notin Nat
    /\ Tokenless \notin {"stale", "ok"}

VARIABLES
    daemonSessions, \* live sessions: token -> root
    inherited,      \* per connection: HASP_SESSION_TOKEN
    remembered,     \* per connection: root -> token of an earlier call
    call,           \* per connection: the call being answered
    lastToken,      \* tokens are never used again
    calls,
    leases,         \* the tokens that hold a project lease
    agreed          \* history: the tokens a lease was asked for

toolVars == <<daemonSessions, inherited, remembered, call, lastToken, calls, leases, agreed>>

Issued == 1..MaxTokens

NoCall == [at |-> "idle", tool |-> Tokenless, root |-> Tokenless, source |-> Tokenless,
           token |-> Tokenless, wants |-> FALSE, answer |-> Tokenless]

ToolsInit ==
    /\ daemonSessions \in {<<>>} \cup [{1} -> Roots]
    /\ inherited \in [Connections -> {Tokenless, 1}]
    /\ remembered = [c \in Connections |-> [r \in Roots |-> Tokenless]]
    /\ call = [c \in Connections |-> NoCall]
    /\ lastToken = 1 /\ calls = 0
    /\ leases = {} /\ agreed = {}

Become(c, r) == call' = [call EXCEPT ![c] = r]

Reply(c, a) == Become(c, [call[c] EXCEPT !.at = "answered", !.answer = a])

\* A request with an id.  `hasp_status' asks nothing of anyone; tools that
\* write are refused unless they are switched on; the rest opens the vault.
callTool(c, tool, root, wants) ==
    /\ call[c].at \in {"idle", "answered"} /\ calls < MaxCalls
    /\ calls' = calls + 1
    /\ Become(c, [NoCall EXCEPT !.tool = tool, !.root = root, !.wants = wants,
                    !.at = IF Tools[tool] = "open" THEN "answered" ELSE "vault",
                    !.answer = IF Tools[tool] = "open" THEN "ok" ELSE Tokenless])
    /\ UNCHANGED <<daemonSessions, inherited, remembered, lastToken, leases, agreed>>

openHandle(c, opens) ==
    /\ call[c].at = "vault"
    /\ IF ~opens THEN Reply(c, "locked")
       ELSE IF Tools[call[c].tool] = "writes" /\ ~WritesEnabled THEN Reply(c, "disabled")
       ELSE Become(c, [call[c] EXCEPT !.at = "token"])
    /\ UNCHANGED <<daemonSessions, inherited, remembered, lastToken, calls, leases, agreed>>

\* The token of the arguments, else the inherited one; for those that did not
\* name one, a token this connection remembers for the project comes first.
mcpSessionToken(c, given) ==
    /\ call[c].at = "token"
    /\ LET cached == remembered[c][call[c].root]
           source == IF given # Tokenless THEN "explicit" ELSE "inherited"
           token  == IF source = "explicit" THEN given
                     ELSE IF cached # Tokenless THEN cached ELSE inherited[c]
       IN  Become(c, [call[c] EXCEPT !.source = source, !.token = token,
                        !.at = IF token = Tokenless THEN "open" ELSE "resolve"])
    /\ UNCHANGED <<daemonSessions, inherited, remembered, lastToken, calls, leases, agreed>>

\* Mutant: only a session that is gone is replaced, not one of another project.
isRecoverableInheritedSessionError_Gone(token, root) == token \notin DOMAIN daemonSessions

\* The daemon does not know the token, or knows it for another project.
isRecoverableInheritedSessionError(token, root) ==
    IF token \in DOMAIN daemonSessions THEN daemonSessions[token] # root ELSE TRUE

Serves(token, root) ==
    IF token \in DOMAIN daemonSessions THEN daemonSessions[token] = root ELSE FALSE

Remember(c, token) ==
    remembered' = IF call[c].source = "explicit" THEN remembered
                  ELSE [remembered EXCEPT ![c][call[c].root] = token]

\* Resolving a token.  A token the agent named is never replaced; another one
\* that does not serve is forgotten and a fresh session opened.
EnsureSession(c) ==
    LET k == call[c] IN
    /\ k.at = "resolve"
    /\ \/ /\ Serves(k.token, k.root)
          /\ Become(c, [k EXCEPT !.at = "bind"])
          /\ Remember(c, k.token)
       \/ /\ ~Serves(k.token, k.root)
          /\ k.source # "explicit" /\ isRecoverableInheritedSessionError(k.token, k.root)
          /\ Become(c, [k EXCEPT !.at = "open", !.token = Tokenless])
          /\ Remember(c, Tokenless)
       \/ /\ ~Serves(k.token, k.root)
          /\ k.source = "explicit" \/ ~isRecoverableInheritedSessionError(k.token, k.root)
          /\ Reply(c, "stale")
          /\ UNCHANGED remembered
    /\ UNCHANGED <<daemonSessions, inherited, lastToken, calls, leases, agreed>>

OpenProjectSession(c) ==
    LET k == call[c] IN
    /\ k.at = "open" /\ lastToken < MaxTokens
    /\ lastToken' = lastToken + 1
    /\ daemonSessions' = [t \in DOMAIN daemonSessions \cup {lastToken'} |->
                             IF t = lastToken' THEN k.root ELSE daemonSessions[t]]
    /\ Become(c, [k EXCEPT !.at = "bind", !.token = lastToken'])
    /\ Remember(c, lastToken')
    /\ UNCHANGED <<inherited, calls, leases, agreed>>

NoDaemon(c) ==
    /\ call[c].at \in {"resolve", "open"}
    /\ Reply(c, "unreachable")
    /\ UNCHANGED <<daemonSessions, inherited, remembered, lastToken, calls, leases, agreed>>

\* The project is bound, or bound by itself, or the call ends here.
ensureProjectBindingMCP(c, bound) ==
    LET k == call[c] IN
    /\ k.at = "bind"
    /\ IF ~bound THEN Reply(c, "unmanaged")
       ELSE IF Tools[k.tool] = "session" THEN Reply(c, "ok")
       ELSE Become(c, [k EXCEPT !.at = "authorize"])
    /\ UNCHANGED <<daemonSessions, inherited, remembered, lastToken, calls, leases, agreed>>

\* A lease asked for is granted to the token; one that is there is used, and
\* used up if it was for once.
requireMCPProjectAuthorization(c, once) ==
    LET k    == call[c]
        held == IF k.wants THEN leases \cup {k.token} ELSE leases
    IN  /\ k.at = "authorize"
        /\ agreed' = IF k.wants THEN agreed \cup {k.token} ELSE agreed
        /\ IF k.token \in held THEN Reply(c, "ok") ELSE Reply(c, "lease required")
        /\ leases' = IF once THEN held \ {k.token} ELSE held
        /\ UNCHANGED <<daemonSessions, inherited, remembered, lastToken, calls>>

\* Sessions end, by time or by command, and all of them with their daemon.
SessionEnds(gone) ==
    /\ gone # {} /\ gone \subseteq DOMAIN daemonSessions
    /\ daemonSessions' = [t \in DOMAIN daemonSessions \ gone |-> daemonSessions[t]]
    /\ UNCHANGED <<inherited, remembered, call, lastToken, calls, leases, agreed>>

ToolsNext ==
    \/ \E c \in Connections :
         \/ \E tool \in DOMAIN Tools, root \in Roots, wants \in BOOLEAN : callTool(c, tool, root, wants)
         \/ \E yes \in BOOLEAN : openHandle(c, yes) \/ ensureProjectBindingMCP(c, yes)
                                 \/ requireMCPProjectAuthorization(c, yes)
         \/ \E given \in {Tokenless} \cup 1..lastToken : mcpSessionToken(c, given)
         \/ EnsureSession(c) \/ OpenProjectSession(c) \/ NoDaemon(c)
    \/ \E gone \in {DOMAIN daemonSessions} \cup {{t} : t \in DOMAIN daemonSessions} : SessionEnds(gone)

ToolsSpec == ToolsInit /\ [][ToolsNext]_toolVars

-----------------------------------------------------------------------------
(* Properties *)

\* "Replacing an expired token never copies the old session's grants": a call
\* is let through on a lease somebody asked for with that very token.  And a
\* token nobody named never wedges a connection: only a call that named its
\* token is told that it is stale.
StaleTokensReplaced ==
    \A c \in Connections :
        /\ call[c].answer = "stale" => call[c].source = "explicit"
        /\ call[c].answer = "ok" /\ Tools[call[c].tool] \in {"lease", "writes"}
               => call[c].token \in agreed
        /\ \A r \in Roots : remembered[c][r] \in DOMAIN daemonSessions
               => daemonSessions[remembered[c][r]] = r
=============================================================================
