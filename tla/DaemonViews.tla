---------------------------- MODULE DaemonViews ----------------------------
(***************************************************************************)
(* The event hub of runtime/server.go, the operations of the daemon that   *)
(* publish through it, and clients of /v1/events that keep copies of what  *)
(* the GET handlers show and fetch one again when an event names it.       *)
(*                                                                         *)
(* An operation is the sequence of its steps: it changes parts of the      *)
(* daemon's state, and it publishes events.  Each step takes a lock of its *)
(* own (the session store's, the vault's, the hub's), so the steps of two  *)
(* operations interleave.  The value of a part is a version number.        *)
(*                                                                         *)
(* The client is external.  It cannot tell when its subscription begins    *)
(* (": connected" is written before it), so it fetches everything at the   *)
(* first event it is shown of a daemon and when the ids show a gap.        *)
(***************************************************************************)
EXTENDS Integers, Sequences

CONSTANTS
    Clients,
    Wants,         \* the topics each client asks for (the topics parameter)
    Handlers,      \* goroutines that serve requests
    Buffer,        \* the capacity of a subscriber's channel: 8 in the code
    MaxHistory,    \* maxHistory: 256 in the code
    MaxOps,        \* bound: operations in a behaviour
    MaxFaults,     \* bound: connections given up and daemon restarts
    AnyFirst,      \* bound: FALSE: the first operation is one of Rivals
    AdminOverTCP   \* adminOverTCPAllowed: the HTTP key is protected per application

ASSUME ViewsAssumption ==
    /\ Buffer \in Nat \ {0} /\ MaxHistory \in Nat \ {0} /\ MaxOps \in Nat
    /\ MaxFaults \in Nat /\ AnyFirst \in BOOLEAN /\ AdminOverTCP \in BOOLEAN

VARIABLES
    part,      \* the version of each part of the daemon's state
    running,   \* the steps each handler still has to do
    history, nextID,   \* runtimeEventHub
    conn,      \* each client's connection and handleHTTPEvents on its other end
    last,      \* Last-Event-ID of each client, 0: none
    known,     \* whether that id is of this daemon
    copy,      \* each client's copies
    ops, faults

hubVars == <<history, nextID, conn>>
clientVars == <<last, known, copy>>
viewsVars == <<part, running, hubVars, clientVars, ops, faults>>

-----------------------------------------------------------------------------
(* What there is to see.  The audit part of the dashboard is left out: it  *)
(* changes with every failed append and is not announced.                  *)

\* The sessions that the daemon opens for its HTTP clients are "internal"; the
\* list of leases does not show them.
Parts == {"vault", "internal", "leases", "approvals", "policy", "config", "profiles"}

\* What ending sessions may change.
SessionParts == {"vault", "internal", "leases"}

Views == {"leases", "access", "approvals", "policy", "config", "profiles", "dashboard"}

\* buildDashboardPayload: the lock, the sessions and the pending approvals.
DashboardParts == {"vault", "leases", "approvals"}

\* AccessMatrix: approvals, leases, and the consumer of every session.
AccessParts == {"internal", "leases", "approvals"}

PartsOf(v) == CASE v = "dashboard" -> DashboardParts
                [] v = "access"    -> AccessParts
                [] OTHER           -> {v}

\* The answer of a GET handler.
Current(v) == [p \in PartsOf(v) |-> part[p]]

Topics == {"audit.changed", "vault.locked", "vault.unlocked", "leases.changed",
           "access.changed", "approvals.changed", "policy.changed",
           "config.changed", "integrations.changed",
           "integrations.profiles.changed", "backup.created", "dashboard.changed"}

\* The copies an event makes a client fetch again.
Refetch(t) ==
    CASE t = "leases.changed"    -> {"leases"}
      [] t = "access.changed"    -> {"access"}
      [] t = "approvals.changed" -> {"approvals", "access"}
      [] t = "policy.changed"    -> {"policy"}
      [] t = "config.changed"    -> {"config"}
      [] t = "integrations.profiles.changed" -> {"profiles"}
      [] t = "dashboard.changed" -> {"dashboard"}
      [] OTHER -> {}

\* Clients ask for the topics they have a use for, and for the audit log's: one is
\* published after vault/unlock has announced what it changed.
ASSUME WantsAssumption ==
    \A c \in Clients : {t \in Topics : Refetch(t) # {}} \cup {"audit.changed"} \subseteq Wants[c]

-----------------------------------------------------------------------------
(* Operations *)

Change(ps) == <<[change |-> ps, publish |-> {}]>>
Say(t) == <<[change |-> {}, publish |-> {t}]>>
Leases == Say("leases.changed") \o Say("access.changed")
Dashboard == Say("dashboard.changed")

\* appendAudit: no event when the append failed.
Audit == <<[change |-> {}, publish |-> {"audit.changed", "none"}]>>

OpenSession(internal) ==
    Change({"vault", IF internal THEN "internal" ELSE "leases"}) \o Audit \o Say("vault.unlocked")
        \o (IF internal THEN <<>> ELSE Leases) \o Dashboard

RevokeSession == Change(SessionParts) \o Audit \o Leases \o Dashboard

RevokeAllSessions == Change(SessionParts) \o Audit \o Leases \o Dashboard

RevokeLease == Change(SessionParts) \o Audit \o Leases \o Dashboard

\* The ids are revoked one by one, each with its audit record.
RevokeLeases ==
    Change(SessionParts) \o Audit \o Change(SessionParts) \o Audit
        \o Leases \o Dashboard

RevokeAllForConsumer ==
    Change(SessionParts) \o Audit \o Audit \o Leases \o Dashboard

LockVault ==
    Change(SessionParts) \o Audit \o Say("vault.locked") \o Leases \o Dashboard

DecideApproval(grant) ==
    Change(IF grant THEN {"approvals", "leases"} ELSE {"approvals"}) \o Audit
        \o Say("approvals.changed") \o (IF grant THEN Leases ELSE <<>>) \o Dashboard

publishQueuedApproval == Change({"approvals"}) \o Say("approvals.changed") \o Dashboard

SetPolicy_Early == Say("policy.changed") \o Dashboard \o Change({"policy"})

SetPolicy == Change({"policy"}) \o Say("policy.changed") \o Dashboard

SetConfig == Change({"config"}) \o Say("config.changed") \o Dashboard

\* The export, then two config values.
Backup == Change({"config"}) \o Change({"config"}) \o Say("backup.created")
              \o Say("config.changed") \o Dashboard

\* Create, update and delete end in recordIntegrationProfileMutation.
recordIntegrationProfileMutation ==
    Change({"profiles"}) \o Say("integrations.profiles.changed")
        \o Say("integrations.changed") \o Dashboard

DoctorIntegration == Say("integrations.changed") \o Dashboard

AuditVerify == Say("audit.changed") \o Dashboard

-----------------------------------------------------------------------------
(* Where the operations are offered.  An admin route is refused on a TCP   *)
(* connection unless the key is protected.                                 *)

Route(steps, via) == [steps |-> steps, via |-> via]

requireLocalAdminTransport == {"unix"} \cup IF AdminOverTCP THEN {"tcp"} ELSE {}
AnyHTTP == {"unix", "tcp"}
Socket == {"socket"}

SocketRoutes ==
    {Route(OpenSession(FALSE), Socket), Route(RevokeSession, Socket),
     Route(RevokeAllSessions, Socket), Route(LockVault, Socket),
     Route(publishQueuedApproval, Socket)}

LeaseRoutes ==
    {Route(op, AnyHTTP) : op \in {RevokeLease, RevokeLeases, RevokeAllForConsumer}}

ApprovalRoutes ==
    {Route(DecideApproval(g), requireLocalAdminTransport) : g \in BOOLEAN}

IntegrationRoutes ==
    {Route(recordIntegrationProfileMutation, AnyHTTP), Route(DoctorIntegration, AnyHTTP)}

PolicyRoutes == {Route(SetPolicy, requireLocalAdminTransport)}

ConfigRoutes == {Route(SetConfig, requireLocalAdminTransport)}

AuditRoutes == {Route(AuditVerify, AnyHTTP)}

BackupRoutes == {Route(Backup, AnyHTTP)}

\* vault/init; vault/unlock; vault/master-password and vault/lock.
VaultRoutes ==
    {Route(OpenSession(TRUE), AnyHTTP),
     Route(OpenSession(TRUE) \o Audit, requireLocalAdminTransport),
     Route(Audit \o LockVault, requireLocalAdminTransport),
     Route(LockVault, requireLocalAdminTransport)}

Routes == SocketRoutes \cup LeaseRoutes \cup ApprovalRoutes \cup IntegrationRoutes
              \cup PolicyRoutes \cup ConfigRoutes \cup AuditRoutes
              \cup BackupRoutes \cup VaultRoutes

\* Bound: with ~AnyFirst this operation begins, and any other beside or after it.
Rivals == {Route(SetPolicy, requireLocalAdminTransport)}

-----------------------------------------------------------------------------
(* The hub *)

Off == [phase |-> "off", sub |-> FALSE, chan |-> <<>>, backlog |-> <<>>]

\* A client whose request has come in but not yet its subscription is "on".
Subscribed(c) == [conn[c] EXCEPT !.phase = "subscribed", !.sub = TRUE]

\* publish: a subscriber whose channel is full is removed, and its channel closed.
Delivered(k, e) ==
    IF ~k.sub THEN k
    ELSE IF Len(k.chan) < Buffer THEN [k EXCEPT !.chan = Append(@, e)]
    ELSE [k EXCEPT !.sub = FALSE]

Kept(h) == IF Len(h) > MaxHistory THEN SubSeq(h, Len(h) - MaxHistory + 1, Len(h)) ELSE h

publish(t) ==
    LET e == [id |-> nextID + 1, name |-> t] IN
    /\ nextID' = nextID + 1
    /\ history' = Kept(Append(history, e))
    /\ conn' = [c \in Clients |-> Delivered(conn[c], e)]

\* publish numbers the events: those newer than id are at the end.
FirstNewer(id) ==
    CHOOSE k \in 1..Len(history) + 1 :
        \A i \in 1..Len(history) : history[i].id > id <=> i >= k

replaySince_SkipsOne(id) ==
    IF id = 0 THEN <<>> ELSE SubSeq(history, FirstNewer(id + 1), Len(history))

replaySince(id) ==
    IF id = 0 THEN <<>> ELSE SubSeq(history, FirstNewer(id), Len(history))

-----------------------------------------------------------------------------
(* Handlers *)

Begin(h) ==
    /\ running[h] = <<>> /\ ops < MaxOps
    /\ \E r \in (IF ops = 0 /\ ~AnyFirst THEN Rivals ELSE Routes) :
          r.via # {} /\ running' = [running EXCEPT ![h] = r.steps]
    /\ ops' = ops + 1
    /\ UNCHANGED <<part, hubVars, clientVars, faults>>

Step(h) ==
    /\ running[h] # <<>>
    /\ running' = [running EXCEPT ![h] = Tail(@)]
    /\ LET s == Head(running[h]) IN
       /\ part' = [p \in Parts |-> IF p \in s.change THEN part[p] + 1 ELSE part[p]]
       /\ \/ s.publish = {} /\ UNCHANGED hubVars
          \/ "none" \in s.publish /\ UNCHANGED hubVars
          \/ \E t \in s.publish \ {"none"} : publish(t)
    /\ UNCHANGED <<clientVars, ops, faults>>

-----------------------------------------------------------------------------
(* handleHTTPEvents and its client *)

Connect(c) ==
    /\ conn[c].phase = "off"
    /\ conn' = [conn EXCEPT ![c].phase = "on"]
    /\ UNCHANGED <<part, running, history, nextID, clientVars, ops, faults>>

\* subscribe comes before replaySince: no event falls between the two.
Subscribe(c) ==
    /\ conn[c].phase = "on"
    /\ conn' = [conn EXCEPT ![c] = Subscribed(c)]
    /\ UNCHANGED <<part, running, history, nextID, clientVars, ops, faults>>

Replay(c) ==
    /\ conn[c].phase = "subscribed"
    /\ conn' = [conn EXCEPT ![c].phase = "live", ![c].backlog = replaySince(last[c])]
    /\ UNCHANGED <<part, running, history, nextID, clientVars, ops, faults>>

\* The client is shown an event, and fetches what it names.
Shown(c, e) ==
    IF e.name \notin Wants[c] THEN UNCHANGED clientVars
    ELSE /\ last' = [last EXCEPT ![c] = e.id]
         /\ known' = [known EXCEPT ![c] = TRUE]
         /\ copy' = [copy EXCEPT ![c] =
                [v \in Views |->
                    IF ~known[c] \/ e.id > last[c] + 1 \/ v \in Refetch(e.name)
                    THEN Current(v) ELSE @[v]]]

Read_Stays(c) ==
    LET k == conn[c] IN
    /\ k.phase = "live"
    /\ \/ /\ k.backlog # <<>>
          /\ conn' = [conn EXCEPT ![c].backlog = Tail(@)]
          /\ Shown(c, Head(k.backlog))
       \/ /\ k.backlog = <<>> /\ k.chan # <<>>
          /\ conn' = [conn EXCEPT ![c].chan = Tail(@)]
          /\ Shown(c, Head(k.chan))
    /\ UNCHANGED <<part, running, history, nextID, ops, faults>>

Read(c) ==
    LET k == conn[c] IN
    /\ k.phase = "live"
    /\ \/ /\ k.backlog # <<>>
          /\ conn' = [conn EXCEPT ![c].backlog = Tail(@)]
          /\ Shown(c, Head(k.backlog))
       \/ /\ k.backlog = <<>> /\ k.chan # <<>>
          /\ conn' = [conn EXCEPT ![c].chan = Tail(@)]
          /\ Shown(c, Head(k.chan))
       \/ /\ k.backlog = <<>> /\ k.chan = <<>> /\ ~k.sub   \* the channel is closed
          /\ conn' = [conn EXCEPT ![c] = Off]
          /\ UNCHANGED clientVars
    /\ UNCHANGED <<part, running, history, nextID, ops, faults>>

\* The request's context ends: unsubscribe.
Disconnect(c) ==
    /\ conn[c].phase # "off" /\ faults < MaxFaults
    /\ conn' = [conn EXCEPT ![c] = Off]
    /\ faults' = faults + 1
    /\ UNCHANGED <<part, running, history, nextID, clientVars, ops>>

\* A new daemon has a new hub, no leases and no approvals; the vault is kept.
RestartDaemon ==
    /\ faults < MaxFaults
    /\ faults' = faults + 1
    /\ part' = [p \in Parts |-> IF p \in SessionParts \cup {"approvals"} THEN part[p] + 1 ELSE part[p]]
    /\ running' = [h \in Handlers |-> <<>>]
    /\ history' = <<>> /\ nextID' = 0
    /\ conn' = [c \in Clients |-> Off]
    /\ known' = [c \in Clients |-> FALSE]
    /\ UNCHANGED <<last, copy, ops>>

-----------------------------------------------------------------------------
ViewsInit ==
    /\ part = [p \in Parts |-> 0]
    /\ running = [h \in Handlers |-> <<>>]
    /\ history = <<>> /\ nextID = 0
    /\ conn = [c \in Clients |-> Off]
    /\ last = [c \in Clients |-> 0] /\ known = [c \in Clients |-> FALSE]
    /\ copy = [c \in Clients |-> [v \in Views |-> [p \in PartsOf(v) |-> 0]]]
    /\ ops = 0 /\ faults = 0

ViewsNext ==
    \/ \E h \in Handlers : Begin(h) \/ Step(h)
    \/ \E c \in Clients :
           Connect(c) \/ Subscribe(c) \/ Replay(c) \/ Read(c) \/ Disconnect(c)
    \/ RestartDaemon

\* Handlers run on, the daemon serves the stream, and a client that was cut off
\* connects again.
ViewsFairness ==
    /\ \A h \in Handlers : WF_viewsVars(Step(h))
    /\ \A c \in Clients : /\ WF_viewsVars(Connect(c)) /\ WF_viewsVars(Subscribe(c))
                          /\ WF_viewsVars(Replay(c)) /\ WF_viewsVars(Read(c))

ViewsSpec == ViewsInit /\ [][ViewsNext]_viewsVars /\ ViewsFairness

-----------------------------------------------------------------------------
(* Properties *)

Idle == \A h \in Handlers : running[h] = <<>>
Drained(c) == conn[c].phase = "live" /\ conn[c].backlog = <<>> /\ conn[c].chan = <<>>
Fresh(c) == \A v \in Views : \A p \in PartsOf(v) \ {"internal"} : copy[c][v][p] = part[p]

\* When no operation is under way and a client has read all the daemon sent it,
\* every copy it keeps is what the GET handlers would answer now: each operation
\* announces what it changed after it changed it, and neither a channel that
\* overflowed nor a new connection hides a change.
\* Internal sessions are excepted: the access matrix lists their consumer, but
\* OpenSession publishes no event for them.
SettledCopiesAreCurrent ==
    \A c \in Clients : Idle /\ Drained(c) /\ conn[c].sub /\ known[c] => Fresh(c)

\* A client that was shown an event of this daemon ends up with current copies,
\* however often it is cut off as too slow.
CopiesCatchUp == \A c \in Clients : <>[](known[c] => Fresh(c))

\* The hub with its bounded channels and history keeps the promise of EventStream.
Stream == INSTANCE EventStream WITH
    said <- nextID,
    kept <- [i \in 1..Len(history) |-> history[i].name],
    pos <- [c \in Clients |-> IF known[c] THEN last[c] ELSE -1]

ImplementsStream == Stream!StreamSpec
=============================================================================
