---------------------------- MODULE SessionStore ----------------------------
(***************************************************************************)
(* The daemon's in-memory session table (runtime/sessions.go) behind the   *)
(* session handlers of runtime/server.go.  A session is opened with a      *)
(* time to live, stays alive while it is used at least once per idle       *)
(* timeout, and ends as "revoked" or "expired"; its record is kept as a    *)
(* tombstone.  Processes may be bound to a session, and a lookup by pid    *)
(* walks the caller's ancestors.  `locked' is the vault-locked flag.       *)
(*                                                                         *)
(* Every operation holds SessionStore.mu while it changes the table, so    *)
(* each one is a single action.  Most of them read the clock (and          *)
(* RegisterProcess probes the process identity) BEFORE taking the mutex:   *)
(* those actions use a reading `at' that may be any earlier time.          *)
(***************************************************************************)
EXTENDS Integers, Sequences

CONSTANTS
    Tokens,      \* session tokens (random, never reused)
    Pids,        \* process ids the operating system hands out
    Consumers,   \* sessionConsumerID values
    Leases,      \* LeaseSecretID values, one per approval that asks for one
    NoConsumer,  \* the consumer of a token not handed out yet
    NoLease,     \* a session that is not a lease
    NoToken,     \* a pid without a binding
    Lineages,    \* the pid chains processLineage may return, caller first
    TTLs,        \* time to live values a request may ask for, 0 for none
    DefaultTTL,  \* DefaultSessionTTL
    IdleTTL,     \* DefaultVaultIdleTimeout
    MaxTime,     \* bound on the clock
    MaxGen       \* bound on how often one pid is recycled

ASSUME TimeAssumption ==
    /\ DefaultTTL \in Nat \ {0}
    /\ IdleTTL \in Nat
    /\ MaxTime \in Nat
    /\ MaxGen \in Nat \ {0}
    /\ TTLs \subseteq Nat

ASSUME NameAssumption ==
    /\ NoToken \notin Tokens
    /\ NoLease \notin Leases
    /\ Lineages \subseteq Seq(Pids)

VARIABLES
    sessions,    \* token -> session record
    processes,   \* pid -> [token, identity]
    locked,      \* SessionStore.locked
    degraded,    \* SessionStore.processIdentityDegraded
    now,         \* the wall clock
    generation,  \* pid -> identity of the process that holds the pid now
    enrolled,    \* history: <<token, pid, generation>> that ever registered
    served       \* history: the last <<token, pid, generation>> looked up

storeVars == <<sessions, processes, locked, degraded>>
envVars   == <<now, generation>>
histVars  == <<enrolled, served>>
vars      == <<sessions, processes, locked, degraded, now, generation,
               enrolled, served>>

-----------------------------------------------------------------------------
(* Types *)

Status == {"absent", "active", "revoked", "expired"}

Session == [status: Status, expiresAt: Nat, lastSeenAt: Nat,
            consumer: Consumers \cup {NoConsumer},
            lease: Leases \cup {NoLease}]

Absent == [status |-> "absent", expiresAt |-> 0, lastSeenAt |-> 0,
           consumer |-> NoConsumer, lease |-> NoLease]

Binding == [token: Tokens \cup {NoToken}, identity: Nat]

Unbound == [token |-> NoToken, identity |-> 0]

Nobody == <<>>

-----------------------------------------------------------------------------
(* Helpers of sessions.go *)

\* RevokedAt == nil
Live(s) == s.status = "active"

\* Mutant: the idle timeout is forgotten.
sessionExpired_NoIdle(s, at) == at > s.expiresAt

\* sessionExpired: past the end of life, or idle for longer than idleTTL.
sessionExpired(s, at) ==
    \/ at > s.expiresAt
    \/ IdleTTL > 0 /\ at - s.lastSeenAt > IdleTTL

\* markExpiredLocked
markExpired(s) == IF Live(s) THEN [s EXCEPT !.status = "expired"] ELSE s

Revoked(s) == [s EXCEPT !.status = "revoked"]

\* The sessions activeCountLocked counts.
ActiveAt(ss, at) == {t \in Tokens : Live(ss[t]) /\ ~sessionExpired(ss[t], at)}

\* The table without the bindings of the sessions in T.
Unbind(T) == [p \in Pids |-> IF processes[p].token \in T
                             THEN Unbound ELSE processes[p]]

\* The time to live OpenSession and an approval grant.
ClampTTL(ttl) == IF ttl = 0 \/ ttl > DefaultTTL THEN DefaultTTL ELSE ttl

\* newSession, with the lease name an approved request adds.
NewSession(consumer, ttl, lease, at) ==
    [status |-> "active", expiresAt |-> at + ttl, lastSeenAt |-> at,
     consumer |-> consumer, lease |-> lease]

-----------------------------------------------------------------------------
(* Operations.  `at' is the clock reading the operation works with. *)

\* OpenSession -> Open / OpenInternal -> open
OpenSession(t, consumer, ttl, at) ==
    /\ sessions[t].status = "absent"
    /\ sessions' = [sessions EXCEPT
           ![t] = NewSession(consumer, ClampTTL(ttl), NoLease, at)]
    /\ locked' = FALSE
    /\ UNCHANGED <<processes, degraded, envVars, histVars>>

\* ResolveSession -> Resolve.  An expired session becomes a tombstone but
\* keeps its process bindings.
Resolve(t, at) ==
    /\ Live(sessions[t])
    /\ sessions' = [sessions EXCEPT ![t] =
           IF sessionExpired(@, at) THEN markExpired(@)
                                    ELSE [@ EXCEPT !.lastSeenAt = at]]
    /\ UNCHANGED <<processes, locked, degraded, envVars, histVars>>

\* The second half of RevokeSession (its first half is Resolve): any session
\* without a tombstone is revoked, even one whose time is up.
Revoke(t) ==
    /\ Live(sessions[t])
    /\ sessions' = [sessions EXCEPT ![t] = Revoked(@)]
    /\ processes' = Unbind({t})
    /\ UNCHANGED <<locked, degraded, envVars, histVars>>

\* LockVault and RevokeAllSessions -> RevokeAll
RevokeAll ==
    /\ sessions' = [t \in Tokens |->
           IF ~Live(sessions[t]) THEN sessions[t]
           ELSE IF sessionExpired(sessions[t], now) THEN markExpired(sessions[t])
           ELSE Revoked(sessions[t])]
    /\ processes' = [p \in Pids |-> Unbound]
    /\ locked' = TRUE
    /\ UNCHANGED <<degraded, envVars, histVars>>

\* Mutant: the clock is read again to decide whether the vault is idle.
PruneExpired_TwoClocks(at) ==
    LET late == {t \in Tokens : /\ sessions[t].status # "absent"
                                /\ sessionExpired(sessions[t], at)}
        kept == [t \in Tokens |-> IF t \in late THEN markExpired(sessions[t])
                                                ELSE sessions[t]]
    IN  /\ sessions' = kept
        /\ processes' = Unbind(late)
        /\ locked' = (locked \/ ActiveAt(kept, now) = {})
        /\ UNCHANGED <<degraded, envVars, histVars>>

\* PruneExpired, the first half of IsLocked, ActiveCount, Snapshot and
\* LeaseSnapshot, and of the daemon's stop.
PruneExpired(at) ==
    LET late == {t \in Tokens : /\ sessions[t].status # "absent"
                                /\ sessionExpired(sessions[t], at)}
        kept == [t \in Tokens |-> IF t \in late THEN markExpired(sessions[t])
                                                ELSE sessions[t]]
    IN  /\ sessions' = kept
        /\ processes' = Unbind(late)
        /\ locked' = (locked \/ ActiveAt(kept, at) = {})
        /\ UNCHANGED <<degraded, envVars, histVars>>

\* RevokeLease with lease ids -> RevokeLeaseID
RevokeLeaseID(t) ==
    /\ Live(sessions[t])
    /\ IF sessionExpired(sessions[t], now)
       THEN /\ sessions' = [sessions EXCEPT ![t] = markExpired(@)]
            /\ UNCHANGED processes
       ELSE /\ sessions' = [sessions EXCEPT ![t] = Revoked(@)]
            /\ processes' = Unbind({t})
    /\ UNCHANGED <<locked, degraded, envVars, histVars>>

\* RevokeLease with all_for_consumer -> RevokeAllForConsumer
RevokeAllForConsumer(consumer) ==
    LET late == {t \in Tokens : /\ Live(sessions[t])
                                /\ sessionExpired(sessions[t], now)}
        mine == {t \in ActiveAt(sessions, now) : sessions[t].consumer = consumer}
    IN  /\ sessions' = [t \in Tokens |->
               IF t \in late THEN markExpired(sessions[t])
               ELSE IF t \in mine THEN Revoked(sessions[t])
               ELSE sessions[t]]
        /\ processes' = Unbind(mine)
        /\ UNCHANGED <<locked, degraded, envVars, histVars>>

\* RegisterProcess: the handler's peer check, then the store's.  `peer' is
\* the pid the kernel attests for the socket, `lineage' what processLineage
\* says of p, `probe' the identity read before the lock (0: the probe
\* failed), which may be that of an earlier process with the same pid.
RegisterProcess(t, p, peer, lineage, probe, at) ==
    /\ lineage[1] = p
    /\ \E i \in 1..Len(lineage) : lineage[i] = peer
    /\ Live(sessions[t])
    /\ IF sessionExpired(sessions[t], at)
       THEN /\ sessions' = [sessions EXCEPT ![t] = markExpired(@)]
            /\ UNCHANGED <<processes, degraded, enrolled>>
       ELSE /\ UNCHANGED sessions
            /\ IF probe = 0
               THEN degraded' = TRUE /\ UNCHANGED <<processes, enrolled>>
               ELSE /\ processes' = [processes EXCEPT
                           ![p] = [token |-> t, identity |-> probe]]
                    /\ enrolled' = enrolled \cup {<<t, p, probe>>}
                    /\ UNCHANGED degraded
    /\ UNCHANGED <<locked, envVars, served>>

\* Mutant: any identity will do as long as the probe succeeds.
Matches_AnyIdentity(p, failing) == p \notin failing

\* A binding ResolveProcess accepts: the recheck succeeds, names the
\* registered process, and the session is alive.  The recheck of the pids in
\* `failing' gives no identity.
Matches(p, failing) ==
    p \notin failing /\ processes[p].identity = generation[p]

Usable(p, failing, at) ==
    /\ processes[p].token # NoToken
    /\ Matches(p, failing)
    /\ Live(sessions[processes[p].token])
    /\ ~sessionExpired(sessions[processes[p].token], at)

\* ResolveProcess: the first usable ancestor wins, and every bound ancestor
\* passed over on the way loses its binding.
ResolveProcess(lineage, failing, at) ==
    LET usable == {i \in 1..Len(lineage) : Usable(lineage[i], failing, at)}
        passed == {i \in 1..Len(lineage) :
                      /\ processes[lineage[i]].token # NoToken
                      /\ \A j \in usable : i < j}
        stale  == {lineage[i] : i \in passed}
        late   == {processes[p].token : p \in {q \in stale : Matches(q, failing)}}
    IN  /\ processes' = [p \in Pids |-> IF p \in stale THEN Unbound
                                                       ELSE processes[p]]
        /\ degraded' = (degraded \/ stale \cap failing # {})
        /\ \/ /\ usable = {}
              /\ sessions' = [t \in Tokens |-> IF t \in late
                                  THEN markExpired(sessions[t]) ELSE sessions[t]]
              /\ UNCHANGED served
           \/ \E i \in usable :
                /\ \A j \in usable : i <= j
                /\ sessions' = [t \in Tokens |->
                       IF t = processes[lineage[i]].token
                       THEN [sessions[t] EXCEPT !.lastSeenAt = at]
                       ELSE IF t \in late THEN markExpired(sessions[t])
                       ELSE sessions[t]]
                /\ served' = <<processes[lineage[i]].token, lineage[i],
                               generation[lineage[i]]>>
        /\ UNCHANGED <<locked, envVars, enrolled>>

-----------------------------------------------------------------------------
(* The environment: time passes, and the system reuses a pid. *)

Tick == /\ now < MaxTime
        /\ now' = now + 1
        /\ UNCHANGED <<storeVars, generation, histVars>>

RecyclePid(p) == /\ generation[p] < MaxGen
                 /\ generation' = [generation EXCEPT ![p] = @ + 1]
                 /\ UNCHANGED <<storeVars, now, histVars>>

-----------------------------------------------------------------------------
Init ==
    /\ sessions = [t \in Tokens |-> Absent]
    /\ processes = [p \in Pids |-> Unbound]
    /\ locked = TRUE
    /\ degraded = FALSE
    /\ now = 0
    /\ generation = [p \in Pids |-> 1]
    /\ enrolled = {}
    /\ served = Nobody

SessionOp ==
    \/ \E t \in Tokens, c \in Consumers, ttl \in TTLs, at \in 0..now :
          OpenSession(t, c, ttl, at)
    \/ \E t \in Tokens, at \in 0..now : Resolve(t, at)
    \/ \E t \in Tokens : Revoke(t)
    \/ RevokeAll
    \/ \E at \in 0..now : PruneExpired(at)
    \/ \E t \in Tokens : RevokeLeaseID(t)
    \/ \E c \in Consumers : RevokeAllForConsumer(c)

ProcessOp ==
    \/ \E t \in Tokens, lineage \in Lineages, at \in 0..now :
          \E i \in 1..Len(lineage), probe \in 0..generation[lineage[1]] :
             RegisterProcess(t, lineage[1], lineage[i], lineage, probe, at)
    \/ \E lineage \in Lineages, failing \in SUBSET Pids, at \in 0..now :
          ResolveProcess(lineage, failing, at)

Environment == Tick \/ \E p \in Pids : RecyclePid(p)

Next == SessionOp \/ ProcessOp \/ Environment

Spec == Init /\ [][Next]_vars

-----------------------------------------------------------------------------
(* Properties *)

\* Every variable holds a value of the shape its Go counterpart has.
TypeOK ==
    /\ sessions \in [Tokens -> Session]
    /\ processes \in [Pids -> Binding]
    /\ locked \in BOOLEAN
    /\ degraded \in BOOLEAN
    /\ now \in Nat
    /\ generation \in [Pids -> Nat]
    /\ enrolled \subseteq Tokens \X Pids \X Nat
    /\ served \in (Tokens \X Pids \X Nat) \cup {Nobody}

\* A locked vault has no usable session: whatever mixture of lock, prune,
\* open and approval requests runs, and however old the clock readings they
\* carry, SessionStore.locked is never TRUE beside a session without a
\* tombstone.
LockedHasNoLiveSession ==
    locked => \A t \in Tokens : ~Live(sessions[t])

\* No process stays bound to a revoked session (or to one that never
\* existed): every revocation path of sessions.go also drops the bindings.
BindingsNeverRevoked ==
    \A p \in Pids : processes[p].token # NoToken =>
        sessions[processes[p].token].status \in {"active", "expired"}

\* Pid reuse: ResolveProcess hands a session out only through a process that
\* registered for it itself, never through a later process that was given
\* the same pid.
ServedWasEnrolled == served # Nobody => served \in enrolled

\* A tombstone is final: no later open, lookup, prune or revocation changes
\* a session that was revoked or expired.
TombstonesFinal ==
    [][\A t \in Tokens : sessions[t].status \in {"revoked", "expired"}
           => sessions'[t] = sessions[t]]_vars

\* No use extends a session past its limits: ExpiresAt never moves, and a
\* lookup that refreshes LastSeenAt falls within the idle timeout of the
\* previous use and within the time to live.
NoLateTouch ==
    [][\A t \in Tokens : Live(sessions[t]) =>
           /\ sessions'[t].expiresAt = sessions[t].expiresAt
           /\ sessions'[t].lastSeenAt # sessions[t].lastSeenAt =>
                /\ sessions'[t].lastSeenAt <= sessions[t].expiresAt
                /\ IdleTTL > 0 => sessions'[t].lastSeenAt
                                    <= sessions[t].lastSeenAt + IdleTTL]_vars
=============================================================================
