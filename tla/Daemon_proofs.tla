---------------------------- MODULE Daemon_proofs ----------------------------
(***************************************************************************)
(* Proofs about what the daemon keeps for its callers: the session store   *)
(* (SessionStore), for any tokens, pids, lineages and timeouts; approvals, *)
(* leases and the vault lock above it (ApprovalBroker), for any number of  *)
(* approvals and of handlers deciding them at the same time; and the audit *)
(* log (AuditLog), for any number of commands that append to it beside the *)
(* daemon.                                                                 *)
(***************************************************************************)
EXTENDS ApprovalBroker, AuditLog, FiniteSetTheorems, SequenceTheorems, TLAPS

\* A binding is made only by a registration, whose identity it carries.
BindingsEnrolled ==
    \A p \in Pids : processes[p].token # NoToken =>
        <<processes[p].token, p, processes[p].identity>> \in enrolled

\* The inductive invariant.  BindingsNeverRevoked needs nothing else;
\* ServedWasEnrolled follows from BindingsEnrolled when a lookup succeeds.
IInv == /\ TypeOK
        /\ LockedHasNoLiveSession
        /\ BindingsNeverRevoked
        /\ BindingsEnrolled
        /\ ServedWasEnrolled

-----------------------------------------------------------------------------
(* The record operations keep the shape of a session. *)

\* What an existing session keeps: it still exists, for the same holder.
SameTerms(new, old) == /\ new.status # "absent"
                       /\ new.consumer = old.consumer
                       /\ new.lease = old.lease

LEMMA NewSessionType ==
    ASSUME NEW c \in Consumers, NEW ttl \in Nat, NEW at \in Nat,
           NEW lease \in Leases \cup {NoLease}
    PROVE  NewSession(c, ttl, lease, at) \in Session
BY DEF NewSession, Session, Status

LEMMA EndedType ==
    ASSUME NEW s \in Session
    PROVE  /\ markExpired(s) \in Session
           /\ ~Live(markExpired(s))
           /\ Revoked(s) \in Session
           /\ Revoked(s).status = "revoked"
           /\ ~Live(s) => markExpired(s) = s
           /\ Live(s) => markExpired(s).status = "expired"
           /\ markExpired(s).expiresAt = s.expiresAt
           /\ markExpired(s).lastSeenAt = s.lastSeenAt
           /\ Live(s) => SameTerms(markExpired(s), s)
           /\ SameTerms(Revoked(s), s)
           /\ Revoked(s).expiresAt = s.expiresAt
           /\ Revoked(s).lastSeenAt = s.lastSeenAt
BY DEF markExpired, Revoked, Live, Session, Status, SameTerms

LEMMA ClampType ==
    ASSUME NEW ttl \in Nat PROVE ClampTTL(ttl) \in Nat \ {0}
BY TimeAssumption DEF ClampTTL

LEMMA UnbindType ==
    ASSUME TypeOK, NEW T
    PROVE  /\ Unbind(T) \in [Pids -> Binding]
           /\ \A p \in Pids : Unbind(T)[p].token # NoToken =>
                 Unbind(T)[p] = processes[p] /\ processes[p].token \notin T
BY DEF Unbind, Unbound, TypeOK, Binding

-----------------------------------------------------------------------------
(* One lemma per operation: it preserves the inductive invariant. *)

\* The step of an operation that ends some sessions, drops some bindings and
\* may lock the vault.  Sessions are only ever replaced by their tombstones.
LEMMA EndingStep ==
    ASSUME IInv,
           UNCHANGED <<degraded, envVars, histVars>>,
           sessions' \in [Tokens -> Session],
           locked' \in BOOLEAN,
           \A t \in Tokens : Live(sessions'[t]) => Live(sessions[t]),
           \A t \in Tokens : sessions'[t].status \in {"absent", "revoked"}
                               => sessions'[t].status = sessions[t].status
                                  \/ \A p \in Pids : processes'[p].token # t,
           processes' \in [Pids -> Binding],
           \A p \in Pids : processes'[p].token # NoToken
                             => processes'[p] = processes[p],
           locked' => locked \/ \A t \in Tokens : ~Live(sessions'[t])
    PROVE  IInv'
<1>1. TypeOK'
  BY DEF IInv, TypeOK, envVars, histVars
<1>2. LockedHasNoLiveSession'
  BY DEF IInv, LockedHasNoLiveSession
<1>3. BindingsNeverRevoked'
  <2> SUFFICES ASSUME NEW p \in Pids, processes'[p].token # NoToken
               PROVE  sessions'[processes'[p].token].status \in {"active", "expired"}
    BY DEF BindingsNeverRevoked
  <2> DEFINE t == processes'[p].token
  <2>1. t \in Tokens /\ processes'[p] = processes[p]
    BY DEF Binding
  <2>2. sessions[t].status \in {"active", "expired"}
    BY <2>1 DEF IInv, BindingsNeverRevoked
  <2>3. sessions'[t].status \in Status
    BY <2>1 DEF Session
  <2> QED BY <2>1, <2>2, <2>3 DEF Status
<1>4. BindingsEnrolled'
  BY DEF IInv, BindingsEnrolled, histVars
<1>5. ServedWasEnrolled'
  BY DEF IInv, ServedWasEnrolled, histVars
<1> QED BY <1>1, <1>2, <1>3, <1>4, <1>5 DEF IInv

LEMMA OpenStep ==
    ASSUME IInv, NEW t \in Tokens, NEW c \in Consumers, NEW ttl \in Nat,
           NEW at \in Nat, OpenSession(t, c, ttl, at)
    PROVE  IInv'
<1> DEFINE new == NewSession(c, ClampTTL(ttl), NoLease, at)
<1>1. new \in Session /\ Live(new)
  BY NewSessionType, ClampType DEF NewSession, Live
<1>2. sessions' = [sessions EXCEPT ![t] = new] /\ sessions \in [Tokens -> Session]
  BY DEF OpenSession, IInv, TypeOK
<1>3. TypeOK'
  BY <1>1, <1>2 DEF IInv, TypeOK, OpenSession, envVars, histVars
<1>4. BindingsNeverRevoked'
  <2> SUFFICES ASSUME NEW p \in Pids, processes[p].token # NoToken
               PROVE  sessions'[processes[p].token].status \in {"active", "expired"}
    BY DEF BindingsNeverRevoked, OpenSession
  <2>1. processes[p].token \in Tokens
    BY DEF IInv, TypeOK, Binding
  <2>2. processes[p].token # t
    BY DEF IInv, BindingsNeverRevoked, OpenSession
  <2> QED BY <1>2, <2>1, <2>2 DEF IInv, BindingsNeverRevoked
<1>5. LockedHasNoLiveSession' /\ BindingsEnrolled' /\ ServedWasEnrolled'
  BY DEF IInv, OpenSession, LockedHasNoLiveSession, BindingsEnrolled,
         ServedWasEnrolled, histVars
<1> QED BY <1>3, <1>4, <1>5 DEF IInv

LEMMA ResolveStep ==
    ASSUME IInv, NEW t \in Tokens, NEW at \in Nat, Resolve(t, at)
    PROVE  IInv'
<1> DEFINE new == IF sessionExpired(sessions[t], at) THEN markExpired(sessions[t])
                  ELSE [sessions[t] EXCEPT !.lastSeenAt = at]
<1>0. sessions \in [Tokens -> Session] /\ sessions[t] \in Session
  BY DEF IInv, TypeOK
<1>1. new \in Session /\ new.status \in {"active", "expired"}
  BY <1>0, EndedType DEF Resolve, Session, Live
<1>2. sessions' = [sessions EXCEPT ![t] = new]
  BY DEF Resolve
<1>3. sessions' \in [Tokens -> Session]
  BY <1>0, <1>1, <1>2
<1> QED BY <1>0, <1>1, <1>2, <1>3, EndingStep DEF Resolve, Live, IInv, TypeOK

LEMMA RevokeStep ==
    ASSUME IInv, NEW t \in Tokens, Revoke(t)
    PROVE  IInv'
<1>0. sessions \in [Tokens -> Session] /\ sessions[t] \in Session
  BY DEF IInv, TypeOK
<1>1. sessions' = [sessions EXCEPT ![t] = Revoked(sessions[t])]
  BY DEF Revoke
<1>2. sessions' \in [Tokens -> Session]
  BY <1>0, <1>1, EndedType
<1>3. processes' = Unbind({t}) /\ TypeOK
  BY DEF Revoke, IInv
<1>4. t # NoToken
  BY NameAssumption
<1> QED BY <1>0, <1>1, <1>2, <1>3, <1>4, EndedType, UnbindType, EndingStep
        DEF Revoke, Live, IInv, TypeOK

LEMMA RevokeLeaseIDStep ==
    ASSUME IInv, NEW t \in Tokens, RevokeLeaseID(t)
    PROVE  IInv'
<1>0. sessions \in [Tokens -> Session] /\ sessions[t] \in Session
  BY DEF IInv, TypeOK
<1>1. CASE sessionExpired(sessions[t], now)
  <2>1. sessions' = [sessions EXCEPT ![t] = markExpired(sessions[t])]
    BY <1>1 DEF RevokeLeaseID
  <2>2. sessions' \in [Tokens -> Session]
    BY <1>0, <2>1, EndedType
  <2> QED BY <1>0, <1>1, <2>1, <2>2, EndedType, EndingStep
          DEF RevokeLeaseID, Live, IInv, TypeOK
<1>2. CASE ~sessionExpired(sessions[t], now)
  <2>1. Revoke(t)
    BY <1>2 DEF RevokeLeaseID, Revoke
  <2> QED BY <2>1, RevokeStep
<1> QED BY <1>1, <1>2

LEMMA RevokeAllStep ==
    ASSUME IInv, RevokeAll
    PROVE  IInv'
<1>0. sessions \in [Tokens -> Session] /\ TypeOK
  BY DEF IInv, TypeOK
<1>1. \A t \in Tokens : sessions'[t] \in Session /\ ~Live(sessions'[t])
  BY <1>0, EndedType DEF RevokeAll, Live
<1>2. sessions' \in [Tokens -> Session]
  BY <1>1 DEF RevokeAll
<1>3. \A t \in Tokens : t # NoToken
  BY NameAssumption
<1>4. processes' \in [Pids -> Binding] /\ \A p \in Pids : processes'[p].token = NoToken
  BY DEF RevokeAll, Unbound, Binding
<1>5. locked' \in BOOLEAN
  BY DEF RevokeAll
<1>6. UNCHANGED <<degraded, envVars, histVars>>
  BY DEF RevokeAll
<1> QED BY <1>1, <1>2, <1>3, <1>4, <1>5, <1>6, EndingStep

LEMMA PruneStep ==
    ASSUME IInv, NEW at \in Nat, PruneExpired(at)
    PROVE  IInv'
<1> DEFINE late == {t \in Tokens : /\ sessions[t].status # "absent"
                                   /\ sessionExpired(sessions[t], at)}
<1>0. sessions \in [Tokens -> Session] /\ TypeOK
  BY DEF IInv, TypeOK
<1>1. sessions' = [t \in Tokens |-> IF t \in late THEN markExpired(sessions[t])
                                                  ELSE sessions[t]]
  BY DEF PruneExpired
<1>2. \A t \in Tokens : /\ sessions'[t] \in Session
                        /\ Live(sessions'[t]) => Live(sessions[t]) /\ t \notin late
                        /\ sessions'[t].status \in {"absent", "revoked"}
                             => sessions'[t].status = sessions[t].status
  BY <1>0, <1>1, EndedType DEF Live
<1>3. sessions' \in [Tokens -> Session]
  BY <1>1, <1>2
<1>4. /\ processes' \in [Pids -> Binding]
      /\ \A p \in Pids : processes'[p].token # NoToken => processes'[p] = processes[p]
  <2>1. processes' = Unbind(late)
    BY DEF PruneExpired
  <2> QED BY <1>0, <2>1, UnbindType
<1>5. /\ locked' \in BOOLEAN
      /\ locked' => locked \/ \A t \in Tokens : ~Live(sessions'[t])
  <2>1. locked' = (locked \/ ActiveAt(sessions', at) = {})
    BY <1>1 DEF PruneExpired
  <2>2. \A t \in Tokens : Live(sessions'[t]) => ~sessionExpired(sessions'[t], at)
    <3> SUFFICES ASSUME NEW t \in Tokens, Live(sessions'[t])
                 PROVE  ~sessionExpired(sessions'[t], at)
      OBVIOUS
    <3>1. Live(sessions[t]) /\ t \notin late
      BY <1>2
    <3>2. sessions'[t] = sessions[t]
      BY <1>1, <3>1
    <3> QED BY <3>1, <3>2 DEF Live
  <2> QED BY <2>1, <2>2 DEF ActiveAt
<1>6. UNCHANGED <<degraded, envVars, histVars>>
  BY DEF PruneExpired
<1> QED BY <1>2, <1>3, <1>4, <1>5, <1>6, EndingStep

LEMMA RevokeConsumerStep ==
    ASSUME IInv, NEW c \in Consumers, RevokeAllForConsumer(c)
    PROVE  IInv'
<1> DEFINE late == {t \in Tokens : Live(sessions[t]) /\ sessionExpired(sessions[t], now)}
           mine == {t \in ActiveAt(sessions, now) : sessions[t].consumer = c}
<1>0. sessions \in [Tokens -> Session] /\ TypeOK
  BY DEF IInv, TypeOK
<1>1. sessions' = [t \in Tokens |-> IF t \in late THEN markExpired(sessions[t])
                                    ELSE IF t \in mine THEN Revoked(sessions[t])
                                    ELSE sessions[t]]
  BY DEF RevokeAllForConsumer
<1>2. \A t \in Tokens : /\ sessions'[t] \in Session
                        /\ Live(sessions'[t]) => Live(sessions[t])
                        /\ sessions'[t].status \in {"absent", "revoked"}
                             => sessions'[t].status = sessions[t].status \/ t \in mine
  BY <1>0, <1>1, EndedType DEF Live
<1>3. sessions' \in [Tokens -> Session]
  BY <1>1, <1>2
<1>4. /\ processes' \in [Pids -> Binding]
      /\ \A p \in Pids : processes'[p].token # NoToken =>
            processes'[p] = processes[p] /\ processes[p].token \notin mine
  <2>1. processes' = Unbind(mine)
    BY DEF RevokeAllForConsumer
  <2> QED BY <1>0, <2>1, UnbindType
<1>5. \A t \in mine : \A p \in Pids : processes'[p].token # t
  <2>1. \A t \in mine : t # NoToken
    BY NameAssumption DEF ActiveAt
  <2> QED BY <1>4, <2>1
<1>6. locked' \in BOOLEAN /\ (locked' => locked)
  BY <1>0 DEF RevokeAllForConsumer, TypeOK
<1>7. UNCHANGED <<degraded, envVars, histVars>>
  BY DEF RevokeAllForConsumer
<1> QED BY <1>2, <1>3, <1>4, <1>5, <1>6, <1>7, EndingStep

LEMMA RegisterStep ==
    ASSUME IInv, NEW t \in Tokens, NEW p \in Pids, NEW peer \in Pids,
           NEW lineage, NEW probe \in Nat, NEW at \in Nat,
           RegisterProcess(t, p, peer, lineage, probe, at)
    PROVE  IInv'
<1>0. sessions \in [Tokens -> Session] /\ TypeOK /\ sessions[t] \in Session
  BY DEF IInv, TypeOK
<1>1. CASE sessionExpired(sessions[t], at)
  <2>1. sessions' = [sessions EXCEPT ![t] = markExpired(sessions[t])]
    BY <1>1 DEF RegisterProcess
  <2>2. sessions' \in [Tokens -> Session]
    BY <1>0, <2>1, EndedType
  <2>3. UNCHANGED <<processes, degraded, locked, envVars, histVars>>
    BY <1>1 DEF RegisterProcess, histVars
  <2> QED BY <1>0, <2>1, <2>2, <2>3, EndedType, EndingStep
          DEF RegisterProcess, Live, IInv, TypeOK
<1>2. CASE ~sessionExpired(sessions[t], at) /\ probe = 0
  <2>1. UNCHANGED <<sessions, processes, locked, envVars, histVars>> /\ degraded' = TRUE
    BY <1>2 DEF RegisterProcess, histVars
  <2> QED BY <2>1 DEF IInv, TypeOK, LockedHasNoLiveSession, BindingsNeverRevoked,
                      BindingsEnrolled, ServedWasEnrolled, envVars, histVars
<1>3. CASE ~sessionExpired(sessions[t], at) /\ probe # 0
  <2> DEFINE b == [token |-> t, identity |-> probe]
  <2>1. /\ processes' = [processes EXCEPT ![p] = b]
        /\ enrolled' = enrolled \cup {<<t, p, probe>>}
        /\ UNCHANGED <<sessions, locked, degraded, envVars, served>>
    BY <1>3 DEF RegisterProcess
  <2>2. b \in Binding /\ b.token = t /\ b.identity = probe
    BY DEF Binding
  <2>3. TypeOK'
    BY <1>0, <2>1, <2>2 DEF TypeOK, envVars
  <2>4. LockedHasNoLiveSession'
    BY <2>1 DEF IInv, LockedHasNoLiveSession
  <2>5. \A q \in Pids : processes'[q] = IF q = p THEN b ELSE processes[q]
    BY <1>0, <2>1 DEF TypeOK
  <2>6. BindingsNeverRevoked'
    BY <2>1, <2>2, <2>5 DEF IInv, BindingsNeverRevoked, RegisterProcess, Live
  <2>7. BindingsEnrolled'
    BY <2>1, <2>2, <2>5 DEF IInv, BindingsEnrolled
  <2>8. ServedWasEnrolled'
    BY <2>1 DEF IInv, ServedWasEnrolled
  <2> QED BY <2>3, <2>4, <2>6, <2>7, <2>8 DEF IInv
<1> QED BY <1>1, <1>2, <1>3

LEMMA ResolveProcessStep ==
    ASSUME IInv, NEW lineage \in Seq(Pids), NEW failing \in SUBSET Pids,
           NEW at \in Nat, ResolveProcess(lineage, failing, at)
    PROVE  IInv'
<1> DEFINE usable == {i \in 1..Len(lineage) : Usable(lineage[i], failing, at)}
           passed == {i \in 1..Len(lineage) :
                         /\ processes[lineage[i]].token # NoToken
                         /\ \A j \in usable : i < j}
           stale  == {lineage[i] : i \in passed}
           late   == {processes[p].token : p \in {q \in stale : Matches(q, failing)}}
<1>0. TypeOK /\ sessions \in [Tokens -> Session] /\ processes \in [Pids -> Binding]
  BY DEF IInv, TypeOK
<1>1. processes' = [p \in Pids |-> IF p \in stale THEN Unbound ELSE processes[p]]
  BY DEF ResolveProcess
<1>2. processes' \in [Pids -> Binding]
  BY <1>0, <1>1 DEF Unbound, Binding
<1>3. \A p \in Pids : processes'[p].token # NoToken => processes'[p] = processes[p]
  BY <1>1 DEF Unbound
<1>4. UNCHANGED <<locked, envVars, enrolled>>
  BY DEF ResolveProcess
<1>5. degraded' \in BOOLEAN
  BY <1>0 DEF ResolveProcess, TypeOK
<1> DEFINE Kept ==
      /\ sessions' \in [Tokens -> Session]
      /\ \A t \in Tokens : Live(sessions'[t]) => Live(sessions[t])
      /\ \A t \in Tokens : sessions'[t].status \in {"absent", "revoked"}
                             => sessions'[t].status = sessions[t].status
      /\ served' = served \/ served' \in enrolled
<1>6. Kept
  <2>1. CASE /\ usable = {}
             /\ sessions' = [t \in Tokens |-> IF t \in late
                                 THEN markExpired(sessions[t]) ELSE sessions[t]]
             /\ UNCHANGED served
    <3>1. \A t \in Tokens : /\ sessions'[t] \in Session
                            /\ Live(sessions'[t]) => Live(sessions[t])
                            /\ sessions'[t].status \in {"absent", "revoked"}
                                 => sessions'[t].status = sessions[t].status
      BY <1>0, <2>1, EndedType DEF Live
    <3> QED BY <2>1, <3>1
  <2>2. ASSUME NEW i \in usable,
               sessions' = [t \in Tokens |->
                   IF t = processes[lineage[i]].token
                   THEN [sessions[t] EXCEPT !.lastSeenAt = at]
                   ELSE IF t \in late THEN markExpired(sessions[t])
                   ELSE sessions[t]],
               served' = <<processes[lineage[i]].token, lineage[i],
                           generation[lineage[i]]>>
        PROVE  Kept
    <3>1. lineage[i] \in Pids
      OBVIOUS
    <3>2. /\ processes[lineage[i]].token # NoToken
          /\ processes[lineage[i]].identity = generation[lineage[i]]
      BY DEF Usable, Matches
    <3>3. served' \in enrolled
      BY <2>2, <3>1, <3>2 DEF IInv, BindingsEnrolled
    <3>4. \A s \in Session : /\ [s EXCEPT !.lastSeenAt = at] \in Session
                             /\ [s EXCEPT !.lastSeenAt = at].status = s.status
      BY DEF Session
    <3>5. \A t \in Tokens : /\ sessions'[t] \in Session
                            /\ Live(sessions'[t]) => Live(sessions[t])
                            /\ sessions'[t].status \in {"absent", "revoked"}
                                 => sessions'[t].status = sessions[t].status
      BY <1>0, <2>2, <3>4, EndedType DEF Live
    <3> QED BY <2>2, <3>3, <3>5
  <2> QED BY <2>1, <2>2 DEF ResolveProcess
<1>7. TypeOK'
  BY <1>0, <1>2, <1>4, <1>5, <1>6 DEF TypeOK, envVars
<1>8. LockedHasNoLiveSession'
  BY <1>4, <1>6 DEF IInv, LockedHasNoLiveSession
<1>9. BindingsNeverRevoked'
  <2> SUFFICES ASSUME NEW p \in Pids, processes'[p].token # NoToken
               PROVE  sessions'[processes'[p].token].status \in {"active", "expired"}
    BY DEF BindingsNeverRevoked
  <2> DEFINE t == processes'[p].token
  <2>1. t \in Tokens /\ processes'[p] = processes[p]
    BY <1>2, <1>3 DEF Binding
  <2>2. sessions[t].status \in {"active", "expired"}
    BY <2>1 DEF IInv, BindingsNeverRevoked
  <2>3. sessions'[t].status \in Status
    BY <1>6, <2>1 DEF Session
  <2> QED BY <1>6, <2>1, <2>2, <2>3 DEF Status
<1>10. BindingsEnrolled'
  BY <1>3, <1>4 DEF IInv, BindingsEnrolled
<1>11. ServedWasEnrolled'
  BY <1>4, <1>6 DEF IInv, ServedWasEnrolled
<1> QED BY <1>7, <1>8, <1>9, <1>10, <1>11 DEF IInv

LEMMA EnvironmentStep ==
    ASSUME IInv, Environment
    PROVE  IInv'
<1>1. UNCHANGED <<storeVars, histVars>>
  BY DEF Environment, Tick, RecyclePid
<1>2. now' \in Nat /\ generation' \in [Pids -> Nat]
  BY DEF IInv, TypeOK, Environment, Tick, RecyclePid
<1> QED BY <1>1, <1>2 DEF IInv, TypeOK, LockedHasNoLiveSession, BindingsNeverRevoked,
                          BindingsEnrolled, ServedWasEnrolled, storeVars, histVars

-----------------------------------------------------------------------------
(* The invariant is inductive. *)

LEMMA InitIInv == Init => IInv
<1> SUFFICES ASSUME Init PROVE IInv
  OBVIOUS
<1>1. Absent \in Session /\ ~Live(Absent)
  BY DEF Absent, Session, Status, Live
<1>2. Unbound \in Binding /\ Unbound.token = NoToken
  BY DEF Unbound, Binding
<1>3. TypeOK
  BY <1>1, <1>2 DEF Init, TypeOK
<1>4. LockedHasNoLiveSession
  BY <1>1 DEF Init, LockedHasNoLiveSession
<1>5. BindingsNeverRevoked /\ BindingsEnrolled
  BY <1>2 DEF Init, BindingsNeverRevoked, BindingsEnrolled
<1> QED BY <1>3, <1>4, <1>5 DEF Init, IInv, ServedWasEnrolled

LEMMA NextIInv == IInv /\ [Next]_vars => IInv'
<1> SUFFICES ASSUME IInv, [Next]_vars PROVE IInv'
  OBVIOUS
<1> now \in Nat /\ generation \in [Pids -> Nat] /\ TTLs \subseteq Nat
  BY TimeAssumption DEF IInv, TypeOK
<1>1. CASE SessionOp
  <2>1. ASSUME NEW t \in Tokens, NEW c \in Consumers, NEW ttl \in TTLs,
               NEW at \in 0..now, OpenSession(t, c, ttl, at)
        PROVE  IInv'
    BY <2>1, OpenStep
  <2>2. ASSUME NEW t \in Tokens, NEW at \in 0..now, Resolve(t, at)
        PROVE  IInv'
    BY <2>2, ResolveStep
  <2>3. ASSUME NEW at \in 0..now, PruneExpired(at)
        PROVE  IInv'
    BY <2>3, PruneStep
  <2> QED BY <1>1, <2>1, <2>2, <2>3, RevokeStep, RevokeAllStep, RevokeLeaseIDStep,
             RevokeConsumerStep DEF SessionOp
<1>2. CASE ProcessOp
  <2>1. ASSUME NEW t \in Tokens, NEW lineage \in Lineages, NEW at \in 0..now,
               NEW i \in 1..Len(lineage), NEW probe \in 0..generation[lineage[1]],
               RegisterProcess(t, lineage[1], lineage[i], lineage, probe, at)
        PROVE  IInv'
    <3>1. lineage \in Seq(Pids)
      BY NameAssumption
    <3>2. 1 \in 1..Len(lineage) /\ lineage[1] \in Pids /\ lineage[i] \in Pids
      BY <3>1
    <3>3. probe \in Nat /\ at \in Nat
      BY <3>2
    <3> QED BY <2>1, <3>2, <3>3, RegisterStep
  <2>2. ASSUME NEW lineage \in Lineages, NEW failing \in SUBSET Pids,
               NEW at \in 0..now, ResolveProcess(lineage, failing, at)
        PROVE  IInv'
    <3>1. lineage \in Seq(Pids) /\ at \in Nat
      BY NameAssumption
    <3> QED BY <2>2, <3>1, ResolveProcessStep
  <2> QED BY <1>2, <2>1, <2>2 DEF ProcessOp
<1>3. CASE Environment
  BY <1>3, EnvironmentStep
<1>4. CASE UNCHANGED vars
  BY <1>4 DEF vars, IInv, TypeOK, LockedHasNoLiveSession, BindingsNeverRevoked,
              BindingsEnrolled, ServedWasEnrolled
<1> QED BY <1>1, <1>2, <1>3, <1>4 DEF Next

\* The session table keeps its inductive invariant in every behaviour.
THEOREM StoreInvariant == Spec => []IInv
BY InitIInv, NextIInv, PTL DEF Spec

\* Every variable of the daemon's session table keeps its type.
THEOREM StoreTypeCorrect == Spec => []TypeOK
<1>1. IInv => TypeOK
  BY DEF IInv
<1> QED BY <1>1, StoreInvariant, PTL

\* For any number of sessions and any clock skew between requests, a locked
\* vault has no session without a tombstone.
THEOREM LockedSafe == Spec => []LockedHasNoLiveSession
<1>1. IInv => LockedHasNoLiveSession
  BY DEF IInv
<1> QED BY <1>1, StoreInvariant, PTL

\* No revocation path leaves a process bound to the session it revoked.
THEOREM BindingsSafe == Spec => []BindingsNeverRevoked
<1>1. IInv => BindingsNeverRevoked
  BY DEF IInv
<1> QED BY <1>1, StoreInvariant, PTL

\* However pids are recycled and lineages race with them, a lookup by pid
\* only serves a process that registered itself.
THEOREM PidReuseSafe == Spec => []ServedWasEnrolled
<1>1. IInv => ServedWasEnrolled
  BY DEF IInv
<1> QED BY <1>1, StoreInvariant, PTL

-----------------------------------------------------------------------------
(* What a step may do to one session. *)

\* Each operation leaves a session alone, opens an absent one, ends a live
\* one, or refreshes LastSeenAt of one that has not expired.
Untouched(t) == sessions'[t] = sessions[t]

Opened(t) == /\ sessions[t].status = "absent"
             /\ sessions'[t].status = "active"
             /\ sessions'[t].lease = NoLease

Ended(t) == /\ Live(sessions[t])
            /\ SameTerms(sessions'[t], sessions[t])
            /\ sessions'[t].expiresAt = sessions[t].expiresAt
            /\ sessions'[t].lastSeenAt = sessions[t].lastSeenAt

Refreshed(t) == /\ Live(sessions[t])
                /\ SameTerms(sessions'[t], sessions[t])
                /\ sessions'[t].expiresAt = sessions[t].expiresAt
                /\ sessions'[t].lastSeenAt <= sessions[t].expiresAt
                /\ IdleTTL > 0 => sessions'[t].lastSeenAt
                                     <= sessions[t].lastSeenAt + IdleTTL

SessionStep(t) == Untouched(t) \/ Opened(t) \/ Ended(t) \/ Refreshed(t)

LEMMA TouchedInTime ==
    ASSUME NEW s \in Session, NEW at \in Nat, Live(s), ~sessionExpired(s, at)
    PROVE  LET u == [s EXCEPT !.lastSeenAt = at] IN
           /\ SameTerms(u, s)
           /\ u.expiresAt = s.expiresAt
           /\ u.lastSeenAt <= s.expiresAt
           /\ IdleTTL > 0 => u.lastSeenAt <= s.lastSeenAt + IdleTTL
BY TimeAssumption DEF Session, sessionExpired, SameTerms, Live

LEMMA EveryStep ==
    ASSUME TypeOK, [Next]_vars, NEW t \in Tokens
    PROVE  SessionStep(t)
<1>0. sessions \in [Tokens -> Session] /\ sessions[t] \in Session /\ now \in Nat
  BY DEF TypeOK
<1>1. ASSUME NEW u \in Tokens, NEW c \in Consumers, NEW ttl \in TTLs,
             NEW at \in 0..now, OpenSession(u, c, ttl, at)
      PROVE  SessionStep(t)
  BY <1>0, <1>1 DEF OpenSession, NewSession, SessionStep, Untouched, Opened
<1>2. ASSUME NEW u \in Tokens, NEW at \in 0..now, Resolve(u, at)
      PROVE  SessionStep(t)
  <2>1. CASE u # t
    BY <1>0, <1>2, <2>1 DEF Resolve, SessionStep, Untouched
  <2>2. CASE u = t /\ sessionExpired(sessions[t], at)
    <3>1. sessions'[t] = markExpired(sessions[t])
      BY <1>0, <1>2, <2>2 DEF Resolve
    <3> QED BY <1>0, <1>2, <2>2, <3>1, EndedType DEF Resolve, SessionStep, Ended
  <2>3. CASE u = t /\ ~sessionExpired(sessions[t], at)
    <3>1. sessions'[t] = [sessions[t] EXCEPT !.lastSeenAt = at]
      BY <1>0, <1>2, <2>3 DEF Resolve
    <3> QED BY <1>0, <1>2, <2>3, <3>1, TouchedInTime
            DEF Resolve, SessionStep, Refreshed
  <2> QED BY <2>1, <2>2, <2>3
<1>3. ASSUME NEW u \in Tokens, Revoke(u)
      PROVE  SessionStep(t)
  BY <1>0, <1>3, EndedType DEF Revoke, SessionStep, Untouched, Ended
<1>4. CASE RevokeAll
  BY <1>0, <1>4, EndedType DEF RevokeAll, SessionStep, Untouched, Ended
<1>5. ASSUME NEW at \in 0..now, PruneExpired(at)
      PROVE  SessionStep(t)
  <2>1. sessions'[t] = sessions[t] \/ sessions'[t] = markExpired(sessions[t])
    BY <1>5 DEF PruneExpired
  <2> QED BY <1>0, <2>1, EndedType DEF SessionStep, Untouched, Ended
<1>6. ASSUME NEW u \in Tokens, RevokeLeaseID(u)
      PROVE  SessionStep(t)
  BY <1>0, <1>6, EndedType DEF RevokeLeaseID, SessionStep, Untouched, Ended
<1>7. ASSUME NEW c \in Consumers, RevokeAllForConsumer(c)
      PROVE  SessionStep(t)
  BY <1>0, <1>7, EndedType
     DEF RevokeAllForConsumer, ActiveAt, SessionStep, Untouched, Ended
<1>8. CASE SessionOp
  BY <1>1, <1>2, <1>3, <1>4, <1>5, <1>6, <1>7, <1>8 DEF SessionOp
<1>9. ASSUME NEW u \in Tokens, NEW p, NEW peer, NEW lineage, NEW probe,
             NEW at \in 0..now, RegisterProcess(u, p, peer, lineage, probe, at)
      PROVE  SessionStep(t)
  BY <1>0, <1>9, EndedType DEF RegisterProcess, SessionStep, Untouched, Ended
<1>10. ASSUME NEW lineage \in Lineages, NEW failing \in SUBSET Pids,
              NEW at \in 0..now, ResolveProcess(lineage, failing, at)
       PROVE  SessionStep(t)
  <2>1. \/ sessions'[t] = sessions[t]
        \/ sessions'[t] = markExpired(sessions[t])
        \/ \E i \in 1..Len(lineage) :
              /\ Usable(lineage[i], failing, at)
              /\ t = processes[lineage[i]].token
              /\ sessions'[t] = [sessions[t] EXCEPT !.lastSeenAt = at]
    BY <1>10 DEF ResolveProcess
  <2>2. CASE sessions'[t] = sessions[t] \/ sessions'[t] = markExpired(sessions[t])
    BY <1>0, <2>2, EndedType DEF SessionStep, Untouched, Ended
  <2>3. ASSUME NEW i \in 1..Len(lineage), Usable(lineage[i], failing, at),
               t = processes[lineage[i]].token,
               sessions'[t] = [sessions[t] EXCEPT !.lastSeenAt = at]
        PROVE  SessionStep(t)
    BY <1>0, <2>3, TouchedInTime DEF Usable, SessionStep, Refreshed
  <2> QED BY <2>1, <2>2, <2>3
<1>11. CASE ProcessOp
  BY <1>9, <1>10, <1>11 DEF ProcessOp
<1>12. CASE Environment \/ UNCHANGED vars
  BY <1>12 DEF Environment, Tick, RecyclePid, storeVars, vars, SessionStep, Untouched
<1> QED BY <1>8, <1>11, <1>12 DEF Next

\* No operation changes the record of a session that has ended.
THEOREM TombstonesStay == Spec => TombstonesFinal
<1>1. TypeOK /\ [Next]_vars =>
        [\A t \in Tokens : sessions[t].status \in {"revoked", "expired"}
            => sessions'[t] = sessions[t]]_vars
  BY EveryStep DEF SessionStep, Untouched, Opened, Ended, Refreshed, Live
<1> QED BY <1>1, StoreTypeCorrect, PTL DEF Spec, TombstonesFinal

\* No use, by token or through a bound process, keeps a session alive past
\* its time to live or past its idle timeout.
THEOREM LimitsHold == Spec => NoLateTouch
<1>1. TypeOK /\ [Next]_vars =>
        [\A t \in Tokens : Live(sessions[t]) =>
           /\ sessions'[t].expiresAt = sessions[t].expiresAt
           /\ sessions'[t].lastSeenAt # sessions[t].lastSeenAt =>
                /\ sessions'[t].lastSeenAt <= sessions[t].expiresAt
                /\ IdleTTL > 0 => sessions'[t].lastSeenAt
                                    <= sessions[t].lastSeenAt + IdleTTL]_vars
  BY EveryStep DEF SessionStep, Untouched, Opened, Ended, Refreshed, Live
<1> QED BY <1>1, StoreTypeCorrect, PTL DEF Spec, NoLateTouch

-----------------------------------------------------------------------------
(* Approvals and leases *)

\* A token that was not handed out yet names no lease.
AbsentHasNoLease ==
    \A t \in Tokens : sessions[t].status = "absent" => sessions[t].lease = NoLease

\* A decision in progress is about an approval that was queued; a grant that
\* carries no prepared lease found its approval already settled.
DecisionsQueued ==
    \A d \in Deciders : decision[d].step # "idle" =>
        /\ decision[d].approval \in Approvals
        /\ approvals[decision[d].approval].status # "none"
        /\ decision[d].since <= now
        /\ decision[d].step = "direct" /\ decision[d].grant =>
              approvals[decision[d].approval].status # "pending"

\* A queued approval was asked for by somebody.
QueuedHasConsumer ==
    \A a \in Approvals : approvals[a].status # "none" =>
        approvals[a].consumer \in Consumers

BInv == /\ IInv
        /\ BrokerTypeOK
        /\ AbsentHasNoLease
        /\ DecisionsQueued
        /\ QueuedHasConsumer
        /\ LeaseIffGranted
        /\ LeaseMatchesRequest

-----------------------------------------------------------------------------
LEMMA BrokerInitBInv == BrokerInit => BInv
<1> SUFFICES ASSUME BrokerInit PROVE BInv
  OBVIOUS
<1>1. IInv
  BY InitIInv DEF BrokerInit
<1>2. Unqueued \in Approval /\ Unqueued.status = "none"
  BY DEF Unqueued, Approval
<1>3. Idle \in Decision /\ Idle.step = "idle"
  BY DEF Idle, Decision
<1>4. BrokerTypeOK
  BY <1>1, <1>2, <1>3 DEF IInv, BrokerTypeOK, BrokerInit
<1>5. \A t \in Tokens : sessions[t].lease = NoLease
  BY DEF BrokerInit, Init, Absent
<1>6. AbsentHasNoLease /\ DecisionsQueued /\ QueuedHasConsumer
  BY <1>2, <1>3, <1>5 DEF BrokerInit, AbsentHasNoLease, DecisionsQueued, QueuedHasConsumer
<1>7. LeaseIffGranted
  BY <1>2, <1>5, NameAssumption DEF BrokerInit, LeaseIffGranted, Approvals
<1>8. LeaseMatchesRequest
  BY <1>5 DEF LeaseMatchesRequest
<1> QED BY <1>1, <1>4, <1>6, <1>7, <1>8 DEF BInv

\* A step of the session store alone keeps every lease with its approval.
LEMMA StoreStepBInv ==
    ASSUME BInv, [Next]_vars, UNCHANGED approvalVars
    PROVE  BInv'
<1>1. IInv'
  BY NextIInv DEF BInv
<1>2. BrokerTypeOK'
  BY <1>1 DEF IInv, BInv, BrokerTypeOK, approvalVars
<1>3. \A t \in Tokens : SessionStep(t)
  BY EveryStep DEF BInv, IInv
<1>4. \A t \in Tokens :
        /\ sessions'[t].lease = sessions[t].lease
        /\ sessions'[t].status = "absent" => sessions[t].status = "absent"
        /\ sessions[t].lease # NoLease =>
              /\ sessions'[t].consumer = sessions[t].consumer
              /\ sessions'[t].expiresAt = sessions[t].expiresAt
  BY <1>3 DEF BInv, AbsentHasNoLease, SessionStep, Untouched, Opened, Ended,
              Refreshed, SameTerms
<1>5. now' \in Nat /\ now <= now'
  <2>0. now \in Nat
    BY DEF BInv, IInv, TypeOK
  <2>1. ASSUME SessionOp PROVE now' = now
    <3>1. UNCHANGED envVars
      BY <2>1, Zenon DEF SessionOp, OpenSession, Resolve, Revoke, RevokeAll,
         PruneExpired, RevokeLeaseID, RevokeAllForConsumer
    <3> QED BY <3>1 DEF envVars
  <2>2. ASSUME ProcessOp PROVE now' = now
    <3>1. UNCHANGED envVars
      BY <2>2, ZenonT(30) DEF ProcessOp, RegisterProcess, ResolveProcess
    <3> QED BY <3>1 DEF envVars
  <2>3. ASSUME Environment \/ UNCHANGED vars PROVE now' = now \/ now' = now + 1
    BY <2>3 DEF Environment, Tick, RecyclePid, vars
  <2> QED BY <2>0, <2>1, <2>2, <2>3 DEF Next
<1>6. AbsentHasNoLease'
  BY <1>4 DEF BInv, AbsentHasNoLease
<1>7. DecisionsQueued'
  <2>1. \A d \in Deciders : decision[d].since \in Nat
    BY DEF BInv, BrokerTypeOK, Decision
  <2>2. now \in Nat
    BY DEF BInv, IInv, TypeOK
  <2> QED BY <1>5, <2>1, <2>2 DEF BInv, DecisionsQueued, approvalVars
<1>8. QueuedHasConsumer'
  BY DEF BInv, QueuedHasConsumer, approvalVars
<1>9. LeaseIffGranted'
  BY <1>4 DEF BInv, LeaseIffGranted, approvalVars
<1>10. LeaseMatchesRequest'
  BY <1>4 DEF BInv, LeaseMatchesRequest, approvalVars
<1> QED BY <1>1, <1>2, <1>6, <1>7, <1>8, <1>9, <1>10 DEF BInv

\* A step of the approval store that inserts no lease: it may queue, expire
\* or deny approvals, but grants none.
LEMMA SettleStep ==
    ASSUME BInv, UNCHANGED vars,
           approvals' \in [Approvals -> Approval],
           decision' \in [Deciders -> Decision],
           \A a \in Approvals : approvals'[a] # approvals[a] =>
              /\ approvals[a].status # "granted"
              /\ approvals'[a].status \in {"pending", "denied", "expired"}
              /\ approvals'[a].consumer \in Consumers,
           DecisionsQueued'
    PROVE  BInv'
<1>1. IInv'
  BY DEF BInv, vars, IInv, TypeOK, LockedHasNoLiveSession, BindingsNeverRevoked,
         BindingsEnrolled, ServedWasEnrolled
<1>2. BrokerTypeOK'
  BY <1>1 DEF IInv, BrokerTypeOK
<1>3. AbsentHasNoLease'
  BY DEF BInv, AbsentHasNoLease, vars
<1>4. QueuedHasConsumer'
  BY DEF BInv, QueuedHasConsumer
<1>5. LeaseIffGranted'
  BY DEF BInv, LeaseIffGranted, vars
<1>6. LeaseMatchesRequest'
  <2> SUFFICES ASSUME NEW t \in Tokens, sessions[t].lease # NoLease
               PROVE  approvals'[sessions[t].lease] = approvals[sessions[t].lease]
    BY DEF BInv, LeaseMatchesRequest, vars
  <2>1. sessions[t].lease \in Approvals
    BY DEF BInv, IInv, TypeOK, Session, Approvals
  <2>2. approvals[sessions[t].lease].status = "granted"
    BY <2>1 DEF BInv, LeaseIffGranted
  <2> QED BY <2>1, <2>2
<1> QED BY <1>1, <1>2, <1>3, <1>4, <1>5, <1>6 DEF BInv

LEMMA QueueStep ==
    ASSUME BInv, NEW a \in Approvals, NEW c \in Consumers, NEW ttl \in TTLs,
           NEW at \in Nat, Queue(a, c, ttl, at)
    PROVE  BInv'
<1> DEFINE new == [status |-> "pending", consumer |-> c, ttl |-> ClampTTL(ttl),
                   expiresAt |-> at + ApprovalTTL, decidedAt |-> 0]
<1>1. new \in Approval /\ new.status = "pending" /\ new.consumer = c
  BY ClampType, TimeAssumption, ApprovalAssumption DEF Approval
<1>2. approvals \in [Approvals -> Approval] /\ decision \in [Deciders -> Decision]
  BY DEF BInv, BrokerTypeOK
<1>3. approvals' = [approvals EXCEPT ![a] = new] /\ UNCHANGED <<decision, vars>>
  BY DEF Queue
<1>4. approvals[a].status = "none"
  BY DEF Queue
<1> HIDE DEF new
<1>5. DecisionsQueued'
  BY <1>1, <1>2, <1>3, <1>4 DEF BInv, DecisionsQueued, vars
<1> QED BY <1>1, <1>2, <1>3, <1>4, <1>5, SettleStep

\* The record an approval becomes when it expires or is decided.
LEMMA SettledType ==
    ASSUME BInv, NEW a \in Approvals, approvals[a].status # "none",
           NEW grant \in BOOLEAN, NEW at \in Nat
    PROVE  /\ Decided(a, grant, at) \in Approval
           /\ Decided(a, grant, at).consumer = approvals[a].consumer
           /\ Decided(a, grant, at).consumer \in Consumers
           /\ Decided(a, grant, at) # approvals[a] =>
                 /\ approvals[a].status = "pending"
                 /\ Decided(a, grant, at).status \in {"granted", "denied", "expired"}
           /\ Decided(a, grant, at).status # "none"
           /\ ~grant => Decided(a, grant, at) = approvals[a]
                          \/ Decided(a, grant, at).status \in {"denied", "expired"}
           /\ ~Pending(a) \/ Late(a, at) => Decided(a, grant, at) = approvals[a]
                          \/ Decided(a, grant, at).status = "expired"
           /\ grant /\ Pending(a) /\ ~Late(a, at) =>
                 /\ Decided(a, grant, at).status = "granted"
                 /\ Decided(a, grant, at).decidedAt = at
                 /\ Decided(a, grant, at).expiresAt = approvals[a].expiresAt
                 /\ at <= approvals[a].expiresAt
           /\ [approvals[a] EXCEPT !.status = "expired"] \in Approval
           /\ [approvals[a] EXCEPT !.status = "expired"].status = "expired"
           /\ [approvals[a] EXCEPT !.status = "expired"].consumer \in Consumers
<1>1. approvals[a] \in Approval /\ approvals[a].consumer \in Consumers
  BY DEF BInv, BrokerTypeOK, QueuedHasConsumer
<1> DEFINE e == [approvals[a] EXCEPT !.status = "expired"]
           g == [approvals[a] EXCEPT !.status = IF grant THEN "granted" ELSE "denied",
                                     !.decidedAt = at]
<1>2. /\ e \in Approval /\ e.status = "expired" /\ e.consumer = approvals[a].consumer
      /\ g \in Approval /\ g.status = (IF grant THEN "granted" ELSE "denied")
      /\ g.consumer = approvals[a].consumer /\ g.decidedAt = at
      /\ g.expiresAt = approvals[a].expiresAt
      /\ approvals[a].expiresAt \in Nat
  BY <1>1 DEF Approval
<1>3. Decided(a, grant, at) = IF ~Pending(a) THEN approvals[a]
                              ELSE IF Late(a, at) THEN e ELSE g
  BY DEF Decided
<1>4. CASE ~Pending(a)
  BY <1>1, <1>2, <1>3, <1>4 DEF Pending
<1>5. CASE Pending(a) /\ Late(a, at)
  BY <1>1, <1>2, <1>3, <1>5 DEF Pending
<1>6. CASE Pending(a) /\ ~Late(a, at)
  <2>1. at <= approvals[a].expiresAt
    BY <1>2, <1>6 DEF Late
  <2> QED BY <1>1, <1>2, <1>3, <1>6, <2>1 DEF Pending
<1> QED BY <1>4, <1>5, <1>6

LEMMA SnapshotStep ==
    ASSUME BInv, NEW at \in Nat, SnapshotApprovals(at)
    PROVE  BInv'
<1>1. \A a \in Approvals : Late(a, at) =>
         /\ approvals[a].status = "pending"
         /\ [approvals[a] EXCEPT !.status = "expired"] \in Approval
         /\ [approvals[a] EXCEPT !.status = "expired"].status = "expired"
         /\ [approvals[a] EXCEPT !.status = "expired"].consumer \in Consumers
  BY SettledType DEF Late, Pending
<1>2. approvals \in [Approvals -> Approval] /\ decision \in [Deciders -> Decision]
  BY DEF BInv, BrokerTypeOK
<1>3. \A a \in Approvals : approvals'[a] =
         IF Late(a, at) THEN [approvals[a] EXCEPT !.status = "expired"] ELSE approvals[a]
  BY DEF SnapshotApprovals
<1>4. approvals' \in [Approvals -> Approval]
  BY <1>1, <1>2, <1>3 DEF SnapshotApprovals
<1>5. UNCHANGED <<decision, vars>>
  BY DEF SnapshotApprovals
<1>6. DecisionsQueued'
  BY <1>1, <1>3, <1>5 DEF BInv, DecisionsQueued, vars
<1> QED BY <1>1, <1>2, <1>3, <1>4, <1>5, <1>6, SettleStep

LEMMA PrepareStep ==
    ASSUME BInv, NEW d \in Deciders, NEW a \in Approvals, NEW grant \in BOOLEAN,
           NEW ttl \in TTLs, NEW at \in Nat, PrepareDecision(d, a, grant, ttl, at)
    PROVE  BInv'
<1>0. approvals \in [Approvals -> Approval] /\ decision \in [Deciders -> Decision]
      /\ now \in Nat /\ ttl \in Nat
  BY TimeAssumption DEF BInv, BrokerTypeOK, IInv, TypeOK
<1>1. CASE Late(a, at)
  <2> DEFINE e == [approvals[a] EXCEPT !.status = "expired"]
  <2>1. /\ approvals[a].status = "pending"
        /\ e \in Approval /\ e.status = "expired" /\ e.consumer \in Consumers
    BY <1>1, SettledType DEF Late, Pending
  <2>2. approvals' = [approvals EXCEPT ![a] = e] /\ UNCHANGED <<decision, vars>>
    BY <1>1 DEF PrepareDecision
  <2>3. DecisionsQueued'
    BY <1>0, <2>1, <2>2 DEF BInv, DecisionsQueued, vars
  <2> QED BY <1>0, <2>1, <2>2, <2>3, SettleStep
<1>2. CASE ~Late(a, at)
  <2> DEFINE new == [step |-> IF grant /\ Pending(a) THEN "lease" ELSE "direct",
                     approval |-> a, grant |-> grant, ttl |-> ttl, since |-> now]
  <2>1. /\ new \in Decision /\ new.approval = a /\ new.since = now
        /\ new.step = "direct" /\ new.grant => ~Pending(a)
    BY <1>0 DEF Decision
  <2>2. decision' = [decision EXCEPT ![d] = new] /\ UNCHANGED <<approvals, vars>>
    BY <1>2 DEF PrepareDecision
  <2>3. DecisionsQueued'
    BY <1>0, <2>1, <2>2 DEF BInv, DecisionsQueued, vars, PrepareDecision, Pending
  <2> QED BY <1>0, <2>1, <2>2, <2>3, SettleStep
<1> QED BY <1>1, <1>2

\* Facts every commit step needs about the decision it finishes.
LEMMA Finishing ==
    ASSUME BInv, NEW d \in Deciders, decision[d].step # "idle",
           decision' = [decision EXCEPT ![d] = Idle]
    PROVE  /\ decision[d].approval \in Approvals
           /\ approvals[decision[d].approval].status # "none"
           /\ decision[d].grant \in BOOLEAN
           /\ decision[d].since \in Nat
           /\ decision' \in [Deciders -> Decision]
           /\ \A e \in Deciders : decision'[e].step # "idle" =>
                 decision'[e] = decision[e]
<1>1. Idle \in Decision /\ Idle.step = "idle"
  BY DEF Idle, Decision
<1>2. decision \in [Deciders -> Decision]
  BY DEF BInv, BrokerTypeOK
<1>3. decision[d].grant \in BOOLEAN /\ decision[d].since \in Nat
  BY <1>2 DEF Decision
<1> QED BY <1>1, <1>2, <1>3 DEF BInv, DecisionsQueued

LEMMA CommitDirectStep ==
    ASSUME BInv, NEW d \in Deciders, NEW at \in Nat, CommitDirect(d, at)
    PROVE  BInv'
<1> DEFINE a == decision[d].approval
           new == Decided(a, decision[d].grant, at)
<1>1. decision[d].step # "idle" /\ decision' = [decision EXCEPT ![d] = Idle]
      /\ approvals' = [approvals EXCEPT ![a] = new] /\ UNCHANGED vars
  BY DEF CommitDirect
<1>2. /\ a \in Approvals /\ approvals[a].status # "none" /\ decision[d].grant \in BOOLEAN
      /\ decision' \in [Deciders -> Decision]
      /\ \A e \in Deciders : decision'[e].step # "idle" => decision'[e] = decision[e]
  BY <1>1, Finishing
<1>3. approvals \in [Approvals -> Approval]
  BY DEF BInv, BrokerTypeOK
<1>4. /\ new \in Approval /\ new.status # "none" /\ new.consumer \in Consumers
      /\ new # approvals[a] => /\ approvals[a].status = "pending"
                               /\ new.status \in {"denied", "expired"}
  <2>1. decision[d].grant => approvals[a].status # "pending"
    BY <1>1 DEF BInv, DecisionsQueued, CommitDirect
  <2> QED BY <1>2, <2>1, SettledType, ZenonT(30) DEF Pending
<1>5. DecisionsQueued'
  BY <1>1, <1>2, <1>3, <1>4 DEF BInv, DecisionsQueued, vars
<1> QED BY <1>1, <1>2, <1>3, <1>4, <1>5, SettleStep

LEMMA CommitLockedStep ==
    ASSUME BInv, NEW d \in Deciders, NEW at \in Nat, CommitLocked(d, at)
    PROVE  BInv'
<1>1. decision[d].step # "idle" /\ decision' = [decision EXCEPT ![d] = Idle]
      /\ UNCHANGED <<approvals, vars>>
  BY DEF CommitLocked
<1>2. /\ decision' \in [Deciders -> Decision]
      /\ \A e \in Deciders : decision'[e].step # "idle" => decision'[e] = decision[e]
  BY <1>1, Finishing
<1>3. approvals \in [Approvals -> Approval]
  BY DEF BInv, BrokerTypeOK
<1>4. DecisionsQueued'
  BY <1>1, <1>2 DEF BInv, DecisionsQueued, vars
<1> QED BY <1>1, <1>2, <1>3, <1>4, SettleStep

LEMMA CommitTooLateStep ==
    ASSUME BInv, NEW d \in Deciders, NEW at \in Nat, NEW check \in Nat,
           CommitTooLate(d, at, check)
    PROVE  BInv'
<1> DEFINE a == decision[d].approval
           new == Decided(a, TRUE, at)
<1>1. decision[d].step # "idle" /\ decision' = [decision EXCEPT ![d] = Idle]
      /\ approvals' = [approvals EXCEPT ![a] = new] /\ UNCHANGED vars
  BY DEF CommitTooLate
<1>2. /\ a \in Approvals /\ approvals[a].status # "none"
      /\ decision' \in [Deciders -> Decision]
      /\ \A e \in Deciders : decision'[e].step # "idle" => decision'[e] = decision[e]
  BY <1>1, Finishing
<1>3. approvals \in [Approvals -> Approval]
  BY DEF BInv, BrokerTypeOK
<1>4. ~Pending(a) \/ Late(a, at)
  BY DEF CommitTooLate
<1>5. /\ new \in Approval /\ new.status # "none" /\ new.consumer \in Consumers
      /\ new # approvals[a] => /\ approvals[a].status = "pending"
                               /\ new.status = "expired"
  BY <1>2, <1>4, SettledType, ZenonT(30)
<1> HIDE DEF new
<1>6. DecisionsQueued'
  BY <1>1, <1>2, <1>3, <1>5 DEF BInv, DecisionsQueued, vars
<1> QED BY <1>1, <1>2, <1>3, <1>5, <1>6, SettleStep

\* Inserting the lease: the vault is unlocked, the token is new, and the
\* approval turns from pending to granted in the same step.
LEMMA CommitLeaseStep ==
    ASSUME BInv, NEW d \in Deciders, NEW t \in Tokens, NEW born \in Nat,
           NEW check \in Nat, NEW at \in Nat, born <= at,
           CommitLease(d, t, born, at, check)
    PROVE  BInv'
<1> DEFINE a == decision[d].approval
           new == Decided(a, TRUE, at)
           s == NewSession(approvals[a].consumer, LeaseTTL(d), a, born)
<1>1. /\ decision[d].step # "idle" /\ decision' = [decision EXCEPT ![d] = Idle]
      /\ approvals' = [approvals EXCEPT ![a] = new]
      /\ sessions' = [sessions EXCEPT ![t] = s]
      /\ sessions[t].status = "absent"
      /\ Pending(a) /\ ~Late(a, at) /\ ~locked
      /\ UNCHANGED <<processes, locked, degraded, envVars, histVars>>
  BY DEF CommitLease, VaultLocked
<1>2. /\ a \in Approvals /\ approvals[a].status # "none"
      /\ decision' \in [Deciders -> Decision]
      /\ \A e \in Deciders : decision'[e].step # "idle" => decision'[e] = decision[e]
  BY <1>1, Finishing
<1>3. /\ approvals \in [Approvals -> Approval] /\ sessions \in [Tokens -> Session]
      /\ decision[d].ttl \in Nat /\ approvals[a].ttl \in Nat
      /\ approvals[a].consumer \in Consumers
  BY <1>2 DEF BInv, BrokerTypeOK, IInv, TypeOK, Decision, Approval, QueuedHasConsumer
<1>4. LeaseTTL(d) \in Nat /\ LeaseTTL(d) <= DefaultTTL
  BY <1>3, TimeAssumption DEF LeaseTTL, ClampTTL
<1>5. /\ s \in Session /\ s.status = "active" /\ s.lease = a
      /\ s.consumer = approvals[a].consumer /\ s.expiresAt = born + LeaseTTL(d)
  BY <1>2, <1>3, <1>4, NewSessionType DEF NewSession, Approvals
<1>6. /\ new \in Approval /\ new.status = "granted" /\ new.decidedAt = at
      /\ new.expiresAt = approvals[a].expiresAt /\ at <= approvals[a].expiresAt
      /\ new.consumer = approvals[a].consumer
  BY <1>1, <1>2, SettledType
<1> HIDE DEF new, s
<1>7. \A u \in Tokens : sessions[u].lease # a
  BY <1>1, <1>2 DEF BInv, LeaseIffGranted, Pending
<1>8. IInv'
  <2>1. TypeOK'
    BY <1>1, <1>3, <1>5 DEF BInv, IInv, TypeOK, envVars, histVars
  <2>2. BindingsNeverRevoked'
    <3> SUFFICES ASSUME NEW p \in Pids, processes[p].token # NoToken
                 PROVE  sessions'[processes[p].token].status \in {"active", "expired"}
      BY <1>1 DEF BindingsNeverRevoked
    <3>1. processes[p].token \in Tokens
      BY DEF BInv, IInv, TypeOK, Binding
    <3>2. processes[p].token # t
      BY <1>1 DEF BInv, IInv, BindingsNeverRevoked
    <3> QED BY <1>1, <1>3, <3>1, <3>2 DEF BInv, IInv, BindingsNeverRevoked
  <2>3. LockedHasNoLiveSession' /\ BindingsEnrolled' /\ ServedWasEnrolled'
    BY <1>1 DEF BInv, IInv, LockedHasNoLiveSession, BindingsEnrolled,
                ServedWasEnrolled, histVars
  <2> QED BY <2>1, <2>2, <2>3 DEF IInv
<1>9. BrokerTypeOK'
  BY <1>1, <1>2, <1>3, <1>6, <1>8 DEF IInv, BrokerTypeOK
<1>10. AbsentHasNoLease'
  BY <1>1, <1>3, <1>5 DEF BInv, AbsentHasNoLease
<1>11. DecisionsQueued'
  BY <1>1, <1>2, <1>3, <1>6 DEF BInv, DecisionsQueued, envVars
<1>12. QueuedHasConsumer'
  BY <1>1, <1>3, <1>6 DEF BInv, QueuedHasConsumer
<1>13. \A u \in Tokens : sessions'[u] = IF u = t THEN s ELSE sessions[u]
  BY <1>1, <1>3
<1>14. \A b \in Approvals : approvals'[b] = IF b = a THEN new ELSE approvals[b]
  BY <1>1, <1>3
<1>15. LeaseIffGranted'
  <2> SUFFICES ASSUME NEW b \in Approvals
               PROVE  /\ approvals'[b].status = "granted"
                           <=> \E u \in Tokens : sessions'[u].lease = b
                      /\ \A u, v \in Tokens :
                           sessions'[u].lease = b /\ sessions'[v].lease = b => u = v
    BY DEF LeaseIffGranted
  <2>0. sessions[t].lease = NoLease /\ b # NoLease
    BY <1>1, NameAssumption DEF BInv, AbsentHasNoLease, Approvals
  <2>1. CASE b = a
    BY <1>5, <1>6, <1>7, <1>13, <1>14, <2>1
  <2>2. CASE b # a
    <3>1. approvals'[b] = approvals[b]
      BY <1>14, <2>2
    <3>2. \A u \in Tokens : sessions'[u].lease = b <=> sessions[u].lease = b
      BY <1>5, <1>13, <2>0, <2>2
    <3> QED BY <3>1, <3>2 DEF BInv, LeaseIffGranted
  <2> QED BY <2>1, <2>2
<1>16. LeaseMatchesRequest'
  <2> SUFFICES ASSUME NEW u \in Tokens, sessions'[u].lease # NoLease
               PROVE  LET r == approvals'[sessions'[u].lease] IN
                      /\ sessions'[u].consumer = r.consumer
                      /\ r.decidedAt <= r.expiresAt
                      /\ sessions'[u].expiresAt <= r.decidedAt + DefaultTTL
    BY DEF LeaseMatchesRequest
  <2>1. CASE u = t
    <3>1. born + LeaseTTL(d) <= at + DefaultTTL
      BY <1>4, TimeAssumption
    <3> QED BY <1>2, <1>5, <1>6, <1>13, <1>14, <2>1, <3>1
  <2>2. CASE u # t
    <3>1. sessions'[u] = sessions[u] /\ sessions[u].lease \in Approvals
      BY <1>3, <1>13, <2>2 DEF Session, Approvals
    <3>2. approvals'[sessions[u].lease] = approvals[sessions[u].lease]
      BY <1>7, <1>14, <3>1
    <3> QED BY <3>1, <3>2 DEF BInv, LeaseMatchesRequest
  <2> QED BY <2>1, <2>2
<1> QED BY <1>8, <1>9, <1>10, <1>11, <1>12, <1>15, <1>16 DEF BInv

-----------------------------------------------------------------------------
LEMMA BrokerNextBInv == BInv /\ [BrokerNext]_brokerVars => BInv'
<1> SUFFICES ASSUME BInv, [BrokerNext]_brokerVars PROVE BInv'
  OBVIOUS
<1>0. now \in Nat /\ \A d \in Deciders : decision[d].since \in Nat
  BY DEF BInv, BrokerTypeOK, Decision, IInv, TypeOK
<1>1. CASE ApprovalOp
  <2>1. ASSUME NEW a \in Approvals, NEW c \in Consumers, NEW ttl \in TTLs,
               NEW at \in 0..now, Queue(a, c, ttl, at)
        PROVE  BInv'
    BY <1>0, <2>1, QueueStep
  <2>2. ASSUME NEW at \in 0..now, SnapshotApprovals(at) PROVE BInv'
    BY <1>0, <2>2, SnapshotStep
  <2>3. ASSUME NEW d \in Deciders, NEW a \in Approvals, NEW grant \in BOOLEAN,
               NEW ttl \in TTLs, NEW at \in 0..now,
               PrepareDecision(d, a, grant, ttl, at)
        PROVE  BInv'
    <3>1. at \in Nat
      BY <1>0
    <3> QED BY <2>3, <3>1, PrepareStep
  <2>4. ASSUME NEW d \in Deciders, NEW at \in decision[d].since..now,
               CommitDirect(d, at) \/ CommitLocked(d, at)
        PROVE  BInv'
    <3>1. at \in Nat
      BY <1>0
    <3> QED BY <2>4, <3>1, CommitDirectStep, CommitLockedStep
  <2>5. ASSUME NEW d \in Deciders, NEW check \in decision[d].since..now,
               NEW at \in check..now, CommitTooLate(d, at, check)
        PROVE  BInv'
    <3>1. check \in Nat /\ at \in Nat
      BY <1>0
    <3> QED BY <2>5, <3>1, CommitTooLateStep
  <2>6. ASSUME NEW d \in Deciders, NEW t \in Tokens,
               NEW born \in decision[d].since..now, NEW check \in born..now,
               NEW at \in check..now, CommitLease(d, t, born, at, check)
        PROVE  BInv'
    <3>1. born \in Nat /\ check \in Nat /\ at \in Nat /\ born <= at
      BY <1>0
    <3> QED BY <2>6, <3>1, CommitLeaseStep
  <2> QED BY <1>1, <2>1, <2>2, <2>3, <2>4, <2>5, <2>6 DEF ApprovalOp
<1>2. CASE Next /\ UNCHANGED approvalVars
  BY <1>2, StoreStepBInv
<1>3. CASE UNCHANGED brokerVars
  BY <1>3, StoreStepBInv DEF brokerVars, approvalVars
<1> QED BY <1>1, <1>2, <1>3 DEF BrokerNext

\* The approval broker keeps its inductive invariant in every behaviour.
THEOREM BrokerInvariant == BrokerSpec => []BInv
BY BrokerInitBInv, BrokerNextBInv, PTL DEF BrokerSpec

\* Types of the approval table, the decisions in progress and the sessions.
THEOREM BrokerTypeCorrect == BrokerSpec => []BrokerTypeOK
<1>1. BInv => BrokerTypeOK
  BY DEF BInv
<1> QED BY <1>1, BrokerInvariant, PTL

\* With leases granted by approvals as well, a locked vault still has no
\* live session: a lock wins over every decision in progress.
THEOREM BrokerLockedSafe == BrokerSpec => []LockedHasNoLiveSession
<1>1. BInv => LockedHasNoLiveSession
  BY DEF BInv, IInv
<1> QED BY <1>1, BrokerInvariant, PTL

\* However many decisions race on an approval, it is granted exactly when
\* one lease, and only one, was inserted for it.
THEOREM OneLeasePerGrant == BrokerSpec => []LeaseIffGranted
<1>1. BInv => LeaseIffGranted
  BY DEF BInv
<1> QED BY <1>1, BrokerInvariant, PTL

\* A lease belongs to the consumer that asked for it, was granted in time,
\* and does not outlive the default time to live after the grant.
THEOREM LeaseWithinRequest == BrokerSpec => []LeaseMatchesRequest
<1>1. BInv => LeaseMatchesRequest
  BY DEF BInv
<1> QED BY <1>1, BrokerInvariant, PTL

-----------------------------------------------------------------------------
(* What one step may do to settled approvals and to a locked vault. *)

SettledStay ==
    \A a \in Approvals : approvals[a].status \in {"granted", "denied", "expired"}
        => approvals'[a] = approvals[a]

LockHolds ==
    locked =>
        /\ \A t \in Tokens : sessions[t].lease = NoLease => sessions'[t].lease = NoLease
        /\ ~locked' => \E t \in Tokens : /\ sessions[t].status = "absent"
                                         /\ Live(sessions'[t])

\* Every operation of the approval store writes pending approvals only.
LEMMA ApprovalOpSettles == BInv /\ ApprovalOp => SettledStay
<1> SUFFICES ASSUME BInv, ApprovalOp, NEW a \in Approvals,
                    approvals[a].status \in {"granted", "denied", "expired"}
             PROVE  approvals'[a] = approvals[a]
  BY DEF SettledStay
<1>0. approvals \in [Approvals -> Approval] /\ ~Pending(a) /\ approvals[a].status # "none"
  BY DEF BInv, BrokerTypeOK, Pending
<1>1. ASSUME NEW b \in Approvals, NEW c, NEW ttl, NEW at, Queue(b, c, ttl, at)
      PROVE  approvals'[a] = approvals[a]
  BY <1>0, <1>1 DEF Queue
<1>2. ASSUME NEW at, SnapshotApprovals(at) PROVE approvals'[a] = approvals[a]
  BY <1>0, <1>2 DEF SnapshotApprovals, Late
<1>3. ASSUME NEW d, NEW b \in Approvals, NEW grant, NEW ttl, NEW at,
             PrepareDecision(d, b, grant, ttl, at)
      PROVE  approvals'[a] = approvals[a]
  BY <1>0, <1>3 DEF PrepareDecision, Late
<1>4. ASSUME NEW b, NEW grant, NEW at,
             approvals' = [approvals EXCEPT ![b] = Decided(b, grant, at)]
      PROVE  approvals'[a] = approvals[a]
  BY <1>0, <1>4 DEF Decided
<1>5. ASSUME NEW d \in Deciders, NEW at,
             CommitDirect(d, at) \/ CommitLocked(d, at)
      PROVE  approvals'[a] = approvals[a]
  BY <1>4, <1>5 DEF CommitDirect, CommitLocked
<1>6. ASSUME NEW d \in Deciders, NEW check, NEW at, CommitTooLate(d, at, check)
      PROVE  approvals'[a] = approvals[a]
  BY <1>4, <1>6 DEF CommitTooLate
<1>7. ASSUME NEW d \in Deciders, NEW t, NEW born, NEW check, NEW at,
             CommitLease(d, t, born, at, check)
      PROVE  approvals'[a] = approvals[a]
  BY <1>4, <1>7 DEF CommitLease
<1> QED BY <1>1, <1>2, <1>3, <1>5, <1>6, <1>7 DEF ApprovalOp

\* While the vault is locked, the approval store changes no session at all:
\* the granting half looks at the flag in the critical section that inserts.
LEMMA ApprovalOpLocked == locked /\ ApprovalOp => UNCHANGED <<sessions, locked>>
<1> SUFFICES ASSUME locked, ApprovalOp PROVE UNCHANGED <<sessions, locked>>
  OBVIOUS
<1>1. ASSUME NEW d, NEW t, NEW born, NEW check, NEW at,
             CommitLease(d, t, born, at, check)
      PROVE  FALSE
  BY <1>1 DEF CommitLease, VaultLocked
<1>2. UNCHANGED vars => UNCHANGED <<sessions, locked>>
  BY DEF vars
<1> QED BY <1>1, <1>2 DEF ApprovalOp, Queue, SnapshotApprovals, PrepareDecision,
       CommitDirect, CommitLocked, CommitTooLate

\* Only a session that a client opens clears the flag.
LEMMA OnlyOpeningUnlocks ==
    ASSUME TypeOK, [Next]_vars, locked, ~locked'
    PROVE  \E t \in Tokens : sessions[t].status = "absent" /\ Live(sessions'[t])
<1>0. sessions \in [Tokens -> Session]
  BY DEF TypeOK
<1>1. ASSUME NEW t \in Tokens, NEW c, NEW ttl, NEW at, OpenSession(t, c, ttl, at)
      PROVE  sessions[t].status = "absent" /\ Live(sessions'[t])
  BY <1>0, <1>1 DEF OpenSession, NewSession, Live
<1>2. ASSUME NEW at, PruneExpired(at) PROVE FALSE
  BY <1>2 DEF PruneExpired
<1>3. ASSUME RevokeAll PROVE FALSE
  BY <1>3 DEF RevokeAll
<1>4. CASE SessionOp
  BY <1>1, <1>2, <1>3, <1>4 DEF SessionOp, Resolve, Revoke, RevokeLeaseID,
     RevokeAllForConsumer
<1>5. ASSUME ProcessOp PROVE FALSE
  <2>1. UNCHANGED locked
    BY <1>5, ZenonT(30) DEF ProcessOp, RegisterProcess, ResolveProcess
  <2> QED BY <2>1
<1>6. ASSUME Environment \/ UNCHANGED vars PROVE FALSE
  BY <1>6 DEF Environment, Tick, RecyclePid, storeVars, vars
<1> QED BY <1>4, <1>5, <1>6 DEF Next

LEMMA BrokerNextFinal ==
    BInv /\ [BrokerNext]_brokerVars => SettledStay /\ LockHolds
<1> SUFFICES ASSUME BInv, [BrokerNext]_brokerVars PROVE SettledStay /\ LockHolds
  OBVIOUS
<1>0. TypeOK
  BY DEF BInv, IInv
<1>1. CASE ApprovalOp
  <2>1. LockHolds
    BY <1>1, ApprovalOpLocked DEF LockHolds
  <2> QED BY <1>1, <2>1, ApprovalOpSettles
<1>2. CASE [Next]_vars /\ UNCHANGED approvalVars
  <2>1. SettledStay
    BY <1>2 DEF SettledStay, approvalVars
  <2>2. \A t \in Tokens : sessions[t].lease = NoLease => sessions'[t].lease = NoLease
    BY <1>0, <1>2, EveryStep
       DEF SessionStep, Untouched, Opened, Ended, Refreshed, SameTerms
  <2>3. LockHolds
    BY <1>0, <1>2, <2>2, OnlyOpeningUnlocks DEF LockHolds
  <2> QED BY <2>1, <2>3
<1>3. CASE UNCHANGED brokerVars
  BY <1>2, <1>3 DEF brokerVars, approvalVars
<1> QED BY <1>1, <1>2, <1>3 DEF BrokerNext

\* A settled approval never changes, no lease appears while the vault is
\* locked, and no decision opens it.
THEOREM ApprovalsFinal == BrokerSpec => DecisionsFinal
<1>1. BInv /\ [BrokerNext]_brokerVars =>
        [/\ \A a \in Approvals : approvals[a].status \in {"granted", "denied", "expired"}
               => approvals'[a] = approvals[a]
         /\ locked =>
              /\ \A t \in Tokens : sessions[t].lease = NoLease
                                     => sessions'[t].lease = NoLease
              /\ ~locked' => \E t \in Tokens : /\ sessions[t].status = "absent"
                                               /\ Live(sessions'[t])]_brokerVars
  BY BrokerNextFinal DEF SettledStay, LockHolds
<1> QED BY <1>1, BrokerInvariant, PTL DEF BrokerSpec, DecisionsFinal

-----------------------------------------------------------------------------
(***************************************************************************)
(* The audit log: AuditLog.  Acknowledged events verify until a recovery   *)
(* moves the log, and none is lost while no recovery puts an archive back  *)
(* or renames over another, for any number of processes, keys, failures    *)
(* and crashes, where no failed write loses a newline only.                *)
(*                                                                         *)
(* The argument: who writes holds the file lock from the time it reads the *)
(* last line until its own is written, so what it read is still the last   *)
(* line.  A line that was cut off is the last of its file, because nobody  *)
(* goes on behind a line that does not decode: a log is read anew unless   *)
(* its cache was filled from just these lines, and those decoded.  A key   *)
(* is taken from a log only where a keyed line verifies under it, and all  *)
(* keyed lines are of the vault's key.                                     *)
(***************************************************************************)

\* Sequences of anything.
Lists(s) == s \in Seq({s[i] : i \in DOMAIN s})

\* The files that have a name.
Named == ({path} \cup {arch[d] : d \in Dirs}) \ {0}

\* Only a line that was cut off lacks its newline.
Newlines(f) == \A j \in DOMAIN f : f[j].ok => f[j].nl

LastHash(f) == IF f = <<>> THEN 0 ELSE f[Len(f)].hash

LogFields == {"pc", "op", "last", "seq", "ino", "dir", "snap", "hash", "cache", "key"}
Holding == {"locked", "opened", "written"}

\* A recovery has a directory.
WriterOK(x) ==
    /\ DOMAIN x = LogFields
    /\ \/ x.pc \in {"archive", "restore"}
       \/ x.pc \in {"start", "locked", "opened"} /\ x.op = "marker"
       => x.dir \in Dirs

\* Who is past the reading of the last line holds the lock.
LogTypeOK ==
    /\ events \in Nat
    /\ Lists(files) /\ \A i \in DOMAIN files : Lists(files[i]) /\ Newlines(files[i])
    /\ path \in 0..Len(files)
    /\ arch \in [Dirs -> 0..Len(files)]
    /\ wr = [w \in Writers |-> wr[w]] /\ inst = [d \in Daemons |-> inst[d]]
    /\ \A w \in Writers : /\ WriterOK(wr[w])
                          /\ wr[w].pc \in Holding => flock = w
                          /\ wr[w].pc \in {"opened", "written"} => wr[w].ino \in 1..Len(files)
    /\ \A c \in Clis : wr[c].key \in {NoValue, VaultKey}

\* Acknowledged events are in a file that has a name, and who writes has read,
\* opened or written a file that decodes.
FilesSafe ==
    /\ \A h \in acked : \E i \in Named : \E j \in DOMAIN files[i] : files[i][j].ok /\ files[i][j].hash = h
    /\ \A w \in Writers :
        /\ wr[w].cache # NoValue => Decodes(wr[w].cache.lines)
        /\ wr[w].pc = "locked" => Decodes(Active)
        /\ wr[w].pc \in {"opened", "written"} =>
               wr[w].ino \in Named /\ path \in {0, wr[w].ino} /\ Decodes(files[wr[w].ino])
        /\ wr[w].pc = "written" =>
               files[wr[w].ino] # <<>> /\ LastHash(files[wr[w].ino]) = wr[w].hash

\* Every line verifies, except for a last one that was cut off.
ChainOK(f) == \A i \in DOMAIN f : LineVerifies(f, i, VaultKey) \/ (i = Len(f) /\ ~f[i].ok)

CacheOK(c) == c.lines # <<>> /\ c.last = LastHash(c.lines) /\ c.seq = Len(c.lines)

\* What a daemon has read to judge an offered key is the beginning of the log.
SeenOK(s, f) ==
    /\ HasKeyed(s) /\ Decodes(s)
    /\ \A i \in DOMAIN s : i \in DOMAIN f /\ s[i] = f[i]

ChainSafe ==
    /\ ChainOK(Active)
    /\ \A h \in acked : \E i \in Verified(Active, VaultKey) : Active[i].hash = h
    /\ \A d \in Daemons : wr[d].key \in {NoValue, VaultKey}
    /\ \A w \in Writers :
        /\ wr[w].cache # NoValue => CacheOK(wr[w].cache)
        /\ wr[w].pc \in {"locked", "opened"} => wr[w].seq = Len(Active) /\ wr[w].last = LastHash(Active)
        /\ wr[w].pc \in {"opened", "written"} => path = wr[w].ino
        /\ wr[w].pc = "written" => wr[w].seq + 1 = Len(Active)
    /\ \A d \in Daemons : inst[d] # NoValue => SeenOK(inst[d].seen, Active)

LogInv == LogTypeOK /\ (moved # "unsafe" => FilesSafe) /\ (moved = "no" => ChainSafe)

-----------------------------------------------------------------------------
(* Sequences of lines *)

LEMMA SeqLists == ASSUME NEW S, NEW s \in Seq(S) PROVE Lists(s)
<1> DEFINE T == {s[i] : i \in DOMAIN s}
<1>1. Len(s) \in Nat /\ s \in [1..Len(s) -> S] /\ DOMAIN s = 1..Len(s)
  BY LenProperties
<1>2. s \in [1..Len(s) -> T]
  BY <1>1
<1> HIDE DEF T
<1>3. s \in Seq(T)
  BY <1>1, <1>2
<1> QED BY <1>3 DEF Lists, T

LEMMA ListFacts ==
    ASSUME NEW s, Lists(s)
    PROVE  /\ Len(s) \in Nat /\ DOMAIN s = 1..Len(s)
           /\ s = <<>> <=> Len(s) = 0
           /\ s # <<>> => Len(s) \in DOMAIN s
<1> DEFINE T == {s[i] : i \in DOMAIN s}
<1>1. s \in Seq(T)
  BY DEF Lists
<1> HIDE DEF T
<1>2. Len(s) \in Nat /\ DOMAIN s = 1..Len(s)
  BY <1>1, LenProperties
<1>3. s = <<>> <=> Len(s) = 0
  BY <1>1, EmptySeq
<1> QED BY <1>2, <1>3

LEMMA ListAppend ==
    ASSUME NEW s, Lists(s), NEW e
    PROVE  /\ Lists(Append(s, e)) /\ Append(s, e) # <<>>
           /\ Len(Append(s, e)) = Len(s) + 1
           /\ DOMAIN Append(s, e) = 1..(Len(s) + 1)
           /\ Append(s, e)[Len(s) + 1] = e
           /\ \A i \in DOMAIN s : i \in DOMAIN Append(s, e) /\ Append(s, e)[i] = s[i]
<1> DEFINE T == {s[i] : i \in DOMAIN s}
           S == T \cup {e}
<1>1. s \in Seq(T) /\ T \subseteq S /\ e \in S
  BY DEF Lists
<1> HIDE DEF T, S
<1>2. s \in Seq(S)
  BY <1>1, SeqMonotonic
<1>3. /\ Append(s, e) \in Seq(S) /\ Append(s, e) # <<>> /\ Len(Append(s, e)) = Len(s) + 1
      /\ \A i \in 1..Len(s) : Append(s, e)[i] = s[i]
      /\ Append(s, e)[Len(s) + 1] = e
  BY <1>1, <1>2, AppendProperties
<1>4. Lists(Append(s, e))
  BY <1>3, SeqLists
<1>5. Len(s) \in Nat /\ DOMAIN s = 1..Len(s) /\ DOMAIN Append(s, e) = 1..Len(Append(s, e))
  BY <1>4, ListFacts
<1> QED BY <1>3, <1>4, <1>5

LEMMA EmptyLists == Lists(<<>>) /\ DOMAIN <<>> = {} /\ Newlines(<<>>) /\ Decodes(<<>>)
<1>1. <<>> \in Seq({}) /\ DOMAIN <<>> = 1..0
  OBVIOUS
<1>2. DOMAIN <<>> = {}
  BY <1>1
<1> QED BY <1>1, <1>2, SeqLists DEF Newlines, Decodes

LEMMA ListReplaced ==
    ASSUME NEW s, Lists(s), NEW k, NEW e
    PROVE  /\ Lists([s EXCEPT ![k] = e]) /\ Len([s EXCEPT ![k] = e]) = Len(s)
           /\ DOMAIN [s EXCEPT ![k] = e] = DOMAIN s
<1> DEFINE T == {s[i] : i \in DOMAIN s}
           S == T \cup {e}
           t == [s EXCEPT ![k] = e]
<1>1. s \in Seq(T) /\ Len(s) \in Nat /\ DOMAIN s = 1..Len(s) /\ T \subseteq S /\ e \in S
  BY ListFacts DEF Lists
<1>2. s \in [1..Len(s) -> T]
  BY <1>1, LenProperties
<1> HIDE DEF T, S
<1>3. t \in [1..Len(s) -> S]
  BY <1>1, <1>2
<1>4. t \in Seq(S) /\ Len(t) = Len(s) /\ DOMAIN t = DOMAIN s
  BY <1>1, <1>3
<1> HIDE DEF t
<1>5. Lists(t)
  BY <1>4, SeqLists
<1> QED BY <1>4, <1>5 DEF t

\* A line is added behind the last one, or onto one that was cut off.
LEMMA LineAdded ==
    ASSUME NEW f, Lists(f), Newlines(f), NEW line, line.ok => line.nl
    PROVE  /\ Lists(AddLine(f, line)) /\ Newlines(AddLine(f, line))
           /\ Decodes(f) => AddLine(f, line) = Append(f, line)
<1>0. Len(f) \in Nat /\ DOMAIN f = 1..Len(f) /\ (f # <<>> => Len(f) \in DOMAIN f)
  BY ListFacts
<1>1. CASE f # <<>> /\ ~f[Len(f)].nl
  <2> DEFINE t == [f EXCEPT ![Len(f)] = BadLine(line.nl)]
  <2>1. AddLine(f, line) = t
    BY <1>1 DEF AddLine
  <2>2. Lists(t) /\ DOMAIN t = DOMAIN f
    BY ListReplaced
  <2>3. BadLine(line.nl).ok = FALSE
    BY DEF BadLine
  <2>4. Newlines(t)
    BY <1>0, <2>2, <2>3 DEF Newlines
  <2>5. ~Decodes(f)
    BY <1>0, <1>1 DEF Decodes, Newlines
  <2> QED BY <2>1, <2>2, <2>4, <2>5
<1>2. CASE ~(f # <<>> /\ ~f[Len(f)].nl)
  <2>1. AddLine(f, line) = Append(f, line)
    BY <1>2 DEF AddLine
  <2>2. \A j \in DOMAIN Append(f, line) : j \in DOMAIN f \/ j = Len(f) + 1
    BY <1>0, ListAppend
  <2>3. Newlines(Append(f, line))
    BY <2>2, ListAppend DEF Newlines
  <2> QED BY <2>1, <2>3, ListAppend
<1> QED BY <1>1, <1>2

\* The active log is a list.
LEMMA ActiveLists ==
    ASSUME LogTypeOK
    PROVE  /\ Lists(Active) /\ Newlines(Active)
           /\ path # 0 => path \in DOMAIN files /\ Active = files[path]
           /\ path = 0 => Active = <<>>
<1>1. DOMAIN files = 1..Len(files) /\ Len(files) \in Nat
  BY ListFacts DEF LogTypeOK
<1>2. CASE path = 0
  BY <1>2, EmptyLists DEF Active
<1>3. CASE path # 0
  BY <1>1, <1>3 DEF LogTypeOK, Active
<1> QED BY <1>2, <1>3

\* What verifies goes on to when a line is appended.
LEMMA VerifiedGrows ==
    ASSUME NEW f, Lists(f), NEW e, NEW key
    PROVE  /\ \A i \in DOMAIN f : LineVerifies(f, i, key) <=> LineVerifies(Append(f, e), i, key)
           /\ Verified(f, key) \subseteq Verified(Append(f, e), key)
<1>0. Len(f) \in Nat /\ DOMAIN f = 1..Len(f)
  BY ListFacts
<1>1. ASSUME NEW i \in DOMAIN f PROVE LineVerifies(f, i, key) <=> LineVerifies(Append(f, e), i, key)
  <2>1. Append(f, e)[i] = f[i]
    BY ListAppend
  <2>2. CASE i = 1
    BY <2>1, <2>2 DEF LineVerifies
  <2>3. CASE i # 1
    <3>1. i - 1 \in DOMAIN f
      BY <1>0, <2>3
    <3>2. Append(f, e)[i - 1] = f[i - 1]
      BY <3>1, ListAppend
    <3> QED BY <2>1, <2>3, <3>2 DEF LineVerifies
  <2> QED BY <2>2, <2>3
<1>2. ASSUME NEW i \in Verified(f, key) PROVE i \in Verified(Append(f, e), key)
  <2>1. i \in DOMAIN f /\ \A j \in 1..i : LineVerifies(f, j, key)
    BY DEF Verified
  <2>2. \A j \in 1..i : j \in DOMAIN f
    BY <1>0, <2>1
  <2>3. i \in DOMAIN Append(f, e) /\ \A j \in 1..i : LineVerifies(Append(f, e), j, key)
    BY <1>1, <2>1, <2>2, ListAppend
  <2> QED BY <2>3 DEF Verified
<1> QED BY <1>1, <1>2

\* In a chain a line that decodes verifies, with all before it.
LEMMA DecodedVerifies ==
    ASSUME NEW f, Lists(f), ChainOK(f), NEW i \in DOMAIN f, f[i].ok
    PROVE  i \in Verified(f, VaultKey) /\ f[i].seq = i /\ f[i].scheme \in {NoValue, VaultKey}
<1>0. Len(f) \in Nat /\ DOMAIN f = 1..Len(f)
  BY ListFacts
<1>1. ASSUME NEW j \in 1..i PROVE LineVerifies(f, j, VaultKey)
  <2>1. i \in 1..Len(f)
    BY <1>0
  <2>2. j \in 1..Len(f) /\ (j = Len(f) => j = i)
    <3>1. \A n \in Nat : \A a \in 1..n : \A b \in 1..a : b \in 1..n /\ (b = n => b = a)
      OBVIOUS
    <3> QED BY <1>0, <2>1, <3>1
  <2>3. j \in DOMAIN f
    BY <1>0, <2>2
  <2> QED BY <2>2, <2>3 DEF ChainOK
<1>2. i \in 1..i
  BY <1>0
<1> QED BY <1>1, <1>2 DEF Verified, LineVerifies

\* A line with a number up to how many lines verify is one of them.
LEMMA VerifiedCounts ==
    ASSUME NEW f, Lists(f), NEW key, NEW i \in DOMAIN f, i <= Cardinality(Verified(f, key))
    PROVE  i \in Verified(f, key)
<1>0. Len(f) \in Nat /\ DOMAIN f = 1..Len(f)
  BY ListFacts
<1> SUFFICES ASSUME i \notin Verified(f, key) PROVE FALSE
  OBVIOUS
<1>1. Verified(f, key) \subseteq 1..(i - 1)
  <2> SUFFICES ASSUME NEW k \in Verified(f, key), ~(k \in 1..(i - 1)) PROVE FALSE
    OBVIOUS
  <2>1. k \in 1..Len(f) /\ \A j \in 1..k : LineVerifies(f, j, key)
    BY <1>0 DEF Verified
  <2>2. 1..i \subseteq 1..k
    BY <1>0, <2>1
  <2>3. i \in Verified(f, key)
    BY <2>1, <2>2 DEF Verified
  <2> QED BY <2>3
<1>2. IsFiniteSet(1..(i - 1)) /\ Cardinality(1..(i - 1)) = i - 1
  <2>1. i \in 1..Len(f)
    BY <1>0
  <2>2. 1 \in Int /\ i - 1 \in Int /\ ~(1 > i - 1) => i - 1 - 1 + 1 = i - 1
    BY <1>0, <2>1
  <2>3. 1 \in Int /\ i - 1 \in Int /\ (1 > i - 1 => i - 1 = 0)
    BY <1>0, <2>1
  <2>4. IsFiniteSet(1..(i - 1)) /\ Cardinality(1..(i - 1)) = IF 1 > i - 1 THEN 0 ELSE i - 1 - 1 + 1
    BY <2>3, FS_Interval
  <2> QED BY <2>2, <2>3, <2>4
<1>3. Cardinality(Verified(f, key)) <= i - 1 /\ Cardinality(Verified(f, key)) \in Nat
  BY <1>1, <1>2, FS_Subset, FS_CardinalityType
<1> QED BY <1>0, <1>3

-----------------------------------------------------------------------------
(* Steps of one process that leave the files alone *)

LEMMA LogInitInv == LogInit => LogInv
<1> SUFFICES ASSUME LogInit PROVE LogInv
  OBVIOUS
<1>1. files = <<>> /\ path = 0 /\ arch = [d \in Dirs |-> 0] /\ wr = [w \in Writers |-> IdleWriter]
      /\ inst = [d \in Daemons |-> NoValue] /\ events = 0 /\ acked = {}
  BY DEF LogInit
<1>2. Lists(files) /\ DOMAIN files = {} /\ Len(files) = 0 /\ Active = <<>>
  BY <1>1, EmptyLists DEF Active
<1>3. WriterOK(IdleWriter) /\ IdleWriter.pc = "idle" /\ IdleWriter.cache = NoValue /\ IdleWriter.key = NoValue
  BY DEF WriterOK, IdleWriter, LogFields
<1>4. LogTypeOK
  <2>1. arch \in [Dirs -> 0..Len(files)] /\ path \in 0..Len(files) /\ events \in Nat
    BY <1>1, <1>2
  <2>2. \A w \in Writers : wr[w] = IdleWriter
    BY <1>1
  <2>3. \A c \in Clis : wr[c].key = NoValue
    BY <1>3, <2>2 DEF Writers
  <2> QED BY <1>1, <1>2, <1>3, <2>1, <2>2, <2>3 DEF LogTypeOK, Holding
<1>5. FilesSafe
  BY <1>1, <1>3 DEF FilesSafe
<1>6. ChainSafe
  <2>1. ChainOK(Active)
    BY <1>2, EmptyLists DEF ChainOK
  <2>2. \A d \in Daemons : wr[d].key = NoValue
    BY <1>1, <1>3 DEF Writers
  <2> QED BY <1>1, <1>3, <2>1, <2>2 DEF ChainSafe
<1> QED BY <1>4, <1>5, <1>6 DEF LogInv

LEMMA WriterMoves ==
    ASSUME LogTypeOK, NEW w \in Writers, NEW x, wr' = [wr EXCEPT ![w] = x]
    PROVE  /\ wr'[w] = x /\ \A v \in Writers : v # w => wr'[v] = wr[v]
           /\ wr' = [v \in Writers |-> wr'[v]]
BY DEF LogTypeOK

SamePlace(x, y) ==
    /\ x.pc = y.pc /\ x.seq = y.seq /\ x.last = y.last /\ x.ino = y.ino /\ x.hash = y.hash

\* One process moves on to where it holds no lock, or stays where it is.
LEMMA QuietLogStep ==
    ASSUME LogInv, NEW w \in Writers, NEW x, WriterOK(x), wr' = [wr EXCEPT ![w] = x],
           x.pc \notin Holding \/ SamePlace(x, wr[w]),
           x.cache = NoValue \/ x.cache = wr[w].cache,
           x.key \in {NoValue, VaultKey} \/ x.key = wr[w].key \/ (w \notin Clis /\ moved # "no"),
           UNCHANGED <<files, path, arch, moved, acked>>, events' \in Nat,
           \A v \in Writers : (v # w \/ x.pc \in Holding) /\ flock = v => flock' = v,
           inst' = [d \in Daemons |-> inst'[d]],
           \A d \in Daemons : inst'[d] = NoValue \/ inst'[d] = inst[d]
    PROVE  LogInv'
<1>0. LogTypeOK
  BY DEF LogInv
<1>1. wr'[w] = x /\ (\A v \in Writers : v # w => wr'[v] = wr[v]) /\ wr' = [v \in Writers |-> wr'[v]]
  BY <1>0, WriterMoves
<1>2. Active' = Active /\ Named' = Named
  BY DEF Active, Named
<1>3. LogTypeOK'
  <2>1. ASSUME NEW v \in Writers
        PROVE  /\ WriterOK(wr'[v])
               /\ wr'[v].pc \in Holding => flock' = v
               /\ wr'[v].pc \in {"opened", "written"} => wr'[v].ino \in 1..Len(files)
    <3>1. CASE v # w
      BY <1>0, <1>1, <3>1 DEF LogTypeOK
    <3>2. CASE v = w
      BY <1>0, <1>1, <3>2 DEF LogTypeOK, SamePlace, Holding
    <3> QED BY <3>1, <3>2
  <2>2. ASSUME NEW c \in Clis PROVE wr'[c].key \in {NoValue, VaultKey}
    <3>1. c \in Writers /\ wr[c].key \in {NoValue, VaultKey}
      BY <1>0 DEF LogTypeOK, Writers
    <3> QED BY <1>1, <3>1
  <2> QED BY <1>0, <1>1, <2>1, <2>2 DEF LogTypeOK
<1>4. ASSUME FilesSafe PROVE FilesSafe'
  <2>1. ASSUME NEW v \in Writers
        PROVE  /\ wr'[v].cache # NoValue => Decodes(wr'[v].cache.lines)
               /\ wr'[v].pc = "locked" => Decodes(Active)
               /\ wr'[v].pc \in {"opened", "written"} =>
                      wr'[v].ino \in Named /\ path \in {0, wr'[v].ino} /\ Decodes(files[wr'[v].ino])
               /\ wr'[v].pc = "written" =>
                      files[wr'[v].ino] # <<>> /\ LastHash(files[wr'[v].ino]) = wr'[v].hash
    <3>1. CASE v # w
      BY <1>1, <1>4, <3>1 DEF FilesSafe
    <3>2. CASE v = w
      BY <1>1, <1>4, <3>2 DEF FilesSafe, SamePlace, Holding
    <3> QED BY <3>1, <3>2
  <2> QED BY <1>2, <1>4, <2>1 DEF FilesSafe
<1>5. ASSUME ChainSafe, moved = "no" PROVE ChainSafe'
  <2>1. ASSUME NEW v \in Writers
        PROVE  /\ wr'[v].cache # NoValue => CacheOK(wr'[v].cache)
               /\ wr'[v].pc \in {"locked", "opened"} => wr'[v].seq = Len(Active) /\ wr'[v].last = LastHash(Active)
               /\ wr'[v].pc \in {"opened", "written"} => path = wr'[v].ino
               /\ wr'[v].pc = "written" => wr'[v].seq + 1 = Len(Active)
    <3>1. CASE v # w
      BY <1>1, <1>5, <3>1 DEF ChainSafe
    <3>2. CASE v = w
      BY <1>1, <1>5, <3>2 DEF ChainSafe, SamePlace, Holding
    <3> QED BY <3>1, <3>2
  <2>2. ASSUME NEW d \in Daemons PROVE wr'[d].key \in {NoValue, VaultKey}
    <3>1. d \in Writers /\ wr[d].key \in {NoValue, VaultKey}
      BY <1>5 DEF ChainSafe, Writers
    <3> QED BY <1>1, <1>5, <3>1
  <2>3. \A d \in Daemons : inst'[d] # NoValue => SeenOK(inst'[d].seen, Active)
    BY <1>5 DEF ChainSafe
  <2> QED BY <1>2, <1>5, <2>1, <2>2, <2>3 DEF ChainSafe
<1> QED BY <1>3, <1>4, <1>5 DEF LogInv

\* The records a process goes on with.
LEMMA WriterRecords ==
    ASSUME LogInv, NEW w \in Writers
    PROVE  /\ WriterOK(wr[w]) /\ DOMAIN wr[w] = LogFields
           /\ WriterOK(Calls(w, "event")) /\ Calls(w, "event").pc = "start"
           /\ Calls(w, "event").cache = wr[w].cache /\ Calls(w, "event").key = wr[w].key
           /\ WriterOK(Returned(w)) /\ Returned(w).pc = "idle"
           /\ Returned(w).cache = wr[w].cache /\ Returned(w).key = wr[w].key
           /\ wr[w].pc \in {"start", "opened"} =>
                 /\ WriterOK(Errored(w)) /\ Errored(w).pc \notin Holding
                 /\ Errored(w).cache = wr[w].cache /\ Errored(w).key = wr[w].key
<1>1. WriterOK(wr[w]) /\ DOMAIN wr[w] = LogFields
  BY DEF LogInv, LogTypeOK, WriterOK
<1>2. /\ WriterOK(Calls(w, "event")) /\ Calls(w, "event").pc = "start"
      /\ Calls(w, "event").cache = wr[w].cache /\ Calls(w, "event").key = wr[w].key
  BY <1>1 DEF WriterOK, Calls, LogFields
<1>3. /\ WriterOK(Returned(w)) /\ Returned(w).pc = "idle"
      /\ Returned(w).cache = wr[w].cache /\ Returned(w).key = wr[w].key
  <2>1. DOMAIN Returned(w) = LogFields /\ Returned(w).pc = "idle"
    BY <1>1 DEF Returned, LogFields
  <2>2. WriterOK(Returned(w))
    BY <2>1 DEF WriterOK
  <2>3. Returned(w).cache = wr[w].cache /\ Returned(w).key = wr[w].key
    BY <1>1 DEF Returned, LogFields
  <2> QED BY <2>1, <2>2, <2>3
<1>4. ASSUME wr[w].pc \in {"start", "opened"}
      PROVE  /\ WriterOK(Errored(w)) /\ Errored(w).pc \notin Holding
             /\ Errored(w).cache = wr[w].cache /\ Errored(w).key = wr[w].key
  <2>1. CASE wr[w].op = "marker"
    <3> DEFINE x == [wr[w] EXCEPT !.pc = "restore"]
    <3>1. Errored(w) = x
      BY <2>1 DEF Errored
    <3>2. WriterOK(x) /\ x.pc = "restore" /\ x.cache = wr[w].cache /\ x.key = wr[w].key
      BY <1>1, <1>4, <2>1 DEF WriterOK, LogFields
    <3> HIDE DEF x
    <3> QED BY <3>1, <3>2 DEF Holding
  <2>2. CASE wr[w].op # "marker"
    <3>1. Errored(w) = Returned(w)
      BY <2>2 DEF Errored
    <3> QED BY <1>3, <3>1 DEF Holding
  <2> QED BY <2>1, <2>2
<1> QED BY <1>1, <1>2, <1>3, <1>4

LEMMA AppendEventInv == ASSUME LogInv, NEW w \in Writers, AppendEvent(w) PROVE LogInv'
<1>1. WriterOK(Calls(w, "event")) /\ Calls(w, "event").pc \notin Holding
      /\ Calls(w, "event").cache = wr[w].cache /\ Calls(w, "event").key = wr[w].key
  BY WriterRecords DEF Holding
<1>2. events \in Nat /\ inst = [d \in Daemons |-> inst[d]]
  BY DEF LogInv, LogTypeOK
<1> QED BY <1>1, <1>2, QuietLogStep DEF AppendEvent

LEMMA SeedInv == ASSUME LogInv, NEW c \in Clis, EnsureKeyedChainSeed(c) PROVE LogInv'
<1> DEFINE y == IF Decodes(Active) /\ ~HasKeyed(Active) THEN Calls(c, "event") ELSE wr[c]
           x == [y EXCEPT !.key = VaultKey]
<1>0. c \in Writers
  BY DEF Writers
<1>1. WriterOK(y) /\ y.pc \in {"start", "idle"} /\ y.cache = wr[c].cache
  BY <1>0, WriterRecords DEF EnsureKeyedChainSeed
<1>2. wr' = [wr EXCEPT ![c] = x]
  BY DEF EnsureKeyedChainSeed
<1> HIDE DEF y
<1>3. WriterOK(x) /\ x.pc \notin Holding /\ x.cache = wr[c].cache /\ x.key = VaultKey
  BY <1>1 DEF WriterOK, LogFields, Holding
<1> HIDE DEF x
<1>4. events \in Nat /\ inst = [d \in Daemons |-> inst[d]]
  BY DEF LogInv, LogTypeOK
<1> QED BY <1>0, <1>2, <1>3, <1>4, QuietLogStep DEF EnsureKeyedChainSeed

LEMMA RecoverReadInv ==
    ASSUME LogInv, NEW c \in Clis, NEW dir \in Dirs, NEW force, RecoverRead(c, dir, force)
    PROVE  LogInv'
<1> DEFINE x == [wr[c] EXCEPT !.pc = "archive", !.op = "marker", !.dir = dir, !.snap = Active]
<1>0. c \in Writers
  BY DEF Writers
<1>1. DOMAIN wr[c] = LogFields
  BY <1>0, WriterRecords
<1>2. wr' = [wr EXCEPT ![c] = x]
  BY DEF RecoverRead
<1>3. DOMAIN x = LogFields /\ x.pc = "archive" /\ x.dir = dir /\ x.cache = wr[c].cache /\ x.key = wr[c].key
  BY <1>1 DEF LogFields
<1> HIDE DEF x
<1>4. WriterOK(x) /\ x.pc \notin Holding
  BY <1>3 DEF WriterOK, Holding
<1>5. events \in Nat /\ inst = [d \in Daemons |-> inst[d]]
  BY DEF LogInv, LogTypeOK
<1> QED BY <1>0, <1>2, <1>3, <1>4, <1>5, QuietLogStep DEF RecoverRead

LEMMA CrashInv == ASSUME LogInv, NEW w \in Writers, Crash(w) PROVE LogInv'
<1>1. WriterOK(IdleWriter) /\ IdleWriter.pc \notin Holding /\ IdleWriter.cache = NoValue /\ IdleWriter.key = NoValue
  BY DEF WriterOK, IdleWriter, LogFields, Holding
<1>2. events' \in Nat /\ inst = [d \in Daemons |-> inst[d]]
  BY DEF LogInv, LogTypeOK, Crash
<1>3. wr' = [wr EXCEPT ![w] = IdleWriter] /\ UNCHANGED <<files, path, arch, moved, acked>>
      /\ flock' = (IF flock = w THEN NoValue ELSE flock)
      /\ inst' = (IF w \in Daemons THEN [inst EXCEPT ![w] = NoValue] ELSE inst)
  BY DEF Crash
<1>4. inst' = [d \in Daemons |-> inst'[d]] /\ \A d \in Daemons : inst'[d] = NoValue \/ inst'[d] = inst[d]
  BY <1>2, <1>3
<1>5. \A v \in Writers : v # w /\ flock = v => flock' = v
  BY <1>3
<1> QED BY <1>1, <1>2, <1>3, <1>4, <1>5, QuietLogStep

-----------------------------------------------------------------------------
(* Keys *)

LEMMA InstallReadInv ==
    ASSUME LogInv, NEW d \in Daemons, NEW k \in Keys, InstallRead(d, k) PROVE LogInv'
<1> DEFINE r == [key |-> k, seen |-> Active]
<1>1. inst' = [inst EXCEPT ![d] = r] /\ UNCHANGED <<files, path, moved, arch, flock, wr, events, acked>>
  BY DEF InstallRead
<1>2. Active' = Active /\ Named' = Named
  BY <1>1 DEF Active, Named
<1>3. LogTypeOK'
  BY <1>1 DEF LogInv, LogTypeOK
<1>4. FilesSafe => FilesSafe'
  BY <1>1, <1>2 DEF FilesSafe
<1>5. ASSUME ChainSafe PROVE ChainSafe'
  <2>1. SeenOK(Active, Active)
    BY DEF SeenOK, InstallRead
  <2>2. \A e \in Daemons : inst'[e] = IF e = d THEN r ELSE inst[e]
    BY <1>1 DEF LogInv, LogTypeOK
  <2>3. \A e \in Daemons : inst'[e] # NoValue => SeenOK(inst'[e].seen, Active)
    BY <1>5, <2>1, <2>2 DEF ChainSafe
  <2> QED BY <1>1, <1>2, <1>5, <2>3 DEF ChainSafe
<1> QED BY <1>1, <1>3, <1>4, <1>5 DEF LogInv

\* A key is taken on a log only when a keyed line verifies under it.
LEMMA OnlyVaultKey ==
    ASSUME LogTypeOK, ChainSafe, NEW s, SeenOK(s, Active), NEW k, keyAccepted(k, s)
    PROVE  k = VaultKey
<1>0. Lists(Active) /\ ChainOK(Active)
  BY ActiveLists DEF ChainSafe
<1>1. ASSUME NEW i \in DOMAIN s, s[i].scheme # NoValue
      PROVE  /\ i \in DOMAIN Active /\ s[i] = Active[i] /\ s[i].seq = i
             /\ i \in Verified(Active, k) => k = VaultKey
  <2>1. i \in DOMAIN Active /\ s[i] = Active[i] /\ Active[i].ok
    BY DEF SeenOK, Decodes
  <2>2. Active[i].seq = i /\ Active[i].scheme \in {NoValue, VaultKey}
    BY <1>0, <2>1, DecodedVerifies
  <2>3. ASSUME i \in Verified(Active, k) PROVE Active[i].scheme \in {NoValue, k}
    <3>1. i \in 1..i
      BY <1>0, <2>1, ListFacts
    <3> QED BY <2>3, <3>1 DEF Verified, LineVerifies
  <2> QED BY <1>1, <2>1, <2>2, <2>3
<1>2. CASE VerifyOK(Active, k)
  <2>1. PICK i \in DOMAIN s : s[i].scheme # NoValue
    BY DEF SeenOK, HasKeyed
  <2> QED BY <1>1, <1>2, <2>1 DEF VerifyOK
<1>3. CASE KeyedBefore(s, Active, k)
  <2>1. PICK i \in DOMAIN s : s[i].scheme # NoValue /\ s[i].seq <= Cardinality(Verified(Active, k))
    BY <1>3 DEF KeyedBefore
  <2>2. i \in DOMAIN Active /\ i <= Cardinality(Verified(Active, k))
    BY <1>1, <2>1
  <2>3. i \in Verified(Active, k)
    BY <1>0, <2>2, VerifiedCounts
  <2> QED BY <1>1, <2>1, <2>3
<1> QED BY <1>2, <1>3 DEF keyAccepted

LEMMA InstallKeyInv == ASSUME LogInv, NEW d \in Daemons, InstallKey(d) PROVE LogInv'
<1> DEFINE k == inst[d].key
           taken == keyAccepted(k, inst[d].seen)
           x == IF taken THEN [wr[d] EXCEPT !.key = k] ELSE wr[d]
<1>0. d \in Writers /\ d \notin Clis /\ LogTypeOK
  BY AuditAssumption DEF Writers, LogInv
<1>1. DOMAIN wr[d] = LogFields /\ WriterOK(wr[d])
  BY <1>0, WriterRecords
<1>2. wr' = [wr EXCEPT ![d] = x] /\ inst' = [inst EXCEPT ![d] = NoValue]
      /\ UNCHANGED <<files, path, moved, arch, flock, events, acked>>
  <2>1. CASE taken
    BY <2>1 DEF InstallKey
  <2>2. CASE ~taken
    <3>1. wr' = wr
      BY <2>2 DEF InstallKey
    <3>2. wr = [wr EXCEPT ![d] = wr[d]]
      BY <1>0 DEF LogTypeOK
    <3> QED BY <2>2, <3>1, <3>2 DEF InstallKey
  <2> QED BY <2>1, <2>2
<1>3. WriterOK(x) /\ SamePlace(x, wr[d]) /\ x.cache = wr[d].cache
  BY <1>1 DEF WriterOK, SamePlace, LogFields
<1>4. x.key \in {NoValue, VaultKey} \/ x.key = wr[d].key \/ moved # "no"
  <2> SUFFICES ASSUME taken, moved = "no" PROVE x.key = VaultKey
    OBVIOUS
  <2>1. ChainSafe /\ inst[d] # NoValue
    BY DEF LogInv, InstallKey
  <2>2. k = VaultKey
    BY <1>0, <2>1, OnlyVaultKey DEF ChainSafe
  <2> QED BY <1>1, <2>2 DEF LogFields
<1> HIDE DEF x
<1>5. events \in Nat /\ inst' = [e \in Daemons |-> inst'[e]]
      /\ \A e \in Daemons : inst'[e] = NoValue \/ inst'[e] = inst[e]
  BY <1>0, <1>2 DEF LogTypeOK
<1> QED BY <1>0, <1>2, <1>3, <1>4, <1>5, QuietLogStep

-----------------------------------------------------------------------------
(* Appends *)

\* Nobody else holds the lock.
LEMMA HoldsAlone ==
    ASSUME LogInv, NEW w \in Writers, wr[w].pc \in Holding, NEW v \in Writers, v # w
    PROVE  wr[v].pc \notin Holding
BY DEF LogInv, LogTypeOK

\* A cache that serves holds the lines of the log.
LEMMA ReadableDecodes ==
    ASSUME LogInv, moved # "unsafe", NEW w \in Writers, readable(w)
    PROVE  Decodes(Active)
<1>0. LogTypeOK /\ FilesSafe
  BY DEF LogInv
<1>1. CASE cacheHit(w)
  <2>1. wr[w].cache # NoValue /\ path # 0 /\ wr[w].cache.lines = files[path]
    BY <1>1 DEF cacheHit
  <2>2. Decodes(wr[w].cache.lines)
    BY <1>0, <2>1 DEF FilesSafe
  <2>3. Active = files[path]
    BY <1>0, <2>1, ActiveLists
  <2> QED BY <2>1, <2>2, <2>3
<1> QED BY <1>1 DEF readable

\* The last line that is read is the last line, and what the Log keeps of it.
LEMMA LastIsRead ==
    ASSUME LogInv, moved = "no", NEW w \in Writers, readable(w)
    PROVE  /\ readLast(w).seq = Len(Active) /\ readLast(w).last = LastHash(Active)
           /\ scanned(w) # NoValue => CacheOK(scanned(w))
<1>0. LogTypeOK /\ ChainSafe /\ Decodes(Active) /\ Lists(Active)
  BY ReadableDecodes, ActiveLists DEF LogInv
<1>1. CASE cacheHit(w)
  <2>1. wr[w].cache # NoValue /\ path # 0 /\ wr[w].cache.lines = files[path]
    BY <1>1 DEF cacheHit
  <2>2. CacheOK(wr[w].cache) /\ Active = files[path]
    BY <1>0, <2>1, ActiveLists DEF ChainSafe
  <2>3. readLast(w) = [last |-> wr[w].cache.last, seq |-> wr[w].cache.seq]
    BY <1>1 DEF readLast
  <2>4. scanned(w) = NoValue \/ scanned(w) = wr[w].cache
    BY <1>1 DEF scanned
  <2>5. readLast(w).seq = Len(Active) /\ readLast(w).last = LastHash(Active)
    BY <2>1, <2>2, <2>3 DEF CacheOK
  <2> QED BY <2>2, <2>4, <2>5
<1>2. CASE ~cacheHit(w)
  <2>1. readLast(w) = [last |-> IF Active = <<>> THEN 0 ELSE Active[Len(Active)].hash, seq |-> Len(Active)]
    BY <1>2 DEF readLast
  <2>2. CASE w \notin Daemons \/ Active = <<>>
    BY <2>1, <2>2 DEF scanned, LastHash
  <2>3. CASE ~(w \notin Daemons \/ Active = <<>>)
    <3> DEFINE c == [ino |-> path, lines |-> Active, last |-> Active[Len(Active)].hash,
                     seq |-> Active[Len(Active)].seq]
    <3>1. scanned(w) = c
      BY <1>2, <2>3 DEF scanned
    <3>2. Len(Active) \in DOMAIN Active
      BY <1>0, <2>3, ListFacts
    <3>3. Active[Len(Active)].seq = Len(Active)
      BY <1>0, <3>2, DecodedVerifies DEF ChainSafe, Decodes
    <3>4. CacheOK(c)
      BY <2>3, <3>3 DEF CacheOK, LastHash
    <3> QED BY <2>1, <3>1, <3>4 DEF LastHash
  <2> QED BY <2>2, <2>3
<1> QED BY <1>1, <1>2

LEMMA ScannedDecodes ==
    ASSUME LogInv, moved # "unsafe", NEW w \in Writers, readable(w), scanned(w) # NoValue
    PROVE  Decodes(scanned(w).lines)
<1>1. Decodes(Active) /\ FilesSafe
  BY ReadableDecodes DEF LogInv
<1>2. CASE cacheHit(w)
  <2>1. scanned(w) = wr[w].cache /\ wr[w].cache # NoValue
    BY <1>2 DEF scanned, cacheHit
  <2> QED BY <1>1, <2>1 DEF FilesSafe
<1>3. CASE ~cacheHit(w)
  <2> DEFINE c == [ino |-> path, lines |-> Active, last |-> Active[Len(Active)].hash,
                   seq |-> Active[Len(Active)].seq]
  <2>1. scanned(w) = c
    BY <1>3 DEF scanned
  <2>2. c.lines = Active
    OBVIOUS
  <2> QED BY <1>1, <2>1, <2>2
<1> QED BY <1>2, <1>3

LEMMA LockAndReadInv == ASSUME LogInv, NEW w \in Writers, LockAndRead(w) PROVE LogInv'
<1>0. LogTypeOK /\ WriterOK(wr[w]) /\ DOMAIN wr[w] = LogFields
  BY WriterRecords DEF LogInv
<1>1. CASE ~readable(w)
  <2>1. WriterOK(Errored(w)) /\ Errored(w).pc \notin Holding
        /\ Errored(w).cache = wr[w].cache /\ Errored(w).key = wr[w].key
    BY WriterRecords DEF LockAndRead
  <2>2. wr' = [wr EXCEPT ![w] = Errored(w)] /\ flock' = flock
    BY <1>1 DEF LockAndRead
  <2>3. events \in Nat /\ inst = [d \in Daemons |-> inst[d]]
    BY DEF LogInv, LogTypeOK
  <2> QED BY <2>1, <2>2, <2>3, QuietLogStep DEF LockAndRead
<1>2. CASE readable(w)
  <2> DEFINE x == [wr[w] EXCEPT !.pc = "locked", !.last = readLast(w).last,
                                !.seq = readLast(w).seq, !.cache = scanned(w)]
  <2>1. wr' = [wr EXCEPT ![w] = x] /\ flock' = w /\ flock = NoValue
        /\ UNCHANGED <<files, path, moved, arch, inst, events, acked>>
    BY <1>2 DEF LockAndRead
  <2>2. WriterOK(x) /\ x.pc = "locked" /\ x.last = readLast(w).last /\ x.seq = readLast(w).seq
        /\ x.cache = scanned(w) /\ x.key = wr[w].key
    BY <1>0 DEF WriterOK, LogFields, LockAndRead
  <2> HIDE DEF x
  <2>3. wr'[w] = x /\ (\A v \in Writers : v # w => wr'[v] = wr[v]) /\ wr' = [v \in Writers |-> wr'[v]]
    BY <1>0, <2>1, WriterMoves
  <2>4. \A v \in Writers : wr[v].pc \notin Holding
    BY <1>0, <2>1, AuditAssumption DEF LogTypeOK
  <2>5. Active' = Active /\ Named' = Named
    BY <2>1 DEF Active, Named
  <2>6. LogTypeOK'
    <3>1. \A c \in Clis : wr'[c].key \in {NoValue, VaultKey}
      BY <1>0, <2>2, <2>3 DEF LogTypeOK, Writers
    <3>2. \A v \in Writers : /\ WriterOK(wr'[v])
                             /\ wr'[v].pc \in Holding => flock' = v
                             /\ wr'[v].pc \notin {"opened", "written"}
      BY <1>0, <2>1, <2>2, <2>3, <2>4 DEF LogTypeOK, Holding
    <3> QED BY <1>0, <2>1, <2>3, <3>1, <3>2 DEF LogTypeOK
  <2>7. ASSUME moved # "unsafe" PROVE FilesSafe'
    <3>1. FilesSafe /\ Decodes(Active) /\ (scanned(w) # NoValue => Decodes(scanned(w).lines))
      BY <1>2, <2>7, ReadableDecodes, ScannedDecodes DEF LogInv
    <3>2. \A v \in Writers : wr'[v].cache # NoValue => Decodes(wr'[v].cache.lines)
      BY <2>2, <2>3, <3>1 DEF FilesSafe
    <3>3. \A v \in Writers : wr'[v].pc \notin {"opened", "written"}
      BY <2>2, <2>3, <2>4 DEF Holding
    <3> QED BY <2>1, <2>5, <3>1, <3>2, <3>3 DEF FilesSafe
  <2>8. ASSUME moved = "no" PROVE ChainSafe'
    <3>1. ChainSafe
      BY <2>8 DEF LogInv
    <3>2. x.seq = Len(Active) /\ x.last = LastHash(Active) /\ (x.cache # NoValue => CacheOK(x.cache))
      BY <1>2, <2>2, <2>8, LastIsRead
    <3>3. \A v \in Writers :
             /\ wr'[v].cache # NoValue => CacheOK(wr'[v].cache)
             /\ wr'[v].pc \in {"locked", "opened"} => wr'[v].seq = Len(Active) /\ wr'[v].last = LastHash(Active)
             /\ wr'[v].pc \notin {"opened", "written"}
      BY <2>2, <2>3, <2>4, <3>1, <3>2 DEF ChainSafe, Holding
    <3>4. \A d \in Daemons : wr'[d].key \in {NoValue, VaultKey}
      BY <2>2, <2>3, <3>1 DEF ChainSafe, Writers
    <3> QED BY <2>1, <2>5, <3>1, <3>3, <3>4 DEF ChainSafe
  <2> QED BY <2>1, <2>6, <2>7, <2>8 DEF LogInv
<1> QED BY <1>1, <1>2

LEMMA OpenFileInv == ASSUME LogInv, NEW w \in Writers, OpenFile(w) PROVE LogInv'
<1> DEFINE x == [wr[w] EXCEPT !.pc = "opened", !.ino = path']
<1>0. LogTypeOK /\ WriterOK(wr[w]) /\ DOMAIN wr[w] = LogFields /\ wr[w].pc = "locked"
  BY WriterRecords DEF LogInv, OpenFile
<1>1. wr' = [wr EXCEPT ![w] = x] /\ UNCHANGED <<moved, arch, flock, inst, events, acked>>
  BY DEF OpenFile
<1>2. WriterOK(x) /\ x.pc = "opened" /\ x.ino = path' /\ x.seq = wr[w].seq /\ x.last = wr[w].last
      /\ x.cache = wr[w].cache /\ x.key = wr[w].key
  BY <1>0 DEF WriterOK, LogFields
<1>x. PICK y : y = x
  OBVIOUS
<1> HIDE DEF x
<1>3. wr'[w] = y /\ (\A v \in Writers : v # w => wr'[v] = wr[v]) /\ wr' = [v \in Writers |-> wr'[v]]
  BY <1>0, <1>1, <1>x, WriterMoves
<1>4. \A v \in Writers : v # w => wr[v].pc \notin Holding
  BY <1>0, HoldsAlone DEF Holding
<1>5. Len(files) \in Nat /\ DOMAIN files = 1..Len(files) /\ Lists(files)
  BY <1>0, ListFacts DEF LogTypeOK
\* The log is there, or it is made anew and empty.
<1>6. /\ Len(files') \in Nat /\ Len(files) <= Len(files') /\ path' \in 1..Len(files')
      /\ Lists(files') /\ DOMAIN files' = 1..Len(files')
      /\ \A i \in DOMAIN files : i \in DOMAIN files' /\ files'[i] = files[i]
      /\ \A i \in DOMAIN files' : Lists(files'[i]) /\ Newlines(files'[i])
      /\ path = 0 \/ path = path'
      /\ files'[path'] = Active /\ Active' = Active
  <2>1. CASE path = 0
    <3>1. files' = Append(files, <<>>) /\ path' = Len(files) + 1 /\ Active = <<>>
      BY <1>0, <2>1, ActiveLists DEF OpenFile
    <3>2. /\ Lists(files') /\ Len(files') = Len(files) + 1 /\ DOMAIN files' = 1..(Len(files) + 1)
          /\ files'[Len(files) + 1] = <<>>
          /\ \A i \in DOMAIN files : i \in DOMAIN files' /\ files'[i] = files[i]
      BY <1>5, <3>1, ListAppend
    <3>3. \A i \in DOMAIN files' : Lists(files'[i]) /\ Newlines(files'[i])
      <4>1. \A i \in DOMAIN files' : i \in DOMAIN files \/ i = Len(files) + 1
        BY <1>5, <3>2
      <4> QED BY <1>0, <3>2, <4>1, EmptyLists DEF LogTypeOK
    <3>4. path' \in 1..Len(files') /\ path' # 0 /\ Len(files') \in Nat /\ Len(files) <= Len(files')
      BY <1>5, <3>1, <3>2
    <3>5. Active' = files'[path']
      BY <3>4 DEF Active
    <3>6. files'[path'] = <<>>
      BY <3>1, <3>2
    <3> QED BY <2>1, <3>1, <3>2, <3>3, <3>4, <3>5, <3>6
  <2>2. CASE path # 0
    <3>1. files' = files /\ path' = path
      BY <2>2 DEF OpenFile
    <3>2. path \in 1..Len(files) /\ Active = files[path]
      BY <1>0, <1>5, <2>2, ActiveLists
    <3>3. Active' = Active
      BY <3>1 DEF Active
    <3> QED BY <1>0, <1>5, <3>1, <3>2, <3>3 DEF LogTypeOK
  <2> QED BY <2>1, <2>2
<1>7. path' # 0 /\ Named \subseteq Named' /\ path' \in Named' /\ Named \subseteq DOMAIN files
  <2>1. path' # 0
    BY <1>6
  <2>2. Named \subseteq Named' /\ path' \in Named'
    BY <1>1, <1>6, <2>1 DEF Named
  <2>3. Named \subseteq 1..Len(files)
    <3>1. \A i \in 0..Len(files) : i # 0 => i \in 1..Len(files)
      BY <1>5
    <3>2. \A d \in Dirs : arch[d] \in 0..Len(files)
      BY <1>0 DEF LogTypeOK
    <3> QED BY <1>0, <3>1, <3>2 DEF LogTypeOK, Named
  <2> QED BY <1>5, <2>1, <2>2, <2>3
<1>8. LogTypeOK'
  <2>1. \A c \in Clis : wr'[c].key \in {NoValue, VaultKey}
    BY <1>0, <1>2, <1>3, <1>x DEF LogTypeOK, Writers
  <2>2. \A v \in Writers : /\ WriterOK(wr'[v])
                           /\ wr'[v].pc \in Holding => flock' = v
                           /\ wr'[v].pc \in {"opened", "written"} => wr'[v].ino \in 1..Len(files')
    BY <1>0, <1>1, <1>2, <1>3, <1>4, <1>6, <1>x DEF LogTypeOK, Holding
  <2>3. arch' \in [Dirs -> 0..Len(files')]
    <3>1. 0..Len(files) \subseteq 0..Len(files')
      BY <1>5, <1>6
    <3> QED BY <1>0, <1>1, <3>1 DEF LogTypeOK
  <2>4. path' \in 0..Len(files')
    BY <1>6
  <2> QED BY <1>0, <1>1, <1>3, <1>6, <2>1, <2>2, <2>3, <2>4 DEF LogTypeOK
<1>9. ASSUME moved # "unsafe" PROVE FilesSafe'
  <2>1. FilesSafe /\ Decodes(Active)
    BY <1>0, <1>9 DEF LogInv, FilesSafe
  <2>2. \A h \in acked : \E i \in Named' : \E j \in DOMAIN files'[i] : files'[i][j].ok /\ files'[i][j].hash = h
    <3> SUFFICES ASSUME NEW h \in acked
                 PROVE  \E i \in Named' : \E j \in DOMAIN files'[i] : files'[i][j].ok /\ files'[i][j].hash = h
      OBVIOUS
    <3>1. PICK i \in Named : \E j \in DOMAIN files[i] : files[i][j].ok /\ files[i][j].hash = h
      BY <2>1 DEF FilesSafe
    <3>2. i \in Named' /\ files'[i] = files[i]
      BY <1>6, <1>7
    <3> QED BY <3>1, <3>2
  <2>3. \A v \in Writers :
          /\ wr'[v].cache # NoValue => Decodes(wr'[v].cache.lines)
          /\ wr'[v].pc \notin {"locked", "written"}
          /\ wr'[v].pc = "opened" => wr'[v].ino \in Named' /\ path' \in {0, wr'[v].ino} /\ Decodes(files'[wr'[v].ino])
    BY <1>2, <1>3, <1>4, <1>6, <1>7, <1>x, <2>1 DEF FilesSafe, Holding
  <2> QED BY <1>1, <2>2, <2>3 DEF FilesSafe
<1>10. ASSUME moved = "no" PROVE ChainSafe'
  <2>1. ChainSafe
    BY <1>10 DEF LogInv
  <2>2. \A v \in Writers :
          /\ wr'[v].cache # NoValue => CacheOK(wr'[v].cache)
          /\ wr'[v].pc \notin {"locked", "written"}
          /\ wr'[v].pc = "opened" => /\ wr'[v].seq = Len(Active) /\ wr'[v].last = LastHash(Active)
                                     /\ path' = wr'[v].ino
    BY <1>0, <1>2, <1>3, <1>4, <1>x, <2>1 DEF ChainSafe, Holding
  <2>3. \A d \in Daemons : wr'[d].key \in {NoValue, VaultKey}
    BY <1>2, <1>3, <1>x, <2>1 DEF ChainSafe, Writers
  <2> QED BY <1>1, <1>6, <2>1, <2>2, <2>3 DEF ChainSafe
<1> QED BY <1>1, <1>8, <1>9, <1>10 DEF LogInv

\* What a line must be to go on with the chain, when it was written whole.
GoesOn(y, line) ==
    line.seq = y.seq + 1 /\ line.prev = y.last /\ line.scheme = y.key

\* A line is added to the file that w has opened: w has written it, or it was
\* cut off and w lets go.
LEMMA LineStep ==
    ASSUME LogInv, NEW w \in Writers, wr[w].pc = "opened", NEW line, line.ok => line.nl,
           NEW x, WriterOK(x), x.cache = wr[w].cache, x.key = wr[w].key,
           \/ /\ x.pc = "written" /\ x.ino = wr[w].ino /\ x.seq = wr[w].seq /\ x.hash = line.hash
              /\ line.ok /\ GoesOn(wr[w], line) /\ flock' = flock
           \/ x.pc \notin Holding /\ ~line.ok,
           files' = [files EXCEPT ![wr[w].ino] = AddLine(files[wr[w].ino], line)],
           wr' = [wr EXCEPT ![w] = x], UNCHANGED <<path, moved, arch, inst, acked>>,
           events' \in Nat
    PROVE  LogInv'
<1>y. PICK y : y = wr[w]
  OBVIOUS
<1>f. PICK f : f = files[y.ino]
  OBVIOUS
<1> DEFINE g == AddLine(f, line)
<1>0. LogTypeOK /\ y.pc = "opened"
  BY <1>y DEF LogInv
<1>1. wr'[w] = x /\ (\A v \in Writers : v # w => wr'[v] = wr[v]) /\ wr' = [v \in Writers |-> wr'[v]]
  BY <1>0, WriterMoves
<1>2. \A v \in Writers : v # w => wr[v].pc \notin Holding
  BY <1>0, <1>y, HoldsAlone DEF Holding
<1>3. Len(files) \in Nat /\ DOMAIN files = 1..Len(files) /\ Lists(files) /\ y.ino \in DOMAIN files
      /\ flock = w
  BY <1>0, <1>y, ListFacts DEF LogTypeOK, Holding
<1>4. Lists(f) /\ Newlines(f)
  BY <1>0, <1>3, <1>f DEF LogTypeOK
<1>5. Lists(g) /\ Newlines(g) /\ (Decodes(f) => g = Append(f, line))
  BY <1>4, LineAdded
<1>6. files' = [files EXCEPT ![y.ino] = g]
  BY <1>y, <1>f
<1> HIDE DEF g
<1>7. Lists(files') /\ Len(files') = Len(files) /\ DOMAIN files' = DOMAIN files
  <2>1. PICK s : s = files
    OBVIOUS
  <2>2. PICK k : k = y.ino
    OBVIOUS
  <2>3. PICK e : e = g
    OBVIOUS
  <2>4. Lists(s)
    BY <1>3, <2>1
  <2>5. /\ Lists([s EXCEPT ![k] = e]) /\ Len([s EXCEPT ![k] = e]) = Len(s)
        /\ DOMAIN [s EXCEPT ![k] = e] = DOMAIN s
    BY <2>4, ListReplaced, Zenon
  <2>6. PICK t : t = [s EXCEPT ![k] = e]
    OBVIOUS
  <2>7. files' = t
    BY <1>6, <2>1, <2>2, <2>3, <2>6
  <2>8. Lists(t) /\ Len(t) = Len(s) /\ DOMAIN t = DOMAIN s
    BY <2>5, <2>6
  <2>9. \A a, b : a = b => (Lists(a) => Lists(b))
    OBVIOUS
  <2>10. Len(files') = Len(files) /\ DOMAIN files' = DOMAIN files
    BY <2>1, <2>7, <2>8
  <2>11. Lists(files')
    BY <2>7, <2>8, <2>9, Zenon
  <2> QED BY <2>10, <2>11
<1>8. files'[y.ino] = g /\ \A i \in DOMAIN files : i # y.ino => files'[i] = files[i]
  BY <1>3, <1>6
<1>9. Named' = Named /\ Named \subseteq DOMAIN files
  <2>1. \A i \in 0..Len(files) : i # 0 => i \in 1..Len(files)
    BY <1>3
  <2>2. \A d \in Dirs : arch[d] \in 0..Len(files)
    BY <1>0 DEF LogTypeOK
  <2>3. Named \subseteq 1..Len(files)
    BY <1>0, <2>1, <2>2 DEF LogTypeOK, Named
  <2> QED BY <1>3, <2>3 DEF Named
<1>10. LogTypeOK'
  <2>1. \A c \in Clis : wr'[c].key \in {NoValue, VaultKey}
    BY <1>0, <1>1 DEF LogTypeOK, Writers
  <2>2. \A v \in Writers : /\ WriterOK(wr'[v])
                           /\ wr'[v].pc \in Holding => flock' = v
                           /\ wr'[v].pc \in {"opened", "written"} => wr'[v].ino \in 1..Len(files)
    BY <1>0, <1>1, <1>2, <1>3, <1>y DEF LogTypeOK, Holding
  <2>3. \A i \in DOMAIN files' : Lists(files'[i]) /\ Newlines(files'[i])
    BY <1>0, <1>5, <1>7, <1>8 DEF LogTypeOK
  <2> QED BY <1>0, <1>1, <1>7, <2>1, <2>2, <2>3 DEF LogTypeOK
<1>11. ASSUME moved # "unsafe"
       PROVE  /\ FilesSafe /\ Decodes(f) /\ g = Append(f, line) /\ y.ino \in Named /\ path \in {0, y.ino}
              /\ line.ok => Decodes(g)
              /\ g # <<>> /\ LastHash(g) = line.hash
  <2>1. FilesSafe /\ Decodes(f) /\ y.ino \in Named /\ path \in {0, y.ino}
    BY <1>0, <1>11, <1>y, <1>f DEF LogInv, FilesSafe
  <2>2. g = Append(f, line)
    BY <1>5, <2>1
  <2>3. g # <<>> /\ Len(g) = Len(f) + 1 /\ DOMAIN g = 1..(Len(f) + 1) /\ g[Len(f) + 1] = line
        /\ \A i \in DOMAIN f : g[i] = f[i]
    BY <1>4, <2>2, ListAppend
  <2>4. Len(f) \in Nat /\ DOMAIN f = 1..Len(f)
    BY <1>4, ListFacts
  <2>5. line.ok => Decodes(g)
    BY <2>1, <2>3, <2>4 DEF Decodes
  <2>6. LastHash(g) = line.hash
    BY <2>3 DEF LastHash
  <2> QED BY <2>1, <2>2, <2>3, <2>5, <2>6
<1>12. ASSUME moved # "unsafe" PROVE FilesSafe'
  <2>1. ASSUME NEW h \in acked
        PROVE  \E i \in Named : \E j \in DOMAIN files'[i] : files'[i][j].ok /\ files'[i][j].hash = h
    <3>1. PICK i \in Named : \E j \in DOMAIN files[i] : files[i][j].ok /\ files[i][j].hash = h
      BY <1>11, <1>12 DEF FilesSafe
    <3>2. PICK j \in DOMAIN files[i] : files[i][j].ok /\ files[i][j].hash = h
      BY <3>1
    <3>3. j \in DOMAIN files'[i] /\ files'[i][j] = files[i][j]
      <4>1. CASE i = y.ino
        <5>1. j \in DOMAIN g /\ g[j] = f[j]
          BY <1>4, <1>11, <1>12, <1>f, <3>2, <4>1, ListAppend
        <5> QED BY <1>8, <1>f, <4>1, <5>1
      <4>2. CASE i # y.ino
        BY <1>8, <1>9, <3>2, <4>2
      <4> QED BY <4>1, <4>2
    <3> QED BY <3>2, <3>3
  <2>2. \A v \in Writers :
          /\ wr'[v].cache # NoValue => Decodes(wr'[v].cache.lines)
          /\ wr'[v].pc \notin {"locked", "opened"}
    BY <1>1, <1>2, <1>11, <1>12 DEF FilesSafe, Holding
  <2>3. \A v \in Writers : wr'[v].pc = "written" =>
           /\ wr'[v].ino \in Named /\ path \in {0, wr'[v].ino} /\ Decodes(files'[wr'[v].ino])
           /\ files'[wr'[v].ino] # <<>> /\ LastHash(files'[wr'[v].ino]) = wr'[v].hash
    <3> SUFFICES ASSUME NEW v \in Writers, wr'[v].pc = "written"
                 PROVE  /\ wr'[v].ino \in Named /\ path \in {0, wr'[v].ino} /\ Decodes(files'[wr'[v].ino])
                        /\ files'[wr'[v].ino] # <<>> /\ LastHash(files'[wr'[v].ino]) = wr'[v].hash
      OBVIOUS
    <3>1. wr'[v] = x /\ x.pc = "written"
      BY <1>1, <1>2 DEF Holding
    <3>2. x.ino = y.ino /\ x.hash = line.hash /\ line.ok
      BY <1>y, <3>1 DEF Holding
    <3> QED BY <1>8, <1>11, <1>12, <3>1, <3>2
  <2> QED BY <1>9, <2>1, <2>2, <2>3 DEF FilesSafe
<1>13. ASSUME moved = "no" PROVE ChainSafe'
  <2>0. ChainSafe /\ Decodes(f) /\ g = Append(f, line) /\ path = y.ino /\ y.seq = Len(f) /\ y.last = LastHash(f)
        /\ Active = f /\ Active' = g
    <3>1. ChainSafe /\ path = y.ino /\ y.seq = Len(Active) /\ y.last = LastHash(Active)
      BY <1>0, <1>13, <1>y DEF LogInv, ChainSafe
    <3>2. path # 0
      BY <1>3, <3>1
    <3>3. Active = f /\ Active' = g
      BY <1>f, <1>8, <3>1, <3>2 DEF Active
    <3> QED BY <1>11, <1>13, <3>1, <3>3
  <2>1. /\ Len(g) = Len(f) + 1 /\ DOMAIN g = 1..(Len(f) + 1) /\ g[Len(f) + 1] = line
        /\ \A i \in DOMAIN f : i \in DOMAIN g /\ g[i] = f[i]
        /\ Len(f) \in Nat /\ DOMAIN f = 1..Len(f)
    BY <1>4, <2>0, ListAppend, ListFacts
  <2>2. y.key \in {NoValue, VaultKey}
    BY <1>0, <1>y, <2>0 DEF LogTypeOK, ChainSafe, Writers
  <2>3. ChainOK(g)
    <3> SUFFICES ASSUME NEW i \in DOMAIN g
                 PROVE  LineVerifies(g, i, VaultKey) \/ (i = Len(g) /\ ~g[i].ok)
      BY DEF ChainOK
    <3>1. CASE i \in DOMAIN f
      <4>1. LineVerifies(f, i, VaultKey)
        BY <2>0, <3>1 DEF ChainSafe, ChainOK, Decodes
      <4> QED BY <1>4, <2>0, <3>1, <4>1, VerifiedGrows
    <3>2. CASE i \notin DOMAIN f
      <4>1. i = Len(f) + 1
        BY <2>1, <3>2
      <4>2. CASE ~line.ok
        BY <2>1, <4>1, <4>2
      <4>3. CASE line.ok
        <5>1. line.seq = Len(f) + 1 /\ line.prev = LastHash(f) /\ line.scheme \in {NoValue, VaultKey}
          BY <1>y, <2>0, <2>2, <4>3 DEF GoesOn
        <5>2. LastHash(f) = IF i = 1 THEN 0 ELSE g[i - 1].hash
          <6>1. CASE f = <<>>
            <7>1. i = 1
              BY <1>4, <4>1, <6>1, ListFacts
            <7> QED BY <6>1, <7>1 DEF LastHash
          <6>2. CASE f # <<>>
            <7>1. Len(f) \in DOMAIN f /\ i # 1 /\ i - 1 = Len(f)
              BY <1>4, <2>1, <4>1, <6>2, ListFacts
            <7> QED BY <2>1, <6>2, <7>1 DEF LastHash
          <6> QED BY <6>1, <6>2
        <5> QED BY <2>1, <4>1, <4>3, <5>1, <5>2 DEF LineVerifies
      <4> QED BY <4>2, <4>3
    <3> QED BY <3>1, <3>2
  <2>4. \A h \in acked : \E i \in Verified(g, VaultKey) : g[i].hash = h
    <3> SUFFICES ASSUME NEW h \in acked PROVE \E i \in Verified(g, VaultKey) : g[i].hash = h
      OBVIOUS
    <3>1. PICK i \in Verified(f, VaultKey) : f[i].hash = h
      BY <2>0 DEF ChainSafe
    <3>2. i \in Verified(g, VaultKey) /\ i \in DOMAIN f
      BY <1>4, <2>0, VerifiedGrows DEF Verified
    <3> QED BY <2>1, <3>1, <3>2
  <2>5. \A v \in Writers :
          /\ wr'[v].cache # NoValue => CacheOK(wr'[v].cache)
          /\ wr'[v].pc \notin {"locked", "opened"}
          /\ wr'[v].pc = "written" => path = wr'[v].ino /\ wr'[v].seq + 1 = Len(g)
    BY <1>1, <1>2, <1>y, <2>0, <2>1 DEF ChainSafe, Holding
  <2>6. \A d \in Daemons : wr'[d].key \in {NoValue, VaultKey}
    BY <1>1, <2>0 DEF ChainSafe, Writers
  <2>7. \A d \in Daemons : inst[d] # NoValue => SeenOK(inst[d].seen, g)
    BY <2>0, <2>1 DEF ChainSafe, SeenOK
  <2>8. g = files'[y.ino]
    BY <1>8
  <2> QED BY <2>0, <2>3, <2>4, <2>5, <2>6, <2>7 DEF ChainSafe
<1> QED BY <1>10, <1>12, <1>13 DEF LogInv

LEMMA WriteEventInv == ASSUME LogInv, NEW w \in Writers, WriteEvent(w) PROVE LogInv'
<1> DEFINE x == [wr[w] EXCEPT !.pc = "written", !.hash = events + 1]
           line == NewLine(w, TRUE)
<1>1. DOMAIN wr[w] = LogFields /\ WriterOK(wr[w]) /\ wr[w].pc = "opened"
  BY WriterRecords DEF WriteEvent
<1>2. WriterOK(x) /\ x.pc = "written" /\ x.ino = wr[w].ino /\ x.seq = wr[w].seq
      /\ x.hash = events + 1 /\ x.cache = wr[w].cache /\ x.key = wr[w].key
  BY <1>1 DEF WriterOK, LogFields
<1>3. line.ok /\ line.nl /\ line.hash = events + 1 /\ GoesOn(wr[w], line)
  BY DEF NewLine, GoesOn
<1>4. files' = [files EXCEPT ![wr[w].ino] = AddLine(files[wr[w].ino], line)]
      /\ wr' = [wr EXCEPT ![w] = x] /\ UNCHANGED <<path, moved, arch, inst, acked, flock>>
  BY DEF WriteEvent
<1>5. events' \in Nat
  BY DEF WriteEvent, LogInv, LogTypeOK
<1> HIDE DEF x, line
<1>6. line.ok => line.nl
  BY <1>3
<1>7. \/ /\ x.pc = "written" /\ x.ino = wr[w].ino /\ x.seq = wr[w].seq /\ x.hash = line.hash
         /\ line.ok /\ GoesOn(wr[w], line) /\ flock' = flock
      \/ x.pc \notin Holding /\ ~line.ok
  BY <1>2, <1>3, <1>4
<1> QED BY <1>1, <1>2, <1>4, <1>5, <1>6, <1>7, LineStep

LEMMA WriteFailsInv ==
    ASSUME LogInv, "newline" \notin Cuts, NEW w \in Writers, WriteFails(w) PROVE LogInv'
<1> DEFINE x == Errored(w)
           line == BadLine(FALSE)
<1>1. wr[w].pc = "opened" /\ WriterOK(x) /\ x.pc \notin Holding /\ x.cache = wr[w].cache /\ x.key = wr[w].key
  BY WriterRecords DEF WriteFails
<1>2. wr' = [wr EXCEPT ![w] = x] /\ UNCHANGED <<path, moved, arch, inst, acked>> /\ flock' = NoValue
  BY DEF WriteFails
<1>3. events' \in Nat /\ LogTypeOK
  BY DEF WriteFails, LogInv, LogTypeOK
<1>4. flock = w /\ inst = [d \in Daemons |-> inst[d]]
  BY <1>1, <1>3 DEF LogTypeOK, Holding
<1>5. PICK cut \in Cuts :
         files' = CASE cut = "none" -> files
                    [] cut = "part" ->
                         [files EXCEPT ![wr[w].ino] = AddLine(files[wr[w].ino], line)]
                    [] cut = "newline" ->
                         [files EXCEPT ![wr[w].ino] = AddLine(files[wr[w].ino], NewLine(w, FALSE))]
  BY DEF WriteFails
<1>6. cut = "none" \/ cut = "part"
  BY AuditAssumption
<1>7. line.ok = FALSE
  BY DEF BadLine
<1> HIDE DEF x, line
<1>8. CASE cut = "none"
  <2>1. files' = files
    BY <1>5, <1>8
  <2>2. \A v \in Writers : (v # w \/ x.pc \in Holding) /\ flock = v => flock' = v
    BY <1>1, <1>4
  <2> QED BY <1>1, <1>2, <1>3, <1>4, <2>1, <2>2, QuietLogStep
<1>9. CASE cut = "part"
  <2>1. files' = [files EXCEPT ![wr[w].ino] = AddLine(files[wr[w].ino], line)]
    BY <1>5, <1>9
  <2> QED BY <1>1, <1>2, <1>3, <1>7, <2>1, LineStep
<1> QED BY <1>6, <1>8, <1>9

LEMMA FinishInv == ASSUME LogInv, NEW w \in Writers, Finish(w) PROVE LogInv'
<1> DEFINE x == [Returned(w) EXCEPT !.cache = cacheEvent(w)]
<1>y. PICK y : y = wr[w]
  OBVIOUS
<1>0. LogTypeOK /\ y.pc = "written"
  BY <1>y DEF LogInv, Finish
<1>1. WriterOK(Returned(w)) /\ Returned(w).pc = "idle" /\ Returned(w).key = wr[w].key
  BY WriterRecords
<1>2. wr' = [wr EXCEPT ![w] = x] /\ flock' = NoValue /\ acked' = acked \cup {y.hash}
      /\ UNCHANGED <<files, path, moved, arch, inst, events>>
  BY <1>y DEF Finish
<1>3. WriterOK(x) /\ x.pc = "idle" /\ x.key = y.key /\ x.cache = cacheEvent(w)
  BY <1>1, <1>y DEF WriterOK, LogFields
<1> HIDE DEF x
<1>x. PICK z : z = x
  OBVIOUS
<1>4. wr'[w] = z /\ (\A v \in Writers : v # w => wr'[v] = wr[v]) /\ wr' = [v \in Writers |-> wr'[v]]
  BY <1>0, <1>2, <1>x, WriterMoves
<1>5. \A v \in Writers : v # w => wr[v].pc \notin Holding
  BY <1>0, <1>y, HoldsAlone DEF Holding
<1>6. Active' = Active /\ Named' = Named
  BY <1>2 DEF Active, Named
<1>7. \A v \in Writers : wr'[v].pc \notin Holding
  BY <1>3, <1>4, <1>5, <1>x DEF Holding
<1>8. LogTypeOK'
  <2>1. \A c \in Clis : wr'[c].key \in {NoValue, VaultKey}
    BY <1>0, <1>3, <1>4, <1>x, <1>y DEF LogTypeOK, Writers
  <2>2. \A v \in Writers : WriterOK(wr'[v]) /\ wr'[v].pc \notin Holding /\ wr'[v].pc \notin {"opened", "written"}
    BY <1>0, <1>3, <1>4, <1>7, <1>x DEF LogTypeOK, Holding
  <2> QED BY <1>0, <1>2, <1>4, <2>1, <2>2 DEF LogTypeOK
<1>9. ASSUME moved # "unsafe" PROVE FilesSafe'
  <2>1. FilesSafe /\ y.ino \in Named /\ path \in {0, y.ino} /\ Decodes(files[y.ino])
        /\ files[y.ino] # <<>> /\ LastHash(files[y.ino]) = y.hash
    BY <1>0, <1>9, <1>y DEF LogInv, FilesSafe
  <2>2. y.ino \in DOMAIN files /\ Lists(files[y.ino])
    BY <1>0, <1>y, ListFacts DEF LogTypeOK
  <2>3. Len(files[y.ino]) \in DOMAIN files[y.ino]
    BY <2>1, <2>2, ListFacts
  <2>4. \A h \in acked' : \E i \in Named : \E j \in DOMAIN files[i] : files[i][j].ok /\ files[i][j].hash = h
    BY <1>2, <2>1, <2>3 DEF FilesSafe, LastHash, Decodes
  <2>5. x.cache # NoValue => Decodes(x.cache.lines)
    <3> SUFFICES ASSUME x.cache # NoValue PROVE Decodes(x.cache.lines)
      OBVIOUS
    <3>1. cacheEvent(w) # NoValue
      BY <1>3
    <3>2. path # 0 /\ cacheEvent(w) = [ino |-> path, lines |-> files[path], last |-> wr[w].hash,
                                       seq |-> wr[w].seq + 1]
      BY <3>1 DEF cacheEvent
    <3>3. path = y.ino
      BY <2>1, <3>2
    <3> QED BY <1>3, <2>1, <3>2, <3>3
  <2>6. \A v \in Writers : /\ wr'[v].cache # NoValue => Decodes(wr'[v].cache.lines)
                           /\ wr'[v].pc \notin {"locked", "opened", "written"}
    BY <1>4, <1>7, <1>x, <2>1, <2>5 DEF FilesSafe, Holding
  <2> QED BY <1>2, <1>6, <2>4, <2>6 DEF FilesSafe
<1>10. ASSUME moved = "no" PROVE ChainSafe'
  <2>1. ChainSafe /\ FilesSafe /\ path = y.ino /\ y.seq + 1 = Len(Active)
    BY <1>0, <1>10, <1>y DEF LogInv, ChainSafe
  <2>2. y.ino \in DOMAIN files /\ y.ino # 0 /\ Active = files[y.ino] /\ Lists(Active)
    <3>1. y.ino \in 1..Len(files) /\ Len(files) \in Nat
      BY <1>0, <1>y, ListFacts DEF LogTypeOK
    <3>2. y.ino # 0
      BY <3>1
    <3> QED BY <1>0, <2>1, <3>2, ActiveLists
  <2>3. Decodes(Active) /\ Active # <<>> /\ LastHash(Active) = y.hash
    BY <1>0, <1>y, <2>1, <2>2 DEF FilesSafe
  <2>4. Len(Active) \in DOMAIN Active
    BY <2>2, <2>3, ListFacts
  <2>5. Len(Active) \in Verified(Active, VaultKey)
    BY <2>1, <2>2, <2>3, <2>4, DecodedVerifies DEF ChainSafe, Decodes
  <2>6. \A h \in acked' : \E i \in Verified(Active, VaultKey) : Active[i].hash = h
    BY <1>2, <2>1, <2>3, <2>5 DEF ChainSafe, LastHash
  <2>7. x.cache # NoValue => CacheOK(x.cache)
    <3> SUFFICES ASSUME x.cache # NoValue PROVE CacheOK(x.cache)
      OBVIOUS
    <3>1. x.cache = [ino |-> path, lines |-> files[path], last |-> wr[w].hash, seq |-> wr[w].seq + 1]
      BY <1>3 DEF cacheEvent
    <3>2. x.cache.lines = Active /\ x.cache.last = y.hash /\ x.cache.seq = y.seq + 1
      BY <1>y, <2>1, <2>2, <3>1
    <3> QED BY <2>1, <2>3, <3>2 DEF CacheOK
  <2>8. \A v \in Writers : /\ wr'[v].cache # NoValue => CacheOK(wr'[v].cache)
                           /\ wr'[v].pc \notin {"locked", "opened", "written"}
    BY <1>4, <1>7, <1>x, <2>1, <2>7 DEF ChainSafe, Holding
  <2>9. \A d \in Daemons : wr'[d].key \in {NoValue, VaultKey}
    BY <1>3, <1>4, <1>x, <1>y, <2>1 DEF ChainSafe, Writers
  <2> QED BY <1>2, <1>6, <2>1, <2>6, <2>8, <2>9 DEF ChainSafe
<1> QED BY <1>2, <1>8, <1>9, <1>10 DEF LogInv

-----------------------------------------------------------------------------
(* Recoveries *)

\* The log is renamed: the writer that holds the lock goes on with its file.
LEMMA ArchiveInv == ASSUME LogInv, NEW c \in Clis, Archive(c) PROVE LogInv'
<1>0. c \in Writers /\ LogTypeOK /\ wr[c].pc = "archive"
  BY DEF Writers, LogInv, Archive
<1>1. CASE path = 0
  <2>1. WriterOK(Returned(c)) /\ Returned(c).pc \notin Holding
        /\ Returned(c).cache = wr[c].cache /\ Returned(c).key = wr[c].key
    BY <1>0, WriterRecords DEF Holding
  <2>2. wr' = [wr EXCEPT ![c] = Returned(c)] /\ UNCHANGED <<path, arch, moved, files, flock, inst, events, acked>>
    BY <1>1 DEF Archive
  <2>3. events \in Nat /\ inst = [d \in Daemons |-> inst[d]]
    BY <1>0 DEF LogTypeOK
  <2> QED BY <1>0, <2>1, <2>2, <2>3, QuietLogStep
<1>2. CASE path # 0
  <2> DEFINE x == [wr[c] EXCEPT !.pc = "start"]
             dir == wr[c].dir
  <2>1. DOMAIN wr[c] = LogFields /\ WriterOK(wr[c])
    BY <1>0, WriterRecords
  <2>2. wr' = [wr EXCEPT ![c] = x] /\ arch' = [arch EXCEPT ![dir] = path] /\ path' = 0
        /\ moved' = (IF arch[dir] # 0 \/ moved = "unsafe" THEN "unsafe" ELSE "archived")
        /\ UNCHANGED <<files, flock, inst, events, acked>>
    BY <1>2 DEF Archive
  <2>3. dir \in Dirs
    BY <1>0, <2>1 DEF WriterOK
  <2>4. WriterOK(x) /\ x.pc = "start" /\ x.cache = wr[c].cache /\ x.key = wr[c].key
    BY <2>1, <2>3 DEF WriterOK, LogFields
  <2> HIDE DEF x
  <2>5. wr'[c] = x /\ (\A v \in Writers : v # c => wr'[v] = wr[v]) /\ wr' = [v \in Writers |-> wr'[v]]
    BY <1>0, <2>2, WriterMoves
  <2>6. LogTypeOK'
    <3>1. \A d \in Clis : wr'[d].key \in {NoValue, VaultKey}
      BY <1>0, <2>4, <2>5 DEF LogTypeOK, Writers
    <3>2. \A v \in Writers : /\ WriterOK(wr'[v])
                             /\ wr'[v].pc \in Holding => flock' = v
                             /\ wr'[v].pc \in {"opened", "written"} => wr'[v].ino \in 1..Len(files')
      BY <1>0, <2>2, <2>4, <2>5 DEF LogTypeOK, Holding
    <3>3. arch' \in [Dirs -> 0..Len(files)]
      BY <1>0, <2>2, <2>3 DEF LogTypeOK
    <3>4. path' \in 0..Len(files)
      BY <1>0, <2>2 DEF LogTypeOK
    <3> QED BY <1>0, <2>2, <2>5, <3>1, <3>2, <3>3, <3>4 DEF LogTypeOK
  <2>7. ASSUME moved' # "unsafe" PROVE FilesSafe'
    <3>1. moved # "unsafe" /\ arch[dir] = 0
      BY <2>2, <2>7
    <3>2. FilesSafe
      BY <3>1 DEF LogInv
    <3>3. Named \subseteq Named'
      <4>1. \A d \in Dirs : arch'[d] = IF d = dir THEN path ELSE arch[d]
        BY <1>0, <2>2 DEF LogTypeOK
      <4> QED BY <2>2, <2>3, <3>1, <4>1 DEF Named
    <3>4. Decodes(Active')
      BY <2>2, EmptyLists DEF Active
    <3>5. \A h \in acked : \E i \in Named' : \E j \in DOMAIN files[i] : files[i][j].ok /\ files[i][j].hash = h
      BY <3>2, <3>3 DEF FilesSafe
    <3>6. \A v \in Writers :
            /\ wr'[v].cache # NoValue => Decodes(wr'[v].cache.lines)
            /\ wr'[v].pc \in {"opened", "written"} => wr'[v].ino \in Named' /\ Decodes(files[wr'[v].ino])
            /\ wr'[v].pc = "written" =>
                   files[wr'[v].ino] # <<>> /\ LastHash(files[wr'[v].ino]) = wr'[v].hash
      <4> SUFFICES ASSUME NEW v \in Writers
                   PROVE  /\ wr'[v].cache # NoValue => Decodes(wr'[v].cache.lines)
                          /\ wr'[v].pc \in {"opened", "written"} => wr'[v].ino \in Named' /\ Decodes(files[wr'[v].ino])
                          /\ wr'[v].pc = "written" =>
                                 files[wr'[v].ino] # <<>> /\ LastHash(files[wr'[v].ino]) = wr'[v].hash
        OBVIOUS
      <4>1. CASE v = c
        BY <1>0, <2>4, <2>5, <3>2, <4>1 DEF FilesSafe
      <4>2. CASE v # c
        BY <2>5, <3>2, <3>3, <4>2 DEF FilesSafe
      <4> QED BY <4>1, <4>2
    <3> QED BY <2>2, <3>4, <3>5, <3>6 DEF FilesSafe
  <2>8. moved' # "no"
    BY <2>2
  <2> QED BY <2>6, <2>7, <2>8 DEF LogInv
<1> QED BY <1>1, <1>2

LEMMA RestoreLogInv == ASSUME LogInv, NEW c \in Clis, Restore(c) PROVE LogInv'
<1> DEFINE dir == wr[c].dir
<1>0. c \in Writers /\ LogTypeOK /\ WriterOK(wr[c]) /\ wr[c].pc = "restore"
  BY WriterRecords DEF Writers, LogInv, Restore
<1>1. dir \in Dirs
  BY <1>0 DEF WriterOK
<1>2. WriterOK(Returned(c)) /\ Returned(c).pc = "idle" /\ Returned(c).key = wr[c].key
  BY <1>0, WriterRecords
<1>3. wr' = [wr EXCEPT ![c] = Returned(c)] /\ path' = arch[dir] /\ arch' = [arch EXCEPT ![dir] = 0]
      /\ moved' = "unsafe" /\ UNCHANGED <<files, flock, inst, events, acked>>
  BY DEF Restore
<1>x. PICK x : x = Returned(c)
  OBVIOUS
<1>4. wr'[c] = x /\ (\A v \in Writers : v # c => wr'[v] = wr[v]) /\ wr' = [v \in Writers |-> wr'[v]]
  BY <1>0, <1>3, <1>x, WriterMoves
<1>5. LogTypeOK'
  <2>1. \A d \in Clis : wr'[d].key \in {NoValue, VaultKey}
    BY <1>0, <1>2, <1>4, <1>x DEF LogTypeOK, Writers
  <2>2. \A v \in Writers : /\ WriterOK(wr'[v])
                           /\ wr'[v].pc \in Holding => flock' = v
                           /\ wr'[v].pc \in {"opened", "written"} => wr'[v].ino \in 1..Len(files')
    BY <1>0, <1>2, <1>3, <1>4, <1>x DEF LogTypeOK, Holding
  <2>3. path' \in 0..Len(files)
    BY <1>0, <1>1, <1>3 DEF LogTypeOK
  <2>4. arch' \in [Dirs -> 0..Len(files)]
    <3>1. 0 \in 0..Len(files)
      BY <1>0, ListFacts DEF LogTypeOK
    <3> QED BY <1>0, <1>1, <1>3, <3>1 DEF LogTypeOK
  <2> QED BY <1>0, <1>3, <1>4, <2>1, <2>2, <2>3, <2>4 DEF LogTypeOK
<1> QED BY <1>3, <1>5 DEF LogInv

-----------------------------------------------------------------------------
LEMMA LogNextInv ==
    ASSUME "newline" \notin Cuts, LogInv, [LogNext]_logVars PROVE LogInv'
<1>1. CASE UNCHANGED logVars
  <2>1. UNCHANGED <<files, path, arch, moved, flock, wr, inst, events, acked>>
    BY <1>1 DEF logVars
  <2>2. Active' = Active /\ Named' = Named
    BY <2>1 DEF Active, Named
  <2>3. LogTypeOK' <=> LogTypeOK
    BY <2>1 DEF LogTypeOK
  <2>4. FilesSafe' <=> FilesSafe
    BY <2>1, <2>2 DEF FilesSafe
  <2>5. ChainSafe' <=> ChainSafe
    BY <2>1, <2>2 DEF ChainSafe
  <2> QED BY <2>1, <2>3, <2>4, <2>5 DEF LogInv
<1>2. ASSUME NEW w \in Writers,
             \/ AppendEvent(w) \/ LockAndRead(w) \/ OpenFile(w) \/ WriteEvent(w)
             \/ WriteFails(w) \/ Finish(w) \/ Crash(w)
      PROVE  LogInv'
  BY <1>2, AppendEventInv, LockAndReadInv, OpenFileInv, WriteEventInv, WriteFailsInv, FinishInv, CrashInv
<1>3. ASSUME NEW d \in Daemons, InstallKey(d) \/ \E k \in Keys : InstallRead(d, k) PROVE LogInv'
  BY <1>3, InstallKeyInv, InstallReadInv
<1>4. ASSUME NEW c \in Clis,
             \/ EnsureKeyedChainSeed(c) \/ Archive(c) \/ Restore(c)
             \/ \E dir \in Dirs, force \in BOOLEAN : RecoverRead(c, dir, force)
      PROVE  LogInv'
  BY <1>4, SeedInv, ArchiveInv, RestoreLogInv, RecoverReadInv
<1> QED BY <1>1, <1>2, <1>3, <1>4 DEF LogNext

(* Who holds the lock knows the last line, lines that were cut off are     *)
(* last, every other line verifies under the vault's key, and every        *)
(* acknowledged event is in a file that has a name.                        *)
THEOREM LogInvariant == ASSUME "newline" \notin Cuts PROVE LogSpec => []LogInv
<1>1. LogInv /\ [LogNext]_logVars => LogInv'
  BY LogNextInv
<1> QED BY <1>1, LogInitInv, PTL DEF LogSpec

(* An event whose Append returned success verifies while no recovery moves *)
(* the log, the daemon takes no key but the vault's, and no such event is  *)
(* lost while no recovery renames over a file (Append, readLastLocked and  *)
(* cacheEvent of audit/audit.go, installAuditHMACKey of runtime/server.go, *)
(* auditRecoverCommand of app/secrets.go).                                 *)
THEOREM AckedEventsVerify == ASSUME "newline" \notin Cuts PROVE LogSpec => []AckedVerifies
<1>1. LogInv => AckedVerifies
  BY DEF LogInv, FilesSafe, ChainSafe, Named, AckedVerifies
<1> QED BY <1>1, LogInvariant, PTL
==============================================================================
