--------------------------- MODULE ApprovalBroker ---------------------------
(***************************************************************************)
(* Approval requests and the leases they produce: runtime/approvals.go and *)
(* decideApprovalTrusted of runtime/server.go, composed with SessionStore. *)
(*                                                                         *)
(* A decision takes two critical sections.  PrepareDecision looks at the   *)
(* approval under ApprovalStore.mu; the lease is then built outside any    *)
(* lock; finally a grant takes SessionStore.mu, checks that the vault is   *)
(* not locked, and decides the approval and inserts the lease together.    *)
(* Between the two sections any other request runs: another decision on    *)
(* the same approval, a lock, an expiry.                                   *)
(***************************************************************************)
EXTENDS SessionStore

CONSTANTS
    Deciders,     \* handler goroutines deciding approvals concurrently
    ApprovalTTL   \* how long a queued approval stays open

ASSUME ApprovalAssumption == ApprovalTTL \in Nat

\* An approval is named by the lease it asks for.
Approvals == Leases

VARIABLES
    approvals,   \* approval -> record
    decision     \* decider -> the decision it is part-way through

approvalVars == <<approvals, decision>>
brokerVars   == <<vars, approvals, decision>>

-----------------------------------------------------------------------------
Approval == [status: {"none", "pending", "granted", "denied", "expired"},
             consumer: Consumers \cup {NoConsumer},
             ttl: Nat, expiresAt: Nat, decidedAt: Nat]

Unqueued == [status |-> "none", consumer |-> NoConsumer, ttl |-> 0,
             expiresAt |-> 0, decidedAt |-> 0]

\* `step' says which DecidePrepared call follows: the one under
\* SessionStore.mu with a prepared lease, or the direct one.
Decision == [step: {"idle", "lease", "direct"},
             approval: Approvals \cup {NoLease},
             grant: BOOLEAN, ttl: Nat, since: Nat]

Idle == [step |-> "idle", approval |-> NoLease, grant |-> FALSE,
         ttl |-> 0, since |-> 0]

-----------------------------------------------------------------------------
(* ApprovalStore *)

Pending(a) == approvals[a].status = "pending"

Late(a, at) == Pending(a) /\ at > approvals[a].expiresAt

\* Queue
Queue(a, consumer, ttl, at) ==
    /\ approvals[a].status = "none"
    /\ approvals' = [approvals EXCEPT ![a] =
           [status |-> "pending", consumer |-> consumer, ttl |-> ClampTTL(ttl),
            expiresAt |-> at + ApprovalTTL, decidedAt |-> 0]]
    /\ UNCHANGED <<decision, vars>>

\* Snapshot
SnapshotApprovals(at) ==
    /\ approvals' = [a \in Approvals |->
           IF Late(a, at) THEN [approvals[a] EXCEPT !.status = "expired"]
                          ELSE approvals[a]]
    /\ UNCHANGED <<decision, vars>>

\* decideApprovalTrusted up to and including PrepareDecision.
PrepareDecision(d, a, grant, ttl, at) ==
    /\ decision[d] = Idle
    /\ approvals[a].status # "none"
    /\ IF Late(a, at)
       THEN /\ approvals' = [approvals EXCEPT ![a].status = "expired"]
            /\ UNCHANGED decision
       ELSE /\ decision' = [decision EXCEPT ![d] =
                   [step |-> IF grant /\ Pending(a) THEN "lease" ELSE "direct",
                    approval |-> a, grant |-> grant, ttl |-> ttl, since |-> now]]
            /\ UNCHANGED approvals
    /\ UNCHANGED vars

\* Mutant: a settled approval is decided again.
Decided_Again(a, grant, at) ==
    [approvals[a] EXCEPT !.status = IF grant THEN "granted" ELSE "denied",
                         !.decidedAt = at]

\* DecidePrepared, which leaves a decided or expired approval as it is.
Decided(a, grant, at) ==
    IF ~Pending(a) THEN approvals[a]
    ELSE IF Late(a, at) THEN [approvals[a] EXCEPT !.status = "expired"]
    ELSE [approvals[a] EXCEPT !.status = IF grant THEN "granted" ELSE "denied",
                              !.decidedAt = at]

\* The time to live of the lease: what the decision names, else what the
\* request named, and never more than the default.
LeaseTTL(d) == ClampTTL(IF decision[d].ttl = 0
                        THEN approvals[decision[d].approval].ttl
                        ELSE decision[d].ttl)

\* The denying half, and a grant that found the approval already settled.
CommitDirect(d, at) ==
    /\ decision[d].step = "direct"
    /\ approvals' = [approvals EXCEPT ![decision[d].approval] =
           Decided(decision[d].approval, decision[d].grant, at)]
    /\ decision' = [decision EXCEPT ![d] = Idle]
    /\ UNCHANGED vars

\* The granting half refuses a locked vault...
VaultLocked(at) == locked \/ ActiveAt(sessions, at) = {}

CommitLocked(d, at) ==
    /\ decision[d].step = "lease"
    /\ VaultLocked(at)
    /\ decision' = [decision EXCEPT ![d] = Idle]
    /\ UNCHANGED <<approvals, vars>>

\* ... leaves an approval that was settled or ran out since it was prepared...
CommitTooLate(d, at, check) ==
    LET a == decision[d].approval IN
    /\ decision[d].step = "lease"
    /\ ~VaultLocked(check)
    /\ ~Pending(a) \/ Late(a, at)
    /\ approvals' = [approvals EXCEPT ![a] = Decided(a, TRUE, at)]
    /\ decision' = [decision EXCEPT ![d] = Idle]
    /\ UNCHANGED vars

\* Mutant: the lease is inserted whether or not this decision changed anything.
CommitLease_Unconditional(d, t, born, at, check) ==
    LET a == decision[d].approval IN
    /\ decision[d].step = "lease"
    /\ ~VaultLocked(check)
    /\ approvals' = [approvals EXCEPT ![a] = Decided(a, TRUE, at)]
    /\ sessions[t].status = "absent"
    /\ sessions' = [sessions EXCEPT ![t] =
           NewSession(approvals[a].consumer, LeaseTTL(d), a, born)]
    /\ decision' = [decision EXCEPT ![d] = Idle]
    /\ UNCHANGED <<processes, locked, degraded, envVars, histVars>>

\* ... and otherwise grants it, and inserts the lease that newSession built
\* at time `born' in the same critical section.
CommitLease(d, t, born, at, check) ==
    LET a == decision[d].approval IN
    /\ decision[d].step = "lease"
    /\ ~VaultLocked(check)
    /\ Pending(a) /\ ~Late(a, at)
    /\ approvals' = [approvals EXCEPT ![a] = Decided(a, TRUE, at)]
    /\ sessions[t].status = "absent"
    /\ sessions' = [sessions EXCEPT ![t] =
           NewSession(approvals[a].consumer, LeaseTTL(d), a, born)]
    /\ decision' = [decision EXCEPT ![d] = Idle]
    /\ UNCHANGED <<processes, locked, degraded, envVars, histVars>>

-----------------------------------------------------------------------------
BrokerInit == /\ Init
              /\ approvals = [a \in Approvals |-> Unqueued]
              /\ decision = [d \in Deciders |-> Idle]

\* The clock readings of one handler follow each other: born, then the
\* locked check, then DecidePrepared's.
ApprovalOp ==
    \/ \E a \in Approvals, c \in Consumers, ttl \in TTLs, at \in 0..now :
          Queue(a, c, ttl, at)
    \/ \E at \in 0..now : SnapshotApprovals(at)
    \/ \E d \in Deciders, a \in Approvals, grant \in BOOLEAN, ttl \in TTLs,
          at \in 0..now : PrepareDecision(d, a, grant, ttl, at)
    \/ \E d \in Deciders : \E at \in decision[d].since..now : CommitDirect(d, at)
    \/ \E d \in Deciders : \E at \in decision[d].since..now : CommitLocked(d, at)
    \/ \E d \in Deciders : \E check \in decision[d].since..now :
          \E at \in check..now : CommitTooLate(d, at, check)
    \/ \E d \in Deciders, t \in Tokens : \E born \in decision[d].since..now :
          \E check \in born..now : \E at \in check..now :
             CommitLease(d, t, born, at, check)

BrokerNext == \/ ApprovalOp
              \/ Next /\ UNCHANGED approvalVars

BrokerSpec == BrokerInit /\ [][BrokerNext]_brokerVars

-----------------------------------------------------------------------------
(* Properties *)

\* The shape of the approval table and of the decisions in progress.
BrokerTypeOK ==
    /\ TypeOK
    /\ approvals \in [Approvals -> Approval]
    /\ decision \in [Deciders -> Decision]

\* Grants and leases match one to one: an approval is granted exactly when a
\* lease was inserted for it, and then exactly one, however many decisions
\* on it race.  A denied or expired approval never has a lease.
LeaseIffGranted ==
    \A a \in Approvals :
        /\ approvals[a].status = "granted"
             <=> \E t \in Tokens : sessions[t].lease = a
        /\ \A t, u \in Tokens :
             sessions[t].lease = a /\ sessions[u].lease = a => t = u

\* A lease carries the requester of its own approval, and it was granted
\* before the approval ran out.
LeaseMatchesRequest ==
    \A t \in Tokens : sessions[t].lease # NoLease =>
        LET a == approvals[sessions[t].lease] IN
        /\ sessions[t].consumer = a.consumer
        /\ a.decidedAt <= a.expiresAt
        /\ sessions[t].expiresAt <= a.decidedAt + DefaultTTL

\* A decision is final: a granted, denied or expired approval never changes.
\* And approving never opens the vault: while it is locked no lease appears, and
\* only a session opened by a client clears the flag.
DecisionsFinal ==
    [][/\ \A a \in Approvals : approvals[a].status \in {"granted", "denied", "expired"}
              => approvals'[a] = approvals[a]
       /\ locked =>
            /\ \A t \in Tokens : sessions[t].lease = NoLease
                                   => sessions'[t].lease = NoLease
            /\ ~locked' => \E t \in Tokens : /\ sessions[t].status = "absent"
                                             /\ Live(sessions'[t])]_brokerVars
=============================================================================
