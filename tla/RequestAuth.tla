---------------------------- MODULE RequestAuth ----------------------------
(***************************************************************************)
(* Validation of signed HTTP requests (internal/httpapi/auth.go): the date *)
(* is checked when a request arrives, its body is read, its signature is   *)
(* compared, and only then is its nonce looked up and remembered.  Many    *)
(* handlers do this at once; the nonce cache has a mutex of its own.       *)
(*                                                                         *)
(* A request is what its signature covers, abstracted to date and nonce.   *)
(* Requests with a missing or malformed header or a wrong signature are    *)
(* answered 401 and change nothing.                                        *)
(***************************************************************************)
EXTENDS Integers

CONSTANTS
    Handlers,  \* goroutines serving connections
    Nonces,
    Skew,      \* allowedDateSkew
    TTL,       \* nonceTTL
    MaxDelay,  \* the longest a body takes to arrive (no timeout of the server)
    MaxTime,   \* bound on dates and on the clock
    None

Times == 0 .. MaxTime
Requests == [date: Times, nonce: Nonces]

(* The defaults are 60 s and 5 min: a body may take three minutes. *)
ASSUME AuthAssumption ==
    /\ Skew \in Nat /\ TTL \in Nat /\ MaxDelay \in Nat /\ MaxTime \in Nat
    /\ 2 * Skew + MaxDelay <= TTL
    /\ None \notin Int /\ None \notin [req: Requests, at: Int]

VARIABLES
    now,      \* v.now() and c.now()
    entries,  \* the nonce cache: when each nonce was seen
    pending,  \* the request each handler is reading and when its date was checked
    served,   \* how often each request was passed on
    seenAt    \* when it last was

vars == <<now, entries, pending, served, seenAt>>

Init ==
    /\ now = 0
    /\ entries = [n \in Nonces |-> None]
    /\ pending = [h \in Handlers |-> None]
    /\ served = [r \in Requests |-> 0]
    /\ seenAt = [r \in Requests |-> 0]

(* Time passes, but no body is read for longer than MaxDelay. *)
Tick ==
    /\ now < MaxTime
    /\ \A h \in Handlers : pending[h] # None => now < pending[h].at + MaxDelay
    /\ now' = now + 1
    /\ UNCHANGED <<entries, pending, served, seenAt>>

(* A request arrives with a date that is near enough (else it is refused). *)
CheckDate(h, r) ==
    /\ pending[h] = None
    /\ r.date - now <= Skew
    /\ r.date - now >= -Skew
    /\ pending' = [pending EXCEPT ![h] = [req |-> r, at |-> now]]
    /\ UNCHANGED <<now, entries, served, seenAt>>

(* Mutant: nonces are kept as long as dates are allowed to be off. *)
cutoff_Skew == now - Skew

cutoff == now - TTL

Expired(n) == entries[n] # None /\ entries[n] < cutoff

(* The body has been read and the signature is right: old nonces are       *)
(* dropped, this one is remembered and the request is served.              *)
remember(h) ==
    LET r == pending[h].req
    IN  /\ pending[h] # None
        /\ entries[r.nonce] = None \/ Expired(r.nonce)
        /\ entries' = [n \in Nonces |->
                         IF n = r.nonce THEN now
                         ELSE IF Expired(n) THEN None ELSE entries[n]]
        /\ served' = [served EXCEPT ![r] = @ + 1]
        /\ seenAt' = [seenAt EXCEPT ![r] = now]
        /\ pending' = [pending EXCEPT ![h] = None]
        /\ UNCHANGED now

(* ErrNonceReplay, after the same clearing of the cache. *)
refuse(h) ==
    /\ pending[h] # None
    /\ entries[pending[h].req.nonce] # None
    /\ ~Expired(pending[h].req.nonce)
    /\ entries' = [n \in Nonces |-> IF Expired(n) THEN None ELSE entries[n]]
    /\ pending' = [pending EXCEPT ![h] = None]
    /\ UNCHANGED <<now, served, seenAt>>

(* The body is too long or ends early. *)
BodyFails(h) ==
    /\ pending[h] # None
    /\ pending' = [pending EXCEPT ![h] = None]
    /\ UNCHANGED <<now, entries, served, seenAt>>

Next ==
    \/ Tick
    \/ \E h \in Handlers :
         \/ \E r \in Requests : CheckDate(h, r)
         \/ remember(h)
         \/ refuse(h)
         \/ BodyFails(h)

Spec == Init /\ [][Next]_vars

-----------------------------------------------------------------------------
(* The variables hold the values the Go types can hold, and no nonce was   *)
(* seen in the future.                                                     *)
TypeOK ==
    /\ now \in Times
    /\ entries \in [Nonces -> Times \cup {None}]
    /\ \A n \in Nonces : entries[n] # None => entries[n] <= now
    /\ pending \in [Handlers -> [req: Requests, at: Times] \cup {None}]
    /\ served \in [Requests -> Nat]
    /\ seenAt \in [Requests -> Times]

(* A signed request is served at most once in the life of the daemon,      *)
(* however often and whenever it is sent again: its nonce is remembered    *)
(* until its date is too old, even when the date was ahead of the clock    *)
(* and the body came late (Validate, nonceCache.remember).                 *)
NoReplay == \A r \in Requests : served[r] <= 1

-----------------------------------------------------------------------------
(* The parts of the inductive invariant. *)

(* A request being read had a date near the clock when it was checked. *)
PendingFresh ==
    \A h \in Handlers : pending[h] # None =>
        /\ pending[h].req.date - pending[h].at <= Skew
        /\ pending[h].at - pending[h].req.date <= Skew
        /\ pending[h].at <= now
        /\ now <= pending[h].at + MaxDelay

(* A served request is remembered, at its time or a later one, or was      *)
(* served longer than TTL ago; and its date was not far ahead.             *)
ServedRemembered ==
    \A r \in Requests : served[r] > 0 =>
        /\ seenAt[r] <= now
        /\ r.date - seenAt[r] <= Skew
        /\ \/ entries[r.nonce] # None /\ entries[r.nonce] >= seenAt[r]
           \/ seenAt[r] < now - TTL

AuthInv == TypeOK /\ PendingFresh /\ ServedRemembered /\ NoReplay
=============================================================================
