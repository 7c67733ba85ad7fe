----------------------------- MODULE RevealCache -----------------------------
(***************************************************************************)
(* POST /v1/secrets/{ref}/reveal: handleHTTPReveal of runtime/server.go    *)
(* with its idempotency cache, its single flight per request id, its rate  *)
(* limit and the audit entry every reveal must leave.                      *)
(*                                                                         *)
(* Each handler is a goroutine that serves one request.  revealMu guards   *)
(* the cache, the flights and the rates; the clock is read just before it  *)
(* is taken, so a reading may be up to Lag old when it is used.            *)
(***************************************************************************)
EXTENDS Naturals, FiniteSets

CONSTANTS
    Revealers,   \* request handlers
    RequestIds, \* values of HASP-Request-Id
    Actors,     \* clients
    Refs,       \* secret references
    NoOne,       \* no cache entry, no flight
    RateLimit,  \* revealRateLimitCount
    RateWindow, \* revealRateLimitWindow
    RevealTTL,        \* revealIdempotencyTTL
    Lag,        \* how old a clock reading may be when it is used
    RevealUntil     \* bound on the clock

\* What the cache keeps of a reveal.
RevealEntries == [actor: Actors, ref: Refs, exp: Nat, by: Revealers]

ASSUME RevealAssumption ==
    /\ RateLimit \in Nat \ {0} /\ RateWindow \in Nat /\ RevealTTL \in Nat
    /\ Lag \in Nat /\ RevealUntil \in Nat /\ Lag <= RateWindow /\ Lag <= RevealTTL
    /\ NoOne \notin Revealers \cup RevealEntries

VARIABLES
    revealClock,      \* the clock
    vaultLocked,   \* the session store is vaultLocked
    cache,    \* request id -> [actor, ref, exp, by] or NoOne
    flight,   \* request id -> the handler that owns the flight, or NoOne
    req,      \* handler -> where it is and what it answered
    rates,    \* actor -> the admissions remembered, with their owners
    reveals   \* history: the reveals audited, [id, actor, at, by]

revealVars == <<revealClock, vaultLocked, cache, flight, req, rates, reveals>>

Readings == {t \in 0..revealClock : revealClock - t <= Lag}

\* by: the handler whose reveal an answer comes from; exp: the expiry of the
\* entry an owner is about to leave.
NoReveal == [at |-> "idle", id |-> NoOne, actor |-> NoOne, ref |-> NoOne,
             by |-> NoOne, exp |-> 0]

Turn(h, at)   == req' = [req EXCEPT ![h].at = at]
AnswerReveal(h, by) == req' = [req EXCEPT ![h].at = "served", ![h].by = by]

SameRequest(h, e) == e.actor = req[h].actor /\ e.ref = req[h].ref

-----------------------------------------------------------------------------
RevealArrives(h, id, a, r) ==
    /\ req[h].at = "idle"
    /\ req' = [req EXCEPT ![h] = [NoReveal EXCEPT !.at = "get", !.id = id,
                                              !.actor = a, !.ref = r]]
    /\ UNCHANGED <<revealClock, vaultLocked, cache, flight, rates, reveals>>

\* revealPruneLocked
Pruned(t) == [id \in RequestIds |->
                 IF cache[id] # NoOne /\ cache[id].exp > t THEN cache[id] ELSE NoOne]

\* revealCacheGet: before the lock state is looked at.
CacheGet(h) ==
    \E t \in Readings :
        LET e == Pruned(t)[req[h].id] IN
        /\ req[h].at = "get"
        /\ cache' = Pruned(t)
        /\ CASE e = NoOne -> Turn(h, "gate")
             [] e # NoOne /\ SameRequest(h, e) -> AnswerReveal(h, e.by)
             [] OTHER -> Turn(h, "conflict")
        /\ UNCHANGED <<revealClock, vaultLocked, flight, rates, reveals>>

Gate(h) ==
    /\ req[h].at = "gate"
    /\ Turn(h, IF vaultLocked THEN "refused" ELSE "begin")
    /\ UNCHANGED <<revealClock, vaultLocked, cache, flight, rates, reveals>>

\* revealBegin: answer from the cache, join a flight, or own a new one.
BeginFlight_NoRecheck(h) ==
    \E t \in Readings :
        LET id == req[h].id  o == flight[id] IN
        /\ req[h].at = "begin"
        /\ cache' = Pruned(t)
        /\ \/ /\ o # NoOne
              /\ IF SameRequest(h, req[o])
                 THEN req' = [req EXCEPT ![h].at = "wait", ![h].by = o]
                 ELSE Turn(h, "conflict")
              /\ UNCHANGED flight
           \/ /\ o = NoOne
              /\ flight' = [flight EXCEPT ![id] = h]
              /\ Turn(h, "rate")
        /\ UNCHANGED <<revealClock, vaultLocked, rates, reveals>>

BeginFlight_AnyJoins(h) ==
    \E t \in Readings :
        LET id == req[h].id  e == Pruned(t)[id]  o == flight[id] IN
        /\ req[h].at = "begin"
        /\ cache' = Pruned(t)
        /\ \/ /\ e # NoOne
              /\ IF SameRequest(h, e) THEN AnswerReveal(h, e.by) ELSE Turn(h, "conflict")
              /\ UNCHANGED flight
           \/ /\ e = NoOne /\ o # NoOne
              /\ req' = [req EXCEPT ![h].at = "wait", ![h].by = o]
              /\ UNCHANGED flight
           \/ /\ e = NoOne /\ o = NoOne
              /\ flight' = [flight EXCEPT ![id] = h]
              /\ Turn(h, "rate")
        /\ UNCHANGED <<revealClock, vaultLocked, rates, reveals>>

BeginFlight(h) ==
    \E t \in Readings :
        LET id == req[h].id  e == Pruned(t)[id]  o == flight[id] IN
        /\ req[h].at = "begin"
        /\ cache' = Pruned(t)
        /\ \/ /\ e # NoOne
              /\ IF SameRequest(h, e) THEN AnswerReveal(h, e.by) ELSE Turn(h, "conflict")
              /\ UNCHANGED flight
           \/ /\ e = NoOne /\ o # NoOne
              /\ IF SameRequest(h, req[o])
                 THEN req' = [req EXCEPT ![h].at = "wait", ![h].by = o]
                 ELSE Turn(h, "conflict")
              /\ UNCHANGED flight
           \/ /\ e = NoOne /\ o = NoOne
              /\ flight' = [flight EXCEPT ![id] = h]
              /\ Turn(h, "rate")
        /\ UNCHANGED <<revealClock, vaultLocked, rates, reveals>>

\* <-inflight.done: the owner has finished, well or not.
WaitFlight(h) ==
    LET o == req[h].by IN
    /\ req[h].at = "wait" /\ flight[req[h].id] # o
    /\ IF req[o].at = "served" THEN AnswerReveal(h, o) ELSE Turn(h, "failed")
    /\ UNCHANGED <<revealClock, vaultLocked, cache, flight, rates, reveals>>

\* allowReveal
RecentReveals(a, t) == {x \in rates[a] : x.t + RateWindow > t}

AllowReveal(h) ==
    \E t \in Readings :
        LET a == req[h].actor  kept == RecentReveals(a, t) IN
        /\ req[h].at = "rate"
        /\ IF Cardinality(kept) >= RateLimit
           THEN Turn(h, "finishErr") /\ rates' = [rates EXCEPT ![a] = kept]
           ELSE /\ Turn(h, "find")
                /\ rates' = [rates EXCEPT ![a] = kept \cup {[t |-> t, by |-> h]}]
        /\ UNCHANGED <<revealClock, vaultLocked, cache, flight, reveals>>

\* revealcore.Run, the reveal key and buildRevealResponse: each may fail.
Find(h) ==
    /\ req[h].at = "find"
    /\ Turn(h, "audit") \/ Turn(h, "finishErr")
    /\ UNCHANGED <<revealClock, vaultLocked, cache, flight, rates, reveals>>

\* appendRevealAudit, then the entry with its expiry; no audit, no answer.
\* (The encoding that follows is of a record of strings and cannot fail.)
Audit(h) ==
    /\ req[h].at = "audit"
    /\ \/ /\ reveals' = reveals \cup
                 {[id |-> req[h].id, actor |-> req[h].actor, at |-> revealClock, by |-> h]}
          /\ \E t \in Readings :
                 req' = [req EXCEPT ![h].at = "finish", ![h].exp = t + RevealTTL]
       \/ Turn(h, "finishErr") /\ UNCHANGED reveals
    /\ UNCHANGED <<revealClock, vaultLocked, cache, flight, rates>>

\* revealFinish: deferred, so it runs on every path of the owner.
FinishFlight(h) ==
    LET id == req[h].id IN
    /\ req[h].at \in {"finish", "finishErr"}
    /\ flight' = [flight EXCEPT ![id] = NoOne]
    /\ IF req[h].at = "finish"
       THEN /\ cache' = [cache EXCEPT ![id] = [actor |-> req[h].actor,
                             ref |-> req[h].ref, exp |-> req[h].exp, by |-> h]]
            /\ AnswerReveal(h, h)
       ELSE Turn(h, "failed") /\ UNCHANGED cache
    /\ UNCHANGED <<revealClock, vaultLocked, rates, reveals>>

\* The environment: time, and the vault being locked and unlocked.
RevealTick ==
    /\ revealClock < RevealUntil
    /\ revealClock' = revealClock + 1
    /\ UNCHANGED <<vaultLocked, cache, flight, req, rates, reveals>>

SetLocked(b) ==
    /\ vaultLocked # b
    /\ vaultLocked' = b
    /\ UNCHANGED <<revealClock, cache, flight, req, rates, reveals>>

-----------------------------------------------------------------------------
RevealInit ==
    /\ revealClock = 0
    /\ vaultLocked = FALSE
    /\ cache = [id \in RequestIds |-> NoOne]
    /\ flight = [id \in RequestIds |-> NoOne]
    /\ req = [h \in Revealers |-> NoReveal]
    /\ rates = [a \in Actors |-> {}]
    /\ reveals = {}

RevealStep(h) == \/ CacheGet(h) \/ Gate(h) \/ BeginFlight(h) \/ WaitFlight(h)
                 \/ AllowReveal(h) \/ Find(h) \/ Audit(h) \/ FinishFlight(h)

RevealNext ==
    \/ \E h \in Revealers :
        \/ RevealStep(h)
        \/ \E id \in RequestIds, a \in Actors, r \in Refs : RevealArrives(h, id, a, r)
    \/ RevealTick
    \/ \E b \in BOOLEAN : SetLocked(b)

RevealSpec == RevealInit /\ [][RevealNext]_revealVars

-----------------------------------------------------------------------------
(* Properties *)

\* A secret leaves the daemon only after its reveal is in the audit log, and
\* only to the actor and for the reference it was revealed for: an answer
\* from the cache or from somebody else's flight is that client's own.
AuditedAndOwn ==
    \A h \in Revealers : req[h].at = "served" =>
        /\ \E x \in reveals : x.by = req[h].by /\ x.actor = req[h].actor
        /\ req[req[h].by].ref = req[h].ref

\* A request id is revealed once: retries, in flight or after, are answered
\* from the first reveal for as long as its entry is promised to live.  And
\* whoever joined a flight is released: one that is not over has an owner that
\* is still at work on it, also when the owner fails on the way.
RevealedOnce ==
    /\ \A x, y \in reveals : x.id = y.id /\ x # y =>
        x.at + RevealTTL <= y.at + Lag \/ y.at + RevealTTL <= x.at + Lag
    /\ \A id \in RequestIds : flight[id] # NoOne =>
        /\ req[flight[id]].id = id
        /\ req[flight[id]].at \in {"rate", "find", "audit", "finish", "finishErr"}
=============================================================================
