--------------------------- MODULE Handlers_proofs ---------------------------
(***************************************************************************)
(* Proofs about handlers of requests that run at the same time: the HTTP   *)
(* listener's validation of signed requests (RequestAuth), the reveal of   *)
(* secrets (RevealCache) and the tests of the master password (VaultDoor), *)
(* for any number of handlers; the tools that MCP connections call         *)
(* (AgentTools), for any number of connections; and backups (Backup), for  *)
(* any number of exports that run at once beside a restore.                *)
(***************************************************************************)
EXTENDS RequestAuth, RevealCache, VaultDoor, AgentTools, Backup, FiniteSetTheorems, TLAPS

(***************************************************************************)
(* Signed requests: RequestAuth.  No signed request is served twice, for   *)
(* any number of handlers and nonces and any Skew, TTL and MaxDelay with   *)
(* 2 * Skew + MaxDelay <= TTL.                                             *)
(*                                                                         *)
(* The argument: a request whose entry has gone was served more than TTL   *)
(* ago.  Its date was at most Skew ahead then, so a second check of its    *)
(* date passes no later than 2 * Skew after it was served, and its nonce   *)
(* is looked up no later than MaxDelay after that check.                   *)
(***************************************************************************)

(* At the start nothing has been seen, read or served. *)
LEMMA InitAuthInv == Init => AuthInv
BY AuthAssumption DEF Init, AuthInv, TypeOK, PendingFresh, ServedRemembered,
                      NoReplay, Times, Requests

(* Time passes: entries only grow older, and reading stays in its bound. *)
LEMMA TickAuthInv == AuthInv /\ Tick => AuthInv'
<1> SUFFICES ASSUME AuthInv, Tick PROVE AuthInv'
  OBVIOUS
<1> USE AuthAssumption DEF AuthInv, Tick, Times
<1>1. TypeOK'
  BY DEF TypeOK
<1>2. PendingFresh'
  BY DEF TypeOK, PendingFresh
<1>3. ServedRemembered'
  BY DEF TypeOK, ServedRemembered
<1>4. NoReplay'
  BY DEF NoReplay
<1> QED BY <1>1, <1>2, <1>3, <1>4

(* A date is checked against the clock of that moment. *)
LEMMA CheckDateAuthInv ==
    ASSUME AuthInv, NEW h \in Handlers, NEW r \in Requests, CheckDate(h, r)
    PROVE  AuthInv'
<1> USE AuthAssumption DEF AuthInv, CheckDate, Times
<1>1. TypeOK'
  BY DEF TypeOK
<1>2. PendingFresh'
  BY DEF TypeOK, PendingFresh, Requests
<1>3. ServedRemembered'
  BY DEF TypeOK, ServedRemembered
<1>4. NoReplay'
  BY DEF NoReplay
<1> QED BY <1>1, <1>2, <1>3, <1>4

(* Dropping expired entries keeps every served request remembered or old. *)
LEMMA ClearedRemembered ==
    ASSUME AuthInv, NEW r \in Requests, served[r] > 0, Expired(r.nonce)
    PROVE  seenAt[r] < now - TTL
<1>1. r.nonce \in Nonces
  BY DEF Requests
<1>2. seenAt[r] \in Int /\ now \in Int /\ TTL \in Int
  BY AuthAssumption DEF AuthInv, TypeOK, Times
<1>3. entries[r.nonce] \in Int /\ entries[r.nonce] < now - TTL
  BY <1>1, AuthAssumption DEF AuthInv, TypeOK, Expired, cutoff, Times
<1>4. entries[r.nonce] >= seenAt[r] \/ seenAt[r] < now - TTL
  BY DEF AuthInv, ServedRemembered
<1> QED BY <1>2, <1>3, <1>4

(* The heart of the proof: a request that passes the look-up of its nonce  *)
(* has not been served before.                                             *)
LEMMA RememberedIsNew ==
    ASSUME AuthInv, NEW h \in Handlers, remember(h)
    PROVE  served[pending[h].req] = 0
<1> DEFINE r == pending[h].req
<1>1. r \in Requests /\ pending[h].at \in Times
  BY DEF AuthInv, TypeOK, remember
<1>2. r.date \in Int /\ seenAt[r] \in Int /\ now \in Int /\ pending[h].at \in Int
      /\ served[r] \in Nat
  <2>1. seenAt \in [Requests -> Times] /\ served \in [Requests -> Nat]
        /\ now \in Times
    BY DEF AuthInv, TypeOK
  <2>2. r.date \in Times
    BY <1>1 DEF Requests
  <2> HIDE DEF r
  <2>3. seenAt[r] \in Times /\ served[r] \in Nat
    BY <1>1, <2>1
  <2> QED BY <1>1, <2>1, <2>2, <2>3, AuthAssumption DEF Times
<1>3. ASSUME served[r] > 0 PROVE FALSE
  <2>1. seenAt[r] < now - TTL
    <3>1. CASE Expired(r.nonce)
      BY <1>1, <1>3, <3>1, ClearedRemembered
    <3>2. CASE entries[r.nonce] = None
      BY <1>1, <1>3, <3>2 DEF AuthInv, ServedRemembered
    <3> QED BY <3>1, <3>2 DEF remember
  <2>2. r.date - seenAt[r] <= Skew
    BY <1>1, <1>3 DEF AuthInv, ServedRemembered
  <2>3. pending[h].at - r.date <= Skew /\ now <= pending[h].at + MaxDelay
    BY DEF AuthInv, PendingFresh, remember
  <2> HIDE DEF r
  <2> QED BY <1>2, <2>1, <2>2, <2>3, AuthAssumption
<1> HIDE DEF r
<1>4. served[r] = 0
  BY <1>2, <1>3
<1> QED BY <1>4 DEF r

(* Serving a request. *)
LEMMA RememberAuthInv ==
    ASSUME AuthInv, NEW h \in Handlers, remember(h)
    PROVE  AuthInv'
<1> DEFINE r == pending[h].req
<1>0. r \in Requests /\ r.nonce \in Nonces /\ r.date \in Times /\ served[r] = 0
  BY RememberedIsNew DEF AuthInv, TypeOK, remember, Requests
<1>1. TypeOK'
  BY <1>0, AuthAssumption DEF AuthInv, TypeOK, remember, Times
<1>2. PendingFresh'
  BY DEF AuthInv, TypeOK, PendingFresh, remember
<1>3. ServedRemembered'
  <2> SUFFICES ASSUME NEW q \in Requests, served'[q] > 0
               PROVE  /\ seenAt'[q] <= now'
                      /\ q.date - seenAt'[q] <= Skew
                      /\ \/ entries'[q.nonce] # None
                            /\ entries'[q.nonce] >= seenAt'[q]
                         \/ seenAt'[q] < now' - TTL
    BY DEF ServedRemembered
  <2>0. /\ now \in Int /\ now' = now /\ q.nonce \in Nonces /\ q.date \in Int
        /\ seenAt[q] \in Int /\ None \notin Int
    <3>1. q.nonce \in Nonces /\ q.date \in Times
      BY DEF Requests
    <3>2. seenAt[q] \in Times /\ now \in Times /\ now' = now
      BY DEF AuthInv, TypeOK, remember
    <3> QED BY <3>1, <3>2, AuthAssumption DEF Times
  <2>1. CASE q = r
    <3>1. seenAt'[q] = now /\ entries'[q.nonce] = now
      BY <1>0, <2>1 DEF AuthInv, TypeOK, remember
    <3>2. r.date - pending[h].at <= Skew /\ pending[h].at <= now
          /\ pending[h].at \in Int
      BY DEF AuthInv, TypeOK, PendingFresh, remember, Times
    <3> QED BY <1>0, <2>0, <2>1, <3>1, <3>2, AuthAssumption
  <2>2. CASE q # r
    <3>1. served[q] > 0 /\ seenAt'[q] = seenAt[q]
      BY <1>0, <2>2 DEF AuthInv, TypeOK, remember
    <3>2. seenAt[q] <= now /\ q.date - seenAt[q] <= Skew
      BY <3>1 DEF AuthInv, ServedRemembered
    <3>3. CASE q.nonce = r.nonce
      <4>1. entries'[q.nonce] = now
        BY <1>0, <3>3 DEF remember
      <4> QED BY <2>0, <3>1, <3>2, <4>1
    <3>4. CASE q.nonce # r.nonce /\ Expired(q.nonce)
      BY <2>0, <3>1, <3>2, <3>4, ClearedRemembered
    <3>5. CASE q.nonce # r.nonce /\ ~Expired(q.nonce)
      <4>1. entries'[q.nonce] = entries[q.nonce]
        BY <2>0, <3>5 DEF remember
      <4>2. \/ entries[q.nonce] # None /\ entries[q.nonce] >= seenAt[q]
            \/ seenAt[q] < now - TTL
        BY <3>1 DEF AuthInv, ServedRemembered
      <4> QED BY <2>0, <3>1, <3>2, <4>1, <4>2
    <3> QED BY <3>3, <3>4, <3>5
  <2> QED BY <2>1, <2>2
<1>4. NoReplay'
  BY <1>0 DEF AuthInv, TypeOK, NoReplay, remember
<1> QED BY <1>1, <1>2, <1>3, <1>4 DEF AuthInv

(* Refusing a nonce that is remembered clears the old ones too. *)
LEMMA RefuseAuthInv ==
    ASSUME AuthInv, NEW h \in Handlers, refuse(h)
    PROVE  AuthInv'
<1>1. TypeOK'
  BY AuthAssumption DEF AuthInv, TypeOK, refuse, Times
<1>2. PendingFresh'
  BY DEF AuthInv, TypeOK, PendingFresh, refuse
<1>3. ServedRemembered'
  <2> SUFFICES ASSUME NEW q \in Requests, served[q] > 0
               PROVE  /\ seenAt[q] <= now
                      /\ q.date - seenAt[q] <= Skew
                      /\ \/ entries'[q.nonce] # None
                            /\ entries'[q.nonce] >= seenAt[q]
                         \/ seenAt[q] < now - TTL
    BY DEF ServedRemembered, refuse
  <2>1. q.nonce \in Nonces
    BY DEF Requests
  <2>2. CASE Expired(q.nonce)
    BY <2>2, ClearedRemembered DEF AuthInv, ServedRemembered
  <2>3. CASE ~Expired(q.nonce)
    <3>1. entries'[q.nonce] = entries[q.nonce]
      BY <2>1, <2>3 DEF refuse
    <3> QED BY <3>1 DEF AuthInv, ServedRemembered
  <2> QED BY <2>2, <2>3
<1>4. NoReplay'
  BY DEF AuthInv, NoReplay, refuse
<1> QED BY <1>1, <1>2, <1>3, <1>4 DEF AuthInv

(* A body that fails leaves only its handler free. *)
LEMMA BodyFailsAuthInv ==
    ASSUME AuthInv, NEW h \in Handlers, BodyFails(h)
    PROVE  AuthInv'
<1> USE DEF AuthInv, BodyFails
<1>1. TypeOK'
  BY DEF TypeOK
<1>2. PendingFresh'
  BY DEF TypeOK, PendingFresh
<1>3. ServedRemembered'
  BY DEF ServedRemembered
<1>4. NoReplay'
  BY DEF NoReplay
<1> QED BY <1>1, <1>2, <1>3, <1>4

(* The inductive invariant of the validator and its nonce cache. *)
THEOREM AuthInvariant == Spec => []AuthInv
<1>1. Init => AuthInv
  BY InitAuthInv
<1>2. AuthInv /\ [Next]_vars => AuthInv'
  <2> SUFFICES ASSUME AuthInv, [Next]_vars PROVE AuthInv'
    OBVIOUS
  <2>1. CASE Tick
    BY <2>1, TickAuthInv
  <2>2. ASSUME NEW h \in Handlers, NEW r \in Requests, CheckDate(h, r)
        PROVE  AuthInv'
    BY <2>2, CheckDateAuthInv
  <2>3. ASSUME NEW h \in Handlers, remember(h) PROVE AuthInv'
    BY <2>3, RememberAuthInv
  <2>4. ASSUME NEW h \in Handlers, refuse(h) PROVE AuthInv'
    BY <2>4, RefuseAuthInv
  <2>5. ASSUME NEW h \in Handlers, BodyFails(h) PROVE AuthInv'
    BY <2>5, BodyFailsAuthInv
  <2>6. CASE UNCHANGED vars
    BY <2>6 DEF vars, AuthInv, TypeOK, PendingFresh, ServedRemembered, NoReplay
  <2> QED BY <2>1, <2>2, <2>3, <2>4, <2>5, <2>6 DEF Next
<1> QED BY <1>1, <1>2, PTL DEF Spec

(* Dates, entries and pending requests keep their types. *)
THEOREM AuthTypeCorrect == Spec => []TypeOK
<1>1. AuthInv => TypeOK
  BY DEF AuthInv
<1> QED BY <1>1, AuthInvariant, PTL

(* No signed request is served twice. *)
THEOREM RequestsServedOnce == Spec => []NoReplay
<1>1. AuthInv => NoReplay
  BY DEF AuthInv
<1> QED BY <1>1, AuthInvariant, PTL

-----------------------------------------------------------------------------
(* Secret reveals: RevealCache *)

\* An owner of a flight is in one of these places.
Owning == {"rate", "find", "audit", "finish", "finishErr"}

RevealRequest == [at: {"idle", "get", "gate", "begin", "wait", "served", "conflict",
                       "refused", "failed"} \cup Owning,
                  id: RequestIds \cup {NoOne}, actor: Actors \cup {NoOne},
                  ref: Refs \cup {NoOne}, by: Revealers \cup {NoOne}, exp: Nat]

RevealTypeOK ==
    /\ revealClock \in Nat
    /\ cache \in [RequestIds -> RevealEntries \cup {NoOne}]
    /\ flight \in [RequestIds -> Revealers \cup {NoOne}]
    /\ req \in [Revealers -> RevealRequest]
    /\ reveals \subseteq [id: RequestIds, actor: Actors, at: Nat, by: Revealers]
    /\ \A h \in Revealers : req[h].at # "idle" =>
         req[h].id \in RequestIds /\ req[h].actor \in Actors /\ req[h].ref \in Refs

\* Flights and their owners match, and no entry is cached during a flight.
Flights ==
    /\ \A h \in Revealers : req[h].at \in Owning => flight[req[h].id] = h
    /\ \A id \in RequestIds : flight[id] # NoOne =>
         /\ req[flight[id]].id = id
         /\ req[flight[id]].at \in Owning
         /\ cache[id] = NoOne

\* Whoever waits does so for an owner, past or present, of the same request.
Waiting ==
    \A h \in Revealers : req[h].at = "wait" =>
        /\ req[h].by \in Revealers
        /\ SameRequest(h, req[req[h].by])
        /\ \/ req[req[h].by].at \in Owning \cup {"failed"}
           \/ req[req[h].by].at = "served" /\ req[req[h].by].by = req[h].by

\* by's reveal for this actor and reference is in the audit log.
Vouched(by, actor, ref) ==
    /\ by \in Revealers
    /\ req[by].at # "idle" /\ req[by].ref = ref
    /\ \E x \in reveals : x.by = by /\ x.actor = actor

Answers ==
    /\ \A id \in RequestIds : cache[id] # NoOne =>
         Vouched(cache[id].by, cache[id].actor, cache[id].ref)
    /\ \A h \in Revealers :
         /\ req[h].at = "finish" => Vouched(h, req[h].actor, req[h].ref)
         /\ req[h].at = "served" => Vouched(req[h].by, req[h].actor, req[h].ref)

\* Every reveal is about to be cached, is cached, or its time is up.
InHand(x) == /\ req[x.by].at = "finish" /\ req[x.by].id = x.id
             /\ x.at + RevealTTL <= req[x.by].exp + Lag
Cached(x) == /\ cache[x.id] # NoOne
             /\ x.at + RevealTTL <= cache[x.id].exp + Lag
Over(x)   == x.at + RevealTTL <= revealClock + Lag

Promised == \A x \in reveals : InHand(x) \/ Cached(x) \/ Over(x)

Apart == \A x, y \in reveals : x.id = y.id /\ x # y =>
             x.at + RevealTTL <= y.at + Lag \/ y.at + RevealTTL <= x.at + Lag

RInv == RevealTypeOK /\ Flights /\ Waiting /\ Answers /\ Promised /\ Apart

LEMMA RevealInitRInv == RevealInit => RInv
<1> SUFFICES ASSUME RevealInit PROVE RInv
  OBVIOUS
<1>1. NoReveal \in RevealRequest /\ NoReveal.at = "idle"
  BY DEF NoReveal, RevealRequest
<1>2. RevealTypeOK
  BY <1>1 DEF RevealInit, RevealTypeOK
<1>3. \A h \in Revealers : req[h].at = "idle"
  BY <1>1 DEF RevealInit
<1>4. Flights /\ Waiting /\ Answers /\ Promised /\ Apart
  BY <1>3 DEF RevealInit, Flights, Waiting, Answers, Promised, Apart, Owning
<1> QED BY <1>2, <1>4 DEF RInv

\* An entry leaves the cache only when its time is up.
OnlyPruned ==
    /\ cache' \in [RequestIds -> RevealEntries \cup {NoOne}]
    /\ \A id \in RequestIds : cache'[id] = cache[id]
         \/ (cache'[id] = NoOne /\ (cache[id] # NoOne => cache[id].exp <= revealClock))

LEMMA StaysPromised ==
    ASSUME RInv, OnlyPruned, UNCHANGED revealClock, NEW x \in reveals, Cached(x)
    PROVE  (Cached(x) \/ Over(x))'
<1>0. x.id \in RequestIds /\ x.at \in Nat /\ cache[x.id] \in RevealEntries
  BY DEF RInv, RevealTypeOK, Cached
<1>1. CASE cache'[x.id] = cache[x.id]
  BY <1>1 DEF Cached
<1>2. CASE cache[x.id].exp <= revealClock
  BY <1>0, <1>2, RevealAssumption DEF Cached, Over, RevealEntries, RInv, RevealTypeOK
<1> QED BY <1>0, <1>1, <1>2 DEF Cached, OnlyPruned

\* A handler that owns no flight moves on; the cache may lose entries whose
\* time is up.
LEMMA QuietStep ==
    ASSUME RInv, NEW h \in Revealers, req[h].at \in {"get", "gate", "begin", "wait"},
           NEW y \in RevealRequest, req' = [req EXCEPT ![h] = y],
           y.id = req[h].id, y.actor = req[h].actor, y.ref = req[h].ref,
           y.at \notin Owning \cup {"idle"},
           UNCHANGED <<revealClock, flight, reveals>>,
           OnlyPruned,
           y.at = "wait" => /\ y.by \in Revealers /\ y.by # h
                            /\ SameRequest(h, req[y.by])
                            /\ \/ req[y.by].at \in Owning \cup {"failed"}
                               \/ req[y.by].at = "served" /\ req[y.by].by = y.by,
           y.at = "served" => Vouched(y.by, y.actor, y.ref)
    PROVE  RInv'
<1>0. req \in [Revealers -> RevealRequest]
  BY DEF RInv, RevealTypeOK
<1>1. \A g \in Revealers : req'[g] = IF g = h THEN y ELSE req[g]
  BY <1>0
<1>2. \A g \in Revealers : /\ req'[g].id = req[g].id /\ req'[g].actor = req[g].actor
                           /\ req'[g].ref = req[g].ref
                           /\ req'[g].at = "idle" <=> req[g].at = "idle"
  BY <1>1
<1>3. RevealTypeOK'
  BY <1>0, <1>2 DEF RInv, RevealTypeOK, OnlyPruned
<1>4. Flights'
  <2>1. \A g \in Revealers : req'[g].at \in Owning => g # h /\ req'[g] = req[g]
    BY <1>1
  <2>2. \A g \in Revealers : req'[g].at \in Owning => flight'[req'[g].id] = g
    BY <2>1 DEF RInv, Flights
  <2>3. ASSUME NEW id \in RequestIds, flight[id] # NoOne
        PROVE  req'[flight[id]].id = id /\ req'[flight[id]].at \in Owning /\ cache'[id] = NoOne
    <3>1. flight[id] \in Revealers /\ req[flight[id]].at \in Owning
      BY <2>3 DEF RInv, RevealTypeOK, Flights
    <3>2. flight[id] # h
      BY <3>1 DEF Owning
    <3> QED BY <1>1, <2>3, <3>1, <3>2 DEF RInv, Flights, OnlyPruned
  <2> QED BY <2>2, <2>3 DEF Flights
<1>5. Waiting'
  <2> SUFFICES ASSUME NEW g \in Revealers, req'[g].at = "wait"
               PROVE  LET o == req'[g].by IN
                      /\ o \in Revealers
                      /\ req'[o].actor = req'[g].actor /\ req'[o].ref = req'[g].ref
                      /\ \/ req'[o].at \in Owning \cup {"failed"}
                         \/ req'[o].at = "served" /\ req'[o].by = o
    BY DEF Waiting, SameRequest
  <2>1. CASE g = h
    BY <1>1, <1>2, <2>1 DEF SameRequest
  <2>2. CASE g # h
    <3>1. req'[g] = req[g] /\ req[g].at = "wait"
      BY <1>1, <2>2
    <3>2. LET o == req[g].by IN
          /\ o \in Revealers /\ req[o].actor = req[g].actor /\ req[o].ref = req[g].ref
          /\ \/ req[o].at \in Owning \cup {"failed"}
             \/ req[o].at = "served" /\ req[o].by = o
      BY <3>1 DEF RInv, Waiting, SameRequest
    <3>3. req[g].by # h
      BY <3>2 DEF Owning
    <3> QED BY <1>1, <1>2, <3>1, <3>2, <3>3
  <2> QED BY <2>1, <2>2
<1>6. \A by, a, r : Vouched(by, a, r) => Vouched(by, a, r)'
  BY <1>2 DEF Vouched
<1>7. Answers'
  <2>1. \A id \in RequestIds : cache'[id] # NoOne => cache'[id] = cache[id]
    BY DEF OnlyPruned
  <2>2. \A id \in RequestIds : cache'[id] # NoOne =>
           Vouched(cache[id].by, cache[id].actor, cache[id].ref)'
    BY <1>6, <2>1 DEF RInv, Answers
  <2> QED BY <1>1, <1>6, <2>1 DEF RInv, Answers, Owning
<1>8. Promised'
  <2> SUFFICES ASSUME NEW x \in reveals PROVE (InHand(x) \/ Cached(x) \/ Over(x))'
    BY DEF Promised
  <2>0. x.id \in RequestIds /\ x.at \in Nat /\ x.by \in Revealers
    BY DEF RInv, RevealTypeOK
  <2>1. CASE InHand(x)
    BY <1>1, <2>0, <2>1 DEF InHand
  <2>2. CASE Cached(x)
    BY <2>2, StaysPromised
  <2>3. CASE Over(x)
    BY <2>3 DEF Over
  <2> QED BY <2>1, <2>2, <2>3 DEF RInv, Promised
<1>9. Apart'
  BY DEF RInv, Apart
<1> QED BY <1>3, <1>4, <1>5, <1>7, <1>8, <1>9 DEF RInv

LEMMA PrunedFacts ==
    ASSUME RInv, NEW t \in Readings
    PROVE  /\ cache' = Pruned(t) => OnlyPruned
           /\ \A id \in RequestIds : Pruned(t)[id] \in {cache[id], NoOne}
<1>1. t \in Nat /\ t <= revealClock /\ revealClock \in Nat
  BY DEF Readings, RInv, RevealTypeOK
<1>2. \A id \in RequestIds : cache[id] # NoOne => cache[id].exp \in Nat
  BY DEF RInv, RevealTypeOK, RevealEntries
<1>3. Pruned(t) \in [RequestIds -> RevealEntries \cup {NoOne}]
  BY DEF Pruned, RInv, RevealTypeOK
<1> QED BY <1>1, <1>2, <1>3 DEF Pruned, OnlyPruned

LEMMA QuietTurn ==
    ASSUME RInv, NEW h \in Revealers, req[h].at \in {"get", "gate", "begin", "wait"},
           NEW at \in {"gate", "begin", "conflict", "refused", "failed"}, Turn(h, at),
           UNCHANGED <<revealClock, flight, reveals>>,
           OnlyPruned
    PROVE  RInv'
<1> DEFINE y == [req[h] EXCEPT !.at = at]
<1>1. /\ y \in RevealRequest /\ y.at = at /\ y.id = req[h].id
      /\ y.actor = req[h].actor /\ y.ref = req[h].ref
  BY DEF RInv, RevealTypeOK, RevealRequest, Owning
<1>2. req' = [req EXCEPT ![h] = y]
  BY DEF Turn
<1>3. y.at \notin Owning \cup {"idle"} /\ y.at # "wait" /\ y.at # "served"
  BY <1>1 DEF Owning
<1> HIDE DEF y
<1> QED BY <1>1, <1>2, <1>3, QuietStep

LEMMA QuietAnswer ==
    ASSUME RInv, NEW h \in Revealers, req[h].at \in {"get", "gate", "begin", "wait"},
           NEW by, AnswerReveal(h, by), Vouched(by, req[h].actor, req[h].ref),
           UNCHANGED <<revealClock, flight, reveals>>,
           OnlyPruned
    PROVE  RInv'
<1> DEFINE y == [req[h] EXCEPT !.at = "served", !.by = by]
<1>0. by \in Revealers /\ req \in [Revealers -> RevealRequest]
  BY DEF Vouched, RInv, RevealTypeOK
<1>1. /\ y \in RevealRequest /\ y.at = "served" /\ y.id = req[h].id
      /\ y.actor = req[h].actor /\ y.ref = req[h].ref /\ y.by = by
  BY <1>0 DEF RevealRequest
<1>2. req' = [req EXCEPT ![h] = y]
  BY <1>0 DEF AnswerReveal
<1>3. y.at \notin Owning \cup {"idle"} /\ y.at # "wait"
  BY <1>1 DEF Owning
<1> HIDE DEF y
<1> QED BY <1>1, <1>2, <1>3, QuietStep

\* An entry of the same actor and reference vouches for the handler.
LEMMA EntryVouches ==
    ASSUME RInv, NEW h \in Revealers, NEW t \in Readings, req[h].id \in RequestIds,
           Pruned(t)[req[h].id] # NoOne, SameRequest(h, Pruned(t)[req[h].id])
    PROVE  Vouched(Pruned(t)[req[h].id].by, req[h].actor, req[h].ref)
<1>1. Pruned(t)[req[h].id] = cache[req[h].id]
  BY PrunedFacts
<1> QED BY <1>1 DEF RInv, Answers, SameRequest

LEMMA CacheGetStep == ASSUME RInv, NEW h \in Revealers, CacheGet(h) PROVE RInv'
<1>1. PICK t \in Readings :
        LET e == Pruned(t)[req[h].id] IN
        /\ req[h].at = "get"
        /\ cache' = Pruned(t)
        /\ CASE e = NoOne -> Turn(h, "gate")
             [] e # NoOne /\ SameRequest(h, e) -> AnswerReveal(h, e.by)
             [] OTHER -> Turn(h, "conflict")
        /\ UNCHANGED <<revealClock, vaultLocked, flight, rates, reveals>>
  BY DEF CacheGet
<1> DEFINE e == Pruned(t)[req[h].id]
<1>2. req[h].id \in RequestIds
  BY <1>1 DEF RInv, RevealTypeOK
<1>3. OnlyPruned
  BY <1>1, PrunedFacts
<1>4. CASE e # NoOne /\ SameRequest(h, e)
  <2>1. Vouched(e.by, req[h].actor, req[h].ref)
    BY <1>2, <1>4, EntryVouches
  <2>2. AnswerReveal(h, e.by)
    BY <1>1, <1>4
  <2> HIDE DEF e
  <2> QED BY <1>1, <1>3, <2>1, <2>2, QuietAnswer
<1>5. CASE ~(e # NoOne /\ SameRequest(h, e))
  <2>1. Turn(h, "gate") \/ Turn(h, "conflict")
    BY <1>1, <1>5
  <2> QED BY <1>1, <1>3, <2>1, QuietTurn
<1> QED BY <1>4, <1>5

LEMMA SameCache ==
    ASSUME RInv, UNCHANGED cache
    PROVE  OnlyPruned
BY DEF RInv, RevealTypeOK, OnlyPruned

LEMMA GateStep == ASSUME RInv, NEW h \in Revealers, Gate(h) PROVE RInv'
<1>1. req[h].at = "gate" /\ (Turn(h, "refused") \/ Turn(h, "begin"))
      /\ UNCHANGED <<revealClock, cache, flight, reveals>>
  BY DEF Gate
<1> QED BY <1>1, SameCache, QuietTurn

\* The flight a handler waited for is over, and its owner answered or failed.
LEMMA WaitFlightStep == ASSUME RInv, NEW h \in Revealers, WaitFlight(h) PROVE RInv'
<1> DEFINE o == req[h].by
<1>1. /\ req[h].at = "wait" /\ flight[req[h].id] # o
      /\ IF req[o].at = "served" THEN AnswerReveal(h, o) ELSE Turn(h, "failed")
      /\ UNCHANGED <<revealClock, cache, flight, reveals>>
  BY DEF WaitFlight
<1>2. CASE req[o].at = "served"
  <2>1. o \in Revealers /\ SameRequest(h, req[o]) /\ req[o].by = o
    BY <1>1, <1>2 DEF RInv, Waiting, Owning
  <2>2. Vouched(o, req[h].actor, req[h].ref)
    BY <1>2, <2>1 DEF RInv, Answers, SameRequest
  <2> QED BY <1>1, <1>2, <2>2, SameCache, QuietAnswer
<1>3. CASE req[o].at # "served"
  BY <1>1, <1>3, SameCache, QuietTurn
<1> QED BY <1>2, <1>3

\* Waiting is not disturbed by a step that leaves owners owners.
LEMMA WaitersStay ==
    ASSUME RInv,
           \A g \in Revealers :
              /\ req'[g].actor = req[g].actor /\ req'[g].ref = req[g].ref
              /\ req[g].at \in Owning => req'[g].at \in Owning
              /\ req[g].at \in {"failed", "served"} => req'[g] = req[g]
              /\ req'[g].at = "wait" => req'[g] = req[g]
    PROVE  Waiting'
<1> SUFFICES ASSUME NEW g \in Revealers, req'[g].at = "wait"
             PROVE  LET o == req[g].by IN
                    /\ o \in Revealers
                    /\ req'[o].actor = req[g].actor /\ req'[o].ref = req[g].ref
                    /\ \/ req'[o].at \in Owning \cup {"failed"}
                       \/ req'[o].at = "served" /\ req'[o].by = o
  BY DEF Waiting, SameRequest
<1>1. LET o == req[g].by IN
      /\ o \in Revealers /\ req[o].actor = req[g].actor /\ req[o].ref = req[g].ref
      /\ \/ req[o].at \in Owning \cup {"failed"}
         \/ req[o].at = "served" /\ req[o].by = o
  BY DEF RInv, Waiting, SameRequest
<1> QED BY <1>1

\* The owner of a flight goes on, without revealing.
LEMMA OwnerStep ==
    ASSUME RInv, NEW h \in Revealers, req[h].at \in {"rate", "find", "audit"},
           NEW at \in {"find", "audit", "finishErr"}, Turn(h, at),
           UNCHANGED <<revealClock, cache, flight, reveals>>
    PROVE  RInv'
<1> DEFINE y == [req[h] EXCEPT !.at = at]
<1>0. req \in [Revealers -> RevealRequest]
  BY DEF RInv, RevealTypeOK
<1>1. /\ y \in RevealRequest /\ y.at = at /\ y.id = req[h].id
      /\ y.actor = req[h].actor /\ y.ref = req[h].ref
  BY <1>0 DEF RevealRequest, Owning
<1> HIDE DEF y
<1>2. \A g \in Revealers : req'[g] = IF g = h THEN y ELSE req[g]
  BY <1>0 DEF Turn, y
<1>3. \A g \in Revealers : /\ req'[g].id = req[g].id /\ req'[g].actor = req[g].actor
                           /\ req'[g].ref = req[g].ref
                           /\ req'[g].at = "idle" <=> req[g].at = "idle"
                           /\ req'[g].at \in Owning <=> req[g].at \in Owning
  BY <1>1, <1>2 DEF Owning
<1>4. RevealTypeOK'
  <2>1. req' \in [Revealers -> RevealRequest]
    BY <1>0, <1>1 DEF Turn, y
  <2> QED BY <1>3, <2>1 DEF RInv, RevealTypeOK
<1>5. Flights'
  BY <1>3 DEF RInv, Flights, RevealTypeOK
<1>6. Waiting'
  BY <1>1, <1>2, <1>3, WaitersStay
<1>7. \A by, a, r : Vouched(by, a, r) => Vouched(by, a, r)'
  BY <1>3 DEF Vouched
<1>8. Answers'
  BY <1>1, <1>2, <1>7 DEF RInv, Answers
<1>9. Promised'
  <2> SUFFICES ASSUME NEW x \in reveals PROVE (InHand(x) \/ Cached(x) \/ Over(x))'
    BY DEF Promised
  <2>1. x.by \in Revealers /\ (InHand(x) \/ Cached(x) \/ Over(x))
    BY DEF RInv, RevealTypeOK, Promised
  <2> QED BY <1>2, <2>1 DEF InHand, Cached, Over
<1>10. Apart'
  BY DEF RInv, Apart
<1> QED BY <1>4, <1>5, <1>6, <1>8, <1>9, <1>10 DEF RInv

\* A handler becomes the owner of a new flight: nothing is cached under its
\* id, and stays so until the flight is over.
LEMMA NewFlight ==
    ASSUME RInv, NEW h \in Revealers, req[h].at = "begin", Turn(h, "rate"),
           NEW t \in Readings, cache' = Pruned(t), cache'[req[h].id] = NoOne,
           flight[req[h].id] = NoOne, flight' = [flight EXCEPT ![req[h].id] = h],
           UNCHANGED <<revealClock, reveals>>
    PROVE  RInv'
<1> DEFINE y == [req[h] EXCEPT !.at = "rate"]
           id == req[h].id
<1>0. req \in [Revealers -> RevealRequest] /\ id \in RequestIds
      /\ flight \in [RequestIds -> Revealers \cup {NoOne}] /\ h # NoOne
  BY RevealAssumption DEF RInv, RevealTypeOK
<1>1. /\ y \in RevealRequest /\ y.at = "rate" /\ y.id = req[h].id
      /\ y.actor = req[h].actor /\ y.ref = req[h].ref
  BY <1>0 DEF RevealRequest, Owning
<1> HIDE DEF y
<1>2. \A g \in Revealers : req'[g] = IF g = h THEN y ELSE req[g]
  BY <1>0 DEF Turn, y
<1>3. \A g \in Revealers : /\ req'[g].id = req[g].id /\ req'[g].actor = req[g].actor
                           /\ req'[g].ref = req[g].ref
                           /\ req'[g].at = "idle" <=> req[g].at = "idle"
                           /\ req'[g].at \in Owning <=> req[g].at \in Owning \/ g = h
  BY <1>1, <1>2 DEF Owning
<1>c. OnlyPruned
  BY PrunedFacts
<1>4. RevealTypeOK'
  <2>1. req' \in [Revealers -> RevealRequest] /\ flight' \in [RequestIds -> Revealers \cup {NoOne}]
    BY <1>0, <1>1 DEF Turn, y
  <2> QED BY <1>3, <1>c, <2>1 DEF RInv, RevealTypeOK, OnlyPruned
<1>5. Flights'
  <2>1. \A i \in RequestIds : flight'[i] = IF i = id THEN h ELSE flight[i]
    BY <1>0
  <2>2. ASSUME NEW g \in Revealers, req'[g].at \in Owning PROVE flight'[req'[g].id] = g
    <3>1. CASE g = h
      BY <1>0, <1>3, <2>1, <3>1
    <3>2. CASE g # h
      <4>1. req[g].at \in Owning /\ flight[req[g].id] = g
        BY <1>3, <2>2, <3>2 DEF RInv, Flights
      <4>2. req[g].id # id /\ req[g].id \in RequestIds
        BY <4>1, RevealAssumption DEF RInv, RevealTypeOK, Owning
      <4> QED BY <1>3, <2>1, <4>1, <4>2
    <3> QED BY <3>1, <3>2
  <2>3. ASSUME NEW i \in RequestIds, flight'[i] # NoOne
        PROVE  req'[flight'[i]].id = i /\ req'[flight'[i]].at \in Owning /\ cache'[i] = NoOne
    <3>1. CASE i = id
      BY <1>0, <1>3, <2>1, <3>1
    <3>2. CASE i # id
      <4>1. flight'[i] = flight[i] /\ flight[i] \in Revealers
        BY <1>0, <2>1, <2>3, <3>2
      <4> QED BY <1>3, <1>c, <2>3, <4>1 DEF RInv, Flights, OnlyPruned
    <3> QED BY <3>1, <3>2
  <2> QED BY <2>2, <2>3 DEF Flights
<1>6. Waiting'
  BY <1>1, <1>2, <1>3, WaitersStay
<1>7. \A by, a, r : Vouched(by, a, r) => Vouched(by, a, r)'
  BY <1>3 DEF Vouched
<1>8. Answers'
  BY <1>1, <1>2, <1>7, <1>c DEF RInv, Answers, OnlyPruned
<1>9. Promised'
  <2> SUFFICES ASSUME NEW x \in reveals PROVE (InHand(x) \/ Cached(x) \/ Over(x))'
    BY DEF Promised
  <2>0. x.id \in RequestIds /\ x.at \in Nat /\ x.by \in Revealers
    BY DEF RInv, RevealTypeOK
  <2>1. CASE InHand(x)
    BY <1>2, <2>0, <2>1 DEF InHand
  <2>2. CASE Cached(x)
    BY <1>c, <2>2, StaysPromised
  <2>3. CASE Over(x)
    BY <2>3 DEF Over
  <2> QED BY <2>1, <2>2, <2>3 DEF RInv, Promised
<1>10. Apart'
  BY DEF RInv, Apart
<1> QED BY <1>4, <1>5, <1>6, <1>8, <1>9, <1>10 DEF RInv

LEMMA BeginFlightStep == ASSUME RInv, NEW h \in Revealers, BeginFlight(h) PROVE RInv'
<1> DEFINE id == req[h].id
           o == flight[id]
<1>1. PICK t \in Readings :
        LET e == Pruned(t)[id] IN
        /\ req[h].at = "begin"
        /\ cache' = Pruned(t)
        /\ \/ /\ e # NoOne
              /\ IF SameRequest(h, e) THEN AnswerReveal(h, e.by) ELSE Turn(h, "conflict")
              /\ UNCHANGED flight
           \/ /\ e = NoOne /\ o # NoOne
              /\ IF SameRequest(h, req[o])
                 THEN req' = [req EXCEPT ![h].at = "wait", ![h].by = o]
                 ELSE Turn(h, "conflict")
              /\ UNCHANGED flight
           \/ /\ e = NoOne /\ o = NoOne
              /\ flight' = [flight EXCEPT ![id] = h]
              /\ Turn(h, "rate")
        /\ UNCHANGED <<revealClock, vaultLocked, rates, reveals>>
  BY DEF BeginFlight
<1> DEFINE e == Pruned(t)[id]
<1>2. id \in RequestIds /\ req \in [Revealers -> RevealRequest]
  BY <1>1 DEF RInv, RevealTypeOK
<1>3. OnlyPruned
  BY <1>1, PrunedFacts
<1>4. ASSUME Turn(h, "conflict"), UNCHANGED flight PROVE RInv'
  BY <1>1, <1>3, <1>4, QuietTurn
<1>5. CASE e # NoOne /\ SameRequest(h, e)
  <2>1. Vouched(e.by, req[h].actor, req[h].ref)
    BY <1>2, <1>5, EntryVouches
  <2>2. AnswerReveal(h, e.by) /\ UNCHANGED flight
    BY <1>1, <1>5
  <2> HIDE DEF e
  <2> QED BY <1>1, <1>3, <2>1, <2>2, QuietAnswer
<1>6. CASE e = NoOne /\ o # NoOne /\ SameRequest(h, req[o])
  <2> DEFINE y == [req[h] EXCEPT !.at = "wait", !.by = o]
  <2>1. o \in Revealers /\ req[o].at \in Owning
    BY <1>2, <1>6 DEF RInv, Flights, RevealTypeOK
  <2>2. /\ y \in RevealRequest /\ y.at = "wait" /\ y.id = req[h].id
        /\ y.actor = req[h].actor /\ y.ref = req[h].ref /\ y.by = o
    BY <1>2, <2>1, ZenonT(30) DEF RevealRequest
  <2>3. req' = [req EXCEPT ![h] = y] /\ UNCHANGED flight
    BY <1>1, <1>2, <1>6
  <2>4. o # h /\ y.at \notin Owning \cup {"idle"} /\ y.at # "served"
    BY <1>1, <2>1, <2>2 DEF Owning
  <2> HIDE DEF y
  <2> QED BY <1>1, <1>3, <1>6, <2>1, <2>2, <2>3, <2>4, QuietStep
<1>7. CASE e = NoOne /\ o = NoOne
  BY <1>1, <1>7, NewFlight
<1> QED BY <1>1, <1>4, <1>5, <1>6, <1>7

\* The reveal is audited.  Every earlier one of this id is over: while this
\* flight lasts none is in hand and none is cached.
LEMMA AuditedStep ==
    ASSUME RInv, NEW h \in Revealers, req[h].at = "audit", NEW t \in Readings,
           reveals' = reveals \cup
               {[id |-> req[h].id, actor |-> req[h].actor, at |-> revealClock, by |-> h]},
           req' = [req EXCEPT ![h].at = "finish", ![h].exp = t + RevealTTL],
           UNCHANGED <<revealClock, cache, flight>>
    PROVE  RInv'
<1> DEFINE y == [req[h] EXCEPT !.at = "finish", !.exp = t + RevealTTL]
           r == [id |-> req[h].id, actor |-> req[h].actor, at |-> revealClock, by |-> h]
<1>0. /\ req \in [Revealers -> RevealRequest] /\ revealClock \in Nat
      /\ req[h].id \in RequestIds /\ req[h].actor \in Actors /\ req[h].ref \in Refs
      /\ t \in Nat /\ t + RevealTTL \in Nat /\ revealClock <= t + Lag
  BY RevealAssumption DEF RInv, RevealTypeOK, Readings
<1>1. /\ y \in RevealRequest /\ y.at = "finish" /\ y.id = req[h].id
      /\ y.actor = req[h].actor /\ y.ref = req[h].ref /\ y.exp = t + RevealTTL
  BY <1>0 DEF RevealRequest, Owning
<1>2. /\ r \in [id: RequestIds, actor: Actors, at: Nat, by: Revealers]
      /\ r.id = req[h].id /\ r.actor = req[h].actor /\ r.at = revealClock /\ r.by = h
      /\ reveals' = reveals \cup {r}
  BY <1>0
<1>3. req' = [req EXCEPT ![h] = y]
  BY <1>0
<1> HIDE DEF y, r
<1>4. \A g \in Revealers : req'[g] = IF g = h THEN y ELSE req[g]
  BY <1>0, <1>3
<1>5. \A g \in Revealers : /\ req'[g].id = req[g].id /\ req'[g].actor = req[g].actor
                           /\ req'[g].ref = req[g].ref
                           /\ req'[g].at = "idle" <=> req[g].at = "idle"
                           /\ req'[g].at \in Owning <=> req[g].at \in Owning
  BY <1>1, <1>4 DEF Owning
<1>6. RevealTypeOK'
  <2>1. req' \in [Revealers -> RevealRequest]
    BY <1>0, <1>1, <1>3
  <2> QED BY <1>2, <1>5, <2>1 DEF RInv, RevealTypeOK
<1>7. Flights'
  BY <1>5 DEF RInv, Flights, RevealTypeOK
<1>8. Waiting'
  BY <1>1, <1>4, <1>5, WaitersStay, ZenonT(30)
<1>9. \A by, a, f : Vouched(by, a, f) => Vouched(by, a, f)'
  BY <1>2, <1>5 DEF Vouched
<1>10. Vouched(h, req[h].actor, req[h].ref)'
  <2>1. r \in reveals' /\ r.by = h /\ r.actor = req'[h].actor
    BY <1>1, <1>2, <1>4
  <2>2. req'[h].at # "idle"
    BY <1>1, <1>4
  <2> QED BY <2>1, <2>2 DEF Vouched
<1>11. Answers'
  BY <1>1, <1>4, <1>9, <1>10, ZenonT(30) DEF RInv, Answers
<1>12. \A x \in reveals : x.id = r.id => Over(x)
  <2> SUFFICES ASSUME NEW x \in reveals, x.id = r.id PROVE Over(x)
    OBVIOUS
  <2>1. flight[x.id] = h /\ cache[x.id] = NoOne
    BY <1>0, <1>2, RevealAssumption DEF RInv, Flights, Owning
  <2>2. x.by \in Revealers
    BY DEF RInv, RevealTypeOK
  <2>3. ~InHand(x)
    BY <2>1, <2>2 DEF InHand, RInv, Flights, Owning
  <2> QED BY <2>1, <2>3 DEF RInv, Promised, Cached
<1>13. Promised'
  <2> SUFFICES ASSUME NEW x \in reveals' PROVE (InHand(x) \/ Cached(x) \/ Over(x))'
    BY DEF Promised
  <2>1. CASE x \in reveals
    <3>1. x.by \in Revealers /\ (InHand(x) \/ Cached(x) \/ Over(x))
      BY <2>1 DEF RInv, RevealTypeOK, Promised
    <3> QED BY <1>4, <3>1 DEF InHand, Cached, Over
  <2>2. CASE x = r
    <3>1. revealClock + RevealTTL <= (t + RevealTTL) + Lag
      BY <1>0, RevealAssumption
    <3> QED BY <1>1, <1>2, <1>4, <2>2, <3>1 DEF InHand
  <2> QED BY <1>2, <2>1, <2>2
<1>14. Apart'
  BY <1>2, <1>12 DEF RInv, Apart, Over
<1> QED BY <1>6, <1>7, <1>8, <1>11, <1>13, <1>14 DEF RInv

LEMMA OwnStepReveal ==
    ASSUME RInv, NEW h \in Revealers, AllowReveal(h) \/ Find(h) \/ Audit(h)
    PROVE  RInv'
<1>1. ASSUME AllowReveal(h) PROVE RInv'
  <2>1. req[h].at = "rate" /\ (Turn(h, "finishErr") \/ Turn(h, "find"))
        /\ UNCHANGED <<revealClock, cache, flight, reveals>>
    BY <1>1 DEF AllowReveal
  <2> QED BY <2>1, OwnerStep
<1>2. ASSUME Find(h) PROVE RInv'
  BY <1>2, OwnerStep DEF Find
<1>3. ASSUME Audit(h) PROVE RInv'
  BY <1>3, OwnerStep, AuditedStep DEF Audit
<1> QED BY <1>1, <1>2, <1>3

\* The flight ends: its owner's reveal moves from its hands to the cache.
LEMMA FinishFlightStep == ASSUME RInv, NEW h \in Revealers, FinishFlight(h) PROVE RInv'
<1> DEFINE id == req[h].id
           at == IF req[h].at = "finish" THEN "served" ELSE "failed"
           by == IF req[h].at = "finish" THEN h ELSE req[h].by
           y == [req[h] EXCEPT !.at = at, !.by = by]
           e == [actor |-> req[h].actor, ref |-> req[h].ref, exp |-> req[h].exp, by |-> h]
<1>0. /\ req \in [Revealers -> RevealRequest] /\ req[h].at \in {"finish", "finishErr"}
      /\ id \in RequestIds /\ req[h].actor \in Actors /\ req[h].ref \in Refs
      /\ flight \in [RequestIds -> Revealers \cup {NoOne}]
      /\ cache \in [RequestIds -> RevealEntries \cup {NoOne}]
      /\ flight[id] = h
  BY DEF RInv, RevealTypeOK, FinishFlight, Flights, Owning
<1>1. /\ y \in RevealRequest /\ y.id = id /\ y.actor = req[h].actor /\ y.ref = req[h].ref
      /\ y.at = at /\ y.by = by
  BY <1>0, ZenonT(30) DEF RevealRequest
<1>2. req' = [req EXCEPT ![h] = y]
  <2>1. CASE req[h].at = "finish"
    BY <1>0, <2>1 DEF FinishFlight, AnswerReveal
  <2>2. CASE req[h].at = "finishErr"
    <3>1. [req[h] EXCEPT !.at = "failed"] = y
      BY <1>0, <2>2 DEF RevealRequest
    <3>2. req' = [req EXCEPT ![h] = [req[h] EXCEPT !.at = "failed"]]
      BY <2>2 DEF FinishFlight, Turn
    <3> QED BY <3>1, <3>2
  <2> QED BY <1>0, <2>1, <2>2
<1>3. /\ flight' = [flight EXCEPT ![id] = NoOne]
      /\ cache' = IF req[h].at = "finish" THEN [cache EXCEPT ![id] = e] ELSE cache
      /\ UNCHANGED <<revealClock, reveals>>
  BY DEF FinishFlight
<1>4. /\ e \in RevealEntries /\ e # NoOne /\ e.actor = req[h].actor /\ e.ref = req[h].ref
      /\ e.exp = req[h].exp /\ e.by = h
  <2>1. e \in RevealEntries
    BY <1>0 DEF RevealEntries, RevealRequest
  <2> QED BY <2>1, RevealAssumption
<1> HIDE DEF y, e
<1>5. /\ \A g \in Revealers : req'[g] = IF g = h THEN y ELSE req[g]
      /\ \A i \in RequestIds : flight'[i] = IF i = id THEN NoOne ELSE flight[i]
      /\ \A i \in RequestIds : cache'[i] = IF i = id /\ req[h].at = "finish" THEN e ELSE cache[i]
  BY <1>0, <1>2, <1>3
<1>6. \A g \in Revealers : /\ req'[g].id = req[g].id /\ req'[g].actor = req[g].actor
                           /\ req'[g].ref = req[g].ref
                           /\ req'[g].at = "idle" <=> req[g].at = "idle"
  BY <1>0, <1>1, <1>5
<1>7. RevealTypeOK'
  <2>1. /\ req' \in [Revealers -> RevealRequest]
        /\ flight' \in [RequestIds -> Revealers \cup {NoOne}]
        /\ cache' \in [RequestIds -> RevealEntries \cup {NoOne}]
    BY <1>0, <1>1, <1>2, <1>3, <1>4
  <2> QED BY <1>3, <1>6, <2>1 DEF RInv, RevealTypeOK
<1>8. Flights'
  <2>1. ASSUME NEW g \in Revealers, req'[g].at \in Owning PROVE flight'[req'[g].id] = g
    <3>1. g # h /\ req'[g] = req[g]
      BY <1>1, <1>5, <2>1 DEF Owning
    <3>2. flight[req[g].id] = g
      BY <2>1, <3>1 DEF RInv, Flights
    <3>3. req[g].id # id /\ req[g].id \in RequestIds
      BY <1>0, <2>1, <3>1, <3>2 DEF RInv, RevealTypeOK, Owning
    <3> QED BY <1>5, <3>1, <3>2, <3>3
  <2>2. ASSUME NEW i \in RequestIds, flight'[i] # NoOne
        PROVE  req'[flight'[i]].id = i /\ req'[flight'[i]].at \in Owning /\ cache'[i] = NoOne
    <3>1. i # id /\ flight'[i] = flight[i] /\ cache'[i] = cache[i]
      BY <1>5, <2>2
    <3>2. flight[i] \in Revealers /\ req[flight[i]].id = i
      BY <1>0, <2>2, <3>1 DEF RInv, Flights
    <3>3. req'[flight[i]] = req[flight[i]]
      BY <1>5, <3>1, <3>2
    <3> QED BY <2>2, <3>1, <3>3 DEF RInv, Flights
  <2> QED BY <2>1, <2>2 DEF Flights
<1>9. Waiting'
  <2> SUFFICES ASSUME NEW g \in Revealers, req'[g].at = "wait"
               PROVE  LET o == req'[g].by IN
                      /\ o \in Revealers
                      /\ req'[o].actor = req'[g].actor /\ req'[o].ref = req'[g].ref
                      /\ \/ req'[o].at \in Owning \cup {"failed"}
                         \/ req'[o].at = "served" /\ req'[o].by = o
    BY DEF Waiting, SameRequest
  <2>1. req'[g] = req[g]
    BY <1>1, <1>5
  <2>2. LET o == req[g].by IN
        /\ o \in Revealers /\ req[o].actor = req[g].actor /\ req[o].ref = req[g].ref
        /\ \/ req[o].at \in Owning \cup {"failed"}
           \/ req[o].at = "served" /\ req[o].by = o
    BY <2>1 DEF RInv, Waiting, SameRequest
  <2>3. CASE req[g].by = h
    BY <1>1, <1>5, <1>6, <2>1, <2>2, <2>3
  <2>4. CASE req[g].by # h
    BY <1>5, <2>1, <2>2, <2>4
  <2> QED BY <2>3, <2>4
<1>10. \A b, a, r : Vouched(b, a, r) => Vouched(b, a, r)'
  BY <1>3, <1>6 DEF Vouched
<1>11. Answers'
  <2>1. req[h].at = "finish" => Vouched(h, req[h].actor, req[h].ref)
    BY DEF RInv, Answers
  <2>2. ASSUME NEW i \in RequestIds, cache'[i] # NoOne
        PROVE  Vouched(cache[i].by, cache[i].actor, cache[i].ref)'
    <3>1. CASE i = id /\ req[h].at = "finish"
      <4>1. Vouched(h, req[h].actor, req[h].ref)
        BY <2>1, <3>1
      <4> QED BY <1>3, <1>4, <1>5, <1>6, <3>1, <4>1 DEF Vouched
    <3>2. CASE ~(i = id /\ req[h].at = "finish")
      <4>1. cache'[i] = cache[i]
        BY <1>5, <3>2
      <4>2. Vouched(cache[i].by, cache[i].actor, cache[i].ref)
        BY <2>2, <4>1 DEF RInv, Answers
      <4> QED BY <1>3, <1>6, <4>1, <4>2 DEF Vouched
    <3> QED BY <3>1, <3>2
  <2>3. ASSUME NEW g \in Revealers
        PROVE  /\ req'[g].at = "finish" => Vouched(g, req[g].actor, req[g].ref)'
               /\ req'[g].at = "served" => Vouched(req[g].by, req[g].actor, req[g].ref)'
    <3>1. CASE g = h
      <4>1. req'[h] = y
        BY <1>5
      <4> QED BY <1>1, <1>3, <1>6, <2>1, <3>1, <4>1 DEF Vouched
    <3>2. CASE g # h
      <4>1. req'[g] = req[g]
        BY <1>5, <3>2
      <4>2. /\ req[g].at = "finish" => Vouched(g, req[g].actor, req[g].ref)
            /\ req[g].at = "served" => Vouched(req[g].by, req[g].actor, req[g].ref)
        BY DEF RInv, Answers
      <4> QED BY <1>3, <1>6, <4>1, <4>2 DEF Vouched
    <3> QED BY <3>1, <3>2
  <2> QED BY <2>2, <2>3 DEF Answers
<1>12. Promised'
  <2> SUFFICES ASSUME NEW x \in reveals PROVE (InHand(x) \/ Cached(x) \/ Over(x))'
    BY <1>3 DEF Promised
  <2>0. x.id \in RequestIds /\ x.by \in Revealers
    BY DEF RInv, RevealTypeOK
  <2>1. CASE InHand(x)
    <3>1. CASE x.by = h
      BY <1>4, <1>5, <2>0, <2>1, <3>1 DEF InHand, Cached
    <3>2. CASE x.by # h
      BY <1>5, <2>0, <2>1, <3>2 DEF InHand
    <3> QED BY <3>1, <3>2
  <2>2. CASE Cached(x)
    <3>1. cache[id] = NoOne
      BY <1>0, RevealAssumption DEF RInv, Flights
    <3> QED BY <1>5, <2>0, <2>2, <3>1 DEF Cached
  <2>3. CASE Over(x)
    BY <1>3, <2>3 DEF Over
  <2> QED BY <2>1, <2>2, <2>3 DEF RInv, Promised
<1>13. Apart'
  BY <1>3 DEF RInv, Apart
<1> QED BY <1>7, <1>8, <1>9, <1>11, <1>12, <1>13 DEF RInv

\* A new request: nobody refers to a handler that has not begun.
LEMMA ArrivesStep ==
    ASSUME RInv, NEW h \in Revealers, NEW id \in RequestIds, NEW a \in Actors,
           NEW f \in Refs, RevealArrives(h, id, a, f)
    PROVE  RInv'
<1> DEFINE y == [NoReveal EXCEPT !.at = "get", !.id = id, !.actor = a, !.ref = f]
<1>0. req \in [Revealers -> RevealRequest] /\ req[h].at = "idle"
      /\ UNCHANGED <<revealClock, cache, flight, reveals>> /\ req' = [req EXCEPT ![h] = y]
  BY DEF RInv, RevealTypeOK, RevealArrives
<1>1. y \in RevealRequest /\ y.at = "get" /\ y.id = id /\ y.actor = a /\ y.ref = f
  BY DEF NoReveal, RevealRequest
<1> HIDE DEF y
<1>2. \A g \in Revealers : req'[g] = IF g = h THEN y ELSE req[g]
  BY <1>0
<1>3. RevealTypeOK'
  BY <1>0, <1>1, <1>2 DEF RInv, RevealTypeOK
<1>4. Flights'
  <2>1. \A i \in RequestIds : flight[i] # NoOne => flight[i] \in Revealers /\ flight[i] # h
    BY <1>0 DEF RInv, RevealTypeOK, Flights, Owning
  <2>2. \A g \in Revealers : req'[g].at \in Owning => req'[g] = req[g]
    BY <1>1, <1>2 DEF Owning
  <2> QED BY <1>0, <1>2, <2>1, <2>2 DEF RInv, Flights
<1>5. Waiting'
  <2> SUFFICES ASSUME NEW g \in Revealers, req'[g].at = "wait"
               PROVE  LET o == req'[g].by IN
                      /\ o \in Revealers
                      /\ req'[o].actor = req'[g].actor /\ req'[o].ref = req'[g].ref
                      /\ \/ req'[o].at \in Owning \cup {"failed"}
                         \/ req'[o].at = "served" /\ req'[o].by = o
    BY DEF Waiting, SameRequest
  <2>1. req'[g] = req[g]
    BY <1>1, <1>2
  <2>2. LET o == req[g].by IN
        /\ o \in Revealers /\ req[o].actor = req[g].actor /\ req[o].ref = req[g].ref
        /\ \/ req[o].at \in Owning \cup {"failed"}
           \/ req[o].at = "served" /\ req[o].by = o
    BY <2>1 DEF RInv, Waiting, SameRequest
  <2>3. req[g].by # h
    BY <1>0, <2>2 DEF Owning
  <2> QED BY <1>2, <2>1, <2>2, <2>3
<1>6. \A b, c, d : Vouched(b, c, d) => b # h /\ Vouched(b, c, d)'
  BY <1>0, <1>2 DEF Vouched
<1>7. Answers'
  <2>1. \A i \in RequestIds : cache[i] # NoOne =>
           Vouched(cache[i].by, cache[i].actor, cache[i].ref)'
    BY <1>0, <1>6 DEF RInv, Answers
  <2>2. ASSUME NEW g \in Revealers
        PROVE  /\ req'[g].at = "finish" => Vouched(g, req[g].actor, req[g].ref)'
               /\ req'[g].at = "served" => Vouched(req[g].by, req[g].actor, req[g].ref)'
    BY <1>0, <1>1, <1>2, <1>6 DEF RInv, Answers
  <2> QED BY <1>0, <2>1, <2>2 DEF Answers
<1>8. Promised'
  <2> SUFFICES ASSUME NEW x \in reveals PROVE (InHand(x) \/ Cached(x) \/ Over(x))'
    BY <1>0 DEF Promised
  <2>1. x.by \in Revealers /\ (InHand(x) \/ Cached(x) \/ Over(x))
    BY DEF RInv, RevealTypeOK, Promised
  <2> QED BY <1>0, <1>2, <2>1 DEF InHand, Cached, Over
<1>9. Apart'
  BY <1>0 DEF RInv, Apart
<1> QED BY <1>3, <1>4, <1>5, <1>7, <1>8, <1>9 DEF RInv

\* Time only lets promises run out.
LEMMA RevealTimeStep ==
    ASSUME RInv, revealClock' \in {revealClock, revealClock + 1},
           UNCHANGED <<cache, flight, req, reveals>>
    PROVE  RInv'
<1>1. revealClock \in Nat /\ revealClock' \in Nat /\ revealClock <= revealClock'
  BY DEF RInv, RevealTypeOK
<1>2. RevealTypeOK' /\ Flights' /\ Waiting' /\ Answers' /\ Apart'
  BY <1>1 DEF RInv, RevealTypeOK, Flights, Waiting, SameRequest, Answers, Vouched, Apart
<1>3. Promised'
  <2> SUFFICES ASSUME NEW x \in reveals PROVE (InHand(x) \/ Cached(x) \/ Over(x))'
    BY DEF Promised
  <2>1. x.at \in Nat /\ (InHand(x) \/ Cached(x) \/ Over(x))
    BY DEF RInv, RevealTypeOK, Promised
  <2> QED BY <1>1, <2>1, RevealAssumption DEF InHand, Cached, Over
<1> QED BY <1>2, <1>3 DEF RInv

LEMMA RevealNextRInv == RInv /\ [RevealNext]_revealVars => RInv'
<1> SUFFICES ASSUME RInv, [RevealNext]_revealVars PROVE RInv'
  OBVIOUS
<1>1. ASSUME NEW h \in Revealers, RevealStep(h) PROVE RInv'
  BY <1>1, CacheGetStep, GateStep, BeginFlightStep, WaitFlightStep, OwnStepReveal,
     FinishFlightStep DEF RevealStep
<1>2. ASSUME NEW h \in Revealers, NEW id \in RequestIds, NEW a \in Actors, NEW f \in Refs,
             RevealArrives(h, id, a, f)
      PROVE  RInv'
  BY <1>2, ArrivesStep
<1>3. ASSUME RevealTick \/ (\E b \in BOOLEAN : SetLocked(b)) \/ UNCHANGED revealVars
      PROVE  RInv'
  BY <1>3, RevealTimeStep DEF RevealTick, SetLocked, revealVars
<1> QED BY <1>1, <1>2, <1>3 DEF RevealNext

\* Handlers, flights, cache entries and audited reveals fit together in every
\* behaviour.
THEOREM RevealInvariant == RevealSpec => []RInv
BY RevealInitRInv, RevealNextRInv, PTL DEF RevealSpec

\* Whoever gets a secret, from its own reveal, from the cache or from a flight
\* it joined, gets one that was audited, for its own actor and reference.
THEOREM RevealsAudited == RevealSpec => []AuditedAndOwn
<1>1. RInv => AuditedAndOwn
  BY DEF RInv, Answers, Vouched, AuditedAndOwn
<1> QED BY <1>1, RevealInvariant, PTL

\* A request id is revealed once in the life of its cache entry, up to the age
\* of a clock reading, and every flight has an owner that is at work.
THEOREM RevealIdempotent == RevealSpec => []RevealedOnce
<1>1. RInv => RevealedOnce
  BY DEF RInv, Apart, Flights, Owning, RevealedOnce
<1> QED BY <1>1, RevealInvariant, PTL

-----------------------------------------------------------------------------
(***************************************************************************)
(* Guesses of the master password: VaultDoor.  A caller's wrong passwords  *)
(* in a window are bounded, for any number of callers and handlers.        *)
(*                                                                         *)
(* The argument: whoever passes the check found fewer than GuessLimit      *)
(* failures on record, so the failures that count and the requests that    *)
(* have passed and may still fail are fewer than GuessLimit + |Doormen|    *)
(* together.  A failure only moves from the requests to the record, and    *)
(* every wrong password tested in the window is in one of the two.         *)
(***************************************************************************)

Steps == {"init", "owner", "rate", "test", "record", "rekey", "clear", "session", "lock",
          "restart"}

DoorRequests == [kind: Kinds \cup {"none"}, caller: Callers \cup {""},
                 pw: Passwords \cup {""}, new: Passwords \cup {""},
                 at: Steps \cup {""}, n: Nat]

\* A request being served belongs to a caller and to those that came in.
Entered(r, last) == r.at # "" => r.caller \in Callers /\ r.n <= last

\* A table of failures of requests that have come in.
Failures(ts) ==
    \A n \in DOMAIN ts : n \in Nat /\ n <= arrived /\ ts[n] \in Nat /\ ts[n] <= doorNow

DoorTypeOK ==
    /\ doorNow \in Nat /\ arrived \in Nat
    /\ request \in [Doormen -> DoorRequests]
    /\ \A d \in Doormen : Entered(request[d], arrived)
    /\ attempts = [c \in Callers |-> attempts[c]]
    /\ guesses = [c \in Callers |-> guesses[c]]
    /\ \A c \in Callers : Failures(attempts[c]) /\ Failures(guesses[c])

\* The requests of c that have passed the check and may still fail.
Trying(c) == {d \in Doormen : request[d].caller = c /\ request[d].at \in {"test", "rekey", "record"}}

\* The failures of c that the check counts.
Counted(c) == {n \in DOMAIN attempts[c] : attempts[c][n] + GuessWindow >= doorNow}

\* The check leaves room for those who pass it: whoever fails moves from the
\* first set to the second.
RoomLeft ==
    \A c \in Callers :
        Cardinality(Counted(c)) + Cardinality(Trying(c))
            <= GuessLimit + Cardinality(Doormen) - 1

\* A request is about to record a failure of c.
Pending(c, n) ==
    \E d \in Doormen : request[d].at = "record" /\ request[d].caller = c /\ request[d].n = n

\* A wrong password that was tested is recorded, is about to be, or is old.
Recorded ==
    \A c \in Callers : \A n \in RecentGuesses(c) :
        \/ n \in DOMAIN attempts[c] /\ guesses[c][n] <= attempts[c][n]
        \/ Pending(c, n)

DInv == DoorTypeOK /\ RoomLeft /\ Recorded

LEMMA NoRequestFacts == NoRequest \in DoorRequests /\ NoRequest.at = ""
BY DEF NoRequest, DoorRequests

LEMMA TryingFinite ==
    ASSUME NEW c
    PROVE  /\ IsFiniteSet(Trying(c)) /\ Cardinality(Trying(c)) \in Nat
           /\ Cardinality(Trying(c)) <= Cardinality(Doormen)
           /\ Cardinality(Doormen) \in Nat
<1>1. Trying(c) \in SUBSET Doormen
  BY DEF Trying
<1> QED BY <1>1, DoorAssumption, FS_Subset, FS_CardinalityType

LEMMA CountedFinite ==
    ASSUME DoorTypeOK, NEW c \in Callers
    PROVE  IsFiniteSet(Counted(c)) /\ Cardinality(Counted(c)) \in Nat
<1>1. Counted(c) \in SUBSET Nat /\ (\A n \in Counted(c) : n <= arrived) /\ arrived \in Nat
  BY DEF Counted, DoorTypeOK, Failures
<1>2. IsFiniteSet(Counted(c))
  BY <1>1, FS_BoundedSetOfNaturals
<1> QED BY <1>2, FS_CardinalityType

\* The sum only goes down when both sets lose elements.
LEMMA RoomShrinks ==
    ASSUME DInv, DoorTypeOK', NEW c \in Callers,
           Counted(c)' \subseteq Counted(c), Trying(c)' \subseteq Trying(c)
    PROVE  Cardinality(Counted(c)') + Cardinality(Trying(c)')
               <= GuessLimit + Cardinality(Doormen) - 1
<1>1. /\ Cardinality(Counted(c)') \in Nat /\ Cardinality(Counted(c)) \in Nat
      /\ Cardinality(Counted(c)') <= Cardinality(Counted(c))
  <2>1. IsFiniteSet(Counted(c))
    BY CountedFinite DEF DInv
  <2> QED BY <2>1, FS_Subset, FS_CardinalityType
<1>2. /\ Cardinality(Trying(c)') \in Nat /\ Cardinality(Trying(c)) \in Nat
      /\ Cardinality(Trying(c)') <= Cardinality(Trying(c)) /\ Cardinality(Doormen) \in Nat
  <2>1. IsFiniteSet(Trying(c)) /\ Cardinality(Doormen) \in Nat
    BY TryingFinite
  <2> QED BY <2>1, FS_Subset, FS_CardinalityType
<1>3. Cardinality(Counted(c)) + Cardinality(Trying(c)) <= GuessLimit + Cardinality(Doormen) - 1
  BY DEF DInv, RoomLeft
<1> QED BY <1>1, <1>2, <1>3, DoorAssumption

LEMMA DoorInitDInv == DoorInit => DInv
<1> SUFFICES ASSUME DoorInit PROVE DInv
  OBVIOUS
<1>1. DOMAIN NoFailures = {}
  BY DEF NoFailures
<1>2. DoorTypeOK
  BY <1>1, NoRequestFacts DEF DoorInit, DoorTypeOK, Failures, Entered
<1>3. RoomLeft
  <2> SUFFICES ASSUME NEW c \in Callers
               PROVE  Cardinality(Counted(c)) + Cardinality(Trying(c))
                        <= GuessLimit + Cardinality(Doormen) - 1
    BY DEF RoomLeft
  <2>1. Counted(c) = {}
    BY <1>1 DEF Counted, DoorInit
  <2>2. Cardinality(Counted(c)) = 0
    BY <2>1, FS_EmptySet
  <2> QED BY <2>2, TryingFinite, DoorAssumption
<1>4. Recorded
  BY <1>1 DEF Recorded, RecentGuesses, DoorInit
<1> QED BY <1>2, <1>3, <1>4 DEF DInv

\* No table loses a failure that counts, and no guess is new: Recorded stays.
LEMMA RecordedKept ==
    ASSUME DInv, doorNow' >= doorNow, doorNow' \in Nat,
           \A c \in Callers : \A n \in DOMAIN guesses'[c] :
              (n \in DOMAIN guesses[c] /\ guesses'[c][n] = guesses[c][n]) \/ Pending(c, n)',
           \A c \in Callers : \A n \in RecentGuesses(c)' : n \in Counted(c) =>
              n \in DOMAIN attempts'[c] /\ attempts[c][n] <= attempts'[c][n]
                 /\ attempts'[c][n] \in Nat,
           \A c \in Callers : \A n \in RecentGuesses(c)' : \A d \in Doormen :
              request[d].at = "record" /\ request[d].caller = c /\ request[d].n = n =>
                \/ request'[d] = request[d]
                \/ n \in DOMAIN attempts'[c] /\ guesses[c][n] <= attempts'[c][n]
    PROVE  Recorded'
<1> SUFFICES ASSUME NEW c \in Callers, NEW n \in RecentGuesses(c)'
             PROVE  \/ n \in DOMAIN attempts'[c] /\ guesses'[c][n] <= attempts'[c][n]
                    \/ Pending(c, n)'
  BY DEF Recorded
<1> SUFFICES ASSUME ~ Pending(c, n)'
             PROVE  n \in DOMAIN attempts'[c] /\ guesses'[c][n] <= attempts'[c][n]
  OBVIOUS
<1>0. /\ n \in DOMAIN guesses'[c] /\ n \in DOMAIN guesses[c]
      /\ guesses'[c][n] = guesses[c][n] /\ guesses[c][n] + GuessWindow > doorNow'
  BY DEF RecentGuesses
<1>1. guesses[c][n] \in Nat /\ doorNow \in Nat /\ GuessWindow \in Nat
  BY <1>0, DoorAssumption DEF DInv, DoorTypeOK, Failures
<1>2. n \in RecentGuesses(c)
  BY <1>0, <1>1 DEF RecentGuesses
<1>3. CASE n \in DOMAIN attempts[c] /\ guesses[c][n] <= attempts[c][n]
  <2>1. attempts[c][n] \in Nat
    BY <1>3 DEF DInv, DoorTypeOK, Failures
  <2>2. n \in Counted(c)
    BY <1>0, <1>1, <1>3, <2>1 DEF Counted
  <2>3. n \in DOMAIN attempts'[c] /\ attempts[c][n] <= attempts'[c][n] /\ attempts'[c][n] \in Nat
    BY <2>2
  <2> QED BY <1>0, <1>1, <1>3, <2>1, <2>3
<1>4. CASE Pending(c, n)
  <2>1. PICK d \in Doormen : request[d].at = "record" /\ request[d].caller = c
                             /\ request[d].n = n
    BY <1>4 DEF Pending
  <2>2. \/ request'[d] = request[d]
        \/ n \in DOMAIN attempts'[c] /\ guesses[c][n] <= attempts'[c][n]
    BY <2>1
  <2> QED BY <1>0, <2>1, <2>2 DEF Pending
<1> QED BY <1>2, <1>3, <1>4 DEF DInv, Recorded

LEMMA EnteredLater ==
    ASSUME NEW r \in DoorRequests, NEW a \in Nat, NEW b \in Nat, a <= b, Entered(r, a)
    PROVE  Entered(r, b)
<1>1. r.n \in Nat
  BY DEF DoorRequests
<1>2. CASE r.at = ""
  BY <1>2 DEF Entered
<1>3. CASE r.at # ""
  <2>1. r.caller \in Callers /\ r.n <= a
    BY <1>3 DEF Entered
  <2>2. r.n <= b
    BY <1>1, <2>1
  <2> QED BY <2>1, <2>2 DEF Entered
<1> QED BY <1>2, <1>3

\* One request changes, and the tables stay tables of failures.
LEMMA OneServes ==
    ASSUME DInv, NEW d \in Doormen, NEW y \in DoorRequests,
           request' = [request EXCEPT ![d] = y], Entered(y, arrived'),
           arrived' \in Nat, arrived <= arrived', doorNow' \in Nat,
           attempts' = [c \in Callers |-> attempts'[c]],
           guesses' = [c \in Callers |-> guesses'[c]],
           \A c \in Callers : Failures(attempts[c])' /\ Failures(guesses[c])'
    PROVE  /\ DoorTypeOK'
           /\ \A e \in Doormen : request'[e] = IF e = d THEN y ELSE request[e]
<1>0. request \in [Doormen -> DoorRequests] /\ arrived \in Nat
  BY DEF DInv, DoorTypeOK
<1>1. \A e \in Doormen : request'[e] = IF e = d THEN y ELSE request[e]
  BY <1>0
<1>2. request' \in [Doormen -> DoorRequests]
  BY <1>0
<1>3. ASSUME NEW e \in Doormen PROVE Entered(request'[e], arrived')
  <2>1. CASE e = d
    BY <1>1, <2>1
  <2>2. CASE e # d
    <3>1. Entered(request[e], arrived) /\ request[e] \in DoorRequests /\ request'[e] = request[e]
      BY <1>0, <1>1, <2>2 DEF DInv, DoorTypeOK
    <3> QED BY <1>0, <3>1, EnteredLater
  <2> QED BY <2>1, <2>2
<1>4. DoorTypeOK'
  BY <1>2, <1>3 DEF DoorTypeOK
<1> QED BY <1>1, <1>4

\* A request moves on without a failure; a failure that is to be recorded
\* stays so.
LEMMA DoorMoves ==
    ASSUME DInv, NEW d \in Doormen, NEW y \in DoorRequests,
           request' = [request EXCEPT ![d] = y],
           Entered(y, arrived'),
           y.at \in {"test", "rekey", "record"} =>
              request[d].at \in {"test", "rekey", "record"} /\ y.caller = request[d].caller,
           request[d].at # "record",
           arrived' \in Nat, arrived <= arrived', UNCHANGED <<doorNow, attempts, guesses>>
    PROVE  DInv'
<1>0. doorNow \in Nat /\ arrived \in Nat
  BY DEF DInv, DoorTypeOK
<1>1. \A c \in Callers : Failures(attempts[c])' /\ Failures(guesses[c])'
  <2> SUFFICES ASSUME NEW c \in Callers PROVE Failures(attempts[c])' /\ Failures(guesses[c])'
    OBVIOUS
  <2>1. Failures(attempts[c]) /\ Failures(guesses[c])
    BY DEF DInv, DoorTypeOK
  <2> QED BY <1>0, <2>1 DEF Failures
<1>2. DoorTypeOK' /\ \A e \in Doormen : request'[e] = IF e = d THEN y ELSE request[e]
  <2>1. attempts' = [c \in Callers |-> attempts'[c]] /\ guesses' = [c \in Callers |-> guesses'[c]]
    BY DEF DInv, DoorTypeOK
  <2> QED BY <1>0, <1>1, <2>1, OneServes
<1>3. RoomLeft'
  <2>1. \A c \in Callers : Counted(c)' \subseteq Counted(c)
    BY DEF Counted
  <2>2. \A c \in Callers : Trying(c)' \subseteq Trying(c)
    BY <1>2 DEF Trying
  <2> QED BY <1>2, <2>1, <2>2, RoomShrinks DEF RoomLeft
<1>4. Recorded'
  <2>1. \A e \in Doormen : request[e].at = "record" => request'[e] = request[e]
    BY <1>2
  <2>2. \A c \in Callers : \A n \in Counted(c) : n \in DOMAIN attempts[c] /\ attempts[c][n] \in Nat
    BY DEF DInv, DoorTypeOK, Failures, Counted
  <2>3. doorNow' >= doorNow /\ doorNow' \in Nat
    BY <1>0
  <2>4. \A c \in Callers : \A n \in DOMAIN guesses'[c] :
              n \in DOMAIN guesses[c] /\ guesses'[c][n] = guesses[c][n]
    OBVIOUS
  <2>5. \A c \in Callers : \A n \in RecentGuesses(c)' : n \in Counted(c) =>
              n \in DOMAIN attempts'[c] /\ attempts[c][n] <= attempts'[c][n]
                 /\ attempts'[c][n] \in Nat
    BY <2>2
  <2> QED BY <2>1, <2>3, <2>4, <2>5, RecordedKept
<1> QED BY <1>2, <1>3, <1>4 DEF DInv

\* What Goto makes of a request.
LEMMA NextStep ==
    ASSUME NEW r \in DoorRequests, NEW a \in Nat, Entered(r, a), r.at # "",
           NEW s \in Steps
    PROVE  /\ [r EXCEPT !.at = s] \in DoorRequests
           /\ Entered([r EXCEPT !.at = s], a)
           /\ [r EXCEPT !.at = s].at = s
           /\ [r EXCEPT !.at = s].caller = r.caller
           /\ [r EXCEPT !.at = s].n = r.n
<1>1. /\ [r EXCEPT !.at = s] \in DoorRequests
      /\ [r EXCEPT !.at = s].at = s
      /\ [r EXCEPT !.at = s].caller = r.caller
      /\ [r EXCEPT !.at = s].n = r.n
  BY DEF DoorRequests
<1>2. r.caller \in Callers /\ r.n <= a
  BY DEF Entered
<1> QED BY <1>1, <1>2 DEF Entered

\* What the check and the record see of a table.
LEMMA CheckSees ==
    ASSUME DoorTypeOK, NEW c \in Callers
    PROVE  /\ DOMAIN recentAttempts(attempts[c]) = Counted(c)
           /\ \A n \in Counted(c) : recentAttempts(attempts[c])[n] = attempts[c][n]
           /\ Counted(c) \subseteq DOMAIN attempts[c]
           /\ Failures(recentAttempts(attempts[c]))
<1>1. /\ DOMAIN recentAttempts(attempts[c]) = Counted(c)
      /\ \A n \in Counted(c) : recentAttempts(attempts[c])[n] = attempts[c][n]
      /\ Counted(c) \subseteq DOMAIN attempts[c]
  BY DEF recentAttempts, Counted
<1>2. Failures(attempts[c])
  BY DEF DoorTypeOK
<1> QED BY <1>1, <1>2 DEF Failures

\* The doormen who have a request are known to be where the step finds them.
LEMMA Serving ==
    ASSUME DInv, NEW d \in Doormen, request[d].at # ""
    PROVE  /\ request[d] \in DoorRequests /\ Entered(request[d], arrived)
           /\ request[d].caller \in Callers /\ request[d].n \in Nat /\ request[d].n <= arrived
           /\ arrived \in Nat /\ doorNow \in Nat
<1>1. request[d] \in DoorRequests /\ Entered(request[d], arrived) /\ arrived \in Nat /\ doorNow \in Nat
  BY DEF DInv, DoorTypeOK
<1>2. request[d].n \in Nat
  BY <1>1 DEF DoorRequests
<1> QED BY <1>1, <1>2 DEF Entered

\* The tables of the callers that a step leaves alone stay tables of failures.
LEMMA SameTables ==
    ASSUME DInv, doorNow' = doorNow, arrived' = arrived, NEW c \in Callers
    PROVE  /\ attempts'[c] = attempts[c] => Failures(attempts[c])'
           /\ guesses'[c] = guesses[c] => Failures(guesses[c])'
<1>1. Failures(attempts[c]) /\ Failures(guesses[c])
  BY DEF DInv, DoorTypeOK
<1> QED BY <1>1 DEF Failures

\* Who passes the check finds fewer than GuessLimit failures that count.
LEMMA CheckRateDInv ==
    ASSUME DInv, NEW d \in Doormen, CheckRate(d)
    PROVE  DInv'
<1> DEFINE c == request[d].caller
           y == IF masterPasswordRetryAfter(c) THEN NoRequest
                ELSE [request[d] EXCEPT !.at = "test"]
<1>0. /\ request[d].at = "rate" /\ c \in Callers /\ request[d] \in DoorRequests
      /\ Entered(request[d], arrived) /\ arrived \in Nat /\ doorNow \in Nat
  BY Serving DEF CheckRate
<1>1. /\ attempts' = [attempts EXCEPT ![c] = recentAttempts(attempts[c])]
      /\ doorNow' = doorNow /\ arrived' = arrived /\ guesses' = guesses
  BY DEF CheckRate
<1>2. request' = [request EXCEPT ![d] = y]
  BY DEF CheckRate, Answer, Goto
<1>3. /\ y \in DoorRequests /\ Entered(y, arrived') /\ y.at \in {"", "test"}
      /\ y.at = "test" => y.caller = c /\ ~ masterPasswordRetryAfter(c)
  <2>1. CASE masterPasswordRetryAfter(c)
    BY <2>1, NoRequestFacts DEF Entered
  <2>2. CASE ~ masterPasswordRetryAfter(c)
    BY <1>0, <1>1, <2>2, NextStep DEF Steps
  <2> QED BY <2>1, <2>2
<1>4. /\ attempts' = [e \in Callers |-> attempts'[e]]
      /\ \A e \in Callers : attempts'[e] = IF e = c THEN recentAttempts(attempts[c]) ELSE attempts[e]
  BY <1>0, <1>1 DEF DInv, DoorTypeOK
<1>5. guesses' = [e \in Callers |-> guesses'[e]]
  BY <1>1 DEF DInv, DoorTypeOK
<1>6. /\ DOMAIN recentAttempts(attempts[c]) = Counted(c)
      /\ \A n \in Counted(c) : recentAttempts(attempts[c])[n] = attempts[c][n]
      /\ Failures(recentAttempts(attempts[c]))
  BY <1>0, CheckSees DEF DInv
<1>7. \A e \in Callers : Failures(attempts[e])' /\ Failures(guesses[e])'
  <2> SUFFICES ASSUME NEW e \in Callers PROVE Failures(attempts[e])' /\ Failures(guesses[e])'
    OBVIOUS
  <2>1. Failures(guesses[e])' /\ (e # c => Failures(attempts[e])')
    BY <1>1, <1>4, SameTables
  <2>2. e = c => Failures(attempts[e])'
    BY <1>1, <1>4, <1>6 DEF Failures
  <2> QED BY <2>1, <2>2
<1>8. DoorTypeOK' /\ \A e \in Doormen : request'[e] = IF e = d THEN y ELSE request[e]
  <2>1. arrived' \in Nat /\ arrived <= arrived' /\ doorNow' \in Nat
    BY <1>0, <1>1
  <2> QED BY <1>2, <1>3, <1>4, <1>5, <1>7, <2>1, OneServes, ZenonT(30)
<1>9. \A e \in Callers : Counted(e)' \subseteq Counted(e)
  BY <1>1, <1>4, <1>6 DEF Counted
<1>10. RoomLeft'
  <2> SUFFICES ASSUME NEW e \in Callers
               PROVE  Cardinality(Counted(e)') + Cardinality(Trying(e)')
                        <= GuessLimit + Cardinality(Doormen) - 1
    BY DEF RoomLeft
  <2>1. CASE e # c \/ masterPasswordRetryAfter(c)
    <3>1. Trying(e)' \subseteq Trying(e)
      BY <1>3, <1>8, <2>1 DEF Trying
    <3> QED BY <1>8, <1>9, <3>1, RoomShrinks
  <2>2. CASE e = c /\ ~ masterPasswordRetryAfter(c)
    <3>1. IsFiniteSet(Counted(e)) /\ Cardinality(Counted(e)) \in Nat
      BY CountedFinite DEF DInv
    <3>2. Counted(e)' \in SUBSET Counted(e)
      BY <1>9
    <3>3. Cardinality(Counted(e)') <= Cardinality(Counted(e)) /\ Cardinality(Counted(e)') \in Nat
      BY <3>1, <3>2, FS_Subset, FS_CardinalityType
    <3>4. ~ (Cardinality(Counted(e)) >= GuessLimit)
      BY <1>6, <2>2 DEF masterPasswordRetryAfter
    <3>5. /\ Cardinality(Trying(e)') <= Cardinality(Doormen)
          /\ Cardinality(Trying(e)') \in Nat /\ Cardinality(Doormen) \in Nat
      <4>1. Trying(e)' \in SUBSET Doormen
        BY DEF Trying
      <4> QED BY <4>1, DoorAssumption, FS_Subset, FS_CardinalityType
    <3> QED BY <3>1, <3>3, <3>4, <3>5, DoorAssumption
  <2> QED BY <2>1, <2>2
<1>11. Recorded'
  <2>1. \A e \in Doormen : request[e].at = "record" => request'[e] = request[e]
    BY <1>0, <1>8
  <2>2. \A e \in Callers : \A n \in Counted(e) :
           n \in DOMAIN attempts'[e] /\ attempts'[e][n] = attempts[e][n] /\ attempts[e][n] \in Nat
    BY <1>4, <1>6 DEF DInv, DoorTypeOK, Failures, Counted
  <2>3. doorNow' >= doorNow /\ doorNow' \in Nat
    BY <1>0, <1>1
  <2>4. \A e \in Callers : \A n \in Counted(e) :
           n \in DOMAIN attempts'[e] /\ attempts[e][n] <= attempts'[e][n] /\ attempts'[e][n] \in Nat
    BY <2>2
  <2> QED BY <1>1, <2>1, <2>3, <2>4, RecordedKept
<1> QED BY <1>8, <1>10, <1>11 DEF DInv

\* A wrong password: the guess is on its way to the record.
LEMMA GuessDInv ==
    ASSUME DInv, NEW d \in Doormen, request[d].at \in {"test", "rekey"}, Goto(d, "record"),
           guesses' = [guesses EXCEPT ![request[d].caller] = Failed(@, request[d].n)],
           UNCHANGED <<doorNow, attempts, arrived>>
    PROVE  DInv'
<1> DEFINE c == request[d].caller
           y == [request[d] EXCEPT !.at = "record"]
<1>0. /\ c \in Callers /\ request[d] \in DoorRequests /\ request[d].n \in Nat
      /\ request[d].n <= arrived
      /\ Entered(request[d], arrived) /\ arrived \in Nat /\ doorNow \in Nat
  BY Serving
<1>2. request' = [request EXCEPT ![d] = y]
  BY DEF Goto
<1>3. /\ y \in DoorRequests /\ Entered(y, arrived') /\ y.at = "record" /\ y.caller = c
      /\ y.n = request[d].n
  BY <1>0, NextStep, ZenonT(30) DEF Steps
<1>4. /\ guesses' = [e \in Callers |-> guesses'[e]]
      /\ \A e \in Callers : guesses'[e] =
            IF e = c THEN Failed(guesses[c], request[d].n) ELSE guesses[e]
  BY <1>0 DEF DInv, DoorTypeOK
<1>5. attempts' = [e \in Callers |-> attempts'[e]]
  BY DEF DInv, DoorTypeOK
<1>6. /\ DOMAIN Failed(guesses[c], request[d].n) = DOMAIN guesses[c] \cup {request[d].n}
      /\ \A n \in DOMAIN guesses[c] : n # request[d].n =>
            Failed(guesses[c], request[d].n)[n] = guesses[c][n]
      /\ Failed(guesses[c], request[d].n)[request[d].n] = doorNow
  BY DEF Failed
<1>7. \A e \in Callers : Failures(attempts[e])' /\ Failures(guesses[e])'
  <2> SUFFICES ASSUME NEW e \in Callers PROVE Failures(attempts[e])' /\ Failures(guesses[e])'
    OBVIOUS
  <2>1. Failures(attempts[e])' /\ (e # c => Failures(guesses[e])')
    BY <1>4, SameTables
  <2>2. e = c => Failures(guesses[e])'
    <3>1. Failures(guesses[c])
      BY <1>0 DEF DInv, DoorTypeOK
    <3> QED BY <1>0, <1>4, <1>6, <3>1 DEF Failures
  <2> QED BY <2>1, <2>2
<1>8. DoorTypeOK' /\ \A e \in Doormen : request'[e] = IF e = d THEN y ELSE request[e]
  <2>1. arrived' \in Nat /\ arrived <= arrived' /\ doorNow' \in Nat
    BY <1>0
  <2> QED BY <1>2, <1>3, <1>4, <1>5, <1>7, <2>1, OneServes, ZenonT(30)
<1>9. RoomLeft'
  <2>1. \A e \in Callers : Counted(e)' \subseteq Counted(e)
    BY DEF Counted
  <2>2. \A e \in Callers : Trying(e)' \subseteq Trying(e)
    BY <1>3, <1>8 DEF Trying
  <2> QED BY <1>8, <2>1, <2>2, RoomShrinks DEF RoomLeft
<1>10. Recorded'
  <2>1. \A e \in Doormen : request[e].at = "record" => request'[e] = request[e]
    BY <1>8
  <2>2. \A e \in Callers : \A n \in Counted(e) : n \in DOMAIN attempts[e] /\ attempts[e][n] \in Nat
    BY DEF DInv, DoorTypeOK, Failures, Counted
  <2>3. doorNow' >= doorNow /\ doorNow' \in Nat
    BY <1>0
  <2>4. request'[d].at = "record" /\ request'[d].caller = c /\ request'[d].n = request[d].n
    BY <1>3, <1>8
  <2>5. \A e \in Callers : \A n \in DOMAIN guesses'[e] :
           (n \in DOMAIN guesses[e] /\ guesses'[e][n] = guesses[e][n]) \/ Pending(e, n)'
    <3> SUFFICES ASSUME NEW e \in Callers, NEW n \in DOMAIN guesses'[e],
                        ~ (n \in DOMAIN guesses[e] /\ guesses'[e][n] = guesses[e][n])
                 PROVE  Pending(e, n)'
      OBVIOUS
    <3>1. e = c /\ n = request[d].n
      BY <1>4, <1>6
    <3> QED BY <2>4, <3>1 DEF Pending
  <2>6. \A e \in Callers : \A n \in Counted(e) :
           n \in DOMAIN attempts'[e] /\ attempts[e][n] <= attempts'[e][n] /\ attempts'[e][n] \in Nat
    BY <2>2
  <2> QED BY <2>1, <2>3, <2>5, <2>6, RecordedKept
<1> QED BY <1>8, <1>9, <1>10 DEF DInv

\* The failure that is recorded was one of those the check left room for.
LEMMA RecordDInv ==
    ASSUME DInv, NEW d \in Doormen, Record(d)
    PROVE  DInv'
<1> DEFINE c == request[d].caller
           k == request[d].n
           ts == Failed(recentAttempts(attempts[c]), k)
<1>0. /\ request[d].at = "record" /\ c \in Callers /\ k \in Nat /\ k <= arrived
      /\ arrived \in Nat /\ doorNow \in Nat
  BY Serving DEF Record
<1>1. /\ attempts' = [attempts EXCEPT ![c] = ts]
      /\ doorNow' = doorNow /\ arrived' = arrived /\ guesses' = guesses
      /\ request' = [request EXCEPT ![d] = NoRequest]
  BY DEF Record, Answer
<1>2. attempts' = [e \in Callers |-> attempts'[e]]
  BY <1>1 DEF DInv, DoorTypeOK
<1>4. /\ \A e \in Callers : attempts'[e] = IF e = c THEN ts ELSE attempts[e]
  BY <1>0, <1>1 DEF DInv, DoorTypeOK
<1>5. guesses' = [e \in Callers |-> guesses'[e]]
  BY <1>1 DEF DInv, DoorTypeOK
<1>6. /\ DOMAIN ts = Counted(c) \cup {k}
      /\ \A n \in Counted(c) : n # k => ts[n] = attempts[c][n]
      /\ ts[k] = doorNow
  <2>1. /\ DOMAIN recentAttempts(attempts[c]) = Counted(c)
        /\ \A n \in Counted(c) : recentAttempts(attempts[c])[n] = attempts[c][n]
    BY <1>0, CheckSees DEF DInv
  <2> QED BY <2>1 DEF Failed
<1>7. \A n \in Counted(c) : n \in Nat /\ n <= arrived /\ attempts[c][n] \in Nat /\ attempts[c][n] <= doorNow
  BY <1>0 DEF DInv, DoorTypeOK, Failures, Counted
<1> HIDE DEF ts
<1>8. \A e \in Callers : Failures(attempts[e])' /\ Failures(guesses[e])'
  <2> SUFFICES ASSUME NEW e \in Callers PROVE Failures(attempts[e])' /\ Failures(guesses[e])'
    OBVIOUS
  <2>1. Failures(guesses[e])' /\ (e # c => Failures(attempts[e])')
    BY <1>1, <1>4, SameTables
  <2>2. e = c => Failures(attempts[e])'
    BY <1>0, <1>1, <1>4, <1>6, <1>7 DEF Failures
  <2> QED BY <2>1, <2>2
<1>9. DoorTypeOK' /\ \A e \in Doormen : request'[e] = IF e = d THEN NoRequest ELSE request[e]
  <2>1. arrived' \in Nat /\ arrived <= arrived' /\ doorNow' \in Nat
    BY <1>0, <1>1
  <2>2. NoRequest \in DoorRequests /\ Entered(NoRequest, arrived')
    BY NoRequestFacts DEF Entered
  <2>3. request' = [request EXCEPT ![d] = NoRequest]
    BY <1>1
  <2> HIDE DEF k, c
  <2> QED BY <1>2, <1>5, <1>8, <2>1, <2>2, <2>3, OneServes
<1>10. \A e \in Callers : Trying(e)' \subseteq Trying(e) \ {d}
  BY <1>9, NoRequestFacts DEF Trying
<1>11. RoomLeft'
  <2> SUFFICES ASSUME NEW e \in Callers
               PROVE  Cardinality(Counted(e)') + Cardinality(Trying(e)')
                        <= GuessLimit + Cardinality(Doormen) - 1
    BY DEF RoomLeft
  <2>1. CASE e # c
    <3>1. Counted(e)' \subseteq Counted(e)
      BY <1>1, <1>4, <2>1 DEF Counted
    <3> QED BY <1>9, <1>10, <3>1, RoomShrinks
  <2>2. CASE e = c
    <3>1. IsFiniteSet(Counted(c)) /\ Cardinality(Counted(c)) \in Nat
      BY <1>0, CountedFinite DEF DInv
    <3>2. /\ IsFiniteSet(Counted(c) \cup {k})
          /\ Cardinality(Counted(c) \cup {k}) \in {Cardinality(Counted(c)), Cardinality(Counted(c)) + 1}
      BY <3>1, FS_AddElement
    <3>3. Counted(e)' \in SUBSET (Counted(c) \cup {k})
      BY <1>4, <1>6, <2>2 DEF Counted
    <3>4. /\ Cardinality(Counted(e)') <= Cardinality(Counted(c)) + 1 /\ Cardinality(Counted(e)') \in Nat
      <4>1. /\ Cardinality(Counted(e)') <= Cardinality(Counted(c) \cup {k})
            /\ Cardinality(Counted(e)') \in Nat
        BY <3>2, <3>3, FS_Subset, FS_CardinalityType
      <4> QED BY <3>1, <3>2, <4>1
    <3>5. IsFiniteSet(Trying(c)) /\ Cardinality(Trying(c)) \in Nat /\ Cardinality(Doormen) \in Nat
      BY TryingFinite
    <3>6. d \in Trying(c)
      BY <1>0 DEF Trying
    <3>7. IsFiniteSet(Trying(c) \ {d}) /\ Cardinality(Trying(c) \ {d}) = Cardinality(Trying(c)) - 1
      BY <3>5, <3>6, FS_RemoveElement
    <3>8. Trying(e)' \in SUBSET (Trying(c) \ {d})
      BY <1>10, <2>2
    <3>9. Cardinality(Trying(e)') <= Cardinality(Trying(c)) - 1 /\ Cardinality(Trying(e)') \in Nat
      BY <3>7, <3>8, FS_Subset, FS_CardinalityType
    <3>10. Cardinality(Counted(c)) + Cardinality(Trying(c)) <= GuessLimit + Cardinality(Doormen) - 1
      BY <1>0 DEF DInv, RoomLeft
    <3> QED BY <3>1, <3>4, <3>5, <3>9, <3>10, DoorAssumption
  <2> QED BY <2>1, <2>2
<1>12. Recorded'
  <2>1. ASSUME NEW e \in Callers, NEW n \in RecentGuesses(e)', NEW b \in Doormen,
               request[b].at = "record" /\ request[b].caller = e /\ request[b].n = n
        PROVE  \/ request'[b] = request[b]
               \/ n \in DOMAIN attempts'[e] /\ guesses[e][n] <= attempts'[e][n]
    <3>1. CASE b # d
      BY <1>9, <3>1
    <3>2. CASE b = d
      <4>1. e = c /\ n = k
        BY <2>1, <3>2
      <4>2. n \in DOMAIN guesses[e]
        BY <1>1 DEF RecentGuesses
      <4>3. guesses[e][n] <= doorNow
        BY <4>2 DEF DInv, DoorTypeOK, Failures
      <4> QED BY <1>4, <1>6, <4>1, <4>3
    <3> QED BY <3>1, <3>2
  <2>2. \A e \in Callers : \A n \in Counted(e) :
           n \in DOMAIN attempts'[e] /\ attempts[e][n] <= attempts'[e][n] /\ attempts'[e][n] \in Nat
    <3> SUFFICES ASSUME NEW e \in Callers, NEW n \in Counted(e)
                 PROVE  n \in DOMAIN attempts'[e] /\ attempts[e][n] <= attempts'[e][n]
                          /\ attempts'[e][n] \in Nat
      OBVIOUS
    <3>1. n \in DOMAIN attempts[e] /\ attempts[e][n] \in Nat
      BY DEF DInv, DoorTypeOK, Failures, Counted
    <3>2. CASE e # c
      BY <1>4, <3>1, <3>2
    <3>3. CASE e = c
      BY <1>0, <1>4, <1>6, <1>7, <3>3
    <3> QED BY <3>2, <3>3
  <2>3. doorNow' >= doorNow /\ doorNow' \in Nat
    BY <1>0, <1>1
  <2>4. \A e \in Callers : \A n \in DOMAIN guesses'[e] :
           n \in DOMAIN guesses[e] /\ guesses'[e][n] = guesses[e][n]
    BY <1>1
  <2> QED BY <2>1, <2>2, <2>3, <2>4, RecordedKept
<1> QED BY <1>9, <1>11, <1>12 DEF DInv

\* A right password forgives the caller's failures.
LEMMA ClearDInv ==
    ASSUME DInv, NEW d \in Doormen, Clear(d)
    PROVE  DInv'
<1> DEFINE c == request[d].caller
           step == IF request[d].kind = "rotate" THEN "lock" ELSE "session"
           y == [request[d] EXCEPT !.at = step]
<1>0. /\ request[d].at = "clear" /\ c \in Callers /\ request[d] \in DoorRequests
      /\ Entered(request[d], arrived) /\ arrived \in Nat /\ doorNow \in Nat
  BY Serving DEF Clear
<1>1. /\ attempts' = [attempts EXCEPT ![c] = NoFailures]
      /\ guesses' = [guesses EXCEPT ![c] = NoFailures]
      /\ doorNow' = doorNow /\ arrived' = arrived
      /\ request' = [request EXCEPT ![d] = y]
  BY DEF Clear, Goto
<1>2. y \in DoorRequests /\ Entered(y, arrived') /\ y.at \in {"lock", "session"}
  <2>1. step \in {"lock", "session"}
    OBVIOUS
  <2> HIDE DEF step
  <2>2. step \in Steps /\ request[d].at # ""
    BY <1>0, <2>1 DEF Steps
  <2>3. y \in DoorRequests /\ Entered(y, arrived) /\ y.at = step
    BY <1>0, <2>2, NextStep
  <2> QED BY <1>1, <2>1, <2>3
<1> HIDE DEF y
<1>3. /\ attempts' = [e \in Callers |-> attempts'[e]]
      /\ guesses' = [e \in Callers |-> guesses'[e]]
      /\ \A e \in Callers : attempts'[e] = IF e = c THEN NoFailures ELSE attempts[e]
      /\ \A e \in Callers : guesses'[e] = IF e = c THEN NoFailures ELSE guesses[e]
  BY <1>0, <1>1 DEF DInv, DoorTypeOK
<1>4. DOMAIN NoFailures = {}
  BY DEF NoFailures
<1>5. \A e \in Callers : Failures(attempts[e])' /\ Failures(guesses[e])'
  <2> SUFFICES ASSUME NEW e \in Callers PROVE Failures(attempts[e])' /\ Failures(guesses[e])'
    OBVIOUS
  <2>1. e # c => Failures(attempts[e])' /\ Failures(guesses[e])'
    BY <1>1, <1>3, SameTables
  <2>2. e = c => Failures(attempts[e])' /\ Failures(guesses[e])'
    BY <1>3, <1>4 DEF Failures
  <2> QED BY <2>1, <2>2
<1>6. DoorTypeOK' /\ \A e \in Doormen : request'[e] = IF e = d THEN y ELSE request[e]
  <2>1. arrived' \in Nat /\ arrived <= arrived' /\ doorNow' \in Nat
    BY <1>0, <1>1
  <2>2. request' = [request EXCEPT ![d] = y]
    BY <1>1
  <2> QED BY <1>2, <1>3, <1>5, <2>1, <2>2, OneServes, ZenonT(30)
<1>7. RoomLeft'
  <2>1. \A e \in Callers : Counted(e)' \subseteq Counted(e)
    BY <1>1, <1>3, <1>4 DEF Counted
  <2>2. \A e \in Callers : Trying(e)' \subseteq Trying(e)
    BY <1>2, <1>6 DEF Trying
  <2> QED BY <1>6, <2>1, <2>2, RoomShrinks DEF RoomLeft
<1>8. Recorded'
  <2>1. \A e \in Doormen : request[e].at = "record" => request'[e] = request[e]
    BY <1>0, <1>6
  <2>2. \A e \in Callers : \A n \in Counted(e) : n \in DOMAIN attempts[e] /\ attempts[e][n] \in Nat
    BY DEF DInv, DoorTypeOK, Failures, Counted
  <2>3. doorNow' >= doorNow /\ doorNow' \in Nat
    BY <1>0, <1>1
  <2>4. \A e \in Callers : \A n \in DOMAIN guesses'[e] :
           n \in DOMAIN guesses[e] /\ guesses'[e][n] = guesses[e][n]
    BY <1>3, <1>4
  <2>5. \A e \in Callers : \A n \in RecentGuesses(e)' : n \in Counted(e) =>
           n \in DOMAIN attempts'[e] /\ attempts[e][n] <= attempts'[e][n] /\ attempts'[e][n] \in Nat
    BY <1>3, <1>4, <2>2 DEF RecentGuesses
  <2> QED BY <2>1, <2>3, <2>4, <2>5, RecordedKept
<1> QED BY <1>6, <1>7, <1>8 DEF DInv

\* A new process serves nobody and has no failures on record.
LEMMA RestartDInv ==
    ASSUME DInv, NEW d \in Doormen, RestartProcess(d)
    PROVE  DInv'
<1>1. /\ request' = [e \in Doormen |-> NoRequest]
      /\ attempts' = [c \in Callers |-> NoFailures]
      /\ guesses' = [c \in Callers |-> NoFailures]
      /\ doorNow' = doorNow /\ arrived' = arrived
  BY DEF RestartProcess
<1>2. DOMAIN NoFailures = {}
  BY DEF NoFailures
<1>3. DoorTypeOK'
  <2>1. doorNow' \in Nat /\ arrived' \in Nat
    BY <1>1 DEF DInv, DoorTypeOK
  <2>2. request' \in [Doormen -> DoorRequests]
    BY <1>1, NoRequestFacts
  <2>3. \A e \in Doormen : Entered(request'[e], arrived')
    BY <1>1, NoRequestFacts DEF Entered
  <2>4. attempts' = [c \in Callers |-> attempts'[c]] /\ guesses' = [c \in Callers |-> guesses'[c]]
    BY <1>1
  <2>5. \A c \in Callers : Failures(attempts[c])' /\ Failures(guesses[c])'
    BY <1>1, <1>2 DEF Failures
  <2> QED BY <2>1, <2>2, <2>3, <2>4, <2>5 DEF DoorTypeOK
<1>4. RoomLeft'
  <2>1. \A c \in Callers : Counted(c)' \subseteq Counted(c)
    BY <1>1, <1>2 DEF Counted
  <2>2. \A c \in Callers : Trying(c)' \subseteq Trying(c)
    BY <1>1, NoRequestFacts DEF Trying
  <2> QED BY <1>3, <2>1, <2>2, RoomShrinks DEF RoomLeft
<1>5. Recorded'
  BY <1>1, <1>2 DEF Recorded, RecentGuesses
<1> QED BY <1>3, <1>4, <1>5 DEF DInv

LEMMA DoorTickDInv ==
    ASSUME DInv, DoorTick
    PROVE  DInv'
<1>1. /\ doorNow \in Nat /\ doorNow' = doorNow + 1
      /\ request' = request /\ attempts' = attempts /\ guesses' = guesses /\ arrived' = arrived
  BY DEF DoorTick, DInv, DoorTypeOK
<1>2. \A c \in Callers : Failures(attempts[c])' /\ Failures(guesses[c])'
  <2> SUFFICES ASSUME NEW c \in Callers PROVE Failures(attempts[c])' /\ Failures(guesses[c])'
    OBVIOUS
  <2>1. Failures(attempts[c]) /\ Failures(guesses[c])
    BY DEF DInv, DoorTypeOK
  <2> QED BY <1>1, <2>1 DEF Failures
<1>3. DoorTypeOK'
  BY <1>1, <1>2 DEF DInv, DoorTypeOK
<1>4. RoomLeft'
  <2>1. \A c \in Callers : Counted(c)' \subseteq Counted(c)
    BY <1>1, DoorAssumption DEF Counted, DInv, DoorTypeOK, Failures
  <2>2. \A c \in Callers : Trying(c)' \subseteq Trying(c)
    BY <1>1 DEF Trying
  <2> QED BY <1>3, <2>1, <2>2, RoomShrinks DEF RoomLeft
<1>5. Recorded'
  <2>1. \A e \in Doormen : request'[e] = request[e]
    BY <1>1
  <2>2. \A c \in Callers : \A n \in Counted(c) :
           n \in DOMAIN attempts'[c] /\ attempts[c][n] <= attempts'[c][n] /\ attempts'[c][n] \in Nat
    BY <1>1 DEF DInv, DoorTypeOK, Failures, Counted
  <2>3. doorNow' >= doorNow /\ doorNow' \in Nat
    BY <1>1
  <2>4. \A c \in Callers : \A n \in DOMAIN guesses'[c] :
              n \in DOMAIN guesses[c] /\ guesses'[c][n] = guesses[c][n]
    BY <1>1
  <2> QED BY <2>1, <2>2, <2>3, <2>4, RecordedKept
<1> QED BY <1>3, <1>4, <1>5 DEF DInv

\* A request is answered, or goes to a step where nothing is tried.
LEMMA AnswerMoves ==
    ASSUME DInv, NEW d \in Doormen, Answer(d), request[d].at # "record",
           UNCHANGED <<doorNow, attempts, arrived, guesses>>
    PROVE  DInv'
<1>1. /\ NoRequest \in DoorRequests /\ Entered(NoRequest, arrived')
      /\ request' = [request EXCEPT ![d] = NoRequest]
      /\ NoRequest.at \notin {"test", "rekey", "record"}
  BY NoRequestFacts DEF Answer, Entered
<1>2. arrived' \in Nat /\ arrived <= arrived'
  BY DEF DInv, DoorTypeOK
<1> QED BY <1>1, <1>2, DoorMoves

LEMMA NoneArrives ==
    ASSUME DInv, UNCHANGED arrived
    PROVE  arrived' \in Nat /\ arrived <= arrived'
BY DEF DInv, DoorTypeOK

LEMMA GotoMoves ==
    ASSUME DInv, NEW d \in Doormen, request[d].at \notin {"", "record"},
           NEW s \in {"init", "owner", "rate", "rekey", "clear", "session", "lock", "restart"},
           s = "rekey" => request[d].at = "test",
           Goto(d, s), UNCHANGED <<doorNow, attempts, arrived, guesses>>
    PROVE  DInv'
<1> DEFINE y == [request[d] EXCEPT !.at = s]
<1>1. request[d] \in DoorRequests /\ Entered(request[d], arrived) /\ arrived \in Nat
  BY Serving
<1>2. y \in DoorRequests /\ Entered(y, arrived) /\ y.at = s /\ y.caller = request[d].caller
  <2>1. s \in Steps /\ request[d].at # ""
    BY DEF Steps
  <2> QED BY <1>1, <2>1, NextStep
<1>3. request' = [request EXCEPT ![d] = y]
  BY DEF Goto
<1> HIDE DEF y
<1>4. Entered(y, arrived')
  BY <1>2
<1>5. y.at \in {"test", "rekey", "record"} =>
              request[d].at \in {"test", "rekey", "record"} /\ y.caller = request[d].caller
  BY <1>2
<1> QED BY <1>2, <1>3, <1>4, <1>5, NoneArrives, DoorMoves

LEMMA ArriveDInv ==
    ASSUME DInv, NEW d \in Doormen, Arrive(d)
    PROVE  DInv'
<1> DEFINE s(k) == CASE k = "init" -> "init"
                     [] k = "owner" -> "owner"
                     [] k \in {"unlock", "rotate"} -> "rate"
                     [] OTHER -> "lock"
           y(k, c, p, q) == [kind |-> k, caller |-> c, pw |-> p, new |-> q, n |-> arrived + 1,
                             at |-> s(k)]
<1>0. arrived' = arrived + 1 /\ request[d] = NoRequest /\ UNCHANGED <<doorNow, attempts, guesses>>
  BY DEF Arrive
<1>1. PICK k \in Kinds, c \in Callers, p, q \in Passwords :
           /\ k \in {"owner", "lock", "restart"} => p = q
           /\ k # "rotate" => p = q
           /\ request' = [request EXCEPT ![d] = y(k, c, p, q)]
  BY Zenon DEF Arrive
<1>2. s(k) \in {"init", "owner", "rate", "lock"}
  OBVIOUS
<1>3. arrived \in Nat
  BY DEF DInv, DoorTypeOK
<1> HIDE DEF s
<1>4. /\ y(k, c, p, q) \in DoorRequests /\ y(k, c, p, q).at = s(k)
      /\ y(k, c, p, q).caller = c /\ y(k, c, p, q).n = arrived + 1
  <2>1. s(k) \in Steps \cup {""}
    BY <1>2 DEF Steps
  <2>2. arrived + 1 \in Nat
    BY <1>3
  <2> QED BY <2>1, <2>2 DEF DoorRequests
<1> HIDE DEF y
<1>5. Entered(y(k, c, p, q), arrived')
  <2>1. y(k, c, p, q).n <= arrived'
    <3>1. y(k, c, p, q).n = arrived'
      BY <1>0, <1>4
    <3>2. arrived' \in Nat
      BY <1>0, <1>3
    <3> QED BY <3>1, <3>2
  <2> QED BY <1>4, <2>1 DEF Entered
<1>6. arrived' \in Nat /\ arrived <= arrived'
  BY <1>0, <1>3
<1>7. request[d].at # "record"
  BY <1>0, NoRequestFacts
<1>8. y(k, c, p, q).at \notin {"test", "rekey", "record"}
  BY <1>2, <1>4
<1> QED BY <1>0, <1>1, <1>4, <1>5, <1>6, <1>7, <1>8, DoorMoves

LEMMA DoorNextDInv == DInv /\ [DoorNext]_doorVars => DInv'
<1> SUFFICES ASSUME DInv, [DoorNext]_doorVars PROVE DInv'
  OBVIOUS
<1>1. ASSUME NEW d \in Doormen, Arrive(d) PROVE DInv'
  BY <1>1, ArriveDInv
<1>2. ASSUME NEW d \in Doormen, InitVault(d) PROVE DInv'
  <2>1. request[d].at = "init" /\ UNCHANGED <<doorNow, attempts, arrived, guesses>>
    BY <1>2 DEF InitVault
  <2>2. Answer(d) \/ Goto(d, "session")
    BY <1>2 DEF InitVault
  <2> QED BY <2>1, <2>2, AnswerMoves, GotoMoves
<1>3. ASSUME NEW d \in Doormen, DeviceOwner(d) PROVE DInv'
  <2>1. request[d].at = "owner" /\ UNCHANGED <<doorNow, attempts, arrived, guesses>>
    BY <1>3 DEF DeviceOwner
  <2>2. Answer(d) \/ Goto(d, "session")
    BY <1>3 DEF DeviceOwner
  <2> QED BY <2>1, <2>2, AnswerMoves, GotoMoves
<1>4. ASSUME NEW d \in Doormen, CheckRate(d) PROVE DInv'
  BY <1>4, CheckRateDInv
<1>5. ASSUME NEW d \in Doormen, Test(d) PROVE DInv'
  <2>1. request[d].at = "test" /\ UNCHANGED <<doorNow, attempts, arrived>>
    BY <1>5 DEF Test
  <2>2. CASE password = ""
    <3>1. Answer(d) /\ UNCHANGED guesses
      BY <1>5, <2>2 DEF Test
    <3> QED BY <2>1, <3>1, AnswerMoves
  <2>3. CASE password # "" /\ request[d].pw = password
    <3>1. (Goto(d, "rekey") \/ Goto(d, "clear")) /\ UNCHANGED guesses
      BY <1>5, <2>3 DEF Test
    <3> QED BY <2>1, <3>1, GotoMoves
  <2>4. CASE password # "" /\ request[d].pw # password
    <3>1. /\ Goto(d, "record")
          /\ guesses' = [guesses EXCEPT ![request[d].caller] = Failed(@, request[d].n)]
      BY <1>5, <2>4 DEF Test
    <3> QED BY <2>1, <3>1, GuessDInv
  <2> QED BY <2>2, <2>3, <2>4
<1>6. ASSUME NEW d \in Doormen, Record(d) PROVE DInv'
  BY <1>6, RecordDInv
<1>7. ASSUME NEW d \in Doormen, Rekey(d) PROVE DInv'
  <2>1. request[d].at = "rekey" /\ UNCHANGED <<doorNow, attempts, arrived>>
    BY <1>7 DEF Rekey
  <2>2. CASE /\ Goto(d, "record")
             /\ guesses' = [guesses EXCEPT ![request[d].caller] = Failed(@, request[d].n)]
    BY <2>1, <2>2, GuessDInv
  <2>3. CASE Goto(d, "clear") /\ UNCHANGED guesses
    BY <2>1, <2>3, GotoMoves
  <2>4. CASE Answer(d) /\ UNCHANGED guesses
    BY <2>1, <2>4, AnswerMoves
  <2> QED BY <1>7, <2>2, <2>3, <2>4 DEF Rekey
<1>8. ASSUME NEW d \in Doormen, Clear(d) PROVE DInv'
  BY <1>8, ClearDInv
<1>9. ASSUME NEW d \in Doormen, OpenVaultSession(d) PROVE DInv'
  <2>1. request[d].at = "session" /\ Answer(d) /\ UNCHANGED <<doorNow, attempts, arrived, guesses>>
    BY <1>9 DEF OpenVaultSession
  <2> QED BY <2>1, AnswerMoves
<1>10. ASSUME NEW d \in Doormen, Lock(d) PROVE DInv'
  <2>1. request[d].at = "lock" /\ UNCHANGED <<doorNow, attempts, arrived, guesses>>
    BY <1>10 DEF Lock
  <2>2. Answer(d) \/ Goto(d, "restart")
    BY <1>10 DEF Lock
  <2> QED BY <2>1, <2>2, AnswerMoves, GotoMoves
<1>11. ASSUME NEW d \in Doormen, RestartProcess(d) PROVE DInv'
  BY <1>11, RestartDInv
<1>12. CASE DoorTick
  BY <1>12, DoorTickDInv
<1>13. CASE UNCHANGED doorVars
  BY <1>13 DEF doorVars, DInv, DoorTypeOK, Failures, RoomLeft, Counted, Trying, Recorded,
               RecentGuesses, Pending
<1> QED BY <1>1, <1>2, <1>3, <1>4, <1>5, <1>6, <1>7, <1>8, <1>9, <1>10, <1>11, <1>12, <1>13
        DEF DoorNext

\* The table of failed attempts and the requests that have passed the check
\* stay in the relation the limit is made of (masterPasswordRetryAfter,
\* recordMasterPasswordFailure).
THEOREM DoorInvariant == DoorSpec => []DInv
<1>1. DoorInit => DInv
  BY DoorInitDInv
<1>2. DInv /\ [DoorNext]_doorVars => DInv'
  BY DoorNextDInv
<1> QED BY <1>1, <1>2, PTL DEF DoorSpec

\* The guesses that are recent are counted by the check, or are requests that
\* still hold their place.
LEMMA DInvBounds == DInv => GuessesBounded
<1> SUFFICES ASSUME DInv, NEW c \in Callers
             PROVE  Cardinality(RecentGuesses(c)) <= GuessLimit + Cardinality(Doormen) - 1
  BY DEF GuessesBounded
<1> DEFINE f == [d \in Trying(c) |-> request[d].n]
           T == {request[d].n : d \in Trying(c)}
<1>1. IsFiniteSet(Trying(c)) /\ Cardinality(Trying(c)) \in Nat /\ Cardinality(Doormen) \in Nat
  BY TryingFinite
<1>2. IsFiniteSet(Counted(c)) /\ Cardinality(Counted(c)) \in Nat
  BY CountedFinite DEF DInv
<1>3. f \in Surjection(Trying(c), T)
  BY DEF Surjection
<1>4. IsFiniteSet(T) /\ Cardinality(T) <= Cardinality(Trying(c)) /\ Cardinality(T) \in Nat
  <2> HIDE DEF f, T
  <2>1. IsFiniteSet(T) /\ Cardinality(T) <= Cardinality(Trying(c))
    BY <1>1, <1>3, FS_Surjection
  <2> QED BY <2>1, FS_CardinalityType
<1>5. RecentGuesses(c) \subseteq Counted(c) \cup T
  <2> SUFFICES ASSUME NEW n \in RecentGuesses(c), n \notin Counted(c)
               PROVE  n \in T
    OBVIOUS
  <2>1. /\ guesses[c][n] \in Nat /\ guesses[c][n] + GuessWindow > doorNow /\ doorNow \in Nat
        /\ GuessWindow \in Nat
    BY DoorAssumption DEF RecentGuesses, DInv, DoorTypeOK, Failures
  <2>2. ~ (n \in DOMAIN attempts[c] /\ guesses[c][n] <= attempts[c][n])
    <3> SUFFICES ASSUME n \in DOMAIN attempts[c], guesses[c][n] <= attempts[c][n]
                 PROVE  FALSE
      OBVIOUS
    <3>1. attempts[c][n] \in Nat
      BY DEF DInv, DoorTypeOK, Failures
    <3> QED BY <2>1, <3>1 DEF Counted
  <2>3. Pending(c, n)
    BY <2>2 DEF DInv, Recorded
  <2> QED BY <2>3 DEF Pending, Trying
<1> HIDE DEF T
<1>6. /\ IsFiniteSet(Counted(c) \cup T)
      /\ Cardinality(Counted(c) \cup T) <= Cardinality(Counted(c)) + Cardinality(T)
      /\ Cardinality(Counted(c) \cup T) \in Nat
  <2>1. /\ IsFiniteSet(Counted(c) \cup T)
        /\ Cardinality(Counted(c) \cup T)
             = Cardinality(Counted(c)) + Cardinality(T) - Cardinality(Counted(c) \cap T)
    BY <1>2, <1>4, FS_Union
  <2>2. Counted(c) \cap T \in SUBSET T
    OBVIOUS
  <2>3. Cardinality(Counted(c) \cap T) \in Nat /\ Cardinality(Counted(c) \cup T) \in Nat
    BY <1>4, <2>1, <2>2, FS_Subset, FS_CardinalityType
  <2> QED BY <1>2, <1>4, <2>1, <2>3
<1>7. /\ Cardinality(RecentGuesses(c)) <= Cardinality(Counted(c) \cup T)
      /\ Cardinality(RecentGuesses(c)) \in Nat
  <2>1. RecentGuesses(c) \in SUBSET (Counted(c) \cup T)
    BY <1>5
  <2> QED BY <1>6, <2>1, FS_Subset, FS_CardinalityType
<1>8. Cardinality(Counted(c)) + Cardinality(Trying(c)) <= GuessLimit + Cardinality(Doormen) - 1
  BY DEF DInv, RoomLeft
<1> QED BY <1>1, <1>2, <1>4, <1>6, <1>7, <1>8, DoorAssumption

\* However many requests test passwords at once, a caller has no more wrong ones
\* tested within a window than the limit and one for each other goroutine: no
\* interleaving of check, test and record in vault/unlock and
\* vault/master-password lets another through.
THEOREM GuessesLimited == DoorSpec => []GuessesBounded
BY DoorInvariant, DInvBounds, PTL

-----------------------------------------------------------------------------
(* Tools of agents *)

\* Tokens that were issued, or none.
Known == {Tokenless} \cup 1..lastToken

ToolAnswers == {Tokenless, "ok", "locked", "disabled", "stale", "unreachable", "unmanaged", "lease required"}

ToolCalls == [at : {"idle", "answered", "vault", "token", "resolve", "open", "bind", "authorize"},
          tool : DOMAIN Tools \cup {Tokenless}, root : Roots \cup {Tokenless},
          source : {Tokenless, "explicit", "inherited"}, token : Known,
          wants : BOOLEAN, answer : ToolAnswers]

\* A call is about one of the roots; it has an answer when it is answered, and
\* was let through on a token with which a lease was asked for.
CallOK(x) ==
    /\ x \in ToolCalls
    /\ x.at # "idle" => x.root \in Roots
    /\ x.at \notin {"idle", "answered"} => x.answer = Tokenless
    /\ x.answer = "stale" => x.source = "explicit"
    /\ x.answer = "ok" => x.token \in agreed \/ Tools[x.tool] \notin {"lease", "writes"}

ToolTypeOK ==
    /\ lastToken \in Nat
    /\ DOMAIN daemonSessions \subseteq 1..lastToken
    /\ call = [c \in Connections |-> call[c]]
    /\ remembered \in [Connections -> [Roots -> Known]]
    /\ inherited \in [Connections -> Known]

\* A remembered token that the daemon knows is one of the project it is
\* remembered for.
RememberedOK ==
    \A c \in Connections : \A r \in Roots :
        remembered[c][r] \in DOMAIN daemonSessions => daemonSessions[remembered[c][r]] = r

\* A lease belongs to a token with which one was asked for.
ToolInv ==
    /\ ToolTypeOK
    /\ \A c \in Connections : CallOK(call[c])
    /\ leases \subseteq agreed
    /\ RememberedOK

LEMMA NoCallOK ==
    ASSUME NEW tool \in DOMAIN Tools \cup {Tokenless}, NEW root \in Roots \cup {Tokenless},
           NEW wants \in BOOLEAN, NEW at \in {"idle", "answered", "vault"}, NEW answer \in {Tokenless, "ok"},
           at # "idle" => root \in Roots, at = "vault" => answer = Tokenless,
           answer = "ok" => Tools[tool] = "open"
    PROVE  CallOK([NoCall EXCEPT !.tool = tool, !.root = root, !.wants = wants, !.at = at, !.answer = answer])
BY ToolsAssumption, ZenonT(30) DEF CallOK, ToolCalls, NoCall, ToolAnswers, Known

LEMMA ToolsInitToolInv == ToolsInit => ToolInv
<1> SUFFICES ASSUME ToolsInit PROVE ToolInv
  OBVIOUS
<1>1. lastToken = 1 /\ leases = {} /\ agreed = {} /\ call = [c \in Connections |-> NoCall]
      /\ remembered = [c \in Connections |-> [r \in Roots |-> Tokenless]]
      /\ inherited \in [Connections -> {Tokenless, 1}]
  BY DEF ToolsInit
<1>2. DOMAIN daemonSessions \subseteq {1}
  <2>1. CASE daemonSessions = <<>>
    <3>1. DOMAIN daemonSessions = 1..0
      BY <2>1
    <3> QED BY <3>1
  <2>2. CASE daemonSessions \in [{1} -> Roots]
    BY <2>2
  <2> QED BY <2>1, <2>2 DEF ToolsInit
<1>3. CallOK(NoCall)
  BY ToolsAssumption DEF CallOK, NoCall, ToolCalls, ToolAnswers, Known
<1>4. 1 \in Known /\ Tokenless \in Known /\ {1} \subseteq 1..lastToken
  BY <1>1 DEF Known
<1>5. ToolTypeOK
  BY <1>1, <1>2, <1>4 DEF ToolTypeOK
<1>6. RememberedOK
  BY <1>1, <1>2, ToolsAssumption DEF RememberedOK
<1> QED BY <1>1, <1>3, <1>5, <1>6 DEF ToolInv

\* The call of one connection moves on, and sessions and tokens stay.
LEMMA CallMoves ==
    ASSUME ToolInv, NEW c \in Connections, NEW x, CallOK(x)', call' = [call EXCEPT ![c] = x],
           lastToken' = lastToken, inherited' = inherited, agreed \subseteq agreed',
           leases' \subseteq agreed', ToolTypeOK', RememberedOK'
    PROVE  ToolInv'
<1>1. ASSUME NEW d \in Connections, d # c PROVE CallOK(call[d])'
  <2>1. call'[d] = call[d] /\ CallOK(call[d])
    BY <1>1 DEF ToolInv, ToolTypeOK
  <2> QED BY <2>1 DEF CallOK, ToolCalls, Known
<1>2. call'[c] = x
  BY DEF ToolInv, ToolTypeOK
<1> QED BY <1>1, <1>2 DEF ToolInv

\* And what is remembered stays too.
LEMMA CallMovesAlone ==
    ASSUME ToolInv, NEW c \in Connections, NEW x, CallOK(x), call' = [call EXCEPT ![c] = x],
           UNCHANGED <<daemonSessions, inherited, remembered, lastToken, leases, agreed>>
    PROVE  ToolInv'
<1>1. CallOK(x)'
  BY DEF CallOK, ToolCalls, Known
<1>2. ToolTypeOK'
  BY DEF ToolInv, ToolTypeOK, Known
<1>3. RememberedOK'
  BY DEF ToolInv, RememberedOK
<1>4. leases' \subseteq agreed' /\ agreed \subseteq agreed'
  BY DEF ToolInv
<1> QED BY <1>1, <1>2, <1>3, <1>4, CallMoves

\* The call of c, and how it may go on.
LEMMA CallFacts ==
    ASSUME ToolInv, NEW c \in Connections
    PROVE  /\ CallOK(call[c]) /\ call[c] \in ToolCalls
           /\ \A r : Become(c, r) <=> call' = [call EXCEPT ![c] = r]
BY DEF ToolInv, CallOK, Become

LEMMA Replies ==
    ASSUME ToolInv, NEW c \in Connections, NEW a \in ToolAnswers, call[c].at # "idle",
           a = "stale" => call[c].source = "explicit",
           a = "ok" => call[c].token \in agreed \/ Tools[call[c].tool] \notin {"lease", "writes"}
    PROVE  CallOK([call[c] EXCEPT !.at = "answered", !.answer = a])
<1>1. CallOK(call[c])
  BY CallFacts
<1> QED BY <1>1, ToolsAssumption DEF CallOK, ToolCalls

LEMMA Proceeds ==
    ASSUME ToolInv, NEW c \in Connections, NEW at \in {"token", "resolve", "open", "bind", "authorize"},
           call[c].at \notin {"idle", "answered"}, NEW source \in {Tokenless, "explicit", "inherited"},
           NEW token \in Known
    PROVE  /\ CallOK([call[c] EXCEPT !.at = at])
           /\ CallOK([call[c] EXCEPT !.at = at, !.token = token])
           /\ CallOK([call[c] EXCEPT !.source = source, !.token = token, !.at = at])
<1>1. CallOK(call[c]) /\ call[c].answer = Tokenless /\ Tokenless \notin {"stale", "ok"}
  BY CallFacts, ToolsAssumption DEF CallOK
<1> QED BY <1>1, ZenonT(30) DEF CallOK, ToolCalls

LEMMA CallToolInv ==
    ASSUME ToolInv, NEW c \in Connections, NEW tool \in DOMAIN Tools, NEW root \in Roots,
           NEW wants \in BOOLEAN, callTool(c, tool, root, wants)
    PROVE  ToolInv'
<1> DEFINE at == IF Tools[tool] = "open" THEN "answered" ELSE "vault"
           answer == IF Tools[tool] = "open" THEN "ok" ELSE Tokenless
           x == [NoCall EXCEPT !.tool = tool, !.root = root, !.wants = wants, !.at = at, !.answer = answer]
<1>1. call' = [call EXCEPT ![c] = x]
      /\ UNCHANGED <<daemonSessions, inherited, remembered, lastToken, leases, agreed>>
  BY DEF callTool, Become
<1>2. at \in {"idle", "answered", "vault"} /\ answer \in {Tokenless, "ok"}
      /\ at # "idle" /\ (at = "vault" => answer = Tokenless) /\ (answer = "ok" => Tools[tool] = "open")
  BY ToolsAssumption
<1> HIDE DEF at, answer
<1>3. CallOK(x)
  BY <1>2, NoCallOK, Zenon
<1> HIDE DEF x
<1> QED BY <1>1, <1>3, CallMovesAlone

LEMMA OpenHandleInv ==
    ASSUME ToolInv, NEW c \in Connections, NEW opens \in BOOLEAN, openHandle(c, opens)
    PROVE  ToolInv'
<1>1. call[c].at = "vault" /\ UNCHANGED <<daemonSessions, inherited, remembered, lastToken, leases, agreed>>
  BY DEF openHandle
<1>2. \/ call' = [call EXCEPT ![c] = [call[c] EXCEPT !.at = "answered", !.answer = "locked"]]
      \/ call' = [call EXCEPT ![c] = [call[c] EXCEPT !.at = "answered", !.answer = "disabled"]]
      \/ call' = [call EXCEPT ![c] = [call[c] EXCEPT !.at = "token"]]
  BY DEF openHandle, Reply, Become
<1>3. /\ CallOK([call[c] EXCEPT !.at = "answered", !.answer = "locked"])
      /\ CallOK([call[c] EXCEPT !.at = "answered", !.answer = "disabled"])
  BY <1>1, Replies, Zenon DEF ToolAnswers
<1>4. CallOK([call[c] EXCEPT !.at = "token"])
  BY <1>1, Proceeds, Zenon DEF Known
<1> QED BY <1>1, <1>2, <1>3, <1>4, CallMovesAlone

LEMMA ChooseTokenInv ==
    ASSUME ToolInv, NEW c \in Connections, NEW given \in {Tokenless} \cup 1..lastToken,
           mcpSessionToken(c, given)
    PROVE  ToolInv'
<1>1. call[c].at = "token" /\ UNCHANGED <<daemonSessions, inherited, remembered, lastToken, leases, agreed>>
  BY DEF mcpSessionToken
<1>2. call[c].root \in Roots
  BY <1>1, CallFacts DEF CallOK
<1>3. remembered[c][call[c].root] \in Known /\ inherited[c] \in Known /\ given \in Known
  BY <1>2 DEF ToolInv, ToolTypeOK, Known
<1>4. PICK source \in {"explicit", "inherited"}, token \in Known, at \in {"open", "resolve"} :
         call' = [call EXCEPT ![c] = [call[c] EXCEPT !.source = source, !.token = token, !.at = at]]
  BY <1>3 DEF mcpSessionToken, Become
<1>5. CallOK([call[c] EXCEPT !.source = source, !.token = token, !.at = at])
  BY <1>1, Proceeds, Zenon
<1> QED BY <1>1, <1>4, <1>5, CallMovesAlone

\* A connection remembers a token for the project of its call, or forgets one.
LEMMA Remembers ==
    ASSUME ToolInv, NEW c \in Connections, call[c].root \in Roots, NEW token \in Known, Remember(c, token),
           UNCHANGED <<daemonSessions, inherited, lastToken>>, call' = [d \in Connections |-> call'[d]],
           token \in DOMAIN daemonSessions => daemonSessions[token] = call[c].root
    PROVE  ToolTypeOK' /\ RememberedOK'
<1>1. CASE remembered' = remembered
  BY <1>1 DEF ToolInv, ToolTypeOK, RememberedOK, Known
<1>2. CASE remembered' = [remembered EXCEPT ![c][call[c].root] = token]
  <2>1. remembered \in [Connections -> [Roots -> Known]]
    BY DEF ToolInv, ToolTypeOK
  <2>2. \A d \in Connections : \A r \in Roots :
          remembered'[d][r] = IF d = c /\ r = call[c].root THEN token ELSE remembered[d][r]
    BY <1>2, <2>1
  <2>3. remembered' \in [Connections -> [Roots -> Known]]
    BY <1>2, <2>1
  <2>4. ToolTypeOK'
    BY <2>3 DEF ToolInv, ToolTypeOK, Known
  <2>5. RememberedOK'
    BY <2>2 DEF ToolInv, RememberedOK
  <2> QED BY <2>4, <2>5
<1> QED BY <1>1, <1>2 DEF Remember

LEMMA EnsureSessionInv ==
    ASSUME ToolInv, NEW c \in Connections, EnsureSession(c)
    PROVE  ToolInv'
<1> DEFINE k == call[c]
<1>0. /\ k.at = "resolve" /\ UNCHANGED <<daemonSessions, inherited, lastToken, leases, agreed>>
      /\ k.root \in Roots /\ k.token \in Known /\ Tokenless \in Known
  BY CallFacts DEF EnsureSession, CallOK, ToolCalls, Known
<1>1. ASSUME NEW x, CallOK(x), call' = [call EXCEPT ![c] = x], NEW token \in Known, Remember(c, token),
             token \in DOMAIN daemonSessions => daemonSessions[token] = k.root
      PROVE  ToolInv'
  <2>1. call' = [d \in Connections |-> call'[d]]
    BY <1>1 DEF ToolInv, ToolTypeOK
  <2>2. ToolTypeOK' /\ RememberedOK'
    BY <1>0, <1>1, <2>1, Remembers
  <2>3. CallOK(x)'
    BY <1>0, <1>1 DEF CallOK, ToolCalls, Known
  <2>4. leases' \subseteq agreed' /\ agreed \subseteq agreed'
    BY <1>0 DEF ToolInv
  <2> QED BY <1>0, <1>1, <2>2, <2>3, <2>4, CallMoves
<1>2. CASE Serves(k.token, k.root) /\ Become(c, [k EXCEPT !.at = "bind"]) /\ Remember(c, k.token)
  <2>1. CallOK([k EXCEPT !.at = "bind"])
    BY <1>0, Proceeds, Zenon
  <2> QED BY <1>0, <1>1, <1>2, <2>1 DEF Serves, Become
<1>3. CASE Become(c, [k EXCEPT !.at = "open", !.token = Tokenless]) /\ Remember(c, Tokenless)
  <2>1. CallOK([k EXCEPT !.at = "open", !.token = Tokenless])
    BY <1>0, Proceeds, Zenon
  <2>2. Tokenless \notin DOMAIN daemonSessions
    BY ToolsAssumption DEF ToolInv, ToolTypeOK
  <2> QED BY <1>0, <1>1, <1>3, <2>1, <2>2 DEF Become
<1>4. CASE /\ ~Serves(k.token, k.root)
           /\ k.source = "explicit" \/ ~isRecoverableInheritedSessionError(k.token, k.root)
           /\ Reply(c, "stale") /\ UNCHANGED remembered
  <2>1. k.source = "explicit"
    BY <1>4 DEF Serves, isRecoverableInheritedSessionError
  <2>2. CallOK([k EXCEPT !.at = "answered", !.answer = "stale"])
    BY <1>0, <2>1, Replies, Zenon DEF ToolAnswers
  <2> QED BY <1>0, <1>4, <2>2, CallMovesAlone DEF Reply, Become
<1> QED BY <1>2, <1>3, <1>4 DEF EnsureSession

\* A token that was never issued is remembered for no project.
LEMMA OpenSessionInv ==
    ASSUME ToolInv, NEW c \in Connections, OpenProjectSession(c)
    PROVE  ToolInv'
<1> DEFINE k == call[c]
           t == lastToken + 1
           x == [k EXCEPT !.at = "bind", !.token = t]
<1>0. /\ k.at = "open" /\ UNCHANGED <<inherited, leases, agreed>> /\ lastToken \in Nat
      /\ lastToken' = t /\ call' = [call EXCEPT ![c] = x] /\ k.root \in Roots
      /\ daemonSessions' = [s \in DOMAIN daemonSessions \cup {t} |->
                               IF s = t THEN k.root ELSE daemonSessions[s]]
      /\ Remember(c, t) /\ k \in ToolCalls /\ CallOK(k)
  BY CallFacts DEF OpenProjectSession, Become, CallOK, ToolInv, ToolTypeOK
<1>1. t \notin Known /\ Known \subseteq Known' /\ t \in Known' /\ t \in Nat
  BY <1>0, ToolsAssumption DEF Known
<1>2. ASSUME NEW y, y = x PROVE CallOK(y)'
  <2>1. k.answer = Tokenless /\ Tokenless \notin {"stale", "ok"}
    BY <1>0, ToolsAssumption DEF CallOK
  <2>2. y \in ToolCalls'
    BY <1>0, <1>1, <1>2 DEF ToolCalls
  <2>3. y.answer = Tokenless /\ y.root = k.root /\ y.at = "bind"
    BY <1>0, <1>2, <2>1 DEF ToolCalls
  <2> HIDE DEF x, k
  <2> QED BY <1>0, <2>1, <2>2, <2>3 DEF CallOK
<1>3. ASSUME NEW d \in Connections, d # c PROVE CallOK(call[d])'
  <2>1. call'[d] = call[d] /\ CallOK(call[d]) /\ agreed' = agreed
    BY <1>0, <1>3 DEF ToolInv, ToolTypeOK
  <2>2. call'[d] \in ToolCalls'
    BY <1>1, <2>1 DEF CallOK, ToolCalls
  <2> HIDE DEF x, k
  <2> QED BY <2>1, <2>2 DEF CallOK
<1>4. /\ remembered \in [Connections -> [Roots -> Known]]
      /\ remembered' \in [Connections -> [Roots -> Known']]
      /\ \A d \in Connections : \A r \in Roots :
           \/ remembered'[d][r] = remembered[d][r]
           \/ d = c /\ r = k.root /\ remembered'[d][r] = t
  <2>1. remembered \in [Connections -> [Roots -> Known]]
    BY DEF ToolInv, ToolTypeOK
  <2>2. CASE remembered' = remembered
    BY <1>1, <2>1, <2>2
  <2>3. CASE remembered' = [remembered EXCEPT ![c][k.root] = t]
    <3> HIDE DEF k, t
    <3>1. \A d \in Connections : \A r \in Roots :
            remembered'[d][r] = IF d = c /\ r = k.root THEN t ELSE remembered[d][r]
      BY <2>1, <2>3
    <3>2. remembered' \in [Connections -> [Roots -> Known']]
      BY <1>1, <2>1, <2>3
    <3> QED BY <2>1, <3>1, <3>2
  <2> QED BY <1>0, <2>2, <2>3 DEF Remember
<1>5. ToolTypeOK'
  <2>1. DOMAIN daemonSessions' \subseteq 1..lastToken'
    BY <1>0 DEF ToolInv, ToolTypeOK
  <2>2. call' = [d \in Connections |-> call'[d]]
    BY <1>0 DEF ToolInv, ToolTypeOK
  <2>3. inherited' \in [Connections -> Known']
    BY <1>0, <1>1 DEF ToolInv, ToolTypeOK
  <2> QED BY <1>0, <1>1, <1>4, <2>1, <2>2, <2>3 DEF ToolTypeOK
<1>6. RememberedOK'
  <2> SUFFICES ASSUME NEW d \in Connections, NEW r \in Roots, remembered'[d][r] \in DOMAIN daemonSessions'
               PROVE  daemonSessions'[remembered'[d][r]] = r
    BY DEF RememberedOK
  <2>1. CASE r = k.root /\ remembered'[d][r] = t
    BY <1>0, <2>1
  <2>2. CASE remembered'[d][r] = remembered[d][r]
    <3>1. remembered[d][r] \in Known
      BY <1>4
    <3>2. remembered[d][r] \in DOMAIN daemonSessions /\ remembered[d][r] # t
      BY <1>0, <1>1, <2>2, <3>1
    <3>3. daemonSessions[remembered[d][r]] = r
      BY <3>2 DEF ToolInv, RememberedOK
    <3> QED BY <1>0, <2>2, <3>2, <3>3
  <2> QED BY <1>4, <2>1, <2>2
<1>7. CallOK(call[c])'
  <2>1. call'[c] = x
    BY <1>0 DEF ToolInv, ToolTypeOK
  <2> HIDE DEF x
  <2> QED BY <1>2, <2>1
<1>8. leases' \subseteq agreed'
  BY <1>0 DEF ToolInv
<1> QED BY <1>3, <1>5, <1>6, <1>7, <1>8 DEF ToolInv

LEMMA NoDaemonInv ==
    ASSUME ToolInv, NEW c \in Connections, NoDaemon(c)
    PROVE  ToolInv'
<1>1. CallOK([call[c] EXCEPT !.at = "answered", !.answer = "unreachable"])
  BY Replies, Zenon DEF NoDaemon, ToolAnswers
<1> QED BY <1>1, CallMovesAlone DEF NoDaemon, Reply, Become

LEMMA BindingInv ==
    ASSUME ToolInv, NEW c \in Connections, NEW bound \in BOOLEAN, ensureProjectBindingMCP(c, bound)
    PROVE  ToolInv'
<1>1. call[c].at = "bind" /\ UNCHANGED <<daemonSessions, inherited, remembered, lastToken, leases, agreed>>
  BY DEF ensureProjectBindingMCP
<1>2. CallOK([call[c] EXCEPT !.at = "answered", !.answer = "unmanaged"])
  BY <1>1, Replies, Zenon DEF ToolAnswers
<1>3. Tools[call[c].tool] = "session" => CallOK([call[c] EXCEPT !.at = "answered", !.answer = "ok"])
  BY <1>1, Replies, Zenon DEF ToolAnswers
<1>4. CallOK([call[c] EXCEPT !.at = "authorize"])
  BY <1>1, Proceeds, Zenon DEF Known
<1> QED BY <1>1, <1>2, <1>3, <1>4, CallMovesAlone DEF ensureProjectBindingMCP, Reply, Become

\* A lease lets the call through that somebody asked for with its token.
LEMMA AuthorizationInv ==
    ASSUME ToolInv, NEW c \in Connections, NEW once \in BOOLEAN, requireMCPProjectAuthorization(c, once)
    PROVE  ToolInv'
<1> DEFINE k == call[c]
           held == IF k.wants THEN leases \cup {k.token} ELSE leases
<1>0. /\ k.at = "authorize" /\ UNCHANGED <<daemonSessions, inherited, remembered, lastToken>>
      /\ agreed' = IF k.wants THEN agreed \cup {k.token} ELSE agreed
      /\ leases' = IF once THEN held \ {k.token} ELSE held
      /\ IF k.token \in held THEN Reply(c, "ok") ELSE Reply(c, "lease required")
  BY DEF requireMCPProjectAuthorization
<1>1. held \subseteq agreed' /\ leases' \subseteq agreed' /\ agreed \subseteq agreed'
  BY <1>0 DEF ToolInv
<1>2. k \in ToolCalls /\ CallOK(k) /\ Tokenless \notin {"stale", "ok"}
  BY CallFacts, ToolsAssumption
<1>3. PICK a, x :
         /\ a \in {"ok", "lease required"} /\ (a = "ok" => k.token \in held)
         /\ x = [k EXCEPT !.at = "answered", !.answer = a] /\ call' = [call EXCEPT ![c] = x]
  BY <1>0 DEF Reply, Become
<1>4. CallOK(x)'
  <2>1. /\ x \in ToolCalls /\ x.at = "answered" /\ x.answer = a /\ x.token = k.token
        /\ x.root \in Roots
    BY <1>0, <1>2, <1>3 DEF CallOK, ToolCalls, ToolAnswers
  <2>2. x \in ToolCalls'
    BY <1>0, <2>1 DEF ToolCalls, Known
  <2> HIDE DEF k, held
  <2> QED BY <1>1, <1>2, <1>3, <2>1, <2>2 DEF CallOK
<1>5. ToolTypeOK' /\ RememberedOK'
  BY <1>0, <1>3 DEF ToolInv, ToolTypeOK, RememberedOK, Known
<1> QED BY <1>0, <1>1, <1>3, <1>4, <1>5, CallMoves

LEMMA SessionEndsInv ==
    ASSUME ToolInv, NEW gone, SessionEnds(gone)
    PROVE  ToolInv'
<1>1. /\ daemonSessions' = [t \in DOMAIN daemonSessions \ gone |-> daemonSessions[t]]
      /\ UNCHANGED <<inherited, remembered, call, lastToken, calls, leases, agreed>>
  BY DEF SessionEnds
<1>2. DOMAIN daemonSessions' \subseteq DOMAIN daemonSessions
      /\ \A t \in DOMAIN daemonSessions' : daemonSessions'[t] = daemonSessions[t]
  BY <1>1
<1>3. ToolTypeOK'
  BY <1>1, <1>2 DEF ToolInv, ToolTypeOK, Known
<1>4. RememberedOK'
  BY <1>1, <1>2 DEF ToolInv, RememberedOK
<1>5. \A c \in Connections : CallOK(call[c])'
  BY <1>1 DEF ToolInv, CallOK, ToolCalls, Known
<1> QED BY <1>1, <1>3, <1>4, <1>5 DEF ToolInv

LEMMA ToolsNextToolInv == ToolInv /\ [ToolsNext]_toolVars => ToolInv'
<1> SUFFICES ASSUME ToolInv, [ToolsNext]_toolVars PROVE ToolInv'
  OBVIOUS
<1>1. CASE UNCHANGED toolVars
  BY <1>1 DEF toolVars, ToolInv, ToolTypeOK, RememberedOK, CallOK, ToolCalls, Known
<1> QED BY <1>1, CallToolInv, OpenHandleInv, ChooseTokenInv, EnsureSessionInv, OpenSessionInv,
           NoDaemonInv, BindingInv, AuthorizationInv, SessionEndsInv DEF ToolsNext

\* Calls, sessions and the tokens that connections remember agree, for any
\* number of connections, projects and tools.
THEOREM ToolInvariant == ToolsSpec => []ToolInv
<1>1. ToolsInit => ToolInv
  BY ToolsInitToolInv
<1>2. ToolInv /\ [ToolsNext]_toolVars => ToolInv'
  BY ToolsNextToolInv
<1> QED BY <1>1, <1>2, PTL DEF ToolsSpec

\* A token that stands for another one carries none of its leases, and only a
\* token that the agent named is ever reported as stale.
THEOREM TokensReplaced == ToolsSpec => []StaleTokensReplaced
<1>1. ToolInv => StaleTokensReplaced
  BY DEF ToolInv, RememberedOK, CallOK, StaleTokensReplaced
<1> QED BY <1>1, ToolInvariant, PTL

-----------------------------------------------------------------------------
(***************************************************************************)
(* Backups: Backup.  A restore is all or nothing and retention keeps the   *)
(* last backup, for any number of exporters, names, passphrases and        *)
(* failures.                                                               *)
(*                                                                         *)
(* The argument for retention: let p be the last backup, and count the     *)
(* backups of the vault that are no older.  An export that lists the       *)
(* directory keeps Keep of them and removes none that is newer than one it *)
(* keeps; were p among those it removes, its Keep and p would all be no    *)
(* older than p.  So p is not removed while at most Keep are no older,     *)
(* which holds when p is written and as long as no other is written.       *)
(***************************************************************************)

\* A restore knows what it put aside, and the backup while it needs it.
RestoreFields ==
    /\ "at" \in DOMAIN restore
    /\ restore.at # "idle" => {"snapVault", "snapLog"} \subseteq DOMAIN restore
    /\ restore.at \notin {"idle", "failed"} => "file" \in DOMAIN restore

\* What vault and log hold at each place of a restore that met no trouble.
RestoredSoFar ==
    LET logOf == IF restore.file.log = <<>> THEN restore.snapLog ELSE restore.file.log
    IN  /\ restore.at \in {"vault", "rollbackLog", "failed"} => vaultFile = restore.snapVault
        /\ restore.at \in {"log", "append", "done"} => vaultFile = restore.file.vault
        /\ restore.at \in {"vault", "log", "failed"} => auditFile = restore.snapLog
        /\ restore.at = "append" => auditFile = logOf
        /\ restore.at = "done" => auditFile = Append(logOf, restore.file.dek)

RestoreOK == RestoreFields /\ (~disturbed => RestoredSoFar)

\* What an export is about, and where it is.
ExportOK(x) ==
    \/ x = IdleExport
    \/ /\ x.at \in {"read", "truncate", "write", "list", "prune", "config"}
       /\ DOMAIN x = {"at", "who", "path", "pass", "handle", "log", "drop"}
       /\ x.path \in BackupPaths

ExportsOK ==
    /\ exporter = [e \in Exporters |-> exporter[e]]
    /\ \A e \in Exporters : ExportOK(exporter[e])

\* No backup is from the future.
ShelfOK ==
    /\ clock \in Nat
    /\ shelf = [p \in BackupPaths |-> shelf[p]]
    /\ \A p \in BackupPaths : shelf[p].dek = "own" => shelf[p].mod \in Nat /\ shelf[p].mod <= clock

OwnBackups == {p \in BackupPaths : shelf[p].dek = "own"}
NoOlder(p) == {q \in OwnBackups : shelf[q].mod >= shelf[p].mod}

\* The last backup: nobody is about to prune it, and at most Keep are no older.
LastKept == \E p \in OwnBackups : p \notin AboutToPrune /\ Cardinality(NoOlder(p)) <= Keep

BackupInv == RestoreOK /\ ExportsOK /\ ShelfOK /\ (kept => LastKept)

LEMMA OwnFinite ==
    /\ IsFiniteSet(OwnBackups)
    /\ \A S \in SUBSET OwnBackups : IsFiniteSet(S) /\ Cardinality(S) \in Nat
                                    /\ \A T \in SUBSET S : Cardinality(T) <= Cardinality(S)
<1>1. OwnBackups \subseteq BackupPaths
  BY DEF OwnBackups
<1>2. IsFiniteSet(OwnBackups)
  BY <1>1, BackupAssumption, FS_Subset
<1> QED BY <1>2, FS_Subset, FS_CardinalityType

LEMMA BackupInitInv == BackupInit => BackupInv
<1> SUFFICES ASSUME BackupInit PROVE BackupInv
  OBVIOUS
<1>0. clock \in Nat /\ 0 \in Nat /\ 0 <= clock
  <2>1. clock = 1
    BY DEF BackupInit
  <2> QED BY <2>1
<1>1. RestoreOK
  BY DEF BackupInit, RestoreOK, RestoreFields, RestoredSoFar, IdleRestore
<1>2. ExportsOK
  BY DEF BackupInit, ExportsOK, ExportOK
<1>3. ShelfOK
  <2>1. PICK p \in BackupPaths, dek \in {"own", "other"}, logged \in BOOLEAN,
             sig \in TrustRoots \cup {""}, pass \in Passphrases :
           shelf = [q \in BackupPaths |-> IF q # p THEN NoBackup
                       ELSE [dek |-> dek, vault |-> [dek |-> dek, last |-> 0],
                             log |-> IF logged THEN <<dek>> ELSE <<>>, pass |-> pass, sig |-> sig, mod |-> 0]]
    BY DEF BackupInit
  <2>2. \A q \in BackupPaths : shelf[q].dek = "own" => shelf[q].mod = 0
    BY <2>1 DEF NoBackup
  <2>4. shelf = [q \in BackupPaths |-> shelf[q]]
    BY <2>1
  <2> QED BY <1>0, <2>2, <2>4 DEF ShelfOK
<1> QED BY <1>1, <1>2, <1>3 DEF BackupInv, BackupInit

\* A restore leaves exports and retention alone.
LEMMA RestoreMoves ==
    ASSUME BackupInv, UNCHANGED restoring, RestoreOK'
    PROVE  BackupInv'
<1>1. UNCHANGED <<shelf, exporter, clock, kept>>
  BY DEF restoring
<1>2. ExportsOK' /\ ShelfOK'
  BY <1>1 DEF BackupInv, ExportsOK, ShelfOK
<1>3. kept' => LastKept'
  BY <1>1 DEF BackupInv, LastKept, OwnBackups, NoOlder, AboutToPrune
<1> QED BY <1>2, <1>3 DEF BackupInv

LEMMA BeginRestore == ASSUME BackupInv, RestoreBackup PROVE BackupInv'
<1>1. PICK p \in BackupPaths :
         \/ restore' = [at |-> "snapshot", file |-> shelf[p], snapVault |-> vaultFile, snapLog |-> <<>>]
         \/ restore' = [at |-> "failed", snapVault |-> vaultFile, snapLog |-> auditFile]
  BY DEF RestoreBackup
<1>2. RestoreOK'
  BY <1>1 DEF RestoreBackup, RestoreOK, RestoreFields, RestoredSoFar
<1> QED BY <1>2, RestoreMoves DEF RestoreBackup

LEMMA SnapshotInv == ASSUME BackupInv, createPreRestoreSnapshot \/ SnapshotFailed PROVE BackupInv'
<1>1. RestoreOK'
  BY DEF BackupInv, createPreRestoreSnapshot, SnapshotFailed, RestoreOK, RestoreFields, RestoredSoFar
<1> QED BY <1>1, RestoreMoves DEF createPreRestoreSnapshot, SnapshotFailed

LEMMA RestoreProceeds == ASSUME BackupInv, RestoreVault \/ RestoreLog \/ AppendRestore PROVE BackupInv'
<1>0. RestoreFields /\ (~disturbed => RestoredSoFar)
  BY DEF BackupInv, RestoreOK
<1>1. CASE RestoreVault
  BY <1>0, <1>1, RestoreMoves DEF RestoreVault, Step, RestoreOK, RestoreFields, RestoredSoFar
<1>2. CASE RestoreLog
  BY <1>0, <1>2, RestoreMoves DEF RestoreLog, Step, RestoreOK, RestoreFields, RestoredSoFar
<1>3. CASE AppendRestore
  BY <1>0, <1>3, RestoreMoves DEF AppendRestore, Step, RestoreOK, RestoreFields, RestoredSoFar
<1> QED BY <1>1, <1>2, <1>3

LEMMA RestoreTroubles ==
    ASSUME BackupInv, RestoreFails \/ RollBackVault \/ RollBackLog \/ RestoreCrash PROVE BackupInv'
<1>0. RestoreFields /\ (~disturbed => RestoredSoFar)
  BY DEF BackupInv, RestoreOK
<1>1. CASE RestoreFails
  BY <1>0, <1>1, RestoreMoves DEF RestoreFails, Restoring, Step, RestoreOK, RestoreFields, RestoredSoFar
<1>2. CASE RollBackVault
  BY <1>0, <1>2, RestoreMoves DEF RollBackVault, Step, RestoreOK, RestoreFields, RestoredSoFar
<1>3. CASE RollBackLog
  BY <1>0, <1>3, RestoreMoves DEF RollBackLog, rollBackLog, Step, RestoreOK, RestoreFields, RestoredSoFar
<1>4. CASE RestoreCrash
  BY <1>0, <1>4, RestoreMoves DEF RestoreCrash, Restoring, Step, RestoreOK, RestoreFields, RestoredSoFar
<1> QED BY <1>1, <1>2, <1>3, <1>4

-----------------------------------------------------------------------------
(* Exports *)

\* One export moves on.
LEMMA ExportMoves ==
    ASSUME BackupInv, NEW e \in Exporters, NEW x, ExportOK(x), exporter' = [exporter EXCEPT ![e] = x]
    PROVE  /\ ExportsOK'
           /\ exporter'[e] = x /\ \A d \in Exporters : d # e => exporter'[d] = exporter[d]
           /\ x.at # "prune" => AboutToPrune' \subseteq AboutToPrune
<1>1. exporter'[e] = x /\ \A d \in Exporters : d # e => exporter'[d] = exporter[d]
  BY DEF BackupInv, ExportsOK
<1>2. \A d \in Exporters : ExportOK(exporter'[d])
  BY <1>1 DEF BackupInv, ExportsOK
<1>3. ExportsOK'
  BY <1>2 DEF BackupInv, ExportsOK, ExportOK
<1>4. x.at # "prune" => AboutToPrune' \subseteq AboutToPrune
  BY <1>1 DEF AboutToPrune
<1> QED BY <1>1, <1>3, <1>4

\* Neither vault nor log is written, and the restore stays.
LEMMA RestoreStays ==
    ASSUME BackupInv, restore' = restore,
           disturbed' = TRUE \/ UNCHANGED <<vaultFile, auditFile, disturbed>>
    PROVE  RestoreOK'
BY DEF BackupInv, RestoreOK, RestoreFields, RestoredSoFar

\* The directory stays and no more is about to be removed.
LEMMA ShelfStays ==
    ASSUME BackupInv, UNCHANGED <<shelf, kept>>, clock' \in Nat, clock' >= clock,
           AboutToPrune' \subseteq AboutToPrune
    PROVE  ShelfOK' /\ (kept' => LastKept')
<1>1. ShelfOK'
  BY DEF BackupInv, ShelfOK
<1>2. \A p : NoOlder(p)' = NoOlder(p)
  BY DEF NoOlder, OwnBackups
<1>3. kept' => LastKept'
  BY <1>2 DEF BackupInv, LastKept, OwnBackups
<1> QED BY <1>1, <1>3

\* A step of an export that leaves the directory alone and lists nothing.
LEMMA QuietExport ==
    ASSUME BackupInv, NEW e \in Exporters, NEW x, ExportOK(x), x.at # "prune",
           exporter' = [exporter EXCEPT ![e] = x], UNCHANGED <<shelf, kept, clock, restore>>,
           disturbed' = TRUE \/ UNCHANGED <<vaultFile, auditFile, disturbed>>
    PROVE  BackupInv'
<1>1. ExportsOK' /\ AboutToPrune' \subseteq AboutToPrune
  BY ExportMoves
<1>2. clock' \in Nat /\ clock' >= clock
  BY DEF BackupInv, ShelfOK
<1>3. ShelfOK' /\ (kept' => LastKept')
  BY <1>1, <1>2, ShelfStays
<1>4. RestoreOK'
  BY RestoreStays
<1> QED BY <1>1, <1>3, <1>4 DEF BackupInv

LEMMA OpenInv ==
    ASSUME BackupInv, NEW e \in Exporters, NEW p \in BackupPaths, NEW pass, NEW who,
           Open(e, p, pass, who), UNCHANGED exporting
    PROVE  BackupInv'
<1> DEFINE x == [at |-> "read", who |-> who, path |-> p, pass |-> pass, handle |-> vaultFile,
                   log |-> <<>>, drop |-> {}]
<1>1. ExportOK(x) /\ x.at # "prune"
  BY DEF ExportOK
<1>2. exporter' = [exporter EXCEPT ![e] = x]
  BY DEF Open
<1> HIDE DEF x
<1> QED BY <1>1, <1>2, QuietExport DEF exporting

LEMMA IdleOK == ExportOK(IdleExport) /\ IdleExport.at # "prune"
BY DEF ExportOK, IdleExport

LEMMA ExportFacts ==
    ASSUME BackupInv, NEW e \in Exporters, exporter[e].at # "idle"
    PROVE  /\ exporter[e].at \in {"read", "truncate", "write", "list", "prune", "config"}
           /\ DOMAIN exporter[e] = {"at", "who", "path", "pass", "handle", "log", "drop"}
           /\ exporter[e].path \in BackupPaths
BY DEF BackupInv, ExportsOK, ExportOK, IdleExport

\* An export that goes on to another place.
LEMMA Onward ==
    ASSUME BackupInv, NEW e \in Exporters, exporter[e].at # "idle",
           NEW at \in {"write", "list", "config"}
    PROVE  LET x == [exporter[e] EXCEPT !.at = at] IN ExportOK(x) /\ x.at # "prune"
BY ExportFacts DEF ExportOK

LEMMA ReadInv == ASSUME BackupInv, NEW e \in Exporters, ReadAndSign(e) PROVE BackupInv'
<1>1. CASE signBackupFile
  <2> DEFINE x == [exporter[e] EXCEPT !.at = "truncate", !.log = auditFile]
  <2>1. ExportOK(x) /\ x.at # "prune"
    BY ExportFacts DEF ReadAndSign, ExportOK
  <2>2. exporter' = [exporter EXCEPT ![e] = x]
    BY <1>1 DEF ReadAndSign
  <2> HIDE DEF x
  <2> QED BY <2>1, <2>2, QuietExport DEF ReadAndSign, exporting
<1>2. CASE ~signBackupFile
  <2>1. exporter' = [exporter EXCEPT ![e] = IdleExport]
    BY <1>2 DEF ReadAndSign
  <2> QED BY <2>1, IdleOK, QuietExport DEF ReadAndSign, exporting
<1> QED BY <1>1, <1>2

\* The last backup stays when another file changes that is not one of this vault,
\* or goes.
LEMMA OthersChange ==
    ASSUME BackupInv, kept, NEW p \in OwnBackups, p \notin AboutToPrune,
           Cardinality(NoOlder(p)) <= Keep, NEW w \in BackupPaths, w # p,
           NEW f, f.dek # "own", shelf' = [shelf EXCEPT ![w] = f],
           AboutToPrune' \subseteq AboutToPrune
    PROVE  LastKept'
<1>1. shelf'[p] = shelf[p] /\ \A q \in BackupPaths : q # w => shelf'[q] = shelf[q]
  BY DEF BackupInv, ShelfOK, OwnBackups
<1>2. shelf'[w].dek # "own"
  BY DEF BackupInv, ShelfOK
<1>3. OwnBackups' \subseteq OwnBackups /\ p \in OwnBackups'
  BY <1>1, <1>2 DEF OwnBackups
<1>4. NoOlder(p)' \subseteq NoOlder(p)
  BY <1>1, <1>2, <1>3 DEF NoOlder, OwnBackups
<1>5. NoOlder(p) \in SUBSET OwnBackups
  BY DEF NoOlder
<1>6. Cardinality(NoOlder(p)') <= Cardinality(NoOlder(p)) /\ Cardinality(NoOlder(p)) \in Nat
      /\ Cardinality(NoOlder(p)') \in Nat
  BY <1>4, <1>5, OwnFinite
<1>7. Cardinality(NoOlder(p)') <= Keep
  BY <1>6, BackupAssumption
<1> QED BY <1>3, <1>7 DEF LastKept

LEMMA ShelfChanges ==
    ASSUME BackupInv, clock' = clock, NEW w \in BackupPaths, NEW f,
           shelf' = [shelf EXCEPT ![w] = f], f.dek = "own" => f.mod = clock
    PROVE  ShelfOK'
BY DEF BackupInv, ShelfOK

LEMMA TruncateInv == ASSUME BackupInv, NEW e \in Exporters, Truncate(e) PROVE BackupInv'
<1> DEFINE w == exporter[e].path
           x == [exporter[e] EXCEPT !.at = "write"]
<1>1. w \in BackupPaths /\ ExportOK(x) /\ x.at # "prune"
  BY ExportFacts, Onward DEF Truncate
<1>2. exporter' = [exporter EXCEPT ![e] = x]
  BY DEF Truncate
<1>3. shelf' = [shelf EXCEPT ![w] = TornBackup] /\ clock' = clock /\ TornBackup.dek # "own"
      /\ (kept' => kept /\ shelf[w].dek # "own") /\ restore' = restore
      /\ UNCHANGED <<vaultFile, auditFile, disturbed>>
  BY DEF Truncate, TornBackup
<1> HIDE DEF w, x
<1>4. ExportsOK' /\ AboutToPrune' \subseteq AboutToPrune
  BY <1>1, <1>2, ExportMoves
<1>5. ShelfOK'
  BY <1>1, <1>3, ShelfChanges
<1>6. ASSUME kept' PROVE LastKept'
  <2>1. PICK p \in OwnBackups : p \notin AboutToPrune /\ Cardinality(NoOlder(p)) <= Keep
    BY <1>3, <1>6 DEF BackupInv, LastKept
  <2>2. p # w
    BY <1>3, <1>6 DEF OwnBackups
  <2> QED BY <1>1, <1>3, <1>4, <1>6, <2>1, <2>2, OthersChange
<1>7. RestoreOK'
  BY <1>3, RestoreStays
<1> QED BY <1>4, <1>5, <1>6, <1>7 DEF BackupInv

LEMMA WriteInv == ASSUME BackupInv, NEW e \in Exporters, Write(e) PROVE BackupInv'
<1>w. PICK w : w = exporter[e].path
  OBVIOUS
<1> DEFINE x == IF exporter[e].who = "cli" THEN IdleExport ELSE [exporter[e] EXCEPT !.at = "list"]
           dek == exporter[e].handle.dek
           f == [dek |-> dek, vault |-> exporter[e].handle, log |-> exporter[e].log,
                 pass |-> exporter[e].pass, sig |-> SigningKey, mod |-> clock]
<1>1. w \in BackupPaths /\ ExportOK(x) /\ x.at # "prune"
  <2>1. w \in BackupPaths
    BY <1>w, ExportFacts DEF Write
  <2>2. ExportOK([exporter[e] EXCEPT !.at = "list"]) /\ [exporter[e] EXCEPT !.at = "list"].at # "prune"
    BY Onward DEF Write
  <2> QED BY <2>1, <2>2, IdleOK
<1>2. exporter' = [exporter EXCEPT ![e] = x]
  BY DEF Write
<1>3. f.dek = dek /\ f.mod = clock
  OBVIOUS
<1>4. shelf' = [shelf EXCEPT ![w] = f] /\ clock' = clock /\ disturbed' = TRUE /\ restore' = restore
  BY <1>w DEF Write, WrittenBeside
<1>5. kept' = IF dek = "own" THEN w \notin AboutToPrune /\ Cardinality(MadeNow(shelf')) <= Keep
              ELSE kept /\ shelf[w].dek # "own"
  BY <1>w DEF Write
<1> HIDE DEF x, dek, f
<1>6. ExportsOK' /\ AboutToPrune' \subseteq AboutToPrune
  BY <1>1, <1>2, ExportMoves
<1>7. ShelfOK'
  BY <1>1, <1>3, <1>4, ShelfChanges
<1>8. ASSUME kept', dek = "own" PROVE LastKept'
  <2>1. shelf'[w] = f
    BY <1>1, <1>4 DEF BackupInv, ShelfOK
  <2>2. w \in OwnBackups' /\ w \notin AboutToPrune'
    BY <1>1, <1>3, <1>5, <1>6, <1>8, <2>1 DEF OwnBackups
  <2>3. \A q \in OwnBackups' : shelf'[q].mod \in Nat /\ shelf'[q].mod <= clock
    BY <1>4, <1>7 DEF ShelfOK, OwnBackups
  <2>4. clock \in Nat
    BY DEF BackupInv, ShelfOK
  <2>5. NoOlder(w)' = MadeNow(shelf')
    BY <1>3, <1>4, <2>1, <2>3, <2>4 DEF NoOlder, MadeNow, OwnBackups
  <2> QED BY <1>5, <1>8, <2>2, <2>5 DEF LastKept
<1>9. ASSUME kept', dek # "own" PROVE LastKept'
  <2>1. PICK p \in OwnBackups : p \notin AboutToPrune /\ Cardinality(NoOlder(p)) <= Keep
    BY <1>5, <1>9 DEF BackupInv, LastKept
  <2>2. p # w
    BY <1>5, <1>9 DEF OwnBackups
  <2> QED BY <1>1, <1>3, <1>4, <1>5, <1>6, <1>9, <2>1, <2>2, OthersChange
<1>10. RestoreOK'
  BY <1>4, RestoreStays
<1> QED BY <1>6, <1>7, <1>8, <1>9, <1>10 DEF BackupInv

\* What an export has listed to be removed is never the last backup.
LEMMA NewestStays ==
    ASSUME BackupInv, NEW drop, NEW p \in OwnBackups, Cardinality(NoOlder(p)) <= Keep,
           Stale(OwnBackups, drop)
    PROVE  p \notin drop
<1> SUFFICES ASSUME p \in drop PROVE FALSE
  OBVIOUS
<1> DEFINE rest == OwnBackups \ drop
<1>1. drop \subseteq OwnBackups /\ Cardinality(rest) = Keep
      /\ \A q \in rest : shelf[p].mod <= shelf[q].mod
  BY DEF Stale
<1>2. shelf[p].mod \in Nat /\ \A q \in rest : shelf[q].mod \in Nat
  BY DEF BackupInv, ShelfOK, OwnBackups
<1>3. rest \cup {p} \in SUBSET NoOlder(p) /\ NoOlder(p) \in SUBSET OwnBackups /\ rest \in SUBSET OwnBackups
  BY <1>1, <1>2 DEF NoOlder
<1>4. p \notin rest
  OBVIOUS
<1> HIDE DEF rest
<1>5. IsFiniteSet(rest) /\ Cardinality(rest \cup {p}) <= Cardinality(NoOlder(p))
      /\ Cardinality(NoOlder(p)) \in Nat
  BY <1>3, OwnFinite
<1>6. Cardinality(rest \cup {p}) = Keep + 1
  BY <1>1, <1>4, <1>5, FS_AddElement
<1> QED BY <1>5, <1>6, BackupAssumption

LEMMA ListInv == ASSUME BackupInv, NEW e \in Exporters, ListStale(e) PROVE BackupInv'
<1> DEFINE own == {p \in BackupPaths : readBackupVaultID(p) = exporter[e].handle.dek}
           torn == \E p \in BackupPaths : shelf[p] = TornBackup
<1>0. UNCHANGED <<shelf, kept, clock, restore, vaultFile, auditFile, disturbed>> /\ exporter[e].at = "list"
  BY DEF ListStale, exporting
<1>1. CASE torn
  <2>1. exporter' = [exporter EXCEPT ![e] = IdleExport]
    BY <1>1 DEF ListStale
  <2> QED BY <1>0, <2>1, IdleOK, QuietExport
<1>2. CASE ~torn /\ Cardinality(own) <= Keep
  <2>1. exporter' = [exporter EXCEPT ![e] = [exporter[e] EXCEPT !.at = "config"]]
    BY <1>2 DEF ListStale
  <2>2. ExportOK([exporter[e] EXCEPT !.at = "config"]) /\ [exporter[e] EXCEPT !.at = "config"].at # "prune"
    BY <1>0, Onward
  <2> QED BY <1>0, <2>1, <2>2, QuietExport
<1>3. CASE ~torn /\ ~(Cardinality(own) <= Keep)
  <2>1. PICK drop \in SUBSET own : Stale(own, drop)
             /\ exporter' = [exporter EXCEPT ![e] = [exporter[e] EXCEPT !.at = "prune", !.drop = drop]]
    BY <1>3 DEF ListStale
  <2> DEFINE x == [exporter[e] EXCEPT !.at = "prune", !.drop = drop]
  <2>3. ExportOK(x) /\ x.at = "prune" /\ x.drop = drop
    BY <1>0, ExportFacts DEF ExportOK
  <2>4. exporter' = [exporter EXCEPT ![e] = x]
    BY <2>1
  <2> HIDE DEF x, own
  <2>5. ExportsOK' /\ exporter'[e] = x /\ \A d \in Exporters : d # e => exporter'[d] = exporter[d]
    BY <2>3, <2>4, ExportMoves
  <2>6. AboutToPrune' \subseteq AboutToPrune \cup drop
    BY <2>3, <2>5 DEF AboutToPrune
  <2>7. clock \in Nat /\ ShelfOK'
    BY <1>0 DEF BackupInv, ShelfOK
  <2>8. ASSUME kept' PROVE LastKept'
    <3>1. PICK p \in OwnBackups : p \notin AboutToPrune /\ Cardinality(NoOlder(p)) <= Keep
      BY <1>0, <2>8 DEF BackupInv, LastKept
    <3>2. p \notin drop
      <4>1. CASE exporter[e].handle.dek = "own"
        <5>1. own = OwnBackups
          BY <4>1 DEF own, OwnBackups, readBackupVaultID
        <5> QED BY <2>1, <3>1, <5>1, NewestStays
      <4>2. CASE exporter[e].handle.dek # "own"
        BY <2>1, <4>2 DEF own, OwnBackups, readBackupVaultID
      <4> QED BY <4>1, <4>2
    <3>3. p \notin AboutToPrune' /\ OwnBackups' = OwnBackups /\ NoOlder(p)' = NoOlder(p)
      BY <1>0, <2>6, <3>1, <3>2 DEF OwnBackups, NoOlder
    <3> QED BY <3>1, <3>3 DEF LastKept
  <2>9. RestoreOK'
    BY <1>0, RestoreStays
  <2> QED BY <2>5, <2>7, <2>8, <2>9 DEF BackupInv
<1> QED BY <1>1, <1>2, <1>3

LEMMA PruneInv == ASSUME BackupInv, NEW e \in Exporters, Prune(e) PROVE BackupInv'
<1>0. UNCHANGED <<kept, clock, restore, vaultFile, auditFile, disturbed>> /\ exporter[e].at = "prune"
  BY DEF Prune
<1>1. CASE exporter[e].drop = {}
  <2>1. exporter' = [exporter EXCEPT ![e] = [exporter[e] EXCEPT !.at = "config"]] /\ shelf' = shelf
    BY <1>1 DEF Prune
  <2>2. ExportOK([exporter[e] EXCEPT !.at = "config"]) /\ [exporter[e] EXCEPT !.at = "config"].at # "prune"
    BY <1>0, Onward
  <2> QED BY <1>0, <2>1, <2>2, QuietExport
<1>2. CASE exporter[e].drop # {}
  <2>1. PICK w \in exporter[e].drop :
            /\ shelf' = [shelf EXCEPT ![w] = NoBackup]
            /\ exporter' = [exporter EXCEPT ![e] = [exporter[e] EXCEPT !.drop = exporter[e].drop \ {w}]]
    BY <1>2 DEF Prune
  <2> DEFINE x == [exporter[e] EXCEPT !.drop = exporter[e].drop \ {w}]
  <2>2. ExportOK(x) /\ x.at = "prune" /\ x.drop = exporter[e].drop \ {w}
    BY <1>0, ExportFacts DEF ExportOK
  <2>3. exporter' = [exporter EXCEPT ![e] = x]
    BY <2>1
  <2> HIDE DEF x
  <2>4. ExportsOK' /\ exporter'[e] = x /\ \A d \in Exporters : d # e => exporter'[d] = exporter[d]
    BY <2>2, <2>3, ExportMoves
  <2>5. AboutToPrune' \subseteq AboutToPrune /\ w \in AboutToPrune
    BY <1>0, <2>1, <2>2, <2>4 DEF AboutToPrune
  <2>6. NoBackup.dek # "own"
    BY DEF NoBackup
  <2>7. ShelfOK'
    <3>1. CASE w \in BackupPaths
      BY <1>0, <2>1, <2>6, <3>1, ShelfChanges
    <3>2. CASE w \notin BackupPaths
      BY <1>0, <2>1, <3>2 DEF BackupInv, ShelfOK
    <3> QED BY <3>1, <3>2
  <2>8. ASSUME kept' PROVE LastKept'
    <3>1. PICK p \in OwnBackups : p \notin AboutToPrune /\ Cardinality(NoOlder(p)) <= Keep
      BY <1>0, <2>8 DEF BackupInv, LastKept
    <3>2. p # w
      BY <2>5, <3>1
    <3>3. CASE w \in BackupPaths
      BY <1>0, <2>1, <2>5, <2>6, <2>8, <3>1, <3>2, <3>3, OthersChange
    <3>4. CASE w \notin BackupPaths
      <4>1. \A q \in BackupPaths : shelf'[q] = shelf[q]
        BY <2>1, <3>4 DEF BackupInv, ShelfOK
      <4>2. p \in BackupPaths
        BY DEF OwnBackups
      <4>3. OwnBackups' = OwnBackups
        BY <4>1 DEF OwnBackups
      <4>4. NoOlder(p)' = NoOlder(p)
        BY <4>1, <4>2, <4>3 DEF NoOlder, OwnBackups
      <4> QED BY <2>5, <3>1, <4>3, <4>4 DEF LastKept
    <3> QED BY <3>3, <3>4
  <2>9. RestoreOK'
    BY <1>0, RestoreStays
  <2> QED BY <2>4, <2>7, <2>8, <2>9 DEF BackupInv
<1> QED BY <1>1, <1>2

LEMMA EndsInv ==
    ASSUME BackupInv, NEW e \in Exporters, RecordBackup(e) \/ ExportFails(e)
    PROVE  BackupInv'
<1>1. exporter' = [exporter EXCEPT ![e] = IdleExport] /\ UNCHANGED <<shelf, kept, clock, restore>>
  BY DEF RecordBackup, ExportFails
<1>2. disturbed' = TRUE \/ UNCHANGED <<vaultFile, auditFile, disturbed>>
  BY DEF RecordBackup, ExportFails, WrittenBeside
<1> QED BY <1>1, <1>2, IdleOK, QuietExport

LEMMA ElsewhereInv ==
    ASSUME BackupInv, UNCHANGED <<shelf, kept, restore, exporter, vaultFile, auditFile, disturbed>>,
           clock' \in Nat, clock' >= clock
    PROVE  BackupInv'
<1>1. AboutToPrune' = AboutToPrune
  BY DEF AboutToPrune
<1>2. ExportsOK'
  BY DEF BackupInv, ExportsOK
<1>3. ShelfOK' /\ (kept' => LastKept')
  BY <1>1, ShelfStays
<1>4. RestoreOK'
  BY RestoreStays
<1> QED BY <1>2, <1>3, <1>4 DEF BackupInv

LEMMA BackupNextInv == BackupInv /\ [BackupNext]_backupVars => BackupInv'
<1> SUFFICES ASSUME BackupInv, [BackupNext]_backupVars PROVE BackupInv'
  OBVIOUS
<1>0. clock \in Nat /\ clock >= clock
  BY DEF BackupInv, ShelfOK
<1>1. ASSUME NEW e \in Exporters, DaemonBackup(e) \/ exportBackup(e) \/ runScheduledBackupOnce(e)
      PROVE  BackupInv'
  BY <1>1, OpenInv DEF DaemonBackup, exportBackup, runScheduledBackupOnce, scheduledBackupPath
<1>2. ASSUME NEW e \in Exporters,
             ReadAndSign(e) \/ Truncate(e) \/ Write(e) \/ ListStale(e) \/ Prune(e)
      PROVE  BackupInv'
  BY <1>2, ReadInv, TruncateInv, WriteInv, ListInv, PruneInv
<1>3. CASE SetBackupPassphrase \/ DeleteBackupPassphrase
  <2>1. clock' = clock
    BY <1>3 DEF SetBackupPassphrase, DeleteBackupPassphrase
  <2> QED BY <1>0, <1>3, <2>1, ElsewhereInv DEF SetBackupPassphrase, DeleteBackupPassphrase
<1>4. CASE BackupTick
  BY <1>0, <1>4, ElsewhereInv DEF BackupTick
<1>5. CASE UNCHANGED backupVars
  BY <1>0, <1>5, ElsewhereInv DEF backupVars
<1> QED BY <1>1, <1>2, <1>3, <1>4, <1>5, EndsInv, BeginRestore, SnapshotInv, RestoreProceeds,
           RestoreTroubles DEF BackupNext

(* What a restore has done at each of its places, and that the last backup *)
(* has at most Keep that are no older and is on no list of what to remove. *)
THEOREM BackupInvariant == BackupSpec => []BackupInv
BY BackupInitInv, BackupNextInv, PTL DEF BackupSpec

(* A restore that nothing disturbed is all or nothing, and retention never *)
(* takes the last backup of the vault (ExportBackup, RestoreBackup and     *)
(* PruneBackupDirectory of store/backup.go).                               *)
THEOREM BackupsReliable == BackupSpec => []BackupsServe
<1>1. BackupInv => BackupsServe
  <2> SUFFICES ASSUME BackupInv PROVE BackupsServe
    OBVIOUS
  <2>1. RestoreAllOrNothing
    BY DEF BackupInv, RestoreOK, RestoredSoFar, RestoreAllOrNothing
  <2>2. kept => \E p \in BackupPaths : shelf[p].dek = "own"
    BY DEF BackupInv, LastKept, OwnBackups
  <2> QED BY <2>1, <2>2 DEF BackupsServe
<1> QED BY <1>1, BackupInvariant, PTL
==============================================================================
