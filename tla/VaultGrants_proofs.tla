------------------------- MODULE VaultGrants_proofs -------------------------
(* Proofs about the grants in the vault file, for any number of commands,    *)
(* of processes they run in and of items.                                    *)
EXTENDS VaultGrants, TLAPS

\* The shape of a grant and of a whole state.
GrantRecord == [id: Nat, scope: Scopes \cup {"none"}, lease: Nat,
                ends: BOOLEAN, used: BOOLEAN, revoked: BOOLEAN]
Grants == [Keys -> GrantRecord]

\* The grants the authorization loops ask for.
Asked == {Lease, Conv} \cup {Secret(i) : i \in Items}

\* A command that is under way.
Running == [at: {"check", "decide", "grant", "consume", "mint", "act"},
            cmd: Commands, granted: SUBSET Asked, req: Asked, ids: SUBSET Nat]

\* The state has no live grant that its own revoked lease should have taken
\* along: RevokedLeaseIsBarren says this of every state.
Barren(m) ==
    m[Lease].revoked =>
        /\ \A i \in Items : m[Mut(i)].id # 0 => m[Mut(i)].revoked
        /\ m[Conv].id # 0 /\ m[Conv].lease = m[Lease].id => m[Conv].revoked

Good(m) == m \in Grants /\ Barren(m)

WorkOK == work \in [Workers -> {Idle} \cup Running]

TypeOK == /\ disk \in Grants
          /\ mem \in [Workers -> Grants]
          /\ WorkOK
          /\ minted \in Nat

IInv == /\ TypeOK
        /\ Barren(disk)
        /\ \A w \in Workers : Barren(mem[w])

-----------------------------------------------------------------------------
(* Keys, and the operators on a state *)

LEMMA KeyFacts ==
    /\ Lease \in Keys /\ Conv \in Keys
    /\ \A i \in Items : Secret(i) \in Keys /\ Plain(i) \in Keys /\ Mut(i) \in Keys
    /\ Lease # Conv
    /\ \A i : /\ Secret(i) \notin {Lease, Conv}
              /\ Plain(i) \notin {Lease, Conv}
              /\ Mut(i) \notin {Lease, Conv}
    /\ \A i, j : /\ Secret(i) # Mut(j) /\ Plain(i) # Mut(j) /\ Secret(i) # Plain(j)
    /\ Asked \subseteq Keys
<1>1. /\ Lease.kind = "lease" /\ Conv.kind = "conv"
      /\ \A i : Secret(i).kind = "secret" /\ Plain(i).kind = "plain" /\ Mut(i).kind = "mut"
  BY DEF Lease, Conv, Secret, Plain, Mut
<1>2. /\ Lease \in Keys /\ Conv \in Keys
      /\ \A i \in Items : Secret(i) \in Keys /\ Plain(i) \in Keys /\ Mut(i) \in Keys
  BY DEF Keys
<1>3. Asked \subseteq Keys
  BY <1>2 DEF Asked
<1> QED BY <1>1, <1>2, <1>3

LEMMA NoGrantFacts == NoGrant \in GrantRecord /\ NoGrant.id = 0 /\ ~NoGrant.revoked
BY DEF NoGrant, GrantRecord

LEMMA NoGrantsGood == Good(NoGrants)
BY NoGrantFacts, KeyFacts DEF Good, Barren, Grants, NoGrants

LEMMA GrantFacts ==
    ASSUME NEW k, NEW id \in Nat, NEW scope \in Scopes \cup {"none"}, NEW lease \in Nat
    PROVE  LET g == Grant(k, id, scope, lease) IN
           /\ g \in GrantRecord
           /\ g.id = id /\ g.scope = scope /\ ~g.used /\ ~g.revoked
BY DEF Grant, NoGrant, GrantRecord

\* Marking grants used changes nothing else of them.
LEMMA UseFacts ==
    ASSUME NEW m \in Grants, NEW ks
    PROVE  /\ Use(m, ks) \in Grants
           /\ \A k \in Keys : /\ Use(m, ks)[k].id = m[k].id
                              /\ Use(m, ks)[k].scope = m[k].scope
                              /\ Use(m, ks)[k].lease = m[k].lease
                              /\ Use(m, ks)[k].revoked = m[k].revoked
                              /\ (Use(m, ks)[k].used <=> k \in ks \/ m[k].used)
           /\ Barren(m) => Barren(Use(m, ks))
<1>1. \A k \in Keys : Use(m, ks)[k] = IF k \in ks THEN [m[k] EXCEPT !.used = TRUE] ELSE m[k]
  BY DEF Use
<1>2. \A k \in Keys : m[k] \in GrantRecord
  BY DEF Grants
<1>3. \A g \in GrantRecord :
        LET u == [g EXCEPT !.used = TRUE] IN
        /\ u \in GrantRecord /\ u.id = g.id /\ u.scope = g.scope /\ u.lease = g.lease
        /\ u.revoked = g.revoked /\ u.used = TRUE
  BY DEF GrantRecord
<1>4. Use(m, ks) \in Grants
  BY <1>1, <1>2, <1>3 DEF Use, Grants
<1>5. \A k \in Keys : /\ Use(m, ks)[k].id = m[k].id
                      /\ Use(m, ks)[k].scope = m[k].scope
                      /\ Use(m, ks)[k].lease = m[k].lease
                      /\ Use(m, ks)[k].revoked = m[k].revoked
  BY <1>1, <1>2, <1>3, ZenonT(30)
<1>6. ASSUME NEW k \in Keys PROVE (Use(m, ks)[k].used <=> k \in ks \/ m[k].used)
  <2>1. m[k].used \in BOOLEAN
    BY <1>2 DEF GrantRecord
  <2>2. CASE k \in ks
    BY <1>1, <1>2, <1>3, <2>2
  <2>3. CASE k \notin ks
    BY <1>1, <2>1, <2>3
  <2> QED BY <2>2, <2>3
<1>7. Barren(m) => Barren(Use(m, ks))
  BY <1>5, KeyFacts DEF Barren
<1> QED BY <1>4, <1>5, <1>6, <1>7

\* A revocation of the lease takes its dependants along, in the same copy.
LEMMA RevokeFacts ==
    ASSUME NEW m \in Grants, Barren(m), NEW c \in Commands
    PROVE  Good(Revoke(m, RevokedBy(m, c)))
<1> DEFINE ks == RevokedBy(m, c)
           r == Revoke(m, ks)
<1>1. \A k \in Keys : r[k] = IF k \in ks /\ m[k].id # 0
                             THEN [m[k] EXCEPT !.revoked = TRUE] ELSE m[k]
  BY DEF Revoke
<1>2. \A k \in Keys : m[k] \in GrantRecord
  BY DEF Grants
<1>3. \A g \in GrantRecord :
        LET u == [g EXCEPT !.revoked = TRUE] IN
        u \in GrantRecord /\ u.id = g.id /\ u.lease = g.lease /\ u.revoked = TRUE
  BY DEF GrantRecord
<1>4. r \in Grants
  BY <1>1, <1>2, <1>3 DEF Revoke, Grants
<1>5. \A k \in Keys : r[k].id = m[k].id /\ r[k].lease = m[k].lease
                      /\ (k \in ks /\ m[k].id # 0 => r[k].revoked)
                      /\ (m[k].revoked => r[k].revoked)
                      /\ (k \notin ks => r[k] = m[k])
  BY <1>1, <1>2, <1>3
<1> HIDE DEF r
<1>6. Barren(r)
  <2>1. CASE Lease \notin ks
    BY <1>5, <2>1, KeyFacts DEF Barren
  <2>2. CASE Lease \in ks
    <3>1. \A i \in Items : Mut(i) \in ks
      BY <2>2, KeyFacts, GrantAssumption DEF RevokedBy, Lease, Commands
    <3>2. m[Conv].lease = m[Lease].id => Conv \in ks
      BY <2>2, KeyFacts, GrantAssumption DEF RevokedBy, Lease, Commands
    <3> QED BY <1>5, <3>1, <3>2, KeyFacts DEF Barren
  <2> QED BY <2>1, <2>2
<1> QED BY <1>4, <1>6 DEF Good, r

\* A new grant: one that depends on the lease is made under a lease that is
\* not revoked.
LEMMA AddFacts ==
    ASSUME NEW m, Good(m), NEW k, NEW g \in GrantRecord, ~g.revoked,
           k = Conv \/ (\E i : k = Mut(i)) => ~m[Lease].revoked
    PROVE  Good([m EXCEPT ![k] = g])
<1> DEFINE new == [m EXCEPT ![k] = g]
<1>1. new \in Grants /\ \A j \in Keys : new[j] = IF j = k THEN g ELSE m[j]
  BY DEF Good, Grants
<1>2. m \in Grants
  BY DEF Good
<1> HIDE DEF new
<1>3. ASSUME k = Lease PROVE Barren(new)
  BY <1>1, <1>3, KeyFacts DEF Barren
<1>4. ASSUME k = Conv \/ (\E i : k = Mut(i)) PROVE Barren(new)
  BY <1>1, <1>4, KeyFacts DEF Barren
<1>5. ASSUME k # Lease, k # Conv, ~(\E i : k = Mut(i)) PROVE Barren(new)
  BY <1>1, <1>5, KeyFacts DEF Barren, Good
<1>6. Good(new)
  BY <1>1, <1>3, <1>4, <1>5 DEF Good
<1> QED BY <1>6 DEF new

-----------------------------------------------------------------------------
(* Steps *)

LEMMA RunningFacts ==
    ASSUME WorkOK, NEW w \in Workers, work[w].at # "idle"
    PROVE  /\ work[w] \in Running
           /\ work[w].cmd \in Commands
           /\ work[w].req \in Asked
<1>1. Idle.at = "idle"
  BY DEF Idle
<1>2. work[w] \in Running
  BY <1>1 DEF WorkOK
<1> QED BY <1>2 DEF Running

LEMMA ScopeType ==
    ASSUME NEW c \in Commands, NEW k
    PROVE  Scope(c, k) \in Scopes \cup {"none"}
<1>1. /\ c.lease \in Scopes \cup {"none"} /\ c.conv \in Scopes \cup {"none"}
      /\ c.secret \in Scopes \cup {"none"}
  BY GrantAssumption DEF Commands
<1> QED BY <1>1 DEF Scope

LEMMA MissingAsked ==
    ASSUME NEW m, NEW c \in Commands PROVE Missing(m, c) \subseteq Asked
BY DEF Missing, Commands, Asked

LEMMA DiskFacts ==
    ASSUME NEW m, Wrote(m) \/ WriteFailed(m)
    PROVE  disk' \in {disk, m}
BY DEF Wrote, WriteFailed

\* A worker's step replaces its own copy by a good one.
LEMMA OwnStep ==
    ASSUME IInv, NEW w \in Workers, NEW m, Good(m), mem' = [mem EXCEPT ![w] = m],
           NEW x \in {Idle} \cup Running, work' = [work EXCEPT ![w] = x],
           Good(disk'), minted' \in Nat
    PROVE  IInv'
<1>1. WorkOK'
  BY DEF IInv, TypeOK, WorkOK
<1>2. m \in Grants /\ mem \in [Workers -> Grants]
  BY DEF Good, IInv, TypeOK
<1>3. mem' \in [Workers -> Grants] /\ \A v \in Workers : mem'[v] = IF v = w THEN m ELSE mem[v]
  BY <1>2
<1>4. \A v \in Workers : Barren(mem'[v])
  BY <1>3 DEF Good, IInv
<1> QED BY <1>1, <1>3, <1>4 DEF IInv, TypeOK, Good

LEMMA StateGood == ASSUME IInv PROVE Good(disk) /\ \A w \in Workers : Good(mem[w])
BY DEF IInv, TypeOK, Good

LEMMA FinishStep ==
    ASSUME IInv, NEW w \in Workers, Finish(w), Good(disk'), minted' \in Nat
    PROVE  IInv'
BY OwnStep, NoGrantsGood DEF Finish, Hold

LEMMA GotoStep ==
    ASSUME IInv, NEW w \in Workers, work[w].at # "idle", NEW m, Good(m),
           NEW at \in {"check", "decide", "mint"}, Goto(w, at, m),
           Good(disk'), minted' \in Nat
    PROVE  IInv'
<1> DEFINE x == [work[w] EXCEPT !.at = at]
<1>1. WorkOK
  BY DEF IInv, TypeOK
<1>2. x \in Running
  BY <1>1, RunningFacts DEF Running
<1>3. work' = [work EXCEPT ![w] = x] /\ mem' = [mem EXCEPT ![w] = m]
  BY DEF Goto, Hold
<1> QED BY <1>2, <1>3, OwnStep

LEMMA AskStep ==
    ASSUME IInv, NEW w \in Workers, work[w].at # "idle", NEW m, Good(m),
           NEW ks \in SUBSET Asked, Ask(w, ks, m), Good(disk'), minted' \in Nat
    PROVE  IInv'
<1>1. PICK k \in ks :
        IF k \in work[w].granted \/ Scope(work[w].cmd, k) = "none" THEN Finish(w)
        ELSE /\ work' = [work EXCEPT ![w].at = "grant", ![w].req = k,
                                     ![w].granted = @ \cup {k}]
             /\ Hold(w, m)
  BY DEF Ask
<1>2. CASE Finish(w)
  BY <1>2, FinishStep
<1>3. CASE ~Finish(w)
  <2> DEFINE x == [work[w] EXCEPT !.at = "grant", !.req = k, !.granted = @ \cup {k}]
  <2>1. WorkOK
    BY DEF IInv, TypeOK
  <2>2. work[w] \in Running
    BY <2>1, RunningFacts
  <2>3. x \in Running
    BY <2>2 DEF Running
  <2>4. work' = [work EXCEPT ![w] = x] /\ mem' = [mem EXCEPT ![w] = m]
    BY <1>1, <1>3, <2>1 DEF Hold, WorkOK
  <2> QED BY <2>3, <2>4, OwnStep
<1> QED BY <1>2, <1>3

LEMMA PersistStep ==
    ASSUME IInv, NEW w \in Workers, NEW m, Good(m), NEW ids, Persist(w, m, ids),
           UNCHANGED minted
    PROVE  IInv'
<1>1. disk' \in {disk, m} /\ Finish(w)
  BY DiskFacts DEF Persist
<1>2. Good(disk')
  BY <1>1, StateGood
<1>3. minted' \in Nat
  BY DEF IInv, TypeOK
<1> QED BY <1>1, <1>2, <1>3, FinishStep

LEMMA BeginStep ==
    ASSUME IInv, NEW w \in Workers, NEW c \in Commands, Begin(w, c)
    PROVE  IInv'
<1> DEFINE x == [at |-> IF c.kind \in {"batch", "single", "env", "new"} THEN Again(c) ELSE "act",
                 cmd |-> c, granted |-> {}, req |-> Lease, ids |-> {}]
<1>1. x \in Running
  BY DEF Running, Again, Asked
<1>2. work' = [work EXCEPT ![w] = x] /\ mem' = [mem EXCEPT ![w] = disk]
      /\ UNCHANGED <<disk, minted>>
  BY DEF Begin, Hold
<1>3. Good(disk) /\ Good(disk') /\ minted' \in Nat
  BY <1>2, StateGood DEF IInv, TypeOK
<1> HIDE DEF x
<1> QED BY <1>1, <1>2, <1>3, OwnStep

LEMMA CheckStep ==
    ASSUME IInv, NEW w \in Workers, Check(w) PROVE IInv'
<1> DEFINE need == Missing(mem[w], work[w].cmd)
<1>1. work[w].at # "idle" /\ UNCHANGED <<disk, minted>>
      /\ IF need = {} THEN Goto(w, "decide", mem[w]) ELSE Ask(w, need, mem[w])
  BY DEF Check
<1>2. Good(mem[w]) /\ Good(disk') /\ minted' \in Nat
  BY <1>1, StateGood DEF IInv, TypeOK
<1>3. need \in SUBSET Asked
  BY <1>1, RunningFacts, MissingAsked DEF IInv, TypeOK
<1> QED BY <1>1, <1>2, <1>3, GotoStep, AskStep

LEMMA SpendStep ==
    ASSUME IInv, NEW w \in Workers, work[w].at # "idle", NEW m, Good(m),
           NEW ks \in SUBSET Keys, Spend(w, ks, m), Good(disk'), minted' \in Nat
    PROVE  IInv'
<1> DEFINE x == [work[w] EXCEPT !.at = "consume", !.ids = {m[k].id : k \in ks}]
<1>1. WorkOK
  BY DEF IInv, TypeOK
<1>2. work[w] \in Running
  BY <1>1, RunningFacts
<1>3. {m[k].id : k \in ks} \in SUBSET Nat
  BY DEF Good, Grants, GrantRecord
<1>4. x \in Running
  BY <1>2, <1>3 DEF Running
<1>5. work' = [work EXCEPT ![w] = x] /\ mem' = [mem EXCEPT ![w] = Use(m, ks)]
  BY <1>1 DEF Spend, Hold, WorkOK
<1>6. Good(Use(m, ks))
  BY UseFacts DEF Good
<1> QED BY <1>4, <1>5, <1>6, OwnStep

LEMMA SpendsKeys ==
    ASSUME NEW m, NEW c \in Commands PROVE Spends(m, c) \in SUBSET Keys
<1>1. c.items \subseteq Items
  BY DEF Commands
<1> QED BY <1>1, KeyFacts DEF Spends

LEMMA DecideStep ==
    ASSUME IInv, NEW w \in Workers, Decide(w) PROVE IInv'
<1> DEFINE c == work[w].cmd
           need == Missing(disk, c)
           once == Spends(disk, c)
<1>1. work[w].at # "idle" /\ UNCHANGED <<disk, minted>>
      /\ (Ask(w, need, disk) \/ Finish(w) \/ Spend(w, once, disk))
  BY DEF Decide
<1>2. Good(disk) /\ Good(disk') /\ minted' \in Nat
  BY <1>1, StateGood DEF IInv, TypeOK
<1>3. need \in SUBSET Asked /\ once \in SUBSET Keys
  BY <1>1, RunningFacts, MissingAsked, SpendsKeys DEF IInv, TypeOK
<1> HIDE DEF need, once
<1> QED BY <1>1, <1>2, <1>3, FinishStep, AskStep, SpendStep

LEMMA ConsumeStep ==
    ASSUME IInv, NEW w \in Workers, Consume(w) PROVE IInv'
<1>1. disk' \in {disk, mem[w]} /\ Finish(w) /\ UNCHANGED minted
  BY DiskFacts DEF Consume
<1>2. Good(disk') /\ minted' \in Nat
  BY <1>1, StateGood DEF IInv, TypeOK
<1> QED BY <1>1, <1>2, FinishStep

LEMMA CaptureNewStep ==
    ASSUME IInv, NEW w \in Workers, CaptureNew(w) PROVE IInv'
<1> DEFINE m == mem[w]
<1>1. work[w].at # "idle" /\ UNCHANGED minted
  BY DEF CaptureNew
<1>2. Good(m) /\ Good(disk) /\ minted' \in Nat
  BY <1>1, StateGood DEF IInv, TypeOK
<1>3. ASSUME Ask(w, {Lease}, m), UNCHANGED disk PROVE IInv'
  <2>1. {Lease} \in SUBSET Asked
    BY DEF Asked
  <2> QED BY <1>1, <1>2, <1>3, <2>1, AskStep
<1>4. ASSUME Finish(w), UNCHANGED disk PROVE IInv'
  BY <1>2, <1>4, FinishStep
<1>5. ASSUME Persist(w, Use(m, {Lease}), {m[Lease].id}) PROVE IInv'
  <2>1. Good(Use(m, {Lease}))
    BY <1>2, UseFacts DEF Good
  <2> QED BY <1>1, <1>5, <2>1, PersistStep
<1> QED BY <1>3, <1>4, <1>5 DEF CaptureNew

LEMMA NewIdType == ASSUME IInv, NewId PROVE minted + 1 \in Nat /\ minted' \in Nat
BY DEF IInv, TypeOK, NewId

LEMMA AgainType == ASSUME NEW c PROVE Again(c) \in {"check", "decide", "mint"}
BY DEF Again

LEMMA AskedIsNotMut == ASSUME NEW k \in Asked PROVE ~(\E i : k = Mut(i))
BY KeyFacts DEF Asked

\* The id a convenience grant records is that of the lease in the same state.
LEMMA LeaseIdType ==
    ASSUME NEW m \in Grants, NEW k
    PROVE  (IF k = Conv THEN m[Lease].id ELSE 0) \in Nat
BY KeyFacts DEF Grants, GrantRecord

LEMMA GrantStandingStep ==
    ASSUME IInv, NEW w \in Workers, GrantStanding(w) PROVE IInv'
<1> DEFINE c == work[w].cmd
           k == work[w].req
           m == mem[w]
           g == Grant(k, minted + 1, Scope(c, k), IF k = Conv THEN m[Lease].id ELSE 0)
           new == [m EXCEPT ![k] = g]
<1>0. work[w].at # "idle" /\ c \in Commands /\ k \in Asked
  BY RunningFacts DEF GrantStanding, IInv, TypeOK
<1>1. Good(m) /\ Good(disk) /\ minted \in Nat /\ m \in Grants
  BY StateGood DEF IInv, TypeOK
<1>2. CASE ~ConvAllowed(m, k) /\ Finish(w) /\ UNCHANGED <<disk, faults, minted, spent>>
  BY <1>1, <1>2, FinishStep
<1>3. CASE /\ ConvAllowed(m, k) /\ NewId
           /\ \/ Wrote(new) /\ Goto(w, Again(c), new)
              \/ WriteFailed(new) /\ Finish(w)
  <2>1. g \in GrantRecord /\ ~g.revoked
    BY <1>0, <1>1, NewIdType, <1>3, ScopeType, LeaseIdType, GrantFacts
  <2>2. k = Conv \/ (\E i : k = Mut(i)) => ~m[Lease].revoked
    BY <1>0, <1>3, AskedIsNotMut DEF ConvAllowed, Active
  <2> HIDE DEF g
  <2>3. Good(new)
    BY <1>1, <2>1, <2>2, AddFacts
  <2> HIDE DEF new
  <2>4. Good(disk') /\ minted' \in Nat
    BY <1>1, <1>3, <2>3, DiskFacts, NewIdType
  <2> QED BY <1>0, <1>3, <2>3, <2>4, AgainType, GotoStep, FinishStep
<1> QED BY <1>2, <1>3 DEF GrantStanding

\* The file as GrantConvenience sees it is a good state.
LEMMA RefreshedGood ==
    ASSUME IInv, NEW w \in Workers, NEW k PROVE Good(Refreshed(w, k))
<1> DEFINE g == mem[w][Lease]
<1>1. Good(disk) /\ mem[w] \in Grants
  BY StateGood DEF Good
<1>2. CASE k = Conv /\ disk[Lease].id = 0 /\ Active(mem[w], Lease)
  <2>1. g \in GrantRecord /\ ~g.revoked
    BY <1>1, <1>2, KeyFacts DEF Grants, Active
  <2>2. ~(Lease = Conv \/ \E i : Lease = Mut(i))
    BY KeyFacts
  <2> HIDE DEF g
  <2>3. Good([disk EXCEPT ![Lease] = g])
    BY <1>1, <2>1, <2>2, AddFacts
  <2> QED BY <1>2, <2>3 DEF Refreshed, g
<1>3. CASE ~(k = Conv /\ disk[Lease].id = 0 /\ Active(mem[w], Lease))
  BY <1>1, <1>3 DEF Refreshed
<1> QED BY <1>2, <1>3

LEMMA GrantOnceStep ==
    ASSUME IInv, NEW w \in Workers, GrantOnce(w) PROVE IInv'
<1> DEFINE c == work[w].cmd
           k == work[w].req
           m == Refreshed(w, k)
           g == Grant(k, minted + 1, "once", IF k = Conv THEN m[Lease].id ELSE 0)
           new == [m EXCEPT ![k] = g]
           allowed == ConvAllowed(mem[w], k) /\ ConvAllowed(m, k)
<1>0. work[w].at # "idle" /\ c \in Commands /\ k \in Asked
  BY RunningFacts DEF GrantOnce, IInv, TypeOK
<1>1. Good(m) /\ Good(disk) /\ minted \in Nat /\ m \in Grants
  BY StateGood, RefreshedGood DEF IInv, TypeOK, Good
<1>2. UNCHANGED disk
  BY DEF GrantOnce
<1>3. CASE allowed /\ NewId /\ Goto(w, "mint", new)
  <2>1. g \in GrantRecord /\ ~g.revoked
    <3>1. "once" \in Scopes \cup {"none"}
      BY DEF Scopes
    <3> QED BY <1>1, <1>3, <3>1, NewIdType, LeaseIdType, GrantFacts
  <2>2. k = Conv \/ (\E i : k = Mut(i)) => ~m[Lease].revoked
    BY <1>0, <1>3, AskedIsNotMut DEF ConvAllowed, Active
  <2> HIDE DEF g
  <2>3. Good(new)
    BY <1>1, <2>1, <2>2, AddFacts
  <2> HIDE DEF new
  <2> QED BY <1>0, <1>1, <1>2, <1>3, <2>3, NewIdType, GotoStep
<1>4. CASE Goto(w, Again(c), m) /\ UNCHANGED minted
  <2> HIDE DEF m
  <2> QED BY <1>0, <1>1, <1>2, <1>4, AgainType, GotoStep
<1>5. CASE Finish(w) /\ UNCHANGED minted
  BY <1>1, <1>2, <1>5, FinishStep
<1> QED BY <1>3, <1>4, <1>5 DEF GrantOnce

LEMMA MintStep ==
    ASSUME IInv, NEW w \in Workers, Mint(w) PROVE IInv'
<1>1. work[w].at # "idle" /\ disk' \in {disk, mem[w]} /\ UNCHANGED minted
      /\ (Goto(w, Again(work[w].cmd), mem[w]) \/ Finish(w))
  BY DiskFacts DEF Mint
<1>2. Good(mem[w]) /\ Good(disk') /\ minted' \in Nat
  BY <1>1, StateGood DEF IInv, TypeOK
<1> QED BY <1>1, <1>2, AgainType, GotoStep, FinishStep

LEMMA RevokeGrantsStep ==
    ASSUME IInv, NEW w \in Workers, RevokeGrants(w) PROVE IInv'
<1> DEFINE c == work[w].cmd
           r == Revoke(mem[w], RevokedBy(mem[w], c))
<1>1. work[w].at # "idle" /\ UNCHANGED minted
      /\ (Persist(w, r, {}) \/ (Finish(w) /\ UNCHANGED disk))
  BY DEF RevokeGrants
<1>2. c \in Commands
  BY <1>1, RunningFacts DEF IInv, TypeOK
<1>3. Good(mem[w]) /\ Good(disk) /\ minted' \in Nat
  BY <1>1, StateGood DEF IInv, TypeOK
<1>4. Good(r)
  BY <1>2, <1>3, RevokeFacts DEF Good
<1> QED BY <1>1, <1>3, <1>4, PersistStep, FinishStep

LEMMA GrantTimedStep ==
    ASSUME IInv, NEW w \in Workers, GrantTimed(w) PROVE IInv'
<1> DEFINE c == work[w].cmd
           i == CHOOSE j \in c.items : TRUE
           k == IF c.kind = "grantPlain" THEN Plain(i) ELSE Mut(i)
           g == Grant(k, minted + 1, "once", 0)
           new == [mem[w] EXCEPT ![k] = g]
<1>1. Good(mem[w]) /\ Good(disk) /\ minted \in Nat
  BY StateGood DEF IInv, TypeOK
<1>2. Finish(w) /\ c.kind \in {"grantPlain", "grantMut"}
  BY DEF GrantTimed
<1>3. CASE UNCHANGED <<disk, minted>>
  BY <1>1, <1>2, <1>3, FinishStep
<1>4. CASE /\ c.kind = "grantMut" => Active(mem[w], Lease)
           /\ NewId /\ (Wrote(new) \/ WriteFailed(new))
  <2>1. g \in GrantRecord /\ ~g.revoked
    <3>1. "once" \in Scopes \cup {"none"}
      BY DEF Scopes
    <3> QED BY <1>1, <1>4, <3>1, NewIdType, GrantFacts
  <2>2. k = Conv \/ (\E j : k = Mut(j)) => ~mem[w][Lease].revoked
    <3>1. CASE c.kind = "grantPlain"
      BY <3>1, KeyFacts
    <3>2. CASE c.kind # "grantPlain"
      BY <1>2, <1>4, <3>2 DEF Active
    <3> QED BY <3>1, <3>2
  <2> HIDE DEF g, k
  <2>3. Good(new)
    BY <1>1, <2>1, <2>2, AddFacts
  <2> HIDE DEF new
  <2>4. Good(disk') /\ minted' \in Nat
    BY <1>1, <1>4, <2>3, DiskFacts, NewIdType
  <2> QED BY <1>2, <2>4, FinishStep
<1> QED BY <1>3, <1>4 DEF GrantTimed

LEMMA SpendTimedStep ==
    ASSUME IInv, NEW w \in Workers, SpendTimed(w) PROVE IInv'
<1>1. UNCHANGED minted
      /\ ((\E k : Persist(w, Use(mem[w], {k}), {mem[w][k].id}))
           \/ (Finish(w) /\ UNCHANGED disk))
  BY ZenonT(30) DEF SpendTimed
<1>2. Good(mem[w]) /\ Good(disk) /\ minted' \in Nat
  BY <1>1, StateGood DEF IInv, TypeOK
<1>3. \A k : Good(Use(mem[w], {k}))
  BY <1>2, UseFacts DEF Good
<1> QED BY <1>1, <1>2, <1>3, PersistStep, FinishStep

LEMMA InitIInv == Init => IInv
<1>1. Idle \in {Idle} \cup Running
  OBVIOUS
<1> QED BY <1>1, NoGrantsGood DEF Init, IInv, TypeOK, WorkOK, Good

LEMMA NextIInv == IInv /\ [Next]_vars => IInv'
<1> SUFFICES ASSUME IInv, [Next]_vars PROVE IInv'
  OBVIOUS
<1>1. ASSUME NEW w \in Workers, Step(w) PROVE IInv'
  BY <1>1, CheckStep, DecideStep, ConsumeStep, CaptureNewStep, GrantStandingStep,
     GrantOnceStep, MintStep, RevokeGrantsStep, GrantTimedStep, SpendTimedStep
     DEF Step
<1>2. ASSUME NEW w \in Workers, NEW c \in Commands, Begin(w, c) PROVE IInv'
  BY <1>2, BeginStep
<1>3. ASSUME UNCHANGED <<disk, mem, work, minted>> PROVE IInv'
  BY <1>3 DEF IInv, TypeOK, WorkOK
<1>4. ASSUME NEW n \in 1..minted, Expire(n) PROVE IInv'
  BY <1>3, <1>4 DEF Expire
<1> QED BY <1>1, <1>2, <1>3, <1>4 DEF Next, vars

\* Every copy of the grants, in the file and in each command's handle, has
\* the shape of a vault state and keeps it.
THEOREM GrantsInvariant == Spec => []IInv
BY InitIInv, NextIInv, PTL DEF Spec

\* However stale the handle that writes the file is, no file and no handle
\* holds a live mutation grant, or a live convenience grant given under that
\* lease, beside a revoked project lease.
THEOREM LeaseTakesDependants == Spec => []RevokedLeaseIsBarren
<1>1. IInv => RevokedLeaseIsBarren
  BY DEF IInv, Barren, RevokedLeaseIsBarren, States
<1> QED BY <1>1, GrantsInvariant, PTL

-----------------------------------------------------------------------------
(* Once means once, for the commands of one process *)

\* lockVaultStatePath orders the commands of one process only.
OneProcess == \A v, w \in Workers : Process[v] = Process[w]

Inside(w) == work[w].at \in {"consume", "mint"}

\* The file's once grants and the operations they have authorized.
Ledger ==
    /\ faults \in Nat
    /\ spent \in [1..minted -> {0, 1}]
    /\ \A k \in Keys : disk[k].id # 0 =>
         /\ disk[k].id <= minted
         /\ disk[k].scope = "once"
         /\ spent[disk[k].id] > 0 => disk[k].used
         /\ disk[k].used /\ faults = 0 => spent[disk[k].id] > 0
    /\ \A j, k \in Keys : disk[j].id = disk[k].id /\ disk[k].id # 0 => j = k

\* At most one command is between reading the file and replacing it.
Mutex == \A v, w \in Workers : Inside(v) /\ Inside(w) => v = w

\* A handle outside the lock knows no grant that the file does not have.
Copy(m) == \A k \in Keys : m[k].id # 0 => disk[k].id = m[k].id

Copies == \A w \in Workers : ~Inside(w) => Copy(mem[w])

\* About to consume: the file with some unused once grants marked used.
Consuming ==
    \A w \in Workers : work[w].at = "consume" =>
        \E ks \in SUBSET Keys :
            /\ mem[w] = Use(disk, ks)
            /\ work[w].ids = {disk[k].id : k \in ks}
            /\ \A k \in ks : disk[k].id # 0 /\ ~disk[k].used

\* About to mint: the file with one more once grant, whose id is the latest.
NewGrant(k, g) ==
    /\ k \in Keys /\ g \in GrantRecord
    /\ disk[k].scope # "once"
    /\ g.id = minted /\ g.scope = "once" /\ ~g.used

Minting ==
    \A w \in Workers : work[w].at = "mint" =>
        /\ \E k, g : NewGrant(k, g) /\ mem[w] = [disk EXCEPT ![k] = g]
        /\ minted > 0
        /\ spent[minted] = 0
        /\ \A k \in Keys : disk[k].id # minted

OInv == IInv /\ Ledger /\ Mutex /\ Copies /\ Consuming /\ Minting

\* Nothing the file has under a key is ever taken away.
IdsStay == \A k \in Keys : disk[k].id # 0 => disk'[k].id = disk[k].id

LEMMA InitOInv == Init => OInv
<1> SUFFICES ASSUME Init PROVE OInv
  OBVIOUS
<1>1. \A k \in Keys : NoGrants[k].id = 0
  BY NoGrantFacts DEF NoGrants
<1>2. \A w \in Workers : work[w].at = "idle" /\ mem[w] = NoGrants
  BY DEF Init, Idle
<1>3. Ledger
  BY <1>1 DEF Init, Ledger
<1>4. Mutex /\ Copies /\ Consuming /\ Minting
  BY <1>1, <1>2 DEF Mutex, Copies, Copy, Consuming, Minting, Inside
<1> QED BY <1>3, <1>4, InitIInv DEF OInv

\* A step that writes nothing and ends outside the lock.
LEMMA OutsideStep ==
    ASSUME OInv, IInv', NEW w \in Workers, NEW m, Copy(m), mem' = [mem EXCEPT ![w] = m],
           NEW x, x.at \notin {"consume", "mint"}, work' = [work EXCEPT ![w] = x],
           UNCHANGED <<disk, minted, faults, spent>>
    PROVE  OInv'
<1>1. /\ \A v \in Workers : mem'[v] = IF v = w THEN m ELSE mem[v]
      /\ \A v \in Workers : work'[v] = IF v = w THEN x ELSE work[v]
  BY DEF OInv, IInv, TypeOK, WorkOK
<1>2. Ledger' /\ IdsStay
  BY DEF OInv, Ledger, IdsStay
<1>3. Mutex'
  BY <1>1 DEF OInv, Mutex, Inside
<1>4. Copies'
  BY <1>1 DEF OInv, Copies, Copy, Inside
<1>5. Consuming'
  BY <1>1 DEF OInv, Consuming
<1>6. Minting'
  <2> SUFFICES ASSUME NEW v \in Workers, work'[v].at = "mint"
               PROVE  /\ \E k, g : NewGrant(k, g)' /\ mem'[v] = [disk' EXCEPT ![k] = g]
                      /\ minted' > 0 /\ spent'[minted'] = 0
                      /\ \A k \in Keys : disk'[k].id # minted'
    BY DEF Minting
  <2>1. work[v].at = "mint" /\ mem'[v] = mem[v]
    BY <1>1
  <2>2. PICK k, g : NewGrant(k, g) /\ mem[v] = [disk EXCEPT ![k] = g]
    BY <2>1 DEF OInv, Minting
  <2>3. NewGrant(k, g)' /\ mem'[v] = [disk' EXCEPT ![k] = g]
    BY <2>1, <2>2 DEF NewGrant
  <2>4. minted' > 0 /\ spent'[minted'] = 0 /\ \A j \in Keys : disk'[j].id # minted'
    BY <2>1 DEF OInv, Minting
  <2> QED BY <2>3, <2>4
<1> QED BY <1>2, <1>3, <1>4, <1>5, <1>6 DEF OInv

\* With the lock free for one command of the only process, nobody is inside.
LEMMA NobodyInside ==
    ASSUME OneProcess, NEW w \in Workers, LockFree(w), ~Inside(w)
    PROVE  \A v \in Workers : ~Inside(v)
BY DEF OneProcess, LockFree, Inside

LEMMA FinishOInv ==
    ASSUME OInv, IInv', NEW w \in Workers, Finish(w),
           UNCHANGED <<disk, minted, faults, spent>>
    PROVE  OInv'
<1>1. Copy(NoGrants)
  BY NoGrantFacts DEF Copy, NoGrants
<1>2. Idle.at \notin {"consume", "mint"}
  BY DEF Idle
<1> QED BY <1>1, <1>2, OutsideStep DEF Finish, Hold

LEMMA GotoOInv ==
    ASSUME OInv, IInv', NEW w \in Workers, work[w].at # "idle", NEW m, Copy(m),
           NEW at \in {"check", "decide"}, Goto(w, at, m),
           UNCHANGED <<disk, minted, faults, spent>>
    PROVE  OInv'
<1> DEFINE x == [work[w] EXCEPT !.at = at]
<1>1. work[w] \in Running
  BY RunningFacts DEF OInv, IInv, TypeOK
<1>2. x.at = at
  BY <1>1 DEF Running
<1>3. work' = [work EXCEPT ![w] = x] /\ mem' = [mem EXCEPT ![w] = m]
  BY DEF Goto, Hold
<1> HIDE DEF x
<1> QED BY <1>2, <1>3, OutsideStep

LEMMA AskOInv ==
    ASSUME OInv, IInv', NEW w \in Workers, work[w].at # "idle", NEW m, Copy(m),
           NEW ks, Ask(w, ks, m), UNCHANGED <<disk, minted, faults, spent>>
    PROVE  OInv'
<1>1. PICK k \in ks :
        IF k \in work[w].granted \/ Scope(work[w].cmd, k) = "none" THEN Finish(w)
        ELSE /\ work' = [work EXCEPT ![w].at = "grant", ![w].req = k,
                                     ![w].granted = @ \cup {k}]
             /\ Hold(w, m)
  BY DEF Ask
<1>2. CASE Finish(w)
  BY <1>2, FinishOInv
<1>3. CASE ~Finish(w)
  <2> DEFINE x == [work[w] EXCEPT !.at = "grant", !.req = k, !.granted = @ \cup {k}]
  <2>1. WorkOK
    BY DEF OInv, IInv, TypeOK
  <2>2. work[w] \in Running
    BY <2>1, RunningFacts
  <2>3. x.at = "grant"
    BY <2>2 DEF Running
  <2>4. work' = [work EXCEPT ![w] = x] /\ mem' = [mem EXCEPT ![w] = m]
    BY <1>1, <1>3, <2>1 DEF Hold, WorkOK
  <2> HIDE DEF x
  <2> QED BY <2>3, <2>4, OutsideStep
<1> QED BY <1>2, <1>3

LEMMA BeginOInv ==
    ASSUME OInv, IInv', NEW w \in Workers, NEW c \in Commands, Begin(w, c)
    PROVE  OInv'
<1> DEFINE x == [at |-> IF c.kind \in {"batch", "single", "env", "new"} THEN Again(c) ELSE "act",
                 cmd |-> c, granted |-> {}, req |-> Lease, ids |-> {}]
<1>1. x.at \notin {"consume", "mint"}
  BY DEF Again
<1>2. work' = [work EXCEPT ![w] = x] /\ mem' = [mem EXCEPT ![w] = disk]
      /\ UNCHANGED <<disk, minted, faults, spent>>
  BY DEF Begin, Hold
<1>3. Copy(disk)
  BY DEF Copy
<1> HIDE DEF x
<1> QED BY <1>1, <1>2, <1>3, OutsideStep

LEMMA CheckOInv == ASSUME OInv, IInv', NEW w \in Workers, Check(w) PROVE OInv'
<1> DEFINE need == Missing(mem[w], work[w].cmd)
<1>1. work[w].at = "check" /\ UNCHANGED <<disk, minted, faults, spent>>
      /\ IF need = {} THEN Goto(w, "decide", mem[w]) ELSE Ask(w, need, mem[w])
  BY DEF Check
<1>2. Copy(mem[w])
  BY <1>1 DEF OInv, Copies, Inside
<1> HIDE DEF need
<1> QED BY <1>1, <1>2, GotoOInv, AskOInv

\* A command enters the critical section to consume.
LEMMA SpendOInv ==
    ASSUME OInv, IInv', NEW w \in Workers, work[w].at # "idle",
           \A v \in Workers : ~Inside(v),
           NEW ks \in SUBSET Keys, Spend(w, ks, disk),
           \A k \in ks : disk[k].id # 0 /\ ~disk[k].used,
           UNCHANGED <<disk, minted, faults, spent>>
    PROVE  OInv'
<1> DEFINE x == [work[w] EXCEPT !.at = "consume", !.ids = {disk[k].id : k \in ks}]
<1>0. WorkOK /\ mem \in [Workers -> Grants]
  BY DEF OInv, IInv, TypeOK
<1>1. work[w] \in Running
  BY <1>0, RunningFacts
<1>2. x.at = "consume" /\ x.ids = {disk[k].id : k \in ks}
  BY <1>1 DEF Running
<1>3. work' = [work EXCEPT ![w] = x] /\ mem' = [mem EXCEPT ![w] = Use(disk, ks)]
  BY <1>0 DEF Spend, Hold, WorkOK
<1> HIDE DEF x
<1>4. /\ \A v \in Workers : mem'[v] = IF v = w THEN Use(disk, ks) ELSE mem[v]
      /\ \A v \in Workers : work'[v] = IF v = w THEN x ELSE work[v]
  BY <1>0, <1>3 DEF WorkOK
<1>5. \A v \in Workers : Inside(v)' <=> v = w
  BY <1>2, <1>4 DEF Inside
<1>6. Ledger'
  BY DEF OInv, Ledger
<1>7. Mutex'
  BY <1>5 DEF Mutex
<1>8. Copies'
  BY <1>4, <1>5 DEF OInv, Copies, Copy
<1>9. Consuming'
  <2> SUFFICES ASSUME NEW v \in Workers, work'[v].at = "consume"
               PROVE  \E js \in SUBSET Keys :
                        /\ mem'[v] = Use(disk, js)
                        /\ work'[v].ids = {disk[k].id : k \in js}
                        /\ \A k \in js : disk[k].id # 0 /\ ~disk[k].used
    BY DEF Consuming
  <2>1. v = w
    BY <1>5 DEF Inside
  <2> WITNESS ks \in SUBSET Keys
  <2> QED BY <1>2, <1>4, <2>1
<1>10. Minting'
  BY <1>2, <1>4, <1>5 DEF Minting, Inside
<1> QED BY <1>6, <1>7, <1>8, <1>9, <1>10 DEF OInv

LEMMA DecideOInv ==
    ASSUME OneProcess, OInv, IInv', NEW w \in Workers, Decide(w) PROVE OInv'
<1> DEFINE c == work[w].cmd
           need == Missing(disk, c)
           once == Spends(disk, c)
<1>1. work[w].at = "decide" /\ LockFree(w) /\ UNCHANGED <<disk, minted, faults, spent>>
      /\ (Ask(w, need, disk) \/ Finish(w) \/ Spend(w, once, disk))
  BY DEF Decide
<1>2. Copy(disk)
  BY DEF Copy
<1>3. \A v \in Workers : ~Inside(v)
  BY <1>1, NobodyInside DEF Inside
<1>4. once \in SUBSET Keys
  BY <1>1, RunningFacts, SpendsKeys DEF OInv, IInv, TypeOK
<1>5. \A k \in once : disk[k].id # 0 /\ ~disk[k].used
  BY DEF Spends, Active
<1> HIDE DEF need, once
<1> QED BY <1>1, <1>2, <1>3, <1>4, <1>5, FinishOInv, AskOInv, SpendOInv

\* A step that leaves the critical section with the file replaced or not.
LEMMA LeaveStep ==
    ASSUME OInv, IInv', NEW w \in Workers, Inside(w), IdsStay, Ledger',
           NEW m, \A k \in Keys : m[k].id # 0 => disk'[k].id = m[k].id,
           mem' = [mem EXCEPT ![w] = m],
           NEW x, x.at \notin {"consume", "mint"}, work' = [work EXCEPT ![w] = x]
    PROVE  OInv'
<1>1. /\ \A v \in Workers : mem'[v] = IF v = w THEN m ELSE mem[v]
      /\ \A v \in Workers : work'[v] = IF v = w THEN x ELSE work[v]
  BY DEF OInv, IInv, TypeOK, WorkOK
<1>2. \A v \in Workers : ~Inside(v)' /\ (v # w => ~Inside(v))
  BY <1>1 DEF OInv, Mutex, Inside
<1>3. Mutex' /\ Consuming' /\ Minting'
  BY <1>2 DEF Mutex, Consuming, Minting, Inside
<1>4. Copies'
  <2> SUFFICES ASSUME NEW v \in Workers, v # w, NEW k \in Keys, mem[v][k].id # 0
               PROVE  disk'[k].id = mem[v][k].id
    BY <1>1 DEF Copies, Copy
  <2>1. disk[k].id = mem[v][k].id
    BY <1>2 DEF OInv, Copies, Copy
  <2> QED BY <2>1 DEF IdsStay
<1> QED BY <1>3, <1>4 DEF OInv

\* The consumption reaches the file, or is refused; the operation it stands
\* for is authorized only in the first case.
LEMMA ConsumeOInv ==
    ASSUME OInv, IInv', NEW w \in Workers, Consume(w) PROVE OInv' /\ IdsStay
<1>1. PICK ks \in SUBSET Keys :
         /\ mem[w] = Use(disk, ks)
         /\ work[w].ids = {disk[k].id : k \in ks}
         /\ \A k \in ks : disk[k].id # 0 /\ ~disk[k].used
  BY DEF OInv, Consuming, Consume
<1> DEFINE u == Use(disk, ks)
<1>2. disk \in Grants /\ minted \in Nat /\ minted' = minted /\ Inside(w)
  BY DEF OInv, IInv, TypeOK, Consume, Inside
<1>3. \A k \in Keys : /\ u[k].id = disk[k].id /\ u[k].scope = disk[k].scope
                      /\ (u[k].used <=> k \in ks \/ disk[k].used)
  BY <1>2, UseFacts
<1>4. \A k \in Keys : disk[k].id \in Nat /\ disk[k].used \in BOOLEAN
  BY <1>2 DEF Grants, GrantRecord
<1> HIDE DEF u
<1>5. disk' \in {disk, u}
  BY <1>1, DiskFacts DEF Consume, u
<1>6. IdsStay
  BY <1>3, <1>5 DEF IdsStay
<1>7. Ledger'
  <2>1. CASE disk' = u /\ UNCHANGED faults /\ Charge(work[w].ids)
    <3>1. spent' = [n \in 1..minted |-> IF n \in work[w].ids THEN spent[n] + 1 ELSE spent[n]]
      BY <2>1 DEF OInv, Ledger, Charge
    <3>2. \A k \in Keys : disk[k].id # 0 => disk[k].id \in 1..minted
      BY <1>2, <1>4 DEF OInv, Ledger
    <3>3. \A k \in Keys : disk[k].id # 0 => (disk[k].id \in work[w].ids <=> k \in ks)
      BY <1>1 DEF OInv, Ledger
    <3>4. \A k \in ks : spent[disk[k].id] = 0
      <4> SUFFICES ASSUME NEW k \in ks PROVE spent[disk[k].id] = 0
        OBVIOUS
      <4>1. disk[k].id \in 1..minted /\ ~(spent[disk[k].id] > 0)
        BY <1>1, <3>2 DEF OInv, Ledger
      <4> QED BY <4>1 DEF OInv, Ledger
    <3>5. \A n \in work[w].ids : spent[n] = 0
      BY <1>1, <3>4
    <3>6. spent' \in [1..minted -> {0, 1}]
      BY <3>1, <3>5 DEF OInv, Ledger
    <3>7. \A k \in Keys : disk[k].id # 0 =>
             spent'[disk[k].id] = IF k \in ks THEN 1 ELSE spent[disk[k].id]
      BY <3>1, <3>2, <3>3, <3>4
    <3>8. \A k \in Keys : disk[k].id # 0 =>
             /\ disk[k].id <= minted
             /\ disk[k].scope = "once"
             /\ spent'[disk[k].id] > 0 => k \in ks \/ disk[k].used
             /\ (k \in ks \/ disk[k].used) /\ faults = 0 => spent'[disk[k].id] > 0
      BY <3>7 DEF OInv, Ledger
    <3> QED BY <1>2, <1>3, <2>1, <3>6, <3>8 DEF OInv, Ledger
  <2>2. CASE faults' = faults + 1 /\ UNCHANGED spent
    <3>1. faults' \in Nat /\ faults' # 0
      BY <2>2 DEF OInv, Ledger
    <3>2. \A k \in Keys : /\ disk'[k].id = disk[k].id /\ disk'[k].scope = disk[k].scope
                          /\ disk[k].used => disk'[k].used
      BY <1>3, <1>5
    <3> QED BY <1>2, <2>2, <3>1, <3>2 DEF OInv, Ledger
  <2> QED BY <1>1, <2>1, <2>2 DEF Consume, Wrote, WriteFailed, u
<1>8. \A k \in Keys : NoGrants[k].id # 0 => disk'[k].id = NoGrants[k].id
  BY NoGrantFacts DEF NoGrants
<1>9. Idle.at \notin {"consume", "mint"}
  BY DEF Idle
<1>10. mem' = [mem EXCEPT ![w] = NoGrants] /\ work' = [work EXCEPT ![w] = Idle]
  BY DEF Consume, Finish, Hold
<1>11. OInv'
  BY <1>2, <1>6, <1>7, <1>8, <1>9, <1>10, LeaveStep
<1> QED BY <1>6, <1>11

\* The mint reaches the file, or the command fails.
LEMMA MintOInv ==
    ASSUME OInv, IInv', NEW w \in Workers, Mint(w)
    PROVE  /\ OInv' /\ IdsStay
           /\ \A k \in Keys : disk[k].scope = "once" => disk'[k].id = disk[k].id
<1>0. work[w].at = "mint" /\ Inside(w)
  BY DEF Mint, Inside
<1>1. PICK k, g : NewGrant(k, g) /\ mem[w] = [disk EXCEPT ![k] = g]
  BY <1>0 DEF OInv, Minting
<1>2. minted > 0 /\ spent[minted] = 0 /\ \A j \in Keys : disk[j].id # minted
  BY <1>0 DEF OInv, Minting
<1>3. disk \in Grants /\ minted \in Nat /\ minted' = minted /\ UNCHANGED spent
  BY DEF OInv, IInv, TypeOK, Mint
<1>4. \A j \in Keys : mem[w][j] = IF j = k THEN g ELSE disk[j]
  BY <1>1, <1>3 DEF Grants
<1>5. disk' \in {disk, mem[w]}
  BY DiskFacts DEF Mint
<1>6. k \in Keys /\ disk[k].scope # "once" /\ disk[k].id = 0
      /\ g.id = minted /\ g.scope = "once" /\ ~g.used
  BY <1>1 DEF NewGrant, OInv, Ledger
<1>7. IdsStay /\ \A j \in Keys : disk[j].scope = "once" => disk'[j].id = disk[j].id
  BY <1>4, <1>5, <1>6 DEF IdsStay
<1>8. faults' \in Nat /\ (faults' = 0 => faults = 0)
  BY DEF OInv, Ledger, Mint, Wrote, WriteFailed
<1>9. Ledger'
  <2>1. CASE disk' = disk
    BY <1>3, <1>8, <2>1 DEF OInv, Ledger
  <2>2. CASE disk' = mem[w]
    <3>1. spent' \in [1..minted' -> {0, 1}] /\ minted <= minted'
      BY <1>3 DEF OInv, Ledger
    <3>2. \A j \in Keys : disk'[j] = IF j = k THEN g ELSE disk[j]
      BY <1>4, <2>2
    <3>3. ASSUME NEW j \in Keys, disk'[j].id # 0
          PROVE  /\ disk'[j].id <= minted'
                 /\ disk'[j].scope = "once"
                 /\ spent'[disk'[j].id] > 0 => disk'[j].used
                 /\ disk'[j].used /\ faults' = 0 => spent'[disk'[j].id] > 0
      <4>1. CASE j = k
        BY <1>2, <1>3, <1>6, <3>2, <4>1
      <4>2. CASE j # k
        BY <1>3, <1>8, <3>2, <3>3, <4>2 DEF OInv, Ledger
      <4> QED BY <4>1, <4>2
    <3>4. \A i, j \in Keys : disk'[i].id = disk'[j].id /\ disk'[j].id # 0 => i = j
      BY <1>2, <1>6, <3>2 DEF OInv, Ledger
    <3> QED BY <1>8, <3>1, <3>3, <3>4 DEF Ledger
  <2> QED BY <1>5, <2>1, <2>2
<1>10. CASE disk' = mem[w] /\ Goto(w, Again(work[w].cmd), mem[w])
  <2> DEFINE x == [work[w] EXCEPT !.at = Again(work[w].cmd)]
  <2>1. work[w] \in Running
    BY <1>0, RunningFacts DEF OInv, IInv, TypeOK
  <2>2. x.at \notin {"consume", "mint"}
    BY <2>1 DEF Running, Again
  <2>3. work' = [work EXCEPT ![w] = x] /\ mem' = [mem EXCEPT ![w] = mem[w]]
    BY <1>10 DEF Goto, Hold
  <2> HIDE DEF x
  <2>4. OInv'
    BY <1>0, <1>7, <1>9, <1>10, <2>2, <2>3, LeaveStep
  <2> QED BY <1>7, <2>4
<1>11. CASE Finish(w)
  <2>1. \A j \in Keys : NoGrants[j].id # 0 => disk'[j].id = NoGrants[j].id
    BY NoGrantFacts DEF NoGrants
  <2>2. Idle.at \notin {"consume", "mint"}
    BY DEF Idle
  <2>3. mem' = [mem EXCEPT ![w] = NoGrants] /\ work' = [work EXCEPT ![w] = Idle]
    BY <1>11 DEF Finish, Hold
  <2>4. OInv'
    BY <1>0, <1>7, <1>9, <2>1, <2>2, <2>3, LeaveStep
  <2> QED BY <1>7, <2>4
<1> QED BY <1>10, <1>11 DEF Mint, Wrote

\* In one process the file already has every lease a handle knows of.
LEMMA RefreshedIsFile ==
    ASSUME OInv, NEW w \in Workers, ~Inside(w), NEW k PROVE Refreshed(w, k) = disk
<1>1. Active(mem[w], Lease) => disk[Lease].id # 0
  BY KeyFacts DEF Active, OInv, Copies, Copy
<1> QED BY <1>1 DEF Refreshed

\* A command enters the critical section to mint.
LEMMA GrantOnceOInv ==
    ASSUME OneProcess, OInv, IInv', NEW w \in Workers, GrantOnce(w) PROVE OInv'
<1> DEFINE c == work[w].cmd
           k == work[w].req
           g == Grant(k, minted + 1, "once", IF k = Conv THEN disk[Lease].id ELSE 0)
           new == [disk EXCEPT ![k] = g]
<1>0. work[w].at = "grant" /\ LockFree(w) /\ UNCHANGED <<disk, faults>> /\ ~Inside(w)
  BY DEF GrantOnce, Inside
<1>1. \A v \in Workers : ~Inside(v)
  BY <1>0, NobodyInside
<1>2. Refreshed(w, k) = disk /\ Copy(disk)
  BY <1>0, RefreshedIsFile DEF Copy
<1>3. CASE Goto(w, Again(c), disk) /\ UNCHANGED <<minted, spent>>
  <2>1. Again(c) \in {"check", "decide"}
    BY DEF Again
  <2> QED BY <1>0, <1>2, <1>3, <2>1, GotoOInv
<1>4. CASE Finish(w) /\ UNCHANGED <<minted, spent>>
  BY <1>0, <1>4, FinishOInv
<1>5. CASE ~OnceExists(disk, k) /\ NewId /\ Goto(w, "mint", new)
  <2> DEFINE x == [work[w] EXCEPT !.at = "mint"]
  <2>0. disk \in Grants /\ minted \in Nat /\ WorkOK /\ mem \in [Workers -> Grants]
    BY DEF OInv, IInv, TypeOK
  <2>1. work[w] \in Running /\ k \in Keys
    BY <1>0, <2>0, RunningFacts, KeyFacts
  <2>2. x.at = "mint"
    BY <2>1 DEF Running
  <2>3. work' = [work EXCEPT ![w] = x] /\ mem' = [mem EXCEPT ![w] = new]
    BY <1>5 DEF Goto, Hold
  <2>4. g \in GrantRecord /\ g.id = minted + 1 /\ g.scope = "once" /\ ~g.used
    <3>1. "once" \in Scopes \cup {"none"} /\ minted + 1 \in Nat
      BY <2>0 DEF Scopes
    <3> QED BY <2>0, <3>1, LeaseIdType, GrantFacts
  <2> HIDE DEF x, g, new
  <2>5. /\ \A v \in Workers : mem'[v] = IF v = w THEN new ELSE mem[v]
        /\ \A v \in Workers : work'[v] = IF v = w THEN x ELSE work[v]
    BY <2>0, <2>3 DEF WorkOK
  <2>6. \A v \in Workers : Inside(v)' <=> v = w
    BY <1>1, <2>2, <2>5 DEF Inside
  <2>7. /\ minted' = minted + 1
        /\ spent' \in [1..minted' -> {0, 1}]
        /\ \A n \in 1..minted : spent'[n] = spent[n]
        /\ spent'[minted'] = 0
    BY <1>5, <2>0 DEF NewId, OInv, Ledger
  <2>8. \A j \in Keys : disk[j].id # 0 => disk[j].id \in 1..minted
    BY <2>0 DEF OInv, Ledger, Grants, GrantRecord
  <2>9. Ledger'
    BY <1>0, <2>0, <2>7, <2>8 DEF OInv, Ledger
  <2>10. Mutex' /\ Copies' /\ Consuming'
    BY <1>0, <1>1, <2>2, <2>5, <2>6 DEF OInv, Mutex, Copies, Copy, Consuming, Inside
  <2>11. Minting'
    <3> SUFFICES ASSUME NEW v \in Workers, work'[v].at = "mint"
                 PROVE  /\ \E j, h : NewGrant(j, h)' /\ mem'[v] = [disk' EXCEPT ![j] = h]
                        /\ minted' > 0 /\ spent'[minted'] = 0
                        /\ \A j \in Keys : disk'[j].id # minted'
      BY DEF Minting
    <3>1. v = w
      BY <2>6 DEF Inside
    <3> PICK j, h : j = k /\ h = g
      OBVIOUS
    <3>2. NewGrant(j, h)'
      BY <1>0, <1>5, <2>1, <2>4, <2>7 DEF NewGrant, OnceExists
    <3>3. mem'[v] = [disk' EXCEPT ![j] = h]
      BY <1>0, <2>5, <3>1 DEF new
    <3>4. minted' > 0 /\ spent'[minted'] = 0 /\ \A i \in Keys : disk'[i].id # minted'
      BY <1>0, <2>0, <2>7, <2>8
    <3> QED BY <3>2, <3>3, <3>4
  <2> QED BY <2>9, <2>10, <2>11 DEF OInv
<1> QED BY <1>2, <1>3, <1>4, <1>5 DEF GrantOnce

OnceFiles ==
    \A k \in {Lease, Conv} \cup {Secret(i) : i \in Items} :
        disk[k].scope = "once" => disk'[k].id = disk[k].id

LEMMA OnceStepOInv ==
    ASSUME OneProcess, OInv, IInv', NEW w \in Workers, OnceStep(w)
    PROVE  OInv' /\ OnceFiles
<1>1. CASE Check(w)
  BY <1>1, CheckOInv DEF Check, OnceFiles
<1>2. CASE Decide(w)
  BY <1>2, DecideOInv DEF Decide, OnceFiles
<1>3. CASE Consume(w)
  <2>1. OInv' /\ IdsStay
    BY <1>3, ConsumeOInv
  <2>2. \A k \in Keys : disk'[k].id = disk[k].id
    <3>1. PICK ks \in SUBSET Keys : mem[w] = Use(disk, ks)
      BY <1>3 DEF OInv, Consuming, Consume
    <3>2. disk' \in {disk, Use(disk, ks)} /\ disk \in Grants
      BY <1>3, <3>1, DiskFacts DEF Consume, OInv, IInv, TypeOK
    <3> QED BY <3>2, UseFacts
  <2> QED BY <2>1, <2>2, KeyFacts DEF OnceFiles, Asked
<1>4. CASE GrantOnce(w)
  BY <1>4, GrantOnceOInv DEF GrantOnce, OnceFiles
<1>5. CASE Mint(w)
  BY <1>5, MintOInv, KeyFacts DEF OnceFiles, Asked
<1> QED BY <1>1, <1>2, <1>3, <1>4, <1>5 DEF OnceStep

LEMMA OnceNextIsNext == OnceNext => Next
BY Zenon DEF OnceNext, OnceStep, Next, Step

\* Time passing changes neither the file nor a handle.
LEMMA StillOInv ==
    ASSUME OInv, IInv', UNCHANGED <<disk, mem, work, minted, faults, spent>>
    PROVE  OInv' /\ OnceFiles
<1>1. Ledger' /\ Mutex' /\ Copies' /\ Consuming'
  BY DEF OInv, Ledger, Mutex, Inside, Copies, Copy, Consuming
<1>2. Minting'
  <2>1. \A k, g : NewGrant(k, g)' <=> NewGrant(k, g)
    BY DEF NewGrant
  <2> QED BY <2>1 DEF OInv, Minting
<1> QED BY <1>1, <1>2 DEF OInv, OnceFiles

LEMMA OnceNextOInv ==
    ASSUME OneProcess, OInv, [OnceNext \/ \E n \in 1..minted : Expire(n)]_vars
    PROVE  OInv' /\ OnceFiles
<1>0. IInv'
  BY NextIInv, OnceNextIsNext DEF OInv, Next
<1>1. ASSUME NEW w \in Workers, OnceStep(w) PROVE OInv' /\ OnceFiles
  BY <1>0, <1>1, OnceStepOInv
<1>2. ASSUME NEW w \in Workers, NEW c \in Commands, Begin(w, c) PROVE OInv' /\ OnceFiles
  BY <1>0, <1>2, BeginOInv DEF Begin, OnceFiles
<1>3. ASSUME NEW n \in 1..minted, Expire(n) PROVE OInv' /\ OnceFiles
  BY <1>0, <1>3, StillOInv DEF Expire
<1>4. CASE UNCHANGED vars
  BY <1>0, <1>4, StillOInv DEF vars
<1> QED BY <1>1, <1>2, <1>3, <1>4 DEF OnceNext

LEMMA OnceSafe ==
    OInv => /\ \A n \in 1..minted : spent[n] <= 1
            /\ \A k \in Keys : disk[k].id # 0 =>
                 /\ spent[disk[k].id] > 0 => disk[k].used
                 /\ disk[k].used /\ faults = 0 => spent[disk[k].id] > 0
BY DEF OInv, Ledger

\* Once means once, for any number of commands of one process that race for
\* once grants, and whatever writes of the vault file fail.
THEOREM OnceGrants ==
    ASSUME OneProcess
    PROVE  OnceSpec => OnceMeansOnce
<1>1. Init => OInv
  BY InitOInv
<1>2. OInv /\ [OnceNext]_vars => OInv' /\ OnceFiles
  BY OnceNextOInv
<1>3. OInv /\ [OnceNext]_vars =>
        [\A k \in {Lease, Conv} \cup {Secret(i) : i \in Items} :
            disk[k].scope = "once" => disk'[k].id = disk[k].id]_vars
  BY <1>2 DEF OnceFiles
<1> QED BY <1>1, <1>2, <1>3, OnceSafe, PTL DEF OnceSpec, OnceMeansOnce

-----------------------------------------------------------------------------
(* The same for the whole specification, when only such commands are run *)

OnlyOnce ==
    /\ Ops \subseteq {"batch", "single", "env"}
    /\ LeaseScopes \cup SecretScopes \cup ConvScopes \subseteq {"once", "none"}

\* What a loop asks for, the caller has offered.
Offered == \A w \in Workers : work[w].at = "grant" =>
               Scope(work[w].cmd, work[w].req) # "none"

LEMMA AskOffers ==
    ASSUME WorkOK, Offered, NEW w \in Workers, work[w].at # "idle", NEW ks, NEW m,
           Ask(w, ks, m)
    PROVE  Offered'
<1>1. PICK k \in ks :
        IF k \in work[w].granted \/ Scope(work[w].cmd, k) = "none" THEN Finish(w)
        ELSE /\ work' = [work EXCEPT ![w].at = "grant", ![w].req = k,
                                     ![w].granted = @ \cup {k}]
             /\ Hold(w, m)
  BY DEF Ask
<1>2. CASE Finish(w)
  BY <1>2 DEF Finish, Offered, WorkOK, Idle
<1>3. CASE ~Finish(w)
  <2> DEFINE x == [work[w] EXCEPT !.at = "grant", !.req = k, !.granted = @ \cup {k}]
  <2>1. work' = [work EXCEPT ![w] = x] /\ Scope(work[w].cmd, k) # "none"
    BY <1>1, <1>3 DEF WorkOK
  <2>2. x.cmd = work[w].cmd /\ x.req = k
    BY RunningFacts DEF Running
  <2> HIDE DEF x
  <2>3. \A v \in Workers : work'[v] = IF v = w THEN x ELSE work[v]
    BY <2>1 DEF WorkOK
  <2> QED BY <2>1, <2>2, <2>3 DEF Offered
<1> QED BY <1>2, <1>3

LEMMA OnceOffers ==
    ASSUME WorkOK, Offered, [OnceNext \/ \E n \in 1..minted : Expire(n)]_vars
    PROVE  Offered'
<1>1. ASSUME NEW w \in Workers, NEW x, work' = [work EXCEPT ![w] = x], x.at # "grant"
      PROVE  Offered'
  BY <1>1 DEF Offered, WorkOK
<1>2. ASSUME NEW w \in Workers, Finish(w) PROVE Offered'
  <2>1. Idle.at # "grant" /\ work' = [work EXCEPT ![w] = Idle]
    BY <1>2 DEF Finish, Idle
  <2> QED BY <1>1, <2>1
<1>3. ASSUME NEW w \in Workers, work[w].at # "idle", NEW at, at # "grant",
             work' = [work EXCEPT ![w].at = at]
      PROVE  Offered'
  <2> DEFINE x == [work[w] EXCEPT !.at = at]
  <2>1. x.at = at
    BY <1>3, RunningFacts DEF Running
  <2> HIDE DEF x
  <2> QED BY <1>1, <1>3, <2>1 DEF x
<1>4. ASSUME NEW w \in Workers, work[w].at # "idle", NEW ks, NEW m, Spend(w, ks, m)
      PROVE  Offered'
  <2> DEFINE x == [work[w] EXCEPT !.at = "consume", !.ids = {m[k].id : k \in ks}]
  <2>1. x.at = "consume"
    BY <1>4, RunningFacts DEF Running
  <2>2. work' = [work EXCEPT ![w] = x]
    BY <1>4 DEF Spend, WorkOK
  <2> HIDE DEF x
  <2> QED BY <1>1, <2>1, <2>2
<1>5. ASSUME NEW w \in Workers, Check(w) PROVE Offered'
  BY <1>3, <1>5, AskOffers DEF Check, Goto
<1>6. ASSUME NEW w \in Workers, Decide(w) PROVE Offered'
  BY <1>2, <1>4, <1>6, AskOffers DEF Decide
<1>7. ASSUME NEW w \in Workers, Consume(w) PROVE Offered'
  BY <1>2, <1>7 DEF Consume
<1>8. ASSUME NEW w \in Workers, GrantOnce(w) PROVE Offered'
  <2>1. Again(work[w].cmd) # "grant"
    BY DEF Again
  <2> QED BY <1>2, <1>3, <1>8, <2>1 DEF GrantOnce, Goto
<1>9. ASSUME NEW w \in Workers, Mint(w) PROVE Offered'
  <2>1. Again(work[w].cmd) # "grant"
    BY DEF Again
  <2> QED BY <1>2, <1>3, <1>9, <2>1 DEF Mint, Goto
<1>10. ASSUME NEW w \in Workers, NEW c \in Commands, Begin(w, c) PROVE Offered'
  <2> DEFINE x == [at |-> IF c.kind \in {"batch", "single", "env", "new"} THEN Again(c) ELSE "act",
                   cmd |-> c, granted |-> {}, req |-> Lease, ids |-> {}]
  <2>1. x.at # "grant" /\ work' = [work EXCEPT ![w] = x]
    BY <1>10 DEF Begin, Again
  <2> HIDE DEF x
  <2> QED BY <1>1, <2>1
<1>11. ASSUME UNCHANGED work PROVE Offered'
  BY <1>11 DEF Offered
<1> QED BY <1>5, <1>6, <1>7, <1>8, <1>9, <1>10, <1>11
        DEF OnceNext, OnceStep, Expire, vars

\* Such commands take no other steps.
LEMMA NextIsOnce ==
    ASSUME OnlyOnce, WorkOK, Offered, Next
    PROVE  OnceNext \/ \E n \in 1..minted : Expire(n)
<1> SUFFICES ASSUME NEW w \in Workers, Step(w) PROVE OnceStep(w)
  BY Zenon DEF Next, OnceNext
<1>1. CASE work[w].at = "idle"
  BY <1>1 DEF Step, Check, Decide, Consume, CaptureNew, GrantStanding, GrantOnce, Mint,
              RevokeGrants, GrantTimed, SpendTimed
<1>2. CASE work[w].at # "idle"
  <2>1. work[w].cmd \in Commands
    BY <1>2, RunningFacts
  <2>2. work[w].cmd.kind \in {"batch", "single", "env"}
    BY <2>1 DEF OnlyOnce, Commands
  <2>3. Scope(work[w].cmd, work[w].req) \in {"once", "none"}
    <3>1. /\ work[w].cmd.lease \in {"once", "none"} /\ work[w].cmd.conv \in {"once", "none"}
          /\ work[w].cmd.secret \in {"once", "none"}
      BY <2>1 DEF OnlyOnce, Commands
    <3> QED BY <3>1 DEF Scope
  <2>4. ~GrantStanding(w)
    BY <2>3 DEF GrantStanding, Offered
  <2>5. ~CaptureNew(w) /\ ~RevokeGrants(w) /\ ~GrantTimed(w) /\ ~SpendTimed(w)
    BY <2>2 DEF CaptureNew, RevokeGrants, GrantTimed, SpendTimed
  <2> QED BY <2>4, <2>5 DEF Step, OnceStep
<1> QED BY <1>1, <1>2

\* When every command uses secrets under once grants, the whole specification,
\* with time passing too, has the guarantee.
THEOREM OnceGrantsEverywhere ==
    ASSUME OneProcess, OnlyOnce
    PROVE  Spec => OnceMeansOnce
<1> DEFINE Inv == OInv /\ Offered
<1>1. Init => Inv
  BY InitOInv DEF Init, Offered, Idle
<1>2. Inv /\ [Next]_vars => Inv' /\ OnceFiles
  <2> SUFFICES ASSUME Inv, [Next]_vars PROVE Inv' /\ OnceFiles
    OBVIOUS
  <2>1. WorkOK
    BY DEF OInv, IInv, TypeOK
  <2>2. [OnceNext \/ \E n \in 1..minted : Expire(n)]_vars
    BY <2>1, NextIsOnce
  <2> QED BY <2>1, <2>2, OnceNextOInv, OnceOffers
<1>3. Inv /\ [Next]_vars =>
        [\A k \in {Lease, Conv} \cup {Secret(i) : i \in Items} :
            disk[k].scope = "once" => disk'[k].id = disk[k].id]_vars
  BY <1>2 DEF OnceFiles
<1>4. Inv => /\ \A n \in 1..minted : spent[n] <= 1
             /\ \A k \in Keys : disk[k].id # 0 =>
                  /\ spent[disk[k].id] > 0 => disk[k].used
                  /\ disk[k].used /\ faults = 0 => spent[disk[k].id] > 0
  BY OnceSafe
<1> HIDE DEF Inv
<1> QED BY <1>1, <1>2, <1>3, <1>4, PTL DEF Spec, OnceMeansOnce
=============================================================================
