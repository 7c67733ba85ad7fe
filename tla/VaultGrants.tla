----------------------------- MODULE VaultGrants -----------------------------
(***************************************************************************)
(* Grants kept in the sealed vault file and the commands that ask for,     *)
(* spend and revoke them: the store's grant_authorize.go and               *)
(* grant_mutations.go with persist, and the authorization loops of         *)
(* brokerops (AuthorizeReferences, AuthorizeReference, AuthorizeItem,      *)
(* AuthorizeCapture).                                                      *)
(*                                                                         *)
(* A command opens the vault, which gives it a private copy of the whole   *)
(* state, and every change is written back by replacing the whole file.    *)
(* lockVaultStatePath is a mutex inside one process; commands of different *)
(* processes are only kept from tearing the file.  One project binding and *)
(* one session are modelled: a grant key is then its kind and its item.    *)
(***************************************************************************)
EXTENDS Naturals, FiniteSets

CONSTANTS
    Workers,      \* goroutines or CLI processes that run commands
    Process,      \* worker -> the operating system process it runs in
    Items,        \* vault items
    NoItem,       \* the item of a grant that names none
    Policy,       \* item -> "auto", "session" or "access"
    Ops,          \* the kinds of commands that are run
    LeaseScopes,  \* what a caller may offer for the project lease,
    SecretScopes, \* for a secret, and
    ConvScopes,   \* for writing an env file; "none" is no offer
    Turns,        \* bound: commands per worker
    Faults        \* bound: failed writes of the vault file

Scopes == {"once", "session", "window"}

ASSUME GrantAssumption ==
    /\ NoItem \notin Items
    /\ Policy \in [Items -> {"auto", "session", "access"}]
    /\ LeaseScopes \cup SecretScopes \cup ConvScopes \subseteq Scopes \cup {"none"}
    /\ Turns \in Nat /\ Faults \in Nat

Lease     == [kind |-> "lease", item |-> NoItem]
Conv      == [kind |-> "conv", item |-> NoItem]
Secret(i) == [kind |-> "secret", item |-> i]
Plain(i)  == [kind |-> "plain", item |-> i]
Mut(i)    == [kind |-> "mut", item |-> i]
Keys      == {Lease, Conv} \cup UNION {{Secret(i), Plain(i), Mut(i)} : i \in Items}

\* A grant; id 0 stands for a key without one.  "lease" is the lease a
\* convenience grant was given under, "ends" says whether it expires.
NoGrant == [id |-> 0, scope |-> "none", lease |-> 0, ends |-> FALSE,
            used |-> FALSE, revoked |-> FALSE]

Grant(k, id, scope, lease) ==
    [NoGrant EXCEPT !.id = id, !.scope = scope, !.lease = lease,
                    !.ends = (scope = "window" \/ k.kind \in {"plain", "mut"})]

NoGrants == [k \in Keys |-> NoGrant]

VARIABLES
    disk,     \* the grants in the vault file
    mem,      \* worker -> the private copy of its handle
    work,     \* worker -> the command it runs and where it is
    turns,    \* worker -> commands begun
    minted,   \* ids given out: 1..minted
    expired,  \* ids whose time has passed
    faults,   \* failed writes so far
    spent     \* id -> operations this once grant has authorized

vars == <<disk, mem, work, turns, minted, expired, faults, spent>>

Commands == [kind: Ops, items: SUBSET Items, lease: LeaseScopes,
             secret: SecretScopes, conv: ConvScopes]
Idle == [at |-> "idle"]

-----------------------------------------------------------------------------
(* Decisions *)

\* grantIsActive
Active(m, k) ==
    /\ m[k].id # 0
    /\ ~m[k].revoked
    /\ ~(m[k].scope = "once" /\ m[k].used)
    /\ ~(m[k].ends /\ m[k].id \in expired)

\* authorizeCurrent: the grants the command's requests still need.
Missing(m, c) ==
    CASE ~Active(m, Lease) -> {Lease}
      [] c.kind = "env" /\ Active(m, Lease) /\ ~Active(m, Conv) -> {Conv}
      [] OTHER -> {Secret(i) : i \in {j \in c.items :
                       Policy[j] # "auto" /\ ~Active(m, Secret(j))}}

\* consumeOnceGrantsForAuthorizedRequest: the once grants a request spends.
Spends(m, c) ==
    {k \in {Lease} \cup {Secret(i) : i \in c.items}
               \cup (IF c.kind = "env" THEN {Conv} ELSE {}) :
        m[k].scope = "once" /\ Active(m, k)}

Use(m, ks)    == [k \in Keys |-> IF k \in ks THEN [m[k] EXCEPT !.used = TRUE] ELSE m[k]]
Revoke(m, ks) == [k \in Keys |-> IF k \in ks /\ m[k].id # 0
                                 THEN [m[k] EXCEPT !.revoked = TRUE] ELSE m[k]]

Scope(c, k) == CASE k = Lease -> c.lease [] k = Conv -> c.conv [] OTHER -> c.secret

Charge(ids) == spent' = [n \in DOMAIN spent |-> IF n \in ids THEN spent[n] + 1 ELSE spent[n]]

-----------------------------------------------------------------------------
(* Locking and writing *)

\* lockVaultStatePath: nobody else of this process is inside.
LockFree(w) == \A v \in Workers \ {w} :
    Process[v] = Process[w] => work[v].at \notin {"consume", "mint"}

\* persistUnlocked: replace the file by m.  A failure before the rename
\* leaves the old file, one after it the new file.
Wrote(m) == disk' = m /\ UNCHANGED faults
WriteFailed(m) ==
    /\ faults < Faults
    /\ faults' = faults + 1
    /\ disk' \in {disk, m}

Hold(w, m) == mem' = [mem EXCEPT ![w] = m]
Goto(w, at, m) == work' = [work EXCEPT ![w].at = at] /\ Hold(w, m)

\* The command ends and its handle is dropped.
Finish(w) == work' = [work EXCEPT ![w] = Idle] /\ Hold(w, NoGrants)

\* Where a loop begins: the single-request loops first ask their own copy.
Again(c) == IF c.kind = "batch" THEN "decide" ELSE "check"

\* A change of the handle's own copy followed by persist(), the last thing
\* a command does; ids are the once grants it has then spent.
Persist(w, m, ids) ==
    /\ LockFree(w)
    /\ \/ Wrote(m) /\ Charge(ids)
       \/ WriteFailed(m) /\ UNCHANGED spent
    /\ Finish(w)

-----------------------------------------------------------------------------
(* Commands *)

\* A command starts and opens the vault.
Begin(w, c) ==
    /\ work[w].at = "idle" /\ turns[w] < Turns
    /\ c.kind \notin {"batch"} => Cardinality(c.items) = 1
    /\ turns' = [turns EXCEPT ![w] = @ + 1]
    /\ Hold(w, disk)
    /\ work' = [work EXCEPT ![w] =
           [at |-> IF c.kind \in {"batch", "single", "env", "new"} THEN Again(c) ELSE "act",
            cmd |-> c, granted |-> {}, req |-> Lease, ids |-> {}]]
    /\ UNCHANGED <<disk, minted, expired, faults, spent>>

\* The requirement that stopped a loop: ask for its grant once, or give up.
Ask_Forever(w, ks, m) ==
    \E k \in ks :
        IF Scope(work[w].cmd, k) = "none" THEN Finish(w)
        ELSE /\ work' = [work EXCEPT ![w].at = "grant", ![w].req = k]
             /\ Hold(w, m)

Ask(w, ks, m) ==
    \E k \in ks :
        IF k \in work[w].granted \/ Scope(work[w].cmd, k) = "none" THEN Finish(w)
        ELSE /\ work' = [work EXCEPT ![w].at = "grant", ![w].req = k,
                                     ![w].granted = @ \cup {k}]
             /\ Hold(w, m)

\* Authorize, on the handle's own copy.
Check(w) ==
    LET c == work[w].cmd  need == Missing(mem[w], c) IN
    /\ work[w].at = "check" /\ c.kind # "new"
    /\ IF need = {} THEN Goto(w, "decide", mem[w]) ELSE Ask(w, need, mem[w])
    /\ UNCHANGED <<disk, turns, minted, expired, faults, spent>>

\* Mark the once grants used in the own copy, about to write it.
Spend(w, ks, m) ==
    /\ work' = [work EXCEPT ![w].at = "consume", ![w].ids = {m[k].id : k \in ks}]
    /\ Hold(w, Use(m, ks))

\* AuthorizeBatchAndConsume: lock, read the file, decide; with nothing to
\* consume the lock is released at once.
Decide_OwnCopy(w) ==
    LET c == work[w].cmd  need == Missing(mem[w], c)  once == Spends(mem[w], c) IN
    /\ work[w].at = "decide" /\ LockFree(w)
    /\ CASE need # {} -> Ask(w, need, mem[w])
         [] need = {} /\ once = {} -> Finish(w)
         [] OTHER -> Spend(w, once, mem[w])
    /\ UNCHANGED <<disk, turns, minted, expired, faults, spent>>

Decide(w) ==
    LET c == work[w].cmd  need == Missing(disk, c)  once == Spends(disk, c) IN
    /\ work[w].at = "decide" /\ LockFree(w)
    /\ CASE need # {} -> Ask(w, need, disk)
         [] need = {} /\ once = {} -> Finish(w)
         [] OTHER -> Spend(w, once, disk)
    /\ UNCHANGED <<disk, turns, minted, expired, faults, spent>>

\* The consumption reaches the file and the command may proceed; or the
\* write fails and it may not.
Consume(w) ==
    /\ work[w].at = "consume"
    /\ \/ Wrote(mem[w]) /\ Charge(work[w].ids)
       \/ WriteFailed(mem[w]) /\ UNCHANGED spent
    /\ Finish(w)
    /\ UNCHANGED <<turns, minted, expired>>

\* AuthorizeCapture of a new item: a lease and a write grant are needed,
\* and a once lease is spent without reading the file again.
CaptureNew(w) ==
    LET m == mem[w] IN
    /\ work[w].at = "check" /\ work[w].cmd.kind = "new"
    /\ \/ /\ ~Active(m, Lease)
          /\ Ask(w, {Lease}, m)
          /\ UNCHANGED <<disk, faults, spent>>
       \/ /\ Active(m, Lease)   \* no write grant, or nothing to spend
          /\ Finish(w)
          /\ UNCHANGED <<disk, faults, spent>>
       \/ /\ Active(m, Lease) /\ m[Lease].scope = "once"
          /\ Persist(w, Use(m, {Lease}), {m[Lease].id})
    /\ UNCHANGED <<turns, minted, expired>>

\* GrantConvenience needs an active lease in the handle's copy.
ConvAllowed(m, k) == k = Conv => Active(m, Lease)

NewId == /\ minted' = minted + 1
         /\ spent' = [n \in 1..minted + 1 |-> IF n <= minted THEN spent[n] ELSE 0]

\* Grant*, session and window scopes: set in the own copy and written back.
GrantStanding(w) ==
    LET c == work[w].cmd  k == work[w].req  m == mem[w]
        new == [m EXCEPT ![k] = Grant(k, minted + 1, Scope(c, k),
                                      IF k = Conv THEN m[Lease].id ELSE 0)] IN
    /\ work[w].at = "grant" /\ Scope(c, k) # "once"
    /\ \/ /\ ~ConvAllowed(m, k) /\ Finish(w)
          /\ UNCHANGED <<disk, faults, minted, spent>>
       \/ /\ ConvAllowed(m, k)
          /\ LockFree(w) /\ NewId
          /\ \/ Wrote(new) /\ Goto(w, Again(c), new)
             \/ WriteFailed(new) /\ Finish(w)
    /\ UNCHANGED <<turns, expired>>

\* The file as GrantConvenience sees it: a lease only the handle knows of is
\* carried over.
Refreshed(w, k) ==
    IF k = Conv /\ disk[Lease].id = 0 /\ Active(mem[w], Lease)
    THEN [disk EXCEPT ![Lease] = mem[w][Lease]] ELSE disk

\* Grant*, scope once, under the lock on the file's state: an earlier once
\* grant, spent or not, and any active grant are returned as they are.
OnceExists(m, k) == m[k].scope = "once" \/ Active(m, k)

GrantOnce(w) ==
    LET c == work[w].cmd  k == work[w].req  m == Refreshed(w, k)
        allowed == ConvAllowed(mem[w], k) /\ ConvAllowed(m, k) IN
    /\ work[w].at = "grant" /\ Scope(c, k) = "once" /\ LockFree(w)
    /\ \/ /\ allowed /\ ~OnceExists(m, k)
          /\ NewId
          /\ Goto(w, "mint", [m EXCEPT ![k] = Grant(k, minted + 1, "once",
                                            IF k = Conv THEN m[Lease].id ELSE 0)])
       \/ /\ allowed /\ OnceExists(m, k)
          /\ Goto(w, Again(c), m)
          /\ UNCHANGED <<minted, spent>>
       \/ /\ ~allowed
          /\ Finish(w)
          /\ UNCHANGED <<minted, spent>>
    /\ UNCHANGED <<disk, turns, expired, faults>>

Mint(w) ==
    /\ work[w].at = "mint"
    /\ \/ Wrote(mem[w]) /\ Goto(w, Again(work[w].cmd), mem[w])
       \/ WriteFailed(mem[w]) /\ Finish(w)
    /\ UNCHANGED <<turns, minted, expired, spent>>

\* RevokeProjectLease takes the lease's convenience grants and the session's
\* mutation grants along; RevokeGrantsForItem and RevokeAllGrants.
RevokedBy_LeaseOnly(m, c) ==
    CASE c.kind = "revokeLease" -> {Lease}
      [] c.kind = "revokeItem" -> {k \in Keys : k.item \in c.items}
      [] OTHER -> Keys

RevokedBy(m, c) ==
    CASE c.kind = "revokeLease" ->
             {Lease} \cup {Mut(i) : i \in Items}
                     \cup {k \in {Conv} : m[Conv].lease = m[Lease].id}
      [] c.kind = "revokeItem" -> {k \in Keys : k.item \in c.items}
      [] OTHER -> Keys

RevokeGrants(w) ==
    LET c == work[w].cmd  m == mem[w] IN
    /\ work[w].at = "act" /\ c.kind \in {"revokeLease", "revokeItem", "revokeAll"}
    /\ \/ /\ \/ c.kind = "revokeLease" /\ m[Lease].id # 0
             \/ c.kind # "revokeLease"
                /\ \E k \in RevokedBy(m, c) : m[k].id # 0 /\ ~m[k].revoked
          /\ Persist(w, Revoke(m, RevokedBy(m, c)), {})
       \/ /\ \/ c.kind = "revokeLease" /\ m[Lease].id = 0
             \/ c.kind # "revokeLease"
                /\ \A k \in RevokedBy(m, c) : m[k].id = 0 \/ m[k].revoked
          /\ Finish(w)
          /\ UNCHANGED <<disk, faults, spent>>
    /\ UNCHANGED <<turns, minted, expired>>

\* GrantPlaintextUse and GrantSecretMutation: always once, always with an
\* end, always a new grant.  The second needs an active lease.
GrantTimed(w) ==
    LET c == work[w].cmd  i == CHOOSE j \in c.items : TRUE
        k == IF c.kind = "grantPlain" THEN Plain(i) ELSE Mut(i)
        new == [mem[w] EXCEPT ![k] = Grant(k, minted + 1, "once", 0)] IN
    /\ work[w].at = "act" /\ c.kind \in {"grantPlain", "grantMut"}
    /\ \/ /\ c.kind = "grantMut" /\ ~Active(mem[w], Lease)
          /\ UNCHANGED <<disk, faults, minted, spent>>
       \/ /\ c.kind = "grantMut" => Active(mem[w], Lease)
          /\ LockFree(w) /\ NewId
          /\ Wrote(new) \/ WriteFailed(new)
    /\ Finish(w)
    /\ UNCHANGED <<turns, expired>>

\* enforceSecretPlaintextPolicy and authorizeSecretMutationMCP: an active
\* grant in the handle's copy is spent and written back.
SpendTimed(w) ==
    LET c == work[w].cmd  i == CHOOSE j \in c.items : TRUE
        k == IF c.kind = "plain" THEN Plain(i) ELSE Mut(i)
        ok == Active(mem[w], k) /\ (c.kind = "mut" => Active(mem[w], Lease)) IN
    /\ work[w].at = "act" /\ c.kind \in {"plain", "mut"}
    /\ \/ ok /\ Persist(w, Use(mem[w], {k}), {mem[w][k].id})
       \/ ~ok /\ Finish(w) /\ UNCHANGED <<disk, faults, spent>>
    /\ UNCHANGED <<turns, minted, expired>>

\* Time passes: a grant with an end reaches it.
Expire(n) ==
    /\ n \in 1..minted \ expired
    /\ \E m \in {disk} \cup {mem[w] : w \in Workers} :
           \E k \in Keys : m[k].id = n /\ m[k].ends
    /\ expired' = expired \cup {n}
    /\ UNCHANGED <<disk, mem, work, turns, minted, faults, spent>>

-----------------------------------------------------------------------------
Init ==
    /\ disk = NoGrants
    /\ mem = [w \in Workers |-> NoGrants]
    /\ work = [w \in Workers |-> Idle]
    /\ turns = [w \in Workers |-> 0]
    /\ minted = 0
    /\ expired = {}
    /\ faults = 0
    /\ spent = [n \in 1..0 |-> 0]

Step(w) == \/ Check(w) \/ Decide(w) \/ Consume(w) \/ CaptureNew(w)
           \/ GrantStanding(w) \/ GrantOnce(w) \/ Mint(w)
           \/ RevokeGrants(w) \/ GrantTimed(w) \/ SpendTimed(w)

Next == \/ \E w \in Workers : Step(w) \/ \E c \in Commands : Begin(w, c)
        \/ \E n \in 1..minted : Expire(n)

\* A command that can move is scheduled; the mutex is handed to whoever waits.
Spec == Init /\ [][Next]_vars /\ \A w \in Workers : SF_vars(Step(w))

\* Commands that use secrets and ask for once grants take only these steps.
OnceStep(w) == Check(w) \/ Decide(w) \/ Consume(w) \/ GrantOnce(w) \/ Mint(w)

OnceNext == \E w \in Workers : OnceStep(w) \/ \E c \in Commands : Begin(w, c)

OnceSpec == Init /\ [][OnceNext]_vars /\ \A w \in Workers : SF_vars(OnceStep(w))

-----------------------------------------------------------------------------
(* Properties *)

States == {disk} \cup {mem[w] : w \in Workers}

\* Once means once: a once grant authorizes one operation, whichever commands
\* race for it; unless a write failed the file's used once grants are those that
\* authorized an operation, and no operation is authorized without the record;
\* and "a once grant is minted at most once per (binding, session, item)": the
\* file never replaces one by another, used or not.
OnceMeansOnce ==
    /\ [](\A n \in 1..minted : spent[n] <= 1)
    /\ [](\A k \in Keys : disk[k].id # 0 =>
            /\ spent[disk[k].id] > 0 => disk[k].used
            /\ disk[k].used /\ faults = 0 => spent[disk[k].id] > 0)
    /\ [][\A k \in {Lease, Conv} \cup {Secret(i) : i \in Items} :
            disk[k].scope = "once" => disk'[k].id = disk[k].id]_vars

\* However stale a handle is, the state it writes is consistent: under a
\* revoked lease no mutation grant and none of its convenience grants lives.
RevokedLeaseIsBarren ==
    \A m \in States : m[Lease].revoked =>
        /\ \A i \in Items : m[Mut(i)].id # 0 => m[Mut(i)].revoked
        /\ m[Conv].id # 0 /\ m[Conv].lease = m[Lease].id => m[Conv].revoked

\* A command never loops between being denied and being granted what it
\* already has: every command ends.
CommandsEnd == \A w \in Workers : (work[w].at # "idle") ~> (work[w].at = "idle")

\* What docs/cli-reference.md says of locking, "every in-flight grant and
\* session is gone": a grant revoked in the file is not brought back.
RevocationFinal ==
    [][\A k \in Keys : disk[k].revoked /\ disk'[k].id = disk[k].id => disk'[k].revoked]_vars
=============================================================================
