--------------------------- MODULE VaultEnvelope ---------------------------
(***************************************************************************)
(* The sealed vault file of internal/store: how the daemon and the CLI     *)
(* processes create it, replace it and read it back (envelope.go,          *)
(* lifecycle.go, items.go), over a file system that may lose what was not  *)
(* fsynced, and beside the platform keyring that holds the device key.     *)
(*                                                                         *)
(* An envelope is a header (the vault key wrapped under the master         *)
(* password and, when convenience unlock is on, under a device key) and    *)
(* the sealed state.  Keys are names: sealing is pairing with the name of  *)
(* the key, opening is comparing it.  n and by are not in the file: they   *)
(* say which replacement wrote it and for which operation.                 *)
(***************************************************************************)
EXTENDS Integers, FiniteSets

CONSTANTS
    Threads,        \* goroutines of the daemon and of CLI or MCP processes
    Procs,          \* processes
    ProcOf,         \* the process a thread runs in
    Passwords,      \* master passwords
    FirstPassword,  \* the one the initial vault was made with
    VaultAtStart,   \* whether a vault exists at the start: a set of BOOLEANs
    MaxOps,         \* bound on the operations that start
    MaxFaults,      \* bound on failed calls, crashes and power losses
    None,           \* no file, no key, no handle
    Torn            \* a file cut off in the middle of a write

HeaderOps  == {"enable", "disable", "rekdf", "rekey"}
Operations == HeaderOps \cup {"init", "persist"}

(* An envelope: the password wrap, the convenience wrap or None, the sealed   *)
(* state, the number of the replacement that wrote it, and the operation.     *)
Envelopes == [wrap : [pw : Passwords, dek : Nat],
              conv : [key : Nat, dek : Nat] \cup {None},
              data : [id : Nat, dek : Nat],
              n : Nat, by : Operations]

ASSUME EnvelopeAssumption ==
    /\ ProcOf \in [Threads -> Procs]
    /\ FirstPassword \in Passwords
    /\ VaultAtStart \subseteq BOOLEAN
    /\ MaxOps \in Nat /\ MaxFaults \in Nat
    /\ None \notin Threads \cup Nat \cup Operations \cup [key : Nat, dek : Nat]
    /\ None \notin Envelopes /\ Torn \notin Envelopes /\ None # Torn

VARIABLES
    main,     \* the state file as processes see it
    prev,     \* its .prev copy as processes see it
    disk,     \* what each of them may turn out to hold after a power loss
    keyring,  \* the device key in the platform keyring, or None
    mu,       \* the thread in each process's vaultStateLocks mutex, or None
    flock,    \* the thread holding <state>.write.lock, or None
    th,       \* each thread's place in its operation
    ops,      \* operations started; also the source of fresh keys and data
    seq,      \* replacements of the state file
    faults,   \* failed calls, crashes and power losses so far
    acked,    \* the newest replacement whose operation returned success
    forgot,   \* history: DisableConvenienceUnlock deleted the device key and
              \* returned success, no Enable since
    lost,     \* a power loss has happened
    inits     \* history: replacements by Init

vars == <<main, prev, disk, keyring, mu, flock, th, ops, seq, faults, acked,
          forgot, lost, inits>>

(* A thread is [pc, op, env, synced, handle]; pc is idle, keyring, read, temp, *)
(* locked, rotating, rotated, renamed or written.                              *)

NoOp(t) == [th[t] EXCEPT !.pc = "idle", !.op = None, !.env = None,
                         !.synced = FALSE]

(* The vault Init leaves behind, when there is one at the start. *)
FirstEnvelope == [wrap |-> [pw |-> FirstPassword, dek |-> 0], conv |-> None,
                  data |-> [id |-> 0, dek |-> 0], n |-> 0, by |-> "init"]

Init ==
    /\ \E there \in VaultAtStart : main = IF there THEN FirstEnvelope ELSE None
    /\ prev = None
    /\ disk = [main |-> {main}, prev |-> {None}]
    /\ keyring = None
    /\ mu = [p \in Procs |-> None]
    /\ flock = None
    /\ th = [t \in Threads |-> [pc |-> "idle", op |-> None, env |-> None,
                                synced |-> FALSE, handle |-> None]]
    /\ ops = 0 /\ seq = 0 /\ faults = 0 /\ acked = 0
    /\ forgot = FALSE /\ lost = FALSE /\ inits = 0

-----------------------------------------------------------------------------
(* Reading *)

Whole(f) == f \notin {None, Torn}

(* What readEnvelope returns: main, else .prev, else an error (None). *)
readEnvelope ==
    IF Whole(main) THEN main ELSE IF Whole(prev) THEN prev ELSE None

(* Whether OpenWithConvenienceUnlock would succeed on the present files. *)
convenienceOpens ==
    LET e == readEnvelope
    IN  /\ e # None
        /\ e.conv # None
        /\ keyring = e.conv.key
        /\ e.conv.dek = e.data.dek

OpenWithPassword(t, pw) ==
    LET e == readEnvelope
    IN  /\ th[t].pc = "idle"
        /\ e # None
        /\ e.wrap.pw = pw                 \* else ErrInvalidPassword
        /\ e.wrap.dek = e.data.dek        \* readState authenticates the data
        /\ th' = [th EXCEPT ![t].handle = e.wrap.dek]
        /\ UNCHANGED <<main, prev, disk, keyring, mu, flock, ops, seq, faults,
                       acked, forgot, lost, inits>>

OpenWithConvenienceUnlock(t) ==
    /\ th[t].pc = "idle"
    /\ convenienceOpens
    /\ th' = [th EXCEPT ![t].handle = readEnvelope.conv.dek]
    /\ UNCHANGED <<main, prev, disk, keyring, mu, flock, ops, seq, faults,
                   acked, forgot, lost, inits>>

-----------------------------------------------------------------------------
(* Operations up to the envelope they want written *)

(* Thread t begins operation op and goes on to stage pc meaning to write e. *)
Begin(t, op, pc, e) ==
    /\ ops' = ops + 1
    /\ th' = [th EXCEPT ![t] = [@ EXCEPT !.pc = pc, !.op = op, !.env = e]]
    /\ UNCHANGED <<main, prev, disk, keyring, flock, seq, faults, acked,
                   forgot, lost, inits>>

MayBegin(t) == th[t].pc = "idle" /\ ops < MaxOps

(* Mutant: Init does not look for an existing vault. *)
vaultAbsent_Unchecked == TRUE

(* Init refuses when the state file exists (ErrVaultExists); the check     *)
(* holds no lock.                                                          *)
vaultAbsent == main = None

InitVault(t, pw) ==
    /\ MayBegin(t)
    /\ vaultAbsent
    /\ Begin(t, "init", "read",
             [wrap |-> [pw |-> pw, dek |-> ops + 1], conv |-> None,
              data |-> [id |-> ops + 1, dek |-> ops + 1],
              n |-> 0, by |-> "init"])
    /\ UNCHANGED mu

(* persist holds the process's mutex from its strict read to its return    *)
(* and seals the handle's own state under the handle's key.                *)
Persist(t) ==
    /\ MayBegin(t)
    /\ th[t].handle # None
    /\ mu[ProcOf[t]] = None
    /\ Whole(main)
    /\ mu' = [mu EXCEPT ![ProcOf[t]] = t]
    /\ Begin(t, "persist", "read",
             [main EXCEPT !.data = [id |-> ops + 1, dek |-> th[t].handle],
                          !.by = "persist"])

EnableConvenienceUnlock(t) ==
    /\ MayBegin(t)
    /\ th[t].handle # None
    /\ readEnvelope # None
    /\ Begin(t, "enable", "keyring",
             [readEnvelope EXCEPT
                !.conv = [key |-> ops + 1, dek |-> th[t].handle],
                !.by = "enable"])
    /\ UNCHANGED mu

(* The keyring holds the new device key before the envelope is replaced. *)
SetDeviceKey(t) ==
    /\ th[t].pc = "keyring"
    /\ keyring' = th[t].env.conv.key
    /\ forgot' = FALSE
    /\ th' = [th EXCEPT ![t].pc = "read"]
    /\ UNCHANGED <<main, prev, disk, mu, flock, ops, seq, faults, acked, lost,
                   inits>>

(* Without a wrap to clear the call is a no-op that leaves the keyring. *)
DisableConvenienceUnlock(t) ==
    /\ MayBegin(t)
    /\ th[t].handle # None
    /\ readEnvelope # None
    /\ readEnvelope.conv # None
    /\ Begin(t, "disable", "read",
             [readEnvelope EXCEPT !.conv = None, !.by = "disable"])
    /\ UNCHANGED mu

(* The same password, re-derived; the wrap seals the handle's key. *)
RekdfWithPassword(t, pw) ==
    /\ MayBegin(t)
    /\ th[t].handle # None
    /\ readEnvelope # None
    /\ readEnvelope.wrap.pw = pw
    /\ Begin(t, "rekdf", "read",
             [readEnvelope EXCEPT !.wrap = [pw |-> pw, dek |-> th[t].handle],
                                  !.by = "rekdf"])
    /\ UNCHANGED mu

(* The convenience wrap goes with the old password; the keyring entry stays. *)
RekeyPassword(t, old, new) ==
    /\ MayBegin(t)
    /\ th[t].handle # None
    /\ readEnvelope # None
    /\ readEnvelope.wrap.pw = old
    /\ Begin(t, "rekey", "read",
             [readEnvelope EXCEPT !.wrap = [pw |-> new, dek |-> th[t].handle],
                                  !.conv = None, !.by = "rekey"])
    /\ UNCHANGED mu

-----------------------------------------------------------------------------
(* writeEnvelopeFile *)

(* The temp file is written and fsynced; nobody else knows its name. *)
WriteTemp(t) ==
    /\ th[t].pc = "read"
    /\ th' = [th EXCEPT ![t] = [@ EXCEPT !.pc = "temp", !.synced = TRUE]]
    /\ UNCHANGED <<main, prev, disk, keyring, mu, flock, ops, seq, faults,
                   acked, forgot, lost, inits>>

LockReplacement(t) ==
    /\ th[t].pc = "temp"
    /\ flock = None
    /\ flock' = t
    /\ th' = [th EXCEPT ![t].pc = "locked"]
    /\ UNCHANGED <<main, prev, disk, keyring, mu, ops, seq, faults, acked,
                   forgot, lost, inits>>

(* .prev is overwritten in place: first truncated (skipped when there is   *)
(* no main to keep), then filled.  Neither step is fsynced.                *)
TruncatePrev(t) ==
    /\ th[t].pc = "locked"
    /\ IF main = None
       THEN /\ th' = [th EXCEPT ![t].pc = "rotated"]
            /\ UNCHANGED <<prev, disk>>
       ELSE /\ prev' = Torn
            /\ disk' = [disk EXCEPT !.prev = @ \cup {Torn}]
            /\ th' = [th EXCEPT ![t].pc = "rotating"]
    /\ UNCHANGED <<main, keyring, mu, flock, ops, seq, faults, acked, forgot,
                   lost, inits>>

WritePrev(t) ==
    /\ th[t].pc = "rotating"
    /\ prev' = main
    /\ disk' = [disk EXCEPT !.prev = @ \cup {main}]
    /\ th' = [th EXCEPT ![t].pc = "rotated"]
    /\ UNCHANGED <<main, keyring, mu, flock, ops, seq, faults, acked, forgot,
                   lost, inits>>

(* The rename is atomic for every process; a power loss before the         *)
(* directory is synced may undo it, and may find a temp file that was      *)
(* never fsynced cut off.                                                  *)
RenameTemp(t) ==
    LET e == [th[t].env EXCEPT !.n = seq + 1]
    IN  /\ th[t].pc = "rotated"
        /\ seq' = seq + 1
        /\ main' = e
        /\ disk' = [disk EXCEPT !.main = @ \cup {e} \cup
                                  (IF th[t].synced THEN {} ELSE {Torn})]
        /\ th' = [th EXCEPT ![t] = [@ EXCEPT !.pc = "renamed", !.env = e]]
        /\ inits' = IF e.by = "init" THEN inits + 1 ELSE inits
        /\ UNCHANGED <<prev, keyring, mu, flock, ops, faults, acked, forgot, lost>>

(* Mutant: no fsync of the directory. *)
SyncDir_Skipped(t) ==
    /\ th[t].pc = "renamed"
    /\ flock' = None
    /\ th' = [th EXCEPT ![t].pc = "written"]
    /\ UNCHANGED <<main, prev, disk, keyring, mu, ops, seq, faults, acked,
                   forgot, lost, inits>>

(* writeEnvelopeFile returns here, releasing the lock file. *)
SyncDir(t) ==
    /\ th[t].pc = "renamed"
    /\ disk' = [disk EXCEPT !.main = {main}]
    /\ flock' = None
    /\ th' = [th EXCEPT ![t].pc = "written"]
    /\ UNCHANGED <<main, prev, keyring, mu, ops, seq, faults, acked, forgot,
                   lost, inits>>

-----------------------------------------------------------------------------
(* Returning *)

(* Everything t holds is released by its deferred calls (or by its death). *)
Without(held, gone) == IF held \in gone THEN None ELSE held
Release(gone) ==
    /\ mu' = [p \in Procs |-> Without(mu[p], gone)]
    /\ flock' = Without(flock, gone)

Succeed(t) ==
    /\ th' = [th EXCEPT ![t] = NoOp(t)]
    /\ acked' = IF th[t].env.n > acked THEN th[t].env.n ELSE acked
    /\ Release({t})
    /\ UNCHANGED <<main, prev, disk, ops, seq, faults, lost, inits>>

Return(t) ==
    /\ th[t].pc = "written"
    /\ th[t].op # "disable"
    /\ Succeed(t)
    /\ UNCHANGED <<keyring, forgot>>

(* Mutant: only the wrap is cleared, the device key stays. *)
DeleteDeviceKey_Skipped(t) ==
    /\ th[t].pc = "written"
    /\ th[t].op = "disable"
    /\ forgot' = TRUE
    /\ Succeed(t)
    /\ UNCHANGED keyring

(* The keyring entry goes after the wrap.  A keyring that is not available *)
(* counts as success and keeps its entry.                                  *)
DeleteDeviceKey(t) ==
    /\ th[t].pc = "written"
    /\ th[t].op = "disable"
    /\ \/ keyring # None /\ keyring' = None /\ forgot' = TRUE
       \/ UNCHANGED <<keyring, forgot>>
    /\ Succeed(t)

(* The entry is missing, or another error of the keyring: Disable returns  *)
(* it, with the wrap already cleared.                                      *)
DeleteFails(t) ==
    /\ th[t].pc = "written"
    /\ th[t].op = "disable"
    /\ th' = [th EXCEPT ![t] = NoOp(t)]
    /\ Release({t})
    /\ UNCHANGED <<main, prev, disk, keyring, ops, seq, faults, acked, forgot,
                   lost, inits>>

(* Any call before that fails: the operation returns the error and what    *)
(* was done stays done.                                                    *)
Fail(t) ==
    /\ th[t].pc \notin {"idle", "written"}
    /\ faults < MaxFaults
    /\ faults' = faults + 1
    /\ th' = [th EXCEPT ![t] = NoOp(t)]
    /\ Release({t})
    /\ UNCHANGED <<main, prev, disk, keyring, ops, seq, acked, forgot, lost,
                   inits>>

-----------------------------------------------------------------------------
(* Crashes *)

Reborn(t) == [NoOp(t) EXCEPT !.handle = None]

(* A process dies: the kernel drops its flock, its memory is gone, its     *)
(* files are as they were.                                                 *)
Crash(p) ==
    /\ faults < MaxFaults
    /\ faults' = faults + 1
    /\ th' = [t \in Threads |-> IF ProcOf[t] = p THEN Reborn(t) ELSE th[t]]
    /\ Release({t \in Threads : ProcOf[t] = p})
    /\ UNCHANGED <<main, prev, disk, keyring, ops, seq, acked, forgot, lost,
                   inits>>

PowerLoss ==
    /\ faults < MaxFaults
    /\ faults' = faults + 1
    /\ lost' = TRUE
    /\ \E m \in disk.main, q \in disk.prev :
         /\ main' = m
         /\ prev' = q
         /\ disk' = [main |-> {m}, prev |-> {q}]
    /\ th' = [t \in Threads |-> Reborn(t)]
    /\ Release(Threads)
    /\ UNCHANGED <<keyring, ops, seq, acked, forgot, inits>>

Done == ops = MaxOps /\ \A t \in Threads : th[t].pc = "idle"

Finished == Done /\ UNCHANGED vars

Next ==
    \/ \E t \in Threads :
         \/ OpenWithConvenienceUnlock(t)
         \/ Persist(t)
         \/ EnableConvenienceUnlock(t)
         \/ SetDeviceKey(t)
         \/ DisableConvenienceUnlock(t)
         \/ WriteTemp(t)
         \/ LockReplacement(t)
         \/ TruncatePrev(t)
         \/ WritePrev(t)
         \/ RenameTemp(t)
         \/ SyncDir(t)
         \/ Return(t)
         \/ DeleteDeviceKey(t)
         \/ DeleteFails(t)
         \/ Fail(t)
         \/ \E pw \in Passwords :
              \/ InitVault(t, pw)
              \/ OpenWithPassword(t, pw)
              \/ RekdfWithPassword(t, pw)
              \/ \E new \in Passwords : RekeyPassword(t, pw, new)
    \/ \E p \in Procs : Crash(p)
    \/ PowerLoss
    \/ Finished

Spec == Init /\ [][Next]_vars

-----------------------------------------------------------------------------
(* A replacement is all or nothing and stays: whatever crashes, the state  *)
(* file is never seen cut off, now or after the next power loss            *)
(* (writeEnvelopeFile fsyncs the temp file before the rename), and what an *)
(* operation acknowledged is never rolled back: the state file is that     *)
(* replacement or a later one (the directory is fsynced before the return).*)
(* Between replacements .prev is the state file's immediate predecessor,   *)
(* or the state file itself when the rotation was cut short after the      *)
(* copy: the replacement lock keeps two writers' rotations apart.  Only a  *)
(* power loss, which may bring back any older unsynced copy, breaks that.  *)
AckDurable ==
    /\ main # Torn /\ Torn \notin disk.main
    /\ acked > 0 => Whole(main) /\ main.n >= acked
    /\ flock = None /\ ~lost /\ Whole(prev) /\ Whole(main)
           => prev.n \in {main.n - 1, main.n}

(* The state is sealed under the key both wraps unlock: no sequence of     *)
(* operations writes a file that its own password cannot open, unless two  *)
(* Init calls both found no vault and both made one.                       *)
KeyMatchesData ==
    inits <= 1 /\ Whole(main) =>
        /\ main.wrap.dek = main.data.dek
        /\ main.conv # None => main.conv.dek = main.data.dek

(* Once DisableConvenienceUnlock has deleted the device key, convenience   *)
(* unlock fails closed until the next Enable, even when a writer that read *)
(* the old header puts the cleared wrap back.                              *)
ForgetHolds == forgot => ~convenienceOpens
=============================================================================
