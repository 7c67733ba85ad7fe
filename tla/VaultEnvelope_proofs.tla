------------------------ MODULE VaultEnvelope_proofs ------------------------
(* Proofs about VaultEnvelope, for any number of threads, processes,        *)
(* passwords, operations and faults.                                        *)
EXTENDS VaultEnvelope, TLAPS

-----------------------------------------------------------------------------
(* The inductive invariant, in parts. *)

Stages == {"idle", "keyring", "read", "temp", "locked", "rotating", "rotated",
           "renamed", "written"}

States == [pc : Stages, op : Operations \cup {None}, env : Envelopes \cup {None},
           synced : BOOLEAN, handle : Nat \cup {None}]

TypeOK ==
    /\ main \in Envelopes \cup {None, Torn}
    /\ prev \in Envelopes \cup {None, Torn}
    /\ disk \in [main : SUBSET (Envelopes \cup {None, Torn}),
                 prev : SUBSET (Envelopes \cup {None, Torn})]
    /\ keyring \in Nat \cup {None}
    /\ mu \in [Procs -> Threads \cup {None}]
    /\ flock \in Threads \cup {None}
    /\ th \in [Threads -> States]
    /\ ops \in Nat /\ seq \in Nat /\ faults \in Nat /\ acked \in Nat /\ inits \in Nat
    /\ forgot \in BOOLEAN /\ lost \in BOOLEAN

\* What a thread's stage says of its record, whatever the others do.
Plans(t) ==
    /\ th[t].pc # "idle" => th[t].env # None /\ th[t].op # None /\ th[t].env.by = th[t].op
    /\ th[t].pc = "idle" => th[t].env = None /\ th[t].op = None
    /\ th[t].pc = "keyring" => th[t].env.conv # None
    /\ th[t].pc \in {"temp", "locked", "rotating", "rotated"} => th[t].synced
    /\ th[t].env # None => th[t].env.n <= seq
    /\ th[t].op = "init" => /\ th[t].env # None
                            /\ th[t].env.wrap.dek = th[t].env.data.dek
                            /\ th[t].env.conv = None

\* A replacement under way: its thread has the lock file, and what it did so
\* far is still so.
Replacing(t) ==
    /\ th[t].pc \in {"locked", "rotating", "rotated", "renamed"} => flock = t
    /\ th[t].pc = "rotated" /\ ~lost => prev = main
    /\ th[t].pc = "renamed" => main = th[t].env
    /\ th[t].pc = "written" => \A f \in disk.main : f # None /\ f.n >= th[t].env.n

\* What the state file may turn out to be after a power loss: whole, no newer
\* than the last replacement, no older than the last one acknowledged.
FileInv ==
    /\ main \in disk.main /\ prev \in disk.prev
    /\ Torn \notin disk.main
    /\ \A f \in disk.main \cup disk.prev : Whole(f) => f.n <= seq
    /\ acked > 0 => \A f \in disk.main : f # None /\ f.n >= acked

\* Until a power loss main is the last replacement and .prev the one before.
PrevInv ==
    ~lost => /\ main # None => main.n = seq
             /\ main = None => prev = None
             /\ Whole(prev) /\ Whole(main) => prev.n \in {main.n - 1, main.n}

\* Everything in e is sealed under the vault key k.
Sealed(e, k) == /\ e.wrap.dek = k /\ e.data.dek = k
                /\ e.conv # None => e.conv.dek = k

\* There is no vault yet and nobody has opened one.
NoVaultYet ==
    /\ main = None /\ prev = None
    /\ disk.main = {None} /\ disk.prev = {None}
    /\ \A t \in Threads : th[t].handle = None /\ th[t].op \in {None, "init"}

\* Nobody makes a vault where one was there at the start.
FirstInv ==
    inits = 0 => \/ NoVaultYet
                 \/ None \notin disk.main /\ \A t \in Threads : th[t].op # "init"

\* Until a second vault is made one key seals every file, is in every handle
\* and in every envelope about to be written, other than a first one.
OneKey(k) ==
    /\ \A f \in disk.main \cup disk.prev : Whole(f) => Sealed(f, k)
    /\ \A t \in Threads :
           /\ th[t].handle \in {None, k}
           /\ th[t].env # None /\ th[t].op # "init" => Sealed(th[t].env, k)

KeyInv == inits <= 1 => \E k \in Nat : OneKey(k)

\* A device whose key was deleted has no key.
ForgetInv == forgot => keyring = None

IInv == /\ TypeOK
        /\ \A t \in Threads : Plans(t) /\ Replacing(t)
        /\ FileInv /\ PrevInv /\ FirstInv /\ KeyInv /\ ForgetInv

-----------------------------------------------------------------------------
LEMMA NoneDiffers ==
    /\ None # "init" /\ None \notin Nat /\ None \notin Threads /\ None # Torn
    /\ \A e \in Envelopes : e # None /\ e # Torn /\ Whole(e)
    /\ \A o \in Operations : o # None
    /\ \A c \in [key : Nat, dek : Nat] : c # None
BY EnvelopeAssumption DEF Operations, HeaderOps, Whole

LEMMA InitIInv == Init => IInv
<1> SUFFICES ASSUME Init PROVE IInv
  OBVIOUS
<1> USE EnvelopeAssumption, NoneDiffers
<1>1. FirstEnvelope \in Envelopes
  BY DEF FirstEnvelope, Envelopes, Operations
<1>2. main \in {FirstEnvelope, None}
  BY DEF Init
<1>3. TypeOK
  BY <1>1, <1>2 DEF Init, TypeOK, States, Stages
<1>4. \A t \in Threads : Plans(t) /\ Replacing(t)
  BY DEF Init, Plans, Replacing
<1>5. FileInv /\ PrevInv /\ ForgetInv
  BY <1>1, <1>2 DEF Init, FileInv, PrevInv, ForgetInv, Whole, FirstEnvelope
<1>6. FirstInv
  BY <1>1, <1>2 DEF Init, FirstInv, NoVaultYet
<1>7. OneKey(0)
  BY <1>1, <1>2 DEF Init, OneKey, Sealed, Whole, FirstEnvelope
<1>8. QED
  BY <1>3, <1>4, <1>5, <1>6, <1>7 DEF IInv, KeyInv

-----------------------------------------------------------------------------
(* Reading *)

LEMMA ReadType ==
    ASSUME IInv, readEnvelope # None
    PROVE  /\ readEnvelope \in Envelopes
           /\ readEnvelope \in disk.main \cup disk.prev
           /\ \A k : OneKey(k) => Sealed(readEnvelope, k)
           /\ ~NoVaultYet
<1>1. readEnvelope \in {main, prev} /\ Whole(readEnvelope)
  BY DEF readEnvelope
<1>2. readEnvelope \in Envelopes /\ readEnvelope \in disk.main \cup disk.prev
  BY <1>1 DEF IInv, TypeOK, FileInv, Whole
<1>3. ~NoVaultYet
  BY <1>1 DEF NoVaultYet, Whole
<1>4. QED
  BY <1>1, <1>2, <1>3 DEF OneKey

\* Opening gives a handle the key that seals the file.
LEMMA OpenIInv ==
    ASSUME IInv, NEW t \in Threads,
           OpenWithConvenienceUnlock(t) \/ \E pw \in Passwords : OpenWithPassword(t, pw)
    PROVE  IInv'
<1> USE NoneDiffers DEF IInv
<1>1. /\ UNCHANGED <<main, prev, disk, keyring, mu, flock, ops, seq, faults, acked, forgot,
                     lost, inits>>
      /\ readEnvelope # None /\ th[t].pc = "idle"
  BY DEF OpenWithConvenienceUnlock, OpenWithPassword, convenienceOpens
<1>2. PICK h : th' = [th EXCEPT ![t].handle = h] /\ h \in Nat
                /\ \A k : OneKey(k) => h = k
  <2>1. CASE OpenWithConvenienceUnlock(t)
    <3>1. readEnvelope.conv # None /\ readEnvelope.conv.dek \in Nat
      BY <1>1, <2>1, ReadType DEF OpenWithConvenienceUnlock, convenienceOpens, Envelopes
    <3>2. th' = [th EXCEPT ![t].handle = readEnvelope.conv.dek]
      BY <2>1 DEF OpenWithConvenienceUnlock
    <3>3. \A k : OneKey(k) => readEnvelope.conv.dek = k
      BY <1>1, <3>1, ReadType DEF Sealed
    <3>4. QED
      BY <3>1, <3>2, <3>3, Zenon
  <2>2. CASE \E pw \in Passwords : OpenWithPassword(t, pw)
    <3>1. readEnvelope.wrap.dek \in Nat
      BY <1>1, ReadType DEF Envelopes
    <3>2. th' = [th EXCEPT ![t].handle = readEnvelope.wrap.dek]
      BY <2>2 DEF OpenWithPassword
    <3>3. \A k : OneKey(k) => readEnvelope.wrap.dek = k
      BY <1>1, ReadType DEF Sealed
    <3>4. QED
      BY <3>1, <3>2, <3>3, Zenon
  <2>3. QED
    BY <2>1, <2>2
<1>3. /\ th' \in [Threads -> States]
      /\ \A s \in Threads : /\ th'[s].pc = th[s].pc /\ th'[s].op = th[s].op
                            /\ th'[s].env = th[s].env /\ th'[s].synced = th[s].synced
                            /\ th'[s].handle = IF s = t THEN h ELSE th[s].handle
  BY <1>2 DEF TypeOK, States
<1>4. TypeOK'
  BY <1>1, <1>3 DEF TypeOK
<1>5. \A s \in Threads : Plans(s)' /\ Replacing(s)'
  BY <1>1, <1>3 DEF Plans, Replacing
<1>6. FileInv' /\ PrevInv' /\ ForgetInv'
  BY <1>1 DEF FileInv, PrevInv, ForgetInv, Whole
<1>7. FirstInv'
  BY <1>1, <1>3, ReadType DEF FirstInv
<1>8. ASSUME NEW k \in Nat, OneKey(k) PROVE OneKey(k)'
  <2>1. h = k
    BY <1>2, <1>8
  <2>2. QED
    BY <1>1, <1>3, <1>8, <2>1 DEF OneKey, Sealed, Whole
<1>9. QED
  BY <1>1, <1>4, <1>5, <1>6, <1>7, <1>8 DEF KeyInv

-----------------------------------------------------------------------------
(* Beginning an operation *)

\* What the envelope of an operation has in common: it is the operation's own,
\* no newer than the file, and sealed under the one key; a first one is sealed
\* under its own key and made where there is no file.
LEMMA BeginIInv ==
    ASSUME IInv, NEW t \in Threads, NEW op \in Operations, NEW pc \in {"keyring", "read"},
           NEW e \in Envelopes, MayBegin(t), Begin(t, op, pc, e),
           mu' \in [Procs -> Threads \cup {None}],
           e.by = op, e.n <= seq,
           pc = "keyring" => e.conv # None,
           op = "init" => main = None /\ e.wrap.dek = e.data.dek /\ e.conv = None,
           op # "init" => th[t].handle # None /\ \A k : OneKey(k) => Sealed(e, k)
    PROVE  IInv'
<1> USE NoneDiffers DEF IInv
<1>1. /\ UNCHANGED <<main, prev, disk, keyring, flock, seq, faults, acked, forgot, lost, inits>>
      /\ th[t].pc = "idle" /\ ops' = ops + 1
  BY DEF Begin, MayBegin
<1>2. /\ th' \in [Threads -> States]
      /\ \A s \in Threads \ {t} : th'[s] = th[s]
      /\ th'[t].pc = pc /\ th'[t].op = op /\ th'[t].env = e
      /\ th'[t].handle = th[t].handle
  <2> DEFINE r == [th[t] EXCEPT !.pc = pc, !.op = op, !.env = e]
  <2>1. th[t] \in States /\ th \in [Threads -> States]
    BY DEF TypeOK
  <2>2. r \in States /\ r.pc = pc /\ r.op = op /\ r.env = e /\ r.handle = th[t].handle
    BY <2>1 DEF States, Stages
  <2>3. th' = [th EXCEPT ![t] = r]
    BY DEF Begin
  <2> HIDE DEF r
  <2>4. QED
    BY <2>1, <2>2, <2>3
<1>3. TypeOK'
  BY <1>1, <1>2 DEF TypeOK
<1>4. \A s \in Threads : Plans(s)' /\ Replacing(s)'
  BY <1>1, <1>2 DEF Plans, Replacing
<1>5. FileInv' /\ PrevInv' /\ ForgetInv'
  BY <1>1 DEF FileInv, PrevInv, ForgetInv, Whole
<1>6. FirstInv'
  BY <1>1, <1>2 DEF FirstInv, NoVaultYet, FileInv
<1>7. ASSUME NEW k \in Nat, OneKey(k) PROVE OneKey(k)'
  <2>1. op # "init" => Sealed(e, k)
    BY <1>7
  <2>2. QED
    BY <1>1, <1>2, <1>7, <2>1 DEF OneKey, Sealed, Whole
<1>8. QED
  BY <1>1, <1>3, <1>4, <1>5, <1>6, <1>7 DEF KeyInv

LEMMA InitVaultIInv ==
    ASSUME IInv, NEW t \in Threads, NEW pw \in Passwords, InitVault(t, pw)
    PROVE  IInv'
<1> DEFINE e == [wrap |-> [pw |-> pw, dek |-> ops + 1], conv |-> None,
                 data |-> [id |-> ops + 1, dek |-> ops + 1], n |-> 0, by |-> "init"]
<1>1. e \in Envelopes /\ "init" \in Operations
  BY DEF Envelopes, Operations, IInv, TypeOK
<1>2. /\ MayBegin(t) /\ Begin(t, "init", "read", e) /\ main = None
      /\ mu' \in [Procs -> Threads \cup {None}] /\ e.n <= seq
  BY DEF InitVault, vaultAbsent, IInv, TypeOK
<1>3. e.by = "init" /\ e.wrap.dek = e.data.dek /\ e.conv = None
  OBVIOUS
<1> HIDE DEF e
<1>4. QED
  BY <1>1, <1>2, <1>3, BeginIInv

LEMMA PersistIInv ==
    ASSUME IInv, NEW t \in Threads, Persist(t) PROVE IInv'
<1> DEFINE e == [main EXCEPT !.data = [id |-> ops + 1, dek |-> th[t].handle], !.by = "persist"]
<1> USE NoneDiffers
<1>1. main \in Envelopes /\ th[t].handle \in Nat /\ th[t].handle # None
  BY DEF Persist, IInv, TypeOK, States, Whole
<1>2. e \in Envelopes /\ "persist" \in Operations
  <2>1. [id |-> ops + 1, dek |-> th[t].handle] \in [id : Nat, dek : Nat]
    BY <1>1 DEF IInv, TypeOK
  <2>2. QED
    BY <1>1, <2>1 DEF Envelopes, Operations
<1>3. /\ e.by = "persist" /\ e.n = main.n /\ e.wrap = main.wrap /\ e.conv = main.conv
      /\ e.data.dek = th[t].handle
  BY <1>1 DEF Envelopes
<1>4. e.n <= seq
  BY <1>1, <1>3 DEF IInv, FileInv
<1>5. \A k : OneKey(k) => Sealed(e, k)
  BY <1>1, <1>3 DEF IInv, FileInv, OneKey, Sealed
<1>6. /\ MayBegin(t) /\ Begin(t, "persist", "read", e)
      /\ mu' \in [Procs -> Threads \cup {None}]
  BY DEF Persist, IInv, TypeOK
<1> HIDE DEF e
<1>7. "persist" # "init"
  OBVIOUS
<1>8. QED
  BY <1>1, <1>2, <1>3, <1>4, <1>5, <1>6, <1>7, BeginIInv

\* No copy of the file is newer than the last replacement.
LEMMA ReadOld ==
    ASSUME IInv, readEnvelope # None
    PROVE  readEnvelope.n <= seq
BY ReadType, NoneDiffers DEF IInv, FileInv

LEMMA EnableIInv ==
    ASSUME IInv, NEW t \in Threads, EnableConvenienceUnlock(t) PROVE IInv'
<1> DEFINE e == [readEnvelope EXCEPT !.conv = [key |-> ops + 1, dek |-> th[t].handle],
                                    !.by = "enable"]
<1> USE NoneDiffers
<1>1. readEnvelope # None /\ th[t].handle # None /\ th[t].handle \in Nat
  BY DEF EnableConvenienceUnlock, IInv, TypeOK, States
<1>2. readEnvelope \in Envelopes /\ readEnvelope \in disk.main \cup disk.prev
  BY <1>1, ReadType
<1>3. e \in Envelopes /\ "enable" \in Operations
  <2>1. [key |-> ops + 1, dek |-> th[t].handle] \in [key : Nat, dek : Nat]
    BY <1>1 DEF IInv, TypeOK
  <2>2. QED
    BY <1>2, <2>1 DEF Envelopes, Operations, HeaderOps
<1>4. /\ e.by = "enable" /\ e.n = readEnvelope.n /\ e.data = readEnvelope.data
      /\ e.wrap = readEnvelope.wrap /\ e.conv # None /\ e.conv.dek = th[t].handle
  <2>1. [key |-> ops + 1, dek |-> th[t].handle] \in [key : Nat, dek : Nat]
    BY <1>1 DEF IInv, TypeOK
  <2>2. QED
    BY <1>2, <2>1 DEF Envelopes
<1>5. \A k : OneKey(k) => Sealed(e, k)
  BY <1>1, <1>4, ReadType DEF OneKey, Sealed
<1>6. MayBegin(t) /\ Begin(t, "enable", "keyring", e) /\ mu' \in [Procs -> Threads \cup {None}]
  BY DEF EnableConvenienceUnlock, IInv, TypeOK
<1> HIDE DEF e
<1>7. QED
  BY <1>1, <1>2, <1>3, <1>4, <1>5, <1>6, ReadOld, BeginIInv

LEMMA DisableIInv ==
    ASSUME IInv, NEW t \in Threads, DisableConvenienceUnlock(t) PROVE IInv'
<1> DEFINE e == [readEnvelope EXCEPT !.conv = None, !.by = "disable"]
<1> USE NoneDiffers
<1>1. readEnvelope # None /\ th[t].handle # None /\ th[t].handle \in Nat
  BY DEF DisableConvenienceUnlock, IInv, TypeOK, States
<1>2. readEnvelope \in Envelopes /\ readEnvelope \in disk.main \cup disk.prev
  BY <1>1, ReadType
<1>3. e \in Envelopes /\ "disable" \in Operations
  BY <1>2 DEF Envelopes, Operations, HeaderOps
<1>4. /\ e.by = "disable" /\ e.n = readEnvelope.n /\ e.data = readEnvelope.data
      /\ e.wrap = readEnvelope.wrap /\ e.conv = None
  BY <1>2 DEF Envelopes
<1>5. \A k : OneKey(k) => Sealed(e, k)
  BY <1>1, <1>4, ReadType DEF OneKey, Sealed
<1>6. MayBegin(t) /\ Begin(t, "disable", "read", e) /\ mu' \in [Procs -> Threads \cup {None}]
  BY DEF DisableConvenienceUnlock, IInv, TypeOK
<1> HIDE DEF e
<1>7. QED
  BY <1>1, <1>2, <1>3, <1>4, <1>5, <1>6, ReadOld, BeginIInv

LEMMA RekdfIInv ==
    ASSUME IInv, NEW t \in Threads, NEW pw \in Passwords, RekdfWithPassword(t, pw) PROVE IInv'
<1> DEFINE e == [readEnvelope EXCEPT !.wrap = [pw |-> pw, dek |-> th[t].handle], !.by = "rekdf"]
<1> USE NoneDiffers
<1>1. readEnvelope # None /\ th[t].handle # None /\ th[t].handle \in Nat
  BY DEF RekdfWithPassword, IInv, TypeOK, States
<1>2. readEnvelope \in Envelopes /\ readEnvelope \in disk.main \cup disk.prev
  BY <1>1, ReadType
<1>3. e \in Envelopes /\ "rekdf" \in Operations
  <2>1. [pw |-> pw, dek |-> th[t].handle] \in [pw : Passwords, dek : Nat]
    BY <1>1
  <2>2. QED
    BY <1>2, <2>1 DEF Envelopes, Operations, HeaderOps
<1>4. /\ e.by = "rekdf" /\ e.n = readEnvelope.n /\ e.data = readEnvelope.data
      /\ e.wrap.dek = th[t].handle /\ e.conv = readEnvelope.conv
  BY <1>2 DEF Envelopes
<1>5. \A k : OneKey(k) => Sealed(e, k)
  BY <1>1, <1>4, ReadType DEF OneKey, Sealed
<1>6. MayBegin(t) /\ Begin(t, "rekdf", "read", e) /\ mu' \in [Procs -> Threads \cup {None}]
  BY DEF RekdfWithPassword, IInv, TypeOK
<1> HIDE DEF e
<1>7. QED
  BY <1>1, <1>2, <1>3, <1>4, <1>5, <1>6, ReadOld, BeginIInv

LEMMA RekeyIInv ==
    ASSUME IInv, NEW t \in Threads, NEW pw \in Passwords, NEW new \in Passwords,
           RekeyPassword(t, pw, new) PROVE IInv'
<1> DEFINE e == [readEnvelope EXCEPT !.wrap = [pw |-> new, dek |-> th[t].handle],
                                    !.conv = None, !.by = "rekey"]
<1> USE NoneDiffers
<1>1. readEnvelope # None /\ th[t].handle # None /\ th[t].handle \in Nat
  BY DEF RekeyPassword, IInv, TypeOK, States
<1>2. readEnvelope \in Envelopes /\ readEnvelope \in disk.main \cup disk.prev
  BY <1>1, ReadType
<1>3. e \in Envelopes /\ "rekey" \in Operations
  <2>1. [pw |-> new, dek |-> th[t].handle] \in [pw : Passwords, dek : Nat]
    BY <1>1
  <2>2. QED
    BY <1>2, <2>1 DEF Envelopes, Operations, HeaderOps
<1>4. /\ e.by = "rekey" /\ e.n = readEnvelope.n /\ e.data = readEnvelope.data
      /\ e.wrap.dek = th[t].handle /\ e.conv = None
  BY <1>2 DEF Envelopes
<1>5. \A k : OneKey(k) => Sealed(e, k)
  BY <1>1, <1>4, ReadType DEF OneKey, Sealed
<1>6. MayBegin(t) /\ Begin(t, "rekey", "read", e) /\ mu' \in [Procs -> Threads \cup {None}]
  BY DEF RekeyPassword, IInv, TypeOK
<1> HIDE DEF e
<1>7. QED
  BY <1>1, <1>2, <1>3, <1>4, <1>5, <1>6, ReadOld, BeginIInv

-----------------------------------------------------------------------------
(* Replacing the file *)

\* A thread goes on to stage pc; the rest of its record is as it was, except
\* for synced where the temp file was just synced.
Advances(t, pc, e) ==
    /\ th' \in [Threads -> States]
    /\ \A s \in Threads \ {t} : th'[s] = th[s]
    /\ th'[t].pc = pc /\ th'[t].op = th[t].op /\ th'[t].env = e
    /\ th'[t].handle = th[t].handle
    /\ th[t].synced => th'[t].synced

LEMMA AdvanceType ==
    ASSUME th \in [Threads -> States], NEW t \in Threads, NEW pc \in Stages,
           NEW e \in Envelopes \cup {None}
    PROVE  /\ th' = [th EXCEPT ![t].pc = pc] => Advances(t, pc, th[t].env)
           /\ th' = [th EXCEPT ![t] = [@ EXCEPT !.pc = pc, !.synced = TRUE]]
                  => Advances(t, pc, th[t].env) /\ th'[t].synced
           /\ th' = [th EXCEPT ![t] = [@ EXCEPT !.pc = pc, !.env = e]] => Advances(t, pc, e)
<1>1. th[t] \in States
  OBVIOUS
<1>2. /\ [th[t] EXCEPT !.pc = pc] \in States
      /\ [th[t] EXCEPT !.pc = pc, !.synced = TRUE] \in States
      /\ [th[t] EXCEPT !.pc = pc, !.env = e] \in States
  BY <1>1 DEF States
<1>3. ASSUME th' = [th EXCEPT ![t].pc = pc] PROVE Advances(t, pc, th[t].env)
  BY <1>1, <1>2, <1>3 DEF Advances, States
<1>4. ASSUME th' = [th EXCEPT ![t] = [@ EXCEPT !.pc = pc, !.synced = TRUE]]
      PROVE  Advances(t, pc, th[t].env) /\ th'[t].synced
  BY <1>1, <1>2, <1>4 DEF Advances, States
<1>5. ASSUME th' = [th EXCEPT ![t] = [@ EXCEPT !.pc = pc, !.env = e]]
      PROVE  Advances(t, pc, e)
  BY <1>1, <1>2, <1>5 DEF Advances, States
<1>6. QED
  BY <1>3, <1>4, <1>5

\* The parts about keys do not depend on the stages.
LEMMA SameKeys ==
    ASSUME IInv, NEW t \in Threads, NEW pc \in Stages, Advances(t, pc, th[t].env),
           UNCHANGED <<main, prev, disk, inits>>
    PROVE  KeyInv' /\ FirstInv'
<1>1. \A s \in Threads : /\ th'[s].handle = th[s].handle /\ th'[s].op = th[s].op
                         /\ th'[s].env = th[s].env
  BY DEF Advances
<1>2. FirstInv'
  BY <1>1 DEF IInv, FirstInv, NoVaultYet
<1>3. ASSUME NEW k \in Nat, OneKey(k) PROVE OneKey(k)'
  BY <1>1, <1>3 DEF OneKey, Sealed, Whole
<1>4. QED
  BY <1>2, <1>3 DEF IInv, KeyInv

LEMMA PrepareIInv ==
    ASSUME IInv, NEW t \in Threads, SetDeviceKey(t) \/ WriteTemp(t) \/ LockReplacement(t)
    PROVE  IInv'
<1> USE NoneDiffers DEF IInv
<1>1. /\ UNCHANGED <<main, prev, disk, mu, ops, seq, faults, acked, lost, inits>>
      /\ th[t].pc \in {"keyring", "read", "temp"}
  BY DEF SetDeviceKey, WriteTemp, LockReplacement
<1>2. PICK pc \in {"read", "temp", "locked"} :
        /\ Advances(t, pc, th[t].env)
        /\ pc \in {"temp", "locked"} => th'[t].synced
        /\ pc = "locked" => flock = None /\ flock' = t
        /\ pc # "locked" => flock' = flock
  <2>1. CASE SetDeviceKey(t)
    BY <2>1, AdvanceType DEF SetDeviceKey, TypeOK, Stages
  <2>2. CASE WriteTemp(t)
    BY <2>2, AdvanceType DEF WriteTemp, TypeOK, Stages
  <2>3. CASE LockReplacement(t)
    <3>1. Advances(t, "locked", th[t].env) /\ th[t].synced
      BY <2>3, AdvanceType DEF LockReplacement, TypeOK, Stages, Plans
    <3>2. QED
      BY <2>3, <3>1 DEF LockReplacement, Advances
  <2>4. QED
    BY <2>1, <2>2, <2>3
<1>3. keyring' \in Nat \cup {None} /\ forgot' \in BOOLEAN /\ ForgetInv'
  <2>1. CASE SetDeviceKey(t)
    <3>1. th[t].env \in Envelopes /\ th[t].env.conv # None
      BY <2>1 DEF SetDeviceKey, TypeOK, States, Plans
    <3>2. QED
      BY <2>1, <3>1 DEF SetDeviceKey, Envelopes, ForgetInv
  <2>2. CASE WriteTemp(t) \/ LockReplacement(t)
    BY <2>2 DEF WriteTemp, LockReplacement, TypeOK, ForgetInv
  <2>3. QED
    BY <2>1, <2>2
<1>4. TypeOK'
  BY <1>1, <1>2, <1>3 DEF TypeOK, Advances
<1>5. \A s \in Threads : Plans(s)' /\ Replacing(s)'
  BY <1>1, <1>2 DEF Plans, Replacing, Advances
<1>6. FileInv' /\ PrevInv'
  BY <1>1 DEF FileInv, PrevInv, Whole
<1>7. KeyInv' /\ FirstInv'
  BY <1>1, <1>2, SameKeys DEF Stages
<1>8. QED
  BY <1>3, <1>4, <1>5, <1>6, <1>7

\* .prev is rewritten by the one thread that has the lock file, and with the
\* file as it is.
LEMMA RotateIInv ==
    ASSUME IInv, NEW t \in Threads, TruncatePrev(t) \/ WritePrev(t)
    PROVE  IInv'
<1> USE NoneDiffers DEF IInv
<1>1. /\ UNCHANGED <<main, keyring, mu, flock, ops, seq, faults, acked, forgot, lost, inits>>
      /\ flock = t
  BY DEF TruncatePrev, WritePrev, Replacing
<1>2. \/ main = None /\ UNCHANGED <<prev, disk>> /\ Advances(t, "rotated", th[t].env)
      \/ /\ main # None /\ prev' = Torn /\ disk' = [disk EXCEPT !.prev = @ \cup {Torn}]
         /\ Advances(t, "rotating", th[t].env)
      \/ /\ prev' = main /\ disk' = [disk EXCEPT !.prev = @ \cup {main}]
         /\ Advances(t, "rotated", th[t].env)
  <2>1. CASE TruncatePrev(t)
    BY <2>1, AdvanceType, ZenonT(30) DEF TruncatePrev, TypeOK, Stages
  <2>2. CASE WritePrev(t)
    BY <2>2, AdvanceType DEF WritePrev, TypeOK, Stages
  <2>3. QED
    BY <2>1, <2>2
<1>3. /\ disk' \in [main : SUBSET (Envelopes \cup {None, Torn}),
                    prev : SUBSET (Envelopes \cup {None, Torn})]
      /\ disk'.main = disk.main
      /\ disk'.prev \subseteq disk.prev \cup {main, Torn} /\ prev' \in disk'.prev
      /\ prev' \in Envelopes \cup {None, Torn}
      /\ main = None => disk'.prev \subseteq disk.prev \cup {None}
  BY <1>2 DEF TypeOK, FileInv
<1>4. TypeOK'
  BY <1>1, <1>2, <1>3 DEF TypeOK, Advances
<1>5. \A s \in Threads : Plans(s)' /\ Replacing(s)'
  <2>1. \A s \in Threads : Plans(s)'
    BY <1>1, <1>2 DEF Plans, Advances, TruncatePrev, WritePrev
  <2>2. Replacing(t)'
    BY <1>1, <1>2, <1>3 DEF Replacing, PrevInv, Advances
  <2>3. \A s \in Threads \ {t} : Replacing(s)'
    BY <1>1, <1>2, <1>3 DEF Replacing, Advances
  <2>4. QED
    BY <2>1, <2>2, <2>3
<1>6. FileInv'
  BY <1>1, <1>3 DEF FileInv, Whole
<1>7. PrevInv'
  BY <1>1, <1>2 DEF PrevInv, Whole, TypeOK, Envelopes
<1>8. FirstInv'
  BY <1>1, <1>2, <1>3 DEF FirstInv, NoVaultYet, Advances
<1>9. ASSUME NEW k \in Nat, OneKey(k) PROVE OneKey(k)'
  <2>1. \A f \in disk'.main \cup disk'.prev : Whole(f) => f \in disk.main \cup disk.prev
    BY <1>3 DEF FileInv, Whole
  <2>2. QED
    BY <1>2, <1>9, <2>1 DEF OneKey, Sealed, Whole, Advances
<1>10. KeyInv' /\ ForgetInv'
  BY <1>1, <1>9 DEF KeyInv, ForgetInv
<1>11. QED
  BY <1>4, <1>5, <1>6, <1>7, <1>8, <1>10

\* The rename makes the one envelope that is newer than every other the file,
\* and the first one of a vault the only key there is.
LEMMA RenameIInv ==
    ASSUME IInv, NEW t \in Threads, RenameTemp(t)
    PROVE  IInv'
<1> DEFINE e == [th[t].env EXCEPT !.n = seq + 1]
<1> USE NoneDiffers DEF IInv
<1>1. /\ th[t].pc = "rotated" /\ th[t].synced /\ flock = t
      /\ th[t].env \in Envelopes /\ th[t].op \in Operations /\ th[t].env.by = th[t].op
  BY DEF RenameTemp, Plans, Replacing, TypeOK, States
<1>2. /\ e \in Envelopes /\ e.n = seq + 1 /\ e.by = th[t].op
      /\ e.wrap = th[t].env.wrap /\ e.conv = th[t].env.conv /\ e.data = th[t].env.data
  BY <1>1 DEF Envelopes, TypeOK
<1>3. /\ seq' = seq + 1 /\ main' = e
      /\ disk' = [disk EXCEPT !.main = @ \cup {e} \cup {}]
      /\ inits' = IF th[t].op = "init" THEN inits + 1 ELSE inits
      /\ UNCHANGED <<prev, keyring, mu, flock, ops, faults, acked, forgot, lost>>
  BY <1>1, <1>2 DEF RenameTemp
<1>4. Advances(t, "renamed", e)
  BY <1>2, AdvanceType DEF RenameTemp, TypeOK, Stages
<1> HIDE DEF e
<1>5. /\ disk' \in [main : SUBSET (Envelopes \cup {None, Torn}),
                    prev : SUBSET (Envelopes \cup {None, Torn})]
      /\ disk'.main = disk.main \cup {e} /\ disk'.prev = disk.prev
  BY <1>2, <1>3 DEF TypeOK
<1>6. TypeOK'
  BY <1>2, <1>3, <1>4, <1>5 DEF TypeOK, Advances
<1>7. \A s \in Threads : Plans(s)'
  <2>1. Plans(t)'
    BY <1>1, <1>2, <1>3, <1>4, <1>6 DEF Plans, Advances, TypeOK
  <2>2. ASSUME NEW s \in Threads \ {t} PROVE Plans(s)'
    <3>1. th[s].env # None => th[s].env.n \in Nat
      BY DEF TypeOK, States, Envelopes
    <3>2. QED
      BY <1>3, <1>4, <3>1 DEF Plans, Advances, TypeOK
  <2>3. QED
    BY <2>1, <2>2
<1>8. \A s \in Threads : Replacing(s)'
  <2>1. Replacing(t)'
    BY <1>1, <1>3, <1>4 DEF Replacing, Advances
  <2>2. ASSUME NEW s \in Threads \ {t} PROVE Replacing(s)'
    <3>1. /\ th'[s] = th[s] /\ th[s].pc \notin {"locked", "rotating", "rotated", "renamed"}
      BY <1>1, <1>4 DEF Replacing, Advances
    <3>2. th[s].pc = "written" => th[s].env.n \in Nat /\ th[s].env.n <= seq
      BY DEF Plans, TypeOK, States, Envelopes
    <3>3. QED
      BY <1>2, <1>3, <1>5, <3>1, <3>2 DEF Replacing, TypeOK
  <2>3. QED
    BY <2>1, <2>2
<1>9. FileInv'
  <2>1. main' \in disk'.main /\ prev' \in disk'.prev /\ Torn \notin disk'.main
    BY <1>2, <1>3, <1>5 DEF FileInv
  <2>2. \A f \in disk.main \cup disk.prev : Whole(f) => f.n \in Nat
    BY DEF TypeOK, Whole, Envelopes
  <2>3. \A f \in disk'.main \cup disk'.prev : Whole(f) => f.n <= seq'
    BY <1>2, <1>3, <1>5, <2>2 DEF FileInv, TypeOK
  <2>4. acked > 0 => acked <= seq
    <3>1. acked > 0 => Whole(main) /\ main.n >= acked /\ main.n <= seq /\ main.n \in Nat
      BY <2>2 DEF FileInv, Whole
    <3>2. QED
      BY <3>1 DEF TypeOK
  <2>5. acked' > 0 => \A f \in disk'.main : f # None /\ f.n >= acked'
    BY <1>2, <1>3, <1>5, <2>4 DEF FileInv, TypeOK
  <2>6. QED
    BY <2>1, <2>3, <2>5 DEF FileInv, Whole
<1>10. PrevInv'
  <2>1. ~lost => prev = main
    BY <1>1 DEF Replacing
  <2>2. ~lost /\ Whole(main) => main.n = seq
    BY DEF PrevInv, Whole
  <2>3. QED
    BY <1>2, <1>3, <2>1, <2>2 DEF PrevInv, Whole, TypeOK
<1>11. FirstInv'
  <2>1. CASE th[t].op = "init"
    BY <1>3, <2>1 DEF FirstInv, TypeOK
  <2>2. CASE th[t].op # "init"
    BY <1>1, <1>2, <1>3, <1>4, <1>5, <2>2 DEF FirstInv, NoVaultYet, Advances
  <2>3. QED
    BY <2>1, <2>2
<1>12. KeyInv'
  <2>1. CASE th[t].op = "init"
    <3>0. PICK k \in Nat : k = e.wrap.dek
      BY <1>2 DEF Envelopes
    <3>1. SUFFICES ASSUME inits' <= 1 PROVE OneKey(k)'
      BY DEF KeyInv
    <3>2. NoVaultYet
      BY <1>3, <2>1, <3>1 DEF FirstInv, TypeOK
    <3>3. Sealed(e, k)
      BY <1>1, <1>2, <2>1, <3>0 DEF Sealed, Plans
    <3>4. \A s \in Threads : /\ th'[s].handle = None
                             /\ th'[s].op = "init" \/ th'[s].env = None
      <4>1. ASSUME NEW s \in Threads PROVE th[s].op # "init" => th[s].env = None
        BY <3>2 DEF NoVaultYet, Plans
      <4>2. QED
        BY <1>4, <2>1, <3>2, <4>1 DEF NoVaultYet, Advances
    <3>5. \A f \in disk'.main \cup disk'.prev : Whole(f) => f = e
      BY <1>5, <3>2 DEF NoVaultYet, Whole
    <3>6. QED
      BY <3>3, <3>4, <3>5 DEF OneKey, Whole, Sealed
  <2>2. CASE th[t].op # "init"
    <3>1. ASSUME NEW k \in Nat, OneKey(k) PROVE OneKey(k)'
      <4>1. Sealed(e, k)
        BY <1>1, <1>2, <2>2, <3>1 DEF OneKey, Sealed
      <4>2. QED
        BY <1>4, <1>5, <3>1, <4>1 DEF OneKey, Advances, Whole, Sealed
    <3>2. QED
      BY <1>3, <2>2, <3>1 DEF KeyInv
  <2>3. QED
    BY <2>1, <2>2
<1>13. ForgetInv'
  BY <1>3 DEF ForgetInv
<1>14. QED
  BY <1>6, <1>7, <1>8, <1>9, <1>10, <1>11, <1>12, <1>13

\* Once the directory is synced, nothing but the replacement can come back.
LEMMA SyncIInv ==
    ASSUME IInv, NEW t \in Threads, SyncDir(t)
    PROVE  IInv'
<1> USE NoneDiffers DEF IInv
<1>1. /\ flock = t /\ main = th[t].env /\ main \in Envelopes /\ main.n \in Nat
      /\ flock' = None
      /\ UNCHANGED <<main, prev, keyring, mu, ops, seq, faults, acked, forgot, lost, inits>>
  BY DEF SyncDir, Replacing, Plans, TypeOK, States, Envelopes
<1>2. Advances(t, "written", th[t].env)
  BY AdvanceType DEF SyncDir, TypeOK, Stages
<1>3. /\ disk' \in [main : SUBSET (Envelopes \cup {None, Torn}),
                    prev : SUBSET (Envelopes \cup {None, Torn})]
      /\ disk'.main = {main} /\ disk'.prev = disk.prev /\ main \in disk.main
  BY <1>1 DEF SyncDir, TypeOK, FileInv
<1>4. TypeOK'
  BY <1>1, <1>2, <1>3 DEF TypeOK, Advances
<1>5. \A s \in Threads : Plans(s)'
  BY <1>1, <1>2 DEF Plans, Advances, SyncDir
<1>6. \A s \in Threads : Replacing(s)'
  <2>1. Replacing(t)'
    BY <1>1, <1>2, <1>3 DEF Replacing, Advances
  <2>2. \A s \in Threads \ {t} : Replacing(s)'
    BY <1>1, <1>2, <1>3 DEF Replacing, Advances
  <2>3. QED
    BY <2>1, <2>2
<1>7. FileInv' /\ PrevInv' /\ ForgetInv'
  BY <1>1, <1>3 DEF FileInv, PrevInv, ForgetInv, Whole
<1>8. FirstInv'
  BY <1>1, <1>2, <1>3 DEF FirstInv, NoVaultYet, Advances
<1>9. ASSUME NEW k \in Nat, OneKey(k) PROVE OneKey(k)'
  BY <1>2, <1>3, <1>9 DEF OneKey, Sealed, Whole, Advances
<1>10. QED
  BY <1>1, <1>4, <1>5, <1>6, <1>7, <1>8, <1>9 DEF KeyInv

-----------------------------------------------------------------------------
(* Returning and dying *)

\* The threads in gone have nothing left of their operations.
Ends(gone) ==
    /\ th' \in [Threads -> States]
    /\ \A s \in Threads \ gone : th'[s] = th[s]
    /\ \A s \in gone : /\ th'[s].pc = "idle" /\ th'[s].op = None /\ th'[s].env = None
                       /\ th'[s].handle \in {None, th[s].handle}

LEMMA EndType ==
    ASSUME th \in [Threads -> States], NEW gone \in SUBSET Threads,
           th' = [s \in Threads |-> IF s \in gone THEN Reborn(s) ELSE th[s]]
    PROVE  Ends(gone)
<1>1. ASSUME NEW s \in Threads PROVE /\ NoOp(s) \in States /\ Reborn(s) \in States
                                     /\ Reborn(s).pc = "idle" /\ Reborn(s).op = None
                                     /\ Reborn(s).env = None /\ Reborn(s).handle = None
  <2>1. th[s] \in States
    OBVIOUS
  <2>2. NoOp(s) \in States
    BY <2>1 DEF NoOp, States, Stages
  <2>3. QED
    BY <2>1, <2>2 DEF NoOp, Reborn, States, Stages
<1>2. QED
  BY <1>1 DEF Ends

LEMMA EndOneType ==
    ASSUME th \in [Threads -> States], NEW t \in Threads, th' = [th EXCEPT ![t] = NoOp(t)]
    PROVE  Ends({t})
<1>1. th[t] \in States
  OBVIOUS
<1>2. /\ NoOp(t) \in States /\ NoOp(t).pc = "idle" /\ NoOp(t).op = None
      /\ NoOp(t).env = None /\ NoOp(t).handle = th[t].handle
  BY <1>1 DEF NoOp, States, Stages
<1>3. QED
  BY <1>2 DEF Ends

LEMMA ReleaseType ==
    ASSUME TypeOK, NEW gone \in SUBSET Threads, Release(gone)
    PROVE  /\ mu' \in [Procs -> Threads \cup {None}]
           /\ flock' \in Threads \cup {None}
           /\ \A s \in Threads \ gone : flock = s => flock' = s
BY DEF TypeOK, Release, Without

\* What is left when operations end and the files stay as they are.
LEMMA EndIInv ==
    ASSUME IInv, NEW gone \in SUBSET Threads, Ends(gone), Release(gone),
           UNCHANGED <<main, prev, disk, ops, seq, lost, inits>>,
           keyring' \in Nat \cup {None}, forgot' \in BOOLEAN, ForgetInv',
           faults' \in Nat, acked' \in Nat,
           acked' # acked => \A f \in disk.main : f # None /\ f.n >= acked'
    PROVE  IInv'
<1> USE NoneDiffers DEF IInv
<1>1. TypeOK'
  BY ReleaseType DEF TypeOK, Ends
<1>2. \A s \in Threads : Plans(s)' /\ Replacing(s)'
  <2>1. ASSUME NEW s \in gone PROVE Plans(s)' /\ Replacing(s)'
    BY DEF Ends, Plans, Replacing
  <2>2. ASSUME NEW s \in Threads \ gone PROVE Plans(s)' /\ Replacing(s)'
    BY ReleaseType DEF Ends, Plans, Replacing
  <2>3. QED
    BY <2>1, <2>2
<1>3. FileInv' /\ PrevInv'
  BY DEF FileInv, PrevInv, Whole
<1>4. FirstInv'
  BY DEF FirstInv, NoVaultYet, Ends
<1>5. ASSUME NEW k \in Nat, OneKey(k) PROVE OneKey(k)'
  BY <1>5 DEF OneKey, Ends, Sealed, Whole
<1>6. QED
  BY <1>1, <1>2, <1>3, <1>4, <1>5 DEF KeyInv

LEMMA ReturnIInv ==
    ASSUME IInv, NEW t \in Threads,
           Return(t) \/ DeleteDeviceKey(t) \/ DeleteFails(t) \/ Fail(t)
    PROVE  IInv'
<1> USE NoneDiffers DEF IInv
<1>1. Ends({t}) /\ Release({t}) /\ UNCHANGED <<main, prev, disk, ops, seq, lost, inits>>
  BY EndOneType DEF Return, DeleteDeviceKey, DeleteFails, Fail, Succeed, TypeOK
<1>2. keyring' \in Nat \cup {None} /\ forgot' \in BOOLEAN /\ ForgetInv'
  <2>1. UNCHANGED <<keyring, forgot>> \/ (keyring' = None /\ forgot' = TRUE)
    BY DEF Return, DeleteDeviceKey, DeleteFails, Fail
  <2>2. CASE UNCHANGED <<keyring, forgot>>
    BY <2>2 DEF TypeOK, ForgetInv
  <2>3. CASE keyring' = None /\ forgot' = TRUE
    BY <2>3 DEF ForgetInv
  <2>4. QED
    BY <2>1, <2>2, <2>3
<1>3. /\ faults' \in Nat /\ acked' \in Nat
      /\ acked' # acked => \A f \in disk.main : f # None /\ f.n >= acked'
  <2>1. CASE DeleteFails(t) \/ Fail(t)
    BY <2>1 DEF DeleteFails, Fail, TypeOK
  <2>2. CASE Return(t) \/ DeleteDeviceKey(t)
    <3>1. th[t].pc = "written" /\ th[t].env \in Envelopes
      BY <2>2 DEF Return, DeleteDeviceKey, Plans, TypeOK, States
    <3>2. th[t].env.n \in Nat /\ \A f \in disk.main : f # None /\ f.n >= th[t].env.n
      BY <3>1 DEF Replacing, Envelopes
    <3>3. QED
      BY <2>2, <3>2 DEF Return, DeleteDeviceKey, Succeed, TypeOK
  <2>3. QED
    BY <2>1, <2>2
<1>4. QED
  BY <1>1, <1>2, <1>3, EndIInv

LEMMA CrashIInv ==
    ASSUME IInv, NEW p \in Procs, Crash(p)
    PROVE  IInv'
<1> DEFINE gone == {t \in Threads : ProcOf[t] = p}
<1>1. th' = [s \in Threads |-> IF s \in gone THEN Reborn(s) ELSE th[s]]
  BY DEF Crash
<1>2. /\ Release(gone) /\ faults' \in Nat
      /\ UNCHANGED <<main, prev, disk, keyring, ops, seq, acked, forgot, lost, inits>>
  BY DEF Crash, IInv, TypeOK
<1> HIDE DEF gone
<1>3. gone \in SUBSET Threads
  BY DEF gone
<1>4. Ends(gone)
  BY <1>1, <1>3, EndType DEF IInv, TypeOK
<1>5. keyring' \in Nat \cup {None} /\ forgot' \in BOOLEAN /\ ForgetInv' /\ acked' \in Nat
  BY <1>2 DEF IInv, TypeOK, ForgetInv
<1>6. QED
  BY <1>2, <1>3, <1>4, <1>5, EndIInv

\* A power loss ends every operation and may bring back what was not synced.
LEMMA PowerLossIInv ==
    ASSUME IInv, PowerLoss
    PROVE  IInv'
<1> USE NoneDiffers DEF IInv
<1>1. PICK m \in disk.main, q \in disk.prev :
        main' = m /\ prev' = q /\ disk' = [main |-> {m}, prev |-> {q}]
  BY DEF PowerLoss
<1>2. /\ Ends(Threads) /\ Release(Threads) /\ faults' \in Nat /\ lost' = TRUE
      /\ UNCHANGED <<keyring, ops, seq, acked, forgot, inits>>
  <2>1. th' = [s \in Threads |-> IF s \in Threads THEN Reborn(s) ELSE th[s]]
    BY DEF PowerLoss
  <2>2. Ends(Threads)
    BY <2>1, EndType DEF TypeOK
  <2>3. QED
    BY <2>2 DEF PowerLoss, TypeOK
<1>3. TypeOK'
  BY <1>1, <1>2, ReleaseType DEF TypeOK, Ends
<1>4. \A s \in Threads : Plans(s)' /\ Replacing(s)'
  BY <1>2 DEF Ends, Plans, Replacing
<1>5. FileInv' /\ PrevInv' /\ ForgetInv'
  BY <1>1, <1>2 DEF FileInv, PrevInv, ForgetInv, Whole
<1>6. FirstInv'
  BY <1>1, <1>2 DEF FirstInv, NoVaultYet, Ends
<1>7. ASSUME NEW k \in Nat, OneKey(k) PROVE OneKey(k)'
  BY <1>1, <1>2, <1>7 DEF OneKey, Ends, Sealed, Whole
<1>8. QED
  BY <1>2, <1>3, <1>4, <1>5, <1>6, <1>7 DEF KeyInv

LEMMA NextIInv == IInv /\ [Next]_vars => IInv'
<1> SUFFICES ASSUME IInv, [Next]_vars PROVE IInv'
  OBVIOUS
<1>1. ASSUME NEW t \in Threads,
             \/ OpenWithConvenienceUnlock(t) \/ Persist(t) \/ EnableConvenienceUnlock(t)
             \/ SetDeviceKey(t) \/ DisableConvenienceUnlock(t) \/ WriteTemp(t)
             \/ LockReplacement(t) \/ TruncatePrev(t) \/ WritePrev(t) \/ RenameTemp(t)
             \/ SyncDir(t) \/ Return(t) \/ DeleteDeviceKey(t) \/ DeleteFails(t) \/ Fail(t)
      PROVE  IInv'
  BY <1>1, OpenIInv, PersistIInv, EnableIInv, DisableIInv, PrepareIInv, RotateIInv,
     RenameIInv, SyncIInv, ReturnIInv
<1>2. ASSUME NEW t \in Threads, NEW pw \in Passwords,
             \/ InitVault(t, pw) \/ OpenWithPassword(t, pw) \/ RekdfWithPassword(t, pw)
             \/ \E new \in Passwords : RekeyPassword(t, pw, new)
      PROVE  IInv'
  BY <1>2, InitVaultIInv, OpenIInv, RekdfIInv, RekeyIInv
<1>3. ASSUME NEW p \in Procs, Crash(p) PROVE IInv'
  BY <1>3, CrashIInv
<1>4. CASE PowerLoss
  BY <1>4, PowerLossIInv
<1>5. CASE UNCHANGED vars
  <2>1. UNCHANGED <<main, prev, disk, keyring, mu, flock, th, ops, seq, faults, acked,
                    forgot, lost, inits>>
    BY <1>5 DEF vars
  <2>2. ASSUME NEW k \in Nat, OneKey(k) PROVE OneKey(k)'
    BY <2>1, <2>2 DEF OneKey, Sealed, Whole
  <2>3. QED
    BY <2>1, <2>2 DEF IInv, TypeOK, Plans, Replacing, FileInv, PrevInv, FirstInv, NoVaultYet,
       KeyInv, ForgetInv, Whole
<1>6. QED
  BY <1>1, <1>2, <1>3, <1>4, <1>5 DEF Next, Finished

-----------------------------------------------------------------------------
\* Every operation on the vault file, and every fault, keeps the inductive
\* invariant.
THEOREM EnvelopeInvariant == Spec => []IInv
BY InitIInv, NextIInv, PTL DEF Spec

\* writeEnvelopeFile is all or nothing and durable: the file is never cut off,
\* an acknowledged replacement is not rolled back, .prev is the one before.
THEOREM ReplacementDurable == Spec => []AckDurable
<1>1. IInv => AckDurable
  BY NoneDiffers DEF IInv, FileInv, PrevInv, AckDurable, Whole
<1>2. QED
  BY <1>1, EnvelopeInvariant, PTL

\* No interleaving of operations writes a vault that its own wraps do not open,
\* unless two calls of Init each made one.
THEOREM WrapsOpenVault == Spec => []KeyMatchesData
<1>1. IInv => KeyMatchesData
  <2> SUFFICES ASSUME IInv, inits <= 1, Whole(main)
               PROVE  /\ main.wrap.dek = main.data.dek
                      /\ main.conv # None => main.conv.dek = main.data.dek
    BY DEF KeyMatchesData
  <2>1. PICK k \in Nat : OneKey(k)
    BY DEF IInv, KeyInv
  <2>2. Sealed(main, k)
    BY <2>1 DEF IInv, FileInv, OneKey
  <2>3. QED
    BY <2>2 DEF Sealed
<1>2. QED
  BY <1>1, EnvelopeInvariant, PTL

\* A device whose key DisableConvenienceUnlock deleted does not open the vault,
\* whatever wrap is put back, until it is enabled again.
THEOREM ForgottenStaysOut == Spec => []ForgetHolds
<1>1. IInv => ForgetHolds
  <2> SUFFICES ASSUME IInv, forgot, convenienceOpens PROVE FALSE
    BY DEF ForgetHolds
  <2>1. readEnvelope \in Envelopes /\ readEnvelope.conv # None
    BY ReadType DEF convenienceOpens
  <2>2. readEnvelope.conv.key \in Nat
    BY <2>1 DEF Envelopes
  <2>3. QED
    BY <2>2, NoneDiffers DEF IInv, ForgetInv, convenienceOpens
<1>2. QED
  BY <1>1, EnvelopeInvariant, PTL
=============================================================================
