-------------------------- MODULE SharedFiles_proofs --------------------------
(* Proofs about the processes of one machine that share files: the daemons   *)
(* that start and stop around one lock, one socket and one pid file          *)
(* (DaemonSingleton), upgrades of one installed program (Upgrade), commands  *)
(* that sweep each other's run directories (Runner), installations over a    *)
(* user's hooks (Hooks), and the gates of those hooks beside Git and its     *)
(* users (RepoGate), for any number of them.  Daemons, upgrades, commands    *)
(* and installations may die at any step.                                    *)
EXTENDS DaemonSingleton, Upgrade, Runner, Hooks, RepoGate,
        FiniteSetTheorems, SequenceTheorems, WellFoundedInduction, TLAPS

-----------------------------------------------------------------------------
(* The inductive invariant, in parts. *)

\* The places of RunDaemon between taking the lock and releasing it.
Inside == {"locked", "clean", "bound", "owner", "pidded", "hbound", "serving",
           "stopping", "httpClosed", "noHTTP", "pidRemoved", "unlinked"}

Places == Inside \cup {"unborn", "starting", "released", "gone"}

\* The places between writing the pid file and removing it.
Announced == {"pidded", "hbound", "serving", "stopping", "httpClosed", "noHTTP"}

Owners == Daemons \cup {NoFile}

TypeOK ==
    /\ pc \in [Daemons -> Places]
    /\ tail \in [Daemons -> 0..2]
    /\ told \in [Daemons -> BOOLEAN]
    /\ lock \in Owners
    /\ sock \in Owners /\ pidfile \in Owners /\ port \in Owners /\ hsock \in Owners
    /\ client \in [Clients -> {"idle", "done", "refused", "undialed", "waiting", "removing",
                               "removingPort", "removingHSock", "spawning", "timeout"}]
    /\ stopper \in [Stoppers -> [at : {"idle", "failed", "read", "signalled", "done"},
                                 pid : Owners]]
    /\ crashes \in Nat

\* The lock is held over the whole of a daemon's life with the files: from
\* before it looks at the socket until after it has removed what was its own.
InsideHoldsLock == \A d \in Daemons : pc[d] \in Inside => lock = d

\* While a daemon is announced nobody else's pid is in the pid file.
PidIsOwn == \A d \in Daemons : pc[d] \in Announced => pidfile \in {d, NoFile}

\* A stopper that goes on has read a pid.
StopperHasPid == \A s \in Stoppers :
    stopper[s].at \in {"read", "signalled"} => stopper[s].pid \in Daemons

IInv == TypeOK /\ InsideHoldsLock /\ PidIsOwn /\ StopperHasPid

-----------------------------------------------------------------------------
LEMMA InitIInv == Init => IInv
BY DaemonAssumption DEF Init, IInv, TypeOK, Owners, Places, Inside, Announced,
   InsideHoldsLock, PidIsOwn, StopperHasPid

LEMMA PlacesOrder ==
    /\ Announced \subseteq Inside
    /\ "unborn" \notin Inside /\ "starting" \notin Inside
    /\ "released" \notin Inside /\ "gone" \notin Inside
    /\ \A d \in Daemons : Listening(d) => pc[d] \in Inside
    /\ \A d \in Daemons : Serving(d) => pc[d] \in Announced
BY DEF Announced, Inside, Listening, Serving

LEMMA StartIInv ==
    ASSUME IInv, NEW d \in Daemons,
           TakeLock(d) \/ LoseLock(d) \/ RemoveStaleSocket(d) \/ Listen(d) \/ RecordIdentity(d)
    PROVE  IInv'
<1> USE DaemonAssumption DEF IInv, Goto, files, Owners, Places, Inside
<1>1. TypeOK'
  BY DEF TypeOK, TakeLock, LoseLock, RemoveStaleSocket, Listen, RecordIdentity
<1>2. InsideHoldsLock'
  BY DEF TypeOK, InsideHoldsLock, TakeLock, LoseLock, RemoveStaleSocket, Listen, RecordIdentity
<1>3. PidIsOwn'
  BY DEF TypeOK, PidIsOwn, Announced, TakeLock, LoseLock, RemoveStaleSocket, Listen,
     RecordIdentity
<1>4. StopperHasPid'
  BY DEF StopperHasPid, TakeLock, LoseLock, RemoveStaleSocket, Listen, RecordIdentity
<1>5. QED
  BY <1>1, <1>2, <1>3, <1>4

LEMMA ServeIInv ==
    ASSUME IInv, NEW d \in Daemons,
           WritePid(d) \/ BindHTTP(d) \/ WritePort(d) \/ BeginStop(d) \/ LostSocket(d)
               \/ ServeFails(d)
    PROVE  IInv'
<1> USE DaemonAssumption DEF IInv, Goto, files, Owners, Places, Inside
<1>1. TypeOK'
  BY DEF TypeOK, WritePid, BindHTTP, WritePort, BeginStop, LostSocket, ServeFails, Serving
<1>2. InsideHoldsLock'
  BY DEF TypeOK, InsideHoldsLock, WritePid, BindHTTP, WritePort, BeginStop, LostSocket,
     ServeFails, Serving
<1>3. PidIsOwn'
  \* only the holder of the lock writes the file
  <2>1. CASE WritePid(d)
    BY <2>1 DEF TypeOK, InsideHoldsLock, PidIsOwn, Announced, WritePid
  <2>2. CASE BindHTTP(d) \/ WritePort(d) \/ BeginStop(d) \/ LostSocket(d) \/ ServeFails(d)
    BY <2>2 DEF TypeOK, PidIsOwn, Announced, BindHTTP, WritePort, BeginStop, LostSocket,
       ServeFails, Serving
  <2>3. QED
    BY <2>1, <2>2
<1>4. StopperHasPid'
  BY DEF StopperHasPid, WritePid, BindHTTP, WritePort, BeginStop, LostSocket, ServeFails
<1>5. QED
  BY <1>1, <1>2, <1>3, <1>4

LEMMA EndIInv ==
    ASSUME IInv, NEW d \in Daemons,
           CloseHTTP(d) \/ RemovePid(d) \/ CloseListener(d) \/ ReleaseLock(d) \/ Exit(d)
               \/ ServeReturns(d)
    PROVE  IInv'
<1> USE DaemonAssumption DEF IInv, Goto, files, Owners, Places, Inside
<1>1. TypeOK'
  BY DEF TypeOK, CloseHTTP, RemovePid, CloseListener, ReleaseLock, Exit, ServeReturns
<1>2. InsideHoldsLock'
  BY DEF TypeOK, InsideHoldsLock, CloseHTTP, RemovePid, CloseListener, ReleaseLock, Exit,
     ServeReturns
<1>3. PidIsOwn'
  BY DEF TypeOK, InsideHoldsLock, PidIsOwn, Announced, CloseHTTP, RemovePid, CloseListener,
     ReleaseLock, Exit, ServeReturns
<1>4. StopperHasPid'
  BY DEF StopperHasPid, CloseHTTP, RemovePid, CloseListener, ReleaseLock, Exit, ServeReturns
<1>5. QED
  BY <1>1, <1>2, <1>3, <1>4

LEMMA KilledIInv ==
    ASSUME IInv, NEW d \in Daemons, Killed(d), UNCHANGED <<tail, told, files, client, stopper>>,
           crashes' \in Nat
    PROVE  IInv'
<1> USE DaemonAssumption DEF IInv, Goto, Killed, files, Owners, Places, Inside
<1>1. TypeOK'
  BY DEF TypeOK
<1>2. InsideHoldsLock'
  BY DEF TypeOK, InsideHoldsLock
<1>3. PidIsOwn' /\ StopperHasPid'
  BY DEF TypeOK, PidIsOwn, Announced, StopperHasPid
<1>4. QED
  BY <1>1, <1>2, <1>3

\* Clients and stoppers take no lock and are in no place of RunDaemon: they
\* only unlink files, start a daemon or tell one to stop.
LEMMA ClientIInv ==
    ASSUME IInv, NEW c \in Clients, ClientStep(c) PROVE IInv'
<1> USE DaemonAssumption DEF IInv, Goto, ClientAt, files, Owners, Places, Inside
<1>1. CASE Dial(c) \/ Reprobe(c) \/ RemoveSocket(c) \/ RemoveSidecar(c) \/ Wait(c)
  BY <1>1 DEF TypeOK, InsideHoldsLock, PidIsOwn, StopperHasPid, Announced,
     Dial, Reprobe, RemoveSocket, RemoveSidecar, Wait
<1>2. CASE \E d \in Daemons : Spawn(c, d)
  BY <1>2 DEF TypeOK, InsideHoldsLock, PidIsOwn, StopperHasPid, Announced, Spawn
<1>3. QED
  BY <1>1, <1>2 DEF ClientStep

LEMMA StopperIInv ==
    ASSUME IInv, NEW s \in Stoppers, StopperStep(s) PROVE IInv'
<1> USE DaemonAssumption DEF IInv, StopperAt, files, Owners
<1>1. CASE ReadPid(s)
  BY <1>1 DEF TypeOK, InsideHoldsLock, PidIsOwn, StopperHasPid, ReadPid
<1>2. CASE Signal(s)
  <2>1. told' \in [Daemons -> BOOLEAN]
    BY <1>2 DEF TypeOK, Signal
  <2>2. /\ UNCHANGED <<pc, tail, lock, sock, port, hsock, client, crashes>>
        /\ pidfile' \in {pidfile, NoFile}
    BY <1>2 DEF Signal
  <2>3. /\ stopper' \in [Stoppers -> [at : {"idle", "failed", "read", "signalled", "done"},
                                      pid : Owners]]
        /\ StopperHasPid'
    BY <1>2 DEF TypeOK, StopperHasPid, Signal
  <2>4. QED
    BY <2>1, <2>2, <2>3 DEF TypeOK, InsideHoldsLock, PidIsOwn
<1>3. CASE Kill(s)
  <2>1. stopper[s].pid \in Daemons /\ crashes' \in Nat
    BY <1>3 DEF Kill, StopperHasPid, TypeOK
  <2>2. QED
    BY <1>3, <2>1, KilledIInv DEF Kill
<1>4. CASE AwaitExit(s)
  BY <1>4 DEF TypeOK, InsideHoldsLock, PidIsOwn, StopperHasPid, AwaitExit
<1>5. QED
  BY <1>1, <1>2, <1>3, <1>4 DEF StopperStep

LEMMA NextIInv == IInv /\ [Next]_vars => IInv'
<1> SUFFICES ASSUME IInv, [Next]_vars PROVE IInv'
  OBVIOUS
<1>1. ASSUME NEW d \in Daemons, DaemonStep(d) \/ ServeFails(d) PROVE IInv'
  BY <1>1, StartIInv, ServeIInv, EndIInv DEF DaemonStep, Run
<1>2. ASSUME NEW d \in Daemons, StartDaemon(d) PROVE IInv'
  BY <1>2 DEF StartDaemon, Goto, files, IInv, TypeOK, InsideHoldsLock, PidIsOwn,
     StopperHasPid, Announced, Places, Inside
<1>3. ASSUME NEW d \in Daemons, Crash(d) PROVE IInv'
  BY <1>3, KilledIInv DEF Crash, IInv, TypeOK
<1>4. ASSUME NEW c \in Clients, ClientStep(c) PROVE IInv'
  BY <1>4, ClientIInv
<1>5. ASSUME NEW s \in Stoppers, StopperStep(s) PROVE IInv'
  BY <1>5, StopperIInv
<1>6. CASE UNCHANGED vars
  BY <1>6 DEF vars, IInv, TypeOK, InsideHoldsLock, PidIsOwn, StopperHasPid
<1>7. QED
  BY <1>1, <1>2, <1>3, <1>4, <1>5, <1>6 DEF Next

-----------------------------------------------------------------------------
\* RunDaemon, EnsureDaemon and stopDetachedProcess keep the inductive
\* invariant, wherever a process is killed.
THEOREM DaemonInvariant == Spec => []IInv
BY InitIInv, NextIInv, PTL DEF Spec

\* acquireSingletonLock makes the daemon a singleton: who listens holds the lock.
THEOREM OneListener == Spec => []ListenerHoldsLock
<1>1. IInv => ListenerHoldsLock
  BY PlacesOrder DEF IInv, InsideHoldsLock, ListenerHoldsLock
<1>2. QED
  BY <1>1, DaemonInvariant, PTL

\* What a daemon's own step does to another one that listens: nothing, because
\* each call on the socket or the pid file is made by the holder of the lock.
LEMMA StepSparesOthers ==
    ASSUME IInv, NEW d \in Daemons, NEW e \in Daemons, DaemonStep(d), e # d, Listening(e)
    PROVE  (sock = e => sock' = e) /\ (pidfile = e => pidfile' = e)
<1>1. pc[d] \notin Inside
  BY PlacesOrder DEF IInv, InsideHoldsLock
<1>2. UNCHANGED <<sock, pidfile>>
  BY <1>1 DEF Inside, DaemonStep, Run, TakeLock, LoseLock, RemoveStaleSocket, Listen,
     RecordIdentity, WritePid, BindHTTP, WritePort, BeginStop, LostSocket, CloseHTTP,
     RemovePid, CloseListener, ReleaseLock, Exit, ServeReturns, files
<1>3. QED
  BY <1>2

\* The pid file leads to the daemon that serves or to nobody, and no daemon
\* removes the socket or the pid file of another that listens.
THEOREM FilesSafe == Spec => FilesLeadToServer
<1>1. IInv => \A d \in Daemons : Serving(d) => pidfile \in {d, NoFile}
  BY PlacesOrder DEF IInv, PidIsOwn
<1>2. IInv /\ [Next]_vars =>
        [\A d, e \in Daemons : DaemonStep(d) /\ e # d /\ Listening(e) =>
              /\ sock = e => sock' = e
              /\ pidfile = e => pidfile' = e]_vars
  BY StepSparesOthers
<1>3. QED
  BY <1>1, <1>2, DaemonInvariant, PTL DEF Spec, FilesLeadToServer

-----------------------------------------------------------------------------
(* Upgrades *)

Upgrading ==
    [at : {"idle", "keys", "tarball", "extract", "copy", "replace"},
     running : DOMAIN Releases, target : Asked \cup {FirstRelease},
     fetched : [keys : {{}} \cup {Releases[v].keys : v \in DOMAIN Releases},
                damaged : BOOLEAN]]

\* A release that the keys pinned in running vouch for.
KeysVouched(running, v) ==
    /\ running \in DOMAIN Releases /\ v \in DOMAIN Releases
    /\ CheckUpgrade(running, v)
    /\ Releases[v].keysSigner \in PinnedPublicKeys(running)

TarballVouched(running, v) ==
    KeysVouched(running, v) /\ Releases[v].signer \in Releases[v].keys

\* What an upgrade has checked when it gets to each place.
Checked(x) ==
    /\ x.at = "keys" => CheckUpgrade(x.running, x.target)
    /\ x.at = "tarball" => KeysVouched(x.running, x.target)
                           /\ x.fetched.keys = Releases[x.target].keys
    /\ x.at \in {"extract", "copy", "replace"} => TarballVouched(x.running, x.target)
                                                 /\ ~ x.fetched.damaged

\* What an upgrade is about to install is whole, and it is what it checked.
Staged(u) ==
    upgrader[u].at = "replace" =>
        /\ StagingPath(u) \in DOMAIN disk
        /\ disk[StagingPath(u)] = [version |-> upgrader[u].target, whole |-> TRUE]

\* The binary at the path is whole, and vouched for by the one that put it there.
BinaryOK ==
    /\ TargetPath \in DOMAIN disk
    /\ disk[TargetPath].whole
    /\ disk[TargetPath].version \in DOMAIN Releases
    /\ \/ disk[TargetPath].version = FirstRelease
       \/ TarballVouched(installedBy, disk[TargetPath].version)

UInv ==
    /\ upgrader \in [Upgraders -> Upgrading]
    /\ BinaryOK
    /\ \A u \in Upgraders : Checked(upgrader[u]) /\ Staged(u)

\* No two processes stage the binary in one place, or where it is run from.
LEMMA PathsDiffer ==
    /\ \A u : StagingPath(u) # TargetPath
    /\ \A u, w : u # w => StagingPath(u) # StagingPath(w)
<1>1. ASSUME NEW u PROVE StagingPath(u) # TargetPath
  <2>1. Len(StagingPath(u)) = 2 /\ Len(TargetPath) = 1
    BY DEF StagingPath, TargetPath
  <2> QED BY <2>1
<1>2. ASSUME NEW u, NEW w, u # w PROVE StagingPath(u) # StagingPath(w)
  <2>1. StagingPath(u)[2] = u /\ StagingPath(w)[2] = w
    BY DEF StagingPath
  <2> QED BY <1>2, <2>1
<1> QED BY <1>1, <1>2

\* An upgrade that is over leaves the others and the files as they are.
LEMMA EndsUInv ==
    ASSUME UInv, NEW u \in Upgraders, UpgradeEnds(u),
           BinaryOK',
           \A w \in Upgraders \ {u} : StagingPath(w) \in DOMAIN disk =>
               StagingPath(w) \in DOMAIN disk' /\ disk'[StagingPath(w)] = disk[StagingPath(w)]
    PROVE  UInv'
<1>1. /\ upgrader' = [upgrader EXCEPT ![u] = NotUpgrading]
      /\ NotUpgrading \in Upgrading /\ NotUpgrading.at = "idle"
  BY UpgradeAssumption DEF UpgradeEnds, NotUpgrading, NoFetch, Upgrading
<1>2. upgrader' \in [Upgraders -> Upgrading]
  BY <1>1 DEF UInv
<1>4. ASSUME NEW w \in Upgraders PROVE Checked(upgrader'[w]) /\ Staged(w)'
  <2>1. CASE w = u
    <3>1. upgrader'[w].at = "idle"
      BY <1>1, <2>1 DEF UInv
    <3> QED BY <3>1 DEF Checked, Staged
  <2>2. CASE w # u
    <3>1. upgrader'[w] = upgrader[w]
      BY <1>1, <2>2 DEF UInv
    <3> QED BY <2>2, <3>1 DEF UInv, Staged
  <2> QED BY <2>1, <2>2
<1> QED BY <1>2, <1>4 DEF UInv

\* An upgrade goes on to x, and puts at most its own staged file.
LEMMA GoesOnUInv ==
    ASSUME UInv, NEW u \in Upgraders, NEW x \in Upgrading, upgrader' = [upgrader EXCEPT ![u] = x],
           UNCHANGED installedBy,
           UNCHANGED disk \/ \E f : PutFile(StagingPath(u), f),
           x.at = "replace" => PutFile(StagingPath(u), [version |-> x.target, whole |-> TRUE]),
           Checked(x)
    PROVE  UInv'
<1>1. upgrader' \in [Upgraders -> Upgrading] /\ upgrader'[u] = x
  BY DEF UInv
<1>2. /\ TargetPath \in DOMAIN disk' /\ disk'[TargetPath] = disk[TargetPath]
      /\ \A w \in Upgraders : w # u /\ StagingPath(w) \in DOMAIN disk =>
             StagingPath(w) \in DOMAIN disk' /\ disk'[StagingPath(w)] = disk[StagingPath(w)]
  BY PathsDiffer DEF PutFile, UInv, BinaryOK
<1>3. BinaryOK'
  BY <1>2 DEF UInv, BinaryOK, TarballVouched, KeysVouched
<1>4. Staged(u)'
  BY <1>1 DEF Staged, PutFile
<1>5. ASSUME NEW w \in Upgraders, w # u PROVE Checked(upgrader'[w]) /\ Staged(w)'
  <2>1. upgrader'[w] = upgrader[w]
    BY <1>5 DEF UInv
  <2> QED BY <1>2, <1>5, <2>1 DEF UInv, Staged
<1> QED BY <1>1, <1>3, <1>4, <1>5 DEF UInv

LEMMA UpgradeInitUInv == UpgradeInit => UInv
BY UpgradeAssumption
   DEF UpgradeInit, UInv, BinaryOK, NotUpgrading, NoFetch, Upgrading, Checked, Staged

LEMMA UpgradeNextUInv == UInv /\ [UpgradeNext]_upgradeVars => UInv'
<1> SUFFICES ASSUME UInv, [UpgradeNext]_upgradeVars PROVE UInv'
  OBVIOUS
<1>0. /\ upgrader \in [Upgraders -> Upgrading] /\ BinaryOK
      /\ \A u \in Upgraders : upgrader[u] \in Upgrading /\ Checked(upgrader[u]) /\ Staged(u)
  BY DEF UInv
<1>1. ASSUME NEW u \in Upgraders, UpgradeEnds(u), UNCHANGED <<disk, installedBy>> PROVE UInv'
  <2>1. BinaryOK'
    BY <1>0, <1>1 DEF BinaryOK, TarballVouched, KeysVouched
  <2> QED BY <1>1, <2>1, EndsUInv
<1>2. ASSUME NEW u \in Upgraders, NEW target \in Asked, upgradeCommand(u, target) PROVE UInv'
  <2> DEFINE current == disk[TargetPath].version
             x == [NotUpgrading EXCEPT !.at = "keys", !.running = current, !.target = target]
  <2>1. upgrader' = [upgrader EXCEPT ![u] = x] /\ UNCHANGED <<disk, installedBy>>
        /\ CheckUpgrade(current, target)
    BY <1>2 DEF upgradeCommand
  <2>2. current \in DOMAIN Releases
    BY <1>0 DEF BinaryOK
  <2>3. x \in Upgrading /\ x.at = "keys" /\ x.running = current /\ x.target = target
    BY <2>2 DEF NotUpgrading, NoFetch, Upgrading
  <2> HIDE DEF x, current
  <2>4. Checked(x)
    BY <2>1, <2>3 DEF Checked
  <2> QED BY <2>1, <2>3, <2>4, GoesOnUInv
<1>3. ASSUME NEW u \in Upgraders, FetchKEYS(u) PROVE UInv'
  <2>1. UNCHANGED <<disk, installedBy>> /\ upgrader[u].at = "keys"
    BY <1>3 DEF FetchKEYS
  <2>2. CASE UpgradeEnds(u)
    BY <1>1, <2>1, <2>2
  <2>3. CASE ~ UpgradeEnds(u)
    <3> DEFINE release == Releases[upgrader[u].target]
    <3>1. PICK damaged \in BOOLEAN :
            /\ upgrader[u].target \in DOMAIN Releases
            /\ VerifyKEYS([keys |-> release.keys, damaged |-> damaged], release.keysSigner,
                          PinnedPublicKeys(upgrader[u].running))
            /\ upgrader' = [upgrader EXCEPT ![u].at = "tarball",
                   ![u].fetched = [keys |-> release.keys, damaged |-> damaged]]
      BY <1>3, <2>3 DEF FetchKEYS, DefaultHTTPGet
    <3> DEFINE x == [upgrader[u] EXCEPT !.at = "tarball",
                       !.fetched = [keys |-> release.keys, damaged |-> damaged]]
    <3>2. upgrader' = [upgrader EXCEPT ![u] = x]
      BY <1>0, <3>1
    <3>3. /\ x \in Upgrading /\ x.at = "tarball" /\ x.running = upgrader[u].running
          /\ x.target = upgrader[u].target /\ x.fetched.keys = release.keys
      BY <1>0, <3>1, ZenonT(30) DEF Upgrading
    <3> HIDE DEF x
    <3>4. upgrader[u].running \in DOMAIN Releases
      BY <1>0 DEF Upgrading
    <3>5. Checked(x)
      BY <1>0, <2>1, <3>1, <3>3, <3>4 DEF Checked, KeysVouched, VerifyKEYS
    <3> QED BY <2>1, <3>2, <3>3, <3>5, GoesOnUInv
  <2> QED BY <2>2, <2>3
<1>4. ASSUME NEW u \in Upgraders, FetchTarball(u) PROVE UInv'
  <2>1. UNCHANGED <<disk, installedBy>> /\ upgrader[u].at = "tarball"
    BY <1>4 DEF FetchTarball
  <2>2. CASE UpgradeEnds(u)
    BY <1>1, <2>1, <2>2
  <2>3. CASE ~ UpgradeEnds(u)
    <3>1. PICK damaged \in BOOLEAN :
            /\ VerifyTarball(damaged, Releases[upgrader[u].target].signer, upgrader[u].fetched.keys)
            /\ upgrader' = [upgrader EXCEPT ![u].at = "extract", ![u].fetched.damaged = damaged]
      BY <1>4, <2>3 DEF FetchTarball
    <3> DEFINE x == [upgrader[u] EXCEPT !.at = "extract", !.fetched.damaged = damaged]
    <3>2. upgrader' = [upgrader EXCEPT ![u] = x]
      BY <1>0, <3>1
    <3>3. /\ x \in Upgrading /\ x.at = "extract" /\ x.running = upgrader[u].running
          /\ x.target = upgrader[u].target /\ x.fetched.damaged = damaged
      BY <1>0, <3>1, ZenonT(30) DEF Upgrading
    <3> HIDE DEF x
    <3>4. Checked(x)
      BY <1>0, <2>1, <3>1, <3>3 DEF Checked, TarballVouched, VerifyTarball
    <3> QED BY <2>1, <3>2, <3>3, <3>4, GoesOnUInv
  <2> QED BY <2>2, <2>3
<1>5. ASSUME NEW u \in Upgraders, ExtractBinary(u) PROVE UInv'
  <2>1. UNCHANGED installedBy /\ upgrader[u].at = "extract"
    BY <1>5 DEF ExtractBinary
  <2>2. CASE UpgradeEnds(u) /\ UNCHANGED disk
    BY <1>1, <2>1, <2>2
  <2>3. CASE ~ (UpgradeEnds(u) /\ UNCHANGED disk)
    <3> DEFINE x == [upgrader[u] EXCEPT !.at = "copy"]
    <3>1. /\ upgrader' = [upgrader EXCEPT ![u] = x]
          /\ \E f : PutFile(StagingPath(u), f)
      BY <1>0, <1>5, <2>3 DEF ExtractBinary
    <3>2. /\ x \in Upgrading /\ x.at = "copy" /\ x.running = upgrader[u].running
          /\ x.target = upgrader[u].target /\ x.fetched = upgrader[u].fetched
      BY <1>0 DEF Upgrading
    <3> HIDE DEF x
    <3>3. Checked(x)
      BY <1>0, <2>1, <3>2 DEF Checked
    <3> QED BY <2>1, <3>1, <3>2, <3>3, GoesOnUInv
  <2> QED BY <2>2, <2>3
<1>6. ASSUME NEW u \in Upgraders, CopyBinary(u) PROVE UInv'
  <2> DEFINE x == [upgrader[u] EXCEPT !.at = "replace"]
             f == [version |-> upgrader[u].target, whole |-> ~upgrader[u].fetched.damaged]
  <2>1. /\ UNCHANGED installedBy /\ upgrader[u].at = "copy"
        /\ upgrader' = [upgrader EXCEPT ![u] = x] /\ PutFile(StagingPath(u), f)
    BY <1>0, <1>6 DEF CopyBinary
  <2>2. /\ x \in Upgrading /\ x.at = "replace" /\ x.running = upgrader[u].running
        /\ x.target = upgrader[u].target /\ x.fetched = upgrader[u].fetched
    BY <1>0 DEF Upgrading
  <2>3. ~upgrader[u].fetched.damaged
    BY <1>0, <2>1 DEF Checked
  <2>4. f = [version |-> x.target, whole |-> TRUE]
    BY <2>2, <2>3
  <2> HIDE DEF x, f
  <2>5. Checked(x)
    BY <1>0, <2>1, <2>2 DEF Checked
  <2> QED BY <2>1, <2>2, <2>4, <2>5, GoesOnUInv
<1>7. ASSUME NEW u \in Upgraders, ExtractFails(u) PROVE UInv'
  <2>1. UpgradeEnds(u) /\ RemoveFile(StagingPath(u)) /\ UNCHANGED installedBy
    BY <1>7 DEF ExtractFails
  <2>2. /\ TargetPath \in DOMAIN disk' /\ disk'[TargetPath] = disk[TargetPath]
        /\ \A w \in Upgraders \ {u} : StagingPath(w) \in DOMAIN disk =>
               StagingPath(w) \in DOMAIN disk' /\ disk'[StagingPath(w)] = disk[StagingPath(w)]
    BY <1>0, <2>1, PathsDiffer DEF RemoveFile, BinaryOK
  <2>3. BinaryOK'
    BY <1>0, <2>1, <2>2 DEF BinaryOK, TarballVouched, KeysVouched
  <2> QED BY <2>1, <2>2, <2>3, EndsUInv
<1>8. ASSUME NEW u \in Upgraders, AtomicReplace(u) PROVE UInv'
  <2>1. /\ upgrader[u].at = "replace" /\ UpgradeEnds(u) /\ installedBy' = upgrader[u].running
        /\ disk' = [p \in DOMAIN disk \ ({StagingPath(u)} \ {TargetPath}) |->
                  IF p = TargetPath THEN disk[StagingPath(u)] ELSE disk[p]]
    BY <1>8 DEF AtomicReplace
  <2>2. /\ TarballVouched(upgrader[u].running, upgrader[u].target)
        /\ disk[StagingPath(u)] = [version |-> upgrader[u].target, whole |-> TRUE]
        /\ TargetPath \in DOMAIN disk
    BY <1>0, <2>1 DEF Checked, Staged, BinaryOK
  <2>3. TargetPath \in DOMAIN disk' /\ disk'[TargetPath] = disk[StagingPath(u)]
    BY <2>1, <2>2
  <2>4. BinaryOK'
    BY <2>1, <2>2, <2>3 DEF BinaryOK, TarballVouched, KeysVouched
  <2>5. \A w \in Upgraders \ {u} : StagingPath(w) \in DOMAIN disk =>
            StagingPath(w) \in DOMAIN disk' /\ disk'[StagingPath(w)] = disk[StagingPath(w)]
    BY <2>1, PathsDiffer
  <2> QED BY <2>1, <2>4, <2>5, EndsUInv
<1>9. ASSUME NEW u \in Upgraders, UpgradeStops(u) PROVE UInv'
  BY <1>1, <1>9 DEF UpgradeStops
<1>10. CASE UNCHANGED upgradeVars
  BY <1>0, <1>10 DEF upgradeVars, UInv, BinaryOK, TarballVouched, KeysVouched, Staged
<1> QED BY <1>2, <1>3, <1>4, <1>5, <1>6, <1>7, <1>8, <1>9, <1>10 DEF UpgradeNext

\* What is at the path, what is staged and what was checked agree, for any
\* number of upgrades at once.
THEOREM UpgradeInvariant == UpgradeSpec => []UInv
<1>1. UpgradeInit => UInv
  BY UpgradeInitUInv
<1>2. UInv /\ [UpgradeNext]_upgradeVars => UInv'
  BY UpgradeNextUInv
<1> QED BY <1>1, <1>2, PTL DEF UpgradeSpec

\* Whatever fails or dies, the installed binary is whole, vouched for by the
\* keys that the one which installed it pins, and later than that.
THEOREM InstalledVouched == UpgradeSpec => []InstalledIsVouched
<1>1. UInv => InstalledIsVouched
  BY UpgradeAssumption
     DEF UInv, BinaryOK, TarballVouched, KeysVouched, CheckUpgrade, InstalledIsVouched
<1> QED BY <1>1, UpgradeInvariant, PTL

-----------------------------------------------------------------------------
(* Runs and their directories *)

RunnerPlaces == {"sweep", "look", "grab", "flock", "empty", "rmdir", "release", "mkdir", "open",
                 "own", "files", "start", "running", "drain", "ended", "dead"}

Directories == [there : BOOLEAN, mod : Nat, active : Nat, gens : Nat, files : SUBSET {"key"}]

RunnerRecords == [at : RunnerPlaces, todo : SUBSET Runners, dir : Runners \cup {""}, gen : Nat,
                  tty : BOOLEAN, made : Nat, copied : Nat, cut : BOOLEAN]

RunnerTypeOK ==
    /\ hours \in Nat
    /\ runDir \in [Runners -> Directories]
    /\ flocks \subseteq Runners \X Nat \X Runners
    /\ runner \in [Runners -> RunnerRecords]

\* What a runner does to a directory that it means to remove: x is where it is.
Removes(x, d) == x.dir = d /\ x.at \in {"grab", "flock", "empty", "rmdir", "release"}

\* A runner that has not made its directory, one that has not locked it yet, and
\* one that relies on it.
Unmade(r) == \/ runner[r].at \in {"sweep", "look", "mkdir"}
             \/ runner[r].at \in {"grab", "flock", "empty", "rmdir", "release"} /\ runner[r].dir # r
Locking(r) == runner[r].at \in {"open", "own"}
Relies(r) == runner[r].at \in {"files", "start", "running", "drain"}

NobodyAt(d) == /\ \A s \in Runners : ~ Removes(runner[s], d)
               /\ \A f \in flocks : f[1] # d

UnmadeOK(r) == Unmade(r) => ~ runDir[r].there /\ runDir[r].active = 0 /\ NobodyAt(r)

\* A directory is too young to be swept until its lock is held.
LockingOK(r) == Locking(r) =>
    /\ runner[r].dir = r /\ hours < runDir[r].mod + Threshold /\ NobodyAt(r)
    /\ runner[r].at = "own" => /\ runDir[r].there /\ runDir[r].active = runner[r].gen
                               /\ runDir[r].active # 0

\* Whoever sweeps a directory in use has opened the very file that is locked.
ReliesOK(r) == Relies(r) =>
    /\ runner[r].dir = r /\ runDir[r].there /\ runDir[r].active # 0
    /\ <<r, runDir[r].active, r>> \in flocks
    /\ runner[r].at # "files" => runDir[r].files = {"key"}
    /\ \A s \in Runners : Removes(runner[s], r) =>
         /\ runner[s].at \in {"grab", "flock"}
         /\ runner[s].at = "flock" => runner[s].gen = runDir[r].active

\* What is opened to be swept is another runner's.
AimOK(r) == runner[r].at \in {"grab", "flock", "empty", "rmdir", "release"} =>
    /\ runner[r].dir \in Runners
    /\ runner[r].at \in {"grab", "flock"} => runner[r].dir # r

\* Nothing the terminal still holds is forgotten.
OutputOK(r) == runner[r].tty /\ ~ runner[r].cut =>
    runner[r].at \in {"running", "drain", "dead"} \/ runner[r].copied = runner[r].made

\* What holds of each runner.
RunnerOK(r) == UnmadeOK(r) /\ LockingOK(r) /\ ReliesOK(r) /\ AimOK(r) /\ OutputOK(r)

RunInv == RunnerTypeOK /\ \A r \in Runners : RunnerOK(r)

-----------------------------------------------------------------------------
LEMMA RunnerInitRunInv == RunnerInit => RunInv
<1> SUFFICES ASSUME RunnerInit PROVE RunInv
  OBVIOUS
<1>1. Fresh \in RunnerRecords /\ Fresh.at = "sweep" /\ ~ Fresh.tty
  BY DEF Fresh, RunnerRecords, RunnerPlaces
<1>2. NoDir \in Directories /\ ~ NoDir.there /\ NoDir.active = 0
  BY DEF NoDir, Directories
<1>3. /\ hours = 0 /\ runDir = [d \in Runners |-> NoDir] /\ flocks = {}
      /\ runner = [r \in Runners |-> Fresh]
  BY DEF RunnerInit
<1>4. RunnerTypeOK
  BY <1>1, <1>2, <1>3 DEF RunnerTypeOK
<1>5. ASSUME NEW r \in Runners PROVE RunnerOK(r)
  BY <1>1, <1>2, <1>3
     DEF RunnerOK, AimOK, UnmadeOK, LockingOK, ReliesOK, OutputOK, Locking, Relies, NobodyAt, Removes
<1> QED BY <1>4, <1>5 DEF RunInv

\* What a step of runner r, which goes on to x, leaves to another runner d: its
\* directory, if it has use of it, and its lock.
Leaves(x, d) ==
    /\ Unmade(d) \/ Locking(d) \/ Relies(d) => runDir'[d] = runDir[d]
    /\ Unmade(d) \/ Locking(d) => /\ ~ Removes(x, d)
                                  /\ \A f \in flocks' : f[1] # d
    /\ Relies(d) => /\ <<d, runDir[d].active, d>> \in flocks'
                    /\ Removes(x, d) => /\ x.at \in {"grab", "flock"}
                                        /\ x.at = "flock" => x.gen = runDir[d].active

LEMMA OneRunner ==
    ASSUME RunInv, RunnerTypeOK', hours' = hours, NEW r \in Runners, NEW x \in RunnerRecords,
           runner' = [runner EXCEPT ![r] = x],
           RunnerOK(r)',
           \A d \in Runners \ {r} : Leaves(x, d)
    PROVE  RunInv'
<1>1. \A d \in Runners : runner'[d] = IF d = r THEN x ELSE runner[d]
  BY DEF RunInv, RunnerTypeOK
<1>2. ASSUME NEW d \in Runners, d # r
      PROVE  RunnerOK(d)'
  <2>0. /\ UnmadeOK(d) /\ LockingOK(d) /\ ReliesOK(d) /\ AimOK(d) /\ OutputOK(d)
        /\ runner'[d] = runner[d] /\ Leaves(x, d)
    BY <1>1, <1>2 DEF RunInv, RunnerOK
  <2>1. /\ Unmade(d)' <=> Unmade(d)
        /\ Locking(d)' <=> Locking(d)
        /\ Relies(d)' <=> Relies(d)
    BY <2>0 DEF Unmade, Locking, Relies
  <2>2. Unmade(d) \/ Locking(d) => (NobodyAt(d) => NobodyAt(d)')
    BY <1>1, <2>0 DEF Leaves, NobodyAt
  <2>3. UnmadeOK(d)'
    BY <2>0, <2>1, <2>2 DEF UnmadeOK, Leaves
  <2>4. LockingOK(d)'
    BY <2>0, <2>1, <2>2 DEF LockingOK, Leaves
  <2>5. ReliesOK(d)'
    BY <1>1, <2>0, <2>1 DEF ReliesOK, Leaves
  <2>6. OutputOK(d)'
    BY <2>0 DEF OutputOK
  <2>7. AimOK(d)'
    BY <2>0 DEF AimOK
  <2> QED BY <2>3, <2>4, <2>5, <2>6, <2>7 DEF RunnerOK
<1> QED BY <1>2 DEF RunInv

\* Runner r moves on without a change to directories and locks, and begins at
\* most to remove a directory that is stale.
LEMMA MovesOn ==
    ASSUME RunInv, UNCHANGED <<hours, runDir, flocks>>, NEW r \in Runners,
           NEW x \in RunnerRecords, runner' = [runner EXCEPT ![r] = x], RunnerOK(r)',
           \A d \in Runners \ {r} : Removes(x, d) => stale(d) /\ x.at = "grab"
    PROVE  RunInv'
<1>1. RunnerTypeOK'
  BY DEF RunInv, RunnerTypeOK
<1>2. ASSUME NEW d \in Runners \ {r} PROVE Leaves(x, d)
  <2>1. UnmadeOK(d) /\ LockingOK(d) /\ ReliesOK(d) /\ runDir[d].mod \in Nat /\ hours \in Nat
    BY DEF RunInv, RunnerOK, RunnerTypeOK, Directories
  <2>2. Unmade(d) \/ Locking(d) => ~ stale(d) /\ NobodyAt(d)
    BY <2>1, RunnerAssumption DEF UnmadeOK, LockingOK, stale
  <2> QED BY <2>1, <2>2 DEF Leaves, NobodyAt, ReliesOK
<1> QED BY <1>1, <1>2, OneRunner

\* Runner r goes to a place and changes nothing else of itself.
At(k, place) == [k EXCEPT !.at = place]

LEMMA AtFacts ==
    ASSUME NEW k \in RunnerRecords, NEW place \in RunnerPlaces
    PROVE  /\ At(k, place) \in RunnerRecords /\ At(k, place).at = place
           /\ At(k, place).dir = k.dir /\ At(k, place).gen = k.gen
           /\ At(k, place).tty = k.tty /\ At(k, place).cut = k.cut
           /\ At(k, place).made = k.made /\ At(k, place).copied = k.copied
BY DEF At, RunnerRecords

LEMMA OneMoreMade ==
    ASSUME NEW k \in RunnerRecords
    PROVE  LET x == [k EXCEPT !.made = k.made + 1]
           IN  x \in RunnerRecords /\ x.at = k.at /\ x.dir = k.dir
<1>1. k.made + 1 \in Nat
  <2>1. k.made \in Nat
    BY Zenon DEF RunnerRecords
  <2> QED BY <2>1
<1>2. ASSUME NEW n \in Nat PROVE [k EXCEPT !.made = n] \in RunnerRecords
  BY DEF RunnerRecords
<1>3. [k EXCEPT !.made = k.made + 1].at = k.at /\ [k EXCEPT !.made = k.made + 1].dir = k.dir
  BY DEF RunnerRecords
<1> QED BY <1>1, <1>2, <1>3

LEMMA OneMoreCopied ==
    ASSUME NEW k \in RunnerRecords
    PROVE  LET x == [k EXCEPT !.copied = k.copied + 1]
           IN  x \in RunnerRecords /\ x.at = k.at /\ x.dir = k.dir
<1>1. k.copied + 1 \in Nat
  <2>1. k.copied \in Nat
    BY Zenon DEF RunnerRecords
  <2> QED BY <2>1
<1>2. ASSUME NEW n \in Nat PROVE [k EXCEPT !.copied = n] \in RunnerRecords
  BY DEF RunnerRecords
<1>3. [k EXCEPT !.copied = k.copied + 1].at = k.at /\ [k EXCEPT !.copied = k.copied + 1].dir = k.dir
  BY DEF RunnerRecords
<1> QED BY <1>1, <1>2, <1>3

LEMMA GoFacts ==
    ASSUME RunInv, NEW r \in Runners
    PROVE  /\ runner \in [Runners -> RunnerRecords] /\ runner[r] \in RunnerRecords
           /\ \A place : Go(r, place) => runner' = [runner EXCEPT ![r] = At(runner[r], place)]
BY DEF RunInv, RunnerTypeOK, Go, At

-----------------------------------------------------------------------------
(* The sweep *)

\* Back to the next directory, or on to its own.
LEMMA LooksOn ==
    ASSUME RunInv, NEW r \in Runners, UNCHANGED <<hours, runDir, flocks>>,
           NEW x \in RunnerRecords, runner' = [runner EXCEPT ![r] = x],
           Unmade(r), x.at \in {"look", "mkdir"}, x.tty = runner[r].tty,
           x.cut = runner[r].cut, x.made = runner[r].made, x.copied = runner[r].copied
    PROVE  RunInv'
<1>1. UnmadeOK(r) /\ OutputOK(r) /\ runner'[r] = x
      /\ \A d \in Runners : d # r => runner'[d] = runner[d]
  BY DEF RunInv, RunnerOK, RunnerTypeOK
<1>2. \A d \in Runners : ~ Removes(x, d)
  BY DEF Removes
<1>3. UnmadeOK(r)'
  BY <1>1, <1>2 DEF UnmadeOK, NobodyAt
<1>4. OutputOK(r)'
  BY <1>1 DEF OutputOK, Unmade
<1>5. LockingOK(r)' /\ ReliesOK(r)' /\ AimOK(r)'
  BY <1>1 DEF LockingOK, ReliesOK, AimOK, Locking, Relies
<1> QED BY <1>2, <1>3, <1>4, <1>5, MovesOn DEF RunnerOK

LEMMA SweepRunInv == ASSUME RunInv, NEW r \in Runners, Sweep(r) PROVE RunInv'
<1> DEFINE x == [runner[r] EXCEPT !.at = "look", !.todo = {d \in Runners : runDir[d].there}]
<1>1. runner[r].at = "sweep" /\ runner' = [runner EXCEPT ![r] = x] /\ UNCHANGED <<hours, runDir, flocks>>
  BY GoFacts DEF Sweep
<1>2. /\ x \in RunnerRecords /\ x.at = "look" /\ x.tty = runner[r].tty /\ x.cut = runner[r].cut
      /\ x.made = runner[r].made /\ x.copied = runner[r].copied
  <2>1. runner[r] \in RunnerRecords /\ {d \in Runners : runDir[d].there} \in SUBSET Runners
    BY GoFacts
  <2> HIDE DEF RunnerRecords
  <2> QED BY <2>1 DEF RunnerRecords, RunnerPlaces
<1> HIDE DEF x
<1> QED BY <1>1, <1>2, LooksOn DEF Unmade

LEMMA LookRunInv == ASSUME RunInv, NEW r \in Runners, Look(r) PROVE RunInv'
<1>0. runner[r].at = "look" /\ UNCHANGED <<hours, runDir, flocks>>
  BY DEF Look
<1>1. CASE Go(r, "mkdir")
  <2>1. "mkdir" \in RunnerPlaces
    BY DEF RunnerPlaces
  <2>2. runner' = [runner EXCEPT ![r] = At(runner[r], "mkdir")] /\ runner[r] \in RunnerRecords
    BY <1>1, GoFacts
  <2> QED BY <1>0, <2>1, <2>2, AtFacts, LooksOn, ZenonT(30) DEF Unmade
<1>2. CASE ~ Go(r, "mkdir")
  <2>1. PICK d \in runner[r].todo :
          runner' = [runner EXCEPT ![r].todo = @ \ {d}, ![r].dir = d,
                                   ![r].at = IF stale(d) THEN "grab" ELSE "look"]
    BY <1>2, Zenon DEF Look
  <2> DEFINE x == [runner[r] EXCEPT !.todo = @ \ {d}, !.dir = d,
                                    !.at = IF stale(d) THEN "grab" ELSE "look"]
  <2>2. runner' = [runner EXCEPT ![r] = x] /\ d \in Runners
    BY <2>1, GoFacts DEF RunnerRecords
  <2>3. /\ x \in RunnerRecords /\ x.at = (IF stale(d) THEN "grab" ELSE "look") /\ x.dir = d
        /\ x.tty = runner[r].tty /\ x.cut = runner[r].cut
        /\ x.made = runner[r].made /\ x.copied = runner[r].copied
    BY <2>2, GoFacts, ZenonT(30) DEF RunnerRecords, RunnerPlaces
  <2> HIDE DEF x
  <2>4. CASE ~ stale(d)
    BY <1>0, <2>2, <2>3, <2>4, LooksOn DEF Unmade
  <2>5. CASE stale(d)
    <3>1. UnmadeOK(r) /\ OutputOK(r) /\ runner'[r] = x
          /\ \A e \in Runners : e # r => runner'[e] = runner[e]
      BY <2>2 DEF RunInv, RunnerOK, RunnerTypeOK
    <3>2. d # r
      BY <1>0, <2>5, <3>1 DEF UnmadeOK, Unmade, stale
    <3>3. UnmadeOK(r)'
      BY <1>0, <2>3, <3>1, <3>2 DEF UnmadeOK, NobodyAt, Unmade, Removes
    <3>4. LockingOK(r)' /\ ReliesOK(r)' /\ AimOK(r)' /\ OutputOK(r)'
      BY <1>0, <2>2, <2>3, <2>5, <3>1, <3>2
         DEF LockingOK, ReliesOK, AimOK, OutputOK, Locking, Relies
    <3> QED BY <1>0, <2>2, <2>3, <2>5, <3>3, <3>4, MovesOn DEF RunnerOK, Removes
  <2> QED BY <2>4, <2>5
<1> QED BY <1>1, <1>2

\* What a runner r that removes something finds of the others.
LEMMA Others ==
    ASSUME RunInv, NEW r \in Runners, NEW d \in Runners, d # r
    PROVE  /\ Unmade(d) \/ Locking(d) => ~ Removes(runner[r], d) /\ \A f \in flocks : f[1] # d
           /\ Relies(d) => /\ runDir[d].there /\ runDir[d].active # 0
                           /\ <<d, runDir[d].active, d>> \in flocks
                           /\ Removes(runner[r], d) =>
                                /\ runner[r].at \in {"grab", "flock"}
                                /\ runner[r].at = "flock" => runner[r].gen = runDir[d].active
BY DEF RunInv, RunnerOK, UnmadeOK, LockingOK, ReliesOK, NobodyAt

LEMMA SweepOpenRunInv == ASSUME RunInv, NEW r \in Runners, SweepOpen(r) PROVE RunInv'
<1> DEFINE d == runner[r].dir
<1>0. /\ runner[r].at = "grab" /\ UNCHANGED <<hours, flocks>>
      /\ d \in Runners /\ d # r /\ Unmade(r) /\ runner[r] \in RunnerRecords
  BY GoFacts DEF SweepOpen, RunInv, RunnerOK, AimOK, Unmade
<1>1. CASE ~ runDir[d].there
  <2>1. Go(r, "look") /\ UNCHANGED runDir /\ "look" \in RunnerPlaces
    BY <1>1, <1>0 DEF SweepOpen, OpenActive, RunnerPlaces
  <2> QED BY <1>0, <2>1, GoFacts, AtFacts, LooksOn
<1>2. CASE runDir[d].there
  <2> DEFINE x == [runner[r] EXCEPT !.at = "flock", !.gen = Opened(d)]
             y == IF runDir[d].active # 0 THEN runDir[d]
                  ELSE Touch(d, [runDir[d] EXCEPT !.active = Opened(d), !.gens = Opened(d)])
  <2>0. runDir \in [Runners -> Directories] /\ hours \in Nat /\ runDir[d] \in Directories
    BY <1>0 DEF RunInv, RunnerTypeOK
  <2>1. /\ runner' = [runner EXCEPT ![r] = x] /\ runDir' = [runDir EXCEPT ![d] = y]
    BY <1>0, <1>2, GoFacts DEF SweepOpen, OpenActive
  <2>2. Opened(d) \in Nat /\ (runDir[d].active # 0 => Opened(d) = runDir[d].active)
    BY <2>0 DEF Opened, Directories
  <2>3. y \in Directories /\ (runDir[d].active # 0 => y = runDir[d])
    BY <2>0, <2>2 DEF Directories, Touch
  <2>4. /\ x \in RunnerRecords /\ x.at = "flock" /\ x.dir = d /\ x.gen = Opened(d)
        /\ x.tty = runner[r].tty /\ x.cut = runner[r].cut
        /\ x.made = runner[r].made /\ x.copied = runner[r].copied
    BY <1>0, <2>2 DEF RunnerRecords, RunnerPlaces
  <2> HIDE DEF x, y
  <2>5. RunnerTypeOK'
    BY <1>0, <2>1, <2>3, <2>4 DEF RunInv, RunnerTypeOK
  <2>6. /\ runner'[r] = x /\ \A e \in Runners : e # r => runner'[e] = runner[e]
        /\ \A e \in Runners : e # d => runDir'[e] = runDir[e]
        /\ runDir'[d] = y
    BY <1>0, <2>0, <2>1, GoFacts
  <2>7. RunnerOK(r)'
    <3>1. UnmadeOK(r) /\ OutputOK(r)
      BY DEF RunInv, RunnerOK
    <3>2. UnmadeOK(r)'
      BY <1>0, <2>4, <2>6, <3>1 DEF UnmadeOK, NobodyAt, Removes
    <3>3. LockingOK(r)' /\ ReliesOK(r)' /\ AimOK(r)' /\ OutputOK(r)'
      BY <1>0, <2>4, <2>6, <3>1 DEF LockingOK, ReliesOK, AimOK, OutputOK, Locking, Relies
    <3> QED BY <3>2, <3>3 DEF RunnerOK
  <2>8. ASSUME NEW e \in Runners \ {r} PROVE Leaves(x, e)
    <3>1. CASE e = d
      <4>1. Removes(runner[r], e)
        BY <1>0, <3>1 DEF Removes
      <4> QED BY <1>0, <2>2, <2>3, <2>4, <2>6, <3>1, <4>1, Others DEF Leaves
    <3>2. CASE e # d
      BY <1>0, <2>4, <2>6, <3>2, Others DEF Leaves, Removes
    <3> QED BY <3>1, <3>2
  <2> QED BY <1>0, <2>1, <2>4, <2>5, <2>7, <2>8, OneRunner
<1> QED BY <1>1, <1>2

LEMMA SweepLockRunInv == ASSUME RunInv, NEW r \in Runners, SweepLock(r) PROVE RunInv'
<1> DEFINE d == runner[r].dir
           x == At(runner[r], "empty")
<1>0. /\ runner[r].at = "flock" /\ UNCHANGED <<hours, runDir>>
      /\ d \in Runners /\ d # r /\ Unmade(r) /\ runner[r] \in RunnerRecords
      /\ runner[r].gen \in Nat
  BY GoFacts DEF SweepLock, RunInv, RunnerOK, AimOK, Unmade, RunnerRecords
<1>p. "look" \in RunnerPlaces /\ "empty" \in RunnerPlaces
  BY DEF RunnerPlaces
<1>1. CASE ~ TryFlock(d, runner[r].gen)
  <2>1. Go(r, "look") /\ UNCHANGED flocks
    BY <1>1 DEF SweepLock
  <2> QED BY <1>0, <1>p, <2>1, GoFacts, AtFacts, LooksOn
<1>2. CASE TryFlock(d, runner[r].gen)
  <2>1. flocks' = flocks \cup {<<d, runner[r].gen, r>>} /\ runner' = [runner EXCEPT ![r] = x]
    BY <1>2, GoFacts DEF SweepLock
  <2>2. /\ x \in RunnerRecords /\ x.at = "empty" /\ x.dir = d
        /\ x.tty = runner[r].tty /\ x.cut = runner[r].cut
        /\ x.made = runner[r].made /\ x.copied = runner[r].copied
    BY <1>0, <1>p, AtFacts
  <2> HIDE DEF x
  <2>3. RunnerTypeOK'
    BY <1>0, <2>1, <2>2 DEF RunInv, RunnerTypeOK
  <2>4. runner'[r] = x /\ \A e \in Runners : e # r => runner'[e] = runner[e]
    BY <2>1, GoFacts
  <2>5. RunnerOK(r)'
    <3>1. UnmadeOK(r) /\ OutputOK(r)
      BY DEF RunInv, RunnerOK
    <3>2. UnmadeOK(r)'
      BY <1>0, <2>1, <2>2, <2>4, <3>1 DEF UnmadeOK, NobodyAt, Removes
    <3>3. LockingOK(r)' /\ ReliesOK(r)' /\ AimOK(r)' /\ OutputOK(r)'
      BY <1>0, <2>2, <2>4, <3>1 DEF LockingOK, ReliesOK, AimOK, OutputOK, Locking, Relies
    <3> QED BY <3>2, <3>3 DEF RunnerOK
  <2>6. ASSUME NEW e \in Runners \ {r} PROVE Leaves(x, e)
    <3>1. CASE e = d
      <4>1. Removes(runner[r], e)
        BY <1>0, <3>1 DEF Removes
      <4>2. ~ Unmade(e) /\ ~ Locking(e)
        BY <4>1, Others
      <4>3. ~ Relies(e)
        <5> SUFFICES ASSUME Relies(e) PROVE FALSE
          OBVIOUS
        <5>1. <<e, runner[r].gen, e>> \in flocks
          BY <1>0, <4>1, Others
        <5> QED BY <1>2, <3>1, <5>1 DEF TryFlock
      <4> QED BY <4>2, <4>3 DEF Leaves
    <3>2. CASE e # d
      BY <1>0, <2>1, <2>2, <3>2, Others DEF Leaves, Removes
    <3> QED BY <3>1, <3>2
  <2> QED BY <1>0, <2>1, <2>2, <2>3, <2>5, <2>6, OneRunner
<1> QED BY <1>1, <1>2

\* Runner r, which holds the lock or cleans up after itself, takes away from the
\* directory d.
LEMMA TakesAway ==
    ASSUME RunInv, NEW r \in Runners, UNCHANGED hours,
           runner[r].at \in {"empty", "rmdir", "release"},
           NEW y \in Directories, runDir' = [runDir EXCEPT ![runner[r].dir] = y],
           flocks' \subseteq flocks, \A f \in flocks : f[3] # r => f \in flocks',
           NEW place \in {"empty", "rmdir", "release", "look", "ended"}, Go(r, place),
           place = "look" => runner[r].dir # r, place = "ended" => runner[r].dir = r
    PROVE  RunInv'
<1> DEFINE d == runner[r].dir
           x == At(runner[r], place)
<1>0. d \in Runners /\ runner[r] \in RunnerRecords /\ runDir \in [Runners -> Directories]
  BY GoFacts DEF RunInv, RunnerTypeOK, RunnerOK, AimOK
<1>1. runner' = [runner EXCEPT ![r] = x] /\ place \in RunnerPlaces
  BY GoFacts DEF RunnerPlaces
<1>2. /\ x \in RunnerRecords /\ x.at = place /\ x.dir = d
      /\ x.tty = runner[r].tty /\ x.cut = runner[r].cut
      /\ x.made = runner[r].made /\ x.copied = runner[r].copied
  BY <1>0, <1>1, AtFacts
<1> HIDE DEF x
<1>3. RunnerTypeOK'
  BY <1>0, <1>1, <1>2 DEF RunInv, RunnerTypeOK
<1>4. /\ runner'[r] = x /\ \A e \in Runners : e # r => runner'[e] = runner[e]
      /\ \A e \in Runners : e # d => runDir'[e] = runDir[e]
  BY <1>0, <1>1, GoFacts
<1>5. RunnerOK(r)'
  <2>1. UnmadeOK(r) /\ OutputOK(r)
    BY DEF RunInv, RunnerOK
  <2>2. UnmadeOK(r)'
    <3> SUFFICES ASSUME Unmade(r)' PROVE ~ runDir'[r].there /\ runDir'[r].active = 0 /\ NobodyAt(r)'
      BY DEF UnmadeOK
    <3>1. d # r /\ Unmade(r)
      BY <1>2, <1>4 DEF Unmade
    <3> QED BY <1>2, <1>4, <2>1, <3>1 DEF UnmadeOK, NobodyAt, Removes
  <2>3. LockingOK(r)' /\ ReliesOK(r)' /\ AimOK(r)' /\ OutputOK(r)'
    BY <1>0, <1>2, <1>4, <2>1 DEF LockingOK, ReliesOK, AimOK, OutputOK, Locking, Relies
  <2> QED BY <2>2, <2>3 DEF RunnerOK
<1>6. ASSUME NEW e \in Runners \ {r} PROVE Leaves(x, e)
  <2>1. CASE e = d
    <3>1. Removes(runner[r], e) /\ runner[r].at \notin {"grab", "flock"}
      BY <1>0, <2>1 DEF Removes
    <3> QED BY <3>1, Others DEF Leaves
  <2>2. CASE e # d
    <3>1. Relies(e) => <<e, runDir[e].active, e>> \in flocks'
      BY Others
    <3> QED BY <1>2, <1>4, <2>2, <3>1, Others DEF Leaves, Removes
  <2> QED BY <2>1, <2>2
<1> QED BY <1>1, <1>2, <1>3, <1>5, <1>6, OneRunner

LEMMA RemoveRunInv ==
    ASSUME RunInv, NEW r \in Runners, Empty(r) \/ RmDir(r) \/ Release(r)
    PROVE  RunInv'
<1> DEFINE d == runner[r].dir
<1>0. /\ runner[r].at \in {"empty", "rmdir", "release"} => d \in Runners /\ runDir[d] \in Directories
      /\ runDir \in [Runners -> Directories] /\ hours \in Nat
  BY DEF RunInv, RunnerTypeOK, RunnerOK, AimOK
<1>1. CASE Empty(r)
  <2> DEFINE y == IF runDir[d].there
                  THEN Touch(d, [runDir[d] EXCEPT !.active = 0, !.files = {}]) ELSE runDir[d]
  <2>1. /\ runner[r].at = "empty" /\ runDir' = [runDir EXCEPT ![d] = y] /\ Go(r, "rmdir")
        /\ UNCHANGED <<hours, flocks>>
    BY <1>0, <1>1 DEF Empty
  <2>2. y \in Directories
    BY <1>0, <2>1 DEF Touch, Directories
  <2> HIDE DEF y
  <2> QED BY <2>1, <2>2, TakesAway
<1>2. CASE RmDir(r)
  <2>1. runner[r].at = "rmdir" /\ UNCHANGED <<hours, flocks>>
    BY <1>2 DEF RmDir
  <2>2. CASE Go(r, "empty") /\ UNCHANGED runDir
    <3>1. runDir' = [runDir EXCEPT ![d] = runDir[d]]
      BY <1>0, <2>2
    <3> QED BY <1>0, <2>1, <2>2, <3>1, TakesAway
  <2>3. CASE ~ (Go(r, "empty") /\ UNCHANGED runDir)
    <3> DEFINE y == [runDir[d] EXCEPT !.there = FALSE]
    <3>1. Go(r, "release") /\ runDir' = [runDir EXCEPT ![d] = y]
      BY <1>2, <2>3 DEF RmDir
    <3>2. y \in Directories
      BY <1>0, <2>1 DEF Directories
    <3> HIDE DEF y
    <3> QED BY <2>1, <3>1, <3>2, TakesAway
  <2> QED BY <2>2, <2>3
<1>3. CASE Release(r)
  <2> DEFINE place == IF d = r THEN "ended" ELSE "look"
  <2>1. /\ runner[r].at = "release" /\ UNCHANGED <<hours, runDir>>
        /\ flocks' = {f \in flocks : ~(f[1] = d /\ f[3] = r)} /\ Go(r, place)
    BY <1>3 DEF Release
  <2>2. runDir' = [runDir EXCEPT ![d] = runDir[d]]
    BY <1>0, <2>1
  <2>3. flocks' \subseteq flocks /\ \A f \in flocks : f[3] # r => f \in flocks'
    BY <2>1
  <2> QED BY <1>0, <2>1, <2>2, <2>3, TakesAway
<1> QED BY <1>1, <1>2, <1>3

-----------------------------------------------------------------------------
(* Its own directory *)

\* Runner r goes on to x with its own directory and lock; nobody else is
\* concerned.
LEMMA OwnStep ==
    ASSUME RunInv, NEW r \in Runners, UNCHANGED hours, NEW x \in RunnerRecords,
           runner' = [runner EXCEPT ![r] = x],
           NEW y \in Directories, runDir' = [runDir EXCEPT ![r] = y],
           flocks' = flocks \/ \E g \in Nat : flocks' = flocks \cup {<<r, g, r>>},
           x.dir = r, x.at \notin {"grab", "flock"}, RunnerOK(r)'
    PROVE  RunInv'
<1>1. RunnerTypeOK'
  BY DEF RunInv, RunnerTypeOK
<1>2. ASSUME NEW e \in Runners \ {r} PROVE Leaves(x, e)
  <2>1. runDir'[e] = runDir[e]
    BY DEF RunInv, RunnerTypeOK
  <2>2. ~ Removes(x, e)
    BY DEF Removes
  <2> QED BY <2>1, <2>2, Others DEF Leaves
<1> QED BY <1>1, <1>2, OneRunner

LEMMA MakeDirRunInv == ASSUME RunInv, NEW r \in Runners, MakeDir(r) PROVE RunInv'
<1> DEFINE x == [runner[r] EXCEPT !.at = "open", !.dir = r]
           y == [runDir[r] EXCEPT !.there = TRUE, !.mod = hours]
<1>0. /\ runDir \in [Runners -> Directories] /\ hours \in Nat /\ runDir[r] \in Directories
      /\ runner[r] \in RunnerRecords /\ UnmadeOK(r) /\ OutputOK(r)
  BY DEF RunInv, RunnerTypeOK, RunnerOK
<1>1. /\ runner[r].at = "mkdir" /\ UNCHANGED <<hours, flocks>>
      /\ runner' = [runner EXCEPT ![r] = x] /\ runDir' = [runDir EXCEPT ![r] = y]
  BY <1>0, GoFacts DEF MakeDir
<1>2. y \in Directories /\ y.mod = hours
  BY <1>0 DEF Directories
<1>3. /\ x \in RunnerRecords /\ x.at = "open" /\ x.dir = r
      /\ x.tty = runner[r].tty /\ x.cut = runner[r].cut
      /\ x.made = runner[r].made /\ x.copied = runner[r].copied
  BY <1>0 DEF RunnerRecords, RunnerPlaces
<1> HIDE DEF x, y
<1>4. /\ runner'[r] = x /\ \A e \in Runners : e # r => runner'[e] = runner[e]
      /\ runDir'[r] = y
  BY <1>0, <1>1, GoFacts
<1>5. LockingOK(r)'
  BY <1>0, <1>1, <1>2, <1>3, <1>4, RunnerAssumption
     DEF LockingOK, UnmadeOK, Unmade, Locking, NobodyAt, Removes
<1>6. UnmadeOK(r)' /\ ReliesOK(r)' /\ AimOK(r)' /\ OutputOK(r)'
  BY <1>0, <1>1, <1>3, <1>4 DEF UnmadeOK, ReliesOK, AimOK, OutputOK, Unmade, Relies
<1> QED BY <1>1, <1>2, <1>3, <1>5, <1>6, OwnStep DEF RunnerOK

\* Runner r cleans up, or ends without anything to clean up.
LEMMA GivesUp ==
    ASSUME RunInv, NEW r \in Runners, UNCHANGED <<hours, runDir, flocks>>,
           NEW place \in {"empty", "ended"}, Go(r, place), Locking(r) \/ Relies(r),
           runner[r].tty /\ ~ runner[r].cut => runner[r].copied = runner[r].made
    PROVE  RunInv'
<1> DEFINE x == At(runner[r], place)
<1>0. /\ runner[r] \in RunnerRecords /\ runner[r].dir = r /\ place \in RunnerPlaces
      /\ runner' = [runner EXCEPT ![r] = x]
  BY GoFacts, ZenonT(30) DEF RunInv, RunnerOK, LockingOK, ReliesOK, RunnerPlaces
<1>1. /\ x \in RunnerRecords /\ x.at = place /\ x.dir = r
      /\ x.tty = runner[r].tty /\ x.cut = runner[r].cut
      /\ x.made = runner[r].made /\ x.copied = runner[r].copied
  BY <1>0, AtFacts
<1> HIDE DEF x
<1>2. runner'[r] = x
  BY <1>0, GoFacts
<1>3. RunnerOK(r)'
  BY <1>1, <1>2
     DEF RunnerOK, UnmadeOK, LockingOK, ReliesOK, AimOK, OutputOK, Unmade, Locking, Relies
<1>4. \A d \in Runners \ {r} : ~ Removes(x, d)
  BY <1>1 DEF Removes
<1> QED BY <1>0, <1>1, <1>3, <1>4, MovesOn

\* A run that has not begun has nothing on a terminal that could be lost.
LEMMA NotBegun ==
    ASSUME RunInv, NEW r \in Runners,
           runner[r].at \in {"open", "own", "files", "start"}
    PROVE  runner[r].tty /\ ~ runner[r].cut => runner[r].copied = runner[r].made
BY DEF RunInv, RunnerOK, OutputOK

LEMMA OwnOpenRunInv == ASSUME RunInv, NEW r \in Runners, OwnOpen(r) PROVE RunInv'
<1>0. /\ runner[r].at = "open" /\ UNCHANGED <<hours, flocks>> /\ Locking(r)
      /\ runDir \in [Runners -> Directories] /\ hours \in Nat /\ runDir[r] \in Directories
      /\ runner[r] \in RunnerRecords /\ LockingOK(r) /\ OutputOK(r)
  BY GoFacts DEF OwnOpen, Locking, RunInv, RunnerOK, RunnerTypeOK
<1>1. CASE ~ runDir[r].there
  <2>1. Go(r, "ended") /\ UNCHANGED runDir
    BY <1>1 DEF OwnOpen, OpenActive
  <2> QED BY <1>0, <2>1, GivesUp, NotBegun
<1>2. CASE runDir[r].there
  <2> DEFINE x == [runner[r] EXCEPT !.at = "own", !.gen = Opened(r)]
             y == IF runDir[r].active # 0 THEN runDir[r]
                  ELSE Touch(r, [runDir[r] EXCEPT !.active = Opened(r), !.gens = Opened(r)])
  <2>1. /\ runner' = [runner EXCEPT ![r] = x] /\ runDir' = [runDir EXCEPT ![r] = y]
    BY <1>0, <1>2, GoFacts DEF OwnOpen, OpenActive
  <2>2. Opened(r) \in Nat /\ Opened(r) # 0 /\ (runDir[r].active # 0 => Opened(r) = runDir[r].active)
    BY <1>0 DEF Opened, Directories
  <2>3. /\ y \in Directories /\ y.there /\ y.active = Opened(r)
        /\ y.mod \in {runDir[r].mod, hours}
    BY <1>0, <1>2, <2>2 DEF Directories, Touch
  <2>4. /\ x \in RunnerRecords /\ x.at = "own" /\ x.dir = runner[r].dir /\ x.gen = Opened(r)
        /\ x.tty = runner[r].tty /\ x.cut = runner[r].cut
        /\ x.made = runner[r].made /\ x.copied = runner[r].copied
    BY <1>0, <2>2 DEF RunnerRecords, RunnerPlaces
  <2> HIDE DEF x, y
  <2>5. /\ runner'[r] = x /\ \A e \in Runners : e # r => runner'[e] = runner[e]
        /\ runDir'[r] = y
    BY <1>0, <2>1, GoFacts
  <2>6. LockingOK(r)' /\ x.dir = r
    BY <1>0, <2>2, <2>3, <2>4, <2>5, RunnerAssumption DEF LockingOK, NobodyAt, Removes
  <2>7. UnmadeOK(r)' /\ ReliesOK(r)' /\ AimOK(r)' /\ OutputOK(r)'
    BY <1>0, <2>4, <2>5 DEF UnmadeOK, ReliesOK, AimOK, OutputOK, Unmade, Relies
  <2> QED BY <1>0, <2>1, <2>3, <2>4, <2>6, <2>7, OwnStep DEF RunnerOK
<1> QED BY <1>1, <1>2

LEMMA OwnLockRunInv == ASSUME RunInv, NEW r \in Runners, OwnLock(r) PROVE RunInv'
<1>0. /\ runner[r].at = "own" /\ UNCHANGED <<hours, runDir>> /\ Locking(r)
      /\ runDir \in [Runners -> Directories] /\ runDir[r] \in Directories
      /\ runner[r] \in RunnerRecords /\ LockingOK(r) /\ OutputOK(r) /\ runner[r].gen \in Nat
  BY GoFacts DEF OwnLock, Locking, RunInv, RunnerOK, RunnerTypeOK, RunnerRecords
<1>1. CASE Go(r, "ended") /\ UNCHANGED flocks
  BY <1>0, <1>1, GivesUp, NotBegun
<1>2. CASE ~ (Go(r, "ended") /\ UNCHANGED flocks)
  <2> DEFINE x == At(runner[r], "files")
  <2>1. /\ runner' = [runner EXCEPT ![r] = x] /\ flocks' = flocks \cup {<<r, runner[r].gen, r>>}
        /\ runDir' = [runDir EXCEPT ![r] = runDir[r]]
    BY <1>0, <1>2, GoFacts DEF OwnLock
  <2>2. /\ x \in RunnerRecords /\ x.at = "files" /\ x.dir = runner[r].dir
        /\ x.tty = runner[r].tty /\ x.cut = runner[r].cut
        /\ x.made = runner[r].made /\ x.copied = runner[r].copied
    <3>1. "files" \in RunnerPlaces
      BY DEF RunnerPlaces
    <3> QED BY <1>0, <3>1, AtFacts
  <2> HIDE DEF x
  <2>3. runner'[r] = x /\ \A e \in Runners : e # r => runner'[e] = runner[e]
    BY <2>1, GoFacts
  <2>4. x.dir = r /\ ReliesOK(r)'
    BY <1>0, <2>1, <2>2, <2>3 DEF LockingOK, ReliesOK, NobodyAt, Removes
  <2>5. UnmadeOK(r)' /\ LockingOK(r)' /\ AimOK(r)' /\ OutputOK(r)'
    BY <1>0, <2>2, <2>3 DEF UnmadeOK, LockingOK, AimOK, OutputOK, Unmade, Locking
  <2> QED BY <1>0, <2>1, <2>2, <2>4, <2>5, OwnStep DEF RunnerOK
<1> QED BY <1>1, <1>2

LEMMA WriteRunInv == ASSUME RunInv, NEW r \in Runners, writeInjectedFile(r) PROVE RunInv'
<1>0. /\ runner[r].at = "files" /\ UNCHANGED <<hours, flocks>> /\ Relies(r)
      /\ runDir \in [Runners -> Directories] /\ runDir[r] \in Directories /\ hours \in Nat
      /\ runner[r] \in RunnerRecords /\ ReliesOK(r) /\ OutputOK(r)
  BY GoFacts DEF writeInjectedFile, Relies, RunInv, RunnerOK, RunnerTypeOK
<1>1. CASE Go(r, "empty") /\ UNCHANGED runDir
  BY <1>0, <1>1, GivesUp, NotBegun
<1>2. CASE ~ (Go(r, "empty") /\ UNCHANGED runDir)
  <2> DEFINE x == At(runner[r], "start")
             y == Touch(r, [runDir[r] EXCEPT !.files = {"key"}])
  <2>1. runner' = [runner EXCEPT ![r] = x] /\ runDir' = [runDir EXCEPT ![r] = y]
    BY <1>0, <1>2, GoFacts DEF writeInjectedFile
  <2>2. /\ x \in RunnerRecords /\ x.at = "start" /\ x.dir = runner[r].dir
        /\ x.tty = runner[r].tty /\ x.cut = runner[r].cut
        /\ x.made = runner[r].made /\ x.copied = runner[r].copied
    <3>1. "start" \in RunnerPlaces
      BY DEF RunnerPlaces
    <3> QED BY <1>0, <3>1, AtFacts
  <2>3. /\ y \in Directories /\ y.files = {"key"} /\ y.active = runDir[r].active
        /\ y.there = runDir[r].there
    BY <1>0 DEF Directories, Touch
  <2> HIDE DEF x, y
  <2>4. /\ runner'[r] = x /\ \A e \in Runners : e # r => runner'[e] = runner[e]
        /\ runDir'[r] = y
    BY <1>0, <2>1, GoFacts
  <2>5. x.dir = r /\ ReliesOK(r)'
    BY <1>0, <2>1, <2>2, <2>3, <2>4 DEF ReliesOK, Removes
  <2>6. UnmadeOK(r)' /\ LockingOK(r)' /\ AimOK(r)' /\ OutputOK(r)'
    BY <1>0, <2>2, <2>4 DEF UnmadeOK, LockingOK, AimOK, OutputOK, Unmade, Locking
  <2> QED BY <1>0, <2>1, <2>2, <2>3, <2>5, <2>6, OwnStep DEF RunnerOK
<1> QED BY <1>1, <1>2

-----------------------------------------------------------------------------
(* The command *)

\* The command goes on, and its directory stays.
LEMMA CommandStep ==
    ASSUME RunInv, NEW r \in Runners, UNCHANGED <<hours, runDir, flocks>>,
           runner[r].at \in {"start", "running", "drain"}, NEW x \in RunnerRecords,
           runner' = [runner EXCEPT ![r] = x], x.dir = runner[r].dir,
           x.at \in {"running", "drain"}
    PROVE  RunInv'
<1>1. /\ runner'[r] = x /\ \A e \in Runners : e # r => runner'[e] = runner[e]
      /\ ReliesOK(r) /\ Relies(r)
  BY GoFacts DEF RunInv, RunnerOK, Relies
<1>2. RunnerOK(r)'
  BY <1>1 DEF RunnerOK, UnmadeOK, LockingOK, ReliesOK, AimOK, OutputOK, Unmade, Locking, Relies, Removes
<1> QED BY <1>2, MovesOn DEF Removes

LEMMA CommandRunInv ==
    ASSUME RunInv, NEW r \in Runners, Start(r) \/ Child(r) \/ Copy(r) \/ CommandEnds(r) \/ Drain(r)
    PROVE  RunInv'
<1>0. /\ UNCHANGED <<hours, runDir, flocks>> /\ runner[r] \in RunnerRecords
      /\ runner[r].at \in {"start", "running", "drain"} /\ Relies(r)
      /\ runner \in [Runners -> RunnerRecords]
  BY GoFacts DEF Start, Child, Copy, CommandEnds, Drain, Relies
<1>1. ASSUME NEW x \in RunnerRecords, runner' = [runner EXCEPT ![r] = x], x.dir = runner[r].dir,
             x.at \in {"running", "drain"}
      PROVE  RunInv'
  BY <1>0, <1>1, CommandStep
<1>2. CASE Start(r)
  <2>1. CASE Go(r, "empty")
    BY <1>0, <1>2, <2>1, GivesUp, NotBegun DEF Start
  <2>2. ASSUME NEW tty \in BOOLEAN, runner' = [runner EXCEPT ![r].at = "running", ![r].tty = tty]
        PROVE  RunInv'
    <3> DEFINE x == [runner[r] EXCEPT !.at = "running", !.tty = tty]
    <3>1. runner' = [runner EXCEPT ![r] = x]
      BY <1>0, <2>2
    <3>2. x \in RunnerRecords /\ x.at = "running" /\ x.dir = runner[r].dir
      BY <1>0 DEF RunnerRecords, RunnerPlaces
    <3> HIDE DEF x
    <3> QED BY <1>1, <3>1, <3>2
  <2> QED BY <1>2, <2>1, <2>2 DEF Start
<1>3. CASE Child(r)
  <2> DEFINE x == [runner[r] EXCEPT !.made = runner[r].made + 1]
  <2>1. runner' = [runner EXCEPT ![r] = x] /\ runner[r].at = "running"
    BY <1>0, <1>3 DEF Child
  <2>2. x \in RunnerRecords /\ x.at = runner[r].at /\ x.dir = runner[r].dir
    BY <1>0, OneMoreMade
  <2> HIDE DEF x
  <2> QED BY <1>1, <2>1, <2>2
<1>4. CASE Copy(r)
  <2> DEFINE x == [runner[r] EXCEPT !.copied = runner[r].copied + 1]
  <2>1. runner' = [runner EXCEPT ![r] = x] /\ runner[r].at \in {"running", "drain"}
    BY <1>0, <1>4 DEF Copy
  <2>2. x \in RunnerRecords /\ x.at = runner[r].at /\ x.dir = runner[r].dir
    BY <1>0, OneMoreCopied
  <2> HIDE DEF x
  <2> QED BY <1>1, <2>1, <2>2
<1>5. CASE CommandEnds(r)
  <2>1. CASE runner[r].tty
    <3>1. Go(r, "drain") /\ "drain" \in RunnerPlaces
      BY <1>5, <2>1 DEF CommandEnds, RunnerPlaces
    <3>2. runner' = [runner EXCEPT ![r] = At(runner[r], "drain")]
      BY <3>1, GoFacts
    <3> QED BY <1>0, <1>1, <3>1, <3>2, AtFacts
  <2>2. CASE ~ runner[r].tty
    BY <1>0, <1>5, <2>2, GivesUp DEF CommandEnds
  <2> QED BY <2>1, <2>2
<1>6. CASE Drain(r)
  <2>1. CASE pumped(r) /\ Go(r, "empty")
    BY <1>0, <2>1, GivesUp DEF pumped
  <2>2. CASE runner' = [runner EXCEPT ![r].at = "empty", ![r].cut = TRUE]
    <3> DEFINE x == [runner[r] EXCEPT !.at = "empty", !.cut = TRUE]
    <3>1. runner' = [runner EXCEPT ![r] = x]
      BY <1>0, <2>2
    <3>2. x \in RunnerRecords /\ x.at = "empty" /\ x.dir = runner[r].dir /\ x.cut
      BY <1>0 DEF RunnerRecords, RunnerPlaces
    <3> HIDE DEF x
    <3>3. runner'[r] = x /\ runner[r].dir = r
      BY <1>0, <3>1 DEF RunInv, RunnerOK, ReliesOK
    <3>4. RunnerOK(r)'
      BY <3>2, <3>3
         DEF RunnerOK, UnmadeOK, LockingOK, ReliesOK, AimOK, OutputOK, Unmade, Locking, Relies
    <3>5. \A d \in Runners \ {r} : ~ Removes(x, d)
      BY <3>2, <3>3 DEF Removes
    <3> QED BY <1>0, <3>1, <3>2, <3>4, <3>5, MovesOn
  <2> QED BY <1>6, <2>1, <2>2 DEF Drain
<1> QED BY <1>2, <1>3, <1>4, <1>5, <1>6

LEMMA DieRunInv == ASSUME RunInv, NEW r \in Runners, Die(r) PROVE RunInv'
<1> DEFINE x == At(runner[r], "dead")
<1>1. /\ runner' = [runner EXCEPT ![r] = x] /\ runner[r] \in RunnerRecords
      /\ UNCHANGED <<hours, runDir>> /\ flocks' = {f \in flocks : f[3] # r}
  BY GoFacts DEF Die
<1>2. x \in RunnerRecords /\ x.at = "dead"
  <2>1. "dead" \in RunnerPlaces
    BY DEF RunnerPlaces
  <2> QED BY <1>1, <2>1, AtFacts
<1> HIDE DEF x
<1>3. RunnerTypeOK' /\ runner'[r] = x
  BY <1>1, <1>2 DEF RunInv, RunnerTypeOK
<1>4. RunnerOK(r)'
  BY <1>2, <1>3
     DEF RunnerOK, UnmadeOK, LockingOK, ReliesOK, AimOK, OutputOK, Unmade, Locking, Relies
<1>5. \A d \in Runners \ {r} : Leaves(x, d)
  BY <1>1, <1>2, Others DEF Leaves, Removes
<1> QED BY <1>1, <1>2, <1>3, <1>4, <1>5, OneRunner

\* Time passes, and a directory whose lock is still to be taken stays young.
LEMMA HourRunInv == ASSUME RunInv, Hour PROVE RunInv'
<1>1. /\ hours' = hours + 1 /\ hours' \in Nat /\ UNCHANGED <<runDir, flocks, runner>>
      /\ \A r \in Runners : Locking(r) => hours' < runDir[r].mod + Threshold
  BY DEF Hour, Locking, RunInv, RunnerTypeOK
<1>2. RunnerTypeOK'
  BY <1>1 DEF RunInv, RunnerTypeOK
<1>3. ASSUME NEW r \in Runners PROVE RunnerOK(r)'
  <2>1. RunnerOK(r)
    BY DEF RunInv
  <2>2. LockingOK(r)'
    BY <1>1, <2>1 DEF RunnerOK, LockingOK, NobodyAt, Locking
  <2> QED BY <1>1, <2>1, <2>2
          DEF RunnerOK, UnmadeOK, ReliesOK, AimOK, OutputOK, NobodyAt, Unmade, Relies
<1> QED BY <1>2, <1>3 DEF RunInv

LEMMA RunnerNextRunInv == RunInv /\ [RunnerNext]_runnerVars => RunInv'
<1> SUFFICES ASSUME RunInv, [RunnerNext]_runnerVars PROVE RunInv'
  OBVIOUS
<1>1. CASE UNCHANGED runnerVars
  BY <1>1 DEF runnerVars, RunInv, RunnerTypeOK, RunnerOK, UnmadeOK, LockingOK, ReliesOK, AimOK,
              OutputOK, NobodyAt, Unmade, Locking, Relies
<1> QED BY <1>1, SweepRunInv, LookRunInv, SweepOpenRunInv, SweepLockRunInv, RemoveRunInv,
           MakeDirRunInv, OwnOpenRunInv, OwnLockRunInv, WriteRunInv, CommandRunInv, DieRunInv,
           HourRunInv DEF RunnerNext, Progress

\* Directories, their locks and those who sweep them agree, for any number of
\* runs that come, end and are killed.
THEOREM RunnerInvariant == RunnerSpec => []RunInv
<1>1. RunnerInit => RunInv
  BY RunnerInitRunInv
<1>2. RunInv /\ [RunnerNext]_runnerVars => RunInv'
  BY RunnerNextRunInv
<1> QED BY <1>1, <1>2, PTL DEF RunnerSpec

\* A command finds its credential file as long as it runs, and what it wrote to
\* its terminal is delivered.
THEOREM CommandsServed == RunnerSpec => []CommandServed
<1>1. RunInv => CommandServed
  BY DEF RunInv, RunnerOK, ReliesOK, OutputOK, Relies, CommandServed
<1> QED BY <1>1, RunnerInvariant, PTL

-----------------------------------------------------------------------------
(* Hooks *)

Scripts == OwnScripts \cup {"none", "", "hasp", "older"}

Files == [script : Scripts, exec : BOOLEAN, link : BOOLEAN]

Installers ==
    [at : {"idle", "inspect", "saved", "empty saved", "write saved", "chmod saved",
           "script", "empty", "write", "chmod"},
     hook : {1, 2}, existing : Files]

HooksTypeOK ==
    /\ hookFile \in [HookSet -> Files]
    /\ savedFile \in [HookSet -> Files]
    /\ replaced \in [HookSet -> SUBSET Scripts]
    /\ ownWritten \in [HookSet -> SUBSET OwnScripts]
    /\ installer \in Installers
    /\ dir = ResolveInstallPlan \/ ResolveInstallPlan = "refused"

\* Every script that a user wrote as hook h is somewhere.
Kept(h) == \A s \in ownWritten[h] : s \in {hookFile[h].script, savedFile[h].script} \cup replaced[h]

InForce(h) == hookFile[h].script = "hasp" /\ hookFile[h].exec /\ ~ hookFile[h].link

\* Until it overwrites the hook, an installation knows what the hook is; and
\* from then on, the hook is saved if it was the user's.
Known ==
    /\ installer.at \in {"saved", "empty saved", "write saved", "chmod saved", "script", "empty"} =>
         hookFile[Hook] = installer.existing /\ ~ installer.existing.link
    /\ installer.at \in {"saved", "empty saved", "write saved", "chmod saved"} =>
         ToKeep(installer.existing)
    /\ installer.at \in {"chmod saved", "script", "empty"} /\ ToKeep(installer.existing) =>
         savedFile[Hook].script = installer.existing.script
    /\ installer.at \in {"empty saved", "write saved"} =>
         savedFile[Hook].script \in {"none", ""} \cup replaced[Hook]
    /\ installer.at \in {"write", "chmod"} =>
         /\ ~ hookFile[Hook].link
         /\ \A s \in ownWritten[Hook] : s \in {savedFile[Hook].script} \cup replaced[Hook]
    /\ installer.at = "chmod" => hookFile[Hook].script = "hasp"

\* An installation goes from one hook to the next when the first is in force,
\* and both are when one has ended well.
InOrder ==
    /\ installer.at # "idle" => lastInstall = "none" /\ ResolveInstallPlan # "refused"
    /\ installer.hook = 2 => installer.at # "idle" /\ InForce("pre-commit")
    /\ lastInstall = "done" => InForce("pre-commit") /\ InForce("pre-push")
                               /\ ResolveInstallPlan # "refused"

HooksInv == HooksTypeOK /\ (\A h \in HookSet : Kept(h)) /\ Known /\ InOrder

-----------------------------------------------------------------------------
LEMMA HookFacts ==
    ASSUME HooksInv
    PROVE  /\ Hook \in HookSet /\ installer.hook \in {1, 2} /\ installer.existing \in Files
           /\ Hook = IF installer.hook = 1 THEN "pre-commit" ELSE "pre-push"
           /\ HookSet = {"pre-commit", "pre-push"}
           /\ hookFile[Hook] \in Files /\ savedFile[Hook] \in Files /\ replaced[Hook] \subseteq Scripts
           /\ \A at : InstallAt(at) => installer'.hook = installer.hook /\ installer'.at = at
                                       /\ installer'.existing = installer.existing
           /\ installer'.hook = installer.hook => Hook' = Hook
BY DEF HooksInv, HooksTypeOK, Installers, InstallAt, Hook, HookSet, HookNames

LEMMA HooksInitHooksInv == HooksInit => HooksInv
<1> SUFFICES ASSUME HooksInit PROVE HooksInv
  OBVIOUS
<1>1. /\ savedFile = [h \in HookSet |-> Nothing] /\ replaced = [h \in HookSet |-> {}]
      /\ installer = NotInstalling /\ lastInstall = "none"
      /\ ownWritten = [h \in HookSet |-> {hookFile[h].script} \cap OwnScripts]
  BY DEF HooksInit
<1>2. Nothing \in Files
  BY DEF Nothing, Files, Scripts
<1>3. hookFile \in [HookSet -> Files]
  <2>1. /\ [script : OwnScripts, exec : BOOLEAN, link : {FALSE}] \subseteq Files
        /\ [script : {"older"}, exec : {TRUE}, link : {FALSE}] \subseteq Files
        /\ [script : OwnScripts, exec : {TRUE}, link : {TRUE}] \subseteq Files
    BY DEF Files, Scripts
  <2> QED BY <1>2, <2>1 DEF HooksInit
<1>4. installer \in Installers /\ installer.at = "idle" /\ installer.hook = 1
  BY <1>1, <1>2 DEF Installers, NotInstalling
<1>5. dir = ResolveInstallPlan \/ ResolveInstallPlan = "refused"
  BY HooksAssumption DEF HooksInit, ResolveInstallPlan, resolveCustomHooksDir
<1>6. HooksTypeOK
  BY <1>1, <1>2, <1>3, <1>4, <1>5 DEF HooksTypeOK
<1>7. \A h \in HookSet : Kept(h)
  BY <1>1 DEF Kept
<1> QED BY <1>1, <1>4, <1>6, <1>7 DEF HooksInv, Known, InOrder

\* What happens to the other hook while one is installed: nothing.
LEMMA OneHook ==
    ASSUME HooksInv, installer.at # "idle", installer'.hook = installer.hook, installer' \in Installers,
           installer'.at # "idle", UNCHANGED <<hooksPath, dir, ownWritten, lastInstall>>,
           NEW f \in Files, hookFile' = [hookFile EXCEPT ![Hook] = f],
           NEW g \in Files, savedFile' = [savedFile EXCEPT ![Hook] = g],
           NEW p \in SUBSET Scripts, replaced' = [replaced EXCEPT ![Hook] = p],
           \A s \in ownWritten[Hook] : s \in {f.script, g.script} \cup p,
           Known'
    PROVE  HooksInv'
<1>1. \A h \in HookSet : /\ hookFile'[h] = IF h = Hook THEN f ELSE hookFile[h]
                         /\ savedFile'[h] = IF h = Hook THEN g ELSE savedFile[h]
                         /\ replaced'[h] = IF h = Hook THEN p ELSE replaced[h]
  BY DEF HooksInv, HooksTypeOK
<1>2. HooksTypeOK'
  <2>1. ResolveInstallPlan' = ResolveInstallPlan
    BY DEF ResolveInstallPlan, resolveCustomHooksDir
  <2> QED BY <2>1 DEF HooksInv, HooksTypeOK
<1>3. \A h \in HookSet : Kept(h)'
  <2> SUFFICES ASSUME NEW h \in HookSet PROVE Kept(h)'
    OBVIOUS
  <2>1. CASE h = Hook
    BY <1>1, <2>1 DEF Kept
  <2>2. CASE h # Hook
    BY <1>1, <2>2 DEF Kept, HooksInv
  <2> QED BY <2>1, <2>2
<1>4. InOrder'
  <2>1. ResolveInstallPlan' = ResolveInstallPlan
    BY DEF ResolveInstallPlan, resolveCustomHooksDir
  <2>2. lastInstall = "none" /\ ResolveInstallPlan # "refused"
        /\ (installer.hook = 2 => InForce("pre-commit"))
    BY DEF HooksInv, InOrder
  <2>3. installer.hook = 2 => Hook # "pre-commit" /\ "pre-commit" \in HookSet
    BY HookFacts
  <2>4. installer'.hook = 2 => InForce("pre-commit")'
    BY <1>1, <2>2, <2>3 DEF InForce
  <2> QED BY <2>1, <2>2, <2>4 DEF InOrder
<1> QED BY <1>2, <1>3, <1>4 DEF HooksInv

\* What a step that leaves a file alone does to it.
LEMMA Same ==
    ASSUME HooksInv
    PROVE  /\ hookFile' = hookFile => hookFile' = [hookFile EXCEPT ![Hook] = hookFile[Hook]]
           /\ savedFile' = savedFile => savedFile' = [savedFile EXCEPT ![Hook] = savedFile[Hook]]
           /\ replaced' = replaced => replaced' = [replaced EXCEPT ![Hook] = replaced[Hook]]
           /\ \A s \in ownWritten[Hook] :
                s \in OwnScripts /\ s \in {hookFile[Hook].script, savedFile[Hook].script} \cup replaced[Hook]
           /\ \A s \in OwnScripts : s \notin {"none", "", "hasp", "older"}
BY HookFacts, HooksAssumption DEF HooksInv, HooksTypeOK, Kept

LEMMA FailsHooksInv == ASSUME HooksInv, InstallFails PROVE HooksInv'
<1>1. /\ UNCHANGED <<hookFile, savedFile, replaced, hooksPath, dir, ownWritten>>
      /\ installer' = NotInstalling /\ lastInstall' = "failed"
  BY DEF InstallFails, FilesSame, OtherSame
<1>2. installer' \in Installers /\ installer'.at = "idle" /\ installer'.hook = 1
  BY <1>1 DEF Installers, NotInstalling, Nothing, Files, Scripts
<1>3. HooksTypeOK'
  BY <1>1, <1>2 DEF HooksInv, HooksTypeOK, ResolveInstallPlan, resolveCustomHooksDir
<1>4. \A h \in HookSet : Kept(h)'
  BY <1>1 DEF HooksInv, Kept
<1>5. Known'
  BY <1>2 DEF Known
<1>6. InOrder'
  BY <1>1, <1>2 DEF InOrder
<1> QED BY <1>3, <1>4, <1>5, <1>6 DEF HooksInv

LEMMA InstallHooksInv == ASSUME HooksInv, Install PROVE HooksInv'
<1>1. /\ UNCHANGED <<hookFile, savedFile, replaced, hooksPath, dir, ownWritten>>
      /\ installer.at = "idle"
      /\ \/ ResolveInstallPlan = "refused" /\ lastInstall' = "failed" /\ installer' = installer
         \/ ResolveInstallPlan # "refused" /\ lastInstall' = "none" /\ InstallAt("inspect")
  BY DEF Install, FilesSame
<1>2. ResolveInstallPlan' = ResolveInstallPlan
  BY <1>1 DEF ResolveInstallPlan, resolveCustomHooksDir
<1>3. installer' \in Installers /\ installer'.at \in {"idle", "inspect"} /\ installer'.hook = installer.hook
  BY <1>1, HookFacts DEF HooksInv, HooksTypeOK, Installers, InstallAt
<1>4. HooksTypeOK'
  BY <1>1, <1>2, <1>3 DEF HooksInv, HooksTypeOK
<1>5. \A h \in HookSet : Kept(h)'
  BY <1>1 DEF HooksInv, Kept
<1>6. InOrder'
  BY <1>1, <1>2, <1>3 DEF HooksInv, InOrder, InForce
<1> QED BY <1>3, <1>4, <1>5, <1>6 DEF HooksInv, Known

LEMMA InspectHooksInv == ASSUME HooksInv, installHook PROVE HooksInv'
<1> DEFINE f == hookFile[Hook]
<1>1. CASE InstallFails
  BY <1>1, FailsHooksInv
<1>2. CASE ~ f.link /\ ~ InstallFails
  <2>1. /\ installer.at = "inspect"
        /\ installer' = [installer EXCEPT !.existing = f, !.at = IF ToKeep(f) THEN "saved" ELSE "script"]
        /\ UNCHANGED <<hookFile, savedFile, replaced, hooksPath, dir, ownWritten, lastInstall>>
    BY <1>2 DEF installHook, FilesSame, OtherSame
  <2>2. installer \in Installers /\ f \in Files
    BY HookFacts DEF HooksInv, HooksTypeOK
  <2>3. /\ installer' \in Installers /\ installer'.hook = installer.hook /\ installer'.existing = f
        /\ installer'.at = IF ToKeep(f) THEN "saved" ELSE "script"
    BY <2>1, <2>2 DEF Installers
  <2>4. Hook' = Hook
    BY <2>3, HookFacts
  <2>5. Known'
    BY <1>2, <2>1, <2>3, <2>4 DEF Known
  <2>6. /\ hookFile' = [hookFile EXCEPT ![Hook] = hookFile[Hook]]
        /\ savedFile' = [savedFile EXCEPT ![Hook] = savedFile[Hook]]
        /\ replaced' = [replaced EXCEPT ![Hook] = replaced[Hook]]
        /\ \A s \in ownWritten[Hook] :
             s \in {hookFile[Hook].script, savedFile[Hook].script} \cup replaced[Hook]
    BY <2>1, Same
  <2>7. installer.at # "idle" /\ installer'.at # "idle"
    BY <2>1, <2>3
  <2> HIDE DEF f
  <2> QED BY <2>1, <2>3, <2>5, <2>6, <2>7, HookFacts, OneHook
<1> QED BY <1>1, <1>2 DEF installHook

\* The saved hook is put aside before it is overwritten.
LEMMA SaveExistingHooksInv == ASSUME HooksInv, SaveExisting PROVE HooksInv'
<1> DEFINE previous == savedFile[Hook].script
           p == IF previous \in {"none", installer.existing.script} THEN replaced[Hook]
                ELSE replaced[Hook] \cup {previous}
<1>1. CASE InstallFails
  BY <1>1, FailsHooksInv
<1>2. CASE ~ InstallFails
  <2>1. /\ installer.at = "saved"
        /\ InstallAt(IF previous = installer.existing.script THEN "script" ELSE "empty saved")
        /\ UNCHANGED <<hookFile, savedFile, hooksPath, dir, ownWritten, lastInstall>>
        /\ \/ previous \in {"none", installer.existing.script} /\ replaced' = replaced
           \/ /\ previous \notin {"none", installer.existing.script}
              /\ replaced' = [replaced EXCEPT ![Hook] = @ \cup {previous}]
    BY <1>2 DEF SaveExisting, OtherSame, saveReplacedHook
  <2>2. /\ installer' \in Installers /\ installer'.hook = installer.hook
        /\ installer'.existing = installer.existing
        /\ installer'.at = IF previous = installer.existing.script THEN "script" ELSE "empty saved"
    BY <2>1 DEF HooksInv, HooksTypeOK, Installers, InstallAt
  <2>3. Hook' = Hook /\ p \in SUBSET Scripts /\ replaced' = [replaced EXCEPT ![Hook] = p]
    BY <2>1, <2>2, HookFacts, Same DEF Files
  <2>4. replaced'[Hook] = p
    BY <2>3, HookFacts DEF HooksInv, HooksTypeOK
  <2>5. hookFile[Hook] = installer.existing /\ ~ installer.existing.link /\ ToKeep(installer.existing)
    BY <2>1 DEF HooksInv, Known
  <2>6. Known'
    <3>1. hookFile'[Hook'] = installer'.existing /\ ~ installer'.existing.link
          /\ ToKeep(installer'.existing) /\ savedFile'[Hook'] = savedFile[Hook] /\ replaced'[Hook'] = p
      BY <2>1, <2>2, <2>3, <2>4, <2>5
    <3>2. previous = installer.existing.script =>
            installer'.at = "script" /\ savedFile'[Hook'].script = installer'.existing.script
      BY <2>2, <3>1
    <3>3. previous # installer.existing.script =>
            installer'.at = "empty saved" /\ savedFile'[Hook'].script \in {"none", ""} \cup p
      BY <2>2, <3>1
    <3> HIDE DEF p, previous
    <3> QED BY <3>1, <3>2, <3>3 DEF Known
  <2>7. \A s \in ownWritten[Hook] : s \in {hookFile[Hook].script, savedFile[Hook].script} \cup p
    BY Same
  <2> HIDE DEF p, previous
  <2> QED BY <2>1, <2>2, <2>3, <2>6, <2>7, HookFacts, Same, OneHook
<1> QED BY <1>1, <1>2

\* Writing the saved hook, in three steps.
LEMMA WriteSavedHooksInv ==
    ASSUME HooksInv, EmptySaved \/ WriteSaved \/ ChmodSaved
    PROVE  HooksInv'
<1> DEFINE x == installer.existing
<1>1. PICK g \in Files, at \in {"write saved", "chmod saved", "script"} :
        /\ InstallAt(at) /\ savedFile' = [savedFile EXCEPT ![Hook] = g]
        /\ installer.at = "empty saved" => at = "write saved" /\ g.script = ""
        /\ installer.at = "write saved" => at = "chmod saved" /\ g.script = x.script
        /\ installer.at = "chmod saved" => at = "script" /\ g.script = savedFile[Hook].script
  <2>1. savedFile[Hook] \in Files /\ x \in Files
    BY HookFacts
  <2>2. CASE EmptySaved
    <3> DEFINE y == [script |-> "", link |-> FALSE,
                     exec |-> IF savedFile[Hook].script = "none" THEN x.exec ELSE savedFile[Hook].exec]
    <3>1. y \in Files /\ y.script = ""
      BY <2>1 DEF Files, Scripts
    <3>2. savedFile' = [savedFile EXCEPT ![Hook] = y] /\ InstallAt("write saved") /\ installer.at = "empty saved"
      BY <2>2, HookFacts DEF EmptySaved, HooksInv, HooksTypeOK
    <3> HIDE DEF y
    <3> QED BY <3>1, <3>2
  <2>3. CASE WriteSaved
    <3> DEFINE y == [savedFile[Hook] EXCEPT !.script = x.script]
    <3>1. y \in Files /\ y.script = x.script
      BY <2>1 DEF Files
    <3>2. savedFile' = [savedFile EXCEPT ![Hook] = y] /\ InstallAt("chmod saved") /\ installer.at = "write saved"
      BY <2>3, HookFacts DEF WriteSaved, HooksInv, HooksTypeOK
    <3> HIDE DEF y
    <3> QED BY <3>1, <3>2
  <2>4. CASE ChmodSaved
    <3> DEFINE y == [savedFile[Hook] EXCEPT !.exec = x.exec]
    <3>1. y \in Files /\ y.script = savedFile[Hook].script
      BY <2>1 DEF Files
    <3>2. savedFile' = [savedFile EXCEPT ![Hook] = y] /\ InstallAt("script") /\ installer.at = "chmod saved"
      BY <2>4, HookFacts DEF ChmodSaved, HooksInv, HooksTypeOK
    <3> HIDE DEF y
    <3> QED BY <3>1, <3>2
  <2> QED BY <2>2, <2>3, <2>4
<1>2. /\ installer.at \in {"empty saved", "write saved", "chmod saved"}
      /\ UNCHANGED <<hookFile, replaced, lastInstall, hooksPath, dir, ownWritten>>
  BY DEF EmptySaved, WriteSaved, ChmodSaved, OtherSame
<1>3. /\ installer' \in Installers /\ installer'.hook = installer.hook
      /\ installer'.existing = x /\ installer'.at = at
  BY <1>1 DEF HooksInv, HooksTypeOK, Installers, InstallAt
<1>4. Hook' = Hook /\ savedFile'[Hook] = g
  BY <1>1, <1>3, HookFacts DEF HooksInv, HooksTypeOK
<1>5. /\ hookFile[Hook] = x /\ ~ x.link /\ ToKeep(x)
      /\ installer.at \in {"empty saved", "write saved"} =>
           savedFile[Hook].script \in {"none", ""} \cup replaced[Hook]
      /\ installer.at = "chmod saved" => savedFile[Hook].script = x.script
  BY <1>2 DEF HooksInv, Known
<1>6. Known'
  BY <1>1, <1>2, <1>3, <1>4, <1>5 DEF Known
<1>7. \A s \in ownWritten[Hook] : s \in {hookFile[Hook].script, g.script} \cup replaced[Hook]
  BY <1>1, <1>2, <1>5, Same
<1> QED BY <1>1, <1>2, <1>3, <1>6, <1>7, HookFacts, Same, OneHook, ZenonT(30)

\* A hook that is overwritten was HASP's, or is saved.
LEMMA CompareHooksInv == ASSUME HooksInv, CompareScript PROVE HooksInv'
<1> DEFINE x == installer.existing
           p == IF x.script = "older" THEN replaced[Hook] \cup {"older"} ELSE replaced[Hook]
<1>1. /\ installer.at = "script" /\ InstallAt(IF x.script = "hasp" THEN "chmod" ELSE "empty")
      /\ UNCHANGED <<hookFile, savedFile, lastInstall, hooksPath, dir, ownWritten>>
  BY DEF CompareScript, OtherSame
<1>2. p \in SUBSET Scripts /\ replaced' = [replaced EXCEPT ![Hook] = p]
  BY HookFacts, Same DEF CompareScript, saveReplacedHook, Scripts
<1>3. /\ installer' \in Installers /\ installer'.hook = installer.hook
      /\ installer'.existing = x /\ installer'.at = IF x.script = "hasp" THEN "chmod" ELSE "empty"
  BY <1>1 DEF HooksInv, HooksTypeOK, Installers, InstallAt
<1>4. Hook' = Hook /\ replaced'[Hook] = p /\ replaced[Hook] \subseteq p
  BY <1>2, <1>3, HookFacts DEF HooksInv, HooksTypeOK
<1>5. hookFile[Hook] = x /\ ~ x.link /\ (ToKeep(x) => savedFile[Hook].script = x.script)
  BY <1>1 DEF HooksInv, Known
<1>6. \A s \in ownWritten[Hook] : s \in {hookFile[Hook].script, savedFile[Hook].script} \cup p
  BY <1>4, Same
<1>7. x.script = "hasp" => \A s \in ownWritten[Hook] : s \in {savedFile[Hook].script} \cup p
  BY <1>5, <1>6, Same
<1> HIDE DEF p
<1>8. Known'
  BY <1>1, <1>3, <1>4, <1>5, <1>7 DEF Known
<1> QED BY <1>1, <1>2, <1>3, <1>6, <1>8, HookFacts, Same, OneHook

LEMMA OverwriteHooksInv == ASSUME HooksInv, EmptyHook \/ WriteHook PROVE HooksInv'
<1>1. PICK f \in Files, at \in {"write", "chmod"} :
        /\ InstallAt(at) /\ hookFile' = [hookFile EXCEPT ![Hook] = f]
        /\ installer.at = "empty" => at = "write" /\ ~ f.link
        /\ installer.at = "write" => at = "chmod" /\ f.script = "hasp" /\ f.link = hookFile[Hook].link
  <2>1. hookFile[Hook] \in Files
    BY HookFacts
  <2>2. CASE EmptyHook
    <3> DEFINE y == [script |-> "", link |-> FALSE,
                     exec |-> hookFile[Hook].script = "none" \/ hookFile[Hook].exec]
    <3>1. y \in Files /\ ~ y.link
      BY <2>1 DEF Files, Scripts
    <3>2. hookFile' = [hookFile EXCEPT ![Hook] = y] /\ InstallAt("write") /\ installer.at = "empty"
      BY <2>2, HookFacts DEF EmptyHook, HooksInv, HooksTypeOK
    <3> HIDE DEF y
    <3> QED BY <3>1, <3>2
  <2>3. CASE WriteHook
    <3> DEFINE y == [hookFile[Hook] EXCEPT !.script = "hasp"]
    <3>1. y \in Files /\ y.script = "hasp" /\ y.link = hookFile[Hook].link
      BY <2>1 DEF Files, Scripts
    <3>2. hookFile' = [hookFile EXCEPT ![Hook] = y] /\ InstallAt("chmod") /\ installer.at = "write"
      BY <2>3, HookFacts DEF WriteHook, HooksInv, HooksTypeOK
    <3> HIDE DEF y
    <3> QED BY <3>1, <3>2
  <2> QED BY <2>2, <2>3
<1>2. /\ installer.at \in {"empty", "write"}
      /\ UNCHANGED <<savedFile, replaced, lastInstall, hooksPath, dir, ownWritten>>
  BY DEF EmptyHook, WriteHook, OtherSame
<1>3. /\ installer' \in Installers /\ installer'.hook = installer.hook /\ installer'.at = at
  BY <1>1 DEF HooksInv, HooksTypeOK, Installers, InstallAt
<1>4. Hook' = Hook /\ hookFile'[Hook] = f
  BY <1>1, <1>3, HookFacts DEF HooksInv, HooksTypeOK
<1>5. \A s \in ownWritten[Hook] : s \in {savedFile[Hook].script} \cup replaced[Hook]
  <2>1. CASE installer.at = "write"
    BY <2>1 DEF HooksInv, Known
  <2>2. CASE installer.at = "empty"
    <3>1. hookFile[Hook] = installer.existing
          /\ (ToKeep(installer.existing) => savedFile[Hook].script = installer.existing.script)
      BY <2>2 DEF HooksInv, Known
    <3> QED BY <3>1, Same DEF ToKeep, Managed
  <2> QED BY <1>2, <2>1, <2>2
<1>6. Known'
  BY <1>1, <1>2, <1>3, <1>4, <1>5 DEF Known, HooksInv
<1> QED BY <1>1, <1>2, <1>3, <1>5, <1>6, HookFacts, Same, OneHook, ZenonT(30)

\* The first hook is in force when the second one's turn comes.
LEMMA ChmodHooksInv == ASSUME HooksInv, ChmodHook PROVE HooksInv'
<1> DEFINE f == [hookFile[Hook] EXCEPT !.exec = TRUE]
<1>1. /\ installer.at = "chmod" /\ UNCHANGED <<savedFile, replaced, hooksPath, dir, ownWritten>>
      /\ hookFile' = [hookFile EXCEPT ![Hook] = f]
  BY HookFacts DEF ChmodHook, OtherSame, HooksInv, HooksTypeOK
<1>2. hookFile[Hook].script = "hasp" /\ ~ hookFile[Hook].link
  BY <1>1 DEF HooksInv, Known
<1>3. f \in Files /\ f.script = "hasp" /\ f.exec /\ ~ f.link
  BY <1>2, HookFacts DEF Files
<1> HIDE DEF f
<1>4. \A h \in HookSet : hookFile'[h] = IF h = Hook THEN f ELSE hookFile[h]
  BY <1>1 DEF HooksInv, HooksTypeOK
<1>5. \/ /\ installer.hook = 1 /\ lastInstall' = lastInstall
         /\ installer' = [NotInstalling EXCEPT !.at = "inspect", !.hook = 2]
      \/ installer.hook = 2 /\ installer' = NotInstalling /\ lastInstall' = "done"
  BY HookFacts DEF ChmodHook
<1>6. /\ installer' \in Installers
      /\ installer.hook = 1 => installer'.at = "inspect" /\ installer'.hook = 2
      /\ installer.hook = 2 => installer'.at = "idle" /\ installer'.hook = 1
  <2>1. Nothing \in Files
    BY DEF Nothing, Files, Scripts
  <2>2. NotInstalling \in Installers /\ NotInstalling.at = "idle" /\ NotInstalling.hook = 1
    BY <2>1 DEF NotInstalling, Installers
  <2>3. CASE installer.hook = 2 /\ installer' = NotInstalling
    BY <2>2, <2>3
  <2>4. CASE installer.hook = 1 /\ installer' = [NotInstalling EXCEPT !.at = "inspect", !.hook = 2]
    <3>1. /\ [NotInstalling EXCEPT !.at = "inspect", !.hook = 2] \in Installers
          /\ [NotInstalling EXCEPT !.at = "inspect", !.hook = 2].at = "inspect"
          /\ [NotInstalling EXCEPT !.at = "inspect", !.hook = 2].hook = 2
      BY <2>1 DEF NotInstalling, Installers
    <3> QED BY <2>4, <3>1
  <2> QED BY <1>5, <2>3, <2>4
<1>7. ResolveInstallPlan' = ResolveInstallPlan
  BY <1>1 DEF ResolveInstallPlan, resolveCustomHooksDir
<1>8. HooksTypeOK'
  BY <1>1, <1>3, <1>6, <1>7 DEF HooksInv, HooksTypeOK
<1>9. \A h \in HookSet : Kept(h)'
  BY <1>1, <1>2, <1>3, <1>4 DEF HooksInv, Kept
<1>10. InOrder'
  <2>2. /\ installer.hook = 2 => InForce("pre-commit")
        /\ lastInstall = "none" /\ ResolveInstallPlan # "refused"
    BY <1>1 DEF HooksInv, InOrder
  <2>3. InForce("pre-commit")' /\ (installer.hook = 2 => InForce("pre-push")')
    BY <1>3, <1>4, <2>2, HookFacts DEF InForce
  <2> QED BY <1>5, <1>6, <1>7, <2>2, <2>3 DEF InOrder
<1>11. Known'
  BY <1>6, HookFacts DEF Known
<1> QED BY <1>8, <1>9, <1>10, <1>11 DEF HooksInv

\* A user's edits are its own: what it removes it does not miss.
LEMMA EditHooksInv ==
    ASSUME HooksInv, NEW h \in HookSet, NEW to \in UserFiles(h), UserEdits(h, to)
    PROVE  HooksInv'
<1> DEFINE own == (ownWritten[h] \ {hookFile[h].script}) \cup ({to.script} \cap OwnScripts)
                     \cup (ownWritten[h] \cap ({savedFile[h].script} \cup replaced[h]))
<1>1. /\ installer.at = "idle" /\ lastInstall' = "none"
      /\ UNCHANGED <<hooksPath, dir, savedFile, replaced, installer>>
      /\ hookFile' = [hookFile EXCEPT ![h] = to] /\ ownWritten' = [ownWritten EXCEPT ![h] = own]
  BY DEF UserEdits, HooksInv, HooksTypeOK
<1>2. to \in Files
  <2>1. hookFile[h] \in Files
    BY DEF HooksInv, HooksTypeOK
  <2> QED BY <2>1 DEF UserFiles, Files, Scripts
<1>3. own \in SUBSET OwnScripts
  BY DEF HooksInv, HooksTypeOK
<1>4. HooksTypeOK'
  <2>1. ResolveInstallPlan' = ResolveInstallPlan
    BY <1>1 DEF ResolveInstallPlan, resolveCustomHooksDir
  <2> HIDE DEF own
  <2> QED BY <1>1, <1>2, <1>3, <2>1 DEF HooksInv, HooksTypeOK
<1>5. ASSUME NEW g \in HookSet PROVE Kept(g)'
  <2>1. CASE g = h
    <3>1. hookFile'[h] = to /\ ownWritten'[h] = own
      BY <1>1 DEF HooksInv, HooksTypeOK
    <3>2. \A s \in ownWritten[h] : s \in {hookFile[h].script, savedFile[h].script} \cup replaced[h]
      BY DEF HooksInv, Kept
    <3> QED BY <1>1, <2>1, <3>1, <3>2 DEF Kept
  <2>2. CASE g # h
    <3>1. hookFile'[g] = hookFile[g] /\ ownWritten'[g] = ownWritten[g]
      BY <1>1, <2>2 DEF HooksInv, HooksTypeOK
    <3> QED BY <1>1, <3>1 DEF HooksInv, Kept
  <2> QED BY <2>1, <2>2
<1>6. installer.hook = 1
  BY <1>1, HookFacts DEF HooksInv, InOrder
<1>7. Known'
  BY <1>1 DEF Known
<1>8. InOrder'
  BY <1>1, <1>6 DEF InOrder
<1> QED BY <1>4, <1>5, <1>7, <1>8 DEF HooksInv

LEMMA HooksNextHooksInv == HooksInv /\ [HooksNext]_hookVars => HooksInv'
<1> SUFFICES ASSUME HooksInv, [HooksNext]_hookVars PROVE HooksInv'
  OBVIOUS
<1>1. CASE UNCHANGED hookVars
  BY <1>1 DEF hookVars, HooksInv, HooksTypeOK, Kept, Known, InOrder, InForce, Hook,
              ResolveInstallPlan, resolveCustomHooksDir
<1> QED BY <1>1, InstallHooksInv, InspectHooksInv, SaveExistingHooksInv, WriteSavedHooksInv,
           CompareHooksInv, OverwriteHooksInv, ChmodHooksInv, FailsHooksInv, EditHooksInv
        DEF HooksNext, StepFails

\* What each step of an installation knows of the hook that it replaces, for
\* any number of installations that die and of edits between them.
THEOREM HooksInvariant == HooksSpec => []HooksInv
<1>1. HooksInit => HooksInv
  BY HooksInitHooksInv
<1>2. HooksInv /\ [HooksNext]_hookVars => HooksInv'
  BY HooksNextHooksInv
<1> QED BY <1>1, <1>2, PTL DEF HooksSpec

\* No installation loses a hook that a user wrote, and one that ended well left
\* both gates in force where Git looks.
THEOREM UsersHooksKept == HooksSpec => []UserHooksKept
<1>1. HooksInv => UserHooksKept
  <2> SUFFICES ASSUME HooksInv PROVE UserHooksKept
    OBVIOUS
  <2>1. \A h \in HookSet : Kept(h)
    BY DEF HooksInv
  <2>2. lastInstall = "done" => Inspect = "ready" /\ dir = ResolveInstallPlan
    <3>1. SUFFICES ASSUME lastInstall = "done" PROVE Inspect = "ready" /\ dir = ResolveInstallPlan
      OBVIOUS
    <3>2. InForce("pre-commit") /\ InForce("pre-push") /\ ResolveInstallPlan # "refused"
          /\ dir = ResolveInstallPlan
      BY <3>1 DEF HooksInv, InOrder, HooksTypeOK
    <3>3. \A h \in HookSet : inspectHook(h) = "ready"
      BY <3>2, HookFacts DEF inspectHook, InForce, Managed
    <3> QED BY <3>2, <3>3 DEF Inspect
  <2> QED BY <2>1, <2>2 DEF UserHooksKept, Kept
<1> QED BY <1>1, HooksInvariant, PTL

-----------------------------------------------------------------------------
(***************************************************************************)
(* The gates before a commit and a push: RepoGate.  What a gate lets       *)
(* through holds no managed value, for any number of commits, gates,       *)
(* remotes, servers and items, texts of any length and chunks of any size. *)
(*                                                                         *)
(* The argument: a needle that occurs in a text ends in some chunk, and    *)
(* what is kept of the chunks before is long enough for its beginning.  A  *)
(* server has held all that the tip it served when the push began reaches, *)
(* and all that a tracking ref of its remotes reaches; so what the scan    *)
(* leaves out the server has had.  Commits and blobs do not change, so     *)
(* what was scanned is what goes out, however the refs move meanwhile.     *)
(***************************************************************************)

\* A set of numbers that is not empty has a least one.
LEMMA LeastNumber ==
    ASSUME NEW T, T \subseteq Nat, T # {}
    PROVE  \E n \in T : \A m \in T : n <= m
  <1> DEFINE R == OpToRel(<, Nat)
  <1>1. IsWellFoundedOn(R, Nat)
    BY NatLessThanWellFounded
  <1>2. \A a, b \in Nat : a < b => <<a, b>> \in R
    BY DEF OpToRel
  <1> HIDE DEF R
  <1>3. PICK x \in T : \A y \in T : ~ (<<y, x>> \in R)
    BY <1>1, WFMin, Zenon
  <1>4. ASSUME NEW m \in T PROVE x <= m
    <2>1. x \in Nat /\ m \in Nat
      OBVIOUS
    <2>2. ~(m < x)
      BY <1>2, <1>3, <2>1, Zenon
    <2> QED BY <2>1, <2>2
  <1> QED BY <1>4

\* A finite set of numbers has a bound.
LEMMA FiniteBounded ==
    ASSUME NEW S, S \subseteq Nat, IsFiniteSet(S)
    PROVE  \E b \in Nat : \A m \in S : m <= b
<1>1. PICK n \in Nat : ExistsSurjection(1..n, S)
  BY FS_NatSurjection
<1>2. PICK f \in [1..n -> S] : \A m \in S : \E i \in 1..n : f[i] = m
  BY <1>1 DEF ExistsSurjection, Surjection
<1> DEFINE Bounded(k) == \E b \in Nat : \A i \in 1..k : f[i] <= b
           Bad == {k \in 0..n : ~Bounded(k)}
<1>3. Bounded(0)
  OBVIOUS
<1>4. ASSUME NEW k \in 1..n, Bounded(k - 1) PROVE Bounded(k)
  <2>1. PICK b \in Nat : \A i \in 1..(k - 1) : f[i] <= b
    BY <1>4
  <2>2. f[k] \in Nat
    BY <1>2
  <2>3. CASE f[k] <= b
    <3>1. \A i \in 1..k : f[i] <= b
      BY <2>1, <2>3, <1>1
    <3> QED BY <3>1
  <2>4. CASE ~(f[k] <= b)
    <3>1. \A i \in 1..k : i = k \/ i \in 1..(k - 1)
      BY <1>1
    <3>2. \A i \in 1..k : f[i] <= f[k]
      <4> SUFFICES ASSUME NEW i \in 1..k PROVE f[i] <= f[k]
        OBVIOUS
      <4>0. i \in 1..n
        BY <1>1
      <4>1. f[i] \in Nat
        BY <1>2, <4>0
      <4> QED BY <2>1, <2>2, <2>4, <3>1, <4>1
    <3> QED BY <2>2, <3>2
  <2> QED BY <2>3, <2>4
<1> HIDE DEF Bounded
<1>5. Bad = {}
  <2> SUFFICES ASSUME Bad # {} PROVE FALSE
    OBVIOUS
  <2>1. Bad \subseteq Nat
    OBVIOUS
  <2>2. PICK k \in Bad : \A m \in Bad : k <= m
    BY <2>1, LeastNumber
  <2>3. k \in 1..n /\ k - 1 \in 0..n
    BY <1>1, <1>3, <2>2
  <2>4. k - 1 \notin Bad
    BY <2>2, <2>3
  <2> QED BY <1>4, <2>2, <2>3, <2>4
<1>6. PICK b \in Nat : \A i \in 1..n : f[i] <= b
  <2>1. n \in 0..n
    BY <1>1
  <2>2. Bounded(n)
    BY <1>5, <2>1
  <2> QED BY <2>2 DEF Bounded
<1> QED BY <1>2, <1>6

\* So it has a greatest one, when it is not empty.
LEMMA MaxIsGreatest ==
    ASSUME NEW S, S \subseteq Nat, IsFiniteSet(S), S # {}
    PROVE  Max(S) \in S /\ \A m \in S : m <= Max(S)
<1> DEFINE B == {b \in Nat : \A m \in S : m <= b}
<1>1. B # {} /\ B \subseteq Nat
  BY FiniteBounded
<1>2. PICK b \in B : \A c \in B : b <= c
  BY <1>1, LeastNumber
<1>3. b \in S
  <2> SUFFICES ASSUME b \notin S PROVE FALSE
    OBVIOUS
  <2>1. \A m \in S : m <= b - 1
    BY <1>2
  <2>2. b - 1 \in Nat
    <3>1. PICK m \in S : TRUE
      OBVIOUS
    <3>2. m \in Nat /\ b \in Nat /\ m <= b - 1
      BY <1>2, <2>1, <3>1
    <3> QED BY <3>2
  <2> QED BY <1>2, <2>1, <2>2
<1>4. \E x \in S : \A y \in S : x >= y
  BY <1>2, <1>3
<1>5. Max(S) \in S /\ \A y \in S : Max(S) >= y
  BY <1>4 DEF Max
<1> QED BY <1>5

-----------------------------------------------------------------------------
(* Matching *)

\* A part of a text, from one of its symbols to another.
LEMMA PartOf ==
    ASSUME NEW S, NEW d \in Seq(S), NEW i \in 1..Len(d), NEW j \in 0..Len(d), i <= j + 1
    PROVE  /\ SubSeq(d, i, j) \in Seq(S) /\ Len(SubSeq(d, i, j)) = j - i + 1
           /\ \A k \in 1..(j - i + 1) : SubSeq(d, i, j)[k] = d[i + k - 1]
<1>1. Len(d) \in Nat /\ i \in Int /\ j \in Int /\ \A k \in i..j : d[k] \in S
  BY ElementOfSeq
<1>2. /\ SubSeq(d, i, j) \in Seq(S)
      /\ Len(SubSeq(d, i, j)) = IF i <= j THEN j - i + 1 ELSE 0
      /\ \A k \in 1..(j - i + 1) : SubSeq(d, i, j)[k] = d[i + k - 1]
  BY <1>1, SubSeqProperties
<1> QED BY <1>1, <1>2

\* A needle occurs where its symbols follow each other.
LEMMA OccursAt ==
    ASSUME NEW S, NEW d \in Seq(S), NEW R, NEW n \in Seq(R), n # <<>>
    PROVE  Occurs(n, d) <=> \E i \in 1..Len(d) : /\ i + Len(n) - 1 <= Len(d)
                                                 /\ \A k \in 1..Len(n) : n[k] = d[i + k - 1]
<1>1. Len(d) \in Nat /\ Len(n) \in Nat \ {0}
  BY LenProperties, EmptySeq
<1>2. ASSUME NEW i \in 1..Len(d)
      PROVE  IsPrefix(n, SubSeq(d, i, Len(d)))
                <=> i + Len(n) - 1 <= Len(d) /\ \A k \in 1..Len(n) : n[k] = d[i + k - 1]
  <2> DEFINE t == SubSeq(d, i, Len(d))
  <2>1. t \in Seq(S) /\ Len(t) = Len(d) - i + 1
        /\ \A k \in 1..(Len(d) - i + 1) : t[k] = d[i + k - 1]
    BY <1>1, PartOf
  <2> HIDE DEF t
  <2>2. SubSeq(n, 1, Len(n)) \in Seq(R) /\ Len(SubSeq(n, 1, Len(n))) = Len(n)
        /\ \A k \in 1..Len(n) : SubSeq(n, 1, Len(n))[k] = n[k]
    <3>1. 1 \in 1..Len(n) /\ Len(n) \in 0..Len(n) /\ 1 <= Len(n) + 1
      BY <1>1
    <3>2. /\ SubSeq(n, 1, Len(n)) \in Seq(R) /\ Len(SubSeq(n, 1, Len(n))) = Len(n) - 1 + 1
          /\ \A k \in 1..(Len(n) - 1 + 1) : SubSeq(n, 1, Len(n))[k] = n[1 + k - 1]
      BY <3>1, PartOf
    <3> QED BY <1>1, <3>2
  <2>3. ASSUME Len(n) <= Len(t)
        PROVE  SubSeq(t, 1, Len(n)) \in Seq(S) /\ Len(SubSeq(t, 1, Len(n))) = Len(n)
               /\ \A k \in 1..Len(n) : SubSeq(t, 1, Len(n))[k] = t[k]
    <3>1. 1 \in 1..Len(t) /\ Len(n) \in 0..Len(t) /\ 1 <= Len(n) + 1
      BY <1>1, <2>1, <2>3
    <3>2. /\ SubSeq(t, 1, Len(n)) \in Seq(S) /\ Len(SubSeq(t, 1, Len(n))) = Len(n) - 1 + 1
          /\ \A k \in 1..(Len(n) - 1 + 1) : SubSeq(t, 1, Len(n))[k] = t[1 + k - 1]
      BY <2>1, <3>1, PartOf
    <3> QED BY <1>1, <3>2
  <2>4. ASSUME Len(n) <= Len(t)
        PROVE  SubSeq(n, 1, Len(n)) = SubSeq(t, 1, Len(n))
                 <=> \A k \in 1..Len(n) : n[k] = t[k]
    <3>1. PICK a : a = SubSeq(n, 1, Len(n))
      OBVIOUS
    <3>2. PICK b : b = SubSeq(t, 1, Len(n))
      OBVIOUS
    <3>3. a \in Seq(R) /\ Len(a) = Len(n) /\ \A k \in 1..Len(n) : a[k] = n[k]
      BY <2>2, <3>1
    <3>4. b \in Seq(S) /\ Len(b) = Len(n) /\ \A k \in 1..Len(n) : b[k] = t[k]
      BY <2>3, <2>4, <3>2
    <3>5. (\A k \in 1..Len(n) : a[k] = b[k]) => a = b
      <4>1. a \in Seq(R \cup S) /\ b \in Seq(R \cup S)
        BY <3>3, <3>4
      <4> QED BY <3>3, <3>4, <4>1, SeqEqual
    <3> QED BY <3>1, <3>2, <3>3, <3>4, <3>5
  <2>5. Len(n) <= Len(t) <=> i + Len(n) - 1 <= Len(d)
    BY <1>1, <2>1
  <2>6. Len(n) <= Len(t) => \A k \in 1..Len(n) : t[k] = d[i + k - 1]
    BY <1>1, <2>1
  <2>7. IsPrefix(n, t) <=> Len(n) <= Len(t) /\ SubSeq(n, 1, Len(n)) = SubSeq(t, 1, Len(n))
    BY DEF IsPrefix
  <2>8. IsPrefix(n, t) <=> i + Len(n) - 1 <= Len(d) /\ \A k \in 1..Len(n) : n[k] = d[i + k - 1]
    BY <2>4, <2>5, <2>6, <2>7
  <2> QED BY <2>8 DEF t
<1> QED BY <1>2 DEF Occurs

LEMMA DivFacts ==
    ASSUME NEW C \in Nat, C > 0, NEW x \in Nat
    PROVE  /\ x \div C \in Nat /\ (x \div C) * C <= x /\ x < (x \div C) * C + C
  OBVIOUS

LEMMA Multiples == ASSUME NEW C \in Nat, NEW a \in Nat, NEW b \in Nat, a + 1 <= b PROVE a * C + C <= b * C
  OBVIOUS

\* Every place of a text is in one of its chunks.
LEMMA ChunkOf ==
    ASSUME NEW C \in Nat, C > 0, NEW N \in Nat, NEW e \in 1..N
    PROVE  \E j \in 0..(N \div C) : j * C + 1 <= e /\ e <= j * C + C
<1> DEFINE j == (e - 1) \div C
           q == N \div C
<1>1. j \in Nat /\ j * C <= e - 1 /\ e - 1 < j * C + C
  BY DivFacts
<1>2. q \in Nat /\ q * C <= N /\ N < q * C + C
  BY DivFacts
<1> HIDE DEF j, q
<1>3. j <= q
  <2> SUFFICES ASSUME ~(j <= q) PROVE FALSE
    OBVIOUS
  <2>1. q + 1 <= j
    BY <1>1, <1>2
  <2>2. q * C + C <= j * C
    BY <1>1, <1>2, <2>1, Multiples
  <2>3. j * C \in Nat /\ q * C \in Nat
    BY <1>1, <1>2
  <2> QED BY <1>1, <1>2, <2>2, <2>3
<1>4. j * C \in Nat
  BY <1>1
<1>5. j * C + 1 <= e /\ e <= j * C + C
  BY <1>1, <1>4
<1>6. j \in 0..q
  BY <1>1, <1>2, <1>3
<1> QED BY <1>5, <1>6 DEF q

\* What is looked for: texts of one symbol at least.
Needle(n) == n \in Seq({n[i] : i \in DOMAIN n}) /\ n # <<>>

LEMMA NeedlesAre ==
    ASSUME NEW names \in SUBSET DOMAIN SecretItems, NEW n \in UNION compileItems(names)
    PROVE  /\ Needle(n) /\ Len(n) \in Nat
           /\ n \in UNION {SecretItems[m].needles : m \in DOMAIN SecretItems}
<1>1. PICK m \in names : n \in SecretItems[m].needles
  BY DEF compileItems
<1>2. Needle(n)
  BY <1>1, GateAssumption DEF Texts, Needle
<1> QED BY <1>1, <1>2, LenProperties DEF Needle

\* As much is kept as the longest needle needs.
LEMMA OverlapLong ==
    ASSUME NEW names \in SUBSET DOMAIN SecretItems
    PROVE  /\ overlap(compileItems(names)) \in Nat
           /\ \A n \in UNION compileItems(names) : Len(n) <= overlap(compileItems(names)) + 1
<1> DEFINE compiled == compileItems(names)
           all == {Len(d) : d \in UNION {SecretItems[m].needles : m \in DOMAIN SecretItems}}
           lens == {Len(n) : n \in UNION compiled} \cup {1}
<1>1. \A n \in UNION compiled : Len(n) \in Nat /\ Len(n) \in all
  BY NeedlesAre
<1>2. lens \subseteq Nat /\ lens # {} /\ lens \subseteq all \cup {1}
  BY <1>1
<1>3. IsFiniteSet(all \cup {1})
  BY GateAssumption, FS_AddElement
<1>4. IsFiniteSet(lens)
  BY <1>2, <1>3, FS_Subset
<1>5. Max(lens) \in lens /\ \A m \in lens : m <= Max(lens)
  BY <1>2, <1>4, MaxIsGreatest
<1>6. overlap(compiled) = Max(lens) - 1
  BY DEF overlap
<1>7. \A n \in UNION compiled : Len(n) \in lens
  OBVIOUS
<1> HIDE DEF lens, compiled
<1>8. 1 \in lens
  BY DEF lens
<1>9. Max(lens) \in Nat /\ Max(lens) >= 1
  BY <1>2, <1>5, <1>8
<1>10. overlap(compiled) \in Nat /\ overlap(compiled) + 1 = Max(lens)
  BY <1>6, <1>9
<1>11. \A n \in UNION compiled : Len(n) <= overlap(compiled) + 1
  BY <1>5, <1>7, <1>10
<1> QED BY <1>10, <1>11 DEF compiled

\* Where a needle ends, the window holds all of it.
LEMMA WindowHit ==
    ASSUME NEW S, NEW d \in Seq(S), NEW names \in SUBSET DOMAIN SecretItems,
           NEW n \in UNION compileItems(names), Occurs(n, d)
    PROVE  \E j \in 0..(Len(d) \div ChunkSize) :
               Occurs(n, Window(d, j * ChunkSize + 1, compileItems(names)))
<1>o. PICK o : o = overlap(compileItems(names))
  OBVIOUS
<1>l. PICK l : l = Len(n)
  OBVIOUS
<1>N. PICK N : N = Len(d)
  OBVIOUS
<1>1. /\ n \in Seq({n[i] : i \in DOMAIN n}) /\ n # <<>> /\ l \in Nat /\ l > 0
      /\ N \in Nat /\ ChunkSize \in Nat /\ ChunkSize > 0
  <2>1. Needle(n)
    BY NeedlesAre
  <2> QED BY <1>l, <1>N, <2>1, LenProperties, EmptySeq, GateAssumption DEF Needle
<1>2. PICK i \in 1..N : i + l - 1 <= N /\ \A k \in 1..l : n[k] = d[i + k - 1]
  BY <1>1, <1>l, <1>N, OccursAt
<1>3. o \in Nat /\ l <= o + 1
  BY <1>o, <1>l, OverlapLong
<1>4. i + l - 1 \in 1..N
  BY <1>1, <1>2
<1>5. PICK j \in 0..(N \div ChunkSize) :
          j * ChunkSize + 1 <= i + l - 1 /\ i + l - 1 <= j * ChunkSize + ChunkSize
  BY <1>1, <1>4, ChunkOf
<1>6. N \div ChunkSize \in Nat
  BY <1>1, DivFacts
<1>7. j * ChunkSize \in Nat
  BY <1>1, <1>5, <1>6
<1>8. PICK c \in Nat : c = j * ChunkSize + 1
  BY <1>7
<1> DEFINE from == IF c > (IF c = 1 THEN 0 ELSE o) THEN c - (IF c = 1 THEN 0 ELSE o) ELSE 1
           to == IF c + ChunkSize - 1 < N THEN c + ChunkSize - 1 ELSE N
<1>9. Window(d, c, compileItems(names)) = SubSeq(d, from, to)
  BY <1>o, <1>N DEF Window
<1>10. c >= 1 /\ c <= i + l - 1 /\ i + l - 1 <= c + ChunkSize - 1
  <2>1. PICK x : x = j * ChunkSize
    OBVIOUS
  <2>2. x \in Nat /\ x + 1 <= i + l - 1 /\ i + l - 1 <= x + ChunkSize /\ c = x + 1
    BY <1>5, <1>7, <1>8, <2>1
  <2> QED BY <1>1, <2>2
<1>11. from \in 1..N /\ to \in 0..N /\ from <= to + 1
  BY <1>1, <1>2, <1>3, <1>4, <1>10
<1>12. from <= i /\ i + l - 1 <= to
  BY <1>1, <1>2, <1>3, <1>4, <1>10
<1> HIDE DEF from, to
<1>13. PICK w : w = SubSeq(d, from, to)
  OBVIOUS
<1>14. w \in Seq(S) /\ Len(w) = to - from + 1 /\ \A k \in 1..(to - from + 1) : w[k] = d[from + k - 1]
  BY <1>11, <1>13, <1>N, PartOf
<1>15. PICK a : a = i - from + 1
  OBVIOUS
<1>16. a \in 1..Len(w) /\ a + l - 1 <= Len(w)
  BY <1>1, <1>2, <1>11, <1>12, <1>14, <1>15
<1>17. ASSUME NEW k \in 1..l PROVE n[k] = w[a + k - 1]
  <2>1. k \in Nat /\ 1 <= k /\ k <= l
    BY <1>1
  <2>2. from \in Nat /\ to \in Nat /\ i \in Nat
    BY <1>1, <1>2, <1>11
  <2>3. a + k - 1 \in 1..(to - from + 1) /\ from + (a + k - 1) - 1 = i + k - 1
    BY <1>1, <1>12, <1>15, <2>1, <2>2
  <2>4. w[a + k - 1] = d[from + (a + k - 1) - 1]
    BY <1>14, <2>3
  <2> QED BY <1>2, <2>3, <2>4
<1>18. Occurs(n, w)
  BY <1>1, <1>l, <1>14, <1>16, <1>17, OccursAt
<1> QED BY <1>5, <1>8, <1>9, <1>13, <1>18, <1>N

\* A source in which a managed value occurs is matched, in one piece or in chunks.
LEMMA SourceMatched ==
    ASSUME NEW S, NEW d \in Seq(S), NEW names \in SUBSET DOMAIN SecretItems, NEW m \in names,
           SecretItems[m].confidential, hitNeedles(d, SecretItems[m].needles)
    PROVE  MatchSource(d, names)
<1>1. PICK n \in SecretItems[m].needles : Occurs(n, d)
  BY DEF hitNeedles
<1>2. SecretItems[m].needles \in compileItems(names)
  BY <1>1 DEF compileItems
<1>3. n \in UNION compileItems(names)
  BY <1>1, <1>2
<1>4. match(d, compileItems(names))
  BY <1>2 DEF match
<1>5. matchReader(d, compileItems(names))
  <2>1. PICK j \in 0..(Len(d) \div ChunkSize) :
            Occurs(n, Window(d, j * ChunkSize + 1, compileItems(names)))
    BY <1>1, <1>3, WindowHit
  <2>2. hitNeedles(Window(d, j * ChunkSize + 1, compileItems(names)), SecretItems[m].needles)
    BY <1>1, <2>1 DEF hitNeedles
  <2> QED BY <1>2, <2>1, <2>2 DEF matchReader
<1> QED BY <1>4, <1>5 DEF MatchSource

-----------------------------------------------------------------------------
(* Commits and what they reach *)

Trees == FileContents \cup {NoContents, Submodule}

Messages == Notes \cup {<<>>}

CommitRecords == [parent : Nat, tree : Trees, note : Messages]

HistoryOK(h) ==
    h \in Seq(CommitRecords) /\ Len(h) \in Nat \ {0} /\ \A n \in 1..Len(h) : h[n].parent < n

\* f leads from each commit of h to those it reaches.
Reaches(h, f) ==
    f = [n \in 0..Len(h) |-> IF n = 0 THEN {} ELSE {n} \cup f[h[n].parent]]

\* The commits of h are commits of g.
KeptIn(h, g) == Len(h) <= Len(g) /\ \A n \in 1..Len(h) : g[n] = h[n]

LEMMA ParentsBefore ==
    ASSUME NEW h, HistoryOK(h), NEW n \in 1..Len(h)
    PROVE  h[n] \in CommitRecords /\ h[n].parent \in 0..(n - 1) /\ Len(h) \in Nat
<1>1. h[n] \in CommitRecords /\ Len(h) \in Nat
  BY ElementOfSeq DEF HistoryOK
<1>2. h[n].parent \in Nat /\ h[n].parent < n /\ n \in Nat
  BY <1>1 DEF HistoryOK, CommitRecords
<1> QED BY <1>1, <1>2

LEMMA ReachesExists == ASSUME NEW h, HistoryOK(h) PROVE \E f : Reaches(h, f)
<1> DEFINE Up(k) == \E f : f = [n \in 0..k |-> IF n = 0 THEN {} ELSE {n} \cup f[h[n].parent]]
           Bad == {k \in 0..Len(h) : ~Up(k)}
<1>1. Up(0)
  <2> DEFINE f == [n \in 0..0 |-> {}]
  <2>1. f = [n \in 0..0 |-> IF n = 0 THEN {} ELSE {n} \cup f[h[n].parent]]
    OBVIOUS
  <2> QED BY <2>1
<1>2. ASSUME NEW k \in 1..Len(h), Up(k - 1) PROVE Up(k)
  <2>1. PICK f : f = [n \in 0..(k - 1) |-> IF n = 0 THEN {} ELSE {n} \cup f[h[n].parent]]
    BY <1>2
  <2>2. k \in Nat /\ k > 0 /\ Len(h) \in Nat
    BY DEF HistoryOK
  <2> DEFINE g == [n \in 0..k |-> IF n = k THEN {k} \cup f[h[k].parent] ELSE f[n]]
  <2>3. \A n \in 1..k : h[n].parent \in 0..(n - 1) /\ h[n].parent \in 0..(k - 1)
    <3> SUFFICES ASSUME NEW n \in 1..k PROVE h[n].parent \in 0..(n - 1) /\ h[n].parent \in 0..(k - 1)
      OBVIOUS
    <3>1. n \in 1..Len(h)
      BY <2>2
    <3>2. h[n].parent \in 0..(n - 1)
      BY <3>1, ParentsBefore
    <3> QED BY <2>2, <3>1, <3>2
  <2>4. \A n \in 0..(k - 1) : g[n] = f[n]
    BY <2>2
  <2>5. \A n \in 0..k : g[n] = IF n = 0 THEN {} ELSE {n} \cup g[h[n].parent]
    <3> SUFFICES ASSUME NEW n \in 0..k PROVE g[n] = IF n = 0 THEN {} ELSE {n} \cup g[h[n].parent]
      OBVIOUS
    <3>1. CASE n = k
      <4>1. g[n] = {k} \cup f[h[k].parent]
        BY <3>1
      <4>2. h[k].parent \in 0..(k - 1)
        BY <2>2, <2>3
      <4>3. g[h[k].parent] = f[h[k].parent]
        BY <2>4, <4>2
      <4> QED BY <2>2, <3>1, <4>1, <4>3
    <3>2. CASE n # k
      <4>1. n \in 0..(k - 1) /\ (n # 0 => n \in 1..k)
        BY <2>2, <3>2
      <4>2. g[n] = f[n]
        BY <2>4, <4>1
      <4>3. f[n] = IF n = 0 THEN {} ELSE {n} \cup f[h[n].parent]
        BY <2>1, <4>1
      <4>4. n # 0 => g[h[n].parent] = f[h[n].parent]
        BY <2>3, <2>4, <4>1
      <4> QED BY <4>2, <4>3, <4>4
    <3> QED BY <3>1, <3>2
  <2>6. DOMAIN g = 0..k /\ g = [n \in DOMAIN g |-> g[n]]
    OBVIOUS
  <2> HIDE DEF g
  <2>7. g = [n \in 0..k |-> IF n = 0 THEN {} ELSE {n} \cup g[h[n].parent]]
    BY <2>5, <2>6
  <2> QED BY <2>7
<1> HIDE DEF Up
<1>3. Bad = {}
  <2> SUFFICES ASSUME Bad # {} PROVE FALSE
    OBVIOUS
  <2>0. Len(h) \in Nat
    BY DEF HistoryOK
  <2>1. Bad \subseteq Nat
    BY <2>0
  <2>2. PICK k \in Bad : \A m \in Bad : k <= m
    BY <2>1, LeastNumber
  <2>3. k \in 1..Len(h) /\ k - 1 \in 0..Len(h)
    BY <2>0, <1>1, <2>2
  <2>4. k - 1 \notin Bad
    BY <2>2, <2>3
  <2> QED BY <1>2, <2>2, <2>3, <2>4
<1>4. Up(Len(h))
  <2>1. Len(h) \in 0..Len(h)
    BY DEF HistoryOK
  <2> QED BY <1>3, <2>1
<1> QED BY <1>4 DEF Up, Reaches

\* A longer history reaches the same from what was there before.
LEMMA ReachesKept ==
    ASSUME NEW h, NEW g, HistoryOK(h), HistoryOK(g), KeptIn(h, g), NEW f, NEW e,
           Reaches(h, f), Reaches(g, e)
    PROVE  \A n \in 0..Len(h) : e[n] = f[n]
<1> DEFINE Bad == {n \in 0..Len(h) : e[n] # f[n]}
<1>1. Len(h) \in Nat /\ Len(g) \in Nat /\ Len(h) <= Len(g)
  BY DEF HistoryOK, KeptIn
<1> SUFFICES ASSUME Bad # {} PROVE FALSE
  OBVIOUS
<1>2. Bad \subseteq Nat
  BY <1>1
<1>3. PICK n \in Bad : \A m \in Bad : n <= m
  BY <1>2, LeastNumber
<1>4. n \in 0..Len(h) /\ n \in 0..Len(g)
  BY <1>1, <1>3
<1>5. f[n] = (IF n = 0 THEN {} ELSE {n} \cup f[h[n].parent])
      /\ e[n] = (IF n = 0 THEN {} ELSE {n} \cup e[g[n].parent])
  BY <1>4 DEF Reaches
<1>6. n # 0
  BY <1>3, <1>5
<1>7. n \in 1..Len(h) /\ g[n] = h[n]
  BY <1>1, <1>4, <1>6 DEF KeptIn
<1>8. h[n].parent \in 0..(n - 1)
  BY <1>7, ParentsBefore
<1>9. h[n].parent \in 0..Len(h) /\ h[n].parent < n /\ h[n].parent \in Nat /\ n \in Nat
  BY <1>1, <1>7, <1>8
<1>10. h[n].parent \notin Bad
  BY <1>3, <1>9
<1> QED BY <1>3, <1>5, <1>6, <1>7, <1>9, <1>10

LEMMA ReachesOlder ==
    ASSUME NEW h, HistoryOK(h), NEW f, Reaches(h, f)
    PROVE  \A n \in 0..Len(h) : f[n] \subseteq 1..Len(h)
<1> DEFINE Bad == {n \in 0..Len(h) : ~(f[n] \subseteq 1..Len(h))}
<1>1. Len(h) \in Nat
  BY DEF HistoryOK
<1> SUFFICES ASSUME Bad # {} PROVE FALSE
  OBVIOUS
<1>2. Bad \subseteq Nat
  BY <1>1
<1>3. PICK n \in Bad : \A m \in Bad : n <= m
  BY <1>2, LeastNumber
<1>4. f[n] = IF n = 0 THEN {} ELSE {n} \cup f[h[n].parent]
  BY <1>3 DEF Reaches
<1>5. n \in 1..Len(h)
  BY <1>1, <1>3, <1>4
<1>6. h[n].parent \in 0..(n - 1)
  BY <1>5, ParentsBefore
<1>7. h[n].parent \in 0..Len(h) /\ h[n].parent < n /\ h[n].parent \in Nat /\ n \in Nat /\ n # 0
  BY <1>1, <1>5, <1>6
<1>8. h[n].parent \notin Bad
  BY <1>3, <1>7
<1> QED BY <1>3, <1>4, <1>5, <1>7, <1>8

LEMMA AncestorsReach ==
    /\ HistoryOK(history) => Reaches(history, Ancestors)
    /\ HistoryOK(history') => Reaches(history', Ancestors')
<1>1. Ancestors = CHOOSE f : Reaches(history, f)
  BY DEF Ancestors, Reaches
<1>2. Ancestors' = CHOOSE f : Reaches(history', f)
  BY DEF Ancestors, Reaches
<1> QED BY <1>1, <1>2, ReachesExists

\* What the commits that n reaches hold.
Held(n) == UNION {ObjectsOf(m) : m \in Ancestors[n]}

\* The objects of the first N commits, and any blob.
ObjectsUpTo(N) == {Blob(c) : c \in FileContents} \cup {CommitObject(n) : n \in 1..N}

Grows == HistoryOK(history) /\ HistoryOK(history') /\ KeptIn(history, history')

LEMMA ReachableHeld ==
    ASSUME NEW T, NEW o
    PROVE  o \in Reachable(T) <=> \E t \in T : o \in Held(t)
BY DEF Reachable, Held

LEMMA HeldNothing == ASSUME HistoryOK(history) PROVE Held(0) = {}
<1>1. Ancestors[0] = {}
  BY AncestorsReach DEF Reaches, HistoryOK
<1> QED BY <1>1 DEF Held

\* A commit holds its own objects and what its parent holds.
LEMMA HeldCommit ==
    ASSUME HistoryOK(history), NEW n \in 1..Len(history)
    PROVE  Held(n) = ObjectsOf(n) \cup Held(history[n].parent)
<1>1. Len(history) \in Nat /\ n \in 0..Len(history) /\ n # 0
  BY DEF HistoryOK
<1>2. Ancestors[n] = {n} \cup Ancestors[history[n].parent]
  BY <1>1, AncestorsReach DEF Reaches
<1> QED BY <1>2 DEF Held

LEMMA CommitObjects ==
    ASSUME HistoryOK(history), NEW n \in 1..Len(history)
    PROVE  ObjectsOf(n) \subseteq ObjectsUpTo(Len(history))
<1>1. history[n].tree \in Trees
  BY ParentsBefore DEF CommitRecords
<1> QED BY <1>1 DEF ObjectsOf, ObjectsUpTo, Trees

LEMMA HeldIn ==
    ASSUME HistoryOK(history), NEW n \in 0..Len(history)
    PROVE  Held(n) \subseteq ObjectsUpTo(Len(history))
<1>1. Ancestors[n] \subseteq 1..Len(history)
  BY AncestorsReach, ReachesOlder
<1> QED BY <1>1, CommitObjects DEF Held

LEMMA HeldStays ==
    ASSUME Grows, NEW n \in 0..Len(history)
    PROVE  Held(n)' = Held(n) /\ n \in 0..Len(history')
<1>1. Ancestors'[n] = Ancestors[n] /\ Ancestors[n] \subseteq 1..Len(history)
  <2>1. Reaches(history, Ancestors) /\ Reaches(history', Ancestors')
    BY AncestorsReach DEF Grows
  <2>2. PICK f : f = Ancestors
    OBVIOUS
  <2>3. PICK e : e = Ancestors'
    OBVIOUS
  <2>4. PICK h : h = history
    OBVIOUS
  <2>5. PICK g : g = history'
    OBVIOUS
  <2>6. Reaches(h, f) /\ Reaches(g, e) /\ HistoryOK(h) /\ HistoryOK(g) /\ KeptIn(h, g)
    BY <2>1, <2>2, <2>3, <2>4, <2>5 DEF Grows
  <2>7. \A m \in 0..Len(h) : e[m] = f[m] /\ f[m] \subseteq 1..Len(h)
    BY <2>6, ReachesKept, ReachesOlder
  <2> QED BY <2>2, <2>3, <2>4, <2>7
<1>2. \A m \in 1..Len(history) : ObjectsOf(m)' = ObjectsOf(m)
  BY DEF ObjectsOf, Grows, KeptIn
<1>3. Len(history) \in Nat /\ Len(history') \in Nat /\ Len(history) <= Len(history')
  BY DEF Grows, HistoryOK, KeptIn
<1> QED BY <1>1, <1>2, <1>3 DEF Held

LEMMA ContentsStay ==
    ASSUME Grows
    PROVE  /\ \A o \in ObjectsUpTo(Len(history)) : contents(o)' = contents(o)
           /\ ObjectsUpTo(Len(history)) \subseteq ObjectsUpTo(Len(history'))
<1>1. Len(history) \in Nat /\ Len(history') \in Nat /\ Len(history) <= Len(history')
      /\ \A n \in 1..Len(history) : history'[n] = history[n]
  BY DEF Grows, HistoryOK, KeptIn
<1> QED BY <1>1 DEF ObjectsUpTo, contents, Blob, CommitObject

\* What is read of an object is a text.
LEMMA ContentsText ==
    ASSUME HistoryOK(history), NEW o \in ObjectsUpTo(Len(history))
    PROVE  \E S : contents(o) \in Seq(S)
<1>1. CASE \E c \in FileContents : o = Blob(c)
  <2>1. PICK c \in FileContents : o = Blob(c)
    BY <1>1
  <2>2. contents(o) = c
    BY <2>1 DEF contents, Blob
  <2> QED BY <2>2, GateAssumption DEF Texts
<1>2. CASE \E n \in 1..Len(history) : o = CommitObject(n)
  <2>1. PICK n \in 1..Len(history) : o = CommitObject(n)
    BY <1>2
  <2>2. contents(o) = history[n].note /\ history[n].note \in Messages
    BY <2>1, ParentsBefore DEF contents, CommitObject, CommitRecords
  <2>3. CASE history[n].note \in Notes
    <3>1. PICK t \in Notes : t = history[n].note
      BY <2>3
    <3>2. t \in Seq({t[i] : i \in DOMAIN t})
      BY GateAssumption DEF Texts
    <3> QED BY <2>2, <3>1, <3>2
  <2>4. CASE history[n].note = <<>>
    <3>1. <<>> \in Seq({})
      BY EmptySeq
    <3> QED BY <2>2, <2>4, <3>1
  <2> QED BY <2>2, <2>3, <2>4 DEF Messages
<1> QED BY <1>1, <1>2 DEF ObjectsUpTo

\* A commit that is made keeps those before it.
LEMMA CommitGrows ==
    ASSUME HistoryOK(history), NEW parent \in 0..Len(history), NEW tree \in Trees,
           NEW note \in Messages, NewCommit(parent, tree, note)
    PROVE  /\ Grows /\ Len(history') = Len(history) + 1
           /\ history'[Len(history) + 1] = [parent |-> parent, tree |-> tree, note |-> note]
<1> DEFINE e == [parent |-> parent, tree |-> tree, note |-> note]
<1>1. history \in Seq(CommitRecords) /\ Len(history) \in Nat \ {0} /\ history' = Append(history, e)
  BY DEF HistoryOK, NewCommit
<1>2. e \in CommitRecords
  BY <1>1 DEF CommitRecords
<1>3. e.parent = parent
  OBVIOUS
<1> HIDE DEF e
<1>4. /\ history' \in Seq(CommitRecords) /\ Len(history') = Len(history) + 1
      /\ history'[Len(history) + 1] = e
      /\ \A i \in 1..Len(history) : history'[i] = history[i]
  BY <1>1, <1>2, AppendProperties
<1>5. \A n \in 1..Len(history') : history'[n].parent < n
  <2> SUFFICES ASSUME NEW n \in 1..Len(history') PROVE history'[n].parent < n
    OBVIOUS
  <2>1. CASE n = Len(history) + 1
    BY <1>1, <1>3, <1>4, <2>1
  <2>2. CASE n # Len(history) + 1
    <3>1. n \in 1..Len(history)
      BY <1>1, <1>4, <2>2
    <3> QED BY <1>4, <3>1 DEF HistoryOK
  <2> QED BY <2>1, <2>2
<1>6. HistoryOK(history')
  BY <1>1, <1>4, <1>5 DEF HistoryOK
<1>7. KeptIn(history, history')
  BY <1>1, <1>4 DEF KeptIn
<1> QED BY <1>4, <1>6, <1>7 DEF Grows, e

LEMMA SameGrows ==
    ASSUME HistoryOK(history), history' = history
    PROVE  Grows
<1>1. PICK h : h = history
  OBVIOUS
<1>2. PICK g : g = history'
  OBVIOUS
<1>3. HistoryOK(h) /\ g = h
  BY <1>1, <1>2
<1>4. HistoryOK(g) /\ KeptIn(h, g)
  BY <1>3 DEF HistoryOK, KeptIn
<1> QED BY <1>1, <1>2, <1>3, <1>4 DEF Grows

-----------------------------------------------------------------------------
(* The inductive invariant, in parts. *)

PushTargets == DOMAIN ServerOf \cup Servers

ServerFor(target) == IF target \in Servers THEN target ELSE ServerOf[target]

\* No object holds a managed value of these names.
Clean(objects, names) ==
    \A n \in DOMAIN SecretItems : n \in names /\ SecretItems[n].confidential =>
        \A o \in objects : ~hitNeedles(contents(o), SecretItems[n].needles)

\* What a commit would add, and a push would send.
Added(r) == {Blob(c) : c \in {r.active} \ {HeadTree, NoContents}}

Sent(r) == (IF r.oid = 0 THEN {} ELSE Held(r.oid)) \ everHad[ServerFor(r.target)]

GateRecords ==
    [at : {"idle", "chain", "vault", "scan", "read", "passed"}, oid : Nat, remoteOid : Nat,
     target : PushTargets \cup {""}, active : Trees, known : SUBSET DOMAIN SecretItems,
     listed : BOOLEAN, override : BOOLEAN]

\* What the place of a gate says: what passed a commit's gate or a push's is
\* clean, and the server has had what it served when the push began.
GateOK(g, r) ==
    /\ r \in GateRecords
    /\ r.oid \in 0..Len(history) /\ r.remoteOid \in 0..Len(history)
    /\ g # "check" => ~r.override
    /\ g = "push" /\ r.at # "idle" =>
          r.target \in PushTargets /\ Held(r.remoteOid) \subseteq everHad[ServerFor(r.target)]
    /\ g = "push" /\ r.at = "passed" => Clean(Sent(r), r.known)
    /\ g = "commit" /\ r.at = "passed" =>
          Added(r) \subseteq ObjectsUpTo(Len(history)) /\ Clean(Added(r), r.known)

FilesOK ==
    /\ HistoryOK(history) /\ tip \in 1..Len(history)
    /\ work \in FileContents \cup {NoContents} /\ index \in Trees
    /\ known \in SUBSET DOMAIN SecretItems

\* A server has had whatever its branch, or a ref that tracks it, leads to.
RefsOK ==
    /\ serves \in [Servers -> 0..Len(history)]
    /\ tracking \in [DOMAIN ServerOf -> 0..Len(history)]
    /\ DOMAIN everHad = Servers
    /\ \A s \in Servers : Held(serves[s]) \subseteq everHad[s]
    /\ \A r \in DOMAIN ServerOf : Held(tracking[r]) \subseteq everHad[ServerOf[r]]

GatesOK ==
    /\ gate = [g \in Ops |-> gate[g]]
    /\ \A g \in Ops : GateOK(g, gate[g])

Passes(p) == p.objects \subseteq ObjectsUpTo(Len(history)) /\ Clean(p.objects, p.known)

GateInv == FilesOK /\ RefsOK /\ GatesOK /\ \A p \in gated : Passes(p)

-----------------------------------------------------------------------------
(* What a step keeps. *)

Remembers == DOMAIN everHad' = Servers /\ \A s \in Servers : everHad[s] \subseteq everHad'[s]

LEMMA CleanStays ==
    ASSUME Grows, NEW objects \in SUBSET ObjectsUpTo(Len(history)), NEW names, Clean(objects, names)
    PROVE  Clean(objects, names)' /\ objects \subseteq ObjectsUpTo(Len(history'))
BY ContentsStay DEF Clean

LEMMA GateStays ==
    ASSUME Grows, Remembers, NEW g, NEW r, GateOK(g, r),
           g = "commit" /\ r.at = "passed" => HeadTree' = HeadTree
    PROVE  GateOK(g, r)'
<1>0. Len(history) \in Nat /\ Len(history') \in Nat /\ Len(history) <= Len(history')
  BY DEF Grows, HistoryOK, KeptIn
<1>1. r \in GateRecords /\ r.oid \in 0..Len(history) /\ r.remoteOid \in 0..Len(history)
      /\ (g # "check" => ~r.override)
  BY DEF GateOK
<1>2. PICK oid \in 0..Len(history) : oid = r.oid
  BY <1>1
<1>3. PICK remoteOid \in 0..Len(history) : remoteOid = r.remoteOid
  BY <1>1
<1>4. Held(oid)' = Held(oid) /\ Held(remoteOid)' = Held(remoteOid)
  BY HeldStays
<1>5. r.oid \in 0..Len(history') /\ r.remoteOid \in 0..Len(history')
  BY <1>0, <1>1
<1>6. \A t \in PushTargets : ServerFor(t) \in Servers
  BY DEF PushTargets, ServerFor, Servers
<1>7. ASSUME g = "push", r.at # "idle"
      PROVE  r.target \in PushTargets /\ Held(remoteOid)' \subseteq everHad'[ServerFor(r.target)]
             /\ everHad[ServerFor(r.target)] \subseteq everHad'[ServerFor(r.target)]
  <2>1. r.target \in PushTargets /\ Held(remoteOid) \subseteq everHad[ServerFor(r.target)]
    BY <1>3, <1>7 DEF GateOK
  <2>2. PICK s \in Servers : s = ServerFor(r.target)
    BY <1>6, <2>1
  <2>3. everHad[s] \subseteq everHad'[s]
    BY DEF Remembers
  <2> QED BY <1>4, <2>1, <2>2, <2>3
<1>8. ASSUME g = "push", r.at = "passed" PROVE Clean(Sent(r), r.known)'
  <2>1. Clean(Sent(r), r.known)
    BY <1>8 DEF GateOK
  <2>2. Sent(r) \subseteq ObjectsUpTo(Len(history))
    BY <1>2, HeldIn DEF Sent, Grows
  <2>3. Sent(r)' \subseteq Sent(r)
    BY <1>2, <1>4, <1>7, <1>8 DEF Sent
  <2>4. \A o \in ObjectsUpTo(Len(history)) : contents(o)' = contents(o)
    BY ContentsStay
  <2> QED BY <2>1, <2>2, <2>3, <2>4 DEF Clean
<1>9. ASSUME g = "commit", r.at = "passed"
      PROVE  (Added(r) \subseteq ObjectsUpTo(Len(history)) /\ Clean(Added(r), r.known))'
  <2>1. Added(r) \subseteq ObjectsUpTo(Len(history)) /\ Clean(Added(r), r.known)
    BY <1>9 DEF GateOK
  <2>2. Added(r)' = Added(r)
    BY <1>9 DEF Added
  <2>3. \A o \in ObjectsUpTo(Len(history)) : contents(o)' = contents(o)
    BY ContentsStay
  <2>4. ObjectsUpTo(Len(history)) \subseteq ObjectsUpTo(Len(history'))
    BY ContentsStay
  <2>5. Clean(Added(r), r.known)'
    BY <2>1, <2>2, <2>3 DEF Clean
  <2> QED BY <2>1, <2>2, <2>4, <2>5
<1>10. (Held(r.remoteOid))' = Held(remoteOid)'
  BY <1>3
<1>11. g = "push" /\ r.at # "idle" =>
          r.target \in PushTargets /\ (Held(r.remoteOid))' \subseteq everHad'[ServerFor(r.target)]
  BY <1>7, <1>10
<1> QED BY <1>1, <1>5, <1>8, <1>9, <1>11 DEF GateOK

\* A gate moves, Git's state grows, and what passes anew is clean.
LEMMA GateStep ==
    ASSUME GateInv, Grows, Remembers, FilesOK', RefsOK', NEW g \in Ops, NEW r, GateOK(g, r),
           gate' = [gate EXCEPT ![g] = r],
           g # "commit" \/ r.at = "passed" => HeadTree' = HeadTree \/ gate'["commit"].at # "passed",
           \A p \in gated' : p \in gated \/ Passes(p)
    PROVE  GateInv'
<1>1. gate = [h \in Ops |-> gate[h]] /\ \A h \in Ops : GateOK(h, gate[h])
  BY DEF GateInv, GatesOK
<1>2. gate'[g] = r /\ (\A h \in Ops : h # g => gate'[h] = gate[h]) /\ gate' = [h \in Ops |-> gate'[h]]
  BY <1>1
<1>3. ASSUME NEW h \in Ops PROVE GateOK(h, gate[h])'
  <2>1. PICK x : x = gate'[h]
    OBVIOUS
  <2>2. GateOK(h, x)
    <3>1. CASE h = g
      BY <1>2, <2>1, <3>1
    <3>2. CASE h # g
      <4>1. x = gate[h]
        BY <1>2, <2>1, <3>2
      <4> QED BY <1>1, <4>1
    <3> QED BY <3>1, <3>2
  <2>3. h = "commit" /\ x.at = "passed" => HeadTree' = HeadTree
    BY <1>2, <2>1
  <2>4. GateOK(h, x)'
    BY <2>2, <2>3, GateStays
  <2> QED BY <2>1, <2>4
<1>4. GatesOK'
  BY <1>2, <1>3 DEF GatesOK
<1>5. ASSUME NEW p \in gated' PROVE Passes(p)'
  <2>1. Passes(p)
    BY DEF GateInv
  <2>2. PICK o : o = p.objects
    OBVIOUS
  <2>3. PICK k : k = p.known
    OBVIOUS
  <2>4. o \in SUBSET ObjectsUpTo(Len(history)) /\ Clean(o, k)
    BY <2>1, <2>2, <2>3 DEF Passes
  <2>5. Clean(o, k)' /\ o \subseteq ObjectsUpTo(Len(history'))
    BY <2>4, CleanStays
  <2> QED BY <2>2, <2>3, <2>5 DEF Passes
<1> QED BY <1>4, <1>5 DEF GateInv

LEMMA RefsKept ==
    ASSUME Grows, DOMAIN everHad' = Servers, DOMAIN serves' = Servers, DOMAIN tracking' = DOMAIN ServerOf,
           serves' = [s \in Servers |-> serves'[s]], tracking' = [r \in DOMAIN ServerOf |-> tracking'[r]],
           \A s \in Servers : \E n \in 0..Len(history') : serves'[s] = n /\ Held(n)' \subseteq everHad'[s],
           \A r \in DOMAIN ServerOf : \E n \in 0..Len(history') :
               tracking'[r] = n /\ Held(n)' \subseteq everHad'[ServerOf[r]]
    PROVE  RefsOK'
<1>1. ASSUME NEW s \in Servers PROVE serves'[s] \in 0..Len(history') /\ (Held(serves[s]) \subseteq everHad[s])'
  <2>1. PICK n \in 0..Len(history') : serves'[s] = n /\ Held(n)' \subseteq everHad'[s]
    OBVIOUS
  <2> QED BY <2>1 DEF Held
<1>2. ASSUME NEW r \in DOMAIN ServerOf
      PROVE  tracking'[r] \in 0..Len(history') /\ (Held(tracking[r]) \subseteq everHad[ServerOf[r]])'
  <2>1. PICK n \in 0..Len(history') : tracking'[r] = n /\ Held(n)' \subseteq everHad'[ServerOf[r]]
    OBVIOUS
  <2> QED BY <2>1 DEF Held
<1> QED BY <1>1, <1>2 DEF RefsOK

\* Where a server's branch leads it has had, however the history grows.
LEMMA LedThere ==
    ASSUME GateInv, Grows, Remembers
    PROVE  /\ \A s \in Servers : \E n \in 0..Len(history') : serves[s] = n /\ Held(n)' \subseteq everHad'[s]
           /\ \A r \in DOMAIN ServerOf : \E n \in 0..Len(history') :
                 tracking[r] = n /\ Held(n)' \subseteq everHad'[ServerOf[r]]
<1>1. ASSUME NEW s \in Servers
      PROVE  \E n \in 0..Len(history') : serves[s] = n /\ Held(n)' \subseteq everHad'[s]
  <2>1. PICK n \in 0..Len(history) : n = serves[s] /\ Held(n) \subseteq everHad[s]
    BY DEF GateInv, RefsOK
  <2>2. Held(n)' = Held(n) /\ n \in 0..Len(history')
    BY HeldStays
  <2>3. everHad[s] \subseteq everHad'[s]
    BY DEF Remembers
  <2> QED BY <2>1, <2>2, <2>3
<1>2. ASSUME NEW r \in DOMAIN ServerOf
      PROVE  \E n \in 0..Len(history') : tracking[r] = n /\ Held(n)' \subseteq everHad'[ServerOf[r]]
  <2>1. PICK n \in 0..Len(history) : n = tracking[r] /\ Held(n) \subseteq everHad[ServerOf[r]]
    BY DEF GateInv, RefsOK
  <2>2. Held(n)' = Held(n) /\ n \in 0..Len(history')
    BY HeldStays
  <2>3. everHad[ServerOf[r]] \subseteq everHad'[ServerOf[r]]
    BY DEF Remembers, Servers
  <2> QED BY <2>1, <2>2, <2>3
<1> QED BY <1>1, <1>2

\* The refs stay as they are.
LEMMA RefsStay ==
    ASSUME GateInv, Grows, UNCHANGED <<serves, everHad, tracking>>
    PROVE  RefsOK' /\ Remembers
<1>1. Remembers
  BY DEF Remembers, GateInv, RefsOK
<1>2. /\ serves = [s \in Servers |-> serves[s]] /\ tracking = [r \in DOMAIN ServerOf |-> tracking[r]]
      /\ DOMAIN everHad = Servers /\ DOMAIN serves = Servers /\ DOMAIN tracking = DOMAIN ServerOf
  BY DEF GateInv, RefsOK
<1>3. /\ \A s \in Servers : \E n \in 0..Len(history') : serves'[s] = n /\ Held(n)' \subseteq everHad'[s]
      /\ \A r \in DOMAIN ServerOf : \E n \in 0..Len(history') :
                 tracking'[r] = n /\ Held(n)' \subseteq everHad'[ServerOf[r]]
  BY <1>1, LedThere
<1>4. RefsOK'
  BY <1>2, <1>3, RefsKept
<1> QED BY <1>1, <1>4

LEMMA GateMoves ==
    ASSUME GateInv, NEW g \in Ops, NEW r, GateOK(g, r), gate' = [gate EXCEPT ![g] = r],
           UNCHANGED <<gitVars, known, gated>>
    PROVE  GateInv'
<1>1. Grows
  BY SameGrows DEF GateInv, FilesOK, gitVars
<1>2. RefsOK' /\ Remembers
  BY <1>1, RefsStay DEF gitVars
<1>3. FilesOK' /\ HeadTree' = HeadTree
  <2>1. HistoryOK(history')
    BY <1>1 DEF Grows
  <2> QED BY <2>1 DEF GateInv, FilesOK, gitVars, HeadTree
<1> QED BY <1>1, <1>2, <1>3, GateStep

\* Git's state grows, and the gates stay where they are.
LEMMA GitMoves ==
    ASSUME GateInv, Grows, Remembers, FilesOK', RefsOK', UNCHANGED <<gate, gated>>,
           HeadTree' = HeadTree \/ gate["commit"].at # "passed"
    PROVE  GateInv'
<1>1. PICK r : r = gate["commit"]
  OBVIOUS
<1>2. GateOK("commit", r) /\ "commit" \in Ops /\ gate = [g \in Ops |-> gate[g]]
  BY <1>1 DEF GateInv, GatesOK, Ops
<1>3. gate' = [gate EXCEPT !["commit"] = r]
  BY <1>1, <1>2
<1>4. gate'["commit"] = r
  BY <1>1
<1> QED BY <1>1, <1>2, <1>3, <1>4, GateStep

LEMMA NoGateOK == ASSUME HistoryOK(history), NEW g \in Ops PROVE GateOK(g, NoGate)
<1>1. 0 \in 0..Len(history)
  BY DEF HistoryOK
<1>2. NoGate \in GateRecords
  BY DEF NoGate, GateRecords, Trees, PushTargets
<1> QED BY <1>1, <1>2 DEF GateOK, NoGate

LEMMA GatePlaces ==
    ASSUME GateInv, NEW g \in Ops
    PROVE  /\ GateOK(g, gate[g]) /\ gate[g] \in GateRecords
           /\ HistoryOK(history) /\ Len(history) \in Nat \ {0}
<1> QED BY DEF GateInv, GatesOK, GateOK, FilesOK, HistoryOK

LEMMA RefuseInv == ASSUME GateInv, NEW g \in Ops, Refuse(g) PROVE GateInv'
BY NoGateOK, GatePlaces, GateMoves DEF Refuse, Move

\* A gate that is open goes on.
LEMMA Onwards ==
    ASSUME NEW g \in Ops, NEW r, GateOK(g, r), r.at # "idle",
           NEW x \in GateRecords, x.at \in {"chain", "vault", "scan", "read"}, x.oid = r.oid,
           x.remoteOid = r.remoteOid, x.target = r.target, x.override = r.override
    PROVE  GateOK(g, x)
BY DEF GateOK

-----------------------------------------------------------------------------
(* One lemma for each step of a gate. *)

LEMMA BeginCommitInv ==
    ASSUME GateInv, NEW active \in {index, work, Submodule}, BeginCommit(active) PROVE GateInv'
<1> DEFINE r == [NoGate EXCEPT !.at = "chain", !.active = active]
<1>1. active \in Trees
  BY DEF GateInv, FilesOK, Trees
<1>2. GateOK("commit", r)
  <2>1. 0 \in 0..Len(history)
    BY DEF GateInv, FilesOK, HistoryOK
  <2>2. r \in GateRecords /\ r.at = "chain" /\ r.oid = 0 /\ r.remoteOid = 0 /\ ~r.override
    BY <1>1 DEF NoGate, GateRecords, PushTargets
  <2> HIDE DEF r
  <2> QED BY <2>1, <2>2 DEF GateOK
<1>3. gate' = [gate EXCEPT !["commit"] = r] /\ UNCHANGED <<gitVars, known, gated>> /\ "commit" \in Ops
  BY DEF BeginCommit, GateBegins, Move, Ops
<1> QED BY <1>2, <1>3, GateMoves

\* A push begins at what the server serves.
LEMMA BeginPushInv ==
    ASSUME GateInv, NEW target \in PushTargets, NEW delete \in BOOLEAN, BeginPush(target, delete)
    PROVE  GateInv'
<1> DEFINE s == ServerFor(target)
           r == [NoGate EXCEPT !.at = "chain", !.oid = IF delete THEN 0 ELSE tip,
                               !.remoteOid = serves[s], !.target = target]
<1>1. s \in Servers
  BY DEF PushTargets, ServerFor, Servers
<1>2. /\ serves[s] \in 0..Len(history) /\ Held(serves[s]) \subseteq everHad[s]
      /\ tip \in 0..Len(history) /\ 0 \in 0..Len(history) /\ Len(history) \in Nat
  BY <1>1 DEF GateInv, RefsOK, FilesOK, HistoryOK
<1>3. PICK n \in 0..Len(history) : n = serves[s] /\ Held(n) \subseteq everHad[s]
  BY <1>2
<1>4. r \in GateRecords /\ r.at = "chain" /\ r.oid \in 0..Len(history) /\ r.remoteOid = n
      /\ r.target = target /\ ~r.override
  <2>1. PICK oid \in 0..Len(history) : oid = IF delete THEN 0 ELSE tip
    BY <1>2
  <2>2. r = [NoGate EXCEPT !.at = "chain", !.oid = oid, !.remoteOid = n, !.target = target]
    BY <1>3, <2>1
  <2>3. oid \in Nat /\ n \in Nat /\ {} \in SUBSET DOMAIN SecretItems
    BY <1>2, <2>1, <1>3
  <2> HIDE DEF r
  <2>4. r = [at |-> "chain", oid |-> oid, remoteOid |-> n, target |-> target,
             active |-> NoContents, known |-> {}, listed |-> FALSE, override |-> FALSE]
    BY <2>2 DEF NoGate
  <2>5. r \in GateRecords
    BY <2>3, <2>4 DEF GateRecords, Trees
  <2> QED BY <2>1, <2>4, <2>5
<1>5. gate' = [gate EXCEPT !["push"] = r] /\ UNCHANGED <<gitVars, known, gated>> /\ "push" \in Ops
  BY DEF BeginPush, GateBegins, Move, Ops, ServerFor
<1>6. ServerFor(target) = s
  OBVIOUS
<1> HIDE DEF r, s
<1>7. GateOK("push", r)
  BY <1>3, <1>4, <1>6 DEF GateOK
<1> QED BY <1>5, <1>7, GateMoves

LEMMA CheckBegins ==
    ASSUME GateInv, NEW override \in BOOLEAN, checkRepo(override) PROVE GateInv'
<1> DEFINE r == [NoGate EXCEPT !.at = "vault", !.override = override]
<1>1. GateOK("check", r)
  <2>1. 0 \in 0..Len(history)
    BY DEF GateInv, FilesOK, HistoryOK
  <2>2. r \in GateRecords /\ r.at = "vault" /\ r.oid = 0 /\ r.remoteOid = 0
    BY DEF NoGate, GateRecords, PushTargets, Trees
  <2> HIDE DEF r
  <2> QED BY <2>1, <2>2 DEF GateOK
<1>2. gate' = [gate EXCEPT !["check"] = r] /\ UNCHANGED <<gitVars, known, gated>> /\ "check" \in Ops
  BY DEF checkRepo, GateBegins, Move, Ops
<1> QED BY <1>1, <1>2, GateMoves

LEMMA SavedHookInv ==
    ASSUME GateInv, NEW g \in {"commit", "push"}, NEW to \in FileContents \cup {gate[g].active},
           RunSavedHook(g, to)
    PROVE  GateInv'
<1> DEFINE x == [gate[g] EXCEPT !.at = "vault", !.active = to]
<1>1. g \in Ops /\ GateOK(g, gate[g]) /\ gate[g] \in GateRecords /\ gate[g].at = "chain"
  BY GatePlaces DEF Ops, RunSavedHook
<1>2. to \in Trees
  BY <1>1 DEF Trees, GateRecords
<1>3. x \in GateRecords /\ x.at = "vault" /\ x.oid = gate[g].oid /\ x.remoteOid = gate[g].remoteOid
      /\ x.target = gate[g].target /\ x.override = gate[g].override
  BY <1>1, <1>2 DEF GateRecords
<1>4. gate' = [gate EXCEPT ![g] = x] /\ UNCHANGED <<gitVars, known, gated>>
  BY DEF RunSavedHook, Goes, Move
<1>5. PICK r : r = gate[g]
  OBVIOUS
<1> HIDE DEF x
<1>6. GateOK(g, x)
  BY <1>1, <1>3, <1>5, Onwards
<1> QED BY <1>1, <1>4, <1>6, GateMoves

LEMMA OpenVaultInv == ASSUME GateInv, NEW g \in Ops, openVault(g) PROVE GateInv'
<1>1. GateOK(g, gate[g]) /\ gate[g] \in GateRecords /\ gate[g].at = "vault"
      /\ known \in SUBSET DOMAIN SecretItems
  BY GatePlaces DEF openVault, GateInv, FilesOK
<1>2. CASE Goes(g, [gate[g] EXCEPT !.at = "scan"])
  <2> DEFINE x == [gate[g] EXCEPT !.at = "scan"]
  <2>1. x \in GateRecords /\ x.at = "scan" /\ x.oid = gate[g].oid /\ x.remoteOid = gate[g].remoteOid
        /\ x.target = gate[g].target /\ x.override = gate[g].override
    BY <1>1 DEF GateRecords
  <2>2. gate' = [gate EXCEPT ![g] = x] /\ UNCHANGED <<gitVars, known, gated>>
    BY <1>2 DEF Goes, Move
  <2> HIDE DEF x
  <2>3. GateOK(g, x)
    BY <1>1, <2>1, Onwards
  <2> QED BY <2>2, <2>3, GateMoves
<1>3. CASE Goes(g, [gate[g] EXCEPT !.at = "scan", !.known = known])
  <2> DEFINE x == [gate[g] EXCEPT !.at = "scan", !.known = known]
  <2>1. x \in GateRecords /\ x.at = "scan" /\ x.oid = gate[g].oid /\ x.remoteOid = gate[g].remoteOid
        /\ x.target = gate[g].target /\ x.override = gate[g].override
    BY <1>1 DEF GateRecords
  <2>2. gate' = [gate EXCEPT ![g] = x] /\ UNCHANGED <<gitVars, known, gated>>
    BY <1>3 DEF Goes, Move
  <2> HIDE DEF x
  <2>3. GateOK(g, x)
    BY <1>1, <2>1, Onwards
  <2> QED BY <2>2, <2>3, GateMoves
<1> QED BY <1>2, <1>3, RefuseInv DEF openVault

LEMMA EnumerateInv == ASSUME GateInv, Enumerate PROVE GateInv'
<1> DEFINE x == [gate["check"] EXCEPT !.at = "read", !.listed = {work, index} # {NoContents}]
<1>1. "check" \in Ops /\ GateOK("check", gate["check"]) /\ gate["check"] \in GateRecords
      /\ gate["check"].at = "scan"
  BY GatePlaces DEF Ops, Enumerate
<1>2. x \in GateRecords /\ x.at = "read" /\ x.oid = gate["check"].oid
      /\ x.remoteOid = gate["check"].remoteOid /\ x.target = gate["check"].target
      /\ x.override = gate["check"].override
  BY <1>1 DEF GateRecords
<1>3. gate' = [gate EXCEPT !["check"] = x] /\ UNCHANGED <<gitVars, known, gated>>
  BY DEF Enumerate, Goes, Move
<1> HIDE DEF x
<1>4. GateOK("check", x)
  BY <1>1, <1>2, Onwards
<1> QED BY <1>1, <1>3, <1>4, GateMoves

LEMMA ScanInv == ASSUME GateInv, Scan PROVE GateInv'
<1>1. "check" \in Ops
  BY DEF Ops
<1>2. CASE Refuse("check")
  BY <1>1, <1>2, RefuseInv
<1>3. CASE gate' = [gate EXCEPT !["check"] = NoGate] /\ UNCHANGED <<gitVars, known, gated>>
  BY <1>1, <1>3, NoGateOK, GatePlaces, GateMoves
<1> QED BY <1>2, <1>3 DEF Scan, Verdict, Goes, Move

\* What was scanned and not matched is clean.
LEMMA ScannedClean ==
    ASSUME HistoryOK(history), NEW objects \in SUBSET ObjectsUpTo(Len(history)),
           NEW names \in SUBSET DOMAIN SecretItems,
           \A o \in objects : ~MatchSource(contents(o), names)
    PROVE  Clean(objects, names)
<1> SUFFICES ASSUME NEW n \in names, SecretItems[n].confidential, NEW o \in objects,
                    hitNeedles(contents(o), SecretItems[n].needles)
             PROVE  FALSE
  BY DEF Clean
<1>1. o \in ObjectsUpTo(Len(history))
  OBVIOUS
<1>2. PICK d : d = contents(o)
  OBVIOUS
<1>3. PICK S : d \in Seq(S)
  BY <1>1, <1>2, ContentsText
<1>4. MatchSource(d, names)
  BY <1>2, <1>3, SourceMatched
<1> QED BY <1>2, <1>4

LEMMA ScanStagedInv == ASSUME GateInv, scanStagedObjects PROVE GateInv'
<1> DEFINE g == gate["commit"]
           x == [g EXCEPT !.at = "passed"]
<1>1. "commit" \in Ops /\ GateOK("commit", g) /\ g \in GateRecords /\ g.at = "scan" /\ HistoryOK(history)
  BY GatePlaces DEF Ops, scanStagedObjects
<1>2. CASE Refuse("commit")
  BY <1>1, <1>2, RefuseInv
<1>3. CASE Goes("commit", x) /\ ~\E c \in readIndexObjects(g) : MatchSource(c, g.known)
  <2>1. x \in GateRecords /\ x.at = "passed" /\ x.oid = g.oid /\ x.remoteOid = g.remoteOid
        /\ x.active = g.active /\ x.known = g.known /\ x.override = g.override
    BY <1>1 DEF GateRecords
  <2>2. Submodule \notin readIndexObjects(g) /\ g.active \in Trees /\ g.known \in SUBSET DOMAIN SecretItems
    BY <1>1 DEF scanStagedObjects, GateRecords
  <2>3. Added(x) = {Blob(c) : c \in {g.active} \ {HeadTree, NoContents}}
    BY <2>1 DEF Added
  <2>4. \A c \in {g.active} \ {HeadTree, NoContents} : c \in readIndexObjects(g) /\ c \in FileContents
    BY <2>2 DEF readIndexObjects, Trees
  <2>5. Added(x) \subseteq ObjectsUpTo(Len(history))
    BY <2>3, <2>4 DEF ObjectsUpTo
  <2>6. \A o \in Added(x) : ~MatchSource(contents(o), g.known)
    BY <1>3, <2>3, <2>4 DEF contents, Blob
  <2>7. PICK objects : objects = Added(x)
    OBVIOUS
  <2>8. PICK names : names = g.known
    OBVIOUS
  <2>9. gate' = [gate EXCEPT !["commit"] = x] /\ UNCHANGED <<gitVars, known, gated>>
    BY <1>3 DEF Goes, Move
  <2> HIDE DEF x, g
  <2>10. Clean(objects, names)
    BY <1>1, <2>2, <2>5, <2>6, <2>7, <2>8, ScannedClean
  <2>11. Clean(Added(x), x.known)
    BY <2>1, <2>7, <2>8, <2>10
  <2>12. GateOK("commit", x)
    BY <1>1, <2>1, <2>5, <2>11 DEF GateOK
  <2> QED BY <1>1, <2>9, <2>12, GateMoves
<1> QED BY <1>1, <1>2, <1>3 DEF scanStagedObjects, Verdict, GateOK

\* What the excluded refs reach the server has had.
LEMMA ExcludedHad ==
    ASSUME GateInv, NEW r, GateOK("push", r), r.at # "idle", NEW o \in Reachable(Excluded(r))
    PROVE  o \in everHad[ServerFor(r.target)]
<1>1. PICK t \in Excluded(r) : o \in Held(t)
  BY ReachableHeld
<1>2. r.target \in PushTargets /\ Held(r.remoteOid) \subseteq everHad[ServerFor(r.target)]
  BY DEF GateOK
<1>3. CASE t = r.remoteOid
  BY <1>1, <1>2, <1>3
<1>4. CASE t \in remoteTrackingTips(r.target)
  <2>1. PICK q \in DOMAIN ServerOf : t = tracking[q] /\ (q = r.target \/ ServerOf[q] = r.target)
    BY <1>4 DEF remoteTrackingTips
  <2>2. q \notin Servers /\ ServerOf[q] \in Servers
    BY GateAssumption DEF Servers
  <2>3. ServerFor(r.target) = ServerOf[q]
    BY <2>1, <2>2 DEF ServerFor
  <2>4. Held(tracking[q]) \subseteq everHad[ServerOf[q]]
    BY DEF GateInv, RefsOK
  <2> QED BY <1>1, <2>1, <2>3, <2>4
<1> QED BY <1>1, <1>3, <1>4 DEF Excluded

LEMMA ScanOutgoingInv == ASSUME GateInv, ScanOutgoing PROVE GateInv'
<1> DEFINE g == gate["push"]
           x == [g EXCEPT !.at = "passed"]
<1>1. "push" \in Ops /\ GateOK("push", g) /\ g \in GateRecords /\ g.at = "scan" /\ HistoryOK(history)
  BY GatePlaces DEF Ops, ScanOutgoing
<1>2. CASE Refuse("push")
  BY <1>1, <1>2, RefuseInv
<1>3. CASE Goes("push", x) /\ ~\E o \in outgoing(g) : MatchSource(contents(o), g.known)
  <2>1. x \in GateRecords /\ x.at = "passed" /\ x.oid = g.oid /\ x.remoteOid = g.remoteOid
        /\ x.target = g.target /\ x.known = g.known /\ x.override = g.override
    BY <1>1 DEF GateRecords
  <2>2. gate' = [gate EXCEPT !["push"] = x] /\ UNCHANGED <<gitVars, known, gated>>
    BY <1>3 DEF Goes, Move
  <2>3. PICK r : r = g
    OBVIOUS
  <2>4. GateOK("push", r) /\ r.at # "idle" /\ r.known \in SUBSET DOMAIN SecretItems
        /\ \A o \in outgoing(r) : ~MatchSource(contents(o), r.known)
    BY <1>1, <1>3, <2>3 DEF GateRecords
  <2>5. Sent(r) \subseteq outgoing(r)
    <3> SUFFICES ASSUME NEW o \in Sent(r) PROVE o \in outgoing(r)
      OBVIOUS
    <3>1. r.oid # 0 /\ o \in Held(r.oid) /\ o \notin everHad[ServerFor(r.target)]
      BY DEF Sent
    <3>2. o \in Reachable({r.oid})
      BY <3>1, ReachableHeld
    <3>3. o \notin Reachable(Excluded(r))
      BY <2>4, <3>1, ExcludedHad
    <3> QED BY <3>1, <3>2, <3>3 DEF outgoing
  <2>6. PICK oid \in 0..Len(history) : oid = r.oid
    BY <2>4 DEF GateOK
  <2>7. Sent(r) \subseteq ObjectsUpTo(Len(history))
    BY <1>1, <2>6, HeldIn DEF Sent
  <2>8. PICK objects : objects = Sent(r)
    OBVIOUS
  <2>9. PICK names : names = r.known
    OBVIOUS
  <2>10. Clean(objects, names)
    BY <1>1, <2>4, <2>5, <2>7, <2>8, <2>9, ScannedClean
  <2>11. Sent(x) = Sent(r)
    BY <2>1, <2>3 DEF Sent
  <2> HIDE DEF x, g
  <2>12. Clean(Sent(x), x.known)
    BY <2>1, <2>3, <2>8, <2>9, <2>10, <2>11
  <2>13. GateOK("push", x)
    BY <1>1, <2>1, <2>12 DEF GateOK
  <2> QED BY <1>1, <2>2, <2>13, GateMoves
<1> QED BY <1>1, <1>2, <1>3 DEF ScanOutgoing, Verdict, GateOK

-----------------------------------------------------------------------------
(* One lemma for each step of Git, of its users and of the vault. *)

LEMMA FilesStay ==
    ASSUME GateInv, Grows, tip' \in 1..Len(history'), work' \in FileContents \cup {NoContents},
           index' \in Trees, known' \in SUBSET DOMAIN SecretItems
    PROVE  FilesOK'
BY DEF Grows, FilesOK

\* A file is edited or staged, or the vault moves.
LEMMA QuietInv ==
    ASSUME GateInv, work' \in FileContents \cup {NoContents}, index' \in Trees,
           known' \in SUBSET DOMAIN SecretItems,
           UNCHANGED <<history, tip, serves, everHad, tracking, gate, gated>>
    PROVE  GateInv'
<1>1. Grows
  BY SameGrows DEF GateInv, FilesOK
<1>2. RefsOK' /\ Remembers
  BY <1>1, RefsStay
<1>3. FilesOK'
  BY <1>1, FilesStay DEF GateInv, FilesOK
<1>4. HeadTree' = HeadTree
  BY DEF HeadTree
<1> QED BY <1>1, <1>2, <1>3, <1>4, GitMoves

\* A commit on the branch, or in place of its tip.
LEMMA CommitKeeps ==
    ASSUME GateInv, NEW amend \in BOOLEAN, NEW tree \in Trees, NEW note \in Notes,
           CommitOnBranch(amend, tree, note), work' = work, known' = known, index' \in Trees
    PROVE  Grows /\ Remembers /\ FilesOK' /\ RefsOK'
<1>1. HistoryOK(history) /\ Len(history) \in Nat \ {0} /\ tip \in 1..Len(history)
  BY DEF GateInv, FilesOK, HistoryOK
<1>2. history[tip].parent \in 0..(tip - 1)
  BY <1>1, ParentsBefore
<1>3. PICK parent \in 0..Len(history) : parent = IF amend THEN history[tip].parent ELSE tip
  BY <1>1, <1>2
<1>4. NewCommit(parent, tree, note) /\ note \in Messages
  BY <1>3 DEF CommitOnBranch, Messages
<1>5. Grows /\ Len(history') = Len(history) + 1
  BY <1>1, <1>4, CommitGrows
<1>6. tip' \in 1..Len(history')
  BY <1>1, <1>5 DEF CommitOnBranch
<1>7. FilesOK'
  BY <1>5, <1>6, FilesStay DEF GateInv, FilesOK
<1>8. RefsOK' /\ Remembers
  BY <1>5, RefsStay DEF CommitOnBranch
<1> QED BY <1>5, <1>7, <1>8

LEMMA BypassCommitInv ==
    ASSUME GateInv, NEW amend \in BOOLEAN, NEW note \in Notes, BypassCommit(amend, note)
    PROVE  GateInv'
<1>1. index \in Trees
  BY DEF GateInv, FilesOK
<1>2. Grows /\ Remembers /\ FilesOK' /\ RefsOK'
  BY <1>1, CommitKeeps DEF BypassCommit, UserStep
<1> QED BY <1>2, GitMoves DEF BypassCommit, UserStep

LEMMA FinishCommitInv ==
    ASSUME GateInv, NEW amend \in BOOLEAN, NEW note \in Notes, FinishCommit(amend, note)
    PROVE  GateInv'
<1>1. PICK r : r = gate["commit"]
  OBVIOUS
<1>2. "commit" \in Ops /\ GateOK("commit", r) /\ r.at = "passed" /\ r \in GateRecords
      /\ HistoryOK(history)
  BY <1>1, GatePlaces DEF FinishCommit, Ops
<1>3. r.active \in Trees
  BY <1>2 DEF GateRecords
<1>4. Grows /\ Remembers /\ FilesOK' /\ RefsOK'
  BY <1>1, <1>3, CommitKeeps DEF FinishCommit, GitStep
<1>5. Added(r) \subseteq ObjectsUpTo(Len(history)) /\ Clean(Added(r), r.known)
  BY <1>2 DEF GateOK
<1>6. gated' = gated \cup {[objects |-> Added(r), known |-> r.known]}
  BY <1>1 DEF FinishCommit, Added
<1>7. \A p \in gated' : p \in gated \/ Passes(p)
  BY <1>5, <1>6 DEF Passes
<1>8. gate' = [gate EXCEPT !["commit"] = NoGate] /\ NoGate.at = "idle"
  BY DEF FinishCommit, Move, NoGate
<1>9. GateOK("commit", NoGate)
  BY <1>2, NoGateOK
<1> QED BY <1>2, <1>4, <1>7, <1>8, <1>9, GateStep

\* The server takes objects: its branch leads to what it has then.
LEMMA ReceiveKeeps ==
    ASSUME GateInv, NEW s \in Servers, NEW target \in PushTargets, s = ServerFor(target),
           NEW oid \in 0..Len(history), Receive(s, target, oid),
           UNCHANGED <<work, index, history, tip, known>>
    PROVE  Grows /\ Remembers /\ FilesOK' /\ RefsOK' /\ HeadTree' = HeadTree
<1>1. Grows /\ HistoryOK(history)
  BY SameGrows DEF GateInv, FilesOK
<1>2. HeadTree' = HeadTree /\ FilesOK'
  BY <1>1, FilesStay DEF GateInv, FilesOK, HeadTree
<1>3. /\ DOMAIN everHad = Servers /\ serves = [q \in Servers |-> serves[q]] /\ DOMAIN tracking = DOMAIN ServerOf
      /\ DOMAIN serves = Servers
  BY DEF GateInv, RefsOK
<1>4. /\ DOMAIN everHad' = Servers /\ DOMAIN serves' = Servers /\ DOMAIN tracking' = DOMAIN ServerOf
      /\ serves' = [q \in Servers |-> serves'[q]] /\ tracking' = [r \in DOMAIN ServerOf |-> tracking'[r]]
      /\ serves'[s] = oid /\ \A q \in Servers : q # s => serves'[q] = serves[q]
      /\ \A r \in DOMAIN ServerOf : tracking'[r] = IF r = target THEN oid ELSE tracking[r]
      /\ everHad'[s] = everHad[s] \cup (IF oid = 0 THEN {} ELSE Reachable({oid}))
      /\ \A q \in Servers : q # s => everHad'[q] = everHad[q]
  BY <1>3 DEF Receive
<1>5. Remembers
  BY <1>4 DEF Remembers
<1>6. Held(oid)' \subseteq everHad'[s] /\ oid \in 0..Len(history')
  <2>1. Held(oid)' = Held(oid) /\ oid \in 0..Len(history')
    BY <1>1, HeldStays
  <2>2. CASE oid = 0
    <3>1. Held(0) = {}
      BY <1>1, HeldNothing
    <3> QED BY <2>1, <2>2, <3>1
  <2>3. CASE oid # 0
    <3>1. Held(oid) \subseteq Reachable({oid})
      BY ReachableHeld
    <3> QED BY <1>4, <2>1, <2>3, <3>1
  <2> QED BY <2>2, <2>3
<1>7. \A q \in Servers : \E n \in 0..Len(history') : serves'[q] = n /\ Held(n)' \subseteq everHad'[q]
  <2> SUFFICES ASSUME NEW q \in Servers
               PROVE  \E n \in 0..Len(history') : serves'[q] = n /\ Held(n)' \subseteq everHad'[q]
    OBVIOUS
  <2>1. CASE q = s
    BY <1>4, <1>6, <2>1
  <2>2. CASE q # s
    <3>1. PICK n \in 0..Len(history') : serves[q] = n /\ Held(n)' \subseteq everHad'[q]
      BY <1>1, <1>5, LedThere
    <3> QED BY <1>4, <2>2, <3>1
  <2> QED BY <2>1, <2>2
<1>8. \A r \in DOMAIN ServerOf : \E n \in 0..Len(history') :
          tracking'[r] = n /\ Held(n)' \subseteq everHad'[ServerOf[r]]
  <2> SUFFICES ASSUME NEW r \in DOMAIN ServerOf
               PROVE  \E n \in 0..Len(history') : tracking'[r] = n /\ Held(n)' \subseteq everHad'[ServerOf[r]]
    OBVIOUS
  <2>1. CASE r = target
    <3>1. ServerOf[r] = s
      BY <2>1, GateAssumption DEF ServerFor
    <3> QED BY <1>4, <1>6, <2>1, <3>1
  <2>2. CASE r # target
    <3>1. PICK n \in 0..Len(history') : tracking[r] = n /\ Held(n)' \subseteq everHad'[ServerOf[r]]
      BY <1>1, <1>5, LedThere
    <3> QED BY <1>4, <2>2, <3>1
  <2> QED BY <2>1, <2>2
<1>9. RefsOK'
  BY <1>1, <1>4, <1>7, <1>8, RefsKept
<1> QED BY <1>1, <1>2, <1>5, <1>9

LEMMA FinishPushInv == ASSUME GateInv, FinishPush PROVE GateInv'
<1>1. PICK r : r = gate["push"]
  OBVIOUS
<1>2. "push" \in Ops /\ GateOK("push", r) /\ r.at = "passed" /\ r \in GateRecords /\ HistoryOK(history)
  BY <1>1, GatePlaces DEF FinishPush, Ops
<1>3. PICK s \in Servers : s = ServerFor(r.target)
  BY <1>2 DEF GateOK, PushTargets, ServerFor, Servers
<1>4. PICK oid \in 0..Len(history) : oid = r.oid
  BY <1>2 DEF GateOK
<1>5. PICK target \in PushTargets : target = r.target
  BY <1>2 DEF GateOK
<1>6. gate' = [gate EXCEPT !["push"] = NoGate] /\ GateOK("push", NoGate)
  BY <1>2, NoGateOK DEF FinishPush, Move
<1>7. UNCHANGED <<work, index, history, tip, known>>
  BY DEF FinishPush, GitStep
<1>8. s = IF r.target \in Servers THEN r.target ELSE ServerOf[r.target]
  BY <1>3 DEF ServerFor
<1>9. CASE serves[s] = r.remoteOid
  <2>1. Receive(s, target, oid)
    BY <1>1, <1>4, <1>5, <1>8, <1>9 DEF FinishPush
  <2>2. Grows /\ Remembers /\ FilesOK' /\ RefsOK' /\ HeadTree' = HeadTree
    BY <1>3, <1>5, <1>7, <2>1, ReceiveKeeps
  <2>3. gated' = gated \cup {[objects |-> (IF r.oid = 0 THEN {} ELSE Reachable({r.oid})) \ everHad[s],
                              known |-> r.known]}
    BY <1>1, <1>8, <1>9 DEF FinishPush
  <2>4. (IF r.oid = 0 THEN {} ELSE Reachable({r.oid})) \ everHad[s] = Sent(r)
    <3>1. \A o : o \in Reachable({r.oid}) <=> o \in Held(r.oid)
      <4> SUFFICES ASSUME NEW o PROVE o \in Reachable({r.oid}) <=> o \in Held(r.oid)
        OBVIOUS
      <4>1. o \in Reachable({r.oid}) <=> \E t \in {r.oid} : o \in Held(t)
        BY ReachableHeld
      <4> QED BY <4>1
    <3>2. Reachable({r.oid}) = Held(r.oid)
      BY <3>1
    <3> QED BY <1>3, <3>2 DEF Sent
  <2>5. Clean(Sent(r), r.known)
    BY <1>2 DEF GateOK
  <2>6. Sent(r) \subseteq ObjectsUpTo(Len(history))
    BY <1>2, <1>4, HeldIn DEF Sent
  <2>7. PICK objects : objects = Sent(r)
    OBVIOUS
  <2>8. \A p \in gated' : p \in gated \/ p = [objects |-> objects, known |-> r.known]
    BY <2>3, <2>4, <2>7
  <2>9. \A p \in gated' : p \in gated \/ Passes(p)
    BY <2>5, <2>6, <2>7, <2>8 DEF Passes
  <2> QED BY <1>2, <1>6, <2>2, <2>9, GateStep
<1>10. CASE serves[s] # r.remoteOid
  <2>1. UNCHANGED <<serves, everHad, tracking, gated>>
    BY <1>1, <1>8, <1>10 DEF FinishPush
  <2>2. UNCHANGED <<gitVars, known, gated>>
    BY <1>7, <2>1 DEF FinishPush, GitStep, gitVars
  <2> QED BY <1>2, <1>6, <2>2, GateMoves
<1> QED BY <1>9, <1>10

LEMMA BypassPushInv ==
    ASSUME GateInv, NEW r \in DOMAIN ServerOf, BypassPush(r) PROVE GateInv'
<1>1. ServerOf[r] \in Servers /\ r \in PushTargets /\ ServerOf[r] = ServerFor(r)
  BY GateAssumption DEF Servers, PushTargets, ServerFor
<1>2. PICK s \in Servers : s = ServerOf[r]
  BY <1>1
<1>3. PICK oid \in 0..Len(history) : oid = tip
  BY DEF GateInv, FilesOK, HistoryOK
<1>4. Receive(s, r, oid) /\ UNCHANGED <<work, index, history, tip, known, gate, gated>>
  BY <1>2, <1>3 DEF BypassPush, UserStep
<1>5. Grows /\ Remembers /\ FilesOK' /\ RefsOK' /\ HeadTree' = HeadTree
  BY <1>1, <1>2, <1>4, ReceiveKeeps
<1> QED BY <1>4, <1>5, GitMoves

\* What another clone commits on the server's branch the server has.
LEMMA OtherPushesInv ==
    ASSUME GateInv, NEW s \in Servers, NEW c \in FileContents, OtherPushes(s, c) PROVE GateInv'
<1>1. HistoryOK(history) /\ Len(history) \in Nat \ {0} /\ tip \in 1..Len(history)
  BY DEF GateInv, FilesOK, HistoryOK
<1>2. PICK parent \in 0..Len(history) : parent = serves[s] /\ Held(parent) \subseteq everHad[s]
  BY DEF GateInv, RefsOK
<1>3. PICK new \in Nat : new = Len(history) + 1
  BY <1>1
<1>4. /\ NewCommit(parent, c, <<>>) /\ <<>> \in Messages /\ c \in Trees
      /\ UNCHANGED <<work, index, tip, known, tracking, gate, gated>>
      /\ serves' = [serves EXCEPT ![s] = new]
      /\ everHad' = [everHad EXCEPT ![s] = @ \cup {CommitObject(new), Blob(c)}]
  BY <1>2, <1>3 DEF OtherPushes, UserStep, Messages, Trees
<1>5. Grows /\ Len(history') = new /\ history'[new] = [parent |-> parent, tree |-> c, note |-> <<>>]
  BY <1>1, <1>3, <1>4, CommitGrows
<1>6. HeadTree' = HeadTree
  BY <1>1, <1>4, <1>5 DEF HeadTree, Grows, KeptIn
<1>7. tip' \in 1..Len(history')
  BY <1>1, <1>3, <1>4, <1>5
<1>8. FilesOK'
  BY <1>4, <1>5, <1>7, FilesStay DEF GateInv, FilesOK
<1>9. /\ DOMAIN everHad = Servers /\ DOMAIN serves = Servers /\ DOMAIN tracking = DOMAIN ServerOf
      /\ serves = [q \in Servers |-> serves[q]] /\ tracking = [r \in DOMAIN ServerOf |-> tracking[r]]
  BY DEF GateInv, RefsOK
<1>10. /\ DOMAIN everHad' = Servers /\ DOMAIN serves' = Servers /\ DOMAIN tracking' = DOMAIN ServerOf
       /\ serves' = [q \in Servers |-> serves'[q]] /\ tracking' = [r \in DOMAIN ServerOf |-> tracking'[r]]
       /\ serves'[s] = new /\ \A q \in Servers : q # s => serves'[q] = serves[q]
       /\ everHad'[s] = everHad[s] \cup {CommitObject(new), Blob(c)}
       /\ \A q \in Servers : q # s => everHad'[q] = everHad[q]
  BY <1>4, <1>9
<1>11. Remembers
  BY <1>10 DEF Remembers
<1>12. Held(new)' \subseteq everHad'[s] /\ new \in 0..Len(history')
  <2>1. new \in 1..Len(history') /\ new # 0
    BY <1>3, <1>5
  <2>2. HistoryOK(history') /\ Reaches(history', Ancestors')
    BY <1>5, AncestorsReach DEF Grows
  <2>3. Ancestors'[new] = {new} \cup Ancestors'[parent]
    <3>1. new \in 0..Len(history')
      BY <2>1, <1>3, <1>5
    <3>2. Ancestors'[new] = {new} \cup Ancestors'[history'[new].parent]
      BY <2>1, <2>2, <3>1 DEF Reaches
    <3> QED BY <1>5, <3>2
  <2>4. Held(new)' = ObjectsOf(new)' \cup Held(parent)'
    BY <2>3 DEF Held
  <2>5. Held(parent)' = Held(parent)
    BY <1>5, HeldStays
  <2>6. ObjectsOf(new)' \subseteq {CommitObject(new), Blob(c)}
    BY <1>5 DEF ObjectsOf
  <2>7. new \in 0..Len(history')
    BY <1>3, <2>1
  <2> QED BY <1>2, <1>10, <2>4, <2>5, <2>6, <2>7
<1>13. \A q \in Servers : \E n \in 0..Len(history') : serves'[q] = n /\ Held(n)' \subseteq everHad'[q]
  <2> SUFFICES ASSUME NEW q \in Servers
               PROVE  \E n \in 0..Len(history') : serves'[q] = n /\ Held(n)' \subseteq everHad'[q]
    OBVIOUS
  <2>1. CASE q = s
    BY <1>10, <1>12, <2>1
  <2>2. CASE q # s
    <3>1. PICK n \in 0..Len(history') : serves[q] = n /\ Held(n)' \subseteq everHad'[q]
      BY <1>5, <1>11, LedThere
    <3> QED BY <1>10, <2>2, <3>1
  <2> QED BY <2>1, <2>2
<1>14. \A r \in DOMAIN ServerOf : \E n \in 0..Len(history') :
           tracking'[r] = n /\ Held(n)' \subseteq everHad'[ServerOf[r]]
  BY <1>4, <1>5, <1>11, LedThere
<1>15. RefsOK'
  BY <1>5, <1>10, <1>13, <1>14, RefsKept
<1> QED BY <1>4, <1>5, <1>6, <1>8, <1>11, <1>15, GitMoves

\* A ref of the server or of the clone moves to where the server has all.
LEMMA RefMoves ==
    ASSUME GateInv, UNCHANGED <<work, index, history, tip, known, everHad, gate, gated>>,
           serves' = [s \in Servers |-> serves'[s]], tracking' = [r \in DOMAIN ServerOf |-> tracking'[r]],
           \A s \in Servers : serves'[s] \in {serves[s], 0},
           \A r \in DOMAIN ServerOf : tracking'[r] \in {tracking[r], serves[ServerOf[r]]}
    PROVE  GateInv'
<1>1. Grows /\ HistoryOK(history)
  BY SameGrows DEF GateInv, FilesOK
<1>2. HeadTree' = HeadTree /\ FilesOK'
  BY <1>1, FilesStay DEF GateInv, FilesOK, HeadTree
<1>3. Remembers
  BY DEF Remembers, GateInv, RefsOK
<1>4. Held(0)' = {} /\ 0 \in 0..Len(history')
  <2>1. 0 \in 0..Len(history)
    BY <1>1 DEF HistoryOK
  <2>2. Held(0) = {}
    BY <1>1, HeldNothing
  <2>3. Held(0)' = Held(0) /\ 0 \in 0..Len(history')
    BY <1>1, <2>1, HeldStays
  <2> QED BY <2>2, <2>3
<1>5. ASSUME NEW s \in Servers
      PROVE  \E n \in 0..Len(history') : serves'[s] = n /\ Held(n)' \subseteq everHad'[s]
  <2>1. CASE serves'[s] = 0
    BY <1>4, <2>1
  <2>2. CASE serves'[s] = serves[s]
    BY <1>1, <1>3, <2>2, LedThere
  <2> QED BY <2>1, <2>2
<1>6. ASSUME NEW r \in DOMAIN ServerOf
      PROVE  \E n \in 0..Len(history') : tracking'[r] = n /\ Held(n)' \subseteq everHad'[ServerOf[r]]
  <2>1. CASE tracking'[r] = tracking[r]
    BY <1>1, <1>3, <2>1, LedThere
  <2>2. CASE tracking'[r] = serves[ServerOf[r]]
    <3>1. ServerOf[r] \in Servers
      BY DEF Servers
    <3> QED BY <1>1, <1>3, <2>2, <3>1, LedThere
  <2> QED BY <2>1, <2>2
<1>7. DOMAIN everHad' = Servers /\ DOMAIN serves' = Servers /\ DOMAIN tracking' = DOMAIN ServerOf
  BY DEF GateInv, RefsOK
<1>8. RefsOK'
  BY <1>1, <1>5, <1>6, <1>7, RefsKept
<1> QED BY <1>1, <1>2, <1>3, <1>8, GitMoves

LEMMA OtherDeletesInv == ASSUME GateInv, NEW s \in Servers, OtherDeletes(s) PROVE GateInv'
<1>1. serves = [q \in Servers |-> serves[q]] /\ tracking = [r \in DOMAIN ServerOf |-> tracking[r]]
  BY DEF GateInv, RefsOK
<1>2. UNCHANGED <<work, index, history, tip, known, everHad, gate, gated>>
  BY DEF OtherDeletes, UserStep
<1>3. serves' = [serves EXCEPT ![s] = 0] /\ tracking' = tracking
  BY DEF OtherDeletes, UserStep
<1>4. serves' = [q \in Servers |-> serves'[q]] /\ \A q \in Servers : serves'[q] \in {serves[q], 0}
  BY <1>1, <1>3
<1>5. tracking' = [r \in DOMAIN ServerOf |-> tracking'[r]]
      /\ \A r \in DOMAIN ServerOf : tracking'[r] \in {tracking[r], serves[ServerOf[r]]}
  BY <1>1, <1>3
<1> QED BY <1>2, <1>4, <1>5, RefMoves

LEMMA FetchInv == ASSUME GateInv, NEW r \in DOMAIN ServerOf, Fetch(r) PROVE GateInv'
<1>1. serves = [q \in Servers |-> serves[q]] /\ tracking = [q \in DOMAIN ServerOf |-> tracking[q]]
  BY DEF GateInv, RefsOK
<1>2. UNCHANGED <<work, index, history, tip, known, everHad, gate, gated>>
  BY DEF Fetch, UserStep
<1>3. tracking' = [tracking EXCEPT ![r] = serves[ServerOf[r]]] /\ serves' = serves
  BY DEF Fetch, UserStep
<1>4. tracking' = [q \in DOMAIN ServerOf |-> tracking'[q]]
      /\ \A q \in DOMAIN ServerOf : tracking'[q] \in {tracking[q], serves[ServerOf[q]]}
  BY <1>1, <1>3
<1>5. serves' = [q \in Servers |-> serves'[q]] /\ \A q \in Servers : serves'[q] \in {serves[q], 0}
  BY <1>1, <1>3
<1> QED BY <1>2, <1>4, <1>5, RefMoves

LEMMA UserInv ==
    ASSUME GateInv, \/ \E c \in FileContents \cup {NoContents} : EditFile(c)
                    \/ Stage
                    \/ VaultMoves
    PROVE  GateInv'
<1>1. work \in FileContents \cup {NoContents} /\ index \in Trees /\ known \in SUBSET DOMAIN SecretItems
      /\ FileContents \cup {NoContents} \subseteq Trees
  BY DEF GateInv, FilesOK, Trees
<1>2. CASE \E c \in FileContents \cup {NoContents} : EditFile(c)
  <2>1. work' \in FileContents \cup {NoContents}
    BY <1>2 DEF EditFile
  <2> QED BY <1>1, <1>2, <2>1, QuietInv DEF EditFile, UserStep
<1>3. CASE Stage
  BY <1>1, <1>3, QuietInv DEF Stage, UserStep
<1>4. CASE VaultMoves
  <2>1. UNCHANGED <<work, index, history, tip, serves, everHad, tracking, gate, gated>>
    BY <1>4 DEF VaultMoves, UserStep, gitVars
  <2>2. known' \in SUBSET DOMAIN SecretItems
    BY <1>1, <1>4 DEF VaultMoves
  <2> QED BY <1>1, <2>1, <2>2, QuietInv
<1> QED BY <1>2, <1>3, <1>4

-----------------------------------------------------------------------------

LEMMA InitGateInv == GateInit => GateInv
<1> SUFFICES ASSUME GateInit PROVE GateInv
  OBVIOUS
<1>1. PICK c \in FileContents : work = c
  BY DEF GateInit
<1>2. /\ history = <<[parent |-> 0, tree |-> c, note |-> <<>>]>>
      /\ Len(history) = 1 /\ history[1] = [parent |-> 0, tree |-> c, note |-> <<>>]
  BY <1>1 DEF GateInit
<1>3. HistoryOK(history)
  <2>1. [parent |-> 0, tree |-> c, note |-> <<>>] \in CommitRecords
    BY DEF CommitRecords, Trees, Messages
  <2>2. history \in Seq(CommitRecords)
    BY <1>2, <2>1
  <2>3. \A n \in 1..Len(history) : history[n].parent < n
    BY <1>2
  <2> QED BY <1>2, <2>2, <2>3 DEF HistoryOK
<1>4. FilesOK
  BY <1>1, <1>2, <1>3 DEF GateInit, FilesOK, Trees
<1>5. Held(0) = {}
  BY <1>3, HeldNothing
<1>6. \A s \in Servers : serves[s] = 0 /\ everHad[s] = {}
  BY DEF GateInit
<1>7. \A r \in DOMAIN ServerOf : tracking[r] = 0
  BY DEF GateInit
<1>8. 0 \in 0..Len(history)
  BY <1>2
<1>9. RefsOK
  <2>1. serves \in [Servers -> 0..Len(history)] /\ tracking \in [DOMAIN ServerOf -> 0..Len(history)]
        /\ DOMAIN everHad = Servers
    BY <1>8 DEF GateInit
  <2>2. \A s \in Servers : Held(serves[s]) = {}
    BY <1>5, <1>6
  <2>3. \A r \in DOMAIN ServerOf : Held(tracking[r]) = {}
    BY <1>5, <1>7
  <2> QED BY <2>1, <2>2, <2>3 DEF RefsOK
<1>10. GatesOK
  BY <1>3, NoGateOK DEF GateInit, GatesOK
<1> QED BY <1>4, <1>9, <1>10 DEF GateInv, GateInit

LEMMA NextGateInv == GateInv /\ [GateNext]_gateVars => GateInv'
<1> SUFFICES ASSUME GateInv, [GateNext]_gateVars PROVE GateInv'
  OBVIOUS
<1>1. CASE UNCHANGED gateVars
  <2>1. UNCHANGED <<work, index, history, tip, serves, everHad, tracking, known, gate, gated>>
    BY <1>1 DEF gateVars
  <2> QED BY <2>1, QuietInv DEF GateInv, FilesOK
<1>2. CASE (\E c \in FileContents \cup {NoContents} : EditFile(c)) \/ Stage \/ VaultMoves
  BY <1>2, UserInv
<1>3. CASE \E active \in {index, work, Submodule} : BeginCommit(active)
  BY <1>3, BeginCommitInv
<1>4. CASE \E amend \in BOOLEAN, m \in Notes : FinishCommit(amend, m) \/ BypassCommit(amend, m)
  BY <1>4, FinishCommitInv, BypassCommitInv
<1>5. CASE \E t \in DOMAIN ServerOf \cup Servers, delete \in BOOLEAN : BeginPush(t, delete)
  BY <1>5, BeginPushInv DEF PushTargets
<1>6. CASE FinishPush \/ \E r \in DOMAIN ServerOf : BypassPush(r) \/ Fetch(r)
  BY <1>6, FinishPushInv, BypassPushInv, FetchInv
<1>7. CASE \E s \in Servers : OtherDeletes(s) \/ \E c \in FileContents : OtherPushes(s, c)
  BY <1>7, OtherDeletesInv, OtherPushesInv
<1>8. CASE \E override \in BOOLEAN : checkRepo(override)
  BY <1>8, CheckBegins
<1>9. CASE \E g \in {"commit", "push"} :
              SavedHookFails(g) \/ \E to \in FileContents \cup {gate[g].active} : RunSavedHook(g, to)
  BY <1>9, SavedHookInv, RefuseInv DEF SavedHookFails, Ops
<1>10. CASE \E g \in Ops : openVault(g) \/ ReadFails(g)
  BY <1>10, OpenVaultInv, RefuseInv DEF ReadFails
<1>11. CASE scanStagedObjects \/ ScanOutgoing \/ Enumerate \/ Scan
  BY <1>11, ScanStagedInv, ScanOutgoingInv, EnumerateInv, ScanInv
<1> QED BY <1>1, <1>2, <1>3, <1>4, <1>5, <1>6, <1>7, <1>8, <1>9, <1>10, <1>11 DEF GateNext

\* Servers have had what their branches and the refs that track them lead to,
\* and what passed a gate is clean, for any number of commits, gates, users'
\* steps, remotes and items (ScanOutgoing, scanStagedObjects).
THEOREM GatesInvariant == GateSpec => []GateInv
BY InitGateInv, NextGateInv, PTL DEF GateSpec

\* No object that a gate lets into a commit or out to a server that never had
\* it holds a managed value that the vault held when the check opened it,
\* whatever the users, other clones and the vault do while the hook runs and
\* in however many chunks a source is read (checkRepoCommandWithInput,
\* matchReader).
THEOREM NothingManagedPasses == GateSpec => []NoManagedValuePasses
<1>1. GateInv => NoManagedValuePasses
  BY DEF GateInv, Passes, Clean, NoManagedValuePasses
<1> QED BY <1>1, GatesInvariant, PTL
==============================================================================
