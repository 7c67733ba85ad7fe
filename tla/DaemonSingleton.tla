--------------------------- MODULE DaemonSingleton ---------------------------
(***************************************************************************)
(* Starting, running and stopping the daemon: Manager.EnsureDaemon,        *)
(* Manager.RunDaemon and acquireSingletonLock (runtime/server.go),         *)
(* stopDetachedProcess (runtime/process_unix.go) and the files the HTTP    *)
(* server keeps (httpapi/server.go).                                       *)
(*                                                                         *)
(* Processes share one runtime directory: the lock file (an flock, dropped *)
(* by the kernel when its holder dies), the RPC socket, the pid file, the  *)
(* HTTP port file and the HTTP socket.  A file is represented by the       *)
(* daemon that created it; a socket whose creator no longer listens is a   *)
(* leftover.  Every system call on a shared file is a step of its own.     *)
(***************************************************************************)
EXTENDS Naturals

CONSTANTS
    Daemons,   \* processes that may run `hasp daemon serve', each once
    Clients,   \* callers of EnsureDaemon
    Stoppers,  \* callers of `hasp daemon stop'
    NoFile,    \* the file does not exist, or the lock is free
    Crashes    \* bound on the number of processes killed outright

ASSUME DaemonAssumption == NoFile \notin Daemons /\ Crashes \in Nat

VARIABLES
    pc,        \* daemon -> where it is in RunDaemon
    tail,      \* daemon -> deferred removals HTTP Serve has still to run
    told,      \* daemon -> it received SIGTERM
    lock,      \* the daemon that holds the singleton lock
    sock,      \* the RPC socket
    pidfile,   \* the pid file
    port,      \* the HTTP port file
    hsock,     \* the HTTP socket
    client,    \* client -> where it is in EnsureDaemon
    stopper,   \* stopper -> [at, pid]
    crashes    \* processes killed so far

files == <<sock, pidfile, port, hsock>>
vars  == <<pc, tail, told, lock, sock, pidfile, port, hsock, client, stopper, crashes>>

\* pc takes the steps of RunDaemon in this order: unborn, starting, locked,
\* clean, bound, owner, pidded, hbound, serving, stopping, httpClosed, noHTTP,
\* pidRemoved, unlinked, released, gone.

Alive(d)     == pc[d] \notin {"unborn", "gone"}
Listening(d) == pc[d] \in {"bound", "owner", "pidded", "hbound", "serving",
                           "stopping", "httpClosed", "noHTTP", "pidRemoved"}

\* socketHasListener, and a Dial that is answered
HasListener == sock # NoFile /\ Listening(sock)

\* verifyDaemon: the listener answers Ping and Status.
Serving(d) == pc[d] = "serving"

-----------------------------------------------------------------------------
(* RunDaemon *)

Goto(d, s) == pc' = [pc EXCEPT ![d] = s]

\* acquireSingletonLock takes the lock,
TakeLock(d) ==
    /\ pc[d] = "starting" /\ lock = NoFile
    /\ lock' = d
    /\ Goto(d, "locked")
    /\ UNCHANGED <<tail, told, files, client, stopper, crashes>>

\* or gives up: at once when somebody serves the socket, with an error when
\* the wait for a holder that serves nothing runs out.
LoseLock(d) ==
    /\ pc[d] = "starting" /\ lock # NoFile
    /\ Goto(d, "gone")
    /\ UNCHANGED <<tail, told, lock, files, client, stopper, crashes>>

RemoveStaleSocket_Unchecked(d) ==
    /\ pc[d] \in {"starting", "locked"}
    /\ Goto(d, IF pc[d] = "locked" THEN "clean" ELSE "gone")
    /\ sock' = NoFile
    /\ UNCHANGED <<tail, told, lock, pidfile, port, hsock, client, stopper, crashes>>

\* removeStaleSocket: refuses a socket with a live listener.
RemoveStaleSocket(d) ==
    /\ pc[d] = "locked"
    /\ IF HasListener
       THEN Goto(d, "unlinked") /\ UNCHANGED sock
       ELSE Goto(d, "clean") /\ sock' = NoFile
    /\ UNCHANGED <<tail, told, lock, pidfile, port, hsock, client, stopper, crashes>>

Listen(d) ==
    /\ pc[d] = "clean"
    /\ IF sock # NoFile THEN Goto(d, "unlinked") /\ UNCHANGED sock
                        ELSE Goto(d, "bound") /\ sock' = d
    /\ UNCHANGED <<tail, told, lock, pidfile, port, hsock, client, stopper, crashes>>

\* statSocketIdentity and chmod: both need the socket still to be there.
RecordIdentity(d) ==
    /\ pc[d] = "bound"
    /\ Goto(d, IF sock = d THEN "owner" ELSE "pidRemoved")
    /\ UNCHANGED <<tail, told, lock, files, client, stopper, crashes>>

WritePid(d) ==
    /\ pc[d] = "owner"
    /\ pidfile' = d
    /\ Goto(d, "pidded")
    /\ UNCHANGED <<tail, told, lock, sock, port, hsock, client, stopper, crashes>>

\* startHTTPServer -> NewServer: replace whatever is at the HTTP socket's
\* path, then create the port file exclusively; a leftover one is an error.
\* No key or no free port is one as well.
BindHTTP(d) ==
    /\ pc[d] = "pidded"
    /\ \/ hsock' = d /\ Goto(d, "hbound")
       \/ Goto(d, "noHTTP") /\ UNCHANGED hsock
    /\ UNCHANGED <<tail, told, lock, sock, pidfile, port, client, stopper, crashes>>

WritePort(d) ==
    /\ pc[d] = "hbound"
    /\ IF port = NoFile
       THEN /\ port' = d
            /\ Goto(d, "serving")
            /\ tail' = [tail EXCEPT ![d] = 2]
            /\ UNCHANGED hsock
       ELSE /\ hsock' = NoFile
            /\ Goto(d, "noHTTP")
            /\ UNCHANGED <<port, tail>>
    /\ UNCHANGED <<told, lock, sock, pidfile, client, stopper, crashes>>

\* The select of RunDaemon: cancelled by SIGTERM, or watchSocketOwnership
\* found that the path is no longer the socket this daemon bound.
BeginStop(d) ==
    /\ pc[d] = "serving" /\ told[d]
    /\ Goto(d, "stopping")
    /\ UNCHANGED <<tail, told, lock, files, client, stopper, crashes>>

LostSocket_Unwatched(d) ==
    /\ FALSE
    /\ UNCHANGED vars

LostSocket(d) ==
    /\ pc[d] = "serving" /\ sock # d
    /\ Goto(d, "stopping")
    /\ UNCHANGED <<tail, told, lock, files, client, stopper, crashes>>

\* A listener fails: errCh.
ServeFails(d) ==
    /\ Serving(d)
    /\ Goto(d, "stopping")
    /\ UNCHANGED <<tail, told, lock, files, client, stopper, crashes>>

\* The deferred calls, last registered first.  httpServer.Close removes the
\* port file if it is its own, and the HTTP socket.
CloseHTTP(d) ==
    /\ pc[d] = "stopping"
    /\ port' = IF port = d THEN NoFile ELSE port
    /\ hsock' = NoFile
    /\ Goto(d, "httpClosed")
    /\ UNCHANGED <<tail, told, lock, sock, pidfile, client, stopper, crashes>>

RemovePid(d) ==
    /\ pc[d] \in {"httpClosed", "noHTTP"}
    /\ pidfile' = IF pidfile = d THEN NoFile ELSE pidfile
    /\ Goto(d, "pidRemoved")
    /\ UNCHANGED <<tail, told, lock, sock, port, hsock, client, stopper, crashes>>

\* Closing a Go unix listener unlinks the path it was bound to; the
\* ownership check that follows then finds nothing of its own left.
CloseListener(d) ==
    /\ pc[d] = "pidRemoved"
    /\ sock' = NoFile
    /\ Goto(d, "unlinked")
    /\ UNCHANGED <<tail, told, lock, pidfile, port, hsock, client, stopper, crashes>>

ReleaseLock_First(d) ==
    /\ pc[d] \in {"unlinked", "pidRemoved"}
    /\ lock' = NoFile
    /\ IF pc[d] = "unlinked" THEN Goto(d, "released") ELSE UNCHANGED pc
    /\ UNCHANGED <<tail, told, files, client, stopper, crashes>>

ReleaseLock(d) ==
    /\ pc[d] = "unlinked"
    /\ lock' = NoFile
    /\ Goto(d, "released")
    /\ UNCHANGED <<tail, told, files, client, stopper, crashes>>

Exit(d) ==
    /\ pc[d] = "released"
    /\ Goto(d, "gone")
    /\ UNCHANGED <<tail, told, lock, files, client, stopper, crashes>>

\* The goroutine that runs httpapi's Serve notices the close on its own time
\* and repeats the removals: first the HTTP socket, then its own port file.
ServeReturns(d) ==
    /\ Alive(d) /\ tail[d] > 0
    /\ pc[d] \in {"httpClosed", "pidRemoved", "unlinked", "released"}
    /\ tail' = [tail EXCEPT ![d] = @ - 1]
    /\ IF tail[d] = 2
       THEN hsock' = NoFile /\ UNCHANGED port
       ELSE port' = (IF port = d THEN NoFile ELSE port) /\ UNCHANGED hsock
    /\ UNCHANGED <<pc, told, lock, sock, pidfile, client, stopper, crashes>>

\* Nothing deferred runs for a process that is killed outright; the kernel
\* closes its listeners and drops its lock.
Killed(d) ==
    /\ Goto(d, "gone")
    /\ lock' = IF lock = d THEN NoFile ELSE lock

Crash(d) ==
    /\ Alive(d) /\ crashes < Crashes
    /\ crashes' = crashes + 1
    /\ Killed(d)
    /\ UNCHANGED <<tail, told, files, client, stopper>>

-----------------------------------------------------------------------------
(* EnsureDaemon *)

ClientAt(c, s) == client' = [client EXCEPT ![c] = s]

\* Dial and verifyDaemon.  A busy daemon may miss the caller's window, so a
\* failed dial proves nothing; a listener that is there without identifying
\* itself in time (starting, stopping, busy) is left alone.
Dial(c) ==
    /\ client[c] = "idle"
    /\ \/ HasListener /\ Serving(sock) /\ ClientAt(c, "done")
       \/ HasListener /\ ClientAt(c, "refused")
       \/ ClientAt(c, "undialed")
    /\ UNCHANGED <<pc, tail, told, lock, files, stopper, crashes>>

Reprobe(c) ==
    /\ client[c] = "undialed"
    /\ ClientAt(c, IF HasListener THEN "waiting" ELSE "removing")
    /\ UNCHANGED <<pc, tail, told, lock, files, stopper, crashes>>

RemoveSocket(c) ==
    /\ client[c] = "removing"
    /\ sock' = NoFile
    /\ ClientAt(c, "removingPort")
    /\ UNCHANGED <<pc, tail, told, lock, pidfile, port, hsock, stopper, crashes>>

RemoveSidecar(c) ==
    /\ \/ /\ client[c] = "removingPort"
          /\ port' = NoFile /\ UNCHANGED hsock
          /\ ClientAt(c, "removingHSock")
       \/ /\ client[c] = "removingHSock"
          /\ hsock' = NoFile /\ UNCHANGED port
          /\ ClientAt(c, "spawning")
    /\ UNCHANGED <<pc, tail, told, lock, sock, pidfile, stopper, crashes>>

Spawn(c, d) ==
    /\ client[c] = "spawning" /\ pc[d] = "unborn"
    /\ Goto(d, "starting")
    /\ ClientAt(c, "waiting")
    /\ UNCHANGED <<tail, told, lock, files, stopper, crashes>>

\* waitForDaemon: success, or the startup budget runs out.
Wait(c) ==
    /\ client[c] = "waiting"
    /\ \/ HasListener /\ Serving(sock) /\ ClientAt(c, "done")
       \/ ClientAt(c, "timeout")
    /\ UNCHANGED <<pc, tail, told, lock, files, stopper, crashes>>

\* StartDaemon, or a supervisor: `hasp daemon serve' without EnsureDaemon.
StartDaemon(d) ==
    /\ pc[d] = "unborn"
    /\ Goto(d, "starting")
    /\ UNCHANGED <<tail, told, lock, files, client, stopper, crashes>>

-----------------------------------------------------------------------------
(* stopDetachedProcess *)

StopperAt(s, at, pid) == stopper' = [stopper EXCEPT ![s] = [at |-> at, pid |-> pid]]

ReadPid(s) ==
    /\ stopper[s].at = "idle"
    /\ StopperAt(s, IF pidfile = NoFile THEN "failed" ELSE "read", pidfile)
    /\ UNCHANGED <<pc, tail, told, lock, files, client, crashes>>

\* verifyDaemonPID asks the listener at the socket for its pid; on a match
\* the process is signalled.  Without one, or without an answer in time, the
\* pid file goes.
Signal(s) ==
    LET pid == stopper[s].pid IN
    /\ stopper[s].at = "read"
    /\ \/ /\ sock = pid /\ Serving(pid)
          /\ told' = [told EXCEPT ![pid] = TRUE]
          /\ StopperAt(s, "signalled", pid)
          /\ UNCHANGED pidfile
       \/ /\ pidfile' = NoFile
          /\ StopperAt(s, "failed", pid)
          /\ UNCHANGED told
    /\ UNCHANGED <<pc, tail, lock, sock, port, hsock, client, crashes>>

\* A daemon that takes longer than daemonStopTimeout is killed.
Kill(s) ==
    /\ stopper[s].at = "signalled" /\ Alive(stopper[s].pid)
    /\ Killed(stopper[s].pid)
    /\ UNCHANGED <<tail, told, files, client, stopper, crashes>>

\* waitForProcessExit, then the pid file is removed.
AwaitExit(s) ==
    /\ stopper[s].at = "signalled" /\ ~Alive(stopper[s].pid)
    /\ pidfile' = NoFile
    /\ StopperAt(s, "done", stopper[s].pid)
    /\ UNCHANGED <<pc, tail, told, lock, sock, port, hsock, client, crashes>>

-----------------------------------------------------------------------------
Init ==
    /\ pc = [d \in Daemons |-> "unborn"]
    /\ tail = [d \in Daemons |-> 0]
    /\ told = [d \in Daemons |-> FALSE]
    /\ lock = NoFile
    /\ sock = NoFile /\ pidfile = NoFile /\ port = NoFile /\ hsock = NoFile
    /\ client = [c \in Clients |-> "idle"]
    /\ stopper = [s \in Stoppers |-> [at |-> "idle", pid |-> NoFile]]
    /\ crashes = 0

Run(d) == \/ TakeLock(d) \/ LoseLock(d) \/ RemoveStaleSocket(d) \/ Listen(d)
          \/ RecordIdentity(d) \/ WritePid(d) \/ BindHTTP(d) \/ WritePort(d)
          \/ BeginStop(d) \/ LostSocket(d) \/ CloseHTTP(d) \/ RemovePid(d)
          \/ CloseListener(d) \/ ReleaseLock(d) \/ Exit(d)

DaemonStep(d) == Run(d) \/ ServeReturns(d)

ClientStep(c) == \/ Dial(c) \/ Reprobe(c) \/ RemoveSocket(c) \/ RemoveSidecar(c)
                 \/ Wait(c) \/ \E d \in Daemons : Spawn(c, d)

StopperStep(s) == ReadPid(s) \/ Signal(s) \/ Kill(s) \/ AwaitExit(s)

Next == \/ \E d \in Daemons : DaemonStep(d) \/ StartDaemon(d) \/ ServeFails(d) \/ Crash(d)
        \/ \E c \in Clients : ClientStep(c)
        \/ \E s \in Stoppers : StopperStep(s)

\* The scheduler keeps running a daemon that can move, and its ownership
\* watch fires every socketOwnershipCheckInterval.
Spec == Init /\ [][Next]_vars /\ \A d \in Daemons : WF_vars(Run(d))

-----------------------------------------------------------------------------
(* Properties *)

\* One daemon at a time: a process listens on the RPC socket only while it
\* holds the singleton lock, whatever clients unlink and whoever crashes.
ListenerHoldsLock == \A d \in Daemons : Listening(d) => lock = d

\* The files lead to the daemon that serves: the pid file names it or nobody,
\* so that `hasp daemon stop' signals the right process, and no daemon, starting
\* or stopping, removes the RPC socket or the pid file of another one that runs.
FilesLeadToServer ==
    /\ [](\A d \in Daemons : Serving(d) => pidfile \in {d, NoFile})
    /\ [][\A d, e \in Daemons : DaemonStep(d) /\ e # d /\ Listening(e) =>
              /\ sock = e => sock' = e
              /\ pidfile = e => pidfile' = e]_vars

\* A stranded daemon does not stay: once its socket is gone it shuts down
\* and gives the lock up, so that the next start can succeed.
StrandedLeaves ==
    \A d \in Daemons : (Serving(d) /\ sock # d) ~> (lock # d)
=============================================================================
