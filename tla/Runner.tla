------------------------------- MODULE Runner -------------------------------
(***************************************************************************)
(* internal/runner: a brokered command with its private directory of       *)
(* credential files, the sweep of directories that crashed runs left, and  *)
(* the pseudo terminal.                                                    *)
(*                                                                         *)
(* Runs are in processes of their own that share the inject directory.  A  *)
(* run directory is guarded by a flock on its file .active; the lock is on *)
(* the inode, so the file has a generation.                                *)
(***************************************************************************)
EXTENDS Naturals, FiniteSets

CONSTANTS
    Runners,      \* processes that execute a command, one command each
    Threshold,    \* staleRunDirThreshold
    Output,       \* bytes a command writes to its terminal
    MaxHours,     \* bound: ticks of the clock
    MaxDeaths     \* bound: crashes

ASSUME RunnerAssumption ==
    /\ Threshold \in Nat \ {0} /\ Output \in Nat /\ MaxHours \in Nat /\ MaxDeaths \in Nat

VARIABLES
    hours,
    runDir,     \* the directory each runner made, by its random name
    flocks,     \* <<d, generation, r>>: r holds the lock on that .active
    legacy,     \* flat credential files of older versions
    runner,     \* where each runner is
    deaths

runnerVars == <<hours, runDir, flocks, legacy, runner, deaths>>

NoDir == [there |-> FALSE, mod |-> 0, active |-> 0, gens |-> 0, files |-> {}]
Fresh == [at |-> "sweep", todo |-> {}, dir |-> "", gen |-> 0, tty |-> FALSE,
          made |-> 0, copied |-> 0, cut |-> FALSE]

Go(r, step) == runner' = [runner EXCEPT ![r].at = step]
HeldBy(d) == {f[3] : f \in {g \in flocks : g[1] = d /\ g[2] = runDir[d].active}}

\* The directory's modification time moves with every entry made or removed.
Touch(d, rec) == [rec EXCEPT !.mod = hours]

-----------------------------------------------------------------------------
(* cleanupStaleInjectedFiles *)

Sweep(r) ==
    /\ runner[r].at = "sweep"
    /\ legacy' = {}
    /\ runner' = [runner EXCEPT ![r].at = "look", ![r].todo = {d \in Runners : runDir[d].there}]
    /\ UNCHANGED <<hours, runDir, flocks, deaths>>

stale(d) == runDir[d].there /\ runDir[d].mod + Threshold <= hours

\* Stat: a directory that is gone, or young, is passed over.
Look(r) ==
    /\ runner[r].at = "look"
    /\ IF runner[r].todo = {} THEN Go(r, "mkdir")
       ELSE \E d \in runner[r].todo :
                runner' = [runner EXCEPT ![r].todo = @ \ {d}, ![r].dir = d,
                                         ![r].at = IF stale(d) THEN "grab" ELSE "look"]
    /\ UNCHANGED <<hours, runDir, flocks, legacy, deaths>>

\* Opening .active with O_CREATE: the generation it has, or a new one.
Opened(d) == IF runDir[d].active # 0 THEN runDir[d].active ELSE runDir[d].gens + 1

OpenActive(r, d, next, missing) ==
    /\ IF ~runDir[d].there THEN missing /\ UNCHANGED runDir
       ELSE /\ runDir' = [runDir EXCEPT ![d] =
                  IF runDir[d].active # 0 THEN @
                  ELSE Touch(d, [@ EXCEPT !.active = Opened(d), !.gens = Opened(d)])]
            /\ runner' = [runner EXCEPT ![r].at = next, ![r].gen = Opened(d)]

\* flock with LOCK_NB on the inode that was opened.
TryFlock_Shared(d, gen) == TRUE

TryFlock(d, gen) == ~\E f \in flocks : f[1] = d /\ f[2] = gen

SweepOpen(r) ==
    /\ runner[r].at = "grab"
    /\ OpenActive(r, runner[r].dir, "flock", Go(r, "look"))
    /\ UNCHANGED <<hours, flocks, legacy, deaths>>

SweepLock(r) ==
    LET d == runner[r].dir IN
    /\ runner[r].at = "flock"
    /\ IF TryFlock(d, runner[r].gen)
       THEN flocks' = flocks \cup {<<d, runner[r].gen, r>>} /\ Go(r, "empty")
       ELSE Go(r, "look") /\ UNCHANGED flocks
    /\ UNCHANGED <<hours, runDir, legacy, deaths>>

\* os.RemoveAll: the entries, then the directory; entries made in between send
\* it round again.
Empty(r) ==
    LET d == runner[r].dir IN
    /\ runner[r].at = "empty"
    /\ runDir' = [runDir EXCEPT ![d] =
           IF @.there THEN Touch(d, [@ EXCEPT !.active = 0, !.files = {}]) ELSE @]
    /\ Go(r, "rmdir")
    /\ UNCHANGED <<hours, flocks, legacy, deaths>>

RmDir(r) ==
    LET d == runner[r].dir IN
    /\ runner[r].at = "rmdir"
    /\ IF runDir[d].there /\ (runDir[d].active # 0 \/ runDir[d].files # {})
       THEN Go(r, "empty") /\ UNCHANGED runDir
       ELSE Go(r, "release") /\ runDir' = [runDir EXCEPT ![d].there = FALSE]
    /\ UNCHANGED <<hours, flocks, legacy, deaths>>

Release(r) ==
    /\ runner[r].at = "release"
    /\ flocks' = {f \in flocks : ~(f[1] = runner[r].dir /\ f[3] = r)}
    /\ Go(r, IF runner[r].dir = r THEN "ended" ELSE "look")
    /\ UNCHANGED <<hours, runDir, legacy, deaths>>

-----------------------------------------------------------------------------
(* prepareRunInjectDir and writeInjectedFile *)

MakeDir(r) ==
    /\ runner[r].at = "mkdir"
    /\ runDir' = [runDir EXCEPT ![r] = [@ EXCEPT !.there = TRUE, !.mod = hours]]
    /\ runner' = [runner EXCEPT ![r].at = "open", ![r].dir = r]
    /\ UNCHANGED <<hours, flocks, legacy, deaths>>

\* A directory that is gone ends the run.
OwnOpen(r) ==
    /\ runner[r].at = "open"
    /\ OpenActive(r, r, "own", Go(r, "ended"))
    /\ UNCHANGED <<hours, flocks, legacy, deaths>>

OwnLock(r) ==
    /\ runner[r].at = "own"
    /\ IF TryFlock(r, runner[r].gen)
       THEN flocks' = flocks \cup {<<r, runner[r].gen, r>>} /\ Go(r, "files")
       ELSE Go(r, "ended") /\ UNCHANGED flocks
    /\ UNCHANGED <<hours, runDir, legacy, deaths>>

\* An injected file; when it cannot be made the run ends and is cleaned up.
writeInjectedFile(r) ==
    /\ runner[r].at = "files"
    /\ \/ /\ runDir[r].there
          /\ runDir' = [runDir EXCEPT ![r] = Touch(r, [@ EXCEPT !.files = {"key"}])]
          /\ Go(r, "start")
       \/ Go(r, "empty") /\ UNCHANGED runDir
    /\ UNCHANGED <<hours, flocks, legacy, deaths>>

-----------------------------------------------------------------------------
(* The command *)

Start(r) ==
    /\ runner[r].at = "start"
    /\ \/ \E tty \in BOOLEAN : runner' = [runner EXCEPT ![r].at = "running", ![r].tty = tty]
       \/ Go(r, "empty")
    /\ UNCHANGED <<hours, runDir, flocks, legacy, deaths>>

\* The command writes; the copy of the terminal's master follows on its own.
Child(r) ==
    /\ runner[r].at = "running" /\ runner[r].made < Output
    /\ runner' = [runner EXCEPT ![r].made = @ + 1]
    /\ UNCHANGED <<hours, runDir, flocks, legacy, deaths>>

Copy(r) ==
    /\ runner[r].at \in {"running", "drain"} /\ runner[r].tty /\ runner[r].copied < runner[r].made
    /\ runner' = [runner EXCEPT ![r].copied = @ + 1]
    /\ UNCHANGED <<hours, runDir, flocks, legacy, deaths>>

\* The command exits, or the context ends and its process group is killed.
CommandEnds(r) ==
    /\ runner[r].at = "running"
    /\ Go(r, IF runner[r].tty THEN "drain" ELSE "empty")
    /\ UNCHANGED <<hours, runDir, flocks, legacy, deaths>>

\* The copy has reached the end of what the terminal holds.
pumped(r) == runner[r].copied = runner[r].made

\* Either the copy is done, or ptyDrainTimeout passes while a process the
\* command left behind keeps the terminal open, and the master is closed.
Drain(r) ==
    /\ runner[r].at = "drain"
    /\ \/ pumped(r) /\ Go(r, "empty")
       \/ runner' = [runner EXCEPT ![r].at = "empty", ![r].cut = TRUE]
    /\ UNCHANGED <<hours, runDir, flocks, legacy, deaths>>

\* A runner is killed: its locks go with it, its files stay.
Die(r) ==
    /\ runner[r].at \notin {"ended", "dead"} /\ deaths < MaxDeaths
    /\ deaths' = deaths + 1
    /\ flocks' = {f \in flocks : f[3] # r}
    /\ Go(r, "dead")
    /\ UNCHANGED <<hours, runDir, legacy>>

\* Nobody is held up for as long as Threshold between making a directory and
\* holding its lock: the one thing the age of a directory is relied on for.
Hour ==
    /\ hours < MaxHours
    /\ \A r \in Runners : runner[r].at \in {"open", "own"} => hours + 1 < runDir[r].mod + Threshold
    /\ hours' = hours + 1
    /\ UNCHANGED <<runDir, flocks, legacy, runner, deaths>>

-----------------------------------------------------------------------------
RunnerInit ==
    /\ hours = 0
    /\ runDir = [d \in Runners |-> NoDir]
    /\ flocks = {} /\ legacy = {"hasp-1"}
    /\ runner = [r \in Runners |-> Fresh]
    /\ deaths = 0

Progress(r) ==
    \/ Sweep(r) \/ Look(r) \/ SweepOpen(r) \/ SweepLock(r) \/ Empty(r) \/ RmDir(r) \/ Release(r)
    \/ MakeDir(r) \/ OwnOpen(r) \/ OwnLock(r) \/ writeInjectedFile(r) \/ Start(r)
    \/ Child(r) \/ Copy(r) \/ CommandEnds(r) \/ Drain(r)

RunnerNext == (\E r \in Runners : Progress(r) \/ Die(r)) \/ Hour

RunnerSpec == RunnerInit /\ [][RunnerNext]_runnerVars

-----------------------------------------------------------------------------
(* Properties *)

\* A command finds its credential file as long as it runs, whatever sweeps the
\* other commands make and however long it takes; and all that it wrote to its
\* terminal is delivered before the result, unless the timeout cut it off.
CommandServed ==
    \A r \in Runners :
        /\ runner[r].at \in {"start", "running", "drain"} =>
            runDir[r].there /\ runDir[r].files = {"key"}
        /\ runner[r].at = "ended" /\ runner[r].tty /\ ~runner[r].cut =>
            runner[r].copied = runner[r].made
=============================================================================
