------------------------------ MODULE JobStore ------------------------------
(***************************************************************************)
(* Long-running jobs: jobStore of runtime/jobs.go.                         *)
(*                                                                         *)
(* A client names a job by an id it keeps for retries.  The daemon         *)
(* reserves a receipt for the id on disk before it launches the command    *)
(* and replaces it by the final one when the command ends, so that neither *)
(* a lost answer nor a crash makes a retry launch the command again.       *)
(*                                                                         *)
(* op is the call that holds s.mu (there is at most one); a job in         *)
(* "persist" or "sync" holds its own mutex.  The receipt of a job is what  *)
(* a read returns, disk is what a loss of power leaves.                    *)
(***************************************************************************)
EXTENDS Naturals, FiniteSets

CONSTANTS
    Ids,        \* job ids: JobID(root, requestID)
    Commands,   \* request fingerprints
    None,       \* no receipt, no job, no call, no answer
    MaxActive,  \* maxActiveJobs
    MaxCrashes  \* bound on crashes and losses of power

Finals   == {"completed", "failed", "cancelled"}
Receipts == [state: {"torn", "running"} \cup Finals, cmd: Commands]
Calls    == [kind: {"start", "get", "cancel"}, id: Ids, cmd: Commands,
             at: {"check", "create", "write", "syncdir"}]
Jobs     == [state: {"running"} \cup Finals, cmd: Commands, cancelled: BOOLEAN,
             at: {"child", "persist", "sync", "remove", "done"}]
States   == {"running", "interrupted"} \cup Finals
Records  == [state: {"torn"} \cup States, cmd: Commands]

ASSUME JobAssumption ==
    /\ MaxActive \in Nat \ {0} /\ MaxCrashes \in Nat
    /\ None \notin Records \cup Calls \cup Jobs \cup States

VARIABLES
    up,        \* the daemon runs
    closed,    \* s.closed: stop has begun
    op,        \* the call inside s.mu, or None
    active,    \* s.active: id -> job or None
    waiting,   \* the jobs stop waits for
    receipt,   \* id -> the receipt file as seen through the file system
    disk,      \* id -> the receipt a loss of power leaves
    crashes,
    launches,  \* history: id -> how often its command was launched
    told,      \* history: id -> the state last answered
    unsaved    \* history: jobs whose final receipt was not saved to the last
               \* step, the sync of the directory

vars == <<up, closed, op, active, waiting, receipt, disk, crashes,
          launches, told, unsaved>>

daemon  == <<up, closed, waiting, crashes>>
history == <<launches, told, unsaved>>

\* What an atomic section of a job excludes: job.mu is held while the final
\* receipt is written.
JobMuFree_Never(id) == TRUE

JobMuFree(id) == active[id] # None => active[id].at \in {"child", "remove", "done"}

\* getLocked: the job if it is active, else its receipt; a receipt of a
\* running job without the job tells an interrupted one.
Found(id) ==
    CASE active[id] # None -> [state |-> active[id].state, cmd |-> active[id].cmd]
      [] active[id] = None /\ receipt[id] = None -> None
      [] OTHER -> [receipt[id] EXCEPT !.state =
                      IF @ = "running" THEN "interrupted" ELSE @]

\* An unreadable receipt and another command's id are errors.
Readable(e) == e.state # "torn" /\ e.cmd = op.cmd

Return  == op' = None
Tell(s) == told' = [told EXCEPT ![op.id] = s]

-----------------------------------------------------------------------------
Call(kind, id, cmd) ==
    /\ up /\ op = None
    /\ op' = [kind |-> kind, id |-> id, cmd |-> cmd, at |-> "check"]
    /\ UNCHANGED <<daemon, active, receipt, disk, history>>

\* get, and start for an id that is known: answer what is found.
Get ==
    /\ up /\ op # None /\ op.kind \in {"get", "start"} /\ op.at = "check"
    /\ op.kind = "start" => ~closed
    /\ JobMuFree(op.id)
    /\ LET e == Found(op.id) IN
       /\ op.kind = "start" => e # None
       /\ IF e # None /\ Readable(e) THEN Tell(e.state) ELSE UNCHANGED told
    /\ Return
    /\ UNCHANGED <<daemon, active, receipt, disk, launches, unsaved>>

CancelJob ==
    /\ up /\ op # None /\ op.kind = "cancel" /\ op.at = "check"
    /\ JobMuFree(op.id)
    /\ LET e == Found(op.id) IN
       IF active[op.id] # None /\ Readable(e)
       THEN active' = [active EXCEPT ![op.id].cancelled = TRUE] /\ UNCHANGED told
       ELSE /\ UNCHANGED active
            /\ IF e # None /\ Readable(e) THEN Tell(e.state) ELSE UNCHANGED told
    /\ Return
    /\ UNCHANGED <<daemon, receipt, disk, launches, unsaved>>

\* start: refused when the daemon stops or is full, else on to the receipt.
Start ==
    /\ up /\ op # None /\ op.kind = "start" /\ op.at = "check"
    /\ closed \/ Found(op.id) = None
    /\ IF closed \/ Cardinality({id \in Ids : active[id] # None}) >= MaxActive
       THEN Return
       ELSE op' = [op EXCEPT !.at = "create"]
    /\ UNCHANGED <<daemon, active, receipt, disk, history>>

\* reserve: O_EXCL, so that only one call ever creates a receipt.  A failure
\* before it leaves nothing behind.
Create ==
    /\ up /\ op # None /\ op.at = "create"
    /\ \/ Return /\ UNCHANGED receipt
       \/ /\ receipt[op.id] = None
          /\ receipt' = [receipt EXCEPT ![op.id] = [state |-> "torn", cmd |-> op.cmd]]
          /\ op' = [op EXCEPT !.at = "write"]
    /\ UNCHANGED <<daemon, active, disk, history>>

\* reserve: write and sync the file.  A failure keeps it as a reservation.
Write ==
    /\ up /\ op # None /\ op.at = "write"
    /\ \/ Return /\ UNCHANGED receipt
       \/ /\ receipt' = [receipt EXCEPT ![op.id].state = "running"]
          /\ Return \/ op' = [op EXCEPT !.at = "syncdir"]
    /\ UNCHANGED <<daemon, active, disk, history>>

Launch(id, cmd) ==
    /\ active' = [active EXCEPT ![id] = [state |-> "running", cmd |-> cmd,
                                         at |-> "child", cancelled |-> FALSE]]
    /\ launches' = [launches EXCEPT ![id] = @ + 1]
    /\ Tell("running")

\* reserve: the directory is synced, and only then the command is launched.
SyncDir_Later ==
    /\ up /\ op # None /\ op.at = "syncdir"
    /\ Launch(op.id, op.cmd)
    /\ Return
    /\ UNCHANGED <<daemon, receipt, disk, unsaved>>

SyncDir ==
    /\ up /\ op # None /\ op.at = "syncdir"
    /\ \/ /\ disk' = [disk EXCEPT ![op.id] = receipt[op.id]]
          /\ Launch(op.id, op.cmd)
       \/ UNCHANGED <<active, disk, launches, told>>
    /\ Return
    /\ UNCHANGED <<daemon, receipt, unsaved>>

-----------------------------------------------------------------------------
\* run: the command ends, by itself, cancelled, or at the 24 hour deadline,
\* and its outcome is set under job.mu.
ChildEnds(id) ==
    /\ up /\ active[id] # None /\ active[id].at = "child"
    /\ \E s \in IF active[id].cancelled THEN {"cancelled"} ELSE Finals :
           active' = [active EXCEPT ![id].at = "persist", ![id].state = s]
    /\ UNCHANGED <<daemon, op, receipt, disk, history>>

\* A job whose final receipt is not saved stays active until the daemon ends.
KeepUnsaved(id) ==
    /\ active' = [active EXCEPT ![id].at = "done"]
    /\ unsaved' = unsaved \cup {id}

\* persist: a temporary file, synced, renamed over the receipt.
Persist(id) ==
    /\ up /\ active[id] # None /\ active[id].at = "persist"
    /\ \/ /\ receipt' = [receipt EXCEPT ![id] =
                 [state |-> active[id].state, cmd |-> active[id].cmd]]
          /\ active' = [active EXCEPT ![id].at = "sync"]
          /\ UNCHANGED unsaved
       \/ KeepUnsaved(id) /\ UNCHANGED receipt
    /\ UNCHANGED <<daemon, op, disk, launches, told>>

PersistSync(id) ==
    /\ up /\ active[id] # None /\ active[id].at = "sync"
    /\ \/ /\ disk' = [disk EXCEPT ![id] = receipt[id]]
          /\ active' = [active EXCEPT ![id].at = "remove"]
          /\ UNCHANGED unsaved
       \/ KeepUnsaved(id) /\ UNCHANGED disk
    /\ UNCHANGED <<daemon, op, receipt, launches, told>>

\* run: under s.mu again the saved job leaves the active ones; done closes.
Remove(id) ==
    /\ up /\ active[id] # None /\ active[id].at = "remove"
    /\ op = None
    /\ active' = [active EXCEPT ![id] = None]
    /\ UNCHANGED <<daemon, op, receipt, disk, history>>

\* stop: no start from here on; every active job is cancelled and awaited.
Stop_NoCancel ==
    /\ up /\ ~closed /\ op = None
    /\ closed' = TRUE
    /\ waiting' = {id \in Ids : active[id] # None}
    /\ UNCHANGED <<up, op, active, receipt, disk, crashes, history>>

Stop ==
    /\ up /\ ~closed /\ op = None
    /\ closed' = TRUE
    /\ active' = [id \in Ids |-> IF active[id] = None THEN None
                                 ELSE [active[id] EXCEPT !.cancelled = TRUE]]
    /\ waiting' = {id \in Ids : active[id] # None}
    /\ UNCHANGED <<up, op, receipt, disk, crashes, history>>

Gone ==
    /\ up' = FALSE
    /\ op' = None /\ waiting' = {}
    /\ active' = [id \in Ids |-> None]

\* The daemon exits once the done channel of every awaited job is closed.
StopReturns ==
    /\ up /\ closed
    /\ \A id \in waiting : active[id] # None => active[id].at = "done"
    /\ Gone
    /\ UNCHANGED <<closed, receipt, disk, crashes, history>>

Restart ==
    /\ ~up
    /\ up' = TRUE /\ closed' = FALSE
    /\ UNCHANGED <<op, active, waiting, receipt, disk, crashes, history>>

-----------------------------------------------------------------------------
\* The process dies: memory goes, files stay.
Crash ==
    /\ up /\ crashes < MaxCrashes
    /\ Gone
    /\ crashes' = crashes + 1
    /\ unsaved' = unsaved \cup {id \in Ids : active[id] # None /\ active[id].at = "sync"}
    /\ UNCHANGED <<closed, receipt, disk, launches, told>>

\* The machine dies: what was not synced is kept or lost, file by file.
PowerLoss ==
    /\ up /\ crashes < MaxCrashes
    /\ Gone
    /\ crashes' = crashes + 1
    /\ \E kept \in SUBSET Ids :
           /\ receipt' = [id \in Ids |-> IF id \in kept THEN receipt[id] ELSE disk[id]]
           /\ disk' = receipt'
    /\ UNCHANGED <<closed, history>>

-----------------------------------------------------------------------------
Init ==
    /\ up = TRUE /\ closed = FALSE
    /\ op = None
    /\ active = [id \in Ids |-> None]
    /\ waiting = {}
    /\ receipt = [id \in Ids |-> None]
    /\ disk = [id \in Ids |-> None]
    /\ crashes = 0
    /\ launches = [id \in Ids |-> 0]
    /\ told = [id \in Ids |-> None]
    /\ unsaved = {}

Body    == Get \/ CancelJob \/ Start \/ Create \/ Write \/ SyncDir
Run(id) == ChildEnds(id) \/ Persist(id) \/ PersistSync(id) \/ Remove(id)

Next ==
    \/ \E kind \in {"start", "get", "cancel"}, id \in Ids, cmd \in Commands :
           Call(kind, id, cmd)
    \/ Body
    \/ \E id \in Ids : Run(id)
    \/ Stop \/ StopReturns \/ Restart
    \/ Crash \/ PowerLoss

Spec == Init /\ [][Next]_vars

\* A goroutine that can run is run.  s.mu is contended by a stream of calls,
\* and Go's mutex hands itself to a waiter that has starved: Remove is
\* strongly fair.  A command is only assumed to end once it is cancelled:
\* its process group is killed.
FairSpec ==
    /\ Spec
    /\ WF_vars(Body) /\ WF_vars(StopReturns)
    /\ \A id \in Ids : /\ WF_vars(active[id] # None /\ active[id].cancelled /\ ChildEnds(id))
                       /\ WF_vars(Persist(id))
                       /\ WF_vars(PersistSync(id)) /\ SF_vars(Remove(id))

-----------------------------------------------------------------------------
(* Properties *)

\* Calls, jobs and receipts have their types.
TypeOK ==
    /\ up \in BOOLEAN /\ closed \in BOOLEAN
    /\ op \in {None} \cup Calls
    /\ active \in [Ids -> {None} \cup Jobs]
    /\ waiting \subseteq Ids
    /\ receipt \in [Ids -> {None} \cup Receipts]
    /\ disk \in [Ids -> {None} \cup Receipts]
    /\ crashes \in 0..MaxCrashes
    /\ launches \in [Ids -> Nat]
    /\ told \in [Ids -> {None} \cup States]
    /\ unsaved \subseteq Ids

\* Repeating a start returns the existing job and does not launch the command
\* again: not after a lost answer, a failed write, a crash or a power loss at
\* any point between the reservation and the final receipt.
LaunchOnce == \A id \in Ids : launches[id] <= 1

\* A final answer is not lost with the machine: whoever reads a final state
\* reads it only after it is durable, unless its receipt could not be saved.
FinalIsDurable ==
    \A id \in Ids : told[id] \in Finals /\ id \notin unsaved =>
        disk[id] # None /\ disk[id].state = told[id]

\* Stop ends, although the jobs it waits for need s.mu to finish and calls
\* that hold s.mu wait for the mutex of a job, however long its command runs.
StopEnds == closed ~> ~up
=============================================================================
