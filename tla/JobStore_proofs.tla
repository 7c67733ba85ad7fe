--------------------------- MODULE JobStore_proofs ---------------------------
(* Proofs about JobStore, for any ids, commands and limits. *)
EXTENDS JobStore, TLAPS

-----------------------------------------------------------------------------
(* The inductive invariant, in parts. *)

\* A launched command has a receipt, and one that survives a loss of power;
\* only a launched command is active or has a final outcome anywhere.
LaunchedHasReceipt(id) ==
    /\ launches[id] > 0 => receipt[id] # None /\ disk[id] # None
    /\ active[id] # None => launches[id] > 0
    /\ told[id] \in Finals => launches[id] > 0
    /\ receipt[id] # None /\ receipt[id].state \in Finals => launches[id] > 0
    /\ disk[id] # None /\ disk[id].state \in Finals => launches[id] > 0

\* What a job's place in run says about its state and about its receipts.
JobState(id) ==
    active[id] # None =>
        /\ active[id].at = "child" => active[id].state = "running"
        /\ active[id].at \in {"persist", "sync", "remove"} => active[id].state \in Finals
        /\ active[id].at \in {"child", "persist", "sync"} => told[id] \notin Finals
        /\ active[id].at \in {"sync", "remove"} =>
               receipt[id] # None /\ receipt[id].state = active[id].state
        /\ active[id].at = "remove" => receipt[id] = disk[id]
        /\ active[id].at = "done" => id \in unsaved

\* A final receipt is on disk, unless its job is just saving it.
ReceiptDurable(id) ==
    /\ id \notin unsaved
    /\ receipt[id] # None /\ receipt[id].state \in Finals
    /\ active[id] # None => active[id].at # "sync"
    => receipt[id] = disk[id]

\* FinalIsDurable for one id, and for its receipt as well as for the disk.
ToldDurable(id) ==
    told[id] \in Finals /\ id \notin unsaved =>
        disk[id] # None /\ disk[id].state = told[id] /\ receipt[id] = disk[id]

IdInv(id) == /\ launches[id] <= 1
             /\ LaunchedHasReceipt(id)
             /\ JobState(id)
             /\ ReceiptDurable(id)
             /\ ToldDurable(id)

\* A start that has passed its check is for an id that was never launched.
OpInv ==
    op # None /\ op.at # "check" =>
        /\ ~closed
        /\ op.kind = "start"
        /\ launches[op.id] = 0
        /\ op.at \in {"write", "syncdir"} => receipt[op.id] # None
        /\ op.at \in {"create", "write", "syncdir"} => active[op.id] = None

\* Stop waits for every job there is.
StopInv == closed => \A id \in Ids : active[id] # None => id \in waiting

IInv == /\ TypeOK
        /\ \A id \in Ids : IdInv(id)
        /\ OpInv
        /\ StopInv

-----------------------------------------------------------------------------
(* Types. *)

LEMMA StringsDiffer ==
    /\ "torn" \notin Finals /\ "running" \notin Finals
    /\ "interrupted" \notin Finals
BY DEF Finals

LEMMA NoneDiffers ==
    /\ \A r \in Records : r # None
    /\ \A r \in Receipts : r \in Records /\ r # None
    /\ \A c \in Calls : c # None
    /\ \A j \in Jobs : j # None
BY JobAssumption DEF Records, Receipts, States

LEMMA FoundType ==
    ASSUME TypeOK, NEW id \in Ids
    PROVE  /\ Found(id) = None => active[id] = None /\ receipt[id] = None
           /\ Found(id) # None =>
                /\ Found(id) \in Records
                /\ active[id] # None => Found(id).state = active[id].state
                /\ active[id] = None => receipt[id] # None
                /\ active[id] = None /\ Found(id).state \in Finals
                       => receipt[id].state = Found(id).state
<1>1. CASE active[id] # None
  <2>1. active[id] \in Jobs
    BY <1>1 DEF TypeOK
  <2>2. Found(id) = [state |-> active[id].state, cmd |-> active[id].cmd]
    BY <1>1 DEF Found
  <2>3. Found(id) \in Records
    BY <2>1, <2>2 DEF Records, Jobs, States
  <2>4. QED
    BY <1>1, <2>2, <2>3, NoneDiffers
<1>2. CASE active[id] = None /\ receipt[id] = None
  BY <1>2 DEF Found
<1>3. CASE active[id] = None /\ receipt[id] # None
  <2>1. receipt[id] \in Receipts
    BY <1>3 DEF TypeOK
  <2>2. Found(id) = [receipt[id] EXCEPT !.state =
                        IF receipt[id].state = "running" THEN "interrupted"
                        ELSE receipt[id].state]
    BY <1>3 DEF Found
  <2>3. Found(id) \in Records
    BY <2>1, <2>2 DEF Records, Receipts, States
  <2>4. Found(id).state \in Finals => receipt[id].state = Found(id).state
    BY <2>1, <2>2, StringsDiffer DEF Receipts
  <2>5. QED
    BY <1>3, <2>3, <2>4, NoneDiffers
<1>4. QED
  BY <1>1, <1>2, <1>3

\* The updates of a job that the operations make.
LEMMA JobCancelled ==
    ASSUME NEW j \in Jobs
    PROVE  LET k == [j EXCEPT !.cancelled = TRUE]
           IN  k \in Jobs /\ k # None /\ k.at = j.at /\ k.state = j.state
BY NoneDiffers DEF Jobs

LEMMA JobMoved ==
    ASSUME NEW j \in Jobs, NEW a \in {"sync", "remove", "done"}
    PROVE  LET k == [j EXCEPT !.at = a]
           IN  k \in Jobs /\ k # None /\ k.at = a /\ k.state = j.state
BY NoneDiffers DEF Jobs

LEMMA JobEnded ==
    ASSUME NEW j \in Jobs, NEW s \in Finals
    PROVE  LET k == [j EXCEPT !.at = "persist", !.state = s]
           IN  k \in Jobs /\ k # None /\ k.at = "persist" /\ k.state = s
BY NoneDiffers DEF Jobs

LEMMA BodyType ==
    ASSUME IInv, Body PROVE TypeOK' /\ op \in Calls /\ op.id \in Ids /\ op.cmd \in Commands
<1>t. TypeOK
  BY DEF IInv
<1>1. op \in Calls /\ op.id \in Ids /\ op.cmd \in Commands
  BY <1>t DEF TypeOK, Calls, Body, Get, CancelJob, Start, Create, Write, SyncDir
<1>2. CASE Get
  <2>1. told' \in [Ids -> {None} \cup States]
    BY <1>t, <1>1, <1>2, FoundType DEF Get, TypeOK, Tell, Readable, Records
  <2>2. QED
    BY <1>t, <1>1, <1>2, <2>1 DEF Get, Return, TypeOK, daemon
<1>3. CASE CancelJob
  <2>1. told' \in [Ids -> {None} \cup States]
    BY <1>t, <1>1, <1>3, FoundType DEF CancelJob, TypeOK, Tell, Readable, Records
  <2>2. active' \in [Ids -> {None} \cup Jobs]
    <3>1. CASE active' = active
      BY <1>t, <3>1 DEF TypeOK
    <3>2. CASE active' # active
      <4>1. /\ active[op.id] # None
            /\ active' = [active EXCEPT ![op.id] = [active[op.id] EXCEPT !.cancelled = TRUE]]
        BY <1>3, <3>2 DEF CancelJob
      <4>2. active[op.id] \in Jobs
        BY <1>t, <1>1, <4>1 DEF TypeOK
      <4>3. [active[op.id] EXCEPT !.cancelled = TRUE] \in Jobs
        BY <4>2, JobCancelled
      <4>4. QED
        BY <1>t, <1>1, <4>1, <4>3 DEF TypeOK
    <3>3. QED
      BY <3>1, <3>2
  <2>3. QED
    BY <1>t, <1>1, <1>3, <2>1, <2>2 DEF CancelJob, Return, TypeOK, daemon
<1>4. CASE Start
  BY <1>t, <1>1, <1>4 DEF Start, Return, TypeOK, daemon, history, Calls
<1>5. CASE Create
  BY <1>t, <1>1, <1>5 DEF Create, Return, TypeOK, daemon, history, Calls, Receipts
<1>6. CASE Write
  <2>1. receipt[op.id] \in Receipts
    BY <1>t, <1>1, <1>6 DEF IInv, OpInv, Write, TypeOK
  <2>2. [receipt[op.id] EXCEPT !.state = "running"] \in Receipts
    BY <2>1 DEF Receipts
  <2>3. receipt' \in [Ids -> {None} \cup Receipts]
    BY <1>t, <1>1, <1>6, <2>2 DEF Write, TypeOK
  <2>4. op' \in {None} \cup Calls
    BY <1>1, <1>6 DEF Write, Return, Calls
  <2>5. QED
    BY <1>t, <1>1, <1>6, <2>3, <2>4 DEF Write, TypeOK, daemon, history
<1>7. CASE SyncDir
  <2>1. [state |-> "running", cmd |-> op.cmd, at |-> "child", cancelled |-> FALSE] \in Jobs
    BY <1>1 DEF Jobs
  <2>2. active' \in [Ids -> {None} \cup Jobs]
    BY <1>t, <1>7, <2>1 DEF SyncDir, Launch, TypeOK
  <2>3. launches' \in [Ids -> Nat] /\ told' \in [Ids -> {None} \cup States]
    BY <1>t, <1>1, <1>7 DEF SyncDir, Launch, Tell, TypeOK, States
  <2>4. disk' \in [Ids -> {None} \cup Receipts]
    BY <1>t, <1>1, <1>7 DEF SyncDir, TypeOK
  <2>5. QED
    BY <1>t, <1>1, <1>7, <2>2, <2>3, <2>4 DEF SyncDir, Return, TypeOK, daemon
<1>8. QED
  BY <1>1, <1>2, <1>3, <1>4, <1>5, <1>6, <1>7 DEF Body

LEMMA RunType ==
    ASSUME TypeOK, NEW id \in Ids, Run(id) PROVE TypeOK' /\ active[id] \in Jobs
<1>1. active[id] \in Jobs
  BY DEF TypeOK, Run, ChildEnds, Persist, PersistSync, Remove
<1>2. CASE ChildEnds(id)
  <2>1. PICK s \in Finals : active' = [active EXCEPT ![id] =
                               [active[id] EXCEPT !.at = "persist", !.state = s]]
    BY <1>2 DEF ChildEnds, Finals
  <2>2. [active[id] EXCEPT !.at = "persist", !.state = s] \in Jobs
    BY <1>1, JobEnded
  <2>3. active' \in [Ids -> {None} \cup Jobs]
    BY <2>1, <2>2 DEF TypeOK
  <2>4. QED
    BY <1>1, <1>2, <2>3 DEF ChildEnds, TypeOK, daemon, history
<1>3. CASE Persist(id)
  <2>1. active' \in [Ids -> {None} \cup Jobs]
    <3>1. PICK a \in {"sync", "done"} :
              active' = [active EXCEPT ![id] = [active[id] EXCEPT !.at = a]]
      BY <1>3 DEF Persist, KeepUnsaved
    <3>2. [active[id] EXCEPT !.at = a] \in Jobs
      BY <1>1, JobMoved
    <3>3. QED
      BY <3>1, <3>2 DEF TypeOK
  <2>2. [state |-> active[id].state, cmd |-> active[id].cmd] \in Receipts
    BY <1>1 DEF Jobs, Receipts
  <2>3. QED
    BY <1>1, <1>3, <2>1, <2>2 DEF Persist, KeepUnsaved, TypeOK, daemon
<1>4. CASE PersistSync(id)
  <2>1. active' \in [Ids -> {None} \cup Jobs]
    <3>1. PICK a \in {"remove", "done"} :
              active' = [active EXCEPT ![id] = [active[id] EXCEPT !.at = a]]
      BY <1>4 DEF PersistSync, KeepUnsaved
    <3>2. [active[id] EXCEPT !.at = a] \in Jobs
      BY <1>1, JobMoved
    <3>3. QED
      BY <3>1, <3>2 DEF TypeOK
  <2>2. QED
    BY <1>1, <1>4, <2>1 DEF PersistSync, KeepUnsaved, TypeOK, daemon
<1>5. CASE Remove(id)
  BY <1>1, <1>5 DEF Remove, TypeOK, daemon, history
<1>6. QED
  BY <1>2, <1>3, <1>4, <1>5 DEF Run

LEMMA DaemonType ==
    ASSUME TypeOK, Stop \/ StopReturns \/ Restart \/ Crash \/ PowerLoss PROVE TypeOK'
<1>1. CASE Stop
  <2>1. \A id \in Ids : active[id] # None => [active[id] EXCEPT !.cancelled = TRUE] \in Jobs
    BY JobCancelled DEF TypeOK
  <2>2. active' \in [Ids -> {None} \cup Jobs]
    BY <1>1, <2>1 DEF Stop
  <2>3. QED
    BY <1>1, <2>2 DEF Stop, TypeOK, history
<1>2. CASE StopReturns \/ Restart
  BY <1>2 DEF StopReturns, Restart, Gone, TypeOK, history
<1>3. CASE Crash
  <2>1. crashes' \in 0..MaxCrashes
    BY <1>3, JobAssumption DEF Crash, TypeOK
  <2>2. unsaved' \subseteq Ids
    BY <1>3 DEF Crash, TypeOK
  <2>3. QED
    BY <1>3, <2>1, <2>2 DEF Crash, Gone, TypeOK
<1>4. CASE PowerLoss
  <2>1. receipt' \in [Ids -> {None} \cup Receipts] /\ disk' = receipt'
    BY <1>4 DEF PowerLoss, TypeOK
  <2>2. crashes' \in 0..MaxCrashes
    BY <1>4, JobAssumption DEF PowerLoss, TypeOK
  <2>3. QED
    BY <1>4, <2>1, <2>2 DEF PowerLoss, Gone, TypeOK, history
<1>5. QED
  BY <1>1, <1>2, <1>3, <1>4

-----------------------------------------------------------------------------
(* The calls keep the invariant. *)

LEMMA GetStep ==
    ASSUME IInv, Get \/ CancelJob PROVE IInv'
<1>1. TypeOK' /\ op \in Calls /\ op.id \in Ids
  BY BodyType DEF Body
<1>2. ASSUME NEW id \in Ids PROVE IdInv(id)'
  <2>1. IdInv(id)
    BY DEF IInv
  <2>2. CASE Get
    <3>1. CASE told' = told
      BY <2>1, <2>2, <3>1 DEF Get, IdInv, LaunchedHasReceipt, JobState, ReceiptDurable, ToldDurable
    <3>2. CASE told' # told
      <4>1. Found(op.id) # None /\ JobMuFree(op.id) /\ told' = [told EXCEPT ![op.id] = Found(op.id).state]
        BY <2>2, <3>2 DEF Get, Tell
      <4>2. CASE id # op.id
        BY <2>1, <2>2, <4>1, <4>2 DEF Get, IInv, TypeOK, IdInv, LaunchedHasReceipt, JobState, ReceiptDurable, ToldDurable
      <4>3. CASE id = op.id
        <5>1. told'[id] = Found(id).state
          BY <4>1, <4>3 DEF IInv, TypeOK
        <5>2. CASE active[id] # None
          <6>1. told'[id] = active[id].state /\ active[id].at \in {"child", "remove", "done"}
            BY <5>1, <5>2, <4>1, <4>3, FoundType DEF IInv, JobMuFree
          <6>2. QED
            BY <2>1, <2>2, <5>2, <6>1, StringsDiffer DEF Get, IdInv, LaunchedHasReceipt, JobState, ReceiptDurable, ToldDurable
        <5>3. CASE active[id] = None
          <6>1. receipt[id] # None /\ (told'[id] \in Finals => told'[id] = receipt[id].state)
            BY <5>1, <5>3, <4>1, <4>3, FoundType DEF IInv
          <6>2. QED
            BY <2>1, <2>2, <5>3, <6>1 DEF Get, IdInv, LaunchedHasReceipt, JobState, ReceiptDurable, ToldDurable
        <5>4. QED
          BY <5>2, <5>3
      <4>4. QED
        BY <4>2, <4>3
    <3>3. QED
      BY <3>1, <3>2
  <2>3. CASE CancelJob
    <3>1. CASE told' = told
      <4>1. /\ active'[id] = None <=> active[id] = None
            /\ active[id] # None => active'[id].at = active[id].at /\ active'[id].state = active[id].state
        <5>1. CASE active' = active
          BY <5>1
        <5>2. CASE active' # active
          <6>1. /\ active[op.id] # None
                /\ active' = [active EXCEPT ![op.id] = [active[op.id] EXCEPT !.cancelled = TRUE]]
            BY <2>3, <5>2 DEF CancelJob
          <6>2. active[op.id] \in Jobs
            BY <1>1, <6>1 DEF IInv, TypeOK
          <6>3. /\ [active[op.id] EXCEPT !.cancelled = TRUE] # None
                /\ [active[op.id] EXCEPT !.cancelled = TRUE].at = active[op.id].at
                /\ [active[op.id] EXCEPT !.cancelled = TRUE].state = active[op.id].state
            BY <6>2, JobCancelled
          <6>4. CASE id = op.id
            BY <6>1, <6>3, <6>4 DEF IInv, TypeOK
          <6>5. CASE id # op.id
            BY <6>1, <6>5 DEF IInv, TypeOK
          <6>6. QED
            BY <6>4, <6>5
        <5>3. QED
          BY <5>1, <5>2
      <4>2. QED
        BY <2>1, <2>3, <3>1, <4>1 DEF CancelJob, IdInv, LaunchedHasReceipt, JobState, ReceiptDurable, ToldDurable
    <3>2. CASE told' # told
      <4>1. /\ Found(op.id) # None /\ told' = [told EXCEPT ![op.id] = Found(op.id).state]
            /\ active[op.id] = None /\ active' = active
        BY <2>3, <3>2 DEF CancelJob, Tell
      <4>2. CASE id # op.id
        BY <2>1, <2>3, <4>1, <4>2 DEF CancelJob, IInv, TypeOK, IdInv, LaunchedHasReceipt, JobState, ReceiptDurable, ToldDurable
      <4>3. CASE id = op.id
        <5>1. receipt[id] # None /\ (told'[id] \in Finals => told'[id] = receipt[id].state)
          BY <4>1, <4>3, FoundType DEF IInv, TypeOK
        <5>2. QED
          BY <2>1, <2>3, <4>1, <4>3, <5>1 DEF CancelJob, IdInv, LaunchedHasReceipt, JobState, ReceiptDurable, ToldDurable
      <4>4. QED
        BY <4>2, <4>3
    <3>3. QED
      BY <3>1, <3>2
  <2>4. QED
    BY <2>2, <2>3
<1>3. OpInv'
  BY DEF OpInv, Get, CancelJob, Return
<1>4. StopInv'
  BY <1>1, JobAssumption DEF IInv, StopInv, TypeOK, Get, CancelJob, daemon
<1>5. QED
  BY <1>1, <1>2, <1>3, <1>4 DEF IInv

LEMMA StartStep ==
    ASSUME IInv, Start \/ Create \/ Write \/ SyncDir PROVE IInv'
<1>1. TypeOK' /\ op \in Calls /\ op.id \in Ids /\ op.cmd \in Commands
  BY BodyType DEF Body
<1>2. CASE Start
  <2>1. \A id \in Ids : IdInv(id)'
    BY <1>2 DEF Start, IInv, IdInv, LaunchedHasReceipt, JobState, ReceiptDurable, ToldDurable, history
  <2>2. OpInv'
    <3>1. SUFFICES ASSUME op' # None, op'.at # "check" PROVE OpInv'
      BY DEF OpInv
    <3>2. ~closed /\ op' = [op EXCEPT !.at = "create"] /\ Found(op.id) = None
      BY <1>2, <3>1 DEF Start, Return
    <3>3. active[op.id] = None /\ receipt[op.id] = None
      BY <3>2, <1>1, FoundType DEF IInv
    <3>4. launches[op.id] = 0
      BY <3>3, <1>1 DEF IInv, IdInv, LaunchedHasReceipt, TypeOK
    <3>5. QED
      BY <1>1, <1>2, <3>2, <3>3, <3>4 DEF OpInv, Start, Calls, daemon, history
  <2>3. QED
    BY <1>1, <1>2, <2>1, <2>2 DEF IInv, StopInv, Start, daemon
<1>3. CASE Create
  <2>1. launches[op.id] = 0 /\ active[op.id] = None /\ ~closed /\ op.kind = "start"
    BY <1>3 DEF Create, IInv, OpInv
  <2>2. ASSUME NEW id \in Ids PROVE IdInv(id)'
    <3>1. CASE receipt'[id] = receipt[id]
      BY <1>3, <3>1 DEF Create, IInv, IdInv, LaunchedHasReceipt, JobState, ReceiptDurable, ToldDurable, history
    <3>2. CASE receipt'[id] # receipt[id]
      <4>1. id = op.id /\ receipt'[id] = [state |-> "torn", cmd |-> op.cmd]
        BY <1>3, <3>2 DEF Create, IInv, TypeOK
      <4>2. receipt'[id] # None /\ receipt'[id].state = "torn"
        <5>1. [state |-> "torn", cmd |-> op.cmd] \in Receipts
          BY <1>1 DEF Receipts
        <5>2. QED
          BY <4>1, <5>1, NoneDiffers
      <4>3. told[id] \notin Finals
        BY <4>1, <2>1 DEF IInv, IdInv, LaunchedHasReceipt
      <4>4. QED
        BY <1>3, <2>1, <4>1, <4>2, <4>3, StringsDiffer
           DEF Create, IInv, IdInv, LaunchedHasReceipt, JobState, ReceiptDurable, ToldDurable, history
    <3>3. QED
      BY <3>1, <3>2
  <2>3. OpInv'
    <3>1. CASE op' = None
      BY <3>1 DEF OpInv
    <3>2. CASE op' # None
      <4>1. op' = [op EXCEPT !.at = "write"] /\ receipt' = [receipt EXCEPT ![op.id] = [state |-> "torn", cmd |-> op.cmd]]
        BY <1>3, <3>2 DEF Create, Return
      <4>2. receipt'[op.id] # None
        <5>1. [state |-> "torn", cmd |-> op.cmd] \in Receipts
          BY <1>1 DEF Receipts
        <5>2. QED
          BY <1>1, <4>1, <5>1, NoneDiffers DEF IInv, TypeOK
      <4>3. QED
        BY <1>1, <1>3, <2>1, <4>1, <4>2 DEF OpInv, Create, Calls, daemon, history
    <3>3. QED
      BY <3>1, <3>2
  <2>4. QED
    BY <1>1, <1>3, <2>2, <2>3 DEF IInv, StopInv, Create, daemon
<1>4. CASE Write
  <2>1. launches[op.id] = 0 /\ active[op.id] = None /\ ~closed /\ op.kind = "start" /\ receipt[op.id] # None
    BY <1>4 DEF Write, IInv, OpInv
  <2>2. receipt' # receipt => receipt' = [receipt EXCEPT ![op.id].state = "running"]
    BY <1>4 DEF Write
  <2>3. receipt[op.id] \in Receipts
    BY <1>1, <2>1 DEF IInv, TypeOK
  <2>4. receipt'[op.id] # None
    <3>1. [receipt[op.id] EXCEPT !.state = "running"] \in Receipts
      BY <2>3 DEF Receipts
    <3>2. QED
      BY <1>1, <2>1, <2>2, <3>1, NoneDiffers DEF IInv, TypeOK
  <2>5. ASSUME NEW id \in Ids PROVE IdInv(id)'
    <3>1. CASE receipt'[id] = receipt[id]
      BY <1>4, <3>1 DEF Write, IInv, IdInv, LaunchedHasReceipt, JobState, ReceiptDurable, ToldDurable, history
    <3>2. CASE receipt'[id] # receipt[id]
      <4>1. id = op.id /\ receipt'[id].state = "running" /\ receipt'[id] # None
        BY <2>2, <2>3, <2>4, <3>2 DEF IInv, TypeOK, Receipts
      <4>2. told[id] \notin Finals
        BY <4>1, <2>1 DEF IInv, IdInv, LaunchedHasReceipt
      <4>3. QED
        BY <1>4, <2>1, <4>1, <4>2, StringsDiffer
           DEF Write, IInv, IdInv, LaunchedHasReceipt, JobState, ReceiptDurable, ToldDurable, history
    <3>3. QED
      BY <3>1, <3>2
  <2>6. OpInv'
    <3>1. CASE op' = None
      BY <3>1 DEF OpInv
    <3>2. CASE op' # None
      <4>1. op' = [op EXCEPT !.at = "syncdir"]
        BY <1>4, <3>2 DEF Write, Return
      <4>2. QED
        BY <1>1, <1>4, <2>1, <2>4, <4>1 DEF OpInv, Write, Calls, daemon, history
    <3>3. QED
      BY <3>1, <3>2
  <2>7. QED
    BY <1>1, <1>4, <2>5, <2>6 DEF IInv, StopInv, Write, daemon
<1>5. CASE SyncDir
  <2>1. launches[op.id] = 0 /\ active[op.id] = None /\ ~closed /\ receipt[op.id] # None
    BY <1>5 DEF SyncDir, IInv, OpInv
  <2>2. ASSUME NEW id \in Ids PROVE IdInv(id)'
    <3>1. IdInv(id) /\ receipt' = receipt /\ unsaved' = unsaved
      BY <1>5 DEF SyncDir, IInv
    <3>2. CASE UNCHANGED <<active, disk, launches, told>>
      BY <3>1, <3>2 DEF IdInv, LaunchedHasReceipt, JobState, ReceiptDurable, ToldDurable
    <3>3. CASE disk' = [disk EXCEPT ![op.id] = receipt[op.id]] /\ Launch(op.id, op.cmd)
      <4>1. CASE id # op.id
        BY <3>1, <3>3, <4>1 DEF Launch, Tell, IInv, TypeOK, IdInv, LaunchedHasReceipt, JobState, ReceiptDurable, ToldDurable
      <4>2. CASE id = op.id
        <5>1. /\ launches'[id] = 1 /\ told'[id] = "running" /\ disk'[id] = receipt[id]
              /\ active'[id] = [state |-> "running", cmd |-> op.cmd, at |-> "child", cancelled |-> FALSE]
          BY <2>1, <3>3, <4>2 DEF Launch, Tell, IInv, TypeOK
        <5>2. receipt[id] # None
          BY <2>1, <4>2
        <5>3. QED
          BY <3>1, <5>1, <5>2, StringsDiffer DEF IdInv, LaunchedHasReceipt, JobState, ReceiptDurable, ToldDurable
      <4>3. QED
        BY <4>1, <4>2
    <3>4. QED
      BY <1>5, <3>2, <3>3 DEF SyncDir
  <2>3. OpInv' /\ StopInv'
    BY <1>5, <2>1 DEF OpInv, StopInv, SyncDir, Return, daemon
  <2>4. QED
    BY <1>1, <2>2, <2>3 DEF IInv
<1>6. QED
  BY <1>2, <1>3, <1>4, <1>5

-----------------------------------------------------------------------------
(* The jobs keep the invariant. *)

LEMMA RunStep ==
    ASSUME IInv, NEW j \in Ids, Run(j) PROVE IInv'
<1>1. TypeOK /\ TypeOK' /\ active[j] \in Jobs /\ active[j] # None
  BY RunType, NoneDiffers DEF IInv
<1>2. \A id \in Ids : IdInv(id)
  BY DEF IInv
<1>3. CASE ChildEnds(j)
  <2>1. PICK s \in Finals : active' = [active EXCEPT ![j] =
                               [active[j] EXCEPT !.at = "persist", !.state = s]]
    BY <1>3 DEF ChildEnds, Finals
  <2>2. active'[j] # None /\ active'[j].at = "persist" /\ active'[j].state \in Finals
    <3>1. active'[j] = [active[j] EXCEPT !.at = "persist", !.state = s]
      BY <1>1, <2>1 DEF TypeOK
    <3>2. /\ [active[j] EXCEPT !.at = "persist", !.state = s] # None
          /\ [active[j] EXCEPT !.at = "persist", !.state = s].at = "persist"
          /\ [active[j] EXCEPT !.at = "persist", !.state = s].state = s
      BY <1>1, JobEnded
    <3>3. QED
      BY <3>1, <3>2
  <2>3. \A id \in Ids : id # j => active'[id] = active[id]
    BY <1>1, <2>1 DEF TypeOK
  <2>4. ASSUME NEW id \in Ids PROVE IdInv(id)'
    <3>1. CASE id # j
      BY <1>2, <1>3, <2>3, <3>1 DEF ChildEnds, history, IdInv, LaunchedHasReceipt, JobState, ReceiptDurable, ToldDurable
    <3>2. CASE id = j
      BY <1>1, <1>2, <1>3, <2>2, <3>2 DEF ChildEnds, history, IdInv, LaunchedHasReceipt, JobState, ReceiptDurable, ToldDurable
    <3>3. QED
      BY <3>1, <3>2
  <2>5. OpInv'
    BY <1>1, <1>3, <2>3, NoneDiffers DEF IInv, OpInv, ChildEnds, daemon, history, TypeOK, Calls
  <2>6. QED
    BY <1>1, <1>3, <2>3, <2>4, <2>5 DEF IInv, StopInv, ChildEnds, daemon
<1>4. CASE Persist(j)
  <2>1. PICK a \in {"sync", "done"} :
            active' = [active EXCEPT ![j] = [active[j] EXCEPT !.at = a]]
    BY <1>4 DEF Persist, KeepUnsaved
  <2>2. active'[j] # None /\ active'[j].at = a /\ active'[j].state = active[j].state
    <3>1. active'[j] = [active[j] EXCEPT !.at = a]
      BY <1>1, <2>1 DEF TypeOK
    <3>2. /\ [active[j] EXCEPT !.at = a] # None
          /\ [active[j] EXCEPT !.at = a].at = a
          /\ [active[j] EXCEPT !.at = a].state = active[j].state
      BY <1>1, JobMoved, ZenonT(30)
    <3>3. QED
      BY <3>1, <3>2
  <2>3. \A id \in Ids : id # j => active'[id] = active[id]
    BY <1>1, <2>1 DEF TypeOK
  <2>4. \A id \in Ids : id # j => receipt'[id] = receipt[id] /\ (id \in unsaved' <=> id \in unsaved)
    BY <1>1, <1>4 DEF Persist, KeepUnsaved, TypeOK
  <2>5. /\ a = "sync" => receipt'[j] # None /\ receipt'[j].state = active[j].state
        /\ a = "done" => j \in unsaved'
        /\ receipt'[j] # receipt[j] => a = "sync"
    <3>1. [state |-> active[j].state, cmd |-> active[j].cmd] \in Receipts
      BY <1>1 DEF Jobs, Receipts
    <3>2. CASE KeepUnsaved(j) /\ receipt' = receipt
      <4>1. active'[j].at = "done"
        BY <1>1, <3>2, JobMoved DEF KeepUnsaved, TypeOK
      <4>2. QED
        BY <2>2, <3>2, <4>1 DEF KeepUnsaved
    <3>3. CASE /\ receipt' = [receipt EXCEPT ![j] = [state |-> active[j].state, cmd |-> active[j].cmd]]
               /\ active' = [active EXCEPT ![j].at = "sync"]
      <4>1. active'[j].at = "sync"
        BY <1>1, <3>3, JobMoved DEF TypeOK
      <4>2. QED
        BY <1>1, <2>2, <3>1, <3>3, <4>1, NoneDiffers DEF TypeOK
    <3>4. QED
      BY <1>4, <3>2, <3>3 DEF Persist
  <2>6. active[j].state \in Finals /\ told[j] \notin Finals /\ launches[j] > 0
    BY <1>1, <1>2, <1>4 DEF IdInv, JobState, LaunchedHasReceipt, Persist
  <2>7. ASSUME NEW id \in Ids PROVE IdInv(id)'
    <3>1. CASE id # j
      BY <1>2, <1>4, <2>3, <2>4, <3>1 DEF Persist, IdInv, LaunchedHasReceipt, JobState, ReceiptDurable, ToldDurable
    <3>2. CASE id = j
      <4>1. CASE a = "sync"
        BY <1>1, <1>2, <1>4, <2>2, <2>5, <2>6, <3>2, <4>1 DEF Persist, IdInv, LaunchedHasReceipt, JobState, ReceiptDurable, ToldDurable
      <4>2. CASE a = "done"
        BY <1>1, <1>2, <1>4, <2>2, <2>5, <2>6, <3>2, <4>2 DEF Persist, IdInv, LaunchedHasReceipt, JobState, ReceiptDurable, ToldDurable
      <4>3. QED
        BY <4>1, <4>2
    <3>3. QED
      BY <3>1, <3>2
  <2>8. OpInv'
    <3>1. op # None /\ op.at # "check" => op.id \in Ids /\ op.id # j
      BY <1>1, <2>6 DEF IInv, OpInv, TypeOK, Calls
    <3>2. QED
      BY <1>4, <2>3, <2>4, <3>1 DEF IInv, OpInv, Persist, daemon
  <2>9. QED
    BY <1>1, <1>4, <2>3, <2>7, <2>8 DEF IInv, StopInv, Persist, daemon
<1>5. CASE PersistSync(j)
  <2>1. PICK a \in {"remove", "done"} :
            active' = [active EXCEPT ![j] = [active[j] EXCEPT !.at = a]]
    BY <1>5 DEF PersistSync, KeepUnsaved
  <2>2. active'[j] # None /\ active'[j].at = a /\ active'[j].state = active[j].state
    <3>1. active'[j] = [active[j] EXCEPT !.at = a]
      BY <1>1, <2>1 DEF TypeOK
    <3>2. /\ [active[j] EXCEPT !.at = a] # None
          /\ [active[j] EXCEPT !.at = a].at = a
          /\ [active[j] EXCEPT !.at = a].state = active[j].state
      BY <1>1, JobMoved, ZenonT(30)
    <3>3. QED
      BY <3>1, <3>2
  <2>3. \A id \in Ids : id # j => active'[id] = active[id]
    BY <1>1, <2>1 DEF TypeOK
  <2>4. \A id \in Ids : id # j => disk'[id] = disk[id] /\ (id \in unsaved' <=> id \in unsaved)
    BY <1>1, <1>5 DEF PersistSync, KeepUnsaved, TypeOK
  <2>5. /\ a = "remove" => disk'[j] = receipt[j]
        /\ a = "done" => j \in unsaved' /\ disk' = disk
    <3>1. CASE KeepUnsaved(j) /\ disk' = disk
      BY <3>1, <2>2, <1>1, JobMoved DEF KeepUnsaved, TypeOK
    <3>2. CASE disk' = [disk EXCEPT ![j] = receipt[j]] /\ active' = [active EXCEPT ![j].at = "remove"]
      <4>1. active'[j].at = "remove"
        BY <1>1, <3>2, JobMoved DEF TypeOK
      <4>2. QED
        BY <1>1, <2>2, <3>2, <4>1 DEF TypeOK
    <3>3. QED
      BY <1>5, <3>1, <3>2 DEF PersistSync
  <2>6. active[j].state \in Finals /\ told[j] \notin Finals /\ launches[j] > 0 /\ receipt[j] # None
    BY <1>1, <1>2, <1>5 DEF IdInv, JobState, LaunchedHasReceipt, PersistSync
  <2>7. ASSUME NEW id \in Ids PROVE IdInv(id)'
    <3>1. CASE id # j
      BY <1>2, <1>5, <2>3, <2>4, <3>1 DEF PersistSync, IdInv, LaunchedHasReceipt, JobState, ReceiptDurable, ToldDurable
    <3>2. CASE id = j
      BY <1>1, <1>2, <1>5, <2>2, <2>5, <2>6, <3>2 DEF PersistSync, IdInv, LaunchedHasReceipt, JobState, ReceiptDurable, ToldDurable
    <3>3. QED
      BY <3>1, <3>2
  <2>8. OpInv'
    <3>1. op # None /\ op.at # "check" => op.id \in Ids /\ op.id # j
      BY <1>1, <2>6 DEF IInv, OpInv, TypeOK, Calls
    <3>2. QED
      BY <1>5, <2>3, <3>1 DEF IInv, OpInv, PersistSync, daemon
  <2>9. QED
    BY <1>1, <1>5, <2>3, <2>7, <2>8 DEF IInv, StopInv, PersistSync, daemon
<1>6. CASE Remove(j)
  <2>1. active'[j] = None /\ \A id \in Ids : id # j => active'[id] = active[id]
    BY <1>1, <1>6 DEF Remove, TypeOK
  <2>2. ASSUME NEW id \in Ids PROVE IdInv(id)'
    BY <1>1, <1>2, <1>6, <2>1 DEF Remove, history, IdInv, LaunchedHasReceipt, JobState, ReceiptDurable, ToldDurable
  <2>3. QED
    BY <1>1, <1>6, <2>1, <2>2 DEF IInv, OpInv, StopInv, Remove, daemon
<1>7. QED
  BY <1>3, <1>4, <1>5, <1>6 DEF Run

-----------------------------------------------------------------------------
(* The daemon's start and end, and crashes, keep the invariant. *)

LEMMA DaemonStep ==
    ASSUME IInv, Stop \/ StopReturns \/ Restart \/ Crash \/ PowerLoss PROVE IInv'
<1>1. TypeOK /\ TypeOK' /\ \A id \in Ids : IdInv(id)
  BY DaemonType DEF IInv
<1>2. CASE Stop
  <2>1. ASSUME NEW id \in Ids
        PROVE  /\ active'[id] = None <=> active[id] = None
               /\ active[id] # None => active'[id].at = active[id].at /\ active'[id].state = active[id].state
    <3>1. CASE active[id] = None
      BY <1>2, <3>1 DEF Stop
    <3>2. CASE active[id] # None
      <4>1. active'[id] = [active[id] EXCEPT !.cancelled = TRUE] /\ active[id] \in Jobs
        BY <1>1, <1>2, <3>2 DEF Stop, TypeOK
      <4>2. /\ [active[id] EXCEPT !.cancelled = TRUE] # None
            /\ [active[id] EXCEPT !.cancelled = TRUE].at = active[id].at
            /\ [active[id] EXCEPT !.cancelled = TRUE].state = active[id].state
        BY <4>1, JobCancelled
      <4>3. QED
        BY <3>2, <4>1, <4>2
    <3>3. QED
      BY <3>1, <3>2
  <2>2. ASSUME NEW id \in Ids PROVE IdInv(id)'
    BY <1>1, <1>2, <2>1 DEF Stop, history, IdInv, LaunchedHasReceipt, JobState, ReceiptDurable, ToldDurable
  <2>3. QED
    BY <1>1, <1>2, <2>1, <2>2 DEF IInv, OpInv, StopInv, Stop
<1>3. CASE StopReturns
  <2>1. \A id \in Ids : active[id] # None => id \in unsaved
    BY <1>1, <1>3 DEF StopReturns, IInv, StopInv, IdInv, JobState
  <2>2. ASSUME NEW id \in Ids PROVE IdInv(id)'
    BY <1>1, <1>3, <2>1 DEF StopReturns, Gone, history, IdInv, LaunchedHasReceipt, JobState, ReceiptDurable, ToldDurable
  <2>3. QED
    BY <1>1, <1>3, <2>2 DEF IInv, OpInv, StopInv, StopReturns, Gone
<1>4. CASE Restart
  BY <1>1, <1>4 DEF Restart, history, IInv, OpInv, StopInv, IdInv, LaunchedHasReceipt, JobState, ReceiptDurable, ToldDurable
<1>5. CASE Crash
  <2>1. ASSUME NEW id \in Ids PROVE IdInv(id)'
    BY <1>1, <1>5 DEF Crash, Gone, IdInv, LaunchedHasReceipt, JobState, ReceiptDurable, ToldDurable
  <2>2. QED
    BY <1>1, <1>5, <2>1 DEF IInv, OpInv, StopInv, Crash, Gone
<1>6. CASE PowerLoss
  <2>1. ASSUME NEW id \in Ids PROVE IdInv(id)'
    <3>1. disk'[id] = receipt'[id] /\ receipt'[id] \in {receipt[id], disk[id]} /\ active'[id] = None
      BY <1>6 DEF PowerLoss, Gone
    <3>2. QED
      BY <1>1, <1>6, <3>1 DEF PowerLoss, history, IdInv, LaunchedHasReceipt, JobState, ReceiptDurable, ToldDurable
  <2>2. QED
    BY <1>1, <1>6, <2>1 DEF IInv, OpInv, StopInv, PowerLoss, Gone
<1>7. QED
  BY <1>2, <1>3, <1>4, <1>5, <1>6

-----------------------------------------------------------------------------
\* The invariant holds at the start and is kept by every step of the daemon,
\* its jobs, its clients and its crashes.
THEOREM JobInvariant == Spec => []IInv
<1>1. Init => IInv
  <2>1. SUFFICES ASSUME Init PROVE IInv
    OBVIOUS
  <2>2. TypeOK
    <3>1. crashes \in 0..MaxCrashes
      BY <2>1, JobAssumption DEF Init
    <3>2. QED
      BY <2>1, <3>1 DEF Init, TypeOK
  <2>3. ASSUME NEW id \in Ids PROVE IdInv(id)
    BY <2>1, JobAssumption
       DEF Init, States, IdInv, LaunchedHasReceipt, JobState, ReceiptDurable, ToldDurable
  <2>4. QED
    BY <2>1, <2>2, <2>3 DEF Init, IInv, OpInv, StopInv
<1>2. IInv /\ [Next]_vars => IInv'
  <2>1. SUFFICES ASSUME IInv, [Next]_vars PROVE IInv'
    OBVIOUS
  <2>2. CASE \E kind \in {"start", "get", "cancel"}, id \in Ids, cmd \in Commands :
                 Call(kind, id, cmd)
    <3>1. TypeOK'
      BY <2>1, <2>2 DEF Call, IInv, TypeOK, Calls, daemon, history
    <3>2. QED
      BY <2>1, <2>2, <3>1
         DEF Call, daemon, history, IInv, OpInv, StopInv, IdInv, LaunchedHasReceipt,
             JobState, ReceiptDurable, ToldDurable
  <2>3. CASE Body
    BY <2>1, <2>3, GetStep, StartStep DEF Body
  <2>4. CASE \E id \in Ids : Run(id)
    BY <2>1, <2>4, RunStep
  <2>5. CASE Stop \/ StopReturns \/ Restart \/ Crash \/ PowerLoss
    BY <2>1, <2>5, DaemonStep
  <2>6. CASE UNCHANGED vars
    BY <2>1, <2>6
       DEF vars, IInv, TypeOK, OpInv, StopInv, IdInv, LaunchedHasReceipt, JobState,
           ReceiptDurable, ToldDurable
  <2>7. QED
    BY <2>1, <2>2, <2>3, <2>4, <2>5, <2>6 DEF Next
<1>3. QED
  BY <1>1, <1>2, PTL DEF Spec

\* jobStore keeps its types.
THEOREM JobTypeCorrect == Spec => []TypeOK
<1>1. IInv => TypeOK
  BY DEF IInv
<1>2. QED
  BY <1>1, JobInvariant, PTL

\* A command is launched at most once, for any number of ids, crashes, losses
\* of power and failing writes: reserve before launch suffices.
THEOREM CommandLaunchedOnce == Spec => []LaunchOnce
<1>1. IInv => LaunchOnce
  BY DEF IInv, IdInv, LaunchOnce
<1>2. QED
  BY <1>1, JobInvariant, PTL

\* A final state that a client has read is on disk, unless saving it failed.
THEOREM FinalAnswersDurable == Spec => []FinalIsDurable
<1>1. IInv => FinalIsDurable
  BY DEF IInv, IdInv, ToldDurable, FinalIsDurable
<1>2. QED
  BY <1>1, JobInvariant, PTL
=============================================================================
