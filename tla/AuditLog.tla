----------------------------- MODULE AuditLog -----------------------------
(***************************************************************************)
(* The hash-chained audit log (internal/audit): the daemon's long-lived    *)
(* Log with its cache, the Logs that CLI processes make for one event, the *)
(* daemon's adoption of an HMAC key (runtime/server.go) and the recovery   *)
(* command that archives a degraded log (app/secrets.go).                  *)
(*                                                                         *)
(* A file is the sequence of its lines.  The hash of an event is its       *)
(* number: no two events have the same.  A keyed event carries the name of *)
(* its key and verifies under that key only.                               *)
(***************************************************************************)
EXTENDS Integers, Sequences, FiniteSets

CONSTANTS
    Daemons,    \* Logs that live on and keep a cache (one per process)
    Clis,       \* processes that make a new Log for every event
    Keys,       \* HMAC keys a client may present
    VaultKey,   \* the one derived from the vault key
    Dirs,       \* recovery directories
    Cuts,       \* how a failed write may end: "none", "part", "newline"
    MaxEvents,  \* bound on the events written or tried
    MaxFaults,  \* bound on failed writes and crashes
    NoValue

Writers == Daemons \cup Clis

ASSUME AuditAssumption ==
    /\ Daemons \cap Clis = {}
    /\ VaultKey \in Keys /\ NoValue \notin Keys \cup Writers \cup Dirs
    /\ Cuts \subseteq {"none", "part", "newline"}
    /\ MaxEvents \in Nat /\ MaxFaults \in Nat

VARIABLES
    files,   \* every file there has been, as a sequence of lines
    path,    \* which of them audit.jsonl names, 0 when none does
    arch,    \* which of them audit.jsonl in a recovery directory names
    moved,   \* history: "no"; a recovery has "archived" a log; or "unsafe": it
             \* has put an archive back or renamed a log over another archive
    flock,   \* the writer that holds audit.jsonl.lock
    wr,      \* each writer's Log and place in its operation
    inst,    \* the key a daemon is being offered and the events it has read
    events,  \* events made so far
    acked,   \* events whose Append returned success
    faults   \* failed writes and crashes so far

logVars == <<files, path, arch, moved, flock, wr, inst, events, acked, faults>>

(* ok is FALSE for a line that does not decode; nl is FALSE for a last     *)
(* line without its newline; mark is the digest a recovery marker records: *)
(* the directory and the archived lines.                                   *)
BadLine(nl) == [ok |-> FALSE, seq |-> 0, prev |-> 0, hash |-> 0,
                scheme |-> NoValue, nl |-> nl, mark |-> NoValue]

IdleWriter == [pc |-> "idle", op |-> NoValue, last |-> 0, seq |-> 0, ino |-> 0,
         dir |-> NoValue, snap |-> NoValue, hash |-> 0, cache |-> NoValue, key |-> NoValue]

LogInit ==
    /\ files = <<>>
    /\ path = 0
    /\ arch = [d \in Dirs |-> 0]
    /\ moved = "no"
    /\ flock = NoValue
    /\ wr = [w \in Writers |-> IdleWriter]
    /\ inst = [d \in Daemons |-> NoValue]
    /\ events = 0
    /\ acked = {}
    /\ faults = 0

-----------------------------------------------------------------------------
(* Reading *)

Active == IF path = 0 THEN <<>> ELSE files[path]

Decodes(f) == \A i \in DOMAIN f : f[i].ok

(* VerifyDetailed accepts line i after the lines before it. *)
LineVerifies(f, i, key) ==
    /\ f[i].ok
    /\ f[i].seq = i
    /\ f[i].prev = IF i = 1 THEN 0 ELSE f[i - 1].hash
    /\ f[i].scheme \in {NoValue, key}

(* The lines before the first one VerifyDetailed rejects. *)
Verified(f, key) ==
    {i \in DOMAIN f : \A j \in 1 .. i : LineVerifies(f, j, key)}

VerifyOK(f, key) == Verified(f, key) = DOMAIN f

HasKeyed(f) == \E i \in DOMAIN f : f[i].scheme # NoValue

(* hasKeyedAuditEventBefore: a keyed event with a number below that of the *)
(* first corruption of the file now.                                       *)
KeyedBefore(f, now, key) ==
    \E i \in DOMAIN f :
        /\ f[i].scheme # NoValue
        /\ f[i].seq <= Cardinality(Verified(now, key))

(* Mutant: another process's appends do not invalidate the cache. *)
cacheHit_Forever(w) ==
    /\ wr[w].cache # NoValue
    /\ path # 0
    /\ wr[w].cache.ino = path

(* The cache serves while stat reports the file it was filled from. *)
cacheHit(w) ==
    /\ wr[w].cache # NoValue
    /\ path # 0
    /\ wr[w].cache.ino = path
    /\ wr[w].cache.lines = files[path]

(* readLastLocked succeeds. *)
readable(w) == cacheHit(w) \/ Decodes(Active)

(* What readLastLocked returns: the last event and its number, which is    *)
(* the cached event's own or the count of the lines.                       *)
readLast(w) ==
    IF cacheHit(w)
    THEN [last |-> wr[w].cache.last, seq |-> wr[w].cache.seq]
    ELSE [last |-> IF Active = <<>> THEN 0 ELSE Active[Len(Active)].hash,
          seq |-> Len(Active)]

(* What readLastLocked leaves in a Log that lives on. *)
scanned(w) ==
    IF w \notin Daemons \/ Active = <<>> THEN NoValue
    ELSE IF cacheHit(w) THEN wr[w].cache
    ELSE [ino |-> path, lines |-> Active, last |-> Active[Len(Active)].hash,
          seq |-> Active[Len(Active)].seq]

-----------------------------------------------------------------------------
(* Append *)

(* Operation op of writer w is about to call Append. *)
Calls(w, op) == [wr[w] EXCEPT !.pc = "start", !.op = op]

Returned(w) == [wr[w] EXCEPT !.pc = "idle", !.op = NoValue, !.last = 0, !.seq = 0,
                             !.ino = 0, !.hash = 0, !.dir = NoValue, !.snap = NoValue]

(* A failed marker makes the recovery put the archive back. *)
Errored(w) ==
    IF wr[w].op = "marker" THEN [wr[w] EXCEPT !.pc = "restore"] ELSE Returned(w)

AppendEvent(w) ==
    /\ wr[w].pc = "idle"
    /\ events < MaxEvents
    /\ wr' = [wr EXCEPT ![w] = Calls(w, "event")]
    /\ UNCHANGED <<files, path, moved, arch, flock, inst, events, acked, faults>>

(* The file lock is taken and the last event is read under it; a log that  *)
(* does not decode refuses the event.                                      *)
LockAndRead(w) ==
    /\ wr[w].pc = "start"
    /\ flock = NoValue
    /\ IF readable(w)
       THEN /\ flock' = w
            /\ wr' = [wr EXCEPT ![w] =
                        [@ EXCEPT !.pc = "locked",
                                  !.last = readLast(w).last,
                                  !.seq = readLast(w).seq,
                                  !.cache = scanned(w)]]
       ELSE /\ wr' = [wr EXCEPT ![w] = Errored(w)]
            /\ UNCHANGED flock
    /\ UNCHANGED <<files, path, moved, arch, inst, events, acked, faults>>

(* O_CREATE: a log that was renamed away meanwhile is made anew. *)
OpenFile(w) ==
    /\ wr[w].pc = "locked"
    /\ IF path = 0
       THEN /\ files' = Append(files, <<>>)
            /\ path' = Len(files) + 1
       ELSE UNCHANGED <<files, path>>
    /\ wr' = [wr EXCEPT ![w] = [@ EXCEPT !.pc = "opened", !.ino = path']]
    /\ UNCHANGED <<moved, arch, flock, inst, events, acked, faults>>

(* The event Append makes: keyed when the Log has a key. *)
NewLine(w, nl) ==
    [ok |-> TRUE, seq |-> wr[w].seq + 1, prev |-> wr[w].last,
     hash |-> events + 1, scheme |-> wr[w].key, nl |-> nl,
     mark |-> IF wr[w].op = "marker"
              THEN [dir |-> wr[w].dir, lines |-> wr[w].snap] ELSE NoValue]

(* O_APPEND: bytes go to the end of the file, onto its last line when that *)
(* one has no newline.                                                     *)
AddLine(f, line) ==
    IF f # <<>> /\ ~f[Len(f)].nl
    THEN [f EXCEPT ![Len(f)] = BadLine(line.nl)]
    ELSE Append(f, line)

WriteEvent(w) ==
    /\ wr[w].pc = "opened"
    /\ events < MaxEvents
    /\ events' = events + 1
    /\ files' = [files EXCEPT ![wr[w].ino] = AddLine(@, NewLine(w, TRUE))]
    /\ wr' = [wr EXCEPT ![w] = [@ EXCEPT !.pc = "written", !.hash = events + 1]]
    /\ UNCHANGED <<path, moved, arch, flock, inst, acked, faults>>

(* The write fails with nothing, a part, or all but the newline written.   *)
WriteFails(w) ==
    /\ wr[w].pc = "opened"
    /\ events < MaxEvents
    /\ faults < MaxFaults
    /\ faults' = faults + 1
    /\ events' = events + 1
    /\ \E cut \in Cuts :
         files' = CASE cut = "none" -> files
                    [] cut = "part" ->
                         [files EXCEPT ![wr[w].ino] = AddLine(@, BadLine(FALSE))]
                    [] cut = "newline" ->
                         [files EXCEPT ![wr[w].ino] = AddLine(@, NewLine(w, FALSE))]
    /\ flock' = NoValue
    /\ wr' = [wr EXCEPT ![w] = Errored(w)]
    /\ UNCHANGED <<path, moved, arch, inst, acked>>

(* cacheEvent asks stat about the path, not about the open file. *)
cacheEvent(w) ==
    IF path = 0 \/ w \notin Daemons THEN NoValue
    ELSE [ino |-> path, lines |-> files[path], last |-> wr[w].hash,
          seq |-> wr[w].seq + 1]

Finish(w) ==
    /\ wr[w].pc = "written"
    /\ flock' = NoValue
    /\ acked' = acked \cup {wr[w].hash}
    /\ wr' = [wr EXCEPT ![w] = [Returned(w) EXCEPT !.cache = cacheEvent(w)]]
    /\ UNCHANGED <<files, path, moved, arch, inst, events, faults>>

-----------------------------------------------------------------------------
(* Keys *)

(* A CLI process unlocks the vault: it sets its key and seeds a log that   *)
(* has no keyed event yet.                                                 *)
EnsureKeyedChainSeed(c) ==
    /\ wr[c].pc = "idle"
    /\ wr[c].key = NoValue
    /\ events < MaxEvents
    /\ wr' = [wr EXCEPT ![c] =
                [(IF Decodes(Active) /\ ~HasKeyed(Active)
                  THEN Calls(c, "event") ELSE wr[c]) EXCEPT !.key = VaultKey]]
    /\ UNCHANGED <<files, path, moved, arch, flock, inst, events, acked, faults>>

(* OpenSession offers the daemon a key: the events are read once, and the  *)
(* log is verified by a second reading of the file.                        *)
InstallRead(d, k) ==
    /\ inst[d] = NoValue
    /\ wr[d].key # k
    /\ Decodes(Active)
    /\ HasKeyed(Active)
    /\ inst' = [inst EXCEPT ![d] = [key |-> k, seen |-> Active]]
    /\ UNCHANGED <<files, path, moved, arch, flock, wr, events, acked, faults>>

keyAccepted(k, seen) ==
    VerifyOK(Active, k) \/ KeyedBefore(seen, Active, k)

InstallKey(d) ==
    /\ inst[d] # NoValue
    /\ inst' = [inst EXCEPT ![d] = NoValue]
    /\ wr' = IF keyAccepted(inst[d].key, inst[d].seen)
             THEN [wr EXCEPT ![d].key = inst[d].key] ELSE wr
    /\ UNCHANGED <<files, path, moved, arch, flock, events, acked, faults>>

-----------------------------------------------------------------------------
(* hasp audit recover *)

(* The log is verified and read, and the directory is found empty; --force *)
(* goes on although the chain verifies.                                    *)
RecoverRead(c, dir, force) ==
    /\ wr[c].pc = "idle"
    /\ events < MaxEvents
    /\ path # 0
    /\ force \/ ~VerifyOK(Active, wr[c].key)
    /\ arch[dir] = 0
    /\ wr' = [wr EXCEPT ![c] = [@ EXCEPT !.pc = "archive", !.op = "marker",
                                         !.dir = dir, !.snap = Active]]
    /\ UNCHANGED <<files, path, moved, arch, flock, inst, events, acked, faults>>

(* The rename takes no lock; it fails when the log is gone, and replaces   *)
(* an archive that is there by now.                                        *)
Archive(c) ==
    /\ wr[c].pc = "archive"
    /\ IF path = 0
       THEN /\ wr' = [wr EXCEPT ![c] = Returned(c)]
            /\ UNCHANGED <<path, arch, moved>>
       ELSE /\ moved' = IF arch[wr[c].dir] # 0 \/ moved = "unsafe" THEN "unsafe" ELSE "archived"
            /\ arch' = [arch EXCEPT ![wr[c].dir] = path]
            /\ path' = 0
            /\ wr' = [wr EXCEPT ![c].pc = "start"]
    /\ UNCHANGED <<files, flock, inst, events, acked, faults>>

(* The archive is renamed back over whatever the path names by now. *)
Restore(c) ==
    /\ wr[c].pc = "restore"
    /\ moved' = "unsafe"
    /\ path' = arch[wr[c].dir]
    /\ arch' = [arch EXCEPT ![wr[c].dir] = 0]
    /\ wr' = [wr EXCEPT ![c] = Returned(c)]
    /\ UNCHANGED <<files, flock, inst, events, acked, faults>>

-----------------------------------------------------------------------------
(* A process ends: its Log, its key and its flock are gone. *)
Crash(w) ==
    /\ wr[w] # IdleWriter
    /\ faults < MaxFaults
    /\ faults' = faults + 1
    /\ wr' = [wr EXCEPT ![w] = IdleWriter]
    /\ flock' = IF flock = w THEN NoValue ELSE flock
    /\ inst' = IF w \in Daemons THEN [inst EXCEPT ![w] = NoValue] ELSE inst
    /\ UNCHANGED <<files, path, moved, arch, events, acked>>

LogNext ==
    \/ \E w \in Writers :
         \/ AppendEvent(w)
         \/ LockAndRead(w)
         \/ OpenFile(w)
         \/ WriteEvent(w)
         \/ WriteFails(w)
         \/ Finish(w)
         \/ Crash(w)
    \/ \E d \in Daemons :
         \/ InstallKey(d)
         \/ \E k \in Keys : InstallRead(d, k)
    \/ \E c \in Clis :
         \/ EnsureKeyedChainSeed(c)
         \/ Archive(c)
         \/ Restore(c)
         \/ \E dir \in Dirs, force \in BOOLEAN : RecoverRead(c, dir, force)

LogSpec == LogInit /\ [][LogNext]_logVars

-----------------------------------------------------------------------------
(* While no recovery has moved a log, every event whose Append returned    *)
(* success is in the part of it that verifies under the vault's key, and   *)
(* the daemon signs with no other key: writers of several processes do not *)
(* fork the chain, a cached last event is never stale, nothing is accepted *)
(* behind a line that was cut off, and no offered key is taken on a log it *)
(* does not verify.  Through recoveries that race with appends, failed     *)
(* writes and crashes such an event is in the log or in an archive; only a *)
(* recovery that fails and renames the archive back, or two of them into   *)
(* one directory, may lose one.                                            *)
AckedVerifies ==
    /\ moved = "no" =>
        /\ \A h \in acked : \E i \in Verified(Active, VaultKey) : Active[i].hash = h
        /\ \A d \in Daemons : wr[d].key \in {NoValue, VaultKey}
    /\ moved # "unsafe" =>
        \A h \in acked : \E i \in ({path} \cup {arch[d] : d \in Dirs}) \ {0} :
            \E j \in DOMAIN files[i] : files[i][j].ok /\ files[i][j].hash = h
=============================================================================
