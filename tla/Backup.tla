------------------------------- MODULE Backup -------------------------------
(***************************************************************************)
(* Backups of the vault: ExportBackup, RestoreBackup and                   *)
(* PruneBackupDirectory of store/backup.go, the daemon's Backup handler,   *)
(* passphrase custody and scheduler (runtime/server.go), and the commands  *)
(* export-backup and restore-backup.                                       *)
(*                                                                         *)
(* A vault file is [dek, last]: the vault key it is sealed under and the   *)
(* time of the last backup recorded in its state.  The audit log is the    *)
(* sequence of the keys its records are authenticated with.  A backup file *)
(* holds a copy of both, sealed under a passphrase.                        *)
(***************************************************************************)
EXTENDS Naturals, Sequences, FiniteSets

CONSTANTS
    Exporters,     \* goroutines of the daemon and export-backup commands
    BackupPaths,   \* names in the backup directory
    Passphrases,
    SigningKey,    \* HASP_BACKUP_SIGNING_KEY, "": none
    TrustRoots,    \* HASP_BACKUP_TRUST_ROOTS, {}: none
    Keep,          \* backup.retention_count
    Period,        \* backup.schedule, 0: off
    MaxClock,      \* bound: ticks of the clock
    MaxBegun,      \* bound: exports and restores begun
    MaxTroubles    \* bound: calls that fail and crashes

ASSUME BackupAssumption ==
    /\ Keep \in Nat \ {0} /\ Period \in Nat /\ MaxClock \in Nat
    /\ MaxBegun \in Nat /\ MaxTroubles \in Nat
    /\ IsFiniteSet(BackupPaths)

VARIABLES
    vaultFile, auditFile,
    shelf,       \* the backup directory
    custody,     \* the passphrase in the keyring, "": none enrolled
    exporter,    \* what each exporter does
    restore,     \* what the restore-backup command does
    clock, begun, troubles,
    kept,        \* history: the last backup of vault "own" was written under a
                 \* name that nobody was about to prune, it is one of at most
                 \* Keep of its moment, and none was overwritten since
    disturbed    \* history: since the restore began it met a crash or a rollback
                 \* that failed, or an exporter wrote to vault or log

backupVars == <<vaultFile, auditFile, shelf, custody, exporter, restore, clock, begun,
                troubles, kept, disturbed>>

Gone == [dek |-> "", last |-> 0]
NoBackup == [dek |-> ""]
TornBackup == [dek |-> "torn"]
IdleExport == [at |-> "idle"]
IdleRestore == [at |-> "idle"]

Trouble == /\ troubles < MaxTroubles /\ troubles' = troubles + 1
Restoring == restore.at \notin {"idle", "done", "failed"}
WrittenBeside == disturbed' = TRUE

-----------------------------------------------------------------------------
(* Export *)

exporting == <<vaultFile, auditFile, shelf, custody, restore, clock, troubles, kept,
               disturbed>>

\* openRuntimeVaultHandle: the handle keeps the state as it was when it was
\* opened.  The checkpoint it takes of the audit log is left out.
Open(e, path, pass, who) ==
    /\ exporter[e] = IdleExport /\ begun < MaxBegun
    /\ vaultFile # Gone
    /\ begun' = begun + 1
    /\ exporter' = [exporter EXCEPT ![e] =
           [at |-> "read", who |-> who, path |-> path, pass |-> pass, handle |-> vaultFile,
            log |-> <<>>, drop |-> {}]]

\* POST backup.
DaemonBackup(e) ==
    /\ \E path \in BackupPaths, pass \in Passphrases : Open(e, path, pass, "daemon")
    /\ UNCHANGED exporting

\* The export-backup command, which neither prunes nor records the time.
exportBackup(e) ==
    /\ \E path \in BackupPaths, pass \in Passphrases : Open(e, path, pass, "cli")
    /\ UNCHANGED exporting

\* backupScheduleDue on what the handle holds.
backupScheduleDue(last) == Period > 0 /\ (last = 0 \/ (last <= clock /\ clock - last >= Period))

\* A name made of the time, so one that is not in use.
scheduledBackupPath == {path \in BackupPaths : shelf[path] = NoBackup}

runScheduledBackupOnce(e) ==
    /\ custody # ""
    /\ backupScheduleDue(vaultFile.last)
    /\ \E path \in scheduledBackupPath : Open(e, path, custody, "daemon")
    /\ UNCHANGED exporting

\* A key that is not among the roots is refused.
signBackupFile == SigningKey = "" \/ TrustRoots = {} \/ SigningKey \in TrustRoots

ReadAndSign(e) ==
    LET x == exporter[e] IN
    /\ x.at = "read"
    /\ exporter' = [exporter EXCEPT ![e] =
           IF signBackupFile THEN [x EXCEPT !.at = "truncate", !.log = auditFile]
           ELSE IdleExport]
    /\ UNCHANGED <<exporting, begun>>

\* os.WriteFile truncates, then writes: in between the file does not parse.
Truncate(e) ==
    /\ exporter[e].at = "truncate"
    /\ shelf' = [shelf EXCEPT ![exporter[e].path] = TornBackup]
    /\ exporter' = [exporter EXCEPT ![e].at = "write"]
    /\ kept' = (kept /\ shelf[exporter[e].path].dek # "own")
    /\ UNCHANGED <<vaultFile, auditFile, custody, restore, clock, begun, troubles,
                   disturbed>>

AboutToPrune == UNION {exporter[e].drop : e \in {x \in Exporters : exporter[x].at = "prune"}}

\* Backups of vault "own" made at this moment.
MadeNow(files) == {p \in BackupPaths : files[p].dek = "own" /\ files[p].mod = clock}

\* An exporter that is not the daemon is done here.
Write(e) ==
    LET x == exporter[e] IN
    /\ x.at = "write"
    /\ shelf' = [shelf EXCEPT ![x.path] =
           [dek |-> x.handle.dek, vault |-> x.handle, log |-> x.log, pass |-> x.pass,
            sig |-> SigningKey, mod |-> clock]]
    /\ auditFile' = Append(auditFile, x.handle.dek)
    /\ exporter' = [exporter EXCEPT ![e] =
           IF x.who = "cli" THEN IdleExport ELSE [x EXCEPT !.at = "list"]]
    /\ kept' = IF x.handle.dek = "own"
               THEN x.path \notin AboutToPrune /\ Cardinality(MadeNow(shelf')) <= Keep
               ELSE kept /\ shelf[x.path].dek # "own"
    /\ WrittenBeside
    /\ UNCHANGED <<vaultFile, custody, restore, clock, begun, troubles>>

\* Mutant: oldest first.
Stale_Newest(own, drop) ==
    /\ drop \subseteq own
    /\ Cardinality(own \ drop) = Keep
    /\ \A p \in drop, q \in own \ drop : shelf[p].mod >= shelf[q].mod

\* candidates[keep:] of the files of this vault, newest first (files of one
\* moment in any order).
Stale(own, drop) ==
    /\ drop \subseteq own
    /\ Cardinality(own \ drop) = Keep
    /\ \A p \in drop, q \in own \ drop : shelf[p].mod <= shelf[q].mod

readBackupVaultID(p) == shelf[p].dek

\* BackupSignatureStatusForFile and PruneBackupDirectory read the directory: a
\* file that does not parse ends the request with an error.
ListStale(e) ==
    LET x == exporter[e]
        own == {p \in BackupPaths : readBackupVaultID(p) = x.handle.dek}
    IN  /\ x.at = "list"
        /\ IF \E p \in BackupPaths : shelf[p] = TornBackup
           THEN exporter' = [exporter EXCEPT ![e] = IdleExport]
           ELSE IF Cardinality(own) <= Keep THEN exporter' = [exporter EXCEPT ![e].at = "config"]
           ELSE \E drop \in SUBSET own :
                    /\ Stale(own, drop)
                    /\ exporter' = [exporter EXCEPT ![e] = [x EXCEPT !.at = "prune", !.drop = drop]]
        /\ UNCHANGED <<exporting, begun>>

Prune(e) ==
    LET x == exporter[e] IN
    /\ x.at = "prune"
    /\ IF x.drop = {} THEN exporter' = [exporter EXCEPT ![e].at = "config"] /\ UNCHANGED shelf
       ELSE \E p \in x.drop :
                /\ shelf' = [shelf EXCEPT ![p] = NoBackup]
                /\ exporter' = [exporter EXCEPT ![e].drop = @ \ {p}]
    /\ UNCHANGED <<vaultFile, auditFile, custody, restore, clock, begun, troubles,
                   kept, disturbed>>

\* SetConfigValue of last_backup_at: it reads the vault again and gives up when
\* the handle's key does not open it; the outcome is ignored.
RecordBackup(e) ==
    LET x == exporter[e] IN
    /\ x.at = "config"
    /\ IF vaultFile.dek = x.handle.dek
       THEN /\ vaultFile' = [vaultFile EXCEPT !.last = clock]
            /\ auditFile' = Append(auditFile, vaultFile.dek)
            /\ WrittenBeside
       ELSE UNCHANGED <<vaultFile, auditFile, disturbed>>
    /\ exporter' = [exporter EXCEPT ![e] = IdleExport]
    /\ UNCHANGED <<shelf, custody, restore, clock, begun, troubles, kept>>

\* A call fails, or the process dies: a file cut off stays in the directory.
ExportFails(e) ==
    /\ exporter[e] # IdleExport
    /\ Trouble
    /\ exporter' = [exporter EXCEPT ![e] = IdleExport]
    /\ UNCHANGED <<vaultFile, auditFile, shelf, custody, restore, clock, begun,
                   kept, disturbed>>

-----------------------------------------------------------------------------
(* Custody of the passphrase of scheduled backups *)

SetBackupPassphrase ==
    /\ custody = ""
    /\ custody' \in Passphrases
    /\ UNCHANGED <<vaultFile, auditFile, shelf, exporter, restore, clock, begun,
                   troubles, kept, disturbed>>

DeleteBackupPassphrase ==
    /\ custody # "" /\ custody' = ""
    /\ UNCHANGED <<vaultFile, auditFile, shelf, exporter, restore, clock, begun,
                   troubles, kept, disturbed>>

-----------------------------------------------------------------------------
(* Restore *)

restoring == <<shelf, custody, exporter, clock, kept>>

\* readPassphrase: exactly one source, and not an empty passphrase.
readPassphrase(sources) == Cardinality(sources) = 1

verifyBackupFileSignature(sig) == IF sig = "" THEN TrustRoots = {} ELSE sig \in TrustRoots

\* Everything that is checked before the first write.
Admissible(file, pass) ==
    /\ file \notin {NoBackup, TornBackup}
    /\ verifyBackupFileSignature(file.sig)
    /\ file.pass = pass

RestoreBackup ==
    /\ ~Restoring /\ begun < MaxBegun
    /\ begun' = begun + 1
    /\ disturbed' = FALSE
    /\ \E p \in BackupPaths, pass \in Passphrases, sources \in SUBSET {"stdin", "fd", "env"} :
           restore' = IF readPassphrase(sources) /\ Admissible(shelf[p], pass)
                      THEN [at |-> "snapshot", file |-> shelf[p], snapVault |-> vaultFile,
                            snapLog |-> <<>>]
                      ELSE [at |-> "failed", snapVault |-> vaultFile, snapLog |-> auditFile]
    /\ UNCHANGED <<restoring, vaultFile, auditFile, troubles>>

Step(field) == restore' = [restore EXCEPT !.at = field]

\* createPreRestoreSnapshot; when it fails there is nothing to roll back.
createPreRestoreSnapshot ==
    /\ restore.at = "snapshot"
    /\ restore' = [restore EXCEPT !.at = "vault", !.snapVault = vaultFile, !.snapLog = auditFile]
    /\ UNCHANGED <<restoring, vaultFile, auditFile, begun, troubles, disturbed>>

\* writeEnvelope replaces the file in one step (see VaultEnvelope).
RestoreVault ==
    /\ restore.at = "vault"
    /\ vaultFile' = restore.file.vault
    /\ Step("log")
    /\ UNCHANGED <<restoring, auditFile, begun, troubles, disturbed>>

\* A backup without an audit log leaves the one there is.
RestoreLog ==
    /\ restore.at = "log"
    /\ auditFile' = IF restore.file.log = <<>> THEN auditFile ELSE restore.file.log
    /\ Step("append")
    /\ UNCHANGED <<restoring, vaultFile, begun, troubles, disturbed>>

\* The restore record; then the restore is committed.
AppendRestore ==
    /\ restore.at = "append"
    /\ auditFile' = Append(auditFile, restore.file.dek)
    /\ Step("done")
    /\ UNCHANGED <<restoring, vaultFile, begun, troubles, disturbed>>

\* A call fails: a write of the log may have cut it off.
RestoreFails ==
    /\ Restoring /\ restore.at \notin {"rollback", "rollbackLog"}
    /\ Trouble
    /\ Step(IF restore.at = "snapshot" THEN "snapFailed" ELSE "rollback")
    /\ auditFile' \in IF restore.at = "log" THEN {auditFile, <<>>} ELSE {auditFile}
    /\ UNCHANGED <<restoring, vaultFile, begun, disturbed>>

SnapshotFailed ==
    /\ restore.at = "snapFailed"
    /\ restore' = [restore EXCEPT !.at = "failed", !.snapVault = vaultFile, !.snapLog = auditFile]
    /\ UNCHANGED <<restoring, vaultFile, auditFile, begun, troubles, disturbed>>

\* restorePreRestoreSnapshot: what was not there is removed; the first error
\* ends it, and nobody hears of it.
RollBackVault ==
    /\ restore.at = "rollback"
    /\ \/ vaultFile' = restore.snapVault /\ Step("rollbackLog") /\ UNCHANGED <<troubles, disturbed>>
       \/ Trouble /\ Step("failed") /\ disturbed' = TRUE /\ UNCHANGED vaultFile
    /\ UNCHANGED <<restoring, auditFile, begun>>

rollBackLog_Kept(log) == IF log = <<>> THEN auditFile ELSE log

rollBackLog(log) == log

RollBackLog ==
    /\ restore.at = "rollbackLog"
    /\ \/ auditFile' = rollBackLog(restore.snapLog) /\ Step("failed") /\ UNCHANGED <<troubles, disturbed>>
       \/ Trouble /\ Step("failed") /\ disturbed' = TRUE /\ UNCHANGED auditFile
    /\ UNCHANGED <<restoring, vaultFile, begun>>

\* The command dies: the snapshot directory stays, nothing is rolled back.
RestoreCrash ==
    /\ Restoring
    /\ Trouble
    /\ restore' = [restore EXCEPT !.at = "failed"]
    /\ disturbed' = TRUE
    /\ UNCHANGED <<restoring, vaultFile, auditFile, begun>>

BackupTick ==
    /\ clock < MaxClock /\ clock' = clock + 1
    /\ UNCHANGED <<vaultFile, auditFile, shelf, custody, exporter, restore, begun,
                   troubles, kept, disturbed>>

-----------------------------------------------------------------------------
\* A home with or without a vault, and a directory that holds one backup, of
\* this vault or of another, with or without an audit log in it.
BackupInit ==
    /\ vaultFile \in {Gone, [dek |-> "own", last |-> 0]}
    /\ auditFile = IF vaultFile = Gone THEN <<>> ELSE <<"own">>
    /\ \E p \in BackupPaths, dek \in {"own", "other"}, logged \in BOOLEAN, sig \in TrustRoots \cup {""}, pass \in Passphrases :
           shelf = [q \in BackupPaths |-> IF q # p THEN NoBackup
                       ELSE [dek |-> dek, vault |-> [dek |-> dek, last |-> 0],
                             log |-> IF logged THEN <<dek>> ELSE <<>>, pass |-> pass, sig |-> sig, mod |-> 0]]
    /\ custody = ""
    /\ exporter = [e \in Exporters |-> IdleExport]
    /\ restore = IdleRestore
    /\ clock = 1 /\ begun = 0 /\ troubles = 0
    /\ kept = FALSE /\ disturbed = FALSE

BackupNext ==
    \/ \E e \in Exporters :
           \/ DaemonBackup(e) \/ exportBackup(e) \/ runScheduledBackupOnce(e)
           \/ ReadAndSign(e) \/ Truncate(e) \/ Write(e) \/ ListStale(e) \/ Prune(e)
           \/ RecordBackup(e) \/ ExportFails(e)
    \/ SetBackupPassphrase \/ DeleteBackupPassphrase
    \/ RestoreBackup \/ createPreRestoreSnapshot \/ RestoreVault \/ RestoreLog \/ AppendRestore
    \/ RestoreFails \/ SnapshotFailed \/ RollBackVault \/ RollBackLog \/ RestoreCrash
    \/ BackupTick

BackupSpec == BackupInit /\ [][BackupNext]_backupVars

-----------------------------------------------------------------------------
(* Properties *)

\* A restore is all or nothing.  When it has succeeded, vault and audit log are
\* those of the backup and the log ends with the restore's own record; when it
\* has failed at any step, both are what they were before.  Except that nothing
\* puts them back after a crash of the command or a rollback that fails itself,
\* and that what the daemon writes meanwhile may be lost or mixed in.
RestoreAllOrNothing ==
    ~disturbed =>
        /\ restore.at = "done" =>
               /\ vaultFile = restore.file.vault
               /\ auditFile = Append(IF restore.file.log = <<>> THEN restore.snapLog ELSE restore.file.log,
                                     restore.file.dek)
        /\ restore.at = "failed" => vaultFile = restore.snapVault /\ auditFile = restore.snapLog

\* Backups can be relied on: a restore is all or nothing, and retention never
\* takes the last backup of a vault, however many exports list the directory and
\* prune it at once.  Three things it does not withstand: more than Keep backups
\* of one moment, of which two exports keep different ones; a backup under a name
\* that another export has listed to be removed; and an export that overwrites a
\* backup in place and is cut off.
BackupsServe ==
    /\ RestoreAllOrNothing
    /\ kept => \E p \in BackupPaths : shelf[p].dek = "own"
=============================================================================
