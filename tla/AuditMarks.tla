---------------------------- MODULE AuditMarks ----------------------------
(***************************************************************************)
(* The daemon's health marks for the audit log (runtime/audit_state.go),   *)
(* set by appends, reads and verifications (runtime/server.go).            *)
(*                                                                         *)
(* An append or a verification happens outside the mutex of the marks and  *)
(* reports afterwards, so reports can come in another order than what they *)
(* report.  Times are left out: a mark is there or not.                    *)
(***************************************************************************)
EXTENDS Naturals

CONSTANT Reporters   \* goroutines that append, read or verify

VARIABLES
    writable,   \* whether an append or a read of the log succeeds
    damaged,    \* whether the chain of the log is broken
    logger,     \* whether newRuntimeAuditLog gave the daemon a log
    appendDegradedAt, verifyDegradedAt, lastVerifiedAt,   \* AuditState: set or not
    cached,     \* auditVerifyCached: "none", "ok" or "failed"
    report        \* what each worker is about to report

marksVars == <<writable, damaged, logger, appendDegradedAt, verifyDegradedAt,
               lastVerifiedAt, cached, report>>

Outcomes == {"idle", "appended", "append failed", "read failed",
             "verified", "corrupt", "cache ok", "cache failed"}

MarksTypeOK ==
    /\ writable \in BOOLEAN /\ damaged \in BOOLEAN /\ logger \in BOOLEAN
    /\ appendDegradedAt \in BOOLEAN /\ verifyDegradedAt \in BOOLEAN
    /\ lastVerifiedAt \in BOOLEAN /\ cached \in {"none", "ok", "failed"}
    /\ report \in [Reporters -> Outcomes]

-----------------------------------------------------------------------------
(* What happens to the file *)

DiskFails == writable /\ writable' = FALSE
             /\ UNCHANGED <<damaged, logger, appendDegradedAt, verifyDegradedAt,
                            lastVerifiedAt, cached, report>>

DiskRecovers == ~writable /\ writable' = TRUE
                /\ UNCHANGED <<damaged, logger, appendDegradedAt, verifyDegradedAt,
                               lastVerifiedAt, cached, report>>

LogDamaged == ~damaged /\ damaged' = TRUE
              /\ UNCHANGED <<writable, logger, appendDegradedAt, verifyDegradedAt,
                             lastVerifiedAt, cached, report>>

-----------------------------------------------------------------------------
(* The operations, up to what they are about to report *)

\* appendAudit, appendPeerRejectAudit: without a log the report is an error.
AppendRecord(w) ==
    /\ report[w] = "idle"
    /\ report' = [report EXCEPT ![w] =
           IF logger /\ writable THEN "appended" ELSE "append failed"]
    /\ UNCHANGED <<writable, damaged, logger, appendDegradedAt, verifyDegradedAt,
                   lastVerifiedAt, cached>>

\* appendDaemonSecurityAudit opens a log of its own.
SecurityAppend(w) ==
    /\ report[w] = "idle"
    /\ report' = [report EXCEPT ![w] = IF writable THEN "appended" ELSE "append failed"]
    /\ UNCHANGED <<writable, damaged, logger, appendDegradedAt, verifyDegradedAt,
                   lastVerifiedAt, cached>>

\* auditListSnapshot, auditExportNDJSON: only a failure is reported.
List(w) ==
    /\ report[w] = "idle" /\ logger /\ ~writable
    /\ report' = [report EXCEPT ![w] = "read failed"]
    /\ UNCHANGED <<writable, damaged, logger, appendDegradedAt, verifyDegradedAt,
                   lastVerifiedAt, cached>>

\* auditVerifySnapshot(true): the log is read outside the mutex.
Verify(w) ==
    /\ report[w] = "idle" /\ logger
    /\ report' = [report EXCEPT ![w] = CASE ~writable            -> "read failed"
                                     [] writable /\ damaged  -> "corrupt"
                                     [] writable /\ ~damaged -> "verified"]
    /\ UNCHANGED <<writable, damaged, logger, appendDegradedAt, verifyDegradedAt,
                   lastVerifiedAt, cached>>

-----------------------------------------------------------------------------
(* AuditState *)

RecordAppendResult(w) ==
    /\ report[w] \in {"appended", "append failed", "read failed"}
    /\ appendDegradedAt' = (report[w] # "appended")
    /\ report' = [report EXCEPT ![w] = "idle"]
    /\ UNCHANGED <<writable, damaged, logger, verifyDegradedAt, lastVerifiedAt, cached>>

MarkVerifyFailedAt_Missing(w) ==
    /\ report[w] = "corrupt"
    /\ report' = [report EXCEPT ![w] = "cache failed"]
    /\ UNCHANGED <<writable, damaged, logger, appendDegradedAt, verifyDegradedAt,
                   lastVerifiedAt, cached>>

MarkVerifyFailedAt(w) ==
    /\ report[w] = "corrupt"
    /\ verifyDegradedAt' = TRUE
    /\ report' = [report EXCEPT ![w] = "cache failed"]
    /\ UNCHANGED <<writable, damaged, logger, appendDegradedAt, lastVerifiedAt, cached>>

MarkVerifiedAt(w) ==
    /\ report[w] = "verified"
    /\ lastVerifiedAt' = TRUE /\ verifyDegradedAt' = FALSE
    /\ report' = [report EXCEPT ![w] = "cache ok"]
    /\ UNCHANGED <<writable, damaged, logger, appendDegradedAt, cached>>

Cache(w) ==
    /\ report[w] \in {"cache ok", "cache failed"}
    /\ cached' = IF report[w] = "cache ok" THEN "ok" ELSE "failed"
    /\ report' = [report EXCEPT ![w] = "idle"]
    /\ UNCHANGED <<writable, damaged, logger, appendDegradedAt, verifyDegradedAt,
                   lastVerifiedAt>>

\* AuditState.Snapshot, and audit_health of the status.
Degraded == appendDegradedAt \/ verifyDegradedAt

-----------------------------------------------------------------------------
\* newRPCServer: MarkDegradedAt when there is no log.
MarksInit ==
    /\ writable = TRUE /\ damaged = FALSE
    /\ logger \in BOOLEAN /\ appendDegradedAt = ~logger
    /\ verifyDegradedAt = FALSE /\ lastVerifiedAt = FALSE
    /\ cached = "none" /\ report = [w \in Reporters |-> "idle"]

Report(w) == RecordAppendResult(w) \/ MarkVerifyFailedAt(w) \/ MarkVerifiedAt(w) \/ Cache(w)

MarksNext ==
    \/ DiskFails \/ DiskRecovers \/ LogDamaged
    \/ \E w \in Reporters : AppendRecord(w) \/ SecurityAppend(w) \/ List(w) \/ Verify(w)
    \/ \E w \in Reporters : Report(w)

\* What was begun is reported, and requests that append and verify keep coming.
MarksFairness ==
    \A w \in Reporters : /\ WF_marksVars(Report(w))
                       /\ SF_marksVars(AppendRecord(w)) /\ SF_marksVars(Verify(w))

-----------------------------------------------------------------------------
(* Properties *)

\* A log whose chain is broken for good is reported as degraded for good, also
\* when a verification that read it before the damage reports last and clears
\* the mark once.
FailureSurfaces == logger /\ <>[]damaged /\ <>[]writable => <>[]verifyDegradedAt
=============================================================================
