----------------------------- MODULE SafetyGuard -----------------------------
(***************************************************************************)
(* The safety guard (actuator/src/safety_guard.cpp): every command passes  *)
(* its validation before it may touch the GPU or the scheduler.            *)
(*                                                                         *)
(* m_actionTimestamps is a vector of times.  Here it is a function to      *)
(* times, whose keys tell equal times apart: the stamp pushed by the       *)
(* approval that made m_approvedCount = k has key k.  Erasing elements     *)
(* restricts the function; size() is the cardinality of its domain.        *)
(* m_auditFile is represented by the number of entries written to it.      *)
(* The service runs on when it cannot be opened, and then writes none.     *)
(***************************************************************************)
EXTENDS Clock, Integers, FiniteSets, ActionTypes

CONSTANTS
  Window,                   \* one second, in ticks
  max_actions_per_second,
  max_thread_priority,
  max_tgp_boost_w,
  min_confidence,           \* in thousandths
  AuditOpens                \* the outcomes of opening the audit file

ASSUME GuardAssumption ==
  /\ Window \in Nat
  /\ max_actions_per_second \in Nat
  /\ max_thread_priority \in Nat
  /\ max_tgp_boost_w \in Nat
  /\ min_confidence \in 0..1000
  /\ AuditOpens \subseteq BOOLEAN

VARIABLES
  m_actionTimestamps,       \* approvals still remembered by the rate limiter
  m_approvedCount,
  m_rejectedCount,
  m_auditFile,              \* number of entries written
  auditing                  \* enable_audit_log, and m_auditFile.is_open()

guardVars == <<m_actionTimestamps, m_approvedCount, m_rejectedCount, m_auditFile, auditing>>

GuardTypeOK ==
  /\ m_approvedCount \in Nat
  /\ m_rejectedCount \in Nat
  /\ m_auditFile \in Nat
  /\ auditing \in BOOLEAN
  /\ m_actionTimestamps \in [DOMAIN m_actionTimestamps -> 0..now]
  /\ DOMAIN m_actionTimestamps \subseteq 1..m_approvedCount

GuardInit ==
  /\ m_actionTimestamps = [k \in {} |-> 0]
  /\ m_approvedCount = 0
  /\ m_rejectedCount = 0
  /\ m_auditFile = 0
  /\ auditing \in AuditOpens

-----------------------------------------------------------------------------

\* Mutants of Remembered: a boundary stamp is erased; nothing is ever erased.
RememberedDropsBoundary ==
  {k \in DOMAIN m_actionTimestamps : Elapsed(m_actionTimestamps[k]) < Window}
RememberedForever == DOMAIN m_actionTimestamps

\* A stamp exactly one window old is kept: only `ts < cutoff` is erased.
Remembered == {k \in DOMAIN m_actionTimestamps : Elapsed(m_actionTimestamps[k]) <= Window}

\* What IsRateLimited leaves in m_actionTimestamps.
Erased == [k \in Remembered |-> m_actionTimestamps[k]]

\* Mutant: one approval too many.
IsRateLimitedOffByOne == Cardinality(Remembered) > max_actions_per_second

IsRateLimited == Cardinality(Remembered) >= max_actions_per_second

\* Mutant: the target check is missing.
VerdictIgnoresTarget(cmd, targetPid) ==
  IF IsRateLimited THEN "rate limited"
  ELSE IF cmd.action = "NO_ACTION" THEN "passed"
  ELSE IF cmd.confidence < min_confidence \/ cmd.confidence > 1000 THEN "confidence"
  ELSE IF cmd.thread_priority > max_thread_priority THEN "priority"
  ELSE IF cmd.tgp_boost_w < 0 \/ cmd.tgp_boost_w > max_tgp_boost_w THEN "tgp"
  ELSE "approved"

\* The checks of ValidateAction, in their order: the first that fails decides.
Verdict(cmd, targetPid) ==
  IF IsRateLimited THEN "rate limited"
  ELSE IF cmd.action = "NO_ACTION" THEN "passed"
  ELSE IF cmd.confidence < min_confidence \/ cmd.confidence > 1000 THEN "confidence"
  ELSE IF cmd.thread_priority > max_thread_priority THEN "priority"
  ELSE IF cmd.tgp_boost_w < 0 \/ cmd.tgp_boost_w > max_tgp_boost_w THEN "tgp"
  ELSE IF targetPid = 0 THEN "no target"
  ELSE "approved"

Accepts(verdict) == verdict \in {"passed", "approved"}

\* m_actionTimestamps after push_back(now).
Stamped == [k \in Remembered \cup {m_approvedCount + 1} |->
              IF k \in Remembered THEN m_actionTimestamps[k] ELSE now]

WriteAuditEntry == m_auditFile' = IF auditing THEN m_auditFile + 1 ELSE m_auditFile

\* ValidateAction(cmd, targetPid), returning the verdict.  It audits the rejections.
ValidateAction(cmd, targetPid, verdict) ==
  /\ verdict = Verdict(cmd, targetPid)
  /\ m_actionTimestamps' = IF verdict = "approved" THEN Stamped ELSE Erased
  /\ IF Accepts(verdict)
     THEN m_approvedCount' = m_approvedCount + 1 /\ UNCHANGED <<m_rejectedCount, m_auditFile>>
     ELSE m_rejectedCount' = m_rejectedCount + 1 /\ WriteAuditEntry /\ UNCHANGED m_approvedCount
  /\ UNCHANGED auditing

\* LogAction: the entry the caller writes once an approved command has run.
LogAction ==
  /\ WriteAuditEntry
  /\ UNCHANGED <<m_actionTimestamps, m_approvedCount, m_rejectedCount, auditing>>

=============================================================================
