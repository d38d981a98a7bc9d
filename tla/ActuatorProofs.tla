---------------------------- MODULE ActuatorProofs ----------------------------
(***************************************************************************)
(* The actuator service, for any limits, timeouts, messages and games:     *)
(* proofs of what module Actuator is checked for.                          *)
(*                                                                         *)
(* The steps of main() are first sorted by what they do to each part (the  *)
(* guard, the scheduler, the power actuator); the invariants are then      *)
(* proved part by part.                                                    *)
(***************************************************************************)
EXTENDS Actuator, ProcessSchedulerProofs, SequenceTheorems

-----------------------------------------------------------------------------
(* The steps, sorted by what they do to each part *)

GuardStep ==
  \/ UNCHANGED <<now, guardVars>>
  \/ Tick /\ UNCHANGED guardVars
  \/ /\ UNCHANGED now
     /\ \E verdict \in {Verdict(Head(m_commandQueue), m_targetPid)} :
          ValidateAction(Head(m_commandQueue), m_targetPid, verdict)
  \/ UNCHANGED now /\ LogAction

SchedStep ==
  \/ UNCHANGED <<now, osVars, schedVars>>
  \/ Tick /\ UNCHANGED <<osVars, schedVars>>
  \/ UNCHANGED now /\ BeginAttach
  \/ UNCHANGED now /\ \E t \in Tids : SaveThread(t)
  \/ UNCHANGED now /\ EndAttach
  \/ UNCHANGED now /\ BeginRestore
  \/ UNCHANGED now /\ \E t \in Tids : RestoreThread(t)
  \/ UNCHANGED now /\ EndRestore
  \/ UNCHANGED now /\ pc = "rebalance" /\ BeginRebalance(cmd.thread_priority)
  \/ UNCHANGED now /\ \E t \in Tids : BoostThread(t)
  \/ UNCHANGED now /\ EndRebalance
  \/ UNCHANGED now /\ CloseTarget
  \/ Environment

TgpStep ==
  \/ UNCHANGED <<now, tgpVars>>
  \/ Tick /\ UNCHANGED tgpVars
  \/ UNCHANGED now /\ \E ok \in BOOLEAN : CheckAndRevertTimeout(ok) \/ RevertToDefault(ok)
  \/ UNCHANGED now /\ pc = "execute" /\ \E ok \in BOOLEAN : ApplyBoost(cmd.tgp_boost_w, ok)

LEMMA NextSorted ==
  ASSUME [Next]_vars
  PROVE  GuardStep /\ SchedStep /\ TgpStep
<1> USE DEF GuardStep, SchedStep, TgpStep
<1>1. CASE LeaveLoop
  BY <1>1 DEF LeaveLoop
<1>2. CASE ScanForGame
  BY <1>2 DEF ScanForGame
<1>2a. CASE Attach
  BY <1>2a DEF Attach
<1>3. CASE CheckRollback
  BY <1>3 DEF CheckRollback
<1>4. CASE Restore
  BY <1>4 DEF Restore
<1>5. ASSUME NEW ok \in BOOLEAN, CheckTgpTimeout(ok) PROVE GuardStep /\ SchedStep /\ TgpStep
  BY <1>5 DEF CheckTgpTimeout
<1>6. CASE QueueEmpty
  BY <1>6 DEF QueueEmpty
<1>7. CASE NextCommand
  BY <1>7 DEF NextCommand
<1>8. CASE ExecuteTgp
  BY <1>8 DEF ExecuteTgp
<1>9. CASE NoTgpPart
  BY <1>9 DEF NoTgpPart
<1>10. CASE ExecuteRebalance
  BY <1>10 DEF ExecuteRebalance
<1>11. CASE LogExecuted
  BY <1>11 DEF LogExecuted
<1>12. CASE Detach
  BY <1>12 DEF Detach
<1>13. CASE StopSubscriber
  BY <1>13 DEF StopSubscriber
<1>14. ASSUME NEW ok \in BOOLEAN, RevertOnExit(ok) PROVE GuardStep /\ SchedStep /\ TgpStep
  BY <1>14 DEF RevertOnExit
<1>15. ASSUME NEW msg \in Messages, Receive(msg) PROVE GuardStep /\ SchedStep /\ TgpStep
  BY <1>15 DEF Receive
<1>16. CASE ConsoleCtrlHandler
  BY <1>16 DEF ConsoleCtrlHandler
<1>17. CASE Environment
  BY <1>17 DEF Environment
<1>18. CASE Pass
  BY <1>18 DEF Pass
<1>19. CASE UNCHANGED vars
  BY <1>19 DEF vars
<1> QED
  BY <1>1, <1>2, <1>2a, <1>3, <1>4, <1>5, <1>6, <1>7, <1>8, <1>9, <1>10, <1>11, <1>12, <1>13,
     <1>14, <1>15, <1>16, <1>17, <1>18, <1>19 DEF Next, Main

-----------------------------------------------------------------------------
(* Types *)

LEMMA CommandsTyped == ASSUME NEW msg \in Messages PROVE FromJson(msg) \in Command
BY ActuatorAssumption
DEF FromJson, Command, ActionTypeFromString, ThreadPriorityFromString, ActionType

LEMMA NoCommandTyped == NoCommand \in Command /\ NoCommand.tgp_boost_w = 0
BY DEF NoCommand, FromJson, Field, Command, ActionTypeFromString, ThreadPriorityFromString,
       ActionType

LEMMA StepGuardType ==
  ASSUME GuardTypeOK, now \in Nat, GuardStep
  PROVE  GuardTypeOK'
<1> USE DEF GuardTypeOK
<1>1. CASE UNCHANGED <<now, guardVars>>
  BY <1>1 DEF guardVars
<1>2. CASE Tick /\ UNCHANGED guardVars
  BY <1>2 DEF Tick, guardVars
<1>3. ASSUME UNCHANGED now, NEW c, NEW pid, NEW verdict, ValidateAction(c, pid, verdict)
      PROVE  GuardTypeOK'
  <2>1. Remembered \subseteq DOMAIN m_actionTimestamps
    BY DEF Remembered
  <2>2. /\ m_approvedCount' \in Nat /\ m_rejectedCount' \in Nat /\ m_auditFile' \in Nat
        /\ m_approvedCount' >= m_approvedCount
        /\ verdict = "approved" => m_approvedCount' = m_approvedCount + 1
        /\ auditing' \in BOOLEAN
    <3>1. CASE Accepts(verdict)
      BY <1>3, <3>1 DEF ValidateAction
    <3>2. CASE ~Accepts(verdict)
      <4>1. m_auditFile' \in {m_auditFile, m_auditFile + 1}
        BY <1>3, <3>2 DEF ValidateAction, WriteAuditEntry
      <4> QED
        BY <1>3, <3>2, <4>1 DEF ValidateAction, Accepts
    <3> QED
      BY <3>1, <3>2
  <2>3. CASE verdict = "approved"
    BY <1>3, <2>1, <2>2, <2>3 DEF ValidateAction, Stamped
  <2>4. CASE verdict # "approved"
    BY <1>3, <2>1, <2>2, <2>4 DEF ValidateAction, Erased
  <2> QED
    BY <2>3, <2>4
<1>4. CASE UNCHANGED now /\ LogAction
  BY <1>4 DEF LogAction, WriteAuditEntry
<1> QED
  BY <1>1, <1>2, <1>3, <1>4 DEF GuardStep

LEMMA StepSchedType ==
  ASSUME SchedTypeOK, now \in Nat, cmd \in Command, SchedStep
  PROVE  SchedTypeOK'
<1>1. CASE UNCHANGED <<now, osVars, schedVars>>
  BY <1>1 DEF SchedTypeOK, osVars, schedVars
<1>2. CASE Tick /\ UNCHANGED <<osVars, schedVars>>
  BY <1>2, TickType
<1>3. CASE UNCHANGED now /\ (BeginAttach \/ (\E t \in Tids : SaveThread(t)) \/ EndAttach)
  BY <1>3, AttachType
<1>4. CASE UNCHANGED now /\ (BeginRestore \/ (\E t \in Tids : RestoreThread(t)) \/ EndRestore)
  BY <1>4, RestoreType
<1>5. CASE /\ UNCHANGED now
           /\ BeginRebalance(cmd.thread_priority) \/ (\E t \in Tids : BoostThread(t)) \/ EndRebalance
  <2>1. cmd.thread_priority \in Nat
    BY DEF Command
  <2> QED
    BY <1>5, <2>1, RebalanceType
<1>6. CASE UNCHANGED now /\ CloseTarget
  BY <1>6, CloseType
<1>7. CASE Environment
  BY <1>7, EnvironmentType DEF Environment
<1> QED
  BY <1>1, <1>2, <1>3, <1>4, <1>5, <1>6, <1>7 DEF SchedStep

\* The height of a boost is a natural number when what is asked for is.
LEMMA TargetTgpType ==
  ASSUME m_state \in TgpState, NEW w \in Nat
  PROVE  TargetTgp(w) \in Nat /\ Lesser(w, max_boost_w) \in Nat
BY TgpAssumption DEF TargetTgp, Lesser, TgpState

LEMMA StepTgpType ==
  ASSUME TgpTypeOK, now \in Nat, TgpStep, pc = "execute" => cmd.tgp_boost_w \in Nat
  PROVE  TgpTypeOK'
<1> USE DEF TgpTypeOK
<1>1. CASE UNCHANGED <<now, tgpVars>>
  BY <1>1 DEF tgpVars
<1>2. CASE Tick /\ UNCHANGED tgpVars
  BY <1>2 DEF Tick, tgpVars, TgpState
<1>3. ASSUME UNCHANGED now, NEW ok \in BOOLEAN, CheckAndRevertTimeout(ok) \/ RevertToDefault(ok)
      PROVE  TgpTypeOK'
  <2>1. CASE PutBack(ok)
    BY <1>3, <2>1 DEF PutBack, SetTgpLimit, TgpState
  <2>2. CASE UNCHANGED tgpVars
    BY <1>3, <2>2 DEF tgpVars
  <2> QED
    BY <1>3, <2>1, <2>2 DEF CheckAndRevertTimeout, RevertToDefault
<1>4. ASSUME UNCHANGED now, pc = "execute", NEW ok \in BOOLEAN, ApplyBoost(cmd.tgp_boost_w, ok)
      PROVE  TgpTypeOK'
  <2>1. TargetTgp(cmd.tgp_boost_w) \in Nat /\ Lesser(cmd.tgp_boost_w, max_boost_w) \in Nat
    BY <1>4, TargetTgpType
  <2>2. gpuLimit' \in Nat /\ m_adlxAvailable' \in BOOLEAN
    BY <1>4, <2>1 DEF ApplyBoost, SetTgpLimit
  <2>3. m_state' \in TgpState /\ m_state'.boost_start <= now'
    <3>1. CASE ok
      <4> DEFINE w == Lesser(cmd.tgp_boost_w, max_boost_w)
                 height == TargetTgp(cmd.tgp_boost_w)
      <4>1. m_state' = [m_state EXCEPT !.boost_applied_w = w, !.boost_active = TRUE,
                                       !.boost_start = now, !.current_tgp_w = height]
        BY <1>4, <3>1 DEF ApplyBoost
      <4>2. w \in Nat /\ height \in Nat
        BY <2>1
      <4> HIDE DEF w, height
      <4>3. m_state' \in TgpState
        BY <4>1, <4>2 DEF TgpState
      <4>4. m_state'.boost_start = now
        BY <4>1 DEF TgpState
      <4> QED
        BY <1>4, <4>3, <4>4
    <3>2. CASE ~ok
      BY <1>4, <3>2 DEF ApplyBoost
    <3> QED
      BY <3>1, <3>2
  <2> QED
    BY <2>2, <2>3
<1> QED
  BY <1>1, <1>2, <1>3, <1>4 DEF TgpStep

MainTypeOK ==
  /\ now \in 0..MaxTime
  /\ pc \in {"top", "attach", "rollback", "restore", "revert", "drain", "execute", "rebalance",
             "log", "detach", "detaching", "tgp", "stop", "destroy", "exited", "killed"}
  /\ cmd \in Command
  /\ success \in BOOLEAN
  /\ lastGameScan \in 0..now
  /\ actionsExecuted \in Nat
  /\ g_shutdown \in BOOLEAN
  /\ m_commandQueue \in Seq(Command) /\ Len(m_commandQueue) <= max_queue_size
  /\ commands_received \in Nat

LEMMA TypeParts == ActuatorTypeOK <=> GuardTypeOK /\ SchedTypeOK /\ TgpTypeOK /\ MainTypeOK
BY DEF ActuatorTypeOK, MainTypeOK

LEMMA StepMainType == MainTypeOK /\ [Next]_vars => MainTypeOK'
<1> SUFFICES ASSUME MainTypeOK, [Next]_vars PROVE MainTypeOK'
  OBVIOUS
<1> USE DEF MainTypeOK, mainVars, inputVars, Goto
<1>1. CASE LeaveLoop
  BY <1>1 DEF LeaveLoop
<1>2. CASE ScanForGame
  BY <1>2 DEF ScanForGame
<1>2a. CASE Attach
  BY <1>2a DEF Attach
<1>3. CASE CheckRollback
  BY <1>3 DEF CheckRollback
<1>4. CASE Restore
  BY <1>4 DEF Restore
<1>5. ASSUME NEW ok \in BOOLEAN, CheckTgpTimeout(ok) PROVE MainTypeOK'
  BY <1>5 DEF CheckTgpTimeout
<1>6. CASE QueueEmpty
  BY <1>6 DEF QueueEmpty
<1>7. CASE NextCommand
  <2>1. /\ Head(m_commandQueue) \in Command
        /\ Tail(m_commandQueue) \in Seq(Command)
        /\ Len(Tail(m_commandQueue)) <= max_queue_size
    BY <1>7, ActuatorAssumption DEF NextCommand
  <2>2. /\ m_commandQueue' \in Seq(Command) /\ Len(m_commandQueue') <= max_queue_size
    BY <1>7, <2>1 DEF NextCommand
  <2>3. pc' \in {pc, "execute", "drain"} /\ cmd' \in {cmd, Head(m_commandQueue)}
    BY <1>7 DEF NextCommand
  <2>4. success' = FALSE /\ UNCHANGED <<now, lastGameScan, actionsExecuted, g_shutdown, commands_received>>
    BY <1>7 DEF NextCommand
  <2> QED
    BY <2>1, <2>2, <2>3, <2>4
<1>8. CASE ExecuteTgp
  BY <1>8 DEF ExecuteTgp
<1>9. CASE NoTgpPart
  BY <1>9 DEF NoTgpPart
<1>10. CASE ExecuteRebalance
  <2>1. /\ pc' \in {pc, "log"} /\ success' \in BOOLEAN
        /\ UNCHANGED <<now, cmd, lastGameScan, actionsExecuted, g_shutdown, m_commandQueue,
                       commands_received>>
    BY <1>10 DEF ExecuteRebalance
  <2> QED
    BY <2>1
<1>11. CASE LogExecuted
  <2>1. pc' = "drain" /\ cmd' = NoCommand /\ success' = FALSE /\ actionsExecuted' \in Nat
    BY <1>11 DEF LogExecuted
  <2>2. UNCHANGED <<now, lastGameScan, g_shutdown, m_commandQueue, commands_received>>
    BY <1>11 DEF LogExecuted
  <2> QED
    BY <2>1, <2>2, NoCommandTyped
<1>12. CASE Detach
  BY <1>12 DEF Detach
<1>13. CASE StopSubscriber
  BY <1>13 DEF StopSubscriber
<1>14. ASSUME NEW ok \in BOOLEAN, RevertOnExit(ok) PROVE MainTypeOK'
  BY <1>14 DEF RevertOnExit
<1>15. ASSUME NEW msg \in Messages, Receive(msg) PROVE MainTypeOK'
  <2>1. FromJson(msg) \in Command
    BY CommandsTyped
  <2>2. m_commandQueue' \in Seq(Command) /\ Len(m_commandQueue') <= max_queue_size
    <3>1. CASE Len(m_commandQueue) < max_queue_size
      <4>1. m_commandQueue' = Append(m_commandQueue, FromJson(msg))
        BY <1>15, <3>1 DEF Receive
      <4> QED
        BY <2>1, <3>1, <4>1, ActuatorAssumption
    <3>2. CASE ~(Len(m_commandQueue) < max_queue_size)
      BY <1>15, <3>2 DEF Receive
    <3> QED
      BY <3>1, <3>2
  <2> QED
    BY <1>15, <2>2 DEF Receive
<1>16. CASE ConsoleCtrlHandler
  BY <1>16 DEF ConsoleCtrlHandler
<1>17. CASE Environment
  BY <1>17 DEF Environment
<1>18. CASE Pass
  BY <1>18, MaxTimeAssumption DEF Pass, Tick
<1>19. CASE UNCHANGED vars
  BY <1>19 DEF vars
<1> QED
  BY <1>1, <1>2, <1>2a, <1>3, <1>4, <1>5, <1>6, <1>7, <1>8, <1>9, <1>10, <1>11, <1>12, <1>13,
     <1>14, <1>15, <1>16, <1>17, <1>18, <1>19 DEF Next, Main

-----------------------------------------------------------------------------
(* Control *)

\* What the guard accepts for execution has a target and a boost in range.
LEMMA AcceptedIsExecutable ==
  ASSUME NEW c \in Command, NEW pid, c.action # "NO_ACTION", Accepts(Verdict(c, pid))
  PROVE  pid # 0 /\ c.tgp_boost_w \in 0..max_tgp_boost_w
<1>1. c.tgp_boost_w \in Int
  BY DEF Command
<1> QED
  BY <1>1, GuardAssumption DEF Accepts, Verdict

LEMMA StepControl ==
  ASSUME ActuatorTypeOK, ControlInv, [Next]_vars
  PROVE  ControlInv'
<1> USE DEF ControlInv, ElevationNeedsTarget, IsAttached, Closing, Goto
<1>0. SchedTypeOK /\ MainTypeOK
  BY TypeParts
<1>1. CASE LeaveLoop
  BY <1>1 DEF LeaveLoop, schedVars, tgpVars
<1>2. CASE ScanForGame
  <2>1. pc = "top" /\ UNCHANGED m_state /\ pc' = IF op' = "saving" THEN "attach" ELSE "rollback"
    BY <1>2 DEF ScanForGame, tgpVars
  <2>2. \/ UNCHANGED schedVars
        \/ op' = "saving" /\ m_targetPid' # 0
    BY <1>2, SchedulerAssumption DEF ScanForGame, BeginAttach, ScanForKnownGames
  <2> QED
    BY <2>1, <2>2 DEF schedVars
<1>2a. CASE Attach
  <2>1. ASSUME NEW t \in Tids, SaveThread(t), UNCHANGED mainVars PROVE ControlInv'
    <3>1. m_snapshot'.modified = m_snapshot.modified
      BY <1>0, <2>1 DEF SaveThread, SchedTypeOK, ProcessSnapshot
    <3> QED
      BY <1>2a, <2>1, <3>1 DEF Attach, SaveThread, tgpVars, mainVars
  <2>2. CASE EndAttach /\ Goto("rollback")
    BY <1>2a, <2>2 DEF Attach, EndAttach, tgpVars
  <2> QED
    BY <1>2a, <2>1, <2>2 DEF Attach
<1>3. CASE CheckRollback
  <2>1. CASE ShouldRollback
    BY <1>3, <2>1 DEF CheckRollback, BeginRestore, ShouldRollback, Elapsed, tgpVars
  <2>2. CASE ~ShouldRollback
    BY <1>3, <2>2 DEF CheckRollback, schedVars, tgpVars
  <2> QED
    BY <2>1, <2>2
<1>4. CASE Restore
  <2>1. ASSUME NEW t \in Tids, RestoreThread(t), UNCHANGED mainVars PROVE ControlInv'
    BY <1>4, <2>1 DEF Restore, RestoreThread, ShouldRollback, Elapsed, tgpVars, mainVars
  <2>2. CASE EndRestore /\ Goto(IF pc = "restore" THEN "revert" ELSE "detach")
    <3>1. m_snapshot'.modified = FALSE
      BY <1>0, <2>2 DEF EndRestore, SchedTypeOK, ProcessSnapshot
    <3>2. /\ op' = "idle" /\ UNCHANGED <<m_targetPid, m_state>>
          /\ pc' = IF pc = "restore" THEN "revert" ELSE "detach"
          /\ pc \in {"restore", "detaching"}
      BY <1>4, <2>2 DEF Restore, EndRestore, tgpVars
    <3> QED
      BY <3>1, <3>2
  <2> QED
    BY <1>4, <2>1, <2>2 DEF Restore
<1>5. ASSUME NEW ok \in BOOLEAN, CheckTgpTimeout(ok) PROVE ControlInv'
  <2>1. m_state'.boost_active => m_state.boost_active
    BY <1>5 DEF CheckTgpTimeout, CheckAndRevertTimeout, BoostExpired, PutBack, tgpVars
  <2> QED
    BY <1>5, <2>1 DEF CheckTgpTimeout, schedVars
<1>6. CASE QueueEmpty
  BY <1>6 DEF QueueEmpty, schedVars, tgpVars
<1>7. CASE NextCommand
  <2>1. pc = "drain" /\ UNCHANGED <<schedVars, tgpVars, now>> /\ m_commandQueue # << >>
    BY <1>7 DEF NextCommand
  <2>2. CASE pc' = "drain"
    BY <2>1, <2>2 DEF schedVars, tgpVars
  <2>3. CASE pc' # "drain"
    <3>1. /\ pc' = "execute" /\ cmd' = Head(m_commandQueue)
          /\ Head(m_commandQueue).action # "NO_ACTION"
          /\ Accepts(Verdict(Head(m_commandQueue), m_targetPid))
      BY <1>7, <2>1, <2>3 DEF NextCommand
    <3>2. Head(m_commandQueue) \in Command
      BY <1>0, <2>1 DEF MainTypeOK
    <3>3. m_targetPid # 0 /\ cmd'.tgp_boost_w \in 0..max_tgp_boost_w
      BY <3>1, <3>2, AcceptedIsExecutable
    <3> QED
      BY <2>1, <3>1, <3>3 DEF schedVars, tgpVars
  <2> QED
    BY <2>2, <2>3
<1>8. CASE ExecuteTgp
  BY <1>8 DEF ExecuteTgp, schedVars
<1>9. CASE NoTgpPart
  BY <1>9 DEF NoTgpPart, schedVars, tgpVars
<1>10. CASE ExecuteRebalance
  <2>1. pc = "rebalance"
    BY <1>10 DEF ExecuteRebalance
  <2>2. CASE BeginRebalance(cmd.thread_priority) /\ UNCHANGED mainVars
    BY <2>1, <2>2 DEF BeginRebalance, mainVars
  <2>3. ASSUME NEW t \in Tids, BoostThread(t), UNCHANGED mainVars PROVE ControlInv'
    BY <2>1, <2>3 DEF BoostThread, mainVars
  <2>4. CASE EndRebalance /\ pc' = "log" /\ UNCHANGED cmd
    BY <2>1, <2>4 DEF EndRebalance
  <2> QED
    BY <1>10, <2>2, <2>3, <2>4 DEF ExecuteRebalance
<1>11. CASE LogExecuted
  BY <1>11 DEF LogExecuted, schedVars, tgpVars
<1>12. CASE Detach
  BY <1>12 DEF Detach, BeginRestore, CloseTarget, schedVars, tgpVars
<1>13. CASE StopSubscriber
  BY <1>13 DEF StopSubscriber, schedVars, tgpVars
<1>14. ASSUME NEW ok \in BOOLEAN, RevertOnExit(ok) PROVE ControlInv'
  BY <1>14 DEF RevertOnExit, schedVars
<1>15. ASSUME NEW msg \in Messages, Receive(msg) PROVE ControlInv'
  BY <1>15 DEF Receive, schedVars, tgpVars, mainVars, ShouldRollback, Elapsed
<1>16. CASE ConsoleCtrlHandler
  BY <1>16 DEF ConsoleCtrlHandler, schedVars, tgpVars, mainVars, ShouldRollback, Elapsed
<1>17. CASE Environment
  BY <1>17 DEF Environment, schedVars, tgpVars, mainVars, ShouldRollback, Elapsed
<1>18. CASE Pass
  <2>1. ShouldRollback => ShouldRollback'
    <3>1. now \in Nat /\ now' = now + 1 /\ m_snapshot' = m_snapshot
      BY <1>0, <1>18 DEF Pass, Tick, MainTypeOK, schedVars
    <3>2. m_snapshot.appliedAt \in Nat
      BY <1>0 DEF SchedTypeOK, ProcessSnapshot
    <3> QED
      BY <3>1, <3>2, SchedulerAssumption DEF ShouldRollback, Elapsed
  <2> QED
    BY <1>18, <2>1 DEF Pass, schedVars, tgpVars, mainVars
<1>19. CASE UNCHANGED vars
  BY <1>19 DEF vars, schedVars, tgpVars, mainVars, ShouldRollback, Elapsed
<1> QED
  BY <1>1, <1>2, <1>2a, <1>3, <1>4, <1>5, <1>6, <1>7, <1>8, <1>9, <1>10, <1>11, <1>12, <1>13,
     <1>14, <1>15, <1>16, <1>17, <1>18, <1>19 DEF Next, Main

-----------------------------------------------------------------------------
(* Power *)

\* A boost in range stays between the default and both caps.
LEMMA TargetTgpCapped ==
  ASSUME m_state.default_tgp_w = default_tgp_w, NEW w \in Nat
  PROVE  TargetTgp(w) \in default_tgp_w .. Lesser(default_tgp_w + max_boost_w, absolute_max_tgp_w)
BY TgpAssumption DEF TargetTgp, Lesser

LEMMA DefaultCapped ==
  default_tgp_w \in default_tgp_w .. Lesser(default_tgp_w + max_boost_w, absolute_max_tgp_w)
BY TgpAssumption DEF Lesser

LEMMA StepPower ==
  ASSUME TgpTypeOK, PowerInv, TgpStep, pc = "execute" => cmd.tgp_boost_w \in Nat
  PROVE  PowerInv'
<1> USE DEF TgpTypeOK
<1>1. CASE UNCHANGED tgpVars
  BY <1>1 DEF PowerInv, TgpBookkept, TgpCapped, tgpVars
<1>2. ASSUME NEW ok \in BOOLEAN, PutBack(ok) PROVE PowerInv'
  <2>1. CASE ok
    <3>1. /\ m_adlxAvailable' = m_adlxAvailable
          /\ gpuLimit' = IF m_adlxAvailable THEN m_state.default_tgp_w ELSE gpuLimit
          /\ m_state'.default_tgp_w = m_state.default_tgp_w
          /\ m_state'.current_tgp_w = m_state.default_tgp_w
      BY <1>2, <2>1 DEF PutBack, SetTgpLimit, TgpState
    <3> QED
      BY <3>1, DefaultCapped DEF PowerInv, TgpBookkept, TgpCapped
  <2>2. CASE ~ok
    BY <1>2, <2>2 DEF PutBack, SetTgpLimit, PowerInv, TgpBookkept, TgpCapped
  <2> QED
    BY <2>1, <2>2
<1>3. ASSUME pc = "execute", NEW ok \in BOOLEAN, ApplyBoost(cmd.tgp_boost_w, ok) PROVE PowerInv'
  <2>1. CASE ok
    <3> DEFINE height == TargetTgp(cmd.tgp_boost_w)
    <3>1. /\ m_adlxAvailable' = m_adlxAvailable
          /\ gpuLimit' = IF m_adlxAvailable THEN height ELSE gpuLimit
          /\ m_state'.default_tgp_w = m_state.default_tgp_w
          /\ m_state'.current_tgp_w = height
      BY <1>3, <2>1 DEF ApplyBoost, SetTgpLimit, TgpState
    <3>2. m_adlxAvailable =>
            height \in default_tgp_w .. Lesser(default_tgp_w + max_boost_w, absolute_max_tgp_w)
      BY <1>3, TargetTgpCapped DEF PowerInv
    <3> HIDE DEF height
    <3> QED
      BY <3>1, <3>2 DEF PowerInv, TgpBookkept, TgpCapped
  <2>2. CASE ~ok
    BY <1>3, <2>2 DEF ApplyBoost, SetTgpLimit, PowerInv, TgpBookkept, TgpCapped
  <2> QED
    BY <2>1, <2>2
<1> QED
  BY <1>1, <1>2, <1>3 DEF TgpStep, CheckAndRevertTimeout, RevertToDefault, tgpVars

-----------------------------------------------------------------------------
(* Audit *)

LEMMA StepAudit ==
  ASSUME GuardTypeOK, AuditComplete, [Next]_vars
  PROVE  AuditComplete'
<1> USE DEF GuardTypeOK, AuditComplete, Goto
<1>1. CASE UNCHANGED guardVars /\ (pc' \in {"execute", "rebalance", "log"} <=>
                                     pc \in {"execute", "rebalance", "log"})
  BY <1>1 DEF guardVars
<1>2. CASE LeaveLoop \/ ScanForGame \/ Attach \/ CheckRollback \/ QueueEmpty \/ Detach \/ StopSubscriber
           \/ (\E ok \in BOOLEAN : CheckTgpTimeout(ok) \/ RevertOnExit(ok)) \/ Restore
  BY <1>1, <1>2 DEF LeaveLoop, ScanForGame, Attach, CheckRollback, QueueEmpty, Detach, StopSubscriber,
     CheckTgpTimeout, RevertOnExit, Restore, mainVars
<1>3. CASE ExecuteTgp \/ NoTgpPart \/ ExecuteRebalance
  BY <1>1, <1>3 DEF ExecuteTgp, NoTgpPart, ExecuteRebalance, mainVars
<1>4. CASE (\E msg \in Messages : Receive(msg)) \/ ConsoleCtrlHandler \/ Environment \/ Pass
           \/ UNCHANGED vars
  BY <1>1, <1>4 DEF Receive, ConsoleCtrlHandler, Environment, Pass, vars, mainVars
<1>5. CASE NextCommand
  <2>1. CASE Head(m_commandQueue).action = "NO_ACTION"
    BY <1>1, <1>5, <2>1 DEF NextCommand
  <2>2. CASE Head(m_commandQueue).action # "NO_ACTION"
    <3> DEFINE verdict == Verdict(Head(m_commandQueue), m_targetPid)
    <3>1. /\ ValidateAction(Head(m_commandQueue), m_targetPid, verdict)
          /\ pc = "drain"
          /\ pc' = IF Accepts(verdict) THEN "execute" ELSE "drain"
      BY <1>5, <2>2 DEF NextCommand
    <3>2. CASE Accepts(verdict)
      BY <3>1, <3>2 DEF ValidateAction
    <3>3. CASE ~Accepts(verdict)
      BY <3>1, <3>3 DEF ValidateAction, WriteAuditEntry
    <3> QED
      BY <3>2, <3>3
  <2> QED
    BY <2>1, <2>2
<1>6. CASE LogExecuted
  BY <1>6 DEF LogExecuted, LogAction, WriteAuditEntry
<1> QED
  BY <1>2, <1>3, <1>4, <1>5, <1>6 DEF Next, Main

-----------------------------------------------------------------------------
(* The invariant *)

ActuatorInv == ActuatorTypeOK /\ ControlInv /\ PowerInv /\ AuditComplete

LEMMA InitSchedType == SchedInit /\ now = 0 => SchedTypeOK
<1> SUFFICES ASSUME SchedInit, now = 0 PROVE SchedTypeOK
  OBVIOUS
<1>1. process \in [Pids -> [state : {"new", "running", "gone"}, affinity : SUBSET Cores]]
  BY SchedulerAssumption DEF SchedInit, Pids
<1>2. thread \in [Tids -> Thread]
  BY DEF SchedInit, FreeThread, Thread
<1>3. /\ DOMAIN m_snapshot.threadStates = {}
      /\ m_snapshot \in ProcessSnapshot({})
      /\ m_snapshot.appliedAt = 0
  BY SchedulerAssumption DEF SchedInit, SchedStart, ProcessSnapshot
<1>4. /\ m_targetPid = 0 /\ handleRights = {} /\ op = "idle" /\ todo = {}
      /\ goal \in 0..sched_max_priority
  BY SchedulerAssumption DEF SchedInit, SchedStart
<1>5. /\ DOMAIN m_snapshot.threadStates \subseteq Tids
      /\ m_snapshot \in ProcessSnapshot(DOMAIN m_snapshot.threadStates)
  BY <1>3
<1>6. m_snapshot.appliedAt <= now /\ handleRights \subseteq {"query", "set"} /\ todo \subseteq Tids
  BY <1>3, <1>4
<1> QED
  BY <1>1, <1>2, <1>4, <1>5, <1>6 DEF SchedTypeOK

LEMMA InitActuatorInv == Init => ActuatorInv
<1> SUFFICES ASSUME Init PROVE ActuatorInv
  OBVIOUS
<1>1. now = 0 /\ GuardInit /\ SchedInit /\ TgpInit /\ MainInit
  BY DEF Init, ClockInit
<1>2. GuardTypeOK
  BY <1>1, GuardAssumption DEF GuardInit, GuardTypeOK
<1>3. SchedTypeOK
  BY <1>1, InitSchedType
<1>4. TgpTypeOK
  BY <1>1, TgpAssumption DEF TgpInit, TgpTypeOK, TgpState
<1>5. MainTypeOK
  <2>1. m_commandQueue = << >> /\ << >> \in Seq(Command) /\ Len(<< >>) <= max_queue_size
    BY <1>1, ActuatorAssumption DEF MainInit
  <2>2. m_commandQueue \in Seq(Command) /\ Len(m_commandQueue) <= max_queue_size
    BY <2>1
  <2> QED
    <3>1. now \in 0..MaxTime /\ lastGameScan \in 0..now
      BY <1>1, MaxTimeAssumption DEF MainInit
    <3>2. /\ pc = "top" /\ cmd \in Command /\ success \in BOOLEAN /\ actionsExecuted \in Nat
          /\ g_shutdown \in BOOLEAN /\ commands_received \in Nat
      BY <1>1, NoCommandTyped DEF MainInit
    <3> QED
      BY <2>2, <3>1, <3>2 DEF MainTypeOK
<1>6. pc = "top" /\ op = "idle" /\ ~m_state.boost_active /\ ~m_snapshot.modified
  BY <1>1 DEF MainInit, SchedInit, SchedStart, TgpInit
<1>7. ControlInv
  BY <1>6 DEF ControlInv, ElevationNeedsTarget
<1>8. PowerInv
  <2>1. gpuLimit = FactoryLimit /\ ~m_state.boost_active
    BY <1>1 DEF TgpInit
  <2>2. m_adlxAvailable => m_state.default_tgp_w = default_tgp_w
    <3>1. PICK outcome \in InitOutcomes, default \in {0, default_tgp_w} :
            /\ default = 0 <=> outcome = "failed"
            /\ m_adlxAvailable = (outcome = "ready")
            /\ m_state.default_tgp_w = default
      BY <1>1 DEF TgpInit
    <3> QED
      BY <3>1
  <2> QED
    BY <2>1, <2>2 DEF PowerInv, TgpBookkept, TgpCapped
<1>9. AuditComplete
  BY <1>1, <1>6 DEF GuardInit, AuditComplete
<1> QED
  BY <1>2, <1>3, <1>4, <1>5, <1>7, <1>8, <1>9, TypeParts DEF ActuatorInv

LEMMA NextActuatorInv == ActuatorInv /\ [Next]_vars => ActuatorInv'
<1> SUFFICES ASSUME ActuatorInv, [Next]_vars PROVE ActuatorInv'
  OBVIOUS
<1>1. GuardStep /\ SchedStep /\ TgpStep
  BY NextSorted
<1>2. GuardTypeOK /\ SchedTypeOK /\ TgpTypeOK /\ MainTypeOK
  BY TypeParts DEF ActuatorInv
<1>3. now \in Nat /\ cmd \in Command
  BY <1>2 DEF MainTypeOK
<1>4. pc = "execute" => cmd.tgp_boost_w \in Nat
  BY GuardAssumption DEF ActuatorInv, ControlInv
<1>5. ActuatorTypeOK'
  <2>1. GuardTypeOK' /\ SchedTypeOK' /\ TgpTypeOK'
    BY <1>1, <1>2, <1>3, <1>4, StepGuardType, StepSchedType, StepTgpType
  <2>2. MainTypeOK'
    BY <1>2, StepMainType
  <2> QED
    BY <2>1, <2>2 DEF ActuatorTypeOK, GuardTypeOK, MainTypeOK
<1>6. ControlInv'
  BY StepControl DEF ActuatorInv
<1>7. PowerInv'
  BY <1>1, <1>2, <1>4, StepPower DEF ActuatorInv
<1>8. AuditComplete'
  BY <1>2, StepAudit DEF ActuatorInv
<1> QED
  BY <1>5, <1>6, <1>7, <1>8 DEF ActuatorInv

LEMMA ActuatorInvariant == Spec => []ActuatorInv
BY InitActuatorInv, NextActuatorInv, PTL DEF Spec

-----------------------------------------------------------------------------
(* The theorems *)

\* The service keeps its types, the queue its capacity, whatever messages arrive and
\* whatever the operating system, the driver and the console do.
THEOREM ActuatorTypeCorrect == Spec => []ActuatorTypeOK
BY ActuatorInvariant, PTL DEF ActuatorInv

\* The power actuator's books agree with the GPU, whichever calls the driver refuses
\* (ApplyBoost, RevertToDefault and CheckAndRevertTimeout of adlx_actuator.cpp).
THEOREM PowerIsBookkept == Spec => []TgpBookkept
<1>1. ActuatorInv => TgpBookkept
  BY DEF ActuatorInv, PowerInv
<1> QED
  BY <1>1, ActuatorInvariant, PTL

\* The GPU is never set above what the configuration allows (ApplyBoost).
THEOREM PowerIsCapped == Spec => []TgpCapped
<1>1. ActuatorInv => TgpCapped
  BY DEF ActuatorInv, PowerInv
<1> QED
  BY <1>1, ActuatorInvariant, PTL

\* Nothing is elevated without a target, except on the way out (main.cpp:88, :154).
THEOREM NothingElevatedWithoutTarget == Spec => []ElevationNeedsTarget
<1>1. ActuatorInv => ElevationNeedsTarget
  BY DEF ActuatorInv, ControlInv
<1> QED
  BY <1>1, ActuatorInvariant, PTL

\* When the audit file has opened, every command that reached the guard has one entry
\* once it has been dealt with; when it is disabled or has not, none has (the
\* constructor, LogAction and WriteAuditEntry, safety_guard.cpp:8-18 and :119-154).
THEOREM AuditIsComplete == Spec => []AuditComplete
<1>1. ActuatorInv => AuditComplete
  BY DEF ActuatorInv
<1> QED
  BY <1>1, ActuatorInvariant, PTL

-----------------------------------------------------------------------------
(* The leases *)

\* Once the service is closing it stays so.
LEMMA ClosingIsFinal == [Next]_vars /\ Closing => Closing'
<1> SUFFICES ASSUME [Next]_vars, Closing PROVE Closing'
  OBVIOUS
<1> USE DEF Closing, Goto
<1>1. CASE Main
  BY <1>1 DEF Main, LeaveLoop, ScanForGame, Attach, CheckRollback, Restore, CheckTgpTimeout, QueueEmpty,
     NextCommand, ExecuteTgp, NoTgpPart, ExecuteRebalance, LogExecuted, Detach, StopSubscriber,
     RevertOnExit, mainVars
<1>2. CASE ~Main
  BY <1>2 DEF Next, Receive, ConsoleCtrlHandler, Environment, Pass, vars, mainVars
<1> QED
  BY <1>1, <1>2

\* Every step of the service is, for the GPU's power, a step of the lease.
LEMMA StepTgpLease ==
  ASSUME ActuatorInv, [Next]_vars
  PROVE  [TgpLease!Next]_<<now, m_state.boost_active, m_state.boost_start, Closing>>
<1> USE DEF TgpLease!Next
<1>0. TgpTypeOK /\ now \in Nat
  BY TypeParts DEF ActuatorInv, MainTypeOK
<1>a. Closing \in BOOLEAN /\ Closing' \in BOOLEAN
  BY DEF Closing
<1>1. CASE UNCHANGED <<now, m_state>>
  <2>1. Closing' = Closing \/ Closing' = TRUE
    BY <1>a, ClosingIsFinal
  <2> QED
    BY <1>1, <2>1 DEF TgpLease!Close
<1>2. CASE Pass
  BY <1>2 DEF Pass, Tick, TgpLease!Tick, tgpVars, mainVars, Closing
<1>3. ASSUME NEW ok \in BOOLEAN, CheckTgpTimeout(ok)
      PROVE  [TgpLease!Next]_<<now, m_state.boost_active, m_state.boost_start, Closing>>
  <2>1. UNCHANGED <<now, Closing>>
    BY <1>3 DEF CheckTgpTimeout, Closing, Goto
  <2>2. CASE BoostExpired /\ ok
    <3>1. m_state.boost_active /\ TgpLease!Elapsed(m_state.boost_start) >= revert_timeout
      BY <2>2 DEF BoostExpired, Elapsed, TgpLease!Elapsed
    <3>2. m_state'.boost_active = FALSE /\ m_state'.boost_start = m_state.boost_start
      BY <1>0, <1>3, <2>2 DEF CheckTgpTimeout, CheckAndRevertTimeout, PutBack, TgpTypeOK, TgpState
    <3> QED
      BY <2>1, <3>1, <3>2 DEF TgpLease!Expire
  <2>3. CASE ~(BoostExpired /\ ok)
    <3>1. UNCHANGED m_state
      BY <1>3, <2>3 DEF CheckTgpTimeout, CheckAndRevertTimeout, PutBack, tgpVars
    <3> QED
      BY <2>1, <3>1
  <2> QED
    BY <2>2, <2>3
<1>4. CASE ExecuteTgp
  <2>1. UNCHANGED <<now, Closing>> /\ ~Closing
    BY <1>4 DEF ExecuteTgp, Closing
  <2>2. PICK ok \in BOOLEAN : ApplyBoost(cmd.tgp_boost_w, ok)
    BY <1>4 DEF ExecuteTgp
  <2>3. CASE ok
    <3>1. m_state'.boost_active = TRUE /\ m_state'.boost_start = now
      BY <1>0, <2>2, <2>3 DEF ApplyBoost, TgpTypeOK, TgpState
    <3> QED
      BY <2>1, <3>1 DEF TgpLease!Take
  <2>4. CASE ~ok
    BY <1>1, <2>1, <2>2, <2>4 DEF ApplyBoost
  <2> QED
    BY <2>3, <2>4
<1>5. ASSUME NEW ok \in BOOLEAN, RevertOnExit(ok)
      PROVE  [TgpLease!Next]_<<now, m_state.boost_active, m_state.boost_start, Closing>>
  <2>1. UNCHANGED <<now, Closing>> /\ Closing
    BY <1>5 DEF RevertOnExit, Closing, Goto
  <2>2. CASE PutBack(ok) /\ ok
    <3>1. m_state'.boost_active = FALSE /\ m_state'.boost_start = m_state.boost_start
      BY <1>0, <2>2 DEF PutBack, TgpTypeOK, TgpState
    <3> QED
      BY <2>1, <3>1 DEF TgpLease!GiveUp
  <2>3. CASE UNCHANGED m_state
    BY <1>1, <2>1, <2>3
  <2> QED
    BY <1>5, <2>2, <2>3 DEF RevertOnExit, RevertToDefault, PutBack, tgpVars
<1>6. CASE LeaveLoop \/ ScanForGame \/ Attach \/ CheckRollback \/ Restore \/ QueueEmpty \/ NextCommand
           \/ NoTgpPart \/ ExecuteRebalance \/ LogExecuted \/ Detach \/ StopSubscriber
  BY <1>1, <1>6 DEF LeaveLoop, ScanForGame, Attach, CheckRollback, Restore, QueueEmpty, NextCommand,
     NoTgpPart, ExecuteRebalance, LogExecuted, Detach, StopSubscriber, tgpVars
<1>7. CASE (\E msg \in Messages : Receive(msg)) \/ ConsoleCtrlHandler \/ Environment
           \/ UNCHANGED vars
  BY <1>1, <1>7 DEF Receive, ConsoleCtrlHandler, Environment, vars, tgpVars
<1> QED
  BY <1>2, <1>3, <1>4, <1>5, <1>6, <1>7 DEF Next, Main

\* The power limit is held on a lease: raised and renewed only while the service is
\* open, and lowered before it closes only when the timeout has passed since the last
\* boost (CheckAndRevertTimeout, and the shutdown sequence of main()).
THEOREM PowerIsLeased == Spec => TgpIsLeased
<1>1. Init => TgpLease!Init
  <2>1. Init => now = 0 /\ ~Closing /\ m_state.boost_active = FALSE /\ m_state.boost_start = 0
    BY DEF Init, ClockInit, MainInit, TgpInit, Closing
  <2> QED
    BY <2>1 DEF TgpLease!Init, TgpLease!ClockInit, Closing
<1>2. ActuatorInv /\ [Next]_vars =>
        [TgpLease!Next]_<<now, m_state.boost_active, m_state.boost_start, Closing>>
  BY StepTgpLease
<1> QED
  BY <1>1, <1>2, ActuatorInvariant, PTL DEF Spec, TgpIsLeased, TgpLease!Spec

\* Every step of the service is, for the game's threads, a step of the lease.
LEMMA StepThreadsLease ==
  ASSUME ActuatorInv, [Next]_vars
  PROVE  [ThreadsLease!Next]_<<now, m_snapshot.modified, m_snapshot.appliedAt, Closing>>
<1> USE DEF ThreadsLease!Next
<1>0. SchedTypeOK /\ now \in Nat
  BY TypeParts DEF ActuatorInv, MainTypeOK
<1>a. Closing \in BOOLEAN /\ Closing' \in BOOLEAN
  BY DEF Closing
<1>1. CASE UNCHANGED <<now, m_snapshot.modified, m_snapshot.appliedAt>>
  <2>1. Closing' = Closing \/ Closing' = TRUE
    BY <1>a, ClosingIsFinal
  <2> QED
    BY <1>1, <2>1 DEF ThreadsLease!Close
<1>2. CASE Pass
  BY <1>2 DEF Pass, Tick, ThreadsLease!Tick, schedVars, mainVars, Closing
<1>3. CASE ScanForGame
  <2>1. UNCHANGED now /\ pc = "top"
    BY <1>3 DEF ScanForGame
  <2>2. CASE UNCHANGED schedVars
    BY <1>1, <2>1, <2>2 DEF schedVars
  <2>3. ASSUME ~IsAttached, NEW p, NEW rights, m_snapshot' = EmptySnapshot(p, rights)
        PROVE  UNCHANGED <<m_snapshot.modified, m_snapshot.appliedAt>>
    <3>1. m_snapshot.modified = FALSE
      BY <1>0, <2>1, <2>3
      DEF ActuatorInv, ControlInv, ElevationNeedsTarget, Closing, SchedTypeOK, ProcessSnapshot
    <3>2. m_snapshot'.modified = FALSE /\ m_snapshot'.appliedAt = m_snapshot.appliedAt
      BY <1>0, <2>3 DEF EmptySnapshot, SchedTypeOK, ProcessSnapshot
    <3> QED
      BY <3>1, <3>2
  <2> QED
    BY <1>1, <1>3, <2>1, <2>2, <2>3 DEF ScanForGame, BeginAttach, ScanForKnownGames
<1>3a. CASE Attach
  <2>1. UNCHANGED <<now, m_snapshot.modified, m_snapshot.appliedAt>>
    BY <1>0, <1>3a DEF Attach, SaveThread, EndAttach, SchedTypeOK, ProcessSnapshot
  <2> QED
    BY <1>1, <2>1
<1>4. CASE Restore
  <2>1. CASE UNCHANGED m_snapshot
    BY <1>1, <1>4, <2>1 DEF Restore
  <2>2. CASE EndRestore /\ Goto(IF pc = "restore" THEN "revert" ELSE "detach")
    <3>1. /\ m_snapshot'.modified = FALSE /\ m_snapshot'.appliedAt = m_snapshot.appliedAt
          /\ UNCHANGED <<now, Closing>>
      BY <1>0, <1>4, <2>2
      DEF Restore, EndRestore, SchedTypeOK, ProcessSnapshot, Goto, Closing
    <3>2. CASE pc = "restore"
      <4>1. m_snapshot.modified /\ ThreadsLease!Elapsed(m_snapshot.appliedAt) >= rollback_timeout
        BY <3>2 DEF ActuatorInv, ControlInv, ShouldRollback, Elapsed, ThreadsLease!Elapsed
      <4> QED
        BY <3>1, <4>1 DEF ThreadsLease!Expire
    <3>3. CASE pc = "detaching"
      BY <3>1, <3>3 DEF ThreadsLease!GiveUp, Closing
    <3> QED
      BY <1>4, <3>2, <3>3 DEF Restore
  <2> QED
    BY <1>4, <2>1, <2>2 DEF Restore, RestoreThread
<1>5. CASE ExecuteRebalance
  <2>1. CASE UNCHANGED m_snapshot
    BY <1>1, <1>5, <2>1 DEF ExecuteRebalance
  <2>2. CASE EndRebalance /\ pc' = "log"
    <3>1. /\ m_snapshot'.modified = TRUE /\ m_snapshot'.appliedAt = now
          /\ UNCHANGED <<now, Closing>> /\ ~Closing
      BY <1>0, <1>5, <2>2 DEF ExecuteRebalance, EndRebalance, SchedTypeOK, ProcessSnapshot, Closing
    <3> QED
      BY <3>1 DEF ThreadsLease!Take
  <2> QED
    BY <1>5, <2>1, <2>2 DEF ExecuteRebalance, BeginRebalance, BoostThread
<1>6. CASE LeaveLoop \/ CheckRollback \/ QueueEmpty \/ NextCommand \/ ExecuteTgp \/ NoTgpPart
           \/ LogExecuted \/ Detach \/ StopSubscriber
           \/ \E ok \in BOOLEAN : CheckTgpTimeout(ok) \/ RevertOnExit(ok)
  <2>1. UNCHANGED <<now, m_snapshot>>
    BY <1>6 DEF LeaveLoop, CheckRollback, QueueEmpty, NextCommand, ExecuteTgp, NoTgpPart,
       LogExecuted, Detach, StopSubscriber, CheckTgpTimeout, RevertOnExit, BeginRestore,
       CloseTarget, schedVars
  <2> QED
    BY <1>1, <2>1
<1>7. CASE (\E msg \in Messages : Receive(msg)) \/ ConsoleCtrlHandler \/ Environment
           \/ UNCHANGED vars
  BY <1>1, <1>7 DEF Receive, ConsoleCtrlHandler, Environment, vars, schedVars
<1> QED
  BY <1>2, <1>3, <1>3a, <1>4, <1>5, <1>6, <1>7 DEF Next, Main

\* So are the threads' priorities and the affinity (ShouldRollback and Detach).
THEOREM ThreadsHeldOnLease == Spec => ThreadsAreLeased
<1>1. Init => ThreadsLease!Init
  <2>1. Init => now = 0 /\ ~Closing /\ m_snapshot.modified = FALSE /\ m_snapshot.appliedAt = 0
    BY DEF Init, ClockInit, MainInit, SchedInit, SchedStart, Closing
  <2> QED
    BY <2>1 DEF ThreadsLease!Init, ThreadsLease!ClockInit, Closing
<1>2. ActuatorInv /\ [Next]_vars =>
        [ThreadsLease!Next]_<<now, m_snapshot.modified, m_snapshot.appliedAt, Closing>>
  BY StepThreadsLease
<1> QED
  BY <1>1, <1>2, ActuatorInvariant, PTL DEF Spec, ThreadsAreLeased, ThreadsLease!Spec

=============================================================================
