------------------------------- MODULE Actuator ------------------------------
(***************************************************************************)
(* The actuator service (actuator/src/main.cpp): one thread runs the main  *)
(* loop over the safety guard, the process scheduler and the GPU power     *)
(* actuator; a second one, the reader of the action pipe, fills the        *)
(* command queue (actuator/src/ipc_action_subscriber.cpp, here with no     *)
(* detail of the pipe); the console's control handler asks it to stop.     *)
(*                                                                         *)
(* pc is the place of the main thread in main():                           *)
(*   "top" [-> "attach"] -> "rollback" [-> "restore"] -> "revert"          *)
(*         -> "drain" -> "top"                                             *)
(*   "drain" -> "execute" [-> "rebalance"] -> "log" -> "drain"             *)
(*   "top" -> "detach" [-> "detaching"] -> "tgp" -> "stop" -> "destroy"    *)
(*         -> "exited"                                                     *)
(***************************************************************************)
EXTENDS SafetyGuard, ProcessScheduler, AdlxActuator, Sequences

CONSTANTS
  Messages,           \* the messages of the action pipe, decoded by FromJson
  scan_interval,      \* the 2 s between two scans for a game, in ticks
  max_queue_size,
  MaxCommands         \* bound on the messages received in a run

ASSUME ActuatorAssumption ==
  /\ scan_interval \in Nat
  /\ max_queue_size \in Nat
  /\ MaxCommands \in Nat
  /\ \A msg \in Messages : Field(msg, "confidence", 0) \in Int /\ Field(msg, "tgp_boost_w", 0) \in Int
  \* the configuration main() gives the three parts
  /\ sched_max_priority = max_thread_priority
  /\ max_boost_w = max_tgp_boost_w
  /\ revert_timeout = rollback_timeout

VARIABLES
  pc,
  cmd,                \* the command being executed
  success,
  lastGameScan,
  actionsExecuted,
  g_shutdown,
  m_commandQueue,
  commands_received   \* ActionSubscriberStats

mainVars == <<pc, cmd, success, lastGameScan, actionsExecuted>>
inputVars == <<m_commandQueue, commands_received>>
vars == <<now, guardVars, osVars, schedVars, tgpVars, mainVars, g_shutdown, inputVars>>

Closing == pc \in {"detach", "detaching", "tgp", "stop", "destroy", "exited"}

NoCommand == FromJson([action |-> "NO_ACTION"])

ActuatorTypeOK ==
  /\ GuardTypeOK
  /\ SchedTypeOK
  /\ TgpTypeOK
  /\ now \in 0..MaxTime
  /\ pc \in {"top", "attach", "rollback", "restore", "revert", "drain", "execute", "rebalance",
             "log", "detach", "detaching", "tgp", "stop", "destroy", "exited", "killed"}
  /\ cmd \in Command
  /\ success \in BOOLEAN
  /\ lastGameScan \in 0..now
  /\ actionsExecuted \in Nat
  /\ g_shutdown \in BOOLEAN
  /\ m_commandQueue \in Seq(Command) /\ Len(m_commandQueue) <= max_queue_size
  /\ commands_received \in Nat

MainInit ==
  /\ pc = "top" /\ cmd = NoCommand /\ success = FALSE
  /\ lastGameScan = now /\ actionsExecuted = 0
  /\ g_shutdown = FALSE
  /\ m_commandQueue = << >> /\ commands_received = 0

Init == ClockInit /\ GuardInit /\ SchedInit /\ TgpInit /\ MainInit

Goto(place) ==
  pc' = place /\ UNCHANGED <<cmd, success, lastGameScan, actionsExecuted>>

-----------------------------------------------------------------------------
(* The main loop *)

\* The loop's condition fails: the shutdown sequence begins.
LeaveLoop ==
  /\ pc = "top" /\ g_shutdown
  /\ Goto("detach")
  /\ UNCHANGED <<now, guardVars, osVars, schedVars, tgpVars, g_shutdown, inputVars>>

\* Scan for a game, at most every scan_interval, while none is attached.
ScanForGame ==
  /\ pc = "top" /\ ~g_shutdown
  /\ IF ~IsAttached /\ Elapsed(lastGameScan) >= scan_interval
     THEN BeginAttach /\ lastGameScan' = now
     ELSE UNCHANGED <<osVars, schedVars, lastGameScan>>
  /\ pc' = IF op' = "saving" THEN "attach" ELSE "rollback"
  /\ UNCHANGED <<now, guardVars, tgpVars, cmd, success, actionsExecuted, g_shutdown, inputVars>>

Attach ==
  /\ pc = "attach"
  /\ \/ \E t \in Tids : SaveThread(t) /\ UNCHANGED mainVars
     \/ EndAttach /\ Goto("rollback")
  /\ UNCHANGED <<now, guardVars, tgpVars, g_shutdown, inputVars>>

CheckRollback ==
  /\ pc = "rollback"
  /\ IF ShouldRollback
     THEN BeginRestore /\ Goto("restore")
     ELSE Goto("revert") /\ UNCHANGED <<osVars, schedVars>>
  /\ UNCHANGED <<now, guardVars, tgpVars, g_shutdown, inputVars>>

Restore ==
  /\ pc \in {"restore", "detaching"}
  /\ \/ \E t \in Tids : RestoreThread(t) /\ UNCHANGED mainVars
     \/ EndRestore /\ Goto(IF pc = "restore" THEN "revert" ELSE "detach")
  /\ UNCHANGED <<now, guardVars, tgpVars, g_shutdown, inputVars>>

CheckTgpTimeout(ok) ==
  /\ pc = "revert"
  /\ CheckAndRevertTimeout(ok)
  /\ Goto("drain")
  /\ UNCHANGED <<now, guardVars, osVars, schedVars, g_shutdown, inputVars>>

\* The queue is empty: the pass ends, after a sleep that is any number of ticks.
QueueEmpty ==
  /\ pc = "drain" /\ m_commandQueue = << >>
  /\ Goto("top")
  /\ UNCHANGED <<now, guardVars, osVars, schedVars, tgpVars, g_shutdown, inputVars>>

\* TryPopCommand, and ValidateAction unless there is nothing to do.
NextCommand ==
  /\ pc = "drain" /\ m_commandQueue # << >>
  /\ m_commandQueue' = Tail(m_commandQueue)
  /\ IF Head(m_commandQueue).action = "NO_ACTION"
     THEN UNCHANGED <<pc, cmd, guardVars>>
     ELSE \E verdict \in {Verdict(Head(m_commandQueue), m_targetPid)} :
            /\ ValidateAction(Head(m_commandQueue), m_targetPid, verdict)
            /\ pc' = IF Accepts(verdict) THEN "execute" ELSE "drain"
            /\ cmd' = IF Accepts(verdict) THEN Head(m_commandQueue) ELSE cmd
  /\ success' = FALSE
  /\ UNCHANGED <<lastGameScan, actionsExecuted, now, osVars, schedVars, tgpVars, g_shutdown,
                 commands_received>>

\* The TGP half of an approved command, when it has one.
ExecuteTgp ==
  /\ pc = "execute" /\ BoostsTgp(cmd)
  /\ \E ok \in BOOLEAN : ApplyBoost(cmd.tgp_boost_w, ok) /\ success' = ok
  /\ pc' = IF RebalancesThreads(cmd) THEN "rebalance" ELSE "log"
  /\ UNCHANGED <<now, guardVars, osVars, schedVars, cmd, lastGameScan, actionsExecuted,
                 g_shutdown, inputVars>>

NoTgpPart ==
  /\ pc = "execute" /\ ~BoostsTgp(cmd)
  /\ Goto("rebalance")
  /\ UNCHANGED <<now, guardVars, osVars, schedVars, tgpVars, g_shutdown, inputVars>>

\* The scheduling half.  RebalanceThreads answers true whatever it could change.
ExecuteRebalance ==
  /\ pc = "rebalance"
  /\ \/ BeginRebalance(cmd.thread_priority) /\ UNCHANGED mainVars
     \/ \E t \in Tids : BoostThread(t) /\ UNCHANGED mainVars
     \/ /\ EndRebalance
        /\ pc' = "log" /\ success' = TRUE
        /\ UNCHANGED <<cmd, lastGameScan, actionsExecuted>>
  /\ UNCHANGED <<now, guardVars, tgpVars, g_shutdown, inputVars>>

\* Mutant: only what succeeded is logged.
LogExecutedWhenSuccessful ==
  /\ pc = "log"
  /\ IF success THEN LogAction ELSE UNCHANGED guardVars
  /\ pc' = "drain" /\ cmd' = NoCommand /\ success' = FALSE
  /\ actionsExecuted' = actionsExecuted + (IF success THEN 1 ELSE 0)
  /\ UNCHANGED <<now, osVars, schedVars, tgpVars, lastGameScan, g_shutdown, inputVars>>

LogExecuted ==
  /\ pc = "log"
  /\ LogAction
  /\ pc' = "drain" /\ cmd' = NoCommand /\ success' = FALSE
  /\ actionsExecuted' = actionsExecuted + (IF success THEN 1 ELSE 0)
  /\ UNCHANGED <<now, osVars, schedVars, tgpVars, lastGameScan, g_shutdown, inputVars>>

-----------------------------------------------------------------------------
(* Shutdown: scheduler.Detach(), tgpActuator.RevertToDefault(), subscriber.Stop(), *)
(* and the destructors, of which the power actuator's tries once more.             *)

\* Mutant: the process is let go as it is.
DetachWithoutRestore ==
  /\ pc = "detach"
  /\ m_targetPid' = 0 /\ handleRights' = {}
  /\ Goto("tgp")
  /\ UNCHANGED <<osVars, m_snapshot, op, todo, goal>>
  /\ UNCHANGED <<now, guardVars, tgpVars, g_shutdown, inputVars>>

Detach ==
  /\ pc = "detach"
  /\ IF ~IsAttached THEN Goto("tgp") /\ UNCHANGED <<osVars, schedVars>>
     ELSE IF m_snapshot.modified THEN BeginRestore /\ Goto("detaching")
     ELSE CloseTarget /\ Goto("tgp")
  /\ UNCHANGED <<now, guardVars, tgpVars, g_shutdown, inputVars>>

RevertOnExit(ok) ==
  /\ \/ pc = "tgp" /\ Goto("stop")
     \/ pc = "destroy" /\ Goto("exited")
  /\ RevertToDefault(ok)
  /\ UNCHANGED <<now, guardVars, osVars, schedVars, g_shutdown, inputVars>>

StopSubscriber ==
  /\ pc = "stop"
  /\ Goto("destroy")
  /\ UNCHANGED <<now, guardVars, osVars, schedVars, tgpVars, g_shutdown, inputVars>>

Main ==
  \/ LeaveLoop \/ ScanForGame \/ Attach \/ CheckRollback \/ Restore
  \/ \E ok \in BOOLEAN : CheckTgpTimeout(ok)
  \/ QueueEmpty \/ NextCommand
  \/ ExecuteTgp \/ NoTgpPart \/ ExecuteRebalance \/ LogExecuted
  \/ Detach \/ StopSubscriber
  \/ \E ok \in BOOLEAN : RevertOnExit(ok)

-----------------------------------------------------------------------------
(* The other actors *)

\* The reader thread pushes a decoded command, or drops it when the queue is full;
\* it counts as received either way.
Receive(msg) ==
  /\ pc \notin {"destroy", "exited", "killed"}
  /\ commands_received < MaxCommands
  /\ m_commandQueue' = IF Len(m_commandQueue) < max_queue_size
                       THEN Append(m_commandQueue, FromJson(msg)) ELSE m_commandQueue
  /\ commands_received' = commands_received + 1
  /\ UNCHANGED <<now, guardVars, osVars, schedVars, tgpVars, mainVars, g_shutdown>>

ConsoleCtrlHandler ==
  /\ ~g_shutdown /\ pc \notin {"exited", "killed"}
  /\ g_shutdown' = TRUE
  /\ UNCHANGED <<now, guardVars, osVars, schedVars, tgpVars, mainVars, inputVars>>

Environment ==
  /\ \/ \E p \in Games, t \in Tids, base \in BasePriorities : GameStart(p, t, base)
     \/ \E p \in Games : GameExit(p)
     \/ \E p \in Pids, t \in Tids, base \in BasePriorities : ThreadStart(t, p, base)
     \/ \E t \in Tids : ThreadExit(t)
  /\ UNCHANGED <<now, guardVars, schedVars, tgpVars, mainVars, g_shutdown, inputVars>>

Pass ==
  /\ Tick
  /\ UNCHANGED <<guardVars, osVars, schedVars, tgpVars, mainVars, g_shutdown, inputVars>>

Next == Main \/ (\E msg \in Messages : Receive(msg)) \/ ConsoleCtrlHandler \/ Environment \/ Pass

\* Fairness: the operating system runs the main thread, time passes, and a driver
\* asked again and again does not refuse for ever.
Fairness ==
  /\ WF_vars(Main)
  /\ WF_vars(Pass)
  /\ SF_vars(m_state.boost_active /\ CheckTgpTimeout(TRUE) /\ ~m_state'.boost_active)

Spec == Init /\ [][Next]_vars /\ Fairness

-----------------------------------------------------------------------------
(* Safety *)

\* What the power actuator believes is what the GPU holds, whichever of its calls
\* the driver refused and whenever: while a boost is believed active the limit in
\* force is the one recorded, and with none it is the default, or the limit the GPU
\* came with when no call has gone through yet (ApplyBoost, RevertToDefault,
\* CheckAndRevertTimeout of adlx_actuator.cpp).
TgpBookkept ==
  m_adlxAvailable =>
    \/ gpuLimit = m_state.current_tgp_w
    \/ ~m_state.boost_active /\ gpuLimit = FactoryLimit

\* Whatever sequence of boosts, renewals and refused calls, the GPU is never set
\* above the absolute maximum, nor by more than max_boost_w over the default.
TgpCapped ==
  \/ gpuLimit = FactoryLimit
  \/ gpuLimit \in default_tgp_w .. Lesser(default_tgp_w + max_boost_w, absolute_max_tgp_w)

\* An elevation needs a target: the GPU is boosted, or threads are recorded as
\* changed, only while a game is attached or the service is shutting down
\* (the pid check of ValidateAction, Detach before RevertToDefault in main()).
ElevationNeedsTarget ==
  m_state.boost_active \/ m_snapshot.modified \/ op = "boosting" => IsAttached \/ Closing

\* When the audit file has opened, every command that reached the guard has one entry:
\* the guard's own for a rejection, the main loop's for an approval once it has been
\* executed ("every decision logged", README.md:173).  When it has not, commands are
\* decided and executed just the same, and none has one.
AuditComplete ==
  IF auditing
  THEN m_auditFile + (IF pc \in {"execute", "rebalance", "log"} THEN 1 ELSE 0)
         = m_rejectedCount + m_approvedCount
  ELSE m_auditFile = 0

\* The GPU's limit is held on a lease: raised or renewed only while the service is
\* open, lowered before shutdown only when revert_timeout has passed since the last
\* boost.
TgpLease == INSTANCE Lease WITH
  Timeout <- revert_timeout, held <- m_state.boost_active, since <- m_state.boost_start,
  closed <- Closing

TgpIsLeased == TgpLease!Spec

\* So is the elevation of the game's threads.
ThreadsLease == INSTANCE Lease WITH
  Timeout <- rollback_timeout, held <- m_snapshot.modified, since <- m_snapshot.appliedAt,
  closed <- Closing

ThreadsAreLeased == ThreadsLease!Spec

-----------------------------------------------------------------------------
(* What makes them inductive *)

\* What main()'s place says of the command and of the scheduler's loops.
ControlInv ==
  /\ pc \in {"execute", "rebalance", "log"} =>
       IsAttached /\ cmd.action # "NO_ACTION" /\ cmd.tgp_boost_w \in 0..max_tgp_boost_w
  /\ op = "saving" => pc = "attach"
  /\ op = "boosting" => pc = "rebalance"
  /\ op = "restoring" => pc \in {"restore", "detaching"}
  /\ pc = "restore" => ShouldRollback
  /\ ElevationNeedsTarget

\* With ADLX the default is the configured one; without it the GPU is never touched.
PowerInv ==
  /\ IF m_adlxAvailable THEN m_state.default_tgp_w = default_tgp_w ELSE gpuLimit = FactoryLimit
  /\ TgpBookkept
  /\ TgpCapped

-----------------------------------------------------------------------------
(* Liveness, for what falls due before the clock of the run stops *)

\* A boost is reverted after its timeout unless it is renewed, even if the driver
\* refuses some of the calls; the exit of the service may come first.
BoostEnds ==
  \A s \in 0 .. MaxTime - revert_timeout :
    (m_state.boost_active /\ m_state.boost_start = s)
      ~> (~m_state.boost_active \/ m_state.boost_start # s \/ pc = "exited")

\* An elevation of threads ends after its timeout unless it is renewed.
RebalanceEnds ==
  \A s \in 0 .. MaxTime - rollback_timeout :
    (m_snapshot.modified /\ m_snapshot.appliedAt = s)
      ~> (~m_snapshot.modified \/ m_snapshot.appliedAt # s)

\* Ctrl+C, wherever in the main loop it arrives, leads to the game being let go with
\* nothing left modified ("Press Ctrl+C to stop the Actuator service", main.cpp:64).
\* What is left then is to join the reader, which ActionSubscriber looks into.
ShutdownRestores ==
  g_shutdown ~>
    (pc \in {"stop", "destroy", "exited"} /\ ~IsAttached /\ ~m_snapshot.modified)

-----------------------------------------------------------------------------
(* Crashes *)

\* The service is killed where it stands, and started again: its own state is new,
\* the GPU's and the operating system's stay.  The control center stops a module
\* with kill(), which on Windows is TerminateProcess.
Kill ==
  /\ pc \notin {"exited", "killed"}
  /\ Goto("killed")
  /\ UNCHANGED <<now, guardVars, osVars, schedVars, tgpVars, g_shutdown, inputVars>>

Restart ==
  /\ pc = "killed"
  /\ pc' = "top" /\ cmd' = NoCommand /\ success' = FALSE
  /\ lastGameScan' = now /\ actionsExecuted' = 0 /\ g_shutdown' = FALSE
  /\ m_commandQueue' = << >>
  /\ m_actionTimestamps' = [k \in {} |-> 0]
  /\ m_approvedCount' = 0 /\ m_rejectedCount' = 0 /\ auditing' \in AuditOpens
  /\ m_targetPid' = 0 /\ handleRights' = {}
  /\ \E mask \in UninitializedMasks :
       m_snapshot' = [ originalAffinity |-> mask, threadStates |-> [t \in {} |-> 0],
                       appliedAt |-> 0, modified |-> FALSE ]
  /\ op' = "idle" /\ todo' = {} /\ goal' = 0
  /\ m_state' = [ default_tgp_w |-> m_state.default_tgp_w,
                  current_tgp_w |-> m_state.default_tgp_w,
                  boost_applied_w |-> 0, boost_active |-> FALSE, boost_start |-> 0 ]
  /\ UNCHANGED <<now, m_auditFile, osVars, m_adlxAvailable, gpuLimit, commands_received>>

CrashSpec == Init /\ [][Next \/ Kill \/ Restart]_vars

\* "granting a momentary +35W headroom limit" (docs/technical-manifesto.md:39): a GPU
\* limit above the default is one that the service knows it has to take back.
HeadroomIsMomentary ==
  pc # "killed" /\ m_adlxAvailable =>
    \/ m_state.boost_active
    \/ gpuLimit \in {FactoryLimit, m_state.default_tgp_w}

=============================================================================
