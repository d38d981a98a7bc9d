--------------------------- MODULE ProcessScheduler --------------------------
(***************************************************************************)
(* The process scheduler (actuator/src/process_scheduler.cpp): attaches to *)
(* a running game, remembers its threads' priorities and its affinity,     *)
(* raises them and puts them back.                                         *)
(*                                                                         *)
(* The operating system's processes and threads are part of the state      *)
(* (external): games start and exit, threads come and go between any two   *)
(* steps, and the id of a thread that is gone is given to a new one, of    *)
(* any process.  The loops over thread ids take one step per thread.       *)
(*                                                                         *)
(* m_processHandle # nullptr is m_targetPid # 0: they change together.     *)
(***************************************************************************)
EXTENDS Clock, Integers, FiniteSets

CONSTANTS
  Tids,                   \* thread ids of the machine
  Games,                  \* process ids whose image name is in kKnownGameProcesses
  OtherPid,               \* a process that is no game
  Cores,                  \* logical processors, 0 the first
  OriginalAffinity,       \* the affinity mask a game starts with
  BasePriorities,         \* the priorities processes give their own threads
  HandleRights,           \* the sets of rights OpenProcess may come back with
  ThreadAccessMayFail,    \* whether OpenThread may fail on a live thread
  UninitializedMasks,     \* what m_snapshot.originalAffinity may hold unset
  sched_max_priority,     \* SchedulerConfig::max_thread_priority
  rollback_timeout        \* rollback_timeout_ms, in ticks

ASSUME SchedulerAssumption ==
  /\ Games \subseteq Nat \ {0}
  /\ OtherPid \in Nat \ {0} /\ OtherPid \notin Games
  /\ IsFiniteSet(Cores)
  /\ Cores \subseteq Nat
  /\ OriginalAffinity \subseteq Cores /\ OriginalAffinity # {}
  /\ UninitializedMasks \subseteq SUBSET Nat
  /\ BasePriorities \subseteq Int
  /\ HandleRights \subseteq SUBSET {"query", "set"}
  /\ ThreadAccessMayFail \in BOOLEAN
  /\ sched_max_priority \in Nat
  /\ rollback_timeout \in Nat

VARIABLES
  process,                \* external: state and affinity of every process
  thread,                 \* external: owner and priority behind every thread id
  m_targetPid,
  handleRights,           \* rights of m_processHandle: m_processHandle's access mask
  m_snapshot,             \* ProcessSnapshot
  op,                     \* the loop over thread ids in progress, if any
  todo,                   \* the thread ids that loop has left
  goal                    \* the priority RebalanceThreads sets

osVars == <<process, thread>>
schedVars == <<m_targetPid, handleRights, m_snapshot, op, todo, goal>>

Pids == Games \cup {OtherPid}

\* owner 0: the id is free.  base is the priority the thread's own process gave
\* it.  Two history fields: covered, the snapshot holds this very thread and no
\* restore has failed to open it; recycled, a game's thread had this id before.
Thread ==
  [owner : Pids \cup {0}, prio : Int, base : Int, covered : BOOLEAN, recycled : BOOLEAN]

\* The snapshots of the threads in captured.
ProcessSnapshot(captured) ==
  [ originalAffinity : SUBSET Nat, threadStates : [captured -> Int],
    appliedAt : Nat, modified : BOOLEAN ]

SchedTypeOK ==
  /\ process \in [Pids -> [state : {"new", "running", "gone"}, affinity : SUBSET Cores]]
  /\ thread \in [Tids -> Thread]
  /\ m_targetPid \in Games \cup {0}
  /\ handleRights \subseteq {"query", "set"}
  /\ DOMAIN m_snapshot.threadStates \subseteq Tids
  /\ m_snapshot \in ProcessSnapshot(DOMAIN m_snapshot.threadStates)
  /\ m_snapshot.appliedAt <= now
  /\ op \in {"idle", "saving", "boosting", "restoring"}
  /\ todo \subseteq Tids
  /\ op = "idle" => todo = {}
  /\ op # "idle" => m_targetPid # 0
  /\ op = "restoring" => todo \subseteq DOMAIN m_snapshot.threadStates
  /\ goal \in 0..sched_max_priority

FreeThread(recycled) ==
  [owner |-> 0, prio |-> 0, base |-> 0, covered |-> FALSE, recycled |-> recycled]

SchedStart ==
  /\ m_targetPid = 0
  /\ handleRights = {}
  /\ \E mask \in UninitializedMasks :
       m_snapshot = [ originalAffinity |-> mask, threadStates |-> [t \in {} |-> 0],
                      appliedAt |-> 0, modified |-> FALSE ]
  /\ op = "idle" /\ todo = {} /\ goal = 0

SchedInit ==
  /\ process = [p \in Pids |-> [state    |-> IF p = OtherPid THEN "running" ELSE "new",
                                affinity |-> OriginalAffinity]]
  /\ thread = [t \in Tids |-> FreeThread(FALSE)]
  /\ SchedStart

-----------------------------------------------------------------------------
(* The operating system *)

Running(p) == process[p].state = "running"

NewThread(t, p, base) ==
  [owner |-> p, prio |-> base, base |-> base, covered |-> FALSE,
   recycled |-> thread[t].recycled]

\* A game starts, with its first thread.
GameStart(p, t, base) ==
  /\ p \in Games /\ process[p].state = "new" /\ thread[t].owner = 0
  /\ process' = [process EXCEPT ![p].state = "running"]
  /\ thread' = [thread EXCEPT ![t] = NewThread(t, p, base)]

\* A game exits with all its threads.  Its id is not given away again.
GameExit(p) ==
  /\ p \in Games /\ Running(p)
  /\ process' = [process EXCEPT ![p] = [state |-> "gone", affinity |-> OriginalAffinity]]
  /\ thread' = [t \in Tids |-> IF thread[t].owner = p THEN FreeThread(TRUE) ELSE thread[t]]

ThreadStart(t, p, base) ==
  /\ Running(p) /\ thread[t].owner = 0
  /\ thread' = [thread EXCEPT ![t] = NewThread(t, p, base)]
  /\ UNCHANGED process

\* A game's last thread goes with its process (GameExit).
ThreadExit(t) ==
  /\ thread[t].owner # 0
  /\ thread[t].owner \in Games => \E u \in Tids \ {t} : thread[u].owner = thread[t].owner
  /\ thread' = [thread EXCEPT ![t] = FreeThread(@.recycled \/ @.owner \in Games)]
  /\ UNCHANGED process

\* SetProcessAffinityMask on the target: what process' is.  It fails without the
\* right, for a process that is gone, and for a mask the machine does not have.
WithAffinity(mask) ==
  IF "set" \in handleRights /\ Running(m_targetPid) /\ mask # {} /\ mask \subseteq Cores
  THEN [process EXCEPT ![m_targetPid].affinity = mask]
  ELSE process

\* The outcomes of OpenThread on t.  Any process's thread can be opened by its id.
OpenThread(t) ==
  IF thread[t].owner = 0 THEN {FALSE}
  ELSE IF ThreadAccessMayFail THEN BOOLEAN ELSE {TRUE}

-----------------------------------------------------------------------------
(* The scheduler *)

IsAttached == m_targetPid # 0

\* Mutant: the threads of the snapshot are not filtered by their owner.
EveryThread(pid) == {t \in Tids : thread[t].owner # 0}

\* A thread snapshot that cannot be taken has no threads; so has one none of whose
\* threads can be opened (ThreadAccessMayFail).
EnumerateProcessThreads(pid) == {t \in Tids : thread[t].owner = pid}

\* The games the process snapshot may show first.
ScanForKnownGames == {p \in Games : Running(p)}

CalculateOptimalAffinity ==
  LET spared == IF Cardinality(Cores) > 4 THEN Cores \ {0} ELSE Cores
  IN  IF Cardinality(spared) < 2 THEN Cores ELSE spared

\* The snapshot as SaveCurrentState begins it for the game p.  The mask is left as it
\* was when the process cannot be asked for it.
EmptySnapshot(p, rights) ==
  [m_snapshot EXCEPT
     !.originalAffinity = IF "query" \in rights THEN process[p].affinity ELSE @,
     !.threadStates     = [t \in {} |-> 0],
     !.modified         = FALSE]

\* AttachToProcess with no process configured, up to the loop of SaveCurrentState: any
\* running game may come first.
BeginAttach ==
  \/ /\ ~IsAttached
     /\ \E p \in ScanForKnownGames, rights \in HandleRights :
          /\ m_targetPid' = p
          /\ handleRights' = rights
          /\ m_snapshot' = EmptySnapshot(p, rights)
          /\ todo' = EnumerateProcessThreads(p)
     /\ op' = "saving"
     /\ UNCHANGED <<osVars, goal>>
  \/ \* already attached, no game found, or OpenProcess failed
     UNCHANGED <<osVars, schedVars>>

SaveThread(t) ==
  /\ op = "saving" /\ t \in todo
  /\ \E opened \in OpenThread(t) :
       IF opened
       THEN /\ m_snapshot' = [m_snapshot EXCEPT !.threadStates =
                 [u \in DOMAIN @ \cup {t} |-> IF u = t THEN thread[t].prio ELSE @[u]]]
            /\ thread' = [thread EXCEPT ![t].covered = TRUE]
       ELSE UNCHANGED <<m_snapshot, thread>>
  /\ todo' = todo \ {t}
  /\ UNCHANGED <<process, m_targetPid, handleRights, op, goal>>

EndAttach ==
  /\ op = "saving" /\ todo = {}
  /\ op' = "idle"
  /\ UNCHANGED <<osVars, m_targetPid, handleRights, m_snapshot, todo, goal>>

Lower(a, b) == IF a <= b THEN a ELSE b

\* Mutant: the state is saved again before each rebalance, elevated or not.
BeginRebalanceRecapturing(targetPriority) ==
  /\ IsAttached /\ op = "idle"
  /\ m_snapshot' = [EmptySnapshot(m_targetPid, handleRights) EXCEPT !.threadStates =
                      [t \in EnumerateProcessThreads(m_targetPid) |-> thread[t].prio]]
  /\ process' = WithAffinity(CalculateOptimalAffinity)
  /\ todo' = EnumerateProcessThreads(m_targetPid)
  /\ goal' = Lower(targetPriority, sched_max_priority)
  /\ op' = "boosting"
  /\ UNCHANGED <<thread, m_targetPid, handleRights>>

\* RebalanceThreads(targetPriority), up to its loop over the threads.
BeginRebalance(targetPriority) ==
  /\ IsAttached /\ op = "idle"
  /\ process' = WithAffinity(CalculateOptimalAffinity)
  /\ todo' = EnumerateProcessThreads(m_targetPid)
  /\ goal' = Lower(targetPriority, sched_max_priority)
  /\ op' = "boosting"
  /\ UNCHANGED <<thread, m_targetPid, handleRights, m_snapshot>>

BoostThread(t) ==
  /\ op = "boosting" /\ t \in todo
  /\ \E opened \in OpenThread(t) :
       thread' = IF opened THEN [thread EXCEPT ![t].prio = goal] ELSE thread
  /\ todo' = todo \ {t}
  /\ UNCHANGED <<process, m_targetPid, handleRights, m_snapshot, op, goal>>

\* The end of RebalanceThreads.  Even when nothing could be changed, it says so.
EndRebalance ==
  /\ op = "boosting" /\ todo = {}
  /\ m_snapshot' = [m_snapshot EXCEPT !.modified = TRUE, !.appliedAt = now]
  /\ op' = "idle"
  /\ UNCHANGED <<osVars, m_targetPid, handleRights, todo, goal>>

\* Mutant: the affinity is forgotten.
BeginRestoreThreadsOnly ==
  /\ IsAttached /\ m_snapshot.modified /\ op = "idle"
  /\ todo' = DOMAIN m_snapshot.threadStates
  /\ op' = "restoring"
  /\ UNCHANGED <<osVars, m_targetPid, handleRights, m_snapshot, goal>>

\* RestoreOriginalState, up to its loop over the snapshot's threads.
BeginRestore ==
  /\ IsAttached /\ m_snapshot.modified /\ op = "idle"
  /\ process' = WithAffinity(m_snapshot.originalAffinity)
  /\ todo' = DOMAIN m_snapshot.threadStates
  /\ op' = "restoring"
  /\ UNCHANGED <<thread, m_targetPid, handleRights, m_snapshot, goal>>

RestoreThread(t) ==
  /\ op = "restoring" /\ t \in todo
  /\ \E opened \in OpenThread(t) :
       thread' = IF opened
                 THEN [thread EXCEPT ![t].prio = m_snapshot.threadStates[t]]
                 ELSE [thread EXCEPT ![t].covered = FALSE]
  /\ todo' = todo \ {t}
  /\ UNCHANGED <<process, m_targetPid, handleRights, m_snapshot, op, goal>>

EndRestore ==
  /\ op = "restoring" /\ todo = {}
  /\ m_snapshot' = [m_snapshot EXCEPT !.modified = FALSE]
  /\ op' = "idle"
  /\ UNCHANGED <<osVars, m_targetPid, handleRights, todo, goal>>

\* Mutants: one tick early; only on the very tick of the deadline.
ShouldRollbackEarly ==
  m_snapshot.modified /\ Elapsed(m_snapshot.appliedAt) + 1 >= rollback_timeout
ShouldRollbackOnTime ==
  m_snapshot.modified /\ Elapsed(m_snapshot.appliedAt) = rollback_timeout

ShouldRollback == m_snapshot.modified /\ Elapsed(m_snapshot.appliedAt) >= rollback_timeout

\* Detach, after what was modified has been restored.
CloseTarget ==
  /\ IsAttached /\ ~m_snapshot.modified /\ op = "idle"
  /\ m_targetPid' = 0
  /\ handleRights' = {}
  /\ UNCHANGED <<osVars, m_snapshot, op, todo, goal>>

=============================================================================
