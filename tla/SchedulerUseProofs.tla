-------------------------- MODULE SchedulerUseProofs --------------------------
(***************************************************************************)
(* What the process scheduler restores, for any number of games, threads   *)
(* and elevations: proofs of the invariants SchedulerUse is checked for.   *)
(*                                                                         *)
(* Each of the three is proved with a strengthening of its own (CoveredInv *)
(* , AffinityInv, ForeignInv) that says where, between the two loops, the  *)
(* values to be put back are.                                              *)
(***************************************************************************)
EXTENDS SchedulerUse, ProcessSchedulerProofs

TypeInv == SchedTypeOK /\ now \in Nat /\ closing \in BOOLEAN

-----------------------------------------------------------------------------
(* Types *)

LEMMA InitType == Init => TypeInv
<1> SUFFICES ASSUME Init PROVE TypeInv
  OBVIOUS
<1>0. ClockInit /\ SchedInit /\ SchedStart /\ closing = FALSE
  BY DEF Init, SchedInit
<1>1. process \in [Pids -> [state : {"new", "running", "gone"}, affinity : SUBSET Cores]]
  BY <1>0, SchedulerAssumption DEF SchedInit, Pids
<1>2. thread \in [Tids -> Thread]
  BY <1>0 DEF SchedInit, FreeThread, Thread
<1>3. /\ DOMAIN m_snapshot.threadStates = {}
      /\ m_snapshot \in ProcessSnapshot({})
      /\ m_snapshot.appliedAt = 0
  BY <1>0, SchedulerAssumption DEF SchedStart, ProcessSnapshot
<1>4. /\ m_targetPid = 0 /\ handleRights = {} /\ op = "idle" /\ todo = {}
      /\ goal \in 0..sched_max_priority
  BY <1>0, SchedulerAssumption DEF SchedStart
<1>5. /\ DOMAIN m_snapshot.threadStates \subseteq Tids
      /\ m_snapshot \in ProcessSnapshot(DOMAIN m_snapshot.threadStates)
  BY <1>3
<1>6. now = 0
  BY <1>0 DEF ClockInit
<1>7. m_snapshot.appliedAt <= now /\ handleRights \subseteq {"query", "set"} /\ todo \subseteq Tids
  BY <1>3, <1>4, <1>6
<1> QED
  BY <1>0, <1>1, <1>2, <1>4, <1>5, <1>6, <1>7 DEF TypeInv, SchedTypeOK

LEMMA NextType == TypeInv /\ [Next]_vars => TypeInv'
<1> SUFFICES ASSUME TypeInv, [Next]_vars PROVE TypeInv'
  OBVIOUS
<1> USE DEF TypeInv
<1>1. CASE Attach
  BY <1>1, AttachType DEF Attach
<1>2. CASE Rollback
  BY <1>2, RestoreType DEF Rollback
<1>3. CASE Loop
  BY <1>3, AttachType, RebalanceType, RestoreType DEF Loop
<1>4. CASE Detach
  <2>1. CASE BeginRestore
    BY <1>4, <2>1, RestoreType DEF Detach
  <2>2. CASE CloseTarget
    BY <1>4, <2>2, CloseType DEF Detach
  <2>3. CASE UNCHANGED <<osVars, schedVars>>
    BY <1>4, <2>3 DEF Detach, SchedTypeOK, osVars, schedVars
  <2> QED
    BY <1>4, <2>1, <2>2, <2>3 DEF Detach
<1>5. ASSUME NEW priority \in Priorities, Rebalance(priority) PROVE TypeInv'
  <2>1. priority \in Nat
    BY UseAssumption
  <2> QED
    BY <1>5, <2>1, RebalanceType DEF Rebalance
<1>6. CASE Environment
  BY <1>6, EnvironmentType DEF Environment
<1>7. CASE Pass
  BY <1>7, TickType DEF Pass, Tick
<1>8. CASE UNCHANGED vars
  BY <1>8 DEF vars, SchedTypeOK, osVars, schedVars
<1> QED
  BY <1>1, <1>2, <1>3, <1>4, <1>5, <1>6, <1>7, <1>8 DEF Next

LEMMA TypeInvariant == Spec => []TypeInv
BY InitType, NextType, PTL DEF Spec

\* The scheduler's state keeps its types whatever its owner and the operating system do.
THEOREM SchedulerTypeCorrect == Spec => []SchedTypeOK
BY TypeInvariant, PTL DEF TypeInv

-----------------------------------------------------------------------------
(* The steps, one by one *)

\* A step of the specification is one operation of the scheduler, a step of the
\* operating system, or leaves both alone.
Step ==
  \/ Attach
  \/ closing' = closing /\ \E t \in Tids : SaveThread(t)
  \/ closing' = closing /\ EndAttach
  \/ ~closing /\ closing' = FALSE /\ \E priority \in Priorities : BeginRebalance(priority)
  \/ closing' = closing /\ \E t \in Tids : BoostThread(t)
  \/ closing' = closing /\ EndRebalance
  \/ BeginRestore /\ (closing' = closing \/ closing' = TRUE)
  \/ closing' = closing /\ \E t \in Tids : RestoreThread(t)
  \/ closing' = closing /\ EndRestore
  \/ CloseTarget /\ closing' = TRUE
  \/ Environment
  \/ UNCHANGED <<osVars, schedVars>> /\ (closing' = closing \/ closing' = TRUE)

LEMMA NextIsStep == TypeInv /\ [Next]_vars => Step
BY DEF TypeInv, Next, vars, Step, Rollback, Rebalance, Loop, Detach, Pass

-----------------------------------------------------------------------------
(* Threads *)

LEMMA InitCovered == Init => CoveredInv
BY DEF Init, SchedInit, SchedStart, FreeThread, CoveredInv, Untouched

LEMMA StepCovered == TypeInv /\ CoveredInv /\ Step => CoveredInv'
<1> SUFFICES ASSUME TypeInv, CoveredInv, Step PROVE CoveredInv'
  OBVIOUS
<1>0. SchedTypeOK
  BY DEF TypeInv
<1> USE DEF CoveredInv, Untouched
<1>1. CASE Attach
  <2>1. CASE UNCHANGED <<osVars, schedVars>>
    BY <1>1, <2>1 DEF Attach, osVars, schedVars, IsAttached
  <2>2. ASSUME NEW p \in Games, NEW rights \in HandleRights,
               m_targetPid' = p, m_snapshot' = EmptySnapshot(p, rights), op' = "saving",
               ~IsAttached, UNCHANGED osVars
        PROVE  CoveredInv'
    <3>1. p # 0 /\ ~closing /\ UNCHANGED thread
      BY <1>1, <2>2, SchedulerAssumption DEF Attach, osVars
    <3>2. m_snapshot'.modified = FALSE
      BY <1>0, <2>2 DEF EmptySnapshot, SchedTypeOK, ProcessSnapshot
    <3>3. \A t \in Tids : ~thread[t].covered
      BY <2>2, <3>1
    <3> QED
      BY <2>2, <3>1, <3>2, <3>3 DEF IsAttached
  <2> QED
    BY <1>1, <2>1, <2>2 DEF Attach, BeginAttach, ScanForKnownGames
<1>1a. ASSUME NEW t \in Tids, SaveThread(t), closing' = closing PROVE CoveredInv'
  <2>1. op = "saving" /\ op' = "saving" /\ UNCHANGED m_targetPid
    BY <1>1a DEF SaveThread
  <2>2. CASE UNCHANGED <<m_snapshot, thread>>
    BY <1>1a, <2>1, <2>2 DEF IsAttached
  <2>3. CASE /\ m_snapshot' = [m_snapshot EXCEPT !.threadStates =
                  [u \in DOMAIN @ \cup {t} |-> IF u = t THEN thread[t].prio ELSE @[u]]]
             /\ thread' = [thread EXCEPT ![t].covered = TRUE]
    <3>1. /\ m_snapshot'.modified = m_snapshot.modified
          /\ m_snapshot'.threadStates = [u \in DOMAIN m_snapshot.threadStates \cup {t} |->
               IF u = t THEN thread[t].prio ELSE m_snapshot.threadStates[u]]
      BY <1>0, <2>3 DEF SchedTypeOK, ProcessSnapshot
    <3>2. \A u \in Tids : /\ thread'[u].prio = thread[u].prio
                          /\ thread'[u].base = thread[u].base
                          /\ u # t => thread'[u].covered = thread[u].covered
      BY <1>0, <2>3, ZenonT(40) DEF SchedTypeOK, Thread
    <3>3. t \in DOMAIN m_snapshot'.threadStates /\ m_snapshot'.threadStates[t] = thread[t].base
      BY <2>1, <3>1
    <3>4. ASSUME NEW u \in Tids, thread'[u].covered
          PROVE  /\ u \in DOMAIN m_snapshot'.threadStates
                 /\ m_snapshot'.threadStates[u] = thread'[u].base
      BY <3>1, <3>2, <3>3, <3>4
    <3>5. IsAttached /\ IsAttached' /\ ~m_snapshot'.modified
      BY <1>0, <2>1, <3>1 DEF IsAttached, SchedTypeOK
    <3>6. \A u \in Tids : thread'[u].prio = thread'[u].base
      BY <2>1, <3>2
    <3> QED
      BY <2>1, <3>4, <3>5, <3>6
  <2> QED
    BY <1>1a, <2>2, <2>3 DEF SaveThread
<1>1b. ASSUME EndAttach, closing' = closing PROVE CoveredInv'
  BY <1>0, <1>1b DEF EndAttach, osVars, IsAttached, SchedTypeOK
<1>2. ASSUME NEW priority \in Priorities, BeginRebalance(priority), ~closing, closing' = FALSE
      PROVE  CoveredInv'
  BY <1>2 DEF BeginRebalance, IsAttached
<1>3. ASSUME NEW t \in Tids, BoostThread(t), closing' = closing PROVE CoveredInv'
  <2>1. IsAttached /\ IsAttached' /\ op' = "boosting" /\ m_snapshot' = m_snapshot
    BY <1>0, <1>3 DEF BoostThread, SchedTypeOK, IsAttached
  <2>2. \A u \in Tids : /\ thread'[u].covered = thread[u].covered
                        /\ thread'[u].base = thread[u].base
    BY <1>0, <1>3 DEF BoostThread, SchedTypeOK, Thread
  <2> QED
    BY <2>1, <2>2
<1>4. ASSUME EndRebalance, closing' = closing PROVE CoveredInv'
  <2>1. IsAttached' /\ op' = "idle" /\ thread' = thread
    BY <1>0, <1>4 DEF EndRebalance, SchedTypeOK, IsAttached, osVars
  <2>2. /\ m_snapshot'.threadStates = m_snapshot.threadStates
        /\ m_snapshot'.modified = TRUE
    BY <1>0, <1>4 DEF EndRebalance, SchedTypeOK, ProcessSnapshot
  <2> QED
    BY <2>1, <2>2
<1>5. ASSUME BeginRestore PROVE CoveredInv'
  BY <1>5 DEF BeginRestore, IsAttached
<1>6. ASSUME NEW t \in Tids, RestoreThread(t), closing' = closing PROVE CoveredInv'
  <2>1. /\ IsAttached' /\ op' = "restoring" /\ op = "restoring" /\ m_snapshot' = m_snapshot
        /\ todo' = todo \ {t}
    BY <1>0, <1>6 DEF RestoreThread, SchedTypeOK, IsAttached
  <2>2. ASSUME NEW u \in Tids, u # t PROVE thread'[u] = thread[u]
    BY <1>0, <1>6, <2>2 DEF RestoreThread, SchedTypeOK
  <2>3. /\ thread'[t].base = thread[t].base
        /\ \/ ~thread'[t].covered
           \/ /\ thread'[t].covered = thread[t].covered
              /\ thread'[t].prio = m_snapshot.threadStates[t]
    <3>1. thread[t] \in Thread /\ thread \in [Tids -> Thread]
      BY <1>0 DEF SchedTypeOK
    <3>2. CASE thread' = [thread EXCEPT ![t].prio = m_snapshot.threadStates[t]]
      BY <3>1, <3>2 DEF Thread
    <3>3. CASE thread' = [thread EXCEPT ![t].covered = FALSE]
      BY <3>1, <3>3 DEF Thread
    <3> QED
      BY <1>6, <3>2, <3>3 DEF RestoreThread
  <2> QED
    BY <2>1, <2>2, <2>3
<1>7. ASSUME EndRestore, closing' = closing PROVE CoveredInv'
  <2>1. IsAttached' /\ op' = "idle" /\ op = "restoring" /\ todo = {} /\ thread' = thread
    BY <1>0, <1>7 DEF EndRestore, SchedTypeOK, IsAttached, osVars
  <2>2. m_snapshot'.threadStates = m_snapshot.threadStates
    BY <1>0, <1>7 DEF EndRestore, SchedTypeOK, ProcessSnapshot
  <2> QED
    BY <2>1, <2>2
<1>8. ASSUME CloseTarget, closing' = TRUE PROVE CoveredInv'
  BY <1>8 DEF CloseTarget, osVars, IsAttached
<1>9. CASE Environment
  <2>1. /\ UNCHANGED <<m_targetPid, m_snapshot, op, todo, closing>>
    BY <1>9 DEF Environment, schedVars
  <2>2. ASSUME NEW t \in Tids
        PROVE  thread'[t] = thread[t] \/ (~thread'[t].covered /\ thread'[t].prio = thread'[t].base)
    <3> USE <1>0 DEF SchedTypeOK
    <3>1. ASSUME NEW p \in Pids, NEW u \in Tids, NEW base \in BasePriorities,
                 thread' = [thread EXCEPT ![u] = NewThread(u, p, base)]
          PROVE  <2>2!2
      BY <3>1 DEF NewThread
    <3>2. ASSUME NEW p \in Games, GameExit(p) PROVE <2>2!2
      BY <3>2 DEF GameExit, FreeThread
    <3>3. ASSUME NEW u \in Tids, ThreadExit(u) PROVE <2>2!2
      BY <3>3 DEF ThreadExit, FreeThread
    <3>4. ASSUME NEW p \in Games, NEW u \in Tids, NEW base \in BasePriorities, GameStart(p, u, base)
          PROVE  <2>2!2
      BY <3>1, <3>4 DEF GameStart, Pids
    <3>5. ASSUME NEW p \in Pids, NEW u \in Tids, NEW base \in BasePriorities, ThreadStart(u, p, base)
          PROVE  <2>2!2
      BY <3>1, <3>5 DEF ThreadStart
    <3> QED
      BY <1>9, <3>2, <3>3, <3>4, <3>5 DEF Environment
  <2> QED
    BY <2>1, <2>2 DEF IsAttached
<1>10. ASSUME UNCHANGED <<osVars, schedVars>>, closing' = closing \/ closing' = TRUE
       PROVE  CoveredInv'
  BY <1>10 DEF osVars, schedVars, IsAttached
<1> QED
  BY <1>1, <1>1a, <1>1b, <1>2, <1>3, <1>4, <1>5, <1>6, <1>7, <1>8, <1>9, <1>10 DEF Step

LEMMA CoveredInvariant == Spec => [](TypeInv /\ CoveredInv)
<1>1. TypeInv /\ CoveredInv /\ [Next]_vars => CoveredInv'
  BY NextIsStep, StepCovered
<1> QED
  BY <1>1, TypeInvariant, InitCovered, PTL DEF Spec

\* Whenever the scheduler holds nothing modified, every thread of its snapshot has the
\* priority its process gave it (RebalanceThreads, RestoreOriginalState and
\* SaveCurrentState of process_scheduler.cpp).
THEOREM SnapshotIsRestored == Spec => []CoveredThreadsRestored
<1>1. CoveredInv => CoveredThreadsRestored
  BY DEF CoveredInv, CoveredThreadsRestored, Untouched
<1> QED
  BY <1>1, CoveredInvariant, PTL

-----------------------------------------------------------------------------
(* Affinity *)

LEMMA InitAffinity == Init => AffinityInv
BY DEF Init, SchedInit, SchedStart, AffinityInv, OwnAffinity, IsAttached

\* Setting a mask on the target leaves the others alone, and the states of all.
LEMMA WithAffinityEffect ==
  ASSUME SchedTypeOK, IsAttached, NEW mask
  PROVE  /\ WithAffinity(mask)[m_targetPid].state = process[m_targetPid].state
         /\ "set" \notin handleRights => WithAffinity(mask) = process
         /\ "set" \in handleRights /\ Running(m_targetPid) /\ mask # {} /\ mask \subseteq Cores
              => WithAffinity(mask)[m_targetPid].affinity = mask
BY DEF SchedTypeOK, IsAttached, WithAffinity, Pids

LEMMA StepAffinity == TypeInv /\ AffinityInv /\ Step => AffinityInv'
<1> SUFFICES ASSUME TypeInv, AffinityInv, Step PROVE AffinityInv'
  OBVIOUS
<1>0. SchedTypeOK
  BY DEF TypeInv
<1> USE DEF AffinityInv, OwnAffinity, Running
<1>1. CASE Attach
  <2>1. CASE UNCHANGED <<osVars, schedVars>>
    BY <1>1, <2>1 DEF Attach, osVars, schedVars, IsAttached
  <2>2. ASSUME NEW p \in Games, NEW rights \in HandleRights,
               Running(p), m_snapshot' = EmptySnapshot(p, rights), m_targetPid' = p,
               handleRights' = rights, UNCHANGED osVars, ~IsAttached
        PROVE  AffinityInv'
    <3>1. p # 0 /\ p \in Pids /\ process[p].state # "new" /\ process[p].affinity = OriginalAffinity
      BY <1>1, <2>2, SchedulerAssumption DEF Attach, Pids
    <3>2. "query" \in rights => m_snapshot'.originalAffinity = OriginalAffinity
      BY <1>0, <2>2, <3>1 DEF EmptySnapshot, SchedTypeOK, ProcessSnapshot
    <3> QED
      BY <2>2, <3>1, <3>2 DEF IsAttached, osVars
  <2> QED
    BY <1>1, <2>1, <2>2 DEF Attach, BeginAttach, ScanForKnownGames
<1>1a. ASSUME NEW t \in Tids, SaveThread(t), closing' = closing PROVE AffinityInv'
  <2>1. /\ m_snapshot'.originalAffinity = m_snapshot.originalAffinity
        /\ m_snapshot'.modified = m_snapshot.modified
    BY <1>0, <1>1a DEF SaveThread, SchedTypeOK, ProcessSnapshot
  <2> QED
    BY <1>1a, <2>1 DEF SaveThread, IsAttached
<1>1b. ASSUME EndAttach, closing' = closing PROVE AffinityInv'
  BY <1>1b DEF EndAttach, osVars, IsAttached
<1>2. ASSUME NEW priority \in Priorities, BeginRebalance(priority) PROVE AffinityInv'
  BY <1>0, <1>2, WithAffinityEffect DEF BeginRebalance, IsAttached
<1>3. ASSUME NEW t \in Tids, BoostThread(t), closing' = closing PROVE AffinityInv'
  BY <1>3 DEF BoostThread, IsAttached
<1>4. ASSUME EndRebalance, closing' = closing PROVE AffinityInv'
  <2>1. IsAttached' /\ op' = "idle" /\ UNCHANGED <<process, handleRights, m_targetPid>>
    BY <1>0, <1>4 DEF EndRebalance, SchedTypeOK, IsAttached, osVars
  <2>2. /\ m_snapshot'.originalAffinity = m_snapshot.originalAffinity
        /\ m_snapshot'.modified = TRUE
    BY <1>0, <1>4 DEF EndRebalance, SchedTypeOK, ProcessSnapshot
  <2> QED
    BY <2>1, <2>2 DEF IsAttached
<1>5. ASSUME BeginRestore PROVE AffinityInv'
  <2>1. /\ IsAttached /\ IsAttached' /\ process' = WithAffinity(m_snapshot.originalAffinity)
        /\ UNCHANGED <<m_targetPid, handleRights, m_snapshot>>
        /\ op = "idle" /\ op' = "restoring"
    BY <1>5 DEF BeginRestore, IsAttached
  <2> QED
    BY <1>0, <2>1, WithAffinityEffect, SchedulerAssumption DEF IsAttached
<1>6. ASSUME NEW t \in Tids, RestoreThread(t), closing' = closing PROVE AffinityInv'
  BY <1>6 DEF RestoreThread, IsAttached
<1>7. ASSUME EndRestore, closing' = closing PROVE AffinityInv'
  <2>1. IsAttached' /\ op = "restoring" /\ UNCHANGED <<process, handleRights, m_targetPid>>
    BY <1>0, <1>7 DEF EndRestore, SchedTypeOK, IsAttached, osVars
  <2>2. m_snapshot'.originalAffinity = m_snapshot.originalAffinity
    BY <1>0, <1>7 DEF EndRestore, SchedTypeOK, ProcessSnapshot
  <2> QED
    BY <2>1, <2>2 DEF IsAttached
<1>8. ASSUME CloseTarget, closing' = TRUE PROVE AffinityInv'
  BY <1>8 DEF CloseTarget, IsAttached
<1>9. CASE Environment
  <2>1. UNCHANGED <<m_targetPid, handleRights, m_snapshot, op, closing>>
    BY <1>9 DEF Environment, schedVars
  <2>2. ASSUME NEW p \in Pids
        PROVE  /\ process'[p].state = "new" => process[p].state = "new"
               /\ process'[p].affinity # process[p].affinity =>
                    process'[p].affinity = OriginalAffinity
               /\ process'[p].state = "running" =>
                    process[p].state = "running" \/ process[p].state = "new"
    <3> USE <1>0 DEF SchedTypeOK
    <3>1. ASSUME NEW q \in Games, process[q].state = "new",
                 process' = [process EXCEPT ![q].state = "running"]
          PROVE  <2>2!2
      BY <3>1
    <3>2. ASSUME NEW q \in Games, GameExit(q) PROVE <2>2!2
      BY <3>2 DEF GameExit
    <3> QED
      BY <1>9, <3>1, <3>2 DEF Environment, GameStart, ThreadStart, ThreadExit
  <2>3. IsAttached => m_targetPid \in Pids
    BY <1>0 DEF SchedTypeOK, IsAttached, Pids
  <2> QED
    BY <2>1, <2>2, <2>3 DEF IsAttached
<1>10. ASSUME UNCHANGED <<osVars, schedVars>>, closing' = closing \/ closing' = TRUE
       PROVE  AffinityInv'
  BY <1>10 DEF osVars, schedVars, IsAttached
<1> QED
  BY <1>1, <1>1a, <1>1b, <1>2, <1>3, <1>4, <1>5, <1>6, <1>7, <1>8, <1>9, <1>10 DEF Step

LEMMA AffinityInvariant == Spec => [](TypeInv /\ AffinityInv)
<1>1. TypeInv /\ AffinityInv /\ [Next]_vars => AffinityInv'
  BY NextIsStep, StepAffinity
<1> QED
  BY <1>1, TypeInvariant, InitAffinity, PTL DEF Spec

\* Whenever the scheduler holds nothing modified, the game it is attached to has the
\* affinity it came with, if the scheduler may ask for it, whether or not it may set it.
THEOREM AffinityIsRestored == Spec => []AffinityRestored
<1>1. AffinityInv => AffinityRestored
  BY DEF AffinityInv, AffinityRestored, OwnAffinity
<1> QED
  BY <1>1, AffinityInvariant, PTL

-----------------------------------------------------------------------------
(* Threads of other processes *)

LEMMA InitForeign == Init => ForeignInv
BY DEF Init, SchedInit, SchedStart, FreeThread, ForeignInv, ForeignThreadsUntouched

LEMMA StepForeign == TypeInv /\ ForeignInv /\ Step => ForeignInv'
<1> SUFFICES ASSUME TypeInv, ForeignInv, Step PROVE ForeignInv'
  OBVIOUS
<1>0. SchedTypeOK
  BY DEF TypeInv
<1>a. OtherPid \notin Games /\ OtherPid # 0 /\ 0 \notin Games
  BY SchedulerAssumption
<1> USE DEF ForeignInv, ForeignThreadsUntouched
\* The steps that change no thread.
<1>b. ASSUME thread' = thread,
             todo' \subseteq todo \cup DOMAIN m_snapshot.threadStates
               \cup {t \in Tids : thread[t].owner \in Games},
             DOMAIN m_snapshot'.threadStates = DOMAIN m_snapshot.threadStates
      PROVE  ForeignInv'
  BY <1>b
\* The steps of the two loops, which set the priority of a thread of todo, or none.
<1>c. ASSUME NEW u \in todo, UNCHANGED m_snapshot, todo' = todo \ {u},
             \A t \in Tids \ {u} : thread'[t] = thread[t],
             thread'[u].owner = thread[u].owner /\ thread'[u].recycled = thread[u].recycled
      PROVE  ForeignInv'
  <2>1. todo' \cup DOMAIN m_snapshot'.threadStates \subseteq Tids
    BY <1>0, <1>c DEF SchedTypeOK
  <2> QED
    BY <1>a, <1>c, <2>1
<1>1. CASE Attach
  <2>1. CASE UNCHANGED <<osVars, schedVars>>
    BY <1>b, <2>1 DEF osVars, schedVars
  <2>2. ASSUME NEW p \in Games, NEW rights \in HandleRights,
               m_snapshot' = EmptySnapshot(p, rights), todo' = EnumerateProcessThreads(p),
               UNCHANGED osVars
        PROVE  ForeignInv'
    <3>1. DOMAIN m_snapshot'.threadStates = {}
      BY <1>0, <2>2 DEF EmptySnapshot, SchedTypeOK, ProcessSnapshot
    <3>2. \A t \in todo' : thread[t].owner \in Games
      BY <2>2 DEF EnumerateProcessThreads
    <3> QED
      BY <2>2, <3>1, <3>2 DEF osVars
  <2> QED
    BY <1>1, <2>1, <2>2 DEF Attach, BeginAttach, ScanForKnownGames
<1>1a. ASSUME NEW t \in Tids, SaveThread(t) PROVE ForeignInv'
  <2>1. DOMAIN m_snapshot'.threadStates \subseteq DOMAIN m_snapshot.threadStates \cup {t}
    BY <1>0, <1>1a DEF SaveThread, SchedTypeOK, ProcessSnapshot
  <2>2. \A u \in Tids : /\ thread'[u].owner = thread[u].owner
                        /\ thread'[u].recycled = thread[u].recycled
                        /\ thread'[u].prio = thread[u].prio
                        /\ thread'[u].base = thread[u].base
    BY <1>0, <1>1a DEF SaveThread, SchedTypeOK, Thread
  <2>3. /\ t \in todo /\ todo' \subseteq todo
        /\ todo \cup DOMAIN m_snapshot.threadStates \subseteq Tids
    BY <1>0, <1>1a DEF SaveThread, SchedTypeOK
  <2>4. \A u \in todo' \cup DOMAIN m_snapshot'.threadStates :
          thread'[u].owner \in Games \/ thread'[u].recycled
    BY <2>1, <2>2, <2>3
  <2> QED
    BY <2>2, <2>4
<1>1b. ASSUME EndAttach PROVE ForeignInv'
  BY <1>1b, <1>b DEF EndAttach, osVars
<1>2. ASSUME NEW priority \in Priorities, BeginRebalance(priority) PROVE ForeignInv'
  <2>1. m_targetPid \in Games
    BY <1>0, <1>2 DEF BeginRebalance, IsAttached, SchedTypeOK
  <2> QED
    BY <1>2, <1>b, <2>1 DEF BeginRebalance, EnumerateProcessThreads
<1>3. ASSUME NEW t \in Tids, BoostThread(t) PROVE ForeignInv'
  <2>1. /\ \A u \in Tids \ {t} : thread'[u] = thread[u]
        /\ thread'[t].owner = thread[t].owner /\ thread'[t].recycled = thread[t].recycled
    BY <1>0, <1>3 DEF BoostThread, SchedTypeOK, Thread
  <2> QED
    BY <1>3, <1>c, <2>1 DEF BoostThread
<1>4. ASSUME EndRebalance PROVE ForeignInv'
  <2>1. DOMAIN m_snapshot'.threadStates = DOMAIN m_snapshot.threadStates
    BY <1>0, <1>4 DEF EndRebalance, SchedTypeOK, ProcessSnapshot
  <2> QED
    BY <1>4, <1>b, <2>1 DEF EndRebalance, osVars
<1>5. ASSUME BeginRestore PROVE ForeignInv'
  BY <1>5, <1>b DEF BeginRestore
<1>6. ASSUME NEW t \in Tids, RestoreThread(t) PROVE ForeignInv'
  <2>1. thread[t] \in Thread /\ thread \in [Tids -> Thread]
    BY <1>0 DEF SchedTypeOK
  <2>2. /\ \A u \in Tids \ {t} : thread'[u] = thread[u]
        /\ thread'[t].owner = thread[t].owner /\ thread'[t].recycled = thread[t].recycled
    <3>1. CASE thread' = [thread EXCEPT ![t].prio = m_snapshot.threadStates[t]]
      BY <2>1, <3>1 DEF Thread
    <3>2. CASE thread' = [thread EXCEPT ![t].covered = FALSE]
      BY <2>1, <3>2 DEF Thread
    <3> QED
      BY <1>6, <3>1, <3>2 DEF RestoreThread
  <2> QED
    BY <1>6, <1>c, <2>2 DEF RestoreThread
<1>7. ASSUME EndRestore PROVE ForeignInv'
  <2>1. DOMAIN m_snapshot'.threadStates = DOMAIN m_snapshot.threadStates
    BY <1>0, <1>7 DEF EndRestore, SchedTypeOK, ProcessSnapshot
  <2> QED
    BY <1>7, <1>b, <2>1 DEF EndRestore, osVars
<1>8. ASSUME CloseTarget PROVE ForeignInv'
  BY <1>8, <1>b DEF CloseTarget, osVars
<1>9. CASE Environment
  <2>1. UNCHANGED <<m_snapshot, todo>>
    BY <1>9 DEF Environment, schedVars
  \* A thread that ends leaves its id marked when it was a game's; the mark stays.
  <2>2. ASSUME NEW t \in Tids
        PROVE  \/ thread'[t] = thread[t]
               \/ /\ thread'[t].prio = thread'[t].base
                  /\ thread[t].owner \in Games \/ thread[t].recycled => thread'[t].recycled
    <3> USE <1>0 DEF SchedTypeOK
    <3>1. ASSUME NEW p \in Pids, NEW u \in Tids, NEW base \in BasePriorities,
                 thread[u].owner = 0, thread' = [thread EXCEPT ![u] = NewThread(u, p, base)]
          PROVE  <2>2!2
      BY <1>a, <3>1 DEF NewThread
    <3>2. ASSUME NEW p \in Games, GameExit(p) PROVE <2>2!2
      BY <3>2 DEF GameExit, FreeThread
    <3>3. ASSUME NEW u \in Tids, ThreadExit(u) PROVE <2>2!2
      BY <3>3 DEF ThreadExit, FreeThread
    <3>4. ASSUME NEW p \in Games, NEW u \in Tids, NEW base \in BasePriorities, GameStart(p, u, base)
          PROVE  <2>2!2
      BY <3>1, <3>4 DEF GameStart, Pids
    <3>5. ASSUME NEW p \in Pids, NEW u \in Tids, NEW base \in BasePriorities, ThreadStart(u, p, base)
          PROVE  <2>2!2
      BY <3>1, <3>5 DEF ThreadStart
    <3> QED
      BY <1>9, <3>2, <3>3, <3>4, <3>5 DEF Environment
  <2>3. todo \cup DOMAIN m_snapshot.threadStates \subseteq Tids
    BY <1>0 DEF SchedTypeOK
  <2> QED
    BY <2>1, <2>2, <2>3
<1>10. ASSUME UNCHANGED <<osVars, schedVars>> PROVE ForeignInv'
  BY <1>10, <1>b DEF osVars, schedVars
<1> QED
  BY <1>1, <1>1a, <1>1b, <1>2, <1>3, <1>4, <1>5, <1>6, <1>7, <1>8, <1>9, <1>10 DEF Step

LEMMA ForeignInvariant == Spec => [](TypeInv /\ ForeignInv)
<1>1. TypeInv /\ ForeignInv /\ [Next]_vars => ForeignInv'
  BY NextIsStep, StepForeign
<1> QED
  BY <1>1, TypeInvariant, InitForeign, PTL DEF Spec

\* The loops over thread ids never change the priority of a thread of a process that
\* is no game, unless it was given the id of a game's thread that had exited.
THEOREM OthersAreLeftAlone == Spec => []ForeignThreadsUntouched
<1>1. ForeignInv => ForeignThreadsUntouched
  BY DEF ForeignInv
<1> QED
  BY <1>1, ForeignInvariant, PTL

=============================================================================
