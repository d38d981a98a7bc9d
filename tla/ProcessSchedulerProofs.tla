----------------------- MODULE ProcessSchedulerProofs ------------------------
(***************************************************************************)
(* Every operation of the process scheduler, and every step of the         *)
(* operating system around it, preserves the types of their state.  The    *)
(* specifications that use the scheduler build on these lemmas.            *)
(***************************************************************************)
EXTENDS ProcessScheduler, TLAPS

\* A mask the machine has can be set on the target, or nothing happens.
LEMMA WithAffinityType ==
  ASSUME SchedTypeOK, NEW mask
  PROVE  WithAffinity(mask) \in
           [Pids -> [state : {"new", "running", "gone"}, affinity : SUBSET Cores]]
BY DEF SchedTypeOK, WithAffinity, Pids

LEMMA EnvironmentType ==
  ASSUME SchedTypeOK, UNCHANGED <<now, schedVars>>,
         \/ \E p \in Games, t \in Tids, base \in BasePriorities : GameStart(p, t, base)
         \/ \E p \in Games : GameExit(p)
         \/ \E p \in Pids, t \in Tids, base \in BasePriorities : ThreadStart(t, p, base)
         \/ \E t \in Tids : ThreadExit(t)
  PROVE  SchedTypeOK'
<1>1. /\ process' \in [Pids -> [state : {"new", "running", "gone"}, affinity : SUBSET Cores]]
      /\ thread' \in [Tids -> Thread]
  <2> USE SchedulerAssumption DEF SchedTypeOK, Pids
  <2>1. ASSUME NEW p \in Games, NEW t \in Tids, NEW base \in BasePriorities,
               GameStart(p, t, base)
        PROVE  <1>1!:
    BY <2>1 DEF GameStart, NewThread, Thread
  <2>2. ASSUME NEW p \in Games, GameExit(p) PROVE <1>1!:
    BY <2>2 DEF GameExit, FreeThread, Thread
  <2>3. ASSUME NEW p \in Pids, NEW t \in Tids, NEW base \in BasePriorities,
               ThreadStart(t, p, base)
        PROVE  <1>1!:
    BY <2>3 DEF ThreadStart, NewThread, Thread
  <2>4. ASSUME NEW t \in Tids, ThreadExit(t) PROVE <1>1!:
    BY <2>4 DEF ThreadExit, FreeThread, Thread
  <2> QED
    BY <2>1, <2>2, <2>3, <2>4
<1> QED
  BY <1>1 DEF SchedTypeOK, schedVars

LEMMA AttachType ==
  ASSUME SchedTypeOK, now' = now,
         BeginAttach \/ (\E t \in Tids : SaveThread(t)) \/ EndAttach
  PROVE  SchedTypeOK'
<1> USE DEF SchedTypeOK
<1>1. ASSUME BeginAttach PROVE SchedTypeOK'
  <2>1. CASE UNCHANGED <<osVars, schedVars>>
    BY <1>1, <2>1 DEF osVars, schedVars
  <2>2. ASSUME NEW p \in Games, NEW rights \in HandleRights,
               m_targetPid' = p, handleRights' = rights,
               m_snapshot' = EmptySnapshot(p, rights),
               todo' = EnumerateProcessThreads(p), op' = "saving",
               UNCHANGED <<osVars, goal>>
        PROVE  SchedTypeOK'
    <3>1. process[p].affinity \in SUBSET Nat
      BY SchedulerAssumption DEF Pids
    <3>2. /\ m_snapshot' \in ProcessSnapshot({})
          /\ m_snapshot'.appliedAt = m_snapshot.appliedAt
          /\ DOMAIN m_snapshot'.threadStates = {}
      BY <2>2, <3>1 DEF EmptySnapshot, ProcessSnapshot
    <3>3. /\ m_snapshot' \in ProcessSnapshot(DOMAIN m_snapshot'.threadStates)
          /\ DOMAIN m_snapshot'.threadStates \subseteq Tids
      BY <3>2
    <3>4. todo' \subseteq Tids
      BY <2>2 DEF EnumerateProcessThreads
    <3>5. p \in Games \cup {0} /\ p # 0 /\ rights \subseteq {"query", "set"}
      BY SchedulerAssumption
    <3> QED
      BY <1>1, <2>2, <3>2, <3>3, <3>4, <3>5 DEF osVars
  <2> QED
    BY <1>1, <2>1, <2>2 DEF BeginAttach, ScanForKnownGames
<1>2. ASSUME NEW t \in Tids, SaveThread(t) PROVE SchedTypeOK'
  <2> DEFINE captured == DOMAIN m_snapshot.threadStates \cup {t}
             states == [u \in captured |-> IF u = t THEN thread[t].prio
                                                    ELSE m_snapshot.threadStates[u]]
  <2>1. thread[t] \in Thread /\ thread \in [Tids -> Thread]
    OBVIOUS
  <2>2. CASE /\ m_snapshot' = [m_snapshot EXCEPT !.threadStates = states]
             /\ thread' = [thread EXCEPT ![t].covered = TRUE]
    <3>1. states \in [captured -> Int] /\ captured \subseteq Tids
      BY <2>1 DEF ProcessSnapshot, Thread
    <3> HIDE DEF states
    <3>2. /\ m_snapshot' \in ProcessSnapshot(captured)
          /\ m_snapshot'.appliedAt = m_snapshot.appliedAt
          /\ m_snapshot'.threadStates = states
      BY <2>2, <3>1 DEF ProcessSnapshot
    <3>3. DOMAIN m_snapshot'.threadStates = captured
      BY <3>1, <3>2
    <3>4. thread' \in [Tids -> Thread]
      BY <2>1, <2>2 DEF Thread
    <3> QED
      BY <1>2, <3>1, <3>2, <3>3, <3>4 DEF SaveThread
  <2>3. CASE UNCHANGED <<m_snapshot, thread>>
    BY <1>2, <2>3 DEF SaveThread
  <2> QED
    BY <1>2, <2>2, <2>3 DEF SaveThread
<1>3. ASSUME EndAttach PROVE SchedTypeOK'
  BY <1>3 DEF EndAttach, osVars
<1> QED
  BY <1>1, <1>2, <1>3

LEMMA RebalanceType ==
  ASSUME SchedTypeOK, now' = now, now \in Nat,
         \/ \E priority \in Nat : BeginRebalance(priority)
         \/ \E t \in Tids : BoostThread(t)
         \/ EndRebalance
  PROVE  SchedTypeOK'
<1>1. ASSUME NEW priority \in Nat, BeginRebalance(priority) PROVE SchedTypeOK'
  <2>1. process' \in [Pids -> [state : {"new", "running", "gone"}, affinity : SUBSET Cores]]
    BY <1>1, WithAffinityType DEF BeginRebalance
  <2>2. goal' \in 0..sched_max_priority
    BY <1>1, SchedulerAssumption DEF BeginRebalance, Lower
  <2>3. todo' \subseteq Tids
    BY <1>1 DEF BeginRebalance, EnumerateProcessThreads
  <2> QED
    BY <1>1, <2>1, <2>2, <2>3 DEF BeginRebalance, SchedTypeOK, IsAttached
<1>2. ASSUME NEW t \in Tids, BoostThread(t) PROVE SchedTypeOK'
  <2>1. thread' \in [Tids -> Thread]
    BY <1>2, SchedulerAssumption DEF BoostThread, SchedTypeOK, Thread
  <2> QED
    BY <1>2, <2>1 DEF BoostThread, SchedTypeOK
<1>3. ASSUME EndRebalance PROVE SchedTypeOK'
  <2>1. /\ DOMAIN m_snapshot'.threadStates = DOMAIN m_snapshot.threadStates
        /\ m_snapshot' \in ProcessSnapshot(DOMAIN m_snapshot.threadStates)
        /\ m_snapshot'.appliedAt = now
    BY <1>3 DEF EndRebalance, SchedTypeOK, ProcessSnapshot
  <2> QED
    BY <1>3, <2>1 DEF EndRebalance, SchedTypeOK, osVars
<1> QED
  BY <1>1, <1>2, <1>3

LEMMA RestoreType ==
  ASSUME SchedTypeOK, now' = now,
         BeginRestore \/ (\E t \in Tids : RestoreThread(t)) \/ EndRestore
  PROVE  SchedTypeOK'
<1>1. ASSUME BeginRestore PROVE SchedTypeOK'
  BY <1>1, WithAffinityType DEF BeginRestore, SchedTypeOK, IsAttached
<1>2. ASSUME NEW t \in Tids, RestoreThread(t) PROVE SchedTypeOK'
  <2>1. m_snapshot.threadStates[t] \in Int
    BY <1>2 DEF RestoreThread, SchedTypeOK, ProcessSnapshot
  <2>2. thread[t] \in Thread
    BY DEF SchedTypeOK
  <2>3. [thread[t] EXCEPT !.prio = m_snapshot.threadStates[t]] \in Thread
    BY <2>1, <2>2 DEF Thread
  <2>4. [thread[t] EXCEPT !.covered = FALSE] \in Thread
    BY <2>2 DEF Thread
  <2>5. thread' \in [Tids -> Thread]
    BY <1>2, <2>3, <2>4 DEF RestoreThread, SchedTypeOK
  <2> QED
    BY <1>2, <2>5 DEF RestoreThread, SchedTypeOK
<1>3. ASSUME EndRestore PROVE SchedTypeOK'
  BY <1>3 DEF EndRestore, SchedTypeOK, ProcessSnapshot, osVars
<1> QED
  BY <1>1, <1>2, <1>3

LEMMA CloseType ==
  ASSUME SchedTypeOK, now' = now, CloseTarget
  PROVE  SchedTypeOK'
BY DEF SchedTypeOK, CloseTarget, osVars

LEMMA TickType ==
  ASSUME SchedTypeOK, Tick, now \in Nat, UNCHANGED <<osVars, schedVars>>
  PROVE  SchedTypeOK'
BY DEF SchedTypeOK, ProcessSnapshot, Tick, osVars, schedVars

=============================================================================
