----------------------------- MODULE SchedulerUse ----------------------------
(***************************************************************************)
(* The process scheduler as its owner uses it, main() of the actuator with *)
(* everything but the scheduler left out: attach when not attached, roll   *)
(* back when due, rebalance at any time with any priority, and at the end  *)
(* Detach, after which nothing more is called.  Meanwhile the operating    *)
(* system starts and ends games and threads.                               *)
(***************************************************************************)
EXTENDS ProcessScheduler

CONSTANT Priorities     \* the priorities asked for

ASSUME UseAssumption == Priorities \subseteq Nat

VARIABLE closing        \* Detach has been called

vars == <<now, osVars, schedVars, closing>>

Init == ClockInit /\ SchedInit /\ closing = FALSE

Attach ==
  /\ ~closing /\ ~IsAttached
  /\ BeginAttach
  /\ UNCHANGED <<now, closing>>

Rollback ==
  /\ ~closing /\ ShouldRollback
  /\ BeginRestore
  /\ UNCHANGED <<now, closing>>

Rebalance(priority) ==
  /\ ~closing
  /\ BeginRebalance(priority)
  /\ UNCHANGED <<now, closing>>

Loop ==
  /\ \/ \E t \in Tids : SaveThread(t) \/ BoostThread(t) \/ RestoreThread(t)
     \/ EndAttach
     \/ EndRebalance
     \/ EndRestore
  /\ UNCHANGED <<now, closing>>

\* Detach is called between two operations; it restores first what is modified.
Detach ==
  /\ op = "idle"
  /\ closing' = TRUE
  /\ IF IsAttached /\ m_snapshot.modified THEN BeginRestore
     ELSE IF IsAttached THEN CloseTarget
     ELSE ~closing /\ UNCHANGED <<osVars, schedVars>>
  /\ UNCHANGED now

Environment ==
  /\ \/ \E p \in Games, t \in Tids, base \in BasePriorities : GameStart(p, t, base)
     \/ \E p \in Games : GameExit(p)
     \/ \E p \in Pids, t \in Tids, base \in BasePriorities : ThreadStart(t, p, base)
     \/ \E t \in Tids : ThreadExit(t)
  /\ UNCHANGED <<now, schedVars, closing>>

Pass == Tick /\ UNCHANGED <<osVars, schedVars, closing>>

Next ==
  \/ Attach \/ Rollback \/ Loop \/ Detach
  \/ \E priority \in Priorities : Rebalance(priority)
  \/ Environment \/ Pass

Spec == Init /\ [][Next]_vars

-----------------------------------------------------------------------------

\* Once the scheduler says nothing is modified, every thread its snapshot covers has
\* the priority its process gave it, however games and threads came and went during
\* the loops that raised and restored (RebalanceThreads, RestoreOriginalState), and
\* however many times it was raised in between.
CoveredThreadsRestored ==
  ~m_snapshot.modified /\ op = "idle" =>
    \A t \in Tids : thread[t].covered => thread[t].prio = thread[t].base

\* Likewise for the affinity of the attached game while it runs, provided its mask
\* could be read when the scheduler attached.
AffinityRestored ==
  ~m_snapshot.modified /\ op = "idle" /\ "query" \in handleRights /\ Running(m_targetPid) =>
    process[m_targetPid].affinity = OriginalAffinity

\* A thread of a process that is no game keeps its priority, unless it got the id of
\* a game's thread that had exited: the ids in the snapshot, and those being walked,
\* are not checked again for who owns them now.
ForeignThreadsUntouched ==
  \A t \in Tids :
    thread[t].owner = OtherPid /\ ~thread[t].recycled => thread[t].prio = thread[t].base

-----------------------------------------------------------------------------
(* What makes the three inductive *)

Untouched(t) == thread[t].prio = thread[t].base

\* A covered thread's own priority is in the snapshot, and is in force outside an
\* elevation and at the places the restoring loop has passed.  Until the scheduler is
\* attached, every thread has its own priority.
CoveredInv ==
  /\ ~IsAttached \/ op = "saving" => ~m_snapshot.modified
  /\ ~IsAttached /\ ~closing => \A t \in Tids : ~thread[t].covered
  /\ (~IsAttached /\ ~closing) \/ op = "saving" => \A t \in Tids : Untouched(t)
  /\ \A t \in Tids : thread[t].covered =>
       /\ t \in DOMAIN m_snapshot.threadStates
       /\ m_snapshot.threadStates[t] = thread[t].base
       /\ ~m_snapshot.modified /\ op = "idle" => Untouched(t)
       /\ op = "restoring" /\ t \notin todo => Untouched(t)

OwnAffinity(p) == process[p].affinity = OriginalAffinity

\* The target's affinity is in the snapshot when it could be read, and is in force when
\* it cannot be set, outside an elevation, and as soon as the restoring starts.
AffinityInv ==
  /\ ~IsAttached => handleRights = {}
  /\ ~IsAttached /\ ~closing => \A p \in Pids : OwnAffinity(p)
  /\ IsAttached =>
       /\ process[m_targetPid].state # "new"
       /\ "query" \in handleRights => m_snapshot.originalAffinity = OriginalAffinity
       /\ /\ Running(m_targetPid) /\ "query" \in handleRights
          /\ \/ "set" \notin handleRights
             \/ op = "restoring"
             \/ op # "boosting" /\ ~m_snapshot.modified
          => OwnAffinity(m_targetPid)

\* The ids in the snapshot and those being walked are, or once were, a game's.
ForeignInv ==
  /\ \A t \in todo \cup DOMAIN m_snapshot.threadStates :
       thread[t].owner \in Games \/ thread[t].recycled
  /\ ForeignThreadsUntouched

-----------------------------------------------------------------------------

\* "temporarily elevate the game's execution context" (docs/technical-manifesto.md:38):
\* while nothing is modified, the game's threads have the priorities it gave them.
ElevationIsTemporary ==
  ~m_snapshot.modified /\ op = "idle" =>
    \A t \in Tids : thread[t].owner \in Games => thread[t].prio = thread[t].base

=============================================================================
