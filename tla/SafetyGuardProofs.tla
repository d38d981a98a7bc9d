-------------------------- MODULE SafetyGuardProofs --------------------------
(***************************************************************************)
(* The rate limiter of the safety guard is right for every window, every   *)
(* limit and every set of commands.                                        *)
(*                                                                         *)
(* Neither AtMostMaxPerWindow nor the refinement is inductive: both need   *)
(* to know that the pruned vector still holds every approval of the last   *)
(* window, with its time.  Remembers says so; HistoryInv adds the types.   *)
(***************************************************************************)
EXTENDS SafetyGuardHistory, FiniteSetTheorems, TLAPS

\* The approvals of the last second, of all there ever were.
RecentApprovals == {k \in DOMAIN approvedAt : Elapsed(approvedAt[k]) <= Window}

HistoryTypeOK ==
  /\ now \in Nat
  /\ approvedAt \in [DOMAIN approvedAt -> 0..now]
  /\ DOMAIN approvedAt \subseteq 1..m_approvedCount

\* What the guard remembers is part of the past, and all of it that is recent.
Remembers ==
  /\ DOMAIN m_actionTimestamps \subseteq DOMAIN approvedAt
  /\ \A k \in DOMAIN m_actionTimestamps : m_actionTimestamps[k] = approvedAt[k]
  /\ RecentApprovals \subseteq DOMAIN m_actionTimestamps

HistoryInv == GuardTypeOK /\ HistoryTypeOK /\ Remembers

-----------------------------------------------------------------------------
(* Lemmas on a state of the invariant *)

\* The stamps IsRateLimited keeps are exactly the approvals of the last second.
LEMMA RememberedIsRecent ==
  ASSUME HistoryInv
  PROVE  Remembered = RecentApprovals
BY DEF HistoryInv, Remembers, Remembered, RecentApprovals

\* They are finitely many, so that counting them means something.
LEMMA RememberedFinite ==
  ASSUME HistoryInv
  PROVE  IsFiniteSet(Remembered) /\ Cardinality(Remembered) \in Nat
<1>0. 1 \in Int /\ m_approvedCount \in Int
  BY DEF HistoryInv, GuardTypeOK
<1>1. IsFiniteSet(1..m_approvedCount)
  BY <1>0, FS_Interval
<1>2. Remembered \in SUBSET (1..m_approvedCount)
  BY DEF HistoryInv, GuardTypeOK, Remembered
<1>3. IsFiniteSet(Remembered)
  BY <1>1, <1>2, FS_Subset
<1> QED
  BY <1>3, FS_CardinalityType

\* The verdict is one of the seven, and "approved" only below the limit.
LEMMA ApprovedBelowLimit ==
  ASSUME NEW cmd \in Command, NEW pid \in Nat, Verdict(cmd, pid) = "approved"
  PROVE  ~IsRateLimited
BY DEF Verdict

-----------------------------------------------------------------------------

\* The guard's variables and the history keep their types, and the pruned vector
\* keeps every approval of the last second.
LEMMA InitHistoryInv == Init => HistoryInv
BY GuardAssumption
DEF Init, ClockInit, GuardInit, HistoryInv, GuardTypeOK, HistoryTypeOK, Remembers,
    RecentApprovals

LEMMA NextHistoryInv == HistoryInv /\ [Next]_vars => HistoryInv'
<1> SUFFICES ASSUME HistoryInv, [Next]_vars PROVE HistoryInv'
  OBVIOUS
<1> USE DEF HistoryInv, GuardTypeOK, HistoryTypeOK, Remembers
<1>1. CASE Pass
  <2>1. now \in Nat /\ now' = now + 1
    BY <1>1 DEF Pass, Tick
  <2>2. UNCHANGED <<guardVars, approvedAt>>
    BY <1>1 DEF Pass
  <2>3. RecentApprovals' \subseteq RecentApprovals
    BY <2>1, <2>2, GuardAssumption DEF RecentApprovals, Elapsed
  <2> QED
    BY <2>1, <2>2, <2>3 DEF guardVars
<1>2. ASSUME NEW cmd \in Commands, NEW pid \in TargetPids, Validate(cmd, pid)
      PROVE  HistoryInv'
  <2> DEFINE verdict == Verdict(cmd, pid)
             next    == m_approvedCount + 1
  <2>1. /\ ValidateAction(cmd, pid, verdict)
        /\ approvedAt' =
             IF verdict = "approved"
             THEN [k \in DOMAIN approvedAt \cup {next} |->
                     IF k \in DOMAIN approvedAt THEN approvedAt[k] ELSE now]
             ELSE approvedAt
        /\ now' = now
    BY <1>2 DEF Validate
  <2>2. /\ m_approvedCount' \in Nat /\ m_rejectedCount' \in Nat /\ m_auditFile' \in Nat
        /\ m_approvedCount' \in {m_approvedCount, next}
        /\ auditing' \in BOOLEAN
    <3>1. CASE Accepts(verdict)
      BY <2>1, <3>1 DEF ValidateAction
    <3>2. CASE ~Accepts(verdict)
      <4>1. /\ m_rejectedCount' = m_rejectedCount + 1
            /\ m_auditFile' \in {m_auditFile, m_auditFile + 1}
            /\ UNCHANGED <<m_approvedCount, auditing>>
        BY <2>1, <3>2 DEF ValidateAction, WriteAuditEntry
      <4> QED
        BY <4>1
    <3> QED
      BY <3>1, <3>2
  <2>3. Remembered = RecentApprovals
    BY RememberedIsRecent
  <2>4. CASE verdict = "approved"
    <3>1. m_approvedCount' = next
      BY <2>1, <2>4 DEF ValidateAction, Accepts
    <3>2. m_actionTimestamps' = Stamped
      BY <2>1, <2>4 DEF ValidateAction
    <3>3. next \notin DOMAIN approvedAt
      OBVIOUS
    <3>4. DOMAIN m_actionTimestamps' = Remembered \cup {next}
      BY <3>2 DEF Stamped
    <3>5. DOMAIN approvedAt' = DOMAIN approvedAt \cup {next}
      BY <2>1, <2>4
    <3>6. \A k \in DOMAIN approvedAt' :
             approvedAt'[k] = IF k \in DOMAIN approvedAt THEN approvedAt[k] ELSE now
      BY <2>1, <2>4
    <3>7. \A k \in DOMAIN m_actionTimestamps' : m_actionTimestamps'[k] = approvedAt'[k]
      BY <3>2, <3>3, <3>4, <3>5, <3>6 DEF Stamped, Remembered
    <3>8. RecentApprovals' \subseteq RecentApprovals \cup {next}
      BY <2>1, <3>5, <3>6 DEF RecentApprovals, Elapsed
    <3>9. Remembered \subseteq DOMAIN approvedAt
      BY DEF Remembered
    <3>10. approvedAt' = [k \in DOMAIN approvedAt' |-> approvedAt'[k]]
      BY <2>1, <2>4
    <3>11. m_actionTimestamps' = [k \in DOMAIN m_actionTimestamps' |-> m_actionTimestamps'[k]]
      BY <3>2 DEF Stamped
    <3>12. approvedAt' \in [DOMAIN approvedAt' -> 0..now]
      BY <3>5, <3>6, <3>10
    <3>13. m_actionTimestamps' \in [DOMAIN m_actionTimestamps' -> 0..now]
      BY <3>4, <3>5, <3>7, <3>9, <3>11, <3>12
    <3>14. Remembers'
      BY <2>3, <3>4, <3>5, <3>7, <3>8, <3>9
    <3>15. next \in 1..next /\ 1..m_approvedCount \subseteq 1..next
      OBVIOUS
    <3>16. DOMAIN approvedAt' \subseteq 1..next
      BY <3>5, <3>15
    <3>17. GuardTypeOK'
      BY <2>1, <2>2, <3>1, <3>14, <3>13, <3>16
    <3>18. HistoryTypeOK'
      BY <2>1, <3>1, <3>12, <3>16
    <3> QED
      BY <3>14, <3>17, <3>18
  <2>5. CASE verdict # "approved"
    <3>1. m_actionTimestamps' = Erased /\ approvedAt' = approvedAt
      BY <2>1, <2>5 DEF ValidateAction
    <3>2. DOMAIN m_actionTimestamps' = Remembered
      BY <3>1 DEF Erased
    <3>3. \A k \in Remembered : m_actionTimestamps'[k] = m_actionTimestamps[k]
      BY <3>1 DEF Erased
    <3>4. Remembered \subseteq DOMAIN m_actionTimestamps
      BY DEF Remembered
    <3>5. RecentApprovals' = RecentApprovals
      BY <2>1, <3>1 DEF RecentApprovals, Elapsed
    <3>6. m_actionTimestamps' \in [DOMAIN m_actionTimestamps' -> 0..now]
      BY <3>1, <3>2, <3>3, <3>4 DEF Erased
    <3> QED
      BY <2>1, <2>2, <2>3, <3>1, <3>2, <3>3, <3>4, <3>5, <3>6
  <2> QED
    BY <2>4, <2>5
<1>3. CASE UNCHANGED vars
  BY <1>3 DEF vars, guardVars, RecentApprovals, Elapsed
<1> QED
  BY <1>1, <1>2, <1>3 DEF Next

THEOREM HistoryInvariant == Spec => []HistoryInv
BY InitHistoryInv, NextHistoryInv, PTL DEF Spec

\* The type invariant of the guard.
THEOREM GuardTypeCorrect == Spec => []GuardTypeOK
<1>1. HistoryInv => GuardTypeOK
  BY DEF HistoryInv
<1> QED
  BY <1>1, HistoryInvariant, PTL

\* What the guard decides from its pruned vector (IsRateLimited, safety_guard.cpp:111)
\* is what the whole past says.
THEOREM LimiterIsExact == Spec => []LimiterExact
<1>1. HistoryInv => LimiterExact
  BY RememberedIsRecent DEF LimiterExact, IsRateLimited, RecentApprovals
<1> QED
  BY <1>1, HistoryInvariant, PTL

-----------------------------------------------------------------------------
(* The window *)

\* A new approval comes after at most max_actions_per_second - 1 others in its window,
\* and changes the window of no earlier one.
LEMMA NextAtMostMax == HistoryInv /\ AtMostMaxPerWindow /\ [Next]_vars => AtMostMaxPerWindow'
<1> SUFFICES ASSUME HistoryInv, AtMostMaxPerWindow, [Next]_vars,
                    NEW k \in DOMAIN approvedAt'
             PROVE  Cardinality(WindowOf(k)') <= max_actions_per_second
  BY DEF AtMostMaxPerWindow
<1> USE DEF HistoryInv, HistoryTypeOK
<1>1. CASE approvedAt' = approvedAt
  <2>1. WindowOf(k)' = WindowOf(k)
    BY <1>1 DEF WindowOf
  <2> QED
    BY <1>1, <2>1 DEF AtMostMaxPerWindow
<1>2. ASSUME NEW cmd \in Commands, NEW pid \in TargetPids, Validate(cmd, pid),
             Verdict(cmd, pid) = "approved"
      PROVE  Cardinality(WindowOf(k)') <= max_actions_per_second
  <2> DEFINE next == m_approvedCount + 1
  <2>1. /\ DOMAIN approvedAt' = DOMAIN approvedAt \cup {next}
        /\ \A j \in DOMAIN approvedAt' :
             approvedAt'[j] = IF j \in DOMAIN approvedAt THEN approvedAt[j] ELSE now
        /\ now' = now
    BY <1>2 DEF Validate
  <2>2. m_approvedCount \in Nat
    BY DEF GuardTypeOK
  <2>3. \A j \in DOMAIN approvedAt : j \in Nat /\ j < next
    BY <2>2
  <2>4. CASE k \in DOMAIN approvedAt
    <3>1. \A j \in WindowOf(k)' : j \in DOMAIN approvedAt
      BY <2>1, <2>2, <2>3, <2>4 DEF WindowOf
    <3>2. WindowOf(k)' = WindowOf(k)
      BY <2>1, <2>4, <3>1 DEF WindowOf
    <3> QED
      BY <2>4, <3>2 DEF AtMostMaxPerWindow
  <2>5. CASE k \notin DOMAIN approvedAt
    <3>1. k = next /\ approvedAt'[k] = now
      BY <2>1, <2>5
    <3>2. WindowOf(k)' \subseteq RecentApprovals \cup {k}
      BY <2>1, <3>1 DEF WindowOf, RecentApprovals, Elapsed
    <3>3. /\ IsFiniteSet(RecentApprovals) /\ Cardinality(RecentApprovals) \in Nat
          /\ Cardinality(RecentApprovals) < max_actions_per_second
      <4>1. ~IsRateLimited
        BY <1>2, HistoryAssumption, ApprovedBelowLimit
      <4> QED
        BY <4>1, RememberedIsRecent, RememberedFinite, GuardAssumption DEF IsRateLimited
    <3>4. /\ IsFiniteSet(RecentApprovals \cup {k})
          /\ Cardinality(RecentApprovals \cup {k}) <= Cardinality(RecentApprovals) + 1
      <4> DEFINE recent == RecentApprovals
      <4>1. IsFiniteSet(recent) /\ Cardinality(recent) \in Nat
        BY <3>3
      <4> HIDE DEF recent
      <4>2. /\ IsFiniteSet(recent \cup {k})
            /\ Cardinality(recent \cup {k}) =
                 IF k \in recent THEN Cardinality(recent) ELSE Cardinality(recent) + 1
        BY <4>1, FS_AddElement
      <4>3. Cardinality(recent \cup {k}) <= Cardinality(recent) + 1
        BY <4>1, <4>2
      <4> QED
        BY <4>2, <4>3 DEF recent
    <3>5. Cardinality(WindowOf(k)') <= Cardinality(RecentApprovals \cup {k})
      BY <3>2, <3>4, FS_Subset
    <3>6. /\ Cardinality(RecentApprovals \cup {k}) \in Nat
          /\ Cardinality(WindowOf(k)') \in Nat
      BY <3>2, <3>4, FS_Subset, FS_CardinalityType
    <3> QED
      BY <3>3, <3>4, <3>5, <3>6, GuardAssumption
  <2> QED
    BY <2>4, <2>5
<1> QED
  BY <1>1, <1>2 DEF Next, Pass, Validate, vars

\* In no window of one second, both ends included, are more than
\* max_actions_per_second commands approved (ValidateAction, safety_guard.cpp:25-98).
THEOREM RateIsBounded == Spec => []AtMostMaxPerWindow
<1>1. Init => AtMostMaxPerWindow
  BY DEF Init, AtMostMaxPerWindow
<1> QED
  BY <1>1, HistoryInvariant, NextAtMostMax, PTL DEF Spec

-----------------------------------------------------------------------------
(* The refinement *)

\* Every step of the guard is a grant of the abstract limiter, a tick or a stutter.
LEMMA StepImplementsLimiter ==
  HistoryInv /\ [Next]_vars => [Limiter!Next]_<<now, approvedAt>>
<1> SUFFICES ASSUME HistoryInv, [Next]_vars
             PROVE  [Limiter!Next]_<<now, approvedAt>>
  OBVIOUS
<1>1. CASE Pass
  BY <1>1 DEF Pass, Limiter!Next, Tick, Limiter!Tick
<1>2. ASSUME NEW cmd \in Commands, NEW pid \in TargetPids, Validate(cmd, pid)
      PROVE  [Limiter!Next]_<<now, approvedAt>>
  <2>1. CASE Verdict(cmd, pid) # "approved"
    BY <1>2, <2>1 DEF Validate
  <2>2. CASE Verdict(cmd, pid) = "approved"
    <3> DEFINE next == m_approvedCount + 1
    <3>1. next \in 1..MaxCalls
      BY <1>2, HistoryAssumption DEF Validate, HistoryInv, GuardTypeOK
    <3>2. next \notin DOMAIN approvedAt
      BY DEF HistoryInv, HistoryTypeOK, GuardTypeOK
    <3>3. Cardinality(Limiter!Recent) < max_actions_per_second
      <4>1. ~IsRateLimited
        BY <1>2, <2>2, HistoryAssumption, ApprovedBelowLimit
      <4>2. Limiter!Recent = RecentApprovals
        BY DEF Limiter!Recent, RecentApprovals, Elapsed, Limiter!Elapsed
      <4> QED
        BY <4>1, <4>2, RememberedIsRecent, RememberedFinite, GuardAssumption
        DEF IsRateLimited
    <3>4. Limiter!Cardinality(Limiter!Recent) = Cardinality(Limiter!Recent)
      BY DEF Limiter!Cardinality, Cardinality
    <3>5. Limiter!Grant(next)
      BY <1>2, <2>2, <3>2, <3>3, <3>4 DEF Validate, Limiter!Grant
    <3> QED
      BY <3>1, <3>5 DEF Limiter!Next
  <2> QED
    BY <2>1, <2>2
<1>3. CASE UNCHANGED vars
  BY <1>3 DEF vars
<1> QED
  BY <1>1, <1>2, <1>3 DEF Next

\* The guard implements the abstract rate limiter, whatever it forgets.
THEOREM GuardImplementsLimiter == Spec => ImplementsLimiter
<1>1. Init => Limiter!Init
  BY DEF Init, Limiter!Init, ClockInit, Limiter!ClockInit
<1> QED
  BY <1>1, HistoryInvariant, StepImplementsLimiter, PTL
  DEF Spec, ImplementsLimiter, Limiter!Spec

=============================================================================
