------------------------- MODULE SafetyGuardHistory --------------------------
(***************************************************************************)
(* The safety guard under a caller that validates any command at any time, *)
(* with a history variable: approvedAt keeps what the guard's vector       *)
(* forgets, the time of every command ever approved.                       *)
(***************************************************************************)
EXTENDS SafetyGuard

CONSTANTS
  Commands,       \* the commands a run validates
  TargetPids,     \* the process ids they are validated for; 0 is "not attached"
  MaxCalls        \* bound on the calls of ValidateAction

ASSUME HistoryAssumption ==
  /\ Commands \subseteq Command
  /\ TargetPids \subseteq Nat
  /\ MaxCalls \in Nat

VARIABLE approvedAt

vars == <<now, guardVars, approvedAt>>

Init == ClockInit /\ GuardInit /\ approvedAt = [k \in {} |-> 0]

Validate(cmd, pid) ==
  /\ m_approvedCount + m_rejectedCount < MaxCalls
  /\ \E verdict \in {Verdict(cmd, pid)} :
       /\ ValidateAction(cmd, pid, verdict)
       /\ approvedAt' =
            IF verdict = "approved"
            THEN [k \in DOMAIN approvedAt \cup {m_approvedCount + 1} |->
                    IF k \in DOMAIN approvedAt THEN approvedAt[k] ELSE now]
            ELSE approvedAt
  /\ UNCHANGED now

Pass == Tick /\ UNCHANGED <<guardVars, approvedAt>>

Next == Pass \/ \E cmd \in Commands, pid \in TargetPids : Validate(cmd, pid)

Spec == Init /\ [][Next]_vars

-----------------------------------------------------------------------------

\* The approvals that are not newer than the k-th and at most one window older.
WindowOf(k) ==
  {j \in DOMAIN approvedAt : j <= k /\ approvedAt[k] - approvedAt[j] <= Window}

\* In no window of one second, both ends included, are more than
\* max_actions_per_second commands approved, although the guard forgets old
\* approvals as it goes and counts only those it still remembers.
AtMostMaxPerWindow ==
  \A k \in DOMAIN approvedAt : Cardinality(WindowOf(k)) <= max_actions_per_second

\* Forgetting loses nothing: what the guard decides from its pruned vector is
\* what it would decide from the whole past.  In particular it never refuses
\* for the rate once the last second holds fewer approvals than the limit.
LimiterExact ==
  IsRateLimited <=>
    Cardinality({k \in DOMAIN approvedAt : Elapsed(approvedAt[k]) <= Window})
      >= max_actions_per_second

\* The guard implements the abstract rate limiter, its approvals being the grants.
Limiter == INSTANCE RateLimiter
  WITH Limit <- max_actions_per_second, grantedAt <- approvedAt, Tickets <- 1..MaxCalls

ImplementsLimiter == Limiter!Spec

\* What the test test_no_action_always_passes (actuator/tests/test_safety_guard.cpp:7)
\* says in its name: a NO_ACTION command is never rejected.
NoActionAlwaysPasses ==
  \A cmd \in Commands, pid \in TargetPids :
    cmd.action = "NO_ACTION" => Accepts(Verdict(cmd, pid))

=============================================================================
