---------------------------- MODULE AdlxActuator -----------------------------
(***************************************************************************)
(* The GPU power actuator (actuator/src/adlx_actuator.cpp): raises the     *)
(* total graphics power limit for a while and puts the default back.       *)
(* gpuLimit is the limit the GPU itself holds; it outlives the process.    *)
(***************************************************************************)
EXTENDS Clock, Integers

CONSTANTS
  default_tgp_w,          \* TgpConfig
  absolute_max_tgp_w,
  max_boost_w,
  revert_timeout,         \* revert_timeout_ms, in ticks
  InitOutcomes,           \* how Initialize may end: "ready", "absent" or "failed"
  FactoryLimit            \* the GPU's limit before the first program touched it

ASSUME TgpAssumption ==
  /\ default_tgp_w \in Nat \ {0}
  /\ max_boost_w \in Nat
  /\ revert_timeout \in Nat
  /\ absolute_max_tgp_w \in Nat /\ default_tgp_w <= absolute_max_tgp_w
  /\ FactoryLimit \in Nat
  /\ InitOutcomes \subseteq {"ready", "absent", "failed"}

VARIABLES
  m_adlxAvailable,
  m_state,                \* TgpState
  gpuLimit                \* external: the limit in force in the GPU

tgpVars == <<m_adlxAvailable, m_state, gpuLimit>>

TgpState ==
  [ default_tgp_w : Nat, current_tgp_w : Nat, boost_applied_w : Nat,
    boost_active : BOOLEAN, boost_start : Nat ]

TgpTypeOK ==
  /\ m_adlxAvailable \in BOOLEAN
  /\ m_state \in TgpState
  /\ m_state.boost_start <= now
  /\ gpuLimit \in Nat

\* The state after Initialize, by how it ended: ADLX ready, the program built without
\* it, or one of its services missing.  The limit the GPU has is not read: the default
\* is the configured one, or stays zero when ADLX failed.
TgpInit ==
  /\ gpuLimit = FactoryLimit
  /\ \E outcome \in InitOutcomes, default \in {0, default_tgp_w} :
       /\ default = 0 <=> outcome = "failed"
       /\ m_adlxAvailable = (outcome = "ready")
       /\ m_state = [ default_tgp_w |-> default, current_tgp_w |-> default,
                      boost_applied_w |-> 0, boost_active |-> FALSE, boost_start |-> 0 ]

-----------------------------------------------------------------------------

\* SetTgpLimit(tgp_w), returning ok.  Without ADLX it does nothing and succeeds.
SetTgpLimit(tgp_w, ok) ==
  /\ ok \/ m_adlxAvailable
  /\ gpuLimit' = IF ok /\ m_adlxAvailable THEN tgp_w ELSE gpuLimit
  /\ UNCHANGED m_adlxAvailable

Lesser(a, b) == IF a <= b THEN a ELSE b

\* Mutant: no cap on the sum.
TargetTgpUncapped(boost_w) == m_state.default_tgp_w + Lesser(boost_w, max_boost_w)

\* The limit asked for by a boost.
TargetTgp(boost_w) ==
  Lesser(m_state.default_tgp_w + Lesser(boost_w, max_boost_w), absolute_max_tgp_w)

\* Mutant: the bookkeeping comes before the call, and stays when it fails.
ApplyBoostEagerly(boost_w, ok) ==
  /\ SetTgpLimit(TargetTgp(boost_w), ok)
  /\ m_state' = [m_state EXCEPT !.boost_applied_w = Lesser(boost_w, max_boost_w),
                                !.boost_active    = TRUE,
                                !.boost_start     = now,
                                !.current_tgp_w   = TargetTgp(boost_w)]

\* Mutant: the deadline is stored where the start belongs.
ApplyBoostDeadline(boost_w, ok) ==
  /\ SetTgpLimit(TargetTgp(boost_w), ok)
  /\ m_state' = IF ok
                THEN [m_state EXCEPT !.boost_applied_w = Lesser(boost_w, max_boost_w),
                                     !.boost_active    = TRUE,
                                     !.boost_start     = now + revert_timeout,
                                     !.current_tgp_w   = TargetTgp(boost_w)]
                ELSE m_state

\* ApplyBoost(boost_w), returning ok.  A boost in force is renewed, at the new height.
ApplyBoost(boost_w, ok) ==
  /\ SetTgpLimit(TargetTgp(boost_w), ok)
  /\ m_state' = IF ok
                THEN [m_state EXCEPT !.boost_applied_w = Lesser(boost_w, max_boost_w),
                                     !.boost_active    = TRUE,
                                     !.boost_start     = now,
                                     !.current_tgp_w   = TargetTgp(boost_w)]
                ELSE m_state

\* Putting the default back; when the driver refuses, everything stays.
PutBack(ok) ==
  /\ SetTgpLimit(m_state.default_tgp_w, ok)
  /\ m_state' = IF ok
                THEN [m_state EXCEPT !.boost_applied_w = 0,
                                     !.boost_active    = FALSE,
                                     !.current_tgp_w   = m_state.default_tgp_w]
                ELSE m_state

\* RevertToDefault, whose answer is ok; also what the destructor does.
RevertToDefault(ok) ==
  IF m_state.boost_active THEN PutBack(ok) ELSE ok /\ UNCHANGED tgpVars

\* Mutants: one tick early; only on the very tick of the deadline.
BoostExpiredEarly == m_state.boost_active /\ Elapsed(m_state.boost_start) + 1 >= revert_timeout
BoostExpiredOnTime == m_state.boost_active /\ Elapsed(m_state.boost_start) = revert_timeout

BoostExpired == m_state.boost_active /\ Elapsed(m_state.boost_start) >= revert_timeout

\* CheckAndRevertTimeout, called once per pass of the main loop; ok as in PutBack.
CheckAndRevertTimeout(ok) ==
  IF BoostExpired THEN PutBack(ok) ELSE ok /\ UNCHANGED tgpVars

=============================================================================
