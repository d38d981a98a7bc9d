---------------------------- MODULE MCSafetyGuard ----------------------------
(***************************************************************************)
(* Instance of SafetyGuardHistory: one command for every way through       *)
(* ValidateAction, with the configuration of actuator/src/main.cpp scaled  *)
(* down to two actions per window of two ticks.                            *)
(***************************************************************************)
EXTENDS SafetyGuardHistory

Valid == FromJson([action |-> "BOOST_AND_REBALANCE", confidence |-> 850,
                   tgp_boost_w |-> 50, thread_priority |-> "ABOVE_NORMAL"])

MCCommands ==
  { Valid,
    FromJson([action |-> "NO_ACTION", confidence |-> 900]),
    [Valid EXCEPT !.confidence = 199],
    [Valid EXCEPT !.thread_priority = 2],
    [Valid EXCEPT !.tgp_boost_w = 51],
    [Valid EXCEPT !.tgp_boost_w = -1] }

MCTargetPids == {0, 4567}

=============================================================================
