------------------------------ MODULE MCActuator -----------------------------
(***************************************************************************)
(* Instance of Actuator: one thread id, for which a game and another       *)
(* process compete.                                                        *)
(***************************************************************************)
EXTENDS Actuator

MCTids == {1}
MCGames == {7}
MCCores == 0..5
MCAffinity == {0, 1}
MCRights == {{"query", "set"}}
MCMasks == {{}}

Boost == [action |-> "BOOST_AND_REBALANCE", confidence |-> 850,
          tgp_boost_w |-> 50, thread_priority |-> "HIGH"]

MCMessages ==
  { Boost,
    [Boost EXCEPT !.action = "BOOST_TGP", !.tgp_boost_w = 20],
    [action |-> "REBALANCE_THREADS", confidence |-> 850],
    [action |-> "UNKNOWN"] }

\* For the liveness run: one command, approved or rate limited.
LiveMessages == {Boost}

=============================================================================
