----------------------------- MODULE ActionTypes -----------------------------
(***************************************************************************)
(* The commands the AI engine sends to the actuator                        *)
(* (actuator/include/action_types.h).  A wire message is a record with any *)
(* subset of the optional fields; decoding fills in the defaults of        *)
(* from_json and maps an unknown name to the harmless value.               *)
(* A confidence is in thousandths; JSON carries no non-finite number.      *)
(***************************************************************************)
EXTENDS Integers

ActionType == {"NO_ACTION", "BOOST_TGP", "REBALANCE_THREADS", "BOOST_AND_REBALANCE"}

ActionTypeFromString(s) == IF s \in ActionType THEN s ELSE "NO_ACTION"

ThreadPriorityNames == {"NORMAL", "ABOVE_NORMAL", "HIGH"}

ThreadPriorityFromString(s) ==
  CASE s = "HIGH"         -> 2
    [] s = "ABOVE_NORMAL" -> 1
    [] OTHER              -> 0

\* cmd : an ActionCommand, of the fields that decide anything.
Command ==
  [action : ActionType, confidence : Int, tgp_boost_w : Int, thread_priority : 0..2]

\* The members of a message that from_json reads, each one optional.
Field(msg, name, default) == IF name \in DOMAIN msg THEN msg[name] ELSE default

FromJson(msg) ==
  [ action          |-> ActionTypeFromString(Field(msg, "action", "NO_ACTION")),
    confidence      |-> Field(msg, "confidence", 0),
    tgp_boost_w     |-> Field(msg, "tgp_boost_w", 0),
    thread_priority |-> ThreadPriorityFromString(Field(msg, "thread_priority", "NORMAL")) ]

BoostsTgp(cmd) == cmd.action \in {"BOOST_TGP", "BOOST_AND_REBALANCE"}

RebalancesThreads(cmd) == cmd.action \in {"REBALANCE_THREADS", "BOOST_AND_REBALANCE"}

=============================================================================
