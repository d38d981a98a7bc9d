---------------------------- MODULE MCSchedulerUse ---------------------------
(***************************************************************************)
(* Instance of SchedulerUse: three thread ids for a game and another       *)
(* process.  The ids are interchangeable: nothing computes with them.      *)
(***************************************************************************)
EXTENDS SchedulerUse, TLC

CONSTANTS t1, t2, t3

MCTids == {t1, t2, t3}
Symmetry == Permutations(MCTids)
MCGames == {7}
MCCores == 0..5
MCAffinity == {0, 1}
MCRights == {{"query", "set"}, {"query"}, {"set"}}
MCMasks == {{}, {3}}

=============================================================================
