-------------------------------- MODULE Clock --------------------------------
(***************************************************************************)
(* The steady clock that the actuator's parts read.  One tick stands for   *)
(* the resolution at which a run tells times apart; the thresholds (rate   *)
(* window, scan interval, rollback timeout) are numbers of ticks.  A step  *)
(* of the code takes no time of its own: ticks fall between steps, any     *)
(* number of them, so every step may come arbitrarily late.                *)
(***************************************************************************)
EXTENDS Naturals

CONSTANT MaxTime      \* bound: the clock of a run stops here

ASSUME MaxTimeAssumption == MaxTime \in Nat

VARIABLE now          \* std::chrono::steady_clock::now()

ClockInit == now = 0

Tick == now < MaxTime /\ now' = now + 1

\* Time since t, as `steady_clock::now() - t`.
Elapsed(t) == now - t

=============================================================================
