-------------------------------- MODULE Lease --------------------------------
(***************************************************************************)
(* What the actuator promises of everything it elevates, the GPU's power   *)
(* limit and the game's threads: an elevation is held on a lease.  A lease *)
(* may be taken or renewed while the holder is open, ends by itself only   *)
(* once Timeout has passed since it was last renewed, and is given up      *)
(* early only after the holder has closed, which is final.                 *)
(***************************************************************************)
EXTENDS Clock, Integers

CONSTANT Timeout

VARIABLES held, since, closed

Init == ClockInit /\ held = FALSE /\ since = 0 /\ closed = FALSE

Take == ~closed /\ held' = TRUE /\ since' = now /\ UNCHANGED <<now, closed>>

Expire == held /\ Elapsed(since) >= Timeout /\ held' = FALSE /\ UNCHANGED <<now, since, closed>>

Close == closed' = TRUE /\ UNCHANGED <<now, held, since>>

GiveUp == closed /\ held' = FALSE /\ UNCHANGED <<now, since, closed>>

Next == (Tick /\ UNCHANGED <<held, since, closed>>) \/ Take \/ Expire \/ Close \/ GiveUp

Spec == Init /\ [][Next]_<<now, held, since, closed>>

=============================================================================
