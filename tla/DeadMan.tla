------------------------------ MODULE DeadMan ------------------------------
(***************************************************************************)
(* What the control loop promises about motion, without its clocks, phases *)
(* and agent states: a dead-man switch.  The robot starts to move only on  *)
(* a wish at most Timeout old, keeps moving only while the wish is renewed *)
(* often enough, and is never found moving on a wish older than Limit.     *)
(***************************************************************************)
EXTENDS Naturals

CONSTANTS
  Timeout,   \* oldest wish on which the robot may start to move
  Limit      \* oldest wish on which it may still be moving

VARIABLES
  moving,    \* are the motors powered?
  quiet      \* age of the newest wish to move, 0 at rest

vars == <<moving, quiet>>

Init == moving = FALSE /\ quiet = 0

Start ==
  /\ ~moving
  /\ moving' = TRUE
  /\ quiet' \in 0 .. Timeout

Wait ==
  /\ moving
  /\ quiet < Limit
  /\ quiet' = quiet + 1
  /\ UNCHANGED moving

\* A renewed wish may be dated in the past, but never before the last one.
Renew ==
  /\ moving
  /\ quiet' \in 0 .. quiet
  /\ UNCHANGED moving

Stop ==
  /\ moving
  /\ moving' = FALSE
  /\ quiet' = 0

Next == Start \/ Wait \/ Renew \/ Stop

Spec == Init /\ [][Next]_vars

=============================================================================
