--------------------------- MODULE MC_MotorOutput ---------------------------
(***************************************************************************)
(* A weak and a strong speed in one direction, a strong one in the other.  *)
(***************************************************************************)
EXTENDS MotorOutput

MCRpms == {-2, 0, 1, 2}

=============================================================================
