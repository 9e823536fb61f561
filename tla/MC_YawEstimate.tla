--------------------------- MODULE MC_YawEstimate ---------------------------
(***************************************************************************)
(* Three readings, on both sides of zero and not centred on it; corrected  *)
(* by any offset they cover the whole circle, half a turn itself included. *)
(***************************************************************************)
EXTENDS YawEstimate

MCReadings  == {-1, 1, 2}
MCRates     == {0, 1}
MCHeadingOf == [field \in Fields |-> ((field + HALF - 1) % (2 * HALF)) - HALF + 1]

=============================================================================
