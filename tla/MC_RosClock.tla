---------------------------- MODULE MC_RosClock ----------------------------
(***************************************************************************)
(* Pools with room for two sessions and everything in them: one more       *)
(* than the creations that fail half way.                                  *)
(***************************************************************************)
EXTENDS RosClock

Rooms == 2

MCCapacity == [kind \in Kinds |->
  CASE kind = "subscription" -> 4 * Rooms
    [] kind = "publisher"    -> 7 * Rooms
    [] OTHER                 -> Rooms]

=============================================================================
