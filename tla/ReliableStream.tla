--------------------------- MODULE ReliableStream ---------------------------
(***************************************************************************)
(* What a reliable stream promises the two ends of a session: messages     *)
(* leave it one by one in the order in which they were pushed, and only    *)
(* the end of the session drops any.                                       *)
(***************************************************************************)
EXTENDS SequencesExt

VARIABLES
  pending,  \* messages pushed and not yet popped
  session   \* tells a session from the next: the parity of its number

vars == <<pending, session>>

Init == pending = <<>> /\ session = 0

Push == IsStrictPrefix(pending, pending') /\ UNCHANGED session

Pop == pending # <<>> /\ pending' = Tail(pending) /\ UNCHANGED session

Reset == pending' = <<>> /\ session' = 1 - session

Next == Push \/ Pop \/ Reset

Spec == Init /\ [][Next]_vars

=============================================================================
