-------------------------------- MODULE Fifo --------------------------------
(***************************************************************************)
(* What a delay on a path does to the frames: they leave in the order in   *)
(* which they entered, and a frame may get lost on entry.                  *)
(***************************************************************************)
EXTENDS Sequences

CONSTANT Frames

VARIABLES inside, sent   \* the frames on the path, and those that have left

Init == inside = <<>> /\ sent = <<>>

Enter(f) == inside' = Append(inside, f) /\ UNCHANGED sent

Leave ==
  /\ inside # <<>>
  /\ sent' = Append(sent, Head(inside))
  /\ inside' = Tail(inside)

Next == (\E f \in Frames : Enter(f)) \/ Leave

\* A frame on the path leaves it.
Spec == Init /\ [][Next]_<<inside, sent>> /\ WF_<<inside, sent>>(Leave)

=============================================================================
