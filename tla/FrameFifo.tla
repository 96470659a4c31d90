----------------------------- MODULE FrameFifo -----------------------------
(***************************************************************************)
(* What the receive half of the virtio-net driver promises the upper       *)
(* layer: the frames the device has received, each once, in their order,   *)
(* except those dropped for want of memory.                                *)
(***************************************************************************)
EXTENDS Integers, Sequences

CONSTANTS Frames, CAP, None

VARIABLES
  arrived,      \* received and not yet passed up
  passed        \* the last frame passed up, None if it was dropped

Init == arrived = <<>> /\ passed = None

Arrive(f) ==
  /\ Len(arrived) < CAP
  /\ arrived' = Append(arrived, f)
  /\ UNCHANGED passed

Pass ==
  /\ arrived # <<>>
  /\ passed' \in {Head(arrived), None}
  /\ arrived' = Tail(arrived)

Next == Pass \/ \E f \in Frames : Arrive(f)

Spec == Init /\ [][Next]_<<arrived, passed>>
=============================================================================
