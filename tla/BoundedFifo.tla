---------------------------- MODULE BoundedFifo ----------------------------
(***************************************************************************)
(* What the ingress queue promises: frames leave in the order in which     *)
(* they were taken, each once, and an arriving frame is lost only when     *)
(* Capacity frames are waiting.  Gateway implements it with a ring.        *)
(***************************************************************************)
EXTENDS Integers, Sequences

CONSTANTS Frames, Capacity

VARIABLES
  waiting,   \* frames taken and not yet forwarded
  lost       \* how many were turned away

Init == waiting = <<>> /\ lost = 0

Take(f) == Len(waiting) < Capacity /\ waiting' = Append(waiting, f) /\ UNCHANGED lost
Lose == Len(waiting) = Capacity /\ lost' = lost + 1 /\ UNCHANGED waiting
Forward == waiting # <<>> /\ waiting' = Tail(waiting) /\ UNCHANGED lost

Next == (\E f \in Frames : Take(f)) \/ Lose \/ Forward

Spec == Init /\ [][Next]_<<waiting, lost>>
=============================================================================
