---------------------------- MODULE MCFrameCache ----------------------------
(***************************************************************************)
(* Two entries and three keys, all with the same home, so that a key is    *)
(* found behind another one and the third finds the table full.            *)
(***************************************************************************)
EXTENDS FrameCache

CONSTANTS key1, key2, key3

MCKeys == {key1, key2, key3}
MCHome == [k \in MCKeys |-> 1]
MCBytes == {0}
MCValues == {0, 1}

OneByte(key, value, timestamp) ==
  [key |-> key, dlc |-> 1, data |-> [b \in MCBytes |-> value],
   mutated |-> value = 1, timestamp |-> timestamp]

(* Timestamps wrap around; none is zero.                                   *)
(* A frame of no byte between frames of one.                               *)
MCFrames ==
  {OneByte(key1, 0, 1), OneByte(key1, 1, 1), OneByte(key1, 1, 5),
   [OneByte(key1, 0, 5) EXCEPT !.dlc = 0]} \cup
  {OneByte(key2, 1, 1), OneByte(key3, 1, 1)}

=============================================================================
