------------------------------ MODULE MCReplay ------------------------------
(***************************************************************************)
(* Two logs of different lengths, the longer one too long for the array,   *)
(* and a clock that wraps; a log of a single frame.                        *)
(***************************************************************************)
EXTENDS Replay

MCLogs == {"short", "long"}
MCDeltas == [l \in MCLogs |-> IF l = "short" THEN <<0, 1>> ELSE <<0, 1, 2, 1>>]

MCOneLog == {"one"}
MCSingleDeltas == [l \in MCOneLog |-> <<0>>]
=============================================================================
