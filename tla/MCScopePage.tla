----------------------------- MODULE MCScopePage -----------------------------
(***************************************************************************)
(* Two rules for two slots, one of which is there already, in the lower or *)
(* the upper one, and a watch's row that stages both.                      *)
(***************************************************************************)
EXTENDS ScopePage

CONSTANTS r1, r2
MCFound == {[NoRules EXCEPT ![s] = r1] : s \in Slots}
MCWatchRows == {<<r1, r2>>}
=============================================================================
