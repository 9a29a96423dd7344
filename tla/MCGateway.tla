----------------------------- MODULE MCGateway -----------------------------
(***************************************************************************)
(* A ring that two polls of one pass can fill and overfill, as in the      *)
(* code, so that one bus may leave no room for the other; and rates that   *)
(* reach their cap.                                                        *)
(***************************************************************************)
EXTENDS Gateway
=============================================================================
