--------------------------- MODULE MCDbcLifecycle ---------------------------
(***************************************************************************)
(* A file of one signal, one of two, and one that does not parse.          *)
(***************************************************************************)
EXTENDS DbcLifecycle, TLC

CONSTANTS small, large, broken, key1, key2

MCFiles == {small, large, broken}
MCSignals == (small :> 1) @@ (large :> 2) @@ (broken :> 0)
MCPackaged == {small, broken}
MCKeys == {key1, key2}
MCRequests ==
  {[mode |-> "ALL", keys |-> {}], [mode |-> "NONE", keys |-> {}],
   [mode |-> "SPECIFIC", keys |-> {}], [mode |-> "SPECIFIC", keys |-> {key1}]}
=============================================================================
