----------------------------- MODULE MCRulePath -----------------------------
(***************************************************************************)
(* Two slots, two editions of a rule: enough for a commit that keeps one   *)
(* slot, replaces it, or drops it while a frame is between two rules.      *)
(***************************************************************************)
EXTENDS RulePath, TLC

CONSTANTS edition1, edition2, none

MCEditions == {edition1, edition2}
MCOneEdition == {edition1}

(* Editions are interchangeable: actions only compare them for equality.   *)
Symmetry == Permutations(MCEditions)
=============================================================================
