------------------------------ MODULE RuleSet ------------------------------
(***************************************************************************)
(* What the rules API promises its clients, without slots, sequence        *)
(* numbers, shadow copies or tables: a draft that is edited freely and a   *)
(* live rule set that only a commit, a removal or a clear may change.      *)
(* Rules carry an identity; a set never holds two rules of one identity.   *)
(* MutationEngine implements this specification.                           *)
(***************************************************************************)
EXTENDS Integers, FiniteSets

CONSTANTS
  Rules,          \* every rule a client can ask for
  IdentityOf(_),  \* what makes two rules the same rule
  Capacity        \* how many rules the draft can hold

VARIABLES
  draft,          \* rules being edited
  live            \* rules in force

Init == draft = {} /\ live = {}

(* Staging a rule replaces the rule of the same identity, if there is one. *)
Stage(r) ==
  LET kept == {d \in draft : IdentityOf(d) # IdentityOf(r)}
  IN  /\ Cardinality(kept) < Capacity
      /\ draft' = kept \cup {r}
      /\ UNCHANGED live

Discard == draft' = {} /\ UNCHANGED live

Revert == draft' = live /\ UNCHANGED live

Commit == live' = draft /\ UNCHANGED draft

(* A removal starts from the live set, so it never commits draft edits.    *)
Remove(r) ==
  /\ r \in live
  /\ live' = live \ {r}
  /\ draft' = live'

Clear == draft' = {} /\ live' = {}

Next ==
  \/ \E r \in Rules : Stage(r) \/ Remove(r)
  \/ Discard \/ Revert \/ Commit \/ Clear

Spec == Init /\ [][Next]_<<draft, live>>
=============================================================================
