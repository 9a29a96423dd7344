--------------------------- MODULE MutationEngine ---------------------------
(***************************************************************************)
(* The staged rules engine (core/mutation_engine.cpp), one action per call *)
(* of its interface.  Calls are atomic here; RulePath splits the ones that *)
(* the CAN task and the UI task run against each other.                    *)
(*                                                                         *)
(* A slot is an index into staged_ and runtime_state_, and doubles as the  *)
(* rule_id.  The runtime state of a slot (mode, current_value) is shared   *)
(* by the staged rule and the compiled rule that carry that rule_id.       *)
(*                                                                         *)
(* A definition named ...Mutant is a faulty version of the one after it,   *)
(* kept to show that a property notices the fault; nothing uses it.        *)
(***************************************************************************)
EXTENDS Integers, FiniteSets

CONSTANTS
  MaxRules,    \* kMaxRules, 96 in the code
  SeqModulus,  \* allocateSequence keeps next_sequence_ modulo 2^16
  MaxStages,   \* bound: how many sequence numbers a behaviour may allocate
  Keys,        \* (can_id, direction) pairs
  Ranges,      \* sets of payload bits a rule can write
  Values,      \* values a rule can write, 0 among them
  Requests     \* the requests clients send that normalizeRule accepts

Slots == 0 .. MaxRules - 1
Modes == {"Disabled", "Enabled", "SingleShot"}
Kinds == {"BIT_RANGE", "RAW_MASK"}

RuleStageRequest ==
  [kind : Kinds, key : Keys, range : Ranges, dynamic : BOOLEAN,
   enabled : BOOLEAN, value : Values]

ASSUME EngineAssumption ==
  /\ MaxRules \in Nat \ {0}
  /\ SeqModulus \in Nat \ {0}
  /\ MaxStages \in Nat
  /\ 0 \in Values
  /\ Requests \subseteq RuleStageRequest

(* A staged rule.  "birth" is the sequence number before its truncation to *)
(* sixteen bits: a history value, read by no action.                       *)
StagedRule ==
  [in_use : {TRUE}, sequence : 0 .. SeqModulus - 1, birth : Nat,
   request : RuleStageRequest]
NoRule == [in_use |-> FALSE]

(* The enabled flag of a compiled rule's source is never read: activity    *)
(* is decided by the slot's mode.  Compiled rules are kept without it.     *)
Shape(request) == [request EXCEPT !.enabled = FALSE]

CompiledRule ==
  [rule_id : Slots, priority : 0 .. MaxRules - 1, source : RuleStageRequest]

VARIABLES
  staged,         \* staged_
  staged_count,   \* staged_count_
  committed,      \* committed_shadow_, indexed by the rule_id it stores
  table,          \* the rules of the active table
  mode,           \* runtime_state_[].mode
  current_value,  \* runtime_state_[].current_value
  next_sequence   \* next_sequence_

vars == <<staged, staged_count, committed, table, mode, current_value,
          next_sequence>>

-----------------------------------------------------------------------------
InUse(rules) == {s \in Slots : rules[s].in_use}

(* findStagedIdentity: a BIT_RANGE rule is identified by its range and its *)
(* dynamic flag, and there is one RAW_MASK rule per (can_id, direction).   *)
Identity(request) ==
  IF request.kind = "BIT_RANGE"
  THEN <<request.kind, request.key, request.range, request.dynamic>>
  ELSE <<request.kind, request.key>>

SameIdentityMutant(request) ==
  {s \in InUse(staged) : staged[s].request = request}
SameIdentity(request) ==
  {s \in InUse(staged) : Identity(staged[s].request) = Identity(request)}

FreeSlots == Slots \ InUse(staged)

Lowest(slots) == CHOOSE s \in slots : \A t \in slots : s <= t

(* The order in which applyCommit writes rules: BIT_RANGE before RAW_MASK, *)
(* each in stage sequence, ties in slot order (the insertion sort of lines *)
(* 185-197 is stable).                                                     *)
BeforeMutant(rules, s, t) ==
  \/ rules[s].sequence < rules[t].sequence
  \/ rules[s].sequence = rules[t].sequence /\ s < t
Before(rules, s, t) ==
  LET a == rules[s]  b == rules[t]
  IN  IF a.request.kind # b.request.kind
      THEN a.request.kind = "BIT_RANGE"
      ELSE \/ a.sequence < b.sequence
           \/ a.sequence = b.sequence /\ s < t

Rank(rules, s) == Cardinality({t \in InUse(rules) : Before(rules, t, s)})

Compile(rules) ==
  {[rule_id |-> s, priority |-> Rank(rules, s),
    source |-> Shape(rules[s].request)] : s \in InUse(rules)}

(* applyCommit for the staging area "rules" and the modes "modes": the     *)
(* shadow copy, the disarming of slots that hold no rule, the table swap.  *)
CommitOfMutant(rules, modes) ==
  /\ UNCHANGED committed
  /\ mode' = [s \in Slots |-> IF rules[s].in_use THEN modes[s] ELSE "Disabled"]
  /\ table' = Compile(rules)
CommitOf(rules, modes) ==
  /\ committed' = rules
  /\ mode' = [s \in Slots |-> IF rules[s].in_use THEN modes[s] ELSE "Disabled"]
  /\ table' = Compile(rules)

(* setRuleMode on every slot of "slots", with syncStagedRequestEnabled.    *)
Synced(rules, slots, m) ==
  [s \in Slots |-> IF s \in slots /\ rules[s].in_use
                   THEN [rules[s] EXCEPT !.request.enabled = (m = "Enabled")]
                   ELSE rules[s]]

SetModes(slots, m) ==
  /\ mode' = [s \in Slots |-> IF s \in slots THEN m ELSE mode[s]]
  /\ staged' = Synced(staged, slots, m)
  /\ committed' = Synced(committed, slots, m)

-----------------------------------------------------------------------------
Init ==
  /\ staged = [s \in Slots |-> NoRule]
  /\ staged_count = 0
  /\ committed = [s \in Slots |-> NoRule]
  /\ table = {}
  /\ mode = [s \in Slots |-> "Disabled"]
  /\ current_value = [s \in Slots |-> 0]
  /\ next_sequence = 1

(* The common end of stageRule: the request is stored and its mode and,    *)
(* for a dynamic rule, its value take effect in the slot's runtime state.  *)
StartRuntime(slot, request) ==
  /\ mode' = [mode EXCEPT ![slot] =
                IF request.enabled THEN "Enabled" ELSE "Disabled"]
  /\ current_value' =
       IF request.kind = "BIT_RANGE" /\ request.dynamic
       THEN [current_value EXCEPT ![slot] = request.value]
       ELSE current_value

(* stageRule for an identity that is already staged.                       *)
RestageRule(request) ==
  /\ SameIdentity(request) # {}
  /\ LET slot == Lowest(SameIdentity(request))
     IN  /\ staged' = [staged EXCEPT ![slot].request = request]
         /\ StartRuntime(slot, request)
  /\ UNCHANGED <<staged_count, committed, table, next_sequence>>

(* stageRule for a new identity: the lowest slot that staging leaves free. *)
StageNewRule(request) ==
  /\ SameIdentity(request) = {}
  /\ FreeSlots # {}
  /\ next_sequence <= MaxStages
  /\ LET slot == Lowest(FreeSlots)
     IN  /\ staged' = [staged EXCEPT ![slot] =
                         [in_use |-> TRUE,
                          sequence |-> next_sequence % SeqModulus,
                          birth |-> next_sequence, request |-> request]]
         /\ StartRuntime(slot, request)
  /\ staged_count' = staged_count + 1
  /\ next_sequence' = next_sequence + 1
  /\ UNCHANGED <<committed, table>>

StageRule(request) == RestageRule(request) \/ StageNewRule(request)

(* stageMutation: REPLACE stages a static range, PASS_THROUGH a disabled   *)
(* one; the arithmetic operations are refused and change nothing.          *)
LegacyRequest(operation, request) ==
  IF operation = "PASS_THROUGH"
  THEN [request EXCEPT !.dynamic = FALSE, !.enabled = FALSE, !.value = 0]
  ELSE [request EXCEPT !.dynamic = FALSE]

StageMutation(operation, request) ==
  /\ request.kind = "BIT_RANGE"
  /\ StageRule(LegacyRequest(operation, request))

ClearStaging ==
  /\ staged' = [s \in Slots |-> NoRule]
  /\ staged_count' = 0
  /\ UNCHANGED <<committed, table, mode, current_value, next_sequence>>

RevertStagingToActiveMutant ==
  /\ staged' = [s \in Slots |-> IF committed[s].in_use THEN committed[s]
                                ELSE staged[s]]
  /\ staged_count' = Cardinality({s \in Slots : staged'[s].in_use})
  /\ UNCHANGED <<committed, table, mode, current_value, next_sequence>>
RevertStagingToActive ==
  /\ staged' = committed
  /\ staged_count' = Cardinality(InUse(committed))
  /\ UNCHANGED <<committed, table, mode, current_value, next_sequence>>

ApplyCommit ==
  /\ CommitOf(staged, mode)
  /\ UNCHANGED <<staged, staged_count, current_value, next_sequence>>

(* removeRule drops every uncommitted edit before it looks for the rule,   *)
(* and leaves staging reverted when the rule is not there.                 *)
RemoveRuleMutant(slot) ==
  IF staged[slot].in_use
  THEN LET kept == [staged EXCEPT ![slot] = NoRule]
       IN  /\ staged' = kept
           /\ staged_count' = staged_count - 1
           /\ current_value' = [current_value EXCEPT ![slot] = 0]
           /\ CommitOf(kept, mode)
           /\ UNCHANGED next_sequence
  ELSE UNCHANGED vars
RemoveRule(slot) ==
  IF committed[slot].in_use
  THEN LET kept == [committed EXCEPT ![slot] = NoRule]
       IN  /\ staged' = kept
           /\ staged_count' = Cardinality(InUse(committed)) - 1
           /\ current_value' = [current_value EXCEPT ![slot] = 0]
           /\ CommitOf(kept, mode)
           /\ UNCHANGED next_sequence
  ELSE RevertStagingToActive

ClearRules ==
  /\ staged' = [s \in Slots |-> NoRule]
  /\ staged_count' = 0
  /\ current_value' = [s \in Slots |-> 0]
  /\ CommitOf([s \in Slots |-> NoRule], mode)
  /\ UNCHANGED next_sequence

(* setRuleMode and enableRule take any slot, whether or not it is in use.  *)
SetRuleMode(slot, m) ==
  /\ SetModes({slot}, m)
  /\ UNCHANGED <<staged_count, table, current_value, next_sequence>>

SetAllRulesMode(m) ==
  /\ SetModes(InUse(committed), m)
  /\ UNCHANGED <<staged_count, table, current_value, next_sequence>>

SetRuleValue(slot, value) ==
  /\ current_value' = [current_value EXCEPT ![slot] = value]
  /\ UNCHANGED <<staged, staged_count, committed, table, mode, next_sequence>>

(* The rules that applyFrameMutations applies to a frame of this key.      *)
Hits(key) == {c \in table : c.source.key = key /\ mode[c.rule_id] # "Disabled"}

(* applyFrameMutations: a rule in single-shot mode is spent by the frame.  *)
ApplyFrameMutations(key) ==
  /\ LET spent == {c.rule_id : c \in {h \in Hits(key) :
                                        mode[h.rule_id] = "SingleShot"}}
     IN  spent # {} /\ SetModes(spent, "Disabled")
  /\ UNCHANGED <<staged_count, table, current_value, next_sequence>>

Next ==
  \/ \E request \in Requests :
       \/ StageRule(request)
       \/ \E operation \in {"REPLACE", "PASS_THROUGH"} :
            StageMutation(operation, request)
  \/ ClearStaging
  \/ RevertStagingToActive
  \/ ApplyCommit
  \/ ClearRules
  \/ \E slot \in Slots :
       \/ RemoveRule(slot)
       \/ \E m \in Modes : SetRuleMode(slot, m)
       \/ \E value \in Values : SetRuleValue(slot, value)
  \/ \E m \in Modes : SetAllRulesMode(m)
  \/ \E key \in Keys : ApplyFrameMutations(key)

Spec == Init /\ [][Next]_vars

-----------------------------------------------------------------------------
(* Types of the engine's state.                                            *)
TypeOK ==
  /\ staged \in [Slots -> StagedRule \cup {NoRule}]
  /\ committed \in [Slots -> StagedRule \cup {NoRule}]
  /\ staged_count \in 0 .. MaxRules
  /\ table \in SUBSET CompiledRule
  /\ mode \in [Slots -> Modes]
  /\ current_value \in [Slots -> Values]
  /\ next_sequence \in Nat \ {0}

(* The staging count reported to clients (stagingCount) is the number of   *)
(* staged rules, whatever mixture of staging, clearing, reverting, removal *)
(* and failed removal came before.                                         *)
StagedCountExact == staged_count = Cardinality(InUse(staged))

(* The table the CAN task reads is the one applyCommit would compile from  *)
(* the shadow copy: revertStagingToActive really restores what is active,  *)
(* in the order in which it is active.                                     *)
ShadowMatchesTable == table = Compile(committed)

(* No identity is staged, or committed, in two slots: neither reusing a    *)
(* slot that clearStaging freed, nor reverting over it, duplicates a rule. *)
DistinctIdentities(rules) ==
  \A s, t \in InUse(rules) :
    Identity(rules[s].request) = Identity(rules[t].request) => s = t
OneRulePerIdentity ==
  DistinctIdentities(staged) /\ DistinctIdentities(committed)

(* No two rules of the active table share a priority, so the order in      *)
(* which they are applied to a frame is determined.                        *)
PrioritiesUnique ==
  \A c, d \in table : c.priority = d.priority => c = d

(* ARCH.md:74-76: every BIT_RANGE rule is applied before every RAW_MASK    *)
(* rule, and rules of one kind in the order in which they were first       *)
(* staged, whatever slots they were given and whatever was restaged,       *)
(* reverted or removed since.  "birth" tells the order of staging, so this *)
(* is about a device that has not yet used up its sequence numbers.        *)
RangesBeforeMasks ==
  \A c, d \in table :
    c.source.kind = "BIT_RANGE" /\ d.source.kind = "RAW_MASK"
    => c.priority < d.priority
FirstStagedFirst ==
  \A c, d \in table :
    /\ c.source.kind = d.source.kind
    /\ committed[c.rule_id].birth < committed[d.rule_id].birth
    => c.priority < d.priority
AppliedInStageOrder == RangesBeforeMasks /\ FirstStagedFirst

(* Removing one rule leaves every other active rule with its bits, mode    *)
(* and value, and commits nothing that was only staged (the comment in     *)
(* mutation_engine.cpp:435-437).                                           *)
Live == {[rule_id |-> c.rule_id, source |-> c.source,
          mode |-> mode[c.rule_id], value |-> current_value[c.rule_id]] :
            c \in table}
RemovalTouchesOneRule ==
  [][\A slot \in Slots :
       RemoveRule(slot) => Live' = {r \in Live : r.rule_id # slot}]_vars

(* The engine implements the draft-and-live rule set of RuleSet, whose     *)
(* rules are requests without their enabled flag.                          *)
Stageable ==
  {Shape(request) : request \in Requests} \cup
  {Shape(LegacyRequest(operation, request)) :
     operation \in {"REPLACE", "PASS_THROUGH"},
     request \in {r \in Requests : r.kind = "BIT_RANGE"}}
Abstract == INSTANCE RuleSet WITH
  Rules <- Stageable,
  IdentityOf <- Identity,
  Capacity <- MaxRules,
  draft <- {Shape(staged[s].request) : s \in InUse(staged)},
  live <- {c.source : c \in table}
ImplementsRuleSet == Abstract!Spec
=============================================================================
