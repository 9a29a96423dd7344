------------------------ MODULE MutationEngineProofs ------------------------
(***************************************************************************)
(* Proofs about MutationEngine.  Core holds what the slots, the staging    *)
(* area, the active table and its shadow have to do with each other;       *)
(* every operation keeps it, and the invariants the runs check follow.     *)
(***************************************************************************)
EXTENDS MutationEngine, FiniteSetTheorems, WellFoundedInduction, TLAPS

RuleArray == [Slots -> StagedRule \cup {NoRule}]

(* A non-empty set of slots has a lowest one.                              *)
LEMMA LowestIsMember ==
  ASSUME NEW T \in SUBSET Slots, T # {}
  PROVE  Lowest(T) \in T
<1> DEFINE R == OpToRel(<, Nat)
<1>1. IsWellFoundedOn(R, Nat)
  BY NatLessThanWellFounded
<1>2. T \subseteq Nat
  BY DEF Slots
<1>3. PICK x \in T : \A y \in T : ~ (<<y, x>> \in R)
  <2> HIDE DEF R
  <2> QED  BY <1>1, <1>2, WFMin
<1>4. ASSUME NEW a \in Nat, NEW b \in Nat, a < b
      PROVE  <<a, b>> \in R
  <2> DEFINE p == <<a, b>>
  <2>1. p \in Nat \X Nat /\ p[1] < p[2]
    BY <1>4
  <2> HIDE DEF p
  <2>2. p \in R
    BY <2>1 DEF OpToRel
  <2> QED
    BY <2>2 DEF p
<1>5. ASSUME NEW y \in T
      PROVE  x <= y
  <2> HIDE DEF R
  <2>1. x \in Nat /\ y \in Nat
    BY <1>2
  <2>2. ~ (<<y, x>> \in R)
    BY <1>3
  <2>3. ~ (y < x)
    BY <1>4, <2>1, <2>2, Zenon
  <2> QED
    BY <2>1, <2>3
<1> QED
  BY <1>5 DEF Lowest

(* Slots are finitely many, and so are the ones in use.                    *)
LEMMA SlotsFinite ==
  /\ IsFiniteSet(Slots) /\ Cardinality(Slots) = MaxRules
  /\ \A T \in SUBSET Slots :
       IsFiniteSet(T) /\ Cardinality(T) \in 0 .. MaxRules
<1>1. IsFiniteSet(Slots) /\ Cardinality(Slots) = MaxRules
  BY FS_Interval, EngineAssumption DEF Slots
<1>2. ASSUME NEW T \in SUBSET Slots
      PROVE  IsFiniteSet(T) /\ Cardinality(T) \in 0 .. MaxRules
  BY <1>1, FS_Subset, FS_CardinalityType, EngineAssumption
<1> QED
  BY <1>1, <1>2

(* What a slot in use holds.                                               *)
LEMMA UsedSlot ==
  ASSUME NEW rules \in RuleArray, NEW s \in InUse(rules)
  PROVE  /\ s \in Slots /\ s \in Int
         /\ rules[s] \in StagedRule /\ rules[s].in_use
         /\ rules[s].request \in RuleStageRequest
         /\ rules[s].request.kind \in Kinds
         /\ rules[s].sequence \in 0 .. SeqModulus - 1
         /\ rules[s].sequence \in Int /\ rules[s].birth \in Nat
<1>1. s \in Slots /\ rules[s].in_use
  BY DEF InUse
<1>2. rules[s] \in StagedRule \cup {NoRule}
  BY <1>1 DEF RuleArray
<1>3. rules[s] # NoRule
  BY <1>1 DEF NoRule
<1>4. rules[s] \in StagedRule
  BY <1>2, <1>3
<1>5. /\ rules[s].request \in RuleStageRequest
      /\ rules[s].sequence \in 0 .. SeqModulus - 1 /\ rules[s].birth \in Nat
  BY <1>4 DEF StagedRule
<1>6. rules[s].request.kind \in Kinds
  BY <1>5 DEF RuleStageRequest
<1>7. s \in Int /\ rules[s].sequence \in Int
  BY <1>1, <1>5, EngineAssumption DEF Slots
<1> QED
  BY <1>1, <1>4, <1>5, <1>6, <1>7

(* Setting modes changes the enabled flag of staged requests, nothing else.*)
LEMMA SyncedKeepsRules ==
  ASSUME NEW rules \in RuleArray, NEW slots, NEW m
  PROVE  /\ Synced(rules, slots, m) \in RuleArray
         /\ InUse(Synced(rules, slots, m)) = InUse(rules)
         /\ \A s \in InUse(rules) :
              LET r == Synced(rules, slots, m)[s] IN
              /\ r.sequence = rules[s].sequence /\ r.birth = rules[s].birth
              /\ r.request.kind = rules[s].request.kind
              /\ Shape(r.request) = Shape(rules[s].request)
              /\ Identity(r.request) = Identity(rules[s].request)
<1> DEFINE after == Synced(rules, slots, m)
<1>1. ASSUME NEW s \in Slots
      PROVE  /\ after[s] \in StagedRule \cup {NoRule}
             /\ after[s].in_use = rules[s].in_use
             /\ rules[s].in_use =>
                  /\ after[s].sequence = rules[s].sequence
                  /\ after[s].birth = rules[s].birth
                  /\ after[s].request.kind = rules[s].request.kind
                  /\ Shape(after[s].request) = Shape(rules[s].request)
                  /\ Identity(after[s].request) = Identity(rules[s].request)
  <2>1. CASE s \in slots /\ rules[s].in_use
    <3>1. rules[s] \in StagedRule
      BY <2>1 DEF RuleArray, NoRule
    <3>2. rules[s].request \in RuleStageRequest
      BY <3>1 DEF StagedRule
    <3>3. after[s] = [rules[s] EXCEPT !.request =
                        [rules[s].request EXCEPT !.enabled = (m = "Enabled")]]
      BY <2>1, <3>1 DEF Synced, StagedRule
    <3> DEFINE q == [rules[s].request EXCEPT !.enabled = (m = "Enabled")]
    <3>4. /\ q \in RuleStageRequest /\ q.kind = rules[s].request.kind
          /\ q.key = rules[s].request.key /\ q.range = rules[s].request.range
          /\ q.dynamic = rules[s].request.dynamic
      BY <3>2 DEF RuleStageRequest
    <3>5. Shape(q) = Shape(rules[s].request)
      BY <3>2 DEF RuleStageRequest, Shape
    <3>6. Identity(q) = Identity(rules[s].request)
      BY <3>4 DEF Identity
    <3>7. after[s] \in StagedRule /\ after[s].in_use
          /\ after[s].sequence = rules[s].sequence
          /\ after[s].birth = rules[s].birth /\ after[s].request = q
      BY <3>1, <3>3, <3>4 DEF StagedRule
    <3> QED
      BY <2>1, <3>4, <3>5, <3>6, <3>7
  <2>2. CASE ~(s \in slots /\ rules[s].in_use)
    <3>1. after[s] = rules[s]
      BY <2>2 DEF Synced
    <3> QED
      BY <3>1 DEF RuleArray
  <2> QED
    BY <2>1, <2>2
<1>2. after \in RuleArray
  BY <1>1 DEF RuleArray, Synced
<1> QED
  BY <1>1, <1>2 DEF InUse

(* Compiling looks at nothing that setting a mode changes.                 *)
LEMMA CompileIgnoresModes ==
  ASSUME NEW rules \in RuleArray, NEW slots, NEW m
  PROVE  Compile(Synced(rules, slots, m)) = Compile(rules)
<1> DEFINE after == Synced(rules, slots, m)
<1> HIDE DEF after
<1>1. /\ InUse(after) = InUse(rules)
      /\ \A s \in InUse(rules) :
           /\ after[s].sequence = rules[s].sequence
           /\ after[s].request.kind = rules[s].request.kind
           /\ Shape(after[s].request) = Shape(rules[s].request)
  BY SyncedKeepsRules DEF after
<1>2. \A s, t \in InUse(rules) : Before(after, s, t) <=> Before(rules, s, t)
  BY <1>1 DEF Before
<1>3. ASSUME NEW s \in InUse(rules)
      PROVE  Rank(after, s) = Rank(rules, s)
  <2>1. {t \in InUse(after) : Before(after, t, s)} =
        {t \in InUse(rules) : Before(rules, t, s)}
    BY <1>1, <1>2
  <2> QED
    BY <2>1 DEF Rank
<1>4. Compile(after) = Compile(rules)
  BY <1>1, <1>3 DEF Compile
<1> QED
  BY <1>4 DEF after

(* The order of compilation is strict and total on the rules in use.       *)
LEMMA BeforeIsTotalOrder ==
  ASSUME NEW rules \in RuleArray
  PROVE  /\ \A s \in InUse(rules) : ~ Before(rules, s, s)
         /\ \A s, t \in InUse(rules) :
              s # t => Before(rules, s, t) \/ Before(rules, t, s)
         /\ \A s, t, u \in InUse(rules) :
              Before(rules, s, t) /\ Before(rules, t, u) => Before(rules, s, u)
<1>1. \A s \in InUse(rules) :
        /\ s \in Int
        /\ rules[s].sequence \in Int
        /\ rules[s].request.kind \in Kinds
  BY UsedSlot
<1>2. Kinds = {"BIT_RANGE", "RAW_MASK"}
  BY DEF Kinds
<1> QED
  BY <1>1, <1>2 DEF Before

(* A rule that comes before another one has the lower rank, and ranks are  *)
(* smaller than the number of slots.                                       *)
LEMMA RankIsMonotone ==
  ASSUME NEW rules \in RuleArray
  PROVE  /\ \A s \in InUse(rules) : Rank(rules, s) \in 0 .. MaxRules - 1
         /\ \A s, t \in InUse(rules) :
              Before(rules, s, t) => Rank(rules, s) < Rank(rules, t)
<1> DEFINE Below(s) == {t \in InUse(rules) : Before(rules, t, s)}
<1>1. \A s \in InUse(rules) :
        /\ Below(s) \in SUBSET Slots /\ IsFiniteSet(Below(s))
        /\ Cardinality(Below(s)) \in Nat
  BY SlotsFinite DEF InUse
<1>2. \A s \in InUse(rules) : Rank(rules, s) = Cardinality(Below(s))
  BY DEF Rank
<1>3. ASSUME NEW s \in InUse(rules)
      PROVE  Rank(rules, s) \in 0 .. MaxRules - 1
  <2>1. Below(s) # Slots
    BY BeforeIsTotalOrder DEF InUse
  <2>2. Cardinality(Below(s)) <= MaxRules /\ Cardinality(Below(s)) # MaxRules
    BY <1>1, <2>1, SlotsFinite, FS_Subset
  <2> QED
    <3> HIDE DEF Below
    <3> QED  BY <1>1, <1>2, <2>2, EngineAssumption
<1>4. ASSUME NEW s \in InUse(rules), NEW t \in InUse(rules),
             Before(rules, s, t)
      PROVE  Rank(rules, s) < Rank(rules, t)
  <2>1. Below(s) \in SUBSET Below(t) /\ Below(s) # Below(t)
    BY <1>4, BeforeIsTotalOrder
  <2>2. /\ Cardinality(Below(s)) <= Cardinality(Below(t))
        /\ Cardinality(Below(s)) # Cardinality(Below(t))
    <3> HIDE DEF Below
    <3> QED  BY <1>1, <2>1, FS_Subset
  <2> HIDE DEF Below
  <2> QED
    BY <1>1, <1>2, <2>2
<1> QED
  BY <1>3, <1>4

(* Compiling a typed staging array gives a typed table (applyCommit). *)
LEMMA CompileType ==
  ASSUME NEW rules \in RuleArray
  PROVE  Compile(rules) \in SUBSET CompiledRule
<1>1. ASSUME NEW s \in InUse(rules)
      PROVE  /\ s \in Slots /\ Shape(rules[s].request) \in RuleStageRequest
             /\ Rank(rules, s) \in 0 .. MaxRules - 1
  <2>1. s \in Slots /\ rules[s].request \in RuleStageRequest
    BY UsedSlot
  <2> QED
    BY <2>1, RankIsMonotone DEF Shape, RuleStageRequest
<1> QED
  BY <1>1 DEF Compile, CompiledRule

(* No two rules that are compiled together share a priority.               *)
LEMMA CompiledPrioritiesUnique ==
  ASSUME NEW rules \in RuleArray,
         NEW c \in Compile(rules), NEW d \in Compile(rules),
         c.priority = d.priority
  PROVE  c = d
<1>1. PICK s \in InUse(rules) :
        c = [rule_id |-> s, priority |-> Rank(rules, s),
             source |-> Shape(rules[s].request)]
  BY DEF Compile
<1>2. PICK t \in InUse(rules) :
        d = [rule_id |-> t, priority |-> Rank(rules, t),
             source |-> Shape(rules[t].request)]
  BY DEF Compile
<1>3. Rank(rules, s) = Rank(rules, t)
  BY <1>1, <1>2
<1>4. s = t
  <2>1. Rank(rules, s) \in Int /\ Rank(rules, t) \in Int
    BY RankIsMonotone, EngineAssumption
  <2> QED
    BY <1>3, <2>1, BeforeIsTotalOrder, RankIsMonotone
<1> QED
  BY <1>1, <1>2, <1>4

-----------------------------------------------------------------------------
(* The inductive invariant.  TypeOK alone is not inductive: the type of    *)
(* staged_count needs StagedCountExact, and that of table needs            *)
(* ShadowMatchesTable.                                                     *)
EngineInv ==
  /\ TypeOK /\ StagedCountExact /\ OneRulePerIdentity /\ ShadowMatchesTable

(* What a step has to establish, without the types that follow from it.    *)
Core ==
  /\ staged \in RuleArray /\ committed \in RuleArray
  /\ mode \in [Slots -> Modes] /\ current_value \in [Slots -> Values]
  /\ next_sequence \in Nat \ {0}
  /\ staged_count = Cardinality(InUse(staged))
  /\ DistinctIdentities(staged) /\ DistinctIdentities(committed)
  /\ table = Compile(committed)

(* Core, the part that is checked step by step, is the whole invariant. *)
LEMMA CoreIsEnough == Core <=> EngineInv
<1>1. ASSUME Core
      PROVE  EngineInv
  <2>1. staged_count \in 0 .. MaxRules
    BY <1>1, SlotsFinite DEF Core, InUse
  <2>2. table \in SUBSET CompiledRule
    BY <1>1, CompileType DEF Core
  <2> QED
    BY <1>1, <2>1, <2>2
    DEF Core, EngineInv, TypeOK, StagedCountExact, OneRulePerIdentity,
        ShadowMatchesTable, RuleArray
<1>2. ASSUME EngineInv
      PROVE  Core
  BY <1>2
  DEF Core, EngineInv, TypeOK, StagedCountExact, OneRulePerIdentity,
      ShadowMatchesTable, RuleArray
<1> QED
  BY <1>1, <1>2

(* An array without rules.                                                 *)
LEMMA EmptyArray ==
  LET none == [s \in Slots |-> NoRule] IN
  /\ none \in RuleArray /\ InUse(none) = {} /\ Cardinality(InUse(none)) = 0
  /\ DistinctIdentities(none) /\ Compile(none) = {}
<1> DEFINE none == [s \in Slots |-> NoRule]
<1>1. none \in RuleArray
  BY DEF RuleArray
<1>2. InUse(none) = {}
  BY DEF InUse, NoRule
<1>3. Cardinality(InUse(none)) = 0
  BY <1>2, FS_EmptySet
<1> HIDE DEF none
<1>4. DistinctIdentities(none) /\ Compile(none) = {}
  BY <1>2 DEF DistinctIdentities, Compile
<1> QED
  BY <1>1, <1>2, <1>3, <1>4 DEF none

(* The engine starts with empty arrays, which satisfy Core (init). *)
LEMMA InitCore == Init => Core
<1> SUFFICES ASSUME Init
             PROVE  Core
  OBVIOUS
<1>1. /\ staged \in RuleArray /\ committed \in RuleArray
      /\ staged_count = Cardinality(InUse(staged))
      /\ DistinctIdentities(staged) /\ DistinctIdentities(committed)
      /\ table = Compile(committed)
  BY EmptyArray DEF Init
<1>2. /\ mode \in [Slots -> Modes] /\ current_value \in [Slots -> Values]
      /\ next_sequence \in Nat \ {0}
  BY EngineAssumption DEF Init, Modes
<1> QED
  BY <1>1, <1>2 DEF Core

(* The request that a legacy mutation is turned into.                      *)
LEMMA LegacyRequestType ==
  ASSUME NEW operation, NEW request \in RuleStageRequest
  PROVE  LegacyRequest(operation, request) \in RuleStageRequest
  BY EngineAssumption DEF LegacyRequest, RuleStageRequest

(* Staging a rule keeps the arrays of modes and raw values typed. *)
LEMMA StartRuntimeType ==
  ASSUME Core, NEW slot \in Slots, NEW request \in RuleStageRequest,
         StartRuntime(slot, request)
  PROVE  mode' \in [Slots -> Modes] /\ current_value' \in [Slots -> Values]
<1>1. request.value \in Values
  BY DEF RuleStageRequest
<1>2. mode' \in [Slots -> Modes]
  BY DEF StartRuntime, Core, Modes
<1>3. current_value' \in [Slots -> Values]
  BY <1>1 DEF StartRuntime, Core
<1> QED
  BY <1>2, <1>3

(* Staging over a rule of the same identity keeps Core (stageRule). *)
LEMMA RestageRuleCore ==
  ASSUME Core, NEW request \in RuleStageRequest, RestageRule(request)
  PROVE  Core'
<1> DEFINE slot == Lowest(SameIdentity(request))
<1>1. /\ slot \in InUse(staged) /\ slot \in Slots
      /\ Identity(staged[slot].request) = Identity(request)
  <2>1. SameIdentity(request) \in SUBSET Slots /\ SameIdentity(request) # {}
    BY DEF SameIdentity, InUse, RestageRule
  <2>2. slot \in SameIdentity(request)
    BY <2>1, LowestIsMember
  <2> QED
    BY <2>2 DEF SameIdentity, InUse
<1>2. /\ staged' = [staged EXCEPT ![slot].request = request]
      /\ StartRuntime(slot, request)
      /\ UNCHANGED <<staged_count, committed, table, next_sequence>>
  BY DEF RestageRule
<1> HIDE DEF slot
<1>3. staged \in RuleArray /\ staged[slot] \in StagedRule /\ staged[slot].in_use
  BY <1>1, UsedSlot DEF Core
<1>4. /\ staged' \in RuleArray
      /\ staged'[slot] \in StagedRule /\ staged'[slot].in_use
      /\ staged'[slot].request = request
      /\ \A s \in Slots : s # slot => staged'[s] = staged[s]
  <2>1. /\ [staged[slot] EXCEPT !.request = request] \in StagedRule
        /\ [staged[slot] EXCEPT !.request = request].request = request
        /\ [staged[slot] EXCEPT !.request = request].in_use
    BY <1>3 DEF StagedRule
  <2>2. staged' = [staged EXCEPT ![slot] =
                     [staged[slot] EXCEPT !.request = request]]
    BY <1>2
  <2> QED
    BY <1>1, <1>3, <2>1, <2>2 DEF RuleArray
<1>5. InUse(staged') = InUse(staged)
  BY <1>1, <1>3, <1>4 DEF InUse
<1>6. DistinctIdentities(staged')
  <2>1. \A s \in InUse(staged') :
          Identity(staged'[s].request) = Identity(staged[s].request)
    BY <1>1, <1>4, <1>5 DEF InUse
  <2> QED
    BY <1>5, <2>1 DEF Core, DistinctIdentities
<1>7. mode' \in [Slots -> Modes] /\ current_value' \in [Slots -> Values]
  BY <1>1, <1>2, StartRuntimeType
<1> QED
  BY <1>2, <1>4, <1>5, <1>6, <1>7 DEF Core

(* Staging a rule of a new identity takes a free slot and keeps Core. *)
LEMMA StageNewRuleCore ==
  ASSUME Core, NEW request \in RuleStageRequest, StageNewRule(request)
  PROVE  Core'
<1> DEFINE slot == Lowest(FreeSlots)
           rule == [in_use |-> TRUE, sequence |-> next_sequence % SeqModulus,
                    birth |-> next_sequence, request |-> request]
<1>1. slot \in Slots /\ slot \notin InUse(staged)
  <2>1. FreeSlots \in SUBSET Slots /\ FreeSlots # {}
    BY DEF FreeSlots, StageNewRule
  <2>2. slot \in FreeSlots
    BY <2>1, LowestIsMember
  <2> QED
    BY <2>2 DEF FreeSlots
<1>2. /\ SameIdentity(request) = {}
      /\ staged' = [staged EXCEPT ![slot] = rule]
      /\ StartRuntime(slot, request)
      /\ staged_count' = staged_count + 1
      /\ next_sequence' = next_sequence + 1
      /\ UNCHANGED <<committed, table>>
  BY DEF StageNewRule
<1>3. rule \in StagedRule /\ rule.in_use /\ rule.request = request
  <2>1. next_sequence % SeqModulus \in 0 .. SeqModulus - 1 /\ next_sequence \in Nat
    BY EngineAssumption DEF Core
  <2> QED
    BY <2>1 DEF StagedRule
<1> HIDE DEF slot, rule
<1>4. /\ staged' \in RuleArray /\ staged'[slot] = rule
      /\ \A s \in Slots : s # slot => staged'[s] = staged[s]
  BY <1>1, <1>2, <1>3 DEF Core, RuleArray
<1>5. InUse(staged') = InUse(staged) \cup {slot}
  BY <1>1, <1>3, <1>4 DEF InUse
<1>6. staged_count' = Cardinality(InUse(staged'))
  <2>1. IsFiniteSet(InUse(staged))
    BY SlotsFinite DEF InUse
  <2> QED
    BY <1>1, <1>2, <1>5, <2>1, FS_AddElement DEF Core
<1>7. DistinctIdentities(staged')
  <2>1. \A s \in InUse(staged) :
          Identity(staged'[s].request) # Identity(staged'[slot].request)
    BY <1>1, <1>2, <1>3, <1>4 DEF SameIdentity, InUse
  <2>2. \A s \in InUse(staged) : staged'[s] = staged[s]
    BY <1>1, <1>4 DEF InUse
  <2> QED
    BY <1>5, <2>1, <2>2 DEF Core, DistinctIdentities
<1>8. mode' \in [Slots -> Modes] /\ current_value' \in [Slots -> Values]
  BY <1>1, <1>2, StartRuntimeType
<1>9. next_sequence' \in Nat \ {0}
  BY <1>2 DEF Core
<1> QED
  BY <1>2, <1>4, <1>6, <1>7, <1>8, <1>9 DEF Core

(* clearStaging leaves an empty staging area, which satisfies Core. *)
LEMMA ClearStagingCore ==
  ASSUME Core, ClearStaging
  PROVE  Core'
<1>1. /\ staged' \in RuleArray /\ staged_count' = Cardinality(InUse(staged'))
      /\ DistinctIdentities(staged')
  BY EmptyArray DEF ClearStaging
<1> QED
  BY <1>1 DEF Core, ClearStaging

(* revertStagingToActive copies the shadow, which satisfies Core. *)
LEMMA RevertStagingToActiveCore ==
  ASSUME Core, RevertStagingToActive
  PROVE  Core'
  BY DEF Core, RevertStagingToActive

(* A commit makes table and shadow of one staging area and keeps Core. *)
LEMMA ApplyCommitCore ==
  ASSUME Core, ApplyCommit
  PROVE  Core'
<1>1. mode' \in [Slots -> Modes]
  BY DEF Core, ApplyCommit, CommitOf, Modes
<1> QED
  BY <1>1 DEF Core, ApplyCommit, CommitOf

(* Removing a rule commits the shadow without it and keeps Core. *)
LEMMA RemoveRuleCore ==
  ASSUME Core, NEW slot \in Slots, RemoveRule(slot)
  PROVE  Core'
<1>1. CASE ~committed[slot].in_use
  BY <1>1, RevertStagingToActiveCore DEF RemoveRule
<1>2. CASE committed[slot].in_use
  <2> DEFINE kept == [committed EXCEPT ![slot] = NoRule]
  <2>1. /\ staged' = kept /\ committed' = kept /\ table' = Compile(kept)
        /\ staged_count' = Cardinality(InUse(committed)) - 1
        /\ current_value' = [current_value EXCEPT ![slot] = 0]
        /\ mode' = [s \in Slots |-> IF kept[s].in_use THEN mode[s]
                                    ELSE "Disabled"]
        /\ next_sequence' = next_sequence
    BY <1>2 DEF RemoveRule, CommitOf
  <2>2. /\ kept \in RuleArray /\ ~kept[slot].in_use
        /\ \A s \in Slots : s # slot => kept[s] = committed[s]
    BY DEF Core, RuleArray, NoRule
  <2> HIDE DEF kept
  <2>3. InUse(kept) = InUse(committed) \ {slot} /\ slot \in InUse(committed)
    BY <1>2, <2>2 DEF InUse
  <2>4. staged_count' = Cardinality(InUse(kept))
    <3>1. IsFiniteSet(InUse(committed))
      BY SlotsFinite DEF InUse
    <3> QED
      BY <2>1, <2>3, <3>1, FS_RemoveElement
  <2>5. DistinctIdentities(kept)
    <3>1. \A s \in InUse(kept) : s \in InUse(committed) /\ kept[s] = committed[s]
      BY <2>2, <2>3 DEF InUse
    <3> QED
      BY <3>1 DEF Core, DistinctIdentities
  <2>6. mode' \in [Slots -> Modes] /\ current_value' \in [Slots -> Values]
    BY <2>1, EngineAssumption DEF Core, Modes
  <2> QED
    BY <2>1, <2>2, <2>4, <2>5, <2>6 DEF Core
<1> QED
  BY <1>1, <1>2

(* clearRules commits an empty staging area and keeps Core. *)
LEMMA ClearRulesCore ==
  ASSUME Core, ClearRules
  PROVE  Core'
<1> DEFINE none == [s \in Slots |-> NoRule]
<1>1. /\ staged' = none /\ committed' = none /\ table' = Compile(none)
      /\ staged_count' = 0
      /\ current_value' = [s \in Slots |-> 0]
      /\ mode' = [s \in Slots |-> IF none[s].in_use THEN mode[s] ELSE "Disabled"]
      /\ next_sequence' = next_sequence
  BY DEF ClearRules, CommitOf
<1>2. none \in RuleArray /\ Cardinality(InUse(none)) = 0 /\ DistinctIdentities(none)
  BY EmptyArray
<1>3. mode' \in [Slots -> Modes] /\ current_value' \in [Slots -> Values]
  BY <1>1, EngineAssumption DEF Core, Modes
<1> HIDE DEF none
<1> QED
  BY <1>1, <1>2, <1>3 DEF Core

(* Setting modes changes no rule, only flags that Core does not read. *)
LEMMA SetModesCore ==
  ASSUME Core, NEW slots, NEW m \in Modes, SetModes(slots, m),
         UNCHANGED <<staged_count, table, current_value, next_sequence>>
  PROVE  Core'
<1>1. /\ staged' = Synced(staged, slots, m)
      /\ committed' = Synced(committed, slots, m)
      /\ mode' \in [Slots -> Modes]
  BY DEF SetModes, Core
<1>2. ASSUME NEW rules \in RuleArray, DistinctIdentities(rules)
      PROVE  DistinctIdentities(Synced(rules, slots, m))
  BY <1>2, SyncedKeepsRules DEF DistinctIdentities
<1> QED
  BY <1>1, <1>2, SyncedKeepsRules, CompileIgnoresModes DEF Core

(* Storing a raw value changes no rule and keeps Core. *)
LEMMA SetRuleValueCore ==
  ASSUME Core, NEW slot \in Slots, NEW value \in Values,
         SetRuleValue(slot, value)
  PROVE  Core'
  BY DEF Core, SetRuleValue

(* Every step keeps the invariant.                                         *)
LEMMA NextCore ==
  ASSUME Core, [Next]_vars
  PROVE  Core'
<1>1. ASSUME NEW request \in RuleStageRequest, StageRule(request)
      PROVE  Core'
  BY <1>1, RestageRuleCore, StageNewRuleCore DEF StageRule
<1>2. ASSUME NEW request \in Requests, StageRule(request)
      PROVE  Core'
  BY <1>1, <1>2, EngineAssumption
<1>3. ASSUME NEW request \in Requests,
             NEW operation \in {"REPLACE", "PASS_THROUGH"},
             StageMutation(operation, request)
      PROVE  Core'
  <2>1. LegacyRequest(operation, request) \in RuleStageRequest
    BY EngineAssumption, LegacyRequestType
  <2>2. StageRule(LegacyRequest(operation, request))
    BY <1>3 DEF StageMutation
  <2> QED
    BY <1>1, <2>1, <2>2
<1>4. CASE ClearStaging
  BY <1>4, ClearStagingCore
<1>5. CASE RevertStagingToActive
  BY <1>5, RevertStagingToActiveCore
<1>6. CASE ApplyCommit
  BY <1>6, ApplyCommitCore
<1>7. CASE ClearRules
  BY <1>7, ClearRulesCore
<1>8. ASSUME NEW slot \in Slots, RemoveRule(slot)
      PROVE  Core'
  BY <1>8, RemoveRuleCore
<1>9. ASSUME NEW slot \in Slots, NEW m \in Modes, SetRuleMode(slot, m)
      PROVE  Core'
  BY <1>9, SetModesCore DEF SetRuleMode
<1>10. ASSUME NEW slot \in Slots, NEW value \in Values,
              SetRuleValue(slot, value)
       PROVE  Core'
  BY <1>10, SetRuleValueCore
<1>11. ASSUME NEW m \in Modes, SetAllRulesMode(m)
       PROVE  Core'
  BY <1>11, SetModesCore DEF SetAllRulesMode
<1>12. ASSUME NEW key \in Keys, ApplyFrameMutations(key)
       PROVE  Core'
  <2>1. "Disabled" \in Modes
    BY DEF Modes
  <2> QED
    BY <1>12, <2>1, SetModesCore DEF ApplyFrameMutations
<1>13. CASE UNCHANGED vars
  BY <1>13 DEF vars, Core
<1> QED
  BY <1>2, <1>3, <1>4, <1>5, <1>6, <1>7, <1>8, <1>9, <1>10, <1>11, <1>12, <1>13
  DEF Next

-----------------------------------------------------------------------------
(* The engine's invariant, for any number of slots and any requests, and   *)
(* whatever the modulus of the sequence numbers.                           *)
THEOREM EngineInvariant == Spec => []EngineInv
<1>1. Spec => []Core
  BY InitCore, NextCore, PTL DEF Spec
<1> QED
  BY <1>1, CoreIsEnough, PTL

(* Types of the engine's state: allocateRuleSlot and applyCommit never     *)
(* leave the arrays, and a priority is always below kMaxRules.             *)
THEOREM EngineTypes == Spec => []TypeOK
<1>1. EngineInv => TypeOK
  BY DEF EngineInv
<1> QED
  BY <1>1, EngineInvariant, PTL

(* stagingCount() is the number of staged rules.                           *)
THEOREM StagedCount == Spec => []StagedCountExact
<1>1. EngineInv => StagedCountExact
  BY DEF EngineInv
<1> QED
  BY <1>1, EngineInvariant, PTL

(* No identity occupies two slots of the staging area or of the shadow.    *)
THEOREM RuleIdentities == Spec => []OneRulePerIdentity
<1>1. EngineInv => OneRulePerIdentity
  BY DEF EngineInv
<1> QED
  BY <1>1, EngineInvariant, PTL

(* The shadow copy that revertStagingToActive and removeRule start from    *)
(* always compiles to the table in force.                                  *)
THEOREM ShadowIsActive == Spec => []ShadowMatchesTable
<1>1. EngineInv => ShadowMatchesTable
  BY DEF EngineInv
<1> QED
  BY <1>1, EngineInvariant, PTL

(* No two active rules share a priority: the order in which a frame meets  *)
(* them is determined, even when sequence numbers have wrapped around.     *)
THEOREM UniquePriorities == Spec => []PrioritiesUnique
<1>1. EngineInv => PrioritiesUnique
  <2> SUFFICES ASSUME EngineInv
               PROVE  PrioritiesUnique
    OBVIOUS
  <2>1. committed \in RuleArray /\ table = Compile(committed)
    BY CoreIsEnough DEF Core
  <2> QED
    BY <2>1, CompiledPrioritiesUnique DEF PrioritiesUnique
<1> QED
  BY <1>1, EngineInvariant, PTL

-----------------------------------------------------------------------------
(* What the compiled table and the runtime state say of each slot.         *)
LiveRules(rules, modes, values) ==
  {[rule_id |-> s, source |-> Shape(rules[s].request), mode |-> modes[s],
    value |-> values[s]] : s \in InUse(rules)}

(* A rule of the table is the rule the shadow has in its own slot. *)
LEMMA LiveBySlot ==
  ASSUME NEW rules \in RuleArray, NEW modes, NEW values
  PROVE  {[rule_id |-> c.rule_id, source |-> c.source,
           mode |-> modes[c.rule_id], value |-> values[c.rule_id]] :
             c \in Compile(rules)} = LiveRules(rules, modes, values)
<1> DEFINE compiled(s) == [rule_id |-> s, priority |-> Rank(rules, s),
                           source |-> Shape(rules[s].request)]
           row(s) == [rule_id |-> s, source |-> Shape(rules[s].request),
                      mode |-> modes[s], value |-> values[s]]
           liveRow(c) == [rule_id |-> c.rule_id, source |-> c.source,
                          mode |-> modes[c.rule_id],
                          value |-> values[c.rule_id]]
<1>1. Compile(rules) = {compiled(s) : s \in InUse(rules)}
  BY DEF Compile
<1>2. \A s \in InUse(rules) : liveRow(compiled(s)) = row(s)
  OBVIOUS
<1>3. LiveRules(rules, modes, values) = {row(s) : s \in InUse(rules)}
  BY DEF LiveRules
<1>4. {liveRow(c) : c \in Compile(rules)} = {row(s) : s \in InUse(rules)}
  <2> HIDE DEF compiled, row, liveRow
  <2> QED
    BY <1>1, <1>2
<1> QED
  BY <1>3, <1>4

(* A removal takes one rule from what is live and leaves the others.       *)
LEMMA RemovalStep ==
  ASSUME Core, NEW slot \in Slots, RemoveRule(slot)
  PROVE  Live' = {r \in Live : r.rule_id # slot}
<1>1. Live = LiveRules(committed, mode, current_value)
  BY LiveBySlot DEF Live, Core
<1>2. CASE ~committed[slot].in_use
  <2>1. UNCHANGED <<table, mode, current_value>>
    BY <1>2 DEF RemoveRule, RevertStagingToActive
  <2>2. Live' = Live
    BY <2>1 DEF Live
  <2>3. \A r \in LiveRules(committed, mode, current_value) : r.rule_id # slot
    BY <1>2 DEF LiveRules, InUse
  <2> QED
    BY <1>1, <2>2, <2>3
<1>3. CASE committed[slot].in_use
  <2> DEFINE kept == [committed EXCEPT ![slot] = NoRule]
  <2>1. /\ table' = Compile(kept)
        /\ current_value' = [current_value EXCEPT ![slot] = 0]
        /\ mode' = [s \in Slots |-> IF kept[s].in_use THEN mode[s]
                                    ELSE "Disabled"]
    BY <1>3 DEF RemoveRule, CommitOf
  <2>2. /\ kept \in RuleArray /\ ~kept[slot].in_use
        /\ \A s \in Slots : s # slot => kept[s] = committed[s]
    BY DEF Core, RuleArray, NoRule
  <2> HIDE DEF kept
  <2>3. InUse(kept) = InUse(committed) \ {slot}
    BY <1>3, <2>2 DEF InUse
  <2>4. Live' = LiveRules(kept, mode', current_value')
    <3> DEFINE modes == mode'
               values == current_value'
    <3>1. Live' = {[rule_id |-> c.rule_id, source |-> c.source,
                    mode |-> modes[c.rule_id], value |-> values[c.rule_id]] :
                      c \in Compile(kept)}
      BY <2>1 DEF Live
    <3> HIDE DEF modes, values
    <3>2. Live' = LiveRules(kept, modes, values)
      BY <2>2, <3>1, LiveBySlot
    <3> QED
      BY <3>2 DEF modes, values
  <2>5. \A s \in InUse(kept) :
          /\ kept[s] = committed[s] /\ mode'[s] = mode[s]
          /\ current_value'[s] = current_value[s]
    BY <2>1, <2>2 DEF InUse, Core
  <2>6. LiveRules(kept, mode', current_value') =
          {r \in LiveRules(committed, mode, current_value) : r.rule_id # slot}
    BY <2>3, <2>5 DEF LiveRules
  <2> QED
    BY <1>1, <2>4, <2>6
<1> QED
  BY <1>2, <1>3

(* removeRule drops its rule from what is applied to frames, and changes   *)
(* neither the bits, the mode nor the value of any other active rule, nor  *)
(* commits what was only staged.                                           *)
THEOREM RemovalIsLocal == Spec => RemovalTouchesOneRule
<1>1. EngineInv /\ [Next]_vars
      => [\A slot \in Slots :
            RemoveRule(slot) => Live' = {r \in Live : r.rule_id # slot}]_vars
  BY CoreIsEnough, RemovalStep
<1> QED
  BY <1>1, EngineInvariant, PTL DEF Spec, RemovalTouchesOneRule

-----------------------------------------------------------------------------
(* As long as fewer rules are ever staged than there are sequence numbers, *)
(* the sequence of a rule is its birth.                                    *)
SequenceIsBirth(rules, next) ==
  \A s \in InUse(rules) :
    rules[s].sequence = rules[s].birth /\ rules[s].birth < next
BirthInv ==
  /\ next_sequence <= MaxStages + 1
  /\ SequenceIsBirth(staged, next_sequence)
  /\ SequenceIsBirth(committed, next_sequence)

(* A rule staged again keeps the sequence number it was born with. *)
LEMMA RestageRuleBirth ==
  ASSUME Core, BirthInv, NEW request \in RuleStageRequest, RestageRule(request)
  PROVE  BirthInv'
<1> DEFINE slot == Lowest(SameIdentity(request))
<1>1. /\ staged' = [staged EXCEPT ![slot].request = request]
      /\ UNCHANGED <<committed, next_sequence>>
  BY DEF RestageRule
<1> HIDE DEF slot
<1>2. ASSUME NEW s \in InUse(staged')
      PROVE  /\ s \in InUse(staged)
             /\ staged'[s].sequence = staged[s].sequence
             /\ staged'[s].birth = staged[s].birth
  <2>1. s \in Slots /\ staged'[s].in_use
    BY <1>2 DEF InUse
  <2>2. CASE s # slot
    BY <1>1, <2>1, <2>2 DEF InUse, Core, RuleArray
  <2>3. CASE s = slot
    <3>1. staged'[s] = [staged[s] EXCEPT !.request = request]
      BY <1>1, <2>1, <2>3 DEF Core, RuleArray
    <3>2. CASE staged[s] = NoRule
      BY <2>1, <3>1, <3>2 DEF NoRule
    <3>3. CASE staged[s] \in StagedRule
      BY <2>1, <3>1, <3>3 DEF StagedRule, InUse
    <3> QED
      BY <2>1, <3>2, <3>3 DEF Core, RuleArray
  <2> QED
    BY <2>2, <2>3
<1> QED
  BY <1>1, <1>2 DEF BirthInv, SequenceIsBirth

(* A new rule gets a number above all those given before, as long as
   the 16-bit counter has not wrapped. *)
LEMMA StageNewRuleBirth ==
  ASSUME MaxStages < SeqModulus, Core, BirthInv,
         NEW request \in RuleStageRequest, StageNewRule(request)
  PROVE  BirthInv'
<1> DEFINE slot == Lowest(FreeSlots)
           rule == [in_use |-> TRUE, sequence |-> next_sequence % SeqModulus,
                    birth |-> next_sequence, request |-> request]
<1>1. /\ staged' = [staged EXCEPT ![slot] = rule]
      /\ next_sequence' = next_sequence + 1 /\ next_sequence <= MaxStages
      /\ committed' = committed
  BY DEF StageNewRule
<1>2. next_sequence % SeqModulus = next_sequence
  <2>1. next_sequence \in 0 .. SeqModulus - 1
    BY <1>1, EngineAssumption DEF Core
  <2> QED
    BY <2>1, EngineAssumption
<1>3. rule.sequence = next_sequence /\ rule.birth = next_sequence
  BY <1>2
<1> HIDE DEF slot, rule
<1>4. ASSUME NEW s \in InUse(staged')
      PROVE  staged'[s].sequence = staged'[s].birth /\ staged'[s].birth < next_sequence'
  <2>1. s \in Slots /\ staged'[s].in_use
    BY <1>4 DEF InUse
  <2>2. CASE s = slot
    BY <1>1, <1>3, <2>1, <2>2 DEF Core, RuleArray
  <2>3. CASE s # slot
    <3>1. staged'[s] = staged[s] /\ s \in InUse(staged)
      BY <1>1, <2>1, <2>3 DEF Core, RuleArray, InUse
    <3>2. staged[s].birth \in Nat /\ next_sequence \in Nat
      BY <3>1, UsedSlot DEF Core
    <3> QED
      BY <1>1, <3>1, <3>2 DEF BirthInv, SequenceIsBirth
  <2> QED
    BY <2>2, <2>3
<1>5. SequenceIsBirth(committed', next_sequence')
  <2>1. \A s \in InUse(committed) : committed[s].birth \in Nat
    BY UsedSlot DEF Core
  <2> QED
    BY <1>1, <2>1 DEF Core, BirthInv, SequenceIsBirth
<1>6. next_sequence' <= MaxStages + 1
  BY <1>1, EngineAssumption DEF Core
<1> QED
  BY <1>4, <1>5, <1>6 DEF BirthInv, SequenceIsBirth

(* The other actions move rules between the arrays or drop them.           *)
LEMMA NextBirth ==
  ASSUME MaxStages < SeqModulus, Core, BirthInv, [Next]_vars
  PROVE  BirthInv'
<1>1. ASSUME NEW request \in RuleStageRequest, StageRule(request)
      PROVE  BirthInv'
  BY <1>1, RestageRuleBirth, StageNewRuleBirth DEF StageRule
<1>2. ASSUME NEW request \in Requests, StageRule(request)
      PROVE  BirthInv'
  BY <1>1, <1>2, EngineAssumption
<1>3. ASSUME NEW request \in Requests,
             NEW operation \in {"REPLACE", "PASS_THROUGH"},
             StageMutation(operation, request)
      PROVE  BirthInv'
  <2>1. LegacyRequest(operation, request) \in RuleStageRequest
    BY EngineAssumption, LegacyRequestType
  <2> QED
    BY <1>1, <1>3, <2>1 DEF StageMutation
<1> DEFINE none == [s \in Slots |-> NoRule]
<1>4. SequenceIsBirth(none, next_sequence)
  BY EmptyArray DEF SequenceIsBirth
<1>5. CASE ClearStaging
  BY <1>4, <1>5 DEF ClearStaging, BirthInv
<1>6. CASE RevertStagingToActive
  BY <1>6 DEF RevertStagingToActive, BirthInv
<1>7. CASE ApplyCommit
  BY <1>7 DEF ApplyCommit, CommitOf, BirthInv
<1>8. CASE ClearRules
  BY <1>4, <1>8 DEF ClearRules, CommitOf, BirthInv
<1>9. ASSUME NEW slot \in Slots, RemoveRule(slot)
      PROVE  BirthInv'
  <2>1. CASE ~committed[slot].in_use
    BY <1>9, <2>1 DEF RemoveRule, RevertStagingToActive, BirthInv
  <2>2. CASE committed[slot].in_use
    <3> DEFINE kept == [committed EXCEPT ![slot] = NoRule]
    <3>1. /\ staged' = kept /\ committed' = kept
          /\ next_sequence' = next_sequence
      BY <1>9, <2>2 DEF RemoveRule, CommitOf
    <3>2. \A s \in InUse(kept) : s \in InUse(committed) /\ kept[s] = committed[s]
      BY DEF Core, RuleArray, InUse, NoRule
    <3>3. SequenceIsBirth(kept, next_sequence)
      BY <3>2 DEF BirthInv, SequenceIsBirth
    <3> QED
      BY <3>1, <3>3 DEF BirthInv
  <2> QED
    BY <2>1, <2>2
<1>10. ASSUME NEW slots, NEW m, SetModes(slots, m), UNCHANGED next_sequence
       PROVE  BirthInv'
  <2>1. ASSUME NEW rules \in RuleArray, SequenceIsBirth(rules, next_sequence)
        PROVE  SequenceIsBirth(Synced(rules, slots, m), next_sequence)
    BY <2>1, SyncedKeepsRules DEF SequenceIsBirth
  <2> QED
    BY <1>10, <2>1 DEF SetModes, Core, BirthInv
<1>11. ASSUME NEW slot \in Slots, NEW m \in Modes, SetRuleMode(slot, m)
       PROVE  BirthInv'
  BY <1>10, <1>11 DEF SetRuleMode
<1>12. ASSUME NEW slot \in Slots, NEW value \in Values,
              SetRuleValue(slot, value)
       PROVE  BirthInv'
  BY <1>12 DEF SetRuleValue, BirthInv
<1>13. ASSUME NEW m \in Modes, SetAllRulesMode(m)
       PROVE  BirthInv'
  BY <1>10, <1>13 DEF SetAllRulesMode
<1>14. ASSUME NEW key \in Keys, ApplyFrameMutations(key)
       PROVE  BirthInv'
  BY <1>10, <1>14 DEF ApplyFrameMutations
<1>15. CASE UNCHANGED vars
  BY <1>15 DEF vars, BirthInv
<1> QED
  BY <1>2, <1>3, <1>5, <1>6, <1>7, <1>8, <1>9, <1>11, <1>12, <1>13, <1>14, <1>15
  DEF Next

(* What a compiled rule says of the shadow's rule in its slot.             *)
LEMMA CompiledFromShadow ==
  ASSUME Core, NEW e \in table
  PROVE  /\ e.rule_id \in InUse(committed)
         /\ e.priority = Rank(committed, e.rule_id)
         /\ e.source.kind = committed[e.rule_id].request.kind
<1>1. committed \in RuleArray /\ table = Compile(committed)
  BY DEF Core
<1>2. PICK s \in InUse(committed) :
        e = [rule_id |-> s, priority |-> Rank(committed, s),
             source |-> Shape(committed[s].request)]
  BY <1>1 DEF Compile
<1>3. committed[s].request \in RuleStageRequest
  BY <1>1, UsedSlot
<1>4. Shape(committed[s].request).kind = committed[s].request.kind
  BY <1>3 DEF Shape, RuleStageRequest
<1> QED
  BY <1>2, <1>4

(* Every range is applied before every raw mask, for any number of slots   *)
(* and however often the sequence numbers have wrapped.                    *)
THEOREM RangesFirst == Spec => []RangesBeforeMasks
<1>1. EngineInv => RangesBeforeMasks
  <2> SUFFICES ASSUME EngineInv, NEW c \in table, NEW d \in table,
                      c.source.kind = "BIT_RANGE", d.source.kind = "RAW_MASK"
               PROVE  c.priority < d.priority
    BY DEF RangesBeforeMasks
  <2>1. Core
    BY CoreIsEnough
  <2>2. Before(committed, c.rule_id, d.rule_id)
    BY <2>1, CompiledFromShadow DEF Before
  <2> QED
    BY <2>1, <2>2, CompiledFromShadow, RankIsMonotone DEF Core
<1> QED
  BY <1>1, EngineInvariant, PTL

(* Ranges are applied before raw masks and each kind in the order in which *)
(* its rules were first staged, for any number of slots, while no more     *)
(* rules are staged after a boot than sequence numbers can tell apart.     *)
(* The hypothesis is needed for the second half only: a wrapped number     *)
(* sorts a new rule before older ones.                                     *)
THEOREM StageOrder ==
  ASSUME MaxStages < SeqModulus
  PROVE  Spec => []AppliedInStageOrder
<1>1. Init => BirthInv
  <2>1. MaxStages + 1 >= 1
    BY EngineAssumption
  <2> QED
    BY <2>1, EmptyArray DEF Init, BirthInv, SequenceIsBirth
<1>2. EngineInv /\ BirthInv /\ [Next]_vars => BirthInv'
  BY NextBirth, CoreIsEnough
<1>3. EngineInv /\ BirthInv => FirstStagedFirst
  <2> SUFFICES ASSUME EngineInv, BirthInv,
                      NEW c \in table, NEW d \in table,
                      c.source.kind = d.source.kind,
                      committed[c.rule_id].birth < committed[d.rule_id].birth
               PROVE  c.priority < d.priority
    BY DEF FirstStagedFirst
  <2>1. Core
    BY CoreIsEnough
  <2>2. \A e \in {c, d} : /\ e.rule_id \in InUse(committed)
                         /\ e.priority = Rank(committed, e.rule_id)
                         /\ e.source.kind = committed[e.rule_id].request.kind
    BY <2>1, CompiledFromShadow
  <2>3. committed[c.rule_id].sequence < committed[d.rule_id].sequence
    BY <2>2 DEF BirthInv, SequenceIsBirth
  <2>4. Before(committed, c.rule_id, d.rule_id)
    BY <2>2, <2>3 DEF Before
  <2> QED
    BY <2>1, <2>2, <2>4, RankIsMonotone DEF Core
<1> QED
  BY <1>1, <1>2, <1>3, EngineInvariant, RangesFirst, PTL
  DEF Spec, AppliedInStageOrder

-----------------------------------------------------------------------------
(* The engine implements RuleSet: its draft is what the staging area       *)
(* holds, its live set what the shadow holds.                              *)
Held(rules) == {Shape(rules[s].request) : s \in InUse(rules)}

(* What the active table holds is what the shadow it was compiled from     *)
(* holds.                                                                  *)
LEMMA SourcesAreHeld ==
  ASSUME NEW rules \in RuleArray
  PROVE  {c.source : c \in Compile(rules)} = Held(rules)
<1>1. ASSUME NEW s \in InUse(rules)
      PROVE  Shape(rules[s].request) \in {c.source : c \in Compile(rules)}
  <2> DEFINE c == [rule_id |-> s, priority |-> Rank(rules, s),
                   source |-> Shape(rules[s].request)]
  <2>1. c \in Compile(rules) /\ c.source = Shape(rules[s].request)
    BY DEF Compile
  <2> HIDE DEF c
  <2> QED
    BY <2>1
<1>2. ASSUME NEW c \in Compile(rules) PROVE c.source \in Held(rules)
  BY DEF Compile, Held
<1> QED
  BY <1>1, <1>2 DEF Held

LEMMA ShapeKeepsIdentity ==
  ASSUME NEW request \in RuleStageRequest
  PROVE  Identity(Shape(request)) = Identity(request)
BY DEF Shape, Identity, RuleStageRequest

(* Slots and held rules are in one-to-one correspondence.                  *)
LEMMA HeldOnce ==
  ASSUME NEW rules \in RuleArray, DistinctIdentities(rules),
         NEW s \in InUse(rules), NEW t \in InUse(rules),
         Shape(rules[s].request) = Shape(rules[t].request)
  PROVE  s = t
<1>1. rules[s].request \in RuleStageRequest /\ rules[t].request \in RuleStageRequest
  BY UsedSlot
<1>2. Identity(rules[s].request) = Identity(rules[t].request)
  BY <1>1, ShapeKeepsIdentity
<1> QED
  BY <1>2 DEF DistinctIdentities

(* There is room in the draft when a slot is left out.                     *)
LEMMA RoomLeft ==
  ASSUME NEW rules \in RuleArray, NEW T \in SUBSET Slots, NEW slot \in Slots \ T
  PROVE  Cardinality({Shape(rules[s].request) : s \in T}) < MaxRules
<1> DEFINE shape(s) == Shape(rules[s].request)
           f == [s \in T |-> shape(s)]
           image == {shape(s) : s \in T}
<1>1. IsFiniteSet(T) /\ Cardinality(T) < MaxRules /\ Cardinality(T) \in Nat
  <2>1. IsFiniteSet(Slots) /\ Cardinality(Slots) = MaxRules /\ T # Slots
    BY SlotsFinite
  <2> QED
    BY <2>1, FS_Subset, FS_CardinalityType, EngineAssumption
<1>2. f \in Surjection(T, image)
  BY DEF Surjection
<1>3. IsFiniteSet(image) /\ Cardinality(image) <= Cardinality(T)
  BY <1>1, <1>2, FS_Surjection
<1>4. Cardinality(image) \in Nat
  BY <1>3, FS_CardinalityType
<1> QED
  BY <1>1, <1>3, <1>4, EngineAssumption

Draft == Held(staged)
LiveSet == {c.source : c \in table}

LEMMA SameCardinality == \A S : Abstract!Cardinality(S) = Cardinality(S)
BY DEF Cardinality, Abstract!Cardinality

LEMMA StageInstance ==
  ASSUME NEW r, NEW K, K = {d \in Draft : Identity(d) # Identity(r)},
         Cardinality(K) < MaxRules, Draft' = K \cup {r}, LiveSet' = LiveSet
  PROVE  Abstract!Stage(r)
BY SameCardinality DEF Abstract!Stage, Draft, LiveSet, Held

(* Staging puts the request in the place of the rule of its identity.      *)
LEMMA StagesAbstractly ==
  ASSUME Core, NEW request \in RuleStageRequest, StageRule(request),
         Shape(request) \in Stageable
  PROVE  Abstract!Stage(Shape(request))
<1> DEFINE kept == {d \in Held(staged) : Identity(d) # Identity(Shape(request))}
<1>0. Identity(Shape(request)) = Identity(request)
  BY ShapeKeepsIdentity
<1>1. \A s \in InUse(staged) :
        Identity(Shape(staged[s].request)) = Identity(staged[s].request)
  BY UsedSlot, ShapeKeepsIdentity DEF Core
<1>2. staged \in RuleArray /\ DistinctIdentities(staged) /\ table' = table
  BY DEF Core, StageRule, RestageRule, StageNewRule
<1>3. LiveSet' = LiveSet
  BY <1>2 DEF LiveSet
<1>4. CASE RestageRule(request)
  <2> DEFINE slot == Lowest(SameIdentity(request))
             others == InUse(staged) \ {slot}
  <2>1. slot \in InUse(staged) /\ Identity(staged[slot].request) = Identity(request)
    <3>1. SameIdentity(request) \in SUBSET Slots /\ SameIdentity(request) # {}
      BY <1>4 DEF SameIdentity, InUse, RestageRule
    <3>2. slot \in SameIdentity(request)
      BY <3>1, LowestIsMember
    <3> QED
      BY <3>2 DEF SameIdentity
  <2>2. staged' = [staged EXCEPT ![slot].request = request]
    BY <1>4 DEF RestageRule
  <2> HIDE DEF slot
  <2>3. /\ InUse(staged') = InUse(staged) /\ staged'[slot].request = request
        /\ \A s \in others : staged'[s] = staged[s]
    <3>1. staged[slot] \in StagedRule /\ slot \in Slots
      BY <1>2, <2>1, UsedSlot
    <3>2. staged'[slot].in_use /\ staged'[slot].request = request
      BY <1>2, <2>1, <2>2, <3>1 DEF StagedRule, RuleArray, InUse
    <3>3. \A s \in Slots \ {slot} : staged'[s] = staged[s]
      BY <1>2, <2>2 DEF RuleArray
    <3> QED
      BY <2>1, <3>1, <3>2, <3>3 DEF InUse
  <2>4. \A s \in InUse(staged) : Identity(staged[s].request) # Identity(request) <=> s # slot
    BY <1>2, <2>1 DEF DistinctIdentities
  <2>5. kept = {Shape(staged[s].request) : s \in others}
    BY <1>0, <1>1, <2>4 DEF Held
  <2>6. Held(staged') = kept \cup {Shape(request)}
    BY <2>1, <2>3, <2>5 DEF Held
  <2>7. Cardinality(kept) < MaxRules
    <3>1. others \in SUBSET Slots /\ slot \in Slots \ others
      BY <2>1 DEF InUse
    <3> QED
      BY <1>2, <2>5, <3>1, RoomLeft
  <2> QED
    BY <1>3, <2>6, <2>7, StageInstance DEF Draft
<1>5. CASE StageNewRule(request)
  <2> DEFINE slot == Lowest(FreeSlots)
  <2>1. slot \in Slots /\ slot \notin InUse(staged)
    <3>1. FreeSlots \in SUBSET Slots /\ FreeSlots # {}
      BY <1>5 DEF FreeSlots, StageNewRule
    <3>2. slot \in FreeSlots
      BY <3>1, LowestIsMember
    <3> QED
      BY <3>2 DEF FreeSlots
  <2>2. staged' = [staged EXCEPT ![slot] =
                     [in_use |-> TRUE, sequence |-> next_sequence % SeqModulus,
                      birth |-> next_sequence, request |-> request]]
    BY <1>5 DEF StageNewRule
  <2> HIDE DEF slot
  <2>3. /\ staged'[slot].in_use /\ staged'[slot].request = request
        /\ \A s \in Slots \ {slot} : staged'[s] = staged[s]
    BY <1>2, <2>1, <2>2 DEF RuleArray
  <2>4. InUse(staged') = InUse(staged) \cup {slot}
    BY <2>1, <2>3 DEF InUse
  <2>5. \A s \in InUse(staged) : staged'[s] = staged[s]
    BY <2>1, <2>3 DEF InUse
  <2>6. kept = Held(staged)
    BY <1>0, <1>1, <1>5 DEF Held, StageNewRule, SameIdentity
  <2>7. Held(staged') = kept \cup {Shape(request)}
    BY <2>3, <2>4, <2>5, <2>6 DEF Held
  <2>8. Cardinality(kept) < MaxRules
    <3>1. InUse(staged) \in SUBSET Slots /\ slot \in Slots \ InUse(staged)
      BY <2>1 DEF InUse
    <3> QED
      BY <1>2, <2>6, <3>1, RoomLeft DEF Held
  <2> QED
    BY <1>3, <2>7, <2>8, StageInstance DEF Draft
<1> QED
  BY <1>4, <1>5 DEF StageRule

(* Removal takes one rule out of the live set and drops the draft.         *)
LEMMA RemovesAbstractly ==
  ASSUME Core, NEW slot \in Slots, RemoveRule(slot)
  PROVE  Abstract!Revert \/ \E r \in LiveSet : Abstract!Remove(r)
<1>1. LiveSet = Held(committed)
  BY SourcesAreHeld DEF Core, LiveSet
<1>2. CASE ~committed[slot].in_use
  BY <1>1, <1>2 DEF RemoveRule, RevertStagingToActive, Abstract!Revert, Held, LiveSet
<1>3. CASE committed[slot].in_use
  <2> DEFINE kept == [committed EXCEPT ![slot] = NoRule]
             r == Shape(committed[slot].request)
  <2>1. staged' = kept /\ table' = Compile(kept)
    BY <1>3 DEF RemoveRule, CommitOf
  <2>2. /\ kept \in RuleArray /\ InUse(kept) = InUse(committed) \ {slot}
        /\ \A s \in InUse(kept) : kept[s] = committed[s]
    BY DEF Core, RuleArray, InUse, NoRule
  <2>3. slot \in InUse(committed)
    BY <1>3 DEF InUse
  <2>4. \A s \in InUse(committed) : s # slot => Shape(committed[s].request) # r
    BY <2>3, HeldOnce DEF Core
  <2> HIDE DEF kept
  <2>5. Held(kept) = Held(committed) \ {r}
    BY <2>2, <2>4 DEF Held
  <2>6. r \in Held(committed)
    BY <2>3 DEF Held
  <2>7. LiveSet' = Held(kept)
    BY <2>1, <2>2, SourcesAreHeld DEF LiveSet
  <2>8. Abstract!Remove(r)
    BY <1>1, <2>1, <2>5, <2>6, <2>7 DEF Abstract!Remove, LiveSet, Held
  <2>9. r \in LiveSet
    BY <1>1, <2>6
  <2> HIDE DEF r
  <2> QED
    BY <2>8, <2>9 DEF Abstract!Remove
<1> QED
  BY <1>2, <1>3

(* Whatever changes modes or values only changes neither set.              *)
LEMMA ModesStandAside ==
  ASSUME Core, NEW slots, NEW m, SetModes(slots, m), UNCHANGED table
  PROVE  Draft' = Draft /\ LiveSet' = LiveSet
<1>1. staged' = Synced(staged, slots, m)
  BY DEF SetModes
<1>2. /\ InUse(staged') = InUse(staged)
      /\ \A s \in InUse(staged) : Shape(staged'[s].request) = Shape(staged[s].request)
  BY <1>1, SyncedKeepsRules DEF Core
<1> QED
  BY <1>2 DEF Draft, Held, LiveSet

(* Only what clients may ask for is ever held.                             *)
HeldInv == Draft \subseteq Stageable /\ LiveSet \subseteq Stageable

LEMMA StepsAbstractly ==
  ASSUME Core, HeldInv, [Next]_vars
  PROVE  [Abstract!Next]_<<Draft, LiveSet>>
<1>1. ASSUME NEW request \in Requests, StageRule(request)
      PROVE  Abstract!Next
  <2>1. request \in RuleStageRequest /\ Shape(request) \in Stageable
    BY <1>1, EngineAssumption DEF Stageable
  <2> QED
    BY <1>1, <2>1, StagesAbstractly DEF Abstract!Next
<1>2. ASSUME NEW request \in Requests, NEW operation \in {"REPLACE", "PASS_THROUGH"},
             StageMutation(operation, request)
      PROVE  Abstract!Next
  <2> DEFINE legacy == LegacyRequest(operation, request)
  <2>1. legacy \in RuleStageRequest
    BY <1>2, LegacyRequestType, EngineAssumption
  <2>2. Shape(legacy) \in Stageable /\ StageRule(legacy)
    BY <1>2 DEF StageMutation, Stageable
  <2> HIDE DEF legacy
  <2> QED
    BY <2>1, <2>2, StagesAbstractly DEF Abstract!Next
<1>3. CASE ClearStaging
  BY <1>3, EmptyArray DEF ClearStaging, Abstract!Next, Abstract!Discard, Held
<1>4. CASE RevertStagingToActive
  <2>1. LiveSet = Held(committed)
    BY SourcesAreHeld DEF Core, LiveSet
  <2> QED
    BY <1>4, <2>1 DEF RevertStagingToActive, Abstract!Next, Abstract!Revert, Held, LiveSet
<1>5. CASE ApplyCommit
  <2>1. LiveSet' = Held(staged) /\ staged' = staged
    BY <1>5, SourcesAreHeld DEF ApplyCommit, CommitOf, Core, LiveSet
  <2> QED
    BY <2>1 DEF Abstract!Next, Abstract!Commit, Held, LiveSet
<1>6. CASE ClearRules
  BY <1>6, EmptyArray DEF ClearRules, CommitOf, Abstract!Next, Abstract!Clear, Held
<1>7. ASSUME NEW slot \in Slots, RemoveRule(slot) PROVE Abstract!Next
  BY <1>7, RemovesAbstractly DEF Abstract!Next, HeldInv
<1>8. ASSUME NEW slots, NEW m, SetModes(slots, m), UNCHANGED table
      PROVE  UNCHANGED <<Draft, LiveSet>>
  BY <1>8, ModesStandAside
<1>9. CASE (\E slot \in Slots, value \in Values : SetRuleValue(slot, value))
           \/ UNCHANGED vars
  BY <1>9 DEF SetRuleValue, vars, Draft, Held, LiveSet
<1> QED
  BY <1>1, <1>2, <1>3, <1>4, <1>5, <1>6, <1>7, <1>8, <1>9
  DEF Next, SetRuleMode, SetAllRulesMode, ApplyFrameMutations

LEMMA HeldStep ==
  ASSUME HeldInv, [Abstract!Next]_<<Draft, LiveSet>>
  PROVE  HeldInv'
BY DEF HeldInv, Draft, LiveSet, Held, Abstract!Next, Abstract!Stage, Abstract!Discard,
   Abstract!Revert, Abstract!Commit, Abstract!Remove, Abstract!Clear

(* The staging API keeps its promise: the live rules change only by        *)
(* commit, removal and clear, each as RuleSet says (stageRule,             *)
(* applyCommit, removeRule and the others, for any sequence of calls).     *)
THEOREM EngineIsRuleSet == Spec => ImplementsRuleSet
<1>1. Init => Core /\ HeldInv /\ Abstract!Init
  BY InitCore, EmptyArray DEF Init, HeldInv, Draft, LiveSet, Held, Abstract!Init
<1>2. Core /\ HeldInv /\ [Next]_vars =>
        (Core /\ HeldInv)' /\ [Abstract!Next]_<<Draft, LiveSet>>
  BY NextCore, StepsAbstractly, HeldStep
<1>3. Draft = {Shape(staged[s].request) : s \in InUse(staged)}
      /\ LiveSet = {c.source : c \in table}
  BY DEF Draft, Held, LiveSet
<1> QED
  BY <1>1, <1>2, PTL DEF Spec, ImplementsRuleSet, Abstract!Spec, Draft, Held, LiveSet
=============================================================================
