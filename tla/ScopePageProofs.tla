-------------------------- MODULE ScopePageProofs ---------------------------
(***************************************************************************)
(* Proofs about ScopePage, for any number of rules, slots, handlers,       *)
(* clicks and losses: a row's buttons act on the rule the row shows unless *)
(* its slot was given to another, a rule is armed only if that was asked   *)
(* for, and a loaded database is decoded.                                  *)
(***************************************************************************)
EXTENDS ScopePage, FiniteSetTheorems, WellFoundedInduction, TLAPS

RowSteps == {"mode", "mode by range", "remove", "remove by range"}
StageSteps == {"stage", "stage row"}
OtherSteps ==
  {"idle", "status", "commit", "revert", "clear", "mode all", "upload", "unload",
   "observe", "watch"}
Steps == RowSteps \cup StageSteps \cup OtherSteps
Answers == {"sent", "ok", "refused", "lost", "done"}
Phases == {"idle", "watching", "baseline"}
WatchActions == {"start", "fix", "reset"}
Row == [rule_id : Slots, rule : Rules, mode : Modes]
Status == [rows : SUBSET Row, dbc : BOOLEAN, phase : Phases]
ListType == [Slots -> Rules \cup {NoRule}]

(* A row shows a rule that its slot has been given.                        *)
Held(given, list) == \A row \in list : row.rule \in given[row.rule_id]
HeldInv == \A s \in Slots : {staged[s], active[s]} \ {NoRule} \subseteq held[s]

(* What a handler asks for, and what it has been told.                     *)
HandlerOk(given, c) ==
  /\ c \in [step : Steps, item : {c.item}, at : Answers, body : {c.body},
            failed : BOOLEAN]
  /\ c.step \in RowSteps => c.item \in Row /\ Held(given, {c.item})
  /\ c.step \in StageSteps => c.item \in Seq(Rules) \ {<<>>}
  /\ c.step = "mode all" => c.item \in Modes
  /\ c.step = "watch" => c.item \in WatchActions
  /\ c.step = "status" =>
       \A body \in c.body : body \in Status /\ Held(given, body.rows)
HandlersInv ==
  /\ handlers = [h \in Handlers |-> handlers[h]]
  /\ \A h \in Handlers : HandlerOk(held, handlers[h])

EngineType ==
  /\ staged \in ListType /\ active \in ListType /\ modes \in [Slots -> Modes]
  /\ held \in [Slots -> SUBSET Rules] /\ \A s \in Slots : IsFiniteSet(held[s])
  /\ meant \in ListType
DeviceType ==
  /\ EngineType
  /\ dbc \in BOOLEAN /\ observing \in BOOLEAN /\ phase \in Phases
  /\ mistaken \subseteq Slots

(* Rows and requests name rules that their slots have been given, so that  *)
(* meeting another rule takes a slot that has been given two.  The mode of *)
(* a slot that is on was asked for the rule in force, and for the one that *)
(* is staged, which a commit puts in force.                                *)
MistakenInv == \A s \in mistaken : Cardinality(held[s]) > 1
ArmedInv ==
  \A s \in Slots \ mistaken :
    modes[s] # "disabled" => {staged[s], active[s]} \subseteq {meant[s], NoRule}
PageInv ==
  /\ DeviceType /\ HeldInv
  /\ rows \subseteq Row /\ Held(held, rows)
  /\ HandlersInv
  /\ MistakenInv /\ ArmedInv

-----------------------------------------------------------------------------
(* A set of naturals has a least element.                                  *)
LEMMA LeastOf ==
  ASSUME NEW S, S \subseteq Nat, S # {}
  PROVE  Min(S) \in S
<1> DEFINE R == OpToRel(<, Nat)
<1>1. IsWellFoundedOn(R, Nat)
  BY NatLessThanWellFounded
<1>2. PICK m \in S : \A n \in S : ~ (<<n, m>> \in R)
  <2> HIDE DEF R
  <2> QED BY <1>1, WFMin
<1>3. ASSUME NEW n \in S, n < m PROVE FALSE
  <2> DEFINE p == <<n, m>>
  <2>1. p \in Nat \X Nat /\ p[1] < p[2]
    BY <1>3
  <2> HIDE DEF p
  <2>2. p \in R
    BY <2>1 DEF OpToRel
  <2> QED BY <1>2, <2>2 DEF p
<1>4. \E n \in S : \A k \in S : n =< k
  BY <1>3
<1> QED BY <1>4 DEF Min

LEMMA IdleHandler ==
  ASSUME IdleHandlers # {}
  PROVE  Min(IdleHandlers) \in Handlers /\ handlers[Min(IdleHandlers)] = Idle
<1>1. IdleHandlers \subseteq Nat
  BY ScopePageAssumption DEF IdleHandlers, Handlers
<1> QED BY <1>1, LeastOf DEF IdleHandlers

LEMMA FreeSlot ==
  ASSUME NEW rule, SlotsFor(rule) # {}
  PROVE  Min(SlotsFor(rule)) \in Slots
<1>1. SlotsFor(rule) \subseteq Slots /\ Slots \subseteq Nat
  BY ScopePageAssumption DEF SlotsFor, Slots
<1> QED BY <1>1, LeastOf

-----------------------------------------------------------------------------
(* What slots have been given stays given, so what was true of rows stays. *)
HeldGrows ==
  /\ held' \in [Slots -> SUBSET Rules]
  /\ \A s \in Slots : held[s] \subseteq held'[s] /\ IsFiniteSet(held'[s])

LEMMA HeldStays ==
  ASSUME EngineType, HeldGrows
  PROVE  /\ \A list \in SUBSET Row : Held(held, list) => Held(held', list)
         /\ \A c : HandlerOk(held, c) => HandlerOk(held', c)
<1>1. ASSUME NEW list \in SUBSET Row, Held(held, list)
      PROVE  Held(held', list)
  BY <1>1 DEF Held, HeldGrows, Row
<1>2. ASSUME NEW c, HandlerOk(held, c)
      PROVE  HandlerOk(held', c)
  <2>1. c.step \in RowSteps => Held(held', {c.item})
    BY <1>1, <1>2 DEF HandlerOk
  <2>2. c.step = "status" => \A body \in c.body : Held(held', body.rows)
    BY <1>1, <1>2 DEF HandlerOk, Status
  <2> QED BY <1>2, <2>1, <2>2 DEF HandlerOk
<1> QED BY <1>1, <1>2

LEMMA ManyRulesStay ==
  ASSUME EngineType, HeldGrows, NEW s \in Slots, Cardinality(held[s]) > 1
  PROVE  Cardinality(held'[s]) > 1
<1>1. held[s] \in SUBSET held'[s] /\ IsFiniteSet(held'[s]) /\ IsFiniteSet(held[s])
  BY DEF EngineType, HeldGrows
<1>2. Cardinality(held[s]) \in Nat /\ Cardinality(held'[s]) \in Nat
  BY <1>1, FS_CardinalityType
<1> QED BY <1>1, <1>2, FS_Subset

(* A slot that holds one rule and was given another has been given two.    *)
LEMMA TwoRules ==
  ASSUME EngineType, NEW s \in Slots, NEW a \in held[s], NEW b \in held[s], a # b
  PROVE  Cardinality(held[s]) > 1
<1>1. IsFiniteSet(held[s]) /\ {a} \in SUBSET held[s] /\ {a} # held[s]
  BY DEF EngineType
<1>2. IsFiniteSet({a}) /\ Cardinality({a}) = 1
  BY FS_Singleton
<1>3. Cardinality(held[s]) \in Nat /\ 1 <= Cardinality(held[s]) /\ Cardinality(held[s]) # 1
  BY <1>1, <1>2, FS_Subset, FS_CardinalityType
<1> QED BY <1>3

-----------------------------------------------------------------------------
(* One handler goes on, the others wait.                                   *)
LEMMA OneHandler ==
  ASSUME HandlersInv, EngineType, HeldGrows, NEW h \in Handlers, NEW STATE c,
         HandlerOk(held', c), handlers' = [handlers EXCEPT ![h] = c]
  PROVE  HandlersInv'
<1>1. handlers' = [g \in Handlers |-> IF g = h THEN c ELSE handlers[g]]
  BY DEF HandlersInv
<1>2. \A g \in Handlers : HandlerOk(held', handlers'[g])
  BY <1>1, HeldStays DEF HandlersInv
<1> QED BY <1>1, <1>2 DEF HandlersInv

LEMMA HandlersStay ==
  ASSUME HandlersInv, EngineType, HeldGrows, UNCHANGED handlers
  PROVE  HandlersInv'
  BY HeldStays DEF HandlersInv

LEMMA Answered ==
  ASSUME HandlersInv, EngineType, HeldGrows, NEW h \in Handlers,
         \/ \E at \in Answers : Answer(h, at)
         \/ \E body : AnswerWith(h, body) /\
              (handlers[h].step = "status" =>
                 \A b \in body : b \in Status /\ Held(held', b.rows))
         \/ handlers' = [handlers EXCEPT ![h].at = "lost", ![h].body = {}]
  PROVE  HandlersInv'
<1> DEFINE c == handlers[h]
<1>0. HandlerOk(held', c)
  BY HeldStays DEF HandlersInv
<1>1. ASSUME NEW at \in Answers, Answer(h, at) PROVE HandlersInv'
  <2>1. HandlerOk(held', [c EXCEPT !.at = at])
    BY <1>0 DEF HandlerOk
  <2>2. handlers' = [handlers EXCEPT ![h] = [c EXCEPT !.at = at]]
    BY <1>1 DEF Answer
  <2> QED BY <2>1, <2>2, OneHandler
<1>2. ASSUME NEW body, AnswerWith(h, body),
             c.step = "status" =>
               \A b \in body : b \in Status /\ Held(held', b.rows)
      PROVE  HandlersInv'
  <2>1. HandlerOk(held', [c EXCEPT !.at = "ok", !.body = body])
    BY <1>0, <1>2 DEF HandlerOk, Answers
  <2>2. handlers' = [handlers EXCEPT ![h] = [c EXCEPT !.at = "ok", !.body = body]]
    BY <1>2 DEF AnswerWith, HandlersInv
  <2> QED BY <2>1, <2>2, OneHandler
<1>3. CASE handlers' = [handlers EXCEPT ![h].at = "lost", ![h].body = {}]
  <2>1. HandlerOk(held', [c EXCEPT !.at = "lost", !.body = {}])
    BY <1>0 DEF HandlerOk, Answers
  <2>2. handlers' = [handlers EXCEPT ![h] = [c EXCEPT !.at = "lost", !.body = {}]]
    BY <1>3 DEF HandlersInv
  <2> QED BY <2>1, <2>2, OneHandler
<1> QED BY <1>1, <1>2, <1>3

-----------------------------------------------------------------------------
(* The device's steps.                                                     *)
EngineGrows == EngineType' /\ HeldInv' /\ HeldGrows

LEMMA EngineStands ==
  ASSUME EngineType, HeldInv, UNCHANGED engine
  PROVE  EngineGrows
  BY DEF EngineType, HeldInv, EngineGrows, HeldGrows, engine

LEMMA Committed ==
  ASSUME EngineType, HeldInv, NEW STATE list, list \in ListType,
         \A s \in Slots : {list[s]} \ {NoRule} \subseteq held[s],
         Commit(list)
  PROVE  EngineGrows
<1>1. modes' \in [Slots -> Modes] /\ meant' \in ListType
  BY DEF EngineType, Commit, Modes, ListType
<1> QED BY <1>1 DEF EngineType, HeldInv, EngineGrows, HeldGrows, Commit

LEMMA StageGrows ==
  ASSUME EngineType, HeldInv, HandlersInv, NEW h \in Handlers, ServeStage(h)
  PROVE  EngineGrows
<1> DEFINE rule == Head(handlers[h].item)  slot == Min(SlotsFor(rule))
<1>1. rule \in Rules
  <2>1. handlers[h].step \in StageSteps
    BY DEF ServeStage, At, StageSteps
  <2>2. handlers[h].item \in Seq(Rules) \ {<<>>}
    BY <2>1 DEF HandlersInv, HandlerOk
  <2> QED BY <2>2
<1>2. CASE SlotsFor(rule) = {}
  BY <1>2, EngineStands DEF ServeStage
<1>3. CASE SlotsFor(rule) # {}
  <2>1. slot \in Slots
    BY <1>3, FreeSlot
  <2>2. /\ staged' = [staged EXCEPT ![slot] = rule]
        /\ modes' = [modes EXCEPT ![slot] = "disabled"]
        /\ meant' = [meant EXCEPT ![slot] = NoRule]
        /\ held' = [held EXCEPT ![slot] = @ \cup {rule}]
        /\ active' = active
    BY <1>3 DEF ServeStage
  <2> HIDE DEF slot, rule
  <2>3. IsFiniteSet(held[slot] \cup {rule})
    BY <2>1, FS_AddElement DEF EngineType
  <2>4. HeldGrows
    BY <1>1, <2>1, <2>2, <2>3 DEF EngineType, HeldGrows
  <2>5. EngineType'
    BY <1>1, <2>1, <2>2, <2>4 DEF EngineType, HeldGrows, ListType, Modes
  <2>6. HeldInv'
    BY <1>1, <2>1, <2>2, <2>4 DEF EngineType, HeldGrows, HeldInv, ListType
  <2> QED BY <2>4, <2>5, <2>6 DEF EngineGrows
<1> QED BY <1>2, <1>3

LEMMA ActionGrows ==
  ASSUME EngineType, HeldInv, HandlersInv, NEW h \in Handlers, ServeAction(h)
  PROVE  EngineGrows
<1>0. EngineType /\ HeldInv
  OBVIOUS
<1>1. CASE Commit(staged)
  BY <1>1, Committed DEF EngineType, HeldInv
<1>2. CASE staged' = active /\ UNCHANGED <<active, modes, held, meant>>
  BY <1>2 DEF EngineType, HeldInv, EngineGrows, HeldGrows
<1>3. CASE staged' = NoRules /\ UNCHANGED <<active, modes, held, meant>>
  BY <1>3 DEF EngineType, HeldInv, EngineGrows, HeldGrows, NoRules, ListType
<1> QED BY <1>1, <1>2, <1>3 DEF ServeAction

LEMMA RowItem ==
  ASSUME HandlersInv, NEW h \in Handlers, handlers[h].step \in RowSteps
  PROVE  /\ handlers[h].item \in Row
         /\ handlers[h].item.rule \in held[handlers[h].item.rule_id]
         /\ Named(h) \subseteq Slots
  BY DEF HandlersInv, HandlerOk, Held, Named, Row

(* Modes of some slots are set for rules, or for none.                     *)
LEMMA ModesGrow ==
  ASSUME EngineType, HeldInv, NEW STATE slots, slots \subseteq Slots,
         NEW STATE mode, mode \in Modes, NEW STATE ruleOf, ruleOf \in ListType,
         SetModes(slots, mode, ruleOf), UNCHANGED <<staged, active, held>>
  PROVE  EngineGrows
<1>1. modes' \in [Slots -> Modes] /\ meant' \in ListType
  BY DEF SetModes, EngineType, ListType
<1> QED BY <1>1 DEF EngineType, HeldInv, EngineGrows, HeldGrows

InForce == {s \in Slots : active[s] # NoRule}
LEMMA ModeGrows ==
  ASSUME EngineType, HeldInv, HandlersInv, NEW h \in Handlers,
         ServeMode(h) \/ ServeModeAll(h)
  PROVE  EngineGrows
<1>1. CASE ServeMode(h)
  <2>1. handlers[h].item \in Row /\ Named(h) \subseteq Slots
    BY <1>1, RowItem DEF ServeMode, At, RowSteps
  <2>2. handlers[h].item.mode \in Modes /\ RowRule(h) \in ListType
    BY <2>1 DEF Row, RowRule, ListType
  <2>3. /\ SetModes(Named(h), handlers[h].item.mode, RowRule(h))
        /\ UNCHANGED <<staged, active, held>>
    BY <1>1 DEF ServeMode
  <2> QED BY <2>1, <2>2, <2>3, ModesGrow
<1>2. CASE ServeModeAll(h)
  <2>1. handlers[h].item \in Modes
    BY <1>2 DEF ServeModeAll, At, HandlersInv, HandlerOk
  <2>2. /\ SetModes(InForce, handlers[h].item, active)
        /\ UNCHANGED <<staged, active, held>>
    BY <1>2 DEF ServeModeAll, InForce
  <2>3. InForce \subseteq Slots /\ active \in ListType
    BY DEF InForce, EngineType
  <2> QED BY <2>1, <2>2, <2>3, ModesGrow
<1> QED BY <1>1, <1>2

LEMMA RemoveGrows ==
  ASSUME EngineType, HeldInv, HandlersInv, NEW h \in Handlers, ServeRemove(h)
  PROVE  EngineGrows
<1> DEFINE rest == [s \in Slots |-> IF s \in Named(h) THEN NoRule ELSE active[s]]
<1>1. CASE Commit(rest)
  <2>1. rest \in ListType
    BY DEF EngineType, ListType
  <2>2. \A s \in Slots : {rest[s]} \ {NoRule} \subseteq held[s]
    BY DEF HeldInv
  <2> HIDE DEF rest
  <2> QED BY <1>1, <2>1, <2>2, Committed
<1>2. CASE /\ staged' = IF Named(h) = {} THEN staged ELSE active
           /\ UNCHANGED <<active, modes, held, meant>>
  BY <1>2 DEF EngineType, HeldInv, EngineGrows, HeldGrows
<1> QED BY <1>1, <1>2 DEF ServeRemove

(* A request that names a slot meets another rule only if its slot has had *)
(* both; one that names a range meets its rule, unless another is staged   *)
(* in the same slot.                                                       *)
LEMMA MeetsItsRule ==
  ASSUME EngineType, HeldInv, MistakenInv, mistaken \subseteq Slots, HeldGrows,
         NEW STATE slots, slots \subseteq Slots, NEW STATE ruleOf,
         \A s \in slots : ruleOf[s] \in held[s], Meets(slots, ruleOf)
  PROVE  mistaken' \subseteq Slots /\ MistakenInv'
<1>1. mistaken' \subseteq Slots
  BY DEF Meets
<1>2. ASSUME NEW s \in mistaken' PROVE Cardinality(held'[s]) > 1
  <2>1. CASE s \in mistaken
    BY <2>1, ManyRulesStay DEF MistakenInv
  <2>2. CASE s \notin mistaken
    <3>1. s \in slots /\ ~({staged[s], active[s]} \subseteq {ruleOf[s], NoRule})
      BY <1>2, <2>2 DEF Meets
    <3>2. PICK r \in {staged[s], active[s]} : r \notin {ruleOf[s], NoRule}
      BY <3>1
    <3>3. r \in held[s] /\ ruleOf[s] \in held[s] /\ r # ruleOf[s] /\ s \in Slots
      BY <3>1, <3>2 DEF HeldInv
    <3>4. Cardinality(held[s]) > 1
      BY <3>3, TwoRules
    <3> QED BY <3>3, <3>4, ManyRulesStay
  <2> QED BY <2>1, <2>2
<1> QED BY <1>1, <1>2 DEF MistakenInv

LEMMA RowMeets ==
  ASSUME EngineType, HeldInv, HandlersInv, MistakenInv, mistaken \subseteq Slots,
         HeldGrows, NEW h \in Handlers, handlers[h].step \in RowSteps,
         Meets(Named(h), RowRule(h))
  PROVE  mistaken' \subseteq Slots /\ MistakenInv'
<1>1. /\ Named(h) \subseteq Slots /\ handlers[h].item \in Row
      /\ handlers[h].item.rule \in held[handlers[h].item.rule_id]
  BY RowItem
<1>2. \A s \in Named(h) : s = handlers[h].item.rule_id
                           \/ active[s] = handlers[h].item.rule
  BY DEF Named
<1>3. handlers[h].item.rule # NoRule
  BY <1>1, FoundAssumption DEF Row
<1>4. \A s \in Named(h) : RowRule(h)[s] \in held[s]
  BY <1>1, <1>2, <1>3 DEF RowRule, HeldInv
<1> QED BY <1>1, <1>4, MeetsItsRule

(* A mode that is on is meant for what is in its slot.                     *)
LEMMA ModesMeant ==
  ASSUME EngineType, ArmedInv, NEW STATE slots, NEW STATE mode, NEW STATE ruleOf,
         SetModes(slots, mode, ruleOf), Meets(slots, ruleOf),
         UNCHANGED <<staged, active>>
  PROVE  ArmedInv'
  BY DEF ArmedInv, SetModes, Meets, EngineType

LEMMA CommitMeant ==
  ASSUME EngineType, ArmedInv, NEW STATE list,
         \A s \in Slots : list[s] \in {staged[s], active[s], NoRule},
         Commit(list), mistaken \subseteq mistaken'
  PROVE  ArmedInv'
<1> SUFFICES ASSUME NEW s \in Slots, s \notin mistaken', modes'[s] # "disabled"
             PROVE  {staged'[s], active'[s]} \subseteq {meant'[s], NoRule}
  BY DEF ArmedInv
<1>1. /\ staged' = list /\ active' = list /\ list[s] # NoRule
      /\ modes'[s] = modes[s] /\ meant'[s] = meant[s]
  BY DEF Commit
<1> QED BY <1>1 DEF ArmedInv

LEMMA ArmedStep ==
  ASSUME EngineType, HandlersInv, ArmedInv, NEW h \in Handlers, Serve(h)
  PROVE  ArmedInv'
<1>1. CASE ServeStatus(h) \/ Refuse(h) \/ ServeObserve(h) \/ ServeWatch(h)
  BY <1>1 DEF ServeStatus, Refuse, ServeObserve, ServeWatch, device, engine, ArmedInv
<1>2. CASE ServeStage(h)
  <2> DEFINE rule == Head(handlers[h].item)  slot == Min(SlotsFor(rule))
  <2>1. CASE SlotsFor(rule) = {}
    BY <1>2, <2>1 DEF ServeStage, engine, ArmedInv
  <2>2. CASE SlotsFor(rule) # {}
    <3>1. /\ staged' = [staged EXCEPT ![slot] = rule]
          /\ modes' = [modes EXCEPT ![slot] = "disabled"]
          /\ meant' = [meant EXCEPT ![slot] = NoRule]
          /\ UNCHANGED <<active, mistaken>>
      BY <1>2, <2>2 DEF ServeStage
    <3> HIDE DEF slot, rule
    <3> QED BY <3>1 DEF EngineType, ListType, ArmedInv
  <2> QED BY <2>1, <2>2
<1>3. CASE ServeAction(h)
  <2>1. CASE Commit(staged)
    BY <1>3, <2>1, CommitMeant DEF ServeAction
  <2>2. CASE staged' \in {active, NoRules} /\ UNCHANGED <<active, modes, held, meant>>
    BY <1>3, <2>2 DEF ServeAction, ArmedInv, NoRules
  <2> QED BY <1>3, <2>1, <2>2 DEF ServeAction
<1>4. CASE ServeModeAll(h)
  <2>1. /\ SetModes(InForce, handlers[h].item, active) /\ Meets(InForce, active)
        /\ UNCHANGED <<staged, active>>
    BY <1>4 DEF ServeModeAll, InForce
  <2> QED BY <2>1, ModesMeant
<1>5. CASE ServeMode(h)
  <2>1. /\ SetModes(Named(h), handlers[h].item.mode, RowRule(h))
        /\ Meets(Named(h), RowRule(h)) /\ UNCHANGED <<staged, active>>
    BY <1>5 DEF ServeMode
  <2> QED BY <2>1, ModesMeant
<1>6. CASE ServeRemove(h)
  <2> DEFINE rest == [s \in Slots |-> IF s \in Named(h) THEN NoRule ELSE active[s]]
  <2>0. mistaken \subseteq mistaken'
    BY <1>6 DEF ServeRemove, Meets
  <2>1. CASE Commit(rest)
    <3>1. \A s \in Slots : rest[s] \in {staged[s], active[s], NoRule}
      OBVIOUS
    <3> HIDE DEF rest
    <3> QED BY <2>0, <2>1, <3>1, CommitMeant
  <2>2. CASE staged' \in {staged, active} /\ UNCHANGED <<active, modes, held, meant>>
    BY <2>0, <2>2 DEF ArmedInv
  <2> QED BY <1>6, <2>1, <2>2 DEF ServeRemove
<1>7. CASE ServeDbc(h)
  <2>1. \A s \in Slots : NoRules[s] \in {staged[s], active[s], NoRule}
    BY DEF NoRules
  <2> QED BY <1>7, <2>1, CommitMeant DEF ServeDbc
<1> QED BY <1>1, <1>2, <1>3, <1>4, <1>5, <1>6, <1>7 DEF Serve

LEMMA ServeStep ==
  ASSUME PageInv, NEW h \in Handlers, Serve(h)
  PROVE  PageInv'
<1> USE DEF PageInv, DeviceType
<1>0. EngineType /\ HeldInv /\ HandlersInv /\ UNCHANGED rows
  BY DEF Serve, page
<1>1. ASSUME EngineGrows, HandlersInv',
             dbc' \in BOOLEAN /\ observing' \in BOOLEAN /\ phase' \in Phases,
             mistaken' = mistaken \/ (mistaken' \subseteq Slots /\ MistakenInv')
      PROVE  PageInv'
  <2>1. Held(held', rows')
    BY <1>0, <1>1, HeldStays DEF EngineGrows
  <2>2. ASSUME mistaken' = mistaken PROVE mistaken' \subseteq Slots /\ MistakenInv'
    BY <1>0, <1>1, <2>2, ManyRulesStay DEF EngineGrows, MistakenInv
  <2>3. ArmedInv'
    BY <1>0, ArmedStep
  <2> QED BY <1>0, <1>1, <2>1, <2>2, <2>3 DEF EngineGrows
<1>a. EngineGrows => EngineType /\ HeldGrows
  BY DEF EngineGrows
<1>2. CASE ServeStatus(h)
  <2>1. EngineGrows /\ UNCHANGED <<dbc, observing, phase, mistaken>>
    BY <1>0, <1>2, EngineStands DEF ServeStatus, device, engine
  <2>2. [rows |-> Listed, dbc |-> dbc, phase |-> phase] \in Status
    BY DEF Listed, Status, Row, EngineType, ListType
  <2>3. Held(held', Listed)
    BY <2>1 DEF Held, Listed, HeldInv, EngineGrows, HeldGrows
  <2>4. HandlersInv'
    <3> DEFINE told == [rows |-> Listed, dbc |-> dbc, phase |-> phase]
    <3>1. AnswerWith(h, {told})
      BY <1>2 DEF ServeStatus
    <3>2. told.rows = Listed
      OBVIOUS
    <3> HIDE DEF told
    <3>3. \A b \in {told} : b \in Status /\ Held(held', b.rows)
      BY <2>2, <2>3, <3>2 DEF told
    <3>4. \E body : AnswerWith(h, body) /\
            (handlers[h].step = "status" =>
               \A b \in body : b \in Status /\ Held(held', b.rows))
      BY <3>1, <3>3
    <3> QED BY <1>0, <1>a, <2>1, <3>4, Answered
  <2> QED BY <1>1, <2>1, <2>4
<1>3. CASE ServeStage(h)
  <2>1. EngineGrows
    BY <1>0, <1>3, StageGrows
  <2>2. HandlersInv'
    BY <1>0, <1>3, <1>a, <2>1, Answered DEF ServeStage, Answers
  <2> QED BY <1>1, <1>3, <2>1, <2>2 DEF ServeStage
<1>4. CASE ServeAction(h)
  <2>1. EngineGrows
    BY <1>0, <1>4, ActionGrows
  <2>2. HandlersInv'
    BY <1>0, <1>4, <1>a, <2>1, Answered DEF ServeAction, Answers
  <2> QED BY <1>1, <1>4, <2>1, <2>2 DEF ServeAction
<1>5. CASE ServeMode(h) \/ ServeModeAll(h)
  <2>1. EngineGrows
    BY <1>0, <1>5, ModeGrows
  <2>2. HandlersInv'
    BY <1>0, <1>5, <1>a, <2>1, Answered DEF ServeMode, ServeModeAll, Answers
  <2>3. mistaken' \subseteq Slots /\ MistakenInv'
    <3>1. CASE ServeMode(h)
      BY <1>0, <1>a, <2>1, <3>1, RowMeets DEF ServeMode, At, RowSteps
    <3>2. CASE ServeModeAll(h)
      <4>1. Meets(InForce, active) /\ InForce \subseteq Slots
        BY <3>2 DEF ServeModeAll, InForce
      <4>2. \A s \in InForce : active[s] \in held[s]
        BY <1>0 DEF HeldInv, InForce
      <4> QED BY <1>0, <1>a, <2>1, <4>1, <4>2, MeetsItsRule
    <3> QED BY <1>5, <3>1, <3>2
  <2> QED BY <1>1, <1>5, <2>1, <2>2, <2>3 DEF ServeMode, ServeModeAll
<1>6. CASE ServeRemove(h)
  <2>1. EngineGrows
    BY <1>0, <1>6, RemoveGrows
  <2>2. HandlersInv'
    BY <1>0, <1>6, <1>a, <2>1, Answered DEF ServeRemove, Answers
  <2>3. mistaken' \subseteq Slots /\ MistakenInv'
    BY <1>0, <1>6, <1>a, <2>1, RowMeets DEF ServeRemove, At, RowSteps
  <2> QED BY <1>1, <1>6, <2>1, <2>2, <2>3 DEF ServeRemove
<1>7. CASE ServeDbc(h)
  <2>1. EngineGrows
    <3>1. NoRules \in ListType /\ \A s \in Slots : {NoRules[s]} \ {NoRule} \subseteq held[s]
      BY DEF NoRules, ListType
    <3> QED BY <1>0, <1>7, <3>1, Committed DEF ServeDbc
  <2>2. HandlersInv'
    BY <1>0, <1>7, <1>a, <2>1, Answered DEF ServeDbc, Answers
  <2> QED BY <1>1, <1>7, <2>1, <2>2 DEF ServeDbc
<1>8. CASE Refuse(h) \/ ServeObserve(h) \/ ServeWatch(h)
  <2>1. EngineGrows
    BY <1>0, <1>8, EngineStands DEF Refuse, ServeObserve, ServeWatch, device
  <2>2. HandlersInv'
    <3>1. CASE Refuse(h) \/ ServeObserve(h)
      BY <1>0, <1>a, <2>1, <3>1, Answered DEF Refuse, ServeObserve, Answers
    <3>2. CASE ServeWatch(h)
      <4>1. Answer(h, "refused") \/ AnswerWith(h, {phase})
        BY <3>2 DEF ServeWatch
      <4>2. handlers[h].step # "status"
        BY <3>2 DEF ServeWatch, At
      <4> QED BY <1>0, <1>a, <2>1, <4>1, <4>2, Answered DEF Answers
    <3> QED BY <1>8, <3>1, <3>2
  <2>3. /\ dbc' \in BOOLEAN /\ observing' \in BOOLEAN /\ phase' \in Phases
        /\ mistaken' = mistaken
    BY <1>8 DEF Refuse, ServeObserve, ServeWatch, device, Phases
  <2> QED BY <1>1, <2>1, <2>2, <2>3
<1> QED BY <1>2, <1>3, <1>4, <1>5, <1>6, <1>7, <1>8 DEF Serve

-----------------------------------------------------------------------------
(* The page's steps.                                                       *)
LEMMA DeviceStands ==
  ASSUME PageInv, UNCHANGED device, rows' \subseteq Row, Held(held, rows'),
         HandlersInv'
  PROVE  PageInv'
  BY DEF PageInv, DeviceType, EngineType, HeldInv, Held, device, engine, MistakenInv,
     ArmedInv

LEMMA PageGoesOn ==
  ASSUME PageInv, UNCHANGED device, NEW h \in Handlers, NEW STATE c,
         handlers' = [handlers EXCEPT ![h] = c], HandlerOk(held, c),
         rows' \subseteq Row, Held(held, rows')
  PROVE  PageInv'
<1>1. EngineType /\ HandlersInv /\ held' = held
  BY DEF PageInv, DeviceType, device, engine
<1>2. HeldGrows
  BY <1>1 DEF EngineType, HeldGrows
<1>3. HandlersInv'
  BY <1>1, <1>2, OneHandler
<1> QED BY <1>3, DeviceStands

LEMMA Waiting ==
  /\ \A item : \A step \in OtherSteps \ {"mode all", "watch"} :
       HandlerOk(held, Awaiting(step, item))
  /\ HandlerOk(held, Idle) /\ HandlerOk(held, Refresh)
  /\ \A m \in Modes : HandlerOk(held, Awaiting("mode all", m))
  /\ \A action \in WatchActions : HandlerOk(held, Awaiting("watch", action))
  /\ \A step \in StageSteps, todo \in Seq(Rules) \ {<<>>} :
       HandlerOk(held, Awaiting(step, todo))
  /\ \A step \in RowSteps, row \in Row :
       row.rule \in held[row.rule_id] => HandlerOk(held, Awaiting(step, row))
<1> USE DEF HandlerOk, Awaiting, OtherSteps, RowSteps, StageSteps, Steps, Answers
<1>1. \A item : \A step \in OtherSteps \ {"mode all", "watch"} :
        HandlerOk(held, Awaiting(step, item))
  <2> TAKE item
  <2> TAKE step \in OtherSteps \ {"mode all", "watch"}
  <2> DEFINE c == Awaiting(step, item)
  <2>1. c = [step |-> step, item |-> item, at |-> "sent", body |-> {}, failed |-> FALSE]
    OBVIOUS
  <2> HIDE DEF c
  <2> QED BY <2>1 DEF c
<1>2. HandlerOk(held, Idle) /\ HandlerOk(held, Refresh)
  BY DEF Idle, Refresh
<1>3. /\ \A m \in Modes : HandlerOk(held, Awaiting("mode all", m))
      /\ \A action \in WatchActions : HandlerOk(held, Awaiting("watch", action))
  OBVIOUS
<1>4. \A step \in StageSteps, todo \in Seq(Rules) \ {<<>>} :
        HandlerOk(held, Awaiting(step, todo))
  OBVIOUS
<1>5. \A step \in RowSteps, row \in Row :
        row.rule \in held[row.rule_id] => HandlerOk(held, Awaiting(step, row))
  BY DEF Held
<1> QED BY <1>1, <1>2, <1>3, <1>4, <1>5

LEMMA FinishStep ==
  ASSUME PageInv, NEW h \in Handlers, Finish(h)
  PROVE  PageInv'
<1>0. /\ UNCHANGED device /\ HandlersInv /\ HandlerOk(held, handlers[h])
      /\ rows \subseteq Row /\ Held(held, rows) /\ held' = held
  BY DEF Finish, PageInv, HandlersInv, device, engine
<1>1. ASSUME NEW STATE c, Become(h, c), HandlerOk(held, c), rows' = rows
      PROVE  PageInv'
  BY <1>0, <1>1, PageGoesOn DEF Become
<1>2. ASSUME NEW step \in OtherSteps \ {"mode all", "watch"},
             Become(h, Awaiting(step, NoRule)), rows' = rows
      PROVE  PageInv'
  BY <1>1, <1>2, Waiting
<1>3. ASSUME Become(h, Idle), rows' = rows PROVE PageInv'
  BY <1>1, <1>3, Waiting
<1>4. ASSUME Become(h, Refresh), rows' = rows PROVE PageInv'
  BY <1>1, <1>4, Waiting
<1>5. CASE FinishStatus(h)
  <2>1. CASE Ok(h)
    <3>1. PICK body \in handlers[h].body : rows' = body.rows
      BY <1>5, <2>1 DEF FinishStatus, Show
    <3>2. body \in Status /\ Held(held, body.rows)
      BY <1>0, <1>5 DEF FinishStatus, Done, HandlerOk
    <3>3. rows' \subseteq Row /\ Held(held, rows')
      BY <3>1, <3>2 DEF Status
    <3> QED BY <1>0, <1>5, <3>3, PageGoesOn, Waiting DEF FinishStatus, Become
  <2>2. CASE ~Ok(h)
    BY <1>3, <1>5, <2>2 DEF FinishStatus
  <2> QED BY <2>1, <2>2
<1>6. ASSUME NEW step, NEW range,
             \/ step = "mode" /\ range = "mode by range"
             \/ step = "remove" /\ range = "remove by range",
             NEW which, FinishRow(h, step, range, which)
      PROVE  PageInv'
  <2>1. rows' = rows /\ range \in RowSteps /\ handlers[h].step \in RowSteps
    BY <1>6 DEF FinishRow, RowSteps, Done
  <2>2. HandlerOk(held, Awaiting(range, handlers[h].item))
    BY <1>0, <2>1, RowItem, Waiting
  <2>3. \/ Become(h, Idle) \/ Become(h, Refresh)
        \/ Become(h, Awaiting(range, handlers[h].item))
    BY <1>6 DEF FinishRow
  <2> QED BY <1>1, <1>3, <1>4, <2>1, <2>2, <2>3
<1>7. CASE FinishStage(h)
  BY <1>2, <1>3, <1>7 DEF FinishStage, page, OtherSteps
<1>8. CASE FinishStageRow(h)
  <2> DEFINE todo == Tail(handlers[h].item)
             failed == handlers[h].failed \/ ~Ok(h)
             next == [Awaiting("stage row", todo) EXCEPT !.failed = failed]
  <2>1. handlers[h].item \in Seq(Rules) \ {<<>>} /\ failed \in BOOLEAN /\ rows' = rows
    BY <1>0, <1>8 DEF FinishStageRow, Done, HandlerOk, StageSteps, page
  <2>2. todo \in Seq(Rules)
    BY <2>1
  <2>3. ASSUME todo # <<>> PROVE HandlerOk(held, next)
    <3> HIDE DEF todo, failed
    <3>1. Awaiting("stage row", todo) \in
            [step : {"stage row"}, item : {todo}, at : {"sent"}, body : {{}}, failed : BOOLEAN]
      BY DEF Awaiting
    <3>2. next \in
            [step : {"stage row"}, item : {todo}, at : {"sent"}, body : {{}}, failed : BOOLEAN]
      BY <2>1, <3>1
    <3> HIDE DEF next
    <3> QED BY <2>2, <2>3, <3>2 DEF HandlerOk, Steps, StageSteps, RowSteps, Answers
  <2>4. \/ todo # <<>> /\ Become(h, next)
        \/ Become(h, Refresh) \/ Become(h, Awaiting("commit", NoRule))
    BY <1>8 DEF FinishStageRow
  <2> HIDE DEF next, todo, failed
  <2> QED BY <1>1, <1>2, <1>4, <2>1, <2>3, <2>4 DEF OtherSteps
<1>9. CASE FinishAction(h)
  BY <1>2, <1>3, <1>4, <1>9 DEF FinishAction, page, OtherSteps
<1>10. CASE FinishModeAll(h)
  BY <1>3, <1>4, <1>10 DEF FinishModeAll
<1>11. CASE FinishUpload(h)
  <2>1. CASE Ok(h)
    <3> DEFINE i == Min(IdleHandlers)
    <3>1. /\ i \in Handlers /\ rows' = rows
          /\ handlers' = [handlers EXCEPT ![h] = Awaiting("observe", NoRule), ![i] = Refresh]
      BY <1>11, <2>1, IdleHandler DEF FinishUpload, AfterUpload
    <3> HIDE DEF i
    <3>2. \A g \in Handlers : handlers'[g] \in {Awaiting("observe", NoRule), Refresh, handlers[g]}
      BY <1>0, <3>1 DEF HandlersInv
    <3>3. \A g \in Handlers : HandlerOk(held', handlers'[g])
      <4>1. HandlerOk(held, Awaiting("observe", NoRule)) /\ HandlerOk(held, Refresh)
        BY Waiting DEF OtherSteps
      <4>2. \A g \in Handlers : HandlerOk(held, handlers[g])
        BY <1>0 DEF HandlersInv
      <4> QED BY <1>0, <3>2, <4>1, <4>2
    <3>4. HandlersInv'
      BY <1>0, <3>1, <3>3 DEF HandlersInv
    <3> QED BY <1>0, <3>1, <3>4, DeviceStands
  <2>2. CASE ~Ok(h)
    BY <1>3, <1>11, <2>2 DEF FinishUpload
  <2> QED BY <2>1, <2>2
<1>12. CASE FinishUnload(h)
  BY <1>4, <1>12 DEF FinishUnload
<1>13. CASE FinishObserve(h)
  BY <1>3, <1>13 DEF FinishObserve, page
<1>14. CASE FinishWatch(h)
  BY <1>3, <1>4, <1>14 DEF FinishWatch
<1>15. \A which : \/ FinishRow(h, "mode", "mode by range", which)
                  \/ FinishRow(h, "remove", "remove by range", which)
         => PageInv'
  BY <1>6
<1> QED
  BY <1>5, <1>7, <1>8, <1>9, <1>10, <1>11, <1>12, <1>13, <1>14, <1>15 DEF Finish

LEMMA ClickStep == PageInv /\ Click => PageInv'
<1> SUFFICES ASSUME PageInv, Click PROVE PageInv'
  OBVIOUS
<1> DEFINE i == Min(IdleHandlers)
<1>0. /\ UNCHANGED device /\ i \in Handlers
      /\ rows \subseteq Row /\ Held(held, rows)
  BY IdleHandler DEF Click, PageInv
<1> HIDE DEF i
<1>1. ASSUME NEW step, NEW STATE item, Begin(step, item),
             HandlerOk(held, Awaiting(step, item)), rows' = rows
      PROVE  PageInv'
  BY <1>0, <1>1, PageGoesOn DEF Begin, Become, i
<1>2. ASSUME NEW row \in rows, NEW which, ClickRow(row, which) PROVE PageInv'
  <2>1. row \in Row /\ row.rule \in held[row.rule_id] /\ rows' = rows
    BY <1>0, <1>2 DEF Held, ClickRow
  <2>2. ASSUME NEW m \in Modes, Begin("mode", [row EXCEPT !.mode = m]) PROVE PageInv'
    <3>1. /\ [row EXCEPT !.mode = m] \in Row
          /\ [row EXCEPT !.mode = m].rule = row.rule
          /\ [row EXCEPT !.mode = m].rule_id = row.rule_id
      BY <2>1 DEF Row
    <3>2. HandlerOk(held, Awaiting("mode", [row EXCEPT !.mode = m]))
      BY <2>1, <3>1, Waiting DEF RowSteps
    <3> QED BY <1>1, <2>1, <2>2, <3>2
  <2>3. ASSUME Begin("remove", row) PROVE PageInv'
    BY <1>1, <2>1, <2>3, Waiting DEF RowSteps
  <2> QED BY <1>2, <2>2, <2>3 DEF ClickRow
<1>3. CASE ClickEditor
  <2>1. rows' = rows
    BY <1>3 DEF ClickEditor, page
  <2>2. ASSUME NEW rule \in Rules, Begin("stage", <<rule>>) PROVE PageInv'
    <3>1. <<rule>> \in Seq(Rules) \ {<<>>}
      OBVIOUS
    <3> QED BY <1>1, <2>1, <2>2, <3>1, Waiting DEF StageSteps
  <2>3. ASSUME NEW todo \in WatchRows, Begin("stage row", todo) PROVE PageInv'
    BY <1>1, <2>1, <2>3, Waiting, ScopePageAssumption DEF StageSteps
  <2>4. ASSUME NEW step \in {"revert", "clear"}, Begin(step, NoRule) PROVE PageInv'
    BY <1>1, <2>1, <2>4, Waiting DEF OtherSteps
  <2> QED BY <1>3, <2>2, <2>3, <2>4 DEF ClickEditor
<1>4. ASSUME NEW m \in Modes, ClickModeAll(m) PROVE PageInv'
  BY <1>1, <1>4, Waiting DEF ClickModeAll
<1>5. CASE ClickUpload
  BY <1>1, <1>5, Waiting DEF ClickUpload, OtherSteps
<1>6. CASE ClickUnload
  BY <1>1, <1>6, Waiting DEF ClickUnload, OtherSteps, page
<1>7. ASSUME NEW action \in WatchActions, ClickWatch(action) PROVE PageInv'
  BY <1>1, <1>7, Waiting DEF ClickWatch
<1> QED BY <1>2, <1>3, <1>4, <1>5, <1>6, <1>7 DEF Click, WatchActions

LEMMA PageInitially == Init => PageInv
<1> SUFFICES ASSUME Init PROVE PageInv
  OBVIOUS
<1>1. active \in ListType /\ staged \in ListType
  BY FoundAssumption DEF Init, ListType, NoRules
<1>2. held = [s \in Slots |-> {active[s]} \ {NoRule}]
  BY DEF Init
<1>3. held \in [Slots -> SUBSET Rules] /\ \A s \in Slots : IsFiniteSet(held[s])
  <2>1. \A s \in Slots : IsFiniteSet({active[s]} \ {NoRule})
    <3> TAKE s \in Slots
    <3>1. IsFiniteSet({active[s]}) /\ {active[s]} \ {NoRule} \in SUBSET {active[s]}
      BY FS_Singleton
    <3> QED BY <3>1, FS_Subset
  <2> QED BY <1>1, <1>2, <2>1 DEF ListType
<1>4. DeviceType
  BY <1>1, <1>3 DEF Init, DeviceType, EngineType, Modes, Phases, NoRules, ListType
<1>5. HeldInv
  BY <1>1, <1>2 DEF Init, HeldInv, NoRules
<1>6. HandlersInv
  <2>1. handlers = [h \in Handlers |-> handlers[h]]
    BY DEF Init
  <2>2. \A h \in Handlers : handlers[h] \in {Awaiting("observe", NoRule), Refresh, Idle}
    BY DEF Init
  <2> QED BY <2>1, <2>2, Waiting DEF HandlersInv, OtherSteps
<1>7. MistakenInv /\ ArmedInv
  BY DEF Init, MistakenInv, ArmedInv
<1> QED BY <1>4, <1>5, <1>6, <1>7 DEF Init, PageInv, Held

LEMMA PageStep == PageInv /\ [Next]_vars => PageInv'
<1> SUFFICES ASSUME PageInv, [Next]_vars PROVE PageInv'
  OBVIOUS
<1>0. /\ EngineType /\ HandlersInv /\ rows \subseteq Row /\ Held(held, rows)
      /\ (UNCHANGED device => HeldGrows)
  BY DEF PageInv, DeviceType, EngineType, HeldGrows, device, engine
<1>1. CASE UNCHANGED vars
  BY <1>0, <1>1, HandlersStay, DeviceStands DEF vars, page
<1>2. CASE Click
  BY <1>2, ClickStep
<1>3. CASE Poll
  BY <1>0, <1>3, IdleHandler, Waiting, PageGoesOn DEF Poll, Become, page
<1>4. ASSUME NEW h \in Handlers, Serve(h) PROVE PageInv'
  BY <1>4, ServeStep
<1>5. ASSUME NEW h \in Handlers, Lose(h) PROVE PageInv'
  BY <1>0, <1>5, Answered, DeviceStands DEF Lose, page
<1>6. ASSUME NEW h \in Handlers, Finish(h) PROVE PageInv'
  BY <1>6, FinishStep
<1> QED BY <1>1, <1>2, <1>3, <1>4, <1>5, <1>6 DEF Next

(* A row's buttons act on the rule that the row shows, however old the     *)
(* answer it was made from, unless the row's slot has been given to two    *)
(* rules (data/signalscope.js, postRuleMutationMode, postRemoveMutation);  *)
(* and a rule in force is armed only if that was asked for it, unless a    *)
(* request for another came when it was in the slot already.               *)
THEOREM RowsActOnTheirRules == Spec => []RowActsOnItsRule
<1>1. PageInv => RowActsOnItsRule
  BY DEF PageInv, MistakenInv, ArmedInv, RowActsOnItsRule
<1> QED BY <1>1, PageInitially, PageStep, PTL DEF Spec

(* Requests, answers and rows keep their types; in particular a row is of  *)
(* a slot and of a rule that the slot has been given.                      *)
THEOREM DialogueTypes == Spec => [](DeviceType /\ HandlersInv /\ Held(held, rows))
<1>1. PageInv => DeviceType /\ HandlersInv /\ Held(held, rows)
  BY DEF PageInv
<1> QED BY <1>1, PageInitially, PageStep, PTL DEF Spec

-----------------------------------------------------------------------------
(* Observation.  A database that is loaded and not observed is about to    *)
(* be: the handler that has uploaded it has yet to ask, or has asked.      *)
WillObserve(h) == At(h, "observe", "sent") \/ At(h, "upload", "ok")
ObservedInv ==
  /\ faults \in Nat
  /\ faults = 0 /\ dbc => observing \/ \E h \in Handlers : WillObserve(h)

LEMMA ObservedStep == PageInv /\ ObservedInv /\ [Next]_vars => ObservedInv'
<1> SUFFICES ASSUME PageInv, ObservedInv, [Next]_vars PROVE ObservedInv'
  OBVIOUS
<1>0. HandlersInv
  BY DEF PageInv
<1>1. CASE UNCHANGED vars
  BY <1>1 DEF vars, device, ObservedInv, WillObserve, At
<1>2. ASSUME NEW i \in Handlers, handlers[i] = Idle, NEW STATE c,
             handlers' = [handlers EXCEPT ![i] = c],
             UNCHANGED <<dbc, observing, faults>>
      PROVE  ObservedInv'
  <2>1. \A h \in Handlers : WillObserve(h) => h # i
    BY <1>2 DEF WillObserve, At, Idle
  <2>2. \A h \in Handlers : h # i => handlers'[h] = handlers[h]
    BY <1>0, <1>2 DEF HandlersInv
  <2> QED BY <1>2, <2>1, <2>2 DEF ObservedInv, WillObserve, At
<1>3. CASE Click
  <2>1. PICK c : handlers' = [handlers EXCEPT ![Min(IdleHandlers)] = c]
    BY <1>3 DEF Click, ClickRow, ClickEditor, ClickModeAll, ClickUpload, ClickUnload,
       ClickWatch, Begin, Become
  <2> QED BY <1>2, <1>3, <2>1, IdleHandler DEF Click, device
<1>4. CASE Poll
  BY <1>2, <1>4, IdleHandler DEF Poll, Become, device
<1>5. ASSUME NEW h \in Handlers, Serve(h) PROVE ObservedInv'
  <2>0. faults' = faults /\ \A g \in Handlers : g # h => handlers'[g] = handlers[g]
    BY <1>0, <1>5 DEF Serve, ServeStatus, ServeStage, ServeAction, ServeMode, ServeModeAll, ServeRemove,
       ServeDbc, Refuse, ServeObserve, ServeWatch, Answer, AnswerWith, HandlersInv
  <2>1. CASE ServeDbc(h)
    <3>1. CASE handlers[h].step = "upload"
      <4>1. At(h, "upload", "ok")'
        BY <1>0, <2>1, <3>1 DEF ServeDbc, Answer, At, HandlersInv, HandlerOk
      <4> QED BY <2>0, <4>1 DEF ObservedInv, WillObserve
    <3>2. CASE handlers[h].step # "upload"
      BY <2>0, <2>1, <3>2 DEF ServeDbc, ObservedInv
    <3> QED BY <3>1, <3>2
  <2>2. CASE ServeObserve(h)
    BY <2>0, <2>2 DEF ServeObserve, ObservedInv
  <2>3. CASE ~ServeDbc(h) /\ ~ServeObserve(h)
    <3>1. UNCHANGED <<dbc, observing>> /\ ~WillObserve(h)
      BY <1>5, <2>3 DEF Serve, ServeStatus, ServeStage, ServeAction, ServeMode, ServeModeAll, ServeRemove,
         Refuse, ServeWatch, device, WillObserve, At
    <3> QED BY <2>0, <3>1 DEF ObservedInv, WillObserve, At
  <2> QED BY <2>1, <2>2, <2>3
<1>6. ASSUME NEW h \in Handlers, Lose(h) PROVE ObservedInv'
  BY <1>6 DEF Lose, ObservedInv
<1>7. ASSUME NEW h \in Handlers, Finish(h) PROVE ObservedInv'
  <2>0. UNCHANGED <<dbc, observing, faults>>
    BY <1>7 DEF Finish, device
  <2>1. CASE At(h, "upload", "ok")
    <3>1. /\ IdleHandlers # {}
          /\ handlers' = [handlers EXCEPT ![h] = Awaiting("observe", NoRule),
                                         ![Min(IdleHandlers)] = Refresh]
      BY <1>7, <2>1 DEF Finish, FinishStatus, FinishRow, FinishStage, FinishStageRow,
         FinishAction, FinishModeAll, FinishUpload, FinishUnload, FinishObserve,
         FinishWatch, Done, At, Ok, AfterUpload
    <3>2. Min(IdleHandlers) # h
      BY <2>1, <3>1, IdleHandler DEF At, Idle
    <3>3. At(h, "observe", "sent")'
      BY <1>0, <3>1, <3>2 DEF HandlersInv, At, Awaiting
    <3> QED BY <2>0, <3>3 DEF ObservedInv, WillObserve
  <2>2. CASE ~At(h, "upload", "ok")
    <3>1. ~WillObserve(h)
      BY <1>7, <2>2 DEF WillObserve, Finish, FinishStatus, FinishRow, FinishStage,
         FinishStageRow, FinishAction, FinishModeAll, FinishUpload, FinishUnload,
         FinishObserve, FinishWatch, Done, At
    <3>2. \E c : Become(h, c)
      <4>1. CASE FinishUpload(h)
        BY <2>2, <4>1 DEF FinishUpload, Done, At, Ok
      <4>2. \A step, range, which :
              FinishRow(h, step, range, which) => \E c : Become(h, c)
        BY DEF FinishRow
      <4>3. FinishStatus(h) \/ FinishStage(h) \/ FinishObserve(h) => \E c : Become(h, c)
        BY DEF FinishStatus, FinishStage, FinishObserve
      <4>4. FinishStageRow(h) => \E c : Become(h, c)
        BY DEF FinishStageRow
      <4>5. FinishAction(h) \/ FinishModeAll(h) => \E c : Become(h, c)
        BY DEF FinishAction, FinishModeAll
      <4>6. FinishUnload(h) \/ FinishWatch(h) => \E c : Become(h, c)
        BY DEF FinishUnload, FinishWatch
      <4> QED BY <1>7, <4>1, <4>2, <4>3, <4>4, <4>5, <4>6 DEF Finish
    <3>3. \A g \in Handlers : g # h => handlers'[g] = handlers[g]
      BY <1>0, <3>2 DEF HandlersInv, Become
    <3> QED BY <2>0, <3>1, <3>3 DEF ObservedInv, WillObserve, At
  <2> QED BY <2>1, <2>2
<1> QED BY <1>1, <1>3, <1>4, <1>5, <1>6, <1>7 DEF Next

(* A database that was loaded from the page, or that was there when the    *)
(* page was opened, is decoded once nothing but status requests is under   *)
(* way, if no request was lost (data/signalscope.js:1912 and :2187).        *)
THEOREM LoadedIsDecoded == Spec => []LoadedIsObserved
<1>1. Init => ObservedInv
  <2> SUFFICES ASSUME Init PROVE faults \in Nat /\ \E h \in Handlers : WillObserve(h)
    BY DEF ObservedInv
  <2>1. 1 \in Handlers
    BY ScopePageAssumption DEF Handlers
  <2> QED BY <2>1 DEF Init, WillObserve, At, Awaiting
<1>2. ObservedInv => LoadedIsObserved
  BY DEF ObservedInv, LoadedIsObserved, Settled, WillObserve, At
<1> QED BY <1>1, <1>2, PageInitially, PageStep, ObservedStep, PTL DEF Spec
=============================================================================
