---------------------------- MODULE RulePathProofs ----------------------------
(***************************************************************************)
(* Proofs about RulePath, for any number of slots and any editions: a      *)
(* frame sees one table, and an armed single shot fires at most once.      *)
(***************************************************************************)
EXTENDS RulePath, TLAPS

(* The table that a frame works on stands still: while nothing was swapped *)
(* since the frame began it works on the active table, of which the writer *)
(* of the inactive one keeps away, and once something was, no writer       *)
(* starts before the frame is over.                                        *)
Writing == ui \in {"fill", "disarm", "swap"}
Working == can \in {"apply", "spend"}
TableInv ==
  /\ staged \in Rules /\ tables \in [0 .. 1 -> Rules]
  /\ index \in 0 .. 1 /\ held \in 0 .. 1
  /\ Writing => ~late
  /\ Working => /\ snapshot = tables[held]
                /\ can_todo \subseteq Held(snapshot)
                /\ ~late => held = index
  /\ can \in {"idle", "check", "load"} => applied = {}
  /\ FrameSeesOneTable

(* A single shot that a mode promises has been armed and not fired, but    *)
(* for the one that the CAN task is about to spend.                        *)
ShotInv ==
  /\ mode \in [Slots -> Modes]
  /\ ui_mode \in Modes
  /\ \A s \in Slots : mode[s] = "SingleShot" => s \in armed \cup shot
  /\ can # "spend" => shot = {}
  /\ FiresOncePerArming

-----------------------------------------------------------------------------
LEMMA TableInit == Init => TableInv
BY DEF Init, TableInv, Rules, NoRules, Working, Writing, FrameSeesOneTable

(* What changes nothing but the UI task's own state and modes.             *)
LEMMA TableUntouched ==
  ASSUME TableInv, UNCHANGED <<tables, index, canVars, late>>, staged' \in Rules,
         Writing' => Writing \/ ~late
  PROVE  TableInv'
BY DEF TableInv, Working, Writing, FrameSeesOneTable, canVars, Rules, Held

(* Any number of stores into the table that is not active.                 *)
LEMMA InactiveWritten ==
  ASSUME TableInv, ~late, NEW rules, rules \in Rules,
         tables' = [tables EXCEPT ![1 - index] = rules],
         staged' \in Rules, UNCHANGED <<index, canVars, late>>
  PROVE  TableInv'
<1>1. 1 - index \in 0 .. 1 /\ 1 - index # index
  BY DEF TableInv
<1>2. tables' \in [0 .. 1 -> Rules] /\ tables'[index] = tables[index]
  BY <1>1 DEF TableInv
<1> QED
  BY <1>2 DEF TableInv, Working, Writing, FrameSeesOneTable, canVars, Held

LEMMA TableStep == TableInv /\ [Next]_vars => TableInv'
<1> SUFFICES ASSUME TableInv, [Next]_vars PROVE TableInv'
  OBVIOUS
<1> NoRules \in Rules
  BY DEF NoRules, Rules
<1> USE DEF BeginFill, ClearInactive, Writing
<1>1. CASE UiRequest
  <2>1. ASSUME NEW s \in Slots, NEW e \in Editions, NEW enabled \in StageEnabled,
               Stage(s, e, enabled)
        PROVE  TableInv'
    <3>1. staged' \in Rules
      BY <2>1 DEF Stage, TableInv, Rules
    <3> QED
      BY <2>1, <3>1, TableUntouched DEF Stage, uiVars
  <2>2. ASSUME NEW s \in Slots, RemoveRule(s) PROVE TableInv'
    <3>1. staged' \in Rules
      BY <2>2 DEF RemoveRule, TableInv, Rules
    <3> QED
      BY <2>2, <3>1, InactiveWritten DEF RemoveRule
  <2>3. ASSUME NEW s \in Slots, NEW m \in ModeCommands, SetRuleMode(s, m)
        PROVE  TableInv'
    BY <2>3, TableUntouched DEF SetRuleMode, uiVars, TableInv
  <2>4. ASSUME NEW m \in ModeCommands, SetAllRulesMode(m) PROVE TableInv'
    BY <2>4, TableUntouched DEF SetAllRulesMode, TableInv
  <2>5. CASE ClearStaging
    BY <2>5, TableUntouched DEF ClearStaging, uiVars
  <2>6. CASE ApplyCommit
    BY <2>6, InactiveWritten DEF ApplyCommit, TableInv
  <2>7. CASE ClearRules
    BY <2>7, TableUntouched DEF ClearRules
  <2>8. CASE RevertStaging
    BY <2>8, TableUntouched DEF RevertStaging, uiVars, TableInv
  <2> QED
    BY <1>1, <2>1, <2>2, <2>3, <2>4, <2>5, <2>6, <2>7, <2>8 DEF UiRequest
<1>2. CASE UiStep
  <2>1. ASSUME NEW s \in Slots, StoreNextMode(s) PROVE TableInv'
    BY <2>1, TableUntouched DEF StoreNextMode, TableInv
  <2>2. ASSUME NEW s \in Slots, FillRule(s) PROVE TableInv'
    <3> DEFINE rules == [tables[1 - index] EXCEPT ![s] = staged[s]]
    <3>1. tables[1 - index] \in Rules
      BY DEF TableInv
    <3>2. rules \in Rules
      BY <3>1 DEF TableInv, Rules
    <3>3. tables' = [tables EXCEPT ![1 - index] = rules]
      BY <2>2, <3>1 DEF FillRule, TableInv, Rules
    <3>4. ~late /\ staged' \in Rules /\ UNCHANGED <<index, canVars, late>>
      BY <2>2 DEF FillRule, TableInv
    <3> HIDE DEF rules
    <3> QED
      BY <3>2, <3>3, <3>4, InactiveWritten
  <2>3. ASSUME NEW s \in Slots, DisarmSlot(s) PROVE TableInv'
    BY <2>3, TableUntouched DEF DisarmSlot, TableInv
  <2>4. CASE EndModes
    <3>1. CASE ui_then = "idle"
      BY <2>4, <3>1, TableUntouched DEF EndModes, TableInv
    <3>2. CASE ui_then # "idle"
      BY <2>4, <3>2, InactiveWritten DEF EndModes, TableInv
    <3> QED
      BY <3>1, <3>2
  <2>5. CASE EndFill
    BY <2>5, TableUntouched DEF EndFill, TableInv, shared
  <2>6. CASE EndDisarm
    BY <2>6, TableUntouched DEF EndDisarm, TableInv, shared
  <2>7. CASE SwapActiveTable
    <3>1. index' \in 0 .. 1 /\ UNCHANGED <<staged, tables, canVars>> /\ ~Writing'
      BY <2>7 DEF SwapActiveTable, Other, TableInv
    <3>2. Working => late'
      BY <2>7 DEF SwapActiveTable, Working
    <3> QED
      BY <3>1, <3>2 DEF TableInv, Working, FrameSeesOneTable, canVars, Held
  <2> QED
    BY <1>2, <2>1, <2>2, <2>3, <2>4, <2>5, <2>6, <2>7 DEF UiStep
<1>3. CASE CanTask
  <2> UNCHANGED <<staged, tables, index, uiVars>>
    BY <1>3 DEF CanTask, StartFrame, CheckRule, EndCheck, LoadTable, ApplyRule,
        SpendShot, EndApply, EndFrame, shared
  <2> USE DEF TableInv, Working, FrameSeesOneTable, uiVars
  <2>1. CASE StartFrame
    BY <2>1 DEF StartFrame
  <2>2. ASSUME NEW s \in Slots, CheckRule(s) PROVE TableInv'
    BY <2>2 DEF CheckRule
  <2>3. ASSUME NEW s \in Slots, ApplyRule(s) PROVE TableInv'
    <3>1. s \in Held(snapshot) /\ snapshot = tables[held]
      BY <2>3 DEF ApplyRule
    <3>2. applied' \subseteq applied \cup {<<s, snapshot[s]>>}
      BY <2>3, <3>1 DEF ApplyRule, RuleHeld
    <3>3. FrameSeesOneTable'
      BY <2>3, <3>1, <3>2 DEF ApplyRule, Held
    <3> QED
      BY <2>3, <3>1, <3>3 DEF ApplyRule
  <2>4. CASE EndCheck
    BY <2>4 DEF EndCheck
  <2>5. CASE LoadTable
    BY <2>5 DEF LoadTable
  <2>6. CASE SpendShot
    BY <2>6 DEF SpendShot
  <2>7. CASE EndApply
    BY <2>7 DEF EndApply
  <2>8. CASE EndFrame
    BY <2>8 DEF EndFrame
  <2> QED
    BY <1>3, <2>1, <2>2, <2>3, <2>4, <2>5, <2>6, <2>7, <2>8 DEF CanTask
<1>4. CASE UNCHANGED vars
  BY <1>4, TableUntouched DEF vars, shared, uiVars, TableInv
<1> QED
  BY <1>1, <1>2, <1>3, <1>4 DEF Next

-----------------------------------------------------------------------------
LEMMA ShotInit == Init => ShotInv
BY DEF Init, ShotInv, Modes, FiresOncePerArming

(* A client's store arms what it says, also in the middle of spending.     *)
LEMMA StoreKeepsShots ==
  ASSUME ShotInv, NEW s \in Slots, NEW m \in Modes, Store(s, m),
         ui_mode' \in Modes, UNCHANGED canVars
  PROVE  ShotInv'
BY DEF ShotInv, Store, canVars, FiresOncePerArming

LEMMA ShotStep == ShotInv /\ [Next]_vars => ShotInv'
<1> SUFFICES ASSUME ShotInv, [Next]_vars PROVE ShotInv'
  OBVIOUS
<1> "Disabled" \in Modes /\ "Enabled" \in Modes /\ ModeCommands \subseteq Modes
  BY PathAssumption DEF Modes
<1>1. ASSUME UNCHANGED <<mode, armed, canVars>>, ui_mode' \in Modes PROVE ShotInv'
  BY <1>1 DEF ShotInv, canVars, FiresOncePerArming
<1> ui_mode \in Modes
  BY DEF ShotInv
<1>2. CASE UiRequest
  <2>1. ASSUME NEW s \in Slots, NEW e \in Editions, NEW enabled \in StageEnabled,
               Stage(s, e, enabled)
        PROVE  ShotInv'
    BY <2>1, StoreKeepsShots DEF Stage, uiVars
  <2>2. ASSUME NEW s \in Slots, RemoveRule(s) PROVE ShotInv'
    BY <2>2, StoreKeepsShots DEF RemoveRule
  <2>3. ASSUME NEW s \in Slots, NEW m \in ModeCommands, SetRuleMode(s, m)
        PROVE  ShotInv'
    BY <2>3, StoreKeepsShots DEF SetRuleMode, uiVars
  <2>4. CASE \/ \E m \in ModeCommands : SetAllRulesMode(m)
             \/ ClearStaging \/ RevertStaging \/ ApplyCommit \/ ClearRules
    BY <1>1, <2>4
       DEF SetAllRulesMode, ClearStaging, RevertStaging, ApplyCommit, ClearRules, uiVars
  <2> QED
    BY <1>2, <2>1, <2>2, <2>3, <2>4 DEF UiRequest
<1>3. CASE UiStep
  <2>1. ASSUME NEW s \in Slots, StoreNextMode(s) PROVE ShotInv'
    BY <2>1, StoreKeepsShots DEF StoreNextMode
  <2>2. ASSUME NEW s \in Slots, DisarmSlot(s) PROVE ShotInv'
    BY <2>2 DEF DisarmSlot, ShotInv, canVars, FiresOncePerArming
  <2>3. CASE \/ \E s \in Slots : FillRule(s)
             \/ EndModes \/ EndFill \/ EndDisarm \/ SwapActiveTable
    BY <1>1, <2>3 DEF FillRule, EndModes, EndFill, EndDisarm, SwapActiveTable, shared
  <2> QED
    BY <1>3, <2>1, <2>2, <2>3 DEF UiStep
<1>4. CASE CanTask
  <2> USE DEF ShotInv, FiresOncePerArming, shared, uiVars
  <2>1. ASSUME NEW s \in Slots, ApplyRule(s) PROVE ShotInv'
    <3>1. shot = {} /\ ~misfired
      BY <2>1 DEF ApplyRule
    <3>2. CASE mode[s] = "SingleShot"
      BY <2>1, <3>1, <3>2 DEF ApplyRule
    <3>3. CASE mode[s] # "SingleShot"
      BY <2>1, <3>1, <3>3 DEF ApplyRule
    <3> QED
      BY <3>2, <3>3
  <2>2. CASE SpendShot
    BY <2>2 DEF SpendShot, Spent, Modes
  <2>3. CASE \/ StartFrame \/ \E s \in Slots : CheckRule(s)
             \/ EndCheck \/ LoadTable \/ EndApply \/ EndFrame
    BY <2>3 DEF StartFrame, CheckRule, EndCheck, LoadTable, EndApply, EndFrame
  <2> QED
    BY <1>4, <2>1, <2>2, <2>3 DEF CanTask
<1>5. CASE UNCHANGED vars
  BY <1>1, <1>5 DEF vars, shared, uiVars
<1> QED
  BY <1>2, <1>3, <1>4, <1>5 DEF Next

-----------------------------------------------------------------------------
(* A commit that runs while a frame is processed never mixes two rule sets *)
(* (MutationEngine::applyFrameMutations, swapActiveTable), given that two  *)
(* swaps are further apart than a frame takes.                             *)
THEOREM FramesSeeOneTable == Spec => []FrameSeesOneTable
<1>1. TableInv => FrameSeesOneTable
  BY DEF TableInv
<1> QED
  BY <1>1, TableInit, TableStep, PTL DEF Spec

(* However loading, applying and spending a single shot interleaves with   *)
(* requests, it fires at most once for each time it was armed.             *)
THEOREM ShotsFireOnce == Spec => []FiresOncePerArming
<1>1. ShotInv => FiresOncePerArming
  BY DEF ShotInv
<1> QED
  BY <1>1, ShotInit, ShotStep, PTL DEF Spec
=============================================================================
