------------------------------ MODULE RulePath ------------------------------
(***************************************************************************)
(* The rules engine between its two tasks.  The UI task stages, commits,   *)
(* removes and sets modes; the CAN task looks rules up for a frame and     *)
(* applies them.  There is no lock: they share the two tables, the pointer *)
(* to the active one, and the mode of each slot, and every load and store  *)
(* of those is a step.  One frame key, for which every rule is a match.    *)
(*                                                                         *)
(* A rule is a slot and an edition; restaging a slot gives it another      *)
(* edition, so that a mixture of two commits is visible.                   *)
(*                                                                         *)
(* A definition named ...Mutant is a faulty version of the one after it,   *)
(* kept to show that a property notices the fault; nothing uses it.        *)
(***************************************************************************)
EXTENDS Integers, FiniteSets

CONSTANTS
  MaxRules,       \* kMaxRules
  Editions,       \* what a slot may hold
  Empty,          \* a slot that holds no rule
  StageEnabled,   \* the values of "enabled" that clients stage with
  ModeCommands    \* the modes that clients set

Slots == 0 .. MaxRules - 1
Modes == {"Disabled", "Enabled", "SingleShot"}

ASSUME PathAssumption ==
  /\ MaxRules \in Nat \ {0}
  /\ Empty \notin Editions
  /\ StageEnabled \subseteq BOOLEAN
  /\ ModeCommands \subseteq Modes

Rules == [Slots -> Editions \cup {Empty}]
NoRules == [s \in Slots |-> Empty]
Held(rules) == {s \in Slots : rules[s] # Empty}

VARIABLES
  \* shared
  staged,      \* staged_, UI task only
  tables,      \* tables_[2]
  index,       \* active_table_
  mode,        \* runtime_state_[].mode
  \* the UI task
  ui,          \* where it is: "idle", "modes", "fill", "disarm" or "swap"
  ui_todo,     \* slots its current loop has still to visit
  ui_mode,     \* the mode that its loop over modes stores
  ui_then,     \* what follows the loop over modes: "idle" or "fill"
  \* the CAN task
  can,         \* "idle", "check", "load", "apply", "spend" or "done"
  held,        \* index of the table the CAN task read from the pointer
  can_todo,    \* slots its current loop has still to visit
  shot,        \* the slot, if any, whose single shot it is about to spend
  \* history
  applied,     \* <<slot, edition>> applied to the current frame
  snapshot,    \* what the held table contained when the pointer was loaded
  late,        \* a swap happened while the current frame was under way
  armed,       \* slots armed with a single shot that has not fired yet
  misfired     \* a single shot was applied that was not armed

shared == <<staged, tables, index, mode>>
uiVars == <<ui, ui_todo, ui_mode, ui_then>>
canVars == <<can, held, can_todo, shot, applied, snapshot, misfired>>
vars == <<shared, uiVars, canVars, late, armed>>

-----------------------------------------------------------------------------
Init ==
  /\ staged = NoRules /\ tables = [i \in 0 .. 1 |-> NoRules]
  /\ index = 0 /\ mode = [s \in Slots |-> "Disabled"]
  /\ ui = "idle" /\ ui_todo = {} /\ ui_mode = "Disabled" /\ ui_then = "idle"
  /\ can = "idle" /\ held = 0 /\ can_todo = {} /\ shot = {}
  /\ applied = {} /\ snapshot = NoRules /\ late = FALSE
  /\ armed = {} /\ misfired = FALSE

(* One store into runtime_state_[s].mode by a client's command.            *)
Store(s, m) ==
  /\ mode' = [mode EXCEPT ![s] = m]
  /\ armed' = IF m = "SingleShot" THEN armed \cup {s} ELSE armed \ {s}

(* Starting to write the inactive table.  HTTP requests are at least 5 ms  *)
(* apart (main.cpp:874-879) and a frame takes microseconds, so a frame     *)
(* that was under way at the last swap is over: the timing assumption of   *)
(* the double buffer, stated as a guard.                                   *)
BeginFill == ~late /\ ui' = "fill" /\ ui_todo' = Slots

ClearInactive == tables' = [tables EXCEPT ![1 - index] = NoRules]

(* stageRule: a staged slot is rewritten, or the lowest free one is taken. *)
Stage(s, edition, enabled) ==
  /\ ui = "idle"
  /\ staged[s] = Empty => \A t \in Slots : t < s => staged[t] # Empty
  /\ staged' = [staged EXCEPT ![s] = edition]
  /\ Store(s, IF enabled THEN "Enabled" ELSE "Disabled")
  /\ UNCHANGED <<tables, index, uiVars, canVars, late>>

ClearStaging ==
  /\ ui = "idle"
  /\ staged' = NoRules
  /\ UNCHANGED <<tables, index, mode, uiVars, canVars, late, armed>>

(* A revert, and the removal of a rule that the active table lacks.        *)
RevertStaging ==
  /\ ui = "idle"
  /\ staged' = tables[index]
  /\ UNCHANGED <<tables, index, mode, uiVars, canVars, late, armed>>

ApplyCommit ==
  /\ ui = "idle"
  /\ BeginFill /\ ClearInactive
  /\ UNCHANGED <<staged, index, mode, ui_mode, ui_then, canVars, late, armed>>

(* removeRule: staging becomes the active rules without this one, and the  *)
(* slot's mode is reset before the commit starts.                          *)
RemoveRule(s) ==
  /\ ui = "idle"
  /\ tables[index][s] # Empty
  /\ staged' = [tables[index] EXCEPT ![s] = Empty]
  /\ Store(s, "Disabled")
  /\ BeginFill /\ ClearInactive
  /\ UNCHANGED <<index, ui_mode, ui_then, canVars, late>>

ClearRules ==
  /\ ui = "idle"
  /\ staged' = NoRules
  /\ ui' = "modes" /\ ui_todo' = Slots
  /\ ui_mode' = "Disabled" /\ ui_then' = "fill"
  /\ UNCHANGED <<tables, index, mode, canVars, late, armed>>

SetRuleMode(s, m) ==
  /\ ui = "idle"
  /\ Store(s, m)
  /\ UNCHANGED <<staged, tables, index, uiVars, canVars, late>>

SetAllRulesMode(m) ==
  /\ ui = "idle"
  /\ ui' = "modes" /\ ui_todo' = Held(tables[index])
  /\ ui_mode' = m /\ ui_then' = "idle"
  /\ UNCHANGED <<staged, tables, index, mode, canVars, late, armed>>

(* The loop of setAllRulesMode, and the one of clearRules.                 *)
StoreNextMode(s) ==
  /\ ui = "modes" /\ s \in ui_todo
  /\ Store(s, ui_mode)
  /\ ui_todo' = ui_todo \ {s}
  /\ UNCHANGED <<staged, tables, index, ui, ui_mode, ui_then, canVars, late>>

EndModes ==
  /\ ui = "modes" /\ ui_todo = {}
  /\ IF ui_then = "idle"
     THEN ui' = "idle" /\ UNCHANGED <<tables, ui_todo>>
     ELSE BeginFill /\ ClearInactive
  /\ ui_mode' = "Disabled" /\ ui_then' = "idle"
  /\ UNCHANGED <<staged, index, mode, canVars, late, armed>>

FillRule(s) ==
  /\ ui = "fill" /\ s \in ui_todo
  /\ tables' = [tables EXCEPT ![1 - index][s] = staged[s]]
  /\ ui_todo' = ui_todo \ {s}
  /\ UNCHANGED <<staged, index, mode, ui, ui_mode, ui_then, canVars, late,
                 armed>>

EndFill ==
  /\ ui = "fill" /\ ui_todo = {}
  /\ ui' = "disarm" /\ ui_todo' = Slots \ Held(staged)
  /\ UNCHANGED <<shared, ui_mode, ui_then, canVars, late, armed>>

DisarmSlot(s) ==
  /\ ui = "disarm" /\ s \in ui_todo
  /\ mode' = [mode EXCEPT ![s] = "Disabled"]
  /\ ui_todo' = ui_todo \ {s}
  /\ UNCHANGED <<staged, tables, index, ui, ui_mode, ui_then, canVars, late,
                 armed>>

EndDisarm ==
  /\ ui = "disarm" /\ ui_todo = {}
  /\ ui' = "swap"
  /\ UNCHANGED <<shared, ui_todo, ui_mode, ui_then, canVars, late, armed>>

(* The table that is not active.                                          *)
Other == 1 - index
SwapActiveTable ==
  /\ ui = "swap"
  /\ index' = Other
  /\ late' = (can # "idle")
  /\ ui' = "idle"
  /\ UNCHANGED <<staged, tables, mode, ui_todo, ui_mode, ui_then, canVars,
                 armed>>

-----------------------------------------------------------------------------
(* A frame arrives; hasRulesForFrame loads the pointer.                    *)
StartFrame ==
  /\ can = "idle"
  /\ can' = "check"
  /\ held' = index /\ can_todo' = Held(tables[index])
  /\ UNCHANGED <<shared, uiVars, shot, applied, snapshot, misfired, late,
                 armed>>

OffMutant(s) == mode[s] # "Enabled"
Off(s) == mode[s] = "Disabled"
CheckRule(s) ==
  /\ can = "check" /\ s \in can_todo
  /\ IF Off(s)
     THEN can' = can /\ can_todo' = can_todo \ {s}
     ELSE can' = "load" /\ can_todo' = {}
  /\ UNCHANGED <<shared, uiVars, held, shot, applied, snapshot, misfired, late,
                 armed>>

(* No active rule: applyFrameMutations is not called, whether the frame    *)
(* takes the fast path or, being observed, is decoded first.               *)
EndCheck ==
  /\ can = "check" /\ can_todo = {}
  /\ can' = "done"
  /\ UNCHANGED <<shared, uiVars, held, can_todo, shot, applied, snapshot,
                 misfired, late, armed>>

(* applyFrameMutations loads the pointer again.                            *)
LoadTable ==
  /\ can = "load"
  /\ can' = "apply"
  /\ held' = index /\ snapshot' = tables[index]
  /\ can_todo' = Held(tables[index])
  /\ UNCHANGED <<shared, uiVars, shot, applied, misfired, late, armed>>

RuleHeldMutant(s) == tables[index][s]
RuleHeld(s) == tables[held][s]
ApplyRule(s) ==
  /\ can = "apply" /\ s \in can_todo
  /\ can_todo' = can_todo \ {s}
  /\ applied' = IF mode[s] = "Disabled" THEN applied
                ELSE applied \cup {<<s, RuleHeld(s)>>}
  /\ IF mode[s] = "SingleShot"
     THEN /\ can' = "spend" /\ shot' = {s}
          /\ armed' = armed \ {s} /\ misfired' = (misfired \/ s \notin armed)
     ELSE UNCHANGED <<can, shot, armed, misfired>>
  /\ UNCHANGED <<shared, uiVars, held, snapshot, late>>

SpentMutant == mode
Spent == [s \in Slots |-> IF s \in shot THEN "Disabled" ELSE mode[s]]
SpendShot ==
  /\ can = "spend"
  /\ can' = "apply" /\ shot' = {}
  /\ mode' = Spent
  /\ UNCHANGED <<staged, tables, index, uiVars, held, can_todo, applied,
                 snapshot, misfired, late, armed>>

EndApply ==
  /\ can = "apply" /\ can_todo = {}
  /\ can' = "done"
  /\ UNCHANGED <<shared, uiVars, held, can_todo, shot, applied, snapshot,
                 misfired, late, armed>>

(* The frame is transmitted and the next one may start.                    *)
EndFrame ==
  /\ can = "done"
  /\ can' = "idle" /\ late' = FALSE
  /\ held' = 0 /\ applied' = {} /\ snapshot' = NoRules
  /\ UNCHANGED <<shared, uiVars, can_todo, shot, misfired, armed>>

-----------------------------------------------------------------------------
UiRequest ==
  \/ \E s \in Slots :
       \/ \E e \in Editions, enabled \in StageEnabled : Stage(s, e, enabled)
       \/ RemoveRule(s)
       \/ \E m \in ModeCommands : SetRuleMode(s, m)
  \/ \E m \in ModeCommands : SetAllRulesMode(m)
  \/ ClearStaging \/ RevertStaging \/ ApplyCommit \/ ClearRules

UiStep ==
  \/ \E s \in Slots : StoreNextMode(s) \/ FillRule(s) \/ DisarmSlot(s)
  \/ EndModes \/ EndFill \/ EndDisarm \/ SwapActiveTable

CanTask ==
  \/ StartFrame
  \/ \E s \in Slots : CheckRule(s) \/ ApplyRule(s)
  \/ EndCheck \/ LoadTable \/ SpendShot \/ EndApply \/ EndFrame

Next == UiRequest \/ UiStep \/ CanTask

(* Traffic does not stop and the CAN task keeps running on its own core;   *)
(* a request that was begun is finished.  Nothing makes a client send one. *)
Spec == Init /\ [][Next]_vars /\ WF_vars(CanTask) /\ WF_vars(UiStep)

-----------------------------------------------------------------------------
(* Every rule applied to a frame comes from the one table that was active  *)
(* when applyFrameMutations loaded the pointer: a commit that runs while   *)
(* the frame is processed never mixes two rule sets (ARCH.md:72, no        *)
(* in-place mutation of the active table).                                 *)
FrameSeesOneTable ==
  \A hit \in applied : hit[2] = snapshot[hit[1]] /\ hit[2] # Empty

(* A rule armed once fires at most once, however requests interleave with  *)
(* the frame that spends it.                                               *)
FiresOncePerArming == ~misfired

(* An armed rule of the active table fires, or is disarmed or replaced by  *)
(* a later request: the fast-path precheck never hides it for good.        *)
ArmedRuleFires ==
  \A s \in Slots :
    (mode[s] = "SingleShot" /\ tables[index][s] # Empty)
      ~> (mode[s] # "SingleShot" \/ tables[index][s] = Empty)

=============================================================================
