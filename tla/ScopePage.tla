------------------------------ MODULE ScopePage ------------------------------
(***************************************************************************)
(* The dialogue of the SignalScope page with the device: the buttons of    *)
(* data/signalscope.js, the requests they send one after another, and what *)
(* the handlers of main.cpp do with them.  Each handler of the page awaits *)
(* one request at a time; requests and answers of different handlers       *)
(* overtake one another and may be lost.                                   *)
(*                                                                         *)
(* A definition named ...Mutant is a faulty version of the one after it,   *)
(* kept to show that a property notices the fault; nothing uses it.        *)
(***************************************************************************)
EXTENDS Naturals, Sequences, FiniteSetsExt

CONSTANTS
  Rules,        \* identities of rules: frame and range
  MaxRules,     \* slots of the mutation engine
  Found,        \* the active rules that opening the page may find, by slot
  WatchRows,    \* rows of a watch's diff: the rules that staging one makes
  MaxHandlers,  \* bound on handlers at a time; not in the code
  MaxClicks,    \* bound on clicks
  MaxFaults     \* bound on requests and answers lost

ASSUME ScopePageAssumption ==
  /\ MaxRules \in Nat \ {0} /\ MaxHandlers \in Nat \ {0}
  /\ MaxClicks \in Nat /\ MaxFaults \in Nat
  /\ WatchRows \subseteq Seq(Rules) \ {<<>>}

NoRule == "no rule"
Slots == 0 .. MaxRules - 1
ASSUME FoundAssumption ==
  NoRule \notin Rules /\ Found \subseteq [Slots -> Rules \cup {NoRule}]

Handlers == 1 .. MaxHandlers
Modes == {"disabled", "enabled", "single_shot"}

VARIABLES
  \* the device
  staged, active,  \* the rule in each slot, staged and in force
  modes,           \* the mode of each slot
  dbc,             \* a database is loaded
  observing,       \* every frame is observed
  phase,           \* of the frame changes watch
  \* the page
  rows,            \* the list of active mutations
  dead,            \* <<slot, handler, which>>: the mode buttons or the remove
                   \* button of a row, disabled by a handler
  master_off,      \* the buttons for all mutations are disabled
  shown_dbc,       \* the status line, and whether the unload button shows
  off,             \* the watch's buttons that are disabled
  diff,            \* lastFrameChangesWatchExportPayload is a diff
  busy,            \* dbcUploadBusy
  handlers,        \* what each handler awaits
  \* history
  clicks, faults,
  held,            \* the rules that each slot has ever been given
  meant,           \* the rule that each slot's mode was asked for, if it is on
  mistaken         \* slots in which a request has met another rule than its own

engine == <<staged, active, modes, held, meant>>
watch == <<off, diff>>
device == <<engine, dbc, observing, phase, mistaken>>
page == <<rows, dead, master_off, shown_dbc, watch, busy>>
vars == <<device, page, handlers, clicks, faults>>

-----------------------------------------------------------------------------
(* A handler awaits the answer to one step about one item: "at" is "sent"  *)
(* until the device has answered ("ok" or "refused") or the request failed *)
(* ("lost").                                                               *)
Awaiting(step, item) ==
  [step |-> step, item |-> item, at |-> "sent", body |-> {}, failed |-> FALSE]
Idle == [step |-> "idle", item |-> NoRule, at |-> "done", body |-> {},
         failed |-> FALSE]
Refresh == Awaiting("status", NoRule)

At(h, step, at) == handlers[h].step = step /\ handlers[h].at = at
Become(h, handler) == handlers' = [handlers EXCEPT ![h] = handler]
IdleHandlers == {h \in Handlers : handlers[h] = Idle}

-----------------------------------------------------------------------------
(* The device: one request is handled at a time, in one step.              *)
Answer(h, at) == handlers' = [handlers EXCEPT ![h].at = at]
AnswerWith(h, body) ==
  handlers' = [handlers EXCEPT ![h].at = "ok", ![h].body = body]

ListedMutant ==
  {[rule_id |-> Cardinality({t \in Slots : t < s /\ active[t] # NoRule}),
    rule |-> active[s], mode |-> modes[s]] :
      s \in {t \in Slots : active[t] # NoRule}}
Listed ==
  {[rule_id |-> s, rule |-> active[s], mode |-> modes[s]] :
      s \in {t \in Slots : active[t] # NoRule}}

ServeStatus(h) ==
  /\ At(h, "status", "sent")
  /\ AnswerWith(h, {[rows |-> Listed, dbc |-> dbc, phase |-> phase]})
  /\ UNCHANGED device

(* handleRuleStage: the rule's own slot, or the lowest that staging leaves *)
(* free; its mode takes effect at once.                                    *)
SlotsFor(rule) ==
  IF \E s \in Slots : staged[s] = rule THEN {s \in Slots : staged[s] = rule}
  ELSE {s \in Slots : staged[s] = NoRule}

ServeStage(h) ==
  /\ At(h, "stage", "sent") \/ At(h, "stage row", "sent")
  /\ LET rule == Head(handlers[h].item) IN
     IF SlotsFor(rule) = {} THEN Answer(h, "refused") /\ UNCHANGED engine
     ELSE LET slot == Min(SlotsFor(rule)) IN
          /\ staged' = [staged EXCEPT ![slot] = rule]
          /\ modes' = [modes EXCEPT ![slot] = "disabled"]
          /\ meant' = [meant EXCEPT ![slot] = NoRule]
          /\ held' = [held EXCEPT ![slot] = @ \cup {rule}]
          /\ Answer(h, "ok") /\ UNCHANGED active
  /\ UNCHANGED <<dbc, observing, phase, mistaken>>

(* Slots that are no longer staged when staging is committed are disarmed. *)
Commit(rules) ==
  /\ staged' = rules /\ active' = rules
  /\ modes' = [s \in Slots |-> IF rules[s] = NoRule THEN "disabled" ELSE modes[s]]
  /\ meant' = [s \in Slots |-> IF rules[s] = NoRule THEN NoRule ELSE meant[s]]
  /\ UNCHANGED held
NoRules == [s \in Slots |-> NoRule]

(* A mode is the slot's, for whatever rule is in it or comes to be staged. *)
SetModes(slots, mode, ruleOf) ==
  /\ modes' = [s \in Slots |-> IF s \in slots THEN mode ELSE modes[s]]
  /\ meant' = [s \in Slots |-> IF s \notin slots THEN meant[s]
                              ELSE IF mode = "disabled" THEN NoRule ELSE ruleOf[s]]
Meets(slots, ruleOf) ==
  mistaken' = mistaken \cup
    {s \in slots : ~({staged[s], active[s]} \subseteq {ruleOf[s], NoRule})}

ServeAction(h) ==
  /\ handlers[h].at = "sent"
  /\ \/ handlers[h].step = "commit" /\ Commit(staged)
     \/ handlers[h].step = "revert" /\ staged' = active
        /\ UNCHANGED <<active, modes, held, meant>>
     \/ handlers[h].step = "clear" /\ staged' = NoRules
        /\ UNCHANGED <<active, modes, held, meant>>
  /\ Answer(h, "ok")
  /\ UNCHANGED <<dbc, observing, phase, mistaken>>

ServeModeAll(h) ==
  /\ At(h, "mode all", "sent")
  /\ LET slots == {s \in Slots : active[s] # NoRule} IN
     SetModes(slots, handlers[h].item, active) /\ Meets(slots, active)
  /\ Answer(h, "ok")
  /\ UNCHANGED <<staged, active, held, dbc, observing, phase>>

(* A row's request names the slot the row was listed with; the fallback    *)
(* names the rule by its range.                                            *)
Named(h) ==
  IF handlers[h].step \in {"mode", "remove"} THEN {handlers[h].item.rule_id}
  ELSE {s \in Slots : active[s] = handlers[h].item.rule}
RowRule(h) == [s \in Slots |-> handlers[h].item.rule]

(* setRuleMode takes any slot; only the fallback may find none.            *)
ServeMode(h) ==
  /\ At(h, "mode", "sent") \/ At(h, "mode by range", "sent")
  /\ SetModes(Named(h), handlers[h].item.mode, RowRule(h))
  /\ Meets(Named(h), RowRule(h))
  /\ Answer(h, IF Named(h) = {} THEN "refused" ELSE "ok")
  /\ UNCHANGED <<staged, active, held, dbc, observing, phase>>

(* removeRule reverts what is staged, also when it then finds no rule in   *)
(* the slot; the fallback does not get there without one.                  *)
ServeRemove(h) ==
  /\ At(h, "remove", "sent") \/ At(h, "remove by range", "sent")
  /\ IF \E s \in Named(h) : active[s] # NoRule
       THEN /\ Commit([s \in Slots |-> IF s \in Named(h) THEN NoRule ELSE active[s]])
            /\ Answer(h, "ok")
       ELSE /\ staged' = IF Named(h) = {} THEN staged ELSE active
            /\ UNCHANGED <<active, modes, held, meant>>
            /\ Answer(h, "refused")
  /\ Meets(Named(h), RowRule(h))
  /\ UNCHANGED <<dbc, observing, phase>>

(* handleDbcUpload, handleDbcUnload: rules and observation start afresh.   *)
ServeDbc(h) ==
  /\ At(h, "upload", "sent") \/ At(h, "unload", "sent")
  /\ dbc' = (handlers[h].step = "upload")
  /\ observing' = FALSE
  /\ Commit(NoRules)
  /\ Answer(h, "ok")
  /\ UNCHANGED <<phase, mistaken>>

(* A file that does not parse, an operation that the engine does not take. *)
Refuse(h) ==
  /\ At(h, "upload", "sent") \/ At(h, "stage", "sent")
  /\ Answer(h, "refused")
  /\ UNCHANGED device

ServeObserve(h) ==
  /\ At(h, "observe", "sent")
  /\ observing' = TRUE
  /\ Answer(h, "ok")
  /\ UNCHANGED <<engine, dbc, phase, mistaken>>

(* handleFrameChangesWatch: the first fix captures a baseline, the next    *)
(* ones compare with it; the answer tells which.                           *)
ServeWatch(h) ==
  /\ At(h, "watch", "sent")
  /\ IF <<handlers[h].item, phase>> \in {<<"start", "baseline">>, <<"fix", "idle">>}
       THEN UNCHANGED phase /\ Answer(h, "refused")
       ELSE /\ phase' = CASE handlers[h].item = "start" -> "watching"
                           [] handlers[h].item = "fix" -> "baseline"
                           [] OTHER -> "idle"
            /\ AnswerWith(h, {phase})
  /\ UNCHANGED <<engine, dbc, observing, mistaken>>

Serve(h) ==
  /\ \/ ServeStatus(h) \/ ServeStage(h) \/ ServeAction(h) \/ ServeModeAll(h)
     \/ ServeMode(h) \/ ServeRemove(h) \/ ServeDbc(h) \/ Refuse(h) \/ ServeObserve(h)
     \/ ServeWatch(h)
  /\ UNCHANGED <<page, clicks, faults>>

(* A request that does not arrive, an answer that does not, or, for an     *)
(* upload, one that comes after the page has given up.                     *)
Lose(h) ==
  /\ faults < MaxFaults /\ faults' = faults + 1
  /\ handlers[h].at \in {"sent", "ok", "refused"}
  /\ handlers' = [handlers EXCEPT ![h].at = "lost", ![h].body = {}]
  /\ UNCHANGED <<device, page, clicks>>

-----------------------------------------------------------------------------
(* The page: what a handler does with its answer.                          *)
Done(h, step) == handlers[h].step = step /\ handlers[h].at \notin {"sent", "done"}
Ok(h) == handlers[h].at = "ok"
Lost(h) == handlers[h].at = "lost"

(* syncFrameChangesWatchButtons                                            *)
Unfit(p) == IF p = "idle" THEN {"fix"} ELSE {"start"}

ShowMutant(body) ==
  /\ IF dead = {} THEN rows' = body.rows ELSE UNCHANGED rows
  /\ UNCHANGED dead
  /\ shown_dbc' = body.dbc
  /\ off' = Unfit(body.phase)
Show(body) ==
  /\ rows' = body.rows /\ dead' = {}
  /\ shown_dbc' = body.dbc
  /\ off' = Unfit(body.phase)

FinishStatus(h) ==
  /\ Done(h, "status")
  /\ IF Ok(h) THEN \E body \in handlers[h].body : Show(body)
     ELSE /\ shown_dbc' = FALSE /\ off' = Unfit("idle")
          /\ UNCHANGED <<rows, dead>>
  /\ Become(h, Idle)
  /\ UNCHANGED <<master_off, diff, busy>>

(* postRuleMutationMode, postRemoveMutation: by slot, then by range.  The  *)
(* mode buttons are enabled again after either outcome, also if the row is *)
(* being removed; all of the row after a removal that failed.  A rejected  *)
(* request leaves them as they are, as do answers for a row that has been  *)
(* rendered anew.                                                          *)
Enable(h, which) ==
  LET slot == handlers[h].item.rule_id
  IN  dead' = IF \A b \in which : <<slot, h, b>> \in dead
              THEN dead \ ({slot} \X Handlers \X which) ELSE dead

FinishRow(h, step, range, which) ==
  /\ Done(h, step) \/ Done(h, range)
  /\ IF Lost(h) THEN Become(h, Idle) /\ UNCHANGED dead
     ELSE IF Ok(h) THEN /\ Become(h, Refresh)
                        /\ IF step = "mode" THEN Enable(h, which) ELSE UNCHANGED dead
     ELSE IF Done(h, step)
          THEN Become(h, Awaiting(range, handlers[h].item)) /\ UNCHANGED dead
     ELSE Become(h, Idle) /\ Enable(h, which)
  /\ UNCHANGED <<rows, master_off, shown_dbc, watch, busy>>

(* The Stage buttons of the editors stage one rule and commit.             *)
FinishStage(h) ==
  /\ Done(h, "stage")
  /\ Become(h, IF Ok(h) THEN Awaiting("commit", NoRule) ELSE Idle)
  /\ UNCHANGED page

(* stageFrameChangesWatchMutationsForRow goes on after a failure, and then *)
(* leaves what it has staged without committing it.                        *)
FinishStageRow(h) ==
  /\ Done(h, "stage row")
  /\ LET todo == Tail(handlers[h].item)
         failed == handlers[h].failed \/ ~Ok(h)
     IN  Become(h, IF todo # <<>>
                   THEN [Awaiting("stage row", todo) EXCEPT !.failed = failed]
                   ELSE IF failed THEN Refresh ELSE Awaiting("commit", NoRule))
  /\ UNCHANGED page

FinishAction(h) ==
  /\ Done(h, "commit") \/ Done(h, "revert") \/ Done(h, "clear")
  /\ Become(h, IF Lost(h) THEN Idle
               ELSE IF Done(h, "clear") THEN Awaiting("commit", NoRule) ELSE Refresh)
  /\ UNCHANGED page

FinishModeAll(h) ==
  /\ Done(h, "mode all")
  /\ Become(h, IF Ok(h) THEN Refresh ELSE Idle)
  /\ master_off' = Lost(h)
  /\ UNCHANGED <<rows, dead, shown_dbc, watch, busy>>

(* A loaded database is observed from then on; a new handler refreshes.    *)
AfterUploadMutant(h) == Become(h, Refresh)
AfterUpload(h) ==
  /\ IdleHandlers # {}
  /\ handlers' = [handlers EXCEPT ![h] = Awaiting("observe", NoRule),
                                  ![Min(IdleHandlers)] = Refresh]

FinishUpload(h) ==
  /\ Done(h, "upload")
  /\ busy' = FALSE
  /\ IF Ok(h) THEN AfterUpload(h) ELSE Become(h, Idle)
  /\ UNCHANGED <<rows, dead, master_off, shown_dbc, watch>>

FinishUnload(h) ==
  /\ Done(h, "unload")
  /\ shown_dbc' = (shown_dbc /\ ~Ok(h))
  /\ Become(h, Refresh)
  /\ UNCHANGED <<rows, dead, master_off, watch, busy>>

FinishObserve(h) ==
  Done(h, "observe") /\ Become(h, Idle) /\ UNCHANGED page

(* A rejected request leaves its button disabled; a fix is refreshed after *)
(* a refusal too, and so is a reset.                                       *)
FinishWatch(h) ==
  /\ Done(h, "watch")
  /\ off' = IF Lost(h) THEN off ELSE off \ {handlers[h].item}
  /\ diff' = IF ~Ok(h) THEN diff
             ELSE handlers[h].item = "fix" /\ handlers[h].body = {"baseline"}
  /\ Become(h, IF Lost(h) \/ (~Ok(h) /\ handlers[h].item = "start")
               THEN Idle ELSE Refresh)
  /\ UNCHANGED <<rows, dead, master_off, shown_dbc, busy>>

Finish(h) ==
  /\ \/ FinishStatus(h) \/ FinishRow(h, "mode", "mode by range", {"mode"})
     \/ FinishRow(h, "remove", "remove by range", {"mode", "remove"})
     \/ FinishStage(h) \/ FinishStageRow(h) \/ FinishAction(h)
     \/ FinishModeAll(h) \/ FinishUpload(h) \/ FinishUnload(h)
     \/ FinishObserve(h) \/ FinishWatch(h)
  /\ UNCHANGED <<device, clicks, faults>>

-----------------------------------------------------------------------------
(* The page: the user's clicks, and the status asked for every second.     *)
Begin(step, item) == Become(Min(IdleHandlers), Awaiting(step, item))

(* A mode disables the row's mode buttons, a removal its remove button too.*)
ClickRow(row, which) ==
  /\ dead \cap ({row.rule_id} \X Handlers \X which) = {}
  /\ dead' = dead \cup ({row.rule_id} \X {Min(IdleHandlers)} \X
                        (which \cup {"mode"}))
  /\ \/ /\ "mode" \in which
        /\ \E m \in Modes \ {row.mode} : Begin("mode", [row EXCEPT !.mode = m])
     \/ "remove" \in which /\ Begin("remove", row)
  /\ UNCHANGED <<rows, master_off, shown_dbc, watch, busy>>

ClickEditor ==
  /\ \/ \E rule \in Rules : Begin("stage", <<rule>>)
     \/ diff /\ \E todo \in WatchRows : Begin("stage row", todo)
     \/ Begin("revert", NoRule)
     \/ Begin("clear", NoRule)
  /\ UNCHANGED page

ClickModeAll(m) ==
  /\ ~master_off /\ master_off' = TRUE
  /\ Begin("mode all", m)
  /\ UNCHANGED <<rows, dead, shown_dbc, watch, busy>>

ClickUpload ==
  /\ ~busy /\ busy' = TRUE
  /\ Begin("upload", NoRule)
  /\ UNCHANGED <<rows, dead, master_off, shown_dbc, watch>>

ClickUnload ==
  /\ shown_dbc /\ \A h \in Handlers : handlers[h].step # "unload"
  /\ Begin("unload", NoRule)
  /\ UNCHANGED page

ClickWatch(action) ==
  /\ action \notin off
  /\ off' = off \cup ({action} \ {"reset"})
  /\ Begin("watch", action)
  /\ UNCHANGED <<rows, dead, master_off, shown_dbc, diff, busy>>

Click ==
  /\ IdleHandlers # {}
  /\ clicks < MaxClicks /\ clicks' = clicks + 1
  /\ \/ \E row \in rows, b \in {"mode", "remove"} : ClickRow(row, {b})
     \/ ClickEditor
     \/ \E m \in Modes : ClickModeAll(m)
     \/ ClickUpload
     \/ ClickUnload
     \/ \E action \in {"start", "fix", "reset"} : ClickWatch(action)
  /\ UNCHANGED <<device, faults>>

Poll ==
  /\ IdleHandlers # {}
  /\ Become(Min(IdleHandlers), Refresh)
  /\ UNCHANGED <<device, page, clicks, faults>>

(* The page is opened on a device that may have a database, rules and a    *)
(* watch's baseline, with its staging area in step or cleared.             *)
Init ==
  /\ active \in Found /\ staged \in {active, NoRules}
  /\ held = [s \in Slots |-> {active[s]} \ {NoRule}] /\ meant = NoRules
  /\ modes = [s \in Slots |-> "disabled"]
  /\ dbc \in BOOLEAN /\ observing = FALSE
  /\ phase \in {"idle", "baseline"}
  /\ rows = {} /\ dead = {} /\ master_off = FALSE /\ shown_dbc = FALSE
  /\ off = {"fix"} /\ diff = FALSE /\ busy = FALSE
  /\ handlers = [h \in Handlers |-> IF h = 1 THEN Awaiting("observe", NoRule)
                                     ELSE IF h = 2 THEN Refresh ELSE Idle]
  /\ clicks = 0 /\ faults = 0 /\ mistaken = {}

Next == Click \/ Poll \/ \E h \in Handlers : Serve(h) \/ Lose(h) \/ Finish(h)

(* Timers fire, the device answers and the page's event loop runs; nothing *)
(* is assumed of the user or of the network.                               *)
Fairness == WF_vars(Poll) /\ \A h \in Handlers : WF_vars(Serve(h)) /\ WF_vars(Finish(h))
Spec == Init /\ [][Next]_vars /\ Fairness

-----------------------------------------------------------------------------
(* Once the user rests and requests get through again, the page shows the  *)
(* device as it is and goes on doing so: answers that were overtaken,      *)
(* handlers that broke off and buttons they left disabled are made good by *)
(* a later status answer.                                                  *)
PageConverges ==
  <>[](/\ rows = Listed /\ dead = {}
       /\ shown_dbc = dbc /\ off = Unfit(phase))

(* A row's buttons act on the rule that the row shows, as long as the      *)
(* row's own slot has not been given to another one: however old the       *)
(* answer the row was made from, and whatever the fallback by range finds. *)
(* And a rule in force alters frames only if a mode was asked for it: a    *)
(* slot's mode does not pass on to the next rule of the slot, unless a     *)
(* request came when that rule was in the slot already, staged or in       *)
(* force.                                                                  *)
RowActsOnItsRule ==
  /\ \A s \in mistaken : Cardinality(held[s]) > 1
  /\ \A s \in Slots \ mistaken :
       active[s] # NoRule /\ modes[s] # "disabled" => meant[s] = active[s]

(* A database that was loaded from the page, or that was there when the    *)
(* page was opened, is decoded: observation has been asked for by the time *)
(* nothing but status requests is under way, if no request was lost.       *)
Settled == \A h \in Handlers : handlers[h].step \in {"idle", "status"}
LoadedIsObserved == (Settled /\ faults = 0 /\ dbc) => observing
=============================================================================
