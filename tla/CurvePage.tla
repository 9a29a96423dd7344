------------------------------ MODULE CurvePage ------------------------------
(***************************************************************************)
(* The speed, throttle and rpm pages                                       *)
(* (data/assets/js/openhaldex-firmware-ui.js, initCurvePage): a table of   *)
(* points, typed into rows and kept in a list, and mode settings.  Every   *)
(* page has a box for a key of its own, disengageUnderSpeed's, and all of  *)
(* them have boxes for disableThrottle and disableSpeed, which are alike   *)
(* and modelled as one setting.  What the user types are numbers; a poll   *)
(* shows the device's settings every 1.5 s in the boxes without the focus. *)
(*                                                                         *)
(* A definition named ...Mutant is a faulty version of the one after it,   *)
(* kept to show that a property notices the fault; nothing uses it.        *)
(***************************************************************************)
EXTENDS PageCalls, Sequences, FiniteSets

CONSTANTS
  XMin, XMax, XStep,  \* the axis of the page
  LockMax,            \* 100
  MaxPoints,          \* 32
  SettingMax,         \* 300
  Curves,             \* what the device may hold when the page is opened
  TypedX, TypedLock, TypedSettings  \* what the user may type

ASSUME CurvePageAssumption ==
  /\ XMin \in Nat /\ XMax \in Nat /\ XMin < XMax
  /\ XStep \in Nat \ {0} /\ XStep <= XMax - XMin
  /\ LockMax \in Nat /\ MaxPoints \in Nat \ {0} /\ SettingMax \in Nat
  /\ Curves # {}
  /\ TypedSettings \subseteq Nat

VARIABLES
  device_curve,     \* the curve the device holds
  device_settings,  \* its mode settings: this page's key, "own", the key of
                    \* an "other" page, and one that is "shared"
  points,           \* the page's list
  rows,             \* what its inputs show
  form,             \* what its boxes "own" and "shared" show
  cached,           \* runtimeCache: the last runtime that was read
  doubtful,         \* history: the rows have been typed into, or a request
                    \* has failed or been overtaken, since they were shown
  box_stale         \* history: the shared box was typed into, or its
                    \* setting has changed, since the poll that filled it

shownVars == <<device_curve, points, rows, doubtful>>
settingsVars == <<device_settings, form, cached, box_stale>>
curveVars == <<shownVars, settingsVars>>

-----------------------------------------------------------------------------
NewPoint(x, lock) == [x |-> x, lock |-> lock]
Limited(n, limit) == IF n > limit THEN limit ELSE n

(* Array.prototype.sort keeps the order of equal keys.                     *)
Rank(list, i) ==
  1 + Cardinality({j \in DOMAIN list : \/ list[j].x < list[i].x
                                       \/ list[j].x = list[i].x /\ j < i})
SortPoints(list) ==
  [k \in DOMAIN list |-> list[CHOOSE i \in DOMAIN list : Rank(list, i) = k]]

EnsureValidPoints(list) ==
  /\ list # <<>> /\ Len(list) <= MaxPoints
  /\ \A i \in DOMAIN list :
       /\ list[i].x \in XMin .. XMax /\ list[i].lock \in 0 .. LockMax
       /\ i > 1 => list[i].x > list[i - 1].x

DefaultCurve == <<NewPoint(XMin, 0), NewPoint(XMin + XStep, Limited(10, LockMax))>>
ResetCurve ==
  [i \in 1 .. 3 |-> NewPoint(Limited(XMin + 5 * (i - 1) * XStep, XMax),
                             Limited(25 * (i - 1), LockMax))]

(* renderRows: the inputs show the list.                                   *)
Show(list) == points' = list /\ rows' = list

(* What loadCurve makes of a curve that it has got.                        *)
Loaded(curve) == SortPoints(IF curve = <<>> THEN DefaultCurve ELSE curve)

-----------------------------------------------------------------------------
(* The device, and another curve page that is open elsewhere.  An answer   *)
(* that has been read, and what is posted of it, is marked when the device *)
(* changes: with the settings that have moved, or as a curve overtaken.    *)
Unowned == {"other", "shared"}
Changed(new) == {k \in Unowned : new[k] # device_settings[k]}
Moved(c, new) ==
  IF IsDone(c, "poll") \/ IsDone(c, "settings") \/ calls[c].op = "post"
  THEN [calls[c] EXCEPT !.body.moved = @ \cup Changed(new)] ELSE calls[c]
SetSettings(new) ==
  /\ device_settings' = new
  /\ box_stale' = (box_stale \/ "shared" \in Changed(new))

OtherPageSaves(n) ==
  /\ user_steps < MaxUserSteps[page] /\ user_steps' = user_steps + 1
  /\ \E k \in Unowned :
       LET new == [device_settings EXCEPT ![k] = Limited(n, SettingMax)]
       IN  /\ new # device_settings /\ SetSettings(new)
           /\ calls' = [c \in CallSlots |-> Moved(c, new)]
  /\ UNCHANGED <<shownVars, form, cached>>

AnswerCurve(c) ==
  /\ \/ IsSent(c, "load") /\ Put(c, Done(c, [curve |-> device_curve, overtaken |-> FALSE]))
        /\ UNCHANGED device_curve
     \/ /\ IsSent(c, "save") /\ device_curve' = calls[c].body
        /\ calls' = [d \in CallSlots |->
             IF d = c THEN Done(c, calls[c].body)
             ELSE IF IsDone(d, "load")
                  THEN Done(d, [curve |-> calls[d].body.curve, overtaken |-> TRUE])
                  ELSE calls[d]]
  /\ UNCHANGED <<points, rows, doubtful, settingsVars>>

AnswerSettings(c) ==
  /\ \/ /\ IsSent(c, "poll") \/ IsSent(c, "settings")
        /\ Put(c, Done(c, [moved |-> {}, runtime |-> device_settings]))
        /\ UNCHANGED <<device_settings, box_stale>>
     \/ /\ IsSent(c, "post") /\ SetSettings(calls[c].body.payload)
        /\ calls' = [d \in CallSlots |->
             IF d = c THEN Done(c, calls[c].body) ELSE Moved(d, calls[c].body.payload)]
  /\ UNCHANGED <<shownVars, form, cached>>

CurveAnswers(c) == (AnswerCurve(c) \/ AnswerSettings(c)) /\ UNCHANGED user_steps

(* loadCurve: what was typed meanwhile is lost.                            *)
FinishCurveLoad(c) ==
  /\ IsDone(c, "load") /\ Ends(c)
  /\ Show(Loaded(calls[c].body.curve))
  /\ doubtful' = calls[c].body.overtaken
  /\ UNCHANGED <<device_curve, settingsVars, user_steps>>

FinishCurveSaveMutant(c) ==
  /\ IsDone(c, "save") /\ Ends(c)
  /\ UNCHANGED <<curveVars, user_steps>>
FinishCurveSave(c) ==
  /\ IsDone(c, "save")
  /\ Put(c, Sent("load", <<>>))
  /\ UNCHANGED <<curveVars, user_steps>>

(* refreshRuntimeBindings: a box with the focus is left alone.             *)
FinishPoll(c) ==
  /\ IsDone(c, "poll") /\ Ends(c)
  /\ cached' = calls[c].body.runtime
  /\ \E focused \in {"none", "own", "shared"} :
       /\ form' = [k \in {"own", "shared"} |->
                     IF k = focused THEN form[k] ELSE calls[c].body.runtime[k]]
       /\ box_stale' = IF focused = "shared" THEN box_stale
                       ELSE "shared" \in calls[c].body.moved
  /\ UNCHANGED <<shownVars, device_settings, user_steps>>

(* saveModeSettings reads the settings, and only then what its boxes show; *)
(* the other page's key is posted as it was read, the rest as shown.       *)
Posted(c, other) ==
  [moved |-> (calls[c].body.moved \ {"shared"}) \cup
             IF box_stale THEN {"shared"} ELSE {},
   payload |-> [own |-> Limited(form.own, SettingMax), other |-> other,
                shared |-> Limited(form.shared, SettingMax)]]
PostSettingsMutant(c) ==
  /\ IsDone(c, "settings")
  /\ Put(c, Sent("post", Posted(c, cached.other)))
  /\ cached' = calls[c].body.runtime
  /\ UNCHANGED <<shownVars, device_settings, form, box_stale, user_steps>>
PostSettings(c) ==
  /\ IsDone(c, "settings")
  /\ Put(c, Sent("post", Posted(c, calls[c].body.runtime.other)))
  /\ cached' = calls[c].body.runtime
  /\ UNCHANGED <<shownVars, device_settings, form, box_stale, user_steps>>

FinishSettings(c) ==
  /\ IsDone(c, "post") /\ Ends(c)
  /\ UNCHANGED <<curveVars, user_steps>>

CurveCallFails(c) ==
  /\ Fails(c)
  /\ doubtful' = (doubtful \/ calls[c].op \in {"load", "save"})
  /\ UNCHANGED <<device_curve, points, rows, settingsVars, user_steps>>

CurvePoll ==
  /\ Start(Sent("poll", <<>>))
  /\ UNCHANGED <<curveVars, user_steps>>

-----------------------------------------------------------------------------
(* The user.                                                               *)
TypeRow(i) ==
  /\ \/ \E x \in TypedX : rows' = [rows EXCEPT ![i].x = x]
     \/ \E lock \in TypedLock : rows' = [rows EXCEPT ![i].lock = lock]
  /\ UNCHANGED points

(* Remove takes the point of that number from the list, which a rejected   *)
(* or failed save has sorted while the rows were not, and what was typed   *)
(* is forgotten.                                                           *)
RemovePoint(i) ==
  /\ Len(points) > 2
  /\ Show([j \in 1 .. Len(points) - 1 |-> IF j < i THEN points[j] ELSE points[j + 1]])

AddPoint ==
  LET read == SortPoints(rows)
      last == IF read = <<>> THEN NewPoint(XMin, 0) ELSE read[Len(read)]
  IN  Show(SortPoints(Append(read, NewPoint(Limited(last.x + XStep, XMax), last.lock))))

EditCurve ==
  /\ \/ \E i \in DOMAIN rows : TypeRow(i) \/ RemovePoint(i)
     \/ AddPoint
     \/ Show(ResetCurve)
  /\ doubtful' = TRUE
  /\ UNCHANGED <<device_curve, settingsVars, calls>>

(* What was typed is no longer in doubt once it is being saved.            *)
SaveCurve ==
  /\ points' = SortPoints(rows)
  /\ UNCHANGED <<device_curve, rows, settingsVars>>
  /\ IF EnsureValidPoints(points')
     THEN Start(Sent("save", points')) /\ doubtful' = FALSE
     ELSE UNCHANGED <<calls, doubtful>>

LoadCurve == Start(Sent("load", <<>>)) /\ UNCHANGED curveVars

TypeSetting(n) ==
  /\ \/ form' = [form EXCEPT !.own = n] /\ UNCHANGED box_stale
     \/ form' = [form EXCEPT !.shared = n] /\ box_stale' = TRUE
  /\ UNCHANGED <<shownVars, device_settings, cached, calls>>

SaveModeSettings ==
  /\ Start(Sent("settings", <<>>))
  /\ UNCHANGED curveVars

CurveInit ==
  /\ device_curve \in Opened("curve", Curves)
  /\ device_settings = [own |-> 0, other |-> 0, shared |-> SettingMax]
  /\ points = <<>> /\ rows = <<>> /\ form = [own |-> 0, shared |-> 0]
  /\ cached = device_settings /\ doubtful = FALSE /\ box_stale = TRUE
  /\ IF page = "curve" THEN CallsInit(<<Sent("load", <<>>), Sent("poll", <<>>)>>)
     ELSE TRUE

CurveNext ==
  \/ \E c \in CallSlots :
       \/ CurveAnswers(c) \/ FinishCurveLoad(c) \/ FinishCurveSave(c)
       \/ FinishPoll(c) \/ PostSettings(c) \/ FinishSettings(c) \/ CurveCallFails(c)
  \/ CurvePoll
  \/ \E n \in TypedSettings : OtherPageSaves(n)
  \/ /\ UserActs
     /\ \/ EditCurve \/ SaveCurve \/ LoadCurve \/ SaveModeSettings
        \/ \E n \in TypedSettings : TypeSetting(n)

-----------------------------------------------------------------------------
(* When no load or save is under way, the rows show the device's curve,    *)
(* unless the user has typed into them since, one of these requests has    *)
(* failed, or an answer was shown after a save had overtaken it: what is   *)
(* typed while a save is under way is lost when its reload arrives, not    *)
(* left on the page as if it had been saved.                               *)
CurveIsShown ==
  (/\ page = "curve" /\ ~doubtful
   /\ \A c \in CallSlots : calls[c].op \notin {"load", "save"})
     => rows = Loaded(device_curve)

(* Saving this page's settings leaves another page's key as it is, unless  *)
(* it changed after this page had read it, and the settings that the pages *)
(* share, unless their box was typed into or they changed after the poll   *)
(* that filled it.                                                         *)
SettingsKeepOthers ==
  [][\A c \in CallSlots :
       (page = "curve" /\ IsSent(c, "post") /\ CurveAnswers(c))
         => \A k \in Unowned \ calls[c].body.moved :
              device_settings'[k] = device_settings[k]]_curveVars
=============================================================================
