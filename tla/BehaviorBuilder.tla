--------------------------- MODULE BehaviorBuilder ---------------------------
(***************************************************************************)
(* The behaviour builder of the OpenHaldex pages                           *)
(* (data/assets/js/behavior-builder.js): profiles, one of them the         *)
(* default, rules that select a profile by a condition, and alerts, edited *)
(* on the page and loaded from and saved to a device that is not part of   *)
(* the repository: it keeps what it is sent.  Requests of the page overlap *)
(* and may fail.  A condition is its signal and its switch; operators,     *)
(* values, names and maps do not matter here, except for the comparison    *)
(* that the starter set of old is recognised by.                           *)
(*                                                                         *)
(* A definition named ...Mutant is a faulty version of the one after it,   *)
(* kept to show that a property notices the fault; nothing uses it.        *)
(***************************************************************************)
EXTENDS PageCalls, Sequences

CONSTANTS
  MaxId,            \* 254
  MaxProfiles,      \* maxProfiles
  MaxRules,         \* maxRules
  MaxAlerts,        \* maxAlerts
  Builders,         \* what the device may hold when the page is opened
  Files             \* the profiles a user may import

Ids == 0 .. MaxId
(* The rate at which the lock is released and its switch: none, the 120    *)
(* per second that a rate is given at first, or another.                   *)
Rates == {"zero", "usual", "other"}
Release == [on : BOOLEAN, rate : Rates]
Profile == [id : Ids, exclusive : BOOLEAN, release : Release]
(* "slow" is the virtual signal mapped_speed, compared to be below 20.     *)
Virtual == {"virtual", "slow"}
Signals == {"", "picked"} \cup Virtual
Condition == [signal : Signals, enabled : BOOLEAN]
Rule == [enabled : BOOLEAN, second : BOOLEAN, profile : Ids,
         a : Condition, b : Condition]
Alert == [enabled : BOOLEAN, condition : Condition]
Builder == [enabled : BOOLEAN, default : Ids, profiles : Seq(Profile),
            rules : Seq(Rule), alerts : Seq(Alert)]
(* The same with ids of any size, as a file or the device may have them.   *)
RawProfile == [id : Nat, exclusive : BOOLEAN, release : Release]
RawRule == [enabled : BOOLEAN, second : BOOLEAN, profile : Nat,
            a : Condition, b : Condition]
RawBuilder == [enabled : BOOLEAN, default : Nat, profiles : Seq(RawProfile),
               rules : Seq(RawRule), alerts : Seq(Alert)]

ForcesDefault(builder) ==
  \E i \in DOMAIN builder.profiles :
    builder.profiles[i].id = builder.default /\ builder.profiles[i].exclusive

(* The device starts with what a page has saved; the starter set fits.     *)
ASSUME BehaviorBuilderAssumption ==
  /\ MaxId \in Nat /\ MaxId >= 3
  /\ MaxProfiles \in Nat /\ MaxProfiles >= 4 /\ MaxRules \in Nat /\ MaxRules >= 3
  /\ MaxAlerts \in Nat
  /\ Builders \subseteq RawBuilder /\ Builders # {}
  /\ \A builder \in Builders : ForcesDefault(builder)
  /\ Files \subseteq RawBuilder

NoBuilder == [enabled |-> FALSE, default |-> 0, profiles |-> <<>>, rules |-> <<>>,
              alerts |-> <<>>]

VARIABLES
  saved,           \* the builder that the device holds
  state,           \* the builder on the page
  alerts_touched   \* history: the user has edited alerts, or imported unloaded

builderVars == <<saved, state, alerts_touched>>

-----------------------------------------------------------------------------
NoCondition == [signal |-> "", enabled |-> FALSE]
On(signal) == [signal |-> signal, enabled |-> TRUE]
NewProfile(id, exclusive) ==
  [id |-> id, exclusive |-> exclusive, release |-> [on |-> TRUE, rate |-> "usual"]]
ProfileIds(builder) == {builder.profiles[i].id : i \in DOMAIN builder.profiles}

Clamp(id) == IF id > MaxId THEN MaxId ELSE id
FirstOf(list, n) == SubSeq(list, 1, IF Len(list) < n THEN Len(list) ELSE n)
Mapped(list, Op(_)) == [i \in DOMAIN list |-> Op(list[i])]

(* normalizeBuilder: ids are clamped but not made distinct, rules of no    *)
(* profile go to the first, a default that is none is the first, a rate of *)
(* zero becomes the usual one, and missing alerts are filled in.  A text   *)
(* without the release's switch has it on when its rate is not zero.       *)
NormalizeProfile(profile) ==
  [profile EXCEPT !.id = Clamp(@),
                  !.release.rate = IF @ = "zero" THEN "usual" ELSE @]
NoAlert == [enabled |-> FALSE, condition |-> On("")]
AlertList(alerts) ==
  [k \in 1 .. MaxAlerts |-> IF k \in DOMAIN alerts THEN alerts[k] ELSE NoAlert]
NormalizeRule(rule, ids, first) ==
  [rule EXCEPT !.profile = IF Clamp(@) \in ids THEN Clamp(@) ELSE first]

ForceDefault(profiles, default) ==
  LET first(i) == /\ profiles[i].id = default
                  /\ \A j \in 1 .. i - 1 : profiles[j].id # default
  IN  [i \in DOMAIN profiles |->
         IF first(i) THEN [profiles[i] EXCEPT !.exclusive = TRUE] ELSE profiles[i]]

NormalizeBuilder(payload) ==
  LET listed == IF payload.profiles = <<>> THEN <<NewProfile(0, FALSE)>>
                ELSE FirstOf(payload.profiles, MaxProfiles)
      profiles == Mapped(listed, NormalizeProfile)
      ids == {profiles[i].id : i \in DOMAIN profiles}
      first == profiles[1].id
      default == IF payload.default \in ids THEN payload.default ELSE first
  IN  [payload EXCEPT
         !.default = default,
         !.profiles = ForceDefault(profiles, default),
         !.rules = Mapped(FirstOf(payload.rules, MaxRules),
                          LAMBDA r : NormalizeRule(r, ids, first)),
         !.alerts = AlertList(@)]

(* seedStarterDefaultsIfEmpty: a builder with one profile and no rule is   *)
(* replaced by the starter set, and so is one with two profiles and the    *)
(* one rule that the starter set of old had.                               *)
StarterRule(id) ==
  [enabled |-> TRUE, second |-> FALSE, profile |-> id,
   a |-> On(IF id = 1 THEN "slow" ELSE "virtual"), b |-> NoCondition]
Fresh(builder) == Len(builder.profiles) = 1 /\ builder.rules = <<>>
Legacy(builder) ==
  /\ Len(builder.profiles) = 2 /\ Len(builder.rules) = 1
  /\ builder.rules[1].profile = 1 /\ builder.rules[1].a.signal = "slow"
Seeded(builder) ==
  IF Fresh(builder) \/ Legacy(builder)
  THEN [builder EXCEPT
          !.default = 0,
          !.profiles = [i \in 1 .. 4 |-> NewProfile(i - 1, i = 1)],
          !.rules = [i \in 1 .. 3 |-> StarterRule(i)]]
  ELSE builder

(* serializeBehaviorPayload: what is saved.  Of a release only its rate is *)
(* sent, and of one that is off a rate of zero.                            *)
InForce(release) == IF release.on THEN release.rate ELSE "zero"
SentRateMutant(release) == [on |-> release.rate # "zero", rate |-> release.rate]
SentRelease(release) ==
  [on |-> InForce(release) # "zero", rate |-> InForce(release)]
SentProfile(profile) ==
  [profile EXCEPT !.id = Clamp(@), !.release = SentRelease(@)]
Serialize(builder) ==
  LET profiles == Mapped(builder.profiles, SentProfile)
      ids == {profiles[i].id : i \in DOMAIN profiles}
      chosen == Clamp(builder.default)
      default == IF chosen \in ids THEN chosen ELSE profiles[1].id
  IN  [builder EXCEPT
         !.default = default,
         !.profiles = Mapped(profiles, LAMBDA p :
                               [p EXCEPT !.exclusive = @ \/ p.id = default]),
         !.rules = Mapped(@, LAMBDA r : NormalizeRule(r, ids, default))]

(* validateBeforeSave: no enabled condition without a signal.              *)
Complete(condition) == condition.enabled => condition.signal # ""
Valid(builder) ==
  /\ \A k \in DOMAIN builder.rules :
       LET rule == builder.rules[k]
       IN  rule.enabled => Complete(rule.a) /\ (rule.second => Complete(rule.b))
  /\ \A k \in DOMAIN builder.alerts :
       builder.alerts[k].enabled => Complete(builder.alerts[k].condition)

-----------------------------------------------------------------------------
BuilderAnswers(c) ==
  /\ UNCHANGED <<state, user_steps, alerts_touched>>
  /\ \/ /\ IsSent(c, "load") /\ UNCHANGED saved
        /\ Put(c, Done(c, saved))
     \/ /\ IsSent(c, "save") /\ saved' = calls[c].body
        /\ Put(c, Done(c, saved'))
     \/ /\ IsSent(c, "toggle")
        /\ saved' = [saved EXCEPT !.enabled = calls[c].body.enabled]
        /\ Put(c, Done(c, saved'))

(* loadBuilder: whatever was edited meanwhile is replaced.                 *)
FinishLoad(c) ==
  /\ IsDone(c, "load") /\ Ends(c)
  /\ state' = Seeded(NormalizeBuilder(calls[c].body))
  /\ UNCHANGED <<saved, user_steps, alerts_touched>>

FinishSave(c) ==
  /\ IsDone(c, "save") \/ IsDone(c, "toggle")
  /\ Put(c, Sent("load", NoBuilder))
  /\ UNCHANGED <<saved, state, user_steps, alerts_touched>>

(* A switch goes back to the other position.                               *)
BuilderCallFails(c) ==
  /\ Fails(c)
  /\ state' = IF calls[c].op = "toggle"
              THEN [state EXCEPT !.enabled = ~calls[c].body.enabled]
              ELSE state
  /\ UNCHANGED <<saved, user_steps, alerts_touched>>

-----------------------------------------------------------------------------
(* The user.                                                               *)
Without(list, i) ==
  [j \in 1 .. Len(list) - 1 |-> IF j < i THEN list[j] ELSE list[j + 1]]

NextProfileId ==
  LET unused == Ids \ ProfileIds(state)
  IN  IF unused # {} THEN CHOOSE id \in unused : \A u \in unused : id <= u
      ELSE Clamp(Len(state.profiles))

AddProfile ==
  /\ Len(state.profiles) < MaxProfiles
  /\ state' = [state EXCEPT !.profiles = Append(@, NewProfile(NextProfileId, FALSE))]

(* The rules of all profiles but one, in their order.                      *)
RulesWithout(rules, id) ==
  LET kept[n \in 0 .. Len(rules)] ==
        IF n = 0 THEN <<>>
        ELSE IF rules[n].profile = id THEN kept[n - 1] ELSE Append(kept[n - 1], rules[n])
  IN  kept[Len(rules)]

RemoveProfileMutant(i) ==
  /\ Len(state.profiles) > 1
  /\ LET removed == state.profiles[i].id  rest == Without(state.profiles, i)
     IN  state' = [state EXCEPT
           !.profiles = rest,
           !.default = IF @ = removed THEN rest[1].id ELSE @]
RemoveProfile(i) ==
  /\ Len(state.profiles) > 1
  /\ LET removed == state.profiles[i].id  rest == Without(state.profiles, i)
     IN  state' = [state EXCEPT
           !.profiles = rest,
           !.default = IF @ = removed THEN rest[1].id ELSE @,
           !.rules = RulesWithout(@, removed)]

SetDefault(i) ==
  state' = [state EXCEPT !.profiles[i].exclusive = TRUE,
                         !.default = state.profiles[i].id]

(* The default's box cannot be cleared.                                    *)
SetExclusive(i, on) ==
  state' = [state EXCEPT !.profiles[i].exclusive =
                           on \/ state.profiles[i].id = state.default]
(* The rate can be typed while the release is on, and switching it on with *)
(* a rate of zero gives it the usual one.                                  *)
SwitchRelease(i, on) ==
  state' = [state EXCEPT
              !.profiles[i].release =
                [on |-> on, rate |-> IF on /\ @.rate = "zero" THEN "usual" ELSE @.rate]]
TypeRate(i, rate) ==
  /\ state.profiles[i].release.on
  /\ state' = [state EXCEPT !.profiles[i].release.rate = rate]

AddRule(i, picked) ==
  /\ Len(state.rules) < MaxRules
  /\ state' = [state EXCEPT !.rules = Append(@,
       [enabled |-> TRUE, second |-> FALSE, profile |-> state.profiles[i].id,
        a |-> [signal |-> picked, enabled |-> picked # ""],
        b |-> [signal |-> picked, enabled |-> FALSE]])]
RemoveRule(k) == state' = [state EXCEPT !.rules = Without(@, k)]
ToggleRule(k) ==
  \/ state' = [state EXCEPT !.rules[k].enabled = ~@]
  \/ state' = [state EXCEPT !.rules[k].second = ~@]

(* A condition's source, its signal from the picker, its switch.           *)
Sourced(condition) ==
  {On(signal) : signal \in Virtual} \cup
  {IF condition.signal \in Virtual THEN NoCondition ELSE On("picked")}
Conditioned(condition) ==
  Sourced(condition) \cup {[condition EXCEPT !.enabled = ~@]}
EditRule(k) ==
  \/ \E c \in Conditioned(state.rules[k].a) : state' = [state EXCEPT !.rules[k].a = c]
  \/ /\ state.rules[k].second
     /\ \E c \in Conditioned(state.rules[k].b) :
          state' = [state EXCEPT !.rules[k].b = c]

(* The profiles are hidden while the builder is disabled.                  *)
EditProfiles ==
  /\ state.enabled
  /\ UNCHANGED <<saved, calls, alerts_touched>>
  /\ \/ AddProfile
     \/ \E i \in DOMAIN state.profiles :
          \/ RemoveProfile(i) \/ SetDefault(i)
          \/ \E on \in BOOLEAN : SetExclusive(i, on) \/ SwitchRelease(i, on)
          \/ \E rate \in Rates : TypeRate(i, rate)
          \/ \E picked \in {"", "picked"} : AddRule(i, picked)
     \/ \E k \in DOMAIN state.rules : RemoveRule(k) \/ ToggleRule(k) \/ EditRule(k)

(* An alert that is switched on switches its condition on.                 *)
Toggled(alert) ==
  [alert EXCEPT !.enabled = ~@, !.condition.enabled = @ \/ ~alert.enabled]
EditAlert(k) ==
  /\ \/ \E c \in Sourced(state.alerts[k].condition) :
          state' = [state EXCEPT !.alerts[k].condition = c]
     \/ state' = [state EXCEPT !.alerts[k] = Toggled(@)]
  /\ alerts_touched' = TRUE
  /\ UNCHANGED <<saved, calls>>

(* renderAll: a disabled builder has only its switch and its alerts.       *)
Pressable == state # NoBuilder => state.enabled
LoadBuilder ==
  /\ Pressable
  /\ Start(Sent("load", NoBuilder))
  /\ UNCHANGED <<saved, state, alerts_touched>>

SaveBuilder ==
  /\ state.enabled /\ Valid(state)
  /\ Start(Sent("save", Serialize(state)))
  /\ UNCHANGED <<saved, state, alerts_touched>>

ToggleEnabled ==
  /\ state' = [state EXCEPT !.enabled = ~@]
  /\ Start(Sent("toggle", [NoBuilder EXCEPT !.enabled = ~state.enabled]))
  /\ UNCHANGED <<saved, alerts_touched>>

(* importBuilderProfileFromText: the alerts on the page are kept, if there *)
(* are any yet, and the result is saved at once.  The user chooses a file  *)
(* and it is read before this, so the builder may be disabled by now.      *)
ImportedMutant(file) == NormalizeBuilder(file)
Imported(file) ==
  IF state = NoBuilder THEN NormalizeBuilder(file)
  ELSE [NormalizeBuilder(file) EXCEPT !.alerts = state.alerts]

Import(file) ==
  /\ state' = Imported(file)
  /\ alerts_touched' = (alerts_touched \/ state = NoBuilder)
  /\ IF Valid(state') THEN Start(Sent("save", Serialize(state')))
     ELSE UNCHANGED calls
  /\ UNCHANGED saved

BuilderInit ==
  /\ saved \in Opened("behavior", Builders)
  /\ state = NoBuilder
  /\ alerts_touched = FALSE
  /\ IF page = "behavior" THEN CallsInit(<<Sent("load", NoBuilder)>>) ELSE TRUE

BuilderNext ==
  \/ \E c \in CallSlots :
       BuilderAnswers(c) \/ FinishLoad(c) \/ FinishSave(c) \/ BuilderCallFails(c)
  \/ /\ UserActs
     /\ \/ LoadBuilder
        \/ \E file \in Files : Import(file)
        \/ /\ state # NoBuilder
           /\ \/ EditProfiles \/ SaveBuilder \/ ToggleEnabled
              \/ \E k \in DOMAIN state.alerts : EditAlert(k)

-----------------------------------------------------------------------------
(* On the page every rule selects a profile that exists, and the default   *)
(* exists, through imports, removals, ids that collide and loads that      *)
(* arrive in the middle of editing.                                        *)
RulesHaveProfiles ==
  state # NoBuilder =>
    /\ state.default \in ProfileIds(state)
    /\ \A k \in DOMAIN state.rules : state.rules[k].profile \in ProfileIds(state)

(* The device's default profile is exclusive, as the page's label says     *)
(* ("forced for default"), also after the default was removed or collided  *)
(* with another and the page shows its successor as not exclusive.         *)
DefaultIsExclusive == ForcesDefault(saved)

(* Profiles are what rules and the default refer to, here and on the       *)
(* device.                                                                 *)
ProfilesAreSound == RulesHaveProfiles /\ DefaultIsExclusive

(* Saving and loading back shows the builder that was on the page, apart   *)
(* from the default having become exclusive, from a release's rate while   *)
(* it is off or zero, which the device is not sent (the release in force   *)
(* is the same), and from a builder that the starter set replaces.         *)
WithDefault(builder) ==
  [builder EXCEPT !.profiles = ForceDefault(@, builder.default)]
InEffect(builder) ==
  [builder EXCEPT
     !.profiles = Mapped(@, LAMBDA p : [p EXCEPT !.release = InForce(@)])]
Shown(builder) == Seeded(NormalizeBuilder(Serialize(builder)))
DistinctIds(builder) ==
  \A i, j \in DOMAIN builder.profiles :
    builder.profiles[i].id = builder.profiles[j].id => i = j
SaveLosesNothing ==
  (state # NoBuilder /\ DistinctIds(state) /\ ~Fresh(state) /\ ~Legacy(state))
    => InEffect(Shown(state)) = InEffect(WithDefault(state))

(* "Profile imported (alerts unchanged)": whatever else is loaded, saved   *)
(* or imported, in whatever order, the device keeps its alerts until the   *)
(* user edits one, or imports before the page has loaded them; those that  *)
(* it does not have yet it gets as empty ones.                             *)
AlertsStay ==
  [][~alerts_touched' => AlertList(saved'.alerts) = AlertList(saved.alerts)]_builderVars
=============================================================================
