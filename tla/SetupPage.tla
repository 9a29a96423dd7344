------------------------------ MODULE SetupPage ------------------------------
(***************************************************************************)
(* The setup page, which two scripts run at once                           *)
(* (data/assets/js/openhaldex-firmware-ui.js, initSetupPage, and           *)
(* openhaldex-firmware-overrides.js, initSetupOverrides).  They share the  *)
(* inputs of the page and its list of signals, but each has a selected     *)
(* signal, a snapshot and a spelling of signal keys of its own; the second *)
(* also keeps mappings and dashboard slots, which it stores in the browser *)
(* for the home page.  Values, labels and the Haldex generation are left   *)
(* out; a slot "dash_n" is n.                                              *)
(*                                                                         *)
(* A definition named ...Mutant is a faulty version of the one after it,   *)
(* kept to show that a property notices the fault; nothing uses it.        *)
(***************************************************************************)
EXTENDS PageCalls, Sequences

CONSTANTS
  Inputs,                      \* requiredInputs
  DecodedSignals,              \* what the device may decode
  FirmwareKey, OverrideKey,    \* formatDecodedSignalRecord of either script
  TypedKeys,                   \* what the user may type
  MaxSlots                     \* 24

ASSUME SetupPageAssumption == "speed" \in Inputs /\ MaxSlots \in Nat \ {0}

VARIABLES
  device_mappings,   \* inputMappings of the device
  profile,           \* localStorage: <<>>, or the one stored profile
  profile_kept,      \* history: the last write of the profile succeeded
  inputs,            \* the values of the page's inputs
  by_firmware,       \* history: the inputs that the first script has written
                     \* since the second read or wrote them all
  mappings,          \* those that the override script keeps
  slots,             \* dashboardSignals
  selected_input, selected_dash,
  firmware_signal,   \* selectedSignalKey of the first script
  override_signal,   \* that of the second
  snapshot,          \* signalSnapshotMap of the second
  options,           \* what the list of signals offers
  behavior_signal,   \* the value of the builder's signal box
  bridge             \* the script that answers the builder

selections == <<firmware_signal, override_signal, behavior_signal, bridge>>
lists == <<snapshot, options>>
slotVars == <<slots, selected_dash>>
storeVars == <<profile, profile_kept>>
inputVars == <<inputs, by_firmware>>
setupVars == <<device_mappings, storeVars, inputVars, mappings, slotVars, selected_input,
               selections, lists>>

-----------------------------------------------------------------------------
Slot(n, signal) == [key |-> n, signal |-> signal]
EmptySlots(n) == [i \in 1 .. n |-> Slot(i, "")]
SlotKeys(list) == {list[i].key : i \in DOMAIN list}

EnsureDashboardSignals(list) ==
  IF list = <<>> THEN EmptySlots(IF MaxSlots < 3 THEN MaxSlots ELSE 3)
  ELSE SubSeq(list, 1, IF Len(list) < MaxSlots THEN Len(list) ELSE MaxSlots)

(* findIndex: the first slot of a key, of which there may be two.          *)
FirstSlot(key) ==
  CHOOSE i \in DOMAIN slots :
    slots[i].key = key /\ \A j \in 1 .. i - 1 : slots[j].key # key

(* writeSetupProfile: a write that the browser refuses goes unnoticed.     *)
PersistProfile ==
  /\ profile_kept' \in BOOLEAN
  /\ profile' = IF profile_kept' THEN <<[mappings |-> mappings', slots |-> slots']>>
                ELSE profile

(* renderAll of the second script: the list shows what the search finds in *)
(* its snapshot, and the builder gets its signal.                          *)
RenderAll ==
  /\ options' \in SUBSET snapshot'
  /\ behavior_signal' = override_signal' /\ bridge' = "override"

Rendered ==
  /\ UNCHANGED <<device_mappings, selected_input, firmware_signal, override_signal,
                 snapshot, calls>>
  /\ RenderAll

-----------------------------------------------------------------------------
(* Requests.  A snapshot may arrive at any time: both scripts ask for one  *)
(* when the page opens and on every click of one button.                   *)
FirmwareSnapshot ==
  /\ \E decoded \in SUBSET DecodedSignals :
       options' \in SUBSET {FirmwareKey[s] : s \in decoded}
  /\ bridge' = "firmware"
  /\ UNCHANGED <<device_mappings, storeVars, inputVars, mappings, slotVars, selected_input,
                 firmware_signal, override_signal, behavior_signal, snapshot, calls>>

OverrideSnapshot ==
  /\ \E decoded \in SUBSET DecodedSignals :
       snapshot' = {OverrideKey[s] : s \in decoded}
  /\ override_signal' = IF override_signal \in snapshot' THEN override_signal ELSE ""
  /\ RenderAll
  /\ UNCHANGED <<device_mappings, storeVars, inputVars, mappings, slotVars, selected_input,
                 firmware_signal, calls>>

SetupAnswers(c) ==
  /\ \/ /\ IsSent(c, "load") /\ UNCHANGED device_mappings
     \/ /\ IsSent(c, "save") /\ device_mappings' = calls[c].body
  /\ Put(c, Done(c, device_mappings'))
  /\ UNCHANGED <<storeVars, inputVars, mappings, slotVars, selected_input, selections, lists>>

(* loadRuntimeSettings: the inputs show the device's mappings, which the   *)
(* second script does not learn.                                           *)
FinishSetupLoad(c) ==
  /\ IsDone(c, "load") /\ Ends(c)
  /\ inputs' = calls[c].body /\ by_firmware' = Inputs
  /\ firmware_signal' = IF firmware_signal = "" THEN behavior_signal ELSE firmware_signal
  /\ bridge' = "firmware"
  /\ UNCHANGED <<device_mappings, storeVars, mappings, slotVars, selected_input,
                 override_signal, behavior_signal, lists>>

FinishSetupSave(c) ==
  /\ IsDone(c, "save") /\ Put(c, Sent("load", inputs))
  /\ UNCHANGED setupVars

SetupCallFails(c) == Fails(c) /\ UNCHANGED setupVars

-----------------------------------------------------------------------------
(* The user, first with what both scripts listen to.                       *)
PickSignal(key) ==
  /\ firmware_signal' = key /\ override_signal' = key /\ behavior_signal' = key
  /\ bridge' = "override"
  /\ UNCHANGED <<device_mappings, storeVars, inputVars, mappings, slotVars, selected_input,
                 lists, calls>>

SearchSignals ==
  /\ options' \in SUBSET snapshot
  /\ UNCHANGED <<device_mappings, storeVars, inputVars, mappings, slotVars, selected_input,
                 selections, snapshot, calls>>

(* The first script.                                                       *)
SetSignal(key) ==
  /\ firmware_signal' = key /\ behavior_signal' = key /\ bridge' = "firmware"
  /\ UNCHANGED <<device_mappings, storeVars, inputVars, mappings, slotVars, selected_input,
                 override_signal, lists, calls>>

AssignSelectedSignal(input) ==
  /\ firmware_signal # ""
  /\ inputs' = [inputs EXCEPT ![input] = firmware_signal]
  /\ by_firmware' = by_firmware \cup {input}
  /\ UNCHANGED <<device_mappings, storeVars, mappings, slotVars, selected_input,
                 selections, lists, calls>>

SaveRuntimeSettings == Start(Sent("save", inputs)) /\ UNCHANGED setupVars

(* The second script.                                                      *)
AssignToInput ==
  /\ override_signal # ""
  /\ mappings' = [mappings EXCEPT ![selected_input] = override_signal]
  /\ inputs' = mappings' /\ by_firmware' = {}
  /\ UNCHANGED slotVars
  /\ PersistProfile /\ Rendered

AssignToDashboard ==
  /\ override_signal # "" /\ selected_dash \in SlotKeys(slots)
  /\ slots' = [slots EXCEPT ![FirstSlot(selected_dash)].signal = override_signal]
  /\ UNCHANGED <<inputVars, mappings, selected_dash>>
  /\ PersistProfile /\ Rendered

AddDashboardSlotMutant ==
  /\ Len(slots) < MaxSlots
  /\ slots' = Append(slots, Slot(Len(slots) + 1, ""))
  /\ selected_dash' = Len(slots) + 1
  /\ UNCHANGED <<inputVars, mappings>>
  /\ profile' = <<[mappings |-> mappings, slots |-> slots]>> /\ profile_kept' = TRUE
  /\ Rendered
AddDashboardSlot ==
  /\ Len(slots) < MaxSlots
  /\ slots' = Append(slots, Slot(Len(slots) + 1, ""))
  /\ selected_dash' = Len(slots) + 1
  /\ UNCHANGED <<inputVars, mappings>>
  /\ PersistProfile /\ Rendered

RemoveDashboardSlotMutant ==
  /\ Len(slots) > 1
  /\ LET i == IF selected_dash \in SlotKeys(slots) THEN FirstSlot(selected_dash)
              ELSE Len(slots)
     IN  slots' = [j \in 1 .. Len(slots) - 1 |-> IF j < i THEN slots[j] ELSE slots[j + 1]]
  /\ UNCHANGED <<inputVars, mappings, selected_dash>>
  /\ PersistProfile /\ Rendered
RemoveDashboardSlot ==
  /\ Len(slots) > 1
  /\ LET i == IF selected_dash \in SlotKeys(slots) THEN FirstSlot(selected_dash)
              ELSE Len(slots)
     IN  /\ slots' = [j \in 1 .. Len(slots) - 1 |->
                        IF j < i THEN slots[j] ELSE slots[j + 1]]
         /\ selected_dash' = slots'[IF i = 1 THEN 1 ELSE i - 1].key
  /\ UNCHANGED <<inputVars, mappings>>
  /\ PersistProfile /\ Rendered

SelectInput(input) ==
  /\ selected_input' = input
  /\ UNCHANGED <<device_mappings, storeVars, inputVars, mappings, slotVars, selections, lists,
                 calls>>
SelectSlot(key) ==
  /\ selected_dash' = key
  /\ UNCHANGED <<device_mappings, storeVars, inputVars, mappings, slots, selected_input,
                 selections, lists, calls>>

TypeInput(input, key) ==
  /\ inputs' = [inputs EXCEPT ![input] = key] /\ mappings' = inputs'
  /\ by_firmware' = {}
  /\ UNCHANGED slotVars /\ PersistProfile
  /\ UNCHANGED <<device_mappings, selected_input, selections, lists, calls>>

ChooseGeneration ==
  /\ UNCHANGED <<mappings, slotVars>> /\ PersistProfile
  /\ UNCHANGED <<device_mappings, inputVars, selected_input, selections, lists, calls>>

SaveMapping ==
  /\ UNCHANGED <<mappings, slotVars>> /\ PersistProfile
  /\ Start(Sent("save", inputs))
  /\ UNCHANGED <<device_mappings, inputVars, selected_input, selections, lists>>

(* The page opens: the profile fills the mappings and the slots, and the   *)
(* mappings the inputs, until the device's arrive.                         *)
Restored(stored, what, none) == IF stored = <<>> THEN none ELSE stored[1][what]
Opens(stored) ==
  [mappings |-> Restored(stored, "mappings", [i \in Inputs |-> ""]),
   slots |-> EnsureDashboardSignals(Restored(stored, "slots", <<>>))]

Reopen ==
  /\ mappings' = Opens(profile).mappings /\ inputs' = mappings'
  /\ by_firmware' = {} /\ profile_kept' = TRUE
  /\ slots' = Opens(profile).slots /\ selected_dash' = slots'[1].key
  /\ selected_input' = "speed"
  /\ firmware_signal' = "" /\ override_signal' = "" /\ behavior_signal' = ""
  /\ bridge' = "override" /\ snapshot' = {} /\ options' = {}
  /\ calls' = [c \in CallSlots |-> IF c = 1 THEN Sent("load", inputs) ELSE NoCall]
  /\ UNCHANGED <<device_mappings, profile>>

SetupInit ==
  /\ device_mappings = [i \in Inputs |-> ""]
  /\ profile = <<>> /\ profile_kept = TRUE
  /\ mappings = Opens(<<>>).mappings /\ inputs = mappings /\ by_firmware = {}
  /\ slots = Opens(<<>>).slots /\ selected_dash = 1
  /\ selected_input = "speed"
  /\ firmware_signal = "" /\ override_signal = "" /\ behavior_signal = ""
  /\ bridge = "override" /\ snapshot = {} /\ options = {}
  /\ page = "setup" => CallsInit(<<Sent("load", inputs)>>)

SetupNext ==
  \/ /\ UNCHANGED user_steps
     /\ \/ FirmwareSnapshot \/ OverrideSnapshot
        \/ \E c \in CallSlots :
             SetupAnswers(c) \/ FinishSetupLoad(c) \/ FinishSetupSave(c) \/ SetupCallFails(c)
  \/ /\ UserActs
     /\ \/ \E key \in options : PickSignal(key)
        \/ \E key \in TypedKeys \cup {firmware_signal} : SetSignal(key)
        \/ \E input \in Inputs :
             \/ AssignSelectedSignal(input) \/ SelectInput(input)
             \/ \E key \in TypedKeys : TypeInput(input, key)
        \/ \E key \in SlotKeys(slots) : SelectSlot(key)
        \/ SearchSignals \/ SaveRuntimeSettings \/ SaveMapping \/ ChooseGeneration
        \/ AssignToInput \/ AssignToDashboard
        \/ AddDashboardSlot \/ RemoveDashboardSlot \/ Reopen

-----------------------------------------------------------------------------
(* There is always a slot that "Assign" and "Remove" act on, also after    *)
(* slots were removed and added until two have one key.                    *)
SelectedSlotExists == selected_dash \in SlotKeys(slots)

(* As long as the browser takes what is written, leaving the page loses    *)
(* nothing that the second script keeps: the page that opens next has its  *)
(* mappings and slots, the home page shows these slots, and every input    *)
(* that the page shows comes back, but for those that the first script has *)
(* written since; they are lost unless they are saved in the device.       *)
ProfileKeepsPage ==
  profile_kept =>
    /\ Opens(profile).slots = slots /\ Opens(profile).mappings = mappings
    /\ \A i \in Inputs \ by_firmware : Opens(profile).mappings[i] = inputs[i]
=============================================================================
