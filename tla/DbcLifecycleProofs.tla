-------------------------- MODULE DbcLifecycleProofs --------------------------
(***************************************************************************)
(* Proofs about DbcLifecycle, for any files, keys and requests and any     *)
(* number of loads and power failures: rules and a replay do not go on     *)
(* under another database than the one they were begun under, and the      *)
(* signal cache tells what the database in use decodes.                    *)
(***************************************************************************)
EXTENDS DbcLifecycle, TLAPS

(* A load is counted when it begins and taken back when the text does not  *)
(* parse, so in between what depends on the database is of the one before; *)
(* after that a handler stops it whatever it is.                           *)
Dependents == rules \cup playing
Places == {"boot", "packaged", "idle", "table", "mode", "parse", "print", "attach",
           "detached", "reset", "signals", "observation", "dependents"}
DependInv ==
  /\ loads \in Nat
  /\ ui \in Places
  /\ ui \in {"boot", "packaged"} => Dependents = {}
  /\ Observing => Dependents \subseteq {loads}
  /\ ui = "parse" => loads > 0 /\ Dependents \subseteq {loads - 1}

LEMMA DependInit == Init => DependInv
BY DEF Init, DependInv, Dependents, Places, Observing

LEMMA DependStep == DependInv /\ [Next]_vars => DependInv'
<1> SUFFICES ASSUME DependInv, [Next]_vars PROVE DependInv'
  OBVIOUS
<1> USE DEF DependInv, Observing, Places
<1>1. CASE PowerFails
  BY <1>1 DEF PowerFails, Dependents
<1>2. CASE CanTask
  BY <1>2 DEF CanTask, LoadMode, IsObserved, LoadDbc, DecodeObservedFrame,
     ReadDefinition, StoreValue, StoreValid, EndSignals, EndFrame, uiSide, uiVars,
     dependents, Dependents
<1>3. ASSUME NEW r \in Requests, Observe(r) PROVE DependInv'
  BY <1>3 DEF Observe, dependents, Dependents
<1>4. CASE SetMode \/ SetDecodeAll
  BY <1>4 DEF SetMode, SetDecodeAll, dependents, Dependents
<1>5. CASE CommitRules \/ StartReplay
  BY <1>5 DEF CommitRules, StartReplay, uiVars, Dependents
<1>6. ASSUME NEW t, DbcUpload(t) PROVE DependInv'
  BY <1>6 DEF DbcUpload, dependents, Dependents
<1>7. CASE ParseLine
  BY <1>7 DEF ParseLine, uiVars, dependents, Dependents
<1>8. CASE ParseFails
  BY <1>8 DEF ParseFails, dependents, Dependents
<1>9. CASE OpenFile \/ PrintText \/ AttachDbc \/ ClearDatabase \/ ResetForDbc
           \/ ClearSpecific \/ SetModeNone
  BY <1>9 DEF OpenFile, PrintText, AttachDbc, ClearDatabase, ResetForDbc,
     ClearSpecific, SetModeNone
<1>10. CASE DbcUnload \/ ResetSignal
  BY <1>10 DEF DbcUnload, ResetSignal, dependents, Dependents
<1>11. CASE StopDependents
  BY <1>11 DEF StopDependents, Dependents
<1>12. CASE UNCHANGED vars
  BY <1>12 DEF vars, uiVars, dependents, Dependents
<1>13. CASE OpenActive
  BY <1>13 DEF OpenActive, OpenAtBoot, dependents, Dependents
<1>14. CASE OpenPackaged
  <2>1. PICK file : OpenAtBoot(file, "idle") /\ ui = "packaged"
    BY <1>14 DEF OpenPackaged
  <2> QED
    BY <2>1 DEF OpenAtBoot, dependents, Dependents
<1> QED
  BY <1>1, <1>2, <1>3, <1>4, <1>5, <1>6, <1>7, <1>8, <1>9, <1>10, <1>11, <1>12,
     <1>13, <1>14
  DEF Next, UiTask

-----------------------------------------------------------------------------
(* Between requests, rules in force and a running replay were begun under  *)
(* the database of the last load (handleDbcUpload, handleDbcUnload).       *)
THEOREM DependentsAreOfThisDbc == Spec => []NothingOutlivesItsDbc
<1>1. DependInv => NothingOutlivesItsDbc
  BY DEF DependInv, Dependents, NothingOutlivesItsDbc, Observing, Idle
<1> QED
  BY <1>1, DependInit, DependStep, PTL DEF Spec

-----------------------------------------------------------------------------
(* A text, or a database, is none or one of at most MaxSignals signals;    *)
(* while it is parsed, a database is a beginning of its text.              *)
Slot == [name : SUBSET Files, value : SUBSET Files, valid : BOOLEAN]
TextOf(f, n) == [file |-> f, signals |-> n]
Held(s) ==
  s = {} \/ \E f \in Files, n \in 0 .. MaxSignals : s = {TextOf(f, n)}
FilesOf(s) == {d.file : d \in s}
DbcTypes ==
  /\ Held(stored) /\ Held(db) /\ Held(text)
  /\ ui = "parse" => \E f \in Files, m \in 0 .. MaxSignals :
       /\ text = {TextOf(f, m)}
       /\ db = {} \/ \E n \in 0 .. m : db = {TextOf(f, n)}
  /\ cache \in [Index -> Slot] /\ def \subseteq Files
  /\ next \in Nat /\ index \in Nat /\ signal_count \in 0 .. MaxSignals
  /\ ui \in Places /\ Held(installed)
  /\ ui \in {"print", "attach"} => db = text /\ text # {}

(* Until a load attaches its database, the signal cache lists the one that *)
(* was installed before; from the reset on it lists the new one, index by  *)
(* index.  A database that is not the installed one has no signals.        *)
NameOf(i) == Names(installed)[i].name
NamesDb(i) == i < Count(db) => cache[i].name = FilesOf(db)
ResetPlaces == {"signals", "observation", "dependents"}
Booting == ui \in {"boot", "packaged"}
Wrecked == IF wrecked THEN Count(db) = 0 ELSE db = installed
IndexInv ==
  /\ Observing \/ Booting \/ ui \in {"parse", "print", "attach"} =>
       /\ signal_count = Count(installed)
       /\ \A i \in Index : cache[i].name = NameOf(i)
       /\ active_dbc <=> installed # {}
  /\ Booting => installed = {}
  /\ Observing \/ Booting => Wrecked
  /\ ui = "detached" => ~active_dbc
  /\ ui \in {"reset"} \cup ResetPlaces =>
       db = installed /\ ~wrecked /\ (active_dbc <=> installed # {})
  /\ ui \in ResetPlaces =>
       /\ signal_count = Count(installed)
       /\ \A i \in Index : i < next => cache[i].name = NameOf(i)
  /\ ui \in {"observation", "dependents"} => next = MaxSignals

(* decode_all follows the mode, but for steps within a handler.             *)
ModeInv ==
  /\ ui \notin {"mode", "signals", "observation"} /\ mode = "ALL" => decode_all
  /\ ui = "mode" => \A r \in want : mode = "ALL" => r.mode = "ALL"
  /\ \A r, q \in want : r = q

(* How far the decoding of a frame has come, while all is observed and the *)
(* UI task leaves it alone.                                                *)
Decoding == {"signals", "value", "valid"}
Decoded(i) == cache[i].valid /\ cache[i].value = FilesOf(db)
DecodeInv ==
  calm /\ Idle /\ active_dbc /\ mode = "ALL" =>
    /\ can # "lookup"
    /\ can \in Decoding =>
         limit = Count(db) /\ \A i \in Index : i < index => Decoded(i)
    /\ can \in {"value", "valid"} => def = FilesOf(db) /\ index < Count(db)
    /\ can = "valid" => cache[index].value = def
    /\ can = "done" => \A i \in Index : i < Count(db) => Decoded(i)

(* A frame that meets no replacement decodes with the names in the cache.  *)
Matching(i) == cache[i].valid => cache[i].value = cache[i].name
MatchInv ==
  ~raced =>
    /\ can # "idle" => Observing
    /\ can \in {"dbc"} \cup Decoding => active_dbc
    /\ can \in {"value", "valid"} => def = FilesOf(db) /\ index < Count(db)
    /\ can = "valid" => cache[index].value = FilesOf(db)
    /\ \A i \in Index : (ui = "signals" => i < next) => Matching(i)

(* A frame that has a definition in hand across a replacement may store    *)
(* its value under a name of the next database, once: the reset has wiped  *)
(* what such frames stored before, and those that begin after it read      *)
(* their definitions from the new database.                                *)
Futile == ui = "parse" /\ \E t \in text : ~Parses(t)
Trusted == Observing \/ Booting \/ Futile \/ ui \in ResetPlaces
InForce(i) == ui = "signals" => i < next
Odd == can = "value" /\ def \notin {{}, NameOf(index)}
StrayInv ==
  Trusted =>
    /\ \A i, j \in Index :
         InForce(i) /\ InForce(j) /\ Stray(i) /\ Stray(j) => i = j
    /\ Odd => \A i \in Index : InForce(i) /\ Stray(i) => i = index

DbcInv ==
  DbcTypes /\ IndexInv /\ ModeInv /\ DecodeInv /\ MatchInv /\ StrayInv

(* A database's names are those of its file, for as many signals as it has.*)
LEMMA CountIs ==
  /\ Count({}) = 0 /\ FilesOf({}) = {}
  /\ \A f \in Files, n \in 0 .. MaxSignals :
       Count({TextOf(f, n)}) = n /\ FilesOf({TextOf(f, n)}) = {f}
<1>1. Count({}) = 0 /\ FilesOf({}) = {}
  BY DEF Count, FilesOf
<1>2. ASSUME NEW f \in Files, NEW n \in 0 .. MaxSignals
      PROVE  Count({TextOf(f, n)}) = n /\ FilesOf({TextOf(f, n)}) = {f}
  <2>1. TextOf(f, n).signals = n /\ TextOf(f, n).file = f
    BY DEF TextOf
  <2> DEFINE s == {TextOf(f, n)}
  <2>2. Count(s) = CHOOSE m \in 0 .. MaxSignals : \E t \in s : m = t.signals
    BY DEF Count
  <2>3. \A m \in 0 .. MaxSignals : (\E t \in s : m = t.signals) <=> m = n
    BY <2>1
  <2>4. Count(s) = n
    BY <2>2, <2>3
  <2>5. FilesOf(s) = {f}
    BY <2>1 DEF FilesOf
  <2> QED
    BY <2>4, <2>5
<1> QED
  BY <1>1, <1>2

LEMMA HeldIs ==
  ASSUME NEW s, Held(s)
  PROVE  Count(s) \in 0 .. MaxSignals /\ FilesOf(s) \subseteq Files
<1>1. CASE s = {}
  BY <1>1, CountIs, DbcAssumption
<1>2. ASSUME NEW f \in Files, NEW n \in 0 .. MaxSignals, s = {TextOf(f, n)}
      PROVE  Count(s) \in 0 .. MaxSignals /\ FilesOf(s) \subseteq Files
  <2>1. Count(s) = n /\ FilesOf(s) = {f}
    BY <1>2, CountIs
  <2> QED
    BY <2>1
<1> QED
  BY <1>1, <1>2 DEF Held

LEMMA NamesAre ==
  ASSUME NEW s, Held(s), NEW i \in Index
  PROVE  /\ Names(s)[i] \in Slot
         /\ ~Names(s)[i].valid /\ Names(s)[i].value = {}
         /\ i < Count(s) => Names(s)[i].name = FilesOf(s)
<1>1. i \in Nat
  BY DbcAssumption DEF Index
<1>2. Names(s)[i] =
        Signal(IF \E t \in s : i < t.signals THEN {t.file : t \in s} ELSE {})
  BY DEF Names
<1>3. CASE s = {}
  BY <1>1, <1>2, <1>3, CountIs DEF Signal, Slot
<1>4. ASSUME NEW f \in Files, NEW n \in 0 .. MaxSignals, s = {TextOf(f, n)}
      PROVE  /\ Names(s)[i] \in Slot
             /\ ~Names(s)[i].valid /\ Names(s)[i].value = {}
             /\ i < Count(s) => Names(s)[i].name = FilesOf(s)
  <2>1. TextOf(f, n).signals = n /\ Count(s) = n /\ FilesOf(s) = {f}
    BY <1>4, CountIs DEF TextOf
  <2>2. (\E t \in s : i < t.signals) <=> i < n
    BY <1>4, <2>1
  <2>3. Names(s)[i] = Signal(IF i < n THEN {f} ELSE {})
    BY <1>2, <2>1, <2>2 DEF FilesOf
  <2> QED
    BY <2>1, <2>3 DEF Signal, Slot
<1> QED
  BY <1>3, <1>4 DEF Held

(* A database whose signals the cache lists, or that has none.             *)
LEMMA FutileIs == ASSUME DbcTypes, Futile PROVE Count(db) = 0
<1>1. PICK f \in Files, m \in 0 .. MaxSignals :
        /\ text = {TextOf(f, m)}
        /\ db = {} \/ \E n \in 0 .. m : db = {TextOf(f, n)}
  BY DEF DbcTypes, Futile
<1>2. m = 0 /\ 0 \in 0 .. MaxSignals
  BY <1>1, DbcAssumption DEF Futile, Parses, TextOf
<1>3. db = {} \/ db = {TextOf(f, 0)}
  BY <1>1, <1>2
<1> QED
  BY <1>2, <1>3, CountIs

LEMMA ListedIs ==
  ASSUME DbcTypes, IndexInv
  PROVE  /\ Count(db) \in 0 .. MaxSignals /\ Count(installed) \in 0 .. MaxSignals
         /\ Trusted =>
              \A i \in Index : /\ InForce(i) => cache[i].name = NameOf(i)
                               /\ i < Count(db) => NameOf(i) = FilesOf(db)
         /\ Observing =>
              /\ Count(db) > 0 => signal_count = Count(db) /\ db = installed
              /\ \A i \in Index : NamesDb(i)
<1>1. Count(db) \in 0 .. MaxSignals /\ Count(installed) \in 0 .. MaxSignals
  BY HeldIs DEF DbcTypes
<1>2. \A i \in Index : i \in Nat /\ i < MaxSignals
  BY DbcAssumption DEF Index
<1>3. Trusted => Count(db) = 0 \/ db = installed
  BY FutileIs DEF IndexInv, Wrecked, Trusted, ResetPlaces
<1>4. ASSUME Trusted, NEW i \in Index
      PROVE  /\ InForce(i) => cache[i].name = NameOf(i)
             /\ i < Count(db) => NameOf(i) = FilesOf(db)
  <2>1. i < Count(installed) => NameOf(i) = FilesOf(installed)
    BY NamesAre DEF DbcTypes, NameOf
  <2>2. i < Count(db) => NameOf(i) = FilesOf(db)
    BY <1>1, <1>2, <1>3, <1>4, <2>1
  <2>3. ui \in ResetPlaces => \A j \in Index : j < next => cache[j].name = NameOf(j)
    BY DEF IndexInv
  <2>4. InForce(i) => cache[i].name = NameOf(i)
    BY <1>2, <1>4, <2>3
    DEF IndexInv, Trusted, Futile, Observing, Booting, InForce, ResetPlaces
  <2> QED
    BY <2>2, <2>4
<1>5. ASSUME Observing
      PROVE  /\ Count(db) > 0 => signal_count = Count(db) /\ db = installed
             /\ \A i \in Index : NamesDb(i)
  <2>1. Count(db) > 0 => db = installed
    BY <1>5 DEF IndexInv, Wrecked
  <2>2. \A i \in Index : InForce(i)
    BY <1>5 DEF InForce, Observing
  <2>3. \A i \in Index : NamesDb(i)
    BY <1>4, <1>5, <2>2 DEF NamesDb, Trusted
  <2>4. signal_count = Count(installed)
    BY <1>5 DEF IndexInv
  <2> QED
    BY <2>1, <2>3, <2>4
<1> QED
  BY <1>1, <1>4, <1>5

(* Steps that store no value leave the strays as they are.                 *)
LEMMA StrayKept ==
  ASSUME StrayInv, UNCHANGED <<cache, can, def, index, installed, next>>,
         Trusted' => Trusted,
         ui = "signals" => ui' = "signals" \/ next = MaxSignals
  PROVE  StrayInv'
<1>1. \A i \in Index : InForce(i)' => InForce(i)
  BY DbcAssumption DEF InForce, Index
<1>2. \A i \in Index : Stray(i)' <=> Stray(i)
  BY DEF Stray
<1>3. Odd' <=> Odd
  BY DEF Odd, NameOf
<1> QED
  BY <1>1, <1>2, <1>3 DEF StrayInv

(* Nothing is listed: after a start or a power failure.                    *)
LEMMA NothingIs ==
  ASSUME NEW c, c = Names({})
  PROVE  /\ c \in [Index -> Slot]
         /\ \A i \in Index : ~c[i].valid /\ c[i].value = {}
<1>1. Held({})
  BY DEF Held
<1>2. \A i \in Index : /\ Names({})[i] \in Slot
                       /\ ~Names({})[i].valid /\ Names({})[i].value = {}
  BY <1>1, NamesAre
<1>3. Names({}) = [i \in Index |-> Names({})[i]]
  BY DEF Names
<1> QED
  BY <1>2, <1>3

(* What storing a signal does to the signal cache.                         *)
LEMMA StoreIs ==
  ASSUME DbcTypes, StoreValue \/ StoreValid
  PROVE  /\ cache' \in [Index -> Slot]
         /\ \A i \in Index :
              /\ cache'[i].name = cache[i].name
              /\ i # index => cache'[i] = cache[i]
              /\ i = index /\ StoreValue =>
                   /\ cache'[i].value = def
                   /\ cache'[i].valid = cache[i].valid
              /\ i = index /\ StoreValid =>
                   cache'[i].value = cache[i].value /\ cache'[i].valid
<1>1. cache \in [Index -> Slot] /\ def \subseteq Files
  BY DEF DbcTypes
<1>2. CASE StoreValue
  <2>1. cache' = [cache EXCEPT ![index].value = def] /\ can = "value"
    BY <1>2 DEF StoreValue
  <2> QED
    BY <1>1, <2>1 DEF Slot, StoreValid
<1>3. CASE StoreValid
  <2>1. cache' = [cache EXCEPT ![index].valid = TRUE] /\ can = "valid"
    BY <1>3 DEF StoreValid
  <2> QED
    BY <1>1, <2>1 DEF Slot, StoreValue
<1> QED
  BY <1>2, <1>3

-----------------------------------------------------------------------------
LEMMA DbcInit == Init => DbcInv
<1> SUFFICES ASSUME Init PROVE DbcInv
  OBVIOUS
<1>1. Held({}) /\ Count({}) = 0 /\ 0 \in 0 .. MaxSignals
  BY CountIs, DbcAssumption DEF Held
<1>2. /\ cache \in [Index -> Slot]
      /\ \A i \in Index : ~cache[i].valid /\ cache[i].value = {}
  BY NothingIs DEF Init
<1>3. DbcTypes
  BY <1>1, <1>2 DEF Init, DbcTypes, Places
<1>4. IndexInv
  BY <1>1 DEF Init, IndexInv, ResetPlaces, NameOf, Booting, Wrecked, Observing
<1>5. ModeInv /\ DecodeInv /\ MatchInv
  BY <1>2 DEF Init, ModeInv, DecodeInv, MatchInv, Matching, Decoding
<1>6. StrayInv
  BY <1>2 DEF Init, StrayInv, Stray, Odd
<1> QED
  BY <1>3, <1>4, <1>5, <1>6 DEF DbcInv

(* Power fails: what is in RAM is lost.                                    *)
LEMMA PowerStep ==
  ASSUME DbcInv, PowerFails
  PROVE  DbcInv'
<1>1. Held(stored) /\ Held({}) /\ Count({}) = 0 /\ 0 \in 0 .. MaxSignals
  BY CountIs, DbcAssumption DEF DbcInv, DbcTypes, Held
<1>2. /\ db' = {} /\ active_dbc' = FALSE /\ signal_count' = 0
      /\ cache' = Names({}) /\ stored' = stored
      /\ ui' = "boot" /\ text' = {} /\ want' = {} /\ next' = 0
      /\ can' = "idle" /\ index' = 0 /\ def' = {} /\ calm' = FALSE
      /\ mode' = "NONE" /\ installed' = {} /\ wrecked' = FALSE
  BY DEF PowerFails
<1>3. /\ cache' \in [Index -> Slot]
      /\ \A i \in Index : ~cache'[i].valid /\ cache'[i].value = {}
  BY <1>2, NothingIs
<1>4. DbcTypes'
  BY <1>1, <1>2, <1>3 DEF DbcTypes, Places
<1>5. IndexInv'
  BY <1>1, <1>2 DEF IndexInv, ResetPlaces, NameOf, Booting, Wrecked, Observing
<1>6. ModeInv' /\ DecodeInv'
  BY <1>2 DEF ModeInv, DecodeInv, Idle
<1>7. MatchInv'
  BY <1>2, <1>3 DEF MatchInv, Matching, Decoding
<1>8. StrayInv'
  BY <1>2, <1>3 DEF StrayInv, Stray, Odd
<1> QED
  BY <1>4, <1>5, <1>6, <1>7, <1>8 DEF DbcInv

(* Boot parses what it finds, and attaches it as an upload does.           *)
LEMMA BootStep ==
  ASSUME DbcInv, OpenActive \/ OpenPackaged
  PROVE  DbcInv'
<1>1. PICK file, otherwise :
        /\ OpenAtBoot(file, otherwise) /\ Held(file)
        /\ ui \in {"boot", "packaged"} /\ otherwise \in {"packaged", "idle"}
  <2>1. CASE OpenActive
    BY <2>1 DEF OpenActive, DbcInv, DbcTypes
  <2>2. CASE OpenPackaged
    <3>1. PICK file \in {{}} \cup {{Whole(f)} : f \in Packaged} :
            OpenAtBoot(file, "idle")
      BY <2>2 DEF OpenPackaged
    <3>2. ASSUME NEW f \in Packaged PROVE Held({Whole(f)})
      <4>1. f \in Files /\ Signals[f] \in 0 .. MaxSignals
        BY DbcAssumption
      <4> QED
        BY <4>1 DEF Whole, TextOf, Held
    <3>3. Held(file)
      BY <3>1, <3>2 DEF Held
    <3> QED
      BY <2>2, <3>1, <3>3 DEF OpenPackaged
  <2> QED
    BY <2>1, <2>2
<1>2. /\ UNCHANGED <<stored, active_dbc, signal_count, decode_all, cache, mode,
                     want, next, canVars, calm, raced, installed>>
      /\ db' = IF file = {} THEN db ELSE file
      /\ wrecked' = (db' # {})
      /\ IF \E t \in file : Parses(t) THEN ui' = "attach" /\ text' = file
         ELSE ui' = otherwise /\ text' = text
  BY <1>1 DEF OpenAtBoot, cacheVars, observation
<1>3. Held(db') /\ Held(text')
  BY <1>1, <1>2 DEF DbcInv, DbcTypes
<1>4. ui' # "attach" => Count(db') = 0
  <2>1. SUFFICES ASSUME ui' # "attach" PROVE Count(db') = 0
    OBVIOUS
  <2>2. Count(db) = 0
    BY <1>1, CountIs DEF DbcInv, IndexInv, Booting, Wrecked
  <2>3. CASE file = {}
    BY <1>2, <2>2, <2>3
  <2>4. ASSUME NEW f \in Files, NEW n \in 0 .. MaxSignals, file = {TextOf(f, n)}
        PROVE  Count(file) = 0
    <3>1. ~Parses(TextOf(f, n))
      BY <1>2, <2>1, <2>4
    <3>2. n = 0 /\ Count(file) = n
      BY <2>4, <3>1, CountIs DEF Parses, TextOf
    <3> QED
      BY <3>2
  <2> QED
    BY <1>1, <1>2, <2>3, <2>4 DEF Held
<1>5. ui' \in {"attach", "packaged", "idle"}
  BY <1>1, <1>2
<1>6. DbcTypes'
  <2>1. ui' = "attach" => db' = text' /\ text' # {}
    BY <1>1, <1>2
  <2> QED
    BY <1>2, <1>3, <1>5, <2>1 DEF DbcInv, DbcTypes, canVars, Places
<1>7. IndexInv'
  <2>1. Wrecked' \/ ui' = "attach"
    <3>1. ~wrecked' => db' = {}
      BY <1>2
    <3>2. installed' = {}
      BY <1>1, <1>2 DEF DbcInv, IndexInv, Booting
    <3> QED
      BY <1>4, <3>1, <3>2 DEF Wrecked
  <2>2. \A i \in Index : cache'[i].name = NameOf(i)'
    BY <1>1, <1>2 DEF DbcInv, IndexInv, Booting, NameOf
  <2> QED
    BY <1>1, <1>2, <1>5, <2>1, <2>2
    DEF DbcInv, IndexInv, Booting, Observing, ResetPlaces
<1>8. ModeInv'
  BY <1>1, <1>2, <1>5 DEF DbcInv, ModeInv
<1>9. DecodeInv'
  <2>1. active_dbc' = FALSE \/ ~active_dbc'
    BY <1>1, <1>2 DEF DbcInv, IndexInv, Booting
  <2> QED
    BY <2>1 DEF DecodeInv
<1>10. MatchInv'
  BY <1>1, <1>2, <1>5
  DEF DbcInv, MatchInv, Matching, Observing, Decoding, canVars
<1>11. StrayInv'
  BY <1>1, <1>2, <1>5, StrayKept DEF DbcInv, Trusted, Booting, canVars
<1> QED
  BY <1>6, <1>7, <1>8, <1>9, <1>10, <1>11 DEF DbcInv

(* Requests that leave the database and the signal cache alone.            *)
Requesting ==
  \/ \E r \in Requests : Observe(r)
  \/ SetMode \/ SetDecodeAll \/ CommitRules \/ StartReplay
LEMMA RequestStep ==
  ASSUME DbcInv, Requesting
  PROVE  DbcInv'
<1>1. /\ UNCHANGED <<stored, db, active_dbc, signal_count, cache, text, next,
                     canVars, raced, installed, wrecked>>
      /\ calm' = FALSE /\ Observing /\ Observing'
  BY DEF Requesting, Observe, SetMode, SetDecodeAll, CommitRules, StartReplay,
     cacheVars, uiVars, system, Observing
<1>2. ui \notin {"parse", "detached", "reset", "observation", "dependents"} \cup ResetPlaces
      /\ ui' \in {"idle", "table", "mode"}
  BY <1>1 DEF Observing, ResetPlaces
<1>3. DbcTypes'
  BY <1>1, <1>2 DEF DbcInv, DbcTypes, canVars, Places
<1>4. IndexInv'
  BY <1>1, <1>2 DEF DbcInv, IndexInv, Booting, Wrecked, NameOf, Observing,
     ResetPlaces
<1>5. ModeInv'
  <2>1. CASE SetMode
    BY <2>1 DEF SetMode, DbcInv, ModeInv
  <2>2. CASE SetDecodeAll
    BY <2>2 DEF SetDecodeAll, DbcInv, ModeInv, observation
  <2>3. ASSUME NEW r, Observe(r) PROVE ModeInv'
    BY <2>3 DEF Observe, DbcInv, ModeInv, cacheVars
  <2>4. CASE CommitRules \/ StartReplay
    BY <2>4 DEF CommitRules, StartReplay, DbcInv, ModeInv, cacheVars,
       observation, uiVars
  <2> QED
    BY <2>1, <2>2, <2>3, <2>4 DEF Requesting
<1>6. DecodeInv'
  BY <1>1 DEF DecodeInv
<1>7. MatchInv'
  BY <1>1, <1>2 DEF DbcInv, MatchInv, Matching, canVars, Observing, ResetPlaces
<1>8. StrayInv'
  BY <1>1, <1>2, StrayKept DEF DbcInv, Trusted, ResetPlaces, canVars
<1> QED
  BY <1>3, <1>4, <1>5, <1>6, <1>7, <1>8 DEF DbcInv

(* A load takes the database away from the CAN task only if it has no      *)
(* frame in hand, or else the signal cache is no longer trusted.           *)
LEMMA LoadStep ==
  ASSUME DbcInv, (\E t : DbcUpload(t) /\ Held({t})) \/ DbcUnload
  PROVE  DbcInv'
<1>1. /\ UNCHANGED <<stored, cacheVars, observation, want, next, canVars,
                     installed, wrecked>>
      /\ calm' = FALSE /\ ui = "idle" /\ (raced' <=> raced \/ can # "idle")
  BY DEF DbcUpload, DbcUnload, system
<1>2. DecodeInv'
  BY <1>1 DEF DecodeInv
<1>3. ModeInv'
  <2>1. ui' \in {"parse", "detached"}
    BY DEF DbcUpload, DbcUnload
  <2> QED
    BY <1>1, <2>1 DEF DbcInv, ModeInv, cacheVars, observation
<1>4. MatchInv'
  <2>1. ui' \in {"parse", "detached"}
    BY DEF DbcUpload, DbcUnload
  <2> QED
    BY <1>1, <2>1 DEF DbcInv, MatchInv, Matching, cacheVars, canVars, Decoding
<1>5. ASSUME NEW t, DbcUpload(t), Held({t}) PROVE DbcTypes' /\ IndexInv'
  <2>1. ui' = "parse" /\ text' = {t} /\ db' = {} /\ active_dbc' = active_dbc
    BY <1>5 DEF DbcUpload
  <2>2. PICK f \in Files, m \in 0 .. MaxSignals : {t} = {TextOf(f, m)}
    BY <1>5 DEF Held
  <2>3. Held({})
    BY DEF Held
  <2>4. DbcTypes'
    BY <1>1, <1>5, <2>1, <2>2, <2>3
    DEF DbcInv, DbcTypes, cacheVars, canVars, Places
  <2>5. IndexInv'
    BY <1>1, <2>1 DEF DbcInv, IndexInv, Booting, Wrecked, NameOf, Observing,
       ResetPlaces, cacheVars
  <2> QED
    BY <2>4, <2>5
<1>6. ASSUME DbcUnload PROVE DbcTypes' /\ IndexInv'
  <2>1. ui' = "detached" /\ ~active_dbc' /\ UNCHANGED <<db, text>>
    BY <1>6 DEF DbcUnload
  <2>2. DbcTypes'
    BY <1>1, <2>1 DEF DbcInv, DbcTypes, cacheVars, canVars, Places
  <2>3. IndexInv'
    BY <1>1, <2>1 DEF IndexInv, Booting, Observing, ResetPlaces
  <2> QED
    BY <2>2, <2>3
<1>7. StrayInv'
  <2>1. ui' \in {"parse", "detached"}
    BY DEF DbcUpload, DbcUnload
  <2> QED
    BY <1>1, <2>1, StrayKept
    DEF DbcInv, Trusted, Observing, cacheVars, canVars
<1> QED
  BY <1>2, <1>3, <1>4, <1>5, <1>6, <1>7 DEF DbcInv

(* The lines of the text become the database, one by one.                  *)
LEMMA ParseStep ==
  ASSUME DbcInv, ParseLine
  PROVE  DbcInv'
<1>1. /\ UNCHANGED <<stored, active_dbc, cacheVars, observation, text, want, next,
                     ui, canVars, raced, installed, wrecked>>
      /\ ui = "parse" /\ db # text /\ calm' = FALSE
  BY DEF ParseLine, uiVars, system
<1>2. PICK f \in Files, m \in 0 .. MaxSignals :
        /\ text = {TextOf(f, m)}
        /\ db = {} \/ \E n \in 0 .. m : db = {TextOf(f, n)}
  BY <1>1 DEF DbcInv, DbcTypes
<1>3. MaxSignals \in Nat /\ m \in Nat
  BY DbcAssumption
<1>4. \E n \in 0 .. m : db' = {TextOf(f, n)}
  <2>1. CASE db = {}
    BY <1>2, <1>3, <2>1 DEF ParseLine, TextOf
  <2>2. ASSUME NEW n \in 0 .. m, db = {TextOf(f, n)}
        PROVE  n + 1 \in 0 .. m /\ db' = {TextOf(f, n + 1)}
    <3>1. n # m
      BY <1>1, <1>2, <2>2
    <3>2. db' = {[d EXCEPT !.signals = @ + 1] : d \in db}
      BY <2>2, <1>2 DEF ParseLine
    <3>3. [TextOf(f, n) EXCEPT !.signals = @ + 1] = TextOf(f, n + 1)
      BY DEF TextOf
    <3> QED
      BY <1>3, <2>2, <3>1, <3>2, <3>3
  <2> QED
    BY <1>2, <2>1, <2>2
<1>5. Held(db')
  BY <1>3, <1>4 DEF Held
<1>6. DbcTypes'
  BY <1>1, <1>2, <1>4, <1>5 DEF DbcInv, DbcTypes, cacheVars, canVars, Places
<1>7. IndexInv' /\ ModeInv' /\ DecodeInv'
  BY <1>1 DEF DbcInv, IndexInv, Booting, NameOf, ModeInv, DecodeInv, Observing,
     ResetPlaces, cacheVars, observation
<1>8. MatchInv'
  BY <1>1 DEF DbcInv, MatchInv, Matching, Observing, Decoding, cacheVars, canVars
<1>9. StrayInv'
  BY <1>1, StrayKept
  DEF DbcInv, Trusted, Futile, Observing, Booting, ResetPlaces, cacheVars, canVars
<1> QED
  BY <1>6, <1>7, <1>8, <1>9 DEF DbcInv

(* The parse ends; its text is stored and the database attached.           *)
LEMMA StoreStep ==
  ASSUME DbcInv, ParseFails \/ OpenFile \/ PrintText \/ AttachDbc
  PROVE  DbcInv'
<1>1. /\ UNCHANGED <<db, cacheVars, observation, want, next, canVars, raced>>
      /\ ui \in {"parse", "print", "attach"}
      /\ ui' \in {"idle", "print", "attach", "reset"} /\ calm' = FALSE
      /\ ui' = "idle" => ui = "parse"
      /\ UNCHANGED active_dbc \/ (active_dbc' /\ ui' = "reset")
      /\ ui = "attach" => ui' = "reset"
      /\ ui' = "reset" => active_dbc'
      /\ ui' # "idle" => text' = text
      /\ IF ui' = "reset" THEN installed' = text /\ ~wrecked'
         ELSE installed' = installed
  BY DEF ParseFails, OpenFile, PrintText, AttachDbc, system
<1>2. Held(stored') /\ Held(text')
  <2>1. Held(text) /\ Held(stored) /\ Held({})
    BY DEF DbcInv, DbcTypes, Held
  <2>2. CASE ParseFails \/ AttachDbc
    BY <2>1, <2>2 DEF ParseFails, AttachDbc
  <2>3. ASSUME NEW t \in text, NEW n \in 0 .. MaxSignals
        PROVE  Held({[t EXCEPT !.signals = n]})
    BY <2>1 DEF Held, TextOf
  <2>4. CASE OpenFile
    <3>1. stored' = {[t EXCEPT !.signals = 0] : t \in text} /\ text' = text
      BY <2>4 DEF OpenFile
    <3>2. CASE text = {}
      BY <3>1, <3>2 DEF Held
    <3>3. ASSUME NEW t \in text PROVE Held(stored')
      <4>1. text = {t} /\ 0 \in 0 .. MaxSignals
        BY <2>1, DbcAssumption DEF Held
      <4>2. stored' = {[t EXCEPT !.signals = 0]}
        BY <3>1, <4>1
      <4> QED
        BY <2>3, <4>1, <4>2
    <3> QED
      BY <2>1, <3>1, <3>2, <3>3
  <2>5. CASE PrintText
    BY <2>1, <2>3, <2>5 DEF PrintText
  <2> QED
    BY <2>2, <2>4, <2>5
<1>3. DbcTypes'
  <2>1. ui' \in {"print", "attach"} => db' = text' /\ text' # {}
    <3>1. CASE OpenFile
      BY <1>1, <3>1 DEF OpenFile, DbcInv, DbcTypes
    <3>2. CASE PrintText
      BY <1>1, <3>2 DEF PrintText, DbcInv, DbcTypes
    <3>3. CASE ParseFails \/ AttachDbc
      BY <3>3 DEF ParseFails, AttachDbc
    <3> QED
      BY <3>1, <3>2, <3>3
  <2>2. ui' # "parse" /\ Held(installed')
    BY <1>1 DEF DbcInv, DbcTypes
  <2> QED
    BY <1>1, <1>2, <2>1, <2>2 DEF DbcInv, DbcTypes, cacheVars, canVars, Places
<1>4. IndexInv'
  <2>1. CASE ParseFails
    <3>1. /\ Futile /\ ui' = "idle" /\ active_dbc' = active_dbc
          /\ wrecked' /\ installed' = installed
      BY <2>1 DEF ParseFails, Futile
    <3>2. Count(db) = 0
      BY <3>1, FutileIs DEF DbcInv
    <3> QED
      BY <1>1, <3>1, <3>2
      DEF DbcInv, IndexInv, Wrecked, NameOf, Booting, Observing, ResetPlaces,
          cacheVars, Futile
  <2>2. CASE OpenFile \/ PrintText
    <3>1. /\ UNCHANGED <<active_dbc, installed>> /\ ui \in {"parse", "print"}
          /\ ui' \in {"print", "attach"}
      BY <2>2 DEF OpenFile, PrintText, system
    <3> QED
      BY <1>1, <3>1
      DEF DbcInv, IndexInv, NameOf, Booting, Observing, ResetPlaces, cacheVars
  <2>3. CASE AttachDbc
    <3>1. /\ active_dbc' /\ installed' = text /\ ~wrecked' /\ db' = db
          /\ ui' = "reset" /\ db = text /\ text # {}
      BY <2>3 DEF AttachDbc, DbcInv, DbcTypes
    <3> QED
      BY <3>1 DEF IndexInv, Booting, Observing, ResetPlaces
  <2> QED
    BY <2>1, <2>2, <2>3
<1>5. ModeInv' /\ DecodeInv'
  BY <1>1 DEF DbcInv, ModeInv, DecodeInv, cacheVars, observation
<1>6. MatchInv'
  BY <1>1
  DEF DbcInv, MatchInv, Matching, Observing, Decoding, cacheVars, canVars
<1>7. StrayInv'
  <2>1. CASE ParseFails
    <3>1. Trusted /\ ui # "signals" /\ UNCHANGED installed
      BY <2>1 DEF ParseFails, Trusted, Futile
    <3> QED
      BY <1>1, <3>1, StrayKept DEF DbcInv, cacheVars, canVars
  <2>2. CASE ~ParseFails
    <3>1. ui' \in {"print", "attach", "reset"}
      BY <2>2 DEF OpenFile, PrintText, AttachDbc
    <3> QED
      BY <3>1 DEF StrayInv, Trusted, Futile, Observing, Booting, ResetPlaces
  <2> QED
    BY <2>1, <2>2
<1> QED
  BY <1>3, <1>4, <1>5, <1>6, <1>7 DEF DbcInv

(* The handler's end: the signal cache takes the names of the database,    *)
(* index by index, with no value.                                          *)
LEMMA ResetSignalStep ==
  ASSUME DbcInv, ResetSignal
  PROVE  DbcInv'
<1>1. /\ UNCHANGED <<stored, db, active_dbc, signal_count, decode_all,
                     observation, ui, text, want, canVars, raced, installed, wrecked>>
      /\ ui = "signals" /\ next \in Index /\ next' = next + 1 /\ calm' = FALSE
      /\ cache' = [cache EXCEPT ![next] = Names(db)[next]]
  BY DEF ResetSignal, system
<1>2. /\ cache \in [Index -> Slot] /\ Held(db) /\ MaxSignals \in Nat
  BY DbcAssumption DEF DbcInv, DbcTypes
<1>3. /\ Names(db)[next] \in Slot
      /\ ~Names(db)[next].valid /\ Names(db)[next].value = {}
      /\ next < Count(db) => Names(db)[next].name = FilesOf(db)
      /\ Names(db)[next].name = NameOf(next)
  <2>1. db = installed
    BY <1>1 DEF DbcInv, IndexInv, ResetPlaces
  <2> QED
    BY <1>1, <1>2, <2>1, NamesAre DEF NameOf
<1>4. /\ cache' \in [Index -> Slot]
      /\ \A i \in Index :
           cache'[i] = IF i = next THEN Names(db)[next] ELSE cache[i]
  BY <1>1, <1>2, <1>3
<1>5. \A i \in Index : i < next' => i < next \/ i = next
  BY <1>1, <1>2 DEF Index
<1>6. DbcTypes'
  BY <1>1, <1>2, <1>4 DEF DbcInv, DbcTypes, canVars, Index, Places
<1>7. IndexInv'
  <2>1. \A i \in Index : NameOf(i)' = NameOf(i)
    BY <1>1 DEF NameOf
  <2>2. \A i \in Index : i < next' => cache'[i].name = NameOf(i)
    BY <1>1, <1>3, <1>4, <1>5 DEF DbcInv, IndexInv, ResetPlaces
  <2> QED
    BY <1>1, <2>1, <2>2
    DEF DbcInv, IndexInv, Booting, Observing, ResetPlaces
<1>8. ModeInv' /\ DecodeInv'
  BY <1>1 DEF DbcInv, ModeInv, DecodeInv, observation
<1>9. MatchInv'
  BY <1>1, <1>3, <1>4, <1>5
  DEF DbcInv, MatchInv, Matching, Observing, Decoding, canVars
<1>10. StrayInv'
  <2>1. \A i \in Index : InForce(i)' => i = next \/ (InForce(i) /\ i < next)
    BY <1>1, <1>5 DEF InForce
  <2>2. \A i \in Index : IF i = next THEN ~Stray(i)' ELSE Stray(i)' <=> Stray(i)
    BY <1>1, <1>3, <1>4 DEF Stray
  <2>3. Odd' <=> Odd
    BY <1>1 DEF Odd, NameOf, canVars
  <2>4. Trusted /\ index' = index
    BY <1>1 DEF Trusted, ResetPlaces, canVars
  <2> QED
    BY <2>1, <2>2, <2>3, <2>4 DEF DbcInv, StrayInv
<1> QED
  BY <1>6, <1>7, <1>8, <1>9, <1>10 DEF DbcInv

LEMMA ResetStep ==
  ASSUME DbcInv,
         ClearDatabase \/ ResetForDbc \/ ClearSpecific \/ SetModeNone
         \/ StopDependents
  PROVE  DbcInv'
<1>1. /\ UNCHANGED <<active_dbc, cache, want, canVars>> /\ calm' = FALSE
      /\ ui' \in {"reset", "signals", "observation", "dependents", "idle"}
      /\ ui \in {"detached", "reset", "signals", "observation", "dependents"}
  BY DEF ClearDatabase, ResetForDbc, ClearSpecific, SetModeNone, StopDependents,
     cacheVars
<1>2. DbcTypes'
  <2>1. Held(stored') /\ Held(text') /\ Held(db') /\ next' \in Nat
    <3>1. Held({})
      BY DEF Held
    <3> QED
      BY <3>1 DEF DbcInv, DbcTypes, ClearDatabase, ResetForDbc, ClearSpecific,
         SetModeNone, StopDependents
  <2>2. signal_count' \in 0 .. MaxSignals
    BY HeldIs DEF DbcInv, DbcTypes, ClearDatabase, ResetForDbc, BoundedCount,
       ClearSpecific, SetModeNone, StopDependents, cacheVars
  <2>3. Held(installed') /\ ui' \in Places
    <3>1. Held({})
      BY DEF Held
    <3> QED
      BY <1>1, <3>1 DEF DbcInv, DbcTypes, Places, ClearDatabase, ResetForDbc,
         ClearSpecific, SetModeNone, StopDependents, system
  <2> QED
    BY <1>1, <2>1, <2>2, <2>3 DEF DbcInv, DbcTypes, canVars
<1>3. IndexInv'
  <2>1. CASE ClearDatabase
    <3>1. /\ ui = "detached" /\ ui' = "reset" /\ db' = {} /\ installed' = {}
          /\ ~wrecked'
      BY <2>1 DEF ClearDatabase
    <3> QED
      BY <1>1, <3>1 DEF DbcInv, IndexInv, Booting, Observing, ResetPlaces
  <2>2. CASE ResetForDbc
    <3>1. \A i \in Index : ~(i < 0)
      BY DbcAssumption DEF Index
    <3>2. /\ ui = "reset" /\ ui' = "signals" /\ next' = 0
          /\ signal_count' = Count(db) /\ UNCHANGED <<db, installed, wrecked>>
      BY <2>2 DEF ResetForDbc, BoundedCount, system
    <3> QED
      BY <1>1, <3>1, <3>2 DEF DbcInv, IndexInv, Booting, Observing, ResetPlaces
  <2>3. CASE ClearSpecific \/ SetModeNone
    <3>1. /\ ui \in ResetPlaces /\ ui' \in {"observation", "dependents"}
          /\ ui = "signals" => next = MaxSignals
          /\ UNCHANGED <<db, signal_count, next, installed, wrecked>>
      BY <2>3 DEF ClearSpecific, SetModeNone, ResetPlaces, cacheVars, system
    <3> QED
      BY <1>1, <3>1
      DEF DbcInv, IndexInv, NameOf, Booting, Observing, ResetPlaces
  <2>4. CASE StopDependents
    <3>1. /\ ui = "dependents" /\ ui' = "idle"
          /\ UNCHANGED <<db, signal_count, installed, wrecked>>
      BY <2>4 DEF StopDependents, cacheVars
    <3>2. \A i \in Index : i < next
      BY <3>1, DbcAssumption DEF DbcInv, IndexInv, ResetPlaces, Index
    <3> QED
      BY <1>1, <3>1, <3>2
      DEF DbcInv, IndexInv, Wrecked, NameOf, Booting, Observing, ResetPlaces
  <2> QED
    BY <2>1, <2>2, <2>3, <2>4
<1>4. ModeInv'
  BY <1>1 DEF DbcInv, ModeInv, ClearDatabase, ResetForDbc, ClearSpecific,
     SetModeNone, StopDependents, cacheVars, observation
<1>5. DecodeInv'
  BY <1>1 DEF DecodeInv
<1>6. MatchInv'
  <2>1. CASE ResetForDbc
    <3>1. \A i \in Index : ~(i < 0)
      BY DbcAssumption DEF Index
    <3> QED
      BY <1>1, <2>1, <3>1 DEF ResetForDbc, MatchInv, Decoding, canVars
  <2>2. CASE ~ResetForDbc
    <3>1. raced' = raced /\ (ui' = "signals" => FALSE)
      BY <2>2 DEF ClearDatabase, ClearSpecific, SetModeNone, StopDependents
    <3>2. ui = "signals" => next = MaxSignals
      BY <2>2 DEF ClearDatabase, ClearSpecific, SetModeNone, StopDependents
    <3>3. \A i \in Index : ui = "signals" => i < next
      BY <3>2, DbcAssumption DEF Index
    <3> QED
      BY <1>1, <3>1, <3>3
      DEF DbcInv, MatchInv, Matching, Observing, Decoding, canVars
  <2> QED
    BY <2>1, <2>2
<1>7. StrayInv'
  <2>1. CASE ClearDatabase
    <3>1. ui' = "reset"
      BY <2>1 DEF ClearDatabase
    <3> QED
      BY <3>1 DEF StrayInv, Trusted, Futile, Observing, Booting, ResetPlaces
  <2>2. CASE ResetForDbc
    <3>1. \A i \in Index : ~InForce(i)'
      BY <2>2, DbcAssumption DEF ResetForDbc, InForce, Index
    <3> QED
      BY <3>1 DEF StrayInv
  <2>3. CASE ClearSpecific \/ SetModeNone \/ StopDependents
    <3>1. /\ UNCHANGED <<installed, next>> /\ ui \in ResetPlaces
          /\ ui = "signals" => next = MaxSignals
      BY <2>3 DEF ClearSpecific, SetModeNone, StopDependents, system, ResetPlaces
    <3> QED
      BY <1>1, <3>1, StrayKept DEF DbcInv, Trusted, canVars
  <2> QED
    BY <2>1, <2>2, <2>3
<1> QED
  BY <1>2, <1>3, <1>4, <1>5, <1>6, <1>7 DEF DbcInv

(* A step of the CAN task that only reads what the UI task owns.           *)
LEMMA ReadStep ==
  ASSUME DbcInv,
         (\E k \in Keys : LoadMode(k)) \/ IsObserved \/ LoadDbc
         \/ DecodeObservedFrame \/ ReadDefinition \/ EndSignals \/ EndFrame
  PROVE  DbcInv'
<1>1. UNCHANGED <<uiSide, cache>>
  BY DEF LoadMode, IsObserved, LoadDbc, DecodeObservedFrame, ReadDefinition,
     EndSignals, EndFrame
<1>2. DbcTypes'
  <2>1. index' \in Nat /\ def' \subseteq Files
    BY HeldIs DEF DbcInv, DbcTypes, FilesOf, LoadMode, IsObserved, LoadDbc,
       DecodeObservedFrame, ReadDefinition, EndSignals, EndFrame
  <2> QED
    BY <1>1, <2>1 DEF DbcInv, DbcTypes, uiSide, uiVars, system
<1>3. IndexInv' /\ ModeInv'
  BY <1>1 DEF DbcInv, IndexInv, Booting, Wrecked, NameOf, ModeInv, Observing,
     uiSide, uiVars, observation, system
<1>4. Count(db) \in 0 .. MaxSignals /\ index \in Nat /\ MaxSignals \in Nat
  BY HeldIs, DbcAssumption DEF DbcInv, DbcTypes
<1>5. UNCHANGED <<cache, db, active_dbc, signal_count, decode_all, mode, ui, next>>
  BY <1>1 DEF uiSide, uiVars, observation
<1>6. DecodeInv'
  <2> SUFFICES ASSUME calm', Idle, active_dbc, mode = "ALL"
               PROVE  /\ can' # "lookup"
                      /\ can' \in Decoding =>
                           /\ limit' = Count(db)
                           /\ \A i \in Index : i < index' => Decoded(i)
                      /\ can' \in {"value", "valid"} =>
                           def' = FilesOf(db) /\ index' < Count(db)
                      /\ can' = "valid" => cache[index']. value = def'
                      /\ can' = "done" =>
                           \A i \in Index : i < Count(db) => Decoded(i)
    BY <1>5 DEF DecodeInv, Decoded, Idle
  <2>1. \A i \in Index : ~(i < 0) /\ i \in Int
    BY DbcAssumption DEF Index
  <2>2. ASSUME NEW k, LoadMode(k) PROVE can' = "observed"
    BY <2>2 DEF LoadMode
  <2>3. CASE EndFrame
    BY <2>3 DEF EndFrame
  <2>4. CASE IsObserved \/ LoadDbc
    <3>1. calm
      BY <2>4 DEF IsObserved, LoadDbc
    <3> QED
      BY <2>4, <3>1 DEF IsObserved, LoadDbc, DbcInv, DecodeInv, Decoding
  <2>5. CASE DecodeObservedFrame
    <3>1. decode_all /\ (Count(db) > 0 => signal_count = Count(db))
      BY ListedIs DEF DbcInv, ModeInv, Observing, Idle
    <3>2. /\ can' = IF Count(db) > 0 THEN "signals" ELSE "done"
          /\ limit' = signal_count /\ index' = 0
      BY <2>5, <3>1 DEF DecodeObservedFrame
    <3>3. \A i \in Index : i < Count(db) => Count(db) > 0
      BY <1>4, <2>1
    <3> QED
      BY <2>1, <3>1, <3>2, <3>3 DEF Decoding
  <2>6. CASE ReadDefinition
    BY <2>6 DEF ReadDefinition, FilesOf, DbcInv, DecodeInv, Decoding
  <2>7. CASE EndSignals
    <3>1. /\ limit = Count(db) /\ \A i \in Index : i < index => Decoded(i)
          /\ index >= limit \/ index >= Count(db)
          /\ can' = "done"
      BY <2>7 DEF EndSignals, DbcInv, DecodeInv, Decoding
    <3>2. \A i \in Index : i < Count(db) => i < index
      BY <1>4, <2>1, <3>1
    <3> QED
      BY <3>1, <3>2 DEF Decoding
  <2> QED
    BY <2>2, <2>3, <2>4, <2>5, <2>6, <2>7 DEF Decoding
<1>7. MatchInv'
  <2> SUFFICES ASSUME ~raced' PROVE MatchInv'
    BY DEF MatchInv
  <2>1. ~raced /\ (can' # "idle" => Observing) /\ can' # "valid"
    <3>1. ASSUME NEW k, LoadMode(k)
          PROVE  ~raced /\ Observing /\ can' # "valid"
      BY <3>1 DEF LoadMode
    <3>2. CASE IsObserved \/ LoadDbc \/ DecodeObservedFrame
      BY <3>2 DEF IsObserved, LoadDbc, DecodeObservedFrame, DbcInv, MatchInv
    <3>3. CASE ReadDefinition \/ EndSignals \/ EndFrame
      BY <3>3 DEF ReadDefinition, EndSignals, EndFrame, DbcInv, MatchInv
    <3> QED
      BY <3>1, <3>2, <3>3
  <2>2. can' \in {"dbc"} \cup Decoding => active_dbc
    BY <2>1 DEF LoadMode, IsObserved, LoadDbc, DecodeObservedFrame,
       ReadDefinition, EndSignals, EndFrame, DbcInv, MatchInv, Decoding
  <2>3. can' = "value" => def' = FilesOf(db) /\ index' < Count(db)
    BY DEF LoadMode, IsObserved, LoadDbc, DecodeObservedFrame, ReadDefinition,
       EndSignals, EndFrame, FilesOf
  <2> QED
    BY <1>5, <2>1, <2>2, <2>3 DEF DbcInv, MatchInv, Matching, Observing
<1>8. StrayInv'
  <2>1. UNCHANGED <<cache, db, ui, text, next, installed>>
    BY <1>1 DEF uiSide, uiVars, system
  <2>2. /\ Trusted' <=> Trusted
        /\ \A i \in Index : (InForce(i)' <=> InForce(i)) /\ (Stray(i)' <=> Stray(i))
    BY <2>1 DEF Trusted, Futile, Observing, Booting, InForce, Stray
  <2>3. Trusted => ~Odd'
    <3>1. CASE ReadDefinition
      <4>1. index < Count(db) /\ def' = FilesOf(db) /\ index' = index
        BY <3>1 DEF ReadDefinition, FilesOf
      <4>2. index \in Index
        BY <1>4, <4>1 DEF Index
      <4>3. Trusted => def' = NameOf(index)
        BY <4>1, <4>2, ListedIs DEF DbcInv
      <4> QED
        BY <2>1, <4>1, <4>3 DEF Odd, NameOf
    <3>2. CASE ~ReadDefinition
      BY <3>2 DEF Odd, LoadMode, IsObserved, LoadDbc, DecodeObservedFrame,
         EndSignals, EndFrame
    <3> QED
      BY <3>1, <3>2
  <2> QED
    BY <2>2, <2>3 DEF DbcInv, StrayInv
<1> QED
  BY <1>2, <1>3, <1>6, <1>7, <1>8 DEF DbcInv

(* A signal is stored under the name that the cache has for its index.     *)
LEMMA StoreSignalStep ==
  ASSUME DbcInv, StoreValue \/ StoreValid
  PROVE  DbcInv'
<1>1. UNCHANGED <<uiSide, limit, calm, raced>>
  BY DEF StoreValue, StoreValid
<1>2. /\ cache' \in [Index -> Slot]
      /\ \A i \in Index :
           /\ cache'[i].name = cache[i].name
           /\ i # index => cache'[i] = cache[i]
           /\ i = index /\ StoreValue =>
                cache'[i].value = def /\ cache'[i].valid = cache[i].valid
           /\ i = index /\ StoreValid =>
                cache'[i].value = cache[i].value /\ cache'[i].valid
  BY StoreIs DEF DbcInv
<1>3. /\ Count(db) \in 0 .. MaxSignals /\ index \in Nat /\ MaxSignals \in Nat
      /\ cache \in [Index -> Slot]
  BY HeldIs, DbcAssumption DEF DbcInv, DbcTypes
<1>4. /\ StoreValue => /\ can = "value" /\ can' = "valid"
                       /\ index' = index /\ def' = def
      /\ StoreValid => /\ can = "valid" /\ can' = "signals"
                       /\ index' = index + 1 /\ def' = {}
  BY DEF StoreValue, StoreValid
<1>5. UNCHANGED <<db, active_dbc, signal_count, decode_all, mode, ui, next>>
  BY <1>1 DEF uiSide, uiVars, observation
<1>6. DbcTypes'
  BY <1>1, <1>2, <1>3, <1>4 DEF DbcInv, DbcTypes, uiSide, uiVars, system
<1>7. IndexInv' /\ ModeInv'
  BY <1>1, <1>2, <1>5 DEF DbcInv, IndexInv, Booting, Wrecked, NameOf, ModeInv,
     Observing, uiSide, uiVars, system
<1>8. DecodeInv'
  <2> SUFFICES ASSUME calm, Idle, active_dbc, mode = "ALL"
               PROVE  /\ limit = Count(db)
                      /\ \A i \in Index : i < index' => Decoded(i)'
                      /\ can' = "valid" =>
                           /\ def' = FilesOf(db) /\ index' < Count(db)
                           /\ cache'[index'].value = def'
    BY <1>1, <1>4, <1>5 DEF DecodeInv, Decoding, Idle
  <2>1. /\ limit = Count(db) /\ \A i \in Index : i < index => Decoded(i)
        /\ def = FilesOf(db) /\ index < Count(db)
        /\ can = "valid" => cache[index].value = def
    BY <1>4 DEF DbcInv, DecodeInv, Decoding
  <2>2. index \in Index /\ \A i \in Index : i \in Int
    BY <1>3, <2>1 DEF Index
  <2>3. CASE StoreValue
    BY <1>2, <1>4, <1>5, <2>1, <2>2, <2>3 DEF Decoded
  <2>4. CASE StoreValid
    <3>1. cache'[index].valid /\ cache'[index].value = FilesOf(db)
      <4>1. can = "valid"
        BY <1>4, <2>4
      <4> QED
        BY <1>2, <2>1, <2>2, <2>4, <4>1
    <3>2. \A i \in Index : i < index' => i < index \/ i = index
      BY <1>3, <1>4, <2>2, <2>4
    <3>3. \A i \in Index : i < index => Decoded(i)'
      BY <1>2, <1>3, <1>5, <2>1, <2>2 DEF Decoded
    <3>4. ASSUME NEW i \in Index, i < index' PROVE Decoded(i)'
      <4>1. CASE i = index
        BY <1>5, <3>1, <4>1 DEF Decoded
      <4> QED
        BY <3>2, <3>3, <3>4, <4>1
    <3> QED
      BY <1>4, <2>1, <2>4, <3>4
  <2> QED
    BY <2>3, <2>4
<1>9. MatchInv'
  <2> SUFFICES ASSUME ~raced PROVE MatchInv'
    BY <1>1 DEF MatchInv
  <2>1. /\ Observing /\ active_dbc /\ def = FilesOf(db) /\ index < Count(db)
        /\ can = "valid" => cache[index].value = FilesOf(db)
        /\ \A i \in Index : Matching(i)
    BY <1>4 DEF DbcInv, MatchInv, Decoding, Observing
  <2>2. index \in Index /\ cache[index].name = FilesOf(db)
    <3>1. index \in Index /\ Count(db) > 0
      BY <1>3, <2>1 DEF Index
    <3> QED
      BY <2>1, <3>1, ListedIs DEF DbcInv, NamesDb
  <2>3. \A i \in Index : Matching(i)'
    BY <1>2, <1>4, <2>1, <2>2 DEF Matching
  <2>4. can' = "valid" => /\ def' = FilesOf(db) /\ index' < Count(db)
                          /\ cache'[index'].value = FilesOf(db)
    BY <1>2, <1>4, <2>1, <2>2
  <2> QED
    BY <1>4, <1>5, <2>1, <2>3, <2>4 DEF MatchInv, Observing, Decoding
<1>10. StrayInv'
  <2>1. UNCHANGED <<ui, text, next, installed>> /\ ~Odd'
    BY <1>1, <1>4 DEF uiSide, uiVars, system, Odd, StoreValue, StoreValid
  <2>2. /\ Trusted' <=> Trusted
        /\ \A i \in Index : InForce(i)' <=> InForce(i)
    BY <2>1 DEF Trusted, Futile, Observing, Booting, InForce
  <2>3. ASSUME Trusted, NEW i \in Index, InForce(i), Stray(i)'
        PROVE  Stray(i) \/ (Odd /\ i = index)
    <3>1. CASE i # index \/ StoreValid
      BY <1>2, <2>3, <3>1 DEF Stray
    <3>2. CASE i = index /\ StoreValue
      <4>1. can = "value" /\ cache'[i].value = def /\ cache'[i].name = NameOf(index)
        BY <1>2, <1>4, <2>3, <3>2, ListedIs DEF DbcInv
      <4> QED
        BY <2>3, <3>2, <4>1 DEF Stray, Odd
    <3> QED
      BY <3>1, <3>2
  <2> SUFFICES ASSUME Trusted, NEW i \in Index, NEW j \in Index,
                      InForce(i), InForce(j), Stray(i)', Stray(j)'
               PROVE  i = j
    BY <2>1, <2>2 DEF StrayInv
  <2> QED
    BY <2>3 DEF DbcInv, StrayInv
<1> QED
  BY <1>6, <1>7, <1>8, <1>9, <1>10 DEF DbcInv

LEMMA DbcStep == DbcInv /\ [Next]_vars => DbcInv'
<1> SUFFICES ASSUME DbcInv, [Next]_vars PROVE DbcInv'
  OBVIOUS
<1>1. CASE CanTask
  BY <1>1, ReadStep, StoreSignalStep DEF CanTask
<1>2. ASSUME NEW f \in Files, DbcUpload(Whole(f)) PROVE DbcInv'
  <2>1. Whole(f) = TextOf(f, Signals[f]) /\ Signals[f] \in 0 .. MaxSignals
    BY DbcAssumption DEF Whole, TextOf
  <2>2. Held({Whole(f)})
    BY <2>1 DEF Held
  <2> QED
    BY <1>2, <2>2, LoadStep
<1>3. ASSUME NEW t \in stored, DbcUpload(t) PROVE DbcInv'
  <2>1. Held({t})
    BY DEF DbcInv, DbcTypes, Held
  <2> QED
    BY <1>3, <2>1, LoadStep
<1>4. CASE UiTask
  BY <1>2, <1>3, <1>4, RequestStep, LoadStep, ParseStep, StoreStep, ResetStep,
     ResetSignalStep, BootStep DEF UiTask, Requesting
<1>5. CASE UNCHANGED vars
  <2>1. DbcTypes' /\ IndexInv' /\ ModeInv'
    BY <1>5 DEF DbcInv, DbcTypes, IndexInv, Booting, Wrecked, NameOf, ModeInv,
       Observing, vars, cacheVars, observation, uiVars, canVars, system
  <2>2. DecodeInv' /\ MatchInv'
    BY <1>5 DEF DbcInv, DecodeInv, Decoded, MatchInv, Matching, Observing, Idle,
       vars, cacheVars, observation, uiVars, canVars
  <2>3. StrayInv'
    BY <1>5, StrayKept
    DEF DbcInv, Trusted, Futile, Observing, Booting, vars, cacheVars, uiVars,
        canVars, system
  <2> QED
    BY <2>1, <2>2, <2>3 DEF DbcInv
<1> QED
  BY <1>1, <1>4, <1>5, PowerStep DEF Next

(* The signal cache tells what the database in use decodes, after any      *)
(* uploads, failed ones too, unloads and starts: it lists the database     *)
(* installed last; every signal of a frame is decoded while all is         *)
(* observed; no value stands under another's name unless a frame met the   *)
(* replacement, and one at most then (resetForDbc, decodeObservedFrame).   *)
THEOREM CacheTells == Spec => []CacheTellsDbc
<1>1. DbcInv => CacheTellsDbc
  <2> SUFFICES ASSUME DbcInv PROVE CacheTellsDbc
    OBVIOUS
  <2>1. Count(db) \in 0 .. MaxSignals /\ MaxSignals \in Nat
    BY HeldIs, DbcAssumption DEF DbcInv, DbcTypes
  <2>2. IndexesAgree
    BY DEF DbcInv, IndexInv, Wrecked, NameOf, Observing, Idle, IndexesAgree
  <2>3. ObservingAllDecodes
    <3>1. \A i \in 0 .. Count(db) - 1 : i \in Index /\ i < Count(db)
      BY <2>1 DEF Index
    <3> QED
      BY <3>1 DEF DbcInv, DecodeInv, ObservingAllDecodes, DecodedNow, Decoded,
         FilesOf
  <2>4. ValuesMatchNames
    <3>1. \A i \in 0 .. signal_count - 1 : i \in Index
      BY <2>1 DEF DbcInv, DbcTypes, Index
    <3>2. Idle => /\ Trusted /\ ~Booting
                  /\ \A i \in Index : InForce(i)
      BY DEF Idle, Trusted, Booting, Observing, InForce
    <3>3. Idle => \A i, j \in 0 .. signal_count - 1 : Stray(i) /\ Stray(j) => i = j
      BY <3>1, <3>2 DEF DbcInv, StrayInv
    <3>4. Idle /\ ~raced => \A i \in Index : Matching(i)
      BY DEF DbcInv, MatchInv, Idle
    <3> QED
      BY <3>1, <3>3, <3>4 DEF Matching, ValuesMatchNames
  <2> QED
    BY <2>2, <2>3, <2>4 DEF CacheTellsDbc
<1> QED
  BY <1>1, DbcInit, DbcStep, PTL DEF Spec
=============================================================================
