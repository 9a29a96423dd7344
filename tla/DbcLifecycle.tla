---------------------------- MODULE DbcLifecycle ----------------------------
(***************************************************************************)
(* One DBC database, parsed in place, and what depends on it: the signal   *)
(* cache the CAN task decodes into, the observation it decodes on demand   *)
(* for, the rules, the replay, and the copy in flash.  The UI task uploads *)
(* and unloads databases and chooses what is observed, one request at a    *)
(* time; the CAN task handles frames meanwhile; power may fail.            *)
(*                                                                         *)
(* A database describes one message, whose signals have indexes 0, 1, ...  *)
(* A signal's value is abstracted to the database whose definition decoded *)
(* it; generation counters are left out.  Nothing calls subscribeSignal,   *)
(* so every subscription bit is clear.  The two tables of an observation   *)
(* are one set here: they are swapped as the rule tables of RulePath.tla.  *)
(* LittleFS is mounted.                                                    *)
(*                                                                         *)
(* A definition named ...Mutant is a faulty version of the one after it,   *)
(* kept to show that a property notices the fault; nothing uses it.        *)
(***************************************************************************)
EXTENDS Integers, FiniteSets

CONSTANTS
  Files,         \* DBC files
  Signals,       \* how many signals each has; none: parseFromText fails
  Packaged,      \* those that boot may find besides active.dbc
  MaxSignals,    \* kMaxSignals, 512 in the code
  Keys,          \* (can_id, direction) pairs, both of the message
  Requests,      \* the observation requests made
  Prefixes,      \* whether a write to flash may be cut short
  MaxLoads,      \* bound: uploads and unloads in a behaviour
  MaxBoots       \* bound: power failures in a behaviour

Index == 0 .. MaxSignals - 1
Modes == {"NONE", "SPECIFIC", "ALL"}

(* A text is a file or its beginning; a database likewise.                 *)
Text == [file : Files, signals : Nat]
Whole(f) == [file |-> f, signals |-> Signals[f]]
Parses(text) == text.signals > 0

ASSUME DbcAssumption ==
  /\ MaxSignals \in Nat /\ Signals \in [Files -> 0 .. MaxSignals]
  /\ Packaged \subseteq Files
  /\ Requests \subseteq [mode : Modes, keys : SUBSET Keys]
  /\ Prefixes \in BOOLEAN /\ MaxLoads \in Nat /\ MaxBoots \in Nat

VARIABLES
  stored,        \* the text in /dbc/active.dbc, none at first
  db,            \* what dbc_database holds, none after clear()
  active_dbc,    \* whether the pointer is set
  signal_count, decode_all,
  cache,         \* per index: the file of its name, of its value; valid
  mode, specific,
  rules,         \* the number of the load under which rules were committed
  playing,       \* the same of the replay
  \* the UI task
  ui, text,      \* its place in a handler, the text it works on
  want,          \* the observation it is asked for
  next,          \* the index resetForDbc is at
  loads,
  \* the CAN task in forwardFrame() and decodeObservedFrame()
  can, key, limit, index,
  def,           \* the file whose definition it has read
  \* history
  calm,          \* no step of the UI task since the frame began
  raced,         \* a frame was handled while a database was replaced and
                 \* the signal cache has not been reset since
  boots,
  started,       \* setup() has come to its end: both tasks run
  installed,     \* the text of the last load that succeeded, none after an
                 \* unload or a boot without a database
  wrecked        \* the database was last filled from a text that does not
                 \* parse

cacheVars == <<signal_count, decode_all, cache>>
observation == <<mode, specific>>
dependents == <<rules, playing>>
uiVars == <<ui, text, want, next, loads>>
system == <<boots, started, installed, wrecked>>
canVars == <<can, key, limit, index, def>>
vars == <<stored, db, active_dbc, cacheVars, observation, dependents, uiVars,
          canVars, calm, raced, system>>

-----------------------------------------------------------------------------
Signal(name) == [name |-> name, value |-> {}, valid |-> FALSE]

Names(d) ==
  [i \in Index |->
     Signal(IF \E t \in d : i < t.signals THEN {t.file : t \in d} ELSE {})]

Count(d) == IF d = {} THEN 0 ELSE CHOOSE n \in 0 .. MaxSignals :
                                    \E t \in d : n = t.signals

(* What init() of each part leaves in RAM.                                 *)
Init ==
  /\ stored = {}
  /\ db = {} /\ active_dbc = FALSE
  /\ signal_count = 0 /\ decode_all = FALSE /\ cache = Names({})
  /\ mode = "NONE" /\ specific = {}
  /\ rules = {} /\ playing = {}
  /\ ui = "boot" /\ text = {} /\ want = {} /\ next = 0 /\ loads = 0
  /\ can = "idle" /\ key = {} /\ limit = 0 /\ index = 0 /\ def = {}
  /\ calm = FALSE /\ raced = FALSE
  /\ boots = 0 /\ started = FALSE /\ installed = {} /\ wrecked = FALSE

PowerFails ==
  /\ boots < MaxBoots
  /\ boots' = boots + 1
  /\ db' = {} /\ active_dbc' = FALSE
  /\ signal_count' = 0 /\ decode_all' = FALSE /\ cache' = Names({})
  /\ mode' = "NONE" /\ specific' = {}
  /\ rules' = {} /\ playing' = {}
  /\ ui' = "boot" /\ text' = {} /\ want' = {} /\ next' = 0
  /\ can' = "idle" /\ key' = {} /\ limit' = 0 /\ index' = 0 /\ def' = {}
  /\ calm' = FALSE /\ raced' = FALSE
  /\ started' = FALSE /\ installed' = {} /\ wrecked' = FALSE
  /\ UNCHANGED <<stored, loads>>

(* autoLoadDbcFromLittleFs tries active.dbc before the other files.  Each  *)
(* is parsed in place; one that parses is attached by the steps that an    *)
(* upload takes, and otherwise what was read of it stays.                  *)
OpenAtBoot(file, otherwise) ==
  /\ IF \E t \in file : Parses(t)
     THEN ui' = "attach" /\ text' = file /\ UNCHANGED started
     ELSE ui' = otherwise /\ UNCHANGED text /\ started' = (otherwise = "idle")
  /\ db' = IF file = {} THEN db ELSE file
  /\ wrecked' = (db' # {})
  /\ UNCHANGED <<stored, active_dbc, cacheVars, observation, dependents, want,
                 next, loads, canVars, calm, raced, boots, installed>>

OpenActive == ui = "boot" /\ OpenAtBoot(stored, "packaged")
OpenPackaged ==
  /\ ui = "packaged"
  /\ \E file \in {{}} \cup {{Whole(f)} : f \in Packaged} :
       OpenAtBoot(file, "idle")

-----------------------------------------------------------------------------
(* handleObserve: the table, the mode and decode_all, in this order.       *)
Observe(r) ==
  /\ ui = "idle"
  /\ ui' = "table" /\ want' = {r} /\ specific' = r.keys /\ calm' = FALSE
  /\ UNCHANGED <<stored, db, active_dbc, cacheVars, mode, dependents, text,
                 next, loads, canVars, raced, system>>

SetMode ==
  /\ ui = "table"
  /\ ui' = "mode" /\ calm' = FALSE
  /\ \E r \in want :
       mode' = IF r.mode = "SPECIFIC" /\ r.keys = {} THEN "NONE" ELSE r.mode
  /\ UNCHANGED <<stored, db, active_dbc, cacheVars, specific, dependents, text,
                 want, next, loads, canVars, raced, system>>

SetDecodeAll ==
  /\ ui = "mode"
  /\ ui' = "idle" /\ want' = {} /\ calm' = FALSE
  /\ \E r \in want : decode_all' = (r.mode = "ALL")
  /\ UNCHANGED <<stored, db, active_dbc, signal_count, cache, observation,
                 dependents, text, next, loads, canVars, raced, system>>

(* The other requests that later depend on the database.                   *)
CommitRules ==
  /\ ui = "idle" /\ rules' = {loads} /\ calm' = FALSE
  /\ UNCHANGED <<stored, db, active_dbc, cacheVars, observation, playing,
                 uiVars, canVars, raced, system>>
StartReplay ==
  /\ ui = "idle" /\ playing' = {loads} /\ calm' = FALSE
  /\ UNCHANGED <<stored, db, active_dbc, cacheVars, observation, rules,
                 uiVars, canVars, raced, system>>

(* handleDbcUpload: the body, or else what is stored, is parsed in place,  *)
(* whether or not the database is in use.                                  *)
DbcUpload(t) ==
  /\ ui = "idle" /\ loads < MaxLoads
  /\ ui' = "parse" /\ text' = {t} /\ db' = {} /\ loads' = loads + 1
  /\ calm' = FALSE /\ raced' = (raced \/ can # "idle")
  /\ UNCHANGED <<stored, active_dbc, cacheVars, observation, dependents, want,
                 next, canVars, system>>

(* The message line, then the lines of its signals.                        *)
ParseLine ==
  /\ ui = "parse" /\ db # text
  /\ \E t \in text :
       db' = IF db = {} THEN {[file |-> t.file, signals |-> 0]}
             ELSE {[d EXCEPT !.signals = @ + 1] : d \in db}
  /\ calm' = FALSE
  /\ UNCHANGED <<stored, active_dbc, cacheVars, observation, dependents,
                 uiVars, canVars, raced, system>>

ParseFails ==
  /\ ui = "parse" /\ db = text /\ \E t \in text : ~Parses(t)
  /\ ui' = "idle" /\ text' = {} /\ loads' = loads - 1 /\ calm' = FALSE
  /\ wrecked' = TRUE
  /\ UNCHANGED <<stored, db, active_dbc, cacheVars, observation, dependents,
                 want, next, canVars, raced, boots, started, installed>>

(* open(..., "w") empties active.dbc before print() fills it.              *)
OpenFile ==
  /\ ui = "parse" /\ db = text /\ \A t \in text : Parses(t)
  /\ ui' = "print" /\ stored' = {[t EXCEPT !.signals = 0] : t \in text}
  /\ calm' = FALSE
  /\ UNCHANGED <<db, active_dbc, cacheVars, observation, dependents, text,
                 want, next, loads, canVars, raced, system>>

(* The result of print() is ignored.                                       *)
PrintText ==
  /\ ui = "print"
  /\ ui' = "attach" /\ calm' = FALSE
  /\ \E t \in text, n \in 0 .. MaxSignals :
       /\ n = t.signals \/ (Prefixes /\ n < t.signals)
       /\ stored' = {[t EXCEPT !.signals = n]}
  /\ UNCHANGED <<db, active_dbc, cacheVars, observation, dependents, text,
                 want, next, loads, canVars, raced, system>>

AttachDbc ==
  /\ ui = "attach"
  /\ ui' = "reset" /\ active_dbc' = TRUE /\ calm' = FALSE
  /\ installed' = text /\ wrecked' = FALSE
  /\ UNCHANGED <<stored, db, cacheVars, observation, dependents, text, want,
                 next, loads, canVars, raced, boots, started>>

(* handleDbcUnload detaches the database, clears it and goes on likewise.  *)
DbcUnload ==
  /\ ui = "idle" /\ loads < MaxLoads
  /\ ui' = "detached" /\ active_dbc' = FALSE /\ loads' = loads + 1
  /\ calm' = FALSE /\ raced' = (raced \/ can # "idle")
  /\ UNCHANGED <<stored, db, cacheVars, observation, dependents, text, want,
                 next, canVars, system>>

ClearDatabase ==
  /\ ui = "detached"
  /\ ui' = "reset" /\ db' = {} /\ calm' = FALSE
  /\ installed' = {} /\ wrecked' = FALSE
  /\ UNCHANGED <<stored, active_dbc, cacheVars, observation, dependents, text,
                 want, next, loads, canVars, raced, boots, started>>

(* resetForDbc, and with it what clearSubscriptions does.                  *)
BoundedCount == Count(db)
ResetForDbc ==
  /\ ui = "reset"
  /\ ui' = "signals" /\ next' = 0 /\ calm' = FALSE
  /\ raced' = (can # "idle")
  /\ signal_count' = BoundedCount /\ decode_all' = FALSE
  /\ UNCHANGED <<stored, db, active_dbc, cache, observation, dependents, text,
                 want, loads, canVars, system>>

ResetSignalMutant ==
  /\ ui = "signals" /\ next \in Index
  /\ next' = next + 1 /\ calm' = FALSE
  /\ cache' = IF next < signal_count
              THEN [cache EXCEPT ![next].value = {}, ![next].valid = FALSE]
              ELSE [cache EXCEPT ![next] = Signal({})]
  /\ UNCHANGED <<stored, db, active_dbc, signal_count, decode_all, observation,
                 dependents, ui, text, want, loads, canVars, raced, system>>
ResetSignal ==
  /\ ui = "signals" /\ next \in Index
  /\ next' = next + 1 /\ calm' = FALSE
  /\ cache' = [cache EXCEPT ![next] = Names(db)[next]]
  /\ UNCHANGED <<stored, db, active_dbc, signal_count, decode_all, observation,
                 dependents, ui, text, want, loads, canVars, raced, system>>

ClearSpecific ==
  /\ ui = "signals" /\ next = MaxSignals
  /\ ui' = "observation" /\ specific' = {} /\ calm' = FALSE
  /\ UNCHANGED <<stored, db, active_dbc, cacheVars, mode, dependents, text,
                 want, next, loads, canVars, raced, system>>

SetModeNone ==
  /\ ui = "observation"
  /\ ui' = "dependents" /\ mode' = "NONE" /\ calm' = FALSE
  /\ UNCHANGED <<stored, db, active_dbc, cacheVars, specific, dependents, text,
                 want, next, loads, canVars, raced, system>>

(* replay_engine.stop(), mutation_engine.clearRules(); unloading removes   *)
(* active.dbc last, and at boot the tasks start.                           *)
StopDependentsMutant ==
  /\ ui = "dependents"
  /\ ui' = "idle" /\ text' = {} /\ playing' = {} /\ calm' = FALSE
  /\ started' = TRUE
  /\ stored' = IF text = {} THEN {} ELSE stored
  /\ UNCHANGED <<db, active_dbc, cacheVars, observation, rules, want, next,
                 loads, canVars, raced, boots, installed, wrecked>>
StopDependents ==
  /\ ui = "dependents"
  /\ ui' = "idle" /\ text' = {} /\ playing' = {} /\ rules' = {}
  /\ calm' = FALSE
  /\ started' = TRUE
  /\ stored' = IF text = {} THEN {} ELSE stored
  /\ UNCHANGED <<db, active_dbc, cacheVars, observation, want, next, loads,
                 canVars, raced, boots, installed, wrecked>>

UiTask ==
  \/ \E r \in Requests : Observe(r)
  \/ SetMode \/ SetDecodeAll \/ CommitRules \/ StartReplay
  \/ \E f \in Files : DbcUpload(Whole(f))
  \/ \E t \in stored : DbcUpload(t)
  \/ ParseLine \/ ParseFails \/ OpenFile \/ PrintText \/ AttachDbc
  \/ OpenActive \/ OpenPackaged
  \/ DbcUnload \/ ClearDatabase \/ ResetForDbc \/ ResetSignal
  \/ ClearSpecific \/ SetModeNone \/ StopDependents

-----------------------------------------------------------------------------
uiSide == <<stored, db, active_dbc, signal_count, decode_all, observation,
            dependents, uiVars, system>>

(* The UI task is at an observation request or at none.                    *)
Observing == ui \in {"idle", "table", "mode"}

(* isObserved loads the mode; ALL and NONE need no table.                  *)
LoadMode(k) ==
  /\ can = "idle" /\ started
  /\ key' = {k} /\ calm' = TRUE
  /\ can' = CASE mode = "ALL" -> "observed" [] mode = "SPECIFIC" -> "lookup"
              [] OTHER -> "done"
  /\ raced' = (raced \/ ~Observing)
  /\ UNCHANGED <<uiSide, cache, limit, index, def>>

IsObserved ==
  /\ can = "lookup"
  /\ can' = IF key \subseteq specific THEN "observed" ELSE "done"
  /\ UNCHANGED <<uiSide, raced, cache, key, limit, index, def, calm>>

LoadDbc ==
  /\ can = "observed"
  /\ can' = IF active_dbc THEN "dbc" ELSE "done"
  /\ UNCHANGED <<uiSide, raced, cache, key, limit, index, def, calm>>

(* No message, or no signal to decode: nothing is done for the frame.      *)
DecodeObservedFrame ==
  /\ can = "dbc"
  /\ can' = IF Count(db) > 0 /\ decode_all THEN "signals" ELSE "done"
  /\ limit' = signal_count /\ index' = 0
  /\ UNCHANGED <<uiSide, raced, cache, key, def, calm>>

(* The bounds are read again for each signal, its definition in place.     *)
ReadDefinition ==
  /\ can = "signals" /\ index < limit /\ index < Count(db)
  /\ can' = "value" /\ def' = {d.file : d \in db}
  /\ UNCHANGED <<uiSide, raced, cache, key, limit, index, calm>>

StoreValue ==
  /\ can = "value"
  /\ can' = "valid" /\ cache' = [cache EXCEPT ![index].value = def]
  /\ UNCHANGED <<uiSide, raced, key, limit, index, def, calm>>

StoreValid ==
  /\ can = "valid"
  /\ can' = "signals" /\ index' = index + 1 /\ def' = {}
  /\ cache' = [cache EXCEPT ![index].valid = TRUE]
  /\ UNCHANGED <<uiSide, raced, key, limit, calm>>

EndSignals ==
  /\ can = "signals" /\ (index >= limit \/ index >= Count(db))
  /\ can' = "done"
  /\ UNCHANGED <<uiSide, raced, cache, key, limit, index, def, calm>>

EndFrame ==
  /\ can = "done"
  /\ can' = "idle" /\ key' = {} /\ limit' = 0 /\ index' = 0 /\ calm' = FALSE
  /\ UNCHANGED <<uiSide, raced, cache, def>>

CanTask ==
  \/ \E k \in Keys : LoadMode(k)
  \/ IsObserved \/ LoadDbc \/ DecodeObservedFrame \/ ReadDefinition
  \/ StoreValue \/ StoreValid \/ EndSignals \/ EndFrame

Next == UiTask \/ CanTask \/ PowerFails

Spec == Init /\ [][Next]_vars

-----------------------------------------------------------------------------
Idle == ui = "idle"

(* The status page looks signals up by the database's indexes in the       *)
(* signal cache, /api/signal_cache by the cache's own names.  Between      *)
(* requests, whatever was uploaded, unloaded, cut off by a power failure   *)
(* or found at boot, the cache lists the signals of the database that was  *)
(* installed last and no other, and the pointer is set as long as there is *)
(* one.  The database itself is that one too, except after a text that     *)
(* does not parse: then it has no signals, and the cache still lists the   *)
(* old ones.                                                               *)
IndexesAgree ==
  Idle => /\ signal_count = Count(installed)
          /\ \A i \in Index : cache[i].name = Names(installed)[i].name
          /\ active_dbc <=> installed # {}
          /\ IF wrecked THEN Count(db) = 0 ELSE db = installed

(* ARCH.md:98-104: rules and a replay begun under one database do not go   *)
(* on under the next.                                                      *)
NothingOutlivesItsDbc == Idle => rules \cup playing \subseteq {loads}

(* ARCH.md:60-61: while all is observed and the UI task leaves it alone, a *)
(* frame's handling ends with every signal of its message decoded.         *)
DecodedNow ==
  \A i \in 0 .. Count(db) - 1 :
    cache[i].valid /\ cache[i].value = {d.file : d \in db}
ObservingAllDecodes ==
  can = "done" /\ calm /\ Idle /\ active_dbc /\ mode = "ALL" => DecodedNow

(* ARCH.md:98: the database is replaced "on successful parse/load".  A     *)
(* failed one leaves the pointer on what is left of it.                    *)
LoadedDbcParsed == Idle /\ active_dbc => \E d \in db : Parses(d)

(* ARCH.md:100, "signal cache reset": a value listed as valid was decoded  *)
(* with the definition whose name it is listed under.  Nothing keeps the   *)
(* CAN task out of a database that is parsed or wiped in place, or of a    *)
(* cache that is being reset (main.cpp:1298-1316), so the one value that   *)
(* a frame has in hand then may be stored under a name of the next         *)
(* database: one at most, and none if no frame met the replacement.  (Such *)
(* a frame may also mark values as valid that the reset has just zeroed.)  *)
Stray(i) == cache[i].value \notin {{}, cache[i].name}
ValuesMatchNames ==
  Idle => /\ \A i, j \in 0 .. signal_count - 1 : Stray(i) /\ Stray(j) => i = j
          /\ can = "idle" /\ ~raced =>
               \A i \in 0 .. signal_count - 1 :
                 cache[i].valid => cache[i].value = cache[i].name

(* The signal cache tells what the database in use decodes: what it lists, *)
(* that it is complete while all is observed, and that it is of this       *)
(* database.                                                               *)
CacheTellsDbc == IndexesAgree /\ ObservingAllDecodes /\ ValuesMatchNames
=============================================================================
