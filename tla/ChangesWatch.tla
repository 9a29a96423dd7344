---------------------------- MODULE ChangesWatch ----------------------------
(***************************************************************************)
(* The frame changes watch (core/frame_changes_watch.cpp) between the CAN  *)
(* task, which shows it every frame right after the frame dictionary, and  *)
(* the UI task, whose handler (main.cpp:1531-1683) starts, fixes, compares *)
(* and resets it.  The two tables are maps from (can_id, direction); their *)
(* probing, and the copying of a row, are the subject of FrameCache.tla.   *)
(* The UI task visits the entries of a table in some order.  Each step of  *)
(* the CAN task reads or writes the watch once.                            *)
(*                                                                         *)
(* A definition named ...Mutant is a faulty version of the one after it,   *)
(* kept to show that a property notices the fault; nothing uses it.        *)
(***************************************************************************)
EXTENDS Integers, FiniteSets

CONSTANTS
  MaxEntries,    \* kMaxEntries of both tables, 256 in the code
  Keys,          \* (can_id, direction) pairs
  Bytes,         \* positions in the payload
  Values,        \* values of a byte, 0 among them
  Frames,        \* the frames that are forwarded
  MaxFrames,     \* bound: frames in a behaviour
  MaxSessions    \* bound: starts and resets in a behaviour

(* The bytes of a payload are those below its dlc.                         *)
Payload == UNION {[0 .. n - 1 -> Values] : n \in 0 .. Cardinality(Bytes)}
Frame == [key : Keys, data : Payload]

ASSUME WatchAssumption ==
  /\ MaxEntries \in Nat \ {0} /\ MaxFrames \in Nat /\ MaxSessions \in Nat
  /\ IsFiniteSet(Bytes) /\ Bytes = 0 .. Cardinality(Bytes) - 1
  /\ 0 \in Values
  /\ Frames \subseteq Frame

Entry ==
  [data : [Bytes -> Values], has_previous : BOOLEAN, dirty : SUBSET Bytes,
   applied : 0 .. MaxSessions]
StableBaselineEntry == [data : Payload, stable : SUBSET Bytes]

VARIABLES
  live,             \* the payloads in the frame dictionary
  entries,          \* the entries of the watch
  watch_active, watch_session,
  \* the CAN task in forwardFrame() and observeFrame()
  can,              \* "idle", "cached", "found", "session", "compared",
                    \* "mark" or "store"
  frame,            \* the frame it has
  changed,          \* the changed_mask it computed
  \* the UI task in the handler
  ui,               \* "idle", "activate", "snapshot", "fix", "capture",
                    \* "bump", "reset" or "erase"
  visited,          \* the keys it has visited
  snap,             \* its copy of the dictionary
  baseline,         \* baseline_entries
  baseline_capture_active,
  \* history
  seen,             \* the keys stored since the last reset
  known,            \* the bytes last stored for a key since the last reset
  moved,            \* the bytes that changed in frames seen whole by a watch
  moved_window,     \* the bytes that changed since the last start
  tainted,          \* since the last reset began, a frame was in hand during
                    \* a reset, or a start came while the watch ran
  differing,        \* the bytes of the frame in hand that changed or are new
  fresh, whole,     \* frame was begun after the last reset; within a watch
  forwarded

tables == <<live, entries>>
watch == <<watch_active, watch_session>>
canVars == <<can, frame, changed>>
uiVars == <<ui, visited, snap, baseline, baseline_capture_active>>
history == <<seen, known, moved, moved_window, tainted, differing, fresh, whole,
             forwarded>>
vars == <<tables, watch, canVars, uiVars, history>>

-----------------------------------------------------------------------------
Init ==
  /\ live = <<>> /\ entries = <<>>
  /\ watch_active = FALSE /\ watch_session = 0
  /\ can = "idle" /\ frame = {} /\ changed = {}
  /\ ui = "idle" /\ visited = {} /\ snap = <<>>
  /\ baseline = <<>> /\ baseline_capture_active = FALSE
  /\ seen = {} /\ known = [k \in Keys |-> <<>>]
  /\ moved = [k \in Keys |-> {}]
  /\ moved_window = [k \in Keys |-> {}]
  /\ tainted = FALSE /\ differing = {} /\ fresh = FALSE /\ whole = FALSE
  /\ forwarded = 0

(* Neither table ever lets a key go; a full one ignores further keys.      *)
HasRoom(table, key) ==
  key \in DOMAIN table \/ Cardinality(DOMAIN table) < MaxEntries

(* A table or a payload with what is written into it.                      *)
With(written, old) ==
  [x \in DOMAIN written \cup DOMAIN old |->
     IF x \in DOMAIN written THEN written[x] ELSE old[x]]
Only(key, item) == [k \in {key} |-> item]

(* The bytes at which a payload differs from an earlier one.               *)
Differing(new, old) ==
  {b \in DOMAIN new \cap DOMAIN old : new[b] # old[b]}

Resetting == ui \in {"bump", "reset", "erase"}

(* frame_cache_->update, the call before observeFrame.                     *)
CacheFrame(f) ==
  /\ can = "idle" /\ forwarded < MaxFrames
  /\ can' = "cached" /\ frame' = {f} /\ forwarded' = forwarded + 1
  /\ live' = IF Cardinality(DOMAIN live) < MaxEntries \/ f.key \in DOMAIN live
             THEN With(Only(f.key, f.data), live)
             ELSE live
  /\ LET d == {b \in DOMAIN f.data :
                 /\ f.key \in seen
                 /\ b \in DOMAIN known[f.key] => f.data[b] # known[f.key][b]}
     IN /\ differing' = d
        /\ moved_window' = [moved_window EXCEPT ![f.key] = @ \cup d]
  /\ tainted' = (tainted \/ Resetting)
  /\ fresh' = ~Resetting /\ whole' = (watch_active /\ ui # "activate")
  /\ UNCHANGED <<entries, watch, changed, uiVars, seen, known, moved>>

FindEntry ==
  /\ can = "cached"
  /\ \E f \in frame :
       IF HasRoom(entries, f.key)
       THEN /\ can' = "found" /\ UNCHANGED frame
            /\ entries' = With(entries,
                 Only(f.key, [data |-> [b \in Bytes |-> 0],
                              has_previous |-> FALSE, dirty |-> {},
                              applied |-> watch_session]))
       ELSE can' = "idle" /\ frame' = {} /\ UNCHANGED entries
  /\ UNCHANGED <<live, watch, changed, uiVars, history>>

(* The first frame of a session forgets what earlier sessions marked.      *)
ApplySession ==
  /\ can = "found"
  /\ can' = "session"
  /\ \E f \in frame :
       entries' = IF entries[f.key].applied = watch_session THEN entries
                  ELSE [entries EXCEPT ![f.key].dirty = {},
                                       ![f.key].applied = watch_session]
  /\ UNCHANGED <<live, watch, frame, changed, uiVars, history>>

CompareBytes ==
  /\ can = "session"
  /\ can' = "compared"
  /\ \E f \in frame :
       changed' = IF entries[f.key].has_previous
                  THEN Differing(f.data, entries[f.key].data) ELSE {}
  /\ UNCHANGED <<tables, watch, frame, uiVars, history>>

TestActive ==
  /\ can = "compared"
  /\ \E f \in frame :
       can' = IF watch_active /\ entries[f.key].has_previous /\ changed # {}
              THEN "mark" ELSE "store"
  /\ UNCHANGED <<tables, watch, frame, changed, uiVars, history>>

MarkBytesMutant ==
  /\ can = "mark"
  /\ can' = "store"
  /\ \E f \in frame : entries' = [entries EXCEPT ![f.key].dirty = changed]
  /\ UNCHANGED <<live, watch, frame, changed, uiVars, history>>
MarkBytes ==
  /\ can = "mark"
  /\ can' = "store"
  /\ \E f \in frame :
       entries' = [entries EXCEPT ![f.key].dirty = @ \cup changed]
  /\ UNCHANGED <<live, watch, frame, changed, uiVars, history>>

(* Bytes beyond the dlc keep what an earlier, longer frame left there.     *)
StoreBytes ==
  /\ can = "store"
  /\ can' = "idle" /\ frame' = {} /\ changed' = {}
  /\ \E f \in frame :
       /\ entries' = [entries EXCEPT ![f.key].data = With(f.data, @),
                                     ![f.key].has_previous = TRUE]
       /\ moved' = IF whole
                   THEN [moved EXCEPT ![f.key] =
                           @ \cup Differing(f.data, known[f.key])]
                   ELSE moved
       /\ IF fresh
          THEN /\ seen' = seen \cup {f.key}
               /\ known' = [known EXCEPT ![f.key] = With(f.data, @)]
          ELSE UNCHANGED <<seen, known>>
  /\ fresh' = FALSE /\ whole' = FALSE
  /\ UNCHANGED <<live, watch, uiVars, moved_window, tainted, differing,
                 forwarded>>

CanTask ==
  \/ \E f \in Frames : CacheFrame(f)
  \/ FindEntry \/ ApplySession \/ CompareBytes \/ TestActive \/ MarkBytes
  \/ StoreBytes

-----------------------------------------------------------------------------
(* The request is refused while a baseline stands.                         *)
Start ==
  /\ ui = "idle" /\ watch_session < MaxSessions
  /\ ~baseline_capture_active
  /\ ui' = "activate" /\ watch_session' = watch_session + 1 /\ whole' = FALSE
  /\ tainted' = (tainted \/ watch_active)
  /\ UNCHANGED <<tables, watch_active, canVars, visited, snap, baseline,
                 baseline_capture_active, seen, known, moved, moved_window,
                 differing, fresh, forwarded>>

Activate ==
  /\ ui = "activate"
  /\ ui' = "idle" /\ watch_active' = TRUE
  /\ moved' = [k \in Keys |-> {}]
  /\ moved_window' = [k \in Keys |->
       IF \E f \in frame : f.key = k THEN differing ELSE {}]
  /\ whole' = FALSE
  /\ UNCHANGED <<tables, watch_session, canVars, visited, snap, baseline,
                 baseline_capture_active, seen, known, tainted, differing,
                 fresh, forwarded>>

BeginFix ==
  /\ ui = "idle"
  /\ ui' = "snapshot" /\ visited' = {} /\ snap' = <<>>
  /\ UNCHANGED <<tables, watch, canVars, baseline, baseline_capture_active,
                 history>>

(* The snapshot may give up a row that is being updated; here, any row.    *)
CopyRow(k) ==
  /\ ui = "snapshot" /\ k \notin visited
  /\ visited' = visited \cup {k}
  /\ \/ k \in DOMAIN live /\ snap' = With(Only(k, live[k]), snap)
     \/ UNCHANGED snap
  /\ UNCHANGED <<tables, watch, canVars, ui, baseline,
                 baseline_capture_active, history>>

EndSnapshot ==
  /\ ui = "snapshot" /\ visited = Keys
  /\ ui' = "fix"
  /\ UNCHANGED <<tables, watch, canVars, visited, snap, baseline,
                 baseline_capture_active, history>>

(* While a watch runs, fix stops it and captures a baseline.               *)
StopWatch ==
  /\ ui = "fix" /\ watch_active
  /\ ui' = "capture" /\ visited' = {} /\ watch_active' = FALSE
  /\ baseline' = <<>> /\ baseline_capture_active' = FALSE
  /\ whole' = FALSE
  /\ UNCHANGED <<tables, watch_session, canVars, snap, seen, known, moved,
                 moved_window, tainted, differing, fresh, forwarded>>

(* Otherwise it compares live rows with the baseline, or is refused when   *)
(* there is none; neither changes state.                                   *)
CompareOrRefuse ==
  /\ ui = "fix" /\ ~watch_active
  /\ ui' = "idle"
  /\ UNCHANGED <<tables, watch, canVars, visited, snap, baseline,
                 baseline_capture_active, history>>

DirtyMaskFor(k) == IF k \in DOMAIN entries THEN entries[k].dirty ELSE {}

(* Only bytes the row has, byteMaskLowBits(dlc), count as stable.          *)
StableBytes(k) == DOMAIN snap[k] \ DirtyMaskFor(k)

CaptureRow(k) ==
  /\ ui = "capture" /\ k \in DOMAIN snap \ visited
  /\ visited' = visited \cup {k}
  /\ baseline' = IF StableBytes(k) = {} THEN baseline
                  ELSE With(Only(k, [data |-> snap[k], stable |-> StableBytes(k)]),
                            baseline)
  /\ UNCHANGED <<tables, watch, canVars, ui, snap, baseline_capture_active,
                 history>>

EndCapture ==
  /\ ui = "capture" /\ DOMAIN snap \subseteq visited
  /\ ui' = "idle" /\ baseline_capture_active' = TRUE
  /\ UNCHANGED <<tables, watch, canVars, visited, snap, baseline, history>>

Reset ==
  /\ ui = "idle" /\ watch_session < MaxSessions
  /\ ui' = "bump" /\ watch_active' = FALSE
  /\ baseline' = <<>> /\ baseline_capture_active' = FALSE
  /\ seen' = {} /\ known' = [k \in Keys |-> <<>>]
  /\ fresh' = FALSE /\ whole' = FALSE /\ tainted' = (frame # {})
  /\ UNCHANGED <<tables, watch_session, canVars, visited, snap, moved,
                 moved_window, differing, forwarded>>

BumpSession ==
  /\ ui = "bump"
  /\ ui' = "reset" /\ visited' = {} /\ watch_session' = watch_session + 1
  /\ UNCHANGED <<tables, watch_active, canVars, snap, baseline,
                 baseline_capture_active, history>>

(* reset() clears an entry's marks first, then its bytes, with no regard   *)
(* to a frame the CAN task may be observing.                               *)
SkipFreeEntry(k) ==
  /\ ui = "reset" /\ k \notin visited \cup DOMAIN entries
  /\ visited' = visited \cup {k}
  /\ UNCHANGED <<tables, watch, canVars, ui, snap, baseline,
                 baseline_capture_active, history>>

ResetEntryMutant(k) ==
  /\ ui = "reset" /\ k \in DOMAIN entries \ visited
  /\ ui' = "erase" /\ visited' = visited \cup {k} /\ snap' = Only(k, <<>>)
  /\ entries' = [entries EXCEPT ![k].applied = watch_session,
                                ![k].has_previous = FALSE]
  /\ UNCHANGED <<live, watch, canVars, baseline, baseline_capture_active,
                 history>>
ResetEntry(k) ==
  /\ ui = "reset" /\ k \in DOMAIN entries \ visited
  /\ ui' = "erase" /\ visited' = visited \cup {k} /\ snap' = Only(k, <<>>)
  /\ entries' = [entries EXCEPT ![k].dirty = {}, ![k].applied = watch_session,
                                ![k].has_previous = FALSE]
  /\ UNCHANGED <<live, watch, canVars, baseline, baseline_capture_active,
                 history>>

EraseEntry ==
  /\ ui = "erase"
  /\ ui' = "reset" /\ snap' = <<>>
  /\ entries' = [k \in DOMAIN entries |->
       IF k \in DOMAIN snap THEN [entries[k] EXCEPT !.data = [b \in Bytes |-> 0]]
       ELSE entries[k]]
  /\ UNCHANGED <<live, watch, canVars, visited, baseline,
                 baseline_capture_active, history>>

EndReset ==
  /\ ui = "reset" /\ visited = Keys
  /\ ui' = "idle"
  /\ UNCHANGED <<tables, watch, canVars, visited, snap, baseline,
                 baseline_capture_active, history>>

UiTask ==
  \/ Start \/ Activate \/ BeginFix \/ EndSnapshot \/ StopWatch
  \/ CompareOrRefuse \/ EndCapture \/ Reset \/ BumpSession \/ EraseEntry
  \/ EndReset
  \/ \E k \in Keys :
       CopyRow(k) \/ CaptureRow(k) \/ SkipFreeEntry(k) \/ ResetEntry(k)

Next == CanTask \/ UiTask

Spec == Init /\ [][Next]_vars

-----------------------------------------------------------------------------
(* A byte that changed between two frames, the later of them observed from *)
(* start to end while the watch ran, is never in the baseline as stable:   *)
(* the dictionary is copied before the watch stops and the marks are read  *)
(* after, with frames going on in between (main.cpp:1561-1586).            *)
MovedBytesAreNotStable ==
  \A k \in DOMAIN baseline : baseline[k].stable \cap moved[k] = {}

(* The dictionary and the watch hold the same keys between frames: every   *)
(* row that fix finds has an entry, and dirtyMaskFor never answers "no     *)
(* change" for a row that is only in the dictionary.                       *)
SameKeysTracked == can = "idle" => DOMAIN entries = DOMAIN live

(* Whatever the baseline calls stable stood still.                         *)
StableBytesStood == MovedBytesAreNotStable /\ SameKeysTracked

(* index.html:365, "Record which bytes get changed during a watch window": *)
(* a byte left out of the baseline did change since the watch was started, *)
(* marks of earlier watches being gone.  Not so after a reset that met a   *)
(* frame in flight, which may end as zeros with has_previous set; nor when *)
(* the watch is started again while it runs.                               *)
DroppedBytesMoved ==
  ~tainted => \A k \in DOMAIN baseline :
    DOMAIN baseline[k].data \ baseline[k].stable \subseteq moved_window[k]
=============================================================================
