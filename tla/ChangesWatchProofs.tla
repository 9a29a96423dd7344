-------------------------- MODULE ChangesWatchProofs --------------------------
(***************************************************************************)
(* Proofs about ChangesWatch, for any keys, payloads, sizes of the tables  *)
(* and number of frames and sessions: what the baseline calls stable did   *)
(* not move, what it leaves out did, and the watch tracks the keys that    *)
(* the dictionary holds.                                                   *)
(***************************************************************************)
EXTENDS ChangesWatch, TLAPS, FiniteSetTheorems

CanPlaces == {"idle", "cached", "found", "session", "compared", "mark", "store"}
UiPlaces == {"idle", "activate", "snapshot", "fix", "capture", "bump", "reset", "erase"}

TypeInv ==
  /\ DOMAIN entries \subseteq Keys /\ entries \in [DOMAIN entries -> Entry]
  /\ watch_session \in 0 .. MaxSessions
  /\ ui = "bump" => watch_session < MaxSessions
  /\ can \in CanPlaces /\ ui \in UiPlaces
  /\ changed \subseteq Bytes
  /\ known = [k \in Keys |-> known[k]] /\ moved \in [Keys -> SUBSET Bytes]
  /\ can = "idle" => frame = {}
  /\ can # "idle" => \E f \in Frames : frame = {f}

(* Both tables take a key, or have no room for it, in the same frame.      *)
KeysInv ==
  /\ can # "cached" => DOMAIN entries = DOMAIN live
  /\ can = "cached" => \A f \in frame :
       DOMAIN live = DOMAIN entries \cup (IF HasRoom(entries, f.key) THEN {f.key} ELSE {})
  /\ can \notin {"idle", "cached"} => \A f \in frame : f.key \in DOMAIN entries

(* What is known of a key since the last reset is in its entry.  A frame   *)
(* that was in hand during a reset is stored before anything is known.     *)
KnownBytes ==
  \A k \in Keys : \A b \in DOMAIN known[k] :
    b \in Bytes /\ k \in DOMAIN entries /\ entries[k].has_previous
    /\ entries[k].data[b] = known[k][b]
KnownInv ==
  /\ Resetting => ~fresh /\ ~watch_active
  /\ Resetting \/ (frame # {} /\ ~fresh) => \A k \in Keys : DOMAIN known[k] = {}
  /\ KnownBytes

(* How far the marks of the frame in hand have come.                       *)
Moving(f) == Differing(f.data, known[f.key])
SeenInv ==
  /\ whole => watch_active /\ fresh /\ ui # "activate"
  /\ \A f \in frame :
       /\ whole /\ can \in {"session", "compared", "mark", "store"} =>
            entries[f.key].applied = watch_session
       /\ fresh /\ can \in {"compared", "mark"} => Moving(f) \subseteq changed
       /\ whole /\ can = "store" => Moving(f) \subseteq entries[f.key].dirty

(* While the watch runs, and until its baseline is dropped, what moved is  *)
(* marked, and the marks are of this session.                              *)
Capturing == ui = "capture" \/ baseline_capture_active
Watching == (watch_active /\ ui # "activate") \/ Capturing
MarksInv ==
  /\ Watching => \A k \in Keys : moved[k] # {} =>
       /\ k \in DOMAIN entries /\ entries[k].applied = watch_session
       /\ moved[k] \subseteq entries[k].dirty
  /\ Capturing => ~watch_active /\ ui # "activate" /\ ~Resetting
  /\ DOMAIN baseline # {} => Capturing
  /\ \A k \in DOMAIN baseline : k \in Keys /\ baseline[k].stable \cap moved[k] = {}

WatchInv == TypeInv /\ KeysInv /\ KnownInv /\ SeenInv /\ MarksInv

-----------------------------------------------------------------------------
(* A payload's bytes are bytes, and it overwrites an entry's.              *)
LEMMA PayloadIs ==
  ASSUME NEW p \in Payload
  PROVE  DOMAIN p \subseteq Bytes /\ p = [b \in DOMAIN p |-> p[b]]
         /\ \A b \in DOMAIN p : p[b] \in Values
<1>1. Cardinality(Bytes) \in Nat /\ Bytes = 0 .. Cardinality(Bytes) - 1
  BY FS_CardinalityType, WatchAssumption
<1>2. PICK n \in 0 .. Cardinality(Bytes) : p \in [0 .. n - 1 -> Values]
  BY DEF Payload
<1> QED
  BY <1>1, <1>2

LEMMA OverwritesData ==
  ASSUME NEW p \in Payload, NEW q \in [Bytes -> Values]
  PROVE  With(p, q) \in [Bytes -> Values]
BY PayloadIs DEF With

(* The parts of an entry that a step leaves alone.                         *)
LEMMA EntryParts ==
  ASSUME NEW e \in Entry
  PROVE  /\ e.data \in [Bytes -> Values] /\ e.dirty \subseteq Bytes
         /\ e.applied \in 0 .. MaxSessions
BY DEF Entry

LEMMA KnownStands ==
  ASSUME KnownBytes, known' = known, DOMAIN entries \subseteq DOMAIN entries',
         \A k \in DOMAIN entries : /\ entries'[k].data = entries[k].data
                                   /\ entries'[k].has_previous = entries[k].has_previous
  PROVE  KnownBytes'
<1> SUFFICES ASSUME NEW k \in Keys, NEW b \in DOMAIN known'[k]
             PROVE  /\ b \in Bytes /\ k \in DOMAIN entries' /\ entries'[k].has_previous
                    /\ entries'[k].data[b] = known'[k][b]
  BY DEF KnownBytes
<1>1. /\ b \in Bytes /\ k \in DOMAIN entries /\ entries[k].has_previous
      /\ entries[k].data[b] = known[k][b]
  BY DEF KnownBytes
<1> QED
  BY <1>1

-----------------------------------------------------------------------------
LEMMA WatchInit == Init => WatchInv
<1> SUFFICES ASSUME Init PROVE WatchInv
  OBVIOUS
<1>1. TypeInv
  BY WatchAssumption DEF Init, TypeInv, CanPlaces, UiPlaces
<1>2. KeysInv /\ KnownInv
  BY DEF Init, KeysInv, KnownInv, KnownBytes, Resetting
<1>3. SeenInv /\ MarksInv
  BY DEF Init, SeenInv, MarksInv, Capturing, Watching
<1> QED
  BY <1>1, <1>2, <1>3 DEF WatchInv

-----------------------------------------------------------------------------
(* The CAN task.                                                           *)
LEMMA CacheFrameStep ==
  ASSUME WatchInv, NEW f \in Frames, CacheFrame(f)
  PROVE  WatchInv'
<1> USE DEF WatchInv
<1>1. TypeInv'
  BY DEF CacheFrame, watch, uiVars, TypeInv, CanPlaces
<1>2. f.key \in Keys
  BY WatchAssumption DEF Frame
<1>3. DOMAIN entries = DOMAIN live /\ frame' = {f}
      /\ UNCHANGED <<entries, watch, changed, uiVars, known, moved>>
  BY DEF CacheFrame, KeysInv
<1>4. KeysInv'
  BY <1>3 DEF CacheFrame, KeysInv, HasRoom, With, Only
<1>5. /\ UNCHANGED <<ui, watch_active>> /\ (Resetting' <=> Resetting)
      /\ (fresh' <=> ~Resetting) /\ (whole' => watch_active /\ ui # "activate")
      /\ can' = "cached"
  BY DEF CacheFrame, Resetting, uiVars, watch
<1>6. KnownInv'
  <2>1. (Resetting => ~fresh /\ ~watch_active)'
    BY <1>5 DEF KnownInv
  <2>2. (Resetting \/ (frame # {} /\ ~fresh) => \A k \in Keys : DOMAIN known[k] = {})'
    BY <1>3, <1>5 DEF KnownInv
  <2>3. KnownBytes'
    BY <1>3 DEF KnownInv, KnownBytes
  <2> QED
    BY <2>1, <2>2, <2>3 DEF KnownInv
<1>6a. SeenInv'
  BY <1>3, <1>5 DEF SeenInv, KnownInv
<1>7. MarksInv'
  BY <1>3 DEF CacheFrame, MarksInv, Watching, Capturing, Resetting, uiVars, watch
<1> QED
  BY <1>1, <1>4, <1>6, <1>6a, <1>7

LEMMA FindEntryStep ==
  ASSUME WatchInv, FindEntry
  PROVE  WatchInv'
<1> USE DEF WatchInv
<1>1. PICK f \in Frames : frame = {f}
  BY DEF FindEntry, TypeInv
<1>2. f.key \in Keys
  BY WatchAssumption DEF Frame
<1>3. UNCHANGED <<live, watch, changed, uiVars, history>> /\ can = "cached"
  BY DEF FindEntry
<1>4. CASE HasRoom(entries, f.key)
  <2> DEFINE new == [data |-> [b \in Bytes |-> 0], has_previous |-> FALSE, dirty |-> {},
                     applied |-> watch_session]
  <2>1. /\ can' = "found" /\ frame' = frame
        /\ entries' = With(entries, Only(f.key, new))
    BY <1>1, <1>4 DEF FindEntry
  <2>2. new \in Entry
    BY WatchAssumption DEF TypeInv, Entry
  <2>3. /\ DOMAIN entries' = DOMAIN entries \cup {f.key}
        /\ \A k \in DOMAIN entries : entries'[k] = entries[k]
        /\ f.key \notin DOMAIN entries => entries'[f.key] = new
    BY <2>1 DEF With, Only
  <2>4. entries' \in [DOMAIN entries' -> Entry]
    <3>1. \A k \in DOMAIN entries' : entries'[k] \in Entry
      BY <2>2, <2>3 DEF TypeInv
    <3> QED
      BY <2>1, <3>1 DEF With
  <2>5. TypeInv'
    BY <1>1, <1>2, <1>3, <2>1, <2>3, <2>4 DEF TypeInv, CanPlaces, uiVars, watch, history
  <2>6. KeysInv'
    BY <1>1, <1>3, <1>4, <2>1, <2>3 DEF KeysInv
  <2>7. KnownInv'
    <3>1. KnownBytes'
      BY <1>3, <2>3, KnownStands DEF KnownInv, history
    <3> QED
      BY <1>3, <2>1, <3>1 DEF KnownInv, Resetting, uiVars, watch, history
  <2>8. SeenInv'
    BY <1>3, <2>1 DEF SeenInv, uiVars, watch, history
  <2>9. MarksInv'
    BY <1>3, <2>3 DEF MarksInv, Watching, Capturing, Resetting, uiVars, watch, history
  <2> QED
    BY <2>5, <2>6, <2>7, <2>8, <2>9
<1>5. CASE ~HasRoom(entries, f.key)
  <2>1. can' = "idle" /\ frame' = {} /\ entries' = entries
    BY <1>1, <1>5 DEF FindEntry
  <2>2. TypeInv'
    BY <1>3, <2>1 DEF TypeInv, CanPlaces, uiVars, watch, history
  <2>3. KeysInv'
    BY <1>1, <1>3, <1>5, <2>1 DEF KeysInv
  <2>4. KnownInv'
    BY <1>3, <2>1 DEF KnownInv, KnownBytes, Resetting, uiVars, watch, history
  <2>5. SeenInv'
    BY <1>3, <2>1 DEF SeenInv, uiVars, watch, history
  <2>6. MarksInv'
    BY <1>3, <2>1 DEF MarksInv, Watching, Capturing, Resetting, uiVars, watch, history
  <2> QED
    BY <2>2, <2>3, <2>4, <2>5, <2>6
<1> QED
  BY <1>4, <1>5

LEMMA ApplySessionStep ==
  ASSUME WatchInv, ApplySession
  PROVE  WatchInv'
<1> USE DEF WatchInv
<1>1. PICK f \in Frames : frame = {f}
  BY DEF ApplySession, TypeInv
<1>2. /\ UNCHANGED <<live, watch, frame, changed, uiVars, history>>
      /\ can = "found" /\ can' = "session" /\ f.key \in DOMAIN entries
  BY <1>1 DEF ApplySession, KeysInv
<1>3. CASE entries[f.key].applied = watch_session
  <2>1. entries' = entries
    BY <1>1, <1>3 DEF ApplySession
  <2>2. TypeInv' /\ KeysInv'
    BY <1>2, <2>1 DEF TypeInv, KeysInv, CanPlaces, uiVars, watch, history
  <2>3. KnownInv' /\ MarksInv'
    BY <1>2, <2>1 DEF KnownInv, KnownBytes, MarksInv, Watching, Capturing, Resetting,
       uiVars, watch, history
  <2>4. SeenInv'
    BY <1>1, <1>2, <1>3, <2>1 DEF SeenInv, uiVars, watch, history
  <2> QED
    BY <2>2, <2>3, <2>4
<1>4. CASE entries[f.key].applied # watch_session
  <2>1. entries' = [entries EXCEPT ![f.key].dirty = {}, ![f.key].applied = watch_session]
    BY <1>1, <1>4 DEF ApplySession
  <2>2. /\ DOMAIN entries' = DOMAIN entries /\ entries' \in [DOMAIN entries' -> Entry]
        /\ \A j \in DOMAIN entries :
             /\ entries'[j].data = entries[j].data
             /\ entries'[j].has_previous = entries[j].has_previous
             /\ entries'[j].dirty = (IF j = f.key THEN {} ELSE entries[j].dirty)
             /\ entries'[j].applied =
                  (IF j = f.key THEN watch_session ELSE entries[j].applied)
    BY <1>2, <2>1 DEF TypeInv, Entry
  <2>3. TypeInv' /\ KeysInv'
    BY <1>2, <2>2 DEF TypeInv, KeysInv, CanPlaces, uiVars, watch, history
  <2>4. KnownInv'
    <3>1. KnownBytes'
      BY <1>2, <2>2, KnownStands DEF KnownInv, history
    <3> QED
      BY <1>2, <3>1 DEF KnownInv, Resetting, uiVars, watch, history
  <2>5. SeenInv'
    BY <1>1, <1>2, <2>2 DEF SeenInv, uiVars, watch, history
  <2>6. MarksInv'
    <3>1. Watching => moved[f.key] = {}
      BY <1>2, <1>4 DEF MarksInv, TypeInv
    <3>2. UNCHANGED <<watch, ui, baseline, baseline_capture_active, moved>>
      BY <1>2 DEF uiVars, history
    <3>3. (Watching => \A k \in Keys : moved[k] # {} =>
             /\ k \in DOMAIN entries /\ entries[k].applied = watch_session
             /\ moved[k] \subseteq entries[k].dirty)'
      BY <2>2, <3>1, <3>2 DEF MarksInv, Watching, Capturing, watch
    <3> QED
      BY <3>2, <3>3 DEF MarksInv, Capturing, Resetting, watch
  <2> QED
    BY <2>3, <2>4, <2>5, <2>6
<1> QED
  BY <1>3, <1>4

LEMMA CompareBytesStep ==
  ASSUME WatchInv, CompareBytes
  PROVE  WatchInv'
<1> USE DEF WatchInv
<1>1. PICK f \in Frames : frame = {f}
  BY DEF CompareBytes, TypeInv
<1>2. /\ UNCHANGED <<tables, watch, frame, uiVars, history>>
      /\ can = "session" /\ can' = "compared" /\ f.key \in DOMAIN entries
      /\ f.key \in Keys /\ f.data \in Payload
      /\ changed' = IF entries[f.key].has_previous
                    THEN Differing(f.data, entries[f.key].data) ELSE {}
  BY <1>1, WatchAssumption DEF CompareBytes, KeysInv, Frame
<1>3. TypeInv'
  <2>1. changed' \subseteq Bytes
    BY <1>2, PayloadIs DEF Differing
  <2> QED
    BY <1>2, <2>1 DEF TypeInv, CanPlaces, tables, uiVars, watch, history
<1>4. KeysInv' /\ KnownInv' /\ MarksInv'
  BY <1>2 DEF KeysInv, KnownInv, KnownBytes, MarksInv, Watching, Capturing, Resetting,
     tables, uiVars, watch, history
<1>5. Moving(f) \subseteq changed'
  <2>1. entries[f.key].data \in [Bytes -> Values]
    BY <1>2, EntryParts DEF TypeInv
  <2>2. ASSUME NEW b \in Moving(f) PROVE b \in changed'
    <3>1. b \in DOMAIN f.data /\ b \in DOMAIN known[f.key] /\ f.data[b] # known[f.key][b]
      BY <2>2 DEF Moving, Differing
    <3>2. /\ b \in Bytes /\ entries[f.key].has_previous
          /\ entries[f.key].data[b] = known[f.key][b]
      BY <1>2, <3>1 DEF KnownInv, KnownBytes
    <3> QED
      BY <1>2, <2>1, <3>1, <3>2 DEF Differing
  <2> QED
    BY <2>2
<1>6. SeenInv'
  BY <1>1, <1>2, <1>5 DEF SeenInv, Moving, tables, uiVars, watch, history
<1> QED
  BY <1>3, <1>4, <1>6

LEMMA TestActiveStep ==
  ASSUME WatchInv, TestActive
  PROVE  WatchInv'
<1> USE DEF WatchInv
<1>1. PICK f \in Frames : frame = {f}
  BY DEF TestActive, TypeInv
<1>2. /\ UNCHANGED <<tables, watch, frame, changed, uiVars, history>>
      /\ can = "compared" /\ f.key \in DOMAIN entries /\ f.key \in Keys
      /\ can' = IF watch_active /\ entries[f.key].has_previous /\ changed # {}
                THEN "mark" ELSE "store"
  BY <1>1, WatchAssumption DEF TestActive, KeysInv, Frame
<1>3. TypeInv'
  BY <1>2 DEF TypeInv, CanPlaces, tables, uiVars, watch, history
<1>4. KeysInv' /\ KnownInv' /\ MarksInv'
  BY <1>2 DEF KeysInv, KnownInv, KnownBytes, MarksInv, Watching, Capturing, Resetting,
     tables, uiVars, watch, history
<1>5. whole /\ can' = "store" => Moving(f) = {}
  <2> SUFFICES ASSUME whole, can' = "store", NEW b \in Moving(f) PROVE FALSE
    OBVIOUS
  <2>1. watch_active /\ b \in changed
    BY <1>1, <1>2 DEF SeenInv
  <2>2. entries[f.key].has_previous
    BY <1>2 DEF KnownInv, KnownBytes, Moving, Differing
  <2> QED
    BY <1>2, <2>1, <2>2
<1>6. SeenInv'
  BY <1>1, <1>2, <1>5 DEF SeenInv, Moving, tables, uiVars, watch, history
<1> QED
  BY <1>3, <1>4, <1>6
LEMMA MarkBytesStep ==
  ASSUME WatchInv, MarkBytes
  PROVE  WatchInv'
<1> USE DEF WatchInv
<1>1. PICK f \in Frames : frame = {f}
  BY DEF MarkBytes, TypeInv
<1>2. /\ UNCHANGED <<live, watch, frame, changed, uiVars, history>>
      /\ can = "mark" /\ can' = "store" /\ f.key \in DOMAIN entries /\ f.key \in Keys
      /\ entries' = [entries EXCEPT ![f.key].dirty = @ \cup changed]
  BY <1>1, WatchAssumption DEF MarkBytes, KeysInv, Frame
<1>3. /\ DOMAIN entries' = DOMAIN entries /\ entries' \in [DOMAIN entries' -> Entry]
      /\ \A j \in DOMAIN entries :
           /\ entries'[j].data = entries[j].data
           /\ entries'[j].has_previous = entries[j].has_previous
           /\ entries'[j].dirty = entries[j].dirty \cup (IF j = f.key THEN changed ELSE {})
           /\ entries'[j].applied = entries[j].applied
  BY <1>2 DEF TypeInv, Entry
<1>4. TypeInv' /\ KeysInv'
  BY <1>2, <1>3 DEF TypeInv, KeysInv, CanPlaces, uiVars, watch, history
<1>5. KnownInv'
  <2>1. KnownBytes'
    BY <1>2, <1>3, KnownStands DEF KnownInv, history
  <2> QED
    BY <1>2, <2>1 DEF KnownInv, Resetting, uiVars, watch, history
<1>6. SeenInv'
  BY <1>1, <1>2, <1>3 DEF SeenInv, Moving, uiVars, watch, history
<1>7. MarksInv'
  BY <1>2, <1>3 DEF MarksInv, Watching, Capturing, Resetting, uiVars, watch, history
<1> QED
  BY <1>4, <1>5, <1>6, <1>7

LEMMA StoreBytesStep ==
  ASSUME WatchInv, StoreBytes
  PROVE  WatchInv'
<1> USE DEF WatchInv
<1>1. PICK f \in Frames : frame = {f}
  BY DEF StoreBytes, TypeInv
<1>2. /\ UNCHANGED <<live, watch, uiVars>>
      /\ can = "store" /\ can' = "idle" /\ frame' = {} /\ changed' = {}
      /\ f.key \in DOMAIN entries /\ f.key \in Keys /\ f.data \in Payload
      /\ entries' = [entries EXCEPT ![f.key].data = With(f.data, @),
                                    ![f.key].has_previous = TRUE]
  BY <1>1, WatchAssumption DEF StoreBytes, KeysInv, Frame
<1>3. /\ moved' = IF whole THEN [moved EXCEPT ![f.key] = @ \cup Moving(f)] ELSE moved
      /\ known' = IF fresh THEN [known EXCEPT ![f.key] = With(f.data, @)] ELSE known
      /\ fresh' = FALSE /\ whole' = FALSE
  BY <1>1 DEF StoreBytes, Moving
<1>4. entries[f.key] \in Entry /\ With(f.data, entries[f.key].data) \in [Bytes -> Values]
  BY <1>2, EntryParts, OverwritesData DEF TypeInv
<1>5. /\ DOMAIN entries' = DOMAIN entries /\ entries' \in [DOMAIN entries' -> Entry]
      /\ \A j \in DOMAIN entries :
           /\ j # f.key => entries'[j] = entries[j]
           /\ entries'[j].dirty = entries[j].dirty
           /\ entries'[j].applied = entries[j].applied
      /\ entries'[f.key].data = With(f.data, entries[f.key].data)
      /\ entries'[f.key].has_previous
  BY <1>2, <1>4 DEF TypeInv, Entry
<1>6. Moving(f) \subseteq Bytes
  BY <1>2, PayloadIs DEF Moving, Differing
<1>7. TypeInv'
  <2>1. moved' \in [Keys -> SUBSET Bytes] /\ known' = [k \in Keys |-> known'[k]]
    BY <1>2, <1>3, <1>6 DEF TypeInv
  <2> QED
    BY <1>2, <1>5, <2>1 DEF TypeInv, CanPlaces, uiVars, watch
<1>8. KeysInv'
  BY <1>2, <1>5 DEF KeysInv
<1>9. KnownInv'
  <2>1. KnownBytes'
    <3> SUFFICES ASSUME NEW k \in Keys, NEW b \in DOMAIN known'[k]
                 PROVE  /\ b \in Bytes /\ k \in DOMAIN entries'
                        /\ entries'[k].has_previous
                        /\ entries'[k].data[b] = known'[k][b]
      BY DEF KnownBytes
    <3>1. fresh
      BY <1>1, <1>3 DEF KnownInv
    <3>2. CASE k # f.key
      <4>1. known'[k] = known[k]
        BY <1>3, <3>2 DEF TypeInv
      <4> QED
        BY <1>5, <3>2, <4>1 DEF KnownInv, KnownBytes
    <3>3. CASE k = f.key
      <4>1. known'[k] = With(f.data, known[k])
        BY <1>2, <1>3, <3>1, <3>3 DEF TypeInv
      <4>2. CASE b \in DOMAIN f.data
        <5>1. b \in Bytes
          BY <1>2, <4>2, PayloadIs
        <5>2. known'[k][b] = f.data[b] /\ With(f.data, entries[k].data)[b] = f.data[b]
          BY <4>1, <4>2 DEF With
        <5> QED
          BY <1>2, <1>5, <3>3, <5>1, <5>2
      <4>3. CASE b \notin DOMAIN f.data
        <5>1. b \in DOMAIN known[k]
          BY <4>1, <4>3 DEF With
        <5>2. b \in Bytes /\ entries[k].data[b] = known[k][b]
          BY <5>1 DEF KnownInv, KnownBytes
        <5>3. b \in DOMAIN entries[k].data
          BY <1>4, <3>3, <5>2, EntryParts
        <5>4. /\ known'[k][b] = known[k][b]
              /\ With(f.data, entries[k].data)[b] = entries[k].data[b]
          BY <4>1, <4>3, <5>1, <5>3 DEF With
        <5> QED
          BY <1>2, <1>5, <3>3, <5>2, <5>4
      <4> QED
        BY <4>2, <4>3
    <3> QED
      BY <3>2, <3>3
  <2>2. Resetting' => Resetting /\ known' = known
    BY <1>2, <1>3 DEF KnownInv, Resetting, uiVars
  <2> QED
    BY <1>2, <1>3, <2>1, <2>2 DEF KnownInv, watch
<1>10. SeenInv'
  BY <1>2, <1>3 DEF SeenInv
<1>11. MarksInv'
  <2>1. UNCHANGED <<watch, ui, baseline, baseline_capture_active>>
    BY <1>2 DEF uiVars
  <2>2. CASE whole
    <3>1. /\ watch_active /\ ui # "activate" /\ ~Capturing /\ DOMAIN baseline = {}
          /\ entries[f.key].applied = watch_session
          /\ Moving(f) \subseteq entries[f.key].dirty
      BY <1>1, <1>2, <2>2 DEF SeenInv, MarksInv
    <3>2. \A k \in Keys : moved'[k] = moved[k] \cup (IF k = f.key THEN Moving(f) ELSE {})
      BY <1>2, <1>3, <2>2 DEF TypeInv
    <3>3. \A k \in Keys : moved'[k] # {} =>
             /\ k \in DOMAIN entries' /\ entries'[k].applied = watch_session
             /\ moved'[k] \subseteq entries'[k].dirty
      BY <1>2, <1>5, <3>1, <3>2 DEF MarksInv, Watching
    <3> QED
      BY <2>1, <3>1, <3>3 DEF MarksInv, Watching, Capturing, watch
  <2>3. CASE ~whole
    <3>1. moved' = moved
      BY <1>3, <2>3
    <3> QED
      BY <1>5, <2>1, <3>1 DEF MarksInv, Watching, Capturing, Resetting, watch
  <2> QED
    BY <2>2, <2>3
<1> QED
  BY <1>7, <1>8, <1>9, <1>10, <1>11

-----------------------------------------------------------------------------
(* The UI task: sessions.                                                  *)
LEMMA StartSteps ==
  ASSUME WatchInv, Start \/ Activate \/ Reset \/ BumpSession
  PROVE  WatchInv'
<1> USE DEF WatchInv
<1>1. CASE Start
  <2>0. watch_session' \in 0 .. MaxSessions
    BY <1>1, WatchAssumption DEF Start, TypeInv
  <2>1. TypeInv' /\ KeysInv'
    BY <1>1, <2>0 DEF Start, TypeInv, KeysInv, UiPlaces, tables, canVars
  <2>2. KnownInv'
    BY <1>1 DEF Start, KnownInv, KnownBytes, Resetting, tables, canVars
  <2>3. SeenInv'
    BY <1>1 DEF Start, SeenInv, Moving, tables, canVars
  <2>4. MarksInv'
    BY <1>1 DEF Start, MarksInv, Watching, Capturing, Resetting, tables, canVars
  <2> QED
    BY <2>1, <2>2, <2>3, <2>4
<1>2. CASE Activate
  <2>1. TypeInv' /\ KeysInv'
    BY <1>2 DEF Activate, TypeInv, KeysInv, UiPlaces, tables, canVars
  <2>2. KnownInv'
    BY <1>2 DEF Activate, KnownInv, KnownBytes, Resetting, tables, canVars
  <2>3. SeenInv'
    BY <1>2 DEF Activate, SeenInv, Moving, tables, canVars
  <2>4. MarksInv'
    BY <1>2 DEF Activate, MarksInv, Watching, Capturing, Resetting, tables, canVars
  <2> QED
    BY <2>1, <2>2, <2>3, <2>4
<1>3. CASE Reset
  <2>1. TypeInv' /\ KeysInv'
    BY <1>3 DEF Reset, TypeInv, KeysInv, UiPlaces, tables, canVars
  <2>2. KnownInv'
    BY <1>3 DEF Reset, KnownInv, KnownBytes, Resetting, tables, canVars
  <2>3. SeenInv'
    BY <1>3 DEF Reset, SeenInv, Moving, tables, canVars
  <2>4. MarksInv'
    BY <1>3 DEF Reset, MarksInv, Watching, Capturing, Resetting, tables, canVars
  <2> QED
    BY <2>1, <2>2, <2>3, <2>4
<1>4. CASE BumpSession
  <2>0. watch_session' \in 0 .. MaxSessions
    BY <1>4, WatchAssumption DEF BumpSession, TypeInv
  <2>1. TypeInv' /\ KeysInv'
    BY <1>4, <2>0 DEF BumpSession, TypeInv, KeysInv, UiPlaces, tables, canVars, history
  <2>2. KnownInv' /\ ~whole /\ ~Watching
    BY <1>4 DEF BumpSession, KnownInv, KnownBytes, Resetting, SeenInv, Watching,
       MarksInv, tables, canVars, history
  <2>3. SeenInv'
    BY <1>4, <2>2 DEF BumpSession, SeenInv, Moving, KnownInv, Resetting, tables, canVars,
       history
  <2>4. MarksInv'
    BY <1>4, <2>2 DEF BumpSession, MarksInv, Watching, Capturing, Resetting, tables,
       canVars, history
  <2> QED
    BY <2>1, <2>2, <2>3, <2>4
<1> QED
  BY <1>1, <1>2, <1>3, <1>4

(* The UI task: the snapshot, the baseline and the end of a request.       *)
LEMMA CaptureRowStep ==
  ASSUME WatchInv, NEW k \in Keys, CaptureRow(k)
  PROVE  WatchInv'
<1> USE DEF WatchInv
<1>1. /\ UNCHANGED <<tables, watch, canVars, ui, snap, baseline_capture_active, history>>
      /\ ui = "capture"
  BY DEF CaptureRow
<1>2. TypeInv' /\ KeysInv'
  BY <1>1 DEF TypeInv, KeysInv, tables, watch, canVars, history
<1>3. KnownInv' /\ SeenInv'
  BY <1>1 DEF KnownInv, KnownBytes, SeenInv, Moving, Resetting, tables, watch, canVars,
     history
<1>4. DOMAIN baseline' \subseteq DOMAIN baseline \cup {k}
      /\ \A j \in DOMAIN baseline' :
           \/ j \in DOMAIN baseline /\ baseline'[j] = baseline[j]
           \/ j = k /\ baseline'[j].stable = StableBytes(k)
  <2>1. CASE StableBytes(k) = {}
    BY <2>1 DEF CaptureRow
  <2>2. CASE StableBytes(k) # {}
    <3> DEFINE row == [data |-> snap[k], stable |-> StableBytes(k)]
    <3>1. baseline' = With(Only(k, row), baseline)
      BY <2>2 DEF CaptureRow
    <3>2. /\ DOMAIN baseline' = {k} \cup DOMAIN baseline
          /\ \A j \in DOMAIN baseline' :
               baseline'[j] = IF j = k THEN row ELSE baseline[j]
      BY <3>1 DEF With, Only
    <3>3. row.stable = StableBytes(k)
      OBVIOUS
    <3> HIDE DEF row
    <3> QED
      BY <3>2, <3>3
  <2> QED
    BY <2>1, <2>2
<1>5. Capturing
  BY <1>1 DEF Capturing
<1>6. StableBytes(k) \cap moved[k] = {}
  BY <1>5 DEF MarksInv, Watching, StableBytes, DirtyMaskFor
<1>7. MarksInv'
  BY <1>1, <1>4, <1>5, <1>6 DEF MarksInv, Watching, Capturing, Resetting, tables, watch,
     canVars, history
<1> QED
  BY <1>2, <1>3, <1>7

LEMMA FixSteps ==
  ASSUME WatchInv,
         BeginFix \/ EndSnapshot \/ CompareOrRefuse \/ EndCapture \/ StopWatch
         \/ EndReset \/ \E k \in Keys : CopyRow(k) \/ SkipFreeEntry(k)
  PROVE  WatchInv'
<1> USE DEF WatchInv
<1>1. CASE StopWatch
  <2>1. TypeInv' /\ KeysInv'
    BY <1>1 DEF StopWatch, TypeInv, KeysInv, UiPlaces, tables, canVars
  <2>2. KnownInv'
    BY <1>1 DEF StopWatch, KnownInv, KnownBytes, Resetting, tables, canVars
  <2>3. SeenInv'
    BY <1>1 DEF StopWatch, SeenInv, Moving, tables, canVars
  <2>4. MarksInv'
    BY <1>1 DEF StopWatch, MarksInv, Watching, Capturing, Resetting, tables, canVars
  <2> QED
    BY <2>1, <2>2, <2>3, <2>4
<1>2. CASE BeginFix \/ EndSnapshot \/ CompareOrRefuse \/ EndCapture
           \/ EndReset \/ \E k \in Keys : CopyRow(k) \/ SkipFreeEntry(k)
  <2>1. /\ UNCHANGED <<tables, watch, canVars, baseline, history>>
        /\ ui' # "activate" /\ ui # "activate" /\ (Capturing' <=> Capturing)
        /\ (Resetting' => Resetting) /\ ui' \in UiPlaces /\ ui' # "bump"
    BY <1>2 DEF BeginFix, EndSnapshot, CompareOrRefuse, EndCapture, EndReset, CopyRow,
       SkipFreeEntry, Capturing, Resetting, UiPlaces
  <2>2. TypeInv' /\ KeysInv'
    BY <2>1 DEF TypeInv, KeysInv, tables, watch, canVars, history
  <2>3. KnownInv' /\ SeenInv'
    BY <2>1 DEF KnownInv, KnownBytes, SeenInv, Moving, tables, watch, canVars, history
  <2>4. MarksInv'
    BY <2>1 DEF MarksInv, Watching, tables, watch, canVars, history
  <2> QED
    BY <2>2, <2>3, <2>4
<1> QED
  BY <1>1, <1>2

(* The UI task: entries are reset while nothing is known and no watch runs.*)
LEMMA ResetSteps ==
  ASSUME WatchInv, EraseEntry \/ \E k \in Keys : ResetEntry(k)
  PROVE  WatchInv'
<1> USE DEF WatchInv
<1>1. /\ UNCHANGED <<live, watch, canVars, baseline, baseline_capture_active, history>>
      /\ Resetting /\ Resetting' /\ ui' \in {"reset", "erase"}
  BY DEF EraseEntry, ResetEntry, Resetting
<1>2. DOMAIN entries' = DOMAIN entries /\ entries' \in [DOMAIN entries' -> Entry]
  <2>1. CASE EraseEntry
    BY <2>1, WatchAssumption DEF EraseEntry, TypeInv, Entry
  <2>2. ASSUME NEW k \in Keys, ResetEntry(k)
        PROVE  DOMAIN entries' = DOMAIN entries /\ entries' \in [DOMAIN entries' -> Entry]
    <3>1. /\ k \in DOMAIN entries /\ watch_session \in 0 .. MaxSessions
          /\ entries' = [entries EXCEPT ![k].dirty = {}, ![k].applied = watch_session,
                                        ![k].has_previous = FALSE]
          /\ entries[k] \in Entry
      BY <2>2 DEF ResetEntry, TypeInv
    <3>2. entries'[k] \in Entry
      BY <3>1 DEF Entry
    <3> QED
      BY <3>1, <3>2 DEF TypeInv
  <2> QED
    BY <2>1, <2>2
<1>3. TypeInv' /\ KeysInv'
  BY <1>1, <1>2 DEF TypeInv, KeysInv, HasRoom, UiPlaces, watch, canVars, history
<1>4. ~fresh /\ ~whole /\ ~watch_active /\ ~Capturing /\ ~Capturing'
      /\ \A k \in Keys : DOMAIN known[k] = {}
  BY <1>1 DEF KnownInv, SeenInv, MarksInv, Capturing
<1>5. KnownInv' /\ SeenInv'
  BY <1>1, <1>4 DEF KnownInv, KnownBytes, SeenInv, watch, canVars, history
<1>6. MarksInv'
  BY <1>1, <1>4 DEF MarksInv, Watching, watch, history
<1> QED
  BY <1>3, <1>5, <1>6

LEMMA WatchStep == WatchInv /\ [Next]_vars => WatchInv'
<1>1. WatchInv /\ CanTask => WatchInv'
  BY CacheFrameStep, FindEntryStep, ApplySessionStep, CompareBytesStep, TestActiveStep,
     MarkBytesStep, StoreBytesStep DEF CanTask
<1>2. WatchInv /\ UiTask => WatchInv'
  BY StartSteps, CaptureRowStep, FixSteps, ResetSteps DEF UiTask
<1>3. WatchInv /\ UNCHANGED vars => WatchInv'
  <2> SUFFICES ASSUME WatchInv, UNCHANGED vars PROVE WatchInv'
    OBVIOUS
  <2>1. TypeInv' /\ KeysInv'
    BY DEF WatchInv, TypeInv, KeysInv, HasRoom, vars, tables, watch, canVars, uiVars, history
  <2>2. KnownInv' /\ SeenInv'
    BY DEF WatchInv, KnownInv, KnownBytes, SeenInv, Moving, Resetting, vars, tables,
       watch, canVars, uiVars, history
  <2>3. MarksInv'
    BY DEF WatchInv, MarksInv, Watching, Capturing, Resetting, vars, tables, watch,
       canVars, uiVars, history
  <2> QED
    BY <2>1, <2>2, <2>3 DEF WatchInv
<1> QED
  BY <1>1, <1>2, <1>3 DEF Next

-----------------------------------------------------------------------------
(* No byte that moved in a frame seen whole by the watch is in the         *)
(* baseline as stable, and the watch tracks the dictionary's keys          *)
(* (handleFrameChangesWatch, observeFrame).                                *)
THEOREM StableBytesDidNotMove == Spec => []StableBytesStood
<1>1. WatchInv => StableBytesStood
  BY DEF WatchInv, MarksInv, KeysInv, StableBytesStood, MovedBytesAreNotStable,
     SameKeysTracked
<1> QED
  BY <1>1, WatchInit, WatchStep, PTL DEF Spec

-----------------------------------------------------------------------------
(* Between a reset that met no frame in hand and the next one, a watch is  *)
(* started once at most.  Until then no byte is marked, and from then on   *)
(* only bytes that changed since: an entry with a previous frame holds     *)
(* what is known of its key, and the baseline drops marked bytes.          *)
Quiet == ~Resetting /\ ~watch_active /\ ~Capturing
Changing(f) ==
  {b \in DOMAIN f.data :
     /\ f.key \in seen
     /\ b \in DOMAIN known[f.key] => f.data[b] # known[f.key][b]}
WindowInv ==
  /\ moved_window = [k \in Keys |-> moved_window[k]]
  /\ \A f \in frame : differing \subseteq moved_window[f.key]
OnceInv ==
  /\ frame # {} => fresh /\ ~Resetting
  /\ ui = "activate" => ~watch_active
  /\ Quiet => can # "mark"
OnlyMovedInv ==
  /\ \A f \in frame :
       /\ differing = Changing(f)
       /\ can \in {"compared", "mark"} => changed \subseteq differing
  /\ ~Resetting => \A k \in DOMAIN entries :
       /\ entries[k].has_previous => k \in seen
       /\ entries[k].dirty \subseteq IF Quiet THEN {} ELSE moved_window[k]
  /\ ui \in {"reset", "erase"} => \A k \in DOMAIN entries \cap visited :
       ~entries[k].has_previous /\ entries[k].dirty = {}
  /\ \A k \in DOMAIN baseline :
       DOMAIN baseline[k].data \ baseline[k].stable \subseteq moved_window[k]
CleanInv == WindowInv /\ (~tainted => OnceInv /\ OnlyMovedInv)

LEMMA CleanInit == Init => CleanInv
<1> SUFFICES ASSUME Init PROVE CleanInv
  OBVIOUS
<1>1. WindowInv /\ OnceInv
  BY DEF Init, WindowInv, OnceInv
<1>2. OnlyMovedInv
  BY DEF Init, OnlyMovedInv
<1> QED
  BY <1>1, <1>2 DEF CleanInv

(* A frame begun outside a reset is in hand alone, and its window holds    *)
(* what it changes.                                                        *)
LEMMA CacheFrameClean ==
  ASSUME WatchInv, CleanInv, NEW f \in Frames, CacheFrame(f)
  PROVE  CleanInv'
<1>1. /\ can = "idle" /\ can' = "cached" /\ frame' = {f}
      /\ differing' = Changing(f)
      /\ moved_window' = [moved_window EXCEPT ![f.key] = @ \cup Changing(f)]
      /\ tainted' = (tainted \/ Resetting) /\ fresh' = ~Resetting
      /\ UNCHANGED <<entries, watch, changed, uiVars, seen, known>>
  BY DEF CacheFrame, Changing
<1>2. f.key \in Keys
  BY WatchAssumption DEF Frame
<1>3. \A k \in Keys : moved_window[k] \subseteq moved_window'[k]
  BY <1>1, <1>2 DEF CleanInv, WindowInv
<1>4. WindowInv'
  BY <1>1, <1>2 DEF CleanInv, WindowInv
<1>5. Resetting' = Resetting /\ Capturing' = Capturing /\ Quiet' = Quiet
  BY <1>1 DEF Resetting, Capturing, Quiet, uiVars, watch
<1>6. ASSUME ~tainted' PROVE OnceInv' /\ OnlyMovedInv'
  <2>1. ~tainted /\ ~Resetting /\ OnceInv /\ OnlyMovedInv
    BY <1>1, <1>6 DEF CleanInv
  <2>2. OnceInv'
    BY <1>1, <1>5, <2>1 DEF OnceInv, uiVars, watch
  <2>3. Changing(f)' = Changing(f)
    BY <1>1 DEF Changing
  <2>4. /\ \A k \in DOMAIN entries : k \in Keys
        /\ \A k \in DOMAIN baseline : k \in Keys
    BY DEF WatchInv, TypeInv, MarksInv
  <2>5. /\ ui \notin {"reset", "erase"}
        /\ UNCHANGED <<entries, ui, baseline, seen>>
    BY <1>1, <2>1 DEF Resetting, uiVars
  <2>6. \A k \in DOMAIN entries :
          /\ entries[k].has_previous => k \in seen
          /\ entries[k].dirty \subseteq IF Quiet THEN {} ELSE moved_window'[k]
    BY <1>3, <2>1, <2>4 DEF OnlyMovedInv
  <2>7. \A k \in DOMAIN baseline :
          DOMAIN baseline[k].data \ baseline[k].stable \subseteq moved_window'[k]
    BY <1>3, <2>1, <2>4 DEF OnlyMovedInv
  <2> QED
    BY <1>1, <1>5, <2>2, <2>3, <2>5, <2>6, <2>7 DEF OnlyMovedInv
<1> QED
  BY <1>4, <1>6 DEF CleanInv

(* A new entry is unmarked, and a session's first frame only forgets.      *)
LEMMA FindEntryClean ==
  ASSUME WatchInv, CleanInv, FindEntry \/ ApplySession
  PROVE  CleanInv'
<1>1. PICK f \in Frames : frame = {f}
  BY DEF FindEntry, ApplySession, WatchInv, TypeInv
<1>2. /\ UNCHANGED <<live, watch, changed, uiVars, history>>
      /\ can' \in {"idle", "found", "session"} /\ frame' \subseteq frame
  BY DEF FindEntry, ApplySession
<1>3. /\ DOMAIN entries \subseteq DOMAIN entries'
      /\ \A k \in DOMAIN entries' :
           IF k \in DOMAIN entries
           THEN /\ entries'[k].has_previous = entries[k].has_previous
                /\ entries'[k].dirty \subseteq entries[k].dirty
           ELSE ~entries'[k].has_previous /\ entries'[k].dirty = {}
  <2>1. CASE FindEntry
    <3> DEFINE new == [data |-> [b \in Bytes |-> 0], has_previous |-> FALSE,
                       dirty |-> {}, applied |-> watch_session]
    <3>1. CASE entries' = entries
      BY <3>1
    <3>2. CASE entries' = With(entries, Only(f.key, new))
      <4>1. /\ DOMAIN entries' = DOMAIN entries \cup {f.key}
            /\ \A k \in DOMAIN entries : entries'[k] = entries[k]
            /\ f.key \notin DOMAIN entries => entries'[f.key] = new
        BY <3>2 DEF With, Only
      <4> QED
        BY <4>1
    <3> QED
      BY <1>1, <2>1, <3>1, <3>2 DEF FindEntry
  <2>2. CASE ApplySession
    <3>1. f.key \in DOMAIN entries /\ entries \in [DOMAIN entries -> Entry]
      BY <1>1, <2>2 DEF ApplySession, WatchInv, KeysInv, TypeInv
    <3>2. CASE entries' = entries
      BY <3>2
    <3>3. CASE entries' = [entries EXCEPT ![f.key].dirty = {},
                                          ![f.key].applied = watch_session]
      BY <3>1, <3>3 DEF Entry
    <3> QED
      BY <1>1, <2>2, <3>2, <3>3 DEF ApplySession
  <2> QED
    BY <2>1, <2>2
<1>4. /\ Resetting' = Resetting /\ Capturing' = Capturing /\ Quiet' = Quiet
      /\ Changing(f)' = Changing(f)
  BY <1>2 DEF Resetting, Capturing, Quiet, Changing, uiVars, watch, history
<1>5. WindowInv'
  BY <1>2 DEF CleanInv, WindowInv, history
<1>6. ASSUME ~tainted' PROVE OnceInv' /\ OnlyMovedInv'
  <2>1. OnceInv /\ OnlyMovedInv /\ ~Resetting
    BY <1>1, <1>2, <1>6 DEF CleanInv, OnceInv, history
  <2>2. OnceInv'
    BY <1>2, <1>4, <2>1 DEF OnceInv, uiVars, watch, history
  <2>3. \A k \in DOMAIN entries' :
          /\ entries'[k].has_previous => k \in seen
          /\ entries'[k].dirty \subseteq IF Quiet THEN {} ELSE moved_window[k]
    BY <1>3, <2>1 DEF OnlyMovedInv
  <2>4. UNCHANGED <<ui, baseline, differing, seen, moved_window>>
    BY <1>2 DEF uiVars, history
  <2>5. ui \notin {"reset", "erase"}
    BY <2>1 DEF Resetting
  <2> QED
    BY <1>1, <1>2, <1>4, <2>1, <2>3, <2>4, <2>5, <2>2 DEF OnlyMovedInv
<1> QED
  BY <1>5, <1>6 DEF CleanInv

(* A byte found changed differs from what is known of the key.             *)
LEMMA CompareBytesClean ==
  ASSUME WatchInv, CleanInv, CompareBytes
  PROVE  CleanInv'
<1>1. PICK f \in Frames : frame = {f}
  BY DEF CompareBytes, WatchInv, TypeInv
<1>2. /\ UNCHANGED <<tables, watch, frame, uiVars, history>>
      /\ can' = "compared"
      /\ changed' = IF entries[f.key].has_previous
                    THEN Differing(f.data, entries[f.key].data) ELSE {}
      /\ f.key \in DOMAIN entries /\ f.key \in Keys
  BY <1>1, WatchAssumption DEF CompareBytes, WatchInv, KeysInv, Frame
<1>3. /\ Resetting' = Resetting /\ Capturing' = Capturing /\ Quiet' = Quiet
      /\ Changing(f)' = Changing(f)
  BY <1>2 DEF Resetting, Capturing, Quiet, Changing, uiVars, watch, history
<1>4. WindowInv'
  BY <1>2 DEF CleanInv, WindowInv, history
<1>5. ASSUME ~tainted' PROVE OnceInv' /\ OnlyMovedInv'
  <2>1. OnceInv /\ OnlyMovedInv /\ ~Resetting
    BY <1>1, <1>2, <1>5 DEF CleanInv, OnceInv, history
  <2>2. OnceInv'
    BY <1>2, <1>3, <2>1 DEF OnceInv, uiVars, watch, history
  <2>3. changed' \subseteq Changing(f)
    <3> SUFFICES ASSUME NEW b \in changed' PROVE b \in Changing(f)
      OBVIOUS
    <3>1. /\ b \in DOMAIN f.data /\ f.data[b] # entries[f.key].data[b]
          /\ entries[f.key].has_previous
      BY <1>2 DEF Differing
    <3>2. f.key \in seen
      BY <1>2, <2>1, <3>1 DEF OnlyMovedInv
    <3>3. b \in DOMAIN known[f.key] => entries[f.key].data[b] = known[f.key][b]
      BY <1>2 DEF WatchInv, KnownInv, KnownBytes
    <3> QED
      BY <3>1, <3>2, <3>3 DEF Changing
  <2>4. UNCHANGED <<entries, ui, visited, baseline, differing, seen, moved_window>>
    BY <1>2 DEF tables, uiVars, history
  <2> QED
    BY <1>1, <1>2, <1>3, <2>1, <2>2, <2>3, <2>4 DEF OnlyMovedInv
<1> QED
  BY <1>4, <1>5 DEF CleanInv

(* Bytes are only marked while the watch runs or its baseline is taken,    *)
(* and those are bytes that the frame changes.                             *)
LEMMA MarkBytesClean ==
  ASSUME WatchInv, CleanInv, TestActive \/ MarkBytes
  PROVE  CleanInv'
<1>1. PICK f \in Frames : frame = {f}
  BY DEF TestActive, MarkBytes, WatchInv, TypeInv
<1>2. /\ UNCHANGED <<live, watch, frame, changed, uiVars, history>>
      /\ can \in {"compared", "mark"} /\ can' \in {"mark", "store"}
      /\ f.key \in DOMAIN entries
      /\ can' = "mark" => watch_active
      /\ entries \in [DOMAIN entries -> Entry]
  BY <1>1 DEF TestActive, MarkBytes, WatchInv, KeysInv, TypeInv, tables
<1>3. /\ DOMAIN entries' = DOMAIN entries
      /\ \A k \in DOMAIN entries :
           /\ entries'[k].has_previous = entries[k].has_previous
           /\ entries'[k].dirty \subseteq
                entries[k].dirty \cup
                (IF can = "mark" /\ k = f.key THEN changed ELSE {})
  <2>1. CASE TestActive
    BY <2>1 DEF TestActive, tables
  <2>2. CASE MarkBytes
    BY <1>1, <1>2, <2>2 DEF MarkBytes, Entry
  <2> QED
    BY <2>1, <2>2
<1>4. /\ Resetting' = Resetting /\ Capturing' = Capturing /\ Quiet' = Quiet
      /\ Changing(f)' = Changing(f)
  BY <1>2 DEF Resetting, Capturing, Quiet, Changing, uiVars, watch, history
<1>5. WindowInv'
  BY <1>2 DEF CleanInv, WindowInv, history
<1>6. ASSUME ~tainted' PROVE OnceInv' /\ OnlyMovedInv'
  <2>1. OnceInv /\ OnlyMovedInv /\ ~Resetting
    BY <1>1, <1>2, <1>6 DEF CleanInv, OnceInv, history
  <2>2. OnceInv'
    BY <1>2, <1>4, <2>1 DEF OnceInv, Quiet, uiVars, watch, history
  <2>3. /\ changed \subseteq differing /\ differing \subseteq moved_window[f.key]
        /\ differing = Changing(f)
    BY <1>1, <1>2, <2>1 DEF OnlyMovedInv, CleanInv, WindowInv
  <2>4. \A k \in DOMAIN entries :
          /\ entries'[k].has_previous => k \in seen
          /\ entries'[k].dirty \subseteq IF Quiet THEN {} ELSE moved_window[k]
    BY <1>3, <2>1, <2>3 DEF OnlyMovedInv, OnceInv
  <2>5. UNCHANGED <<ui, visited, baseline, differing, seen, moved_window>>
    BY <1>2 DEF uiVars, history
  <2>6. ui \notin {"reset", "erase"}
    BY <2>1 DEF Resetting
  <2> QED
    BY <1>1, <1>2, <1>3, <1>4, <2>1, <2>2, <2>3, <2>4, <2>5, <2>6
    DEF OnlyMovedInv
<1> QED
  BY <1>5, <1>6 DEF CleanInv

(* A stored frame makes its key seen.                                      *)
LEMMA StoreBytesClean ==
  ASSUME WatchInv, CleanInv, StoreBytes
  PROVE  CleanInv'
<1>1. PICK f \in Frames : frame = {f}
  BY DEF StoreBytes, WatchInv, TypeInv
<1>2. /\ UNCHANGED <<live, watch, uiVars, moved_window, tainted, differing>>
      /\ can = "store" /\ can' = "idle" /\ frame' = {}
      /\ f.key \in DOMAIN entries /\ f.data \in Payload
      /\ entries' = [entries EXCEPT ![f.key].data = With(f.data, @),
                                    ![f.key].has_previous = TRUE]
      /\ entries \in [DOMAIN entries -> Entry]
      /\ seen' = IF fresh THEN seen \cup {f.key} ELSE seen
  BY <1>1, WatchAssumption DEF StoreBytes, WatchInv, KeysInv, TypeInv, Frame
<1>3. /\ DOMAIN entries' = DOMAIN entries
      /\ \A k \in DOMAIN entries :
           /\ k # f.key => entries'[k].has_previous = entries[k].has_previous
           /\ entries'[k].dirty = entries[k].dirty
  BY <1>2 DEF Entry
<1>4. /\ Resetting' = Resetting /\ Capturing' = Capturing /\ Quiet' = Quiet
  BY <1>2 DEF Resetting, Capturing, Quiet, uiVars, watch
<1>5. WindowInv'
  BY <1>2 DEF CleanInv, WindowInv
<1>6. ASSUME ~tainted' PROVE OnceInv' /\ OnlyMovedInv'
  <2>1. OnceInv /\ OnlyMovedInv /\ ~Resetting /\ fresh
    BY <1>1, <1>2, <1>6 DEF CleanInv, OnceInv
  <2>2. OnceInv'
    BY <1>2, <1>4, <2>1 DEF OnceInv, uiVars, watch
  <2>3. \A k \in DOMAIN entries :
          /\ entries'[k].has_previous => k \in seen'
          /\ entries'[k].dirty \subseteq IF Quiet THEN {} ELSE moved_window[k]
    BY <1>2, <1>3, <2>1 DEF OnlyMovedInv
  <2>4. UNCHANGED <<ui, visited, baseline, moved_window>>
    BY <1>2 DEF uiVars
  <2>5. ui \notin {"reset", "erase"}
    BY <2>1 DEF Resetting
  <2> QED
    BY <1>2, <1>3, <1>4, <2>1, <2>2, <2>3, <2>4, <2>5 DEF OnlyMovedInv
<1> QED
  BY <1>5, <1>6 DEF CleanInv

(* A watch starts, and stops, over entries that are unmarked, or marked    *)
(* only with bytes of its window; a frame in hand is counted in it.        *)
LEMMA StartClean ==
  ASSUME WatchInv, CleanInv, Start \/ Activate \/ StopWatch
  PROVE  CleanInv'
<1>1. /\ UNCHANGED <<tables, canVars, seen, known, differing, fresh>>
      /\ tainted' <=> tainted \/ (ui = "idle" /\ watch_active)
      /\ ui' \notin {"reset", "erase"} /\ ~Resetting /\ ~Resetting'
  <2>1. CASE Start
    BY <2>1 DEF Start, Resetting
  <2>2. CASE Activate
    BY <2>2 DEF Activate, Resetting
  <2>3. CASE StopWatch
    BY <2>3 DEF StopWatch, Resetting
  <2> QED
    BY <2>1, <2>2, <2>3
<1>2. \A f \in frame : f.key \in Keys
  BY WatchAssumption DEF WatchInv, TypeInv, Frame
<1>3. WindowInv'
  <2>1. CASE Activate
    BY <1>1, <1>2, <2>1 DEF Activate, WindowInv, canVars, CleanInv
  <2>2. CASE Start \/ StopWatch
    BY <1>1, <2>2 DEF Start, StopWatch, CleanInv, WindowInv, canVars
  <2> QED
    BY <2>1, <2>2
<1>4. \A f \in frame : Changing(f)' = Changing(f)
  BY <1>1 DEF Changing
<1>5. ASSUME ~tainted' PROVE OnceInv' /\ OnlyMovedInv'
  <2>1. ~tainted /\ OnceInv /\ OnlyMovedInv
    BY <1>1, <1>5 DEF CleanInv
  <2>2. Start \/ Activate => Quiet
    BY <1>1, <1>5, <2>1
    DEF Start, Activate, Quiet, Capturing, OnceInv, WatchInv, MarksInv
  <2>5. StopWatch => ~Quiet /\ ~Quiet'
    BY DEF StopWatch, Quiet, Capturing
  <2>6. DOMAIN baseline' = {}
    <3>1. CASE Start \/ Activate
      BY <2>2, <3>1 DEF Start, Activate, Quiet, WatchInv, MarksInv
    <3>2. CASE StopWatch
      BY <3>2 DEF StopWatch
    <3> QED
      BY <3>1, <3>2
  <2>7. ui' = "activate" => ~watch_active'
    BY <1>1, <1>5, <2>2 DEF Start, Activate, StopWatch, Quiet
  <2>3. OnceInv'
    BY <1>1, <2>1, <2>2, <2>5, <2>7 DEF OnceInv, canVars
  <2>4. \A k \in DOMAIN entries :
          /\ entries[k].has_previous => k \in seen
          /\ entries[k].dirty \subseteq IF Quiet' THEN {} ELSE moved_window'[k]
    <3>1. CASE Start \/ Activate
      BY <1>1, <2>1, <2>2, <3>1 DEF OnlyMovedInv
    <3>2. CASE StopWatch
      BY <1>1, <2>1, <2>5, <3>2 DEF OnlyMovedInv, StopWatch
    <3> QED
      BY <3>1, <3>2
  <2> QED
    BY <1>1, <1>4, <2>1, <2>3, <2>4, <2>6 DEF OnlyMovedInv, tables, canVars
<1> QED
  BY <1>3, <1>5 DEF CleanInv

(* What a row loses to the baseline is marked, so it is in the window.     *)
LEMMA CaptureRowClean ==
  ASSUME WatchInv, CleanInv, NEW k \in Keys, CaptureRow(k)
  PROVE  CleanInv'
<1>1. /\ ui = "capture" /\ k \in DOMAIN snap \ visited
      /\ UNCHANGED <<tables, watch, canVars, ui, snap, baseline_capture_active,
                     history>>
  BY DEF CaptureRow
<1>2. /\ Resetting' = Resetting /\ Quiet' = Quiet
      /\ \A f \in frame : Changing(f)' = Changing(f)
      /\ ~Resetting /\ ~Quiet
  BY <1>1
  DEF Resetting, Capturing, Quiet, Changing, watch, history
<1>3. WindowInv'
  BY <1>1 DEF CleanInv, WindowInv, canVars, history
<1>4. ASSUME ~tainted' PROVE OnceInv' /\ OnlyMovedInv'
  <2>1. OnceInv /\ OnlyMovedInv
    BY <1>1, <1>4 DEF CleanInv, history
  <2>2. OnceInv'
    BY <1>1, <1>2, <2>1 DEF OnceInv, watch, canVars, history
  <2>3. DOMAIN snap[k] \ StableBytes(k) \subseteq moved_window[k]
    BY <1>2, <2>1 DEF OnlyMovedInv, StableBytes, DirtyMaskFor
  <2>4. ASSUME NEW j \in DOMAIN baseline'
        PROVE  DOMAIN baseline'[j].data \ baseline'[j].stable
                 \subseteq moved_window[j]
    <3> DEFINE row == [data |-> snap[k], stable |-> StableBytes(k)]
    <3>1. CASE baseline' = baseline
      BY <2>1, <3>1 DEF OnlyMovedInv
    <3>2. CASE baseline' = With(Only(k, row), baseline)
      <4>1. \/ j = k /\ baseline'[j] = row
            \/ j \in DOMAIN baseline /\ baseline'[j] = baseline[j]
        BY <3>2 DEF With, Only
      <4>2. row.data = snap[k] /\ row.stable = StableBytes(k)
        OBVIOUS
      <4> HIDE DEF row
      <4> QED
        BY <2>1, <2>3, <4>1, <4>2 DEF OnlyMovedInv
    <3> QED
      BY <3>1, <3>2 DEF CaptureRow
  <2> QED
    BY <1>1, <1>2, <2>1, <2>2, <2>4
    DEF OnlyMovedInv, tables, canVars, history
<1> QED
  BY <1>3, <1>4 DEF CleanInv

(* The steps of fix that copy rows, and the ends of requests.              *)
LEMMA FixClean ==
  ASSUME WatchInv, CleanInv,
         BeginFix \/ EndSnapshot \/ CompareOrRefuse \/ EndCapture
         \/ \E k \in Keys : CopyRow(k)
  PROVE  CleanInv'
<1>1. /\ UNCHANGED <<tables, watch, canVars, baseline, history>>
      /\ ui' # "activate" /\ ui # "activate" /\ (Capturing' <=> Capturing)
      /\ ~Resetting /\ ~Resetting' /\ ui' \notin {"reset", "erase"}
  BY DEF BeginFix, EndSnapshot, CompareOrRefuse, EndCapture, CopyRow,
     Capturing, Resetting
<1>2. (Quiet' <=> Quiet) /\ \A f \in frame : Changing(f)' = Changing(f)
  BY <1>1 DEF Quiet, Changing, watch, history
<1>3. WindowInv'
  BY <1>1 DEF CleanInv, WindowInv, canVars, history
<1>4. ASSUME ~tainted' PROVE OnceInv' /\ OnlyMovedInv'
  <2>1. OnceInv /\ OnlyMovedInv
    BY <1>1, <1>4 DEF CleanInv, history
  <2>2. OnceInv'
    BY <1>1, <1>2, <2>1 DEF OnceInv, watch, canVars, history
  <2> QED
    BY <1>1, <1>2, <2>1, <2>2 DEF OnlyMovedInv, tables, canVars, history
<1> QED
  BY <1>3, <1>4 DEF CleanInv

(* A reset that meets no frame leaves every entry unmarked and with no     *)
(* previous frame.                                                         *)
LEMMA ResetClean ==
  ASSUME WatchInv, CleanInv,
         Reset \/ BumpSession \/ EraseEntry \/ EndReset
         \/ \E k \in Keys : SkipFreeEntry(k) \/ ResetEntry(k)
  PROVE  CleanInv'
<1>1. /\ UNCHANGED <<live, canVars, moved_window, differing>>
      /\ DOMAIN baseline' \subseteq DOMAIN baseline
  <2>1. CASE Reset
    BY <2>1 DEF Reset, tables
  <2>2. CASE ~Reset
    BY <2>2 DEF BumpSession, EraseEntry, EndReset, SkipFreeEntry, ResetEntry,
       tables, history
  <2> QED
    BY <2>1, <2>2
<1>2. WindowInv'
  BY <1>1 DEF CleanInv, WindowInv, canVars
<1>3. CASE Reset
  <2>1. /\ ui' = "bump" /\ tainted' = (frame # {}) /\ DOMAIN baseline' = {}
        /\ frame' = frame
    BY <1>3 DEF Reset, canVars
  <2>2. Resetting' /\ ~Quiet'
    BY <2>1 DEF Resetting, Quiet
  <2>3. ~tainted' => OnceInv' /\ OnlyMovedInv'
    BY <2>1, <2>2 DEF OnceInv, OnlyMovedInv
  <2> QED
    BY <1>2, <2>3 DEF CleanInv
<1>4. CASE ~Reset
  <2>1. /\ Resetting /\ UNCHANGED <<watch_active, baseline_capture_active, history>>
        /\ ui' \in {"reset", "erase", "idle"}
        /\ DOMAIN entries' = DOMAIN entries
    BY <1>4 DEF BumpSession, EraseEntry, EndReset, SkipFreeEntry, ResetEntry,
       Resetting, watch, tables, history
  <2>2. /\ ~watch_active /\ ~Capturing /\ ~Capturing' /\ DOMAIN baseline' = {}
    BY <1>1, <2>1 DEF WatchInv, KnownInv, MarksInv, Capturing
  <2>3. ASSUME ~tainted' PROVE OnceInv' /\ OnlyMovedInv'
    <3>1. OnceInv /\ OnlyMovedInv /\ frame = {} /\ frame' = {} /\ can' = "idle"
      BY <1>1, <2>1, <2>3 DEF CleanInv, OnceInv, WatchInv, TypeInv, canVars, history
    <3>2. OnceInv'
      BY <2>1, <3>1 DEF OnceInv
    <3>3. CASE BumpSession
      BY <2>2, <3>1, <3>2, <3>3 DEF BumpSession, OnlyMovedInv, Resetting
    <3>4. CASE EraseEntry
      <4>1. \A k \in DOMAIN entries :
              /\ entries'[k].has_previous = entries[k].has_previous
              /\ entries'[k].dirty = entries[k].dirty
        BY <3>4 DEF EraseEntry, WatchInv, TypeInv, Entry
      <4> QED
        BY <2>1, <2>2, <3>1, <3>2, <3>4, <4>1
        DEF EraseEntry, OnlyMovedInv, Resetting
    <3>5. CASE EndReset
      <4>1. /\ \A k \in DOMAIN entries :
                 ~entries[k].has_previous /\ entries[k].dirty = {}
            /\ entries' = entries /\ ui' = "idle"
        BY <3>1, <3>5 DEF EndReset, OnlyMovedInv, WatchInv, TypeInv, tables
      <4> QED
        BY <2>2, <3>1, <3>2, <4>1 DEF OnlyMovedInv
    <3>6. ASSUME NEW k \in Keys, SkipFreeEntry(k)
          PROVE  OnlyMovedInv'
      BY <2>2, <3>1, <3>6 DEF SkipFreeEntry, OnlyMovedInv, Resetting, tables
    <3>7. ASSUME NEW k \in Keys, ResetEntry(k)
          PROVE  OnlyMovedInv'
      <4>0. /\ k \in DOMAIN entries /\ entries \in [DOMAIN entries -> Entry]
            /\ entries' = [entries EXCEPT ![k].dirty = {},
                 ![k].applied = watch_session, ![k].has_previous = FALSE]
        BY <3>7 DEF ResetEntry, WatchInv, TypeInv
      <4>1. \A j \in DOMAIN entries :
              IF j = k THEN ~entries'[j].has_previous /\ entries'[j].dirty = {}
              ELSE entries'[j] = entries[j]
        BY <4>0 DEF Entry
      <4> QED
        BY <2>1, <2>2, <3>1, <3>7, <4>1 DEF ResetEntry, OnlyMovedInv, Resetting
    <3> QED
      BY <1>4, <3>2, <3>3, <3>4, <3>5, <3>6, <3>7
  <2> QED
    BY <1>2, <2>3 DEF CleanInv
<1> QED
  BY <1>3, <1>4

LEMMA CleanStep == WatchInv /\ CleanInv /\ [Next]_vars => CleanInv'
<1>1. WatchInv /\ CleanInv /\ CanTask => CleanInv'
  BY CacheFrameClean, FindEntryClean, CompareBytesClean, MarkBytesClean,
     StoreBytesClean DEF CanTask
<1>2. WatchInv /\ CleanInv /\ UiTask => CleanInv'
  BY StartClean, CaptureRowClean, FixClean, ResetClean DEF UiTask
<1>3. CleanInv /\ UNCHANGED vars => CleanInv'
  <2> SUFFICES ASSUME CleanInv, UNCHANGED vars PROVE CleanInv'
    OBVIOUS
  <2>1. /\ Resetting' = Resetting /\ Quiet' = Quiet
        /\ \A f \in frame : Changing(f)' = Changing(f)
    BY DEF Resetting, Quiet, Capturing, Changing, vars, uiVars, watch, history
  <2> QED
    BY <2>1 DEF CleanInv, WindowInv, OnceInv, OnlyMovedInv, vars, tables, watch,
       canVars, uiVars, history
<1> QED
  BY <1>1, <1>2, <1>3 DEF Next

(* A byte left out of the baseline did change since the watch started,     *)
(* unless a reset met a frame in hand or the watch was started while it    *)
(* ran (handleFrameChangesWatch, dirtyMaskFor).                            *)
THEOREM DroppedBytesDidMove == Spec => []DroppedBytesMoved
<1>1. CleanInv => DroppedBytesMoved
  BY DEF CleanInv, OnlyMovedInv, DroppedBytesMoved
<1> QED
  BY <1>1, WatchInit, WatchStep, CleanInit, CleanStep, PTL DEF Spec
=============================================================================
