----------------------------- MODULE FrameCache -----------------------------
(***************************************************************************)
(* The frame dictionary (core/frame_cache.cpp): an open-addressed table of *)
(* the latest frame per (can_id, direction), written by the CAN task and   *)
(* copied by the UI task under a sequence lock per entry.  The fields of   *)
(* an entry are written, and copied, in two groups: what the frame holds   *)
(* (key, dlc, data) and what is known of it (mutated, timestamp, period,   *)
(* changed bytes).  Memory is sequentially consistent.                     *)
(*                                                                         *)
(* A definition named ...Mutant is a faulty version of the one after it,   *)
(* kept to show that a property notices the fault; nothing uses it.        *)
(***************************************************************************)
EXTENDS Integers, FiniteSets

CONSTANTS
  MaxEntries,    \* kMaxEntries, 256 in the code
  Keys,          \* (can_id, direction) pairs
  Home,          \* hashKey modulo kMaxEntries
  Bytes,         \* positions in the payload, 0 .. dlc - 1 of them in use
  Values,        \* values of a byte, 0 among them
  TimeModulus,   \* timestamps are 32-bit microseconds
  Millisecond,   \* 1000 of them
  Frames,        \* the frames that reach update()
  MaxUpdates     \* bound: updates in a behaviour

Index == 0 .. MaxEntries - 1
Times == 0 .. TimeModulus - 1

Frame ==
  [key : Keys, dlc : Nat, data : [Bytes -> Values], mutated : BOOLEAN,
   timestamp : Times]

ASSUME CacheAssumption ==
  /\ MaxEntries \in Nat \ {0}
  /\ Keys # {} /\ Home \in [Keys -> Index]
  /\ Bytes \subseteq Nat
  /\ 0 \in Values
  /\ TimeModulus \in Nat \ {0} /\ Millisecond \in Nat \ {0}
  /\ Frames \subseteq Frame
  /\ MaxUpdates \in Nat

(* The two groups of an entry's fields, and the entry.                     *)
Body == [key : Keys, dlc : Nat, data : [Bytes -> Values]]
Meta ==
  [mutated : BOOLEAN, timestamp : Times, period : Nat,
   changed : SUBSET Bytes]
Row == [body : Body, meta : Meta]

Blank(key) ==
  [body |-> [key |-> key, dlc |-> 0, data |-> [b \in Bytes |-> 0]],
   meta |-> [mutated |-> FALSE, timestamp |-> 0, period |-> 0,
             changed |-> {}]]

VARIABLES
  rows,        \* the fields of the entries that are in use
  in_use,      \* the indices whose in_use flag is set
  sequence,    \* the sequence of each entry
  \* the CAN task in update()
  can,         \* "idle", "found", "open", "body" or "meta"
  frame,       \* its frame
  slot,        \* its entry
  mask,        \* the changed bytes it computed
  \* the UI task in snapshot()
  ui,          \* "idle", "scan", "body", "meta" or "verify"
  cursor,      \* index of the entry it is at
  attempt,     \* attempts left for that entry
  seq_a,       \* the sequence it read first
  copy,        \* its copy of the entry
  out,         \* <<index, row>> pairs it has produced
  \* history
  last,        \* the last frame stored for each key, none at first
  before,      \* the frame stored before that one
  settled,     \* entries complete when the snapshot began, untouched since
  updates

canVars == <<can, frame, slot, mask>>
uiVars == <<ui, cursor, attempt, seq_a, copy, out>>
vars == <<rows, in_use, sequence, canVars, uiVars, last, before, settled,
          updates>>

-----------------------------------------------------------------------------
Attempts == 4
Even(n) == n % 2 = 0

(* The probe order of a key: its home index, then the following ones.      *)
Probe(key, n) ==
  LET i == Home[key] + n IN IF i < MaxEntries THEN i ELSE i - MaxEntries

(* findOrCreate stops at the first entry that is free or holds the key.    *)
StopsMutant(key, n) == Probe(key, n) \notin in_use
Stops(key, n) ==
  LET i == Probe(key, n) IN i \notin in_use \/ rows[i].body.key = key
Found(key, n) ==
  Stops(key, n) /\ \A m \in 0 .. n - 1 : ~Stops(key, m)

Init ==
  /\ rows = [i \in Index |-> Blank(CHOOSE k \in Keys : TRUE)]
  /\ in_use = {}
  /\ sequence = [i \in Index |-> 0]
  /\ can = "idle" /\ frame = {} /\ slot = 0 /\ mask = {}
  /\ ui = "idle" /\ cursor = 0 /\ attempt = 0 /\ seq_a = 0
  /\ copy = rows[0] /\ out = {}
  /\ last = [k \in Keys |-> {}] /\ before = [k \in Keys |-> {}]
  /\ settled = {}
  /\ updates = 0

(* update() up to the return of findOrCreate.  A full table without the    *)
(* key drops the frame.  A new entry is published blank, with sequence 0.  *)
Update(f) ==
  /\ can = "idle" /\ updates < MaxUpdates
  /\ \E n \in Index :
       /\ Found(f.key, n)
       /\ slot' = Probe(f.key, n)
       /\ IF slot' \in in_use
          THEN UNCHANGED <<rows, in_use, sequence>>
          ELSE /\ rows' = [rows EXCEPT ![slot'] = Blank(f.key)]
               /\ sequence' = [sequence EXCEPT ![slot'] = 0]
               /\ in_use' = in_use \cup {slot'}
  /\ can' = "found" /\ frame' = {f}
  /\ updates' = updates + 1
  /\ UNCHANGED <<mask, uiVars, last, before, settled>>

UpdateDropped(f) ==
  /\ can = "idle" /\ updates < MaxUpdates
  /\ \A n \in Index : ~Stops(f.key, n)
  /\ updates' = updates + 1
  /\ UNCHANGED <<rows, in_use, sequence, canVars, uiVars, last, before,
                 settled>>

OpenEntry ==
  /\ can = "found"
  /\ can' = "open"
  /\ sequence' = [sequence EXCEPT ![slot] = @ + 1]
  /\ settled' = settled \ {slot}
  /\ UNCHANGED <<rows, in_use, frame, slot, mask, uiVars, last, before,
                 updates>>

(* Bytes beyond the dlc keep what an earlier, longer frame left there.     *)
Within(f) == {b \in Bytes : b < f.dlc}
WriteBodyMutant ==
  /\ can = "open"
  /\ can' = "body"
  /\ \E f \in frame : LET old == rows[slot].body IN
       /\ mask' = {b \in Within(old) : old.data[b] # f.data[b]}
       /\ rows' = [rows EXCEPT ![slot].body =
            [key |-> f.key, dlc |-> f.dlc,
             data |-> [b \in Bytes |-> IF b \in Within(old) THEN f.data[b]
                                       ELSE old.data[b]]]]
  /\ UNCHANGED <<in_use, sequence, frame, slot, uiVars, last, before, settled,
                 updates>>
WriteBody ==
  /\ can = "open"
  /\ can' = "body"
  /\ \E f \in frame :
       /\ mask' = {b \in Within(f) : rows[slot].body.data[b] # f.data[b]}
       /\ rows' = [rows EXCEPT ![slot].body =
            [key |-> f.key, dlc |-> f.dlc,
             data |-> [b \in Bytes |-> IF b \in Within(f) THEN f.data[b]
                                       ELSE rows[slot].body.data[b]]]]
  /\ UNCHANGED <<in_use, sequence, frame, slot, uiVars, last, before, settled,
                 updates>>

(* period_ms, from an unsigned difference of timestamps.                   *)
Period(new, old) == ((new - old) % TimeModulus) \div Millisecond

(* A zero timestamp stands for an entry that was never written.            *)
HasPrevious == rows[slot].meta.timestamp # 0
WriteMeta ==
  /\ can = "body"
  /\ can' = "meta"
  /\ \E f \in frame :
       rows' = [rows EXCEPT ![slot].meta =
         [mutated |-> f.mutated, timestamp |-> f.timestamp,
          period |-> IF HasPrevious
                     THEN Period(f.timestamp, rows[slot].meta.timestamp)
                     ELSE 0,
          changed |-> IF HasPrevious THEN mask ELSE {}]]
  /\ UNCHANGED <<in_use, sequence, frame, slot, mask, uiVars, last, before,
                 settled, updates>>

CloseEntry ==
  /\ can = "meta"
  /\ can' = "idle" /\ frame' = {} /\ slot' = 0 /\ mask' = {}
  /\ sequence' = [sequence EXCEPT ![slot] = @ + 1]
  /\ \E f \in frame :
       /\ last' = [last EXCEPT ![f.key] = {f}]
       /\ before' = [before EXCEPT ![f.key] = last[f.key]]
  /\ UNCHANGED <<rows, in_use, uiVars, settled, updates>>

-----------------------------------------------------------------------------
StartSnapshot ==
  /\ ui = "idle"
  /\ ui' = "scan" /\ cursor' = 0 /\ attempt' = Attempts /\ out' = {}
  /\ settled' = {i \in in_use : Even(sequence[i])}
  /\ UNCHANGED <<rows, in_use, sequence, canVars, seq_a, copy, last, before,
                 updates>>

NextEntryMutant == cursor' = cursor + 1 /\ UNCHANGED attempt
NextEntry == cursor' = cursor + 1 /\ attempt' = Attempts

(* An unused entry is passed over; so is one with no attempt left.         *)
SkipEntry ==
  /\ ui = "scan" /\ cursor \in Index
  /\ cursor \notin in_use \/ attempt = 0
  /\ NextEntry
  /\ UNCHANGED <<rows, in_use, sequence, canVars, ui, seq_a, copy, out,
                 last, before, settled, updates>>

(* An odd sequence spends an attempt.                                      *)
LoadSequence ==
  /\ ui = "scan" /\ cursor \in in_use /\ attempt > 0
  /\ attempt' = attempt - 1
  /\ IF Even(sequence[cursor])
     THEN ui' = "body" /\ seq_a' = sequence[cursor]
     ELSE UNCHANGED <<ui, seq_a>>
  /\ UNCHANGED <<rows, in_use, sequence, canVars, cursor, copy, out,
                 last, before, settled, updates>>

CopyBody ==
  /\ ui = "body"
  /\ ui' = "meta" /\ copy' = [copy EXCEPT !.body = rows[cursor].body]
  /\ UNCHANGED <<rows, in_use, sequence, canVars, cursor, attempt, seq_a, out,
                 last, before, settled, updates>>

CopyMeta ==
  /\ ui = "meta"
  /\ ui' = "verify" /\ copy' = [copy EXCEPT !.meta = rows[cursor].meta]
  /\ UNCHANGED <<rows, in_use, sequence, canVars, cursor, attempt, seq_a, out,
                 last, before, settled, updates>>

AcceptMutant == Even(sequence[cursor])
Accept == sequence[cursor] = seq_a
VerifySequence ==
  /\ ui = "verify"
  /\ ui' = "scan"
  /\ IF Accept
     THEN out' = out \cup {<<cursor, copy>>} /\ NextEntry
     ELSE UNCHANGED <<out, cursor, attempt>>
  /\ UNCHANGED <<rows, in_use, sequence, canVars, seq_a, copy, last,
                 before, settled, updates>>

EndSnapshot ==
  /\ ui = "scan" /\ cursor = MaxEntries
  /\ ui' = "idle"
  /\ UNCHANGED <<rows, in_use, sequence, canVars, cursor, attempt, seq_a, copy,
                 out, last, before, settled, updates>>

CanTask ==
  \/ \E f \in Frames : Update(f) \/ UpdateDropped(f)
  \/ OpenEntry \/ WriteBody \/ WriteMeta \/ CloseEntry

UiTask ==
  \/ SkipEntry \/ LoadSequence \/ CopyBody \/ CopyMeta \/ VerifySequence
  \/ EndSnapshot

Next == CanTask \/ StartSnapshot \/ UiTask

Spec == Init /\ [][Next]_vars

-----------------------------------------------------------------------------
(* Types of the entries and of the two tasks' local state.                 *)
TypeOK ==
  /\ rows \in [Index -> Row]
  /\ in_use \subseteq Index
  /\ sequence \in [Index -> Nat]
  /\ can \in {"idle", "found", "open", "body", "meta"}
  /\ frame \in SUBSET Frame /\ slot \in Index /\ mask \subseteq Bytes
  /\ ui \in {"idle", "scan", "body", "meta", "verify"}
  /\ cursor \in 0 .. MaxEntries /\ attempt \in 0 .. Attempts
  /\ seq_a \in Nat /\ copy \in Row
  /\ out \subseteq Index \X Row
  /\ settled \subseteq Index
  /\ updates \in 0 .. MaxUpdates

(* A copy that snapshot() is about to accept is the entry as it stands: no *)
(* row mixes two frames, whatever the CAN task stored while it was copied. *)
NoTornRow == ui = "verify" /\ Accept => copy = rows[cursor]

(* The dictionary has one entry per (can_id, direction): a key is never    *)
(* added again behind an entry that probing passed over.                   *)
OneEntryPerKey ==
  \A i, j \in in_use : rows[i].body.key = rows[j].body.key => i = j

(* A finished snapshot lists every entry that was complete when it began   *)
(* and was not updated meanwhile: running out of attempts loses only rows  *)
(* under change.                                                           *)
SettledRowsListed ==
  ui = "scan" /\ cursor = MaxEntries => settled \subseteq {o[1] : o \in out}

(* An entry at rest holds the last frame stored for its key.               *)
AtRest == {i \in in_use : Even(sequence[i]) /\ sequence[i] > 0}
HoldsLastFrame ==
  \A i \in AtRest : \A f \in last[rows[i].body.key] :
    /\ rows[i].body.dlc = f.dlc
    /\ \A b \in Within(f) : rows[i].body.data[b] = f.data[b]
    /\ rows[i].meta.timestamp = f.timestamp
    /\ rows[i].meta.mutated = f.mutated

(* What an entry says changed, and how long it took, is relative to the    *)
(* frame before (frame_cache.hpp:21-27).                                   *)
Compares(row, f, g) ==
  /\ row.period = Period(f.timestamp, g.timestamp)
  /\ \A b \in Within(f) \cap Within(g) :
       b \in row.changed <=> f.data[b] # g.data[b]

(* frame_cache.hpp:23-26, for every frame whose predecessor had a non-zero *)
(* timestamp, over the wrap-around of micros(); nothing for a first frame. *)
ChangesRelateToPreviousFrame ==
  \A i \in AtRest : LET k == rows[i].body.key IN
    /\ before[k] = {} => rows[i].meta.changed = {} /\ rows[i].meta.period = 0
    /\ \A f \in last[k], g \in before[k] :
         g.timestamp # 0 => Compares(rows[i].meta, f, g)

(* An entry at rest is true to the two last frames of its key.             *)
EntriesAreTrue == HoldsLastFrame /\ ChangesRelateToPreviousFrame

=============================================================================
