-------------------------- MODULE FrameCacheProofs --------------------------
(***************************************************************************)
(* What snapshot() may rely on, for tables of any size, any keys and any   *)
(* hash function: the sequence lock never lets a torn row through nor      *)
(* costs the snapshot an entry at rest, open addressing keeps one entry    *)
(* per key, and an entry is true to the two last frames of its key.        *)
(***************************************************************************)
EXTENDS FrameCache, TLAPS

(* The CAN task holds an entry of its frame's key, and that entry's        *)
(* sequence is odd exactly while its fields are being written.             *)
Writing == {"open", "body", "meta"}
WriterInv ==
  /\ can # "idle" =>
       /\ slot \in in_use
       /\ \E f \in Frame : frame = {f} /\ rows[slot].body.key = f.key
  /\ \A i \in Index : Even(sequence[i]) <=> ~(can \in Writing /\ i = slot)

(* While the entry's sequence is the one it started from, what the UI task *)
(* has copied is what the entry holds; sequences only grow.                *)
ReaderInv ==
  /\ ui \in {"body", "meta", "verify"} =>
       cursor \in in_use /\ Even(seq_a) /\ seq_a <= sequence[cursor]
  /\ ui \in {"meta", "verify"} /\ sequence[cursor] = seq_a =>
       copy.body = rows[cursor].body
  /\ ui = "verify" /\ sequence[cursor] = seq_a =>
       copy.meta = rows[cursor].meta

(* Every entry is found by probing: the indices before it on its key's     *)
(* probe sequence are all in use.                                          *)
Reached(key, i) ==
  \E n \in Index :
    Probe(key, n) = i /\ \A m \in 0 .. n - 1 : Probe(key, m) \in in_use
ProbeInv == \A i \in in_use : Reached(rows[i].body.key, i)

CacheInv ==
  TypeOK /\ WriterInv /\ ReaderInv /\ ProbeInv /\ OneEntryPerKey

-----------------------------------------------------------------------------
(* Adding one to a sequence changes its parity and exceeds it.             *)
LEMMA Parity ==
  ASSUME NEW n \in Nat
  PROVE  n + 1 \in Nat /\ n + 1 # n /\ (Even(n + 1) <=> ~Even(n))
  BY DEF Even

(* Probing stays inside the table.                                         *)
LEMMA ProbeInTable ==
  ASSUME NEW key \in Keys, NEW n \in Index
  PROVE  Probe(key, n) \in Index
<1>1. Home[key] \in Index /\ MaxEntries \in Nat \ {0}
  BY CacheAssumption
<1> QED
  BY <1>1 DEF Probe, Index

(* A blank entry is an entry.                                              *)
LEMMA BlankType ==
  ASSUME NEW key \in Keys
  PROVE  Blank(key) \in Row /\ Blank(key).body.key = key
<1>1. [b \in Bytes |-> 0] \in [Bytes -> Values] /\ 0 \in Times
  BY CacheAssumption DEF Times
<1> QED
  BY <1>1 DEF Blank, Row, Body, Meta

(* A period is a number of milliseconds.                                   *)
LEMMA PeriodType ==
  ASSUME NEW new \in Times, NEW old \in Times
  PROVE  Period(new, old) \in Nat
<1>1. new - old \in Int /\ TimeModulus \in Nat \ {0} /\ Millisecond \in Nat \ {0}
  BY CacheAssumption DEF Times
<1>2. (new - old) % TimeModulus \in Nat
  BY <1>1
<1> QED
  BY <1>1, <1>2 DEF Period

(* The initial states: no entry in use.                                    *)
LEMMA InitInv == Init => CacheInv
<1> SUFFICES ASSUME Init
             PROVE  CacheInv
  OBVIOUS
<1> DEFINE k == CHOOSE k \in Keys : TRUE
<1>1. k \in Keys
  BY CacheAssumption
<1>2. Blank(k) \in Row
  BY <1>1, BlankType
<1>3. 0 \in Index /\ 0 \in 0 .. MaxEntries
  BY CacheAssumption DEF Index
<1> HIDE DEF k
<1>4. rows = [i \in Index |-> Blank(k)]
  BY DEF Init, k
<1>5. TypeOK
  <2>1. rows \in [Index -> Row] /\ copy \in Row
    BY <1>2, <1>3, <1>4 DEF Init
  <2>2. sequence \in [Index -> Nat] /\ updates \in 0 .. MaxUpdates
    BY CacheAssumption DEF Init
  <2>3. attempt \in 0 .. Attempts
    BY DEF Init, Attempts
  <2> QED
    BY <1>3, <2>1, <2>2, <2>3 DEF Init, TypeOK
<1>6. WriterInv
  BY DEF Init, WriterInv, Writing, Even
<1>7. ReaderInv /\ ProbeInv /\ OneEntryPerKey
  BY DEF Init, ReaderInv, ProbeInv, OneEntryPerKey
<1> QED
  BY <1>5, <1>6, <1>7 DEF CacheInv

-----------------------------------------------------------------------------
(* An entry of the key would have been found before a free one.            *)
LEMMA NoEntryOfKey ==
  ASSUME CacheInv, NEW key \in Keys, NEW n \in Index, Found(key, n),
         Probe(key, n) \notin in_use, NEW i \in in_use
  PROVE  rows[i].body.key # key
<1> SUFFICES ASSUME rows[i].body.key = key
             PROVE  FALSE
  OBVIOUS
<1>1. PICK m \in Index :
        Probe(key, m) = i /\ \A j \in 0 .. m - 1 : Probe(key, j) \in in_use
  BY DEF CacheInv, ProbeInv, Reached
<1>2. n \in Int /\ m \in Int /\ n >= 0 /\ m >= 0
  BY CacheAssumption DEF Index
<1>3. ~(m < n)
  <2> SUFFICES ASSUME m < n
               PROVE  FALSE
    OBVIOUS
  <2>1. Stops(key, m) /\ m \in 0 .. n - 1
    BY <1>1, <1>2 DEF Stops
  <2> QED
    BY <2>1 DEF Found
<1>4. ~(n < m)
  BY <1>1, <1>2
<1> QED
  BY <1>1, <1>2, <1>3, <1>4

(* A new entry goes where probing for its key ends, so it is reached, and  *)
(* every entry that was reached still is.                                  *)
LEMMA UpdateInv ==
  ASSUME CacheInv, NEW f \in Frames, Update(f)
  PROVE  CacheInv'
<1>1. f \in Frame /\ f.key \in Keys
  BY CacheAssumption DEF Frame
<1>2. PICK n \in Index :
        /\ Found(f.key, n)
        /\ slot' = Probe(f.key, n)
        /\ IF slot' \in in_use
           THEN UNCHANGED <<rows, in_use, sequence>>
           ELSE /\ rows' = [rows EXCEPT ![slot'] = Blank(f.key)]
                /\ sequence' = [sequence EXCEPT ![slot'] = 0]
                /\ in_use' = in_use \cup {slot'}
  BY DEF Update
<1>3. /\ can = "idle" /\ can' = "found" /\ frame' = {f}
      /\ updates < MaxUpdates /\ updates' = updates + 1
      /\ UNCHANGED <<mask, ui, cursor, attempt, seq_a, copy, out, settled>>
  BY DEF Update, uiVars
<1>4. slot' \in Index
  BY <1>1, <1>2, ProbeInTable
<1>5. \A i \in Index : Even(sequence[i])
  BY <1>3 DEF CacheInv, WriterInv, Writing
<1>6. Stops(f.key, n) /\ \A m \in 0 .. n - 1 : ~Stops(f.key, m)
  BY <1>2 DEF Found
<1>7. /\ rows \in [Index -> Row] /\ in_use \subseteq Index
      /\ sequence \in [Index -> Nat] /\ updates \in 0 .. MaxUpdates
  BY DEF CacheInv, TypeOK
<1>8. updates' \in 0 .. MaxUpdates
  BY <1>3, <1>7, CacheAssumption
<1>9. CASE slot' \in in_use
  <2>1. UNCHANGED <<rows, in_use, sequence>>
    BY <1>2, <1>9
  <2>2. rows[slot'].body.key = f.key
    BY <1>2, <1>6, <1>9 DEF Stops
  <2>3. TypeOK'
    BY <1>1, <1>3, <1>4, <1>8, <2>1 DEF CacheInv, TypeOK
  <2>4. WriterInv'
    BY <1>1, <1>3, <1>5, <1>9, <2>1, <2>2 DEF WriterInv, Writing
  <2>5. ReaderInv' /\ ProbeInv' /\ OneEntryPerKey'
    BY <1>3, <2>1
    DEF CacheInv, ReaderInv, ProbeInv, OneEntryPerKey, Reached
  <2> QED
    BY <2>3, <2>4, <2>5 DEF CacheInv
<1>10. CASE slot' \notin in_use
  <2>1. /\ rows' = [rows EXCEPT ![slot'] = Blank(f.key)]
        /\ sequence' = [sequence EXCEPT ![slot'] = 0]
        /\ in_use' = in_use \cup {slot'}
    BY <1>2, <1>10
  <2>2. /\ rows' \in [Index -> Row] /\ rows'[slot'].body.key = f.key
        /\ \A i \in in_use : rows'[i] = rows[i]
        /\ sequence' \in [Index -> Nat] /\ sequence'[slot'] = 0
        /\ \A i \in Index : i # slot' => sequence'[i] = sequence[i]
    BY <1>1, <1>4, <1>7, <1>10, <2>1, BlankType
  <2>3. TypeOK'
    BY <1>1, <1>3, <1>4, <1>8, <2>1, <2>2 DEF CacheInv, TypeOK
  <2>4. WriterInv'
    <3>1. Even(0)
      BY DEF Even
    <3> QED
      BY <1>1, <1>3, <1>5, <2>1, <2>2, <3>1 DEF WriterInv, Writing
  <2>5. ReaderInv'
    BY <1>3, <1>7, <1>10, <2>1, <2>2 DEF CacheInv, ReaderInv
  <2>6. ASSUME NEW key, NEW i, Reached(key, i)
        PROVE  Reached(key, i)'
    BY <2>1, <2>6 DEF Reached
  <2>7. \A m \in 0 .. n - 1 : Probe(f.key, m) \in in_use
    BY <1>6 DEF Stops
  <2>8. Reached(f.key, Probe(f.key, n))'
    BY <2>1, <2>7 DEF Reached
  <2>9. ProbeInv'
    <3> SUFFICES ASSUME NEW i \in in_use'
                 PROVE  Reached(rows[i].body.key, i)'
      BY DEF ProbeInv
    <3>1. CASE i \in in_use
      <4>1. Reached(rows[i].body.key, i) /\ rows'[i].body.key = rows[i].body.key
        BY <2>2, <3>1 DEF CacheInv, ProbeInv
      <4> QED
        BY <2>6, <4>1
    <3>2. CASE i = slot'
      BY <1>2, <2>2, <2>8, <3>2
    <3> QED
      BY <2>1, <3>1, <3>2
  <2>10. \A i \in in_use : rows[i].body.key # f.key
    BY <1>1, <1>2, <1>10, NoEntryOfKey
  <2>11. OneEntryPerKey'
    BY <2>1, <2>2, <2>10 DEF CacheInv, OneEntryPerKey
  <2> QED
    BY <2>3, <2>4, <2>5, <2>9, <2>11 DEF CacheInv
<1> QED
  BY <1>9, <1>10

(* The keys of entries, and so where probing leads, only change in Update. *)
LEMMA ProbesKept ==
  ASSUME ProbeInv, OneEntryPerKey, in_use' = in_use,
         \A i \in in_use : rows'[i].body.key = rows[i].body.key
  PROVE  ProbeInv' /\ OneEntryPerKey'
<1>1. ASSUME NEW key, NEW i, Reached(key, i)
      PROVE  Reached(key, i)'
  BY <1>1 DEF Reached
<1> QED
  BY <1>1 DEF ProbeInv, OneEntryPerKey

(* A frame that finds no row is dropped and changes no row. *)
LEMMA UpdateDroppedInv ==
  ASSUME CacheInv, NEW f \in Frames, UpdateDropped(f)
  PROVE  CacheInv'
<1>1. /\ updates < MaxUpdates /\ updates' = updates + 1
      /\ UNCHANGED <<rows, in_use, sequence, can, frame, slot, mask, ui, cursor,
                     attempt, seq_a, copy, out, settled>>
  BY DEF UpdateDropped, canVars, uiVars
<1>2. updates' \in 0 .. MaxUpdates
  BY <1>1, CacheAssumption DEF CacheInv, TypeOK
<1>3. TypeOK'
  BY <1>1, <1>2 DEF CacheInv, TypeOK
<1>4. WriterInv' /\ ReaderInv'
  BY <1>1 DEF CacheInv, WriterInv, ReaderInv
<1> QED
  BY <1>1, <1>3, <1>4, ProbesKept DEF CacheInv

(* Opening an entry makes its sequence odd, and larger than any that the   *)
(* UI task has read.                                                       *)
LEMMA OpenEntryInv ==
  ASSUME CacheInv, OpenEntry
  PROVE  CacheInv'
<1>1. /\ can = "found" /\ can' = "open"
      /\ sequence' = [sequence EXCEPT ![slot] = @ + 1]
      /\ settled' = settled \ {slot}
      /\ UNCHANGED <<rows, in_use, frame, slot, mask, ui, cursor, attempt,
                     seq_a, copy, out, updates>>
  BY DEF OpenEntry, uiVars
<1>2. slot \in Index /\ sequence \in [Index -> Nat] /\ in_use \subseteq Index
  BY DEF CacheInv, TypeOK
<1>3. /\ sequence'[slot] = sequence[slot] + 1
      /\ \A i \in Index : i # slot => sequence'[i] = sequence[i]
      /\ sequence' \in [Index -> Nat]
  BY <1>1, <1>2
<1>4. \A i \in Index : Even(sequence[i])
  BY <1>1 DEF CacheInv, WriterInv, Writing
<1>5. ~Even(sequence'[slot])
  BY <1>2, <1>3, <1>4, Parity
<1>6. TypeOK'
  BY <1>1, <1>3 DEF CacheInv, TypeOK
<1>7. WriterInv'
  BY <1>1, <1>2, <1>3, <1>4, <1>5 DEF CacheInv, WriterInv, Writing
<1>8. ReaderInv'
  BY <1>1, <1>2, <1>3, <1>5 DEF CacheInv, ReaderInv, TypeOK
<1> QED
  BY <1>1, <1>6, <1>7, <1>8, ProbesKept DEF CacheInv

(* The fields are only written while the sequence is odd, when no copy is  *)
(* under the sequence it started from.                                     *)
LEMMA WriteBodyInv ==
  ASSUME CacheInv, WriteBody
  PROVE  CacheInv'
<1>1. /\ can = "open" /\ can' = "body"
      /\ UNCHANGED <<in_use, sequence, frame, slot, ui, cursor, attempt, seq_a,
                     copy, out, settled, updates>>
  BY DEF WriteBody, uiVars
<1>2. PICK f \in frame :
        /\ mask' = {b \in Within(f) : rows[slot].body.data[b] # f.data[b]}
        /\ rows' = [rows EXCEPT ![slot].body =
             [key |-> f.key, dlc |-> f.dlc,
              data |-> [b \in Bytes |-> IF b \in Within(f) THEN f.data[b]
                                        ELSE rows[slot].body.data[b]]]]
  BY DEF WriteBody
<1> DEFINE body == [key |-> f.key, dlc |-> f.dlc,
                    data |-> [b \in Bytes |-> IF b \in Within(f) THEN f.data[b]
                                              ELSE rows[slot].body.data[b]]]
<1>3. /\ f \in Frame /\ slot \in in_use /\ slot \in Index
      /\ rows[slot].body.key = f.key /\ frame = {f}
      /\ rows \in [Index -> Row] /\ in_use \subseteq Index
  BY <1>1 DEF CacheInv, TypeOK, WriterInv
<1>4. rows[slot] \in Row /\ rows[slot].body \in Body
  BY <1>3 DEF Row
<1>5. body \in Body /\ body.key = f.key
  <2>1. \A b \in Bytes : f.data[b] \in Values /\ rows[slot].body.data[b] \in Values
    BY <1>3, <1>4 DEF Frame, Body
  <2> QED
    BY <1>3, <2>1 DEF Body, Frame
<1>6. rows' = [rows EXCEPT ![slot].body = body]
  BY <1>2
<1> HIDE DEF body
<1>7. /\ rows' \in [Index -> Row] /\ rows'[slot].body = body
      /\ \A i \in Index : i # slot => rows'[i] = rows[i]
  BY <1>3, <1>4, <1>5, <1>6 DEF Row
<1>8. mask' \subseteq Bytes
  BY <1>2 DEF Within
<1>9. ~Even(sequence[slot])
  BY <1>1, <1>3 DEF CacheInv, WriterInv, Writing
<1>10. TypeOK'
  BY <1>1, <1>7, <1>8 DEF CacheInv, TypeOK
<1>11. WriterInv'
  BY <1>1, <1>3, <1>5, <1>7 DEF CacheInv, WriterInv, Writing
<1>12. ReaderInv'
  BY <1>1, <1>3, <1>7, <1>9 DEF CacheInv, ReaderInv
<1> QED
  BY <1>1, <1>3, <1>5, <1>7, <1>10, <1>11, <1>12, ProbesKept DEF CacheInv

(* Writing the metadata keeps the row marked as being written. *)
LEMMA WriteMetaInv ==
  ASSUME CacheInv, WriteMeta
  PROVE  CacheInv'
<1>1. /\ can = "body" /\ can' = "meta"
      /\ UNCHANGED <<in_use, sequence, frame, slot, mask, ui, cursor, attempt,
                     seq_a, copy, out, settled, updates>>
  BY DEF WriteMeta, uiVars
<1>2. PICK f \in frame :
        rows' = [rows EXCEPT ![slot].meta =
          [mutated |-> f.mutated, timestamp |-> f.timestamp,
           period |-> IF HasPrevious
                      THEN Period(f.timestamp, rows[slot].meta.timestamp)
                      ELSE 0,
           changed |-> IF HasPrevious THEN mask ELSE {}]]
  BY DEF WriteMeta
<1> DEFINE elapsed == Period(f.timestamp, rows[slot].meta.timestamp)
           meta == [mutated |-> f.mutated, timestamp |-> f.timestamp,
                    period |-> IF HasPrevious THEN elapsed ELSE 0,
                    changed |-> IF HasPrevious THEN mask ELSE {}]
<1>3. /\ f \in Frame /\ slot \in in_use /\ slot \in Index
      /\ rows \in [Index -> Row] /\ in_use \subseteq Index /\ mask \subseteq Bytes
  BY <1>1 DEF CacheInv, TypeOK, WriterInv
<1>4. rows[slot] \in Row /\ rows[slot].meta.timestamp \in Times
  BY <1>3 DEF Row, Meta
<1>5. meta \in Meta
  <2>1. f.mutated \in BOOLEAN /\ f.timestamp \in Times /\ 0 \in Times
    BY <1>3, CacheAssumption DEF Frame, Times
  <2>2. elapsed \in Nat
    BY <1>4, <2>1, PeriodType
  <2> HIDE DEF elapsed
  <2> QED
    BY <1>3, <2>1, <2>2 DEF Meta
<1>6. rows' = [rows EXCEPT ![slot].meta = meta]
  BY <1>2
<1> HIDE DEF meta
<1>7. /\ rows' \in [Index -> Row] /\ rows'[slot].body = rows[slot].body
      /\ \A i \in Index : i # slot => rows'[i] = rows[i]
  BY <1>3, <1>4, <1>5, <1>6 DEF Row
<1>8. ~Even(sequence[slot])
  BY <1>1, <1>3 DEF CacheInv, WriterInv, Writing
<1>9. TypeOK'
  BY <1>1, <1>7 DEF CacheInv, TypeOK
<1>10. WriterInv'
  BY <1>1, <1>3, <1>7 DEF CacheInv, WriterInv, Writing
<1>11. ReaderInv'
  BY <1>1, <1>3, <1>7, <1>8 DEF CacheInv, ReaderInv
<1> QED
  BY <1>1, <1>3, <1>7, <1>9, <1>10, <1>11, ProbesKept DEF CacheInv

(* Closing the row makes its sequence even after both halves agree. *)
LEMMA CloseEntryInv ==
  ASSUME CacheInv, CloseEntry
  PROVE  CacheInv'
<1>1. /\ can = "meta" /\ can' = "idle" /\ frame' = {} /\ slot' = 0 /\ mask' = {}
      /\ sequence' = [sequence EXCEPT ![slot] = @ + 1]
      /\ UNCHANGED <<rows, in_use, ui, cursor, attempt, seq_a, copy, out,
                     settled, updates>>
  BY DEF CloseEntry, uiVars
<1>2. slot \in Index /\ sequence \in [Index -> Nat] /\ in_use \subseteq Index
  BY DEF CacheInv, TypeOK
<1>3. /\ sequence'[slot] = sequence[slot] + 1
      /\ \A i \in Index : i # slot => sequence'[i] = sequence[i]
      /\ sequence' \in [Index -> Nat]
  BY <1>1, <1>2
<1>4. ~Even(sequence[slot]) /\ \A i \in Index : i # slot => Even(sequence[i])
  BY <1>1, <1>2 DEF CacheInv, WriterInv, Writing
<1>5. Even(sequence'[slot])
  BY <1>2, <1>3, <1>4, Parity
<1>6. TypeOK'
  BY <1>1, <1>3, CacheAssumption DEF CacheInv, TypeOK, Index
<1>7. WriterInv'
  BY <1>1, <1>2, <1>3, <1>4, <1>5 DEF WriterInv, Writing
<1>8. ReaderInv'
  <2>1. ASSUME ui \in {"body", "meta", "verify"}
        PROVE  /\ cursor \in Index /\ seq_a \in Nat /\ seq_a <= sequence[cursor]
               /\ seq_a <= sequence'[cursor]
               /\ sequence'[cursor] = seq_a => sequence[cursor] = seq_a
    BY <1>2, <1>3, <2>1 DEF CacheInv, ReaderInv, TypeOK
  <2> QED
    BY <1>1, <2>1 DEF CacheInv, ReaderInv
<1> QED
  BY <1>1, <1>6, <1>7, <1>8, ProbesKept DEF CacheInv

-----------------------------------------------------------------------------
(* The UI task's steps leave the table alone.                              *)
LEMMA ReaderStep ==
  ASSUME CacheInv, UNCHANGED <<rows, in_use, sequence, canVars, updates>>,
         ui' \in {"idle", "scan", "body", "meta", "verify"},
         cursor' \in 0 .. MaxEntries, attempt' \in 0 .. Attempts,
         seq_a' \in Nat, copy' \in Row, out' \subseteq Index \X Row,
         settled' \subseteq Index, ReaderInv'
  PROVE  CacheInv'
<1>1. TypeOK'
  BY DEF CacheInv, TypeOK, canVars
<1>2. WriterInv'
  BY DEF CacheInv, WriterInv, canVars
<1> QED
  BY <1>1, <1>2, ProbesKept DEF CacheInv

(* A snapshot starts with nothing copied. *)
LEMMA StartSnapshotInv ==
  ASSUME CacheInv, StartSnapshot
  PROVE  CacheInv'
<1>1. 0 \in 0 .. MaxEntries /\ Attempts \in 0 .. Attempts
  BY CacheAssumption DEF Attempts
<1>2. ReaderInv'
  BY DEF StartSnapshot, ReaderInv
<1> QED
  BY <1>1, <1>2, ReaderStep DEF StartSnapshot, CacheInv, TypeOK

(* Skipping a row, free or given up on, copies nothing. *)
LEMMA SkipEntryInv ==
  ASSUME CacheInv, SkipEntry
  PROVE  CacheInv'
<1>1. cursor + 1 \in 0 .. MaxEntries /\ Attempts \in 0 .. Attempts
  BY CacheAssumption DEF SkipEntry, Index, Attempts
<1>2. ReaderInv'
  BY DEF SkipEntry, ReaderInv
<1> QED
  BY <1>1, <1>2, ReaderStep DEF SkipEntry, NextEntry, CacheInv, TypeOK

(* Loading the sequence marks where the two copies must begin. *)
LEMMA LoadSequenceInv ==
  ASSUME CacheInv, LoadSequence
  PROVE  CacheInv'
<1>1. attempt - 1 \in 0 .. Attempts
  BY DEF LoadSequence, CacheInv, TypeOK, Attempts
<1>2. sequence[cursor] \in Nat
  BY DEF LoadSequence, CacheInv, TypeOK
<1>3. CASE Even(sequence[cursor])
  <2>1. ui' = "body" /\ seq_a' = sequence[cursor]
    BY <1>3 DEF LoadSequence
  <2>2. ReaderInv'
    BY <1>2, <1>3, <2>1 DEF LoadSequence, ReaderInv
  <2> QED
    BY <1>1, <1>2, <2>1, <2>2, ReaderStep DEF LoadSequence, CacheInv, TypeOK
<1>4. CASE ~Even(sequence[cursor])
  <2>1. ui' = "scan" /\ seq_a' = seq_a
    BY <1>4 DEF LoadSequence
  <2>2. ReaderInv'
    BY <2>1 DEF ReaderInv
  <2> QED
    BY <1>1, <2>1, <2>2, ReaderStep DEF LoadSequence, CacheInv, TypeOK
<1> QED
  BY <1>3, <1>4

(* The copied body is that of the row if the sequence has not moved. *)
LEMMA CopyBodyInv ==
  ASSUME CacheInv, CopyBody
  PROVE  CacheInv'
<1>1. /\ ui = "body" /\ ui' = "meta"
      /\ copy' = [copy EXCEPT !.body = rows[cursor].body]
      /\ UNCHANGED <<rows, in_use, sequence, cursor, seq_a>>
  BY DEF CopyBody
<1>2. copy \in Row /\ rows[cursor] \in Row
  BY <1>1 DEF CacheInv, TypeOK, ReaderInv
<1>3. copy' \in Row /\ copy'.body = rows[cursor].body
  BY <1>1, <1>2 DEF Row
<1>4. ReaderInv'
  BY <1>1, <1>3 DEF CacheInv, ReaderInv
<1> QED
  BY <1>1, <1>3, <1>4, ReaderStep DEF CopyBody, CacheInv, TypeOK

(* The copied metadata is that of the row if the sequence has not moved. *)
LEMMA CopyMetaInv ==
  ASSUME CacheInv, CopyMeta
  PROVE  CacheInv'
<1>1. /\ ui = "meta" /\ ui' = "verify"
      /\ copy' = [copy EXCEPT !.meta = rows[cursor].meta]
      /\ UNCHANGED <<rows, in_use, sequence, cursor, seq_a>>
  BY DEF CopyMeta
<1>2. copy \in Row /\ rows[cursor] \in Row
  BY <1>1 DEF CacheInv, TypeOK, ReaderInv
<1>3. copy' \in Row /\ copy'.body = copy.body /\ copy'.meta = rows[cursor].meta
  BY <1>1, <1>2 DEF Row
<1>4. ReaderInv'
  BY <1>1, <1>3 DEF CacheInv, ReaderInv
<1> QED
  BY <1>1, <1>3, <1>4, ReaderStep DEF CopyMeta, CacheInv, TypeOK

(* A row is accepted only if the sequence has not moved, so it is whole. *)
LEMMA VerifySequenceInv ==
  ASSUME CacheInv, VerifySequence
  PROVE  CacheInv'
<1>1. /\ ui = "verify" /\ ui' = "scan" /\ cursor \in Index
  BY DEF VerifySequence, CacheInv, TypeOK, ReaderInv
<1>2. cursor' \in 0 .. MaxEntries /\ attempt' \in 0 .. Attempts
  <2>1. cursor + 1 \in 0 .. MaxEntries /\ Attempts \in 0 .. Attempts
    BY <1>1, CacheAssumption DEF Index, Attempts
  <2> QED
    BY <2>1 DEF VerifySequence, NextEntry, CacheInv, TypeOK
<1>3. out' \subseteq Index \X Row
  BY <1>1 DEF VerifySequence, CacheInv, TypeOK
<1>4. ReaderInv'
  BY <1>1 DEF ReaderInv
<1> QED
  BY <1>1, <1>2, <1>3, <1>4, ReaderStep DEF VerifySequence, CacheInv, TypeOK

(* Ending a snapshot keeps the rows that were accepted. *)
LEMMA EndSnapshotInv ==
  ASSUME CacheInv, EndSnapshot
  PROVE  CacheInv'
<1>1. ReaderInv'
  BY DEF EndSnapshot, ReaderInv
<1> QED
  BY <1>1, ReaderStep DEF EndSnapshot, CacheInv, TypeOK

(* Every step of the two tasks keeps the invariant of the cache. *)
LEMMA NextInv ==
  ASSUME CacheInv, [Next]_vars
  PROVE  CacheInv'
<1>1. CASE CanTask
  BY <1>1, UpdateInv, UpdateDroppedInv, OpenEntryInv, WriteBodyInv,
     WriteMetaInv, CloseEntryInv DEF CanTask
<1>2. CASE StartSnapshot
  BY <1>2, StartSnapshotInv
<1>3. CASE UiTask
  BY <1>3, SkipEntryInv, LoadSequenceInv, CopyBodyInv, CopyMetaInv,
     VerifySequenceInv, EndSnapshotInv DEF UiTask
<1>4. CASE UNCHANGED vars
  <2>1. UNCHANGED <<rows, in_use, sequence, canVars, updates, uiVars, settled>>
    BY <1>4 DEF vars
  <2>2. ReaderInv'
    BY <2>1 DEF uiVars, CacheInv, ReaderInv
  <2> QED
    BY <2>1, <2>2, ReaderStep DEF uiVars, CacheInv, TypeOK
<1> QED
  BY <1>1, <1>2, <1>3, <1>4 DEF Next

-----------------------------------------------------------------------------
(* The invariant of the cache and of the two tasks in it.                  *)
THEOREM CacheInvariant == Spec => []CacheInv
  BY InitInv, NextInv, PTL DEF Spec

(* Types of the table's and the tasks' state.                              *)
THEOREM CacheTypes == Spec => []TypeOK
<1>1. CacheInv => TypeOK
  BY DEF CacheInv
<1> QED
  BY <1>1, CacheInvariant, PTL

(* snapshot() never accepts a row whose fields belong to different frames, *)
(* whatever update() does between its loads, for any table and any frames. *)
THEOREM SnapshotsAreWhole == Spec => []NoTornRow
<1>1. CacheInv => NoTornRow
  <2> SUFFICES ASSUME CacheInv, ui = "verify", Accept
               PROVE  copy = rows[cursor]
    BY DEF NoTornRow
  <2>1. copy \in Row /\ rows[cursor] \in Row
    BY DEF CacheInv, TypeOK, ReaderInv
  <2>2. copy.body = rows[cursor].body /\ copy.meta = rows[cursor].meta
    BY DEF CacheInv, ReaderInv, Accept
  <2> QED
    BY <2>1, <2>2 DEF Row
<1> QED
  BY <1>1, CacheInvariant, PTL

(* findOrCreate never gives a key a second entry, for any hash function.   *)
THEOREM OneEntry == Spec => []OneEntryPerKey
<1>1. CacheInv => OneEntryPerKey
  BY DEF CacheInv
<1> QED
  BY <1>1, CacheInvariant, PTL
-----------------------------------------------------------------------------
(* An entry that was complete when the snapshot began and has not been     *)
(* opened since keeps its even sequence, so the first attempt at it        *)
(* succeeds: what the cursor has passed is listed, and the entry under the *)
(* cursor has an attempt left or is being copied under its own sequence.   *)
Listed == {o[1] : o \in out}
ListingInv ==
  /\ settled \subseteq in_use
  /\ can \in Writing => slot \notin settled
  /\ ui # "idle" => \A i \in settled : i < cursor => i \in Listed
  /\ cursor \in settled =>
       /\ ui = "scan" => attempt > 0
       /\ ui \in {"body", "meta", "verify"} => seq_a = sequence[cursor]

(* A body, and what is known of a frame, that is f's.                      *)
BodyShows(body, f) ==
  body.dlc = f.dlc /\ \A b \in Within(f) : body.data[b] = f.data[b]
MetaShows(meta, f) == meta.timestamp = f.timestamp /\ meta.mutated = f.mutated

(* Changed bytes and period as they are for the frames fs after gs.        *)
Relates(meta, fs, gs) ==
  /\ gs = {} => meta.changed = {} /\ meta.period = 0
  /\ \A f \in fs, g \in gs : g.timestamp # 0 => Compares(meta, f, g)

(* What holds of each entry while update() writes one of them: its fields  *)
(* are those of the last frame of its key until they are overwritten, and  *)
(* those of the new frame from then on.                                    *)
LastOf(i) == last[rows[i].body.key]
HistoryInv ==
  /\ last \in [Keys -> SUBSET Frame] /\ before \in [Keys -> SUBSET Frame]
  /\ \A k \in Keys : last[k] # {} => \E i \in in_use : rows[i].body.key = k
BodiesInv ==
  \A i \in in_use : ~(can \in {"body", "meta"} /\ i = slot) =>
    \A f \in LastOf(i) : BodyShows(rows[i].body, f)
MetasInv ==
  \A i \in in_use : ~(can = "meta" /\ i = slot) =>
    /\ LastOf(i) = {} => rows[i].meta.timestamp = 0
    /\ \A f \in LastOf(i) : MetaShows(rows[i].meta, f)
    /\ Relates(rows[i].meta, LastOf(i), before[rows[i].body.key])
WrittenInv ==
  /\ can \in {"body", "meta"} =>
       \A f \in frame : BodyShows(rows[slot].body, f)
  /\ can = "body" =>
       \A f \in frame : \A g \in last[f.key] : \A b \in Within(f) \cap Within(g) :
         b \in mask <=> f.data[b] # g.data[b]
  /\ can = "meta" =>
       \A f \in frame :
         /\ MetaShows(rows[slot].meta, f)
         /\ Relates(rows[slot].meta, {f}, last[f.key])
TruthInv == HistoryInv /\ BodiesInv /\ MetasInv /\ WrittenInv

(* No entry is in use at first, and no frame has been stored.              *)
LEMMA InitListing == Init => ListingInv /\ TruthInv
  BY DEF Init, ListingInv, TruthInv, HistoryInv, BodiesInv, MetasInv,
         WrittenInv, Writing

(* Every step of the two tasks keeps what the snapshot lists.              *)
LEMMA NextListing ==
  ASSUME CacheInv, ListingInv, [Next]_vars
  PROVE  ListingInv'
<1>1. ASSUME NEW f \in Frames, Update(f)
      PROVE  ListingInv'
  <2>1. /\ can = "idle" /\ can' = "found" /\ in_use \subseteq in_use'
        /\ \A i \in in_use : sequence'[i] = sequence[i]
        /\ UNCHANGED <<ui, cursor, attempt, seq_a, out, settled>>
    BY <1>1 DEF Update, uiVars, CacheInv, TypeOK
  <2> QED
    BY <2>1 DEF ListingInv, Listed, Writing
<1>2. ASSUME NEW f \in Frames, UpdateDropped(f)
      PROVE  ListingInv'
  BY <1>2 DEF UpdateDropped, canVars, uiVars, ListingInv, Listed
<1>3. CASE OpenEntry
  <2>1. /\ in_use' = in_use /\ settled' = settled \ {slot} /\ slot' = slot
        /\ \A i \in settled' : sequence'[i] = sequence[i]
        /\ UNCHANGED <<ui, cursor, attempt, seq_a, out>>
    BY <1>3 DEF OpenEntry, uiVars, CacheInv, TypeOK, ListingInv
  <2> QED
    BY <2>1 DEF ListingInv, Listed
<1>4. CASE WriteBody \/ WriteMeta
  <2>1. /\ can \in Writing
        /\ UNCHANGED <<in_use, sequence, slot, settled, ui, cursor, attempt,
                       seq_a, out>>
    BY <1>4 DEF WriteBody, WriteMeta, uiVars, Writing
  <2> QED
    BY <2>1 DEF ListingInv, Listed
<1>5. CASE CloseEntry
  <2>1. /\ can = "meta" /\ can' = "idle"
        /\ sequence' = [sequence EXCEPT ![slot] = @ + 1]
        /\ UNCHANGED <<in_use, settled, ui, cursor, attempt, seq_a, out>>
    BY <1>5 DEF CloseEntry, uiVars
  <2>2. \A i \in settled : sequence'[i] = sequence[i]
    BY <2>1 DEF ListingInv, Writing, CacheInv, TypeOK
  <2> QED
    BY <2>1, <2>2 DEF ListingInv, Listed, Writing
<1>6. CASE StartSnapshot
  <2>1. /\ ui' = "scan" /\ cursor' = 0 /\ attempt' = Attempts
        /\ settled' = {i \in in_use : Even(sequence[i])}
        /\ UNCHANGED <<in_use, sequence, can, slot>>
    BY <1>6 DEF StartSnapshot, canVars
  <2>2. can \in Writing => slot \notin settled'
    BY <2>1 DEF CacheInv, TypeOK, WriterInv
  <2>3. \A i \in settled' : ~(i < 0)
    BY <2>1 DEF CacheInv, TypeOK, Index
  <2> QED
    BY <2>1, <2>2, <2>3 DEF ListingInv, Attempts
<1>7. CASE SkipEntry
  <2>1. /\ ui = "scan" /\ cursor \in Index
        /\ cursor \notin in_use \/ attempt = 0
        /\ cursor' = cursor + 1 /\ attempt' = Attempts
        /\ UNCHANGED <<in_use, sequence, can, slot, ui, out, settled>>
    BY <1>7 DEF SkipEntry, NextEntry, canVars
  <2>2. cursor \notin settled
    BY <2>1 DEF ListingInv
  <2>3. \A i \in settled : i < cursor' => i < cursor
    BY <2>1, <2>2 DEF CacheInv, TypeOK, Index
  <2> QED
    BY <2>1, <2>3 DEF ListingInv, Listed, Attempts
<1>8. CASE LoadSequence
  <2>1. /\ ui = "scan" /\ cursor \in in_use
        /\ IF Even(sequence[cursor])
           THEN ui' = "body" /\ seq_a' = sequence[cursor]
           ELSE UNCHANGED <<ui, seq_a>>
        /\ UNCHANGED <<in_use, sequence, can, slot, cursor, out, settled>>
    BY <1>8 DEF LoadSequence, canVars
  <2>2. cursor \in settled => Even(sequence[cursor])
    BY <2>1 DEF ListingInv, CacheInv, TypeOK, WriterInv
  <2> QED
    BY <2>1, <2>2 DEF ListingInv, Listed
<1>9. CASE CopyBody \/ CopyMeta
  BY <1>9 DEF CopyBody, CopyMeta, canVars, ListingInv, Listed
<1>10. CASE VerifySequence
  <2>1. /\ ui = "verify" /\ ui' = "scan" /\ cursor \in Index
        /\ UNCHANGED <<in_use, sequence, can, slot, settled>>
    BY <1>10 DEF VerifySequence, canVars, CacheInv, TypeOK, ReaderInv
  <2>2. CASE Accept
    <3>1. /\ out' = out \cup {<<cursor, copy>>}
          /\ cursor' = cursor + 1 /\ attempt' = Attempts
      BY <1>10, <2>2 DEF VerifySequence, NextEntry
    <3>2. Listed \cup {cursor} \subseteq Listed'
      <4>1. Listed \subseteq Listed'
        BY <3>1 DEF Listed
      <4>2. <<cursor, copy>> \in out' /\ <<cursor, copy>>[1] = cursor
        BY <3>1
      <4> QED
        BY <4>1, <4>2 DEF Listed
    <3>3. \A i \in settled : i < cursor' => i < cursor \/ i = cursor
      BY <2>1, <3>1 DEF CacheInv, TypeOK, Index
    <3> QED
      BY <2>1, <3>1, <3>2, <3>3 DEF ListingInv, Attempts
  <2>3. CASE ~Accept
    <3>1. UNCHANGED <<out, cursor, attempt>> /\ cursor \notin settled
      BY <1>10, <2>1, <2>3 DEF VerifySequence, ListingInv, Accept
    <3> QED
      BY <2>1, <3>1 DEF ListingInv, Listed
  <2> QED
    BY <2>2, <2>3
<1>11. CASE EndSnapshot
  BY <1>11 DEF EndSnapshot, canVars, ListingInv, Listed
<1>12. CASE UNCHANGED vars
  BY <1>12 DEF vars, canVars, uiVars, ListingInv, Listed
<1> QED
  BY <1>1, <1>2, <1>3, <1>4, <1>5, <1>6, <1>7, <1>8, <1>9, <1>10, <1>11,
     <1>12
  DEF Next, CanTask, UiTask

(* A frame is stored in a new entry only when its key has none: the entry  *)
(* of a key with no frame is blank.                                        *)
LEMMA UpdateTruth ==
  ASSUME CacheInv, TruthInv, NEW f \in Frames, Update(f)
  PROVE  TruthInv'
<1>1. PICK n \in Index :
        /\ Found(f.key, n)
        /\ slot' = Probe(f.key, n)
        /\ IF slot' \in in_use
           THEN UNCHANGED <<rows, in_use, sequence>>
           ELSE /\ rows' = [rows EXCEPT ![slot'] = Blank(f.key)]
                /\ sequence' = [sequence EXCEPT ![slot'] = 0]
                /\ in_use' = in_use \cup {slot'}
  BY DEF Update
<1>2. /\ can = "idle" /\ can' = "found" /\ UNCHANGED <<last, before>>
      /\ f.key \in Keys
  BY CacheAssumption DEF Update, Frame
<1>3. rows \in [Index -> Row] /\ in_use \subseteq Index /\ slot' \in Index
  BY <1>1, <1>2, ProbeInTable DEF CacheInv, TypeOK
<1>4. CASE slot' \in in_use
  BY <1>1, <1>2, <1>4
  DEF TruthInv, HistoryInv, BodiesInv, MetasInv, WrittenInv, LastOf
<1>5. CASE slot' \notin in_use
  <2>1. /\ rows' = [rows EXCEPT ![slot'] = Blank(f.key)]
        /\ in_use' = in_use \cup {slot'}
    BY <1>1, <1>5
  <2>2. rows'[slot'] = Blank(f.key) /\ \A i \in in_use : rows'[i] = rows[i]
    BY <1>3, <1>5, <2>1
  <2>3. last[f.key] = {}
    BY <1>1, <1>2, <1>5, NoEntryOfKey DEF TruthInv, HistoryInv
  <2>4. /\ last'[rows'[slot'].body.key] = {}
        /\ \A i \in in_use : last'[rows'[i].body.key] = LastOf(i)
    BY <1>2, <2>2, <2>3, BlankType DEF LastOf
  <2>5. HistoryInv'
    BY <1>2, <2>1, <2>2 DEF TruthInv, HistoryInv
  <2>6. BodiesInv'
    BY <1>2, <2>1, <2>2, <2>4 DEF TruthInv, BodiesInv, LastOf
  <2>7. MetasInv'
    <3>1. /\ rows'[slot'].meta.timestamp = 0
          /\ Relates(rows'[slot'].meta, {}, before'[rows'[slot'].body.key])
      BY <2>2 DEF Blank, Relates
    <3>2. ASSUME NEW i \in in_use
          PROVE  /\ last'[rows'[i].body.key] = {} => rows'[i].meta.timestamp = 0
                 /\ \A g \in last'[rows'[i].body.key] :
                      MetaShows(rows'[i].meta, g)
                 /\ Relates(rows'[i].meta, last'[rows'[i].body.key],
                            before'[rows'[i].body.key])
      <4>1. /\ LastOf(i) = {} => rows[i].meta.timestamp = 0
            /\ \A g \in LastOf(i) : MetaShows(rows[i].meta, g)
            /\ Relates(rows[i].meta, LastOf(i), before[rows[i].body.key])
        BY <1>2 DEF TruthInv, MetasInv
      <4>2. rows'[i] = rows[i] /\ last'[rows'[i].body.key] = LastOf(i)
        BY <2>2, <2>4
      <4> QED
        BY <1>2, <4>1, <4>2
    <3>3. ASSUME NEW i \in in_use'
          PROVE  /\ last'[rows'[i].body.key] = {} => rows'[i].meta.timestamp = 0
                 /\ \A g \in last'[rows'[i].body.key] :
                      MetaShows(rows'[i].meta, g)
                 /\ Relates(rows'[i].meta, last'[rows'[i].body.key],
                            before'[rows'[i].body.key])
      <4>1. CASE i \in in_use
        BY <3>2, <4>1
      <4>2. CASE i = slot'
        BY <2>4, <3>1, <4>2
      <4> QED
        BY <2>1, <4>1, <4>2
    <3> QED
      BY <3>3 DEF MetasInv, LastOf
  <2>8. WrittenInv'
    BY <1>2 DEF WrittenInv
  <2> QED
    BY <2>5, <2>6, <2>7, <2>8 DEF TruthInv
<1> QED
  BY <1>4, <1>5

(* The body becomes the frame's, and the mask tells it from the last one,  *)
(* which the entry still held.                                             *)
LEMMA WriteBodyTruth ==
  ASSUME CacheInv, TruthInv, WriteBody
  PROVE  TruthInv'
<1>1. /\ can = "open" /\ can' = "body"
      /\ UNCHANGED <<in_use, frame, slot, last, before>>
  BY DEF WriteBody
<1>2. PICK f \in frame :
        /\ mask' = {b \in Within(f) : rows[slot].body.data[b] # f.data[b]}
        /\ rows' = [rows EXCEPT ![slot].body =
             [key |-> f.key, dlc |-> f.dlc,
              data |-> [b \in Bytes |-> IF b \in Within(f) THEN f.data[b]
                                        ELSE rows[slot].body.data[b]]]]
  BY DEF WriteBody
<1>3. /\ slot \in in_use /\ slot \in Index /\ f.key \in Keys
      /\ rows[slot].body.key = f.key /\ frame = {f}
      /\ rows \in [Index -> Row] /\ in_use \subseteq Index
  BY <1>1 DEF CacheInv, TypeOK, WriterInv, Frame
<1>4. /\ rows'[slot].body.key = f.key /\ rows'[slot].meta = rows[slot].meta
      /\ BodyShows(rows'[slot].body, f)
      /\ \A i \in in_use : i # slot => rows'[i] = rows[i]
  BY <1>2, <1>3 DEF BodyShows, Within, Row
<1>5. \A i \in in_use : LastOf(i)' = LastOf(i)
  BY <1>1, <1>3, <1>4 DEF LastOf
<1>6. HistoryInv'
  BY <1>1, <1>3, <1>4 DEF TruthInv, HistoryInv
<1>7. BodiesInv'
  BY <1>1, <1>4, <1>5 DEF TruthInv, BodiesInv
<1>8. MetasInv'
  BY <1>1, <1>3, <1>4, <1>5 DEF TruthInv, MetasInv
<1>9. ASSUME NEW g \in last[f.key], NEW b \in Within(f) \cap Within(g)
      PROVE  b \in mask' <=> f.data[b] # g.data[b]
  <2>1. BodyShows(rows[slot].body, g)
    BY <1>1, <1>3 DEF TruthInv, BodiesInv, LastOf
  <2> QED
    BY <1>2, <2>1 DEF BodyShows
<1>10. WrittenInv'
  BY <1>1, <1>3, <1>4, <1>9 DEF WrittenInv
<1> QED
  BY <1>6, <1>7, <1>8, <1>10 DEF TruthInv

(* The rest becomes the frame's, and the period and the changed bytes are  *)
(* relative to the last frame, whose timestamp the entry still held.       *)
LEMMA WriteMetaTruth ==
  ASSUME CacheInv, TruthInv, WriteMeta
  PROVE  TruthInv'
<1>1. /\ can = "body" /\ can' = "meta"
      /\ UNCHANGED <<in_use, frame, slot, mask, last, before>>
  BY DEF WriteMeta
<1>2. PICK f \in frame :
        rows' = [rows EXCEPT ![slot].meta =
          [mutated |-> f.mutated, timestamp |-> f.timestamp,
           period |-> IF HasPrevious
                      THEN Period(f.timestamp, rows[slot].meta.timestamp)
                      ELSE 0,
           changed |-> IF HasPrevious THEN mask ELSE {}]]
  BY DEF WriteMeta
<1>3. /\ slot \in in_use /\ slot \in Index /\ f.key \in Keys
      /\ rows[slot].body.key = f.key /\ frame = {f}
      /\ rows \in [Index -> Row] /\ in_use \subseteq Index
  BY <1>1 DEF CacheInv, TypeOK, WriterInv, Frame
<1>4. /\ rows'[slot].body = rows[slot].body
      /\ rows'[slot].meta.timestamp = f.timestamp
      /\ rows'[slot].meta.mutated = f.mutated
      /\ rows'[slot].meta.period =
           IF HasPrevious
           THEN Period(f.timestamp, rows[slot].meta.timestamp) ELSE 0
      /\ rows'[slot].meta.changed = IF HasPrevious THEN mask ELSE {}
      /\ \A i \in in_use : i # slot => rows'[i] = rows[i]
  BY <1>2, <1>3 DEF Row
<1>5. \A i \in in_use : LastOf(i)' = LastOf(i)
  BY <1>1, <1>4 DEF LastOf
<1>6. /\ last[f.key] = {} => rows[slot].meta.timestamp = 0
      /\ \A g \in last[f.key] : rows[slot].meta.timestamp = g.timestamp
  BY <1>1, <1>3 DEF TruthInv, MetasInv, MetaShows, LastOf
<1>7. HistoryInv'
  BY <1>1, <1>4 DEF TruthInv, HistoryInv
<1>8. BodiesInv'
  BY <1>1, <1>4, <1>5 DEF TruthInv, BodiesInv
<1>9. MetasInv'
  BY <1>1, <1>4, <1>5 DEF TruthInv, MetasInv
<1>10. Relates(rows'[slot].meta, {f}, last[f.key])
  <2>1. last[f.key] = {} =>
          rows'[slot].meta.changed = {} /\ rows'[slot].meta.period = 0
    BY <1>4, <1>6 DEF HasPrevious
  <2>2. ASSUME NEW g \in last[f.key], g.timestamp # 0
        PROVE  Compares(rows'[slot].meta, f, g)
    <3>1. HasPrevious
      BY <1>6, <2>2 DEF HasPrevious
    <3>2. /\ rows'[slot].meta.period = Period(f.timestamp, g.timestamp)
          /\ rows'[slot].meta.changed = mask
      BY <1>4, <1>6, <3>1
    <3> QED
      BY <1>1, <3>2 DEF TruthInv, WrittenInv, Compares
  <2> QED
    BY <2>1, <2>2 DEF Relates
<1>11. WrittenInv'
  BY <1>1, <1>3, <1>4, <1>10 DEF TruthInv, WrittenInv, MetaShows
<1> QED
  BY <1>7, <1>8, <1>9, <1>11 DEF TruthInv

(* What was written becomes what is stored; no other entry has the key.    *)
LEMMA CloseEntryTruth ==
  ASSUME CacheInv, TruthInv, CloseEntry
  PROVE  TruthInv'
<1>1. /\ can = "meta" /\ can' = "idle" /\ UNCHANGED <<rows, in_use>>
  BY DEF CloseEntry
<1>2. PICK f \in frame :
        /\ last' = [last EXCEPT ![f.key] = {f}]
        /\ before' = [before EXCEPT ![f.key] = last[f.key]]
  BY DEF CloseEntry
<1>3. /\ slot \in in_use /\ f \in Frame /\ f.key \in Keys
      /\ rows[slot].body.key = f.key
      /\ rows \in [Index -> Row] /\ in_use \subseteq Index
  BY <1>1, <1>2 DEF CacheInv, TypeOK, WriterInv, Frame
<1>4. /\ last \in [Keys -> SUBSET Frame] /\ before \in [Keys -> SUBSET Frame]
  BY DEF TruthInv, HistoryInv
<1>5. /\ last'[f.key] = {f} /\ before'[f.key] = last[f.key]
      /\ \A k \in Keys : k # f.key =>
           last'[k] = last[k] /\ before'[k] = before[k]
      /\ last' \in [Keys -> SUBSET Frame] /\ before' \in [Keys -> SUBSET Frame]
  BY <1>2, <1>3, <1>4
<1>6. \A i \in in_use : i # slot =>
        rows[i].body.key \in Keys /\ rows[i].body.key # f.key
  BY <1>3 DEF CacheInv, OneEntryPerKey, Row, Body
<1>7. /\ last'[rows'[slot].body.key] = {f}
      /\ \A i \in in_use : i # slot => last'[rows'[i].body.key] = LastOf(i)
  BY <1>1, <1>3, <1>5, <1>6 DEF LastOf
<1>8. HistoryInv'
  BY <1>1, <1>3, <1>5 DEF TruthInv, HistoryInv
<1>9. BodiesInv'
  BY <1>1, <1>2, <1>7 DEF TruthInv, BodiesInv, WrittenInv, LastOf
<1>10. MetasInv'
  <2>1. /\ MetaShows(rows[slot].meta, f)
        /\ Relates(rows[slot].meta, {f}, before'[f.key])
    BY <1>1, <1>2, <1>5 DEF TruthInv, WrittenInv
  <2>2. ASSUME NEW i \in in_use, i # slot
        PROVE  /\ last'[rows'[i].body.key] = {} => rows'[i].meta.timestamp = 0
               /\ \A g \in last'[rows'[i].body.key] :
                    MetaShows(rows'[i].meta, g)
               /\ Relates(rows'[i].meta, last'[rows'[i].body.key],
                          before'[rows'[i].body.key])
    <3>1. /\ LastOf(i) = {} => rows[i].meta.timestamp = 0
          /\ \A g \in LastOf(i) : MetaShows(rows[i].meta, g)
          /\ Relates(rows[i].meta, LastOf(i), before[rows[i].body.key])
      BY <1>1, <2>2 DEF TruthInv, MetasInv
    <3>2. /\ rows' = rows /\ last'[rows'[i].body.key] = LastOf(i)
          /\ before'[rows'[i].body.key] = before[rows[i].body.key]
      BY <1>1, <1>5, <1>6, <1>7, <2>2
    <3> QED
      BY <3>1, <3>2
  <2>3. /\ last'[rows'[slot].body.key] = {f} /\ rows' = rows
        /\ before'[rows'[slot].body.key] = before'[f.key]
        /\ in_use' = in_use
    BY <1>1, <1>3, <1>7
  <2>4. ASSUME NEW i \in in_use
        PROVE  /\ last'[rows'[i].body.key] = {} => rows'[i].meta.timestamp = 0
               /\ \A g \in last'[rows'[i].body.key] :
                    MetaShows(rows'[i].meta, g)
               /\ Relates(rows'[i].meta, last'[rows'[i].body.key],
                          before'[rows'[i].body.key])
    BY <2>1, <2>2, <2>3
  <2> QED
    BY <2>3, <2>4 DEF MetasInv, LastOf
<1>11. WrittenInv'
  BY <1>1 DEF WrittenInv
<1> QED
  BY <1>8, <1>9, <1>10, <1>11 DEF TruthInv

(* Every other step leaves the entries' fields and their history alone.    *)
LEMMA NextTruth ==
  ASSUME CacheInv, TruthInv, [Next]_vars
  PROVE  TruthInv'
<1>1. ASSUME UNCHANGED <<rows, in_use, frame, slot, mask, last, before>>,
             can \notin {"body", "meta"}, can' \notin {"body", "meta"}
      PROVE  TruthInv'
  BY <1>1 DEF TruthInv, HistoryInv, BodiesInv, MetasInv, WrittenInv, LastOf
<1>2. ASSUME UNCHANGED <<rows, in_use, canVars, last, before>>
      PROVE  TruthInv'
  BY <1>2
  DEF canVars, TruthInv, HistoryInv, BodiesInv, MetasInv, WrittenInv, LastOf
<1>3. ASSUME NEW f \in Frames, UpdateDropped(f)
      PROVE  TruthInv'
  BY <1>2, <1>3 DEF UpdateDropped
<1>4. CASE OpenEntry
  BY <1>1, <1>4 DEF OpenEntry
<1>5. CASE StartSnapshot
  BY <1>2, <1>5 DEF StartSnapshot
<1>6. CASE UiTask
  BY <1>2, <1>6
  DEF UiTask, SkipEntry, LoadSequence, CopyBody, CopyMeta, VerifySequence,
      EndSnapshot
<1>7. CASE UNCHANGED vars
  BY <1>2, <1>7 DEF vars
<1> QED
  BY <1>3, <1>4, <1>5, <1>6, <1>7, UpdateTruth, WriteBodyTruth,
     WriteMetaTruth, CloseEntryTruth
  DEF Next, CanTask

(* A snapshot lists every entry that was complete when it began and was    *)
(* not opened meanwhile, however often it retried the others.              *)
THEOREM SettledAreListed == Spec => []SettledRowsListed
<1>1. CacheInv /\ ListingInv => SettledRowsListed
  <2> SUFFICES ASSUME CacheInv, ListingInv, ui = "scan", cursor = MaxEntries,
                      NEW i \in settled
               PROVE  i \in {o[1] : o \in out}
    BY DEF SettledRowsListed
  <2>1. i < cursor
    BY CacheAssumption DEF CacheInv, TypeOK, Index
  <2> QED
    BY <2>1 DEF ListingInv, Listed
<1>2. Spec => []ListingInv
  BY InitListing, NextListing, CacheInvariant, PTL DEF Spec
<1> QED
  BY <1>1, <1>2, CacheInvariant, PTL

(* An entry at rest holds the last frame of its key, and its changed bytes *)
(* and period relate that frame to the one before it.                      *)
THEOREM EntriesTrue == Spec => []EntriesAreTrue
<1>1. CacheInv /\ TruthInv => EntriesAreTrue
  <2> SUFFICES ASSUME CacheInv, TruthInv
               PROVE  EntriesAreTrue
    OBVIOUS
  <2>1. \A i \in AtRest : i \in in_use /\ ~(can \in {"body", "meta"} /\ i = slot)
    BY DEF AtRest, CacheInv, TypeOK, WriterInv, Writing
  <2>2. HoldsLastFrame
    BY <2>1
    DEF HoldsLastFrame, TruthInv, BodiesInv, MetasInv, LastOf, BodyShows,
        MetaShows
  <2>3. ChangesRelateToPreviousFrame
    BY <2>1
    DEF ChangesRelateToPreviousFrame, TruthInv, MetasInv, LastOf, Relates
  <2> QED
    BY <2>2, <2>3 DEF EntriesAreTrue
<1>2. Spec => []TruthInv
  BY InitListing, NextTruth, CacheInvariant, PTL DEF Spec
<1> QED
  BY <1>1, <1>2, CacheInvariant, PTL
=============================================================================
