----------------------------- MODULE ScopeEditor -----------------------------
(***************************************************************************)
(* The live table and the two editors of the SignalScope page              *)
(* (data/signalscope.js): what a status answer does to them, and what the  *)
(* user does.  Handlers of the page run to completion one at a time, so    *)
(* each is one step.  A payload is a function from its bits to 0 and 1;    *)
(* the bytes are ByteBits wide.  The last definitions are what the device  *)
(* makes of a REPLACE that the page stages (core/mutation_engine.cpp).     *)
(*                                                                         *)
(* A definition named ...Mutant is a faulty version of the one after it,   *)
(* kept to show that a property notices the fault; nothing uses it.        *)
(***************************************************************************)
EXTENDS Integers, Sequences, FiniteSetsExt

CONSTANTS
  ByteBits, Bytes,  \* 8 and 8
  Keys,             \* the frames' keys: CAN id and direction
  Answers,          \* the lists of frames a status answer may carry
  Ranges,           \* the bit ranges a user types into the form
  Filters,          \* the keys that a filter the user types lets through
  FloatBits,        \* 24: what a float of the device holds exactly
  MaxEdits          \* bound on what the user does; not in the code

Width == ByteBits * Bytes
Bits == 0 .. Width - 1
Payload == [Bits -> 0 .. 1]
Zeros == [b \in Bits |-> 0]
TwoTo[n \in 0 .. Width] == IF n = 0 THEN 1 ELSE 2 * TwoTo[n - 1]

(* A signal's range, as the form holds it and as the device decodes it.    *)
BitRange == [start_bit : Bits, length : 1 .. Width,
             little_endian : BOOLEAN, is_signed : BOOLEAN, scaled : BOOLEAN]

ASSUME ScopeEditorAssumption ==
  /\ ByteBits \in Nat \ {0} /\ Bytes \in Nat \ {0} /\ MaxEdits \in Nat
  /\ FloatBits \in 1 .. Width - 1
  /\ Ranges \subseteq BitRange /\ Filters \subseteq SUBSET Keys
  /\ \A a \in Answers : \A f \in a :
       /\ f.key \in Keys /\ f.data \in Payload /\ f.decoded \in Seq(BitRange)
       /\ \A g \in a : g.key = f.key => g = f

NoKey == "none"
Demo == [key |-> "offline", data |-> Zeros, decoded |-> <<>>]
Operations == {"PASS_THROUGH", "REPLACE", "CLAMP"}
Everything == Keys \cup {Demo.key}

VARIABLES
  latest,     \* latestIncomingFrames: of the last status answer
  source,     \* lastRenderSourceFrames
  displayed,      \* displayedFrames: the rows of the table
  paused,     \* framesPaused
  filter,     \* the keys that frameFilterText lets through
  selected,   \* selectedFrameKey
  index,      \* selectedSignalIndex
  picker,     \* whether the signal picker is enabled
  data,       \* currentFrameData
  range,       \* the range in the mutation editor
  operation,  \* mut-operation
  locked,     \* mut-operation is disabled
  value,      \* mut-v1
  overrides,  \* rawOverrideModes: -1 passes a bit through, 0 and 1 force it
  edits,      \* history: what the user has done so far
  fresh       \* history: value and operation are as the last rendering left them

table == <<latest, source, displayed, paused, filter>>
choice == <<selected, index, picker>>
editor == <<data, range, value>>
mode == <<operation, locked>>
editorVars == <<table, choice, editor, mode, overrides, edits, fresh>>

-----------------------------------------------------------------------------
(* Bit ranges.  A Motorola range runs down a byte and on at the top of the *)
(* next.  An Intel range that leaves the frame reads its last bit again.   *)
NextMotorolaBitMutant(b) == IF b % ByteBits = 0 THEN b + 2 * ByteBits ELSE b - 1
NextMotorolaBit(b) == IF b % ByteBits = 0 THEN b + 2 * ByteBits - 1 ELSE b - 1

Walk(r) ==
  LET at[i \in 0 .. r.length - 1] ==
        IF i = 0 THEN r.start_bit ELSE NextMotorolaBit(at[i - 1])
  IN  at

BitInSignal(r, b) ==
  IF r.little_endian
    THEN b \in r.start_bit .. r.start_bit + r.length - 1
    ELSE \E i \in 0 .. r.length - 1 :
           Walk(r)[i] = b /\ \A j \in 0 .. i : Walk(r)[j] \in Bits

Position(r) ==
  [i \in 0 .. r.length - 1 |->
     IF r.little_endian THEN Min({r.start_bit + i, Width - 1}) ELSE Walk(r)[i]]

Extractable(r) == \A i \in DOMAIN Position(r) : Position(r)[i] \in Bits

ReadBits(bytes, r) ==
  LET at == Position(r)
      read[n \in 0 .. r.length] ==
        IF n = 0 THEN 0
        ELSE IF r.little_endian THEN read[n - 1] + bytes[at[n - 1]] * TwoTo[n - 1]
        ELSE 2 * read[n - 1] + bytes[at[n - 1]]
  IN  read[r.length]

ExtractSignalRaw(bytes, r) ==
  LET raw == ReadBits(bytes, r)
  IN  IF r.is_signed /\ r.length < Width /\ raw >= TwoTo[r.length - 1]
      THEN raw - TwoTo[r.length] ELSE raw

(* renderRawBitEditor: a REPLACE takes the value that the bits show.       *)
SyncedValue(v, d, r, op) ==
  IF op = "REPLACE" /\ Extractable(r) THEN ExtractSignalRaw(d, r) ELSE v

RenderRawBitEditor ==
  /\ value' = SyncedValue(value, data', range', operation')
  /\ fresh' = TRUE

(* enforceRawOnlyOperationMode: without a decoded signal only REPLACE.     *)
EnforceRawOnly(enabled, op) ==
  /\ picker' = enabled
  /\ operation' = IF enabled THEN op ELSE "REPLACE"
  /\ locked' = ~enabled

-----------------------------------------------------------------------------
(* The table.                                                              *)
Find(rows, key) == {f \in rows : f.key = key}
ApplyFrameFilter(rows) == {f \in rows : f.key \in filter'}

RenderFrames(rows) ==
  /\ source' = rows
  /\ displayed' = ApplyFrameFilter(rows)

(* refreshSignalPicker as a status answer calls it, preserving the         *)
(* editors; the index is looked up by the name the new list has there, so  *)
(* it stays, or is 0 when the list is too short.                           *)
RefreshSignalPicker(rows) ==
  LET decoded == UNION {DOMAIN f.decoded : f \in Find(rows, selected)} IN
  /\ index' = IF index + 1 \in decoded THEN index ELSE 0
  /\ EnforceRawOnly(decoded # {}, operation)
  /\ fresh' = (fresh /\ operation' = operation)

PollRendersMutant == RenderFrames(latest')
PollRenders ==
  IF paused THEN UNCHANGED <<source, displayed>> ELSE RenderFrames(latest')

(* refreshStatus: an answer with frames, or the demonstration frame when   *)
(* there is none.                                                          *)
ApplyStatus(rows) ==
  /\ latest' = rows
  /\ UNCHANGED <<paused, filter>>
  /\ PollRenders
  /\ IF paused THEN UNCHANGED <<index, picker, mode, fresh>>
     ELSE RefreshSignalPicker(displayed')
  /\ UNCHANGED <<selected, editor, overrides, edits>>

StatusAnswers == \E rows \in Answers : ApplyStatus(rows)
StatusFails == ApplyStatus({Demo})

-----------------------------------------------------------------------------
(* The user.                                                               *)
Edit == edits < MaxEdits /\ edits' = edits + 1

ResumeMutant == UNCHANGED <<source, displayed>>
Resume == RenderFrames(latest)

TogglePause ==
  /\ Edit
  /\ paused' = ~paused
  /\ UNCHANGED <<latest, filter>>
  /\ IF paused THEN Resume ELSE UNCHANGED <<source, displayed>>
  /\ UNCHANGED <<choice, editor, mode, overrides, fresh>>

TypeFilter(keys) ==
  /\ Edit
  /\ filter' = keys
  /\ RenderFrames(IF paused THEN source ELSE latest)
  /\ UNCHANGED <<latest, paused, choice, editor, mode, overrides, fresh>>

(* A click on a row: loadFrameIntoEditors renders before it has taken the  *)
(* signal's range and once more after.                                     *)
ClickFrame(f) ==
  /\ Edit
  /\ selected' = f.key /\ index' = 0
  /\ data' = f.data
  /\ EnforceRawOnly(f.decoded # <<>>, operation)
  /\ range' = IF f.decoded = <<>> THEN range ELSE f.decoded[1]
  /\ value' = SyncedValue(SyncedValue(value, data', range, operation'),
                       data', range', operation')
  /\ fresh' = TRUE
  /\ UNCHANGED <<table, overrides>>

ChooseSignal(i) ==
  /\ Edit /\ picker
  /\ \E f \in Find(displayed, selected) :
       i + 1 \in DOMAIN f.decoded /\ range' = f.decoded[i + 1]
  /\ index' = i
  /\ UNCHANGED <<table, selected, picker, data, mode, overrides>>
  /\ RenderRawBitEditor

(* trySelectSignalForBit: the first decoded signal that has the bit.       *)
SignalsWith(b) ==
  {i \in 1 .. Width : \E f \in Find(displayed, selected) :
     picker /\ i \in DOMAIN f.decoded /\ BitInSignal(f.decoded[i], b)}

ClickBit(b) ==
  /\ Edit
  /\ data' = [data EXCEPT ![b] = 1 - @]
  /\ IF SignalsWith(b) # {}
       THEN /\ index' = Min(SignalsWith(b)) - 1
            /\ \E f \in Find(displayed, selected) :
                 range' = f.decoded[Min(SignalsWith(b))]
            /\ EnforceRawOnly(picker, operation)
       ELSE /\ range' = [range EXCEPT !.start_bit = b, !.length = 1]
            /\ EnforceRawOnly(picker, "REPLACE")
            /\ UNCHANGED index
  /\ UNCHANGED <<table, selected, overrides>>
  /\ RenderRawBitEditor

(* Focusing a byte's input selects its bits; typing replaces them.         *)
FocusByte(k) ==
  /\ Edit
  /\ range' = [range EXCEPT !.start_bit = k * ByteBits, !.length = ByteBits]
  /\ UNCHANGED <<table, choice, data, mode, overrides>>
  /\ RenderRawBitEditor

CommitRawByte(k, byte) ==
  /\ Edit
  /\ data' = [b \in Bits |-> IF b \div ByteBits = k
                             THEN (byte \div TwoTo[b % ByteBits]) % 2 ELSE data[b]]
  /\ UNCHANGED <<table, choice, range, mode, overrides>>
  /\ RenderRawBitEditor

TypeRange(r) ==
  /\ Edit
  /\ range' = r
  /\ UNCHANGED <<table, choice, data, mode, overrides>>
  /\ RenderRawBitEditor

ChooseOperation(op) ==
  /\ Edit /\ ~locked
  /\ operation' = op
  /\ UNCHANGED <<table, choice, data, range, locked, overrides>>
  /\ RenderRawBitEditor

TypeValue(v) ==
  /\ Edit
  /\ value' = v /\ fresh' = FALSE
  /\ UNCHANGED <<table, choice, data, range, mode, overrides>>

CycleRawOverride(b) ==
  /\ Edit
  /\ overrides' = [overrides EXCEPT ![b] = CASE @ = -1 -> 1 [] @ = 1 -> 0 [] OTHER -> -1]
  /\ UNCHANGED <<table, choice, data, range, mode>>
  /\ RenderRawBitEditor

ClearRawOverrides ==
  /\ Edit
  /\ overrides' = [b \in Bits |-> -1]
  /\ UNCHANGED <<table, choice, data, range, mode>>
  /\ RenderRawBitEditor

EditorInit ==
  /\ latest = {Demo} /\ source = {Demo} /\ displayed = {Demo}
  /\ paused = FALSE /\ filter = Everything
  /\ selected = NoKey /\ index = 0 /\ picker = FALSE
  /\ data = Zeros
  /\ range = [start_bit |-> 0, length |-> Min({ByteBits, Width}),
             little_endian |-> TRUE, is_signed |-> FALSE, scaled |-> FALSE]
  /\ operation = "REPLACE" /\ locked = TRUE /\ value = 0
  /\ overrides = [b \in Bits |-> -1]
  /\ edits = 0 /\ fresh = TRUE

User ==
  \/ TogglePause
  \/ \E keys \in Filters \cup {Everything} : TypeFilter(keys)
  \/ \E f \in displayed : ClickFrame(f)
  \/ \E i \in 0 .. Width - 1 : ChooseSignal(i)
  \/ \E b \in Bits : ClickBit(b) \/ CycleRawOverride(b)
  \/ \E k \in 0 .. Bytes - 1 :
       FocusByte(k) \/ \E byte \in 0 .. TwoTo[ByteBits] - 1 : CommitRawByte(k, byte)
  \/ \E r \in Ranges : TypeRange(r)
  \/ \E op \in Operations : ChooseOperation(op)
  \/ TypeValue(1)
  \/ ClearRawOverrides

EditorNext == StatusAnswers \/ StatusFails \/ User

-----------------------------------------------------------------------------
(* What the device does with a staged REPLACE.  The value arrives as a     *)
(* float, so a long one is rounded (ties either way); convertPhysicalToRaw *)
(* for a factor of 1 and an offset of 0 clamps it to the signal's range;   *)
(* buildBitMaskAndValue refuses a range that leaves the frame and spreads  *)
(* the bits.                                                               *)
Floats == {m * TwoTo[e] : m \in -TwoTo[FloatBits] .. TwoTo[FloatBits], e \in 0 .. Width}

AsFloat(v) ==
  LET Distance(f) == IF f < v THEN v - f ELSE f - v
  IN  IF v \in Floats THEN v
      ELSE CHOOSE f \in Floats : \A g \in Floats : Distance(f) <= Distance(g)

StagedRaw(r, v) ==
  LET low == IF r.is_signed THEN -TwoTo[r.length - 1] ELSE 0
      high == IF r.is_signed THEN TwoTo[r.length - 1] - 1
              ELSE Min({TwoTo[r.length], TwoTo[Width - 1]}) - 1
  IN  Min({high, Max({low, AsFloat(v)})}) % TwoTo[r.length]
MaskBits(r) ==
  LET at[i \in 0 .. r.length - 1] ==
        IF i = 0 THEN r.start_bit
        ELSE IF r.little_endian THEN at[i - 1] + 1
        ELSE IF at[i - 1] % ByteBits = 0 THEN at[i - 1] + 2 * ByteBits - 1
        ELSE at[i - 1] - 1
  IN  at

Accepts(r) == \A i \in DOMAIN MaskBits(r) : MaskBits(r)[i] \in Bits

Replaced(d, r, v) ==
  LET at == MaskBits(r)
      raw == StagedRaw(r, v)
      shifted[n \in 0 .. r.length] == IF n = 0 THEN raw ELSE shifted[n - 1] \div 2
      RawBit(i) == IF r.little_endian THEN i ELSE r.length - 1 - i
  IN  [b \in Bits |->
        IF \E i \in DOMAIN at : at[i] = b
        THEN shifted[RawBit(CHOOSE i \in DOMAIN at : at[i] = b)] % 2
        ELSE d[b]]

(* A REPLACE staged as the editor stands, the user not having typed a      *)
(* value of their own, makes the frame the bit editor shows: whatever the  *)
(* byte order, sign and range, page and device read the bits alike.  Only  *)
(* for unscaled signals, as the device takes the value as physical while   *)
(* the page has put the raw one into the field; and only as long as a      *)
(* float holds the value: the page offers 64 bits, the device keeps 24.    *)
ReplaceMakesTheFrameShown ==
  (/\ operation = "REPLACE" /\ fresh
   /\ ~range.scaled /\ range.length <= FloatBits /\ Accepts(range))
    => Replaced(data, range, value) = data

(* The rows are those of the last answer that the filter lets through, and *)
(* pausing is the only thing that lets the table fall behind: resuming     *)
(* catches up with what arrived meanwhile.                                 *)
TableShowsLatest ==
  /\ displayed = {f \in source : f.key \in filter}
  /\ ~paused => source = latest

(* While the table is paused nothing but the filter changes it.            *)
PausedTableStands == [][paused /\ paused' => source' = source]_editorVars
=============================================================================
