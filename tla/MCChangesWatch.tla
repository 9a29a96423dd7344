--------------------------- MODULE MCChangesWatch ---------------------------
(***************************************************************************)
(* Two keys, a table of two entries, payloads of none to two bytes.        *)
(***************************************************************************)
EXTENDS ChangesWatch

CONSTANTS key1, key2

NoBytes(key) == [key |-> key, data |-> <<>>]
OneByte(key, value) == [key |-> key, data |-> [b \in {0} |-> value]]
TwoBytes(key, first, second) ==
  [key |-> key, data |-> [b \in {0, 1} |-> IF b = 0 THEN first ELSE second]]

MCBytes == {0, 1}
MCKeys == {key1, key2}
MCFrames ==
  {NoBytes(key1), OneByte(key1, 1), TwoBytes(key1, 1, 0), TwoBytes(key1, 0, 1),
   TwoBytes(key2, 0, 0)}
=============================================================================
