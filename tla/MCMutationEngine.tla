-------------------------- MODULE MCMutationEngine --------------------------
(***************************************************************************)
(* Two slots for four rules of two frame keys with overlapping ranges, so  *)
(* that slots run out, are reused after a cleared staging area, and the    *)
(* order of the rules of a frame matters.                                  *)
(***************************************************************************)
EXTENDS MutationEngine

CONSTANTS key1, key2

BitRange(key, range, dynamic, enabled, value) ==
  [kind |-> "BIT_RANGE", key |-> key, range |-> range, dynamic |-> dynamic,
   enabled |-> enabled, value |-> value]
RawMask(key, range, enabled, value) ==
  [kind |-> "RAW_MASK", key |-> key, range |-> range, dynamic |-> FALSE,
   enabled |-> enabled, value |-> value]

MCKeys == {key1, key2}
MCRanges == {{0}, {0, 1}}
MCValues == {0, 1}

(* A dynamic and a static rule over the same bits, a raw mask over them,   *)
(* and a rule of another frame.                                            *)
MCRequests ==
  {BitRange(key1, {0}, TRUE, TRUE, 1), BitRange(key1, {0}, FALSE, FALSE, 1),
   RawMask(key1, {0, 1}, TRUE, 1), BitRange(key2, {0, 1}, FALSE, TRUE, 1)}
=============================================================================
