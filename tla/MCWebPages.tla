----------------------------- MODULE MCWebPages ------------------------------
EXTENDS WebPages
MCUserSteps == [p \in Pages |-> CASE p = "behavior" -> 3 [] p = "curve" -> 3
                                  [] p = "map" -> 2
                                  [] p = "setup" -> 3 [] p = "api" -> 3
                                  [] p \in {"shell", "scope"} -> 0]
(* The behaviour page. *)
MCSignalRule(p) ==
  [enabled |-> TRUE, second |-> FALSE, profile |-> p, a |-> On("picked"),
   b |-> On("virtual")]
MCBuilder(profiles, default, list, alert) ==
  [enabled |-> TRUE, default |-> default, profiles |-> profiles, rules |-> list,
   alerts |-> <<alert>>]
MCAlert == [enabled |-> TRUE, condition |-> On("picked")]
MCNoAlert == [enabled |-> FALSE, condition |-> NoCondition]
MCTwoProfiles == <<NewProfile(0, FALSE), NewProfile(1, TRUE)>>
MCBuilders ==
  { MCBuilder(MCTwoProfiles, 1, <<MCSignalRule(0)>>, MCAlert),
    [MCBuilder(<<NewProfile(0, TRUE)>>, 0, <<>>, MCAlert) EXCEPT !.alerts = <<>>] }
MCReleased(id, on, rate) ==
  [id |-> id, exclusive |-> FALSE, release |-> [on |-> on, rate |-> rate]]
MCFiles ==
  { MCBuilder(<<NewProfile(2, FALSE), MCReleased(9, TRUE, "zero"),
                MCReleased(4, FALSE, "other")>>,
              7, <<MCSignalRule(4), MCSignalRule(6)>>, MCNoAlert),
    MCBuilder(<<>>, 0, <<>>, MCNoAlert) }
(* The curve pages: an axis of 0..4, a curve that reaches its end and an   *)
(* empty one.                                                              *)
MCCurves == { <<NewPoint(0, 1), NewPoint(2, 0), NewPoint(4, 1)>>, <<>> }
MCTypedX == {3, 5}
MCTypedLock == {3}
MCTypedSettings == {1, 3}
(* The map page: two rows, two columns. *)
MCDefaultSpeed == <<0, 2>>
MCDefaultThrottle == <<0, 1>>
MCDefaultLock == <<<<0, 0>>, <<1, 0>>>>
MCMaps ==
  { [speed |-> <<1, 9>>, throttle |-> <<0, 2, 2>>, lock |-> <<<<1>>, <<2, 9>>>>] }
MCTexts == { <<<<NaN, NaN, 1>>, <<NaN, 1, 2>>, <<2>>>>, <<<<NaN>>>> }
MCTypedCells == {NaN, 0, 2, 4}
(* The setup page: a signal that the two scripts spell differently. *)
MCFirmwareKey == [s \in {"rpm"} |-> "engine_rpm"]
MCOverrideKey == [s \in {"rpm"} |-> "engine rpm"]
(* The live table and its editors: two frames of two bytes of two bits.    *)
(* The first is decoded by an Intel signal and a Motorola one across the   *)
(* byte boundary in some answers, and not at all, or missing, in others.   *)
Signal(start, length, little, signed, scaled) ==
  [start_bit |-> start, length |-> length, little_endian |-> little,
   is_signed |-> signed, scaled |-> scaled]
Byte(b) == [i \in Bits |-> IF i \in b THEN 1 ELSE 0]
Frame(key, b, decoded) == [key |-> key, data |-> Byte(b), decoded |-> decoded]

MCKeys == {"a", "b"}
Intel == Signal(1, 2, TRUE, FALSE, FALSE)
Motorola == Signal(0, 3, FALSE, TRUE, FALSE)
MCAnswers ==
  { {Frame("a", {0, 3}, <<Intel, Motorola>>), Frame("b", {1}, <<>>)},
    {Frame("a", {2}, <<>>), Frame("b", {1}, <<Signal(0, 2, TRUE, FALSE, TRUE)>>)},
    {Frame("b", {}, <<>>)} }
MCRanges == { Signal(3, 2, TRUE, FALSE, FALSE), Signal(0, 4, FALSE, FALSE, FALSE),
              Signal(1, 4, FALSE, TRUE, FALSE) }
MCFilters == { {"a"}, {"b"} }
=============================================================================
