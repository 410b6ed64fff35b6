---------------------------- MODULE MCInputAlarm ----------------------------
(* An instance of InputAlarm for TLC: two digital loops, of which the second *)
(* switches the run mode, and the upper limit of an analog loop.            *)
EXTENDS InputAlarm

Mixed == <<"digital", "digital", "over">>
MixedLoops == <<1, 2, 1>>
ConfirmMixed == {<<1, 2, 1>>}
SecondStops == <<0, 4, 0>>
AllYes == <<TRUE, TRUE, TRUE>>

(* 0 is normal, or the alarm level of the first digital loop.               *)
Normal == {[b \in Bits |-> "normal"]}
NormalOrAlarm ==
  Normal \cup {[b \in Bits |-> IF b = <<"digital", 1>> THEN "high" ELSE "normal"]}

(* For the further counterexamples of README.md.                            *)
TwoDigital == <<"digital", "digital">>
OneDigital == <<"digital">>
TwoLoops == <<1, 2>>
JustLoop == <<1>>
ConfirmTwoOne == {<<2, 1>>}
ConfirmTwo == {<<2>>}
ManualStop == <<2, 4>>
Stop == <<4>>
BothYes == <<TRUE, TRUE>>
NoYes == <<FALSE, TRUE>>
OnlySecond == <<FALSE, TRUE, FALSE>>
Yes == <<TRUE>>
=============================================================================
