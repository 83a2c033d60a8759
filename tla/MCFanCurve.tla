---------------------------- MODULE MCFanCurve ----------------------------
(* Small instances of FanCurve: curves are monotone and end at 100 %.       *)
EXTENDS FanCurve, TLC

\* One curve over the readings: the level grows with the temperature.
MCCurves == {[t \in Temps |-> IF t < MaxLevel THEN t ELSE MaxLevel]}

\* The channels are interchangeable.
Symm == Permutations(Fans)
=============================================================================
