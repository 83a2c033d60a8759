--------------------------- MODULE FanHysteresis ---------------------------
(***************************************************************************)
(* The temperature hysteresis of the fan-curve engine (fan_curve.rs,       *)
(* struct Hysteresis): speed-ups follow the temperature at once, a         *)
(* slow-down needs DOWN_CONFIRMATIONS readings in a row, each at least     *)
(* DOWN_MARGIN_C below the value that drives the curve.                    *)
(* Temperatures are whole degrees; NoReading stands for held = None.       *)
(***************************************************************************)
EXTENDS Naturals

CONSTANTS
    DOWN_CONFIRMATIONS,   \* lower readings needed before a slow-down
    DOWN_MARGIN_C         \* how far below the held value a reading must be

ASSUME HysteresisAssumption ==
    /\ DOWN_CONFIRMATIONS \in Nat \ {0}
    /\ DOWN_MARGIN_C \in Nat \ {0}

NoReading == 0

HotterOf(a, b) == IF a >= b THEN a ELSE b

\* Hysteresis::default, and what reset() restores.
HystReset == [held |-> NoReading, streak |-> 0, streakMax |-> NoReading]

\* The hottest reading of the current run of lower readings, with t added.
StreakMaxWith(h, t) == IF h.streak = 0 THEN t ELSE HotterOf(h.streakMax, t)

\* A reading counts towards a slow-down.
Lower(h, t) == t + DOWN_MARGIN_C <= h.held

\* Mutant: a reading only slightly lower does not restart the count.
HystUpdate_KeepsStreak(h, t) ==
    CASE h.held = NoReading -> [h EXCEPT !.held = t]
      [] h.held # NoReading /\ t >= h.held ->
            [h EXCEPT !.held = t, !.streak = 0]
      [] Lower(h, t) /\ h.streak + 1 >= DOWN_CONFIRMATIONS ->
            [held |-> StreakMaxWith(h, t), streak |-> 0,
             streakMax |-> StreakMaxWith(h, t)]
      [] Lower(h, t) /\ h.streak + 1 < DOWN_CONFIRMATIONS ->
            [h EXCEPT !.streak = @ + 1, !.streakMax = StreakMaxWith(h, t)]
      [] OTHER -> h

\* Hysteresis::update: feed the raw reading t.
HystUpdate(h, t) ==
    CASE h.held = NoReading -> [h EXCEPT !.held = t]
      [] h.held # NoReading /\ t >= h.held ->
            [h EXCEPT !.held = t, !.streak = 0]
      [] Lower(h, t) /\ h.streak + 1 >= DOWN_CONFIRMATIONS ->
            [held |-> StreakMaxWith(h, t), streak |-> 0,
             streakMax |-> StreakMaxWith(h, t)]
      [] Lower(h, t) /\ h.streak + 1 < DOWN_CONFIRMATIONS ->
            [h EXCEPT !.streak = @ + 1, !.streakMax = StreakMaxWith(h, t)]
      [] OTHER -> [h EXCEPT !.streak = 0]

\* The values a Hysteresis over the temperatures T can hold.
HystType(T) ==
    [held : T \cup {NoReading}, streak : 0..(DOWN_CONFIRMATIONS - 1),
     streakMax : T \cup {NoReading}]
=============================================================================
