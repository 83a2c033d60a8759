----------------------------- MODULE CurveShape -----------------------------
(***************************************************************************)
(* The shape of a fan curve: points of a temperature and a percentage      *)
(* (fan_curve.rs, validate and constrain_point).                           *)
(***************************************************************************)
EXTENDS Integers

CONSTANTS
    POINTS, TEMP_MIN_C, TEMP_MAX_C, SAFETY_TEMP_C,
    FULL,           \* 100 %
    CurveModes,     \* power modes with a curve of their own
    default_points, \* the factory curve of each
    Foreign,        \* curves that clients other than the editor store
    Inputs,         \* where the pointer or the arrow keys take a point
    Unset          \* no curve, no draft, no answer yet

TempRange == TEMP_MIN_C .. TEMP_MAX_C
Curves == [1 .. POINTS -> [t : TempRange, p : 0 .. FULL]]

validate(c) ==
    /\ \A i \in 2 .. POINTS : c[i - 1].t < c[i].t /\ c[i - 1].p <= c[i].p
    /\ c[POINTS].p = FULL /\ c[POINTS].t >= SAFETY_TEMP_C

ValidCurves == {c \in Curves : validate(c)}
Stored == [points : ValidCurves, enabled : BOOLEAN]

ASSUME CurveBounds ==
    /\ POINTS \in Nat \ {0} /\ FULL \in Nat
    /\ TEMP_MIN_C \in Nat /\ TEMP_MAX_C \in Nat
    /\ SAFETY_TEMP_C \in TEMP_MIN_C .. TEMP_MAX_C

\* The test defaults_are_valid_for_every_profile.
ASSUME FactoryCurves == default_points \in [CurveModes -> ValidCurves]

\* Those are checked as the editor's are.
ASSUME ForeignStored == Foreign \subseteq Stored

ASSUME InputsAreIntegers == Inputs \subseteq Int \X Int

ASSUME UnsetIsNoCurve == Unset \notin ValidCurves
-----------------------------------------------------------------------------
clamp(x, lo, hi) == IF x < lo THEN lo ELSE IF x > hi THEN hi ELSE x

\* Mutant: the last point goes where it is dragged.
constrain_point_LastFree(c, i, temp, pct) ==
    [t |-> clamp(temp, IF i = 1 THEN TEMP_MIN_C ELSE c[i - 1].t + 1,
                       IF i = POINTS THEN TEMP_MAX_C ELSE c[i + 1].t - 1),
     p |-> clamp(pct, IF i = 1 THEN 0 ELSE c[i - 1].p,
                      IF i = POINTS THEN FULL ELSE c[i + 1].p)]

t_lo(c, i) ==
    LET above == IF i = 1 THEN TEMP_MIN_C ELSE c[i - 1].t + 1 IN
    IF i = POINTS /\ above < SAFETY_TEMP_C THEN SAFETY_TEMP_C ELSE above
t_hi(c, i) == IF i = POINTS THEN TEMP_MAX_C ELSE c[i + 1].t - 1
p_lo(c, i) == IF i = POINTS THEN FULL ELSE IF i = 1 THEN 0 ELSE c[i - 1].p
p_hi(c, i) == IF i = POINTS THEN FULL ELSE c[i + 1].p

constrain_point(c, i, temp, pct) ==
    [t |-> clamp(temp, t_lo(c, i), t_hi(c, i)),
     p |-> clamp(pct, p_lo(c, i), p_hi(c, i))]
=============================================================================
