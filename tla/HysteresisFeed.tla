--------------------------- MODULE HysteresisFeed ---------------------------
(***************************************************************************)
(* A Hysteresis fed with arbitrary readings, beside the readings it has    *)
(* seen since the value driving the curve last changed: the reference the  *)
(* module doc of fan_curve.rs states ("speed-downs only after              *)
(* DOWN_CONFIRMATIONS consecutive readings at least DOWN_MARGIN_C below    *)
(* the value currently driving the curve").                                *)
(***************************************************************************)
EXTENDS FanHysteresis, Sequences

CONSTANT Temps            \* the readings a sensor can give, NoReading not one

VARIABLES
    hyst,     \* the Hysteresis value
    since,    \* at most the last DOWN_CONFIRMATIONS readings under this value
    last      \* the latest reading

vars == <<hyst, since, last>>

Init ==
    /\ hyst = HystReset
    /\ since = <<>>
    /\ last = NoReading

Remember(s, t) ==
    IF Len(s) < DOWN_CONFIRMATIONS THEN Append(s, t) ELSE Append(Tail(s), t)

\* decide() feeds the combined reading.
Feed(t) ==
    /\ hyst' = HystUpdate(hyst, t)
    /\ last' = t
    /\ since' = IF hyst'.held = hyst.held THEN Remember(since, t) ELSE <<>>

\* release() resets the hysteresis.
Reset ==
    /\ hyst' = HystReset
    /\ since' = <<>>
    /\ last' = NoReading

Next == Reset \/ \E t \in Temps : Feed(t)

Spec == Init /\ [][Next]_vars
-----------------------------------------------------------------------------
Readings(s) == {s[i] : i \in DOMAIN s}

\* A full window of readings, every one of them DOWN_MARGIN_C below v.
CooledBelow(s, v) ==
    /\ Len(s) = DOWN_CONFIRMATIONS
    /\ \A t \in Readings(s) : t + DOWN_MARGIN_C <= v

\* A slow-down (Hysteresis::update lowering held) happens only when the whole
\* window was below the old value, and it goes to the hottest reading of that
\* window, never below it.
SlowsDownConfirmed ==
    hyst'.held < hyst.held =>
        \/ last' = NoReading
        \/ LET window == Remember(since, last')
           IN  /\ CooledBelow(window, hyst.held)
               /\ hyst'.held \in Readings(window)
               /\ \A t \in Readings(window) : t <= hyst'.held

\* The value driving the curve is never cooler than the latest reading, whatever
\* streak of lower readings was running, and is never sat on while a full window
\* of confirmed lower readings has been seen under it.
FollowsReadings ==
    /\ hyst.held >= last
    /\ ~CooledBelow(since, hyst.held)

\* What the module doc promises of every step (Hysteresis::update).
Confirmed == SlowsDownConfirmed /\ FollowsReadings'
SlowdownConfirmed == [][Confirmed]_vars
=============================================================================
