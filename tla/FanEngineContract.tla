------------------------- MODULE FanEngineContract -------------------------
(***************************************************************************)
(* What the fan-curve engine promises, without sensors, curves, threads or *)
(* fans: who drives the fans, how many ticks in a row the firmware did not *)
(* keep the targets, and whether the engine has given up (module doc of    *)
(* fan_curve.rs: "After NOT_ACCEPTED_TICKS ticks in a row with a mismatch  *)
(* the curve counts as not accepted: fans go back to the firmware and the  *)
(* engine waits until something changes").                                 *)
(***************************************************************************)
EXTENDS Naturals

CONSTANT Patience       \* unkept ticks in a row before the engine gives up

VARIABLES
    driving,     \* the engine has targets in force
    unkept,      \* ticks in a row the firmware did not keep them
    gaveUp       \* hands off until something changes

vars == <<driving, unkept, gaveUp>>

Init ==
    /\ driving = FALSE
    /\ unkept = 0
    /\ gaveUp = FALSE

\* The first target is written: never after giving up.
TakeOver ==
    /\ ~gaveUp
    /\ driving' = TRUE
    /\ UNCHANGED <<unkept, gaveUp>>

Kept ==
    /\ driving
    /\ unkept' = 0
    /\ UNCHANGED <<driving, gaveUp>>

Unkept ==
    /\ driving
    /\ unkept + 1 < Patience
    /\ unkept' = unkept + 1
    /\ UNCHANGED <<driving, gaveUp>>

\* Giving up takes Patience ticks in a row, and hands the fans back at once.
GiveUp ==
    /\ driving
    /\ unkept + 1 = Patience
    /\ driving' = FALSE
    /\ unkept' = 0
    /\ gaveUp' = TRUE

\* A fault, battery, or no curve; only the last forgets having given up.
HandBack ==
    /\ driving' = FALSE
    /\ unkept' = 0
    /\ gaveUp' \in {gaveUp, FALSE}

\* Something changed: the count starts over and the curve is tried again.
Retry ==
    /\ unkept' = 0
    /\ gaveUp' = FALSE
    /\ UNCHANGED driving

Next == TakeOver \/ Kept \/ Unkept \/ GiveUp \/ HandBack \/ Retry

Spec == Init /\ [][Next]_vars
=============================================================================
