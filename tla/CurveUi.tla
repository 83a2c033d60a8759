------------------------------- MODULE CurveUi -------------------------------
(***************************************************************************)
(* The fan-curve editor of the Cooling page (settings/cooling.rs, CurveUi; *)
(* settings/curve_editor.rs; store of fan_curve.rs).                       *)
(* The GUI thread owns all of it but for the daemon's curves; requests run *)
(* on threads of their own, and their answers come back to it in any       *)
(* order. A request the window gave up and the daemon carries out later is *)
(* a change by another client here.                                        *)
(***************************************************************************)
EXTENDS CurveShape

CONSTANTS
    NoCall,         \* no request
    Slots,          \* bound: requests at once
    MaxSteps        \* bound: edits, buttons and changes by others

VARIABLES
    fan_curves, \* the daemon's curves
    current,    \* the power mode in force
    profile,    \* the mode whose curve is edited
    points,     \* the curve in the editor
    drafts,     \* curves drawn and not applied
    status,     \* what the daemon last answered
    touched,    \* the user has picked a mode
    drag,       \* a point is being dragged
    poll,       \* the status request under way
    calls,      \* the SetFanCurve requests under way
    busy,       \* one of them is waited for
    undo,       \* curves the toasts offer to send back
    drawn,      \* history: modes with a curve drawn since they were last sent
    last_drawn, \* history: that curve
    steps

curveVars == <<points, drafts, drawn, last_drawn>>
vars == <<fan_curves, current, profile, curveVars, status, touched, drag, poll,
          calls, busy, undo, steps>>

Answers == [curves : [CurveModes -> Stored \cup {Unset}], current : CurveModes]
Sent(m, c, on, undoable, before) ==
    [mode |-> m, curve |-> [points |-> c, enabled |-> on],
     undoable |-> undoable, before |-> before, answer |-> Unset]
Calls == [mode : CurveModes, curve : Stored, undoable : BOOLEAN,
          before : Stored, answer : Answers \cup {Unset}]

TypeOK ==
    /\ fan_curves \in [CurveModes -> Stored \cup {Unset}]
    /\ current \in CurveModes /\ profile \in CurveModes
    /\ points \in ValidCurves
    /\ drafts \in [CurveModes -> ValidCurves \cup {Unset}]
    /\ status \in Answers \cup {Unset}
    /\ touched \in BOOLEAN /\ drag \in BOOLEAN /\ busy \in BOOLEAN
    /\ poll \in Answers \cup {Unset, NoCall}
    /\ calls \in [Slots -> Calls \cup {NoCall}]
    /\ undo \subseteq [mode : CurveModes, curve : Stored]
    /\ drawn \subseteq CurveModes
    /\ last_drawn \in [CurveModes -> ValidCurves]
    /\ steps \in Nat

Init ==
    /\ fan_curves \in [CurveModes -> {Unset}]
    /\ current \in CurveModes /\ profile = current
    /\ points = default_points[profile]
    /\ drafts = [m \in CurveModes |-> Unset]
    /\ status = Unset /\ touched = FALSE /\ drag = FALSE
    /\ poll = NoCall /\ calls = [k \in Slots |-> NoCall] /\ busy = FALSE
    /\ undo = {}
    /\ drawn = {} /\ last_drawn = default_points
    /\ steps = 0
-----------------------------------------------------------------------------
\* The curve the daemon has for m, the factory's if it has none.
stored(st, m) ==
    IF st = Unset \/ st.curves[m] = Unset
    THEN [points |-> default_points[m], enabled |-> FALSE]
    ELSE st.curves[m]

\* What the editor shows for m.
loaded(ds, st, m) ==
    IF ds[m] # Unset THEN ds[m] ELSE stored(st, m).points

\* Until the user picks a mode, the editor follows the one in force; p is what
\* it shows before.
sync(p, ds, st) ==
    IF touched \/ st = Unset \/ profile = st.current
    THEN points' = p /\ UNCHANGED profile
    ELSE /\ profile' = st.current
         /\ points' = loaded(ds, st, st.current)

Steps == steps < MaxSteps /\ steps' = steps + 1

\* The draft of the mode on show becomes c.
Draws(c) ==
    /\ Steps
    /\ drafts' = [drafts EXCEPT ![profile] = c]
    /\ drawn' = drawn \cup {profile}
    /\ last_drawn' = [last_drawn EXCEPT ![profile] = c]
    /\ sync(c, drafts', status)
    /\ UNCHANGED <<fan_curves, current, status, touched, poll, calls, busy, undo>>

\* A point is moved by the keys, or by the pointer.
move_focused ==
    \E i \in 1 .. POINTS, in \in Inputs :
        LET np == constrain_point(points, i, in[1], in[2]) IN
        /\ points[i] # np
        /\ Draws([points EXCEPT ![i] = np])
        /\ UNCHANGED drag

drag_begin ==
    /\ ~drag /\ drag' = TRUE
    /\ UNCHANGED <<fan_curves, current, profile, curveVars, status, touched,
                   poll, calls, busy, undo, steps>>

drag_end ==
    /\ drag /\ drag' = FALSE
    /\ UNCHANGED <<fan_curves, current, profile, curveVars, status, touched,
                   poll, calls, busy, undo, steps>>

\* The factory button.
FactoryShape ==
    /\ status # Unset /\ points # default_points[profile]
    /\ Draws(default_points[profile])
    /\ UNCHANGED drag

\* A mode button: load_profile.
load_profile ==
    /\ Steps
    /\ \E m \in CurveModes \ {profile} :
         /\ profile' = m
         /\ points' = loaded(drafts, status, m)
    /\ touched' = TRUE
    /\ UNCHANGED <<fan_curves, current, drafts, drawn, last_drawn, status, drag,
                   poll, calls, busy, undo>>
-----------------------------------------------------------------------------
(***************************************************************************)
(* SetFanCurve.                                                            *)
(***************************************************************************)
Send(k, m, c, on, undoable) ==
    /\ calls[k] = NoCall
    /\ calls' = [calls EXCEPT ![k] =
                    Sent(m, c, on, undoable, stored(status, m))]
    /\ busy' = TRUE
    /\ sync(points, drafts, status)
    /\ UNCHANGED <<fan_curves, current, drafts, last_drawn, status, touched,
                   drag, poll>>

Apply(k) ==
    /\ Steps
    /\ status # Unset /\ ~busy
    /\ \/ points # stored(status, profile).points
       \/ ~stored(status, profile).enabled
    /\ Send(k, profile, points, TRUE, TRUE)
    /\ drawn' = drawn \ {profile}
    /\ UNCHANGED undo

Reset(k) ==
    /\ Steps
    /\ status # Unset /\ ~busy
    /\ stored(status, profile).enabled
    /\ Send(k, profile, stored(status, profile).points, FALSE, TRUE)
    /\ UNCHANGED <<drawn, undo>>

\* The button of a toast.
Undo(k) ==
    /\ \E u \in undo :
         /\ Send(k, u.mode, u.curve.points, u.curve.enabled, FALSE)
         /\ undo' = undo \ {u}
    /\ UNCHANGED <<drawn, steps>>

\* A toast goes after 10 s.
Expires ==
    /\ \E u \in undo : undo' = undo \ {u}
    /\ UNCHANGED <<fan_curves, current, profile, curveVars, status, touched,
                   drag, poll, calls, busy, steps>>

\* fan_curve::store and status, in the daemon.
store(k) ==
    /\ calls[k] # NoCall /\ calls[k].answer = Unset
    /\ validate(calls[k].curve.points)
    /\ fan_curves' = [fan_curves EXCEPT ![calls[k].mode] = calls[k].curve]
    /\ calls' = [calls EXCEPT ![k].answer =
                    [curves |-> fan_curves', current |-> current]]
    /\ UNCHANGED <<current, profile, curveVars, status, touched, drag, poll,
                   busy, undo, steps>>

\* The answer of a curve turned on ends the draft of its mode, also one drawn
\* while it was under way.
Applied(k) ==
    LET c == calls[k] IN
    /\ c # NoCall /\ c.answer # Unset
    /\ status' = c.answer
    /\ drafts' = IF c.curve.enabled THEN [drafts EXCEPT ![c.mode] = Unset]
                 ELSE drafts
    /\ undo' = IF c.undoable THEN undo \cup {[mode |-> c.mode, curve |-> c.before]}
               ELSE undo
    /\ drawn' = IF c.curve.enabled THEN drawn \ {c.mode} ELSE drawn
    /\ busy' = FALSE /\ calls' = [calls EXCEPT ![k] = NoCall]
    /\ sync(points, drafts', status')
    /\ UNCHANGED <<fan_curves, current, last_drawn, touched, drag, poll, steps>>

\* Refused, or the answer is lost: a draft sent is a draft again.
NotApplied(k) ==
    LET c == calls[k] IN
    /\ c # NoCall
    /\ drawn' = IF drafts[c.mode] = c.curve.points
                   /\ last_drawn[c.mode] = c.curve.points
                THEN drawn \cup {c.mode} ELSE drawn
    /\ busy' = FALSE /\ calls' = [calls EXCEPT ![k] = NoCall]
    /\ sync(points, drafts, status)
    /\ UNCHANGED <<fan_curves, current, drafts, last_drawn, status, touched,
                   drag, poll, undo, steps>>
-----------------------------------------------------------------------------
(***************************************************************************)
(* The poll every 2 s, and the others.                                     *)
(***************************************************************************)
PollSent ==
    /\ poll = NoCall /\ poll' = Unset
    /\ UNCHANGED <<fan_curves, current, profile, curveVars, status, touched,
                   drag, calls, busy, undo, steps>>

PollServed ==
    /\ poll = Unset
    /\ poll' = [curves |-> fan_curves, current |-> current]
    /\ UNCHANGED <<fan_curves, current, profile, curveVars, status, touched,
                   drag, calls, busy, undo, steps>>

\* Mutant: the answer is shown whatever is being drawn.
PollDone_Overwrites ==
    /\ poll \notin {NoCall, Unset}
    /\ poll' = NoCall /\ status' = poll
    /\ sync(stored(poll, profile).points, drafts, poll)
    /\ UNCHANGED <<fan_curves, current, drafts, drawn, last_drawn, touched,
                   drag, calls, busy, undo, steps>>

\* "Pick up CLI / other-client changes unless mid-edit."
PollDone ==
    /\ poll \notin {NoCall, Unset}
    /\ poll' = NoCall /\ status' = poll
    /\ sync(IF ~drag /\ drafts[profile] = Unset
            THEN stored(poll, profile).points ELSE points, drafts, poll)
    /\ UNCHANGED <<fan_curves, current, drafts, drawn, last_drawn, touched,
                   drag, calls, busy, undo, steps>>

\* Its error also greys the buttons out, until the next answer or edit.
PollFails ==
    /\ poll # NoCall /\ poll' = NoCall
    /\ UNCHANGED <<fan_curves, current, profile, curveVars, status, touched,
                   drag, calls, busy, undo, steps>>

\* The command line stores a curve, or the power mode changes.
Others ==
    /\ Steps
    /\ \/ /\ \E m \in CurveModes, c \in Foreign :
               fan_curves' = [fan_curves EXCEPT ![m] = c]
          /\ UNCHANGED current
       \/ current' \in CurveModes \ {current} /\ UNCHANGED fan_curves
    /\ UNCHANGED <<profile, curveVars, status, touched, drag, poll, calls, busy,
                   undo>>

Call(k) ==
    Apply(k) \/ Reset(k) \/ Undo(k) \/ store(k) \/ Applied(k) \/ NotApplied(k)

Next ==
    \/ move_focused \/ drag_begin \/ drag_end \/ FactoryShape \/ load_profile
    \/ PollSent \/ PollServed \/ PollDone \/ PollFails
    \/ Expires \/ Others
    \/ \E k \in Slots : Call(k)

Spec == Init /\ [][Next]_vars
-----------------------------------------------------------------------------
(***************************************************************************)
(* Properties. TypeOK says that every curve there is passes validate.      *)
(***************************************************************************)
\* "Edits update the draft for the selected mode", and nothing but the answer to
\* a curve of that mode takes them away: whatever polls, other requests, mode
\* changes and other clients do meanwhile, a curve drawn and not sent is the
\* draft of its mode, and what the editor shows when that mode is on show.
EditsKept ==
    \A m \in drawn :
        /\ drafts[m] = last_drawn[m]
        /\ profile = m => points = last_drawn[m]
=============================================================================
