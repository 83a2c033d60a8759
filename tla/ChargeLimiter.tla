---------------------------- MODULE ChargeLimiter ----------------------------
(***************************************************************************)
(* The battery charge limit (battery.rs): SetChargeLimit handlers, the     *)
(* watchdog (daemon/main.rs) and the resume worker (daemon/services.rs),   *)
(* which write a limit again that the embedded controller (EC) dropped.    *)
(***************************************************************************)
EXTENDS Naturals

CONSTANTS
    Clients,      \* handler threads that set a limit
    Repairers,    \* the battery watchdog and the resume worker
    Requests,     \* percentages clients ask for
    Tries         \* readings of charge_types after a write

VARIABLES
    interface,      \* "charge_types" or "conservation_mode"
    readable,       \* its attribute can be read
    obedient,       \* the EC does what is written
    limited,        \* the limit is engaged
    DESIRED_LIMIT,  \* the last limit asked for; 0: none
    step,           \* program point of every thread
    want,           \* the limit a thread is about
    tries,          \* readings a thread has left
    asked,          \* history: the last limit a client asked for, or adopted
    overtaken       \* history: asked for while a repair was under way

ecVars == <<interface, readable, obedient>>
locals == <<step, want, tries>>
vars   == <<ecVars, limited, DESIRED_LIMIT, locals, asked, overtaken>>

Threads == Clients \cup Repairers
Limits  == {60, 80, 100}

discretize_limit(pct) == IF pct < 70 THEN 60 ELSE IF pct < 90 THEN 80 ELSE 100

preserve(pct) == pct < 100

\* What the hardware reports: its one bit means 80 % or 60 %.
charge_limit_pct ==
    IF ~readable \/ ~limited THEN 100
    ELSE IF interface = "charge_types" THEN 80 ELSE 60

TypeOK ==
    /\ interface \in {"charge_types", "conservation_mode"}
    /\ readable \in BOOLEAN /\ obedient \in BOOLEAN
    /\ limited \in BOOLEAN /\ overtaken \in BOOLEAN
    /\ DESIRED_LIMIT \in Limits \cup {0} /\ asked \in Limits \cup {0}
    /\ step \in [Threads -> {"idle", "check", "store", "write", "verify"}]
    /\ want \in [Threads -> Limits \cup {0}]
    /\ tries \in [Threads -> 0 .. Tries]
    /\ \A t \in Threads : (tries[t] > 0) = (step[t] = "verify")
    /\ \A t \in Threads : (want[t] = 0) = (step[t] = "idle")

\* The daemon adopts a limit that is engaged when it starts.
seed_desired_from_effective ==
    IF charge_limit_pct < 100 THEN charge_limit_pct ELSE 0

AtRest ==
    /\ step  = [t \in Threads |-> "idle"]
    /\ want  = [t \in Threads |-> 0]
    /\ tries = [t \in Threads |-> 0]

Init ==
    /\ interface \in {"charge_types", "conservation_mode"}
    /\ readable = TRUE /\ obedient = TRUE
    /\ limited \in BOOLEAN
    /\ DESIRED_LIMIT = seed_desired_from_effective
    /\ AtRest
    /\ asked = DESIRED_LIMIT /\ overtaken = FALSE
-----------------------------------------------------------------------------
Goto(t, point) == step' = [step EXCEPT ![t] = point]

Ends(t) ==
    /\ Goto(t, "idle")
    /\ want'  = [want EXCEPT ![t] = 0]
    /\ tries' = [tries EXCEPT ![t] = 0]

\* SetChargeLimit, and SetConservation (60 or 100).
SetChargeLimit(c) ==
    /\ step[c] = "idle"
    /\ \E pct \in Requests : want' = [want EXCEPT ![c] = discretize_limit(pct)]
    /\ Goto(c, "store")
    /\ UNCHANGED <<ecVars, limited, DESIRED_LIMIT, tries, asked, overtaken>>

\* A repair between its reading of DESIRED_LIMIT and its own store.
Repairing == \E r \in Repairers : step[r] \in {"check", "store"}

Store(t) ==
    /\ step[t] = "store"
    /\ DESIRED_LIMIT' = want[t]
    /\ asked' = IF t \in Clients THEN want[t] ELSE asked
    /\ overtaken' = IF t \in Clients THEN Repairing ELSE overtaken
    /\ Goto(t, "write")
    /\ UNCHANGED <<ecVars, limited, want, tries>>

\* charge_types is written only if it can be read, or else there is nothing to
\* write; conservation_mode always.
Writable == interface = "charge_types" => readable

\* The write succeeds, and the EC does as told or ignores it.
Write(t) ==
    /\ step[t] = "write" /\ Writable
    /\ limited' = IF obedient THEN preserve(want[t]) ELSE limited
    /\ tries' = [tries EXCEPT ![t] =
                   IF interface = "charge_types" THEN Tries ELSE 1]
    /\ Goto(t, "verify")
    /\ UNCHANGED <<ecVars, DESIRED_LIMIT, want, asked, overtaken>>

\* Nothing to write, or an error, which only an EC that does not obey returns.
WriteFails(t) ==
    /\ step[t] = "write" /\ ~(Writable /\ obedient)
    /\ Ends(t)
    /\ UNCHANGED <<ecVars, limited, DESIRED_LIMIT, asked, overtaken>>

Engaged(t) == limited = preserve(want[t])

\* charge_types is read up to Tries times, conservation_mode once, and not
\* being able to read that one is no failure.
Verify(t) ==
    /\ step[t] = "verify"
    /\ IF \/ readable /\ Engaged(t)
          \/ tries[t] = 1
       THEN Ends(t)
       ELSE tries' = [tries EXCEPT ![t] = @ - 1] /\ UNCHANGED <<step, want>>
    /\ UNCHANGED <<ecVars, limited, DESIRED_LIMIT, asked, overtaken>>
-----------------------------------------------------------------------------
(***************************************************************************)
(* reassert_configured_limit.                                              *)
(***************************************************************************)
Wake(r) ==
    /\ step[r] = "idle"
    /\ DESIRED_LIMIT # 0
    /\ want' = [want EXCEPT ![r] = DESIRED_LIMIT]
    /\ Goto(r, "check")
    /\ UNCHANGED <<ecVars, limited, DESIRED_LIMIT, tries, asked, overtaken>>

\* Mutant: only a limit below 100 % is put back.
Check_LimitsOnly(r) ==
    /\ step[r] = "check"
    /\ IF ~readable \/ Engaged(r) \/ ~preserve(want[r])
       THEN Ends(r)
       ELSE Goto(r, "store") /\ UNCHANGED <<want, tries>>
    /\ UNCHANGED <<ecVars, limited, DESIRED_LIMIT, asked, overtaken>>

\* Nothing readable, or still engaged: nothing to do.
Check(r) ==
    /\ step[r] = "check"
    /\ IF ~readable \/ Engaged(r)
       THEN Ends(r)
       ELSE Goto(r, "store") /\ UNCHANGED <<want, tries>>
    /\ UNCHANGED <<ecVars, limited, DESIRED_LIMIT, asked, overtaken>>
-----------------------------------------------------------------------------
(***************************************************************************)
(* The EC, and the end of the process.                                     *)
(***************************************************************************)
EcDropsLimit ==
    /\ limited /\ limited' = FALSE
    /\ UNCHANGED <<ecVars, DESIRED_LIMIT, locals, asked, overtaken>>

EcChanges ==
    /\ \/ readable' = ~readable /\ UNCHANGED obedient
       \/ obedient' = ~obedient /\ UNCHANGED readable
    /\ UNCHANGED <<interface, limited, DESIRED_LIMIT, locals, asked, overtaken>>

\* Nothing about the limit is stored but what the EC keeps.
Restart ==
    /\ DESIRED_LIMIT' = seed_desired_from_effective
    /\ step'  = [t \in Threads |-> "idle"]
    /\ want'  = [t \in Threads |-> 0]
    /\ tries' = [t \in Threads |-> 0]
    /\ asked' = DESIRED_LIMIT' /\ overtaken' = FALSE
    /\ UNCHANGED <<ecVars, limited>>

SetLimit(t)  == Store(t) \/ Write(t) \/ WriteFails(t) \/ Verify(t)
Repair(r)    == Wake(r) \/ Check(r) \/ SetLimit(r)

Next ==
    \/ \E c \in Clients : SetChargeLimit(c) \/ SetLimit(c)
    \/ \E r \in Repairers : Repair(r)
    \/ EcDropsLimit \/ EcChanges \/ Restart

Spec == Init /\ [][Next]_vars

FairSpec ==
    /\ Spec
    /\ \A c \in Clients : WF_vars(SetLimit(c))
    /\ \A r \in Repairers : WF_vars(Repair(r))
-----------------------------------------------------------------------------
\* "Re-apply the last explicitly requested limit if firmware silently cleared
\* it": once nobody sets limits, nothing restarts and the EC can be read, obeys
\* and keeps the limit, the limit in force is for good the one asked for last,
\* whatever order requests, refusals, repairs and drops came in; unless it was
\* asked for while a repair was about to store the older one again.
AskedLimitReturns ==
    /\ <>[](readable /\ obedient)
    /\ <>[](\A c \in Clients : step[c] = "idle")
    /\ <>[][~EcDropsLimit /\ ~Restart]_vars
    => <>[](asked # 0 /\ ~overtaken => limited = preserve(asked))
=============================================================================
