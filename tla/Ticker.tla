------------------------------- MODULE Ticker -------------------------------
(***************************************************************************)
(* The pausable pollers of the desktop application (settings/activity.rs): *)
(* timers that follow whether the window is looked at, and which page is   *)
(* shown. All of it runs on the main thread; a callback may itself change  *)
(* the page or the window.                                                 *)
(***************************************************************************)
EXTENDS Naturals, FiniteSets

CONSTANTS
    Tickers,    \* pollers
    Pages,      \* top-level pages
    NoPage      \* of a poller that belongs to none

VARIABLES
    activity,   \* "hidden", "background" or "active"
    page,       \* VISIBLE_PAGE
    state,      \* of a poller: "unborn", "live" or "done"
    base,       \* its own interval, in seconds
    owner,      \* its page
    source,     \* the interval its timer is armed with; 0: no timer
    idle,       \* one-shots that are to refresh a poller
    running,    \* the pollers whose callback is on the stack, as a set
    fresh       \* history: a poller has fired since it was last woken

vars == <<activity, page, state, base, owner, source, idle, running, fresh>>

Activities == {"hidden", "background", "active"}
BACKGROUND_INTERVAL == 5
Bases == {1, 10}

Slower(a, b) == IF a > b THEN a ELSE b

\* The interval a poller should run at; 0: it must rest.
wanted(t) ==
    IF activity = "hidden" \/ owner[t] \notin {NoPage, page} THEN 0
    ELSE IF activity = "background" THEN Slower(base[t], BACKGROUND_INTERVAL)
    ELSE base[t]

TypeOK ==
    /\ activity \in Activities /\ page \in Pages
    /\ state \in [Tickers -> {"unborn", "live", "done"}]
    /\ base \in [Tickers -> Bases] /\ owner \in [Tickers -> Pages \cup {NoPage}]
    /\ source \in [Tickers -> {0, 1, 5, 10}]
    /\ idle \subseteq Tickers /\ running \subseteq Tickers
    /\ Cardinality(running) <= 1
    /\ fresh \in [Tickers -> BOOLEAN]

Init ==
    /\ activity = "active" /\ page \in Pages
    /\ state = [t \in Tickers |-> "unborn"]
    /\ base \in [Tickers -> Bases] /\ owner \in [Tickers -> Pages \cup {NoPage}]
    /\ source = [t \in Tickers |-> 0]
    /\ idle = {} /\ running = {}
    /\ fresh = [t \in Tickers |-> TRUE]
-----------------------------------------------------------------------------
\* ticker_local: the first arming does not fire.
ticker_local(t) ==
    /\ state[t] = "unborn"
    /\ state' = [state EXCEPT ![t] = "live"]
    /\ source' = [source EXCEPT ![t] = wanted(t)]
    /\ UNCHANGED <<activity, page, base, owner, idle, running, fresh>>

\* What sync refreshes: a poller that wakes, or is to run faster.
woken(t) ==
    /\ state[t] = "live" /\ wanted(t)' # 0
    /\ source[t] = 0 \/ source[t] > wanted(t)'

\* sync, for every poller that is not done. Pollers that are done are dropped.
sync_all ==
    /\ source' = [t \in Tickers |->
                    IF state[t] = "live" THEN wanted(t)' ELSE source[t]]
    /\ idle' = idle \cup {t \in Tickers : woken(t)}
    /\ fresh' = [t \in Tickers |-> fresh[t] /\ ~woken(t)]

set_activity ==
    /\ activity' \in Activities \ {activity}
    /\ UNCHANGED <<page, state, base, owner, running>>
    /\ sync_all

set_visible_page ==
    /\ page' \in Pages \ {page}
    /\ UNCHANGED <<activity, state, base, owner, running>>
    /\ sync_all

\* The callback starts, from its timer or from a one-shot, which does nothing
\* when the poller has been put to rest since.
Fire(t) ==
    /\ running = {}
    /\ \/ source[t] # 0 /\ UNCHANGED idle
       \/ t \in idle /\ idle' = idle \ {t}
    /\ IF state[t] = "live" /\ source[t] # 0
       THEN running' = {t} /\ fresh' = [fresh EXCEPT ![t] = TRUE]
       ELSE UNCHANGED <<running, fresh>>
    /\ UNCHANGED <<activity, page, state, base, owner, source>>

Continues(t) ==
    /\ t \in running
    /\ running' = {}
    /\ UNCHANGED <<activity, page, state, base, owner, source, idle, fresh>>

\* Mutant: the timer that is running is left to end itself.
Breaks_LeavesTimer(t) ==
    /\ t \in running
    /\ running' = {}
    /\ state' = [state EXCEPT ![t] = "done"]
    /\ UNCHANGED <<activity, page, base, owner, source, idle, fresh>>

\* It retires for good: the timer is taken away, also one armed meanwhile.
Breaks(t) ==
    /\ t \in running
    /\ running' = {}
    /\ state' = [state EXCEPT ![t] = "done"]
    /\ source' = [source EXCEPT ![t] = 0]
    /\ UNCHANGED <<activity, page, base, owner, idle, fresh>>

Next ==
    \/ set_activity \/ set_visible_page
    \/ \E t \in Tickers :
         ticker_local(t) \/ Fire(t) \/ Continues(t) \/ Breaks(t)

Spec == Init /\ [][Next]_vars
-----------------------------------------------------------------------------
\* "window hidden ...: no timer exists at all; visible but not focused: at most
\* one tick every 5 s; focused: the poller's own interval; a poller built while
\* a page was being constructed only runs while that page is the visible one":
\* whatever order windows, pages, pollers and their ends come in;
\* "when a poller wakes up again it fires once straight away so the page never
\* shows stale values".
TimersFollow ==
    \A t \in Tickers :
        /\ source[t] = IF state[t] = "live" THEN wanted(t) ELSE 0
        /\ source[t] # 0 /\ ~fresh[t] => t \in idle
=============================================================================
