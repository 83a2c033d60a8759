------------------------------- MODULE Parts -------------------------------
(***************************************************************************)
(* Components that do not interact and are looked at for safety alone,     *)
(* composed for one check and one set of proofs: in a behaviour the        *)
(* component named by part runs, and the others rest.                      *)
(***************************************************************************)
EXTENDS ConfigStore

CONSTANTS
    DOWN_CONFIRMATIONS, DOWN_MARGIN_C, Temps,
    Keys, NoValue, Workers, Changes,
    Tickers, Pages, NoPage,
    Updaters, Window, Newest, MaxOrphans,
    Roots, Hw, Ids, NoId

VARIABLES
    part,       \* the component of this behaviour
    hyst, since, last,
    queue_pending, armed, batch, sent, late, applied, asked, doubtful,
    changes,
    activity, page, state, base, owner, source, idle, running, fresh,
    kind, latest, app, file, update_at, runs, info, fd, orphans, staged,
    marker, shared, forgotten,
    derivable, shared_id, parked, settings_id, report_at, mine, res,
    previous, minted, reported, linked, cut

Feed    == INSTANCE HysteresisFeed
Queue   == INSTANCE ApplyQueue WITH pending <- queue_pending
Pollers == INSTANCE Ticker
Install == INSTANCE Updater WITH at <- update_at
Reports == INSTANCE MachineId WITH
    shared <- shared_id, settings <- settings_id, at <- report_at
-----------------------------------------------------------------------------
\* Readings are whole degrees above zero, and a slow-down takes some of them,
\* some degrees below (fan_curve.rs, DOWN_CONFIRMATIONS and DOWN_MARGIN_C).
ASSUME FeedAssumption ==
    /\ Temps \subseteq Nat \ {0}
    /\ DOWN_CONFIRMATIONS \in Nat \ {0} /\ DOWN_MARGIN_C \in Nat \ {0}

\* The default is one of the values a slider has (settings/queue.rs).
ASSUME QueueAssumption ==
    Initial \in Values /\ NoValue \notin Values /\ Changes \in Nat

\* A poller of no page is not one of a page's (settings/activity.rs).
ASSUME PollersAssumption == NoPage \notin Pages

\* There is a first release (update.rs).
ASSUME UpdateAssumption == Newest \in Nat \ {0}

\* A derived id is none that was minted, and no id is none (telemetry_id.rs).
ASSUME ReportsAssumption == Ids # {} /\ Hw \notin Ids /\ NoId \notin Ids \cup {Hw}
-----------------------------------------------------------------------------
Parts == {"hysteresis", "settings", "queue", "pollers", "update", "reports"}
FeedVars == <<hyst, since, last>>
QueueVars == <<queue_pending, armed, batch, sent, late, applied, asked,
                 doubtful, changes>>
PollersVars == <<activity, page, state, base, owner, source, idle, running,
                   fresh>>
InstallVars == <<kind, latest, app, file, update_at, runs, info, fd, orphans,
                   staged, marker, shared, forgotten>>
ReportsVars == <<derivable, shared_id, parked, settings_id, report_at, mine,
                   res, previous, minted, reported, linked, cut>>
allVars == <<part, FeedVars, vars, QueueVars, PollersVars, InstallVars,
            ReportsVars>>

\* A component that does not run is at one state it can start in.
InitParts ==
    /\ part \in Parts
    /\ Feed!Init /\ Init /\ Queue!Init /\ Pollers!Init /\ Install!Init /\
       Reports!Init
    /\ part # "settings" =>
          /\ disk = Absent
          /\ LET p == CHOOSE p \in Processes : TRUE
             IN  \A t \in Threads : process[t] = p
    /\ part # "pollers" =>
          page = "fans" /\ \A t \in Tickers : base[t] = 1 /\ owner[t] = NoPage
    /\ part # "update" => kind = "Package" /\ app.release = 1
    /\ part # "reports" =>
          derivable /\ settings_id = NoId /\ shared_id = Reports!NotShared

FeedSteps ==
    /\ part = "hysteresis" /\ Feed!Next
    /\ UNCHANGED <<part, vars, QueueVars, PollersVars, InstallVars,
                   ReportsVars>>

MainSteps ==
    /\ part = "settings" /\ Next
    /\ UNCHANGED <<part, FeedVars, QueueVars, PollersVars, InstallVars,
                   ReportsVars>>

QueueSteps ==
    /\ part = "queue" /\ Queue!Next
    /\ UNCHANGED <<part, FeedVars, vars, PollersVars, InstallVars,
                   ReportsVars>>

PollersSteps ==
    /\ part = "pollers" /\ Pollers!Next
    /\ UNCHANGED <<part, FeedVars, vars, QueueVars, InstallVars, ReportsVars>>

InstallSteps ==
    /\ part = "update" /\ Install!Next
    /\ UNCHANGED <<part, FeedVars, vars, QueueVars, PollersVars, ReportsVars>>

ReportsSteps ==
    /\ part = "reports" /\ Reports!Next
    /\ UNCHANGED <<part, FeedVars, vars, QueueVars, PollersVars, InstallVars>>

NextParts ==
    FeedSteps \/ MainSteps \/ QueueSteps \/ PollersSteps \/ InstallSteps \/
    ReportsSteps

SpecParts == InitParts /\ [][NextParts]_allVars
-----------------------------------------------------------------------------
\* Every variable of every component keeps its type (TypeOK of each module).
TypesOK ==
    /\ TypeOK
    /\ part = "queue"    => Queue!TypeOK
    /\ part = "pollers"  => Pollers!TypeOK
    /\ part = "update"   => Install!TypeOK
    /\ part = "reports"  => Reports!TypeOK

\* Heat is followed at once, a slow-down has a whole window below it and goes to
\* its hottest reading, and a window once seen is not sat out
\* (Hysteresis::update).
SlowdownConfirmed == [][part = "hysteresis" => Feed!Confirmed]_allVars

\* The daemon has the value set last (settings/queue.rs).
LatestApplied == part = "queue" => Queue!LatestApplied

\* Timers follow the window and the page (settings/activity.rs).
TimersFollow == part = "pollers" => Pollers!TimersFollow

\* What is installed is all there, but for an AppImage whose download was opened
\* beside another process or curl at it (update.rs).
WholeApp == part = "update" => Install!WholeApp

\* A staged daemon of another release is to be refreshed, but for the ways its
\* marker can be lost (update.rs, mark_pending_restage).
RestageToCome == part = "update" => Install!RestageToCome

\* An id the collector knows stays tied to the machine (diagnostics.rs,
\* ensure_machine_id and collect_and_send).
LinkKept == part = "reports" => Reports!LinkKept
=============================================================================
