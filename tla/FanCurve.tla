------------------------------ MODULE FanCurve ------------------------------
(***************************************************************************)
(* The software fan-curve engine of the daemon (fan_curve.rs) with the     *)
(* threads that race it: the engine thread (run + Engine::tick), the       *)
(* client handlers of daemon/main.rs (SetFanCurve, SetProfile,             *)
(* SetFanTarget), the resume worker, the shutdown path of main, and the    *)
(* firmware that may drop, park or keep what is written.                   *)
(*                                                                         *)
(* One fan speed step stands for a percent of the fan's own window, so a   *)
(* "target" is 0 (auto: the firmware decides) or a level in 1..MaxLevel.   *)
(***************************************************************************)
EXTENDS FanHysteresis

CONSTANTS
    Fans,              \* controllable fan channels (fixed once detected)
    Profiles,          \* platform profiles
    Clients,           \* client-handler and worker threads of the daemon
    Temps,             \* combined CPU/dGPU readings, in degrees
    SAFETY_TEMP_C,     \* at or above it every fan runs at its maximum
    MaxLevel,          \* the level of a fan at 100 %
    Curves,            \* valid curves, as the level they give at each reading
    NoCurve,           \* no enabled, valid curve is stored for a profile
    NoProfile,         \* last_prof before the first iteration
    NOT_ACCEPTED_TICKS,\* mismatching ticks in a row before giving up
    PowerSources,      \* the answers profile::auto::on_ac() can give
    ManualLevels,      \* the targets clients ask for with SetFanTarget
    AutoMayFail        \* whether a write of target 0 can fail or be ignored

ASSUME FanCurveAssumption ==
    /\ Fans # {}            \* with no fan the engine only ever releases
    /\ Temps \subseteq Nat \ {0}
    /\ SAFETY_TEMP_C \in Nat
    /\ MaxLevel \in Nat \ {0}
    /\ Curves \subseteq [Temps -> 1..MaxLevel]
    /\ NoCurve \notin Curves
    /\ NoProfile \notin Profiles
    /\ NOT_ACCEPTED_TICKS \in Nat \ {0}
    /\ PowerSources \subseteq {"ac", "battery", "unknown"}
    /\ ManualLevels \subseteq 0..MaxLevel
    /\ AutoMayFail \in BOOLEAN

VARIABLES
    \* hardware and firmware
    fan,        \* per channel: the target in force and who put it there
    accepts,    \* the firmware keeps the targets written to it
    sensors,    \* whether the temperature sensors can be read
    onAc,       \* profile::auto::on_ac(): charger, battery, or unknown
    profile,    \* the current platform profile
    \* shared daemon state
    curves,     \* config.fan_curves, per profile
    REARM, POKE,\* the two atomics behind poke()
    live,       \* LIVE: the published status
    shutdown,   \* the daemon's shutdown flag
    \* struct Engine
    hyst, owned, lastRpm, mismatchTicks, rejected,
    \* the engine thread: program point and the locals of run()
    pc, seen, last,
    \* client threads: program point and the target being written
    client,
    \* history, read by the properties only
    stuck,      \* fans the last set_auto left on a fixed target
    hotBad      \* hot ticks in a row that ended with a fan below maximum

hwVars     == <<fan, accepts, sensors, onAc, profile>>
sharedVars == <<curves, REARM, POKE, live, shutdown>>
engineVars == <<hyst, owned, lastRpm, mismatchTicks, rejected>>
loopVars   == <<pc, seen, last>>
vars == <<hwVars, sharedVars, engineVars, loopVars, client, stuck, hotBad>>
-----------------------------------------------------------------------------
Levels == 0..MaxLevel
AUTO   == 0

Target(by, level) == [by |-> by, level |-> level]
FirmwareAuto == Target("firmware", AUTO)

Faults == {"none", "on_battery", "not_accepted", "fault"}

LiveStatus(active, safety, fault) ==
    [active |-> active, safety |-> safety, fault |-> fault]
IdleStatus     == LiveStatus(FALSE, FALSE, "none")   \* LiveStatus::default
FaultStatus(f) == LiveStatus(FALSE, FALSE, f)

NothingWritten == [f \in Fans |-> AUTO]      \* last_rpm.clear()
NoInputs == [curve |-> NoCurve, prof |-> NoProfile, ac |-> "unknown",
             safety |-> FALSE]
Idle == [at |-> "idle"]

ClientStates ==
    {Idle, [at |-> "rearm"], [at |-> "wake"]}
        \cup [at : {"write"}, fan : Fans, level : ManualLevels]

FanType == [Fans -> [by : {"firmware", "engine", "manual"}, level : Levels]]

HardwareType ==
    /\ fan \in FanType
    /\ accepts \in BOOLEAN
    /\ sensors \in {"ok", "failed"}
    /\ onAc \in PowerSources
    /\ profile \in Profiles

SharedType ==
    /\ curves \in [Profiles -> Curves \cup {NoCurve}]
    /\ REARM \in BOOLEAN /\ POKE \in BOOLEAN /\ shutdown \in BOOLEAN
    /\ live \in [active : BOOLEAN, safety : BOOLEAN, fault : Faults]

EngineType ==
    /\ hyst \in HystType(Temps)
    /\ owned \in BOOLEAN
    /\ lastRpm \in [Fans -> Levels]
    /\ mismatchTicks \in 0..(NOT_ACCEPTED_TICKS - 1)
    /\ rejected \in BOOLEAN

LoopType ==
    /\ pc \in {"read", "curve", "charger", "rearm", "tick", "readback", "sleep",
               "joined", "restored", "exited"}
    /\ seen \in [curve : Curves \cup {NoCurve}, prof : Profiles \cup {NoProfile},
                 ac : PowerSources \cup {"unknown"}, safety : BOOLEAN]
    /\ pc = "curve" => seen.prof \in Profiles
    /\ last \in [prof : Profiles \cup {NoProfile},
                 ac : PowerSources \cup {"unknown"}]

\* Every variable keeps its type; in particular the count of mismatching ticks
\* never reaches NOT_ACCEPTED_TICKS without the engine giving up.
TypeOK ==
    /\ HardwareType
    /\ SharedType
    /\ EngineType
    /\ LoopType
    /\ client \in [Clients -> ClientStates]
    /\ stuck \subseteq Fans
    /\ hotBad \in Nat

Init ==
    /\ fan = [f \in Fans |-> FirmwareAuto]
    /\ accepts = TRUE
    /\ sensors = "ok"
    /\ onAc \in PowerSources
    /\ profile \in Profiles
    /\ curves \in [Profiles -> Curves \cup {NoCurve}]
    /\ REARM = FALSE /\ POKE = FALSE /\ shutdown = FALSE
    /\ live = IdleStatus
    /\ hyst = HystReset
    /\ owned = FALSE
    /\ lastRpm = NothingWritten
    /\ mismatchTicks = 0
    /\ rejected = FALSE
    /\ pc = "read"
    /\ seen = NoInputs
    /\ last = [prof |-> NoProfile, ac |-> "unknown"]
    /\ client = [c \in Clients |-> Idle]
    /\ stuck = {}
    /\ hotBad = 0
-----------------------------------------------------------------------------
(***************************************************************************)
(* Hardware access (fans.rs).                                              *)
(***************************************************************************)

\* fans::set_auto over the targets fs: every channel not already on auto is
\* written 0; the channels in F keep what they had.
AfterAuto(fs, F) == [f \in Fans |-> IF f \in F THEN fs[f] ELSE FirmwareAuto]

\* The channels a set_auto can leave behind: a failed or an ignored write.
AutoFailures(fs) ==
    IF AutoMayFail THEN SUBSET {f \in Fans : fs[f].level # AUTO} ELSE {{}}

\* A target write that succeeds: the firmware keeps it, or ignores it.
AfterWrites(fs, F, by, levels) ==
    [f \in Fans |-> IF f \in F /\ accepts THEN Target(by, levels[f]) ELSE fs[f]]

\* Engine::release, the fans being fs when it is called: set_auto only when
\* the engine owns the fans, an error is logged and forgotten.
Release(fs, ownsNow) ==
    /\ IF ownsNow
       THEN \E F \in AutoFailures(fs) :
              /\ fan' = AfterAuto(fs, F)
              /\ stuck' = F
       ELSE /\ fan' = fs
            /\ UNCHANGED stuck
    /\ owned' = FALSE
    /\ lastRpm' = NothingWritten
    /\ mismatchTicks' = 0
    /\ hyst' = HystReset
    /\ hotBad' = 0
-----------------------------------------------------------------------------
(***************************************************************************)
(* The engine thread: one iteration of run().                              *)
(***************************************************************************)

\* Three reads, one after another, of what anyone may change in between.
ReadProfile ==
    /\ pc = "read"
    /\ ~shutdown
    /\ seen' = [seen EXCEPT !.prof = profile]
    /\ pc' = "curve"
    /\ UNCHANGED <<hwVars, sharedVars, engineVars, last, client, stuck, hotBad>>

\* active_curve_for: the curve of the profile that was read.
ReadCurve ==
    /\ pc = "curve"
    /\ seen' = [seen EXCEPT !.curve = curves[seen.prof]]
    /\ pc' = "charger"
    /\ UNCHANGED <<hwVars, sharedVars, engineVars, last, client, stuck, hotBad>>

ReadCharger ==
    /\ pc = "charger"
    /\ seen' = [seen EXCEPT !.ac = onAc]
    /\ pc' = "rearm"
    /\ UNCHANGED <<hwVars, sharedVars, engineVars, last, client, stuck, hotBad>>

ReadInputs == ReadProfile \/ ReadCurve \/ ReadCharger

\* Mutant: the wake-up flag is cleared after the inputs were read.
Rearm_SwallowsPoke ==
    /\ pc = "rearm"
    /\ REARM' = FALSE
    /\ POKE' = FALSE
    /\ rejected' = FALSE
    /\ mismatchTicks' = 0
    /\ lastRpm' = NothingWritten
    /\ last' = [prof |-> seen.prof, ac |-> seen.ac]
    /\ hotBad' = 0
    /\ pc' = "tick"
    /\ UNCHANGED <<hwVars, curves, live, shutdown, hyst, owned, seen, client,
                   stuck>>

\* REARM.swap(false) || prof != last_prof || on_ac != last_ac: Engine::rearm.
Rearm ==
    /\ pc = "rearm"
    /\ REARM' = FALSE
    /\ IF REARM \/ seen.prof # last.prof \/ seen.ac # last.ac
       THEN /\ rejected' = FALSE
            /\ mismatchTicks' = 0
            /\ lastRpm' = NothingWritten
            /\ last' = [prof |-> seen.prof, ac |-> seen.ac]
            /\ hotBad' = 0
       ELSE UNCHANGED <<rejected, mismatchTicks, lastRpm, last, hotBad>>
    /\ pc' = "tick"
    /\ UNCHANGED <<hwVars, curves, POKE, live, shutdown, hyst, owned,
                   seen, client, stuck>>

\* What the returns of Engine::tick share: run() publishes the status in
\* LIVE and the thread sleeps, its inputs still in scope.
TickEnds(status) ==
    /\ live' = status
    /\ seen' = [seen EXCEPT !.safety = FALSE]
    /\ pc' = "sleep"
    /\ UNCHANGED <<accepts, sensors, onAc, profile, curves, REARM, POKE,
                   shutdown, last, client>>

\* Mutant: the charger is not looked at.
PauseOnBattery_Not == FALSE

\* Mutant: only a charger known to be plugged in keeps the curve running.
PauseOnBattery_Unknown == seen.ac # "ac"

PauseOnBattery == seen.ac = "battery"

TickNoCurve ==
    /\ pc = "tick"
    /\ seen.curve = NoCurve
    /\ Release(fan, owned)
    /\ rejected' = FALSE
    /\ TickEnds(IdleStatus)

\* Mutant: on battery the status is published but nothing is handed back.
TickOnBattery_NoRelease ==
    /\ pc = "tick"
    /\ seen.curve # NoCurve
    /\ PauseOnBattery
    /\ TickEnds(FaultStatus("on_battery"))
    /\ UNCHANGED <<fan, hyst, owned, lastRpm, mismatchTicks, rejected, stuck,
                   hotBad>>

TickOnBattery ==
    /\ pc = "tick"
    /\ seen.curve # NoCurve
    /\ PauseOnBattery
    /\ Release(fan, owned)
    /\ TickEnds(FaultStatus("on_battery"))
    /\ UNCHANGED rejected

TickRejected ==
    /\ pc = "tick"
    /\ seen.curve # NoCurve
    /\ ~PauseOnBattery
    /\ rejected
    /\ TickEnds(FaultStatus("not_accepted"))
    /\ UNCHANGED <<fan, hyst, owned, lastRpm, mismatchTicks, rejected, stuck,
                   hotBad>>

Running ==
    /\ pc = "tick"
    /\ seen.curve # NoCurve
    /\ ~PauseOnBattery
    /\ ~rejected

TickSensorFailure ==
    /\ Running
    /\ sensors = "failed"
    /\ Release(fan, owned)
    /\ TickEnds(FaultStatus("fault"))
    /\ UNCHANGED rejected

\* decide(): the safety override looks at the reading itself, the curve at
\* the value after hysteresis.
Safety(t) == t >= SAFETY_TEMP_C
DecideLevel(t) ==
    IF Safety(t) THEN MaxLevel ELSE seen.curve[HystUpdate(hyst, t).held]

\* Fans whose last written value differs from the one decided.
Changed(level) == {f \in Fans : lastRpm[f] # level}

\* The write loop of Engine::tick, every write succeeding.
TickWrite ==
    /\ Running
    /\ sensors = "ok"
    /\ \E t \in Temps :
         LET level == DecideLevel(t)
             W == Changed(level)
         IN  /\ hyst' = HystUpdate(hyst, t)
             /\ fan' = AfterWrites(fan, W, "engine", [f \in Fans |-> level])
             /\ stuck' = IF accepts THEN stuck \ W ELSE stuck
             /\ lastRpm' = [f \in Fans |-> level]
             /\ owned' = (owned \/ W # {})
             /\ seen' = [seen EXCEPT !.safety = Safety(t)]
    /\ pc' = "readback"
    /\ UNCHANGED <<accepts, sensors, onAc, profile, sharedVars, mismatchTicks,
                   rejected, last, client, hotBad>>

\* Mutant: ownership is recorded after the write loop, so a failing write
\* releases only what an earlier tick owned.
TickWriteFailure_OwnsLate ==
    /\ Running
    /\ sensors = "ok"
    /\ \E t \in Temps :
         LET level == DecideLevel(t)
         IN  \E failing \in Changed(level) :
               \E done \in SUBSET (Changed(level) \ {failing}) :
                 Release(AfterWrites(fan, done, "engine",
                                     [f \in Fans |-> level]), owned)
    /\ TickEnds(FaultStatus("fault"))
    /\ UNCHANGED rejected

\* One write fails, after those to the fans in done: everything is released.
TickWriteFailure ==
    /\ Running
    /\ sensors = "ok"
    /\ \E t \in Temps :
         LET level == DecideLevel(t)
         IN  \E failing \in Changed(level) :
               \E done \in SUBSET (Changed(level) \ {failing}) :
                 Release(AfterWrites(fan, done, "engine",
                                     [f \in Fans |-> level]), TRUE)
    /\ TickEnds(FaultStatus("fault"))
    /\ UNCHANGED rejected

\* Mutant: only a target parked at 0 counts as dropped.
Mismatches_ParkedOnly == {f \in Fans : lastRpm[f] # AUTO /\ fan[f].level = AUTO}

Mismatches == {f \in Fans : lastRpm[f] # AUTO /\ fan[f].level # lastRpm[f]}

\* A tick that ends hot with some fan neither at maximum nor with the
\* firmware (history).
HotAndSlow ==
    /\ seen.safety
    /\ \E f \in Fans : fan[f].level \notin {AUTO, MaxLevel}

HotBadNext == IF HotAndSlow THEN hotBad + 1 ELSE 0

\* Every target reads back, or few enough ticks in a row did not: the engine
\* keeps the fans and rewrites the mismatched ones on the next tick.
ReadBackKeeps ==
    /\ pc = "readback"
    /\ Mismatches # {} => mismatchTicks + 1 < NOT_ACCEPTED_TICKS
    /\ mismatchTicks' = IF Mismatches = {} THEN 0 ELSE mismatchTicks + 1
    /\ lastRpm' = [f \in Fans |-> IF f \in Mismatches THEN AUTO ELSE lastRpm[f]]
    /\ owned' = TRUE
    /\ hotBad' = HotBadNext
    /\ TickEnds(LiveStatus(TRUE, seen.safety, "none"))
    /\ UNCHANGED <<fan, hyst, rejected, stuck>>

\* Mutant: the rejection is recorded but the fans stay with the engine.
ReadBackRejects_NoRelease ==
    /\ pc = "readback"
    /\ Mismatches # {}
    /\ mismatchTicks + 1 >= NOT_ACCEPTED_TICKS
    /\ mismatchTicks' = 0
    /\ rejected' = TRUE
    /\ TickEnds(FaultStatus("not_accepted"))
    /\ UNCHANGED <<fan, hyst, owned, lastRpm, stuck, hotBad>>

\* NOT_ACCEPTED_TICKS in a row: the fans go back and the engine waits.
ReadBackRejects ==
    /\ pc = "readback"
    /\ Mismatches # {}
    /\ mismatchTicks + 1 >= NOT_ACCEPTED_TICKS
    /\ Release(fan, owned)
    /\ rejected' = TRUE
    /\ TickEnds(FaultStatus("not_accepted"))

\* The interruptible sleep: ended by POKE.swap(false), by TICK or shutdown. The
\* inputs go out of scope.
WakeOnPoke ==
    /\ pc = "sleep"
    /\ POKE
    /\ POKE' = FALSE
    /\ pc' = "read" /\ seen' = NoInputs
    /\ UNCHANGED <<hwVars, curves, REARM, live, shutdown, engineVars, last,
                   client, stuck, hotBad>>

WakeOnTimeout ==
    /\ pc = "sleep"
    /\ pc' = "read" /\ seen' = NoInputs
    /\ UNCHANGED <<hwVars, sharedVars, engineVars, last, client, stuck, hotBad>>

\* The tail of run(): hand the fans back if they are ours, clear LIVE.
EngineStops ==
    /\ pc = "read"
    /\ shutdown
    /\ IF owned
       THEN \E F \in AutoFailures(fan) : fan' = AfterAuto(fan, F) /\ stuck' = F
       ELSE UNCHANGED <<fan, stuck>>
    /\ live' = IdleStatus
    /\ pc' = "joined"
    /\ UNCHANGED <<accepts, sensors, onAc, profile, curves, REARM, POKE,
                   shutdown, engineVars, seen, last, client, hotBad>>

\* main after the join: restore_hardware_on_shutdown writes set_auto once more.
MainRestores ==
    /\ pc = "joined"
    /\ \E F \in AutoFailures(fan) : fan' = AfterAuto(fan, F) /\ stuck' = F
    /\ pc' = "restored"
    /\ UNCHANGED <<accepts, sensors, onAc, profile, sharedVars, engineVars,
                   seen, last, client, hotBad>>

\* The process ends, whatever the client threads are doing: they are not
\* joined, so one may still write after the restore.
ProcessExits ==
    /\ pc = "restored"
    /\ pc' = "exited"
    /\ client' = [c \in Clients |-> Idle]
    /\ UNCHANGED <<hwVars, sharedVars, engineVars, seen, last, stuck, hotBad>>
-----------------------------------------------------------------------------
(***************************************************************************)
(* Client handlers and workers.                                            *)
(***************************************************************************)
Alive == pc # "exited"

\* SetFanCurve: store() updates the config, then pokes.
StoreCurve(c) ==
    /\ Alive
    /\ client[c] = Idle
    /\ \E p \in Profiles, v \in Curves \cup {NoCurve} :
         curves' = [curves EXCEPT ![p] = v]
    /\ client' = [client EXCEPT ![c] = [at |-> "rearm"]]
    /\ UNCHANGED <<hwVars, REARM, POKE, live, shutdown, engineVars, loopVars,
                   stuck, hotBad>>

\* SetProfile (and the auto-mode worker): profile::set, then poke.
SetProfile(c) ==
    /\ Alive
    /\ client[c] = Idle
    /\ profile' \in Profiles
    /\ client' = [client EXCEPT ![c] = [at |-> "rearm"]]
    /\ UNCHANGED <<fan, accepts, sensors, onAc, sharedVars, engineVars,
                   loopVars, stuck, hotBad>>

\* The resume worker: request_reapply is poke.
RequestReapply(c) ==
    /\ Alive
    /\ client[c] = Idle
    /\ client' = [client EXCEPT ![c] = [at |-> "rearm"]]
    /\ UNCHANGED <<hwVars, sharedVars, engineVars, loopVars, stuck, hotBad>>

\* poke(): REARM first, then POKE.
PokeRearm(c) ==
    /\ client[c].at = "rearm"
    /\ REARM' = TRUE
    /\ client' = [client EXCEPT ![c] = [at |-> "wake"]]
    /\ UNCHANGED <<hwVars, curves, POKE, live, shutdown, engineVars, loopVars,
                   stuck, hotBad>>

PokeWake(c) ==
    /\ client[c].at = "wake"
    /\ POKE' = TRUE
    /\ client' = [client EXCEPT ![c] = Idle]
    /\ UNCHANGED <<hwVars, curves, REARM, live, shutdown, engineVars, loopVars,
                   stuck, hotBad>>

\* SetFanTarget: refused while fan_curve::is_active(), else the write follows.
CheckFanTarget(c) ==
    /\ Alive
    /\ client[c] = Idle
    /\ ~live.active
    /\ \E f \in Fans, l \in ManualLevels :
         client' = [client EXCEPT ![c] = [at |-> "write", fan |-> f, level |-> l]]
    /\ UNCHANGED <<hwVars, sharedVars, engineVars, loopVars, stuck, hotBad>>

\* fans::set_target: the write is kept, ignored by the firmware, or fails.
WriteFanTarget(c) ==
    /\ client[c].at = "write"
    /\ LET f == client[c].fan
           l == client[c].level
       IN  \/ /\ accepts
              /\ fan' = [fan EXCEPT ![f] = IF l = AUTO THEN FirmwareAuto
                                           ELSE Target("manual", l)]
              /\ stuck' = stuck \ {f}
           \/ UNCHANGED <<fan, stuck>>
    /\ client' = [client EXCEPT ![c] = Idle]
    /\ UNCHANGED <<accepts, sensors, onAc, profile, sharedVars, engineVars,
                   loopVars, hotBad>>

\* SIGTERM.
Shutdown ==
    /\ ~shutdown
    /\ shutdown' = TRUE
    /\ UNCHANGED <<hwVars, curves, REARM, POKE, live, engineVars, loopVars,
                   client, stuck, hotBad>>
-----------------------------------------------------------------------------
(***************************************************************************)
(* The machine: firmware, charger, sensors, the mode key.                  *)
(***************************************************************************)
SoftwareUnchanged ==
    UNCHANGED <<sharedVars, engineVars, loopVars, client, hotBad>>

\* Writes begin or cease to be ignored (a mode change, battery).
FirmwareAccepts ==
    /\ accepts' = ~accepts
    /\ UNCHANGED <<fan, sensors, onAc, profile, stuck>> /\ SoftwareUnchanged

\* The firmware drops a target (mode change, suspend).
FirmwareParks(f) ==
    /\ fan[f].level # AUTO
    /\ fan' = [fan EXCEPT ![f] = FirmwareAuto]
    /\ stuck' = stuck \ {f}
    /\ UNCHANGED <<accepts, sensors, onAc, profile>> /\ SoftwareUnchanged

SensorsChange ==
    /\ sensors' = IF sensors = "ok" THEN "failed" ELSE "ok"
    /\ UNCHANGED <<fan, accepts, onAc, profile, stuck>> /\ SoftwareUnchanged

ChargerChange ==
    /\ onAc' \in PowerSources \ {onAc}
    /\ UNCHANGED <<fan, accepts, sensors, profile, stuck>> /\ SoftwareUnchanged

\* Fn+Q or another program: no poke.
ProfileKey ==
    /\ profile' \in Profiles \ {profile}
    /\ UNCHANGED <<fan, accepts, sensors, onAc, stuck>> /\ SoftwareUnchanged
-----------------------------------------------------------------------------
Tick ==
    \/ TickNoCurve \/ TickOnBattery \/ TickRejected
    \/ TickSensorFailure \/ TickWrite \/ TickWriteFailure

ReadBack == ReadBackKeeps \/ ReadBackRejects

Engine ==
    \/ ReadInputs \/ Rearm \/ Tick \/ ReadBack
    \/ WakeOnPoke \/ WakeOnTimeout \/ EngineStops

ClientFinishes(c) == PokeRearm(c) \/ PokeWake(c) \/ WriteFanTarget(c)

ClientStarts(c) ==
    StoreCurve(c) \/ SetProfile(c) \/ RequestReapply(c) \/ CheckFanTarget(c)

Machine ==
    \/ FirmwareAccepts \/ SensorsChange \/ ChargerChange \/ ProfileKey
    \/ \E f \in Fans : FirmwareParks(f)

Next ==
    \/ Engine
    \/ MainRestores \/ ProcessExits
    \/ \E c \in Clients : ClientStarts(c) \/ ClientFinishes(c)
    \/ Shutdown
    \/ Machine

Spec == Init /\ [][Next]_vars

\* The daemon's own threads are scheduled; users and hardware owe nothing.
Fairness ==
    /\ WF_vars(Engine)
    /\ WF_vars(MainRestores \/ ProcessExits)
    /\ \A c \in Clients : WF_vars(ClientFinishes(c))

FairSpec == Spec /\ Fairness
-----------------------------------------------------------------------------
(***************************************************************************)
(* Properties.                                                             *)
(***************************************************************************)

\* The engine has targets in force and has not handed the fans back.
InControl == owned /\ pc \notin {"joined", "restored", "exited"}

\* Fans the engine no longer controls do not keep a speed it chose: every
\* release (no curve, battery, sensor or write failure, rejection, shutdown)
\* leaves no engine target behind, but for the fans whose set_auto failed.
NoOrphanTarget ==
    ~InControl => \A f \in Fans \ stuck : fan[f].by # "engine"

\* The status clients read (LIVE) is the engine's state whenever it sleeps:
\* active exactly when it owns the fans, and never active while rejected.
StatusIsTruth ==
    pc = "sleep" =>
        /\ live.active = owned
        /\ live.active => ~rejected
        /\ live.fault = "not_accepted" => rejected

\* Never NOT_ACCEPTED_TICKS hot ticks in a row (with no rearm between them)
\* that each end with a fan neither at maximum nor with the firmware, whatever
\* the firmware ignores and clients write meanwhile.
HotFansNotLeftSlow == hotBad < NOT_ACCEPTED_TICKS

\* The contract the module doc states, its counter read while in control.
Contract == INSTANCE FanEngineContract WITH
    Patience <- NOT_ACCEPTED_TICKS,
    driving  <- InControl,
    unkept   <- IF InControl THEN mismatchTicks ELSE 0,
    gaveUp   <- rejected

\* The engine with all its threads does only what the contract allows: it
\* gives up after exactly NOT_ACCEPTED_TICKS unkept ticks in a row, hands the
\* fans back in that step, and takes no fan again before a retry.
ImplementsContract == Contract!Spec

\* A wake-up is never lost: once every poke has completed and none is pending,
\* a sleeping engine has run its last tick with the curve stored now for the
\* profile it saw (store and profile::set act before poke, REARM before POKE,
\* POKE is consumed before the inputs are read); and where that curve is
\* disabled, or the machine was on battery, it has left no target of its own,
\* but on the fans whose set_auto failed.
PokedCurveInForce ==
    /\ pc = "sleep"
    /\ ~POKE
    /\ \A c \in Clients : client[c] = Idle
    /\ last.prof = profile
    => /\ seen.curve = curves[profile]
       /\ curves[profile] = NoCurve \/ seen.ac = "battery"
            => \A f \in Fans \ stuck : fan[f].by # "engine"

\* "Any sensor read failure", "Curve disabled", "on battery": each condition,
\* if it lasts, ends with the fans handed back. For the curve, clients must stop
\* storing: the engine reads the profile, and later the curve of that one.
HandsBack ==
    /\ <>[](sensors = "failed") => <>[]~InControl
    /\ <>[](onAc = "battery") => <>[]~InControl
    /\ <>[](curves[profile] = NoCurve) /\ <>[][curves' = curves]_vars
         => <>[]~InControl

\* Nothing stands in the way of the curve.
Healthy ==
    /\ curves[profile] # NoCurve
    /\ onAc # "battery"
    /\ sensors = "ok"
    /\ accepts
    /\ ~shutdown

\* No curve is stored, no write fails, and the engine does not give up.
Undisturbed == curves' = curves /\ ~TickWriteFailure /\ ~ReadBackRejects

Recovered == <>[]Healthy /\ <>[][Undisturbed]_vars

\* With nothing in the way any more the engine ends up driving the fans for
\* good, whatever profiles, re-arms, dropped and manual targets go on; or it has
\* given up before, and is not re-armed: a re-arm ends a rejection.
EngineTakesOver ==
    Recovered => <>[](InControl \/ (rejected /\ ~REARM))

\* A manual target that a client wrote after the engine took the fan, having
\* checked is_active() before, does not stay: from some point on, each fan of an
\* engine in control that is asleep has the level of the curve.
SlippedTargetCorrected ==
    Recovered =>
        <>[](pc = "sleep" /\ InControl =>
               \A f \in Fans : fan[f].by = "manual" => fan[f].level = lastRpm[f])

\* "Any sensor read failure -> hand all fans back to firmware": if the sensors
\* stay unreadable, no fan keeps for ever a speed the engine chose.
SensorFailureFreesAllFans ==
    <>[](sensors = "failed" /\ ~shutdown)
        => []<>(\A f \in Fans : fan[f].by # "engine")
=============================================================================
