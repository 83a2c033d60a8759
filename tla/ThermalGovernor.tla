-------------------------- MODULE ThermalGovernor --------------------------
(***************************************************************************)
(* The thermal throttle of the daemon: the governor thread                 *)
(* (daemon/main.rs thermal_governor), the SetThermal handler that          *)
(* reconfigures it and restores full speed, the cleanup of main at         *)
(* shutdown, and the pure core of thermal.rs.                              *)
(*                                                                         *)
(* A frequency unit stands for STEP_GENTLE, temperatures are whole units;  *)
(* scaling_max_freq is written one CPU at a time, by threads that share no *)
(* lock.                                                                   *)
(***************************************************************************)
EXTENDS Integers

CONSTANTS
    Cpus, Cpu0,           \* cpu0 is the one whose frequency is read
    Clients,              \* client-handler threads that send SetThermal
    FULL, FLOOR,          \* read_cpu_freq_bounds()
    Temps,                \* raw readings, the hottest of the CPU sensors
    MaxTemps,             \* limits clients configure (within validate's range)
    HYSTERESIS,           \* restore below max_temp - HYSTERESIS
    URGENT_OVERSHOOT,     \* overshoot that bypasses the filter
    MODERATE_OVERSHOOT,   \* overshoot of the middle step
    STEP_UP, STEP_GENTLE, STEP_MODERATE, STEP_URGENT,
    WritesMayFail,        \* whether a scaling_max_freq write can fail
    Unseeded              \* TempFilter before its first sample

ASSUME ThermalAssumption ==
    /\ Cpu0 \in Cpus
    /\ FLOOR \in Nat /\ FULL \in Nat /\ FLOOR < FULL
    /\ Temps \subseteq Nat /\ MaxTemps \subseteq Nat
    /\ HYSTERESIS \in Nat \ {0}
    /\ MODERATE_OVERSHOOT \in Nat /\ URGENT_OVERSHOOT \in Nat
    /\ MODERATE_OVERSHOOT < URGENT_OVERSHOOT
    /\ {STEP_UP, STEP_GENTLE, STEP_MODERATE, STEP_URGENT} \subseteq Nat \ {0}
    /\ WritesMayFail \in BOOLEAN
    /\ Unseeded \notin Int

VARIABLES
    cpuMax,     \* scaling_max_freq of every CPU
    raw,        \* the temperature the sensors show
    readable,   \* the sensors and scaling_max_freq can be read
    config,     \* config.thermal, what status reports
    shared,     \* THERMAL_CONFIG, what the governor reads
    shutdown,
    smoothed,   \* the TempFilter
    gov,        \* governor: program point and locals
    client,     \* SetThermal handlers: program point and locals
    main,       \* main at shutdown
    behind      \* CPUs whose last write failed (history)

vars == <<cpuMax, raw, readable, config, shared, shutdown, smoothed, gov,
          client, main, behind>>
-----------------------------------------------------------------------------
(***************************************************************************)
(* thermal.rs.                                                             *)
(***************************************************************************)
Lowest(a, b)  == IF a <= b THEN a ELSE b
Highest(a, b) == IF a >= b THEN a ELSE b

\* Integer division of Rust: towards zero.
Half(d) == IF d >= 0 THEN d \div 2 ELSE -((-d) \div 2)

\* Mutant: a rising reading is taken as it is.
Update_RisesAtOnce(s, t) ==
    IF s = Unseeded \/ t > s THEN t ELSE s + Half(t - s)

\* TempFilter::update.
Update(s, t) == IF s = Unseeded THEN t ELSE s + Half(t - s)

\* TempFilter::effective: urgent heat bypasses and re-seeds the filter.
Effective(s, t, limit) ==
    IF t >= limit + URGENT_OVERSHOOT THEN t ELSE Update(s, t)

down_step(overshoot) ==
    CASE overshoot >= URGENT_OVERSHOOT -> STEP_URGENT
      [] MODERATE_OVERSHOOT <= overshoot /\ overshoot < URGENT_OVERSHOOT -> STEP_MODERATE
      [] OTHER -> STEP_GENTLE

Hold == -1        \* compute_target's None

\* Mutant: recovery starts as soon as the limit is no longer exceeded.
compute_target_NoBand(cur, t, cfg) ==
    CASE ~cfg.enabled -> Hold
      [] cfg.enabled /\ t >= cfg.max /\ cur > FLOOR ->
            Highest(cur - down_step(t - cfg.max), FLOOR)
      [] cfg.enabled /\ ~(t >= cfg.max /\ cur > FLOOR) /\ cur < FULL ->
            Lowest(cur + STEP_UP, FULL)
      [] OTHER -> Hold

\* compute_target_bounded.
compute_target(cur, t, cfg) ==
    CASE ~cfg.enabled -> Hold
      [] cfg.enabled /\ t >= cfg.max /\ cur > FLOOR ->
            Highest(cur - down_step(t - cfg.max), FLOOR)
      [] /\ cfg.enabled /\ ~(t >= cfg.max /\ cur > FLOOR)
         /\ t <= cfg.max - HYSTERESIS /\ cur < FULL ->
            Lowest(cur + STEP_UP, FULL)
      [] OTHER -> Hold

\* One step of write_all_cpus for c: the write is kept, or fails and the loop
\* goes on.
WriteCpu(c, freq) ==
    \/ /\ cpuMax' = [cpuMax EXCEPT ![c] = freq]
       /\ behind' = behind \ {c}
    \/ /\ WritesMayFail
       /\ cpuMax' = cpuMax
       /\ behind' = behind \cup {c}
-----------------------------------------------------------------------------
Config(enabled, max) == [enabled |-> enabled, max |-> max]
Configs == {Config(e, m) : e \in BOOLEAN, m \in MaxTemps}

Idle == [at |-> "idle"]

ClientStates ==
    {Idle, [at |-> "notify"]}
        \cup [at : {"config", "shared"}, was : BOOLEAN, new : Configs]
        \cup [at : {"restore"}, todo : SUBSET Cpus]

GovStates ==
    {[at |-> "sample"], [at |-> "disabled"], [at |-> "wait"],
     [at |-> "sleep"], [at |-> "stopped"]}
        \cup [at : {"decide"}, temp : Temps, cur : FLOOR..FULL]
        \cup [at : {"write"}, target : FLOOR..FULL, todo : SUBSET Cpus]

\* Frequencies stay within the bounds, whatever the order of the writes.
TypeOK ==
    /\ cpuMax \in [Cpus -> FLOOR..FULL]
    /\ raw \in Temps
    /\ readable \in BOOLEAN
    /\ config \in Configs /\ shared \in Configs
    /\ shutdown \in BOOLEAN
    /\ smoothed \in Int \cup {Unseeded}
    /\ gov \in GovStates
    /\ client \in [Clients -> ClientStates]
    /\ main \in {[at |-> "serving"], [at |-> "exited"]}
                  \cup [at : {"restore"}, todo : SUBSET Cpus]
    /\ behind \subseteq Cpus

\* The daemon starts with the CPUs at full speed and one configuration.
Init ==
    /\ cpuMax = [c \in Cpus |-> FULL]
    /\ raw \in Temps
    /\ readable = TRUE
    /\ config \in Configs
    /\ shared = config
    /\ shutdown = FALSE
    /\ smoothed = Unseeded
    /\ gov = [at |-> "sample"]
    /\ client = [c \in Clients |-> Idle]
    /\ main = [at |-> "serving"]
    /\ behind = {}
-----------------------------------------------------------------------------
(***************************************************************************)
(* The governor thread.                                                    *)
(***************************************************************************)
GovernorOnly == UNCHANGED <<raw, readable, config, shared, shutdown, client, main>>

Alive == main.at # "exited"

\* Temperatures, cpu0's frequency, then whether the governor is enabled.
GovernorSamples ==
    /\ Alive
    /\ gov.at = "sample"
    /\ gov' = CASE ~shared.enabled -> [at |-> "disabled"]
                [] shared.enabled /\ readable ->
                      [at |-> "decide", temp |-> raw, cur |-> cpuMax[Cpu0]]
                [] shared.enabled /\ ~readable -> [at |-> "sleep"]
    /\ GovernorOnly
    /\ UNCHANGED <<cpuMax, smoothed, behind>>

\* Disabled: only now does it start to wait for a notification.
GovernorWaits ==
    /\ Alive
    /\ gov.at = "disabled"
    /\ gov' = [at |-> "wait"]
    /\ GovernorOnly
    /\ UNCHANGED <<cpuMax, smoothed, behind>>

\* The configuration is read again; the filter and the step use that snapshot.
GovernorDecides ==
    /\ Alive
    /\ gov.at = "decide"
    /\ LET t == Effective(smoothed, gov.temp, shared.max)
           target == compute_target(gov.cur, t, shared)
       IN  /\ smoothed' = t
           /\ gov' = IF target = Hold THEN [at |-> "sleep"]
                     ELSE [at |-> "write", target |-> target, todo |-> Cpus]
    /\ GovernorOnly
    /\ UNCHANGED <<cpuMax, behind>>

GovernorWrites ==
    /\ Alive
    /\ gov.at = "write"
    /\ \/ \E c \in gov.todo :
            /\ WriteCpu(c, gov.target)
            /\ gov' = [gov EXCEPT !.todo = @ \ {c}]
       \/ /\ gov.todo = {}
          /\ gov' = [at |-> "sleep"]
          /\ UNCHANGED <<cpuMax, behind>>
    /\ GovernorOnly
    /\ UNCHANGED smoothed

\* Mutant: the shutdown flag is not looked at after the one-second sleep.
GovernorWakes_IgnoresShutdown ==
    /\ Alive
    /\ gov.at = "sleep"
    /\ gov' = [at |-> "sample"]
    /\ GovernorOnly
    /\ UNCHANGED <<cpuMax, smoothed, behind>>

\* One second later, or at once on shutdown.
GovernorWakes ==
    /\ Alive
    /\ gov.at = "sleep"
    /\ gov' = [at |-> IF shutdown THEN "stopped" ELSE "sample"]
    /\ GovernorOnly
    /\ UNCHANGED <<cpuMax, smoothed, behind>>

\* Mutant: disabled, the governor waits for a notification only.
GovernorTimesOut_Never ==
    /\ Alive
    /\ gov.at = "wait"
    /\ shutdown
    /\ gov' = [at |-> "stopped"]
    /\ GovernorOnly
    /\ UNCHANGED <<cpuMax, smoothed, behind>>

\* wait_timeout: ten seconds without a notification.
GovernorTimesOut ==
    /\ Alive
    /\ gov.at = "wait"
    /\ gov' = [at |-> IF shutdown THEN "stopped" ELSE "sample"]
    /\ GovernorOnly
    /\ UNCHANGED <<cpuMax, smoothed, behind>>
-----------------------------------------------------------------------------
(***************************************************************************)
(* SetThermal.                                                             *)
(***************************************************************************)
ClientOnly == UNCHANGED <<raw, readable, shutdown, smoothed, main>>

\* was_enabled is read on its own, before config::update.
SetThermal(c) ==
    /\ Alive
    /\ client[c] = Idle
    /\ \E new \in Configs :
         client' = [client EXCEPT ![c] =
                      [at |-> "config", was |-> config.enabled, new |-> new]]
    /\ UNCHANGED <<cpuMax, config, shared, gov, behind>> /\ ClientOnly

UpdateConfig(c) ==
    /\ client[c].at = "config"
    /\ config' = client[c].new
    /\ client' = [client EXCEPT ![c].at = "shared"]
    /\ UNCHANGED <<cpuMax, shared, gov, behind>> /\ ClientOnly

UpdateShared(c) ==
    /\ client[c].at = "shared"
    /\ shared' = client[c].new
    /\ client' = [client EXCEPT ![c] =
                    IF client[c].was /\ ~client[c].new.enabled
                    THEN [at |-> "restore", todo |-> Cpus]
                    ELSE [at |-> "notify"]]
    /\ UNCHANGED <<cpuMax, config, gov, behind>> /\ ClientOnly

\* restore_full_speed.
RestoreFullSpeed(c) ==
    /\ client[c].at = "restore"
    /\ \/ \E cpu \in client[c].todo :
            /\ WriteCpu(cpu, FULL)
            /\ client' = [client EXCEPT ![c].todo = @ \ {cpu}]
       \/ /\ client[c].todo = {}
          /\ client' = [client EXCEPT ![c] = [at |-> "notify"]]
          /\ UNCHANGED <<cpuMax, behind>>
    /\ UNCHANGED <<config, shared, gov>> /\ ClientOnly

\* notify_one: the flag it sets is cleared unread, so a governor that does not
\* wait yet misses it.
Notify(c) ==
    /\ client[c].at = "notify"
    /\ gov' = IF gov.at = "wait"
              THEN [at |-> IF shutdown THEN "stopped" ELSE "sample"]
              ELSE gov
    /\ client' = [client EXCEPT ![c] = Idle]
    /\ UNCHANGED <<cpuMax, config, shared, behind>> /\ ClientOnly

SetThermalGoesOn(c) ==
    UpdateConfig(c) \/ UpdateShared(c) \/ RestoreFullSpeed(c) \/ Notify(c)
-----------------------------------------------------------------------------
(***************************************************************************)
(* Shutdown, and the machine.                                              *)
(***************************************************************************)
MainOnly == UNCHANGED <<raw, readable, config, shared, smoothed>>

Shutdown ==
    /\ ~shutdown
    /\ shutdown' = TRUE
    /\ UNCHANGED <<cpuMax, gov, client, main, behind>> /\ MainOnly

\* main gives the governor 300 ms instead of joining it: a pass it has begun
\* is taken to end within them (GracePeriod).
GracePeriod == gov.at \notin {"sample", "disabled", "decide", "write"}

MainStartsRestore ==
    /\ shutdown
    /\ main.at = "serving"
    /\ GracePeriod
    /\ main' = [at |-> "restore", todo |-> Cpus]
    /\ UNCHANGED <<cpuMax, shutdown, gov, client, behind>> /\ MainOnly

\* restore_full_speed, and the process ends.
MainRestores ==
    /\ main.at = "restore"
    /\ \/ \E c \in main.todo :
            /\ WriteCpu(c, FULL)
            /\ main' = [main EXCEPT !.todo = @ \ {c}]
            /\ UNCHANGED client
       \/ /\ main.todo = {}
          /\ main' = [at |-> "exited"]
          /\ client' = [c \in Clients |-> Idle]
          /\ UNCHANGED <<cpuMax, behind>>
    /\ UNCHANGED <<shutdown, gov>> /\ MainOnly

TemperatureChanges ==
    /\ raw' \in Temps \ {raw}
    /\ UNCHANGED <<cpuMax, readable, config, shared, shutdown, smoothed, gov,
                   client, main, behind>>

SensorsChange ==
    /\ readable' = ~readable
    /\ UNCHANGED <<cpuMax, raw, config, shared, shutdown, smoothed, gov,
                   client, main, behind>>
-----------------------------------------------------------------------------
Governor ==
    \/ GovernorSamples \/ GovernorDecides \/ GovernorWrites
    \/ GovernorWaits \/ GovernorWakes \/ GovernorTimesOut

Next ==
    \/ Governor
    \/ \E c \in Clients : SetThermal(c) \/ SetThermalGoesOn(c)
    \/ Shutdown \/ MainStartsRestore \/ MainRestores
    \/ TemperatureChanges \/ SensorsChange

Spec == Init /\ [][Next]_vars

\* The daemon's threads are scheduled; no one has to send SetThermal.
FairSpec ==
    /\ Spec
    /\ WF_vars(Governor)
    /\ WF_vars(MainStartsRestore \/ MainRestores)
    /\ \A c \in Clients : WF_vars(SetThermalGoesOn(c))
-----------------------------------------------------------------------------
(***************************************************************************)
(* Properties.                                                             *)
(***************************************************************************)

\* "systemctl stop never leaves the machine capped": once main has restored
\* and the process has ended, only a CPU whose write failed is below full
\* speed: no governor pass comes after the restore.
NoCapAfterShutdown ==
    main.at = "exited" => \A c \in Cpus \ behind : cpuMax[c] = FULL

\* "one k10temp blip cannot yank the frequency ceiling": a pass that lowers
\* the frequency has seen urgent heat, or a filter already near the limit.
SpikeIgnored ==
    [][gov.at = "decide" /\ gov'.at = "write" /\ gov'.target < gov.cur
         => \/ gov.temp >= shared.max + URGENT_OVERSHOOT
            \/ smoothed = Unseeded
            \/ smoothed > shared.max - URGENT_OVERSHOOT]_vars

\* The governor can act, and it writes cpu0 with success.
Governing ==
    /\ shared.enabled /\ readable /\ ~shutdown
    /\ Cpu0 \notin behind

\* Lasting heat above the limit ends at the lowest frequency, however the
\* readings vary above it and whether or not a notification was missed, and
\* lasting cool readings end at full speed.
LastingTempObeyed ==
    /\ <>[](Governing /\ raw > shared.max) => <>[](cpuMax[Cpu0] = FLOOR)
    /\ <>[](Governing /\ raw < shared.max - HYSTERESIS)
          => <>[](cpuMax[Cpu0] = FULL)

\* A steady temperature ends in a steady frequency: the governor does not hunt.
SteadyTempSettles ==
    <>[][raw' = raw /\ shared' = shared]_vars
        => <>[][cpuMax'[Cpu0] = cpuMax[Cpu0]]_vars

\* "Disabling a mid-throttle governor must not leave CPUs capped": with the
\* governor disabled and at rest and no request under way, only a CPU whose
\* write failed is below full speed.
DisabledIsFullSpeed ==
    /\ ~shared.enabled /\ ~config.enabled
    /\ gov.at = "wait"
    /\ \A c \in Clients : client[c] = Idle
    /\ ~shutdown
    => \A c \in Cpus \ behind : cpuMax[c] = FULL
=============================================================================
