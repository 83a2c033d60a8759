# Legion Control in TLA+

A verification project for Legion Control: the parts of it that decide what the
hardware does, and what the user is told and has stored, while other threads,
processes, the user and the firmware do something else. Each part is a TLA+
module translated from its Rust source. TLC checks small instances of it; TLAPS
proves for every instance all that the runs check but liveness. `PROJECT.json`
maps every definition to the lines it stands for.

Paths below are relative to `src/src/`, the crate's source directory.

## 1. The system

One root daemon (`daemon/main.rs`) owns the hardware. Clients (GTK settings,
command line, KDE widget through the command line) send one JSON request per
Unix-socket connection; each is served by a thread of its own, at most 32.
Beside those run the worker threads listed here. They share the hardware (sysfs,
hwmon, HID, SMU), the configuration file with its in-process cache, and a few
atomics, and mostly no lock. At SIGTERM the daemon waits 300 ms, joins the fan
engine, restores full CPU speed and firmware fans, and exits without joining the
rest. The desktop application talks to the keyboard itself and keeps settings of
its own, which the command line shares.

| Component | State it keeps | Operations | What is hard |
|---|---|---|---|
| Fan-curve engine, `fan_curve.rs` | `Engine` (hysteresis, `owned`, `last_rpm`, `mismatch_ticks`, `rejected`), `LIVE`, `REARM`, `POKE` | one tick every 2 s; `store`, `poke`, `request_reapply`, shutdown | firmware that ignores or drops targets, eight exits of a tick, partial writes, manual targets racing the engine, wake-ups |
| Fan-curve editor, `settings/cooling.rs`, `settings/curve_editor.rs` | curve in the editor, drafts per mode, last answer | drag, buttons, Apply, Undo, 2 s poll | polls, answers and edits in any order; a point under bounds one degree apart |
| Fan access, `fans.rs` | none (hardware) | `set_target`, `set_auto` | failed and silently ignored writes |
| Thermal governor, `thermal.rs`, `main.rs` | `TempFilter`, `THERMAL_CONFIG`, `THERMAL_NOTIFY` | sample/decide/write loop, `SetThermal`, restore | no lock over `scaling_max_freq`; lost notifications; a decision used after it is stale |
| Custom power limits, `power_limits.rs` | `WRITE_LOCK`, `KICK`, saved limits, `profile::LAST_SET` | `SetFwAttr`, the re-apply worker, resume | limits lost on mode change and suspend, writes dropped just after one, write-then-save |
| Startup undervolt, `undervolt.rs` | persistence file, armed marker, SMU offset | worker after start, `SetCurveOptimizer`, `set_persistence`, clean stop | crash at any point, files not synced, clients during the validation window |
| Automatic mode, `profile.rs`, `daemon/services.rs` | `Switcher` (power source, rule in force, mode to return to) | 5 s worker, `SetAutoMode`, manual change | decisions from samples that are stale when written, refused modes |
| Charge limiter, `battery.rs` | `DESIRED_LIMIT`, the EC's one bit | `SetChargeLimit`, watchdog, repair on resume | a repair re-asserting an older limit over a newer one |
| Settings store, `config.rs` | cache per process, file, `flock` | `get`, `update` by threads of several processes | lock timeout, kills and failures between read and rename, stale caches |
| GPU mode, `gpu_mode.rs` | firmware selection, pending record | switch, status, self-check, reboot | firmware switched and record not yet written; drivers that change after the switch |
| Lighting, `keyboard.rs` | HID device, batch queue, settings | coalescing worker, painted keys, profiles | order lost inside a batch; store and show from several threads |
| RGB recovery, `rgb_panic.rs` | cooldown, USB resets | watchdog, Fix page | a repair while the application writes to the same device |
| Four-zone lighting, `fourzone.rs` | HID device, settings | set and save | not modelled |
| Command server, `comms.rs`, `daemon/main.rs` | handler count, sockets | accept, one request each, stop | peers that stall; handlers that outlive the stop |
| GUI queue, `settings/queue.rs` | values to send | push, flush | two flushes on two threads, commands given up but carried out |
| GUI pollers, `settings/activity.rs` | a timer per poller | window and page changes | a timer removed or restarted by its own callback |
| Updater, `update.rs`, `settings/main.rs`, `setup-helper/` | downloads, marker, staged daemon | update, restage | two processes, one file name; a `curl` that outlives its killed parent; kills between rename and marker |
| Diagnostics, `diagnostics.rs`, `telemetry_id.rs` | the id reports go under, the previous one | send, hand-over to a hardware id | kills, failed writes and lost answers between parking and telling |
| Command line, detection, sensors, driver, widget | - | sequential or read-only | - |

How the components meet: `SetProfile` and the automatic worker change the
platform profile, which selects the fan curve and, through the firmware, drops
fan targets and power limits; the resume worker calls `request_reapply`, `kick`
and the charge-limit repair; `main` at shutdown joins the engine and overrides
what governor and engine wrote; all of them read and write the configuration;
the desktop application and the daemon write to one keyboard.

What correctness means for each part is section 4. The hazards, with their
lines and the properties about them, are in `PROJECT.json`.

## 2. Modules

| Module | Role | Code |
|---|---|---|
| `FanHysteresis`, `HysteresisFeed` | `Hysteresis::update`; the same against arbitrary readings, beside the window of readings it should depend on | `fan_curve.rs` |
| `FanEngineContract` | abstract: who drives the fans, patience, giving up | module doc of `fan_curve.rs` |
| `FanCurve` | engine thread, clients, `main` at shutdown, firmware; implements `FanEngineContract` | `fan_curve.rs`, `fans.rs`, `main.rs` |
| `CurveShape`, `CurveUi` | what a valid curve is and how a point is constrained; the editor, its requests and polls, other clients | `fan_curve.rs`, `settings/cooling.rs`, `settings/curve_editor.rs` |
| `ThermalGovernor` | governor, `SetThermal`, shutdown | `thermal.rs`, `main.rs` |
| `PowerLimits` | `SetFwAttr`, re-apply worker, firmware, kill and restart | `power_limits.rs`, `profile.rs`, `services.rs` |
| `StartupUndervolt` | worker, marker, handlers, crash of daemon or machine | `undervolt.rs` |
| `AutoMode` | the rules, the `Switcher`, the worker and what happens beside it | `profile.rs`, `services.rs` |
| `ChargeLimiter` | handlers, watchdog, resume repair, the EC | `battery.rs`, `services.rs`, `main.rs` |
| `GpuMode` | switch, status, self-check, reboots and kills | `gpu_mode.rs` |
| `CommandServer` | accept loop, handlers, clients, stop | `comms.rs`, `main.rs` |
| `SettingsRegister` | abstract: one value changed by whole edits | doc of `config.rs` |
| `ConfigStore` | threads and processes on one file; implements `SettingsRegister` | `config.rs` |
| `SpectrumLighting` | the lighting worker, painted keys and profiles, the daemon's RGB watchdog, one device | `keyboard.rs`, `rgb_panic.rs`, `settings/perkey.rs`, `settings/profiles.rs` |
| `ApplyQueue` | coalesced writes and their threads | `settings/queue.rs`, `comms.rs` |
| `Ticker` | pausable pollers | `settings/activity.rs` |
| `Updater` | two updaters and the children of killed ones, download, install, restage | `update.rs`, `settings/main.rs`, `setup-helper/main.rs` |
| `MachineId` | resolution, hand-over and reports of root's processes | `telemetry_id.rs`, `diagnostics.rs` |
| `Desktop`, `Services`, `Parts` | compositions of components that do not interact, with what is assumed of their constants | - |
| `MCFanCurve`, `MCDesktop`, `MCServices` | instances for TLC | - |
| `..._proofs` | theorems (section 6) | - |

Every module keeps its mutants beside the definition they change, named
`<Definition>_<Bug>`: a plausible bug each, which the property named in
`PROJECT.json` must catch. They take no part in the specification.

Throughout, a step is what runs without touching what another thread touches;
steps that read or write shared state are separate actions. A variable commented
"history" is no state of the program: it remembers what a property speaks of.

### FanCurve

`pc` is the engine thread's program point. One iteration of `run()` is
`ReadProfile`, `ReadCurve` and `ReadCharger`, `Rearm` (`REARM.swap`, and
`Engine::rearm` when the mode or charger changed), one of the `Tick...` actions
(the exits of `Engine::tick` before the read-back), then `ReadBackKeeps` or
`ReadBackRejects`, and a sleep ended by `POKE` or time.

`fan[f]` is the target register of a channel: a level and who wrote it. Level 0
is firmware control, as in the driver. `accepts` says whether the firmware
keeps targets; when it does not, a write succeeds and changes nothing.
`Release` is `Engine::release`: `set_auto` only if `owned`, then everything is
forgotten. `stuck` (history) holds the fans whose last `set_auto` failed or was
ignored, `hotBad` (history) counts hot ticks that ended with a slow fan.

`StoreCurve`, `SetProfile`, `RequestReapply` are followed by `poke()`'s two
stores, `PokeRearm` and `PokeWake`; `SetFanTarget` is `CheckFanTarget` and,
later, `WriteFanTarget`.

Abstracted: a curve is a map from readings to levels (interpolation, smoothing
and RPM windows gone, 100 % is `MaxLevel`); the driver keeps a level exactly, so
the rounding tolerance of the read-back is not modelled; a target always reads
back; the machine has fans; the write loop over the fans, and `set_auto` over
them, are one step with any subset failing; publishing `LIVE` is one step with
the end of the tick.

### CurveShape and CurveUi

`CurveShape` is `validate` and `constrain_point`, bound by bound. `CurveUi` is
the editor: everything of it is on the GUI thread but the daemon's `fan_curves`.
A request (`calls`, at most `Slots`) and the one poll are sent, served at some
moment between, and answered later; `Applied` removes the draft of the mode that
was sent, `PollDone` takes over what the daemon answered unless a draft, a drag
or a request stands against it. `drawn` and `last_drawn` (history) are the
curves the user drew and has not sent. `Others` stands for other clients and the
mode key; a request the window gave up and the daemon serves late is such a
change. `Unset` is no draft, no answer, no stored curve.

### ThermalGovernor

`gov` holds program point and locals of the governor: sample (frequency,
temperature), decide (with the configuration read again), write CPU by CPU,
sleep. `client` holds a `SetThermal` handler: `config::update`, then
`THERMAL_CONFIG`, then `restore_full_speed` CPU by CPU if it was enabled, then
the notification. `main` restores CPU by CPU at shutdown; the 300 ms grace is
the assumption `GracePeriod`, that a pass under way has ended by then.
`behind` (history) holds the CPUs whose last write failed.

The condition variable has no predicate that is tested before the wait: a
notification sent before `wait_timeout` is lost. `GovernorTimesOut` is the ten
seconds that recover from it, and `LastingTempObeyed` depends on it.

A configuration on disk that does not validate is replaced by the default at
load, so configurations here are valid. Frequencies count in units of the gentle
step; the filter halves towards zero as the code does.

### PowerLimits

`WRITE_LOCK` is `lock`; `job` is the write under way with its number of tries;
`mode` and `fresh` are the platform profile and whether it changed less than
`SETTLE` ago. In a fresh mode the firmware may drop a write; a mode change or a
suspend may make it forget limits. `Restart` kills the daemon at any point and
keeps only the configuration. `LAST_SET` is stamped together with the mode
write. The `EBUSY` retries of `set_ppt` are part of one write.

`SlowModeChanges` names an assumption: a mode lasts until the worker has looked
at it, and a request that met its change has ended. Without it the code does
lose limits, see `MCPowerLimitsFast`.

### StartupUndervolt

`armed` is the marker as the file system shows it, `flushed` what the disk has
after a power loss; `Writeback` is the kernel's. `EarlyFreeze` says whether the
machine may die before it. `pc` walks the worker from load to the end of the
validation window; `captured` is the offset it loaded. The handlers of the
Curve Optimizer are split where they read and later write the persistence file.
`trial` (history) records whether a startup offset died inside its window.
The boot-baseline and history files, and the SMU mailbox, are left out. When the
worker itself calls `set_all`, its read and its write of the persistence file
are one step; a client's change between the two could only be replaced by a
disabled setting.

### AutoMode

`at` is the worker: it samples (power, the stored configuration, the mode, and
every `MaxAge` samples the processes), `step` updates the `Switcher` and says
what is `wanted`, and `Apply` writes it later; a refused AC-only mode becomes
balanced (`ApplyFails`, `ApplyBalanced`). The pure rules (`matching_rule`,
`power_rule_mode`, `validate`) are operators with the names of the source. User,
charger, applications, `SetAutoMode` and restarts act at any time. A charger out
and in again between two samples is seen by nobody, in the code and here.

### ChargeLimiter

The EC knows one bit, `limited`; the percentage read back depends on which of
the two attributes the machine has. A handler stores `DESIRED_LIMIT`, writes,
and polls `Tries` times. A repair (the watchdog, the resume worker) loads the
limit, reads the bit, and goes through the same store and write. `obedient` and
`readable` are the EC's moods. `overtaken` (history): a client asked while a
repair was about to store the older limit again.

### GpuMode

A handler calls the firmware (`call`), then records the choice in `/run`
(`record`); the record goes with a reboot, the firmware's selection stays.
`gate` is everything `hybrid_block` reads. `torn` (history): two switches
overlapped between call and record, or a record or a reply was lost, so that the
record may be another mode than the firmware's.

### CommandServer

A connection waits in the backlog, gets a handler while fewer than `MAX_CLIENTS`
run, and is read, carried out and answered; a peer may send nothing, a part, or
a byte at a time (`Trickle` readings), may leave, and both sides have deadlines.
A handler that refuses a command (`refuse`) keeps its slot until its error is
sent. The stop removes nothing from the handlers: `main` drains for 300 ms, frees the
fans and exits. What a command does is reduced to whether it leaves a fan manual.

### ConfigStore and SettingsRegister

A configuration is one field and one named profile holding the same field. A
thread takes its process's `STORE` mutex, the file lock, reads, edits, writes a
temporary file and renames it; `get` looks at the mtime and reloads when it is
not the one noted. Threads and whole processes are killed at any point, reads
and writes fail (`Failures`), the file is edited by hand into something that
does not parse. `LockTimesOut` and `CoarseMtime` name two assumptions: 500 ms
without the file lock does not happen, and two writes have distinct mtimes.
`SettingsRegister` is what the doc promises: the file changes by whole edits,
each of what the one before it left.

### SpectrumLighting

`queue` is the batch the jobs in the channel add up to, by the same absorbing
rules as the worker's; where a batch is cut is nondeterministic. The worker
stores and shows in steps (`bright`, `effects`, `show`), the GUI thread stores
painted keys and profiles, and the jobs that show them are sent later. `owed` is
the set of jobs to come: one of the timer that strokes within 90 ms share, one of
the GUI thread, which does nothing else until it has sent it, and one of each
profile's own thread, with the brightness of that profile, sent before its
restore. Any number of them may be under way at once. The daemon has
its own settings `dcfg`; of the lighting commands it serves only the brightness
from the tray and the repair of the Fix page are sent to it. The watchdog goes
through diagnose, permission, troubleshoot, USB reset and cooldown, each a
step; a reset that fails is tried again after the second look (`again`), one that
succeeded is not. History variables say which requests the coalescing gives up, and whether
device and brightness were last written by the application.

### ApplyQueue, Ticker, Updater, MachineId

`ApplyQueue`: `pending` by key, a timer (`armed`), a worker thread per flush
that sends its batch one command after another and waits for each; a command it
gives up (`late`) may still be carried out. `Ticker`: a poller's timer is
`source`, its interval; a callback (`running`) may change page or window and so
remove or restart timers, its own included. `Updater`: `file` is the download by
release, `fd` where a `curl` writes to after the file has been renamed away
under it; install, marker and restage are separate steps, either process may be
killed at each. `orphans` are the children that go on after such a kill: a `curl`
that has still to open the download, or writes to it or to the AppImage it has
become, and a script of `pkexec` whose password is given late. The marker may
fail to be written, as the code ignores that (`Mark`), and the command line may
allow a downgrade. `MachineId`: root's processes read the settings' id and the
store, resolve, park the old id, publish and adopt the new one, collect, send,
and consume; `derivable` says whether the hardware gives an id in this boot.

### Desktop, Services, Parts

These hold several components each: `Desktop` extends `CurveUi` and instantiates
`SpectrumLighting`; `Services` extends `GpuMode`, with `AutoMode`,
`ChargeLimiter` and `CommandServer`; `Parts` extends `ConfigStore`, with the
other five. The variable `part` names the component that runs in a behaviour;
the others stay at an initial state. That is the union of independent instances,
no interleaving of the components: where components do interact, one module
holds both sides (the daemon's watchdog in `SpectrumLighting`, clients and
`main` in `FanCurve`, the daemon in `ApplyQueue` and `CurveUi`). `MCDesktop` and
`MCServices` give the constants of the first two their values; those of `Parts`
fit into `Parts.cfg`.

## 3. Runs

| Run | Instance | Shows |
|---|---|---|
| `MCFanCurve` | 2 fans, 1 client, 2 readings, patience 2, `set_auto` may fail | `NoOrphanTarget`, `StatusIsTruth`, `HotFansNotLeftSlow`, `PokedCurveInForce`, refinement of `FanEngineContract` |
| `MCFanCurveLive` | 1 fan, 2 modes, 1 client, 1 reading, the curve at level 1 or off, manual targets of level 2, `set_auto` works | `HandsBack`, `EngineTakesOver`, `SlippedTargetCorrected` |
| `MCFanCurveStuck` | as Live with 1 mode, 2 readings, `set_auto` may fail | violated: finding 1 |
| `MCThermal` | 2 CPUs, failing writes, 3 frequencies, 3 temperatures | `NoCapAfterShutdown`, `SpikeIgnored`, `LastingTempObeyed`, `SteadyTempSettles` |
| `MCThermalDisable` | 2 CPUs, writes succeed | violated: finding 2 |
| `MCPowerLimits` | 1 attribute, 2 values, failing reads and writes, restarts | `SavedInForce`, `NothingForgotten`, `NoSpuriousFailure`, `SavedLimitsReturn` |
| `MCPowerLimitsFast` | the same, short mode visits | violated: finding 3 |
| `MCUndervolt` | 2 clients, 2 offsets and stock, marker on disk in time | `CrashNotRepeated`, `NoBlockRemains`, `NotBlockedForever` |
| `MCUndervoltCrash` | 1 client, marker not on disk in time | violated: finding 4 |
| `MCDesktop` | lighting: 2 zones, 4 targets, 2 effects, levels 0 and 9, 2 requests, 2 faults; editor: 2 points, temperatures 1..4 (safety 3), 2 modes, 2 requests at once, 3 edits, one foreign curve | `LastRequestWins`, `SettledShows`, `DarkPanicEnds`; `EditsKept`, and in `TypesOK` that every curve anywhere is valid |
| `MCServices` | GPU: 2 handlers, 2 drivers; automatic mode: 2 configurations, 2 applications, 2 manual choices; charge limit: 1 client, 2 repairs, 2 limits, 2 readings; server: 2 connections, 1 slot | `ShownModeIsNext`, `DoomedBootReported`; `ManualHolds`, `RestoresChoice`, `UnplugLeavesAcOnly`; `AskedLimitReturns`; `SlotsComeBack`, `StopFreesFans` |
| `Parts` | hysteresis with the shipped 3 and 3 over 8 temperatures; settings: 2 threads, 2 processes, 2 values, 1 failure; queue: 2 keys, 3 workers, 3 changes; 2 pollers, 2 pages; 2 updaters, 2 releases, 1 orphaned child at a time; 2 of root's senders, 2 ids beside the hardware's | `SlowdownConfirmed`; `StaleCacheNoticed`, refinement of `SettingsRegister`; `LatestApplied`; `TimersFollow`; `WholeApp`, `RestageToCome`; `LinkKept` |

Why the bounds are enough. Two fans are the least at which a write loop can fail
half-way; patience 2 makes one mismatching tick different from the last one; two
readings are one below and one at the safety temperature, with margin and
confirmations 1 so that the hysteresis moves; the hysteresis itself is run with
the shipped constants. One client suffices where clients only write. Two CPUs
make a write loop interruptible; three frequencies and three temperatures
separate floor, ceiling and between, and urgent, held and cool. Power limits are
independent per attribute but for the lock, which the worker also holds against
one client.

Two handlers, threads, workers, updaters or senders are what it takes to have
one overtake another between two steps; the third worker of the queue lets a
command given up meet two later ones. In the charge limit, 100 and 70 differ in
the bit, and the two repairers are the two there are. One server slot and two
connections put one in the backlog behind a stalled one. Two rules, of which one
names an AC-only mode, and a second configuration with switching off are the
cases `step` distinguishes. Two zones and four targets give the coalescing
targets that overlap and targets that do not: `all` and each part, `chassis`
and `front`, `keyboard` and either. A third zone, which a request for the front
would take from one for the chassis, only repeats what happens to the keyboard
under `all`; the proof has it. Two points of a curve are first and last, each
the other's neighbour, temperatures 1..4 let them come one degree apart, and the
place points are taken to is colder and faster than any curve allows, so that
the bounds decide. Two releases are one installed and one offered, or the newer
one installed already beside a process of the older; one orphan meets two
updaters, both of which may have been started after it. A manual target must be
another level than the curve's, or it would be corrected by accident. Two ids besides the hardware's are one left by an older version and
one minted, or two minted at once. One failed read or write of the settings
file, wherever it happens, is combined with kills, hand edits and everything the
other thread does. For safety none of these bounds matters in the end: section 6
proves it for every value, under the preconditions named there.

The type invariants of the six components of `Parts` and the four of `Services`
are in no run: `TypesCorrect` proves each for every instance. `Desktop`'s is in
one, because it says something about the code: no curve anywhere is invalid.

Counters with a bound in a guard: `requests` and `faults` (`Requests`, `Faults`),
`edits_made` (`MaxSteps`, `steps` in `CurveUi`), `changes` (`Changes`),
`failures` (`Failures`), `frame` (`Trickle`), `latest` (`Newest`), `orphans` (`MaxOrphans`), `minted`
(`Ids`). `hotBad` is reset by a release and bounded by the property itself;
every other variable has a finite type.

`CHECK_DEADLOCK FALSE` is set everywhere: the daemon exits, every thread may be
waiting for a user, or a bound is reached. Symmetry is used in `MCFanCurve`
only, a safety run.

### Fairness

Weak fairness of each thread's step where a liveness property needs it: these
are OS threads that sleep with a timeout, take no lock for ever and are never
suspended, so a step that stays possible is taken. A handler that has started
finishes; nobody has to send a request. `FirmwareSettles` and `Kick` are the
passing of time; `SendPart` is a peer's byte or the 5 s deadline of a read.
`Progress` of the automatic mode is the worker alone, `Repair` the watchdog and
the resume worker. Of the lighting only the daemon's watchdog is fair: a panic
ends whether or not the GUI's worker and timer ever go on. Sensors, charger, mode
key, firmware, EC, faults, crashes, restarts and shutdown have no fairness;
liveness properties say what they assume of them (`<>[](sensors = "failed")`,
`<>[](device # "dead")`, `<>[][~Restart]_vars` and so on).

## 4. Properties

- **Fan engine.** `NoOrphanTarget`: whatever ends the engine's control leaves no
  target of its own, except where `set_auto` failed. `StatusIsTruth`: what
  clients are told is what the engine is doing. `HotFansNotLeftSlow`: at
  the safety temperature a slow fan lasts fewer than `NOT_ACCEPTED_TICKS` ticks,
  even if writes are ignored or a client slips one in. `ImplementsContract`.
  `PokedCurveInForce`: no wake-up is lost, and where the curve is switched off or
  the charger is out the fans are free once the engine sleeps. `HandsBack`: a
  lasting fault ends with the fans free, whatever else goes on; of a missing
  curve, if curves are stored no more, for the profile and the curve of an
  iteration are read one after the other, and one that changes in between for
  ever can be missed for ever. `EngineTakesOver`: on a machine that has recovered for good the
  engine drives the fans for good, or it has given up before and nobody re-arms
  it. `SlippedTargetCorrected`: a manual target that passed `is_active()` before
  the engine took the fan does not stay.
- **Hysteresis.** `SlowdownConfirmed`: heat is followed at once; a slow-down has
  a whole window of readings below it, goes to the hottest of them, and comes
  when such a window has been seen.
- **Editor.** `EditsKept`: a curve drawn and not sent is neither replaced nor
  hidden. Validity of every curve in the editor, in its drafts, requests and
  undos, and in the daemon is its type invariant, since a request with an
  invalid curve would be refused.
- **Thermal.** `NoCapAfterShutdown`, `SpikeIgnored`, `LastingTempObeyed`,
  `SteadyTempSettles`. The last two speak of cpu0, the only CPU whose frequency
  the code reads: another CPU whose write failed stays behind while cpu0 is at
  its target.
- **Power limits.** `SavedInForce`, `NoSpuriousFailure`. `NothingForgotten`: a
  worker asleep in Custom, with nobody writing and no kick to come, has left no
  saved limit out of force. `SavedLimitsReturn`.
- **Undervolt.** `CrashNotRepeated`. `NoBlockRemains`: a worker that has ended
  leaves no offset enabled beside the marker that blocks it, although handlers
  look for the marker and write the configuration in two steps.
  `NotBlockedForever`.
- **Automatic mode.** `ManualHolds`: a choice made with everything handled is
  not written over before the next event. `RestoresChoice`: what comes after a
  rule is what was chosen outside of one. `UnplugLeavesAcOnly`.
- **Charge limit.** `AskedLimitReturns`.
- **GPU mode.** `ShownModeIsNext`, `DoomedBootReported`.
- **Server.** `SlotsComeBack`, `StopFreesFans`.
- **Settings.** `ImplementsRegister`, `StaleCacheNoticed`.
- **Lighting.** `LastRequestWins`, `SettledShows`, `DarkPanicEnds`.
- **Queue, pollers, updater, diagnostics.** `LatestApplied`; `TimersFollow`;
  `WholeApp`: what is installed is all there; `RestageToCome`: a staged daemon of
  another release than the AppImage is to be refreshed; `LinkKept`: an id the collector has
  reports of stays tied to the machine.

Several of these name exceptions by a history variable (`doubtful`, `torn`,
`overtaken`, `lost`, `shared`, `cut`, ...): cases in which the code does not keep
the promise. Each is stated above its property and listed in section 5.

## 5. Findings

1. `MCFanCurveStuck`: `release()` logs a failed `set_auto` and clears `owned`;
   later ticks find nothing to release, so with unreadable sensors a fan can
   keep the engine's speed for ever.
2. `MCThermalDisable`: a governor pass that decided before `SetThermal(false)`
   writes after `restore_full_speed`; the CPU stays capped while disabled.
3. `MCPowerLimitsFast`: leaving Custom and returning between two polls is no
   change to the worker; the forgotten limits are not written again.
4. `MCUndervoltCrash`: the recovery marker is not synced before the offset is
   applied; a freeze loses it and the offset is applied again.

Also met while modelling, without a run of their own:

- **Fans.** `SetFanTarget` tests `is_active()` and writes later: a manual target
  reaches a fan the engine has just taken, and is corrected a tick or two later
  (`daemon/main.rs:947`, `SlippedTargetCorrected`). Both fans held constant by the user look to
  `EcConstancy` like an EC that does not answer (`fans.rs:674-740`).
- **Editor.** A curve drawn while an Apply is under way loses its draft to the
  answer (`settings/cooling.rs:450`) and is overwritten by the next poll,
  against the comment at line 797; `EditsKept` excepts that answer. A mode followed from outside changes the curve under a drag,
  which goes on in the other mode's curve. Undo sends what the window last knew.
  A poll taken before an Apply and delivered after it shows the old curve until
  the next. A curve edited into the settings by hand that fails `validate` is
  returned by `status()` as it is.
- **Thermal.** `docs/USAGE.md:387` says the throttle moves in 200 MHz steps,
  `thermal.rs:10-14` uses 100, 200 and 300 by overshoot.
- **Undervolt.** With failing file writes (`WritesMayFail`) a startup offset that
  cannot be disabled is only logged and the marker removed all the same, which
  breaks `CrashNotRepeated` a second way.
- **Settings.** After 500 ms without the lock an update goes on without it and
  another process's is lost (`config.rs:595`); two writes with one mtime leave a
  cache stale; an unreadable file puts the defaults in the cache; a failed write
  stays in memory alone; `save_named_profile` writes a snapshot taken before it
  holds the lock.
- **Lighting.** A request for all zones followed in the same batch by one for the
  front loses the keyboard's part (`keyboard.rs:1130`, comment at 1106).
  Brightness 0 set in the application is repaired as a soft fault
  (`rgb_panic.rs:185-191`), while brightness 0 set in the tray is a wish that
  later hides a device that is really dark. Restoring at launch with brightness
  0 lights the device (`keyboard.rs:902`). Troubleshooting stores white over the
  saved effects (`keyboard.rs:1380-1399`). An effect still in hand is stored
  over keys painted or a profile loaded after it.
- **Four zones.** The page and the overview's toggle call `apply_and_save` on
  threads of their own (`settings/lighting.rs:193`, `settings/overview.rs:495`):
  two that overlap can leave the device with one state and the settings with
  the other (`fourzone.rs:336-340`).
- **Server.** Handlers are not joined at the stop: a fan target carried out after
  the restore stays manual. The command of a client that has given up is still
  carried out.
- **GPU.** Two switches that overlap between the firmware call and the record
  leave the record with the mode of the wrong one.
- **Automatic mode, charge limit.** A manual choice made while the worker is
  about to write is overwritten; a limit asked for while a repair is about to
  store the older one is taken back.
- **Updater.** Two AppImage updates share the `.partial` file. The `curl` of an
  update that was killed is not killed with it (`update.rs:1198`): it can open,
  and so truncate, the `.partial` its successor has just verified, and the
  rename then installs a torn AppImage. A marker that cannot be written is no
  error (`update.rs:1477-1484`), and the staged daemon then stays as it is. The
  version compared against is that of the running process, so a window that was not
  restarted can install an older release over a newer one. Killed between
  rename and marker, the refresh of the staged daemon is forgotten; another
  build clears the marker (`settings/main.rs:1806`), as does a restage that ends
  after a further update (line 1821); a tarball is installed file by file
  (`update.rs:831-834`); a source update hides a failed install behind
  `|| true` (line 894). In the setup helper, an interrupted `copy_tree` counts
  as done the next time (`setup-helper/main.rs:341-348`).
- **Diagnostics.** The last send is kept in wall-clock time: a clock set back
  blocks sends until it has caught up (`diagnostics.rs:2398`), and the test and
  the store are two steps. A parked id that could not be written is lost by the
  successful write after it (`write_file` only logs); two of root's processes
  that mint an id at once leave one without a tie. The id of a user's process
  that reported before root did is never linked, although the comment at
  `diagnostics.rs:2464-2472` says that every process reports the same id.
- **Resume.** A sleep of under three seconds is not detected (`resume.rs`).

## 6. Proofs

TLAPS proves every invariant, every action property and both refinements that a
passing run checks, for every value of the constants:

| Module | About | Theorems |
|---|---|---|
| `FanCurve_proofs` | `FanCurve` | `TypeCorrect`, `SafetyInvariant`, `NoTargetIsOrphaned`, `StatusIsTruthful`, `HotFansAreFreed`, `NoWakeUpIsLost`, `EngineImplementsContract`, `ContractHandsOff`, `RejectedIsHandsOff` |
| `ThermalGovernor_proofs` | `ThermalGovernor` | `TypeCorrect`, `ShutdownInvariant`, `NoCapRemains`, `SpikesAreIgnored` |
| `PowerLimits_proofs` | `PowerLimits` | `TypeCorrect`, `SavingInvariant`, `SavedIsInForce`, `OneRetryIsEnough`, `OwedLimitsAreOnTheirWay`, `WorkerForgetsNothing` |
| `StartupUndervolt_proofs` | `StartupUndervolt` | `TypeCorrect`, `SafetyInvariant`, `CrashIsNotRepeated`, `BlockIsLifted` |
| `ConfigStore_proofs` | `ConfigStore` | `TypeCorrect`, `StoreInvariant`, `StaleIsNoticed`, `StoreIsRegister` |
| `Services_proofs` | `GpuMode` | `GpuTypeCorrect`, `RecordInvariant`, `ShownIsNext`, `DoomedBootIsReported` |
| | `AutoMode` | `SwitchingInvariant`, `ChoiceIsRestored`, `ManualChoiceHolds` |
| | `ChargeLimiter` | `LimitTypeCorrect`, `RepairsAssertTheLast` |
| | `CommandServer` | `ServerInvariant`, `StopFreesTheFans` |
| | all four | `TypesCorrect` |
| `Parts_proofs` | `FanHysteresis` | `FeedInvariant`, `SlowdownIsConfirmed` |
| | `ApplyQueue` | `QueueInvariant`, `QueueAppliesTheLatest` |
| | `Ticker` | `PollersInvariant`, `PollersFollow` |
| | `Updater` | `InstallInvariant`, `InstalledIsWhole`, `RestageIsNotForgotten` |
| | `MachineId` | `ReportsInvariant`, `KnownIdStaysTied` |
| | all six | `TypesCorrect` |
| `Desktop_proofs` | `CurveUi` | `EditedCurveIsValid`, `IInvHolds`, `TypeCorrect`, `DrawnCurvesAreKept`, `EditorRuns` |
| | `SpectrumLighting` | `LightingInvariant`, `LastRequestIsStored`, `StoredIsShown` |
| | both | `TypesCorrect` |

The assumptions are those named in the modules (`FanCurveAssumption`,
`CurveBounds`, `AutoModeAssumption` and so on), and TLC evaluates each on the
run's values: which constants are numbers, which bound is below which, that
sentinels are no values, that the configurations of the automatic mode are ones
`validate` accepts (the daemon refuses others) and that profiles hold settings.
Nothing is assumed about how many fans, clients, CPUs, threads, processes, keys,
pages, releases or points there are. Some theorems have a precondition of their own:

- `StartupUndervolt`: `SafetyInvariant` and `CrashIsNotRepeated` assume `InTime`,
  the marker on disk in time and writes that succeed; without it finding 4 is a
  counterexample. `BlockIsLifted` assumes the second half alone.
- `PowerLimits`: `OwedLimitsAreOnTheirWay` and `WorkerForgetsNothing` assume
  `SlowModeChanges`; without it finding 3 is a counterexample.
- `ConfigStore`: nobody goes on without the file lock, and for `StaleIsNoticed`
  mtimes are distinct.

All are constants of the runs that agree with them.

**Fan engine.** `SafetyInv` is

    NoOrphanTarget /\ StatusIsTruth /\ OwnershipInv /\ CountInv

`NoOrphanTarget` is not inductive: it says nothing of a state in which the engine
is in control, from which the next step may release. `OwnershipInv` supplies it:
what `last_rpm`, `owned`, `rejected` and the program point say of each other, so
that whatever the engine has written is still owned when a release comes.
`HotFansNotLeftSlow` needs `CountInv`, that the history of hot ticks never runs
ahead of `mismatch_ticks`: a slow fan on a hot tick is always a mismatch, since
the engine has written 100 % to every fan. `EngineImplementsContract`: the
initial state maps to the contract's, and every step is a contract step or a
stutter, engine steps in `EngineStepContract`, all others in `OtherStepContract`.
What the contract itself promises (`ContractHandsOff`) then holds of the engine,
and with `NoTargetIsOrphaned` gives `RejectedIsHandsOff`.
`NoWakeUpIsLost` has an invariant of its own, `PokeInv`: from its reads to its
sleep, while no wake-up is pending and no client is between its store and the end
of its poke, the engine holds the curve stored for the profile it read. It rests
on three orders in the code: the store comes before the poke, `POKE` is consumed
only before the reads, and the engine takes the profile before the curve.
Its second half, fans free with the curve off or on battery, is the safety in
`HandsBack`. It needs `AskedInv`: an engine that has written a target, or owns the
fans in its sleep, saw a curve and no battery in that iteration. A curve switched
off while it slept is one `PokeInv` speaks of.

**Hysteresis.** `Streak`: the streak counts the run of lower readings at the end
of the window of readings, `streak_max` is the hottest of them, and the reading
before the run was not lower. With it, the held reading goes down exactly when
the window says so, to the hottest of its readings.

**Governor.** `Restoring`: once `main` has begun to restore, the governor is not
between decision and last write, which holds only by `GracePeriod` and by the
flag it tests before a pass; CPUs already restored are at full speed or `behind`.
`SpikesAreIgnored` is an action property from the type invariant: the arithmetic
of the filter.

**Power limits.** `Holders` (who may be inside the lock), `Jobs` and
`WorkerSaved` (what its job is), from which `InForce` follows: outside the lock
saved and firmware agree unless the firmware lost it. `OneRetryIsEnough` adds
`Retried`: a request that met neither a mode change nor a suspend is still in
Custom; if it is at its second try, it has slept until the mode was no longer
fresh, so the write it is about to verify was kept, and nobody else has written
since, because it holds the lock.

`WorkerForgetsNothing` is the safety in `SavedLimitsReturn`. Of the sleeping
worker alone it is not inductive; `CInv` says of every program point who has
still to write a limit that is not in force. `Remembered`: a limit that is owed in
Custom is on its way (`OnItsWay`): a kick or a resume is to come, the worker has
not yet seen that the mode is Custom, has the limit on its list, or a client is at
it. `Sighted`: the worker takes the mode for unchanged only if it is; here
`SlowModeChanges` comes in. `Settling`: what the worker writes sticks, since it
waited `SETTLE` first, and if the machine sleeps meanwhile a kick follows. `Met`: a
request that met a suspend ends before that kick, so that nothing it saved is
missed by the pass after it; any other has in force what it is about to save.
A request whose write failed for good is one that met something, by `Retried`.

**Undervolt.** `Blocked`, `WorkerKnows` and `NobodyYet`: an offset that is being
tried is the one the marker on the disk speaks of, at every program point of the
worker and whatever clients have changed.

`BlockIsLifted` is the safety in `NotBlockedForever`, from `Unblocked` and
`NobodyYet`. `Unblocked` strengthens `NoBlockRemains` by the handlers: with a
marker left by an earlier start, and a worker that found nothing to do, no handler
is between its look for the marker and its write. It holds because the worker
has looked before the socket is served, and a worker that armed the marker itself
takes it away at its end, or the configuration is off.

**Compositions.** A step of `Services`, `Parts` or `Desktop` is a step of one
component or leaves that component's variables alone (the lemmas `...Alone`), so
an invariant of a component's `Next` is one of the composition. `EditorRuns`
states it as an implementation.

**GPU.** `Recorded`: with no record torn, record or mode of this boot is the
firmware's, up to the one handler between call and record.

**Automatic mode.** `ChoiceKept`: what a rule will be left for is what was chosen
last outside of one, and between samples with no rule in force that is the mode
in force. `HeldHandled`: while a manual choice stands, the worker has handled
power source, rule and configuration and wants nothing written.

**Charge limit.** `AskedKept`: unless a client asked while a repair was between
its reading and its store (`overtaken`), every repair is about the limit asked
for last. That is the safety in `AskedLimitReturns`; the rest is liveness.

**Server.** `FreedAlone`: fans given back with no handler at work stay so, as
nothing is accepted any more; that `active_clients` is the number of handlers
takes a lemma per move of a connection about the size of a set.

**Settings.** `Locked` (at most one thread between lock and rename, over all
processes), `EditReady` (what it read is what the file holds) give the
refinement; `StatReady` adds the mtimes for `StaleIsNoticed`.

**Queue.** `Coalesced`: what waits for a key is what was asked last. `InOrder`,
of a key no command of which was given up: at most one worker owes a command for
it, and with nothing waiting that command, or else the daemon, has the value
asked last.

**Pollers.** `TimersFollow` is inductive with little beside it (`PollersInv`): a
poller that has not begun has nothing to catch up with.

**Updater.** `Verified`: a download about to be installed is not being written
any more, by the `curl` of its updater, of another, or of one that was killed,
unless it is recorded as shared. `Overwritten`: neither is the AppImage that is
installed, with the same exception. `Restaging`: only the window refreshes the staged daemon, and only
having found the marker. The bound on orphans takes no part in it.

**Machine id.** `Tied(x)`, for the one minted id `x` a machine has while no
write is cut off: wherever `x` was reported, it is linked, parked, or still what
settings or the shared store say, and a process about to write over its last
mention has resolved it as the previous one. The invariant speaks of every
program point, since any number of root's processes may be at any of them.

**Lighting.** `LightingInv` has three parts beside the types. `StoredLast`: what
is stored, changed by the effects still in hand (`Final`: first the batch the
worker is carrying out, then the one waiting), is what was asked for last, zone
by zone. `FinalAbsorb` says what one more job does to that, by the rules of
`absorb_effect`; `FinalStep` that carrying out the next effect of a batch changes
nothing in it, because the worker takes them in the order in which one covers
another (`rank`), and an effect for all zones is alone in its batch.
`ShownLast` and `LitLast`: device and store agree in effects and in brightness
unless something is about to show them, the batch failed, or the daemon has
written since.

**Editor.** `EditedCurveIsValid` is the lemma about `constrain_point`: a point of
a valid curve, taken anywhere, leaves a valid curve, for any number of points.
`TypeCorrect` carries it to every curve there is. `DraftsShown` (a draft of the
mode on show is what is shown) makes `EditsKept` inductive.

**Only model-checked.** Liveness under fairness and `ENABLED`, which are beyond
the prover: `HandsBack`, `EngineTakesOver`, `SlippedTargetCorrected`,
`LastingTempObeyed`, `SteadyTempSettles`, `SavedLimitsReturn`, `NotBlockedForever`,
`UnplugLeavesAcOnly`, `AskedLimitReturns`, `SlotsComeBack` and `DarkPanicEnds`.

## 7. Not modelled

Under the modelled parts: discovery and probing, sensor fusion, interpolation,
RPM rounding and windows; firmware targets that cannot be read back; a machine
without fans; authorisation and serialisation of requests; the SMU mailbox; a
second `SetThermal` client (it multiplies the governor's states beyond a useful
run); the settings store, where `config::update` is one atomic step of every
module but `ConfigStore`; two RGB repairs at once; the content of a report.

Parts with no module, and why:

- `fourzone.rs`: set and save in one call; the races of its callers are listed
  in section 5, and nothing in the code orders them.
- `cli/main.rs`: parses, sends one request, prints; most of its lines are
  formatting.
- `device.rs`, `models.rs`, `cpu_ids.rs`, `gpu_ids.rs`: tables and one-time
  probing, the same answer every time.
- `sensors.rs`, `dgpu.rs`, `cpu.rs`, `intel*.rs`, `ideapad.rs`, `audio.rs`,
  `selftest.rs`: reads, and single writes with no protocol around them.
- The collection of `diagnostics.rs`: read-only, and printing.
- `resume.rs` and the history ring of `services.rs`: a comparison of two clocks,
  and a bounded list nobody decides by.
- The pages of the desktop application (`settings/`): widgets and layout around
  the queue, the pollers and the editor, which are modelled.
- The setup helper's and updater's other operations: sequences of file copies
  and commands, run once.
- `driver/legion_hwmon.c` (read-only), the KDE widget (displays what the command
  line prints), `third_party/` (not this project's code).

The map therefore names a tenth of all lines of the repository: the others are
widgets, printing, tables, probing, tests and comments. The code that decides
something which another thread, process or crash can spoil is in it, but for
`fourzone.rs`.

## 8. Plan

In order of what it would show:

1. The safety at the core of the remaining liveness properties, as
   `WorkerForgetsNothing`, `BlockIsLifted` and `AskedKept` are for limits, marker
   and charge limit: of `DarkPanicEnds`, that a dark device the watchdog sleeps on
   is one it will look at again; of `UnplugLeavesAcOnly`, that a refused mode is
   never the last thing asked for.
2. A module for `fourzone.rs` with the threads of its callers.
3. A smaller governor with two `SetThermal` clients.
4. `AutoMode` composed with the mode part of `FanCurve` and `PowerLimits`: one
   mode change seen by three workers at different moments.
