------------------------- MODULE StartupUndervolt -------------------------
(***************************************************************************)
(* The Curve Optimizer offset that is applied again after a start          *)
(* (undervolt.rs): the persistence worker with its recovery marker, the    *)
(* client handlers that apply offsets and switch persistence on and off,   *)
(* and the ways the daemon and the machine go down.                        *)
(*                                                                         *)
(* An offset is all-core; Stock is what the firmware has after a boot.     *)
(***************************************************************************)
EXTENDS Naturals

CONSTANTS
    Offsets,         \* offsets a user applies, Stock among them
    Stock,           \* the boot baseline
    Clients,         \* client-handler threads
    EarlyFreeze,     \* the machine may die before the kernel has written a
                     \* changed marker back to the disk
    WritesMayFail    \* whether a file write or removal can fail

ASSUME UndervoltAssumption ==
    /\ Stock \in Offsets
    /\ EarlyFreeze \in BOOLEAN
    /\ WritesMayFail \in BOOLEAN

VARIABLES
    active,     \* the offset the SMU has in force
    config,     \* PERSISTENCE_FILE
    armed,      \* ARMED_FILE exists
    flushed,    \* ARMED_FILE exists on the disk itself
    daemon,     \* "up", "stopping", or "down"
    pc,         \* program point of the persistence worker
    captured,   \* the configuration the worker has loaded
    client,     \* handlers: program point and locals
    trial       \* history: the startup offset has been applied ("running"),
                \* its window was cut short ("died"), or a user or a clean
                \* stop has taken over since the daemon started ("user")

disk == <<config, armed, flushed>>
vars == <<active, disk, daemon, pc, captured, client, trial>>

Config(enabled, offset) == [enabled |-> enabled, offset |-> offset]
Configs == {Config(e, o) : e \in BOOLEAN, o \in Offsets}

Idle == [at |-> "idle"]

ClientStates ==
    {Idle} \cup [at : {"applied", "enable", "disable"}, offset : Offsets]
           \cup [at : {"outdated"}, old : Configs]

TypeOK ==
    /\ active \in Offsets
    /\ config \in Configs
    /\ armed \in BOOLEAN /\ flushed \in BOOLEAN
    /\ daemon \in {"up", "stopping", "down"}
    /\ pc \in {"start", "recover", "recovered", "delay", "arm", "apply",
               "check", "validate", "reset", "giveUp", "disarm", "done"}
    /\ captured \in Configs
    /\ pc \notin {"start", "done"} => captured.enabled
    /\ client \in [Clients -> ClientStates]
    /\ trial \in {"none", "running", "died", "user"}

\* First boot: no file is the same as a disabled configuration.
Init ==
    /\ active = Stock
    /\ config = Config(FALSE, Stock)
    /\ armed = FALSE /\ flushed = FALSE
    /\ daemon = "down"
    /\ pc = "done"
    /\ captured = Config(FALSE, Stock)
    /\ client = [c \in Clients |-> Idle]
    /\ trial = "none"
-----------------------------------------------------------------------------
(***************************************************************************)
(* Files.                                                                  *)
(***************************************************************************)

\* write_persistence_config: a new file, synced, renamed over the old one.
StoreConfig(new) == config' \in {new} \cup (IF WritesMayFail THEN {config} ELSE {})

\* fs::write and fs::remove_file of ARMED_FILE, neither synced.
SetMarker(there) ==
    /\ armed' \in {there} \cup (IF WritesMayFail THEN {armed} ELSE {})
    /\ UNCHANGED flushed
MarkerUnchanged == UNCHANGED <<armed, flushed>>

\* set_all disables a startup offset other than the one just applied.
Outdated(cfg, offset) == cfg.enabled /\ cfg.offset # offset
Disabled(cfg) == [cfg EXCEPT !.enabled = FALSE]
-----------------------------------------------------------------------------
(***************************************************************************)
(* start_persistence_worker; its first part runs before clients are        *)
(* served.                                                                 *)
(***************************************************************************)
Worker(from, to) == daemon # "down" /\ pc = from /\ pc' = to

WorkerStarts ==
    /\ Worker("start", CASE ~config.enabled          -> "done"
                         [] config.enabled /\ armed  -> "recover"
                         [] config.enabled /\ ~armed -> "delay")
    /\ captured' = config
    /\ UNCHANGED <<active, disk, daemon, client, trial>>

\* Disabled after an unclean window: a failed write is only logged, and the
\* marker goes all the same.
WorkerRecovers ==
    /\ Worker("recover", "recovered")
    /\ StoreConfig(Disabled(captured))
    /\ MarkerUnchanged
    /\ UNCHANGED <<active, daemon, captured, client, trial>>

\* STARTUP_DELAY is over; what was loaded before it is what counts.
WorkerWakes ==
    /\ Worker("delay", "arm")
    /\ UNCHANGED <<active, disk, daemon, captured, client, trial>>

\* Mutant: the offset is applied before the marker is written.
WorkerArms_Late ==
    /\ Worker("arm", "apply")
    /\ UNCHANGED <<active, disk, daemon, captured, client, trial>>

\* A write that fails ends the thread, with or without a file left behind.
WorkerArms ==
    /\ daemon # "down"
    /\ pc = "arm"
    /\ SetMarker(TRUE)
    /\ \/ armed' /\ pc' = "apply"
       \/ WritesMayFail /\ pc' = "done"
    /\ UNCHANGED <<active, config, daemon, captured, client, trial>>

\* set_all: verified, or an error before or after the SMU took the offset.
WorkerApplies ==
    /\ daemon # "down"
    /\ pc = "apply"
    /\ \/ active' = captured.offset /\ pc' \in {"check", "reset"}
       \/ active' = active /\ pc' = "reset"
    /\ trial' = IF trial = "user" THEN "user" ELSE "running"
    /\ UNCHANGED <<disk, daemon, captured, client>>

\* The rest of set_all, the file read again.
WorkerChecks ==
    /\ Worker("check", "validate")
    /\ IF Outdated(config, captured.offset)
       THEN StoreConfig(Disabled(config)) ELSE UNCHANGED config
    /\ MarkerUnchanged
    /\ UNCHANGED <<active, daemon, captured, client, trial>>

\* reset_to_baseline, its own errors ignored: it may fail before or after the
\* SMU is back at stock, and then leaves the file as it is.
WorkerResets ==
    /\ Worker("reset", "giveUp")
    /\ active' \in {Stock, active}
    /\ \/ active' = Stock /\ Outdated(config, Stock)
          /\ StoreConfig(Disabled(config))
       \/ UNCHANGED config
    /\ MarkerUnchanged
    /\ UNCHANGED <<daemon, captured, client, trial>>

\* The configuration loaded at the start is written over whatever is there.
WorkerGivesUp ==
    /\ Worker("giveUp", "disarm")
    /\ StoreConfig(Disabled(captured))
    /\ MarkerUnchanged
    /\ UNCHANGED <<active, daemon, captured, client, trial>>

\* VALIDATION_WINDOW is over.
WorkerValidates ==
    /\ Worker("validate", "disarm")
    /\ trial' = IF trial = "running" THEN "none" ELSE trial
    /\ UNCHANGED <<active, disk, daemon, captured, client>>

\* Mutant: the marker is left behind.
WorkerDisarms_Not ==
    /\ Worker("recovered", "done") \/ Worker("disarm", "done")
    /\ UNCHANGED <<active, disk, daemon, captured, client, trial>>

WorkerDisarms ==
    /\ Worker("recovered", "done") \/ Worker("disarm", "done")
    /\ SetMarker(FALSE)
    /\ UNCHANGED <<active, config, daemon, captured, client, trial>>
-----------------------------------------------------------------------------
(***************************************************************************)
(* Client handlers.                                                        *)
(***************************************************************************)
Serving == daemon = "up" /\ pc \notin {"start", "recover", "recovered"}

\* SetCurveOptimizer and Reset (to Stock): set_all up to its read-back, which
\* may also end in an error after the SMU took the offset.
SetAll(c) ==
    /\ Serving
    /\ client[c] = Idle
    /\ \E o \in Offsets :
         /\ active' = o
         /\ client' \in {client, [client EXCEPT
                            ![c] = [at |-> "applied", offset |-> o]]}
    /\ UNCHANGED <<disk, daemon, pc, captured, trial>>

\* set_all loads the startup configuration ...
LoadConfig(c) ==
    /\ client[c].at = "applied"
    /\ client' = [client EXCEPT ![c] =
                    IF Outdated(config, @.offset)
                    THEN [at |-> "outdated", old |-> config] ELSE Idle]
    /\ UNCHANGED <<active, disk, daemon, pc, captured, trial>>

\* ... and writes it back disabled.
DisableOutdated(c) ==
    /\ client[c].at = "outdated"
    /\ StoreConfig(Disabled(client[c].old))
    /\ client' = [client EXCEPT ![c] = Idle]
    /\ MarkerUnchanged
    /\ UNCHANGED <<active, daemon, pc, captured, trial>>

\* Mutant: the marker is not looked at.
CheckEnable_Unlooked(c) ==
    /\ Serving
    /\ client[c] = Idle
    /\ client' = [client EXCEPT ![c] = [at |-> "enable", offset |-> active]]
    /\ UNCHANGED <<active, disk, daemon, pc, captured, trial>>

\* set_persistence(true): refused while the marker is there, and unless the
\* offset is the one in force; then the write follows.
CheckEnable(c) ==
    /\ Serving
    /\ client[c] = Idle
    /\ ~armed
    /\ client' = [client EXCEPT ![c] = [at |-> "enable", offset |-> active]]
    /\ UNCHANGED <<active, disk, daemon, pc, captured, trial>>

\* set_persistence(false): the marker is removed first.
Disarm(c) ==
    /\ Serving
    /\ client[c] = Idle
    /\ SetMarker(FALSE)
    /\ trial' = "user"
    /\ \E o \in Offsets :
         client' = [client EXCEPT ![c] = [at |-> "disable", offset |-> o]]
    /\ UNCHANGED <<active, config, daemon, pc, captured>>

StorePersistence(c) ==
    /\ client[c].at \in {"enable", "disable"}
    /\ StoreConfig(Config(client[c].at = "enable", client[c].offset))
    /\ client' = [client EXCEPT ![c] = Idle]
    /\ trial' = "user"
    /\ MarkerUnchanged
    /\ UNCHANGED <<active, daemon, pc, captured>>
-----------------------------------------------------------------------------
(***************************************************************************)
(* The process and the machine.                                            *)
(***************************************************************************)
ProcessGone ==
    /\ daemon' = "down"
    /\ pc' = "done"
    /\ client' = [c \in Clients |-> Idle]
    /\ UNCHANGED captured

Died == IF trial = "running" THEN "died" ELSE trial

DaemonStarts ==
    /\ daemon = "down"
    /\ daemon' = "up"
    /\ pc' = "start"
    /\ trial' = IF trial = "user" THEN "none" ELSE trial
    /\ UNCHANGED <<active, disk, captured, client>>

\* A clean shutdown clears the marker; the worker is not joined.
CleanStop ==
    /\ Serving
    /\ daemon' = "stopping"
    /\ SetMarker(FALSE)
    /\ trial' = "user"
    /\ UNCHANGED <<active, config, pc, captured, client>>

ProcessExits ==
    /\ daemon = "stopping"
    /\ ProcessGone
    /\ UNCHANGED <<active, disk, trial>>

\* SIGKILL, a panic.
DaemonDies ==
    /\ daemon # "down"
    /\ ProcessGone
    /\ UNCHANGED <<active, disk>>
    /\ trial' = Died

\* The machine freezes or loses power: the firmware is back at stock, and the
\* marker is what the disk has.
MachineDies ==
    /\ EarlyFreeze \/ flushed = armed
    /\ ProcessGone
    /\ active' = Stock
    /\ armed' = flushed
    /\ trial' = Died
    /\ UNCHANGED <<config, flushed>>

\* The kernel's own writeback of dirty files.
Writeback ==
    /\ flushed # armed
    /\ flushed' = armed
    /\ UNCHANGED <<active, config, armed, daemon, pc, captured, client, trial>>
-----------------------------------------------------------------------------
WorkerSteps ==
    \/ WorkerStarts \/ WorkerRecovers \/ WorkerWakes \/ WorkerArms
    \/ WorkerApplies \/ WorkerChecks \/ WorkerResets \/ WorkerGivesUp
    \/ WorkerValidates \/ WorkerDisarms

ClientStarts(c)   == SetAll(c) \/ CheckEnable(c) \/ Disarm(c)
ClientFinishes(c) == LoadConfig(c) \/ DisableOutdated(c) \/ StorePersistence(c)

GoesDown == CleanStop \/ ProcessExits \/ DaemonDies \/ MachineDies

Next ==
    \/ WorkerSteps
    \/ \E c \in Clients : ClientStarts(c) \/ ClientFinishes(c)
    \/ DaemonStarts \/ GoesDown \/ Writeback

Spec == Init /\ [][Next]_vars

\* The daemon's threads run while it is up.
FairSpec ==
    /\ Spec
    /\ WF_vars(WorkerSteps)
    /\ \A c \in Clients : WF_vars(ClientFinishes(c))
-----------------------------------------------------------------------------
(***************************************************************************)
(* Properties.                                                             *)
(***************************************************************************)

\* "An armed marker prevents crash loops: if the machine or daemon exits before
\* the validation window ends, the next start disables persistence instead of
\* applying the offset again": once a startup offset died in its window, no
\* later start applies one, until the user sets persistence anew. A window in
\* which the user switched persistence, or that a clean stop ended, is left out.
CrashNotRepeated == trial = "died" => pc \notin {"delay", "arm", "apply"}

\* "recovery-blocked; disable it before enabling again" is said of no offset that
\* is enabled: once the worker has ended in a daemon that is up, no offset is
\* enabled with the marker still there, whatever handlers that looked before it
\* was written have stored since.
NoBlockRemains ==
    daemon = "up" /\ pc = "done" => ~(config.enabled /\ armed)

\* A startup offset that is enabled does not stay blocked by the marker: if the
\* daemon stays up, the marker goes or the offset is disabled.
NotBlockedForever ==
    <>[](daemon = "up") => []<>~(config.enabled /\ armed)
=============================================================================
