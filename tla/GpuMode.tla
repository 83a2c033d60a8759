------------------------------ MODULE GpuMode ------------------------------
(***************************************************************************)
(* The GPU mode switch (gpu_mode.rs): handlers that ask the firmware for   *)
(* another mode at the next boot and record it in /run, beside reboots,    *)
(* a daemon that is killed, and a machine whose drivers change.            *)
(***************************************************************************)
EXTENDS FiniteSets

CONSTANTS
    Handlers,   \* client-handler threads that switch
    Drivers,    \* iGPU drivers expected for this CPU
    NoDriver    \* no driver bound to the iGPU

VARIABLES
    active,     \* the mode of this boot
    next_boot,  \* the mode the firmware will boot into
    pending,    \* PENDING_FILE, of this boot
    FW_CACHE,   \* the firmware's answers have been read
    gate,       \* what the iGPU driver's usability depends on
    low,        \* discharging below MIN_BATTERY_PCT
    at,         \* program point of every handler
    target,     \* the mode a handler was asked for
    torn        \* history: the record may not be the firmware's mode

machine  == <<active, gate, low>>
handlers == <<at, target>>
vars     == <<machine, next_boot, pending, FW_CACHE, handlers, torn>>

Modes  == {"hybrid", "dgpu"}
NoMode == "none"

Gates == [nomodeset : BOOLEAN,            \* on the kernel command line
          disabled  : SUBSET Drivers,     \* blacklisted, or modeset=0
          available : SUBSET Drivers,     \* modules the kernel can load
          bound     : Drivers \cup {NoDriver}]

TypeOK ==
    /\ active \in Modes /\ next_boot \in Modes
    /\ pending \in Modes \cup {NoMode}
    /\ FW_CACHE \in BOOLEAN /\ low \in BOOLEAN /\ torn \in BOOLEAN
    /\ gate \in Gates /\ (active = "dgpu" => gate.bound = NoDriver)
    /\ at \in [Handlers -> {"idle", "call", "record"}]
    /\ target \in [Handlers -> Modes \cup {NoMode}]
    /\ \A h \in Handlers : (target[h] = NoMode) = (at[h] = "idle")

AtRest ==
    /\ at' = [h \in Handlers |-> "idle"]
    /\ target' = [h \in Handlers |-> NoMode]

usable == Drivers \ gate.disabled

\* Why Hybrid would leave the panel black: the driver bound to the iGPU is not
\* a usable one, or, with no iGPU visible, none could be loaded.
hybrid_block ==
    \/ gate.nomodeset
    \/ IF active = "hybrid" THEN gate.bound \notin usable
                            ELSE usable \cap gate.available = {}

\* The driver that finds the iGPU at boot.
Binds(mode, b) ==
    IF mode = "dgpu" \/ usable \cap gate.available = {}
    THEN b = NoDriver ELSE b \in usable \cap gate.available

Init ==
    /\ active \in Modes /\ next_boot = active /\ pending = NoMode
    /\ FW_CACHE = FALSE /\ low = FALSE
    /\ \E b \in Drivers \cup {NoDriver} :
         /\ gate = [nomodeset |-> FALSE, disabled |-> {},
                    available |-> Drivers, bound |-> b]
         /\ Binds(active, b)
    /\ at = [h \in Handlers |-> "idle"]
    /\ target = [h \in Handlers |-> NoMode]
    /\ torn = FALSE
-----------------------------------------------------------------------------
(***************************************************************************)
(* status() and self_check.                                                *)
(***************************************************************************)
configured == IF pending # NoMode THEN pending ELSE active

\* Mutant: any record counts, not one that differs from the mode of this boot.
reboot_pending_Not == pending # NoMode /\ pending = active

reboot_pending == pending # NoMode /\ pending # active

\* FALSE: "NEXT BOOT HYBRID BUT ...".
self_check == ~(reboot_pending /\ configured = "hybrid" /\ hybrid_block)
-----------------------------------------------------------------------------
(***************************************************************************)
(* set().                                                                  *)
(***************************************************************************)
\* The gates, on a verified model with acpi_call loaded; supported is known
\* once the firmware has been read.
check_switch(m) == ~(m = "hybrid" /\ hybrid_block) /\ ~low

Goto(h, point, m) ==
    /\ at' = [at EXCEPT ![h] = point]
    /\ target' = [target EXCEPT ![h] = m]

\* Refused, or already selected: nothing but the reading of the firmware.
Ask(h) ==
    /\ at[h] = "idle"
    /\ \E m \in Modes :
         IF check_switch(m) /\ configured # m
         THEN Goto(h, "call", m) ELSE UNCHANGED handlers
    /\ FW_CACHE' = TRUE
    /\ UNCHANGED <<machine, next_boot, pending, torn>>

\* The firmware cannot be read: not supported.
AskFails(h) ==
    /\ at[h] = "idle" /\ ~FW_CACHE
    /\ UNCHANGED vars

\* SetGSyncStatus, which takes effect at the next boot.
Call(h) ==
    /\ at[h] = "call"
    /\ next_boot' = target[h]
    /\ Goto(h, "record", target[h])
    /\ torn' = (torn \/ \E o \in Handlers : at[o] = "record")
    /\ UNCHANGED <<machine, pending, FW_CACHE>>

\* Rejected, or not called.
CallFails(h) ==
    /\ at[h] = "call"
    /\ Goto(h, "idle", NoMode)
    /\ UNCHANGED <<machine, next_boot, pending, FW_CACHE, torn>>

\* Called, and the reply could not be read.
CallUnanswered(h) ==
    /\ at[h] = "call"
    /\ next_boot' = target[h]
    /\ torn' = TRUE
    /\ Goto(h, "idle", NoMode)
    /\ UNCHANGED <<machine, pending, FW_CACHE>>

\* Mutant: going back to the mode of this boot leaves the record.
Record_Keeps(h) ==
    /\ at[h] = "record"
    /\ pending' = IF target[h] = active THEN pending ELSE target[h]
    /\ Goto(h, "idle", NoMode)
    /\ UNCHANGED <<machine, next_boot, FW_CACHE, torn>>

\* The record is removed, or written.
Record(h) ==
    /\ at[h] = "record"
    /\ pending' = IF target[h] = active THEN NoMode ELSE target[h]
    /\ Goto(h, "idle", NoMode)
    /\ UNCHANGED <<machine, next_boot, FW_CACHE, torn>>

\* It cannot be: the reply is Ok, with a note.
RecordFails(h) ==
    /\ at[h] = "record"
    /\ torn' = TRUE
    /\ Goto(h, "idle", NoMode)
    /\ UNCHANGED <<machine, next_boot, pending, FW_CACHE>>
-----------------------------------------------------------------------------
(***************************************************************************)
(* What happens beside it.                                                 *)
(***************************************************************************)
\* /run and the daemon's memory are gone; the command line may be another.
Reboot ==
    /\ active' = next_boot /\ pending' = NoMode
    /\ \E b \in Drivers \cup {NoDriver}, n \in BOOLEAN :
         /\ Binds(next_boot, b)
         /\ gate' = [gate EXCEPT !.bound = b, !.nomodeset = n]
    /\ FW_CACHE' = FALSE /\ torn' = FALSE
    /\ AtRest
    /\ UNCHANGED <<next_boot, low>>

DaemonKilled ==
    /\ torn' = (torn \/ \E h \in Handlers : at[h] = "record")
    /\ FW_CACHE' = FALSE
    /\ AtRest
    /\ UNCHANGED <<machine, next_boot, pending>>

\* A driver is blacklisted or not any more; a kernel package comes or goes.
DriversChange ==
    /\ \E d \in Drivers :
         LET toggled(S) == IF d \in S THEN S \ {d} ELSE S \cup {d} IN
         \/ gate' = [gate EXCEPT !.disabled = toggled(@)]
         \/ gate' = [gate EXCEPT !.available = toggled(@)]
    /\ UNCHANGED <<active, low, next_boot, pending, FW_CACHE, handlers, torn>>

BatteryChanges ==
    /\ low' = ~low
    /\ UNCHANGED <<active, gate, next_boot, pending, FW_CACHE, handlers, torn>>

Set(h) ==
    \/ Ask(h) \/ AskFails(h) \/ Call(h) \/ CallFails(h) \/ CallUnanswered(h)
    \/ Record(h) \/ RecordFails(h)

Next ==
    \/ \E h \in Handlers : Set(h)
    \/ Reboot \/ DaemonKilled \/ DriversChange \/ BatteryChanges

Spec == Init /\ [][Next]_vars
-----------------------------------------------------------------------------
(***************************************************************************)
(* Properties.                                                             *)
(***************************************************************************)

\* "Mode the machine will boot into next (pending, else active)": the mode shown
\* is the firmware's, however often it is switched there and back, whenever no
\* switch is under way; unless two switches overlapped between the firmware
\* call and the record, or a record or a reply was lost.
ShownModeIsNext ==
    (\A h \in Handlers : at[h] # "record") /\ ~torn => configured = next_boot

\* "Fails only when the next boot is set to Hybrid while Hybrid would leave the
\* panel black", and always then: also when the driver was usable when the
\* switch was made.
DoomedBootReported ==
    (\A h \in Handlers : at[h] # "record") /\ ~torn =>
        (~self_check <=>
            active = "dgpu" /\ next_boot = "hybrid" /\ hybrid_block)
=============================================================================
