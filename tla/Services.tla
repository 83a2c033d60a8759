----------------------------- MODULE Services -----------------------------
(***************************************************************************)
(* Services of the daemon that do not interact, composed for one check and *)
(* one set of proofs: in a behaviour the component named by part runs, and *)
(* the others rest.                                                        *)
(***************************************************************************)
EXTENDS GpuMode, Naturals, Sequences

CONSTANTS
    Apps, NoApp, Configs, Choices, MaxAge,
    Clients, Repairers, Requests, Tries,
    Conns, MAX_CLIENTS, Trickle

VARIABLES
    part,       \* the component of this behaviour
    cfg, power, apps, mode, sw, running, age, auto_at, auto_target, on_ac,
    held, base, failed,
    interface, readable, obedient, limited, DESIRED_LIMIT, step, want, tries,
    asked, overtaken,
    client, server, frame, active_clients, main, fans, late

Switching == INSTANCE AutoMode WITH at <- auto_at, target <- auto_target
Limit     == INSTANCE ChargeLimiter
Server    == INSTANCE CommandServer
-----------------------------------------------------------------------------
\* The configurations are ones SetAutoMode accepts (profile.rs, validate), and
\* a mode a user picks is one of the firmware's.
ASSUME AutoModeAssumption ==
    /\ Configs \subseteq Switching!AutoModeConfig
    /\ \A c \in Configs : Switching!validate(c, Switching!Modes)
    /\ NoApp \notin Apps /\ Choices \subseteq Switching!Modes /\ MaxAge \in Nat

\* What is written is read back at least once, and the daemon's own threads are
\* no client handlers (battery.rs, daemon/main.rs).
ASSUME ChargeLimiterAssumption ==
    Tries \in Nat \ {0} /\ Clients \cap Repairers = {}

\* There are some slots for clients (daemon/main.rs, MAX_CLIENTS).
ASSUME CommandServerAssumption ==
    /\ IsFiniteSet(Conns) /\ MAX_CLIENTS \in Nat \ {0} /\ Trickle \in Nat
-----------------------------------------------------------------------------
Parts == {"gpu mode", "auto mode", "charge limit", "server"}
SwitchingVars == <<cfg, power, apps, mode, sw, running, age, auto_at,
                     auto_target, on_ac, held, base, failed>>
LimitVars == <<interface, readable, obedient, limited, DESIRED_LIMIT, step,
                 want, tries, asked, overtaken>>
ServerVars == <<client, server, frame, active_clients, main, fans, late>>
allVars == <<part, vars, SwitchingVars, LimitVars, ServerVars>>

\* A component that does not run is at one state it can start in.
InitParts ==
    /\ part \in Parts
    /\ Init /\ Switching!Init /\ Limit!Init /\ Server!Init
    /\ part # "gpu mode" => active = "dgpu"
    /\ part # "auto mode" =>
          ~cfg.enabled /\ power = "ac" /\ mode = "balanced"
    /\ part # "charge limit" => interface = "charge_types" /\ ~limited

MainSteps ==
    /\ part = "gpu mode" /\ Next
    /\ UNCHANGED <<part, SwitchingVars, LimitVars, ServerVars>>

SwitchingSteps ==
    /\ part = "auto mode" /\ Switching!Next
    /\ UNCHANGED <<part, vars, LimitVars, ServerVars>>

LimitSteps ==
    /\ part = "charge limit" /\ Limit!Next
    /\ UNCHANGED <<part, vars, SwitchingVars, ServerVars>>

ServerSteps ==
    /\ part = "server" /\ Server!Next
    /\ UNCHANGED <<part, vars, SwitchingVars, LimitVars>>

NextParts ==
    MainSteps \/ SwitchingSteps \/ LimitSteps \/ ServerSteps

SpecParts == InitParts /\ [][NextParts]_allVars

\* The fairness of each component.
FairSpec ==
    /\ SpecParts
    /\ WF_SwitchingVars(part = "auto mode" /\ Switching!Progress)
    /\ \A c \in Clients :
          WF_LimitVars(part = "charge limit" /\ Limit!SetLimit(c))
    /\ \A r \in Repairers :
          WF_LimitVars(part = "charge limit" /\ Limit!Repair(r))
    /\ \A c \in Conns :
          WF_ServerVars(part = "server"
                          /\ (Server!Handler(c) \/ Server!SendPart(c)))
-----------------------------------------------------------------------------
\* Every variable of every component keeps its type (TypeOK of each module).
TypesOK ==
    /\ TypeOK
    /\ part = "auto mode"    => Switching!TypeOK
    /\ part = "charge limit" => Limit!TypeOK
    /\ part = "server"       => Server!TypeOK

\* A manual choice is kept until the next event (profile.rs, Switcher).
ManualHolds == [][part = "auto mode" => Switching!KeepsManual]_allVars

\* What comes after a rule is what was chosen outside of one (profile.rs,
\* Switcher::step).
RestoresChoice == part = "auto mode" => Switching!RestoresChoice

\* No mode for the charger alone is kept on battery (profile.rs, and the worker
\* of daemon/services.rs).
UnplugLeavesAcOnly == part = "auto mode" => Switching!UnplugLeavesAcOnly

\* The limit asked for last comes back (battery.rs).
AskedLimitReturns == part = "charge limit" => Limit!AskedLimitReturns

\* A slot for a client comes back (daemon/main.rs, MAX_CLIENTS).
SlotsComeBack == part = "server" => Server!SlotsComeBack

\* A daemon that was stopped leaves the fans to the firmware (daemon/main.rs,
\* restore_hardware_on_shutdown).
StopFreesFans == part = "server" => Server!StopFreesFans
=============================================================================
