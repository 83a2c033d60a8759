------------------------------ MODULE Desktop ------------------------------
(***************************************************************************)
(* Two components of the desktop application that do not interact,         *)
(* composed for one check and one set of proofs: in a behaviour the        *)
(* component named by part runs, and the other rests.                      *)
(***************************************************************************)
EXTENDS CurveUi

CONSTANTS
    Zones, Targets, Colors, Levels, Profiles, Cooldown, Requests, Faults

VARIABLES
    part,       \* the component of this behaviour
    hw, device, cfg, queue, at, work, snap, owed, dcfg, watch, by_user, kicked,
    cooldown, asked, mode_asked, lost, waived, stale, bumped, requests, faults

Keyboard == INSTANCE SpectrumLighting
-----------------------------------------------------------------------------
\* Zones and targets are the program's, no effect is no effect to ask for, a
\* brightness is one of the device's, and a profile holds settings
\* (keyboard.rs).
ASSUME LightingAssumption ==
    /\ Zones \subseteq {"keyboard", "front", "rear", "logo"}
    /\ Targets \subseteq {"all", "keyboard", "front", "rear", "chassis", "logo"}
    /\ Keyboard!None \notin Colors
    /\ Levels \subseteq Keyboard!AllLevels
    /\ Profiles \subseteq Keyboard!Config
    /\ Cooldown \in Nat /\ Requests \in Nat /\ Faults \in Nat
-----------------------------------------------------------------------------
Parts == {"lighting", "curve editor"}
KeyboardVars == <<hw, device, cfg, queue, at, work, snap, owed, dcfg, watch,
                    by_user, kicked, cooldown, asked, mode_asked, lost, waived,
                    stale, bumped, requests, faults>>
allVars == <<part, vars, KeyboardVars>>

\* A component that does not run is at one state it can start in.
InitParts ==
    /\ part \in Parts
    /\ Init /\ Keyboard!Init
    /\ part # "curve editor" => current = CHOOSE m \in CurveModes : TRUE

MainSteps ==
    /\ part = "curve editor" /\ Next
    /\ UNCHANGED <<part, KeyboardVars>>

KeyboardSteps ==
    /\ part = "lighting" /\ Keyboard!Next
    /\ UNCHANGED <<part, vars>>

NextParts == MainSteps \/ KeyboardSteps

SpecParts == InitParts /\ [][NextParts]_allVars

\* The fairness of the lighting: the daemon goes on by itself.
FairSpecParts ==
    /\ SpecParts
    /\ WF_KeyboardVars(part = "lighting" /\ Keyboard!Watchdog)
-----------------------------------------------------------------------------
\* Every variable of both components keeps its type (TypeOK of each module).
TypesOK == TypeOK /\ (part = "lighting" => Keyboard!TypeOK)

\* Whatever is asked for last is stored (keyboard.rs, the worker's batches).
LastRequestWins == part = "lighting" => Keyboard!LastRequestWins

\* The device shows what is stored (keyboard.rs, apply_config).
SettledShows == part = "lighting" => Keyboard!SettledShows

\* A device that answers does not stay dark (rgb_panic.rs).
DarkPanicEnds == part = "lighting" => Keyboard!DarkPanicEnds
=============================================================================
