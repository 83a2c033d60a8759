------------------------------ MODULE AutoMode ------------------------------
(***************************************************************************)
(* Automatic mode switching: the pure rules of profile.rs (mod auto), the  *)
(* worker of daemon/services.rs that applies them, and the user, the       *)
(* charger, the applications and SetAutoMode beside it.                    *)
(***************************************************************************)
EXTENDS Naturals, Sequences

CONSTANTS
    Apps,       \* process names the rules can be about
    NoApp,      \* no rule in force
    Configs,    \* AutoModeConfig values that pass validate
    Choices,    \* modes the user picks
    MaxAge      \* samples between two readings of /proc

VARIABLES
    cfg,        \* the stored AutoModeConfig
    power,      \* "ac" or "battery"
    apps,       \* processes now running
    mode,       \* the platform profile in force
    sw,         \* the worker's Switcher
    running,    \* the worker's last reading of /proc
    age,        \* samples since that reading
    at,         \* the worker: "sample", "write" or "fallback"
    target,     \* what step() asked for
    on_ac,      \* the power source step() was given
    held,       \* history: the user's choice, made with nothing unhandled
    base,       \* history: the mode to come back to after the rule in force
    failed      \* history: a write the worker counted on has failed

machineVars == <<cfg, power, apps>>
workerVars  == <<sw, running, age, at, target, on_ac>>
history     == <<held, base, failed>>
vars        == <<machineVars, mode, workerVars, history>>

None  == "none"
Modes == {"low-power", "balanced", "performance", "custom", "max-power"}

AppRule        == [process : Apps, mode : Modes]
AutoModeConfig == [enabled : BOOLEAN, ac_mode : Modes, battery_mode : Modes,
                   app_rules : Seq(AppRule), apps_on_battery : BOOLEAN]

NoRule   == [process |-> NoApp, mode |-> None]
Switcher == [last_ac |-> None, app |-> NoApp, restore_to |-> None]

TypeOK ==
    /\ cfg \in Configs /\ power \in {"ac", "battery"} /\ apps \subseteq Apps
    /\ mode \in Modes
    /\ sw \in [last_ac : {"ac", "battery", None}, app : Apps \cup {NoApp},
               restore_to : Modes \cup {None}]
    /\ (sw.app = NoApp) = (sw.restore_to = None)
    /\ running \subseteq Apps /\ age \in 0 .. MaxAge
    /\ at \in {"sample", "write", "fallback"}
    /\ target \in Modes \cup {None} /\ (target = None) = (at = "sample")
    /\ on_ac \in {"ac", "battery"}
    /\ held \in BOOLEAN /\ base \in Modes \cup {None} /\ failed \in BOOLEAN

Init ==
    /\ cfg \in Configs /\ power \in {"ac", "battery"} /\ apps = {}
    /\ mode \in {"balanced", "performance"}
    /\ sw = Switcher /\ running = {} /\ age = 0
    /\ at = "sample" /\ target = None /\ on_ac = power
    /\ held = FALSE /\ base = mode /\ failed = FALSE
-----------------------------------------------------------------------------
(***************************************************************************)
(* The rules.                                                              *)
(***************************************************************************)
ac_only(m) == m \in {"custom", "max-power"}

\* choices: what the firmware lists; the empty set when that is unknown.
battery_choices(choices) ==
    {m \in {"low-power", "balanced"} : choices = {} \/ m \in choices}
      \cup (choices \cap {"performance"})

validate(c, choices) ==
    LET known == IF choices = {} THEN Modes \cup {"quiet"} ELSE choices IN
    /\ c.ac_mode \in known
    /\ c.battery_mode \in battery_choices(choices)
    /\ Len(c.app_rules) <= 32
    /\ \A i \in DOMAIN c.app_rules :
          /\ c.app_rules[i].process # NoApp
          /\ c.app_rules[i].mode \in known

rule_applies(r, source, procs) ==
    /\ ~(source = "battery" /\ ac_only(r.mode))
    /\ r.process \in procs

matching_rule(c, source, procs) ==
    LET applying == {i \in DOMAIN c.app_rules :
                        rule_applies(c.app_rules[i], source, procs)} IN
    IF applying = {} \/ (source = "battery" /\ ~c.apps_on_battery)
    THEN NoRule
    ELSE c.app_rules[CHOOSE i \in applying : \A j \in applying : i <= j]

\* Mutant: the mode set for battery is not looked at.
power_rule_mode_Ac(c, source) == c.ac_mode

power_rule_mode(c, source) ==
    IF source = "ac" THEN c.ac_mode
    ELSE IF ac_only(c.battery_mode) THEN "balanced" ELSE c.battery_mode

\* Mutant: a rule that follows another remembers the mode of that one.
restore_to_Current(s, c, source, rule, current) ==
    IF rule = NoRule               THEN None
    ELSE IF s.last_ac # source     THEN power_rule_mode(c, source)
    ELSE IF s.app # rule.process   THEN current
    ELSE s.restore_to

restore_to(s, c, source, rule, current) ==
    IF rule = NoRule               THEN None
    ELSE IF s.last_ac # source     THEN power_rule_mode(c, source)
    ELSE IF s.app = NoApp          THEN current
    ELSE s.restore_to

\* Mutant: the power rule is asked for in every sample without a rule in force.
wanted_Always(s, c, source, rule) ==
    IF rule # NoRule      THEN rule.mode
    ELSE IF s.app # NoApp THEN s.restore_to
    ELSE power_rule_mode(c, source)

\* What the sample asks for, if anything.
wanted(s, c, source, rule) ==
    LET plug_event == s.last_ac # source IN
    IF rule # NoRule
    THEN IF s.app # rule.process \/ plug_event THEN rule.mode ELSE None
    ELSE IF plug_event THEN power_rule_mode(c, source)
    ELSE IF s.app = NoApp THEN None
    ELSE IF s.restore_to # None THEN s.restore_to
    ELSE power_rule_mode(c, source)

\* Switcher::step, with switching enabled.
step(s, c, source, procs, current) ==
    LET rule == matching_rule(c, source, procs)
        w    == wanted(s, c, source, rule) IN
    [sw     |-> [last_ac |-> source, app |-> rule.process,
                 restore_to |-> restore_to(s, c, source, rule, current)],
     target |-> IF w = current THEN None ELSE w]
-----------------------------------------------------------------------------
(***************************************************************************)
(* The worker.                                                             *)
(***************************************************************************)
\* Switching is off: the Switcher forgets.
SampleDisabled ==
    /\ at = "sample" /\ ~cfg.enabled
    /\ sw' = Switcher /\ running' = {}
    /\ base' = IF sw.app = NoApp THEN base ELSE mode
    /\ UNCHANGED <<machineVars, mode, age, at, target, on_ac, held, failed>>

\* A sample: every 2 s and every 5 s, the latter with a new reading of /proc.
\* In a sample in which no power supply can be read nothing is decided.
Sample ==
    /\ at = "sample" /\ cfg.enabled
    /\ \E rescan \in IF age = MaxAge THEN {TRUE} ELSE BOOLEAN :
         /\ running' = IF rescan THEN apps ELSE running
         /\ age' = IF rescan THEN 0 ELSE age + 1
    /\ LET s == step(sw, cfg, power, running', mode) IN
         /\ sw' = s.sw
         /\ target' = s.target
         /\ at' = IF s.target = None THEN "sample" ELSE "write"
         /\ base' = CASE s.sw.app # NoApp /\ sw.last_ac # power
                            -> power_rule_mode(cfg, power)
                      [] s.sw.app = NoApp /\ s.target = None -> mode
                      [] OTHER -> base
    /\ on_ac' = power
    /\ UNCHANGED <<machineVars, mode, held, failed>>

SampleUnreadable ==
    /\ at = "sample" /\ cfg.enabled
    /\ \E rescan \in BOOLEAN : running' = IF rescan THEN apps ELSE running
    /\ UNCHANGED <<machineVars, mode, sw, age, at, target, on_ac, history>>

\* profile::set succeeds.
Written(m) ==
    /\ mode' = m
    /\ at' = "sample" /\ target' = None
    /\ held' = FALSE
    /\ base' = IF sw.app = NoApp THEN m ELSE base
    /\ UNCHANGED <<machineVars, sw, running, age, on_ac>>

\* The firmware takes AC-only modes on the charger alone.
Accepts(m) == ~(power = "battery" /\ ac_only(m))

Apply ==
    /\ at = "write"
    /\ Accepts(target)
    /\ Written(target)
    /\ UNCHANGED failed

\* Refused on battery: balanced instead. On the charger: a warning. That
\* balanced is never refused is an assumption, about the firmware.
ApplyFails ==
    /\ at = "write"
    /\ target # "balanced"
    /\ failed' = TRUE
    /\ IF on_ac = "battery"
       THEN at' = "fallback" /\ UNCHANGED target
       ELSE at' = "sample" /\ target' = None
    /\ UNCHANGED <<machineVars, mode, sw, running, age, on_ac, held, base>>

ApplyBalanced ==
    /\ at = "fallback"
    /\ Written("balanced")
    /\ UNCHANGED failed
-----------------------------------------------------------------------------
(***************************************************************************)
(* What happens beside it.                                                 *)
(***************************************************************************)
\* The worker has handled everything that has happened so far.
CaughtUp ==
    /\ at = "sample" /\ cfg.enabled
    /\ sw.last_ac = power /\ running = apps
    /\ sw.app = matching_rule(cfg, power, apps).process

\* Fn+Q, or SetProfile.
ManualChange ==
    /\ \E m \in Choices \ {mode} :
         /\ Accepts(m)
         /\ mode' = m
         /\ base' = IF sw.app = NoApp THEN m ELSE base
    /\ held' = CaughtUp
    /\ UNCHANGED <<machineVars, workerVars, failed>>

AnEvent == held' = FALSE /\ UNCHANGED <<mode, workerVars, base, failed>>

PlugEvent ==
    /\ power' = IF power = "ac" THEN "battery" ELSE "ac"
    /\ AnEvent /\ UNCHANGED <<cfg, apps>>

AppStartsOrEnds ==
    /\ \E a \in Apps : apps' = IF a \in apps THEN apps \ {a} ELSE apps \cup {a}
    /\ AnEvent /\ UNCHANGED <<cfg, power>>

\* SetAutoMode, of a configuration that passes validate.
SetAutoMode ==
    /\ cfg' \in Configs \ {cfg}
    /\ AnEvent /\ UNCHANGED <<power, apps>>

\* The daemon is stopped or killed, and starts again.
Restart ==
    /\ sw' = Switcher /\ running' = {} /\ age' = 0
    /\ at' = "sample" /\ target' = None /\ on_ac' = power
    /\ held' = FALSE /\ failed' = FALSE
    /\ base' = mode
    /\ UNCHANGED <<machineVars, mode>>

Worker ==
    \/ SampleDisabled \/ Sample \/ SampleUnreadable
    \/ Apply \/ ApplyFails \/ ApplyBalanced

\* A sample in which the charger can be read comes again.
Progress == Sample \/ SampleDisabled \/ Apply \/ ApplyFails \/ ApplyBalanced

Next ==
    \/ Worker \/ ManualChange
    \/ PlugEvent \/ AppStartsOrEnds \/ SetAutoMode \/ Restart

Spec == Init /\ [][Next]_vars
FairSpec == Spec /\ WF_vars(Progress)
-----------------------------------------------------------------------------
(***************************************************************************)
(* Properties.                                                             *)
(***************************************************************************)

\* "a manual change (Fn+Q, GUI) holds until the next such event": a choice made
\* when the worker had handled everything is not written over before a plug
\* event, an application start or end, a new configuration, or a restart.
KeepsManual == held => ~Apply /\ ~ApplyBalanced
ManualHolds == [][KeepsManual]_vars

\* "Mode to restore when the app rule ends": whatever order rules take over
\* from each other, plug events and edits come in, what the worker will come
\* back to is what was last chosen outside a rule, never the mode of a rule,
\* if no write has failed.
RestoresChoice ==
    sw.app # NoApp /\ ~failed => sw.restore_to = base

\* No mode the firmware takes on the charger alone is kept on battery: an
\* unplugging that a sample can see (a charger out and in again between two
\* samples leaves nothing to see) ends with such a mode left, also when the mode
\* meant for battery is refused, or with the charger back, or switching off.
UnplugLeavesAcOnly ==
    <>[][~Restart]_vars =>
        (cfg.enabled /\ power = "battery" /\ sw.last_ac # "battery"
            ~> ~cfg.enabled \/ power = "ac" \/ ~ac_only(mode))
=============================================================================
