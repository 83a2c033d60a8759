--------------------------- MODULE Services_proofs --------------------------
(***************************************************************************)
(* What holds of the services of the daemon for every value of their       *)
(* constants: each component has its inductive invariant, and the          *)
(* composition, in which a component does only its own steps, keeps all.   *)
(***************************************************************************)
EXTENDS Services, TLAPS, FiniteSetTheorems, WellFoundedInduction

-----------------------------------------------------------------------------
(***************************************************************************)
(* The GPU mode switch (GpuMode): the mode shown is the one the firmware   *)
(* will boot, and the health check reports a doomed boot exactly when one  *)
(* is set.                                                                 *)
(***************************************************************************)

\* An iGPU driver, or none, is what a boot binds.
LEMMA BindsType ==
    ASSUME gate \in Gates, NEW b \in Drivers \cup {NoDriver}, NEW n \in BOOLEAN
    PROVE  [gate EXCEPT !.bound = b, !.nomodeset = n] \in Gates
  BY DEF Gates

LEMMA TypeInit == Init => TypeOK
  <1> SUFFICES ASSUME Init PROVE TypeOK
    OBVIOUS
  <1>1. gate \in Gates /\ (active = "dgpu" => gate.bound = NoDriver)
    BY DEF Init, Gates, Binds
  <1>2. NoMode \notin Modes
    BY DEF NoMode, Modes
  <1>3. QED
    BY <1>1, <1>2 DEF Init, TypeOK

LEMMA TypeSet ==
    ASSUME TypeOK, NEW h \in Handlers, Set(h)
    PROVE  TypeOK'
  <1> USE DEF TypeOK, machine, handlers, vars
  <1>0. /\ NoMode \notin Modes
        /\ \A m \in Modes, p \in {"call", "record"} :
             Goto(h, p, m) => /\ at' \in [Handlers -> {"idle", "call", "record"}]
                              /\ target' \in [Handlers -> Modes \cup {NoMode}]
                              /\ \A g \in Handlers :
                                   (target'[g] = NoMode) = (at'[g] = "idle")
    BY DEF Goto, Modes, NoMode
  <1>1. Goto(h, "idle", NoMode) =>
          /\ at' \in [Handlers -> {"idle", "call", "record"}]
          /\ target' \in [Handlers -> Modes \cup {NoMode}]
          /\ \A g \in Handlers : (target'[g] = NoMode) = (at'[g] = "idle")
    BY DEF Goto
  <1>2. at[h] # "idle" => target[h] \in Modes
    OBVIOUS
  <1>3. CASE Ask(h)
    BY <1>0, <1>3 DEF Ask
  <1>4. CASE AskFails(h)
    BY <1>4 DEF AskFails
  <1>5. CASE Call(h)
    BY <1>0, <1>2, <1>5 DEF Call
  <1>6. CASE CallFails(h)
    BY <1>1, <1>6 DEF CallFails
  <1>7. CASE CallUnanswered(h)
    BY <1>1, <1>2, <1>7 DEF CallUnanswered
  <1>8. CASE Record(h)
    BY <1>1, <1>2, <1>8 DEF Record
  <1>9. CASE RecordFails(h)
    BY <1>1, <1>9 DEF RecordFails
  <1>10. QED
    BY <1>3, <1>4, <1>5, <1>6, <1>7, <1>8, <1>9 DEF Set

LEMMA TypeMachine ==
    TypeOK /\ (Reboot \/ DaemonKilled \/ DriversChange \/ BatteryChanges)
        => TypeOK'
  <1> SUFFICES ASSUME TypeOK,
                      Reboot \/ DaemonKilled \/ DriversChange \/ BatteryChanges
               PROVE  TypeOK'
    OBVIOUS
  <1> USE DEF TypeOK, machine, handlers
  <1>1. CASE Reboot
    <2>1. PICK b \in Drivers \cup {NoDriver}, n \in BOOLEAN :
            /\ Binds(next_boot, b)
            /\ gate' = [gate EXCEPT !.bound = b, !.nomodeset = n]
      BY <1>1 DEF Reboot
    <2>2. gate' \in Gates /\ gate'.bound = b
      BY <2>1, BindsType DEF Gates
    <2>3. next_boot = "dgpu" => b = NoDriver
      BY <2>1 DEF Binds
    <2>4. QED
      BY <1>1, <2>2, <2>3 DEF Reboot, AtRest
  <1>2. CASE DaemonKilled
    BY <1>2 DEF DaemonKilled, AtRest
  <1>3. CASE DriversChange
    <2>1. gate' \in Gates /\ gate'.bound = gate.bound
      BY <1>3 DEF DriversChange, Gates
    <2>2. QED
      BY <1>3, <2>1 DEF DriversChange
  <1>4. CASE BatteryChanges
    BY <1>4 DEF BatteryChanges
  <1>5. QED
    BY <1>1, <1>2, <1>3, <1>4

LEMMA TypeNext == TypeOK /\ [Next]_vars => TypeOK'
  <1> SUFFICES ASSUME TypeOK, [Next]_vars PROVE TypeOK'
    OBVIOUS
  <1>1. CASE UNCHANGED vars
    BY <1>1 DEF vars, machine, handlers, TypeOK
  <1>2. QED
    BY <1>1, TypeSet, TypeMachine DEF Next

\* Every variable keeps its type, in every reachable state.
THEOREM GpuTypeCorrect == Spec => []TypeOK
  BY TypeInit, TypeNext, PTL DEF Spec
-----------------------------------------------------------------------------
\* Unless something was lost: a handler about to record was the last to call
\* the firmware, and with none about to, the record says what was called.
Recorded ==
    ~torn =>
        /\ \A h \in Handlers : at[h] = "record" => target[h] = next_boot
        /\ (\A h \in Handlers : at[h] # "record") => configured = next_boot

IInv == TypeOK /\ Recorded

LEMMA RecordedSet ==
    ASSUME IInv, NEW h \in Handlers, Set(h)
    PROVE  Recorded'
  <1> USE DEF IInv, TypeOK, machine, handlers
  <1>1. CASE Ask(h)
    BY <1>1 DEF Ask, Goto, Recorded, configured
  <1>2. CASE AskFails(h)
    BY <1>2 DEF AskFails, vars, Recorded, configured
  <1>3. CASE Call(h)
    BY <1>3 DEF Call, Goto, Recorded
  <1>4. CASE CallFails(h)
    BY <1>4 DEF CallFails, Goto, Recorded, configured
  <1>5. CASE CallUnanswered(h)
    BY <1>5 DEF CallUnanswered, Recorded
  <1>6. CASE Record(h)
    <2>1. ~torn => configured' = next_boot
      BY <1>6 DEF Record, Recorded, configured, Modes, NoMode
    <2>2. QED
      BY <1>6, <2>1 DEF Record, Goto, Recorded
  <1>7. CASE RecordFails(h)
    BY <1>7 DEF RecordFails, Recorded
  <1>8. QED
    BY <1>1, <1>2, <1>3, <1>4, <1>5, <1>6, <1>7 DEF Set

LEMMA RecordedMachine ==
    IInv /\ (Reboot \/ DaemonKilled \/ DriversChange \/ BatteryChanges)
        => Recorded'
  <1> SUFFICES ASSUME IInv,
                      Reboot \/ DaemonKilled \/ DriversChange \/ BatteryChanges
               PROVE  Recorded'
    OBVIOUS
  <1> USE DEF IInv, TypeOK, machine, handlers
  <1>1. CASE Reboot
    BY <1>1 DEF Reboot, AtRest, Recorded, configured
  <1>2. CASE DaemonKilled
    BY <1>2 DEF DaemonKilled, AtRest, Recorded, configured
  <1>3. CASE DriversChange
    BY <1>3 DEF DriversChange, Recorded, configured
  <1>4. CASE BatteryChanges
    BY <1>4 DEF BatteryChanges, Recorded, configured
  <1>5. QED
    BY <1>1, <1>2, <1>3, <1>4

\* The strengthening holds in every reachable state.
THEOREM RecordInvariant == Spec => []IInv
  <1>1. Init => IInv
    BY TypeInit DEF Init, IInv, Recorded, configured
  <1>2. IInv /\ [Next]_vars => IInv'
    <2> SUFFICES ASSUME IInv, [Next]_vars PROVE IInv'
      OBVIOUS
    <2>1. TypeOK'
      BY TypeNext DEF IInv
    <2>2. CASE UNCHANGED vars
      BY <2>1, <2>2 DEF vars, machine, handlers, IInv, Recorded, configured
    <2>3. QED
      BY <2>1, <2>2, RecordedSet, RecordedMachine DEF Next, IInv
  <1>3. QED
    BY <1>1, <1>2, PTL DEF Spec

\* The mode shown as the next one (configured_mode) is the firmware's, for any
\* number of handlers that switch there and back.
THEOREM ShownIsNext == Spec => []ShownModeIsNext
  <1>1. IInv => ShownModeIsNext
    BY DEF IInv, Recorded, ShownModeIsNext
  <1>2. QED
    BY RecordInvariant, <1>1, PTL

\* self_check fails exactly when the next boot, from the discrete GPU into
\* Hybrid, would leave the panel black, whatever became of the drivers since.
THEOREM DoomedBootIsReported == Spec => []DoomedBootReported
  <1>1. ASSUME IInv, ~torn, \A h \in Handlers : at[h] # "record"
        PROVE  reboot_pending /\ configured = "hybrid"
                 <=> active = "dgpu" /\ next_boot = "hybrid"
    <2>1. configured = next_boot
      BY <1>1 DEF IInv, Recorded
    <2>2. active \in Modes /\ next_boot \in Modes
      BY <1>1 DEF IInv, TypeOK
    <2>3. QED
      BY <2>1, <2>2 DEF configured, reboot_pending, Modes, NoMode
  <1>2. IInv => DoomedBootReported
    BY <1>1 DEF self_check, DoomedBootReported
  <1>3. QED
    BY RecordInvariant, <1>2, PTL
-----------------------------------------------------------------------------
(***************************************************************************)
(* Automatic mode switching (AutoMode).                                    *)
(***************************************************************************)

\* Every nonempty set of indices has a least one.
LEMMA LeastIndex ==
    ASSUME NEW S \in SUBSET Nat, S # {}
    PROVE  \E i \in S : \A j \in S : i <= j
  <1>1. PICK i \in S : \A j \in S : <<j, i>> \notin OpToRel(<, Nat)
    BY NatLessThanWellFounded, WFMin
  <1>2. \A j \in S : ~(j < i)
    BY <1>1 DEF OpToRel
  <1>3. QED
    BY <1>2

\* The rule found is one of the configuration's, for a process that runs; no
\* rule is told from one by its process.
LEMMA MatchingRule ==
    ASSUME NEW c \in Configs, NEW source, NEW procs \in SUBSET Apps,
           NEW r, r = Switching!matching_rule(c, source, procs)
    PROVE  \/ r = Switching!NoRule
           \/ r \in Switching!AppRule
  <1> DEFINE applying ==
               {i \in DOMAIN c.app_rules :
                   Switching!rule_applies(c.app_rules[i], source, procs)}
  <1> DEFINE first == CHOOSE i \in applying : \A j \in applying : i <= j
  <1>1. CASE applying = {} \/ (source = "battery" /\ ~c.apps_on_battery)
    BY <1>1 DEF Switching!matching_rule
  <1>2. CASE ~(applying = {} \/ (source = "battery" /\ ~c.apps_on_battery))
    <2>1. c.app_rules \in Seq(Switching!AppRule)
      BY AutoModeAssumption DEF Switching!AutoModeConfig
    <2>2. applying \subseteq Nat
      BY <2>1
    <2>3. first \in applying
      BY <1>2, <2>2, LeastIndex
    <2>4. r = c.app_rules[first]
      BY <1>2 DEF Switching!matching_rule
    <2>5. ASSUME NEW T, NEW s \in Seq(T), NEW i \in DOMAIN s PROVE s[i] \in T
      OBVIOUS
    <2>6. first \in DOMAIN c.app_rules
      BY <2>3
    <2> HIDE DEF first
    <2>7. QED
      BY <2>1, <2>4, <2>5, <2>6
  <1>3. QED
    BY <1>1, <1>2
LEMMA RuleHasMode ==
    ASSUME NEW c \in Configs, NEW source, NEW procs \in SUBSET Apps,
           NEW r, r = Switching!matching_rule(c, source, procs)
    PROVE  /\ r.process \in Apps \cup {NoApp}
           /\ r.process = NoApp <=> r = Switching!NoRule
           /\ r # Switching!NoRule => r.mode \in Switching!Modes
  <1>1. CASE r = Switching!NoRule
    BY <1>1 DEF Switching!NoRule
  <1>2. CASE r \in Switching!AppRule /\ r # Switching!NoRule
    BY <1>2, AutoModeAssumption DEF Switching!AppRule
  <1>3. QED
    BY <1>1, <1>2, MatchingRule

\* The rule for the power source asks for one of the firmware's modes.
LEMMA PowerRuleMode ==
    ASSUME NEW c \in Configs, NEW source
    PROVE  Switching!power_rule_mode(c, source) \in Switching!Modes
  BY AutoModeAssumption
     DEF Switching!power_rule_mode, Switching!AutoModeConfig, Switching!Modes,
         Switching!ac_only

\* What a sample decides from typed values is typed.
LEMMA StepType ==
    ASSUME Switching!TypeOK, NEW procs \in SUBSET Apps, NEW s,
           s = Switching!step(sw, cfg, power, procs, mode)
    PROVE  LET rule == Switching!matching_rule(cfg, power, procs) IN
           /\ s.sw.last_ac = power /\ s.sw.app = rule.process
           /\ s.sw.restore_to =
                 Switching!restore_to(sw, cfg, power, rule, mode)
           /\ s.sw.restore_to \in Switching!Modes \cup {Switching!None}
           /\ (s.sw.app = NoApp) = (s.sw.restore_to = Switching!None)
           /\ s.sw = [last_ac |-> power, app |-> rule.process,
                      restore_to |-> s.sw.restore_to]
           /\ s.target \in Switching!Modes \cup {Switching!None}
           /\ s.target = LET w == Switching!wanted(sw, cfg, power, rule)
                         IN  IF w = mode THEN Switching!None ELSE w
  <1> DEFINE rule == Switching!matching_rule(cfg, power, procs)
  <1> DEFINE back == Switching!restore_to(sw, cfg, power, rule, mode)
  <1> DEFINE w == Switching!wanted(sw, cfg, power, rule)
  <1>1. /\ cfg \in Configs /\ mode \in Switching!Modes
        /\ sw.app \in Apps \cup {NoApp}
        /\ sw.restore_to \in Switching!Modes \cup {Switching!None}
        /\ (sw.app = NoApp) = (sw.restore_to = Switching!None)
    BY DEF Switching!TypeOK
  <1>2. /\ rule.process = NoApp <=> rule = Switching!NoRule
        /\ rule # Switching!NoRule => rule.mode \in Switching!Modes
    BY <1>1, RuleHasMode
  <1>3. Switching!power_rule_mode(cfg, power) \in Switching!Modes
    BY <1>1, PowerRuleMode
  <1>4. Switching!None \notin Switching!Modes
    BY DEF Switching!None, Switching!Modes
  <1> HIDE DEF rule
  <1>5. /\ back \in Switching!Modes \cup {Switching!None}
        /\ (rule.process = NoApp) = (back = Switching!None)
    <2>1. CASE rule = Switching!NoRule
      BY <1>2, <2>1 DEF Switching!restore_to
    <2>2. CASE rule # Switching!NoRule
      <3>1. back \in Switching!Modes
        BY <1>1, <1>3, <2>2 DEF Switching!restore_to
      <3>2. QED
        BY <1>2, <1>4, <2>2, <3>1
    <2>3. QED
      BY <2>1, <2>2
  <1>6. w \in Switching!Modes \cup {Switching!None}
    BY <1>1, <1>2, <1>3 DEF Switching!wanted
  <1>7. s = [sw     |-> [last_ac |-> power, app |-> rule.process,
                         restore_to |-> back],
             target |-> IF w = mode THEN Switching!None ELSE w]
    BY DEF Switching!step, rule
  <1> HIDE DEF back, w
  <1>8. QED
    BY <1>5, <1>6, <1>7 DEF rule, back, w

LEMMA SwitchingTypeNext ==
    Switching!TypeOK /\ [Switching!Next]_(Switching!vars) => Switching!TypeOK'
  <1> SUFFICES ASSUME Switching!TypeOK, [Switching!Next]_(Switching!vars)
               PROVE  Switching!TypeOK'
    OBVIOUS
  <1> USE DEF Switching!TypeOK, Switching!machineVars, Switching!workerVars,
              Switching!history
  <1>0. /\ Switching!None \notin Switching!Modes
        /\ "balanced" \in Switching!Modes
    BY DEF Switching!None, Switching!Modes
  <1>1. Switching!Switcher.app = NoApp /\ Switching!Switcher
          \in [last_ac : {"ac", "battery", Switching!None},
               app : Apps \cup {NoApp},
               restore_to : Switching!Modes \cup {Switching!None}]
        /\ Switching!Switcher.restore_to = Switching!None
    BY DEF Switching!Switcher
  <1>2. CASE Switching!SampleDisabled
    BY <1>1, <1>2 DEF Switching!SampleDisabled
  <1>3. CASE Switching!Sample
    <2>1. running' \in SUBSET Apps /\ age' \in 0 .. MaxAge
      <3>1. PICK rescan \in IF age = MaxAge THEN {TRUE} ELSE BOOLEAN :
              /\ running' = IF rescan THEN apps ELSE running
              /\ age' = IF rescan THEN 0 ELSE age + 1
        BY <1>3 DEF Switching!Sample
      <3>2. age # MaxAge => age + 1 \in 0 .. MaxAge
        BY AutoModeAssumption
      <3>3. rescan \/ age # MaxAge
        BY <3>1
      <3>4. 0 \in 0 .. MaxAge
        BY AutoModeAssumption
      <3>5. QED
        BY <3>1, <3>2, <3>3, <3>4
    <2> DEFINE s == Switching!step(sw, cfg, power, running', mode)
    <2>2. /\ sw' = s.sw /\ auto_target' = s.target
          /\ auto_at' = IF s.target = Switching!None THEN "sample" ELSE "write"
          /\ base' = base \/ base' = mode
               \/ base' = Switching!power_rule_mode(cfg, power)
          /\ on_ac' = power
          /\ UNCHANGED <<cfg, power, apps, mode, held, failed>>
      BY <1>3 DEF Switching!Sample
    <2>3. Switching!power_rule_mode(cfg, power) \in Switching!Modes
      BY PowerRuleMode
    <2>4. /\ sw' \in [last_ac : {"ac", "battery", Switching!None},
                      app : Apps \cup {NoApp},
                      restore_to : Switching!Modes \cup {Switching!None}]
          /\ (sw'.app = NoApp) = (sw'.restore_to = Switching!None)
      <3> DEFINE rule == Switching!matching_rule(cfg, power, running')
      <3>1. /\ s.sw.restore_to \in Switching!Modes \cup {Switching!None}
            /\ (s.sw.app = NoApp) = (s.sw.restore_to = Switching!None)
            /\ s.sw = [last_ac |-> power, app |-> rule.process,
                       restore_to |-> s.sw.restore_to]
        BY <2>1, StepType
      <3>2. rule.process \in Apps \cup {NoApp}
        BY <2>1, RuleHasMode
      <3> HIDE DEF s, rule
      <3>3. QED
        BY <2>2, <3>1, <3>2
    <2>5. s.target \in Switching!Modes \cup {Switching!None}
      BY <2>1, StepType
    <2> HIDE DEF s
    <2>6. QED
      BY <2>1, <2>2, <2>3, <2>4, <2>5
  <1>4. CASE Switching!SampleUnreadable
    BY <1>4 DEF Switching!SampleUnreadable
  <1>5. CASE Switching!Apply
    BY <1>0, <1>5 DEF Switching!Apply, Switching!Written
  <1>6. CASE Switching!ApplyFails
    BY <1>0, <1>6 DEF Switching!ApplyFails
  <1>7. CASE Switching!ApplyBalanced
    BY <1>0, <1>7 DEF Switching!ApplyBalanced, Switching!Written
  <1>8. CASE Switching!ManualChange
    <2>1. held' \in BOOLEAN
      BY <1>8 DEF Switching!ManualChange, Switching!CaughtUp
    <2>2. QED
      BY <1>8, <2>1, AutoModeAssumption DEF Switching!ManualChange
  <1>9. CASE Switching!PlugEvent
    BY <1>9 DEF Switching!PlugEvent, Switching!AnEvent
  <1>10. CASE Switching!AppStartsOrEnds
    BY <1>10 DEF Switching!AppStartsOrEnds, Switching!AnEvent
  <1>11. CASE Switching!SetAutoMode
    BY <1>11 DEF Switching!SetAutoMode, Switching!AnEvent
  <1>12. CASE Switching!Restart
    <2>1. 0 \in 0 .. MaxAge
      BY AutoModeAssumption
    <2>2. mode' \in Switching!Modes /\ on_ac' \in {"ac", "battery"}
          /\ base' \in Switching!Modes \cup {Switching!None}
      BY <1>12 DEF Switching!Restart
    <2>3. sw' = Switching!Switcher
      BY <1>12 DEF Switching!Restart
    <2> QED
      BY <1>1, <1>12, <2>1, <2>2, <2>3 DEF Switching!Restart
  <1>13. CASE UNCHANGED Switching!vars
    BY <1>13 DEF Switching!vars
  <1>14. QED
    BY <1>2, <1>3, <1>4, <1>5, <1>6, <1>7, <1>8, <1>9, <1>10, <1>11, <1>12,
       <1>13 DEF Switching!Next, Switching!Worker
\* As long as no write has failed: what a rule will be left for is what was
\* chosen last outside of one, and between samples, with no rule in force, that
\* is the mode in force.
ChoiceKept ==
    ~failed =>
        /\ sw.app # NoApp => sw.restore_to = base
        /\ sw.app = NoApp /\ auto_at = "sample" => base = mode

\* A manual choice holds while the worker has handled everything, and then it
\* has no write to do.
HeldHandled == held => Switching!CaughtUp

SwitchingInv == Switching!TypeOK /\ ChoiceKept /\ HeldHandled

LEMMA ChoiceKeptSample ==
    ASSUME SwitchingInv, Switching!Sample
    PROVE  ChoiceKept'
  <1>1. PICK procs \in SUBSET Apps : running' = procs
    BY DEF Switching!Sample, SwitchingInv, Switching!TypeOK
  <1> DEFINE s == Switching!step(sw, cfg, power, procs, mode)
  <1> DEFINE rule == Switching!matching_rule(cfg, power, procs)
  <1> DEFINE w == Switching!wanted(sw, cfg, power, rule)
  <1>2. /\ s.sw.app = rule.process
        /\ s.sw.restore_to = Switching!restore_to(sw, cfg, power, rule, mode)
        /\ s.target = IF w = mode THEN Switching!None ELSE w
    BY StepType DEF SwitchingInv
  <1>3. /\ auto_at = "sample" /\ failed' = failed /\ mode' = mode
        /\ sw' = s.sw
        /\ auto_at' = IF s.target = Switching!None THEN "sample" ELSE "write"
        /\ base' = CASE s.sw.app # NoApp /\ sw.last_ac # power
                           -> Switching!power_rule_mode(cfg, power)
                     [] s.sw.app = NoApp /\ s.target = Switching!None -> mode
                     [] OTHER -> base
    BY <1>1 DEF Switching!Sample
  <1>4. rule.process = NoApp <=> rule = Switching!NoRule
    BY RuleHasMode DEF SwitchingInv, Switching!TypeOK
  <1>5. sw.app = NoApp <=> sw.restore_to = Switching!None
    BY DEF SwitchingInv, Switching!TypeOK
  <1> HIDE DEF s, rule
  <1>6. ASSUME ~failed, rule # Switching!NoRule
        PROVE  sw'.restore_to = base'
    <2>1. CASE sw.last_ac # power
      BY <1>2, <1>3, <1>4, <1>6, <2>1 DEF Switching!restore_to
    <2>2. CASE sw.last_ac = power
      <3>1. base' = base
        BY <1>2, <1>3, <1>4, <1>6, <2>2
      <3>2. CASE sw.app = NoApp
        BY <1>2, <1>3, <1>6, <2>2, <3>1, <3>2
           DEF Switching!restore_to, SwitchingInv, ChoiceKept
      <3>3. CASE sw.app # NoApp
        BY <1>2, <1>3, <1>6, <2>2, <3>1, <3>3
           DEF Switching!restore_to, SwitchingInv, ChoiceKept
      <3>4. QED
        BY <3>2, <3>3
    <2>3. QED
      BY <2>1, <2>2
  <1>7. ASSUME ~failed, rule = Switching!NoRule, auto_at' = "sample"
        PROVE  base' = mode'
    BY <1>2, <1>3, <1>4, <1>7
  <1>8. QED
    BY <1>2, <1>3, <1>4, <1>6, <1>7 DEF ChoiceKept

LEMMA HeldHandledSample ==
    ASSUME SwitchingInv, Switching!Sample
    PROVE  /\ HeldHandled'
           /\ held => auto_at' = "sample"
  <1> SUFFICES ASSUME held
               PROVE  Switching!CaughtUp' /\ auto_at' = "sample"
    BY DEF Switching!Sample, HeldHandled
  <1>1. /\ auto_at = "sample" /\ cfg.enabled
        /\ sw.last_ac = power /\ running = apps
        /\ sw.app = Switching!matching_rule(cfg, power, apps).process
    BY DEF SwitchingInv, HeldHandled, Switching!CaughtUp
  <1>2. running' = apps /\ apps \in SUBSET Apps
    BY <1>1 DEF Switching!Sample, SwitchingInv, Switching!TypeOK
  <1> DEFINE s == Switching!step(sw, cfg, power, apps, mode)
  <1> DEFINE rule == Switching!matching_rule(cfg, power, apps)
  <1> DEFINE w == Switching!wanted(sw, cfg, power, rule)
  <1>3. /\ s.sw.last_ac = power /\ s.sw.app = rule.process
        /\ s.target = IF w = mode THEN Switching!None ELSE w
    BY <1>2, StepType DEF SwitchingInv
  <1>4. rule.process = NoApp <=> rule = Switching!NoRule
    BY <1>2, RuleHasMode DEF SwitchingInv, Switching!TypeOK
  <1>5. /\ sw' = s.sw /\ UNCHANGED <<cfg, power, apps>>
        /\ auto_at' = IF s.target = Switching!None THEN "sample" ELSE "write"
    BY <1>2 DEF Switching!Sample, Switching!machineVars
  <1> HIDE DEF s
  <1>6. w = Switching!None
    <2> HIDE DEF rule
    <2>1. sw.app = rule.process
      BY <1>1 DEF rule
    <2>2. QED
      BY <1>1, <1>4, <2>1 DEF Switching!wanted
  <1>7. s.target = Switching!None
    BY <1>3, <1>6
  <1>8. QED
    BY <1>1, <1>2, <1>3, <1>5, <1>7 DEF Switching!CaughtUp

LEMMA SwitchingNext ==
    SwitchingInv /\ [Switching!Next]_(Switching!vars) => SwitchingInv'
  <1> SUFFICES ASSUME SwitchingInv, [Switching!Next]_(Switching!vars)
               PROVE  SwitchingInv'
    OBVIOUS
  <1>0. Switching!TypeOK'
    BY SwitchingTypeNext DEF SwitchingInv
  <1>t. Switching!TypeOK
    BY DEF SwitchingInv
  <1> USE <1>0 DEF SwitchingInv, Switching!machineVars, Switching!workerVars,
                   Switching!history
  <1>2. CASE Switching!SampleDisabled
    BY <1>2 DEF Switching!SampleDisabled, Switching!Switcher, ChoiceKept,
                HeldHandled, Switching!CaughtUp
  <1>3. CASE Switching!Sample
    BY <1>3, ChoiceKeptSample, HeldHandledSample
  <1>4. CASE Switching!SampleUnreadable
    BY <1>4 DEF Switching!SampleUnreadable, ChoiceKept, HeldHandled,
                Switching!CaughtUp
  <1>5. CASE Switching!Apply
    BY <1>5 DEF Switching!Apply, Switching!Written, ChoiceKept, HeldHandled
  <1>6. CASE Switching!ApplyFails
    BY <1>6 DEF Switching!ApplyFails, ChoiceKept, HeldHandled,
                Switching!CaughtUp
  <1>7. CASE Switching!ApplyBalanced
    BY <1>7 DEF Switching!ApplyBalanced, Switching!Written, ChoiceKept,
                HeldHandled
  <1>8. CASE Switching!ManualChange
    BY <1>8 DEF Switching!ManualChange, ChoiceKept, HeldHandled,
                Switching!CaughtUp
  <1>9. CASE Switching!PlugEvent
    BY <1>9 DEF Switching!PlugEvent, Switching!AnEvent, ChoiceKept, HeldHandled
  <1>10. CASE Switching!AppStartsOrEnds
    BY <1>10 DEF Switching!AppStartsOrEnds, Switching!AnEvent, ChoiceKept,
                 HeldHandled
  <1>11. CASE Switching!SetAutoMode
    BY <1>11 DEF Switching!SetAutoMode, Switching!AnEvent, ChoiceKept,
                 HeldHandled
  <1>12. CASE Switching!Restart
    BY <1>12 DEF Switching!Restart, Switching!Switcher, ChoiceKept, HeldHandled
  <1>13. CASE UNCHANGED Switching!vars
    BY <1>13 DEF Switching!vars, ChoiceKept, HeldHandled, Switching!CaughtUp
  <1>14. QED
    BY <1>2, <1>3, <1>4, <1>5, <1>6, <1>7, <1>8, <1>9, <1>10, <1>11, <1>12,
       <1>13 DEF Switching!Next, Switching!Worker

LEMMA SwitchingInit == InitParts => SwitchingInv
  <1> SUFFICES ASSUME InitParts PROVE SwitchingInv
    OBVIOUS
  <1>1. Switching!Init
    BY DEF InitParts
  <1>2. 0 \in 0 .. MaxAge
    BY AutoModeAssumption
  <1>3. Switching!TypeOK
    BY <1>1, <1>2 DEF Switching!Init, Switching!TypeOK, Switching!Switcher,
                      Switching!Modes, Switching!None
  <1>4. QED
    BY <1>1, <1>3 DEF Switching!Init, Switching!Switcher, SwitchingInv,
                      ChoiceKept, HeldHandled

\* In a behaviour of the composition the worker does only its own steps.
LEMMA SwitchingAlone == [NextParts]_allVars => [Switching!Next]_(Switching!vars)
  <1>1. UNCHANGED SwitchingVars => UNCHANGED Switching!vars
    BY DEF SwitchingVars, Switching!vars, Switching!machineVars,
           Switching!workerVars, Switching!history
  <1>2. QED
    BY <1>1 DEF NextParts, MainSteps, SwitchingSteps, LimitSteps, ServerSteps,
                allVars

\* What a rule will be left for is the choice, and a manual choice still to
\* hold has left the worker nothing to write (profile.rs, Switcher).
THEOREM SwitchingInvariant == SpecParts => []SwitchingInv
  BY SwitchingInit, SwitchingNext, SwitchingAlone, PTL DEF SpecParts

\* What the worker comes back to is the choice.
THEOREM ChoiceIsRestored == SpecParts => []RestoresChoice
  <1>1. SwitchingInv => RestoresChoice
    BY DEF SwitchingInv, ChoiceKept, RestoresChoice, Switching!RestoresChoice
  <1>2. QED
    BY SwitchingInvariant, <1>1, PTL

\* A manual choice is not written over.
THEOREM ManualChoiceHolds == SpecParts => ManualHolds
  <1>1. SwitchingInv /\ [NextParts]_allVars
          => [part = "auto mode" => Switching!KeepsManual]_allVars
    BY DEF SwitchingInv, HeldHandled, Switching!CaughtUp,
           Switching!KeepsManual, Switching!Apply, Switching!ApplyBalanced
  <1>2. QED
    BY SwitchingInvariant, <1>1, PTL DEF SpecParts, ManualHolds
-----------------------------------------------------------------------------
(***************************************************************************)
(* The charge limit (ChargeLimiter).                                       *)
(***************************************************************************)

LEMMA Discretized == \A pct : Limit!discretize_limit(pct) \in Limit!Limits
  BY DEF Limit!discretize_limit, Limit!Limits

\* One thread goes to another program point, with a limit and with readings.
LimitGoes(t, p, l, n) ==
    /\ step'  = [step EXCEPT ![t] = p]
    /\ want'  = [want EXCEPT ![t] = l]
    /\ tries' = [tries EXCEPT ![t] = n]

\* What the threads share keeps its type.
LimitShared ==
    /\ interface \in {"charge_types", "conservation_mode"}
    /\ readable \in BOOLEAN /\ obedient \in BOOLEAN
    /\ limited \in BOOLEAN /\ overtaken \in BOOLEAN
    /\ DESIRED_LIMIT \in Limit!Limits \cup {0}
    /\ asked \in Limit!Limits \cup {0}

LEMMA LimitThread ==
    ASSUME Limit!TypeOK, LimitShared', NEW t \in Limit!Threads, NEW p, NEW l,
           NEW n, LimitGoes(t, p, l, n),
           p \in {"idle", "check", "store", "write", "verify"},
           l \in Limit!Limits \cup {0}, n \in 0 .. Tries,
           n > 0 <=> p = "verify", l = 0 <=> p = "idle"
    PROVE  Limit!TypeOK'
  BY DEF Limit!TypeOK, LimitGoes, LimitShared

LEMMA LimitStep ==
    ASSUME Limit!TypeOK, NEW t \in Limit!Threads,
           \/ Limit!SetChargeLimit(t) \/ Limit!SetLimit(t)
           \/ Limit!Wake(t) \/ Limit!Check(t)
    PROVE  Limit!TypeOK'
  <1>s. LimitShared
    BY DEF Limit!TypeOK, LimitShared
  <1>t. /\ step \in [Limit!Threads ->
                       {"idle", "check", "store", "write", "verify"}]
        /\ want \in [Limit!Threads -> Limit!Limits \cup {0}]
        /\ tries \in [Limit!Threads -> 0 .. Tries]
        /\ tries[t] > 0 <=> step[t] = "verify"
        /\ want[t] = 0 <=> step[t] = "idle"
    BY DEF Limit!TypeOK
  <1>k. /\ want[t] \in Limit!Limits \cup {0} /\ tries[t] \in 0 .. Tries
        /\ want = [want EXCEPT ![t] = want[t]]
        /\ tries = [tries EXCEPT ![t] = tries[t]]
    BY <1>t
  <1>n. /\ Tries \in Nat \ {0} /\ 0 \in 0 .. Tries /\ 1 \in 0 .. Tries
        /\ Tries \in 0 .. Tries /\ 0 \notin Limit!Limits
        /\ 1 > 0 /\ Tries > 0 /\ ~(0 > 0)
    BY ChargeLimiterAssumption DEF Limit!Limits
  <1>z. tries[t] > 0 \/ tries[t] = 0
    BY <1>k, <1>n
  <1>e. Limit!Ends(t) /\ LimitShared' => Limit!TypeOK'
    <2>1. Limit!Ends(t) => LimitGoes(t, "idle", 0, 0)
      BY DEF Limit!Ends, Limit!Goto, LimitGoes
    <2>2. QED
      BY <1>n, <2>1, LimitThread
  <1>1. CASE Limit!SetChargeLimit(t)
    <2>1. PICK l \in Limit!Limits : want' = [want EXCEPT ![t] = l]
      BY <1>1, Discretized DEF Limit!SetChargeLimit
    <2>2. LimitGoes(t, "store", l, 0)
      BY <1>1, <1>k, <1>t, <1>z, <2>1
         DEF Limit!SetChargeLimit, Limit!Goto, LimitGoes
    <2>3. LimitShared'
      BY <1>1, <1>s DEF Limit!SetChargeLimit, LimitShared, Limit!ecVars
    <2>4. QED
      BY <1>n, <2>1, <2>2, <2>3, LimitThread
  <1>2. CASE Limit!Store(t)
    <2>1. LimitGoes(t, "write", want[t], 0) /\ want[t] # 0
      BY <1>2, <1>k, <1>t, <1>z DEF Limit!Store, Limit!Goto, LimitGoes
    <2>2. LimitShared'
      BY <1>2, <1>s, <1>k
         DEF Limit!Store, Limit!Repairing, LimitShared, Limit!ecVars
    <2>3. QED
      BY <1>n, <1>k, <2>1, <2>2, LimitThread
  <1>3. CASE Limit!Write(t)
    <2>1. PICK n \in {1, Tries} : tries' = [tries EXCEPT ![t] = n]
      BY <1>3 DEF Limit!Write
    <2>2. LimitGoes(t, "verify", want[t], n) /\ want[t] # 0
      BY <1>3, <1>k, <1>t, <2>1 DEF Limit!Write, Limit!Goto, LimitGoes
    <2>3. LimitShared'
      <3>1. Limit!preserve(want[t]) \in BOOLEAN
        BY DEF Limit!preserve
      <3>2. limited' \in BOOLEAN
        BY <1>3, <1>s, <3>1 DEF Limit!Write, LimitShared
      <3>3. QED
        BY <1>3, <1>s, <3>2 DEF Limit!Write, LimitShared, Limit!ecVars
    <2>4. n > 0 /\ n \in 0 .. Tries
      BY <1>n, <2>1
    <2>5. QED
      BY <1>k, <2>2, <2>3, <2>4, LimitThread
  <1>4. CASE Limit!WriteFails(t)
    BY <1>4, <1>s, <1>e DEF Limit!WriteFails, Limit!ecVars, LimitShared
  <1>5. CASE Limit!Verify(t)
    <2>s. LimitShared'
      BY <1>5, <1>s DEF Limit!Verify, Limit!ecVars, LimitShared
    <2>1. CASE Limit!Ends(t)
      BY <1>e, <2>1, <2>s
    <2>2. CASE ~Limit!Ends(t)
      <3>1. /\ tries' = [tries EXCEPT ![t] = tries[t] - 1]
            /\ tries[t] # 1 /\ UNCHANGED <<step, want>> /\ step[t] = "verify"
        BY <1>5, <2>2 DEF Limit!Verify
      <3>2. tries[t] - 1 \in 0 .. Tries /\ tries[t] - 1 > 0
        BY <1>t, <1>k, <1>n, <3>1
      <3>3. LimitGoes(t, "verify", want[t], tries[t] - 1) /\ want[t] # 0
        BY <1>t, <1>k, <3>1 DEF LimitGoes
      <3>4. QED
        BY <1>k, <2>s, <3>2, <3>3, LimitThread
    <2>3. QED
      BY <2>1, <2>2
  <1>6. CASE Limit!Wake(t)
    <2>1. LimitGoes(t, "check", DESIRED_LIMIT, 0)
      BY <1>6, <1>k, <1>t, <1>z DEF Limit!Wake, Limit!Goto, LimitGoes
    <2>2. LimitShared' /\ DESIRED_LIMIT # 0
      BY <1>6, <1>s DEF Limit!Wake, Limit!ecVars, LimitShared
    <2>3. DESIRED_LIMIT \in Limit!Limits \cup {0}
      BY <1>s DEF LimitShared
    <2>4. QED
      BY <1>n, <2>1, <2>2, <2>3, LimitThread
  <1>7. CASE Limit!Check(t)
    <2>s. LimitShared'
      BY <1>7, <1>s DEF Limit!Check, Limit!ecVars, LimitShared
    <2>1. CASE Limit!Ends(t)
      BY <1>e, <2>1, <2>s
    <2>2. CASE ~Limit!Ends(t)
      <3>1. /\ Limit!Goto(t, "store") /\ UNCHANGED <<want, tries>>
            /\ step[t] = "check"
        BY <1>7, <2>2 DEF Limit!Check
      <3>2. LimitGoes(t, "store", want[t], 0) /\ want[t] # 0
        BY <1>t, <1>k, <1>z, <3>1 DEF Limit!Goto, LimitGoes
      <3>3. QED
        BY <1>k, <1>n, <2>s, <3>2, LimitThread
    <2>3. QED
      BY <2>1, <2>2
  <1>8. QED
    BY <1>1, <1>2, <1>3, <1>4, <1>5, <1>6, <1>7 DEF Limit!SetLimit

LEMMA LimitTypeNext ==
    Limit!TypeOK /\ [Limit!Next]_(Limit!vars) => Limit!TypeOK'
  <1> SUFFICES ASSUME Limit!TypeOK, [Limit!Next]_(Limit!vars)
               PROVE  Limit!TypeOK'
    OBVIOUS
  <1>1. CASE \E t \in Limit!Threads :
               \/ Limit!SetChargeLimit(t) \/ Limit!SetLimit(t)
               \/ Limit!Wake(t) \/ Limit!Check(t)
    BY <1>1, LimitStep
  <1>2. CASE Limit!EcDropsLimit
    BY <1>2 DEF Limit!TypeOK, Limit!EcDropsLimit, Limit!ecVars, Limit!locals
  <1>3. CASE Limit!EcChanges
    BY <1>3 DEF Limit!TypeOK, Limit!EcChanges, Limit!locals
  <1>4. CASE Limit!Restart
    <2>1. /\ DESIRED_LIMIT' \in Limit!Limits \cup {0}
          /\ asked' \in Limit!Limits \cup {0}
      BY <1>4 DEF Limit!Restart, Limit!seed_desired_from_effective,
                  Limit!charge_limit_pct, Limit!Limits
    <2>2. 0 \in 0 .. Tries /\ ~(0 > 0)
      BY ChargeLimiterAssumption
    <2>3. UNCHANGED <<interface, readable, obedient, limited>>
          /\ overtaken' \in BOOLEAN
      BY <1>4 DEF Limit!Restart, Limit!ecVars
    <2>4. /\ step' = [t \in Limit!Threads |-> "idle"]
          /\ want' = [t \in Limit!Threads |-> 0]
          /\ tries' = [t \in Limit!Threads |-> 0]
      BY <1>4 DEF Limit!Restart
    <2>5. QED
      BY <2>1, <2>2, <2>3, <2>4 DEF Limit!TypeOK
  <1>5. CASE UNCHANGED Limit!vars
    BY <1>5 DEF Limit!TypeOK, Limit!vars, Limit!ecVars, Limit!locals
  <1>6. QED
    BY <1>1, <1>2, <1>3, <1>4, <1>5
       DEF Limit!Next, Limit!Repair, Limit!Threads

LEMMA LimitInit == InitParts => Limit!TypeOK
  <1> SUFFICES ASSUME Limit!Init PROVE Limit!TypeOK
    BY DEF InitParts
  <1>1. DESIRED_LIMIT \in Limit!Limits \cup {0} /\ asked = DESIRED_LIMIT
    BY DEF Limit!Init, Limit!seed_desired_from_effective,
           Limit!charge_limit_pct, Limit!Limits
  <1>2. 0 \in 0 .. Tries /\ ~(0 > 0)
    BY ChargeLimiterAssumption
  <1>3. /\ step = [t \in Limit!Threads |-> "idle"]
        /\ want = [t \in Limit!Threads |-> 0]
        /\ tries = [t \in Limit!Threads |-> 0]
    BY DEF Limit!Init, Limit!AtRest
  <1>4. LimitShared
    BY <1>1 DEF Limit!Init, LimitShared
  <1>5. QED
    BY <1>2, <1>3, <1>4 DEF LimitShared, Limit!TypeOK

LEMMA LimitAlone == [NextParts]_allVars => [Limit!Next]_(Limit!vars)
  BY DEF LimitVars, Limit!vars, Limit!ecVars, Limit!locals, NextParts,
         MainSteps, SwitchingSteps, LimitSteps, ServerSteps, allVars

\* The charge limiter's variables keep their types, for any clients and limits
\* (battery.rs).
THEOREM LimitTypeCorrect == SpecParts => [](Limit!TypeOK)
  BY LimitInit, LimitTypeNext, LimitAlone, PTL DEF SpecParts

\* Unless a client asked while a repair was about to store: what is desired is
\* what was asked for, and no repair is about another limit.
AskedKept ==
    ~overtaken =>
        /\ DESIRED_LIMIT = asked
        /\ \A r \in Repairers : step[r] \in {"check", "store"} => want[r] = asked

\* Each step keeps it: a repair takes up what is desired, a client's store finds
\* no repair about to store or is marked as having met one.
LEMMA AskedKeptNext ==
    Limit!TypeOK /\ AskedKept /\ [Limit!Next]_(Limit!vars) => AskedKept'
  <1> SUFFICES ASSUME Limit!TypeOK, AskedKept, [Limit!Next]_(Limit!vars)
               PROVE  AskedKept'
    OBVIOUS
  <1> USE DEF Limit!Goto, Limit!ecVars, Limit!locals
  <1>1. /\ step \in [Limit!Threads ->
                       {"idle", "check", "store", "write", "verify"}]
        /\ want \in [Limit!Threads -> Limit!Limits \cup {0}]
        /\ Clients \cap Repairers = {}
        /\ Limit!Threads = Clients \cup Repairers
    BY ChargeLimiterAssumption DEF Limit!TypeOK, Limit!Threads
  <1>2. ASSUME NEW c \in Clients, Limit!SetChargeLimit(c)
        PROVE  AskedKept'
    BY <1>1, <1>2 DEF Limit!SetChargeLimit, AskedKept
  <1>3. ASSUME NEW t \in Limit!Threads, Limit!Store(t)
        PROVE  AskedKept'
    <2>1. step'[t] = "write" /\ want' = want
          /\ \A r \in Limit!Threads \ {t} : step'[r] = step[r]
      BY <1>1, <1>3 DEF Limit!Store
    <2>2. CASE t \in Clients
      BY <1>1, <1>3, <2>1, <2>2 DEF Limit!Store, Limit!Repairing, AskedKept
    <2>3. CASE t \in Repairers
      BY <1>1, <1>3, <2>1, <2>3 DEF Limit!Store, AskedKept
    <2>4. QED
      BY <1>1, <2>2, <2>3
  <1>4. ASSUME NEW t \in Limit!Threads,
               Limit!Write(t) \/ Limit!WriteFails(t) \/ Limit!Verify(t)
                 \/ Limit!Check(t)
        PROVE  AskedKept'
    <2> DEFINE Others == \A r \in Limit!Threads \ {t} :
                           step'[r] = step[r] /\ want'[r] = want[r]
    <2>1. Others /\ \/ step'[t] \in {"verify", "idle"}
                    \/ step[t] = "check" /\ want'[t] = want[t]
      <3>1. CASE Limit!Ends(t)
        BY <1>1, <3>1 DEF Limit!Ends
      <3>2. CASE Limit!Goto(t, "verify") /\ want' = want
        BY <1>1, <3>2
      <3>3. CASE Limit!Goto(t, "store") /\ want' = want /\ step[t] = "check"
        BY <1>1, <3>3
      <3>4. CASE step' = step /\ want' = want /\ step[t] = "verify"
        BY <3>4
      <3>5. QED
        BY <1>4, <3>1, <3>2, <3>3, <3>4
           DEF Limit!Write, Limit!WriteFails, Limit!Verify, Limit!Check
    <2>2. UNCHANGED <<DESIRED_LIMIT, asked, overtaken>>
      BY <1>4 DEF Limit!Write, Limit!WriteFails, Limit!Verify, Limit!Check
    <2>3. QED
      BY <1>1, <2>1, <2>2 DEF AskedKept
  <1>5. ASSUME NEW r \in Repairers, Limit!Wake(r)
        PROVE  AskedKept'
    BY <1>1, <1>5 DEF Limit!Wake, AskedKept
  <1>6. CASE Limit!EcDropsLimit \/ Limit!EcChanges \/ UNCHANGED Limit!vars
    BY <1>6 DEF Limit!EcDropsLimit, Limit!EcChanges, Limit!vars, AskedKept
  <1>7. CASE Limit!Restart
    BY <1>1, <1>7 DEF Limit!Restart, AskedKept
  <1>8. QED
    BY <1>1, <1>2, <1>3, <1>4, <1>5, <1>6, <1>7
       DEF Limit!Next, Limit!SetLimit, Limit!Repair

\* What a repair asserts again is the limit asked for last (battery.rs,
\* reassert_configured_limit), unless that was asked for while the repair was
\* about to store what it had read before.
THEOREM RepairsAssertTheLast == SpecParts => []AskedKept
  <1>1. InitParts => AskedKept
    BY DEF InitParts, Limit!Init, Limit!AtRest, Limit!Threads, AskedKept
  <1>2. Limit!TypeOK /\ AskedKept /\ [NextParts]_allVars => AskedKept'
    BY AskedKeptNext, LimitAlone
  <1>3. QED
    BY <1>1, <1>2, LimitTypeCorrect, PTL DEF SpecParts
-----------------------------------------------------------------------------
(***************************************************************************)
(* The socket server (CommandServer).                                      *)
(***************************************************************************)

States == {"none", "backlog"} \cup Server!Handling

\* Cardinality as the instance has it.
LEMMA CountIsCardinality == \A S : Server!Cardinality(S) = Cardinality(S)
  BY DEF Server!Cardinality, Cardinality

\* How the number of handlers changes with one connection.
LEMMA ServingChange ==
    ASSUME Server!TypeOK, NEW c \in Conns, NEW s \in States,
           Server!Server(c, s)
    PROVE  /\ server' \in [Conns -> States]
           /\ Cardinality(Server!Serving) \in Nat
           /\ server[c] \in Server!Handling => Cardinality(Server!Serving) > 0
           /\ Cardinality(Server!Serving') =
                 IF (server[c] \in Server!Handling) = (s \in Server!Handling)
                 THEN Cardinality(Server!Serving)
                 ELSE IF s \in Server!Handling
                 THEN Cardinality(Server!Serving) + 1
                 ELSE Cardinality(Server!Serving) - 1
  <1> DEFINE S == Server!Serving
  <1>1. server' = [server EXCEPT ![c] = s] /\ server \in [Conns -> States]
    BY DEF Server!Server, Server!TypeOK, States
  <1>2. IsFiniteSet(S)
    BY CommandServerAssumption, FS_Subset DEF Server!Serving
  <1>3. c \in S <=> server[c] \in Server!Handling
    BY DEF Server!Serving
  <1>4. S' = IF s \in Server!Handling THEN S \cup {c} ELSE S \ {c}
    BY <1>1 DEF Server!Serving
  <1>5. /\ Cardinality(S) \in Nat
        /\ Cardinality(S \cup {c}) =
             IF c \in S THEN Cardinality(S) ELSE Cardinality(S) + 1
        /\ Cardinality(S \ {c}) =
             IF c \in S THEN Cardinality(S) - 1 ELSE Cardinality(S)
        /\ c \in S => Cardinality(S) # 0
    BY <1>2, FS_CardinalityType, FS_AddElement, FS_RemoveElement, FS_EmptySet
  <1>6. server' \in [Conns -> States]
    BY <1>1
  <1> HIDE DEF S
  <1>7. /\ c \in S => Cardinality(S) > 0
        /\ Cardinality(S') =
             IF (c \in S) = (s \in Server!Handling) THEN Cardinality(S)
             ELSE IF s \in Server!Handling THEN Cardinality(S) + 1
             ELSE Cardinality(S) - 1
    BY <1>4, <1>5
  <1>8. QED
    BY <1>3, <1>5, <1>6, <1>7 DEF S

LEMMA AllClosedType ==
    ASSUME Server!AllClosed
    PROVE  /\ server' \in [Conns -> States]
           /\ Server!Serving' = {}
           /\ active_clients' = Cardinality(Server!Serving')
  <1>1. Server!Serving' = {}
    BY DEF Server!AllClosed, Server!Serving, Server!Handling
  <1>2. QED
    BY <1>1, FS_EmptySet DEF Server!AllClosed, States

\* A daemon on its way out with no command still to run as it gave the fans back
\* has none after that, and has left them to the firmware.
FreedAlone ==
    main \in {"closing", "gone"} /\ ~late => fans = "auto" /\ ~Server!AtWork

ServerInv == Server!TypeOK /\ FreedAlone

\* What a step of one connection does to the connections and their handlers.
LEMMA ConnectionStep ==
    ASSUME ServerInv, NEW c \in Conns,
           \/ Server!Accept(c) \/ Server!SpawnFails(c)
           \/ Server!Handler(c) \/ Server!Peer(c)
    PROVE  ServerInv'
  <1> DEFINE moves(n) == /\ UNCHANGED <<main, late>>
                         /\ client' \in [Conns -> Server!ClientStates]
                         /\ frame' \in [Conns -> 0 .. Trickle]
                         /\ fans' \in {"auto", "manual"}
                         /\ active_clients' = active_clients + n
  <1>t. /\ client \in [Conns -> Server!ClientStates]
        /\ server \in [Conns -> States]
        /\ frame \in [Conns -> 0 .. Trickle]
        /\ active_clients = Cardinality(Server!Serving)
        /\ active_clients <= MAX_CLIENTS
        /\ main \in {"serving", "draining", "restoring", "closing", "gone"}
        /\ fans \in {"auto", "manual"} /\ late \in BOOLEAN
    BY CountIsCardinality DEF ServerInv, Server!TypeOK, States
  <1>c. /\ \A s \in Server!ClientStates :
             Server!Client(c, s) => client' \in [Conns -> Server!ClientStates]
        /\ frame[c] > 0 => frame[c] - 1 \in 0 .. Trickle
        /\ Trickle \in 0 .. Trickle /\ 0 \in 0 .. Trickle
        /\ {"none", "silent", "cut", "waiting", "ok", "error"}
             \subseteq Server!ClientStates
    BY <1>t, CommandServerAssumption DEF Server!Client, Server!ClientStates
  <1>n. Cardinality(Server!Serving) \in Nat
    BY ServingChange, FS_Subset, FS_CardinalityType, CommandServerAssumption
       DEF Server!Serving
  <1>1. CASE \/ Server!Connect(c) \/ Server!Refuse(c) \/ Server!ReadCommand(c)
             \/ Server!ReadTimeout(c) \/ Server!Run(c) \/ Server!Reply(c)
             \/ Server!ReplyFails(c)
             \/ Server!Accept(c) \/ Server!SpawnFails(c)
    <2>1. PICK s \in States :
             /\ Server!Server(c, s)
             /\ moves(IF (server[c] \in Server!Handling)
                          = (s \in Server!Handling) THEN 0
                     ELSE IF s \in Server!Handling THEN 1 ELSE -1)
             /\ s \in Server!Handling /\ server[c] \notin Server!Handling
                  => main = "serving" /\ active_clients < MAX_CLIENTS
             /\ s \in {"read", "run"} /\ server[c] \notin {"read", "run"}
                  => main = "serving"
             /\ fans' # fans => server[c] = "run"
      <3>1. CASE Server!Connect(c)
        BY <1>t, <1>c, <1>n, <3>1
           DEF Server!Connect, States, Server!Handling
      <3>2. CASE Server!Refuse(c)
        BY <1>t, <1>c, <1>n, <3>2 DEF Server!Refuse, States, Server!Handling
      <3>3. CASE Server!ReadCommand(c)
        BY <1>t, <1>c, <1>n, <3>3
           DEF Server!ReadCommand, States, Server!Handling
      <3>4. CASE Server!ReadTimeout(c)
        BY <1>t, <1>c, <3>4 DEF Server!ReadTimeout, Server!Ends, States,
                                Server!Handling
      <3>5. CASE Server!Run(c)
        BY <1>t, <1>c, <1>n, <3>5 DEF Server!Run, States, Server!Handling
      <3>6. CASE Server!Reply(c)
        BY <1>t, <1>c, <3>6 DEF Server!Reply, Server!Ends, States,
                                Server!Handling
      <3>7. CASE Server!ReplyFails(c)
        BY <1>t, <1>c, <3>7 DEF Server!ReplyFails, Server!Ends, States,
                                Server!Handling
      <3>9. CASE Server!Accept(c)
        BY <1>t, <1>c, <1>n, <3>9, CommandServerAssumption
           DEF Server!Accept, States, Server!Handling
      <3>10. CASE Server!SpawnFails(c)
        BY <1>t, <1>c, <1>n, <3>10
           DEF Server!SpawnFails, States, Server!Handling
      <3>11. QED
        BY <1>1, <3>1, <3>2, <3>3, <3>4, <3>5, <3>6, <3>7, <3>9, <3>10
    <2>2. /\ server' \in [Conns -> States]
          /\ active_clients' = Cardinality(Server!Serving')
      BY <1>t, <1>n, <2>1, ServingChange DEF ServerInv
    <2>3. active_clients' <= MAX_CLIENTS
      BY <1>t, <1>n, <2>1, CommandServerAssumption
    <2>4. Server!TypeOK'
      BY <1>t, <2>1, <2>2, <2>3, CountIsCardinality DEF Server!TypeOK, States
    <2>5. FreedAlone'
      <3> SUFFICES ASSUME main \in {"closing", "gone"}, ~late,
                          fans = "auto", ~Server!AtWork
                   PROVE  fans' = "auto" /\ ~Server!AtWork'
        BY <2>1 DEF ServerInv, FreedAlone
      <3>1. \A d \in Conns : server[d] \notin {"read", "run"}
        BY DEF Server!AtWork
      <3>2. s \notin {"read", "run"} /\ fans' = fans
        BY <2>1, <3>1
      <3>3. QED
        BY <2>1, <3>1, <3>2, <1>t DEF Server!Server, Server!AtWork
    <2>6. QED
      BY <2>4, <2>5 DEF ServerInv
  <1>2. CASE \/ Server!SendRest(c) \/ Server!SendPart(c) \/ Server!GiveUp(c)
             \/ Server!Disconnected(c) \/ Server!Return(c)
    <2>1. moves(0) /\ UNCHANGED <<server, fans>>
      BY <1>t, <1>c, <1>n, <1>2
         DEF Server!SendRest, Server!SendPart, Server!GiveUp,
             Server!Disconnected, Server!Return
    <2>2. QED
      BY <1>t, <1>n, <2>1 DEF ServerInv, Server!TypeOK, States, FreedAlone,
                              Server!Serving, Server!AtWork
  <1>3. QED
    BY <1>1, <1>2 DEF Server!Handler, Server!Peer

LEMMA ServerNext ==
    ServerInv /\ [Server!Next]_(Server!vars) => ServerInv'
  <1> SUFFICES ASSUME ServerInv, [Server!Next]_(Server!vars) PROVE ServerInv'
    OBVIOUS
  <1>1. CASE \/ Server!Stop \/ Server!Drained \/ Server!Restore
             \/ Server!RestoreFails \/ Server!Start \/ UNCHANGED Server!vars
    <2>1. /\ UNCHANGED <<client, server, frame, active_clients>>
          /\ main' \in {"serving", "draining", "restoring", "closing", "gone"}
          /\ fans' \in {"auto", "manual"} /\ late' \in BOOLEAN
      BY <1>1 DEF ServerInv, Server!TypeOK, Server!Stop, Server!Drained,
                  Server!Restore, Server!RestoreFails, Server!Start,
                  Server!AtWork, Server!vars
    <2>2. Server!TypeOK' /\ (Server!AtWork' <=> Server!AtWork)
      BY <2>1 DEF ServerInv, Server!TypeOK, Server!Serving, Server!AtWork
    <2>3. FreedAlone'
      BY <1>1, <2>2 DEF ServerInv, FreedAlone, Server!Stop, Server!Drained,
                        Server!Restore, Server!RestoreFails, Server!Start,
                        Server!vars
    <2>4. QED
      BY <2>2, <2>3 DEF ServerInv
  <1>2. CASE Server!Exit \/ Server!Kill
    <2>1. Server!AllClosed
      BY <1>2 DEF Server!Exit, Server!Kill
    <2>2. Server!TypeOK'
      <3>1. /\ server' \in [Conns -> States] /\ active_clients' = 0
            /\ active_clients' = Server!Cardinality(Server!Serving')
        BY <2>1, AllClosedType, CountIsCardinality DEF Server!AllClosed
      <3>2. 0 <= MAX_CLIENTS
        BY CommandServerAssumption
      <3>3. UNCHANGED <<client, frame, fans>> /\ main' = "gone"
            /\ late' \in {late, TRUE}
        BY <1>2 DEF Server!Exit, Server!Kill
      <3>4. QED
        BY <3>1, <3>2, <3>3 DEF ServerInv, Server!TypeOK, States
    <2>3. FreedAlone'
      BY <1>2, <2>1, AllClosedType
         DEF ServerInv, FreedAlone, Server!Exit, Server!Kill, Server!AllClosed,
             Server!AtWork
    <2>4. QED
      BY <2>2, <2>3 DEF ServerInv
  <1>3. QED
    BY <1>1, <1>2, ConnectionStep DEF Server!Next, Server!Daemon

LEMMA ServerInit == InitParts => ServerInv
  <1> SUFFICES ASSUME Server!Init PROVE ServerInv
    BY DEF InitParts
  <1>1. Server!Serving = {}
    BY DEF Server!Init, Server!Serving, Server!Handling
  <1>2. Cardinality(Server!Serving) = 0
    BY <1>1, FS_EmptySet
  <1>3. QED
    <2>1. /\ client \in [Conns -> Server!ClientStates]
          /\ server \in [Conns -> {"none", "backlog"} \cup Server!Handling]
          /\ frame \in [Conns -> 0 .. Trickle]
      BY CommandServerAssumption DEF Server!Init, Server!ClientStates
    <2>2. active_clients = Server!Cardinality(Server!Serving)
          /\ active_clients <= MAX_CLIENTS
      BY <1>2, CommandServerAssumption, CountIsCardinality DEF Server!Init
    <2>3. QED
      BY <2>1, <2>2 DEF Server!Init, ServerInv, Server!TypeOK, FreedAlone

LEMMA ServerAlone == [NextParts]_allVars => [Server!Next]_(Server!vars)
  BY DEF ServerVars, Server!vars, NextParts, MainSteps, SwitchingSteps,
         LimitSteps, ServerSteps, allVars

\* Slots are counted rightly, and once the fans were given back with no command
\* still to run none takes one again (comms.rs, daemon/main.rs).
THEOREM ServerInvariant == SpecParts => []ServerInv
  BY ServerInit, ServerNext, ServerAlone, PTL DEF SpecParts

\* A daemon that was stopped leaves the fans to the firmware.
THEOREM StopFreesTheFans == SpecParts => []StopFreesFans
  <1>1. ServerInv => StopFreesFans
    BY DEF ServerInv, FreedAlone, StopFreesFans, Server!StopFreesFans
  <1>2. QED
    BY ServerInvariant, <1>1, PTL
-----------------------------------------------------------------------------
LEMMA GpuModeAlone == [NextParts]_allVars => [Next]_vars
  BY DEF vars, machine, handlers, NextParts, MainSteps, SwitchingSteps,
         LimitSteps, ServerSteps, allVars

\* Every variable of every service keeps its type.
THEOREM TypesCorrect == SpecParts => []TypesOK
  <1>1. InitParts => TypeOK
    BY TypeInit DEF InitParts
  <1>2. TypeOK /\ [NextParts]_allVars => TypeOK'
    BY TypeNext, GpuModeAlone
  <1>3. TypeOK /\ SwitchingInv /\ Limit!TypeOK /\ ServerInv => TypesOK
    BY DEF SwitchingInv, ServerInv, TypesOK
  <1>4. QED
    BY <1>1, <1>2, <1>3, SwitchingInvariant, LimitTypeCorrect,
       ServerInvariant, PTL DEF SpecParts
=============================================================================
