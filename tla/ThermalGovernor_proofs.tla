----------------------- MODULE ThermalGovernor_proofs -----------------------
(***************************************************************************)
(* What holds of the thermal governor for every set of CPUs, clients,      *)
(* temperatures, frequency bounds and steps.                               *)
(***************************************************************************)
EXTENDS ThermalGovernor, TLAPS

Freqs == FLOOR..FULL

LEMMA FreqsAreInts ==
    /\ FLOOR \in Freqs /\ FULL \in Freqs /\ Freqs \subseteq Nat /\ Hold \notin Freqs
    /\ Temps \subseteq Int /\ MaxTemps \subseteq Int
  BY ThermalAssumption DEF Freqs, Hold

\* Halving is towards zero, and an integer.
LEMMA HalfType == \A d \in Int : Half(d) \in Int
  <1> SUFFICES ASSUME NEW d \in Int PROVE Half(d) \in Int
    OBVIOUS
  <1>1. CASE d >= 0
    BY <1>1 DEF Half
  <1>2. CASE d < 0
    <2>1. (-d) \div 2 \in Int
      BY <1>2
    <2>2. QED
      BY <1>2, <2>1 DEF Half
  <1>3. QED
    BY <1>1, <1>2

\* TempFilter::effective returns a temperature.
LEMMA EffectiveType ==
    ASSUME NEW s \in Int \cup {Unseeded}, NEW t \in Temps, NEW limit
    PROVE  Effective(s, t, limit) \in Int
  <1>1. t \in Int
    BY FreqsAreInts
  <1>2. Update(s, t) \in Int
    <2>1. CASE s = Unseeded
      BY <1>1, <2>1 DEF Update
    <2>2. CASE s \in Int
      <3>1. Half(t - s) \in Int
        BY <1>1, <2>2, HalfType
      <3>2. QED
        BY <1>1, <2>2, <3>1 DEF Update
    <2>3. QED
      BY <2>1, <2>2
  <1>3. QED
    BY <1>1, <1>2 DEF Effective

LEMMA StepType == \A d \in Int : down_step(d) \in Nat \ {0}
  <1> SUFFICES ASSUME NEW d \in Int PROVE down_step(d) \in Nat \ {0}
    OBVIOUS
  <1>1. /\ URGENT_OVERSHOOT \in Nat /\ MODERATE_OVERSHOOT \in Nat
        /\ STEP_URGENT \in Nat \ {0} /\ STEP_MODERATE \in Nat \ {0}
        /\ STEP_GENTLE \in Nat \ {0}
    BY ThermalAssumption
  <1>2. CASE d >= URGENT_OVERSHOOT
    <2>1. ~(MODERATE_OVERSHOOT <= d /\ d < URGENT_OVERSHOOT)
      BY <1>1, <1>2
    <2>2. QED
      BY <1>1, <1>2, <2>1 DEF down_step
  <1>3. CASE ~(d >= URGENT_OVERSHOOT)
    BY <1>1, <1>3 DEF down_step
  <1>4. QED
    BY <1>2, <1>3

\* compute_target_bounded holds, or asks for a frequency within the bounds:
\* never below FLOOR, never above FULL.
LEMMA TargetType ==
    ASSUME NEW cur \in Freqs, NEW t \in Int, NEW cfg \in Configs
    PROVE  compute_target(cur, t, cfg) \in Freqs \cup {Hold}
  <1>1. cfg.max \in Int /\ HYSTERESIS \in Int
    BY FreqsAreInts, ThermalAssumption DEF Configs, Config
  <1>2. cur \in Int /\ FLOOR \in Int /\ FULL \in Int /\ FLOOR <= cur /\ cur <= FULL
        /\ FLOOR <= FULL
    BY FreqsAreInts, ThermalAssumption DEF Freqs
  <1>3. STEP_UP \in Nat \ {0}
    BY ThermalAssumption
  <1> DEFINE hot == t >= cfg.max /\ cur > FLOOR
             cool == t <= cfg.max - HYSTERESIS /\ cur < FULL
             step == down_step(t - cfg.max)
  <1>4. Highest(cur - step, FLOOR) \in Freqs
    <2>1. step \in Nat \ {0}
      BY <1>1, StepType
    <2> HIDE DEF step
    <2>2. QED
      BY <1>2, <2>1 DEF Highest, Freqs
  <1>5. Lowest(cur + STEP_UP, FULL) \in Freqs
    BY <1>2, <1>3 DEF Lowest, Freqs
  <1>6. CASE ~cfg.enabled
    BY <1>6 DEF compute_target
  <1>7. CASE cfg.enabled /\ hot
    BY <1>4, <1>7 DEF compute_target
  <1>8. CASE cfg.enabled /\ ~hot /\ cool
    BY <1>5, <1>8 DEF compute_target
  <1>9. CASE cfg.enabled /\ ~hot /\ ~cool
    BY <1>9 DEF compute_target
  <1>10. QED
    BY <1>6, <1>7, <1>8, <1>9
-----------------------------------------------------------------------------
(***************************************************************************)
(* Types.                                                                  *)
(***************************************************************************)
LEMMA WriteCpuType ==
    ASSUME TypeOK, NEW c \in Cpus, NEW f \in Freqs, WriteCpu(c, f)
    PROVE  cpuMax' \in [Cpus -> FLOOR..FULL] /\ behind' \subseteq Cpus
  BY DEF TypeOK, WriteCpu, Freqs

\* What the program points of the threads have of their own.
LEMMA GovParts ==
    ASSUME NEW g \in GovStates
    PROVE  /\ g.at = "decide" => g.temp \in Temps /\ g.cur \in Freqs
           /\ g.at = "write" =>
                /\ g.target \in Freqs /\ g.todo \subseteq Cpus
                /\ \A T \in SUBSET Cpus : [g EXCEPT !.todo = T] \in GovStates
                /\ \A T : [g EXCEPT !.todo = T].at = "write"
  BY DEF GovStates, Freqs

LEMMA ClientParts ==
    ASSUME NEW s \in ClientStates
    PROVE  /\ s.at \in {"config", "shared"} =>
                s.was \in BOOLEAN /\ s.new \in Configs
           /\ s.at = "config" => [s EXCEPT !.at = "shared"] \in ClientStates
           /\ s.at = "restore" =>
                /\ s.todo \subseteq Cpus
                /\ \A T \in SUBSET Cpus : [s EXCEPT !.todo = T] \in ClientStates
  BY DEF ClientStates, Idle

LEMMA ClientType ==
    ASSUME client \in [Clients -> ClientStates], NEW c \in Clients,
           NEW s \in ClientStates
    PROVE  [client EXCEPT ![c] = s] \in [Clients -> ClientStates]
  OBVIOUS

LEMMA ClientStatesAre ==
    /\ Idle \in ClientStates /\ [at |-> "notify"] \in ClientStates
    /\ \A T \in SUBSET Cpus : [at |-> "restore", todo |-> T] \in ClientStates
    /\ \A w \in BOOLEAN, cfg \in Configs :
         [at |-> "config", was |-> w, new |-> cfg] \in ClientStates
  BY DEF ClientStates, Idle

LEMMA GovStatesAre ==
    /\ \A p \in {"sample", "disabled", "wait", "sleep", "stopped"} :
         [at |-> p] \in GovStates
    /\ \A t \in Temps, f \in Freqs :
         [at |-> "decide", temp |-> t, cur |-> f] \in GovStates
    /\ \A f \in Freqs : [at |-> "write", target |-> f, todo |-> Cpus] \in GovStates
  BY DEF GovStates, Freqs

LEMMA TypeInit == Init => TypeOK
  <1> SUFFICES ASSUME Init PROVE TypeOK
    OBVIOUS
  <1>1. FULL \in FLOOR..FULL
    BY FreqsAreInts DEF Freqs
  <1>2. QED
    BY <1>1, ClientStatesAre, GovStatesAre DEF Init, TypeOK

LEMMA TypeGovernor == TypeOK /\ Governor => TypeOK'
  <1> SUFFICES ASSUME TypeOK, Governor PROVE TypeOK'
    OBVIOUS
  <1> USE DEF GovernorOnly
  <1>0. gov \in GovStates /\ \A c \in Cpus : cpuMax[c] \in Freqs
    BY DEF TypeOK, Freqs
  <1>1. CASE GovernorSamples
    <2>1. shared \in Configs /\ shared.enabled \in BOOLEAN /\ readable \in BOOLEAN
      BY DEF TypeOK, Configs, Config
    <2>2. gov' \in {[at |-> "disabled"], [at |-> "sleep"],
                    [at |-> "decide", temp |-> raw, cur |-> cpuMax[Cpu0]]}
      BY <1>1, <2>1 DEF GovernorSamples
    <2>3. gov' \in GovStates
      BY <1>0, <2>2, GovStatesAre, ThermalAssumption DEF TypeOK
    <2>4. QED
      BY <1>1, <2>3 DEF GovernorSamples, TypeOK
  <1>2. CASE GovernorDecides
    <2> DEFINE t == Effective(smoothed, gov.temp, shared.max)
               target == compute_target(gov.cur, t, shared)
    <2>1. gov.temp \in Temps /\ gov.cur \in Freqs
      BY <1>0, <1>2, GovParts DEF GovernorDecides
    <2>2. smoothed \in Int \cup {Unseeded} /\ shared \in Configs
      BY DEF TypeOK
    <2>3. t \in Int
      BY <2>1, <2>2, EffectiveType
    <2>4. target \in Freqs \cup {Hold}
      BY <2>1, <2>2, <2>3, TargetType
    <2>5. smoothed' = t /\ gov' = IF target = Hold THEN [at |-> "sleep"]
                ELSE [at |-> "write", target |-> target, todo |-> Cpus]
      BY <1>2 DEF GovernorDecides
    <2> HIDE DEF t, target
    <2>6. gov' \in GovStates
      BY <2>4, <2>5, GovStatesAre
    <2>7. QED
      BY <1>2, <2>3, <2>5, <2>6 DEF GovernorDecides, TypeOK
  <1>3. CASE GovernorWrites
    <2>1. CASE gov.todo = {} /\ gov' = [at |-> "sleep"]
               /\ UNCHANGED <<cpuMax, behind>>
      BY <1>3, <2>1, GovStatesAre DEF GovernorWrites, TypeOK
    <2>2. CASE \E c \in gov.todo : /\ WriteCpu(c, gov.target)
                                   /\ gov' = [gov EXCEPT !.todo = @ \ {c}]
      <3>1. PICK c \in gov.todo : /\ WriteCpu(c, gov.target)
                                  /\ gov' = [gov EXCEPT !.todo = @ \ {c}]
        BY <2>2
      <3>2. gov.at = "write"
        BY <1>3 DEF GovernorWrites
      <3>3. c \in Cpus /\ gov.target \in Freqs /\ gov' \in GovStates
        BY <1>0, <3>1, <3>2, GovParts
      <3>4. QED
        BY <1>3, <3>1, <3>3, WriteCpuType DEF GovernorWrites, TypeOK
    <2>3. QED
      BY <1>3, <2>1, <2>2 DEF GovernorWrites
  <1>4. CASE GovernorWaits
    BY <1>4, GovStatesAre DEF GovernorWaits, TypeOK
  <1>5. CASE GovernorWakes
    BY <1>5, GovStatesAre DEF GovernorWakes, TypeOK
  <1>6. CASE GovernorTimesOut
    BY <1>6, GovStatesAre DEF GovernorTimesOut, TypeOK
  <1>7. QED
    BY <1>1, <1>2, <1>3, <1>4, <1>5, <1>6 DEF Governor

LEMMA TypeClient ==
    ASSUME TypeOK, NEW c \in Clients, SetThermal(c) \/ SetThermalGoesOn(c)
    PROVE  TypeOK'
  <1> USE DEF ClientOnly
  <1>0. client \in [Clients -> ClientStates] /\ client[c] \in ClientStates
    BY DEF TypeOK
  <1>1. CASE SetThermal(c)
    <2>1. PICK new \in Configs :
            client' = [client EXCEPT ![c] =
                         [at |-> "config", was |-> config.enabled, new |-> new]]
      BY <1>1 DEF SetThermal
    <2>2. config.enabled \in BOOLEAN
      BY DEF TypeOK, Configs, Config
    <2>3. client' \in [Clients -> ClientStates]
      BY <1>0, <2>1, <2>2, ClientStatesAre, ClientType
    <2>4. QED
      BY <1>1, <2>3 DEF SetThermal, TypeOK
  <1>2. CASE UpdateConfig(c)
    <2>1. client[c].new \in Configs
          /\ [client[c] EXCEPT !.at = "shared"] \in ClientStates
      BY <1>0, <1>2, ClientParts DEF UpdateConfig
    <2>2. client' \in [Clients -> ClientStates]
      BY <1>0, <1>2, <2>1 DEF UpdateConfig
    <2>3. QED
      BY <1>2, <2>1, <2>2 DEF UpdateConfig, TypeOK
  <1>3. CASE UpdateShared(c)
    <2>1. client[c].new \in Configs
      BY <1>0, <1>3, ClientParts DEF UpdateShared
    <2>2. client' \in [Clients -> ClientStates]
      BY <1>0, <1>3, ClientStatesAre DEF UpdateShared
    <2>3. QED
      BY <1>3, <2>1, <2>2 DEF UpdateShared, TypeOK
  <1>4. CASE RestoreFullSpeed(c)
    <2>0. client[c].at = "restore" /\ client[c].todo \subseteq Cpus
          /\ \A T \in SUBSET Cpus : [client[c] EXCEPT !.todo = T] \in ClientStates
      BY <1>0, <1>4, ClientParts DEF RestoreFullSpeed
    <2>1. CASE client' = [client EXCEPT ![c] = [at |-> "notify"]]
               /\ UNCHANGED <<cpuMax, behind>>
      <3>1. client' \in [Clients -> ClientStates]
        BY <1>0, <2>1, ClientStatesAre
      <3>2. QED
        BY <1>4, <2>1, <3>1 DEF RestoreFullSpeed, TypeOK
    <2>2. CASE \E cpu \in client[c].todo :
                 /\ WriteCpu(cpu, FULL)
                 /\ client' = [client EXCEPT ![c].todo = @ \ {cpu}]
      <3>1. PICK cpu \in client[c].todo :
                 /\ WriteCpu(cpu, FULL)
                 /\ client' = [client EXCEPT ![c].todo = @ \ {cpu}]
        BY <2>2
      <3>2. [client[c] EXCEPT !.todo = client[c].todo \ {cpu}] \in ClientStates
        BY <2>0
      <3>3. client' \in [Clients -> ClientStates]
        BY <1>0, <3>1, <3>2
      <3>4. cpuMax' \in [Cpus -> FLOOR..FULL] /\ behind' \subseteq Cpus
        BY <2>0, <3>1, WriteCpuType, FreqsAreInts
      <3>5. QED
        BY <1>4, <3>3, <3>4 DEF RestoreFullSpeed, TypeOK
    <2>3. QED
      BY <1>4, <2>1, <2>2 DEF RestoreFullSpeed
  <1>5. CASE Notify(c)
    <2>1. gov' \in GovStates
      BY <1>5, GovStatesAre DEF Notify, TypeOK
    <2>2. client' \in [Clients -> ClientStates]
      BY <1>0, <1>5, ClientStatesAre DEF Notify
    <2>3. QED
      BY <1>5, <2>1, <2>2 DEF Notify, TypeOK
  <1>6. QED
    BY <1>1, <1>2, <1>3, <1>4, <1>5 DEF SetThermalGoesOn

MainStates == {[at |-> "serving"], [at |-> "exited"]}
                \cup [at : {"restore"}, todo : SUBSET Cpus]

LEMMA MainParts ==
    ASSUME NEW m \in MainStates, m.at = "restore"
    PROVE  /\ m.todo \subseteq Cpus
           /\ \A T \in SUBSET Cpus : [m EXCEPT !.todo = T] \in MainStates
           /\ \A T : [m EXCEPT !.todo = T].at = "restore"
           /\ \A T : [m EXCEPT !.todo = T].todo = T
  BY DEF MainStates

LEMMA TypeMachine ==
    /\ TypeOK
    /\ \/ Shutdown \/ MainStartsRestore \/ MainRestores
       \/ TemperatureChanges \/ SensorsChange
    => TypeOK'
  <1> SUFFICES ASSUME TypeOK,
                      \/ Shutdown \/ MainStartsRestore \/ MainRestores
                      \/ TemperatureChanges \/ SensorsChange
               PROVE  TypeOK'
    OBVIOUS
  <1> USE DEF MainOnly
  <1>1. CASE Shutdown
    BY <1>1 DEF Shutdown, TypeOK
  <1>2. CASE MainStartsRestore
    BY <1>2 DEF MainStartsRestore, TypeOK
  <1>3. CASE MainRestores
    <2>1. CASE main' = [at |-> "exited"] /\ client' = [c \in Clients |-> Idle]
               /\ UNCHANGED <<cpuMax, behind>>
      BY <1>3, <2>1, ClientStatesAre DEF MainRestores, TypeOK
    <2>2. CASE \E c \in main.todo : /\ WriteCpu(c, FULL)
                                    /\ main' = [main EXCEPT !.todo = @ \ {c}]
                                    /\ UNCHANGED client
      <3>1. PICK c \in main.todo : /\ WriteCpu(c, FULL)
                                   /\ main' = [main EXCEPT !.todo = @ \ {c}]
                                   /\ UNCHANGED client
        BY <2>2
      <3>2. main \in MainStates /\ main.at = "restore"
        BY <1>3 DEF MainRestores, TypeOK, MainStates
      <3>3. c \in Cpus /\ main' \in MainStates
        BY <3>1, <3>2, MainParts
      <3>4. cpuMax' \in [Cpus -> FLOOR..FULL] /\ behind' \subseteq Cpus
        BY <3>1, <3>3, WriteCpuType, FreqsAreInts
      <3>5. QED
        BY <1>3, <3>1, <3>3, <3>4 DEF MainRestores, TypeOK, MainStates
    <2>3. QED
      BY <1>3, <2>1, <2>2 DEF MainRestores
  <1>4. CASE TemperatureChanges
    BY <1>4 DEF TemperatureChanges, TypeOK
  <1>5. CASE SensorsChange
    BY <1>5 DEF SensorsChange, TypeOK
  <1>6. QED
    BY <1>1, <1>2, <1>3, <1>4, <1>5

LEMMA TypeNext == TypeOK /\ [Next]_vars => TypeOK'
  <1> SUFFICES ASSUME TypeOK, [Next]_vars PROVE TypeOK'
    OBVIOUS
  <1>1. CASE UNCHANGED vars
    BY <1>1 DEF vars, TypeOK
  <1>2. QED
    BY <1>1, TypeGovernor, TypeClient, TypeMachine DEF Next

\* Frequencies stay within the bounds of the CPU, whatever order the writes of
\* the governor, the clients and main come in, and the filter stays an integer.
THEOREM TypeCorrect == Spec => []TypeOK
  BY TypeInit, TypeNext, PTL DEF Spec
-----------------------------------------------------------------------------
(***************************************************************************)
(* Nothing stays capped after the shutdown.                                *)
(***************************************************************************)
\* A CPU at full speed, or whose last write failed.
Free(c) == c \in behind \/ cpuMax[c] = FULL

\* Once main restores, the governor is past its last pass and cannot begin
\* another, and every CPU main has dealt with is free.
Restoring ==
    /\ main.at # "serving" => shutdown /\ GracePeriod
    /\ main.at = "restore" => \A c \in Cpus \ main.todo : Free(c)
    /\ main.at = "exited" => \A c \in Cpus : Free(c)

IInv == TypeOK /\ Restoring

LEMMA WriteFullFrees ==
    ASSUME TypeOK, NEW c \in Cpus, WriteCpu(c, FULL)
    PROVE  /\ Free(c)'
           /\ \A d \in Cpus : Free(d) => Free(d)'
  BY DEF TypeOK, WriteCpu, Free

LEMMA RestoringGovernor == IInv /\ Governor => Restoring'
  <1> SUFFICES ASSUME IInv, Governor PROVE Restoring'
    OBVIOUS
  <1> USE DEF GovernorOnly, IInv
  <1>1. CASE main.at = "serving"
    BY <1>1 DEF Governor, GovernorSamples, GovernorWaits, GovernorDecides,
                GovernorWrites, GovernorWakes, GovernorTimesOut, Restoring
  <1>2. CASE main.at # "serving"
    <2>1. shutdown /\ gov.at \notin {"sample", "disabled", "decide", "write"}
      BY <1>2 DEF Restoring, GracePeriod
    <2>2. GovernorWakes \/ GovernorTimesOut
      BY <2>1 DEF Governor, GovernorSamples, GovernorWaits, GovernorDecides,
                  GovernorWrites
    <2>3. gov' = [at |-> "stopped"] /\ UNCHANGED <<cpuMax, behind, main, shutdown>>
      BY <2>1, <2>2 DEF GovernorWakes, GovernorTimesOut
    <2>4. QED
      BY <2>1, <2>3 DEF Restoring, GracePeriod, Free
  <1>3. QED
    BY <1>1, <1>2

LEMMA RestoringClient ==
    ASSUME IInv, NEW c \in Clients, SetThermal(c) \/ SetThermalGoesOn(c)
    PROVE  Restoring'
  <1> USE DEF ClientOnly, IInv
  <1>1. CASE RestoreFullSpeed(c)
    <2>1. client[c].todo \subseteq Cpus
      BY <1>1, ClientParts DEF RestoreFullSpeed, TypeOK
    <2>2. \A d \in Cpus : Free(d) => Free(d)'
      <3>1. CASE UNCHANGED <<cpuMax, behind>>
        BY <3>1 DEF Free
      <3>2. CASE \E cpu \in client[c].todo : WriteCpu(cpu, FULL)
        BY <2>1, <3>2, WriteFullFrees
      <3>3. QED
        BY <1>1, <3>1, <3>2 DEF RestoreFullSpeed
    <2>3. QED
      BY <1>1, <2>2 DEF RestoreFullSpeed, Restoring, GracePeriod
  <1>2. CASE Notify(c)
    <2>1. gov' = gov \/ gov' = [at |-> IF shutdown THEN "stopped" ELSE "sample"]
      BY <1>2 DEF Notify
    <2>2. shutdown /\ GracePeriod => GracePeriod'
      BY <2>1 DEF GracePeriod
    <2>3. QED
      BY <1>2, <2>2 DEF Notify, Restoring, Free
  <1>3. CASE SetThermal(c) \/ UpdateConfig(c) \/ UpdateShared(c)
    BY <1>3
       DEF SetThermal, UpdateConfig, UpdateShared, Restoring, GracePeriod, Free
  <1>4. QED
    BY <1>1, <1>2, <1>3 DEF SetThermalGoesOn

LEMMA RestoringMachine ==
    /\ IInv
    /\ \/ Shutdown \/ MainStartsRestore \/ MainRestores
       \/ TemperatureChanges \/ SensorsChange
    => Restoring'
  <1> SUFFICES ASSUME IInv,
                      \/ Shutdown \/ MainStartsRestore \/ MainRestores
                      \/ TemperatureChanges \/ SensorsChange
               PROVE  Restoring'
    OBVIOUS
  <1> USE DEF MainOnly, IInv
  <1>1. CASE Shutdown
    BY <1>1 DEF Shutdown, Restoring, GracePeriod, Free
  <1>2. CASE MainStartsRestore
    BY <1>2 DEF MainStartsRestore, Restoring, GracePeriod
  <1>3. CASE MainRestores
    <2>1. CASE main.todo = {} /\ main' = [at |-> "exited"]
               /\ UNCHANGED <<cpuMax, behind>>
      BY <1>3, <2>1 DEF MainRestores, Restoring, GracePeriod, Free
    <2>2. CASE \E c \in main.todo : /\ WriteCpu(c, FULL)
                                    /\ main' = [main EXCEPT !.todo = @ \ {c}]
      <3>1. PICK c \in main.todo : /\ WriteCpu(c, FULL)
                                   /\ main' = [main EXCEPT !.todo = @ \ {c}]
        BY <2>2
      <3>2. main \in MainStates /\ main.at = "restore"
        BY <1>3 DEF MainRestores, TypeOK, MainStates
      <3>3. c \in Cpus /\ main'.todo = main.todo \ {c} /\ main'.at = "restore"
        BY <3>1, <3>2, MainParts
      <3>4. \A d \in Cpus \ main'.todo : Free(d)'
        BY <3>1, <3>2, <3>3, WriteFullFrees DEF Restoring
      <3>5. QED
        BY <1>3, <3>2, <3>3, <3>4 DEF MainRestores, Restoring, GracePeriod
    <2>3. QED
      BY <1>3, <2>1, <2>2 DEF MainRestores
  <1>4. CASE TemperatureChanges \/ SensorsChange
    BY <1>4 DEF TemperatureChanges, SensorsChange, Restoring, GracePeriod, Free
  <1>5. QED
    BY <1>1, <1>2, <1>3, <1>4

\* The strengthening holds in every reachable state.
THEOREM ShutdownInvariant == Spec => []IInv
  <1>1. Init => IInv
    BY TypeInit DEF Init, IInv, Restoring
  <1>2. IInv /\ [Next]_vars => IInv'
    <2> SUFFICES ASSUME IInv, [Next]_vars PROVE IInv'
      OBVIOUS
    <2>1. TypeOK'
      BY TypeNext DEF IInv
    <2>2. CASE UNCHANGED vars
      BY <2>1, <2>2 DEF vars, IInv, Restoring, GracePeriod, Free
    <2>3. QED
      BY <2>1, <2>2, RestoringGovernor, RestoringClient, RestoringMachine
         DEF Next, IInv
  <1>3. QED
    BY <1>1, <1>2, PTL DEF Spec

\* "systemctl stop never leaves the machine capped", for any number of CPUs and
\* of clients that restore or disable at the same time.
THEOREM NoCapRemains == Spec => []NoCapAfterShutdown
  <1>1. IInv => NoCapAfterShutdown
    BY DEF IInv, Restoring, Free, NoCapAfterShutdown
  <1>2. QED
    BY ShutdownInvariant, <1>1, PTL

-----------------------------------------------------------------------------
\* Half of a rise is at most half of it.
LEMMA HalfOfRise == \A d \in Int : d >= 0 => 2 * Half(d) <= d
  BY DEF Half

\* Only a temperature at or above the limit lowers the frequency.
LEMMA LoweredWhenHot ==
    ASSUME NEW cur \in Freqs, NEW t \in Int, NEW cfg \in Configs,
           compute_target(cur, t, cfg) # Hold, compute_target(cur, t, cfg) < cur
    PROVE  t >= cfg.max
  <1> SUFFICES ASSUME ~(t >= cfg.max) PROVE FALSE
    OBVIOUS
  <1>1. cur \in Int /\ FULL \in Int /\ cur <= FULL /\ STEP_UP \in Nat \ {0}
    BY FreqsAreInts, ThermalAssumption DEF Freqs
  <1>2. \/ compute_target(cur, t, cfg) = Hold
        \/ compute_target(cur, t, cfg) = Lowest(cur + STEP_UP, FULL)
    <2>1. CASE cfg.enabled /\ t <= cfg.max - HYSTERESIS /\ cur < FULL
      BY <2>1 DEF compute_target
    <2>2. CASE ~(cfg.enabled /\ t <= cfg.max - HYSTERESIS /\ cur < FULL)
      BY <2>2 DEF compute_target
    <2>3. QED
      BY <2>1, <2>2
  <1>3. Lowest(cur + STEP_UP, FULL) >= cur /\ Lowest(cur + STEP_UP, FULL) \in Int
    BY <1>1 DEF Lowest
  <1>4. QED
    BY <1>1, <1>2, <1>3

\* A filter well below the limit stays below it for one sample that is not
\* urgent.
LEMMA FilterAbsorbs ==
    ASSUME NEW s \in Int, NEW t \in Int, NEW limit \in Int,
           t < limit + URGENT_OVERSHOOT, s <= limit - URGENT_OVERSHOOT
    PROVE  Effective(s, t, limit) < limit
  <1>1. URGENT_OVERSHOOT \in Nat \ {0} /\ s # Unseeded
    BY ThermalAssumption
  <1>2. Effective(s, t, limit) = s + Half(t - s)
    BY <1>1 DEF Effective, Update
  <1>3. CASE t - s >= 0
    <2>1. Half(t - s) \in Int /\ 2 * Half(t - s) <= t - s
      BY <1>3, HalfType, HalfOfRise
    <2>2. QED
      BY <1>1, <1>2, <2>1
  <1>4. CASE ~(t - s >= 0)
    <2>1. Half(t - s) = -((-(t - s)) \div 2)
      BY <1>4 DEF Half
    <2>2. (-(t - s)) \div 2 \in Int /\ (-(t - s)) \div 2 >= 0
      BY <1>4
    <2>3. QED
      BY <1>1, <1>2, <2>1, <2>2
  <1>5. QED
    BY <1>3, <1>4

\* A pass that lowers the frequency has seen urgent heat or a filter already
\* near the limit: one hot sample after cool ones lowers nothing (TempFilter).
THEOREM SpikesAreIgnored == Spec => SpikeIgnored
  <1>1. ASSUME TypeOK, [Next]_vars
        PROVE  [gov.at = "decide" /\ gov'.at = "write" /\ gov'.target < gov.cur
                  => \/ gov.temp >= shared.max + URGENT_OVERSHOOT
                     \/ smoothed = Unseeded
                     \/ smoothed > shared.max - URGENT_OVERSHOOT]_vars
    <2> SUFFICES ASSUME gov.at = "decide", gov'.at = "write",
                        gov'.target < gov.cur,
                        ~(gov.temp >= shared.max + URGENT_OVERSHOOT),
                        smoothed # Unseeded,
                        ~(smoothed > shared.max - URGENT_OVERSHOOT)
                 PROVE  FALSE
      OBVIOUS
    <2>1. GovernorDecides
      BY <1>1
         DEF Next, Governor, GovernorSamples, GovernorWrites, GovernorWaits,
           GovernorWakes, GovernorTimesOut, SetThermal, SetThermalGoesOn,
           UpdateConfig, UpdateShared, RestoreFullSpeed, Notify, Shutdown,
           MainStartsRestore, MainRestores, TemperatureChanges, SensorsChange,
           vars
    <2> DEFINE t == Effective(smoothed, gov.temp, shared.max)
               target == compute_target(gov.cur, t, shared)
    <2>2. gov.temp \in Temps /\ gov.cur \in Freqs /\ gov.temp \in Int
      BY <1>1, GovParts, FreqsAreInts DEF TypeOK
    <2>3. smoothed \in Int /\ shared \in Configs /\ shared.max \in Int
      BY <1>1, FreqsAreInts DEF TypeOK, Configs, Config
    <2>4. target # Hold /\ target < gov.cur
      BY <2>1 DEF GovernorDecides
    <2>5. t \in Int
      BY <2>2, <2>3, EffectiveType
    <2>6. t >= shared.max
      <3> HIDE DEF t
      <3>1. QED
        BY <2>2, <2>3, <2>4, <2>5, LoweredWhenHot
    <2>7. URGENT_OVERSHOOT \in Int
      BY ThermalAssumption
    <2>8. t < shared.max
      BY <2>2, <2>3, <2>7, FilterAbsorbs
    <2>9. QED
      BY <2>3, <2>5, <2>6, <2>8
  <1>2. QED
    BY TypeCorrect, <1>1, PTL DEF Spec, SpikeIgnored
=============================================================================
