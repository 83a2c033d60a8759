--------------------------- MODULE FanCurve_proofs ---------------------------
(***************************************************************************)
(* What holds of the fan-curve engine for every set of fans, profiles,     *)
(* clients, readings and curves, and every threshold: its types, and one   *)
(* inductive invariant with what follows from it: no orphaned target, a    *)
(* truthful status, hot fans that are not left slow, no lost wake-up, and  *)
(* the contract of FanEngineContract.                                      *)
(***************************************************************************)
EXTENDS FanCurve, TLAPS

\* The hottest reading of a streak is a reading.
LEMMA StreakMaxType ==
    ASSUME NEW h \in HystType(Temps), NEW t \in Temps
    PROVE  StreakMaxWith(h, t) \in Temps
  BY FanCurveAssumption DEF HystType, StreakMaxWith, HotterOf, NoReading

\* Hysteresis::update keeps its value in range and always leaves a reading.
LEMMA HystUpdateType ==
    ASSUME NEW h \in HystType(Temps), NEW t \in Temps
    PROVE  /\ HystUpdate(h, t) \in HystType(Temps)
           /\ HystUpdate(h, t).held \in Temps
  <1> DEFINE m == StreakMaxWith(h, t)
  <1>a. DOWN_CONFIRMATIONS \in Nat \ {0} /\ DOWN_MARGIN_C \in Nat \ {0}
    BY HysteresisAssumption
  <1>b. Temps \subseteq Nat \ {0}
    BY FanCurveAssumption
  <1>c. m \in Temps
    BY StreakMaxType
  <1>d. /\ h.held \in Temps \cup {NoReading}
        /\ h.streak \in 0..(DOWN_CONFIRMATIONS - 1)
        /\ h.streakMax \in Temps \cup {NoReading}
    BY DEF HystType
  <1>e. h.held \in Nat /\ t \in Nat \ {0}
    <2>1. t \in Nat \ {0}
      BY <1>b
    <2>2. h.held \in Temps \/ h.held = 0
      BY <1>d DEF NoReading
    <2>3. h.held \in Nat
      <3>1. CASE h.held \in Temps
        BY <1>b, <3>1
      <3>2. CASE h.held = 0
        BY <3>2
      <3>3. QED
        BY <3>1, <3>2, <2>2
    <2>4. QED
      BY <2>1, <2>3
  <1> HIDE DEF m
  <1>1. CASE h.held = NoReading
    <2>1. HystUpdate(h, t) = [h EXCEPT !.held = t]
      BY <1>a, <1>c, <1>d, <1>e, <1>1 DEF HystUpdate, Lower, NoReading
    <2>2. QED
      BY <2>1, <1>a, <1>c, <1>d, <1>e DEF HystType
  <1>2. CASE h.held # NoReading /\ t >= h.held
    <2>1. h.held \in Nat /\ ~(t + DOWN_MARGIN_C <= h.held)
      BY <1>a, <1>c, <1>d, <1>e, <1>2 DEF NoReading
    <2>2. HystUpdate(h, t) = [h EXCEPT !.held = t, !.streak = 0]
      BY <1>2, <2>1 DEF HystUpdate, Lower
    <2>3. HystUpdate(h, t) = [held |-> t, streak |-> 0, streakMax |-> h.streakMax]
      BY <2>2 DEF HystType
    <2>4. 0 \in 0..(DOWN_CONFIRMATIONS - 1)
      BY <1>a, <1>c, <1>d, <1>e
    <2>5. QED
      BY <2>3, <2>4, <1>a, <1>c, <1>d, <1>e DEF HystType
  <1>3. CASE h.held # NoReading /\ ~(t >= h.held) /\ Lower(h, t)
    <2>1. CASE h.streak + 1 >= DOWN_CONFIRMATIONS
      <3>1. HystUpdate(h, t) = [held |-> m, streak |-> 0, streakMax |-> m]
        BY <1>a, <1>c, <1>d, <1>e, <1>3, <2>1 DEF HystUpdate, m
      <3>2. QED
        BY <3>1, <1>a, <1>c, <1>d, <1>e DEF HystType
    <2>2. CASE ~(h.streak + 1 >= DOWN_CONFIRMATIONS)
      <3>1. h.streak + 1 < DOWN_CONFIRMATIONS
        BY <1>a, <1>c, <1>d, <1>e, <2>2
      <3>2. HystUpdate(h, t) = [h EXCEPT !.streak = @ + 1, !.streakMax = m]
        BY <1>a, <1>c, <1>d, <1>e, <1>3, <3>1, <2>2 DEF HystUpdate, m
      <3>3. QED
        <4>1. h.streak + 1 \in 0..(DOWN_CONFIRMATIONS - 1)
          BY <1>a, <1>c, <1>d, <1>e, <3>1
        <4>2. h.held \in Temps
          BY <1>a, <1>c, <1>d, <1>e, <1>3
        <4>3. h.streak + 1 = h["streak"] + 1
          OBVIOUS
        <4>4. HystUpdate(h, t) = [held |-> h.held, streak |-> h.streak + 1,
                                  streakMax |-> m]
          BY <3>2 DEF HystType
        <4>5. QED
          BY <4>1, <4>2, <4>4, <1>a, <1>c, <1>d, <1>e DEF HystType
    <2>3. QED
      BY <2>1, <2>2
  <1>4. CASE h.held # NoReading /\ ~(t >= h.held) /\ ~Lower(h, t)
    <2>1. HystUpdate(h, t) = [h EXCEPT !.streak = 0]
      BY <1>a, <1>c, <1>d, <1>e, <1>4 DEF HystUpdate
    <2>2. QED
      BY <2>1, <1>a, <1>c, <1>d, <1>e, <1>4 DEF HystType
  <1>5. QED
    BY <1>1, <1>2, <1>3, <1>4

LEMMA HystResetType == HystReset \in HystType(Temps)
  BY HysteresisAssumption DEF HystReset, HystType, NoReading

-----------------------------------------------------------------------------
(***************************************************************************)
(* Type correctness.                                                       *)
(***************************************************************************)

LEMMA AutoIsLevel == AUTO \in Levels /\ MaxLevel \in Levels
  <1>1. MaxLevel \in Nat \ {0}
    BY FanCurveAssumption
  <1>2. QED
    BY <1>1 DEF AUTO, Levels

\* Writing 0 everywhere, or some targets, keeps the fans well typed.
LEMMA AfterAutoType ==
    ASSUME NEW fs \in FanType, NEW F
    PROVE  AfterAuto(fs, F) \in FanType
  BY AutoIsLevel DEF FanType, AfterAuto, FirmwareAuto, Target

LEMMA AfterWritesType ==
    ASSUME NEW fs \in FanType, NEW F, NEW l \in Levels
    PROVE  AfterWrites(fs, F, "engine", [f \in Fans |-> l]) \in FanType
  <1>1. ASSUME NEW f \in Fans
        PROVE  (IF f \in F /\ accepts
                THEN Target("engine", [g \in Fans |-> l][f]) ELSE fs[f])
               \in [by : {"firmware", "engine", "manual"}, level : Levels]
    BY <1>1 DEF FanType, Target
  <1>2. QED
    BY <1>1 DEF FanType, AfterWrites

\* What release() leaves behind, from any fans.
LEMMA ReleaseType ==
    ASSUME TypeOK, NEW fs \in FanType, NEW o \in BOOLEAN, Release(fs, o)
    PROVE  /\ fan' \in FanType
           /\ stuck' \subseteq Fans
           /\ owned' = FALSE
           /\ lastRpm' \in [Fans -> Levels]
           /\ mismatchTicks' = 0
           /\ hyst' \in HystType(Temps)
           /\ hotBad' = 0
  <1>1. owned' = FALSE /\ mismatchTicks' = 0 /\ hotBad' = 0
    BY DEF Release
  <1>2. hyst' \in HystType(Temps)
    BY HystResetType DEF Release
  <1>3. lastRpm' \in [Fans -> Levels]
    BY AutoIsLevel DEF Release, NothingWritten
  <1>4. fan' \in FanType /\ stuck' \subseteq Fans
    <2>1. CASE o
      <3>1. PICK F \in AutoFailures(fs) : fan' = AfterAuto(fs, F) /\ stuck' = F
        BY <2>1 DEF Release
      <3>2. F \subseteq Fans
        BY DEF AutoFailures
      <3>3. QED
        BY <3>1, <3>2, AfterAutoType
    <2>2. CASE ~o
      BY <2>2 DEF Release, TypeOK
    <2>3. QED
      BY <2>1, <2>2
  <1>5. QED
    BY <1>1, <1>2, <1>3, <1>4

LEMMA TicksBound == 0 \in 0..(NOT_ACCEPTED_TICKS - 1)
  <1>1. NOT_ACCEPTED_TICKS \in Nat \ {0}
    BY FanCurveAssumption
  <1>2. QED
    BY <1>1

LEMMA TypeInit == Init => TypeOK
  <1> SUFFICES ASSUME Init PROVE TypeOK
    OBVIOUS
  <1>1. FirmwareAuto \in [by : {"firmware", "engine", "manual"}, level : Levels]
    BY AutoIsLevel DEF FirmwareAuto, Target
  <1>2. HardwareType
    BY <1>1 DEF Init, HardwareType, FanType
  <1>3. SharedType
    BY DEF Init, SharedType, IdleStatus, LiveStatus, Faults
  <1>4. NothingWritten \in [Fans -> Levels]
    BY AutoIsLevel DEF NothingWritten
  <1>5. EngineType
    BY <1>4, HystResetType, TicksBound DEF Init, EngineType
  <1>6. LoopType
    BY DEF Init, LoopType, NoInputs
  <1>7. client \in [Clients -> ClientStates]
    BY DEF Init, ClientStates
  <1>8. stuck \subseteq Fans /\ hotBad \in Nat
    BY DEF Init
  <1>9. QED
    BY <1>2, <1>3, <1>5, <1>6, <1>7, <1>8 DEF TypeOK

\* What a tick leaves behind besides the fans and the engine.
LEMMA TickEndsType ==
    ASSUME TypeOK, NEW a \in BOOLEAN, NEW s \in BOOLEAN, NEW f \in Faults,
           TickEnds(LiveStatus(a, s, f)), fan' \in FanType
    PROVE  HardwareType' /\ SharedType' /\ LoopType'
           /\ client' \in [Clients -> ClientStates]
  <1>1. HardwareType'
    BY DEF TypeOK, TickEnds, HardwareType
  <1>2. SharedType'
    BY DEF TypeOK, TickEnds, SharedType, LiveStatus
  <1>3. LoopType'
    BY DEF TypeOK, TickEnds, LoopType
  <1>4. client' \in [Clients -> ClientStates]
    BY DEF TypeOK, TickEnds
  <1>5. QED
    BY <1>1, <1>2, <1>3, <1>4

\* A tick that releases the fans keeps every type.
LEMMA ReleasingTickType ==
    ASSUME TypeOK, NEW fs \in FanType, NEW o \in BOOLEAN, Release(fs, o),
           NEW f \in Faults, TickEnds(FaultStatus(f)), rejected' \in BOOLEAN
    PROVE  TypeOK'
  <1>1. HardwareType' /\ SharedType' /\ LoopType'
        /\ client' \in [Clients -> ClientStates]
    BY ReleaseType, TickEndsType DEF FaultStatus
  <1>2. EngineType'
    BY ReleaseType, TicksBound DEF EngineType
  <1>3. stuck' \subseteq Fans
    BY ReleaseType
  <1>4. hotBad' \in Nat
    BY DEF Release
  <1>5. QED
    BY <1>1, <1>2, <1>3, <1>4 DEF TypeOK

\* One engine step keeps every type.
LEMMA TypeEngine == TypeOK /\ Engine => TypeOK'
  <1> SUFFICES ASSUME TypeOK, Engine PROVE TypeOK'
    OBVIOUS
  <1> USE DEF hwVars, sharedVars, engineVars, loopVars
  <1>0. /\ fan \in FanType
        /\ owned \in BOOLEAN /\ rejected \in BOOLEAN
        /\ hyst \in HystType(Temps)
    BY DEF TypeOK, HardwareType, EngineType
  <1>f. {"none", "on_battery", "not_accepted", "fault"} = Faults
    BY DEF Faults
  <1>1. CASE ReadInputs
    <2> USE DEF ReadInputs, ReadProfile, ReadCurve, ReadCharger
    <2>1. LoopType'
      BY <1>1 DEF TypeOK, HardwareType, SharedType, LoopType
    <2>2. HardwareType' /\ SharedType' /\ EngineType'
      BY <1>1 DEF TypeOK, HardwareType, SharedType, EngineType
    <2>3. QED
      BY <1>1, <2>1, <2>2 DEF TypeOK
  <1>2. CASE Rearm
    <2>1. NothingWritten \in [Fans -> Levels]
      BY AutoIsLevel DEF NothingWritten
    <2>2. EngineType'
      BY <1>2, <2>1, TicksBound DEF Rearm, TypeOK, EngineType
    <2>3. LoopType'
      BY <1>2 DEF Rearm, TypeOK, LoopType
    <2>4. HardwareType' /\ SharedType'
      BY <1>2 DEF Rearm, TypeOK, HardwareType, SharedType
    <2>5. hotBad' \in Nat
      BY <1>2 DEF Rearm, TypeOK
    <2>6. QED
      BY <1>2, <2>2, <2>3, <2>4, <2>5 DEF Rearm, TypeOK
  <1>3. CASE TickNoCurve
    <2>1. Release(fan, owned) /\ TickEnds(FaultStatus("none")) /\ rejected' \in BOOLEAN
      BY <1>3 DEF TickNoCurve, IdleStatus, FaultStatus
    <2>2. QED
      BY <1>0, <1>f, <2>1, ReleasingTickType
  <1>4. CASE TickOnBattery
    <2>1. Release(fan, owned) /\ TickEnds(FaultStatus("on_battery")) /\ rejected' \in BOOLEAN
      BY <1>4, <1>0 DEF TickOnBattery
    <2>2. QED
      BY <1>0, <1>f, <2>1, ReleasingTickType
  <1>5. CASE TickRejected
    <2>1. HardwareType' /\ SharedType' /\ LoopType'
          /\ client' \in [Clients -> ClientStates]
      BY <1>0, <1>5, <1>f, TickEndsType DEF TickRejected, FaultStatus
    <2>2. EngineType' /\ stuck' \subseteq Fans /\ hotBad' \in Nat
      BY <1>5 DEF TickRejected, TypeOK, EngineType
    <2>3. QED
      BY <2>1, <2>2 DEF TypeOK
  <1>6. CASE TickSensorFailure
    <2>1. Release(fan, owned) /\ TickEnds(FaultStatus("fault")) /\ rejected' \in BOOLEAN
      BY <1>6, <1>0 DEF TickSensorFailure
    <2>2. QED
      BY <1>0, <1>f, <2>1, ReleasingTickType
  <1>l. ASSUME NEW t \in Temps, Running
        PROVE  DecideLevel(t) \in Levels
    <2>1. HystUpdate(hyst, t).held \in Temps
      BY <1>0, HystUpdateType
    <2>2. seen.curve \in [Temps -> 1..MaxLevel] /\ MaxLevel \in Nat \ {0}
      BY <1>l, FanCurveAssumption DEF Running, TypeOK, LoopType
    <2>3. seen.curve[HystUpdate(hyst, t).held] \in 1..MaxLevel
      BY <2>1, <2>2
    <2>4. QED
      BY <2>2, <2>3, AutoIsLevel DEF DecideLevel, Levels
  <1>7. CASE TickWrite
    <2>1. PICK t \in Temps :
            LET level == DecideLevel(t)
                W == Changed(level)
            IN  /\ hyst' = HystUpdate(hyst, t)
                /\ fan' = AfterWrites(fan, W, "engine", [f \in Fans |-> level])
                /\ stuck' = IF accepts THEN stuck \ W ELSE stuck
                /\ lastRpm' = [f \in Fans |-> level]
                /\ owned' = (owned \/ W # {})
                /\ seen' = [seen EXCEPT !.safety = Safety(t)]
      BY <1>7 DEF TickWrite
    <2>2. DecideLevel(t) \in Levels
      BY <1>7, <1>l DEF TickWrite
    <2>3. fan' \in FanType
      BY <2>1, <2>2, <1>0, AfterWritesType
    <2>4. hyst' \in HystType(Temps)
      BY <2>1, <1>0, HystUpdateType
    <2>5. lastRpm' \in [Fans -> Levels] /\ owned' \in BOOLEAN
      BY <2>1, <2>2
    <2>6. EngineType'
      BY <1>7, <2>4, <2>5 DEF TickWrite, TypeOK, EngineType
    <2>7. HardwareType' /\ SharedType'
      BY <1>7, <2>3 DEF TickWrite, TypeOK, HardwareType, SharedType
    <2>8. LoopType'
      <3>1. Safety(t) \in BOOLEAN
        BY DEF Safety
      <3>2. seen' = [seen EXCEPT !.safety = Safety(t)]
        BY <2>1
      <3>3. QED
        BY <1>7, <3>1, <3>2 DEF TickWrite, TypeOK, LoopType
    <2>9. stuck' \subseteq Fans
      BY <2>1 DEF TypeOK
    <2>10. QED
      BY <1>7, <2>6, <2>7, <2>8, <2>9 DEF TickWrite, TypeOK
  <1>8. CASE TickWriteFailure
    <2>1. PICK t \in Temps, done \in SUBSET Fans :
            Release(AfterWrites(fan, done, "engine",
                                [f \in Fans |-> DecideLevel(t)]), TRUE)
      BY <1>8 DEF TickWriteFailure, Changed
    <2>2. DecideLevel(t) \in Levels
      BY <1>8, <1>l DEF TickWriteFailure
    <2>3. AfterWrites(fan, done, "engine", [f \in Fans |-> DecideLevel(t)])
            \in FanType
      BY <2>2, <1>0, AfterWritesType
    <2>4. TickEnds(FaultStatus("fault")) /\ rejected' \in BOOLEAN
      BY <1>8, <1>0 DEF TickWriteFailure
    <2>5. QED
      BY <1>f, <2>1, <2>3, <2>4, ReleasingTickType
  <1>9. CASE ReadBackKeeps
    <2>1. mismatchTicks' \in 0..(NOT_ACCEPTED_TICKS - 1)
      <3>1. NOT_ACCEPTED_TICKS \in Nat /\ mismatchTicks \in Nat
        BY FanCurveAssumption DEF TypeOK, EngineType
      <3>2. QED
        BY <1>9, <3>1, TicksBound DEF ReadBackKeeps
    <2>2. lastRpm' \in [Fans -> Levels]
      BY <1>9, AutoIsLevel DEF ReadBackKeeps, TypeOK, EngineType
    <2>3. EngineType'
      BY <1>9, <2>1, <2>2 DEF ReadBackKeeps, TypeOK, EngineType
    <2>4. TickEnds(LiveStatus(TRUE, seen.safety, "none")) /\ seen.safety \in BOOLEAN
      BY <1>9 DEF ReadBackKeeps, TypeOK, LoopType
    <2>5. fan' \in FanType
      BY <1>9, <1>0 DEF ReadBackKeeps
    <2>6. HardwareType' /\ SharedType' /\ LoopType'
          /\ client' \in [Clients -> ClientStates]
      BY <2>4, <2>5, <1>f, TickEndsType
    <2>7. hotBad' \in Nat /\ stuck' \subseteq Fans
      BY <1>9 DEF ReadBackKeeps, HotBadNext, TypeOK
    <2>8. QED
      BY <2>3, <2>6, <2>7 DEF TypeOK
  <1>10. CASE ReadBackRejects
    <2>1. Release(fan, owned) /\ TickEnds(FaultStatus("not_accepted"))
          /\ rejected' \in BOOLEAN
      BY <1>10 DEF ReadBackRejects
    <2>2. QED
      BY <1>0, <1>f, <2>1, ReleasingTickType
  <1>11. CASE WakeOnPoke \/ WakeOnTimeout
    <2>1. LoopType'
      <3>1. pc' = "read" /\ seen' = NoInputs /\ last' = last
        BY <1>11 DEF WakeOnPoke, WakeOnTimeout
      <3>2. NoInputs \in [curve : Curves \cup {NoCurve},
                          prof : Profiles \cup {NoProfile},
                          ac : PowerSources \cup {"unknown"}, safety : BOOLEAN]
        BY DEF NoInputs
      <3>3. QED
        BY <3>1, <3>2 DEF TypeOK, LoopType
    <2>2. HardwareType' /\ SharedType' /\ EngineType'
      BY <1>11 DEF WakeOnPoke, WakeOnTimeout, TypeOK, HardwareType, SharedType,
                   EngineType
    <2>3. QED
      BY <1>11, <2>1, <2>2 DEF WakeOnPoke, WakeOnTimeout, TypeOK
  <1>12. CASE EngineStops
    <2>1. fan' \in FanType /\ stuck' \subseteq Fans
      <3>1. CASE owned
        BY <1>0, <1>12, <3>1, AfterAutoType DEF EngineStops, AutoFailures
      <3>2. CASE ~owned
        BY <1>0, <1>12, <3>2 DEF EngineStops, TypeOK
      <3>3. QED
        BY <3>1, <3>2
    <2>2. HardwareType' /\ SharedType'
      BY <1>12, <2>1
         DEF EngineStops, TypeOK, HardwareType, SharedType, IdleStatus,
             LiveStatus, Faults
    <2>3. EngineType' /\ LoopType' /\ hotBad' \in Nat
      BY <1>12 DEF EngineStops, TypeOK, EngineType, LoopType
    <2>4. QED
      BY <1>12, <2>1, <2>2, <2>3 DEF EngineStops, TypeOK
  <1>13. QED
    BY <1>1, <1>2, <1>3, <1>4, <1>5, <1>6, <1>7, <1>8, <1>9, <1>10, <1>11,
       <1>12
       DEF Engine, Tick, ReadBack

\* One step of a client thread keeps every type.
LEMMA TypeClient ==
    ASSUME TypeOK, NEW c \in Clients, ClientStarts(c) \/ ClientFinishes(c)
    PROVE  TypeOK'
  <1> USE DEF hwVars, sharedVars, engineVars, loopVars
  <1>0. MaxLevel \in Nat /\ ManualLevels \subseteq Levels
    BY FanCurveAssumption DEF Levels
  <1>1. CASE StoreCurve(c)
    <2>1. SharedType'
      BY <1>1 DEF StoreCurve, TypeOK, SharedType
    <2>2. client' \in [Clients -> ClientStates]
      BY <1>1 DEF StoreCurve, TypeOK, ClientStates
    <2>3. QED
      BY <1>1, <2>1, <2>2
         DEF StoreCurve, TypeOK, HardwareType, EngineType, LoopType
  <1>2. CASE SetProfile(c)
    <2>1. client' \in [Clients -> ClientStates]
      BY <1>2 DEF SetProfile, TypeOK, ClientStates
    <2>2. QED
      BY <1>2, <2>1
         DEF SetProfile, TypeOK, HardwareType, SharedType, EngineType, LoopType
  <1>3. CASE RequestReapply(c)
    <2>1. client' \in [Clients -> ClientStates]
      BY <1>3 DEF RequestReapply, TypeOK, ClientStates
    <2>2. QED
      BY <1>3, <2>1 DEF RequestReapply, TypeOK, HardwareType, SharedType,
                        EngineType, LoopType
  <1>4. CASE CheckFanTarget(c)
    <2>1. PICK f \in Fans, l \in ManualLevels :
            client' = [client EXCEPT ![c] = [at |-> "write", fan |-> f, level |-> l]]
      BY <1>4 DEF CheckFanTarget
    <2>2. [at |-> "write", fan |-> f, level |-> l] \in ClientStates
      BY DEF ClientStates
    <2>3. client' \in [Clients -> ClientStates]
      BY <2>1, <2>2 DEF TypeOK
    <2>4. QED
      BY <1>4, <2>3 DEF CheckFanTarget, TypeOK, HardwareType, SharedType,
                        EngineType, LoopType
  <1>5. CASE PokeRearm(c)
    <2>1. client' \in [Clients -> ClientStates]
      BY <1>5 DEF PokeRearm, TypeOK, ClientStates
    <2>2. QED
      BY <1>5, <2>1 DEF PokeRearm, TypeOK, HardwareType, SharedType,
                        EngineType, LoopType
  <1>6. CASE PokeWake(c)
    <2>1. client' \in [Clients -> ClientStates]
      BY <1>6 DEF PokeWake, TypeOK, ClientStates
    <2>2. QED
      BY <1>6, <2>1 DEF PokeWake, TypeOK, HardwareType, SharedType,
                        EngineType, LoopType
  <1>7. CASE WriteFanTarget(c)
    <2>1. /\ client[c].fan \in Fans
          /\ client[c].level \in ManualLevels
      <3>1. client[c] \in ClientStates /\ client[c].at = "write"
        BY <1>7 DEF WriteFanTarget, TypeOK
      <3>2. client[c] \in [at : {"write"}, fan : Fans, level : ManualLevels]
        BY <3>1 DEF ClientStates, Idle
      <3>3. QED
        BY <3>2
    <2>2. client' \in [Clients -> ClientStates]
      BY <1>7 DEF WriteFanTarget, TypeOK, ClientStates
    <2>3. Target("manual", client[c].level)
            \in [by : {"firmware", "engine", "manual"}, level : Levels]
      BY <1>0, <2>1 DEF Target
    <2>4. FirmwareAuto \in [by : {"firmware", "engine", "manual"}, level : Levels]
      BY AutoIsLevel DEF FirmwareAuto, Target
    <2>5. fan' \in FanType /\ stuck' \subseteq Fans
      BY <1>7, <2>3, <2>4 DEF WriteFanTarget, TypeOK, HardwareType, FanType
    <2>6. QED
      BY <1>7, <2>2, <2>5 DEF WriteFanTarget, TypeOK, HardwareType, SharedType,
                              EngineType, LoopType
  <1>8. QED
    BY <1>1, <1>2, <1>3, <1>4, <1>5, <1>6, <1>7 DEF ClientStarts, ClientFinishes

\* So does a step of main, and of the machine.
LEMMA TypeMainMachine ==
    TypeOK /\ (MainRestores \/ ProcessExits \/ Shutdown \/ Machine) => TypeOK'
  <1> SUFFICES ASSUME TypeOK, MainRestores \/ ProcessExits \/ Shutdown \/ Machine PROVE TypeOK'
    OBVIOUS
  <1> USE DEF hwVars, sharedVars, engineVars, loopVars
  <1>1. CASE MainRestores
    <2>1. fan' \in FanType /\ stuck' \subseteq Fans
      BY <1>1, AfterAutoType
         DEF MainRestores, AutoFailures, TypeOK, HardwareType
    <2>2. QED
      BY <1>1, <2>1 DEF MainRestores, TypeOK, HardwareType, SharedType,
                        EngineType, LoopType
  <1>0. CASE ProcessExits
    <2>1. client' \in [Clients -> ClientStates]
      BY <1>0 DEF ProcessExits, ClientStates
    <2>2. QED
      BY <1>0, <2>1 DEF ProcessExits, TypeOK, HardwareType, SharedType,
                        EngineType, LoopType
  <1>2. CASE Shutdown
    BY <1>2 DEF Shutdown, TypeOK, HardwareType, SharedType, EngineType, LoopType
  <1>3. CASE Machine
    <2>1. TypeOK /\ SoftwareUnchanged /\ HardwareType' /\ stuck' \subseteq Fans
            => TypeOK'
      BY DEF TypeOK, SoftwareUnchanged, SharedType, EngineType, LoopType
    <2>2. CASE FirmwareAccepts
      BY <1>3, <2>1, <2>2 DEF FirmwareAccepts, TypeOK, HardwareType
    <2>3. CASE SensorsChange
      BY <1>3, <2>1, <2>3 DEF SensorsChange, TypeOK, HardwareType
    <2>4. CASE ChargerChange
      BY <1>3, <2>1, <2>4 DEF ChargerChange, TypeOK, HardwareType
    <2>5. CASE ProfileKey
      BY <1>3, <2>1, <2>5 DEF ProfileKey, TypeOK, HardwareType
    <2>6. ASSUME NEW f \in Fans, FirmwareParks(f)
          PROVE  TypeOK'
      <3>1. FirmwareAuto \in [by : {"firmware", "engine", "manual"}, level : Levels]
        BY AutoIsLevel DEF FirmwareAuto, Target
      <3>2. HardwareType' /\ stuck' \subseteq Fans
        BY <2>6, <3>1 DEF FirmwareParks, TypeOK, HardwareType, FanType
      <3>3. QED
        BY <2>1, <2>6, <3>2 DEF FirmwareParks
    <2>7. QED
      BY <1>3, <2>2, <2>3, <2>4, <2>5, <2>6 DEF Machine
  <1>4. QED
    BY <1>0, <1>1, <1>2, <1>3

\* Every variable keeps its type, in every reachable state.
THEOREM TypeCorrect == Spec => []TypeOK
  <1>1. TypeOK /\ [Next]_vars => TypeOK'
    <2> SUFFICES ASSUME TypeOK, [Next]_vars PROVE TypeOK'
      OBVIOUS
    <2>1. CASE Engine
      BY <2>1, TypeEngine
    <2>2. ASSUME NEW c \in Clients, ClientStarts(c) \/ ClientFinishes(c)
          PROVE  TypeOK'
      BY <2>2, TypeClient
    <2>3. CASE MainRestores \/ ProcessExits \/ Shutdown \/ Machine
      BY <2>3, TypeMainMachine
    <2>4. CASE UNCHANGED vars
      BY <2>4 DEF vars, hwVars, sharedVars, engineVars, loopVars, TypeOK,
                  HardwareType, SharedType, EngineType, LoopType
    <2>5. QED
      BY <2>1, <2>2, <2>3, <2>4 DEF Next
  <1>2. QED
    BY TypeInit, <1>1, PTL DEF Spec
-----------------------------------------------------------------------------
(* The parts of the inductive invariant.                                   *)

\* A rejected curve owns nothing; a tick that wrote owns the fans.
OwnershipInv ==
    /\ rejected => ~owned
    /\ pc = "readback" => owned /\ ~rejected
    /\ \A f \in Fans : lastRpm[f] # AUTO => owned

\* Mismatches are counted only while the fans are owned, and at least as
\* often as a hot tick ends with a slow fan: a tick that was hot asked every
\* fan for its maximum, so a fan that is slow after it is a mismatch.
CountInv ==
    /\ ~owned => mismatchTicks = 0
    /\ hotBad <= mismatchTicks
    /\ pc = "readback" /\ seen.safety => \A f \in Fans : lastRpm[f] = MaxLevel

SafetyInv == NoOrphanTarget /\ StatusIsTruth /\ OwnershipInv /\ CountInv

-----------------------------------------------------------------------------
LEMMA MaxLevelPositive == MaxLevel \in Nat /\ MaxLevel > 0 /\ MaxLevel # AUTO
  <1>1. MaxLevel \in Nat \ {0}
    BY FanCurveAssumption
  <1>2. QED
    BY <1>1 DEF AUTO

\* The level the engine asks for is never 0, which the driver reads as auto.
LEMMA DecidesASpeed ==
    ASSUME TypeOK, Running, NEW t \in Temps
    PROVE  /\ DecideLevel(t) # AUTO
           /\ Safety(t) => DecideLevel(t) = MaxLevel
  <1>1. HystUpdate(hyst, t).held \in Temps
    BY HystUpdateType DEF TypeOK, EngineType
  <1>2. seen.curve \in [Temps -> 1..MaxLevel]
    BY FanCurveAssumption DEF Running, TypeOK, LoopType
  <1>3. seen.curve[HystUpdate(hyst, t).held] \in 1..MaxLevel
    BY <1>1, <1>2
  <1>4. QED
    BY <1>3, MaxLevelPositive DEF DecideLevel, AUTO

LEMMA SafetyInit == Init => SafetyInv
  <1> SUFFICES ASSUME Init PROVE SafetyInv
    OBVIOUS
  <1>1. NoOrphanTarget
    BY DEF Init, NoOrphanTarget, FirmwareAuto, Target
  <1>2. StatusIsTruth
    BY DEF Init, StatusIsTruth
  <1>3. OwnershipInv
    BY DEF Init, OwnershipInv, NothingWritten
  <1>4. CountInv
    BY DEF Init, CountInv
  <1>5. QED
    BY <1>1, <1>2, <1>3, <1>4 DEF SafetyInv

\* After a release nothing the engine wrote is left behind, provided nothing
\* was left behind by fans it did not own.
LEMMA ReleaseFrees ==
    ASSUME NEW fs, NEW o \in BOOLEAN, Release(fs, o),
           ~o => \A f \in Fans \ stuck : fs[f].by # "engine"
    PROVE  \A f \in Fans \ stuck' : fan'[f].by # "engine"
  <1>1. CASE o
    <2>1. PICK F \in AutoFailures(fs) : fan' = AfterAuto(fs, F) /\ stuck' = F
      BY <1>1 DEF Release
    <2>2. QED
      BY <2>1 DEF AfterAuto, FirmwareAuto, Target
  <1>2. CASE ~o
    BY <1>2 DEF Release
  <1>3. QED
    BY <1>1, <1>2

\* A tick that releases re-establishes the invariant.
LEMMA ReleasingTickSafe ==
    ASSUME NEW fs, NEW o \in BOOLEAN, Release(fs, o),
           ~o => \A f \in Fans \ stuck : fs[f].by # "engine",
           NEW x \in Faults, TickEnds(FaultStatus(x)),
           x = "not_accepted" => rejected'
    PROVE  SafetyInv'
  <1>0. /\ owned' = FALSE /\ lastRpm' = NothingWritten
        /\ mismatchTicks' = 0 /\ hotBad' = 0
    BY DEF Release
  <1>1. NoOrphanTarget'
    BY ReleaseFrees DEF NoOrphanTarget
  <1>2. pc' = "sleep" /\ live' = FaultStatus(x)
    BY DEF TickEnds
  <1>3. StatusIsTruth'
    BY <1>0, <1>2 DEF StatusIsTruth, FaultStatus, LiveStatus
  <1>4. OwnershipInv'
    BY <1>0, <1>2 DEF OwnershipInv, NothingWritten
  <1>5. CountInv'
    BY <1>0, <1>2 DEF CountInv
  <1>6. QED
    BY <1>1, <1>3, <1>4, <1>5 DEF SafetyInv

\* The write loop: fans it did not own before, it owns after, since some
\* target must have changed.
LEMMA WritingTickSafe == TypeOK /\ SafetyInv /\ TickWrite => SafetyInv'
  <1> SUFFICES ASSUME TypeOK, SafetyInv, TickWrite PROVE SafetyInv'
    OBVIOUS
  <1>1. PICK t \in Temps :
          LET level == DecideLevel(t)
              W == Changed(level)
          IN  /\ hyst' = HystUpdate(hyst, t)
              /\ fan' = AfterWrites(fan, W, "engine", [f \in Fans |-> level])
              /\ stuck' = IF accepts THEN stuck \ W ELSE stuck
              /\ lastRpm' = [f \in Fans |-> level]
              /\ owned' = (owned \/ W # {})
              /\ seen' = [seen EXCEPT !.safety = Safety(t)]
    BY DEF TickWrite
  <1>2. pc = "tick" /\ ~rejected /\ Running /\ pc' = "readback" /\ ~rejected'
        /\ mismatchTicks' = mismatchTicks /\ hotBad' = hotBad
    BY DEF TickWrite, Running
  <1>3. DecideLevel(t) # AUTO /\ (Safety(t) => DecideLevel(t) = MaxLevel)
    BY <1>2, DecidesASpeed
  <1>4. owned'
    <2>1. PICK f \in Fans : TRUE
      BY FanCurveAssumption
    <2>2. CASE lastRpm[f] = DecideLevel(t)
      BY <1>1, <1>3, <2>2 DEF SafetyInv, OwnershipInv
    <2>3. CASE lastRpm[f] # DecideLevel(t)
      BY <1>1, <2>3 DEF Changed
    <2>4. QED
      BY <2>2, <2>3
  <1>5. NoOrphanTarget' /\ StatusIsTruth'
    BY <1>2, <1>4 DEF NoOrphanTarget, StatusIsTruth, InControl
  <1>6. OwnershipInv'
    BY <1>2, <1>4 DEF OwnershipInv
  <1>7. CountInv'
    <2>1. seen'.safety => Safety(t)
      <3>1. seen' = [seen EXCEPT !.safety = Safety(t)]
        BY <1>1
      <3>2. seen'.safety = Safety(t)
        BY <3>1 DEF TypeOK, LoopType
      <3>3. QED
        BY <3>2
    <2>2. lastRpm' = [f \in Fans |-> DecideLevel(t)]
      BY <1>1
    <2>3. QED
      BY <1>2, <1>3, <1>4, <2>1, <2>2 DEF CountInv, SafetyInv
  <1>8. QED
    BY <1>5, <1>6, <1>7 DEF SafetyInv

\* The read-back that keeps the fans: a slow fan after a hot tick is a
\* mismatch, so the history count rises only with the mismatch count.
LEMMA KeepingReadBackSafe == TypeOK /\ SafetyInv /\ ReadBackKeeps => SafetyInv'
  <1> SUFFICES ASSUME TypeOK, SafetyInv, ReadBackKeeps PROVE SafetyInv'
    OBVIOUS
  <1>1. /\ pc = "readback" /\ pc' = "sleep" /\ owned' = TRUE /\ ~rejected'
        /\ live' = LiveStatus(TRUE, seen.safety, "none")
    BY DEF ReadBackKeeps, TickEnds, SafetyInv, OwnershipInv
  <1>2. NoOrphanTarget'
    BY <1>1 DEF NoOrphanTarget, InControl
  <1>3. StatusIsTruth'
    BY <1>1 DEF StatusIsTruth, LiveStatus
  <1>4. OwnershipInv'
    BY <1>1 DEF OwnershipInv
  <1>5. hotBad' <= mismatchTicks'
    <2>1. mismatchTicks \in Nat /\ hotBad \in Nat /\ hotBad <= mismatchTicks
      BY FanCurveAssumption DEF TypeOK, EngineType, SafetyInv, CountInv
    <2>2. /\ mismatchTicks' = IF Mismatches = {} THEN 0 ELSE mismatchTicks + 1
          /\ hotBad' = IF HotAndSlow THEN hotBad + 1 ELSE 0
      BY DEF ReadBackKeeps, HotBadNext
    <2>3. CASE HotAndSlow
      <3>1. PICK f \in Fans : fan[f].level \notin {AUTO, MaxLevel}
        BY <2>3 DEF HotAndSlow
      <3>2. lastRpm[f] = MaxLevel
        BY <1>1, <2>3 DEF HotAndSlow, SafetyInv, CountInv
      <3>3. f \in Mismatches
        BY <3>1, <3>2, MaxLevelPositive DEF Mismatches
      <3>4. QED
        BY <2>1, <2>2, <2>3, <3>3
    <2>4. CASE ~HotAndSlow
      BY <2>1, <2>2, <2>4
    <2>5. QED
      BY <2>3, <2>4
  <1>6. CountInv'
    BY <1>1, <1>5 DEF CountInv
  <1>7. QED
    BY <1>2, <1>3, <1>4, <1>6 DEF SafetyInv

\* One engine step re-establishes the invariant.
LEMMA SafetyEngine == TypeOK /\ SafetyInv /\ Engine => SafetyInv'
  <1> SUFFICES ASSUME TypeOK, SafetyInv, Engine PROVE SafetyInv'
    OBVIOUS
  <1> USE DEF hwVars, sharedVars, engineVars, loopVars
  <1>0. /\ owned \in BOOLEAN /\ hotBad \in Nat /\ mismatchTicks \in Nat
        /\ {"none", "on_battery", "not_accepted", "fault"} \subseteq Faults
    BY FanCurveAssumption DEF TypeOK, EngineType, Faults
  <1>1. ASSUME pc = "tick" \/ pc = "readback"
        PROVE  ~owned => \A f \in Fans \ stuck : fan[f].by # "engine"
    BY <1>1 DEF SafetyInv, NoOrphanTarget, InControl
  <1>2. CASE ReadInputs
    BY <1>2 DEF ReadInputs, ReadProfile, ReadCurve, ReadCharger, SafetyInv,
                NoOrphanTarget, InControl, StatusIsTruth, OwnershipInv, CountInv
  <1>3. CASE Rearm
    <2>1. pc = "rearm" /\ pc' = "tick" /\ fan' = fan /\ stuck' = stuck /\ owned' = owned
      BY <1>3 DEF Rearm
    <2>2. NoOrphanTarget' /\ StatusIsTruth'
      BY <2>1 DEF SafetyInv, NoOrphanTarget, InControl, StatusIsTruth
    <2>3. OwnershipInv' /\ CountInv'
      BY <1>0, <1>3, <2>1
         DEF Rearm, SafetyInv, OwnershipInv, CountInv, NothingWritten
    <2>4. QED
      BY <2>2, <2>3 DEF SafetyInv
  <1>4. CASE TickNoCurve
    <2>1. Release(fan, owned) /\ TickEnds(FaultStatus("none")) /\ pc = "tick"
      BY <1>4 DEF TickNoCurve, IdleStatus, FaultStatus
    <2>2. QED
      BY <1>0, <1>1, <2>1, ReleasingTickSafe
  <1>5. CASE TickOnBattery
    <2>1. Release(fan, owned) /\ TickEnds(FaultStatus("on_battery")) /\ pc = "tick"
      BY <1>5 DEF TickOnBattery
    <2>2. QED
      BY <1>0, <1>1, <2>1, ReleasingTickSafe
  <1>6. CASE TickRejected
    <2>1. /\ pc = "tick" /\ pc' = "sleep" /\ rejected /\ fan' = fan
          /\ live' = LiveStatus(FALSE, FALSE, "not_accepted")
          /\ UNCHANGED <<owned, lastRpm, mismatchTicks, rejected, stuck, hotBad>>
      BY <1>6 DEF TickRejected, TickEnds, FaultStatus
    <2>2. owned = FALSE
      BY <1>0, <2>1 DEF SafetyInv, OwnershipInv
    <2>3. NoOrphanTarget'
      BY <2>1, <2>2 DEF SafetyInv, NoOrphanTarget, InControl
    <2>4. live'.active = FALSE /\ owned' = FALSE /\ rejected'
      BY <2>1, <2>2 DEF LiveStatus
    <2>5. StatusIsTruth'
      BY <2>4 DEF StatusIsTruth
    <2>6. OwnershipInv' /\ CountInv'
      BY <2>1 DEF SafetyInv, OwnershipInv, CountInv
    <2>7. QED
      BY <2>3, <2>5, <2>6 DEF SafetyInv
  <1>7. CASE TickSensorFailure
    <2>1. Release(fan, owned) /\ TickEnds(FaultStatus("fault")) /\ pc = "tick"
      BY <1>7 DEF TickSensorFailure, Running
    <2>2. QED
      BY <1>0, <1>1, <2>1, ReleasingTickSafe
  <1>8. CASE TickWrite
    BY <1>8, WritingTickSafe
  <1>9. CASE TickWriteFailure
    <2>1. PICK fs : Release(fs, TRUE)
      BY <1>9 DEF TickWriteFailure
    <2>2. TickEnds(FaultStatus("fault"))
      BY <1>9 DEF TickWriteFailure
    <2>3. QED
      BY <1>0, <2>1, <2>2, ReleasingTickSafe
  <1>10. CASE ReadBackKeeps
    BY <1>10, KeepingReadBackSafe
  <1>11. CASE ReadBackRejects
    <2>1. Release(fan, owned) /\ TickEnds(FaultStatus("not_accepted"))
          /\ pc = "readback" /\ rejected'
      BY <1>11 DEF ReadBackRejects
    <2>2. QED
      BY <1>0, <1>1, <2>1, ReleasingTickSafe
  <1>12. CASE WakeOnPoke \/ WakeOnTimeout
    BY <1>12
       DEF WakeOnPoke, WakeOnTimeout, SafetyInv, NoOrphanTarget, InControl,
                 StatusIsTruth, OwnershipInv, CountInv
  <1>13. CASE EngineStops
    <2>1. pc' = "joined" /\ pc = "read"
      BY <1>13 DEF EngineStops
    <2>2. NoOrphanTarget'
      <3>1. CASE owned
        <4>1. PICK F \in AutoFailures(fan) : fan' = AfterAuto(fan, F) /\ stuck' = F
          BY <1>13, <3>1 DEF EngineStops
        <4>2. QED
          BY <4>1 DEF NoOrphanTarget, AfterAuto, FirmwareAuto, Target
      <3>2. CASE ~owned
        BY <1>13, <3>2 DEF EngineStops, SafetyInv, NoOrphanTarget, InControl
      <3>3. QED
        BY <3>1, <3>2
    <2>3. StatusIsTruth' /\ OwnershipInv' /\ CountInv'
      BY <1>13, <2>1 DEF EngineStops, SafetyInv, StatusIsTruth, OwnershipInv,
                         CountInv
    <2>4. QED
      BY <2>2, <2>3 DEF SafetyInv
  <1>14. QED
    BY <1>2, <1>3, <1>4, <1>5, <1>6, <1>7, <1>8, <1>9, <1>10, <1>11, <1>12,
       <1>13
       DEF Engine, Tick, ReadBack

\* So does a step of a client thread: it never writes as the engine.
LEMMA SafetyClient ==
    ASSUME TypeOK, SafetyInv, NEW c \in Clients,
           ClientStarts(c) \/ ClientFinishes(c)
    PROVE  SafetyInv'
  <1> USE DEF hwVars, sharedVars, engineVars, loopVars
  <1>1. /\ UNCHANGED <<live, hyst, owned, lastRpm, mismatchTicks, rejected, pc,
                       seen, last, hotBad>>
    BY DEF ClientStarts, ClientFinishes, StoreCurve, SetProfile, RequestReapply,
           CheckFanTarget, PokeRearm, PokeWake, WriteFanTarget
  <1>2. StatusIsTruth' /\ OwnershipInv' /\ CountInv'
    BY <1>1 DEF SafetyInv, StatusIsTruth, OwnershipInv, CountInv
  <1>3. NoOrphanTarget'
    <2>1. CASE WriteFanTarget(c)
      BY <1>1, <2>1 DEF WriteFanTarget, SafetyInv, NoOrphanTarget, InControl,
                        FirmwareAuto, Target, TypeOK, HardwareType, FanType
    <2>2. CASE UNCHANGED <<fan, stuck>>
      BY <1>1, <2>2 DEF SafetyInv, NoOrphanTarget, InControl
    <2>3. QED
      BY <2>1, <2>2 DEF ClientStarts, ClientFinishes, StoreCurve, SetProfile,
         RequestReapply, CheckFanTarget, PokeRearm, PokeWake
  <1>4. QED
    BY <1>2, <1>3 DEF SafetyInv

\* And a step of main, which writes auto once more, or of the machine.
LEMMA SafetyMainMachine ==
    TypeOK /\ SafetyInv /\ (MainRestores \/ ProcessExits \/ Shutdown \/ Machine) => SafetyInv'
  <1> SUFFICES ASSUME TypeOK, SafetyInv, MainRestores \/ ProcessExits \/ Shutdown \/ Machine
               PROVE  SafetyInv'
    OBVIOUS
  <1> USE DEF hwVars, sharedVars, engineVars, loopVars
  <1>1. CASE MainRestores
    <2>1. PICK F \in AutoFailures(fan) : fan' = AfterAuto(fan, F) /\ stuck' = F
      BY <1>1 DEF MainRestores
    <2>2. NoOrphanTarget'
      BY <2>1 DEF NoOrphanTarget, AfterAuto, FirmwareAuto, Target
    <2>3. StatusIsTruth' /\ OwnershipInv' /\ CountInv'
      BY <1>1 DEF MainRestores, SafetyInv, StatusIsTruth, OwnershipInv, CountInv
    <2>4. QED
      BY <2>2, <2>3 DEF SafetyInv
  <1>0. CASE ProcessExits
    BY <1>0
       DEF ProcessExits, SafetyInv, NoOrphanTarget, InControl, StatusIsTruth,
                OwnershipInv, CountInv
  <1>2. CASE Shutdown
    BY <1>2 DEF Shutdown, SafetyInv, NoOrphanTarget, InControl, StatusIsTruth,
                OwnershipInv, CountInv
  <1>3. CASE Machine
    <2>1. SoftwareUnchanged
      BY <1>3 DEF Machine, FirmwareAccepts, FirmwareParks, SensorsChange,
                  ChargerChange, ProfileKey
    <2>2. StatusIsTruth' /\ OwnershipInv' /\ CountInv'
      BY <2>1 DEF SoftwareUnchanged, SafetyInv, StatusIsTruth, OwnershipInv,
                  CountInv
    <2>3. NoOrphanTarget'
      <3>1. ASSUME NEW f \in Fans, FirmwareParks(f)
            PROVE  NoOrphanTarget'
        BY <2>1, <3>1 DEF FirmwareParks, SoftwareUnchanged, SafetyInv,
           NoOrphanTarget, InControl, FirmwareAuto, Target, TypeOK,
           HardwareType, FanType
      <3>2. CASE UNCHANGED <<fan, stuck>>
        BY <2>1, <3>2
           DEF SoftwareUnchanged, SafetyInv, NoOrphanTarget, InControl
      <3>3. QED
        BY <1>3, <3>1, <3>2 DEF Machine, FirmwareAccepts, SensorsChange,
                                ChargerChange, ProfileKey
    <2>4. QED
      BY <2>2, <2>3 DEF SafetyInv
  <1>4. QED
    BY <1>0, <1>1, <1>2, <1>3

\* The invariant holds in every reachable state.
THEOREM SafetyInvariant == Spec => []SafetyInv
  <1>1. TypeOK /\ SafetyInv /\ [Next]_vars => SafetyInv'
    <2> SUFFICES ASSUME TypeOK, SafetyInv, [Next]_vars PROVE SafetyInv'
      OBVIOUS
    <2>1. CASE Engine
      BY <2>1, SafetyEngine
    <2>2. ASSUME NEW c \in Clients, ClientStarts(c) \/ ClientFinishes(c)
          PROVE  SafetyInv'
      BY <2>2, SafetyClient
    <2>3. CASE MainRestores \/ ProcessExits \/ Shutdown \/ Machine
      BY <2>3, SafetyMainMachine
    <2>4. CASE UNCHANGED vars
      BY <2>4 DEF vars, hwVars, sharedVars, engineVars, loopVars, SafetyInv,
                  NoOrphanTarget, InControl, StatusIsTruth, OwnershipInv,
                  CountInv
    <2>5. QED
      BY <2>1, <2>2, <2>3, <2>4 DEF Next
  <1>2. QED
    BY SafetyInit, TypeCorrect, <1>1, PTL DEF Spec

\* Fans the engine no longer controls keep no speed it chose, except where
\* the write that hands a fan back failed.
THEOREM NoTargetIsOrphaned == Spec => []NoOrphanTarget
  <1>1. SafetyInv => NoOrphanTarget
    BY DEF SafetyInv
  <1>2. QED
    BY <1>1, SafetyInvariant, PTL

\* What clients read in LIVE agrees with the engine whenever it sleeps.
THEOREM StatusIsTruthful == Spec => []StatusIsTruth
  <1>1. SafetyInv => StatusIsTruth
    BY DEF SafetyInv
  <1>2. QED
    BY <1>1, SafetyInvariant, PTL

\* Hot ticks in a row that leave a fan slow stay below NOT_ACCEPTED_TICKS.
THEOREM HotFansAreFreed == Spec => []HotFansNotLeftSlow
  <1>1. TypeOK /\ SafetyInv => HotFansNotLeftSlow
    BY FanCurveAssumption
       DEF TypeOK, EngineType, SafetyInv, CountInv, HotFansNotLeftSlow
  <1>2. QED
    BY <1>1, TypeCorrect, SafetyInvariant, PTL

-----------------------------------------------------------------------------
(***************************************************************************)
(* No wake-up is lost.                                                     *)
(***************************************************************************)

\* From its reads to its sleep, with no wake-up pending and no client between
\* a store and the end of its poke, the engine works with the curve stored for
\* the profile it read; once past the rearm check it has also recorded that
\* profile.
PokeInv ==
    /\ /\ pc \in {"charger", "rearm", "tick", "readback", "sleep"}
       /\ ~POKE
       /\ \A c \in Clients : client[c].at \notin {"rearm", "wake"}
       => seen.curve = curves[seen.prof]
    /\ pc \in {"tick", "readback", "sleep"} => last.prof = seen.prof

\* A step that keeps the shared state and the clients, and leaves the inputs
\* but for the safety flag, keeps the invariant when it only moves on.
LEMMA PokeMovesOn ==
    ASSUME TypeOK, PokeInv,
           UNCHANGED <<curves, POKE, client, last>>,
           seen'.curve = seen.curve, seen'.prof = seen.prof,
           \/ pc' = pc
           \/ pc' \in {"readback", "sleep"} /\ pc \in {"tick", "readback"}
           \/ pc' \in {"read", "joined", "restored", "exited"}
    PROVE  PokeInv'
  BY DEF PokeInv

LEMMA SafetyFlagOnly ==
    ASSUME TypeOK, NEW b \in BOOLEAN, seen' = [seen EXCEPT !.safety = b]
    PROVE  seen'.curve = seen.curve /\ seen'.prof = seen.prof
  BY DEF TypeOK, LoopType

\* The engine's own steps: only its reads and its rearm check touch what the
\* invariant is about.
LEMMA PokeEngine == TypeOK /\ PokeInv /\ Engine => PokeInv'
  <1> SUFFICES ASSUME TypeOK, PokeInv, Engine PROVE PokeInv'
    OBVIOUS
  <1> USE DEF hwVars, sharedVars, engineVars, loopVars
  <1>1. CASE ReadInputs
    <2>1. CASE ReadProfile
      BY <2>1 DEF ReadProfile, PokeInv
    <2>2. CASE ReadCurve
      <3>1. /\ pc' = "charger" /\ curves' = curves
            /\ seen'.prof = seen.prof /\ seen'.curve = curves[seen.prof]
        BY <2>2 DEF ReadCurve, TypeOK, LoopType
      <3>2. QED
        BY <3>1 DEF PokeInv
    <2>3. CASE ReadCharger
      <3>1. /\ pc = "charger" /\ pc' = "rearm"
            /\ UNCHANGED <<curves, POKE, client>>
            /\ seen'.prof = seen.prof /\ seen'.curve = seen.curve
        BY <2>3 DEF ReadCharger, TypeOK, LoopType
      <3>2. QED
        BY <3>1 DEF PokeInv
    <2>4. QED
      BY <1>1, <2>1, <2>2, <2>3 DEF ReadInputs
  <1>2. CASE Rearm
    <2>1. /\ pc = "rearm" /\ pc' = "tick"
          /\ UNCHANGED <<curves, POKE, client, seen>>
      BY <1>2 DEF Rearm
    <2>2. last'.prof = seen.prof
      BY <1>2 DEF Rearm
    <2>3. QED
      BY <2>1, <2>2 DEF PokeInv
  <1>3. CASE Tick \/ ReadBack
    <2>1. /\ UNCHANGED <<curves, POKE, client, last>>
          /\ pc \in {"tick", "readback"} /\ pc' \in {"readback", "sleep"}
      BY <1>3 DEF Tick, ReadBack, TickNoCurve, TickOnBattery, TickRejected,
         TickSensorFailure, TickWrite, TickWriteFailure, ReadBackKeeps,
         ReadBackRejects, TickEnds, Running
    <2>2. \E b \in BOOLEAN : seen' = [seen EXCEPT !.safety = b]
      <3>1. \A t \in Temps : Safety(t) \in BOOLEAN
        BY DEF Safety
      <3>2. CASE TickWrite
        BY <3>1, <3>2 DEF TickWrite
      <3>3. CASE ~TickWrite
        BY <1>3, <3>3 DEF Tick, ReadBack, TickNoCurve, TickOnBattery,
           TickRejected, TickSensorFailure, TickWriteFailure, ReadBackKeeps,
           ReadBackRejects, TickEnds
      <3>4. QED
        BY <3>2, <3>3
    <2>3. seen'.curve = seen.curve /\ seen'.prof = seen.prof
      BY <2>2, SafetyFlagOnly
    <2>4. QED
      BY <2>1, <2>3, PokeMovesOn
  <1>4. CASE WakeOnPoke
    BY <1>4 DEF WakeOnPoke, PokeInv
  <1>5. CASE WakeOnTimeout \/ EngineStops
    BY <1>5 DEF WakeOnTimeout, EngineStops, PokeInv
  <1>6. QED
    BY <1>1, <1>2, <1>3, <1>4, <1>5 DEF Engine

\* The clients: a store leaves its client before its poke, and the end of the
\* poke leaves POKE set.
LEMMA PokeClient ==
    ASSUME TypeOK, PokeInv, NEW c \in Clients,
           ClientStarts(c) \/ ClientFinishes(c)
    PROVE  PokeInv'
  <1> USE DEF hwVars, sharedVars, engineVars, loopVars
  <1>0. /\ UNCHANGED <<pc, seen, last>>
        /\ \A d \in Clients \ {c} : client'[d] = client[d]
    BY DEF TypeOK, ClientStarts, ClientFinishes, StoreCurve, SetProfile,
           RequestReapply, CheckFanTarget, PokeRearm, PokeWake, WriteFanTarget
  <1>1. CASE client'[c].at \in {"rearm", "wake"}
    BY <1>0, <1>1 DEF PokeInv
  <1>2. CASE POKE'
    BY <1>0, <1>2 DEF PokeInv
  <1>3. CASE /\ client[c].at \notin {"rearm", "wake"}
             /\ UNCHANGED <<POKE, curves>>
    BY <1>0, <1>3 DEF PokeInv
  <1>4. CASE StoreCurve(c) \/ SetProfile(c) \/ RequestReapply(c)
    <2>1. client'[c] = [at |-> "rearm"]
      BY <1>4 DEF TypeOK, StoreCurve, SetProfile, RequestReapply
    <2>2. QED
      BY <1>1, <2>1
  <1>5. CASE PokeRearm(c)
    <2>1. client'[c] = [at |-> "wake"]
      BY <1>5 DEF TypeOK, PokeRearm
    <2>2. QED
      BY <1>1, <2>1
  <1>6. CASE PokeWake(c)
    BY <1>2, <1>6 DEF PokeWake
  <1>7. CASE CheckFanTarget(c) \/ WriteFanTarget(c)
    BY <1>3, <1>7 DEF CheckFanTarget, WriteFanTarget, Idle
  <1>8. QED
    BY <1>4, <1>5, <1>6, <1>7 DEF ClientStarts, ClientFinishes

\* main, SIGTERM and the machine store no curve and end no poke.
LEMMA PokeMainMachine ==
    TypeOK /\ PokeInv /\ (MainRestores \/ ProcessExits \/ Shutdown \/ Machine)
        => PokeInv'
  <1> SUFFICES ASSUME TypeOK, PokeInv,
                      MainRestores \/ ProcessExits \/ Shutdown \/ Machine
               PROVE  PokeInv'
    OBVIOUS
  <1> USE DEF hwVars, sharedVars, engineVars, loopVars
  <1>1. CASE ProcessExits
    BY <1>1 DEF ProcessExits, PokeInv
  <1>2. CASE MainRestores
    BY <1>2 DEF MainRestores, PokeInv
  <1>3. CASE Shutdown
    BY <1>3, PokeMovesOn DEF Shutdown
  <1>4. CASE Machine
    <2>1. SoftwareUnchanged
      BY <1>4 DEF Machine, FirmwareAccepts, FirmwareParks, SensorsChange,
                  ChargerChange, ProfileKey
    <2>2. QED
      BY <2>1, PokeMovesOn DEF SoftwareUnchanged
  <1>5. QED
    BY <1>1, <1>2, <1>3, <1>4

\* An engine that wrote, or still owns the fans in its sleep, has seen a curve
\* and no battery.
AskedInv ==
    pc = "readback" \/ (pc = "sleep" /\ owned)
        => seen.curve # NoCurve /\ seen.ac # "battery"

\* The inputs of a tick but its safety flag.
LEMMA InputsKept ==
    ASSUME TypeOK, NEW b \in BOOLEAN, seen' = [seen EXCEPT !.safety = b]
    PROVE  seen'.curve = seen.curve /\ seen'.ac = seen.ac
  BY DEF TypeOK, LoopType

LEMMA AskedEngine ==
    ASSUME TypeOK, SafetyInv, AskedInv, Engine
    PROVE  AskedInv'
  <1> USE DEF hwVars, sharedVars, engineVars, loopVars
  <1>1. CASE ReadInputs \/ Rearm \/ WakeOnPoke \/ WakeOnTimeout \/ EngineStops
    BY <1>1 DEF ReadInputs, ReadProfile, ReadCurve, ReadCharger, Rearm,
                WakeOnPoke, WakeOnTimeout, EngineStops, AskedInv
  <1>2. CASE TickNoCurve \/ TickOnBattery \/ TickSensorFailure
               \/ TickWriteFailure \/ ReadBackRejects
    BY <1>2 DEF TickNoCurve, TickOnBattery, TickSensorFailure, TickWriteFailure,
                ReadBackRejects, Release, TickEnds, AskedInv
  <1>3. CASE TickRejected
    BY <1>3 DEF TickRejected, TickEnds, SafetyInv, OwnershipInv, AskedInv
  <1>4. CASE TickWrite
    <2>1. seen'.curve = seen.curve /\ seen'.ac = seen.ac
      <3>1. PICK t \in Temps : seen' = [seen EXCEPT !.safety = Safety(t)]
        BY <1>4 DEF TickWrite
      <3>2. Safety(t) \in BOOLEAN
        BY DEF Safety
      <3>3. QED
        BY <3>1, <3>2, InputsKept
    <2>2. seen.curve # NoCurve /\ seen.ac # "battery"
      BY <1>4 DEF TickWrite, Running, PauseOnBattery
    <2>3. QED
      BY <2>1, <2>2 DEF AskedInv
  <1>5. CASE ReadBackKeeps
    <2>1. seen'.curve = seen.curve /\ seen'.ac = seen.ac
      BY <1>5, InputsKept DEF ReadBackKeeps, TickEnds
    <2>2. QED
      BY <1>5, <2>1 DEF ReadBackKeeps, AskedInv
  <1>6. QED
    BY <1>1, <1>2, <1>3, <1>4, <1>5 DEF Engine, Tick, ReadBack

\* The other threads and the machine leave the engine's program point, inputs
\* and ownership alone.
LEMMA AskedOthers ==
    ASSUME AskedInv,
           \/ \E c \in Clients : ClientStarts(c) \/ ClientFinishes(c)
           \/ MainRestores \/ ProcessExits \/ Shutdown \/ Machine
           \/ UNCHANGED vars
    PROVE  AskedInv'
  <1> USE DEF hwVars, sharedVars, engineVars, loopVars
  <1>1. (pc' = pc \/ pc' \in {"restored", "exited"})
        /\ seen' = seen /\ owned' = owned
    BY DEF ClientStarts, ClientFinishes, StoreCurve, SetProfile, RequestReapply,
           CheckFanTarget, PokeRearm, PokeWake, WriteFanTarget, MainRestores,
           ProcessExits, Shutdown, Machine, FirmwareAccepts, FirmwareParks,
           SensorsChange, ChargerChange, ProfileKey, SoftwareUnchanged, vars
  <1>2. QED
    BY <1>1 DEF AskedInv

\* No poke is lost: asleep, with no poke pending or under way, the engine runs
\* the curve stored for the profile it saw; and where that curve is disabled,
\* or it saw the machine on battery, no fan has a target of its own, but where
\* set_auto failed. For any number of fans, clients, profiles and curves.
THEOREM NoWakeUpIsLost == Spec => []PokedCurveInForce
  <1>1. Init => PokeInv /\ AskedInv
    BY DEF Init, PokeInv, AskedInv
  <1>2. TypeOK /\ SafetyInv /\ PokeInv /\ AskedInv /\ [Next]_vars
          => PokeInv' /\ AskedInv'
    <2> SUFFICES ASSUME TypeOK, SafetyInv, PokeInv, AskedInv, [Next]_vars
                 PROVE  PokeInv' /\ AskedInv'
      OBVIOUS
    <2>1. CASE Engine
      BY <2>1, PokeEngine, AskedEngine
    <2>2. ASSUME NEW c \in Clients, ClientStarts(c) \/ ClientFinishes(c)
          PROVE  PokeInv' /\ AskedInv'
      BY <2>2, PokeClient, AskedOthers
    <2>3. CASE MainRestores \/ ProcessExits \/ Shutdown \/ Machine
      BY <2>3, PokeMainMachine, AskedOthers
    <2>4. CASE UNCHANGED vars
      <3>1. PokeInv'
        BY <2>4 DEF vars, hwVars, sharedVars, loopVars, PokeInv
      <3>2. QED
        BY <2>4, <3>1, AskedOthers
    <2>5. QED
      BY <2>1, <2>2, <2>3, <2>4 DEF Next
  <1>3. SafetyInv /\ PokeInv /\ AskedInv => PokedCurveInForce
    <2> SUFFICES ASSUME SafetyInv, PokeInv, AskedInv, pc = "sleep", ~POKE,
                        \A c \in Clients : client[c] = Idle,
                        last.prof = profile
                 PROVE  /\ seen.curve = curves[profile]
                        /\ curves[profile] = NoCurve \/ seen.ac = "battery"
                             => \A f \in Fans \ stuck : fan[f].by # "engine"
      BY DEF PokedCurveInForce
    <2>1. seen.curve = curves[profile]
      BY DEF PokeInv, Idle
    <2>2. ASSUME curves[profile] = NoCurve \/ seen.ac = "battery"
          PROVE  ~InControl
      BY <2>1, <2>2 DEF AskedInv, InControl
    <2>3. QED
      BY <2>1, <2>2 DEF SafetyInv, NoOrphanTarget
  <1>4. QED
    BY <1>1, <1>2, <1>3, TypeCorrect, SafetyInvariant, PTL DEF Spec

-----------------------------------------------------------------------------
(***************************************************************************)
(* The engine implements its contract.                                     *)
(***************************************************************************)

\* A step that takes the fans from the engine and resets its count is the
\* contract's HandBack.
LEMMA ReleaseHandsBack ==
    ASSUME ~InControl', rejected' \in {rejected, FALSE}
    PROVE  Contract!HandBack
  <1>1. InControl' = FALSE
    BY DEF InControl
  <1>2. QED
    BY <1>1 DEF Contract!HandBack

LEMMA EngineStepContract ==
    TypeOK /\ SafetyInv /\ Engine => [Contract!Next]_(Contract!vars)
  <1> SUFFICES ASSUME TypeOK, SafetyInv, Engine
               PROVE  [Contract!Next]_(Contract!vars)
    OBVIOUS
  <1> USE DEF hwVars, sharedVars, engineVars, loopVars
  <1>0. /\ mismatchTicks \in 0..(NOT_ACCEPTED_TICKS - 1)
        /\ NOT_ACCEPTED_TICKS \in Nat
        /\ owned \in BOOLEAN /\ rejected \in BOOLEAN
    BY FanCurveAssumption DEF TypeOK, EngineType
  <1>1. CASE ReadInputs \/ WakeOnPoke \/ WakeOnTimeout \/ TickRejected
    BY <1>1 DEF ReadInputs, ReadProfile, ReadCurve, ReadCharger, WakeOnPoke,
                WakeOnTimeout, TickRejected, TickEnds, InControl, Contract!vars
  <1>2. CASE Rearm
    <2>1. CASE rejected' = FALSE /\ mismatchTicks' = 0
      <3>1. InControl' = InControl
        BY <1>2 DEF Rearm, InControl
      <3>2. Contract!Retry
        BY <2>1, <3>1 DEF Contract!Retry
      <3>3. QED
        BY <3>2 DEF Contract!Next
    <2>2. CASE UNCHANGED <<rejected, mismatchTicks>>
      BY <1>2, <2>2 DEF Rearm, InControl, Contract!vars
    <2>3. QED
      BY <1>2, <2>1, <2>2 DEF Rearm
  <1>3. CASE TickNoCurve \/ TickOnBattery \/ TickSensorFailure \/ TickWriteFailure
    <2>1. ~InControl' /\ rejected' \in {rejected, FALSE}
      BY <1>3 DEF TickNoCurve, TickOnBattery, TickSensorFailure,
                  TickWriteFailure, Release, InControl
    <2>2. QED
      BY <2>1, ReleaseHandsBack DEF Contract!Next
  <1>4. CASE TickWrite
    <2>1. /\ ~rejected /\ pc = "tick" /\ pc' = "readback"
          /\ UNCHANGED <<rejected, mismatchTicks>>
      BY <1>4 DEF TickWrite, Running
    <2>2. owned'
      BY <1>4, <2>1, WritingTickSafe DEF SafetyInv, OwnershipInv
    <2>3. InControl' = TRUE
      BY <2>1, <2>2 DEF InControl
    <2>4. CASE owned
      BY <2>1, <2>3, <2>4 DEF InControl, Contract!vars
    <2>5. CASE ~owned
      <3>1. mismatchTicks = 0 /\ ~InControl
        BY <2>5 DEF SafetyInv, CountInv, InControl
      <3>2. Contract!TakeOver
        BY <2>1, <2>3, <3>1 DEF Contract!TakeOver
      <3>3. QED
        BY <3>2 DEF Contract!Next
    <2>6. QED
      BY <2>4, <2>5
  <1>5. CASE ReadBackKeeps
    <2>1. /\ pc = "readback" /\ pc' = "sleep" /\ owned' = TRUE
          /\ Mismatches # {} => mismatchTicks + 1 < NOT_ACCEPTED_TICKS
          /\ mismatchTicks' = IF Mismatches = {} THEN 0 ELSE mismatchTicks + 1
          /\ rejected' = rejected
      BY <1>5 DEF ReadBackKeeps, TickEnds
    <2>2. owned = TRUE
      BY <1>0, <2>1 DEF SafetyInv, OwnershipInv
    <2>3. InControl = TRUE /\ InControl' = TRUE
      BY <2>1, <2>2 DEF InControl
    <2>4. CASE Mismatches = {}
      <3>1. Contract!Kept
        BY <2>1, <2>3, <2>4 DEF Contract!Kept
      <3>2. QED
        BY <3>1 DEF Contract!Next
    <2>5. CASE Mismatches # {}
      <3>1. Contract!Unkept
        BY <2>1, <2>3, <2>5 DEF Contract!Unkept
      <3>2. QED
        BY <3>1 DEF Contract!Next
    <2>6. QED
      BY <2>4, <2>5
  <1>6. CASE ReadBackRejects
    <2>1. /\ pc = "readback" /\ mismatchTicks + 1 >= NOT_ACCEPTED_TICKS
          /\ owned' = FALSE /\ rejected' = TRUE
      BY <1>6 DEF ReadBackRejects, Release
    <2>2. InControl /\ ~InControl'
      BY <2>1 DEF SafetyInv, OwnershipInv, InControl
    <2>3. mismatchTicks + 1 = NOT_ACCEPTED_TICKS
      BY <1>0, <2>1
    <2>4. Contract!GiveUp
      BY <2>1, <2>2, <2>3 DEF Contract!GiveUp
    <2>5. QED
      BY <2>4 DEF Contract!Next
  <1>7. CASE EngineStops
    <2>1. ~InControl' /\ rejected' \in {rejected, FALSE}
      BY <1>7 DEF EngineStops, InControl
    <2>2. QED
      BY <2>1, ReleaseHandsBack DEF Contract!Next
  <1>8. QED
    BY <1>1, <1>2, <1>3, <1>4, <1>5, <1>6, <1>7 DEF Engine, Tick, ReadBack

\* The other threads and the machine leave the engine as it is.
LEMMA OtherStepContract ==
    ASSUME \/ \E c \in Clients : ClientStarts(c) \/ ClientFinishes(c)
           \/ MainRestores \/ ProcessExits \/ Shutdown \/ Machine \/ UNCHANGED vars
    PROVE  UNCHANGED Contract!vars
  <1> USE DEF hwVars, sharedVars, engineVars, loopVars
  <1>1. UNCHANGED <<owned, mismatchTicks, rejected>>
        /\ \/ UNCHANGED pc
           \/ pc = "joined" /\ pc' = "restored"
           \/ pc = "restored" /\ pc' = "exited"
    BY DEF ClientStarts, ClientFinishes, StoreCurve, SetProfile, RequestReapply,
           CheckFanTarget, PokeRearm, PokeWake, WriteFanTarget, MainRestores,
           ProcessExits, Shutdown, Machine, FirmwareAccepts, FirmwareParks,
           SensorsChange,
           ChargerChange, ProfileKey, SoftwareUnchanged, vars
  <1>2. QED
    BY <1>1 DEF InControl, Contract!vars

\* With all its threads the engine does only what its contract allows: it
\* gives up after exactly NOT_ACCEPTED_TICKS unkept ticks in a row, hands the
\* fans back in that step, and takes no fan again before a retry.
THEOREM EngineImplementsContract == Spec => ImplementsContract
  <1>1. Init => Contract!Init
    BY DEF Init, InControl, Contract!Init
  <1>2. TypeOK /\ SafetyInv /\ [Next]_vars => [Contract!Next]_(Contract!vars)
    BY EngineStepContract, OtherStepContract DEF Next
  <1>3. QED
    BY <1>1, <1>2, TypeCorrect, SafetyInvariant, PTL
       DEF Spec, ImplementsContract, Contract!Spec

\* The contract's count of ticks in a row that were not kept.
mismatches == IF InControl THEN mismatchTicks ELSE 0

\* What the contract is for: an engine that has given up drives no fan until
\* something changes, and is never out of patience.
HandsOff == (rejected => ~InControl) /\ mismatches < NOT_ACCEPTED_TICKS

\* The contract alone promises it.
THEOREM ContractHandsOff == Contract!Spec => []HandsOff
  <1>1. NOT_ACCEPTED_TICKS \in Nat \ {0}
    BY FanCurveAssumption
  <1>2. Contract!Init => HandsOff
    BY <1>1 DEF Contract!Init, HandsOff, mismatches
  <1>3. HandsOff /\ [Contract!Next]_(Contract!vars) => HandsOff'
    <2> SUFFICES ASSUME HandsOff, [Contract!Next]_(Contract!vars)
                 PROVE  HandsOff'
      OBVIOUS
    <2> USE DEF HandsOff, mismatches
    <2>1. CASE Contract!TakeOver
      BY <2>1 DEF Contract!TakeOver
    <2>2. CASE Contract!Kept
      BY <1>1, <2>2 DEF Contract!Kept
    <2>3. CASE Contract!Unkept
      BY <1>1, <2>3 DEF Contract!Unkept
    <2>4. CASE Contract!GiveUp
      BY <1>1, <2>4 DEF Contract!GiveUp
    <2>5. CASE Contract!HandBack \/ Contract!Retry
      <3>1. mismatches' = 0
        BY <2>5 DEF Contract!HandBack, Contract!Retry
      <3>2. mismatches' < NOT_ACCEPTED_TICKS
        BY <1>1, <3>1
      <3>3. (rejected => ~InControl)'
        BY <2>5, Zenon DEF Contract!HandBack, Contract!Retry
      <3>4. QED
        BY <3>2, <3>3
    <2>6. CASE UNCHANGED Contract!vars
      BY <2>6 DEF Contract!vars
    <2>7. QED
      BY <2>1, <2>2, <2>3, <2>4, <2>5, <2>6 DEF Contract!Next
  <1>4. QED
    BY <1>2, <1>3, PTL DEF Contract!Spec

\* So, with what no release leaves behind: while the curve counts as not
\* accepted no fan has a target of the engine's, but where set_auto failed.
THEOREM RejectedIsHandsOff ==
    Spec => [](rejected => \A f \in Fans \ stuck : fan[f].by # "engine")
  <1>1. NoOrphanTarget /\ HandsOff
          => (rejected => \A f \in Fans \ stuck : fan[f].by # "engine")
    BY DEF NoOrphanTarget, HandsOff
  <1>2. Spec => []HandsOff
    BY EngineImplementsContract, ContractHandsOff DEF ImplementsContract
  <1>3. QED
    BY <1>1, <1>2, NoTargetIsOrphaned, PTL
=============================================================================
