----------------------- MODULE StartupUndervolt_proofs -----------------------
(***************************************************************************)
(* What holds of the startup offset for every set of offsets and clients:  *)
(* the types, and, where the marker reaches the disk in time and writes    *)
(* succeed, that a start after a crash does not apply the offset again.    *)
(***************************************************************************)
EXTENDS StartupUndervolt, TLAPS

\* The configurations a write can leave.
LEMMA StoreConfigType ==
    ASSUME config \in Configs, NEW new \in Configs, StoreConfig(new)
    PROVE  config' \in Configs
  BY DEF StoreConfig

\* The marker a write or removal can leave.
LEMMA SetMarkerType ==
    ASSUME armed \in BOOLEAN, flushed \in BOOLEAN, NEW there \in BOOLEAN,
           SetMarker(there)
    PROVE  armed' \in BOOLEAN /\ flushed' \in BOOLEAN
  BY DEF SetMarker

\* Configurations as records.
LEMMA ConfigsAreRecords == Configs = [enabled : BOOLEAN, offset : Offsets]
  <1>1. ASSUME NEW cfg \in Configs
        PROVE  cfg \in [enabled : BOOLEAN, offset : Offsets]
    BY DEF Configs, Config
  <1>2. ASSUME NEW cfg \in [enabled : BOOLEAN, offset : Offsets]
        PROVE  cfg \in Configs
    <2>1. cfg = Config(cfg.enabled, cfg.offset)
      BY DEF Config
    <2>2. cfg.enabled \in BOOLEAN /\ cfg.offset \in Offsets
      OBVIOUS
    <2>3. QED
      BY <2>1, <2>2 DEF Configs
  <1>3. QED
    BY <1>1, <1>2

\* A configuration switched off is one.
LEMMA DisabledType ==
    ASSUME NEW cfg \in Configs
    PROVE  Disabled(cfg) \in Configs /\ ~Disabled(cfg).enabled
  BY ConfigsAreRecords DEF Disabled

\* A handler whose state is replaced.
LEMMA ClientType ==
    ASSUME client \in [Clients -> ClientStates], NEW c \in Clients,
           NEW s \in ClientStates
    PROVE  [client EXCEPT ![c] = s] \in [Clients -> ClientStates]
  OBVIOUS

\* What each program point of a handler has of its own.
LEMMA ClientStateParts ==
    ASSUME NEW s \in ClientStates
    PROVE  /\ s.at \in {"applied", "enable", "disable"} => s.offset \in Offsets
           /\ s.at = "outdated" => s.old \in Configs
  BY DEF ClientStates, Idle

LEMMA TypeInit == Init => TypeOK
  <1> SUFFICES ASSUME Init PROVE TypeOK
    OBVIOUS
  <1>1. Config(FALSE, Stock) \in Configs
    BY ConfigsAreRecords, UndervoltAssumption DEF Config
  <1>2. client \in [Clients -> ClientStates]
    BY DEF Init, ClientStates
  <1>3. QED
    BY <1>1, <1>2, UndervoltAssumption DEF Init, TypeOK

LEMMA TypeWorker == TypeOK /\ WorkerSteps => TypeOK'
  <1> SUFFICES ASSUME TypeOK, WorkerSteps PROVE TypeOK'
    OBVIOUS
  <1> USE DEF disk
  <1>1. CASE WorkerStarts
    BY <1>1 DEF WorkerStarts, Worker, TypeOK
  <1>2. CASE WorkerRecovers
    BY <1>2, DisabledType, StoreConfigType
       DEF WorkerRecovers, Worker, MarkerUnchanged, TypeOK
  <1>3. CASE WorkerWakes
    BY <1>3 DEF WorkerWakes, Worker, TypeOK
  <1>4. CASE WorkerArms
    BY <1>4, SetMarkerType DEF WorkerArms, TypeOK
  <1>5. CASE WorkerApplies
    <2>1. captured.offset \in Offsets
      BY DEF TypeOK, Configs, Config
    <2>2. QED
      BY <1>5, <2>1 DEF WorkerApplies, TypeOK
  <1>6. CASE WorkerChecks
    BY <1>6, DisabledType, StoreConfigType
       DEF WorkerChecks, Worker, MarkerUnchanged, TypeOK
  <1>7. CASE WorkerResets
    BY <1>7, DisabledType, StoreConfigType, UndervoltAssumption
       DEF WorkerResets, Worker, MarkerUnchanged, TypeOK
  <1>8. CASE WorkerGivesUp
    BY <1>8, DisabledType, StoreConfigType
       DEF WorkerGivesUp, Worker, MarkerUnchanged, TypeOK
  <1>9. CASE WorkerValidates
    BY <1>9 DEF WorkerValidates, Worker, TypeOK
  <1>10. CASE WorkerDisarms
    BY <1>10, SetMarkerType DEF WorkerDisarms, Worker, TypeOK
  <1>11. QED
    BY <1>1, <1>2, <1>3, <1>4, <1>5, <1>6, <1>7, <1>8, <1>9, <1>10
       DEF WorkerSteps

LEMMA TypeClient ==
    ASSUME TypeOK, NEW c \in Clients, ClientStarts(c) \/ ClientFinishes(c)
    PROVE  TypeOK'
  <1> USE DEF disk
  <1>0. client \in [Clients -> ClientStates] /\ client[c] \in ClientStates
    BY DEF TypeOK
  <1>1. CASE SetAll(c)
    <2>1. PICK o \in Offsets :
            /\ active' = o
            /\ client' \in {client, [client EXCEPT
                              ![c] = [at |-> "applied", offset |-> o]]}
      BY <1>1 DEF SetAll
    <2>2. [at |-> "applied", offset |-> o] \in ClientStates
      BY DEF ClientStates
    <2>3. client' \in [Clients -> ClientStates]
      BY <1>0, <2>1, <2>2, ClientType
    <2>4. QED
      BY <1>1, <2>1, <2>3 DEF SetAll, TypeOK
  <1>2. CASE LoadConfig(c)
    <2>1. [at |-> "outdated", old |-> config] \in ClientStates
          /\ Idle \in ClientStates
      BY DEF ClientStates, TypeOK
    <2>2. client' \in [Clients -> ClientStates]
      BY <1>0, <1>2, <2>1, ClientType DEF LoadConfig
    <2>3. QED
      BY <1>2, <2>2 DEF LoadConfig, TypeOK
  <1>3. CASE DisableOutdated(c)
    <2>1. client[c].old \in Configs
      BY <1>0, <1>3, ClientStateParts DEF DisableOutdated
    <2>2. client' \in [Clients -> ClientStates]
      BY <1>0, <1>3, ClientType DEF DisableOutdated, ClientStates
    <2>3. QED
      BY <1>3, <2>1, <2>2, DisabledType, StoreConfigType
         DEF DisableOutdated, MarkerUnchanged, TypeOK
  <1>4. CASE CheckEnable(c)
    <2>1. [at |-> "enable", offset |-> active] \in ClientStates
      BY DEF ClientStates, TypeOK
    <2>2. client' \in [Clients -> ClientStates]
      BY <1>0, <1>4, <2>1, ClientType DEF CheckEnable
    <2>3. QED
      BY <1>4, <2>2 DEF CheckEnable, TypeOK
  <1>5. CASE Disarm(c)
    <2>1. PICK o \in Offsets :
            client' = [client EXCEPT ![c] = [at |-> "disable", offset |-> o]]
      BY <1>5 DEF Disarm
    <2>2. [at |-> "disable", offset |-> o] \in ClientStates
      BY DEF ClientStates
    <2>3. client' \in [Clients -> ClientStates]
      BY <1>0, <2>1, <2>2, ClientType
    <2>4. QED
      BY <1>5, <2>3, SetMarkerType DEF Disarm, TypeOK
  <1>6. CASE StorePersistence(c)
    <2>1. client[c].offset \in Offsets
      BY <1>0, <1>6, ClientStateParts DEF StorePersistence
    <2>2. Config(client[c].at = "enable", client[c].offset) \in Configs
      BY <2>1, ConfigsAreRecords DEF Config
    <2>3. client' \in [Clients -> ClientStates]
      BY <1>0, <1>6, ClientType DEF StorePersistence, ClientStates
    <2>4. QED
      BY <1>6, <2>2, <2>3, StoreConfigType
         DEF StorePersistence, MarkerUnchanged, TypeOK
  <1>7. QED
    BY <1>1, <1>2, <1>3, <1>4, <1>5, <1>6 DEF ClientStarts, ClientFinishes

LEMMA TypeMachine ==
    TypeOK /\ (DaemonStarts \/ GoesDown \/ Writeback) => TypeOK'
  <1> SUFFICES ASSUME TypeOK, DaemonStarts \/ GoesDown \/ Writeback PROVE TypeOK'
    OBVIOUS
  <1> USE DEF disk
  <1>1. [c \in Clients |-> Idle] \in [Clients -> ClientStates]
    BY DEF ClientStates
  <1>2. Died \in {"none", "running", "died", "user"}
    BY DEF Died, TypeOK
  <1>3. CASE DaemonStarts
    BY <1>3 DEF DaemonStarts, TypeOK
  <1>4. CASE CleanStop
    BY <1>4, SetMarkerType DEF CleanStop, TypeOK
  <1>5. CASE ProcessExits
    BY <1>1, <1>5 DEF ProcessExits, ProcessGone, TypeOK
  <1>6. CASE DaemonDies
    BY <1>1, <1>2, <1>6 DEF DaemonDies, ProcessGone, TypeOK
  <1>7. CASE MachineDies
    BY <1>1, <1>2, <1>7, UndervoltAssumption
       DEF MachineDies, ProcessGone, TypeOK
  <1>8. CASE Writeback
    BY <1>8 DEF Writeback, TypeOK
  <1>9. QED
    BY <1>3, <1>4, <1>5, <1>6, <1>7, <1>8 DEF GoesDown

\* Every variable keeps its type, in every reachable state.
THEOREM TypeCorrect == Spec => []TypeOK
  <1>1. TypeOK /\ [Next]_vars => TypeOK'
    <2> SUFFICES ASSUME TypeOK, [Next]_vars PROVE TypeOK'
      OBVIOUS
    <2>1. CASE UNCHANGED vars
      BY <2>1 DEF vars, disk, TypeOK
    <2>2. QED
      BY <2>1, TypeWorker, TypeClient, TypeMachine DEF Next
  <1>2. QED
    BY TypeInit, <1>1, PTL DEF Spec
-----------------------------------------------------------------------------
(***************************************************************************)
(* A crash is not repeated, where the kernel writes the marker to the disk *)
(* before the machine can die, and no write fails.                         *)
(***************************************************************************)
InTime == ~EarlyFreeze /\ ~WritesMayFail

\* An offset on trial, or that died in it, is blocked by the marker or by the
\* configuration.
Blocked == trial \in {"running", "died"} => armed \/ ~config.enabled

\* What each program point of the worker knows of the marker, the configuration
\* and the trial.
WorkerKnows ==
    /\ pc = "apply" /\ trial # "user" => armed
    /\ pc = "recovered" => ~config.enabled
    /\ pc = "disarm" /\ trial = "running" => ~config.enabled
    /\ trial = "died" => pc \in {"start", "recover", "recovered", "done"}

\* No handler is at work while the daemon is down or before clients are served.
NobodyYet ==
    daemon = "down" \/ pc \in {"start", "recover", "recovered"}
        => client = [c \in Clients |-> Idle]

IInv == TypeOK /\ Blocked /\ WorkerKnows /\ NobodyYet

\* A write that cannot fail leaves what was written.
LEMMA StoreConfigWrites ==
    ASSUME InTime, NEW new, StoreConfig(new)
    PROVE  config' = new
  BY DEF InTime, StoreConfig

LEMMA SetMarkerWrites ==
    ASSUME InTime, NEW there, SetMarker(there)
    PROVE  armed' = there
  BY DEF InTime, SetMarker

LEMMA SafeInit == Init => IInv
  BY TypeInit DEF Init, IInv, Blocked, WorkerKnows, NobodyYet, Config

LEMMA SafeWorker == InTime /\ IInv /\ WorkerSteps => IInv'
  <1> SUFFICES ASSUME InTime, IInv, WorkerSteps PROVE IInv'
    OBVIOUS
  <1> USE DEF disk
  <1>0. TypeOK'
    BY TypeWorker DEF IInv
  <1>1. CASE WorkerStarts
    BY <1>0, <1>1
       DEF WorkerStarts, Worker, IInv, Blocked, WorkerKnows, NobodyYet
  <1>2. CASE WorkerRecovers
    <2>1. ~config'.enabled
      BY <1>2, StoreConfigWrites, DisabledType DEF WorkerRecovers, IInv, TypeOK
    <2>2. QED
      BY <1>0, <1>2, <2>1
         DEF WorkerRecovers, Worker, IInv, Blocked, WorkerKnows, NobodyYet
  <1>3. CASE WorkerWakes
    BY <1>0, <1>3 DEF WorkerWakes, Worker, IInv, Blocked, WorkerKnows, NobodyYet
  <1>4. CASE WorkerArms
    <2>1. armed' /\ pc' = "apply"
      BY <1>4, SetMarkerWrites DEF WorkerArms, InTime
    <2>2. QED
      BY <1>0, <1>4, <2>1 DEF WorkerArms, IInv, Blocked, WorkerKnows, NobodyYet
  <1>5. CASE WorkerApplies
    BY <1>0, <1>5 DEF WorkerApplies, IInv, Blocked, WorkerKnows, NobodyYet
  <1>6. CASE WorkerChecks
    <2>1. config' = config \/ ~config'.enabled
      BY <1>6, StoreConfigWrites, DisabledType DEF WorkerChecks, IInv, TypeOK
    <2>2. QED
      BY <1>0, <1>6, <2>1 DEF WorkerChecks, Worker, MarkerUnchanged, IInv,
                              Blocked, WorkerKnows, NobodyYet
  <1>7. CASE WorkerResets
    <2>1. config' = config \/ ~config'.enabled
      BY <1>7, StoreConfigWrites, DisabledType DEF WorkerResets, IInv, TypeOK
    <2>2. QED
      BY <1>0, <1>7, <2>1 DEF WorkerResets, Worker, MarkerUnchanged, IInv,
                              Blocked, WorkerKnows, NobodyYet
  <1>8. CASE WorkerGivesUp
    <2>1. ~config'.enabled
      BY <1>8, StoreConfigWrites, DisabledType DEF WorkerGivesUp, IInv, TypeOK
    <2>2. QED
      BY <1>0, <1>8, <2>1 DEF WorkerGivesUp, Worker, IInv, Blocked, WorkerKnows,
                              NobodyYet
  <1>9. CASE WorkerValidates
    BY <1>0, <1>9
       DEF WorkerValidates, Worker, IInv, Blocked, WorkerKnows, NobodyYet
  <1>10. CASE WorkerDisarms
    BY <1>0, <1>10
       DEF WorkerDisarms, Worker, IInv, Blocked, WorkerKnows, NobodyYet
  <1>11. QED
    BY <1>1, <1>2, <1>3, <1>4, <1>5, <1>6, <1>7, <1>8, <1>9, <1>10
       DEF WorkerSteps

LEMMA SafeClient ==
    ASSUME InTime, IInv, NEW c \in Clients, ClientStarts(c) \/ ClientFinishes(c)
    PROVE  IInv'
  <1> USE DEF disk
  <1>0. TypeOK'
    BY TypeClient DEF IInv
  <1>a. daemon # "down" /\ pc \notin {"start", "recover", "recovered"}
    <2>1. CASE client[c] = Idle
      <3>1. client[c].at = "idle"
        BY <2>1 DEF Idle
      <3>2. ~ClientFinishes(c)
        BY <3>1
           DEF ClientFinishes, LoadConfig, DisableOutdated, StorePersistence
      <3>3. QED
        BY <3>2 DEF ClientStarts, SetAll, CheckEnable, Disarm, Serving
    <2>2. CASE client[c] # Idle
      BY <2>2 DEF IInv, NobodyYet
    <2>3. QED
      BY <2>1, <2>2
  <1>1. CASE SetAll(c)
    BY <1>0, <1>a, <1>1 DEF SetAll, IInv, Blocked, WorkerKnows, NobodyYet
  <1>2. CASE LoadConfig(c)
    BY <1>0, <1>a, <1>2 DEF LoadConfig, IInv, Blocked, WorkerKnows, NobodyYet
  <1>3. CASE DisableOutdated(c)
    <2>1. client[c].old \in Configs
      BY <1>3, ClientStateParts DEF DisableOutdated, IInv, TypeOK
    <2>2. ~config'.enabled
      BY <1>3, <2>1, StoreConfigWrites, DisabledType DEF DisableOutdated
    <2>3. QED
      BY <1>0, <1>a, <1>3, <2>2
         DEF DisableOutdated, MarkerUnchanged, IInv, Blocked, WorkerKnows,
             NobodyYet
  <1>4. CASE CheckEnable(c)
    BY <1>0, <1>a, <1>4 DEF CheckEnable, IInv, Blocked, WorkerKnows, NobodyYet
  <1>5. CASE Disarm(c)
    BY <1>0, <1>a, <1>5 DEF Disarm, IInv, Blocked, WorkerKnows, NobodyYet
  <1>6. CASE StorePersistence(c)
    BY <1>0, <1>a, <1>6
       DEF StorePersistence, IInv, Blocked, WorkerKnows, NobodyYet
  <1>7. QED
    BY <1>1, <1>2, <1>3, <1>4, <1>5, <1>6 DEF ClientStarts, ClientFinishes

LEMMA SafeMachine ==
    InTime /\ IInv /\ (DaemonStarts \/ GoesDown \/ Writeback) => IInv'
  <1> SUFFICES ASSUME InTime, IInv, DaemonStarts \/ GoesDown \/ Writeback
               PROVE  IInv'
    OBVIOUS
  <1> USE DEF disk
  <1>0. TypeOK'
    BY TypeMachine DEF IInv
  <1>1. CASE DaemonStarts
    BY <1>0, <1>1 DEF DaemonStarts, IInv, Blocked, WorkerKnows, NobodyYet
  <1>2. CASE CleanStop
    BY <1>0, <1>2
       DEF CleanStop, Serving, IInv, Blocked, WorkerKnows, NobodyYet
  <1>3. CASE ProcessExits
    BY <1>0, <1>3
       DEF ProcessExits, ProcessGone, IInv, Blocked, WorkerKnows, NobodyYet
  <1>4. CASE DaemonDies
    BY <1>0, <1>4
       DEF DaemonDies, ProcessGone, Died, IInv, Blocked, WorkerKnows, NobodyYet
  <1>5. CASE MachineDies
    BY <1>0, <1>5 DEF MachineDies, ProcessGone, Died, InTime, IInv, Blocked,
                      WorkerKnows, NobodyYet
  <1>6. CASE Writeback
    BY <1>0, <1>6 DEF Writeback, IInv, Blocked, WorkerKnows, NobodyYet
  <1>7. QED
    BY <1>1, <1>2, <1>3, <1>4, <1>5, <1>6 DEF GoesDown

\* IInv holds in every reachable state.
THEOREM SafetyInvariant == ASSUME InTime PROVE Spec => []IInv
  <1>1. IInv /\ [Next]_vars => IInv'
    <2> SUFFICES ASSUME IInv, [Next]_vars PROVE IInv'
      OBVIOUS
    <2>1. CASE UNCHANGED vars
      BY <2>1 DEF vars, disk, IInv, TypeOK, Blocked, WorkerKnows, NobodyYet
    <2>2. QED
      BY <2>1, SafeWorker, SafeClient, SafeMachine DEF Next
  <1>2. QED
    BY SafeInit, <1>1, PTL DEF Spec

\* A startup offset that died in its validation window is not applied again by
\* any later start (start_persistence_worker and its recovery marker).
THEOREM CrashIsNotRepeated == ASSUME InTime PROVE Spec => []CrashNotRepeated
  <1>1. IInv => CrashNotRepeated
    BY DEF IInv, WorkerKnows, CrashNotRepeated
  <1>2. QED
    BY SafetyInvariant, <1>1, PTL
-----------------------------------------------------------------------------
(***************************************************************************)
(* No block remains, where no write fails.                                 *)
(***************************************************************************)

\* A worker that has ended has taken its marker away; where it had nothing to
\* do, and a marker of an earlier start is left, the offset is off and no
\* handler has looked before the marker was there.
Unblocked ==
    daemon = "up" /\ pc = "done" /\ armed =>
        ~config.enabled /\ \A c \in Clients : client[c].at # "enable"

UInv == TypeOK /\ NobodyYet /\ Unblocked

LEMMA UnblockedWorker == ~WritesMayFail /\ UInv /\ WorkerSteps => UInv'
  <1> SUFFICES ASSUME ~WritesMayFail, UInv, WorkerSteps PROVE UInv'
    OBVIOUS
  <1> USE DEF disk
  <1>0. TypeOK'
    BY TypeWorker DEF UInv
  <1>1. CASE WorkerStarts
    <2>1. \A c \in Clients : client[c].at = "idle"
      BY <1>1 DEF WorkerStarts, Worker, UInv, NobodyYet, Idle
    <2>2. config' = config /\ client' = client /\ daemon # "down" /\ daemon' = daemon
      BY <1>1 DEF WorkerStarts, Worker
    <2>3. pc' = "done" => ~config.enabled
      BY <1>1, <1>0 DEF WorkerStarts, Worker, UInv, TypeOK
    <2>4. Unblocked'
      BY <2>1, <2>2, <2>3 DEF Unblocked
    <2>5. NobodyYet'
      BY <1>1, <2>2 DEF WorkerStarts, Worker, UInv, NobodyYet
    <2>6. QED
      BY <1>0, <2>4, <2>5 DEF UInv
  <1>2. CASE WorkerDisarms
    <2>1. ~armed'
      BY <1>2 DEF WorkerDisarms, SetMarker
    <2>2. QED
      BY <1>0, <1>2, <2>1 DEF WorkerDisarms, Worker, UInv, NobodyYet, Unblocked
  <1>3. CASE WorkerArms
    BY <1>0, <1>3 DEF WorkerArms, UInv, NobodyYet, Unblocked
  <1>4. CASE WorkerRecovers \/ WorkerWakes \/ WorkerApplies \/ WorkerChecks
               \/ WorkerResets \/ WorkerGivesUp \/ WorkerValidates
    <2>1. /\ pc' # "done" /\ client' = client /\ daemon' = daemon
          /\ pc \in {"recover", "delay", "apply", "check", "reset", "giveUp",
                     "validate"}
          /\ daemon # "down"
          /\ pc' \in {"recovered"} => pc = "recover"
          /\ pc' \notin {"start", "recover"}
      BY <1>4 DEF WorkerRecovers, WorkerWakes, WorkerApplies, WorkerChecks,
                  WorkerResets, WorkerGivesUp, WorkerValidates, Worker
    <2>2. QED
      BY <1>0, <2>1 DEF UInv, NobodyYet, Unblocked
  <1>5. QED
    BY <1>1, <1>2, <1>3, <1>4 DEF WorkerSteps

LEMMA UnblockedClient ==
    ASSUME ~WritesMayFail, UInv, NEW c \in Clients,
           ClientStarts(c) \/ ClientFinishes(c)
    PROVE  UInv'
  <1> USE DEF disk
  <1>0. TypeOK' /\ client \in [Clients -> ClientStates]
    BY TypeClient DEF UInv, TypeOK
  <1>1. daemon # "down" /\ pc \notin {"start", "recover", "recovered"}
    <2>1. CASE client[c] = Idle
      <3>1. client[c].at = "idle"
        BY <2>1 DEF Idle
      <3>2. QED
        BY <3>1 DEF ClientStarts, SetAll, CheckEnable, Disarm, Serving,
                    ClientFinishes, LoadConfig, DisableOutdated, StorePersistence
    <2>2. CASE client[c] # Idle
      BY <2>2 DEF UInv, NobodyYet
    <2>3. QED
      BY <2>1, <2>2
  <1>2. pc' = pc /\ daemon' = daemon
    BY DEF ClientStarts, SetAll, CheckEnable, Disarm, ClientFinishes, LoadConfig,
           DisableOutdated, StorePersistence
  <1>3. NobodyYet'
    BY <1>1, <1>2 DEF NobodyYet
  <1>4. ASSUME NEW s, client' = [client EXCEPT ![c] = s], s.at # "enable",
               armed' = armed, config' = config \/ ~config'.enabled
        PROVE  UInv'
    <2>1. \A d \in Clients : client'[d].at = "enable" => client[d].at = "enable"
      BY <1>0, <1>4
    <2>2. QED
      BY <1>0, <1>2, <1>3, <1>4, <2>1 DEF UInv, Unblocked
  <1>5. CASE SetAll(c)
    <2>1. PICK o \in Offsets :
            client' \in {client, [client EXCEPT
                              ![c] = [at |-> "applied", offset |-> o]]}
      BY <1>5 DEF SetAll
    <2>2. CASE client' = client
      BY <1>0, <1>2, <1>3, <1>5, <2>2 DEF SetAll, UInv, Unblocked
    <2>3. CASE client' # client
      <3>1. client' = [client EXCEPT ![c] = [at |-> "applied", offset |-> o]]
        BY <2>1, <2>3
      <3>2. [at |-> "applied", offset |-> o].at # "enable"
        OBVIOUS
      <3>3. armed' = armed /\ config' = config
        BY <1>5 DEF SetAll
      <3>4. QED
        BY <1>4, <3>1, <3>2, <3>3
    <2>4. QED
      BY <2>2, <2>3
  <1>6. CASE LoadConfig(c)
    <2>1. Idle.at # "enable" /\ [at |-> "outdated", old |-> config].at # "enable"
      BY DEF Idle
    <2>2. CASE Outdated(config, client[c].offset)
      BY <1>4, <1>6, <2>1, <2>2 DEF LoadConfig
    <2>3. CASE ~Outdated(config, client[c].offset)
      BY <1>4, <1>6, <2>1, <2>3 DEF LoadConfig
    <2>4. QED
      BY <2>2, <2>3
  <1>7. CASE DisableOutdated(c)
    <2>1. client[c].old \in Configs
      BY <1>0, <1>7, ClientStateParts DEF DisableOutdated
    <2>2. ~config'.enabled
      BY <1>7, <2>1, DisabledType DEF DisableOutdated, StoreConfig
    <2>3. client' = [client EXCEPT ![c] = Idle] /\ armed' = armed
      BY <1>7 DEF DisableOutdated, MarkerUnchanged
    <2>4. Idle.at # "enable"
      BY DEF Idle
    <2>5. QED
      BY <1>4, <2>2, <2>3, <2>4
  <1>8. CASE CheckEnable(c)
    BY <1>0, <1>2, <1>3, <1>8 DEF CheckEnable, UInv, Unblocked
  <1>9. CASE Disarm(c)
    <2>1. ~armed'
      BY <1>9 DEF Disarm, SetMarker
    <2>2. QED
      BY <1>0, <1>3, <2>1 DEF UInv, Unblocked
  <1>10. CASE StorePersistence(c)
    <2>1. CASE client[c].at = "enable"
      BY <1>0, <1>2, <1>3, <1>10, <2>1
         DEF StorePersistence, MarkerUnchanged, UInv, Unblocked
    <2>2. CASE client[c].at # "enable"
      <3>1. config' = Config(FALSE, client[c].offset)
        BY <1>10, <2>2 DEF StorePersistence, StoreConfig
      <3>2. client' = [client EXCEPT ![c] = Idle] /\ armed' = armed
        BY <1>10 DEF StorePersistence, MarkerUnchanged
      <3>3. Idle.at # "enable" /\ ~config'.enabled
        BY <3>1 DEF Idle, Config
      <3>4. QED
        BY <1>4, <3>2, <3>3
    <2>3. QED
      BY <2>1, <2>2
  <1>11. QED
    BY <1>5, <1>6, <1>7, <1>8, <1>9, <1>10 DEF ClientStarts, ClientFinishes

LEMMA UnblockedMachine ==
    UInv /\ (DaemonStarts \/ GoesDown \/ Writeback) => UInv'
  <1> SUFFICES ASSUME UInv, DaemonStarts \/ GoesDown \/ Writeback
               PROVE  UInv'
    OBVIOUS
  <1> USE DEF disk
  <1>0. TypeOK'
    BY TypeMachine DEF UInv
  <1>1. CASE DaemonStarts
    BY <1>0, <1>1 DEF DaemonStarts, UInv, NobodyYet, Unblocked
  <1>2. CASE CleanStop
    BY <1>0, <1>2 DEF CleanStop, Serving, UInv, NobodyYet, Unblocked
  <1>3. CASE ProcessExits \/ DaemonDies \/ MachineDies
    BY <1>0, <1>3 DEF ProcessExits, DaemonDies, MachineDies, ProcessGone, UInv,
                      NobodyYet, Unblocked
  <1>4. CASE Writeback
    BY <1>0, <1>4 DEF Writeback, UInv, NobodyYet, Unblocked
  <1>5. QED
    BY <1>1, <1>2, <1>3, <1>4 DEF GoesDown

\* If no write fails, no offset is both enabled and blocked by the marker once
\* the worker of a daemon that is up has ended, whenever the machine dies and
\* the kernel writes the marker to the disk (the safety in NotBlockedForever).
THEOREM BlockIsLifted == ASSUME ~WritesMayFail PROVE Spec => []NoBlockRemains
  <1>1. Init => UInv
    BY TypeInit DEF Init, UInv, NobodyYet, Unblocked
  <1>2. UInv /\ [Next]_vars => UInv'
    <2> SUFFICES ASSUME UInv, [Next]_vars PROVE UInv'
      OBVIOUS
    <2>1. CASE UNCHANGED vars
      BY <2>1 DEF vars, disk, UInv, TypeOK, NobodyYet, Unblocked
    <2>2. QED
      BY <2>1, UnblockedWorker, UnblockedClient, UnblockedMachine DEF Next
  <1>3. UInv => NoBlockRemains
    BY DEF UInv, Unblocked, NoBlockRemains
  <1>4. QED
    BY <1>1, <1>2, <1>3, PTL DEF Spec
=============================================================================
