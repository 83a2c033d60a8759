------------------------- MODULE ConfigStore_proofs -------------------------
(***************************************************************************)
(* What holds of the settings file for every set of threads, processes and *)
(* values, where the file lock is had in time: it is an atomic register,   *)
(* and a stale cache is found out.                                         *)
(***************************************************************************)
EXTENDS ConfigStore, TLAPS

EditJobs == {k \in Jobs : k.kind \notin {"snapshot", "apply"}}

LEMMA ConfigsAre ==
    /\ Default \in Configs /\ Absent \notin Configs /\ Corrupt \notin Configs
    /\ \A d \in Configs \cup {Absent, Corrupt} : Parsed(d) \in Configs
    /\ \A d \in Configs : Parsed(d) = d
    /\ Parsed(Absent) = Parsed(Corrupt)
  BY ConfigStoreAssumption DEF Default, Configs, Parsed

\* What the closures of update() make of a configuration is one.
LEMMA EditedType ==
    ASSUME NEW c \in Configs, NEW j \in EditJobs
    PROVE  edited(c, j) \in Configs
  <1>1. \/ j.kind \in {"remember_fan", "apply_profile"} /\ j.value \in Values
        \/ j.kind = "save_named_profile" /\ j.value \in Values
        \/ j.kind = "delete_named_profile"
    BY DEF EditJobs, Jobs
  <1>2. CASE j.kind \in {"remember_fan", "apply_profile"} /\ j.value \in Values
    BY <1>2 DEF edited, Configs
  <1>3. CASE j.kind = "save_named_profile" /\ j.value \in Values
    BY <1>3 DEF edited, Configs
  <1>4. CASE j.kind = "delete_named_profile"
    BY <1>4 DEF edited, Configs
  <1>5. QED
    BY <1>1, <1>2, <1>3, <1>4

\* The jobs of the two ways in, and what get() turns them into.
LEMMA JobsAre ==
    /\ \A j \in [kind : {"remember_fan"}, value : Values]
                   \cup [kind : {"delete_named_profile"}] : j \in EditJobs
    /\ \A k \in {"snapshot", "apply"} : [kind |-> k] \in Jobs
    /\ \A v \in Values : /\ [kind |-> "save_named_profile", value |-> v] \in EditJobs
                         /\ [kind |-> "apply_profile", value |-> v] \in EditJobs
    /\ EditJobs \subseteq Jobs
  BY DEF Jobs, EditJobs

Points == {"idle", "get", "mutex", "flock", "read", "write", "stat"}
Updating == {"mutex", "flock", "read", "write", "stat"}

\* A thread that updates has an edit to make.
Editing ==
    /\ \A t \in Threads : at[t] \in Updating => job[t] \in EditJobs
    /\ \A t \in Threads : at[t] = "get" => job[t].kind \in {"snapshot", "apply"}

IInvType == TypeOK /\ Editing

LEMMA GotoType ==
    ASSUME at \in [Threads -> Points], NEW t \in Threads, NEW p \in Points,
           Goto(t, p)
    PROVE  /\ at' \in [Threads -> Points] /\ at'[t] = p
           /\ \A u \in Threads \ {t} : at'[u] = at[u]
  BY DEF Goto

LEMMA UnlockType ==
    ASSUME TypeOK, NEW t \in Threads, Unlock(t)
    PROVE  /\ at' \in [Threads -> Points] /\ at'[t] = "idle"
           /\ job' \in [Threads -> Jobs \cup {NoJob}]
           /\ local' \in [Threads -> Configs]
           /\ mutex' \in [Processes -> Threads \cup {Nobody}]
           /\ mutex'[process[t]] = Nobody
           /\ \A p \in Processes \ {process[t]} : mutex'[p] = mutex[p]
           /\ flock' \in Threads \cup {Nobody}
           /\ \A u \in Threads \ {t} :
                at'[u] = at[u] /\ job'[u] = job[u] /\ local'[u] = local[u]
  BY ConfigsAre DEF Unlock, Goto, TypeOK, Points

LEMMA FailsType == Failures \in Nat /\ failures \in 0 .. Failures /\ Fails
                     => failures' \in 0 .. Failures
  BY DEF Fails

LEMMA TypeInit == Init => IInvType
  BY ConfigsAre, ConfigStoreAssumption
     DEF Init, IInvType, TypeOK, Editing, Updating

LEMMA TypeAsk ==
    ASSUME IInvType, NEW t \in Threads, Ask(t)
    PROVE  IInvType'
  <1>1. \/ (\E j \in EditJobs : job' = [job EXCEPT ![t] = j]) /\ Goto(t, "mutex")
        \/ (\E k \in {"snapshot", "apply"} : job' = [job EXCEPT ![t] = [kind |-> k]])
             /\ Goto(t, "get")
    BY JobsAre DEF Ask
  <1>2. /\ at' \in [Threads -> Points] /\ at'[t] \in {"mutex", "get"}
        /\ \A u \in Threads \ {t} : at'[u] = at[u]
    BY <1>1, GotoType DEF IInvType, TypeOK, Points
  <1>3. job' \in [Threads -> Jobs \cup {NoJob}]
        /\ \A u \in Threads \ {t} : job'[u] = job[u]
    BY <1>1, JobsAre DEF IInvType, TypeOK
  <1>4. TypeOK'
    BY <1>2, <1>3 DEF Ask, IInvType, TypeOK, Points
  <1>5. Editing'
    <2>1. CASE (\E j \in EditJobs : job' = [job EXCEPT ![t] = j]) /\ Goto(t, "mutex")
      BY <1>2, <1>3, <2>1 DEF Goto, IInvType, TypeOK, Editing
    <2>2. CASE (\E k \in {"snapshot", "apply"} :
                  job' = [job EXCEPT ![t] = [kind |-> k]]) /\ Goto(t, "get")
      BY <1>2, <1>3, <2>2 DEF Goto, IInvType, TypeOK, Editing, Updating
    <2>3. QED
      BY <1>1, <2>1, <2>2
  <1>6. QED
    BY <1>4, <1>5 DEF IInvType

LEMMA TypeGet ==
    ASSUME IInvType, NEW t \in Threads, Get(t)
    PROVE  IInvType'
  <1> DEFINE p == process[t]
  <1>1. p \in Processes /\ at[t] = "get" /\ mutex[p] = Nobody
    BY DEF Get, IInvType, TypeOK
  <1>2. /\ disk' \in Configs \cup {Absent, Corrupt}
        /\ cache' \in [Processes -> Configs] /\ seen' \in [Processes -> BOOLEAN]
        /\ apart' \in [Processes -> BOOLEAN] /\ failures' \in 0 .. Failures
    <2>1. Parsed(disk) \in Configs /\ Default \in Configs
      BY ConfigsAre DEF IInvType, TypeOK
    <2>2. CASE UNCHANGED <<disk, cache, seen, apart, failures>>
      BY <2>2 DEF IInvType, TypeOK
    <2>3. CASE /\ \/ cache' = [cache EXCEPT ![p] = Parsed(disk)]
                  \/ cache' = [cache EXCEPT ![p] = Default]
               /\ seen' = [seen EXCEPT ![p] = TRUE]
               /\ disk' \in {disk, Absent}
               /\ apart' = [apart EXCEPT ![p] = FALSE]
                  \/ apart' = [apart EXCEPT ![p] = TRUE]
               /\ failures' = failures \/ Fails
      <3>1. failures' \in 0 .. Failures
        BY <2>3, FailsType, ConfigStoreAssumption DEF IInvType, TypeOK
      <3>2. cache' \in [Processes -> Configs]
        BY <2>1, <2>3 DEF IInvType, TypeOK
      <3>3. seen' \in [Processes -> BOOLEAN] /\ apart' \in [Processes -> BOOLEAN]
        BY <2>3 DEF IInvType, TypeOK
      <3>4. disk' \in Configs \cup {Absent, Corrupt}
        BY <2>3 DEF IInvType, TypeOK
      <3>5. QED
        BY <3>1, <3>2, <3>3, <3>4
    <2>4. QED
      BY <2>2, <2>3 DEF Get
  <1>3. cache'[p].fan \in Values
        /\ (cache'[p].profile # NoProfile => cache'[p].profile \in Values)
    BY <1>1, <1>2 DEF Configs
  <1>4. \/ (\E j \in EditJobs : job' = [job EXCEPT ![t] = j]) /\ Goto(t, "mutex")
        \/ job' = [job EXCEPT ![t] = NoJob] /\ Goto(t, "idle")
    <2>1. CASE job[t].kind = "snapshot"
      BY <1>3, <2>1, JobsAre DEF Get
    <2>2. CASE job[t].kind # "snapshot" /\ cache'[p].profile = NoProfile
      BY <2>2 DEF Get
    <2>3. CASE job[t].kind # "snapshot" /\ cache'[p].profile # NoProfile
      BY <1>3, <2>3, JobsAre DEF Get
    <2>4. QED
      BY <2>1, <2>2, <2>3
  <1>5. /\ at' \in [Threads -> Points] /\ at'[t] \in {"mutex", "idle"}
        /\ \A u \in Threads \ {t} : at'[u] = at[u]
    BY <1>4, GotoType DEF IInvType, TypeOK, Points
  <1>6. job' \in [Threads -> Jobs \cup {NoJob}]
        /\ \A u \in Threads \ {t} : job'[u] = job[u]
    BY <1>4, JobsAre DEF IInvType, TypeOK
  <1>7. at'[t] = "mutex" => job'[t] \in EditJobs
    BY <1>4, <1>5 DEF Goto, IInvType, TypeOK
  <1>8. TypeOK'
    BY <1>2, <1>5, <1>6 DEF Get, IInvType, TypeOK, Points
  <1>9. Editing'
    BY <1>5, <1>6, <1>7 DEF IInvType, Editing, Updating
  <1>10. QED
    BY <1>8, <1>9 DEF IInvType

LEMMA TypeUpdate ==
    ASSUME IInvType, NEW t \in Threads, Update(t)
    PROVE  IInvType'
  <1>0. /\ process[t] \in Processes /\ at \in [Threads -> Points]
        /\ mutex \in [Processes -> Threads \cup {Nobody}]
        /\ job \in [Threads -> Jobs \cup {NoJob}] /\ local[t] \in Configs
        /\ cache[process[t]] \in Configs
    BY DEF IInvType, TypeOK, Points
  <1>a. at[t] \in Updating => edited(Parsed(disk), job[t]) \in Configs
                              /\ edited(cache[process[t]], job[t]) \in Configs
    <2>1. Parsed(disk) \in Configs
      BY ConfigsAre DEF IInvType, TypeOK
    <2>2. QED
      BY <1>0, <2>1, EditedType DEF IInvType, Editing
  <1>b. \A q \in Updating :
          Goto(t, q) => /\ at' \in [Threads -> Points] /\ at'[t] = q
                        /\ \A u \in Threads \ {t} : at'[u] = at[u]
    BY <1>0, GotoType DEF Points, Updating
  <1>1. CASE LockStore(t)
    <2>1. /\ at' \in [Threads -> Points] /\ at'[t] = "flock"
          /\ \A u \in Threads \ {t} : at'[u] = at[u]
      BY <1>1, <1>b DEF LockStore, Updating
    <2>2. \A u \in Threads : at'[u] \in {"flock", "read", "write", "stat"}
                               => mutex'[process[u]] = u
      BY <1>0, <1>1, <2>1, ConfigStoreAssumption DEF LockStore, IInvType, TypeOK
    <2>3. TypeOK'
      BY <1>0, <1>1, <2>1, <2>2 DEF LockStore, IInvType, TypeOK, Points
    <2>4. Editing'
      BY <1>1, <2>1 DEF LockStore, IInvType, Editing, Updating
    <2>5. QED
      BY <2>3, <2>4 DEF IInvType
  <1>2. CASE LockFile(t)
    <2>1. /\ at' \in [Threads -> Points] /\ at'[t] = "read"
          /\ \A u \in Threads \ {t} : at'[u] = at[u]
      BY <1>2, <1>b DEF LockFile, Updating
    <2>2. flock' \in Threads \cup {Nobody}
      BY <1>2 DEF LockFile, IInvType, TypeOK
    <2>3. TypeOK'
      BY <1>2, <2>1, <2>2 DEF LockFile, IInvType, TypeOK, Points
    <2>4. Editing'
      BY <1>2, <2>1 DEF LockFile, IInvType, Editing, Updating
    <2>5. QED
      BY <2>3, <2>4 DEF IInvType
  <1>3. CASE Read(t)
    <2>1. /\ at' \in [Threads -> Points] /\ at'[t] = "write"
          /\ \A u \in Threads \ {t} : at'[u] = at[u]
      BY <1>3, <1>b DEF Read, Updating
    <2>2. local' \in [Threads -> Configs]
      BY <1>3, <1>a DEF Read, IInvType, TypeOK, Updating
    <2>3. TypeOK'
      BY <1>3, <2>1, <2>2 DEF Read, IInvType, TypeOK, Points
    <2>4. Editing'
      BY <1>3, <2>1 DEF Read, IInvType, Editing, Updating
    <2>5. QED
      BY <2>3, <2>4 DEF IInvType
  <1>4. CASE ReadFails(t) \/ Stat(t)
    <2>1. Unlock(t) /\ mutex[process[t]] = t /\ UNCHANGED process
      BY <1>4 DEF ReadFails, Stat, IInvType, TypeOK
    <2>2. cache' \in [Processes -> Configs] /\ seen' \in [Processes -> BOOLEAN]
          /\ apart' \in [Processes -> BOOLEAN] /\ failures' \in 0 .. Failures
          /\ disk' = disk
      BY <1>0, <1>4, <1>a, FailsType, ConfigStoreAssumption
         DEF ReadFails, Stat, IInvType, TypeOK, Updating
    <2>3. \A u \in Threads : at'[u] \in {"flock", "read", "write", "stat"}
                               => mutex'[process[u]] = u
      BY <2>1, UnlockType DEF IInvType, TypeOK
    <2>4. TypeOK'
      BY <2>1, <2>2, <2>3, UnlockType DEF IInvType, TypeOK, Points
    <2>5. Editing'
      BY <2>1, UnlockType DEF IInvType, Editing, Updating
    <2>6. QED
      BY <2>4, <2>5 DEF IInvType
  <1>5. CASE Write(t) \/ WriteFails(t)
    <2>1. /\ at' \in [Threads -> Points] /\ at'[t] = "stat"
          /\ \A u \in Threads \ {t} : at'[u] = at[u]
      BY <1>5, <1>b DEF Write, WriteFails, Updating
    <2>2. disk' \in Configs \cup {Absent, Corrupt} /\ seen' \in [Processes -> BOOLEAN]
          /\ apart' \in [Processes -> BOOLEAN] /\ failures' \in 0 .. Failures
      <3>1. disk' \in {disk, local[t]}
        BY <1>5 DEF Write, WriteFails
      <3>2. seen' \in [Processes -> BOOLEAN] /\ apart' \in [Processes -> BOOLEAN]
        <4>1. \/ seen' = seen \/ seen' = [q \in Processes |-> FALSE]
          BY <1>5 DEF Write, WriteFails
        <4>2. \E b \in BOOLEAN : apart' = [apart EXCEPT ![process[t]] = b]
          BY <1>5 DEF Write, WriteFails
        <4>3. seen' \in [Processes -> BOOLEAN]
          <5>1. seen \in [Processes -> BOOLEAN]
            BY DEF IInvType, TypeOK
          <5>2. [q \in Processes |-> FALSE] \in [Processes -> BOOLEAN]
            OBVIOUS
          <5>3. QED
            BY <4>1, <5>1, <5>2, Zenon
        <4>4. apart' \in [Processes -> BOOLEAN]
          BY <4>2 DEF IInvType, TypeOK
        <4>5. QED
          BY <4>3, <4>4
      <3>3. failures' \in 0 .. Failures
        BY <1>5, FailsType, ConfigStoreAssumption
           DEF Write, WriteFails, IInvType, TypeOK
      <3>4. QED
        BY <1>0, <3>1, <3>2, <3>3 DEF IInvType, TypeOK
    <2>3. TypeOK'
      BY <1>5, <2>1, <2>2 DEF Write, WriteFails, IInvType, TypeOK, Points
    <2>4. Editing'
      BY <1>5, <2>1 DEF Write, WriteFails, IInvType, Editing, Updating
    <2>5. QED
      BY <2>3, <2>4 DEF IInvType
  <1>6. QED
    BY <1>1, <1>2, <1>3, <1>4, <1>5 DEF Update

LEMMA TypeOutside ==
    IInvType /\ ((\E p \in Processes : Crash(p)) \/ SpoilFile) => IInvType'
  <1> SUFFICES ASSUME IInvType, (\E p \in Processes : Crash(p)) \/ SpoilFile
               PROVE  IInvType'
    OBVIOUS
  <1>1. ASSUME NEW p \in Processes, Crash(p)
        PROVE  IInvType'
    <2> DEFINE mine == {t \in Threads : process[t] = p}
    <2>1. /\ at' = [t \in Threads |-> IF t \in mine THEN "idle" ELSE at[t]]
          /\ job' = [t \in Threads |-> IF t \in mine THEN NoJob ELSE job[t]]
          /\ local' = [t \in Threads |-> IF t \in mine THEN Default ELSE local[t]]
          /\ flock' = IF flock \in mine THEN Nobody ELSE flock
      BY <1>1 DEF Crash
    <2>2. \A t \in Threads : at'[t] # "idle" =>
            process[t] # p /\ at'[t] = at[t] /\ job'[t] = job[t]
      BY <2>1
    <2>3. local' \in [Threads -> Configs] /\ job' \in [Threads -> Jobs \cup {NoJob}]
          /\ at' \in [Threads -> Points] /\ flock' \in Threads \cup {Nobody}
      BY <2>1, ConfigsAre DEF IInvType, TypeOK, Points
    <2>4. mutex' \in [Processes -> Threads \cup {Nobody}]
          /\ \A q \in Processes \ {p} : mutex'[q] = mutex[q]
      BY <1>1 DEF Crash, IInvType, TypeOK
    <2>5. cache' \in [Processes -> Configs] /\ seen' \in [Processes -> BOOLEAN]
          /\ apart' \in [Processes -> BOOLEAN]
          /\ disk' \in Configs \cup {Absent, Corrupt}
      BY <1>1, ConfigsAre DEF Crash, IInvType, TypeOK
    <2>6. process' = process /\ failures' = failures
      BY <1>1 DEF Crash
    <2> HIDE DEF mine
    <2>7. \A t \in Threads : at'[t] \in {"flock", "read", "write", "stat"}
                               => mutex'[process[t]] = t
      BY <2>2, <2>4 DEF IInvType, TypeOK
    <2>8. TypeOK'
      BY <2>3, <2>4, <2>5, <2>6, <2>7 DEF IInvType, TypeOK, Points
    <2>9. Editing'
      BY <2>2 DEF IInvType, Editing, Updating
    <2>10. QED
      BY <2>8, <2>9 DEF IInvType
  <1>2. CASE SpoilFile
    <2>1. TypeOK'
      BY <1>2 DEF SpoilFile, IInvType, TypeOK
    <2>2. QED
      BY <1>2, <2>1 DEF SpoilFile, IInvType, Editing
  <1>3. QED
    BY <1>1, <1>2

LEMMA TypeNext == IInvType /\ [Next]_vars => IInvType'
  <1> SUFFICES ASSUME IInvType, [Next]_vars PROVE IInvType'
    OBVIOUS
  <1>1. CASE UNCHANGED vars
    BY <1>1 DEF vars, IInvType, TypeOK, Editing
  <1>2. QED
    BY <1>1, TypeAsk, TypeGet, TypeUpdate, TypeOutside DEF Next

\* Every variable keeps its type, and a thread that is past STORE's lock is its
\* process's holder of it, in every reachable state.
THEOREM TypeCorrect == Spec => []TypeOK
  <1>1. IInvType => TypeOK
    BY DEF IInvType
  <1>2. QED
    BY TypeInit, TypeNext, <1>1, PTL DEF Spec
-----------------------------------------------------------------------------
(***************************************************************************)
(* Where no thread goes on without the file lock, the file changes by      *)
(* whole edits of what it held; where a write also changes the mtime, a    *)
(* stale cache is noticed.                                                 *)
(***************************************************************************)
InTime == ~LockTimesOut

\* Past LockFile, a thread holds the file.
Locked == \A t \in Threads : at[t] \in {"read", "write", "stat"} => flock = t

\* What a thread is about to write is its edit of what the file holds.
EditReady ==
    \A t \in Threads : at[t] = "write" => local[t] = edited(Parsed(disk), job[t])

\* What a thread is about to note as known is what the file holds.
StatReady ==
    \A t \in Threads : at[t] = "stat" /\ ~apart[process[t]] => disk = local[t]

Safe == Locked /\ EditReady /\ (~CoarseMtime => StatReady /\ StaleCacheNoticed)

IInv == IInvType /\ Safe

LEMMA SafeInit == Init => IInv
  BY TypeInit, ConfigsAre, ConfigStoreAssumption
     DEF Init, IInv, Safe, Locked, EditReady, StatReady, StaleCacheNoticed, Parsed

LEMMA SafeAsk ==
    ASSUME IInv, NEW t \in Threads, Ask(t)
    PROVE  Safe'
  <1>1. at \in [Threads -> Points] /\ job \in [Threads -> Jobs \cup {NoJob}]
    BY DEF IInv, IInvType, TypeOK, Points
  <1>2. /\ at'[t] \in {"mutex", "get"}
        /\ \A u \in Threads \ {t} : at'[u] = at[u] /\ job'[u] = job[u]
    BY <1>1 DEF Ask, Goto
  <1>3. QED
    BY <1>2 DEF Ask, IInv, Safe, Locked, EditReady, StatReady, StaleCacheNoticed

\* What get() does to the file and the caches: nothing, or the cache of its
\* process is loaded.
LEMMA GetStep ==
    ASSUME InTime, IInvType, NEW t \in Threads, Get(t)
    PROVE  /\ at'[t] \in {"mutex", "idle"}
           /\ \A u \in Threads \ {t} : at'[u] = at[u] /\ job'[u] = job[u]
           /\ mutex[process[t]] = Nobody
           /\ UNCHANGED <<process, mutex, flock, local>>
           /\ \/ UNCHANGED <<disk, cache, seen, apart>>
              \/ /\ flock = Nobody
                 /\ disk' = disk \/ (disk = Corrupt /\ disk' = Absent)
                 /\ \A q \in Processes \ {process[t]} :
                      cache'[q] = cache[q] /\ seen'[q] = seen[q] /\ apart'[q] = apart[q]
                 /\ \/ cache'[process[t]] = Parsed(disk)
                    \/ apart'[process[t]]
  <1>1. /\ at \in [Threads -> Points] /\ job \in [Threads -> Jobs \cup {NoJob}]
        /\ cache \in [Processes -> Configs] /\ seen \in [Processes -> BOOLEAN]
        /\ apart \in [Processes -> BOOLEAN] /\ process[t] \in Processes
    BY DEF IInvType, TypeOK, Points
  <1>2. /\ at'[t] \in {"mutex", "idle"}
        /\ \A u \in Threads \ {t} : at'[u] = at[u] /\ job'[u] = job[u]
    BY <1>1 DEF Get, Goto
  <1>3. \/ UNCHANGED <<disk, cache, seen, apart>>
        \/ /\ flock = Nobody
           /\ disk' = disk \/ (disk = Corrupt /\ disk' = Absent)
           /\ seen' = [seen EXCEPT ![process[t]] = TRUE]
           /\ \/ /\ cache' = [cache EXCEPT ![process[t]] = Parsed(disk)]
                 /\ apart' = [apart EXCEPT ![process[t]] = FALSE]
              \/ /\ cache' = [cache EXCEPT ![process[t]] = Default]
                 /\ apart' = [apart EXCEPT ![process[t]] = TRUE]
    BY DEF Get, InTime
  <1>4. QED
    BY <1>1, <1>2, <1>3 DEF Get

LEMMA SafeGet ==
    ASSUME InTime, IInv, NEW t \in Threads, Get(t)
    PROVE  Safe'
  <1>1. /\ at'[t] \in {"mutex", "idle"}
        /\ \A u \in Threads \ {t} : at'[u] = at[u] /\ job'[u] = job[u]
        /\ mutex[process[t]] = Nobody
        /\ UNCHANGED <<process, mutex, flock, local>>
    BY GetStep DEF IInv
  <1>2. \A u \in Threads : process[u] \in Processes
    BY DEF IInv, IInvType, TypeOK
  <1>3. Locked'
    BY <1>1 DEF IInv, Safe, Locked
  <1>4. CASE UNCHANGED <<disk, cache, seen, apart>>
    BY <1>1, <1>3, <1>4 DEF IInv, Safe, EditReady, StatReady, StaleCacheNoticed
  <1>5. CASE /\ flock = Nobody
             /\ disk' = disk \/ (disk = Corrupt /\ disk' = Absent)
             /\ \A q \in Processes \ {process[t]} :
                  cache'[q] = cache[q] /\ seen'[q] = seen[q] /\ apart'[q] = apart[q]
             /\ \/ cache'[process[t]] = Parsed(disk)
                \/ apart'[process[t]]
    <2>1. \A u \in Threads : at'[u] \notin {"read", "write", "stat"}
      BY <1>1, <1>3, <1>5, ConfigStoreAssumption DEF Locked
    <2>2. Parsed(disk)' = Parsed(disk)
      BY <1>5, ConfigsAre DEF Parsed
    <2>3. (~CoarseMtime => StaleCacheNoticed)'
      BY <1>1, <1>2, <1>5, <2>2 DEF IInv, Safe, StaleCacheNoticed
    <2>4. QED
      BY <1>3, <2>1, <2>3 DEF Safe, EditReady, StatReady
  <1>6. QED
    BY <1>4, <1>5, GetStep DEF IInv

\* A thread that holds the file is the only one that reads or writes it.
LEMMA HolderAlone ==
    ASSUME IInv, NEW t \in Threads, at[t] \in {"read", "write", "stat"}
    PROVE  /\ flock = t /\ mutex[process[t]] = t
           /\ \A u \in Threads \ {t} : at[u] \notin {"read", "write", "stat"}
  BY DEF IInv, Safe, Locked, IInvType, TypeOK

LEMMA SafeUpdate ==
    ASSUME InTime, IInv, NEW t \in Threads, Update(t)
    PROVE  Safe'
  <1>0. /\ at \in [Threads -> Points] /\ job \in [Threads -> Jobs \cup {NoJob}]
        /\ local \in [Threads -> Configs] /\ cache \in [Processes -> Configs]
        /\ seen \in [Processes -> BOOLEAN] /\ apart \in [Processes -> BOOLEAN]
        /\ mutex \in [Processes -> Threads \cup {Nobody}]
        /\ process \in [Threads -> Processes]
        /\ disk \in Configs \cup {Absent, Corrupt}
    BY DEF IInv, IInvType, TypeOK, Points
  <1>1. CASE LockStore(t)
    <2>1. /\ at'[t] = "flock" /\ \A u \in Threads \ {t} : at'[u] = at[u]
          /\ \A q \in Processes : mutex'[q] = Nobody => mutex[q] = Nobody
      BY <1>0, <1>1 DEF LockStore, Goto
    <2>2. QED
      BY <1>1, <2>1 DEF LockStore, IInv, Safe, Locked, EditReady, StatReady,
                        StaleCacheNoticed
  <1>2. CASE LockFile(t)
    <2>1. /\ at'[t] = "read" /\ \A u \in Threads \ {t} : at'[u] = at[u]
          /\ flock = Nobody /\ flock' = t
      BY <1>0, <1>2 DEF LockFile, Goto, InTime
    <2>2. \A u \in Threads : at[u] \notin {"read", "write", "stat"}
      BY <2>1, ConfigStoreAssumption DEF IInv, Safe, Locked
    <2>3. Locked' /\ EditReady' /\ StatReady'
      BY <2>1, <2>2 DEF Locked, EditReady, StatReady
    <2>4. QED
      BY <1>2, <2>3 DEF LockFile, IInv, Safe, StaleCacheNoticed
  <1>3. CASE Read(t)
    <2>1. /\ at'[t] = "write" /\ \A u \in Threads \ {t} : at'[u] = at[u]
          /\ local'[t] = edited(Parsed(disk), job[t])
          /\ flock = t /\ \A u \in Threads \ {t} : at[u] \notin {"read", "write", "stat"}
      BY <1>0, <1>3, HolderAlone DEF Read, Goto
    <2>2. Parsed(disk)' = Parsed(disk)
      BY <1>3, ConfigsAre DEF Read, Parsed
    <2>3. Locked' /\ EditReady' /\ StatReady'
      BY <1>3, <2>1, <2>2 DEF Read, Locked, EditReady, StatReady
    <2>4. (~CoarseMtime => StaleCacheNoticed)'
      BY <1>3, <2>2 DEF Read, IInv, Safe, StaleCacheNoticed
    <2>5. QED
      BY <2>3, <2>4 DEF Safe
  <1>4. CASE ReadFails(t) \/ Stat(t)
    <2>1. Unlock(t) /\ at[t] \in {"read", "stat"} /\ UNCHANGED <<process, disk>>
      BY <1>4 DEF ReadFails, Stat
    <2>2. /\ \A u \in Threads : at'[u] \notin {"read", "write", "stat"}
          /\ \A q \in Processes \ {process[t]} : mutex'[q] = mutex[q]
      BY <2>1, UnlockType, HolderAlone DEF IInv, IInvType
    <2>3. Locked' /\ EditReady' /\ StatReady'
      BY <2>2 DEF Locked, EditReady, StatReady
    <2>4. \A q \in Processes \ {process[t]} :
            cache'[q] = cache[q] /\ seen'[q] = seen[q] /\ apart'[q] = apart[q]
      BY <1>0, <1>4 DEF ReadFails, Stat
    <2>5. ~CoarseMtime =>
            apart'[process[t]] \/ cache'[process[t]] = Parsed(disk)
      <3>1. CASE ReadFails(t)
        BY <1>0, <3>1 DEF ReadFails
      <3>2. CASE Stat(t)
        BY <1>0, <3>2, ConfigsAre DEF Stat, IInv, Safe, StatReady
      <3>3. QED
        BY <1>4, <3>1, <3>2
    <2>6. (~CoarseMtime => StaleCacheNoticed)'
      BY <2>1, <2>2, <2>4, <2>5 DEF IInv, Safe, StaleCacheNoticed, Parsed
    <2>7. QED
      BY <2>3, <2>6 DEF Safe
  <1>5. CASE Write(t)
    <2>1. /\ at'[t] = "stat" /\ \A u \in Threads \ {t} : at'[u] = at[u]
          /\ flock = t /\ \A u \in Threads \ {t} : at[u] \notin {"read", "write", "stat"}
          /\ mutex[process[t]] = t
      BY <1>0, <1>5, HolderAlone DEF Write, Goto
    <2>2. disk' = local[t]
      BY <1>5 DEF Write
    <2>3. Locked' /\ EditReady' /\ StatReady'
      BY <1>5, <2>1, <2>2 DEF Write, Locked, EditReady, StatReady
    <2>4. (~CoarseMtime => StaleCacheNoticed)'
      <3>1. CASE disk = local[t]
        <4>1. UNCHANGED <<disk, seen, cache, mutex>>
          BY <1>5, <3>1 DEF Write
        <4>2. \A q \in Processes : mutex[q] = Nobody => apart'[q] = apart[q]
          BY <1>0, <1>5, <2>1, ConfigStoreAssumption DEF Write
        <4>3. QED
          BY <4>1, <4>2 DEF IInv, Safe, StaleCacheNoticed, Parsed
      <3>2. CASE disk # local[t]
        <4>1. ~CoarseMtime => \A q \in Processes : ~seen'[q]
          BY <1>5, <3>2 DEF Write
        <4>2. QED
          BY <4>1 DEF StaleCacheNoticed
      <3>3. QED
        BY <3>1, <3>2
    <2>5. QED
      BY <2>3, <2>4 DEF Safe
  <1>6. CASE WriteFails(t)
    <2>1. /\ at'[t] = "stat" /\ \A u \in Threads \ {t} : at'[u] = at[u]
          /\ flock = t /\ \A u \in Threads \ {t} : at[u] \notin {"read", "write", "stat"}
          /\ mutex[process[t]] = t
          /\ apart'[process[t]] /\ \A q \in Processes : apart[q] => apart'[q]
      BY <1>0, <1>6, HolderAlone DEF WriteFails, Goto
    <2>2. Locked' /\ EditReady' /\ StatReady'
      BY <1>6, <2>1 DEF WriteFails, Locked, EditReady, StatReady
    <2>3. (~CoarseMtime => StaleCacheNoticed)'
      BY <1>6, <2>1 DEF WriteFails, IInv, Safe, StaleCacheNoticed
    <2>4. QED
      BY <2>2, <2>3 DEF Safe
  <1>7. QED
    BY <1>1, <1>2, <1>3, <1>4, <1>5, <1>6 DEF Update

LEMMA SafeCrash ==
    ASSUME InTime, IInv, NEW p \in Processes, Crash(p)
    PROVE  Safe'
  <1> DEFINE mine == {t \in Threads : process[t] = p}
  <1>0. /\ cache \in [Processes -> Configs] /\ seen \in [Processes -> BOOLEAN]
        /\ apart \in [Processes -> BOOLEAN]
        /\ mutex \in [Processes -> Threads \cup {Nobody}]
        /\ process \in [Threads -> Processes]
    BY DEF IInv, IInvType, TypeOK
  <1>1. /\ \A t \in Threads : at'[t] # "idle" => at'[t] = at[t] /\ job'[t] = job[t]
                                /\ local'[t] = local[t] /\ process[t] # p
        /\ process' = process
    BY DEF Crash
  <1>2. \A t \in Threads : at'[t] \notin {"read", "write", "stat"}
    <2> SUFFICES ASSUME NEW t \in Threads, at'[t] \in {"read", "write", "stat"}
                 PROVE  FALSE
      OBVIOUS
    <2>1. at[t] \in {"read", "write", "stat"} /\ process[t] # p
      BY <1>1
    <2>2. flock = t
      BY <2>1 DEF IInv, Safe, Locked
    <2>3. flock \in {u \in Threads : process[u] = p} \cup {Nobody}
      BY DEF Crash, InTime
    <2>4. QED
      BY <2>1, <2>2, <2>3, ConfigStoreAssumption
  <1>3. Parsed(disk)' = Parsed(disk)
    BY ConfigsAre DEF Crash, Parsed
  <1>4. /\ cache'[p] = Parsed(disk)
        /\ \A q \in Processes \ {p} : /\ cache'[q] = cache[q] /\ seen'[q] = seen[q]
                                      /\ apart'[q] = apart[q] /\ mutex'[q] = mutex[q]
    BY <1>0 DEF Crash
  <1>5. (~CoarseMtime => StaleCacheNoticed)'
    BY <1>1, <1>3, <1>4 DEF IInv, Safe, StaleCacheNoticed
  <1>6. QED
    BY <1>2, <1>5 DEF Safe, Locked, EditReady, StatReady

LEMMA SafeSpoil == IInv /\ SpoilFile => Safe'
  <1> SUFFICES ASSUME IInv, SpoilFile PROVE Safe'
    OBVIOUS
  <1>1. \A t \in Threads : at[t] \notin {"read", "write", "stat"}
    BY ConfigStoreAssumption DEF SpoilFile, IInv, Safe, Locked
  <1>2. \A q \in Processes : ~seen'[q]
    BY DEF SpoilFile
  <1>3. QED
    BY <1>1, <1>2
       DEF SpoilFile, Safe, Locked, EditReady, StatReady, StaleCacheNoticed

\* The strengthening holds in every reachable state.
THEOREM StoreInvariant == ASSUME InTime PROVE Spec => []IInv
  <1>1. IInv /\ [Next]_vars => IInv'
    <2> SUFFICES ASSUME IInv, [Next]_vars PROVE IInv'
      OBVIOUS
    <2>1. IInvType'
      BY TypeNext DEF IInv
    <2>2. CASE UNCHANGED vars
      BY <2>1, <2>2 DEF vars, IInv, Safe, Locked, EditReady, StatReady,
                        StaleCacheNoticed, Parsed
    <2>3. QED
      BY <2>1, <2>2, SafeAsk, SafeGet, SafeUpdate, SafeCrash, SafeSpoil
         DEF Next, IInv
  <1>2. QED
    BY SafeInit, <1>1, PTL DEF Spec

\* A cache that differs from the file is found out at the next look at the
\* mtime (reload_if_changed), where two writes never share one.
THEOREM StaleIsNoticed ==
    ASSUME InTime, ~CoarseMtime PROVE Spec => []StaleCacheNoticed
  <1>1. IInv => StaleCacheNoticed
    BY DEF IInv, Safe
  <1>2. QED
    BY StoreInvariant, <1>1, PTL
-----------------------------------------------------------------------------
\* An edit, as a function, does what the closure does.
LEMMA EditsAre ==
    ASSUME NEW c \in Configs, NEW j \in EditJobs
    PROVE  \E f \in Edits : f[c] = edited(c, j)
  <1> DEFINE f == [d \in Configs |-> edited(d, j)]
  <1>1. f \in Edits
    BY DEF Edits, EditJobs
  <1>2. f[c] = edited(c, j)
    OBVIOUS
  <1>3. QED
    BY <1>1, <1>2

\* What a step of the threads does to the file is one step of the register.
LEMMA RegisterStep ==
    ASSUME InTime, IInv, [Next]_vars
    PROVE  [Register!Next]_disk
  <1>1. CASE disk' = disk \/ disk' = Corrupt \/ (disk = Corrupt /\ disk' = Absent)
    BY <1>1 DEF Register!Next, Register!Spoil, Register!SetAside
  <1>2. ASSUME NEW t \in Threads, Write(t)
        PROVE  [Register!Next]_disk
    <2>1. disk' \in {disk, edited(Parsed(disk), job[t])}
      BY <1>2 DEF Write, IInv, Safe, EditReady
    <2>2. Parsed(disk) \in Configs /\ job[t] \in EditJobs
      BY <1>2, ConfigsAre DEF Write, IInv, IInvType, TypeOK, Editing, Updating
    <2>3. Register!Parsed(disk) = Parsed(disk)
      BY DEF Register!Parsed, Parsed
    <2>4. QED
      BY <2>1, <2>2, <2>3, EditsAre DEF Register!Next, Register!Edit
  <1>3. ASSUME NEW t \in Threads, Get(t)
        PROVE  disk' = disk \/ (disk = Corrupt /\ disk' = Absent)
    BY <1>3, GetStep DEF IInv
  <1>4. ASSUME NEW t \in Threads, Ask(t) \/ (Update(t) /\ ~Write(t))
        PROVE  disk' = disk \/ (disk = Corrupt /\ disk' = Absent)
    BY <1>4
       DEF Ask, Update, LockStore, LockFile, Read, ReadFails, WriteFails, Stat
  <1>5. ASSUME \/ \E p \in Processes : Crash(p)
               \/ SpoilFile \/ UNCHANGED vars
        PROVE  disk' = disk \/ disk' = Corrupt \/ (disk = Corrupt /\ disk' = Absent)
    BY <1>5 DEF Crash, SpoilFile, vars
  <1>6. QED
    BY <1>1, <1>2, <1>3, <1>4, <1>5 DEF Next

\* settings.json, shared by the threads of any number of processes that read,
\* write, fail and are killed, is a register changed by whole edits: no update
\* is lost and none is torn.
THEOREM StoreIsRegister == ASSUME InTime PROVE Spec => ImplementsRegister
  <1>1. Init => Register!Init
    BY DEF Init, Register!Init
  <1>2. QED
    BY <1>1, RegisterStep, StoreInvariant, PTL
       DEF Spec, ImplementsRegister, Register!Spec
=============================================================================
