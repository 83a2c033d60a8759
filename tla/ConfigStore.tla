---------------------------- MODULE ConfigStore ----------------------------
(***************************************************************************)
(* The settings store (config.rs): the threads of the processes that share *)
(* one settings.json (the desktop application and the command line), each  *)
(* process with its cache. The daemon has a file of its own.               *)
(***************************************************************************)
EXTENDS Naturals

CONSTANTS
    Threads,         \* threads that read and write settings
    Processes,       \* the desktop application, the command line
    Values,          \* values of a setting
    Initial,         \* its default
    NoProfile,       \* no profile of that name
    Absent,          \* no settings file
    Corrupt,         \* a file that does not parse
    Nobody,          \* holder of a free lock
    LockTimesOut,    \* whether 500 ms can pass without the file lock
    CoarseMtime,     \* whether two writes can have the same mtime
    Failures         \* bound: reads and writes of the file that fail

ASSUME ConfigStoreAssumption ==
    /\ Initial \in Values
    /\ Nobody \notin Threads
    /\ Absent # Corrupt
    /\ {Absent, Corrupt} \cap [fan : Values, profile : Values \cup {NoProfile}] = {}
    /\ Failures \in Nat

VARIABLES
    process,    \* the process of each thread
    disk,       \* the content of settings.json
    cache,      \* STORE: the configuration each process has in memory
    seen,       \* the mtime each process has noted is the file's
    mutex,      \* the holder of each process's STORE
    flock,      \* the holder of .settings.lock
    at,         \* program point of every thread
    job,        \* the edit a thread is about
    local,      \* the configuration it has read
    apart,      \* history: the cache is known to differ from the file
    failures    \* reads and writes that have failed

vars == <<process, disk, cache, seen, mutex, flock, at, job, local, apart,
          failures>>

\* One field of the last session, and the same field in the one named profile.
Configs == [fan : Values, profile : Values \cup {NoProfile}]
Default == [fan |-> Initial, profile |-> NoProfile]

Parsed(d) == IF d \in {Absent, Corrupt} THEN Default ELSE d

\* What a thread can ask for; the last two read the cache first.
Jobs == [kind : {"remember_fan", "save_named_profile", "apply_profile"},
         value : Values]
          \cup [kind : {"delete_named_profile", "snapshot", "apply"}]
NoJob == [kind |-> "none"]

\* The closure given to update().
edited(c, j) ==
    CASE j.kind \in {"remember_fan", "apply_profile"} ->
            [c EXCEPT !.fan = j.value]
      [] j.kind = "save_named_profile" ->
            [c EXCEPT !.profile = j.value, !.fan = j.value]
      [] j.kind = "delete_named_profile" -> [c EXCEPT !.profile = NoProfile]

TypeOK ==
    /\ process \in [Threads -> Processes]
    /\ disk \in Configs \cup {Absent, Corrupt}
    /\ cache \in [Processes -> Configs]
    /\ seen \in [Processes -> BOOLEAN] /\ apart \in [Processes -> BOOLEAN]
    /\ mutex \in [Processes -> Threads \cup {Nobody}]
    /\ \A t \in Threads : at[t] \in {"flock", "read", "write", "stat"}
                            => mutex[process[t]] = t
    /\ flock \in Threads \cup {Nobody}
    /\ at \in [Threads -> {"idle", "get", "mutex", "flock", "read", "write",
                           "stat"}]
    /\ job \in [Threads -> Jobs \cup {NoJob}]
    /\ local \in [Threads -> Configs]
    /\ failures \in 0 .. Failures

\* A first start: no file yet, or one with the defaults.
Init ==
    /\ process \in [Threads -> Processes]
    /\ disk \in {Absent, Default}
    /\ cache = [p \in Processes |-> Default]
    /\ seen = [p \in Processes |-> TRUE] /\ apart = [p \in Processes |-> FALSE]
    /\ mutex = [p \in Processes |-> Nobody] /\ flock = Nobody
    /\ at = [t \in Threads |-> "idle"] /\ job = [t \in Threads |-> NoJob]
    /\ local = [t \in Threads |-> Default]
    /\ failures = 0
-----------------------------------------------------------------------------
Fails == failures < Failures /\ failures' = failures + 1

Goto(t, point) == at' = [at EXCEPT ![t] = point]

Unlock(t) ==
    /\ mutex' = [mutex EXCEPT ![process[t]] = Nobody]
    /\ flock' = IF flock = t THEN Nobody ELSE flock
    /\ Goto(t, "idle")
    /\ job' = [job EXCEPT ![t] = NoJob]
    /\ local' = [local EXCEPT ![t] = Default]

\* A thread is asked for an edit, or for one that needs the configuration.
Ask(t) ==
    /\ at[t] = "idle"
    /\ \/ /\ \E j \in [kind : {"remember_fan"}, value : Values]
                    \cup [kind : {"delete_named_profile"}] :
               job' = [job EXCEPT ![t] = j]
          /\ Goto(t, "mutex")
       \/ /\ \E k \in {"snapshot", "apply"} :
               job' = [job EXCEPT ![t] = [kind |-> k]]
          /\ Goto(t, "get")
    /\ UNCHANGED <<process, disk, cache, seen, mutex, flock, local, apart,
                   failures>>

\* What get() returns: the cache, loaded again if the mtime is another one
\* than noted and 500 ms have passed since it was looked at. A file that cannot
\* be read reads as the defaults, and one that cannot be parsed is moved aside.
Get(t) ==
    LET p == process[t]
        reload(c) == /\ cache' = [cache EXCEPT ![p] = c]
                     /\ seen'  = [seen EXCEPT ![p] = TRUE] IN
    /\ at[t] = "get"
    /\ mutex[p] = Nobody
    /\ \/ UNCHANGED <<disk, cache, seen, apart, failures>>
       \/ /\ ~seen[p] /\ (flock = Nobody \/ LockTimesOut)
          /\ reload(Parsed(disk))
          /\ disk' = IF disk = Corrupt THEN Absent ELSE disk
          /\ apart' = [apart EXCEPT ![p] = FALSE] /\ UNCHANGED failures
       \/ /\ ~seen[p] /\ (flock = Nobody \/ LockTimesOut) /\ Fails
          /\ reload(Default)
          /\ apart' = [apart EXCEPT ![p] = TRUE] /\ UNCHANGED disk
    /\ LET c == cache'[p] IN
       IF job[t].kind = "snapshot"
       THEN /\ job' = [job EXCEPT ![t] = [kind |-> "save_named_profile",
                                          value |-> c.fan]]
            /\ Goto(t, "mutex")
       ELSE IF c.profile = NoProfile
       THEN job' = [job EXCEPT ![t] = NoJob] /\ Goto(t, "idle")
       ELSE /\ job' = [job EXCEPT ![t] = [kind |-> "apply_profile",
                                          value |-> c.profile]]
            /\ Goto(t, "mutex")
    /\ UNCHANGED <<process, mutex, flock, local>>
-----------------------------------------------------------------------------
(***************************************************************************)
(* update().                                                               *)
(***************************************************************************)
LockStore(t) ==
    /\ at[t] = "mutex"
    /\ mutex[process[t]] = Nobody
    /\ mutex' = [mutex EXCEPT ![process[t]] = t]
    /\ Goto(t, "flock")
    /\ UNCHANGED <<process, disk, cache, seen, flock, job, local, apart,
                   failures>>

\* Mutant: the file is not locked.
LockFile_Not(t) ==
    /\ at[t] = "flock"
    /\ flock' = flock
    /\ Goto(t, "read")
    /\ UNCHANGED <<process, disk, cache, seen, mutex, job, local, apart,
                   failures>>

\* with_config_lock: after 500 ms it goes on without the lock.
LockFile(t) ==
    /\ at[t] = "flock"
    /\ \/ flock = Nobody /\ flock' = t
       \/ flock # Nobody /\ LockTimesOut /\ UNCHANGED flock
    /\ Goto(t, "read")
    /\ UNCHANGED <<process, disk, cache, seen, mutex, job, local, apart,
                   failures>>

\* The file is read again, and the edit applied to what it holds.
Read(t) ==
    /\ at[t] = "read"
    /\ local' = [local EXCEPT ![t] = edited(Parsed(disk), job[t])]
    /\ disk' = IF disk = Corrupt THEN Absent ELSE disk
    /\ Goto(t, "write")
    /\ UNCHANGED <<process, cache, seen, mutex, flock, job, apart, failures>>

\* It cannot be read: the edit is made in memory only.
ReadFails(t) ==
    /\ at[t] = "read" /\ Fails
    /\ cache' = [cache EXCEPT ![process[t]] = edited(@, job[t])]
    /\ apart' = [apart EXCEPT ![process[t]] = TRUE]
    /\ Unlock(t)
    /\ UNCHANGED <<process, disk, seen>>

\* write_disk: nothing if unchanged, otherwise a temporary file renamed.
Write(t) ==
    /\ at[t] = "write"
    /\ IF disk = local[t]
       THEN UNCHANGED <<disk, seen>>
       ELSE /\ disk' = local[t]
            /\ \/ seen' = [p \in Processes |-> FALSE]
               \/ CoarseMtime /\ UNCHANGED seen
    /\ apart' = [apart EXCEPT ![process[t]] = FALSE]
    /\ Goto(t, "stat")
    /\ UNCHANGED <<process, cache, mutex, flock, job, local, failures>>

WriteFails(t) ==
    /\ at[t] = "write" /\ Fails
    /\ apart' = [apart EXCEPT ![process[t]] = TRUE]
    /\ Goto(t, "stat")
    /\ UNCHANGED <<process, disk, cache, seen, mutex, flock, job, local>>

\* Mutant: the cache keeps the configuration of before the update.
Stat_KeepsCache(t) ==
    /\ at[t] = "stat"
    /\ cache' = cache
    /\ seen'  = [seen EXCEPT ![process[t]] = TRUE]
    /\ Unlock(t)
    /\ UNCHANGED <<process, disk, apart, failures>>

\* The mtime is noted, and the cache replaced.
Stat(t) ==
    /\ at[t] = "stat"
    /\ cache' = [cache EXCEPT ![process[t]] = local[t]]
    /\ seen'  = [seen EXCEPT ![process[t]] = TRUE]
    /\ Unlock(t)
    /\ UNCHANGED <<process, disk, apart, failures>>
-----------------------------------------------------------------------------
\* A process is killed, at any point, and started again, in one step: the kernel
\* drops its file lock, the temporary file is left, and the new process loads
\* the file under the lock, once whoever else holds it has let it go.
Crash(p) ==
    LET mine == {t \in Threads : process[t] = p} IN
    /\ at' = [t \in Threads |-> IF t \in mine THEN "idle" ELSE at[t]]
    /\ job' = [t \in Threads |-> IF t \in mine THEN NoJob ELSE job[t]]
    /\ local' = [t \in Threads |-> IF t \in mine THEN Default ELSE local[t]]
    /\ mutex' = [mutex EXCEPT ![p] = Nobody]
    /\ flock' = IF flock \in mine THEN Nobody ELSE flock
    /\ flock \in mine \cup {Nobody} \/ LockTimesOut
    /\ cache' = [cache EXCEPT ![p] = Parsed(disk)]
    /\ disk' = IF disk = Corrupt THEN Absent ELSE disk
    /\ seen' = [seen EXCEPT ![p] = TRUE]
    /\ apart' = [apart EXCEPT ![p] = FALSE]
    /\ UNCHANGED <<process, failures>>

\* Somebody edits the file by hand.
SpoilFile ==
    /\ flock = Nobody /\ disk # Corrupt
    /\ disk' = Corrupt
    /\ seen' = [p \in Processes |-> FALSE]
    /\ UNCHANGED <<process, cache, mutex, flock, at, job, local, apart,
                   failures>>

Update(t) ==
    \/ LockStore(t) \/ LockFile(t) \/ Read(t) \/ ReadFails(t)
    \/ Write(t) \/ WriteFails(t) \/ Stat(t)

Next ==
    \/ \E t \in Threads : Ask(t) \/ Get(t) \/ Update(t)
    \/ \E p \in Processes : Crash(p)
    \/ SpoilFile

Spec == Init /\ [][Next]_vars
-----------------------------------------------------------------------------
(***************************************************************************)
(* Properties.                                                             *)
(***************************************************************************)
Edits ==
    {[c \in Configs |-> edited(c, j)] :
        j \in {k \in Jobs : k.kind \notin {"snapshot", "apply"}}}

Register == INSTANCE SettingsRegister WITH value <- disk

\* "concurrent updates cannot clobber each other": whatever threads and
\* processes do at once, are killed at or fail to read and write, the file
\* changes by one whole edit of what it held.
EditsOnly == [Register!Next]_disk
ImplementsRegister == Register!Spec

\* A cache that is not what the file holds is found out at the next look at the
\* mtime, unless a failed read or write left it apart, which the log says.
StaleCacheNoticed ==
    \A p \in Processes :
        mutex[p] = Nobody /\ ~apart[p] /\ cache[p] # Parsed(disk) => ~seen[p]
=============================================================================
