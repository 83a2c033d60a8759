---------------------------- MODULE PowerLimits ----------------------------
(***************************************************************************)
(* Custom-mode power limits (power_limits.rs): the SetFwAttr handlers and  *)
(* the worker that writes saved limits again, beside the firmware, which   *)
(* keeps limits only in Custom mode, may drop writes made right after a    *)
(* mode change, and forgets limits on a mode change or a suspend.          *)
(***************************************************************************)
EXTENDS Naturals, FiniteSets

CONSTANTS
    Attrs,            \* known firmware attributes
    Values,           \* limits a user asks for
    Default,          \* what the firmware reports for a limit it forgot
    Unset,            \* no saved limit for an attribute
    Clients,          \* client-handler threads that send SetFwAttr
    Worker,           \* the power-limits thread
    Nobody,           \* holder of a free WRITE_LOCK
    ReadsMayFail,     \* whether current_value can be unreadable
    WritesMayFail,    \* whether a write can return an error
    RestartsHappen,   \* whether the daemon can be killed and started again
    SlowModeChanges   \* a mode lasts until the worker has looked at it and a
                      \* request that met the change has ended

ASSUME PowerLimitsAssumption ==
    /\ Default \notin Values /\ Unset \notin Values \cup {Default}
    /\ Worker \notin Clients
    /\ Nobody \notin Clients \cup {Worker}
    /\ ReadsMayFail \in BOOLEAN
    /\ WritesMayFail \in BOOLEAN
    /\ RestartsHappen \in BOOLEAN
    /\ SlowModeChanges \in BOOLEAN

VARIABLES
    mode,        \* "custom" or "other"
    fresh,       \* who changed it less than SETTLE ago, or "no"
    limit,       \* the limit in force, per attribute
    saved,       \* config.custom_power_limits
    KICK,        \* re-apply asked for
    resuming,    \* the resume worker has still to call kick()
    lock,        \* holder of WRITE_LOCK
    pc,          \* program point of every thread
    job,         \* the write under way: attribute, value, number of tries
    previous, now, todo,   \* locals of run() and reapply_saved()
    adrift,      \* history: limits lost, unread, or not saved, since written
    unsure,      \* history: limits whose last write failed or was not read
    disturbed    \* history: threads that met a mode change or a suspend

modeVars   == <<mode, fresh>>
kickVars   == <<KICK, resuming>>
workerVars == <<previous, now, todo>>
history    == <<adrift, unsure, disturbed>>
vars == <<modeVars, limit, saved, kickVars, lock, pc, job, workerVars, history>>

Threads == Clients \cup {Worker}
NoJob == [attr |-> Unset, value |-> Unset, try |-> 0]
AtRest == [t \in Threads |-> IF t = Worker THEN "read" ELSE "idle"]

TypeOK ==
    /\ mode \in {"custom", "other"} /\ fresh \in {"no", "daemon", "other"}
    /\ limit \in [Attrs -> Values \cup {Default}]
    /\ saved \in [Attrs -> Values \cup {Unset}]
    /\ KICK \in BOOLEAN /\ resuming \in BOOLEAN
    /\ lock \in Threads \cup {Nobody}
    /\ pc \in [Threads -> {"idle", "save", "read", "swap", "wait", "plan",
                           "next", "sleep", "write", "verify", "settle"}]
    /\ job \in [Threads -> [attr : Attrs, value : Values, try : 1..2]
                             \cup {NoJob}]
    /\ {previous, now} \subseteq {"unknown", "custom", "other"}
    /\ todo \subseteq Attrs \X Values
    /\ adrift \subseteq Attrs /\ unsure \subseteq Attrs
    /\ disturbed \subseteq Threads

\* The daemon starts with the limits an earlier run saved, all forgotten.
Init ==
    /\ mode \in {"custom", "other"} /\ fresh = "no"
    /\ limit = [a \in Attrs |-> Default]
    /\ saved \in [Attrs -> Values \cup {Unset}]
    /\ KICK = FALSE /\ resuming = FALSE
    /\ lock = Nobody
    /\ pc = AtRest
    /\ job = [t \in Threads |-> NoJob]
    /\ previous = "unknown" /\ now = "unknown" /\ todo = {}
    /\ adrift = Attrs /\ unsure = {} /\ disturbed = {Worker}
-----------------------------------------------------------------------------
(***************************************************************************)
(* write_verified, for the thread t that holds the lock.                   *)
(***************************************************************************)
Goto(t, point) == pc' = [pc EXCEPT ![t] = point]

\* The guard of WRITE_LOCK goes out of scope.
Unlock(t) == lock' = IF lock = t THEN Nobody ELSE lock

\* The thread is done with its limit: SetFwAttr replies, the worker goes on.
Ends(t) ==
    /\ job' = [job EXCEPT ![t] = NoJob]
    /\ IF t = Worker THEN Goto(t, "next") /\ UNCHANGED lock
                     ELSE Goto(t, "idle") /\ Unlock(t)

OthersUnchanged == UNCHANGED <<modeVars, saved, kickVars, workerVars, disturbed>>

\* A write sticks in Custom mode; right after a mode change it may be dropped.
Write(t) ==
    /\ pc[t] = "write"
    /\ \/ /\ mode = "custom"
          /\ limit' = [limit EXCEPT ![job[t].attr] = job[t].value]
       \/ /\ mode # "custom" \/ fresh # "no"
          /\ limit' = limit
    /\ unsure' = unsure \ {job[t].attr}
    /\ Goto(t, "verify")
    /\ OthersUnchanged /\ UNCHANGED <<lock, job, adrift>>

\* The write returns an error: no retry.
WriteFails(t) ==
    /\ WritesMayFail
    /\ pc[t] = "write"
    /\ unsure' = unsure \cup {job[t].attr}
    /\ Ends(t)
    /\ OthersUnchanged /\ UNCHANGED <<limit, adrift>>

Kept(t) == limit[job[t].attr] = job[t].value

Accept(t) ==
    IF t = Worker THEN Ends(t)
                  ELSE Goto(t, "save") /\ UNCHANGED <<lock, job>>

VerifyKept(t) ==
    /\ pc[t] = "verify"
    /\ Kept(t)
    /\ adrift' = adrift \ {job[t].attr}
    /\ Accept(t)
    /\ OthersUnchanged /\ UNCHANGED <<limit, unsure>>

\* Unreadable after a successful write: assumed accepted.
VerifyUnread(t) ==
    /\ ReadsMayFail
    /\ pc[t] = "verify"
    /\ adrift' = adrift \cup {job[t].attr}
    /\ unsure' = unsure \cup {job[t].attr}
    /\ Accept(t)
    /\ OthersUnchanged /\ UNCHANGED limit

VerifyRetry(t) ==
    /\ pc[t] = "verify"
    /\ ~Kept(t) /\ job[t].try = 1
    /\ job' = [job EXCEPT ![t].try = 2]
    /\ Goto(t, "settle")
    /\ OthersUnchanged /\ UNCHANGED <<limit, lock, adrift, unsure>>

\* "The firmware did not keep ...": reported to the client, or logged.
VerifyFails(t) ==
    /\ pc[t] = "verify"
    /\ ~Kept(t) /\ job[t].try = 2
    /\ Ends(t)
    /\ OthersUnchanged /\ UNCHANGED <<limit, adrift, unsure>>

\* Mutant: no sleep before the write.
Settle_NoSleep(t) ==
    /\ pc[t] = "settle"
    /\ Goto(t, "write")
    /\ OthersUnchanged /\ UNCHANGED <<limit, lock, job, adrift, unsure>>

\* A sleep of SETTLE outlasts a mode change made before it.
Settled(t) == fresh = "no" \/ t \in disturbed

Settle(t) ==
    /\ pc[t] = "settle"
    /\ Settled(t)
    /\ Goto(t, "write")
    /\ OthersUnchanged /\ UNCHANGED <<limit, lock, job, adrift, unsure>>
-----------------------------------------------------------------------------
(***************************************************************************)
(* SetFwAttr: set_custom_limit.                                            *)
(***************************************************************************)

\* With the lock, and in Custom (SWITCH_FIRST changes nothing): right after a
\* mode change by this daemon, a sleep for what is left of SETTLE.
SetFwAttr(c) ==
    /\ pc[c] = "idle"
    /\ lock = Nobody
    /\ mode = "custom"
    /\ \E a \in Attrs, v \in Values :
         job' = [job EXCEPT ![c] = [attr |-> a, value |-> v, try |-> 1]]
    /\ lock' = c
    /\ disturbed' = disturbed \ {c}
    /\ Goto(c, IF fresh = "daemon" THEN "settle" ELSE "write")
    /\ UNCHANGED <<modeVars, limit, saved, kickVars, workerVars, adrift, unsure>>

Save(c) ==
    /\ pc[c] = "save"
    /\ saved' = [saved EXCEPT ![job[c].attr] = job[c].value]
    /\ Ends(c)
    /\ UNCHANGED <<modeVars, limit, kickVars, workerVars, history>>
-----------------------------------------------------------------------------
(***************************************************************************)
(* The worker: run() and reapply_saved().                                  *)
(***************************************************************************)
WorkerOnly == UNCHANGED <<modeVars, limit, saved, resuming, adrift, unsure>>

WorkerReads ==
    /\ pc[Worker] = "read"
    /\ now' = mode
    /\ disturbed' = disturbed \ {Worker}
    /\ Goto(Worker, "swap")
    /\ WorkerOnly /\ UNCHANGED <<KICK, lock, job, previous, todo>>

\* The end of an iteration: previous is the mode read when it began.
IterationEnds == Goto(Worker, "sleep") /\ previous' = now

\* Mutant: only a change of mode counts, a kick does not.
should_reapply_NoKick(prev, cur, kicked) == cur = "custom" /\ prev # "custom"

should_reapply(prev, cur, kicked) ==
    cur = "custom" /\ (kicked \/ prev # "custom")

SavedLimits == {a \in Attrs : saved[a] # Unset}

WorkerSwaps ==
    /\ pc[Worker] = "swap"
    /\ KICK' = FALSE
    /\ IF should_reapply(previous, now, KICK) /\ SavedLimits # {}
       THEN Goto(Worker, "wait") /\ UNCHANGED previous
       ELSE IterationEnds
    /\ WorkerOnly /\ UNCHANGED <<lock, job, now, todo, disturbed>>

\* Mutant: the saved limits are written again without WRITE_LOCK.
WorkerLocks_NoLock ==
    /\ pc[Worker] = "wait"
    /\ Settled(Worker)
    /\ IF mode = "custom"
       THEN Goto(Worker, "plan") /\ UNCHANGED previous
       ELSE IterationEnds
    /\ WorkerOnly /\ UNCHANGED <<KICK, lock, job, now, todo, disturbed>>

\* After SETTLE, and with the lock, the mode is looked at again.
WorkerLocks ==
    /\ pc[Worker] = "wait"
    /\ Settled(Worker)
    /\ lock = Nobody
    /\ IF mode = "custom"
       THEN lock' = Worker /\ Goto(Worker, "plan") /\ UNCHANGED previous
       ELSE IterationEnds /\ UNCHANGED lock
    /\ WorkerOnly /\ UNCHANGED <<KICK, job, now, todo, disturbed>>

\* limits_to_write: the saved limits that read otherwise, or do not read.
limits_to_write(unread) ==
    {<<a, saved[a]>> : a \in {b \in SavedLimits :
                                b \in unread \/ limit[b] # saved[b]}}

WorkerPlans ==
    /\ pc[Worker] = "plan"
    /\ \E unread \in IF ReadsMayFail THEN SUBSET Attrs ELSE {{}} :
         todo' = limits_to_write(unread)
    /\ Goto(Worker, "next")
    /\ WorkerOnly /\ UNCHANGED <<KICK, lock, job, previous, now, disturbed>>

WorkerNext ==
    /\ pc[Worker] = "next"
    /\ \E d \in todo :
         /\ job' = [job EXCEPT ![Worker] =
                      [attr |-> d[1], value |-> d[2], try |-> 1]]
         /\ todo' = todo \ {d}
    /\ Goto(Worker, "write")
    /\ WorkerOnly /\ UNCHANGED <<KICK, lock, previous, now, disturbed>>

WorkerDone ==
    /\ pc[Worker] = "next"
    /\ todo = {}
    /\ Unlock(Worker)
    /\ IterationEnds
    /\ WorkerOnly /\ UNCHANGED <<KICK, job, now, todo, disturbed>>

WorkerWakes ==
    /\ pc[Worker] = "sleep"
    /\ Goto(Worker, "read")
    /\ WorkerOnly /\ UNCHANGED <<KICK, lock, job, workerVars, disturbed>>
-----------------------------------------------------------------------------
(***************************************************************************)
(* Firmware, suspend, and the end of the process.                          *)
(***************************************************************************)

\* The firmware forgets some limits.
Forgets ==
    \E L \in SUBSET Attrs :
        /\ limit' = [a \in Attrs |-> IF a \in L THEN Default ELSE limit[a]]
        /\ adrift' = adrift \cup L

ThreadsUnchanged == UNCHANGED <<saved, lock, pc, job, workerVars, unsure>>

ModeChanges(by) ==
    /\ SlowModeChanges => {Worker, lock} \cap disturbed = {}
    /\ mode' = IF mode = "custom" THEN "other" ELSE "custom"
    /\ fresh' = by
    /\ Forgets
    /\ disturbed' = Threads
    /\ ThreadsUnchanged /\ UNCHANGED kickVars

\* SetProfile and the auto-mode worker stamp LAST_SET; Fn+Q does not.
SetProfile == ModeChanges("daemon")
ModeKey    == ModeChanges("other")

FirmwareSettles ==
    /\ fresh # "no"
    /\ fresh' = "no"
    /\ ThreadsUnchanged
    /\ UNCHANGED <<mode, limit, kickVars, adrift, disturbed>>

Suspend ==
    /\ Forgets
    /\ resuming' = TRUE
    /\ disturbed' = disturbed \cup Clients
    /\ ThreadsUnchanged /\ UNCHANGED <<modeVars, KICK>>

\* Mutant: kick() is called as soon as the machine is awake.
ResumeSettled_AtOnce == TRUE

\* RESUME_SETTLE, two seconds, is longer than what is left of a SetFwAttr that
\* the suspend interrupted.
ResumeSettled == lock \notin Clients \cap disturbed

\* reapply_after_resume.
Kick ==
    /\ resuming
    /\ ResumeSettled
    /\ KICK' = TRUE
    /\ resuming' = FALSE
    /\ ThreadsUnchanged /\ UNCHANGED <<modeVars, limit, adrift, disturbed>>

\* The daemon is killed and starts again: only the configuration is kept. A
\* limit being written may be in force and not saved.
Restart ==
    /\ RestartsHappen
    /\ KICK' = FALSE /\ resuming' = FALSE
    /\ lock' = Nobody
    /\ pc' = AtRest
    /\ job' = [t \in Threads |-> NoJob]
    /\ previous' = "unknown" /\ now' = "unknown" /\ todo' = {}
    /\ fresh' = IF fresh = "daemon" THEN "other" ELSE fresh
    /\ adrift' = adrift \cup {job[c].attr : c \in {d \in Clients : lock = d}}
    /\ disturbed' = {Worker}
    /\ UNCHANGED <<mode, limit, saved, unsure>>
-----------------------------------------------------------------------------
WriteVerified(t) ==
    \/ Write(t) \/ WriteFails(t) \/ VerifyKept(t) \/ VerifyUnread(t)
    \/ VerifyRetry(t) \/ VerifyFails(t) \/ Settle(t)

WorkerSteps ==
    \/ WorkerReads \/ WorkerSwaps \/ WorkerLocks \/ WorkerPlans
    \/ WorkerNext \/ WorkerDone \/ WorkerWakes \/ WriteVerified(Worker)

ClientSteps(c) == Save(c) \/ WriteVerified(c)

Next ==
    \/ WorkerSteps
    \/ \E c \in Clients : SetFwAttr(c) \/ ClientSteps(c)
    \/ SetProfile \/ ModeKey \/ FirmwareSettles
    \/ Suspend \/ Kick \/ Restart

Spec == Init /\ [][Next]_vars

\* The daemon's threads run, and time passes.
FairSpec ==
    /\ Spec
    /\ WF_vars(WorkerSteps)
    /\ \A c \in Clients : WF_vars(ClientSteps(c))
    /\ WF_vars(FirmwareSettles)
    /\ WF_vars(Kick)
-----------------------------------------------------------------------------
(***************************************************************************)
(* Properties.                                                             *)
(***************************************************************************)

\* What is saved is what is in force: whenever no thread holds WRITE_LOCK, a
\* limit read back and not lost since reads as it was saved. SetFwAttr
\* writes first and saves later; a re-apply never slips in between with the
\* older value ("Serialises IPC writes and re-applies so they never
\* interleave").
SavedInForce ==
    lock = Nobody =>
        \A a \in Attrs \ adrift : saved[a] = limit[a]

\* The one retry, SETTLE later, is enough: SetFwAttr reports that the firmware
\* did not keep a limit only if the mode changed, or the machine slept, after
\* the request had found it in Custom.
NoSpuriousFailure ==
    [][\A c \in Clients : VerifyFails(c) => c \in disturbed]_vars

\* A worker that sleeps in Custom has forgotten nothing: with no kick to come
\* and no write under way, every saved limit is in force, but those whose last
\* write failed or went unread; whatever order mode changes, suspends, kicks,
\* requests and restarts come in.
NothingForgotten ==
    /\ pc[Worker] = "sleep" /\ previous = "custom" /\ mode = "custom"
    /\ ~KICK /\ ~resuming
    /\ lock = Nobody
    => \A a \in SavedLimits \ unsure : limit[a] = saved[a]

\* "written again whenever the mode becomes Custom ... and after resume": if
\* the machine stays in Custom, awake, with no restart or further request, and
\* the last writes neither failed nor went unread, every saved limit ends up in
\* force for good.
SavedLimitsReturn ==
    /\ <>[](mode = "custom")
    /\ <>[][~Suspend /\ ~Restart]_vars
    /\ <>[](unsure = {})
    /\ <>[](\A c \in Clients : pc[c] = "idle")
    => <>[](\A a \in SavedLimits : limit[a] = saved[a])
=============================================================================
