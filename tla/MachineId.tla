------------------------------ MODULE MachineId ------------------------------
(***************************************************************************)
(* The pseudonymous id a machine reports under (telemetry_id.rs, and the   *)
(* senders of diagnostics.rs), as root's processes keep it: the daemon and *)
(* a command line. The id is derived from the hardware once that can be    *)
(* done; the one reported before is parked in a file, and told to the      *)
(* collector along with a report. Processes are killed, writes fail,       *)
(* answers are lost. Other users' processes read the shared id and write   *)
(* neither file. When a send happens, and that one within 10 s of another  *)
(* does nothing, is left open.                                             *)
(***************************************************************************)
EXTENDS Naturals

CONSTANTS
    Roots, \* root's processes that send
    Hw,    \* the id derived from the hardware
    Ids,   \* ids minted, or left by older versions
    NoId

VARIABLES
    derivable, \* the hardware gives an id (since the boot)
    shared,    \* the file machine-id
    parked,    \* the file previous-machine-id
    settings,  \* machine_id in root's settings
    at, mine, res, previous, \* per process: its step, the settings' id it has
               \* read, the resolution, and the previous id of its report
    minted,    \* history: ids used up
    reported,  \* history: ids the collector has reports of
    linked,    \* history: previous ids the collector was told
    cut        \* history: a park failed, or two processes minted ids at once

store == <<shared, parked>>
history == <<minted, reported, linked, cut>>
vars == <<derivable, store, settings, at, mine, res, previous, history>>

AnyId == Ids \cup {Hw}
Sources == {"hardware", "random", "legacy"}
NotShared == [id |-> NoId, source |-> "legacy"]
Resolution(id, source, old) ==
    [id |-> id, write_shared |-> source, previous |-> old]
Unresolved == Resolution(NoId, "no", NoId)

TypeOK ==
    /\ derivable \in BOOLEAN /\ cut \in BOOLEAN
    /\ shared \in [id : AnyId, source : Sources] \cup {NotShared}
    /\ parked \in Ids \cup {NoId} /\ settings \in AnyId \cup {NoId}
    /\ mine \in [Roots -> AnyId \cup {NoId}]
    /\ at \in [Roots -> {"rest", "read", "park", "publish", "adopt", "collect",
                         "send", "consume"}]
    /\ res \in [Roots -> [id : AnyId \cup {NoId}, write_shared : Sources \cup {"no"},
                          previous : Ids \cup {NoId}]]
    /\ \A p \in Roots : at[p] \in {"rest", "read"} \/ res[p].id # NoId
    /\ previous \in [Roots -> Ids \cup {NoId}]
    /\ minted \subseteq Ids /\ reported \subseteq AnyId /\ linked \subseteq Ids

\* An older version has left an id in root's settings, in the file, or none.
Init ==
    /\ derivable \in BOOLEAN /\ cut = FALSE
    /\ LET old == CHOOSE id \in Ids : TRUE IN
         /\ shared \in {NotShared, [id |-> old, source |-> "legacy"]}
         /\ settings \in {NoId, old}
    /\ minted = {shared.id, settings} \ {NoId}
    /\ reported = minted /\ linked = {} /\ parked = NoId
    /\ at = [p \in Roots |-> "rest"] /\ mine = [p \in Roots |-> NoId]
    /\ res = [p \in Roots |-> Unresolved]
    /\ previous = [p \in Roots |-> NoId]

locals == <<mine, res, previous>>
Goto(p, s) == at' = [at EXCEPT ![p] = s]

\* Over: what the process had read and resolved is gone.
Rest(p) ==
    /\ Goto(p, "rest")
    /\ mine' = [mine EXCEPT ![p] = NoId]
    /\ res' = [res EXCEPT ![p] = Unresolved]
    /\ previous' = [previous EXCEPT ![p] = NoId]
-----------------------------------------------------------------------------
(***************************************************************************)
(* ensure_machine_id.                                                      *)
(***************************************************************************)
Begin(p) ==
    /\ at[p] = "rest" /\ Goto(p, "read")
    /\ mine' = [mine EXCEPT ![p] = settings]
    /\ UNCHANGED <<derivable, store, settings, res, previous, history>>

Resolves(p, r) == res' = [res EXCEPT ![p] = r]
old_id(p) == IF shared # NotShared THEN shared.id ELSE mine[p]

\* Another process is about to give the machine an id, or just has.
Overtaken(p) ==
    \/ settings # mine[p]
    \/ \E q \in Roots \ {p} : at[q] \in {"park", "publish", "adopt"}

Mint(p) ==
    LET fresh == CHOOSE id \in Ids \ minted : TRUE IN
        /\ Ids # minted
        /\ Resolves(p, Resolution(fresh, "random", NoId))
        /\ minted' = minted \cup {fresh}
        /\ cut' = (cut \/ Overtaken(p))

\* Resolution for root (telemetry_id::resolve).
resolve(p) ==
    /\ at[p] = "read" /\ Goto(p, "park")
    /\ \/ /\ shared.source = "hardware"
          /\ Resolves(p, Resolution(shared.id, "no", NoId))
          /\ UNCHANGED <<minted, cut>>
       \/ /\ shared.source # "hardware" /\ derivable
          /\ Resolves(p, Resolution(Hw, "hardware",
                             IF old_id(p) = Hw THEN NoId ELSE old_id(p)))
          /\ UNCHANGED <<minted, cut>>
       \/ /\ shared.source # "hardware" /\ ~derivable
          /\ IF old_id(p) = NoId
             THEN Mint(p)
             ELSE /\ Resolves(p, Resolution(old_id(p),
                         IF shared = NotShared THEN "legacy" ELSE "no", NoId))
                  /\ UNCHANGED <<minted, cut>>
    /\ UNCHANGED <<derivable, store, settings, mine, previous, reported, linked>>

\* "Park first: if we crash between the writes, the link survives."
Park(p) ==
    /\ at[p] = "park" /\ Goto(p, "publish")
    /\ IF res[p].previous = NoId
       THEN UNCHANGED <<parked, cut>>
       ELSE \/ parked' = res[p].previous /\ UNCHANGED cut
            \/ cut' = TRUE /\ UNCHANGED parked \* the write fails
    /\ UNCHANGED <<derivable, shared, settings, mine, res, previous, minted,
                   reported, linked>>

Publish(p) ==
    /\ at[p] = "publish" /\ Goto(p, "adopt")
    /\ \/ /\ res[p].write_shared # "no"
          /\ shared' = [id |-> res[p].id, source |-> res[p].write_shared]
       \/ UNCHANGED shared \* nothing to write, or the write fails
    /\ UNCHANGED <<derivable, parked, settings, mine, res, previous, history>>

\* Into root's own settings; what can go wrong there is ConfigStore's.
Adopt(p) ==
    /\ at[p] = "adopt" /\ Goto(p, "collect")
    /\ settings' = IF mine[p] = res[p].id THEN settings ELSE res[p].id
    /\ UNCHANGED <<derivable, store, mine, res, previous, history>>
-----------------------------------------------------------------------------
(***************************************************************************)
(* collect_and_send. collect calls ensure_machine_id once more, which finds *)
(* what the first call has left.                                           *)
(***************************************************************************)
Collect(p) ==
    /\ at[p] = "collect" /\ Goto(p, "send")
    /\ previous' = [previous EXCEPT ![p] = parked]
    /\ UNCHANGED <<derivable, store, settings, mine, res, history>>

Deliver(p) ==
    /\ reported' = reported \cup {res[p].id}
    /\ linked' = linked \cup ({previous[p]} \ {NoId})

\* Mutant: the parked id is taken for told, whatever the outcome.
send_Told(p) ==
    /\ at[p] = "send" /\ Goto(p, "consume") /\ UNCHANGED locals
    /\ Deliver(p) \/ UNCHANGED <<reported, linked>>
    /\ UNCHANGED <<derivable, store, settings, minted, cut>>

\* Sent and answered; sent, and the answer is lost; or not sent.
send(p) ==
    /\ at[p] = "send"
    /\ \/ /\ Deliver(p) /\ previous[p] # NoId
          /\ Goto(p, "consume") /\ UNCHANGED locals
       \/ Deliver(p) /\ Rest(p)
       \/ Rest(p) /\ UNCHANGED <<reported, linked>>
    /\ UNCHANGED <<derivable, store, settings, minted, cut>>

clear_previous(p) ==
    /\ at[p] = "consume" /\ Rest(p) /\ parked' = NoId
    /\ UNCHANGED <<derivable, shared, settings, history>>
-----------------------------------------------------------------------------
Kill(p) ==
    /\ at[p] # "rest" /\ Rest(p)
    /\ UNCHANGED <<derivable, store, settings, history>>

\* The hardware tells its id from this boot on.
Reboot ==
    /\ ~derivable /\ derivable' = TRUE
    /\ at' = [p \in Roots |-> "rest"] /\ mine' = [p \in Roots |-> NoId]
    /\ res' = [p \in Roots |-> Unresolved]
    /\ previous' = [p \in Roots |-> NoId]
    /\ UNCHANGED <<store, settings, history>>

Next ==
    \/ \E p \in Roots :
         \/ Begin(p) \/ resolve(p) \/ Park(p) \/ Publish(p) \/ Adopt(p)
         \/ Collect(p) \/ send(p) \/ clear_previous(p)
         \/ Kill(p)
    \/ Reboot

Spec == Init /\ [][Next]_vars
-----------------------------------------------------------------------------
\* An id the collector has reports of stays tied to the machine: it is the one
\* in use, its successor was reported with it, or it waits to be (the parking
\* and the consumption of ensure_machine_id and collect_and_send). A park that
\* fails and two first reports at once do cut the tie.
LinkKept ==
    ~cut => \A id \in reported \ {Hw} :
                id \in linked \cup {parked, settings, shared.id}
=============================================================================
