--------------------------- MODULE CommandServer ---------------------------
(***************************************************************************)
(* The daemon's socket (daemon/main.rs) and its clients                    *)
(* (comms::send_command): the accept loop and its limit on handlers, one   *)
(* handler thread per connection, timeouts on both sides, peers that send  *)
(* slowly or nothing, and the stop, which does not wait for the handlers.  *)
(***************************************************************************)
EXTENDS Naturals, FiniteSets

CONSTANTS
    Conns,          \* connections that can be there at once
    MAX_CLIENTS,    \* handlers the daemon runs at once
    Trickle         \* bound: readings a peer can stretch its frame over

VARIABLES
    client,         \* the client's side of a connection
    server,         \* the daemon's side of it
    frame,          \* readings left before MAX_FRAME_BYTES
    active_clients, \* the counter of handlers
    main,           \* program point of the main thread
    fans,           \* "auto" or "manual"
    late            \* history: a command was still to come or to run when the
                    \* fans were freed, or they were not

vars == <<client, server, frame, active_clients, main, fans, late>>

Handling == {"read", "run", "reply", "refuse"}
Serving  == {c \in Conns : server[c] \in Handling}

\* "silent": a peer that has not sent a whole command; "cut": and has left.
ClientStates == {"none", "silent", "cut", "waiting", "ok", "error"}

TypeOK ==
    /\ client \in [Conns -> ClientStates]
    /\ server \in [Conns -> {"none", "backlog"} \cup Handling]
    /\ frame \in [Conns -> 0 .. Trickle]
    /\ active_clients = Cardinality(Serving) /\ active_clients <= MAX_CLIENTS
    /\ main \in {"serving", "draining", "restoring", "closing", "gone"}
    /\ fans \in {"auto", "manual"} /\ late \in BOOLEAN

Init ==
    /\ client = [c \in Conns |-> "none"] /\ server = [c \in Conns |-> "none"]
    /\ frame = [c \in Conns |-> 0]
    /\ active_clients = 0 /\ main = "serving"
    /\ fans = "auto" /\ late = FALSE
-----------------------------------------------------------------------------
(***************************************************************************)
(* send_command, and other peers.                                          *)
(***************************************************************************)
Client(c, s) == client' = [client EXCEPT ![c] = s]
Server(c, s) == server' = [server EXCEPT ![c] = s]

\* The socket is there until it is removed, so that a connection can wait in
\* its backlog also when nobody accepts any more.
Connect(c) ==
    /\ client[c] = "none" /\ server[c] = "none" /\ main # "gone"
    /\ \E s \in {"waiting", "silent"} : Client(c, s)
    /\ Server(c, "backlog")
    /\ frame' = [frame EXCEPT ![c] = Trickle]
    /\ UNCHANGED <<active_clients, main, fans, late>>

\* The rest of its command, and the end of its stream.
SendRest(c) ==
    /\ client[c] = "silent"
    /\ Client(c, "waiting")
    /\ UNCHANGED <<server, frame, active_clients, main, fans, late>>

\* Mutant: a frame has no limit.
SendPart_NoLimit(c) ==
    /\ client[c] = "silent" /\ server[c] = "read"
    /\ frame' = [frame EXCEPT ![c] = IF @ = 0 THEN Trickle ELSE @ - 1]
    /\ UNCHANGED <<client, server, active_clients, main, fans, late>>

\* Another part of it, in time for the daemon's read.
SendPart(c) ==
    /\ client[c] = "silent" /\ server[c] = "read" /\ frame[c] > 0
    /\ frame' = [frame EXCEPT ![c] = @ - 1]
    /\ UNCHANGED <<client, server, active_clients, main, fans, late>>

\* No answer in 5 s, or it has left. The daemon's side goes on.
GiveUp(c) ==
    /\ client[c] \in {"waiting", "silent"} /\ server[c] # "none"
    /\ Client(c, IF client[c] = "waiting" THEN "error" ELSE "cut")
    /\ UNCHANGED <<server, frame, active_clients, main, fans, late>>

\* The stream ended without a response.
Disconnected(c) ==
    /\ client[c] \in {"waiting", "silent"} /\ server[c] = "none"
    /\ Client(c, "error")
    /\ UNCHANGED <<server, frame, active_clients, main, fans, late>>

\* The caller has its result; the connection can be another one.
Return(c) ==
    /\ client[c] \in {"ok", "error", "cut"} /\ server[c] = "none"
    /\ Client(c, "none")
    /\ frame' = [frame EXCEPT ![c] = 0]
    /\ UNCHANGED <<server, active_clients, main, fans, late>>
-----------------------------------------------------------------------------
(***************************************************************************)
(* The accept loop.                                                        *)
(***************************************************************************)
\* With all slots taken the stream is dropped.
Accept(c) ==
    /\ main = "serving" /\ server[c] = "backlog"
    /\ IF active_clients >= MAX_CLIENTS
       THEN Server(c, "none") /\ UNCHANGED active_clients
       ELSE Server(c, "read") /\ active_clients' = active_clients + 1
    /\ UNCHANGED <<client, frame, main, fans, late>>

\* No thread for it: counted, and taken back.
SpawnFails(c) ==
    /\ main = "serving" /\ server[c] = "backlog"
    /\ active_clients < MAX_CLIENTS
    /\ Server(c, "none")
    /\ UNCHANGED <<client, frame, active_clients, main, fans, late>>
-----------------------------------------------------------------------------
(***************************************************************************)
(* handle_client. The guard gives the slot back however it ends.           *)
(***************************************************************************)
Ends(c) ==
    /\ Server(c, "none")
    /\ active_clients' = active_clients - 1

\* The whole command, from a peer that may write or a command that only reads;
\* also from a client that has given up since it sent it.
ReadCommand(c) ==
    /\ server[c] = "read" /\ client[c] \in {"waiting", "error"}
    /\ Server(c, "run")
    /\ UNCHANGED <<client, frame, active_clients, main, fans, late>>

\* Not a command, only a part of one, more than one has, or not from one that
\* may write: an error response.
Refuse(c) ==
    /\ server[c] = "read"
    /\ client[c] \in {"waiting", "error", "cut"} \/ frame[c] = 0
    /\ Server(c, "refuse")
    /\ UNCHANGED <<client, frame, active_clients, main, fans, late>>

\* Nothing came for 5 s.
ReadTimeout(c) ==
    /\ server[c] = "read" /\ client[c] = "silent"
    /\ Ends(c)
    /\ UNCHANGED <<client, frame, main, fans, late>>

\* process_command: a fan target, or something else.
Run(c) ==
    /\ server[c] = "run"
    /\ fans' \in {fans, "manual"}
    /\ Server(c, "reply")
    /\ UNCHANGED <<client, frame, active_clients, main, late>>

Reply(c) ==
    /\ server[c] \in {"reply", "refuse"}
    /\ Client(c, IF client[c] # "waiting" THEN client[c]
                 ELSE IF server[c] = "reply" THEN "ok" ELSE "error")
    /\ Ends(c)
    /\ UNCHANGED <<frame, main, fans, late>>

\* The response cannot be written in 5 s, or at all.
ReplyFails(c) ==
    /\ server[c] \in {"reply", "refuse"}
    /\ Ends(c)
    /\ UNCHANGED <<client, frame, main, fans, late>>
-----------------------------------------------------------------------------
(***************************************************************************)
(* The end of the daemon.                                                  *)
(***************************************************************************)
\* A signal: the loop ends.
Stop ==
    /\ main = "serving" /\ main' = "draining"
    /\ UNCHANGED <<client, server, frame, active_clients, fans, late>>

\* 300 ms, and the end of the fan-curve engine, which gives its fans back.
Drained ==
    /\ main = "draining" /\ main' = "restoring"
    /\ UNCHANGED <<client, server, frame, active_clients, fans, late>>

\* A handler that may still set a fan.
AtWork == \E c \in Conns : server[c] \in {"read", "run"}

\* Mutant: the fans are left as they are.
Restore_Not ==
    /\ main = "restoring" /\ main' = "closing"
    /\ late' = AtWork
    /\ UNCHANGED <<client, server, frame, active_clients, fans>>

\* restore_hardware_on_shutdown; handlers may be still at work.
Restore ==
    /\ main = "restoring" /\ main' = "closing"
    /\ fans' = "auto"
    /\ late' = AtWork
    /\ UNCHANGED <<client, server, frame, active_clients>>

\* The fans could not be given back: logged.
RestoreFails ==
    /\ main = "restoring" /\ main' = "closing"
    /\ late' = TRUE
    /\ UNCHANGED <<client, server, frame, active_clients, fans>>

AllClosed ==
    /\ server' = [c \in Conns |-> "none"]
    /\ active_clients' = 0

\* The socket is removed, and the process ends with its handlers.
Exit ==
    /\ main = "closing" /\ main' = "gone"
    /\ AllClosed
    /\ UNCHANGED <<client, frame, fans, late>>

\* A kill, which frees nothing; the unit starts the daemon again.
Kill ==
    /\ main # "gone" /\ main' = "gone"
    /\ AllClosed
    /\ late' = TRUE
    /\ UNCHANGED <<client, frame, fans>>

\* With the singleton lock; the fans are what they were left as.
Start ==
    /\ main = "gone" /\ main' = "serving"
    /\ late' = FALSE
    /\ UNCHANGED <<client, server, frame, active_clients, fans>>
-----------------------------------------------------------------------------
Handler(c) ==
    \/ ReadCommand(c) \/ Refuse(c) \/ ReadTimeout(c)
    \/ Run(c) \/ Reply(c) \/ ReplyFails(c)

Peer(c) ==
    \/ Connect(c) \/ SendRest(c) \/ SendPart(c) \/ GiveUp(c)
    \/ Disconnected(c) \/ Return(c)

Daemon ==
    \/ \E c \in Conns : Accept(c) \/ SpawnFails(c)
    \/ Stop \/ Drained \/ Restore \/ RestoreFails \/ Exit \/ Kill \/ Start

Next == Daemon \/ \E c \in Conns : Handler(c) \/ Peer(c)

Spec == Init /\ [][Next]_vars

\* Handlers run, and a read of theirs gets something or ends after 5 s.
FairSpec == Spec /\ \A c \in Conns : WF_vars(Handler(c) \/ SendPart(c))
-----------------------------------------------------------------------------
(***************************************************************************)
(* Properties.                                                             *)
(***************************************************************************)

\* "a stalled client must never wedge the accept loop": peers that stall, or
\* send a byte at a time, cannot keep every slot taken for good.
SlotsComeBack == []<>(active_clients < MAX_CLIENTS)

\* "return fans to auto so `systemctl stop` never leaves the machine capped": a
\* daemon that was stopped, not killed, with no command still to be read or run
\* as it gave the fans back, leaves them to the firmware.
StopFreesFans == main = "gone" /\ ~late => fans = "auto"
=============================================================================
