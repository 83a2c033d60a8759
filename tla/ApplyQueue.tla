----------------------------- MODULE ApplyQueue -----------------------------
(***************************************************************************)
(* The coalesced writes of the desktop application (settings/queue.rs):    *)
(* the values a user sets, the threads that send them to the daemon        *)
(* (comms::send_command), and the daemon's handlers, which carry a command *)
(* out also when the thread that sent it has given up.                     *)
(***************************************************************************)
EXTENDS Naturals, FiniteSets

CONSTANTS
    Keys,       \* fans and firmware attributes
    Values,     \* what they can be set to
    Initial,    \* what they are set to at first
    NoValue,    \* nothing to set
    Workers,    \* threads that a flush starts, one each
    Changes     \* bound: values the user sets

VARIABLES
    pending,    \* fans, attrs: the value to send for a key
    armed,      \* the timer of the newest ticket has not fired
    batch,      \* what a worker has still to send
    sent,       \* the command a worker waits for the answer of
    late,       \* commands given up that the daemon may still carry out
    applied,    \* what the daemon has set
    asked,      \* history: the last value set for a key
    doubtful,   \* history: keys with two commands under way, or one failed
    changes     \* values set so far

vars == <<pending, armed, batch, sent, late, applied, asked, doubtful, changes>>

Nothing  == [k \in Keys |-> NoValue]
Commands == [key : Keys, value : Values]
NoCommand == [key |-> "none"]

Waiting(w) == sent[w] # NoCommand
Done(w) == batch[w] = Nothing /\ ~Waiting(w)

\* A command for k has left the queue and is not known to be finished.
UnderWay(k) ==
    \/ \E w \in Workers : \/ batch[w][k] # NoValue
                          \/ Waiting(w) /\ sent[w].key = k
    \/ \E c \in late : c.key = k

TypeOK ==
    /\ pending \in [Keys -> Values \cup {NoValue}] /\ armed \in BOOLEAN
    /\ armed = (pending # Nothing)
    /\ batch \in [Workers -> [Keys -> Values \cup {NoValue}]]
    /\ sent \in [Workers -> Commands \cup {NoCommand}]
    /\ late \subseteq Commands
    /\ applied \in [Keys -> Values] /\ asked \in [Keys -> Values]
    /\ doubtful \subseteq Keys /\ changes \in 0 .. Changes

Init ==
    /\ pending = Nothing /\ armed = FALSE
    /\ batch = [w \in Workers |-> Nothing]
    /\ sent = [w \in Workers |-> NoCommand] /\ late = {}
    /\ applied = [k \in Keys |-> Initial] /\ asked = applied
    /\ doubtful = {} /\ changes = 0
-----------------------------------------------------------------------------
\* set_fan, set_fw_attr: the latest value, and a new ticket.
Set(k, v) ==
    /\ changes < Changes /\ changes' = changes + 1
    /\ pending' = [pending EXCEPT ![k] = v]
    /\ armed' = TRUE
    /\ asked' = [asked EXCEPT ![k] = v]
    /\ doubtful' = IF UnderWay(k) THEN doubtful ELSE doubtful \ {k}
    /\ UNCHANGED <<batch, sent, late, applied>>

\* Mutant: a value set since the timer was started is dropped with the rest.
Flush_SendsOne ==
    /\ armed /\ armed' = FALSE
    /\ \E w \in Workers, k \in Keys :
         /\ Done(w) /\ pending[k] # NoValue
         /\ batch' = [batch EXCEPT ![w][k] = pending[k]]
    /\ doubtful' = doubtful \cup {k \in Keys : pending[k] # NoValue
                                                 /\ UnderWay(k)}
    /\ pending' = Nothing
    /\ UNCHANGED <<sent, late, applied, asked, changes>>

\* 140 ms after the newest ticket. The worker of an earlier flush may be still
\* at work.
Flush ==
    /\ armed /\ armed' = FALSE
    /\ \E w \in Workers :
         /\ Done(w)
         /\ batch' = [batch EXCEPT ![w] = pending]
    /\ doubtful' = doubtful \cup {k \in Keys : pending[k] # NoValue
                                                 /\ UnderWay(k)}
    /\ pending' = Nothing
    /\ UNCHANGED <<sent, late, applied, asked, changes>>

\* send_command, in no particular order of the keys.
Send(w) ==
    /\ ~Waiting(w)
    /\ \E k \in Keys :
         /\ batch[w][k] # NoValue
         /\ sent' = [sent EXCEPT ![w] = [key |-> k, value |-> batch[w][k]]]
         /\ batch' = [batch EXCEPT ![w][k] = NoValue]
    /\ UNCHANGED <<pending, armed, late, applied, asked, doubtful, changes>>

Carry(c) == applied' = [applied EXCEPT ![c.key] = c.value]

Ok(w) ==
    /\ Waiting(w)
    /\ Carry(sent[w])
    /\ sent' = [sent EXCEPT ![w] = NoCommand]
    /\ UNCHANGED <<pending, armed, batch, late, asked, doubtful, changes>>

\* Refused, or no daemon: a toast.
Refused(w) ==
    /\ Waiting(w)
    /\ doubtful' = doubtful \cup {sent[w].key}
    /\ sent' = [sent EXCEPT ![w] = NoCommand]
    /\ UNCHANGED <<pending, armed, batch, late, applied, asked, changes>>

\* No answer in 5 s: an error, but the daemon may have begun.
TimedOut(w) ==
    /\ Waiting(w)
    /\ doubtful' = doubtful \cup {sent[w].key}
    /\ late' = late \cup {sent[w]}
    /\ sent' = [sent EXCEPT ![w] = NoCommand]
    /\ UNCHANGED <<pending, armed, batch, applied, asked, changes>>

\* The daemon carries out what it has accepted, or was killed.
Late ==
    /\ \E c \in late :
         /\ late' = late \ {c}
         /\ \/ Carry(c)
            \/ UNCHANGED applied
    /\ UNCHANGED <<pending, armed, batch, sent, asked, doubtful, changes>>

Worker(w) == Send(w) \/ Ok(w) \/ Refused(w) \/ TimedOut(w)

Next ==
    \/ \E k \in Keys, v \in Values : Set(k, v)
    \/ Flush \/ Late
    \/ \E w \in Workers : Worker(w)

Spec == Init /\ [][Next]_vars
-----------------------------------------------------------------------------
\* "Rapid slider / switch spam keeps only the latest value per key": once
\* nothing about a key is under way, the daemon has the value set for it last,
\* unless a command failed, or was still under way when the next one of the key
\* was sent by another thread, which nothing keeps in order.
LatestApplied ==
    \A k \in Keys :
        pending[k] = NoValue /\ ~UnderWay(k) /\ k \notin doubtful
            => applied[k] = asked[k]
=============================================================================
