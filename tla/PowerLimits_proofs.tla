------------------------- MODULE PowerLimits_proofs -------------------------
(***************************************************************************)
(* What holds of the Custom-mode limits for every set of attributes,       *)
(* values and clients: the types, that what is saved is in force, and that *)
(* a write tried twice is kept unless the mode changed meanwhile.          *)
(***************************************************************************)
EXTENDS PowerLimits, TLAPS

Points == {"idle", "save", "read", "swap", "wait", "plan",
           "next", "sleep", "write", "verify", "settle"}

Writes == [attr : Attrs, value : Values, try : 1..2]

\* A thread that moves, and one whose write is replaced or done with.
LEMMA GotoType ==
    ASSUME pc \in [Threads -> Points], NEW t \in Threads, NEW p \in Points,
           Goto(t, p)
    PROVE  /\ pc' \in [Threads -> Points] /\ pc'[t] = p
           /\ \A u \in Threads \ {t} : pc'[u] = pc[u]
  BY DEF Goto

LEMMA JobType ==
    ASSUME job \in [Threads -> Writes \cup {NoJob}], NEW t \in Threads,
           NEW j \in Writes \cup {NoJob}, job' = [job EXCEPT ![t] = j]
    PROVE  /\ job' \in [Threads -> Writes \cup {NoJob}] /\ job'[t] = j
           /\ \A u \in Threads \ {t} : job'[u] = job[u]
  OBVIOUS

LEMMA EndsType ==
    ASSUME TypeOK, NEW t \in Threads, Ends(t)
    PROVE  /\ pc' \in [Threads -> Points]
           /\ pc'[t] = IF t = Worker THEN "next" ELSE "idle"
           /\ job' \in [Threads -> Writes \cup {NoJob}]
           /\ \A u \in Threads \ {t} : pc'[u] = pc[u] /\ job'[u] = job[u]
           /\ lock' = IF t # Worker /\ lock = t THEN Nobody ELSE lock
           /\ lock' \in Threads \cup {Nobody}
  <1>1. job' \in [Threads -> Writes \cup {NoJob}]
        /\ \A u \in Threads \ {t} : job'[u] = job[u]
    BY JobType DEF Ends, TypeOK, Writes
  <1>2. Goto(t, IF t = Worker THEN "next" ELSE "idle")
    BY DEF Ends
  <1>3. lock' = IF t # Worker /\ lock = t THEN Nobody ELSE lock
    BY DEF Ends, Unlock
  <1>4. (IF t = Worker THEN "next" ELSE "idle") \in Points
        /\ pc \in [Threads -> Points] /\ lock \in Threads \cup {Nobody}
    BY DEF Points, TypeOK
  <1>5. QED
    BY <1>1, <1>2, <1>3, <1>4, GotoType
-----------------------------------------------------------------------------
(***************************************************************************)
(* Who holds the lock, and what is being written.                          *)
(***************************************************************************)
Writing == {"write", "verify", "settle"}

\* The worker holds WRITE_LOCK from the plan of its writes to the last of
\* them, a client from its request to its reply.
Holders ==
    /\ \A c \in Clients :
         /\ pc[c] \in {"idle", "save"} \cup Writing
         /\ lock = c <=> pc[c] # "idle"
    /\ pc[Worker] \in {"read", "swap", "wait", "plan", "next", "sleep"} \cup Writing
    /\ lock = Worker <=> pc[Worker] \in {"plan", "next"} \cup Writing

\* Who writes has a write.
Jobs == \A t \in Threads : pc[t] \in {"save"} \cup Writing => job[t] \in Writes

\* The worker writes what is saved.
WorkerSaved ==
    /\ lock = Worker /\ pc[Worker] # "plan" => \A d \in todo : saved[d[1]] = d[2]
    /\ pc[Worker] \in Writing => saved[job[Worker].attr] = job[Worker].value

\* A client has written the limit of attribute a and not saved it.
Unsaved(a) ==
    \E c \in Clients :
        /\ pc[c] \in {"verify", "save"} /\ job[c].attr = a
        /\ limit[a] = job[c].value

\* A limit known to be in force is saved, or about to be.
InForce ==
    /\ \A a \in Attrs \ adrift : saved[a] = limit[a] \/ Unsaved(a)
    /\ \A c \in Clients :
         pc[c] = "save" /\ job[c].attr \notin adrift
             => limit[job[c].attr] = job[c].value

IInv == TypeOK /\ Holders /\ Jobs /\ WorkerSaved /\ InForce

LEMMA InvInit == Init => IInv
  <1> SUFFICES ASSUME Init PROVE IInv
    OBVIOUS
  <1>1. Worker \notin Clients /\ Nobody \notin Clients /\ Nobody # Worker
    BY PowerLimitsAssumption
  <1>2. TypeOK
    BY DEF Init, TypeOK, AtRest, Threads
  <1>3. QED
    BY <1>1, <1>2 DEF Init, IInv, AtRest, Threads, Holders, Jobs, WorkerSaved,
                      InForce, Writing
-----------------------------------------------------------------------------
\* The threads differ.
LEMMA ThreadsDiffer ==
    Worker \notin Clients /\ Nobody \notin Threads /\ Threads = Clients \cup {Worker}
  BY PowerLimitsAssumption DEF Threads

\* A thread that writes holds the lock, and no other client is about to save.
LEMMA WriterAlone ==
    ASSUME IInv, NEW t \in Threads, pc[t] \in {"save"} \cup Writing
    PROVE  /\ lock = t /\ job[t] \in Writes
           /\ \A c \in Clients \ {t} : pc[c] = "idle"
           /\ t # Worker => pc[Worker] \notin {"plan", "next"} \cup Writing
           /\ t = Worker => pc[t] \in Writing
  BY ThreadsDiffer DEF IInv, Holders, Jobs, Writing

\* With the lock free, or held by a thread that has written nothing yet, all
\* that is known to be in force is saved.
LEMMA AllSaved ==
    ASSUME IInv, \A c \in Clients : pc[c] \notin {"verify", "save"}
    PROVE  \A a \in Attrs \ adrift : saved[a] = limit[a]
  BY DEF IInv, InForce, Unsaved

LEMMA InvWrite ==
    ASSUME IInv, NEW t \in Threads, Write(t)
    PROVE  IInv'
  <1> USE DEF OthersUnchanged, modeVars, kickVars, workerVars
  <1> DEFINE a == job[t].attr  v == job[t].value
  <1>1. /\ lock = t /\ job[t] \in Writes
        /\ \A c \in Clients \ {t} : pc[c] = "idle"
        /\ a \in Attrs /\ v \in Values
    BY WriterAlone DEF Write, Writing, Writes
  <1>2. /\ pc' \in [Threads -> Points] /\ pc'[t] = "verify"
        /\ \A u \in Threads \ {t} : pc'[u] = pc[u]
    BY GotoType DEF Write, IInv, TypeOK, Points
  <1>3. limit' = limit \/ limit' = [limit EXCEPT ![a] = v]
    BY DEF Write
  <1>4. TypeOK'
    BY <1>1, <1>2, <1>3 DEF Write, IInv, TypeOK, Points
  <1>5. Holders' /\ Jobs'
    BY <1>1, <1>2, ThreadsDiffer DEF Write, IInv, Holders, Jobs, Writing
  <1>6. WorkerSaved'
    BY <1>1, <1>2, ThreadsDiffer DEF Write, IInv, Holders, WorkerSaved, Writing
  <1>7. InForce'
    <2>1. \A b \in Attrs \ adrift : saved[b] = limit[b]
      BY <1>1, AllSaved, ThreadsDiffer DEF Write
    <2>2. \A b \in Attrs \ {a} : limit'[b] = limit[b]
      BY <1>1, <1>3 DEF IInv, TypeOK
    <2>3. ASSUME a \notin adrift
          PROVE  saved[a] = limit'[a] \/ Unsaved(a)'
      <3>1. CASE limit' = limit
        BY <1>1, <2>1, <2>3, <3>1
      <3>2. CASE limit' = [limit EXCEPT ![a] = v]
        <4>1. limit'[a] = v
          BY <1>1, <3>2 DEF IInv, TypeOK
        <4>2. CASE t = Worker
          BY <4>1, <4>2 DEF Write, IInv, WorkerSaved, Writing
        <4>3. CASE t \in Clients
          BY <1>2, <4>1, <4>3 DEF Write, Unsaved
        <4>4. QED
          BY <4>2, <4>3, ThreadsDiffer
      <3>3. QED
        BY <1>3, <3>1, <3>2
    <2>4. \A c \in Clients : pc'[c] # "save"
      BY <1>1, <1>2, ThreadsDiffer
    <2>5. QED
      BY <2>1, <2>2, <2>3, <2>4 DEF Write, InForce
  <1>8. QED
    BY <1>4, <1>5, <1>6, <1>7 DEF IInv

\* A write that ends with the limit as it was, or read back as written.
LEMMA InvEnds ==
    ASSUME IInv, NEW t \in Threads, Ends(t), OthersUnchanged,
           limit' = limit, adrift' \subseteq Attrs, unsure' \subseteq Attrs,
           pc[t] \in Writing,
           \/ adrift' = adrift /\ (pc[t] # "verify" \/ ~Kept(t))
           \/ t = Worker /\ adrift' = adrift \ {job[t].attr} /\ Kept(t)
           \/ t = Worker /\ adrift' = adrift \cup {job[t].attr}
    PROVE  IInv'
  <1> USE DEF OthersUnchanged, modeVars, kickVars, workerVars
  <1>1. /\ lock = t /\ job[t] \in Writes
        /\ \A c \in Clients \ {t} : pc[c] = "idle"
    BY WriterAlone
  <1>2. /\ pc' \in [Threads -> Points]
        /\ pc'[t] = IF t = Worker THEN "next" ELSE "idle"
        /\ job' \in [Threads -> Writes \cup {NoJob}]
        /\ \A u \in Threads \ {t} : pc'[u] = pc[u] /\ job'[u] = job[u]
        /\ lock' = IF t # Worker /\ lock = t THEN Nobody ELSE lock
        /\ lock' \in Threads \cup {Nobody}
    BY EndsType DEF IInv
  <1>3. TypeOK'
    BY <1>2 DEF IInv, TypeOK, Points, Writes
  <1>4. Holders' /\ Jobs'
    BY <1>1, <1>2, ThreadsDiffer DEF IInv, Holders, Jobs, Writing
  <1>5. WorkerSaved'
    BY <1>1, <1>2, ThreadsDiffer DEF IInv, Holders, WorkerSaved, Writing
  <1>6. InForce'
    <2>1. \A c \in Clients : pc'[c] = "idle"
      BY <1>1, <1>2, ThreadsDiffer
    <2>2. \A c \in Clients : pc[c] # "save"
      BY <1>1, ThreadsDiffer DEF Writing
    <2>3. ASSUME NEW a \in Attrs \ adrift
          PROVE  saved[a] = limit[a] \/ (a = job[t].attr /\ t # Worker /\ Kept(t)
                                          /\ pc[t] = "verify")
      BY <1>1, <2>2, ThreadsDiffer DEF IInv, InForce, Unsaved, Kept
    <2>4. t = Worker => saved[job[t].attr] = job[t].value
      BY DEF IInv, WorkerSaved
    <2>5. \A a \in Attrs \ adrift' : saved[a] = limit[a]
      BY <1>1, <2>3, <2>4 DEF Kept, Writes
    <2>6. QED
      BY <2>1, <2>5 DEF InForce
  <1>7. QED
    BY <1>3, <1>4, <1>5, <1>6 DEF IInv

LEMMA InvAccept ==
    ASSUME IInv, NEW c \in Clients, pc[c] = "verify", Goto(c, "save"),
           OthersUnchanged, UNCHANGED <<limit, lock, job>>,
           unsure' \subseteq Attrs,
           \/ adrift' = adrift \ {job[c].attr} /\ Kept(c)
           \/ adrift' = adrift \cup {job[c].attr}
    PROVE  IInv'
  <1> USE DEF OthersUnchanged, modeVars, kickVars, workerVars
  <1>1. /\ lock = c /\ job[c] \in Writes
        /\ \A d \in Clients \ {c} : pc[d] = "idle"
        /\ pc[Worker] \notin {"plan", "next"} \cup Writing
    BY WriterAlone, ThreadsDiffer DEF Writing
  <1>2. /\ pc' \in [Threads -> Points] /\ pc'[c] = "save"
        /\ \A u \in Threads \ {c} : pc'[u] = pc[u]
    BY GotoType, ThreadsDiffer DEF IInv, TypeOK, Points
  <1>3. TypeOK'
    BY <1>1, <1>2 DEF IInv, TypeOK, Points, Writes
  <1>4. Holders' /\ Jobs' /\ WorkerSaved'
    BY <1>1, <1>2, ThreadsDiffer
       DEF IInv, Holders, Jobs, WorkerSaved, Writing
  <1>5. InForce'
    <2>1. job[c].attr \notin adrift' => limit[job[c].attr] = job[c].value
      BY DEF Kept
    <2>2. ASSUME NEW a \in Attrs \ adrift'
          PROVE  saved[a] = limit[a] \/ Unsaved(a)'
      <3>1. CASE a = job[c].attr
        BY <1>2, <2>1, <2>2, <3>1 DEF Unsaved
      <3>2. CASE a # job[c].attr
        <4>1. a \notin adrift /\ ~Unsaved(a)
          BY <1>1, <2>2, <3>2 DEF Unsaved
        <4>2. QED
          BY <4>1 DEF IInv, InForce
      <3>3. QED
        BY <3>1, <3>2
    <2>3. \A d \in Clients : pc'[d] = "save" => d = c
      BY <1>1, <1>2, ThreadsDiffer
    <2>4. QED
      BY <2>1, <2>2, <2>3 DEF InForce
  <1>6. QED
    BY <1>3, <1>4, <1>5 DEF IInv

\* A step of write_verified that writes nothing: it retries, or has slept.
LEMMA InvRetries ==
    ASSUME IInv, NEW t \in Threads, VerifyRetry(t) \/ Settle(t)
    PROVE  IInv'
  <1> USE DEF OthersUnchanged, modeVars, kickVars, workerVars
  <1>1. /\ lock = t /\ job[t] \in Writes
        /\ \A c \in Clients \ {t} : pc[c] = "idle"
        /\ pc[t] \in {"verify", "settle"}
    BY WriterAlone DEF VerifyRetry, Settle, Writing
  <1>2. /\ pc' \in [Threads -> Points] /\ pc'[t] \in {"settle", "write"}
        /\ \A u \in Threads \ {t} : pc'[u] = pc[u]
    <2>1. Goto(t, "settle") \/ Goto(t, "write")
      BY DEF VerifyRetry, Settle
    <2>2. QED
      BY <2>1, GotoType DEF IInv, TypeOK, Points
  <1>3. /\ job' \in [Threads -> Writes \cup {NoJob}]
        /\ job'[t] \in Writes
        /\ job'[t].attr = job[t].attr /\ job'[t].value = job[t].value
        /\ \A u \in Threads \ {t} : job'[u] = job[u]
    <2>1. job \in [Threads -> Writes \cup {NoJob}]
      BY DEF IInv, TypeOK, Writes
    <2>2. job' = job \/ job' = [job EXCEPT ![t].try = 2]
      BY DEF VerifyRetry, Settle
    <2>3. [job[t] EXCEPT !.try = 2] \in Writes
          /\ [job[t] EXCEPT !.try = 2].attr = job[t].attr
          /\ [job[t] EXCEPT !.try = 2].value = job[t].value
      BY <1>1 DEF Writes
    <2>4. QED
      BY <1>1, <2>1, <2>2, <2>3
  <1>4. TypeOK'
    BY <1>2, <1>3 DEF VerifyRetry, Settle, IInv, TypeOK, Points, Writes
  <1>5. Holders' /\ Jobs'
    BY <1>1, <1>2, <1>3, ThreadsDiffer
       DEF VerifyRetry, Settle, IInv, Holders, Jobs, Writing
  <1>6. WorkerSaved'
    BY <1>1, <1>2, <1>3, ThreadsDiffer
       DEF VerifyRetry, Settle, IInv, Holders, WorkerSaved, Writing
  <1>7. InForce'
    <2>1. \A a \in Attrs : ~Unsaved(a)
      BY <1>1, ThreadsDiffer DEF VerifyRetry, Settle, Kept, Unsaved
    <2>2. \A c \in Clients : pc'[c] # "save"
      BY <1>1, <1>2, ThreadsDiffer
    <2>3. QED
      BY <2>1, <2>2 DEF VerifyRetry, Settle, IInv, InForce
  <1>8. QED
    BY <1>4, <1>5, <1>6, <1>7 DEF IInv

LEMMA InvWriteVerified ==
    ASSUME IInv, NEW t \in Threads, WriteVerified(t)
    PROVE  IInv'
  <1>1. job[t].attr \in Attrs
    BY WriterAlone
       DEF WriteVerified, Write, WriteFails, VerifyKept, VerifyUnread,
                       VerifyRetry, VerifyFails, Settle, Writing, Writes
  <1>2. adrift \subseteq Attrs /\ unsure \subseteq Attrs
    BY DEF IInv, TypeOK
  <1>3. CASE WriteFails(t)
    BY <1>1, <1>2, <1>3, InvEnds DEF WriteFails, Writing
  <1>4. CASE VerifyFails(t)
    BY <1>1, <1>2, <1>4, InvEnds DEF VerifyFails, Writing
  <1>5. CASE VerifyKept(t)
    <2>1. CASE t = Worker
      BY <1>1, <1>2, <1>5, <2>1, InvEnds DEF VerifyKept, Accept, Writing
    <2>2. CASE t \in Clients
      BY <1>1, <1>2, <1>5, <2>2, InvAccept, ThreadsDiffer DEF VerifyKept, Accept
    <2>3. QED
      BY <2>1, <2>2, ThreadsDiffer
  <1>6. CASE VerifyUnread(t)
    <2>1. CASE t = Worker
      BY <1>1, <1>2, <1>6, <2>1, InvEnds DEF VerifyUnread, Accept, Writing
    <2>2. CASE t \in Clients
      BY <1>1, <1>2, <1>6, <2>2, InvAccept, ThreadsDiffer
         DEF VerifyUnread, Accept
    <2>3. QED
      BY <2>1, <2>2, ThreadsDiffer
  <1>7. QED
    BY <1>3, <1>4, <1>5, <1>6, InvWrite, InvRetries DEF WriteVerified
-----------------------------------------------------------------------------
LEMMA InvSetFwAttr ==
    ASSUME IInv, NEW c \in Clients, SetFwAttr(c)
    PROVE  IInv'
  <1> USE DEF modeVars, kickVars, workerVars
  <1> DEFINE p == IF fresh = "daemon" THEN "settle" ELSE "write"
  <1>1. PICK a \in Attrs, v \in Values :
          job' = [job EXCEPT ![c] = [attr |-> a, value |-> v, try |-> 1]]
    BY DEF SetFwAttr
  <1>2. /\ job' \in [Threads -> Writes \cup {NoJob}] /\ job'[c] \in Writes
        /\ \A u \in Threads \ {c} : job'[u] = job[u]
    BY <1>1, ThreadsDiffer DEF IInv, TypeOK, Writes
  <1>3. /\ pc' \in [Threads -> Points] /\ pc'[c] \in {"settle", "write"}
        /\ \A u \in Threads \ {c} : pc'[u] = pc[u]
    <2>1. Goto(c, p) /\ p \in {"settle", "write"}
      BY DEF SetFwAttr
    <2>2. QED
      BY <2>1, GotoType, ThreadsDiffer DEF IInv, TypeOK, Points
  <1>4. /\ \A d \in Clients : pc[d] = "idle"
        /\ pc[Worker] \notin {"plan", "next"} \cup Writing
        /\ lock' = c
    BY ThreadsDiffer DEF SetFwAttr, IInv, Holders
  <1>5. TypeOK'
    BY <1>2, <1>3, <1>4, ThreadsDiffer
       DEF SetFwAttr, IInv, TypeOK, Points, Writes
  <1>6. Holders' /\ Jobs' /\ WorkerSaved'
    BY <1>2, <1>3, <1>4, ThreadsDiffer
       DEF SetFwAttr, IInv, Holders, Jobs, WorkerSaved, Writing
  <1>7. InForce'
    BY <1>3, <1>4, AllSaved, ThreadsDiffer DEF SetFwAttr, InForce
  <1>8. QED
    BY <1>5, <1>6, <1>7 DEF IInv

LEMMA InvSave ==
    ASSUME IInv, NEW c \in Clients, Save(c)
    PROVE  IInv'
  <1> USE DEF modeVars, kickVars, history, workerVars
  <1>1. /\ lock = c /\ job[c] \in Writes
        /\ \A d \in Clients \ {c} : pc[d] = "idle"
        /\ pc[Worker] \notin {"plan", "next"} \cup Writing
    BY WriterAlone, ThreadsDiffer DEF Save
  <1>2. /\ pc' \in [Threads -> Points] /\ pc'[c] = "idle"
        /\ job' \in [Threads -> Writes \cup {NoJob}]
        /\ \A u \in Threads \ {c} : pc'[u] = pc[u] /\ job'[u] = job[u]
        /\ lock' = Nobody
    BY <1>1, EndsType, ThreadsDiffer DEF Save, IInv
  <1>3. TypeOK'
    BY <1>1, <1>2 DEF Save, IInv, TypeOK, Points, Writes
  <1>4. Holders' /\ Jobs' /\ WorkerSaved'
    BY <1>1, <1>2, ThreadsDiffer
       DEF Save, IInv, Holders, Jobs, WorkerSaved, Writing
  <1>5. InForce'
    <2>1. \A d \in Clients : pc'[d] = "idle"
      BY <1>1, <1>2, ThreadsDiffer
    <2>2. ASSUME NEW a \in Attrs \ adrift
          PROVE  saved'[a] = limit[a]
      <3>1. saved \in [Attrs -> Values \cup {Unset}]
            /\ saved' = [saved EXCEPT ![job[c].attr] = job[c].value]
        BY DEF Save, IInv, TypeOK
      <3>2. CASE a = job[c].attr
        BY <2>2, <3>1, <3>2 DEF Save, IInv, InForce
      <3>3. CASE a # job[c].attr
        <4>1. ~Unsaved(a)
          BY <1>1, <3>3 DEF Unsaved
        <4>2. QED
          BY <2>2, <3>1, <3>3, <4>1 DEF IInv, InForce
      <3>4. QED
        BY <3>2, <3>3
    <2>3. QED
      BY <2>1, <2>2 DEF Save, InForce
  <1>6. QED
    BY <1>3, <1>4, <1>5 DEF IInv

LEMMA InvWorker ==
    ASSUME IInv,
           \/ WorkerReads \/ WorkerSwaps \/ WorkerLocks \/ WorkerPlans
           \/ WorkerNext \/ WorkerDone \/ WorkerWakes
    PROVE  IInv'
  <1> USE DEF WorkerOnly, modeVars, kickVars, workerVars
  <1>1. pc \in [Threads -> Points] /\ Worker \in Threads
    BY ThreadsDiffer DEF IInv, TypeOK, Points
  <1>2. \A p \in Points : Goto(Worker, p) =>
          /\ pc' \in [Threads -> Points] /\ pc'[Worker] = p
          /\ \A c \in Clients : pc'[c] = pc[c]
    BY <1>1, GotoType, ThreadsDiffer
  <1>3. \A p \in {"read", "swap", "wait", "plan", "next", "sleep", "write"} :
          p \in Points
    BY DEF Points
  <1>4. CASE WorkerReads
    <2>1. TypeOK'
      BY <1>1, <1>2, <1>3, <1>4 DEF WorkerReads, IInv, TypeOK, Points
    <2>2. QED
      BY <1>2, <1>3, <1>4, <2>1, ThreadsDiffer
         DEF WorkerReads, IInv, Holders, Jobs, WorkerSaved, InForce, Unsaved, Writing
  <1>5. CASE WorkerSwaps
    <2>1. Goto(Worker, "wait") \/ Goto(Worker, "sleep")
      BY <1>5 DEF WorkerSwaps, IterationEnds
    <2>2. TypeOK'
      BY <1>1, <1>2, <1>3, <1>5, <2>1
         DEF WorkerSwaps, IterationEnds, IInv, TypeOK, Points
    <2>3. QED
      BY <1>2, <1>3, <1>5, <2>1, <2>2, ThreadsDiffer
         DEF WorkerSwaps, IInv, Holders, Jobs, WorkerSaved, InForce, Unsaved, Writing
  <1>6. CASE WorkerLocks
    <2>1. \/ Goto(Worker, "plan") /\ lock' = Worker /\ UNCHANGED previous
          \/ Goto(Worker, "sleep") /\ lock' = lock /\ previous' = now
      BY <1>6 DEF WorkerLocks, IterationEnds
    <2>2. TypeOK'
      BY <1>1, <1>2, <1>3, <1>6, <2>1 DEF WorkerLocks, IInv, TypeOK, Points
    <2>3. QED
      BY <1>2, <1>3, <1>6, <2>1, <2>2, ThreadsDiffer
         DEF WorkerLocks, IInv, Holders, Jobs, WorkerSaved, InForce, Unsaved, Writing
  <1>7. CASE WorkerPlans
    <2>1. todo' \subseteq Attrs \X Values /\ \A d \in todo' : saved[d[1]] = d[2]
      BY <1>7 DEF WorkerPlans, limits_to_write, SavedLimits, IInv, TypeOK
    <2>2. TypeOK'
      BY <1>1, <1>2, <1>3, <1>7, <2>1 DEF WorkerPlans, IInv, TypeOK, Points
    <2>3. QED
      BY <1>2, <1>3, <1>7, <2>1, <2>2, ThreadsDiffer
         DEF WorkerPlans, IInv, Holders, Jobs, WorkerSaved, InForce, Unsaved, Writing
  <1>8. CASE WorkerNext
    <2>1. PICK d \in todo :
            /\ job' = [job EXCEPT ![Worker] =
                         [attr |-> d[1], value |-> d[2], try |-> 1]]
            /\ todo' = todo \ {d}
      BY <1>8 DEF WorkerNext
    <2>2. d \in Attrs \X Values
      BY <2>1 DEF IInv, TypeOK
    <2>3. /\ job' \in [Threads -> Writes \cup {NoJob}] /\ job'[Worker] \in Writes
          /\ job'[Worker].attr = d[1] /\ job'[Worker].value = d[2]
          /\ \A c \in Clients : job'[c] = job[c]
      BY <1>1, <2>1, <2>2, ThreadsDiffer DEF IInv, TypeOK, Writes
    <2>4. saved[d[1]] = d[2]
      BY <1>8, <2>1 DEF WorkerNext, IInv, Holders, WorkerSaved, Writing
    <2>5. TypeOK'
      BY <1>1, <1>2, <1>3, <1>8, <2>1, <2>3
         DEF WorkerNext, IInv, TypeOK, Points, Writes
    <2>6. Holders' /\ Jobs'
      BY <1>2, <1>3, <1>8, <2>3, ThreadsDiffer
         DEF WorkerNext, IInv, Holders, Jobs, Writing
    <2>7. WorkerSaved'
      BY <1>2, <1>3, <1>8, <2>1, <2>3, <2>4
         DEF WorkerNext, IInv, Holders, WorkerSaved, Writing
    <2>8. InForce'
      BY <1>2, <1>3, <1>8, <2>3 DEF WorkerNext, IInv, InForce, Unsaved
    <2>9. QED
      BY <2>5, <2>6, <2>7, <2>8 DEF IInv
  <1>9. CASE WorkerDone
    <2>1. Goto(Worker, "sleep") /\ lock' = Nobody /\ previous' = now
      BY <1>9 DEF WorkerDone, IterationEnds, Unlock, IInv, Holders
    <2>2. TypeOK'
      BY <1>1, <1>2, <1>3, <1>9, <2>1 DEF WorkerDone, IInv, TypeOK, Points
    <2>3. QED
      BY <1>2, <1>3, <1>9, <2>1, <2>2, ThreadsDiffer
         DEF WorkerDone, IInv, Holders, Jobs, WorkerSaved, InForce, Unsaved, Writing
  <1>10. CASE WorkerWakes
    <2>1. TypeOK'
      BY <1>1, <1>2, <1>3, <1>10 DEF WorkerWakes, IInv, TypeOK, Points
    <2>2. QED
      BY <1>2, <1>3, <1>10, <2>1, ThreadsDiffer
         DEF WorkerWakes, IInv, Holders, Jobs, WorkerSaved, InForce, Unsaved, Writing
  <1>11. QED
    BY <1>4, <1>5, <1>6, <1>7, <1>8, <1>9, <1>10

\* What the firmware forgets is adrift; the rest is as it was.
LEMMA InvForgets ==
    ASSUME IInv, Forgets, ThreadsUnchanged, disturbed' \subseteq Threads,
           mode' \in {"custom", "other"}, fresh' \in {"no", "daemon", "other"},
           KICK' \in BOOLEAN, resuming' \in BOOLEAN
    PROVE  IInv'
  <1> USE DEF ThreadsUnchanged, workerVars
  <1>1. PICK L \in SUBSET Attrs :
          /\ limit' = [a \in Attrs |-> IF a \in L THEN Default ELSE limit[a]]
          /\ adrift' = adrift \cup L
    BY DEF Forgets
  <1>2. TypeOK'
    BY <1>1 DEF IInv, TypeOK
  <1>3. Holders' /\ Jobs' /\ WorkerSaved'
    BY DEF IInv, Holders, Jobs, WorkerSaved
  <1>4. InForce'
    <2>1. \A a \in Attrs \ adrift' : a \notin adrift /\ limit'[a] = limit[a]
      BY <1>1
    <2>2. \A c \in Clients : pc[c] = "save" => job[c].attr \in Attrs
      BY ThreadsDiffer DEF IInv, Jobs, Writes
    <2>3. QED
      BY <2>1, <2>2 DEF IInv, InForce, Unsaved
  <1>5. QED
    BY <1>2, <1>3, <1>4 DEF IInv

LEMMA InvMachine ==
    ASSUME IInv,
           SetProfile \/ ModeKey \/ FirmwareSettles \/ Suspend \/ Kick
    PROVE  IInv'
  <1> USE DEF modeVars, kickVars
  <1>1. CASE SetProfile
    BY <1>1, InvForgets DEF SetProfile, ModeChanges, IInv, TypeOK
  <1>2. CASE ModeKey
    BY <1>2, InvForgets DEF ModeKey, ModeChanges, IInv, TypeOK
  <1>3. CASE Suspend
    BY <1>3, InvForgets DEF Suspend, IInv, TypeOK, Threads
  <1>4. CASE FirmwareSettles
    BY <1>4 DEF FirmwareSettles, ThreadsUnchanged, workerVars, IInv, TypeOK,
                Holders, Jobs, WorkerSaved, InForce, Unsaved
  <1>5. CASE Kick
    <2>1. TypeOK'
      BY <1>5 DEF Kick, ThreadsUnchanged, workerVars, IInv, TypeOK
    <2>2. QED
      BY <1>5, <2>1 DEF Kick, ThreadsUnchanged, workerVars, IInv,
                        Holders, Jobs, WorkerSaved, InForce, Unsaved
  <1>6. QED
    BY <1>1, <1>2, <1>3, <1>4, <1>5

LEMMA InvRestart == IInv /\ Restart => IInv'
  <1> SUFFICES ASSUME IInv, Restart PROVE IInv'
    OBVIOUS
  <1>1. /\ \A c \in Clients : pc'[c] = "idle"
        /\ pc'[Worker] = "read" /\ pc' \in [Threads -> Points]
    BY ThreadsDiffer DEF Restart, AtRest, Points
  <1>2. \A c \in Clients : lock = c => job[c].attr \in Attrs
    BY ThreadsDiffer DEF IInv, Holders, Jobs, Writes, Writing
  <1>3. adrift' \subseteq Attrs /\ adrift \subseteq adrift'
    BY <1>2 DEF Restart, IInv, TypeOK
  <1>4. TypeOK'
    BY <1>1, <1>3, ThreadsDiffer DEF Restart, IInv, TypeOK, Points
  <1>5. Holders' /\ Jobs' /\ WorkerSaved'
    BY <1>1, ThreadsDiffer DEF Restart, Holders, Jobs, WorkerSaved, Writing
  <1>6. InForce'
    <2>1. ASSUME NEW a \in Attrs \ adrift' PROVE saved[a] = limit[a]
      <3>1. ASSUME NEW c \in Clients, pc[c] \in {"verify", "save"}
            PROVE  job[c].attr # a
        BY <2>1, <3>1 DEF Restart, IInv, Holders
      <3>2. ~Unsaved(a)
        BY <3>1 DEF Unsaved
      <3>3. QED
        BY <1>3, <2>1, <3>2 DEF IInv, InForce
    <2>2. QED
      BY <1>1, <2>1 DEF Restart, InForce
  <1>7. QED
    BY <1>4, <1>5, <1>6 DEF IInv
-----------------------------------------------------------------------------
\* The strengthening, with the types, holds in every reachable state.
THEOREM SavingInvariant == Spec => []IInv
  <1>1. IInv /\ [Next]_vars => IInv'
    <2> SUFFICES ASSUME IInv, [Next]_vars PROVE IInv'
      OBVIOUS
    <2>1. CASE UNCHANGED vars
      BY <2>1 DEF vars, modeVars, kickVars, workerVars, history, IInv, TypeOK,
                  Holders, Jobs, WorkerSaved, InForce, Unsaved
    <2>2. CASE WorkerSteps
      BY <2>2, InvWorker, InvWriteVerified, ThreadsDiffer DEF WorkerSteps
    <2>3. ASSUME NEW c \in Clients, SetFwAttr(c) \/ ClientSteps(c)
          PROVE  IInv'
      BY <2>3, InvSetFwAttr, InvSave, InvWriteVerified, ThreadsDiffer
         DEF ClientSteps
    <2>4. QED
      BY <2>1, <2>2, <2>3, InvMachine, InvRestart DEF Next
  <1>2. QED
    BY InvInit, <1>1, PTL DEF Spec

\* Every variable keeps its type, in every reachable state.
THEOREM TypeCorrect == Spec => []TypeOK
  <1>1. IInv => TypeOK
    BY DEF IInv
  <1>2. QED
    BY SavingInvariant, <1>1, PTL

\* Whenever WRITE_LOCK is free, a limit that was read back and not lost since
\* is the limit SetFwAttr saved: a re-apply never comes between the write and
\* the save.
THEOREM SavedIsInForce == Spec => []SavedInForce
  <1>1. ASSUME IInv, lock = Nobody
        PROVE  \A a \in Attrs \ adrift : saved[a] = limit[a]
    <2>1. \A c \in Clients : pc[c] = "idle"
      BY <1>1, ThreadsDiffer DEF IInv, Holders
    <2>2. QED
      BY <1>1, <2>1, AllSaved
  <1>2. IInv => SavedInForce
    BY <1>1 DEF SavedInForce
  <1>3. QED
    BY SavingInvariant, <1>2, PTL
-----------------------------------------------------------------------------
(***************************************************************************)
(* The one retry is enough.                                                *)
(***************************************************************************)

\* A client whose request met neither a mode change nor a suspend is still in
\* Custom; its retry comes after the firmware has settled, and sticks.
Retried(c) ==
    pc[c] # "idle" /\ c \notin disturbed =>
        /\ mode = "custom"
        /\ pc[c] \in {"write", "verify"} /\ job[c].try = 2 => fresh = "no"
        /\ pc[c] = "verify" /\ job[c].try = 2 => Kept(c)

\* A step that leaves the request of c alone, and the limit it writes.
LEMMA RetriedKeeps ==
    ASSUME NEW c \in Clients, Retried(c), pc'[c] = pc[c], job'[c] = job[c],
           limit' = limit, mode' = mode, fresh' = fresh \/ fresh' = "no",
           c \in disturbed => c \in disturbed'
    PROVE  Retried(c)'
  BY DEF Retried, Kept

\* A write of another thread finds c idle.
LEMMA RetriedOther ==
    ASSUME IInv, NEW t \in Threads, NEW c \in Clients, c # t,
           WriteVerified(t) \/ Save(t)
    PROVE  Retried(c)'
  <1>1. pc[c] = "idle"
    BY WriterAlone
       DEF WriteVerified, Write, WriteFails, VerifyKept, VerifyUnread,
           VerifyRetry, VerifyFails, Settle, Save, Writing
  <1>2. pc \in [Threads -> Points] /\ c \in Threads
    BY ThreadsDiffer DEF IInv, TypeOK, Points
  <1>3. PICK p \in Points : Goto(t, p)
    BY DEF WriteVerified, Write, WriteFails, VerifyKept, VerifyUnread,
           VerifyRetry, VerifyFails, Settle, Save, Accept, Ends, Points
  <1>4. pc'[c] = pc[c]
    BY <1>2, <1>3, GotoType
  <1>5. QED
    BY <1>1, <1>4 DEF Retried

\* The steps of the request of c.
LEMMA RetriedOwn ==
    ASSUME IInv, NEW c \in Clients, Retried(c), WriteVerified(c) \/ Save(c)
    PROVE  Retried(c)'
  <1> USE DEF OthersUnchanged, modeVars
  <1>1. /\ pc \in [Threads -> Points] /\ c \in Threads /\ c # Worker
        /\ limit \in [Attrs -> Values \cup {Default}]
        /\ job \in [Threads -> Writes \cup {NoJob}]
    BY ThreadsDiffer DEF IInv, TypeOK, Points, Writes
  <1>2. job[c] \in Writes
    BY <1>1, WriterAlone
       DEF WriteVerified, Write, WriteFails, VerifyKept, VerifyUnread,
           VerifyRetry, VerifyFails, Settle, Save, Writing
  <1>3. \A p \in {"idle", "save", "write", "verify", "settle"} :
          Goto(c, p) => pc'[c] = p
    BY <1>1, GotoType DEF Points
  <1>4. CASE Write(c)
    <2>1. pc[c] = "write" /\ pc'[c] = "verify" /\ job'[c] = job[c]
      BY <1>3, <1>4 DEF Write
    <2>2. limit' = limit \/ limit' = [limit EXCEPT ![job[c].attr] = job[c].value]
      BY <1>4 DEF Write
    <2>3. mode = "custom" /\ fresh = "no" =>
            limit' = [limit EXCEPT ![job[c].attr] = job[c].value]
      BY <1>4 DEF Write
    <2>4. mode = "custom" /\ fresh = "no" => Kept(c)'
      BY <1>1, <1>2, <2>1, <2>3 DEF Kept, Writes
    <2>5. QED
      BY <1>4, <2>1, <2>4 DEF Write, Retried
  <1>5. CASE VerifyRetry(c)
    <2>1. pc[c] = "verify" /\ pc'[c] = "settle"
      BY <1>3, <1>5 DEF VerifyRetry
    <2>2. QED
      BY <1>5, <2>1 DEF VerifyRetry, Retried
  <1>6. CASE Settle(c)
    <2>1. pc[c] = "settle" /\ pc'[c] = "write"
      BY <1>3, <1>6 DEF Settle
    <2>2. QED
      BY <1>6, <2>1 DEF Settle, Settled, Retried
  <1>7. CASE VerifyKept(c) \/ VerifyUnread(c)
    <2>1. pc[c] = "verify" /\ pc'[c] = "save"
      BY <1>1, <1>3, <1>7 DEF VerifyKept, VerifyUnread, Accept
    <2>2. QED
      BY <1>7, <2>1 DEF VerifyKept, VerifyUnread, Retried
  <1>8. CASE WriteFails(c) \/ VerifyFails(c) \/ Save(c)
    <2>1. pc'[c] = "idle"
      BY <1>1, <1>3, <1>8 DEF WriteFails, VerifyFails, Save, Ends
    <2>2. QED
      BY <2>1 DEF Retried
  <1>9. QED
    BY <1>4, <1>5, <1>6, <1>7, <1>8 DEF WriteVerified

\* A new request, of c or of another client.
LEMMA RetriedRequest ==
    ASSUME IInv, NEW c \in Clients, Retried(c), NEW d \in Clients, SetFwAttr(d)
    PROVE  Retried(c)'
  <1> USE DEF modeVars
  <1>1. pc \in [Threads -> Points] /\ c \in Threads /\ d \in Threads
    BY ThreadsDiffer DEF IInv, TypeOK, Points
  <1>2. Goto(d, "settle") \/ Goto(d, "write")
    BY DEF SetFwAttr
  <1>3. pc'[d] \in {"settle", "write"}
        /\ \A u \in Threads \ {d} : pc'[u] = pc[u]
    BY <1>1, <1>2, GotoType DEF Points
  <1>4. CASE c = d
    <2>1. PICK a \in Attrs, v \in Values :
            job' = [job EXCEPT ![c] = [attr |-> a, value |-> v, try |-> 1]]
      BY <1>4 DEF SetFwAttr
    <2>2. job'[c].try = 1
      BY <1>1, <2>1 DEF IInv, TypeOK
    <2>3. QED
      BY <1>3, <1>4, <2>2 DEF SetFwAttr, Retried
  <1>5. CASE c # d
    <2>1. pc'[c] = "idle"
      BY <1>1, <1>3, <1>5, ThreadsDiffer DEF SetFwAttr, IInv, Holders
    <2>2. QED
      BY <2>1 DEF Retried
  <1>6. QED
    BY <1>4, <1>5

\* The worker between two writes.
LEMMA RetriedWorker ==
    ASSUME IInv, NEW c \in Clients, Retried(c),
           \/ WorkerReads \/ WorkerSwaps \/ WorkerLocks \/ WorkerPlans
           \/ WorkerNext \/ WorkerDone \/ WorkerWakes
    PROVE  Retried(c)'
  <1> USE DEF WorkerOnly, modeVars, workerVars
  <1>1. c \in Threads /\ c # Worker /\ Worker \in Threads
    BY ThreadsDiffer
  <1>2. PICK p \in Points : Goto(Worker, p)
    BY DEF WorkerReads, WorkerSwaps, WorkerLocks, WorkerPlans, WorkerNext,
           WorkerDone, WorkerWakes, IterationEnds, Points
  <1>3. pc'[c] = pc[c]
    BY <1>1, <1>2, GotoType DEF IInv, TypeOK, Points
  <1>4. job'[c] = job[c]
    <2>1. job' = job \/ \E j : job' = [job EXCEPT ![Worker] = j]
      BY DEF WorkerReads, WorkerSwaps, WorkerLocks, WorkerPlans, WorkerNext,
             WorkerDone, WorkerWakes
    <2>2. QED
      BY <1>1, <2>1 DEF IInv, TypeOK
  <1>5. /\ limit' = limit /\ mode' = mode /\ fresh' = fresh
        /\ c \in disturbed => c \in disturbed'
    BY <1>1 DEF WorkerReads, WorkerSwaps, WorkerLocks, WorkerPlans, WorkerNext,
                WorkerDone, WorkerWakes
  <1>6. QED
    BY <1>3, <1>4, <1>5, RetriedKeeps

\* The firmware, suspend and a restart: a mode change or a suspend disturbs
\* every client.
LEMMA RetriedMachine ==
    ASSUME NEW c \in Clients, Retried(c),
           \/ SetProfile \/ ModeKey \/ FirmwareSettles
           \/ Suspend \/ Kick \/ Restart
    PROVE  Retried(c)'
  <1> USE DEF ThreadsUnchanged, modeVars
  <1>1. c \in Threads /\ c # Worker
    BY ThreadsDiffer
  <1>2. CASE SetProfile \/ ModeKey \/ Suspend
    <2>1. c \in disturbed'
      BY <1>1, <1>2 DEF SetProfile, ModeKey, ModeChanges, Suspend
    <2>2. QED
      BY <2>1 DEF Retried
  <1>3. CASE FirmwareSettles \/ Kick
    BY <1>3, RetriedKeeps DEF FirmwareSettles, Kick
  <1>4. CASE Restart
    <2>1. pc'[c] = "idle"
      BY <1>1, <1>4 DEF Restart, AtRest
    <2>2. QED
      BY <2>1 DEF Retried
  <1>5. QED
    BY <1>2, <1>3, <1>4

\* A request that met no mode change and no suspend is still in Custom.
RInv == \A c \in Clients : Retried(c)

LEMMA RequestsRetried == Spec => []RInv
  <1>1. Init => RInv
    BY ThreadsDiffer DEF Init, AtRest, RInv, Retried
  <1>2. IInv /\ RInv /\ [Next]_vars => RInv'
    <2> SUFFICES ASSUME IInv, RInv, [Next]_vars, NEW c \in Clients
                 PROVE  Retried(c)'
      BY DEF RInv
    <2> USE DEF RInv
    <2>1. CASE UNCHANGED vars
      BY <2>1, RetriedKeeps DEF vars, modeVars, history
    <2>2. CASE WorkerSteps
      BY <2>2, RetriedWorker, RetriedOther, ThreadsDiffer DEF WorkerSteps
    <2>3. ASSUME NEW d \in Clients, SetFwAttr(d) \/ ClientSteps(d)
          PROVE  Retried(c)'
      BY <2>3, RetriedRequest, RetriedOwn, RetriedOther, ThreadsDiffer
         DEF ClientSteps
    <2>4. QED
      BY <2>1, <2>2, <2>3, RetriedMachine DEF Next
  <1>3. QED
    BY <1>1, <1>2, SavingInvariant, PTL DEF Spec

\* The one retry of write_verified, SETTLE later, is enough: SetFwAttr reports
\* that the firmware did not keep a limit only if the mode changed, or the
\* machine slept, after the request had found the mode to be Custom.
THEOREM OneRetryIsEnough == Spec => NoSpuriousFailure
  <1>1. RInv => \A c \in Clients : VerifyFails(c) => c \in disturbed
    BY DEF RInv, Retried, VerifyFails
  <1>2. QED
    BY <1>1, RequestsRetried, PTL DEF Spec, NoSpuriousFailure
-----------------------------------------------------------------------------
(***************************************************************************)
(* Nothing is forgotten.                                                   *)
(***************************************************************************)

\* What the worker makes of the mode: it knows it, unless the mode has changed
\* since it looked, and carries on only with what it took for Custom.
Sighted ==
    /\ now = mode <=> Worker \notin disturbed
    /\ pc[Worker] \in {"read", "sleep"} => previous = now
    /\ pc[Worker] \in {"wait", "plan", "next"} \cup Writing => now = "custom"

\* The worker writes to a firmware that has settled: in Custom its writes
\* stick, unless the machine sleeps, and then a kick is to come.
Settling ==
    /\ pc[Worker] \in {"plan", "next"} \cup Writing /\ mode = "custom"
         => fresh = "no"
    /\ pc[Worker] = "verify" /\ mode = "custom"
         => Kept(Worker) \/ resuming \/ KICK

\* A request that met a suspend or a mode change ends before the kick for the
\* one, and before the mode is Custom again for the other; any other request
\* has in force what it is about to save.
Met(c) ==
    /\ pc[c] # "idle" /\ c \in disturbed => resuming \/ mode # "custom"
    /\ pc[c] = "save" /\ c \notin disturbed
         => Kept(c) \/ job[c].attr \in unsure

\* A saved limit that is not in force, with no write of it failed or unread.
Owed(a) == saved[a] \notin {Unset, limit[a]} /\ a \notin unsure

\* Somebody has still to write the limit of attribute a: the worker, which is
\* told of it, finds the mode to be Custom anew, or has it on its list; or the
\* client that is at it.
OnItsWay(a) ==
    \/ KICK \/ resuming
    \/ pc[Worker] \in {"read", "swap", "sleep"} /\ previous # "custom"
    \/ pc[Worker] = "swap" /\ now # "custom"
    \/ pc[Worker] \in {"wait", "plan"}
    \/ pc[Worker] \in {"next"} \cup Writing /\ <<a, saved[a]>> \in todo
    \/ \E t \in Threads : pc[t] \in {"save"} \cup Writing /\ job[t].attr = a

Remembered == mode = "custom" => \A a \in Attrs : Owed(a) => OnItsWay(a)

CInv == Sighted /\ Settling /\ (\A c \in Clients : Met(c)) /\ Remembered

LEMMA RememberedInit == Init => CInv
  BY ThreadsDiffer
     DEF Init, AtRest, CInv, Sighted, Settling, Met, Remembered, OnItsWay, Writing

\* Where the threads are after a step of the thread t.
LEMMA StepPoint ==
    ASSUME IInv, NEW t \in Threads, NEW p \in Points, Goto(t, p)
    PROVE  pc'[t] = p /\ \A u \in Threads \ {t} : pc'[u] = pc[u]
  BY GotoType DEF IInv, TypeOK, Points

\* The worker between two writes.
LEMMA RememberedWorker ==
    ASSUME IInv, CInv,
           \/ WorkerReads \/ WorkerSwaps \/ WorkerLocks \/ WorkerPlans
           \/ WorkerNext \/ WorkerDone \/ WorkerWakes
    PROVE  CInv'
  <1> USE DEF WorkerOnly, modeVars, workerVars, CInv
  <1>0. /\ Worker \in Threads /\ Clients \subseteq Threads /\ Worker \notin Clients
        /\ mode \in {"custom", "other"}
        /\ \A p \in Points : Goto(Worker, p) =>
             pc'[Worker] = p /\ \A u \in Threads \ {Worker} : pc'[u] = pc[u]
    BY ThreadsDiffer, StepPoint DEF IInv, TypeOK
  <1>1. CASE WorkerReads
    <2>1. /\ pc[Worker] = "read" /\ pc'[Worker] = "swap"
          /\ \A u \in Threads \ {Worker} : pc'[u] = pc[u]
      BY <1>0, <1>1 DEF WorkerReads, Points
    <2>2. Sighted' /\ Settling'
      BY <1>1, <2>1 DEF WorkerReads, Sighted, Settling, Writing
    <2>3. ASSUME NEW c \in Clients PROVE Met(c)'
      BY <1>0, <1>1, <2>1 DEF WorkerReads, Met, Kept
    <2>4. Remembered'
      BY <1>0, <1>1, <2>1 DEF WorkerReads, Remembered, Owed, OnItsWay, Writing
    <2>5. QED
      BY <2>2, <2>3, <2>4
  <1>2. CASE WorkerSwaps
    <2>0. pc[Worker] = "swap" /\ KICK' = FALSE
      BY <1>2 DEF WorkerSwaps
    <2>1. CASE should_reapply(previous, now, KICK) /\ SavedLimits # {}
      <3>1. /\ pc'[Worker] = "wait" /\ now = "custom" /\ previous' = previous
            /\ \A u \in Threads \ {Worker} : pc'[u] = pc[u]
        BY <1>0, <1>2, <2>1 DEF WorkerSwaps, Points, should_reapply
      <3>2. Sighted' /\ Settling'
        BY <1>2, <2>0, <3>1 DEF WorkerSwaps, Sighted, Settling, Writing
      <3>3. ASSUME NEW c \in Clients PROVE Met(c)'
        BY <1>0, <1>2, <3>1 DEF WorkerSwaps, Met, Kept
      <3>4. Remembered'
        BY <3>1 DEF Remembered, OnItsWay
      <3>5. QED
        BY <3>2, <3>3, <3>4
    <2>2. CASE ~(should_reapply(previous, now, KICK) /\ SavedLimits # {})
      <3>1. /\ pc'[Worker] = "sleep" /\ previous' = now
            /\ \A u \in Threads \ {Worker} : pc'[u] = pc[u]
        BY <1>0, <1>2, <2>2 DEF WorkerSwaps, Points, IterationEnds
      <3>2. Sighted' /\ Settling'
        BY <1>2, <2>0, <3>1 DEF WorkerSwaps, Sighted, Settling, Writing
      <3>3. ASSUME NEW c \in Clients PROVE Met(c)'
        BY <1>0, <1>2, <3>1 DEF WorkerSwaps, Met, Kept
      <3>4. ASSUME mode = "custom", NEW a \in Attrs, Owed(a)
            PROVE  OnItsWay(a)'
        <4>1. OnItsWay(a)
          BY <3>4 DEF Remembered
        <4>2. SavedLimits # {}
          BY <3>4 DEF Owed, SavedLimits
        <4>3. now # "custom" \/ (~KICK /\ previous = "custom")
          BY <2>2, <4>2 DEF should_reapply
        <4>4. CASE now # "custom"
          BY <3>1, <4>4, <1>2 DEF OnItsWay, WorkerSwaps
        <4>5. CASE now = "custom" /\ ~KICK /\ previous = "custom"
          <5>1. resuming \/ \E t \in Threads : pc[t] \in {"save"} \cup Writing
                                              /\ job[t].attr = a
            BY <2>0, <4>1, <4>5 DEF OnItsWay, Writing
          <5>2. \A t \in Threads : pc[t] \in {"save"} \cup Writing
                                     => pc'[t] = pc[t]
            BY <2>0, <3>1 DEF Writing
          <5>3. QED
            BY <1>2, <5>1, <5>2 DEF OnItsWay, WorkerSwaps
        <4>6. QED
          BY <4>3, <4>4, <4>5
      <3>5. Remembered'
        BY <1>2, <3>4 DEF Remembered, Owed, WorkerSwaps
      <3>6. QED
        BY <3>2, <3>3, <3>5
    <2>3. QED
      BY <2>1, <2>2
  <1>3. CASE WorkerLocks
    <2>1. CASE mode = "custom"
      <3>1. /\ pc[Worker] = "wait" /\ pc'[Worker] = "plan"
            /\ \A u \in Threads \ {Worker} : pc'[u] = pc[u]
            /\ fresh = "no" \/ Worker \in disturbed
        BY <1>0, <1>3, <2>1 DEF WorkerLocks, Points, Settled
      <3>2. fresh = "no"
        BY <2>1, <3>1 DEF Sighted, Writing
      <3>3. Sighted' /\ Settling'
        BY <1>3, <2>1, <3>1, <3>2 DEF WorkerLocks, Sighted, Settling, Writing
      <3>4. ASSUME NEW c \in Clients PROVE Met(c)'
        BY <1>0, <1>3, <3>1 DEF WorkerLocks, Met, Kept
      <3>5. QED
        BY <3>1, <3>3, <3>4 DEF Remembered, OnItsWay
    <2>2. CASE mode # "custom"
      <3>1. /\ pc'[Worker] = "sleep" /\ previous' = now
            /\ \A u \in Threads \ {Worker} : pc'[u] = pc[u]
        BY <1>0, <1>3, <2>2 DEF WorkerLocks, Points, IterationEnds
      <3>2. Sighted' /\ Settling' /\ Remembered'
        BY <1>3, <2>2, <3>1
           DEF WorkerLocks, Sighted, Settling, Remembered, Writing
      <3>3. ASSUME NEW c \in Clients PROVE Met(c)'
        BY <1>0, <1>3, <3>1 DEF WorkerLocks, Met, Kept
      <3>4. QED
        BY <3>2, <3>3
    <2>3. QED
      BY <2>1, <2>2
  <1>4. CASE WorkerPlans
    <2>1. /\ pc[Worker] = "plan" /\ pc'[Worker] = "next"
          /\ \A u \in Threads \ {Worker} : pc'[u] = pc[u]
      BY <1>0, <1>4 DEF WorkerPlans, Points
    <2>2. Sighted' /\ Settling'
      BY <1>4, <2>1 DEF WorkerPlans, Sighted, Settling, Writing
    <2>3. ASSUME NEW c \in Clients PROVE Met(c)'
      BY <1>0, <1>4, <2>1 DEF WorkerPlans, Met, Kept
    <2>4. PICK unread : todo' = limits_to_write(unread)
      BY <1>4 DEF WorkerPlans
    <2>5. \A a \in Attrs : Owed(a) => <<a, saved[a]>> \in todo'
      BY <2>4 DEF Owed, limits_to_write, SavedLimits
    <2>6. Remembered'
      BY <1>4, <2>1, <2>5 DEF WorkerPlans, Remembered, Owed, OnItsWay
    <2>7. QED
      BY <2>2, <2>3, <2>6
  <1>5. CASE WorkerNext
    <2>1. /\ pc[Worker] = "next" /\ pc'[Worker] = "write"
          /\ \A u \in Threads \ {Worker} : pc'[u] = pc[u]
      BY <1>0, <1>5 DEF WorkerNext, Points
    <2>2. PICK d \in todo :
            /\ job' = [job EXCEPT ![Worker] =
                         [attr |-> d[1], value |-> d[2], try |-> 1]]
            /\ todo' = todo \ {d}
      BY <1>5 DEF WorkerNext
    <2>3. job'[Worker].attr = d[1] /\ \A c \in Clients : job'[c] = job[c]
      BY <1>0, <2>2 DEF IInv, TypeOK
    <2>4. Sighted' /\ Settling'
      BY <1>5, <2>1 DEF WorkerNext, Sighted, Settling, Writing
    <2>5. ASSUME NEW c \in Clients PROVE Met(c)'
      BY <1>0, <1>5, <2>1, <2>3 DEF WorkerNext, Met, Kept
    <2>6. ASSUME mode = "custom", NEW a \in Attrs, Owed(a)
          PROVE  OnItsWay(a)'
      <3>1. OnItsWay(a)
        BY <2>6 DEF Remembered
      <3>2. CASE <<a, saved[a]>> = d
        BY <1>0, <2>1, <2>3, <3>2 DEF OnItsWay, Writing
      <3>3. CASE <<a, saved[a]>> # d
        BY <1>0, <1>5, <2>1, <2>2, <2>3, <3>1, <3>3
           DEF WorkerNext, OnItsWay, Writing
      <3>4. QED
        BY <3>2, <3>3
    <2>7. Remembered'
      BY <1>5, <2>6 DEF WorkerNext, Remembered, Owed
    <2>8. QED
      BY <2>4, <2>5, <2>7
  <1>6. CASE WorkerDone
    <2>1. /\ pc[Worker] = "next" /\ todo = {} /\ pc'[Worker] = "sleep"
          /\ previous' = now
          /\ \A u \in Threads \ {Worker} : pc'[u] = pc[u]
      BY <1>0, <1>6 DEF WorkerDone, Points, IterationEnds
    <2>2. Sighted' /\ Settling'
      BY <1>6, <2>1 DEF WorkerDone, Sighted, Settling, Writing
    <2>3. ASSUME NEW c \in Clients PROVE Met(c)'
      BY <1>0, <1>6, <2>1 DEF WorkerDone, Met, Kept
    <2>4. Remembered'
      BY <1>6, <2>1 DEF WorkerDone, Remembered, Owed, OnItsWay, Writing
    <2>5. QED
      BY <2>2, <2>3, <2>4
  <1>7. CASE WorkerWakes
    <2>1. /\ pc[Worker] = "sleep" /\ pc'[Worker] = "read"
          /\ \A u \in Threads \ {Worker} : pc'[u] = pc[u]
      BY <1>0, <1>7 DEF WorkerWakes, Points
    <2>2. Sighted' /\ Settling'
      BY <1>7, <2>1 DEF WorkerWakes, Sighted, Settling, Writing
    <2>3. ASSUME NEW c \in Clients PROVE Met(c)'
      BY <1>0, <1>7, <2>1 DEF WorkerWakes, Met, Kept
    <2>4. Remembered'
      BY <1>7, <2>1 DEF WorkerWakes, Remembered, Owed, OnItsWay, Writing
    <2>5. QED
      BY <2>2, <2>3, <2>4
  <1>8. QED
    BY <1>1, <1>2, <1>3, <1>4, <1>5, <1>6, <1>7

\* The facts of a step of write_verified: who is at it, on which limit.
LEMMA WriterFacts ==
    ASSUME IInv, NEW t \in Threads, WriteVerified(t)
    PROVE  /\ pc[t] \in Writing /\ job[t].attr \in Attrs
           /\ \A c \in Clients \ {t} : pc[c] = "idle"
           /\ t # Worker => pc[Worker] \in {"read", "swap", "wait", "sleep"}
           /\ t = Worker => saved[job[t].attr] = job[t].value
           /\ \A u \in Threads \ {t} : pc'[u] = pc[u] /\ job'[u] = job[u]
           /\ \A p \in Points : Goto(t, p) => pc'[t] = p
  <1>1. pc[t] \in Writing
    BY DEF WriteVerified, Write, WriteFails, VerifyKept, VerifyUnread,
           VerifyRetry, VerifyFails, Settle, Writing
  <1>2. /\ lock = t /\ job[t] \in Writes
        /\ \A c \in Clients \ {t} : pc[c] = "idle"
        /\ t # Worker => pc[Worker] \notin {"plan", "next"} \cup Writing
    BY <1>1, WriterAlone
  <1>3. pc[Worker] \in {"read", "swap", "wait", "plan", "next", "sleep"} \cup Writing
    BY DEF IInv, Holders
  <1>4. t = Worker => saved[job[t].attr] = job[t].value
    BY <1>1 DEF IInv, WorkerSaved
  <1>5. PICK p \in Points : Goto(t, p)
    BY DEF WriteVerified, Write, WriteFails, VerifyKept, VerifyUnread,
           VerifyRetry, VerifyFails, Settle, Accept, Ends, Points
  <1>6. \A u \in Threads \ {t} : pc'[u] = pc[u]
    BY <1>5, StepPoint
  <1>7. \A u \in Threads \ {t} : job'[u] = job[u]
    <2>1. job' = job \/ (\E j : job' = [job EXCEPT ![t] = j])
          \/ job' = [job EXCEPT ![t].try = 2]
      BY DEF WriteVerified, Write, WriteFails, VerifyKept, VerifyUnread,
             VerifyRetry, VerifyFails, Settle, Accept, Ends
    <2>2. QED
      BY <2>1 DEF IInv, TypeOK
  <1>8. QED
    BY <1>1, <1>2, <1>3, <1>4, <1>6, <1>7, StepPoint DEF Writes

\* The limits the worker writes: one that it leaves behind is in force, or its
\* write failed or went unread, or there is more to come.
LEMMA RememberedWrites ==
    ASSUME IInv, CInv, WriteVerified(Worker)
    PROVE  CInv'
  <1> USE DEF OthersUnchanged, modeVars, kickVars, workerVars, CInv
  <1> DEFINE b == job[Worker].attr
  <1>1. /\ Worker \in Threads /\ Clients \subseteq Threads /\ Worker \notin Clients
        /\ "next" \in Points /\ Writing \subseteq Points
    BY ThreadsDiffer DEF Points, Writing
  <1>2. /\ pc[Worker] \in Writing /\ b \in Attrs
        /\ \A c \in Clients : pc[c] = "idle" /\ pc'[c] = "idle"
        /\ saved[b] = job[Worker].value
        /\ \A p \in Points : Goto(Worker, p) => pc'[Worker] = p
    BY <1>1, WriterFacts
  <1>3. \A c \in Clients : Met(c)'
    BY <1>2 DEF Met
  <1>4. mode = "custom" => fresh = "no"
    BY <1>2 DEF Settling
  <1>5. /\ mode' = mode /\ fresh' = fresh /\ saved' = saved
        /\ KICK' = KICK /\ resuming' = resuming /\ todo' = todo
        /\ previous' = previous /\ now' = now /\ disturbed' = disturbed
    BY DEF WriteVerified, Write, WriteFails, VerifyKept, VerifyUnread,
           VerifyRetry, VerifyFails, Settle
  <1>6. pc'[Worker] \in {"next"} \cup Writing
    BY <1>1, <1>2
       DEF WriteVerified, Write, WriteFails, VerifyKept, VerifyUnread,
           VerifyRetry, VerifyFails, Settle, Accept, Ends, Writing
  <1>7. Sighted'
    BY <1>2, <1>5, <1>6 DEF Sighted, Writing
  <1>8. ASSUME NEW a \in Attrs, mode = "custom", Owed(a)
        PROVE  KICK \/ resuming \/ <<a, saved[a]>> \in todo \/ a = b
    <2>1. OnItsWay(a)
      BY <1>8 DEF Remembered
    <2>2. \A t \in Threads : pc[t] \in {"save"} \cup Writing => t = Worker
      BY <1>2, ThreadsDiffer DEF Writing
    <2>3. QED
      BY <1>2, <2>1, <2>2 DEF OnItsWay, Writing
  <1>9. ASSUME NEW a \in Attrs,
               KICK \/ resuming \/ <<a, saved[a]>> \in todo
                 \/ (a = b /\ pc'[Worker] \in Writing /\ job'[Worker].attr = b)
        PROVE  OnItsWay(a)'
    BY <1>1, <1>5, <1>6, <1>9 DEF OnItsWay
  <1>10. CASE Write(Worker)
    <2>1. /\ pc'[Worker] = "verify" /\ job' = job
          /\ limit' = limit \/ limit' = [limit EXCEPT ![b] = job[Worker].value]
          /\ mode = "custom" /\ fresh = "no" =>
               limit' = [limit EXCEPT ![b] = job[Worker].value]
          /\ unsure' = unsure \ {b}
      BY <1>2, <1>10 DEF Write, Points
    <2>2. \A a \in Attrs \ {b} : limit'[a] = limit[a]
      BY <2>1 DEF IInv, TypeOK
    <2>3. mode = "custom" => Kept(Worker)'
      BY <1>2, <1>4, <2>1 DEF Kept, IInv, TypeOK
    <2>4. Settling'
      BY <1>4, <1>5, <2>1, <2>3 DEF Settling
    <2>5. ASSUME NEW a \in Attrs, mode = "custom", Owed(a)'
          PROVE  OnItsWay(a)'
      <3>1. CASE a = b
        BY <1>9, <2>1, <3>1 DEF Writing
      <3>2. CASE a # b
        BY <1>5, <1>8, <1>9, <2>1, <2>2, <2>5, <3>2 DEF Owed
      <3>3. QED
        BY <3>1, <3>2
    <2>6. QED
      BY <1>3, <1>5, <1>7, <2>4, <2>5 DEF Remembered
  <1>11. CASE VerifyRetry(Worker) \/ Settle(Worker)
    <2>1. /\ pc'[Worker] \in {"settle", "write"} /\ job'[Worker].attr = b
          /\ limit' = limit /\ unsure' = unsure
      <3>1. job' = job \/ job' = [job EXCEPT ![Worker].try = 2]
        BY <1>11 DEF VerifyRetry, Settle
      <3>2. job[Worker] \in Writes
        BY <1>1, <1>2, WriterAlone
      <3>3. [job[Worker] EXCEPT !.try = 2].attr = b
        BY <3>2 DEF Writes
      <3>4. job'[Worker].attr = b
        BY <1>1, <3>1, <3>3 DEF IInv, TypeOK
      <3>5. QED
        BY <1>2, <1>11, <3>4 DEF VerifyRetry, Settle, Points
    <2>2. Settling'
      BY <1>4, <1>5, <2>1 DEF Settling
    <2>3. ASSUME NEW a \in Attrs, mode = "custom", Owed(a)'
          PROVE  OnItsWay(a)'
      BY <1>5, <1>8, <1>9, <2>1, <2>3 DEF Owed, Writing
    <2>4. QED
      BY <1>3, <1>5, <1>7, <2>2, <2>3 DEF Remembered
  <1>12. CASE WriteFails(Worker) \/ VerifyKept(Worker)
                \/ VerifyUnread(Worker) \/ VerifyFails(Worker)
    <2>1. pc'[Worker] = "next" /\ limit' = limit
      BY <1>2, <1>12 DEF WriteFails, VerifyKept, VerifyUnread, VerifyFails,
                         Accept, Ends, Points
    <2>2. unsure' = unsure \/ unsure' = unsure \cup {b}
      BY <1>12 DEF WriteFails, VerifyKept, VerifyUnread, VerifyFails
    <2>3. mode = "custom" => b \in unsure' \/ Kept(Worker) \/ resuming \/ KICK
      BY <1>12 DEF WriteFails, VerifyKept, VerifyUnread, VerifyFails, Settling
    <2>4. Settling'
      BY <1>4, <1>5, <2>1 DEF Settling
    <2>5. ASSUME NEW a \in Attrs, mode = "custom", Owed(a)'
          PROVE  OnItsWay(a)'
      <3>1. Owed(a) /\ a \notin unsure'
        BY <1>5, <2>1, <2>2, <2>5 DEF Owed
      <3>2. a = b => KICK \/ resuming
        BY <1>2, <2>3, <2>5, <3>1 DEF Owed, Kept
      <3>3. QED
        BY <1>8, <1>9, <2>5, <3>1, <3>2
    <2>6. QED
      BY <1>3, <1>5, <1>7, <2>4, <2>5 DEF Remembered
  <1>13. QED
    BY <1>10, <1>11, <1>12 DEF WriteVerified

\* A step of a request that leaves the worker alone, and the limits that are
\* owed in somebody's hands.
LEMMA WorkerAside ==
    ASSUME CInv, NEW c \in Clients, pc'[Worker] = pc[Worker],
           pc'[Worker] \notin {"plan", "next"} \cup Writing,
           UNCHANGED <<modeVars, kickVars, workerVars>>,
           Worker \in disturbed' <=> Worker \in disturbed,
           \A d \in Clients \ {c} : pc'[d] = "idle",
           Met(c)',
           mode = "custom" => \A a \in Attrs : Owed(a)' => OnItsWay(a)'
    PROVE  CInv'
  <1> USE DEF modeVars, kickVars, workerVars, CInv
  <1>1. Sighted' /\ Settling' /\ Remembered'
    BY DEF Sighted, Settling, Remembered, Writing
  <1>2. ASSUME NEW d \in Clients PROVE Met(d)'
    BY DEF Met
  <1>3. QED
    BY <1>1, <1>2

\* What is on its way stays so, if it is not the client that lets it go.
LEMMA StillOnItsWay ==
    ASSUME NEW c \in Clients, NEW a \in Attrs, OnItsWay(a),
           pc'[Worker] = pc[Worker], UNCHANGED <<kickVars, workerVars>>,
           pc[Worker] \notin {"save", "next"} \cup Writing,
           \A d \in Clients \ {c} : pc[d] = "idle",
           pc[c] \in {"save"} \cup Writing /\ job[c].attr = a =>
             KICK \/ resuming
             \/ (pc'[c] \in {"save"} \cup Writing /\ job'[c].attr = a)
    PROVE  OnItsWay(a)'
  <1> USE DEF kickVars, workerVars
  <1>1. \A t \in Threads : pc[t] \in {"save"} \cup Writing => t = c
    BY ThreadsDiffer DEF OnItsWay, Writing
  <1>2. c \in Threads
    BY ThreadsDiffer
  <1>3. QED
    BY <1>1, <1>2 DEF OnItsWay

\* The limit of a request: it is written until it is saved, and lost sight of
\* only where the client is told so after a mode change or a suspend.
LEMMA RememberedOwn ==
    ASSUME IInv, RInv, CInv, NEW c \in Clients, WriteVerified(c)
    PROVE  CInv'
  <1> USE DEF OthersUnchanged, modeVars, kickVars, workerVars
  <1> DEFINE b == job[c].attr
  <1>1. c \in Threads /\ c # Worker /\ Worker \in Threads
    BY ThreadsDiffer
  <1>2. /\ pc[c] \in Writing /\ b \in Attrs
        /\ \A d \in Clients \ {c} : pc[d] = "idle" /\ pc'[d] = "idle"
        /\ pc[Worker] \in {"read", "swap", "wait", "sleep"}
        /\ pc'[Worker] = pc[Worker]
        /\ \A p \in Points : Goto(c, p) => pc'[c] = p
    BY <1>1, WriterFacts, ThreadsDiffer
  <1>3. /\ mode' = mode /\ fresh' = fresh /\ saved' = saved
        /\ KICK' = KICK /\ resuming' = resuming /\ todo' = todo
        /\ previous' = previous /\ now' = now /\ disturbed' = disturbed
    BY DEF WriteVerified, Write, WriteFails, VerifyKept, VerifyUnread,
           VerifyRetry, VerifyFails, Settle
  <1>4. ASSUME NEW a \in Attrs, mode = "custom", Owed(a),
               a = b => KICK \/ resuming
                 \/ (pc'[c] \in {"save"} \cup Writing /\ job'[c].attr = b)
        PROVE  OnItsWay(a)'
    <2>1. OnItsWay(a)
      BY <1>4 DEF CInv, Remembered
    <2>2. pc[Worker] \notin {"save", "next"} \cup Writing
      BY <1>2 DEF Writing
    <2>3. QED
      BY <1>2, <1>3, <1>4, <2>1, <2>2, StillOnItsWay
  <1>5. ASSUME Met(c)', \A a \in Attrs : mode = "custom" /\ Owed(a)' => OnItsWay(a)'
        PROVE  CInv'
    BY <1>2, <1>3, <1>5, WorkerAside DEF Writing
  <1>6. CASE Write(c)
    <2>1. /\ pc'[c] = "verify" /\ job' = job
          /\ limit' = limit \/ limit' = [limit EXCEPT ![b] = job[c].value]
          /\ unsure' = unsure \ {b}
      BY <1>2, <1>6 DEF Write, Points
    <2>2. \A a \in Attrs \ {b} : limit'[a] = limit[a]
      BY <2>1 DEF IInv, TypeOK
    <2>3. Met(c)'
      BY <1>2, <1>3, <2>1 DEF Met, CInv, Writing
    <2>4. ASSUME NEW a \in Attrs, mode = "custom", Owed(a)' PROVE OnItsWay(a)'
      <3>1. CASE a = b
        BY <1>1, <2>1, <3>1 DEF OnItsWay, Writing
      <3>2. CASE a # b
        <4>1. Owed(a)
          BY <1>3, <2>1, <2>2, <2>4, <3>2 DEF Owed
        <4>2. QED
          BY <1>4, <2>4, <3>2, <4>1
      <3>3. QED
        BY <3>1, <3>2
    <2>5. QED
      BY <1>5, <2>3, <2>4
  <1>7. CASE VerifyRetry(c) \/ Settle(c)
    <2>1. /\ pc'[c] \in {"settle", "write"} /\ job'[c].attr = b
          /\ limit' = limit /\ unsure' = unsure
      <3>1. job' = job \/ job' = [job EXCEPT ![c].try = 2]
        BY <1>7 DEF VerifyRetry, Settle
      <3>2. job[c] \in Writes
        BY <1>1, <1>2, WriterAlone
      <3>3. [job[c] EXCEPT !.try = 2].attr = b
        BY <3>2 DEF Writes
      <3>4. job'[c].attr = b
        BY <1>1, <3>1, <3>3 DEF IInv, TypeOK
      <3>5. QED
        BY <1>2, <1>7, <3>4 DEF VerifyRetry, Settle, Points
    <2>2. Met(c)'
      BY <1>2, <1>3, <2>1 DEF Met, CInv, Writing
    <2>3. ASSUME NEW a \in Attrs, mode = "custom", Owed(a)' PROVE OnItsWay(a)'
      BY <1>3, <1>4, <2>1, <2>3 DEF Owed, Writing
    <2>4. QED
      BY <1>5, <2>2, <2>3
  <1>8. CASE VerifyKept(c) \/ VerifyUnread(c)
    <2>1. /\ pc[c] = "verify" /\ pc'[c] = "save" /\ job' = job /\ limit' = limit
          /\ unsure \subseteq unsure'
          /\ Kept(c) \/ b \in unsure'
      BY <1>1, <1>2, <1>8 DEF VerifyKept, VerifyUnread, Accept, Points
    <2>2. Met(c)'
      BY <1>2, <1>3, <2>1 DEF Met, CInv, Writing, Kept
    <2>3. ASSUME NEW a \in Attrs, mode = "custom", Owed(a)' PROVE OnItsWay(a)'
      BY <1>3, <1>4, <2>1, <2>3 DEF Owed
    <2>4. QED
      BY <1>5, <2>2, <2>3
  <1>9. CASE WriteFails(c) \/ VerifyFails(c)
    <2>1. pc'[c] = "idle" /\ limit' = limit
      BY <1>1, <1>2, <1>9 DEF WriteFails, VerifyFails, Ends, Points
    <2>2. unsure' = unsure \/ unsure' = unsure \cup {b}
      BY <1>9 DEF WriteFails, VerifyFails
    <2>3. mode = "custom" => b \in unsure' \/ resuming
      <3>1. CASE WriteFails(c)
        BY <3>1 DEF WriteFails
      <3>2. CASE VerifyFails(c)
        <4>1. c \in disturbed
          BY <3>2 DEF RInv, Retried, VerifyFails
        <4>2. QED
          BY <3>2, <4>1 DEF CInv, Met, VerifyFails
      <3>3. QED
        BY <1>9, <3>1, <3>2
    <2>4. Met(c)'
      BY <2>1 DEF Met
    <2>5. ASSUME NEW a \in Attrs, mode = "custom", Owed(a)' PROVE OnItsWay(a)'
      <3>1. Owed(a) /\ a \notin unsure'
        BY <1>3, <2>1, <2>2, <2>5 DEF Owed
      <3>2. QED
        BY <1>4, <2>3, <2>5, <3>1
    <2>6. QED
      BY <1>5, <2>4, <2>5
  <1>10. QED
    BY <1>6, <1>7, <1>8, <1>9 DEF WriteVerified

LEMMA RememberedSave ==
    ASSUME IInv, CInv, NEW c \in Clients, Save(c)
    PROVE  CInv'
  <1> USE DEF modeVars, kickVars, workerVars, history
  <1> DEFINE b == job[c].attr
  <1>1. c \in Threads /\ c # Worker /\ Worker \in Threads
    BY ThreadsDiffer
  <1>2. /\ pc[c] = "save" /\ Goto(c, "idle")
        /\ saved' = [saved EXCEPT ![b] = job[c].value]
        /\ UNCHANGED <<modeVars, limit, kickVars, workerVars, history>>
    BY <1>1 DEF Save, Ends
  <1>3. /\ b \in Attrs
        /\ \A d \in Clients \ {c} : pc[d] = "idle"
        /\ pc[Worker] \notin {"save", "plan", "next"} \cup Writing
    BY <1>1, <1>2, WriterAlone DEF Writes, IInv, Holders, Writing
  <1>4. pc'[c] = "idle" /\ \A u \in Threads \ {c} : pc'[u] = pc[u]
    BY <1>1, <1>2, StepPoint DEF Points
  <1>5. Met(c)'
    BY <1>4 DEF Met
  <1>6. mode = "custom" => resuming \/ limit[b] = job[c].value \/ b \in unsure
    BY <1>2 DEF CInv, Met, Kept
  <1>7. saved'[b] = job[c].value /\ \A a \in Attrs \ {b} : saved'[a] = saved[a]
    BY <1>2, <1>3 DEF IInv, TypeOK
  <1>8. ASSUME mode = "custom", NEW a \in Attrs, Owed(a)'
        PROVE  OnItsWay(a)'
    <2>1. CASE resuming
      BY <1>2, <2>1 DEF OnItsWay
    <2>2. CASE ~resuming
      <3>1. a # b
        BY <1>2, <1>6, <1>7, <1>8, <2>2 DEF Owed
      <3>2. Owed(a)
        BY <1>2, <1>7, <1>8, <3>1 DEF Owed
      <3>3. OnItsWay(a)
        BY <1>8, <3>2 DEF CInv, Remembered
      <3>4. QED
        BY <1>1, <1>2, <1>3, <1>4, <3>1, <3>3, StillOnItsWay
    <2>3. QED
      BY <2>1, <2>2
  <1>9. \A d \in Clients \ {c} : pc'[d] = "idle"
    BY <1>3, <1>4, ThreadsDiffer
  <1>10. QED
    BY <1>1, <1>2, <1>3, <1>4, <1>5, <1>8, <1>9, WorkerAside

LEMMA RememberedRequest ==
    ASSUME IInv, CInv, NEW c \in Clients, SetFwAttr(c)
    PROVE  CInv'
  <1> USE DEF modeVars, kickVars, workerVars
  <1> DEFINE p == IF fresh = "daemon" THEN "settle" ELSE "write"
  <1>1. c \in Threads /\ c # Worker /\ Worker \in Threads
    BY ThreadsDiffer
  <1>2. /\ pc'[c] = p /\ \A u \in Threads \ {c} : pc'[u] = pc[u]
    BY <1>1, StepPoint DEF SetFwAttr, Points
  <1>3. /\ \A d \in Clients : pc[d] = "idle"
        /\ pc[Worker] \notin {"save", "plan", "next"} \cup Writing
    BY ThreadsDiffer DEF SetFwAttr, IInv, Holders, Writing
  <1>4. Met(c)'
    BY <1>2 DEF SetFwAttr, Met
  <1>5. ASSUME mode = "custom", NEW a \in Attrs, Owed(a)'
        PROVE  OnItsWay(a)'
    <2>1. OnItsWay(a)
      BY <1>5 DEF SetFwAttr, CInv, Remembered, Owed
    <2>2. QED
      BY <1>1, <1>2, <1>3, <2>1, StillOnItsWay DEF SetFwAttr, Writing
  <1>6. \A d \in Clients \ {c} : pc'[d] = "idle"
    BY <1>2, <1>3, ThreadsDiffer
  <1>7. disturbed' = disturbed \ {c}
    BY DEF SetFwAttr
  <1>8. QED
    BY <1>1, <1>2, <1>3, <1>4, <1>5, <1>6, <1>7, WorkerAside DEF SetFwAttr

\* The mode changes when the worker has seen the last change: what it makes of
\* the new mode, it has still to find out.
LEMMA RememberedChange ==
    ASSUME SlowModeChanges, IInv, RInv, CInv, NEW by, ModeChanges(by)
    PROVE  CInv'
  <1> USE DEF ThreadsUnchanged, workerVars, kickVars
  <1>1. Worker \in Threads /\ Clients \subseteq Threads
    BY ThreadsDiffer
  <1>2. /\ Worker \notin disturbed /\ lock \notin disturbed
        /\ disturbed' = Threads
        /\ mode' = IF mode = "custom" THEN "other" ELSE "custom"
        /\ mode \in {"custom", "other"}
    BY DEF ModeChanges, IInv, TypeOK
  <1>3. now = mode /\ now' = now
    BY <1>2 DEF ModeChanges, CInv, Sighted
  <1>4. Sighted'
    BY <1>1, <1>2, <1>3 DEF ModeChanges, CInv, Sighted
  <1>5. mode' = "custom" =>
          pc[Worker] \in {"read", "swap", "sleep"} /\ now = "other"
    BY <1>2, <1>3 DEF CInv, Sighted, IInv, Holders
  <1>6. Settling'
    BY <1>5 DEF ModeChanges, Settling, Writing
  <1>7. ASSUME NEW c \in Clients PROVE Met(c)'
    <2>1. mode' = "custom" => pc[c] = "idle"
      BY <1>2 DEF RInv, Retried, IInv, Holders
    <2>2. QED
      BY <1>1, <1>2, <2>1 DEF ModeChanges, Met
  <1>8. Remembered'
    BY <1>5 DEF ModeChanges, CInv, Sighted, Remembered, OnItsWay
  <1>9. QED
    BY <1>4, <1>6, <1>7, <1>8 DEF CInv

\* The rest of what the machine does: a suspend has a kick to come, a kick is
\* one, and a daemon that starts again does not know the mode.
LEMMA RememberedMachine ==
    ASSUME IInv, CInv, FirmwareSettles \/ Suspend \/ Kick \/ Restart
    PROVE  CInv'
  <1> USE DEF ThreadsUnchanged, modeVars, workerVars, kickVars
  <1>1. Worker \in Threads /\ Clients \subseteq Threads /\ Worker \notin Clients
    BY ThreadsDiffer
  <1>2. CASE FirmwareSettles
    BY <1>2 DEF FirmwareSettles, CInv, Sighted, Settling, Met, Kept, Remembered,
                Owed, OnItsWay
  <1>3. CASE Suspend
    <2>1. Sighted' /\ Settling' /\ Remembered'
      BY <1>1, <1>3 DEF Suspend, CInv, Sighted, Settling, Remembered, OnItsWay
    <2>2. ASSUME NEW c \in Clients PROVE Met(c)'
      BY <1>3 DEF Suspend, Met
    <2>3. QED
      BY <2>1, <2>2 DEF CInv
  <1>4. CASE Kick
    <2>1. Sighted' /\ Settling' /\ Remembered'
      BY <1>4 DEF Kick, CInv, Sighted, Settling, Remembered, OnItsWay
    <2>2. ASSUME NEW c \in Clients PROVE Met(c)'
      BY <1>4 DEF Kick, ResumeSettled, CInv, Met, Kept, IInv, Holders
    <2>3. QED
      BY <2>1, <2>2 DEF CInv
  <1>5. CASE Restart
    <2>1. pc'[Worker] = "read" /\ \A c \in Clients : pc'[c] = "idle"
      BY <1>1, <1>5 DEF Restart, AtRest
    <2>2. /\ previous' = "unknown" /\ now' = "unknown"
          /\ disturbed' = {Worker} /\ mode' # "unknown"
      BY <1>5 DEF Restart, IInv, TypeOK
    <2>3. Sighted' /\ Settling' /\ Remembered'
      BY <2>1, <2>2 DEF Sighted, Settling, Remembered, OnItsWay, Writing
    <2>4. ASSUME NEW c \in Clients PROVE Met(c)'
      BY <2>1 DEF Met
    <2>5. QED
      BY <2>3, <2>4 DEF CInv
  <1>6. QED
    BY <1>2, <1>3, <1>4, <1>5
-----------------------------------------------------------------------------
\* With modes that last until they are seen, a limit that is saved and not in
\* force is on somebody's way in every reachable state, but after a failed or
\* unread write.
THEOREM OwedLimitsAreOnTheirWay ==
    ASSUME SlowModeChanges
    PROVE  Spec => []CInv
  <1>1. IInv /\ RInv /\ CInv /\ [Next]_vars => CInv'
    <2> SUFFICES ASSUME IInv, RInv, CInv, [Next]_vars PROVE CInv'
      OBVIOUS
    <2>1. CASE UNCHANGED vars
      BY <2>1 DEF vars, modeVars, kickVars, workerVars, history, CInv, Sighted,
                  Settling, Met, Kept, Remembered, Owed, OnItsWay
    <2>2. CASE WorkerSteps
      BY <2>2, RememberedWorker, RememberedWrites DEF WorkerSteps
    <2>3. ASSUME NEW c \in Clients, SetFwAttr(c) \/ ClientSteps(c)
          PROVE  CInv'
      BY <2>3, RememberedRequest, RememberedOwn, RememberedSave DEF ClientSteps
    <2>4. CASE SetProfile \/ ModeKey
      BY <2>4, SlowModeChanges, RememberedChange DEF SetProfile, ModeKey
    <2>5. QED
      BY <2>1, <2>2, <2>3, <2>4, RememberedMachine DEF Next
  <1>2. QED
    BY <1>1, RememberedInit, SavingInvariant, RequestsRetried, PTL DEF Spec

\* A worker that sleeps in Custom, with no kick to come and WRITE_LOCK free,
\* has every saved limit in force, but after a failed or unread write: for any
\* attributes, values, clients and order of mode changes, suspends and
\* restarts, if a mode lasts until the worker has seen it.
THEOREM WorkerForgetsNothing ==
    ASSUME SlowModeChanges
    PROVE  Spec => []NothingForgotten
  <1>1. IInv /\ CInv => NothingForgotten
    <2> SUFFICES ASSUME IInv, CInv, NEW a \in SavedLimits \ unsure,
                        pc[Worker] = "sleep", previous = "custom",
                        mode = "custom", ~KICK, ~resuming, lock = Nobody
                 PROVE  limit[a] = saved[a]
      BY DEF NothingForgotten
    <2>1. \A t \in Threads : pc[t] \notin {"save"} \cup Writing
      BY ThreadsDiffer DEF IInv, Holders, Writing
    <2>2. ~OnItsWay(a)
      BY <2>1 DEF OnItsWay, Writing
    <2>3. a \in Attrs /\ saved[a] # Unset /\ a \notin unsure
      BY DEF SavedLimits
    <2>4. QED
      BY <2>2, <2>3 DEF CInv, Remembered, Owed
  <1>2. QED
    BY <1>1, SavingInvariant, OwedLimitsAreOnTheirWay, PTL
=============================================================================
