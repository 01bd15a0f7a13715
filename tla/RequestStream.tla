---------------------------- MODULE RequestStream ----------------------------
(***************************************************************************)
(* The request stream and its shared consumer as NatsQueue configures them *)
(* (message_queue/implementations/nats_queue.py): ensure_topic_exists      *)
(* makes a stream with limits retention that keeps the last max_msgs       *)
(* messages, acknowledged or not, and discards older ones; subscribe makes *)
(* one durable pull consumer for all replicas with max_ack_pending, and a  *)
(* pull loop per replica that starts one handler per message.              *)
(*                                                                         *)
(* AsyncWorker models what a handler does with a message; this module      *)
(* models which messages reach a handler at all.  A message is its         *)
(* sequence number in the stream.                                          *)
(***************************************************************************)
EXTENDS Integers, FiniteSets

CONSTANTS
    Workers,        \* the replicas
    MaxPosted,      \* bound: how many requests are published
    MaxMsgs,        \* max_msgs of the stream (nats_queue.py:207), 2 by default
    MaxConcurrent,  \* max_concurrent: max_ack_pending and the semaphore
    Faults,         \* which faults happen
    MaxFaults       \* bound: how many of them

FaultKind == {
    "crash",      \* a replica dies
    "shutdown",   \* a replica is interrupted
    "raise",      \* a handler raises
    "heartbeat"}  \* ack_wait elapses under a running handler

ASSUME StreamAssumption ==
    /\ MaxPosted \in Nat /\ MaxFaults \in Nat
    /\ MaxMsgs \in Nat \ {0} /\ MaxConcurrent \in Nat \ {0}
    /\ Faults \subseteq FaultKind

Message  == 1..MaxPosted
Delivery == Message \X (1..MaxFaults + 1)

VARIABLES
    last,       \* sequence number of the newest request published
    cursor,     \* the consumer has delivered up to here
    ackPending, \* delivered and not acknowledged, as the consumer counts
    due,        \* of these, the ones to deliver again
    acked,      \* acknowledged
    naked,      \* the handler raised, and no delivery since
    nth,        \* [Message]: deliveries so far
    handlers,   \* [Workers]: running handler_with_heartbeat tasks
    pulling,    \* [Workers]: is the pull loop inside "async with semaphore"?
    permits,    \* [Workers]: what the semaphore has left
    phase,      \* [Workers]: "running", "stopping" or "stopped"
    budget,     \* faults left
    met         \* the kinds of fault met so far

faultVars    == <<budget, met>>
consumerVars == <<cursor, ackPending, due, acked, naked, nth>>
clientVars   == <<handlers, pulling, permits, phase>>
streamVars   == <<last, consumerVars, clientVars, faultVars>>

TypeOK ==
    /\ last       \in 0..MaxPosted
    /\ cursor     \in 0..last
    /\ ackPending \subseteq 1..cursor
    /\ due        \subseteq ackPending
    /\ acked      \subseteq 1..cursor
    /\ naked      \subseteq 1..cursor
    /\ nth        \in [Message -> 0..MaxFaults + 1]
    /\ handlers   \in [Workers -> SUBSET Delivery]
    /\ pulling    \in [Workers -> BOOLEAN]
    /\ permits    \in [Workers -> 0..MaxConcurrent]
    /\ phase      \in [Workers -> {"running", "stopping", "stopped"}]
    /\ budget     \in 0..MaxFaults
    /\ met        \subseteq Faults

Init ==
    /\ last = 0 /\ cursor = 0
    /\ ackPending = {} /\ due = {} /\ acked = {} /\ naked = {}
    /\ nth      = [n \in Message |-> 0]
    /\ handlers = [w \in Workers |-> {}]
    /\ pulling  = [w \in Workers |-> FALSE]
    /\ permits  = [w \in Workers |-> MaxConcurrent]
    /\ phase    = [w \in Workers |-> "running"]
    /\ budget   = MaxFaults /\ met = {}

\* The stream keeps the last MaxMsgs messages, whatever became of them.
InStream(n) == n \in 1..last /\ n > last - MaxMsgs
Handled(n)  == \E w \in Workers : \E h \in handlers[w] : h[1] = n

Fault(kind) ==
    /\ kind \in Faults /\ budget > 0
    /\ budget' = budget - 1
    /\ met' = met \cup {kind}

Publish ==
    /\ last < MaxPosted
    /\ last' = last + 1
    /\ UNCHANGED <<consumerVars, clientVars, faultVars>>

\* "async with semaphore", then fetch(1) is sent.  A replica that shuts down
\* waits for its handlers first and cancels this loop last.
Pull(w) ==
    /\ phase[w] # "stopped" /\ ~pulling[w] /\ permits[w] > 0
    /\ pulling' = [pulling EXCEPT ![w] = TRUE]
    /\ permits' = [permits EXCEPT ![w] = @ - 1]
    /\ UNCHANGED <<last, consumerVars, handlers, phase, faultVars>>

\* A wrong pull loop: the permit is not given back.
StartKeepingPermit(w, n) ==
    /\ handlers' = [handlers EXCEPT ![w] = @ \cup {<<n, nth[n] + 1>>}]
    /\ nth'      = [nth EXCEPT ![n] = @ + 1]
    /\ pulling'  = [pulling EXCEPT ![w] = FALSE]
    /\ UNCHANGED permits

\* The loop gets message n: a task is created for it, and the permit goes
\* back at once, while the task runs.
Start(w, n) ==
    /\ handlers' = [handlers EXCEPT ![w] = @ \cup {<<n, nth[n] + 1>>}]
    /\ nth'      = [nth EXCEPT ![n] = @ + 1]
    /\ pulling'  = [pulling EXCEPT ![w] = FALSE]
    /\ permits'  = [permits EXCEPT ![w] = @ + 1]

\* A wrong limit: the server does not look at max_ack_pending.
SendNewUnlimited(n) ==
    /\ InStream(n) /\ n > cursor
    /\ \A m \in cursor + 1..n - 1 : ~InStream(m)
    /\ cursor' = n
    /\ ackPending' = ackPending \cup {n}
    /\ UNCHANGED <<due, naked>>

\* The server answers a fetch with the first message never delivered, if
\* fewer than max_ack_pending wait for their acknowledgement.
SendNew(n) ==
    /\ Cardinality(ackPending) < MaxConcurrent
    /\ InStream(n) /\ n > cursor
    /\ \A m \in cursor + 1..n - 1 : ~InStream(m)
    /\ cursor' = n
    /\ ackPending' = ackPending \cup {n}
    /\ UNCHANGED <<due, naked>>

\* ... or with one that is due again.
SendAgain(n) ==
    /\ n \in due /\ InStream(n)
    /\ due' = due \ {n}
    /\ naked' = naked \ {n}
    /\ UNCHANGED <<cursor, ackPending>>

Deliver(w) ==
    /\ pulling[w]
    /\ \E n \in Message : (SendNew(n) \/ SendAgain(n)) /\ Start(w, n)
    /\ UNCHANGED <<last, acked, phase, faultVars>>

\* A wrong server: a message that left the stream keeps its place among the
\* unacknowledged.
ForgetNothing(n) == n = 0 /\ UNCHANGED streamVars

\* A message due again that has left the stream is not delivered any more.
Forget(n) ==
    /\ n \in due /\ ~InStream(n)
    /\ due' = due \ {n}
    /\ ackPending' = ackPending \ {n}
    /\ UNCHANGED <<last, cursor, acked, naked, nth, clientVars, faultVars>>

\* fetch() times out after five seconds; the loop goes round.
PullTimeout(w) ==
    /\ pulling[w]
    /\ pulling' = [pulling EXCEPT ![w] = FALSE]
    /\ permits' = [permits EXCEPT ![w] = @ + 1]
    /\ UNCHANGED <<last, consumerVars, handlers, phase, faultVars>>

Ends(w, h) == handlers' = [handlers EXCEPT ![w] = @ \ {h}]

\* The handler returned: ack().
Ack(w, h) ==
    /\ h \in handlers[w]
    /\ Ends(w, h)
    /\ acked' = acked \cup {h[1]}
    /\ ackPending' = ackPending \ {h[1]}
    /\ due' = due \ {h[1]}
    /\ UNCHANGED <<last, cursor, naked, nth, pulling, permits, phase, faultVars>>

\* A wrong server: a nak makes a message due that was acknowledged meanwhile.
NakAnyway(w, h) ==
    /\ h \in handlers[w]
    /\ Fault("raise")
    /\ Ends(w, h)
    /\ due' = due \cup {h[1]} /\ naked' = naked \cup {h[1]}
    /\ ackPending' = ackPending \cup {h[1]}
    /\ UNCHANGED <<last, cursor, acked, nth, pulling, permits, phase>>

\* The handler raised: nak(), which makes an unacknowledged message due.
Nak(w, h) ==
    /\ h \in handlers[w]
    /\ Fault("raise")
    /\ Ends(w, h)
    /\ due' = due \cup ({h[1]} \cap ackPending)
    /\ naked' = naked \cup ({h[1]} \cap ackPending)
    /\ UNCHANGED <<last, cursor, ackPending, acked, nth, pulling, permits, phase>>

\* A wrong server side: ack_wait elapses although a handler heartbeats.
AckWaitIgnoresHeartbeat(n) ==
    /\ n \in ackPending \ due
    /\ due' = due \cup {n}
    /\ UNCHANGED <<last, cursor, ackPending, acked, naked, nth, clientVars, faultVars>>

\* ack_wait elapses once nobody sends heartbeats for the message.
AckWaitElapses(n) ==
    /\ n \in ackPending \ due
    /\ ~Handled(n)
    /\ due' = due \cup {n}
    /\ UNCHANGED <<last, cursor, ackPending, acked, naked, nth, clientVars, faultVars>>

\* The heartbeat task died of an exception; the handler goes on.
HeartbeatLost(n) ==
    /\ n \in ackPending \ due
    /\ Handled(n)
    /\ Fault("heartbeat")
    /\ due' = due \cup {n}
    /\ UNCHANGED <<last, cursor, ackPending, acked, naked, nth, clientVars>>

\* The process ends with its handlers, which neither ack nor nak.  Nobody
\* reads the answer of a fetch that was under way: drain() is not called.
Gone(w) ==
    /\ phase'    = [phase EXCEPT ![w] = "stopped"]
    /\ handlers' = [handlers EXCEPT ![w] = {}]
    /\ pulling'  = [pulling EXCEPT ![w] = FALSE]
    /\ permits'  = [permits EXCEPT ![w] = MaxConcurrent]
    /\ \/ UNCHANGED <<cursor, ackPending, due, naked>>
       \/ pulling[w] /\ \E n \in Message : SendNew(n) \/ SendAgain(n)
    /\ UNCHANGED <<last, acked, nth>>

Crash(w) == phase[w] # "stopped" /\ Fault("crash") /\ Gone(w)

\* SIGINT cancels run() and _graceful_shutdown begins: it waits for the
\* handlers that run now, ten seconds at most, while the pull loop goes on.
Interrupt(w) ==
    /\ phase[w] = "running"
    /\ Fault("shutdown")
    /\ phase' = [phase EXCEPT ![w] = "stopping"]
    /\ UNCHANGED <<last, consumerVars, handlers, pulling, permits>>

\* The wait is over, or there was none (DEBUG, no handlers, or a Python that
\* cancels every task at once): what still runs is cancelled.  close()
\* awaits the cancelled pull loop, whose CancelledError ends the process.
Exit(w) == phase[w] = "stopping" /\ Gone(w) /\ UNCHANGED faultVars

\* run(): connects, checks its health, ensures the streams, subscribes.  If
\* one of them fails the replica is still not there.
Restart(w) ==
    /\ phase[w] = "stopped"
    /\ phase' = [phase EXCEPT ![w] = "running"]
    /\ UNCHANGED <<last, consumerVars, handlers, pulling, permits, faultVars>>

Loop(w) == Pull(w) \/ Deliver(w)
Handler(w) == \E h \in handlers[w] : Ack(w, h) \/ Nak(w, h)

Next ==
    \/ Publish
    \/ \E w \in Workers : Loop(w) \/ PullTimeout(w) \/ Handler(w)
                       \/ Crash(w) \/ Interrupt(w) \/ Exit(w) \/ Restart(w)
    \/ \E n \in Message : Forget(n) \/ AckWaitElapses(n) \/ HeartbeatLost(n)

\* The pull loop of a running replica goes round (a delivery may be missed by
\* a fetch that times out, not for ever), every handler ends, the server
\* looks after its timers.  Nobody restarts a replica.
Fairness ==
    /\ \A w \in Workers : /\ WF_streamVars(Pull(w))
                          /\ SF_streamVars(Deliver(w))
                          /\ WF_streamVars(Handler(w))
    /\ \A n \in Message : WF_streamVars(Forget(n)) /\ WF_streamVars(AckWaitElapses(n))

Spec     == Init /\ [][Next]_streamVars
FairSpec == Spec /\ Fairness

-----------------------------------------------------------------------------
Running == UNION {{<<w, h>> : h \in handlers[w]} : w \in Workers}

\* The consumer's max_ack_pending bounds the handlers of all replicas
\* together, through raises, crashes and evictions, as long as heartbeats
\* keep deliveries unique: the semaphore, whose permit goes back when the
\* task starts, has no part in it.
FleetBounded == "heartbeat" \notin met => Cardinality(Running) <= MaxConcurrent

\* As long as heartbeats arrive no message is handled twice at a time, and
\* the message of a running handler is still counted and not due.
OneHandlerPerMessage == "heartbeat" \notin met =>
    /\ \A x, y \in Running : x[2][1] = y[2][1] => x = y
    /\ \A x \in Running : x[2][1] \in ackPending \ due

\* The consumer loses nothing: what it has gone past and does not count is
\* acknowledged, or the stream has discarded it.
ForgetsOnlyEvicted ==
    \A n \in 1..cursor : InStream(n) => n \in acked \cup ackPending

SomeReplicaStays == <>[](\E w \in Workers : phase[w] = "running")

\* While some replica keeps running, a place among the unacknowledged comes
\* back: after any fault, and for a message the stream has discarded too.
PlacesComeBack == SomeReplicaStays =>
    \A n \in Message : n \in ackPending ~> n \notin ackPending

\* While some replica keeps running, a request is finally acknowledged, after
\* raises, crashes and lost heartbeats, unless newer ones have pushed it out
\* of the stream.
EveryRequestHandled == SomeReplicaStays =>
    \A n \in Message : n <= last ~> n \in acked \/ ~InStream(n)

\* What WorkQueue sees of a message, posted or not, and of the handlers.
Standing == [n \in Message |-> IF n \in acked THEN "acked"
                              ELSE IF n \in ackPending \ due
                                   THEN "outstanding" ELSE "pending"]
UnderWay == UNION {handlers[w] : w \in Workers}

\* Seen from the handlers, the stream and its consumer are WorkQueue: however
\* replicas pull, stop and share the consumer, and whatever the stream
\* discards, a handler is started for a message that is not acknowledged and
\* not under way, a nak brings back only such a message, and a redelivery
\* under a running handler takes a lost heartbeat.
Queue == INSTANCE WorkQueue WITH
    Messages  <- Message,
    msg       <- Standing,
    delivered <- nth,
    running   <- UnderWay,
    deaf      <- "heartbeat" \in met
ServesAsQueue == Queue!Spec

\* A handler that raised sees its message again: "NAK при ошибке (сообщение
\* вернётся в очередь)" (nats_queue.py:96).  False: see the run
\* stream_nak_evicted.
NakComesBack == \A n \in naked : InStream(n)
=============================================================================
