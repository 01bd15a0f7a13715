----------------------------- MODULE AsyncWorker -----------------------------
(***************************************************************************)
(* The asynchronous transcription worker                                   *)
(* (transcribator-services/async): NatsQueue.subscribe hands each request  *)
(* of the durable pull consumer "transcriber-workers" to                   *)
(* MessageHandler.handle_message, which guards the job with a Redis lock   *)
(* whose key doubles as the 'done' marker, publishes responses, and stores *)
(* result.json.  Several replicas share the consumer, Redis and storage.   *)
(*                                                                         *)
(* An attempt <<j, n>> is the n-th delivery of job j's request message: it *)
(* is one run of handler_with_heartbeat, and its identity is the token     *)
(* RedisLock writes to the lock key.                                       *)
(***************************************************************************)
EXTENDS Integers, Sequences

CONSTANTS
    Jobs,        \* the jobs posted; one request message each
    Workers,     \* the replicas sharing the consumer (nats_queue.py:52)
    MaxFaults,   \* bound: how many faults of the environment may happen
    Faults,      \* which kinds of fault the environment may inject
    LockTTL,     \* ttl of the Redis lock, seconds (message_handler.py:118)
    AckWait,     \* ack_wait of the consumer, seconds (nats_queue.py:15)
    Done,        \* the string 'done', as a value of the lock key
    Audio,       \* the client's file, where result.json should be
    StoredAs,    \* what the gateway may leave at {job}/result.json
    None         \* no attempt, no worker, no value

\* Each kind names what may go wrong, once per unit of the fault budget.
FaultKind == {
    "crash",     \* a replica is killed
    "shutdown",  \* a replica cancels its handlers after SHUTDOWN_TIMEOUT
    "lapse",     \* the lock of a running handler expires (extension fails)
    "heartbeat", \* ack_wait elapses under a running handler
    "redis",     \* a Redis call raises, or takes effect but its reply is lost
    "publish",   \* a js.publish raises, with or without the message stored
    "critical",  \* the processing itself raises
    "outage",    \* the 'done' key outlives its hour before a redelivery
    "storage",   \* uploading result.json raises
    "ack"}       \* an ack or a nak does not reach the server

ASSUME BoundAssumption == MaxFaults \in Nat
ASSUME FaultAssumption == Faults \subseteq FaultKind
ASSUME TimeAssumption  == LockTTL \in Nat /\ AckWait \in Nat

\* What handle_message makes of a request: "refused" is too large or without
\* a job id, "crowded" has more than MAX_ALLOWED_FILES files, "flooded" so many
\* that the parser would not take them either, "malformed" does not parse.
RequestKind == {"valid", "malformed", "refused", "crowded", "flooded"}
Unwelcome   == {"refused", "crowded", "flooded"}

Attempt   == Jobs \X (1..MaxFaults + 1)
JobOf(a)  == a[1]
Attempts(j) == {a \in Attempt : JobOf(a) = j}

ASSUME NoneAssumption ==
    /\ None \notin Workers \cup Attempt
    /\ Done \notin Attempt \cup {None}
    /\ Audio \notin Attempt \cup {None}

\* The gateway stores the audio under the client's file name in the directory
\* of the job (Async.go:336): one named result.json lies where the result goes.
ASSUME StoredAssumption == StoredAs \subseteq {None, Audio} /\ StoredAs # {}

Status    == {"in_progress", "completed", "failed"}
Terminal  == {"completed", "failed"}
Response  == [by : Attempt, status : Status]

VARIABLES
    request,    \* [Jobs]: the kind of its request
    msg,        \* [Jobs]: the request at the consumer
    delivered,  \* [Jobs]: how many times it was delivered
    lockKey,    \* [Jobs]: Redis key transcriber:async:{job}:job_lock
    responses,  \* [Jobs]: the job's messages on the response stream, in order
    resultJson, \* [Jobs]: which attempt wrote {job}/result.json, or Audio
    pc,         \* [Attempt]: where the handler is
    host,       \* [Attempt]: the replica it runs on
    ackTask,    \* [Attempt]: its asyncio task _publish_ack
    up,         \* [Workers]: is the replica running?
    budget,     \* faults left
    met         \* the kinds of fault met so far

vars == <<request, msg, delivered, lockKey, responses, resultJson,
          pc, host, ackTask, up, budget, met>>

queueVars  == <<msg, delivered>>
outputVars == <<responses, resultJson>>
taskVars   == <<host, ackTask, up>>
faultVars  == <<budget, met>>

(***************************************************************************)
(* Where a handler can be.  Guarded: inside "with lock_ctx", where the     *)
(* extension task runs.  Running: between delivery and ack/nak, where the  *)
(* heartbeat task runs.                                                    *)
(***************************************************************************)
Guarded == {"recheck", "work", "answer", "confirm", "unconfirmed",
            "excuse", "mark", "unwind", "release"}
Running == Guarded \cup {"refuse", "check", "acquire", "upload", "write",
                         "ack", "nak"}
PC      == Running \cup {"idle", "end"}

\* The awaits at which a cancellation can reach the handler.
Suspended == {"refuse", "work", "confirm", "unconfirmed", "unwind", "ack", "nak"}

InLock(a)    == pc[a] \in Guarded
IsRunning(a) == pc[a] \in Running
Parses(j)    == request[j] \in {"valid", "crowded"}
Quiet(j)     == \A a \in Attempts(j) : ~IsRunning(a)

TypeOK ==
    /\ request    \in [Jobs -> RequestKind]
    /\ msg        \in [Jobs -> {"pending", "outstanding", "acked"}]
    /\ delivered  \in [Jobs -> 0..MaxFaults + 1]
    /\ lockKey    \in [Jobs -> Attempt \cup {None, Done}]
    /\ responses  \in [Jobs -> Seq(Response)]
    /\ resultJson \in [Jobs -> Attempt \cup {None, Audio}]
    /\ pc         \in [Attempt -> PC]
    /\ host       \in [Attempt -> Workers \cup {None}]
    /\ ackTask    \in [Attempt -> {"none", "created", "finished"}]
    /\ up         \in [Workers -> BOOLEAN]
    /\ budget     \in 0..MaxFaults
    /\ met        \subseteq Faults

Init ==
    /\ request    \in [Jobs -> RequestKind]
    /\ msg        = [j \in Jobs |-> "pending"]
    /\ delivered  = [j \in Jobs |-> 0]
    /\ lockKey    = [j \in Jobs |-> None]
    /\ responses  = [j \in Jobs |-> <<>>]
    /\ resultJson \in [Jobs -> StoredAs]
    /\ pc         = [a \in Attempt |-> "idle"]
    /\ host       = [a \in Attempt |-> None]
    /\ ackTask    = [a \in Attempt |-> "none"]
    /\ up         = [w \in Workers |-> TRUE]
    /\ budget     = MaxFaults
    /\ met        = {}

-----------------------------------------------------------------------------
(* Helpers of the actions.                                                 *)

Goto(a, from, to) == pc[a] = from /\ pc' = [pc EXCEPT ![a] = to]

CanFail(kind) == kind \in Faults /\ budget > 0
Fault(kind)   == /\ CanFail(kind)
                 /\ budget' = budget - 1
                 /\ met' = met \cup {kind}
NoFault       == UNCHANGED faultVars

Publish(a, status) ==
    responses' = [responses EXCEPT ![JobOf(a)] =
                     Append(@, [by |-> a, status |-> status])]

\* js.publish: stored and confirmed.
Confirmed(a, status) == Publish(a, status) /\ NoFault
\* js.publish raises: the server may or may not have stored the message.
Unsent(a, status) ==
    Fault("publish") /\ (Publish(a, status) \/ UNCHANGED responses)

\* A wrong release: DEL without comparing the token.
UnlockAnyToken(a) ==
    lockKey' = [lockKey EXCEPT ![JobOf(a)] = None] /\ NoFault

\* LockContext.__exit__: RedisLock.release deletes the key only if it still
\* holds this attempt's token; any error is swallowed.
Unlock(a) ==
    \/ /\ lockKey' = [lockKey EXCEPT ![JobOf(a)] = IF @ = a THEN None ELSE @]
       /\ NoFault
    \/ Fault("redis") /\ UNCHANGED lockKey
-----------------------------------------------------------------------------
(* NatsQueue.subscribe: delivery, acknowledgement, redelivery.             *)

\* pull_loop fetches a message; handler_with_heartbeat starts the handler,
\* which first validates size, file count and job id.
Fetch(w, j) ==
    LET a == <<j, delivered[j] + 1>> IN
    /\ up[w]
    /\ msg[j] = "pending"
    /\ delivered[j] <= MaxFaults
    /\ msg'       = [msg EXCEPT ![j] = "outstanding"]
    /\ delivered' = [delivered EXCEPT ![j] = @ + 1]
    /\ host'      = [host EXCEPT ![a] = w]
    /\ pc'        = [pc EXCEPT ![a] =
                        IF request[j] \in Unwelcome THEN "refuse" ELSE "check"]
    /\ UNCHANGED <<request, lockKey, outputVars, ackTask, up, faultVars>>

\* The handler returned: msg.ack(), and the heartbeat stops.
AckMsg(a) ==
    /\ Goto(a, "ack", "end")
    /\ \/ msg' = [msg EXCEPT ![JobOf(a)] = "acked"] /\ NoFault
       \/ Fault("ack") /\ UNCHANGED msg
    /\ UNCHANGED <<request, delivered, lockKey, outputVars, taskVars>>

\* The handler raised: msg.nak() puts an unacknowledged message back.
NakMsg(a) ==
    /\ Goto(a, "nak", "end")
    /\ \/ /\ msg' = [msg EXCEPT ![JobOf(a)] =
                        IF @ = "outstanding" THEN "pending" ELSE @]
          /\ NoFault
       \/ Fault("ack") /\ UNCHANGED msg
    /\ UNCHANGED <<request, delivered, lockKey, outputVars, taskVars>>

\* A wrong server side: ack_wait elapses whether or not a handler runs, as
\* without heartbeats.
NoHeartbeatAckWaitElapses(j) ==
    /\ msg[j] = "outstanding"
    /\ msg' = [msg EXCEPT ![j] = "pending"]
    /\ UNCHANGED <<request, delivered, lockKey, outputVars, pc, taskVars, faultVars>>

\* No handler of j is left to send heartbeats: the server redelivers after
\* ack_wait.  The last heartbeat is at most ack_wait / 3 older than the last
\* extension of the lock, so a shorter ttl has run out by then.
StaleLockGone(j) ==
    LockTTL < AckWait - AckWait \div 3 => lockKey[j] \notin Attempt

AckWaitElapses(j) ==
    /\ msg[j] = "outstanding"
    /\ Quiet(j)
    /\ StaleLockGone(j)
    /\ msg' = [msg EXCEPT ![j] = "pending"]
    /\ UNCHANGED <<request, delivered, lockKey, outputVars, pc, taskVars, faultVars>>

\* heartbeat() ends at its first exception, and a replica cut off from NATS
\* sends none: the handler goes on, and the server redelivers under it.
HeartbeatLost(j) ==
    /\ msg[j] = "outstanding"
    /\ ~Quiet(j)
    /\ Fault("heartbeat")
    /\ msg' = [msg EXCEPT ![j] = "pending"]
    /\ UNCHANGED <<request, delivered, lockKey, outputVars, pc, taskVars>>

-----------------------------------------------------------------------------
(* MessageHandler.handle_message.                                          *)

\* Too large, too many files, no job id: a 'failed' response and return.
\* The check of the file list swallows an error of the response and goes on.
Refuse(a) ==
    /\ \/ Goto(a, "refuse", "ack") /\ Confirmed(a, "failed")
       \/ /\ Goto(a, "refuse", IF request[JobOf(a)] = "refused" THEN "nak" ELSE "check")
          /\ Unsent(a, "failed")
    /\ UNCHANGED <<request, queueVars, lockKey, resultJson, taskVars>>

\* dict_db.get(lock_key) == Done: skip.  An error of Redis reads as None.
CheckDone(a) ==
    /\ \/ Goto(a, "check", IF lockKey[JobOf(a)] = Done THEN "ack" ELSE "acquire")
          /\ NoFault
       \/ Goto(a, "check", "acquire") /\ Fault("redis")
    /\ UNCHANGED <<request, queueVars, lockKey, outputVars, taskVars>>

\* A wrong acquire: SET without NX.
AcquireWithoutNX(a) ==
    /\ IF lockKey[JobOf(a)] = Done
       THEN Goto(a, "acquire", "ack") /\ UNCHANGED lockKey
       ELSE /\ Goto(a, "acquire", "recheck")
            /\ lockKey' = [lockKey EXCEPT ![JobOf(a)] = a]
    /\ NoFault
    /\ UNCHANGED <<request, queueVars, outputVars, taskVars>>

\* rwlock(lock_key, ttl=15): SET NX of this attempt's token.  Refused, or an
\* error of Redis (even one after the SET): "already locked", return.
Acquire(a) ==
    /\ \/ /\ lockKey[JobOf(a)] = None
          /\ Goto(a, "acquire", "recheck")
          /\ lockKey' = [lockKey EXCEPT ![JobOf(a)] = a]
          /\ NoFault
       \/ /\ lockKey[JobOf(a)] # None
          /\ Goto(a, "acquire", "ack")
          /\ UNCHANGED lockKey /\ NoFault
       \/ /\ Goto(a, "acquire", "ack")
          /\ lockKey' \in {lockKey, [lockKey EXCEPT ![JobOf(a)] =
                                        IF @ = None THEN a ELSE @]}
          /\ Fault("redis")
    /\ UNCHANGED <<request, queueVars, outputVars, taskVars>>

\* Second look under the lock.  If the job is still open the task
\* _publish_ack is created and the request parsed: a malformed one goes
\* straight to its error response, without an await in between.
Recheck(a) ==
    LET proceed == IF Parses(JobOf(a)) THEN "work" ELSE "answer" IN
    /\ \/ /\ lockKey[JobOf(a)] = Done
          /\ Goto(a, "recheck", "ack")
          /\ UNCHANGED ackTask /\ NoFault
       \/ /\ \/ lockKey[JobOf(a)] # Done /\ NoFault
             \/ Fault("redis")
          /\ Goto(a, "recheck", proceed)
          /\ ackTask' = [ackTask EXCEPT ![a] = "created"]
    /\ UNCHANGED <<request, queueVars, lockKey, outputVars, host, up>>

\* The task _publish_ack: it runs once the handler has awaited something,
\* and swallows any error.
PublishInProgress(a) ==
    /\ ackTask[a] = "created"
    /\ pc[a] # "answer"
    /\ Confirmed(a, "in_progress") \/ Unsent(a, "in_progress")
    /\ ackTask' = [ackTask EXCEPT ![a] = "finished"]
    /\ UNCHANGED <<request, queueVars, lockKey, resultJson, pc, host, up>>

\* A wrong order: the processing does not wait for _publish_ack to start.
WorkWithoutAwait(a) ==
    /\ Goto(a, "work", "answer") /\ NoFault
    /\ UNCHANGED <<request, queueVars, lockKey, outputVars, taskVars>>

\* Cleanup, download, transcription, building the response: worker threads
\* are awaited, so _publish_ack has run.  Per-file errors end up in the
\* response; anything else is a critical error.
Work(a) ==
    /\ ackTask[a] = "finished"
    /\ \/ Goto(a, "work", "answer") /\ NoFault
       \/ Goto(a, "work", "excuse") /\ Fault("critical")
    /\ UNCHANGED <<request, queueVars, lockKey, outputVars, taskVars>>

\* The response is sent: 'completed', or 'failed' for a malformed request.
Answer(a) ==
    LET status == IF Parses(JobOf(a)) THEN "completed" ELSE "failed" IN
    /\ \/ Goto(a, "answer", "confirm") /\ Confirmed(a, status)
       \/ Goto(a, "answer", "unconfirmed") /\ Fault("publish") /\ UNCHANGED responses
    /\ UNCHANGED <<request, queueVars, lockKey, resultJson, taskVars>>

\* A wrong flag: job_completed_successfully set before the publish.
ConfirmAnyway(a) ==
    /\ Goto(a, "confirm", "mark") \/ Goto(a, "unconfirmed", "mark")
    /\ NoFault
    /\ UNCHANGED <<request, queueVars, lockKey, outputVars, taskVars>>

\* The await of js.publish returns or raises.  An error of the 'completed'
\* response is a critical error; one of the 'failed' response propagates.
Confirm(a) ==
    LET onError == IF Parses(JobOf(a)) THEN "excuse" ELSE "unwind" IN
    /\ \/ Goto(a, "confirm", "mark") /\ NoFault
       \/ Goto(a, "confirm", onError) /\ Fault("publish")
       \/ Goto(a, "unconfirmed", onError) /\ NoFault
    /\ UNCHANGED <<request, queueVars, lockKey, outputVars, taskVars>>

\* Critical error: a 'failed' response, then raise.
Excuse(a) ==
    /\ Goto(a, "excuse", "unwind")
    /\ Confirmed(a, "failed") \/ Unsent(a, "failed")
    /\ UNCHANGED <<request, queueVars, lockKey, resultJson, taskVars>>

\* A wrong handler: the exception is logged and not raised.
UnwindSwallowed(a) ==
    /\ Goto(a, "unwind", "ack")
    /\ Unlock(a)
    /\ UNCHANGED <<request, queueVars, outputVars, taskVars>>

\* The exception leaves "with lock_ctx".
Unwind(a) ==
    /\ Goto(a, "unwind", "nak")
    /\ Unlock(a)
    /\ UNCHANGED <<request, queueVars, outputVars, taskVars>>

\* Wrong marks: a value nobody compares with, and none at all.
MarkOther(a) ==
    /\ Goto(a, "mark", "release")
    /\ lockKey' = [lockKey EXCEPT ![JobOf(a)] = <<JobOf(a), 0>>] /\ NoFault
    /\ UNCHANGED <<request, queueVars, outputVars, taskVars>>

MarkNothing(a) ==
    /\ Goto(a, "mark", "release") /\ NoFault
    /\ UNCHANGED <<request, queueVars, lockKey, outputVars, taskVars>>

\* dict_db.set(lock_key, Done): an unconditional SETEX; an error is dropped.
MarkDone(a) ==
    /\ Goto(a, "mark", "release")
    /\ \/ lockKey' = [lockKey EXCEPT ![JobOf(a)] = Done] /\ NoFault
       \/ Fault("redis") /\ UNCHANGED lockKey
    /\ UNCHANGED <<request, queueVars, outputVars, taskVars>>

Release(a) ==
    /\ Goto(a, "release", IF Parses(JobOf(a)) THEN "upload" ELSE "ack")
    /\ Unlock(a)
    /\ UNCHANGED <<request, queueVars, outputVars, taskVars>>

\* upload_result_json, outside the lock: first exists(), which takes the
\* client's file for the result ...
Upload(a) ==
    /\ \/ Goto(a, "upload", IF resultJson[JobOf(a)] = None THEN "write" ELSE "ack")
          /\ NoFault
       \/ Goto(a, "upload", "ack") /\ Fault("storage")
    /\ UNCHANGED <<request, queueVars, lockKey, outputVars, taskVars>>

\* ... then write a temporary file and rename it over the target.
WriteResult(a) ==
    /\ Goto(a, "write", "ack")
    /\ \/ resultJson' = [resultJson EXCEPT ![JobOf(a)] = a] /\ NoFault
       \/ Fault("storage") /\ UNCHANGED resultJson
    /\ UNCHANGED <<request, queueVars, lockKey, responses, taskVars>>

-----------------------------------------------------------------------------
(* Redis forgets keys; replicas stop and start.                            *)

\* A wrong lock: a token without ttl.
LockWithoutTTL(j) == FALSE /\ UNCHANGED vars

\* The ttl of a token nobody extends runs out.
LockExpires(j) ==
    /\ lockKey[j] \in Attempt
    /\ ~InLock(lockKey[j])
    /\ lockKey' = [lockKey EXCEPT ![j] = None]
    /\ UNCHANGED <<request, queueVars, outputVars, pc, taskVars, faultVars>>

\* It runs out under its holder: the extensions failed for LockTTL seconds.
LockLapses(j) ==
    /\ lockKey[j] \in Attempt
    /\ InLock(lockKey[j])
    /\ Fault("lapse")
    /\ lockKey' = [lockKey EXCEPT ![j] = None]
    /\ UNCHANGED <<request, queueVars, outputVars, pc, taskVars>>

\* The marker's 3600 seconds are over (and not between the set and the
\* release of one handler, which has no await in between).
DoneExpires(j) ==
    /\ lockKey[j] = Done
    /\ \A a \in Attempts(j) : pc[a] # "release"
    /\ Fault("outage")
    /\ lockKey' = [lockKey EXCEPT ![j] = None]
    /\ UNCHANGED <<request, queueVars, outputVars, pc, taskVars>>

On(w) == {a \in Attempt : host[a] = w /\ IsRunning(a)}

\* Every handler and task of the replica is gone.
Stop(w) ==
    /\ up[w]
    /\ up' = [up EXCEPT ![w] = FALSE]
    /\ pc' = [a \in Attempt |-> IF a \in On(w) THEN "end" ELSE pc[a]]
    /\ ackTask' = [a \in Attempt |->
                      IF host[a] = w /\ ackTask[a] = "created"
                      THEN "finished" ELSE ackTask[a]]
    /\ UNCHANGED <<request, queueVars, outputVars, host>>

Crash(w) ==
    /\ Fault("crash")
    /\ Stop(w)
    /\ UNCHANGED lockKey

\* The handlers are cancelled: by _graceful_shutdown after SHUTDOWN_TIMEOUT,
\* or (Python 3.10, that of the Dockerfile) by Ctrl-C at once.  Each leaves
\* its await with CancelledError, which "except Exception" does not catch:
\* the lock is released, nothing is marked, acked or nacked.
Shutdown(w) ==
    /\ Fault("shutdown")
    /\ \A a \in On(w) : pc[a] \in Suspended
    /\ Stop(w)
    /\ lockKey' = [j \in Jobs |->
                      IF lockKey[j] \in On(w) /\ InLock(lockKey[j])
                      THEN None ELSE lockKey[j]]

Restart(w) ==
    /\ ~up[w]
    /\ up' = [up EXCEPT ![w] = TRUE]
    /\ UNCHANGED <<request, queueVars, lockKey, outputVars, pc, host, ackTask, faultVars>>

-----------------------------------------------------------------------------
Handle(a) ==
    \/ Refuse(a) \/ CheckDone(a) \/ Acquire(a) \/ Recheck(a) \/ Work(a)
    \/ Answer(a) \/ Confirm(a) \/ Excuse(a) \/ Unwind(a) \/ MarkDone(a)
    \/ Release(a) \/ Upload(a) \/ WriteResult(a) \/ AckMsg(a) \/ NakMsg(a)

Next ==
    \/ \E a \in Attempt : Handle(a) \/ PublishInProgress(a)
    \/ \E j \in Jobs : \/ AckWaitElapses(j) \/ HeartbeatLost(j)
                       \/ LockExpires(j) \/ LockLapses(j) \/ DoneExpires(j)
                       \/ \E w \in Workers : Fetch(w, j)
    \/ \E w \in Workers : Crash(w) \/ Shutdown(w) \/ Restart(w)

\* The event loop resumes every task, the pull loop of a running replica
\* fetches what is pending, the server redelivers, Redis expires keys.  No
\* fairness on Restart: the compose file has no restart policy for this
\* service.
Fairness ==
    /\ \A a \in Attempt : WF_vars(Handle(a)) /\ WF_vars(PublishInProgress(a))
    /\ \A j \in Jobs : /\ WF_vars(\E w \in Workers : Fetch(w, j))
                       /\ WF_vars(AckWaitElapses(j))
                       /\ WF_vars(LockExpires(j))

Spec == Init /\ [][Next]_vars
FairSpec == Spec /\ Fairness

-----------------------------------------------------------------------------
(* What the worker must guarantee.                                         *)

Said(j, status) == \E i \in DOMAIN responses[j] : responses[j][i].status = status
Verdicts(j) == CASE request[j] = "valid"   -> {"completed"}
                 [] request[j] = "crowded" -> {"completed", "failed"}
                 [] OTHER                  -> {"failed"}
Answered(j) == \E s \in Verdicts(j) : Said(j, s)
Settled(j)  == msg[j] = "acked" /\ Quiet(j)

\* A job is marked 'done' only after the response that ends it has been
\* published (message_handler.py:74 and :190): a redelivery that finds the
\* mark may be dropped.  Holds under every fault.
DoneIsAnswered == \A j \in Jobs : lockKey[j] = Done => Answered(j)

\* As long as no lock lapses under its holder, two deliveries of a job are
\* never both inside "with lock_ctx": not across replicas, not when a
\* stale handler releases, not when the message is redelivered.
OneHolder == "lapse" \notin met =>
    \A j \in Jobs : \A a, b \in Attempts(j) : InLock(a) /\ InLock(b) => a = b

\* For a request that parses, an attempt's 'in_progress' (published by a
\* separate task) never follows its 'completed' on the response stream.
InProgressComesFirst ==
    \A j \in Jobs : Parses(j) =>
        \A i, k \in DOMAIN responses[j] :
            /\ responses[j][i].by = responses[j][k].by
            /\ responses[j][i].status = "completed"
            /\ responses[j][k].status = "in_progress"
            => k < i

\* A message leaves the consumer for good only when the job has its answer:
\* no ack, skip, nak, crash, cancellation or lost publish loses a job, as
\* long as Redis answers, locks do not lapse and heartbeats keep going.
AckedIsAnswered == met \cap {"heartbeat", "redis", "lapse", "outage"} = {} =>
    \A j \in Jobs : Settled(j) => Answered(j)

\* Redelivery of a job that is being or has been processed does not process
\* it again: 'completed' is published once, although acks get lost, heart-
\* beats die, uploads fail and earlier attempts raise.  (A crash, a shutdown
\* or a lost PubAck between 'completed' and 'done' publishes it twice.)
CompletedOnce == met \subseteq {"heartbeat", "ack", "storage", "critical"} =>
    \A j \in Jobs : \A i, k \in DOMAIN responses[j] :
        responses[j][i].status = "completed" /\ responses[j][k].status = "completed"
            => i = k

\* Every redelivery is paid for by a fault: without one, a job is delivered
\* once.  (So the bound of Fetch never stops a delivery.)
RedeliveryNeedsFault == \A j \in Jobs : delivered[j] <= 1 + MaxFaults - budget

\* Once set, 'done' stays until its hour is over: no acquire, extension or
\* release, by whatever stale token holder, removes or replaces it.
DoneIsFinal ==
    [][\A j \in Jobs : lockKey[j] = Done =>
           lockKey'[j] = Done \/ DoneExpires(j)]_vars

\* Seen from outside, the worker is JobDelivery: nothing settles without its
\* verdict, and nothing settled is touched again.
Promise == INSTANCE JobDelivery WITH
    verdicts <- [j \in Jobs |-> {s \in Terminal : Said(j, s)}],
    settled  <- [j \in Jobs |-> Settled(j)]
KeepsPromise == Promise!Spec

UnderWay == {a \in Attempt : IsRunning(a)}

\* Seen from the queue, the handlers are those of WorkQueue: what the worker
\* takes NATS to do is what RequestStream shows the consumer to do.
Queue == INSTANCE WorkQueue WITH
    Messages <- Jobs,
    running  <- UnderWay,
    deaf     <- "heartbeat" \in met
UsesQueue == Queue!Spec

\* While some replica keeps running, every job's message is finally
\* acknowledged and its job answered.
EveryJobSettles ==
    <>[](\E w \in Workers : up[w]) =>
        \A j \in Jobs : <>[](Settled(j) /\ Answered(j))
=============================================================================
