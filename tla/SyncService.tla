----------------------------- MODULE SyncService -----------------------------
(***************************************************************************)
(* The streaming worker (transcribator-services/sync/app.py): every        *)
(* replica hears every init message; the first to take the job's Redis     *)
(* lock opens a stream, which subscribes to the job's audio, answers each  *)
(* chunk, extends the lock, and finishes once: on the client's finish,     *)
(* after a silence, or when the lock cannot be extended.                   *)
(*                                                                         *)
(* The event loop of a replica suspends none of these callbacks half way   *)
(* (Redis is called synchronously and publishing does not wait), so each   *)
(* is one action.  What NATS core carries are queues, one per              *)
(* subscription; nobody keeps a message published to no subscriber.        *)
(***************************************************************************)
EXTENDS Integers, Sequences, FiniteSets

CONSTANTS
    Jobs,       \* the streaming jobs
    Replicas,   \* the replicas of the worker
    MaxActive,  \* MAX_ACTIVE_STREAMS of a replica
    MaxChunks,  \* bound: chunks of audio a client sends
    Faults,     \* which faults happen
    MaxFaults,  \* bound: how many of them
    None

FaultKind == {
    "crash",    \* a replica dies
    "lapse",    \* a lock expires under an open stream
    "redis",    \* a call of Redis raises
    "garbled",  \* for 20 seconds no message of the client parses
    "gateway",  \* the gateway dies and restarts
    "postgres"} \* a statement of the gateway fails

ASSUME SyncAssumption ==
    /\ MaxActive \in Nat /\ MaxChunks \in Nat /\ MaxFaults \in Nat
    /\ Faults \subseteq FaultKind /\ None \notin Replicas

VARIABLES
    inits,     \* [Replicas]: init messages not yet handled
    chunks,    \* [Replicas -> [Jobs]]: audio and finish not yet handled
    statuses,  \* [Jobs]: status messages the session has not read
    responses, \* [Jobs]: response messages the session has not read
    announced, \* [Jobs]: 'finished' messages on the common status topic
    listens,   \* [Jobs]: does the session subscribe to the job's topics?
    spawned,   \* [Replicas]: tasks handle_messages created, not yet run
    stream,    \* [Replicas -> [Jobs]]: the state of handle_messages
    active,    \* [Replicas]: current_active_streams
    lock,      \* [Jobs]: transcriber:sync:{job}:job_lock
    up,        \* [Replicas]: is it running?
    budget,    \* faults left
    met        \* the kinds of fault met so far

faultVars == <<budget, met>>
natsVars == <<inits, chunks, statuses, responses, announced, listens>>
ownVars  == <<spawned, stream, active, lock, up>>
syncVars == <<natsVars, ownVars, faultVars>>

\* Chunk n, or the finish; as a response, the answer to it.
Finish  == 0
Message == 0..MaxChunks

\* "leaked": is_finished is set and the two tasks are cancelled, but the
\* rest of finish() was cut off by an exception.
StreamState == {"none", "open", "leaked", "finished"}
Subscribed(r, j) == stream[r][j] \in {"open", "leaked"}

TypeOK ==
    /\ inits     \in [Replicas -> Seq(Jobs)]
    /\ chunks    \in [Replicas -> [Jobs -> Seq(Message)]]
    /\ statuses  \in [Jobs -> Seq({"ready", "finished"})]
    /\ responses \in [Jobs -> Seq(Message)]
    /\ announced \in [Jobs -> Nat]
    /\ listens   \in [Jobs -> BOOLEAN]
    /\ spawned   \in [Replicas -> SUBSET Jobs]
    /\ stream    \in [Replicas -> [Jobs -> StreamState]]
    /\ active    \in [Replicas -> Nat]
    /\ lock      \in [Jobs -> Replicas \cup {None}]
    /\ up        \in [Replicas -> BOOLEAN]
    /\ budget    \in 0..MaxFaults /\ met \subseteq Faults

Init ==
    /\ inits     = [r \in Replicas |-> <<>>]
    /\ chunks    = [r \in Replicas |-> [j \in Jobs |-> <<>>]]
    /\ statuses  = [j \in Jobs |-> <<>>]
    /\ responses = [j \in Jobs |-> <<>>]
    /\ announced = [j \in Jobs |-> 0]
    /\ listens   = [j \in Jobs |-> FALSE]
    /\ spawned   = [r \in Replicas |-> {}]
    /\ stream    = [r \in Replicas |-> [j \in Jobs |-> "none"]]
    /\ active    = [r \in Replicas |-> 0]
    /\ lock      = [j \in Jobs |-> None]
    /\ up        = [r \in Replicas |-> TRUE]
    /\ budget    = MaxFaults /\ met = {}

\* n faults happen, of these kinds.
Spends(kinds, n) ==
    /\ kinds \subseteq Faults /\ budget >= n
    /\ budget' = budget - n
    /\ met' = met \cup kinds
Fault(kind) == Spends({kind}, 1)
NoFault     == UNCHANGED faultVars

\* Publishing to the topics of a job, heard if its session subscribes.
Tell(j, msgs) ==
    statuses' = IF listens[j] THEN [statuses EXCEPT ![j] = @ \o msgs] ELSE statuses
Answer(j, n) ==
    responses' = IF listens[j] THEN [responses EXCEPT ![j] = Append(@, n)] ELSE responses

-----------------------------------------------------------------------------
(* handle_init.                                                            *)

\* A wrong init: the lock is not asked for.
HandleInitUnlocked(r) ==
    /\ inits[r] # <<>>
    /\ inits' = [inits EXCEPT ![r] = Tail(@)]
    /\ LET j == Head(inits[r]) IN
       IF active[r] >= MaxActive
       THEN UNCHANGED <<lock, spawned>>
       ELSE /\ lock' = [lock EXCEPT ![j] = r]
            /\ spawned' = [spawned EXCEPT ![r] = @ \cup {j}]
    /\ NoFault
    /\ UNCHANGED <<chunks, statuses, responses, announced, listens, stream, active, up>>

\* The pool has room by its counter and the lock is free: a task is created,
\* which will raise the counter.  Otherwise the init is dropped without a
\* word; so it is when Redis raises, before or after it set the lock.  (The
\* gateway's job ids are valid.)
HandleInit(r) ==
    /\ inits[r] # <<>>
    /\ inits' = [inits EXCEPT ![r] = Tail(@)]
    /\ LET j == Head(inits[r]) IN
       \/ /\ active[r] >= MaxActive \/ lock[j] # None
          /\ UNCHANGED <<lock, spawned>> /\ NoFault
       \/ /\ active[r] < MaxActive /\ lock[j] = None
          /\ lock' = [lock EXCEPT ![j] = r]
          /\ spawned' = [spawned EXCEPT ![r] = @ \cup {j}]
          /\ NoFault
       \/ /\ active[r] < MaxActive
          /\ lock' \in {lock, [lock EXCEPT ![j] = IF @ = None THEN r ELSE @]}
          /\ UNCHANGED spawned
          /\ Fault("redis")
    /\ UNCHANGED <<chunks, statuses, responses, announced, listens, stream, active, up>>

-----------------------------------------------------------------------------
(* handle_messages: the task, its two tasks and its callback.              *)

\* The counter is raised, the subscription made, and 'ready' published.
StartStream(r, j) ==
    /\ j \in spawned[r]
    /\ spawned' = [spawned EXCEPT ![r] = @ \ {j}]
    /\ active' = [active EXCEPT ![r] = @ + 1]
    /\ stream' = [stream EXCEPT ![r][j] = "open"]
    /\ Tell(j, <<"ready">>)
    /\ UNCHANGED <<inits, chunks, responses, announced, listens, lock, up, faultVars>>

\* A wrong finish: told to the session only.
FinishesUnannounced(r, j) ==
    /\ stream' = [stream EXCEPT ![r][j] = "finished"]
    /\ chunks' = [chunks EXCEPT ![r][j] = <<>>]
    /\ active' = [active EXCEPT ![r] = @ - 1]
    /\ UNCHANGED announced

\* finish() of an open stream, up to the end.
Finishes(r, j) ==
    /\ stream' = [stream EXCEPT ![r][j] = "finished"]
    /\ chunks' = [chunks EXCEPT ![r][j] = <<>>]
    /\ active' = [active EXCEPT ![r] = @ - 1]
    /\ announced' = [announced EXCEPT ![j] = @ + 1]

\* ... which releases the lock, after the faults that led here.  When Redis
\* raises, finish() goes on, and the lock stays until its ttl runs out.
Releases(r, j, kinds, n) ==
    \/ lock' = [lock EXCEPT ![j] = IF @ = r THEN None ELSE @] /\ Spends(kinds, n)
    \/ lock[j] = r /\ UNCHANGED lock /\ Spends(kinds \cup {"redis"}, n + 1)

\* A wrong order: the counter is lowered before the lock is asked for.
LeaksCounted(r, j) ==
    /\ stream' = [stream EXCEPT ![r][j] = "leaked"]
    /\ active' = [active EXCEPT ![r] = @ - 1]
    /\ UNCHANGED <<lock, announced>>

\* lock.locked() raises: is_finished is set, the rest is not done.
Leaks(r, j) ==
    /\ stream' = [stream EXCEPT ![r][j] = "leaked"]
    /\ UNCHANGED <<lock, active, announced>>

\* finish() from one of the stream's two tasks.
Ends(r, j, kinds, n) ==
    \/ Finishes(r, j) /\ Releases(r, j, kinds, n) /\ Tell(j, <<"finished">>)
    \/ Leaks(r, j) /\ Spends(kinds \cup {"redis"}, n + 1) /\ UNCHANGED <<chunks, statuses>>

\* extend_lock: another replica has the lock, or Redis raises.
ExtendFails(r, j) ==
    /\ stream[r][j] = "open"
    /\ \/ lock[j] \notin {r, None} /\ Ends(r, j, {}, 0)
       \/ Ends(r, j, {"redis"}, 1)
    /\ UNCHANGED <<inits, responses, listens, spawned, up>>

\* Wrong timeouts: shorter than the client's, and none.
CheckTimeoutShort(r, j) ==
    /\ stream[r][j] = "open" /\ chunks[r][j] = <<>>
    /\ Ends(r, j, {}, 0)
    /\ UNCHANGED <<inits, responses, listens, spawned, up>>
NoTimeout(r, j) == r \notin Replicas /\ j \in Jobs /\ UNCHANGED syncVars

\* check_timeout: no message for JOB_ACTIVE_TIMEOUT, 20 seconds.  A session
\* that lives lets its client be silent for 10, but passes on only what
\* parses.
CheckTimeout(r, j) ==
    /\ stream[r][j] = "open" /\ chunks[r][j] = <<>>
    /\ \/ ~listens[j] /\ Ends(r, j, {}, 0)
       \/ listens[j] /\ Ends(r, j, {"garbled"}, 1)
    /\ UNCHANGED <<inits, responses, listens, spawned, up>>

\* handle_byte_message: a chunk of audio is answered with text or an error.
HandleAudio(r, j) ==
    /\ Subscribed(r, j) /\ chunks[r][j] # <<>> /\ Head(chunks[r][j]) # Finish
    /\ chunks' = [chunks EXCEPT ![r][j] = Tail(@)]
    /\ Answer(j, Head(chunks[r][j]))
    /\ UNCHANGED <<inits, statuses, announced, listens, ownVars, faultVars>>

\* ... the client's finish ends the stream, and 'finished' is published once
\* more.  finish() returns at once on a stream that leaked before; when it
\* raises, that is answered like an error of the audio.
HandleFinish(r, j) ==
    /\ Subscribed(r, j) /\ chunks[r][j] # <<>> /\ Head(chunks[r][j]) = Finish
    /\ \/ /\ stream[r][j] = "open"
          /\ Finishes(r, j) /\ Releases(r, j, {}, 0)
          /\ Tell(j, <<"finished", "finished">>) /\ UNCHANGED responses
       \/ /\ chunks' = [chunks EXCEPT ![r][j] = Tail(@)]
          /\ \/ /\ stream[r][j] = "leaked" /\ Tell(j, <<"finished">>) /\ NoFault
                /\ UNCHANGED <<stream, lock, active, announced, responses>>
             \/ /\ stream[r][j] = "open" /\ Leaks(r, j)
                /\ Answer(j, Finish) /\ UNCHANGED statuses
                /\ Fault("redis")
    /\ UNCHANGED <<inits, listens, spawned, up>>

-----------------------------------------------------------------------------
(* The lock's ttl; crashes.                                                *)

Held(j) == \E r \in Replicas : lock[j] = r /\ (j \in spawned[r] \/ stream[r][j] = "open")

\* The ttl of a lock nobody extends runs out.
LockExpires(j) ==
    /\ lock[j] # None /\ ~Held(j)
    /\ lock' = [lock EXCEPT ![j] = None]
    /\ UNCHANGED <<natsVars, spawned, stream, active, up, faultVars>>

\* It runs out under its stream: the event loop did not run for ten seconds.
LockLapses(j) ==
    /\ Held(j) /\ Fault("lapse")
    /\ lock' = [lock EXCEPT ![j] = None]
    /\ UNCHANGED <<natsVars, spawned, stream, active, up>>

Crash(r) ==
    /\ up[r] /\ Fault("crash")
    /\ up' = [up EXCEPT ![r] = FALSE]
    /\ inits' = [inits EXCEPT ![r] = <<>>]
    /\ chunks' = [chunks EXCEPT ![r] = [j \in Jobs |-> <<>>]]
    /\ spawned' = [spawned EXCEPT ![r] = {}]
    /\ stream' = [stream EXCEPT ![r] = [j \in Jobs |-> "none"]]
    /\ active' = [active EXCEPT ![r] = 0]
    /\ UNCHANGED <<statuses, responses, announced, listens, lock>>

Restart(r) ==
    /\ ~up[r]
    /\ up' = [up EXCEPT ![r] = TRUE]
    /\ UNCHANGED <<natsVars, spawned, stream, active, lock, faultVars>>

HandleMessages(r, j) ==
    \/ StartStream(r, j) \/ HandleAudio(r, j) \/ HandleFinish(r, j) \/ CheckTimeout(r, j)

ServiceNext ==
    \/ \E r \in Replicas : \/ HandleInit(r) \/ Crash(r) \/ Restart(r)
                           \/ \E j \in Jobs : HandleMessages(r, j) \/ ExtendFails(r, j)
    \/ \E j \in Jobs : LockExpires(j) \/ LockLapses(j)

-----------------------------------------------------------------------------
Leaked(r) == {j \in Jobs : stream[r][j] = "leaked"}

\* current_active_streams counts the open streams and those finish() left
\* half done, whichever of finish message, silence and lost lock came first,
\* or came together, and whatever raised in between: it neither drifts nor
\* falls below zero.  A stream left half done keeps its place in the pool
\* until the replica dies, as finish() never runs for it again; there is
\* none unless Redis raised, and every one took a failure of its own.
ActiveCounts == \A r \in Replicas :
    /\ active[r] = Cardinality({j \in Jobs : Subscribed(r, j)})
    /\ Cardinality(Leaked(r)) <= MaxFaults - budget
    /\ "redis" \notin met => Leaked(r) = {}

\* As long as no lock lapses and Redis answers, a job has one stream: its
\* audio is not transcribed by two replicas at a time, although both heard
\* the init and one may handle it late, after a crash or a timeout too.
OneStreamPerJob == met \cap {"lapse", "redis"} = {} =>
    \A j \in Jobs : \A r, s \in Replicas :
        stream[r][j] = "open" /\ stream[s][j] = "open" => r = s
=============================================================================
