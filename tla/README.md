# Verification of transcribator-service

TLA+ specifications of the transcription service in this repository, the TLC
configurations that check them on small instances, and TLAPS proofs of the
properties that matter most. Paths below are relative to the repository;
`mh` is `transcribator-services/async/application/message_handler.py`, `nq`
is `.../async/message_queue/implementations/nats_queue.py`.

Contents: [the system](#1-the-system) · [modules](#2-the-modules-and-the-code) ·
[runs](#3-what-the-runs-check) · [fairness](#4-fairness) ·
[proofs](#5-what-is-proved) · [observed divergences](#6-where-the-code-and-its-texts-disagree) ·
[abstractions and gaps](#7-abstractions-and-what-is-not-modelled) · [plan](#8-plan)

To run: `tlc -workers 2 -config <Run>.cfg <Module>` and `tlapm <Module>Proofs.tla`.

## 1. The system

A client posts audio to the **API gateway** (Go, `api_gateway/`). An
*asynchronous* job is stored (PostgreSQL row, MinIO object) and published on a
JetStream request stream; replicas of the **async worker** (Python,
`transcribator-services/async`) share one durable consumer, transcribe, publish
status responses on a response stream and store `result.json`. The gateway
consumes responses, updates the row, sends webhooks, and answers polls. A
*streaming* job is a WebSocket session of the gateway; replicas of the **sync
worker** (`transcribator-services/sync`) compete for it over NATS core.

| Component | State it keeps | Operations | Talks to |
|---|---|---|---|
| async worker, `MessageHandler` | Redis key `transcriber:async:{job}:job_lock` (lock token, or the value `done`), `{job}/result.json` | `handle_message`: refuse, check `done`, lock, recheck, announce, work, answer, mark, release, upload | queue (return = ack, raise = nak), Redis, storage |
| async worker, `NatsQueue` | the stream (last `max_msgs` messages), the consumer (unacknowledged, due again), semaphore, handler and heartbeat tasks | publish, pull loop, handler_with_heartbeat, ack, nak, close | NATS; calls the handler |
| async worker, `App` | set of handler tasks, stop flag | run, graceful shutdown | queue, handler |
| async worker, Redis classes | keys with ttl | get, set, write lock, read lock | Redis |
| async worker, files and audio | a temporary directory per job, calls in the threads of the default executor | parse, sweep old directories, download, unpack, convert, transcribe | storage, the model |
| Croc adapter, `CrocWhisperModel` | Redis keys `file_map` per file hash, `result` per job; tasks of the remote service | predict: cached? known task? submit, register, poll, fetch, cache | HTTP service, Redis |
| sync worker, `App` | `current_active_streams`, one task per stream with its timers, lock `transcriber:sync:{job}:job_lock` | handle_init, handle_messages, finish | NATS core, Redis |
| gateway, asynchronous API | rows, webhook rows, result cache | PostJob, GetJob, HandleAsyncResponses, sendWebhookForJob | PostgreSQL, MinIO, NATS, Redis, receivers |
| gateway, streaming API | per WebSocket a `StreamSession` with two subscriptions, four goroutines | HandleWebSocketStream, waitForReady, forward, Close, HandleSyncStatusFinish | NATS core, PostgreSQL, Redis |
| gateway, authorization and access log | the `gin.Context` of a request, a goroutine that writes its row | RequireAuth, RequireRole, the logging middleware | Keycloak, PostgreSQL |
| gateway, object store client | none | read and write objects | MinIO |
| local Whisper model, RabbitMQ client, factories | none | wrappers, construction | – |
| test web app, mobile app, webhook test receiver, microphone client | a user interface | clients of the gateway | gateway |

What is hard here, and which properties it takes:

* **Redelivery.** A message is delivered again after a nak, a silence of
  `ack_wait`, a lost ack. The lock and the `done` marker share one Redis key;
  the order *publish, mark, release, ack* has to leave no gap in which the job
  is lost, and not too many in which it is done twice (`DoneIsAnswered`,
  `AckedIsAnswered`, `CompletedOnce`, `OneHolder`, `DoneIsFinal`, `KeepsPromise`).
* **Concurrent tasks of one handler.** `in_progress` is published by a task of
  its own (`InProgressComesFirst`); `result.json` is uploaded after the lock is
  released, while the gateway's webhook looks for it, and under a name the client's
  own file may have (`CompletedHookIsReal`).
* **Shutdown.** The pull loop runs on while the application waits for its
  handlers, and is cancelled in the middle of a fetch; what it loses has to come
  back (`PlacesComeBack`, `EveryRequestHandled`, `EveryJobSettles`).
* **Locks of several calls.** A reader's counter and a writer's token are keys of
  their own, looked at one after the other, with their own ttls; calls fail after
  their effect and clients die holding them (`ReadersCounted`, `WritersExclude`,
  `LocksOpen`).
* **Limits.** The stream discards what is being worked on; `max_ack_pending`,
  not the semaphore, limits handlers (`FleetBounded`, `PlacesComeBack`).
* **Ordering between two systems.** Responses overtake, repeat and follow
  restarts of the gateway (`SettledRowIsVerdict`, `NoMissedHook`,
  `CompletedStaysVisible`).
* **Threads that outlive their handler**, keys that expire before the work they
  stand for (`TranscribedByService`, `ResumesPolling`).
* **Calls that time out and go on.** A download, an extraction, a sweep that the
  handler has given up still runs, holds a thread, and writes
  (`NothingCutShort`, `DiskWithinLimits`, `FilesStay`,
  `EveryPartAccounted`, `EveryRequestEnds`).
* **Middlewares inside each other**, and a goroutine that outlives the request it
  logs (`OneReply`, `ServedRightly`, `RowIsOwn`, `EveryRequestLogged`).
* **Several ends of a stream**: finish, silence, lost lock, dead gateway
  (`ActiveCounts`, `OneStreamPerJob`, `StreamsEnd`, `RowCompletes`).

`PROJECT.json` lists every component and, under `hazards`, each place in the
code where one of these can go wrong.

## 2. The modules and the code

```
JobDelivery  <-refined by-  AsyncWorker  <-composed-  AsyncPipeline  -instantiates->  Gateway
WorkQueue    <-refined by-  RequestStream, AsyncWorker                    (the asynchronous path)
ReadWriteLock                 (the locks of the same Redis)
RequestFiles   (its action Work in detail)    CrocModel   (the call of the model)
GatewayRequests   (the chain around every handler of the gateway)
SyncService  <-composed-  SyncStreaming  -instantiates->  StreamSession
```

| Module | Models | State and actions |
|---|---|---|
| `AsyncWorker` | `mh` 71–239 with the lock of `redis.py`, the heartbeat, ack and nak of `nq`, shutdown of `application.py` | `pc` is where a handler stands; one action per stretch of code between two awaits or two calls to a shared system. `lockKey` is the Redis key, `responses` the response stream, `ackTask` the task `_publish_ack` |
| `JobDelivery` | what the worker promises: no workers, locks or deliveries | a job is *settled* only after a verdict it deserves, and no verdict follows |
| `WorkQueue` | the queue of requests as a handler sees it, between `RequestStream` and `AsyncWorker`: no stream, sequence numbers or pull loops, and nothing of what a handler does | a message is pending, outstanding or acked; a delivery starts a handler, an ack settles, a nak or `ack_wait` brings back what is outstanding, and under a running handler only a lost heartbeat does |
| `RequestStream` | retention, consumer, pull loop, semaphore and `close` (`nq` 48–157, 196–222), start, interrupt and exit of the application | a message is its sequence number; `ackPending`, `due`, `cursor` are the consumer's, `permits`, `pulling`, `handlers` the client's; `phase` is the application of a replica: running, stopping (its handlers are awaited, its pull loop runs on), stopped |
| `ReadWriteLock` | the locks of `dictionary_db` (`redis.py`) on one key | `readers` and `key` are the counter and its ttl, `token` the lock, `pc` the clients; a write lock is two calls |
| `Gateway` | `Async.go`, `Api.go`, `webhook.go`, the repositories, `Nats.go` | PostJob is a sequence of steps in `post`; `inHand` is the response the callback has; `calls` and `fills` are goroutines |
| `AsyncPipeline` | worker and gateway together | they share the request stream (`published`), `responses` and `resultJson`, nothing else |
| `CrocModel` | `croc_whisper.py` `predict`, and `audio_processor.py`, which calls it | attempts, threads, tasks of the service and Redis keys |
| `RequestFiles` | `file_manager.py`, `temp_file_manager.py`, `audio_processor.py`, and of `utils.py` `extract_archive`, `download_file`, `run_with_timeout` | `pc` names the call a handler waits for; `threads` are the calls in the executor, queued or running, awaited or not; `disk` is what each job's directory holds. One action per stretch of a thread between two writes; a timeout is an action of the handler alone |
| `GatewayRequests` | the middlewares under `gateway/middleware`, in the order `gin` runs them, `AccessLogRepository.go` | `pc` is the middleware a request is in, inwards and, as `unwind`, outwards; `context` is the pool of `gin.Context`s; `logger` is the goroutine of a request |
| `SyncService` | `sync/app.py` | per replica: inits, spawned tasks, streams, counter |
| `StreamSession` | `StreamSession.go`, `StreamHandler.go`, `HandleSyncStatusFinish` | per job: phase of the session, forwarder, client, row |
| `SyncStreaming` | both together over NATS core | queues per subscription; without a subscriber a message is gone |
| `MC*` | instances for TLC | sets of faults, files, symmetry |
| `AsyncWorkerProofs` (with the refinements of `JobDelivery` and `WorkQueue`), `AsyncPipelineProofs`, `RequestStreamProofs` (with the refinement of `WorkQueue`), `CrocModelProofs`, `RequestFilesProofs`, `ReadWriteLockProofs`, `SyncStreamingProofs`, `GatewayRequestsProofs` | theorems | section 5 |

Conventions:

* **Faults.** Whatever the environment may do wrong is an alternative of the
  action in which it hurts, or an action of its own, and costs one unit of
  `budget`. `FaultKind` of each module names the kinds; a constant says which
  are possible and `MaxFaults` how many.
* **`met`** (`gmet` in `Gateway`) records the kinds of fault that have happened.
  No action reads it. Properties do: "unless a lock lapsed" is `"lapse" \in met`.
  So one run with every fault checks both what always holds and what holds as
  long as certain things do not go wrong.
* **Attempts.** `<<j, n>>` is the n-th delivery of job j; it is also the random
  token `redis.lock.Lock` writes.
* Definitions introduced by "A wrong ..." are variants of an action with a
  plausible mistake; no specification uses them. Each property is known to fail
  when the variant named for it in `PROJECT.json` replaces the action.

## 3. What the runs check

| Run | Instance | Shows |
|---|---|---|
| `worker_any_fault` | 1 job of any kind, 2 replicas, 3 faults of any of 10 kinds (2.5 million states) | the type invariant; `DoneIsAnswered`, `InProgressComesFirst`, `DoneIsFinal` under everything; `OneHolder` unless a lock lapses; `AckedIsAnswered` unless heartbeats, Redis, a lock or the marker fail; `CompletedOnce` under lost heartbeats, acks, uploads and raising attempts |
| `worker_recovers` | 1 job, 2 replicas, 2 faults of the recoverable kinds, fair | `KeepsPromise`: every step is a step of `JobDelivery` or a stutter; `EveryJobSettles` |
| `pipeline_status` | 1 job with any name of its file, 2 replicas, one fault of the worker and one of the gateway (1 million states) | `SettledRowIsVerdict`, `NoMissedHook`, `CompletedHookIsReal` |
| `pipeline_redelivery` | the same with a polling client and an expiring cache; one fault of the worker that repeats an attempt or takes the result away (a crash, a failing upload, a lost heartbeat or ack, an attempt that raises), Redis or MinIO failing the gateway once; fair | `CompletedStaysVisible`, with crashes excused in the property; `EveryPostCompletes`, whose row is completed although a crash after `done`, or a failing upload, has lost the result |
| `stream` | 3 requests, stream of 2, 2 replicas that may be interrupted, 2 places, 2 faults, fair | `FleetBounded`, `OneHandlerPerMessage`, `ServesAsQueue`: every step is a step of `WorkQueue` or a stutter; `PlacesComeBack`, `EveryRequestHandled` |
| `croc` | 2 files, one silent, 3 attempts, 2 faults of 9 kinds | `TranscribedByService`, `ResumesPolling`, `NothingSubmittedOnceCached` |
| `lock` | 3 clients, each reading or writing, 6 faults of 4 kinds, keys expire | `ReadersCounted`, `WritersExclude`, `LocksOpen` |
| `sync_replicas` | 1 job, 2 replicas with room for 1, 2 chunks, 2 faults, fair | `ActiveCounts`: the counter is the number of streams that are open or leaked, and the leaked ones, whose places are lost, are no more than the failures of Redis; `OneStreamPerJob`, `ResponsesInOrder`, `CompletedMeansOver`, `StreamsEnd`, `RowCompletes` |
| `files` | 2 jobs, one with any of 7 requests (lists, zip and tar archives at and beyond each limit), the other with an archive that is too large; 2 threads, limits of 3, every call may hang, time out or fail; fair handlers | `EveryPartAccounted`, `DiskWithinLimits`, `NothingCutShort` and, unless a job takes eight hours or takes over an old directory, `FilesStay`; `EveryRequestEnds` |
| `requests` | one request of any route and credential beside one of four others, both authorizers, 2 contexts, WebSocket sessions that fail, last or panic, fair | `OneReply`, but for a failed handshake; `ServedRightly`; `RowIsOwn`, of its user and request unless the context is given away first; `EveryRequestLogged` of what its handler comes back from, unless Keycloak or the insert hangs |
| `stream_nak_evicted`, `croc_mixed_up` | the smallest instance with the fault | section 6 |

**Bounds, and why they are enough.** Jobs of the asynchronous path share no
state (keys, rows, responses and results are per job); what they share is the
consumer, and `RequestStream` models that with several messages. So one job is
enough in `AsyncWorker` and `AsyncPipeline`. Two replicas and an attempt more
than there are faults allow a holder, a competitor and a late redelivery; the
number of attempts is no restriction, as the theorem `DeliveriesPaid` shows. Three
faults let one fault redeliver, one strike the first attempt and one the second.
`LockTTL` 15 and `AckWait` 60 are the code's values. `MaxConcurrent` is scaled
from 10 to 2, `MaxPosted` is one more than the stream holds, so that eviction
happens. Two files are needed for the job's cache to mix them up, one of them
silent for the rule about empty results. In the streaming path one job makes
every case of a job; a counter with the streams of several jobs is covered by
the theorem `CounterRight`, which is about all of them; two chunks make an order.
One fault on each side of the pipeline, with every kind of the
gateway, keeps that run at a million states; pairs of faults on one side
are covered for the worker alone. In `ReadWriteLock` three clients give a reader
beside another who shortens or undoes the shared ttl and a writer who looks
meanwhile; six faults let each of them be struck twice. In `RequestFiles` two jobs give a sweep of the
one against the directory of the other, and calls of both in two threads, so
that one can queue behind two that hang; the sizes are scaled to three, with one
archive beyond each limit. In `GatewayRequests` requests meet only in a context
one of them has left and the other has taken: two suffice.

`CHECK_DEADLOCK FALSE` in every configuration but `Lock`, whose clients can always
go on: elsewhere a finite number of requests and clients is given, so the system
may come to rest. Symmetry of the replicas is
used only in runs without a temporal property beyond `[][A]_v`.

## 4. Fairness

* Handlers, tasks, goroutines and callbacks run on: asyncio and the Go runtime
  schedule what is ready (`WF`). A step that may fail may also succeed; faults
  are bounded, so weak fairness does not force one.
* A pull loop's `fetch` times out after five seconds; a delivery may be missed
  by one that does, not for ever (`SF` in `RequestStream`).
* NATS redelivers after `ack_wait`, Redis expires keys (`WF`). In `ReadWriteLock`
  that is all: no client is made to do anything, not even to leave.
* Nobody restarts a replica: the compose file has a restart policy for the
  gateway only. Liveness of the worker and of the stream is stated for
  executions in which some replica keeps running.
* No client is made to post or to leave, no job to be polled, no fault to happen.
* Of a thread of the executor nothing is assumed: a call may hang for ever.
  Timers fire, and the event loop runs (`WF` of a handler's own steps).
* Goroutines of the gateway run on. A WebSocket session lasts as long as its
  client, and calls of Keycloak and the insert of the access log have no timeout
  (`KeycloakClient.go:96`, `:210`, `AccessLoggingMiddleware.go:83`): no fairness is
  assumed of them.
* `CheckTimeout` of the sync worker is fair once it stays enabled: its loop looks
  every second. The session's ten seconds of silence against the worker's twenty
  are in its guard (a session that lives keeps its stream busy, unless nothing it
  gets can be parsed: the fault `garbled`).

## 5. What is proved

For all numbers of jobs, replicas, messages, files, clients, faults, requests and
contexts, from the assumptions named in the modules (`BoundAssumption`,
`FaultAssumption`, `TimeAssumption`, `NoneAssumption`, `StoredAssumption`;
`PipelineAssumption`, `HandAssumption`; `StreamAssumption`; `CrocAssumption`; `FilesAssumption`; `LockAssumption`;
`SyncAssumption`; `RequestAssumption`), TLAPS checks the theorems below. TLC
checked the inductive invariants of the third column on the small instances first.

| Theorem | Statement | Argument |
|---|---|---|
| `TypeCorrect` | `Spec => []TypeOK` | every action; `HandlerType` for the handlers, `EnvironmentType` for the rest |
| `DoneStays` | `Spec => DoneIsFinal` | release compares tokens and a token is never `done` (`UnlockSparesDone`); acquire needs a free key |
| `DoneAnswered` | `Spec => []DoneIsAnswered` | `MarkInv` adds: whoever stands at the confirmation of a stored answer, or at the mark, has published the verdict. Without it an arbitrary state could mark an unanswered job. `ResponsesGrow`: nothing is taken back; `MarkersAnswered`: those places are reached only through `Answer` |
| `LockExcludes` | `Spec => []OneHolder` | `LockInv` adds: a handler inside the lock finds its own token in the key, or the `done` it has just written. `UnlessLapsed` is `LockInv` until the first lapse, and `met` remembers a lapse (`MetGrows`) |
| `CompletedComesLast` | `Spec => []InProgressComesFirst` | `TaskInv`: the task `_publish_ack` of an attempt has run when its handler is past the work; `OrderOK`: so nothing by that attempt can be published behind its `completed` but by the attempt itself |
| `CompletedJustOnce` | `Spec => []CompletedOnce` | `OnceInv`, until the first harmful fault: once `completed` is published the job is marked, or its handler holds the lock on the way to the mark. So whoever publishes has found no mark, and no `completed` is there yet |
| `DeliveriesPaid` | `Spec => []RedeliveryNeedsFault` | `PaidInv`: the deliveries of a job, with its handlers on the way to a nak, and one more if its message is due, are at most one more than the faults spent (`Bill`); a fault pays for what it makes due (`FaultCosts`), a handler keeps the bill (`HandlerPays`) |
| `NothingLost` | `Spec => []AckedIsAnswered`, if a lock's ttl fits between the last heartbeat and the redelivery (`StaleLocksRunOut`: 15 s against 60 − 20 s) | `WorkInv` adds to `LockInv` and `MarkInv`, per job (`JobOK`): one handler runs at a time, that of the last delivery, and the message is outstanding as long; a token in the key is that handler's, or a dead one's whose message has not come back. So a handler that finds the key taken finds `done`, and whoever is on the way to the acknowledgement has a published verdict behind it. It holds until the first fault of the four losing kinds |
| `WorkerDelivers` | `Spec => KeepsPromise`, if `StaleLocksRunOut` and none of those four kinds is possible | the initial states map to the initial state; `PromiseStep`: a step publishes a verdict the job deserves, or settles an answered job, or is a stutter. A settled job has no handler, so nothing is published for it any more |
| `PipelineTyped` | `PipelineSpec => []PipelineTypeOK` | `PathInv` adds where a job is before its responses come: a request is published with its row and its webhook saved, delivered after that, and answered after that (`PathOK`); so a response finds its row |
| `SettledUnlessLost` | `PipelineSpec => [](met \cap Losing = {} => SettledRowIsVerdict)`, if `StaleLocksRunOut` | `UnlessLost`, that is, until one of the four losing kinds has been met: `FinalOK`: once a handler has concluded, the job is marked or its message acknowledged, the *last* response is `completed`, because whoever publishes anything else (`OthersPublish`) holds the lock, alone, with the message outstanding. `RowOK`: the row says what the last response taken said, as long as no response is delivered twice |
| `RowsSettled` | `PipelineSpec => []SettledRowIsVerdict`, if moreover none of the four kinds is possible | from it and `PipelineTyped`: what is met is possible |
| `HooksReported` | `PipelineSpec => []NoMissedHook` | `HookInv`: a response of the row's status has been told, or its goroutine runs. A row gets a terminal status and the goroutine in one step; the goroutine ends by a webhook or a fault, because the configuration it looks for was saved before the request was published (`PathOK`) |
| `HooksReal` | `PipelineSpec => []CompletedHookIsReal` | `RealInv`: whoever uploads has published `completed` (`WriterOK`), so has the author of result.json (`ResultOK`), and a goroutine reports `completed` only with the object before it (`CallReal`); no client's file is put there once something has been said |
| `VisibleStays` | `PipelineSpec => CompletedStaysVisible` | `UnlessHarmed` is, until a fault the property excludes (one of the worker that is not in `Harmless`), `ViewInv`, of two halves. `LastWordInv`: nothing but `completed` follows `completed` in the response stream, because whoever could publish anything else is inside the lock and the job then unresolved (`Unresolved`, from `OnceInv`). `Views`, until one of `Disordering` (a response handled twice, a database or storage that cannot be read): the row says what a response taken said, and what is cached, on its way into the cache or was shown lies at `result.json` (`Stored`). So what a client has seen it sees again, out of the cache or the store |
| `HandlersBounded` | `Spec => []FleetBounded` | `Inv`: running handlers have messages of their own, each counted by the consumer and not due, and the consumer counts at most `max_ack_pending`; so handlers inject into `ackPending` (`HandlersInject`) |
| `MessagesUnshared` | `Spec => []OneHandlerPerMessage` | the same invariant |
| `StreamTyped` | `Spec => []TypeOK` of `RequestStream` | `StreamInv`: a pull loop takes one permit at a time and gives it back however its fetch ends (`ClientTyped`, `Owed`); the deliveries of a message are at most one more than the faults spent (`Billed`) |
| `StreamServes` | `Spec => ServesAsQueue` | `QueueInv`: what the consumer counts, holds due or has acknowledged are different places for a message it has reached (`Places`, `Reached`), and a running handler has a delivery already numbered (`Numbered`). Pulls, evictions, crashes and interrupts are stutters or `Vanish` |
| `OnlyEvictionLoses` | `Spec => []ForgetsOnlyEvicted` | the places of `QueueInv` again: what the consumer has gone past and does not count is acknowledged, or the stream has discarded it. Crashes, raises, interrupted fetches and lost heartbeats lose nothing |
| `WorkerUsesQueue` | `Spec => UsesQueue` of `AsyncWorker` | what the handlers take NATS to do is the same `WorkQueue` that `StreamServes` shows the consumer to be; `TypeOK` is the invariant it needs |
| `GuaranteesKept` | `PipelineSpec => []` (`DoneIsAnswered`, `OneHolder`, `InProgressComesFirst`, `CompletedOnce`, `RedeliveryNeedsFault`) | `GuaranteeInv`: the worker's invariants hold with the gateway beside it. The gateway publishes requests and uploads files, which the worker's steps read; whatever else it does the worker cannot see (`GatewayUnseen`) |
| `PipelineDoneStays`, `PipelineUsesQueue` | `PipelineSpec => DoneIsFinal`, `PipelineSpec => UsesQueue` | the worker's step lemmas under the same invariant |
| `PipelineDelivers` | `PipelineSpec => KeepsPromise`, under the hypotheses of `WorkerDelivers` | worker and gateway together still implement `JobDelivery` |
| `SegmentsAreServed` | `Spec => []TranscribedByService` | `TranscriptInv`: a thread between fetching and caching holds an id of a task of its file that succeeded (`ThreadOK`), `file_map` and the cache point at tasks that exist (`SharedOK`); tasks are never forgotten or undone (`TasksExtend`) |
| `KnownTasksResume` | `Spec => []ResumesPolling`, if no file occurs twice in the job (`FilesDiffer`) | `CalmInv`, until a fault of the excused kinds: one handler runs and waits for its only thread (`HandlersOK`, `WaitingOK`), so `file_map` cannot change between its look and its entry (`SubmitOK`), and a registered task is the last of its file and in `file_map` (`TasksOK`) |
| `CachedNeverResubmitted` | `Spec => NothingSubmittedOnceCached`, under `FilesDiffer` | `CachedInv`, until a lock lapses, a handler is given up or Redis fails, but through failing calls and expiring keys: one thread lives (`OneAlive`), so nobody stores a result behind the back of a thread that has looked and found none (`LookedOK`), and only such a thread submits |
| `CrocTyped` | `Spec => []TypeOK` | `IdsOK`: an id is 0, comes from `file_map` or is that of the last task; tasks are never forgotten |
| `FilesTyped` | `Spec => []TypeOK` of `RequestFiles` | handlers and threads apart (`HandlerTypes`, `ThreadTypes`) |
| `NeverCutShort` | `Spec => []NothingCutShort` | `Coherent`: a call in the executor is awaited, or given up for good (`ThreadOK`, `GivenUp`), and no two calls write to one place (`OneEach`). A call given up writes to a file that is among the errors, which `Results` keeps apart from the files to transcribe; so those are never `partial` (`DiskOK`) |
| `NothingSwept` | `Spec => []FilesStay` | `Stays`, for a job whose directory was never old: no sweep has chosen the directory once the job has made it (`Safe`), and what its calls have written or its handler has listed is on the disk (`Made`, `Has`) |
| `PartsAccounted` | `Spec => []EveryPartAccounted` | both: `ListRequest` says for a list, `Has` with `ArchiveRequest` for an archive, which names are already among the paths or the errors; `AnsweredOK`: an answer has an outcome for every path |
| `FilesWithinLimit` | `Spec => []DiskWithinLimits`: members and sizes | `DiskOK`: nothing of an archive that is refused is on the disk; `Copied`: what lies there of any other has been written by one of its members, so it is no larger than the largest of its name (`Largest`). The members number at most `MaxMembers`, each writing one name. A sum of sizes is the number of *units* of the files (`TotalCounts`), and the units of what is on the disk inject into those of the members, whose sum the check admitted. The law of the sum that this takes, what one more element adds, is proved by a smallest set on which it fails (`SmallestSubset`, `FoldCounts`) |
| `ReadersSeen` | `Spec => []ReadersCounted` | `Counted`: the counter is at least the number of readers since it last expired without any; every way in counts first, every way out counts off last |
| `WritersAlone` | `Spec => []WritersExclude` | `Hold`: a writer inside has the token or is marked as lapsed; `Owned`: a client's token is that of a writer inside |
| `CounterRight` | `StreamingSpec => []ActiveCounts` | a job's init is sent once, so the job is in a replica's queue, or its task is created, or its stream is open, in this order (`Stages`); so no stream is counted twice (`Counts`). The leaked streams: `FewLeaked` says that they are no more than the faults spent, and `MoreLeaked` that a step leaks one stream at most and then pays a fault of Redis |
| `StreamingTyped` | `StreamingSpec => []StreamingTypeOK` | the invariants of the next three together |
| `StreamUnique` | `StreamingSpec => []OneStreamPerJob` | `Locked`: whoever is past the queue has the job's lock, until one is lost |
| `ResponsesOrdered` | `StreamingSpec => []ResponsesInOrder` | `Flow`, until a lock lapses or Redis fails: the client's responses, those under way and the chunks in the queue of the one open stream are each rising, and each before the next. It needs `Locked`: with two streams a chunk would have two ways |
| `CompletedIsOver` | `StreamingSpec => []CompletedMeansOver` | `Ending`: a `finished` is announced, and a finish lies in a queue, only when the session is closing: a stream ends in silence only when its session no longer listens, and finds a finish only after the session sent it |
| `OneReplyEach` | `Spec => []OneReply` | `Place`: what the place of a request says of it. No reply comes before its handler or the first middleware that turns it away; behind them only `RequireAuth` could write, and finds a user, because authentication has left one (`Known`, used in `UnwindStep`). Only the handler writes twice: what it sends behind a failed handshake |
| `ServesTheEntitled` | `Spec => []ServedRightly` | `ContextOwn`: a context holds its request's own marks as long as the request is in the chain or its goroutine reads it unreused; `Unshared`: such contexts differ, so no other request writes there (`KeptSound`, `StepInv`) |
| `LogsItsOwn` | `Spec => []RowIsOwn` | `EntryOwn`: what the goroutine has read so far is the request's own, unless the context was given away. The status is the wrapper's, which every reply of the request overwrites, so that of the last (`Place`) |

Only model-checked:

* the liveness properties `EveryJobSettles`, `EveryPostCompletes`,
  `PlacesComeBack`, `EveryRequestHandled`, `StreamsEnd`, `RowCompletes`,
  `EveryRequestEnds`, `LocksOpen`, `EveryRequestLogged`: temporal reasoning under
  fairness is out of reach of the prover;
* what the running sum of an extraction (`Accumulated`, the second check of
  `extract_archive`) computes: it only stops an extraction earlier, and no theorem
  needs it.

Every safety invariant and every action property that a passing run checks is a
theorem. `UsesQueue`, `ForgetsOnlyEvicted`, `RedeliveryNeedsFault` and the type
invariants of all modules but the worker's are theorems that no run repeats.

`RowsSettled`, `WorkerDelivers` and `PipelineDelivers` have a hypothesis
on the possible faults, which the instances of their runs satisfy: a fault that loses a job or has it
processed twice may break these properties (section 6). The other theorems exclude a kind, like
the properties, by what has been `met`.

Every module states the type of its variables, and all but that of `Gateway` alone
(part of `PipelineTyped`) and `SyncService` and `StreamSession` alone (part of
`StreamingTyped`) is a theorem: `TypeCorrect`, `PipelineTyped`, `StreamingTyped`,
`FilesTyped`, `CrocTyped`, `LockTyped`, `StreamTyped`; that of `GatewayRequests` is
part of the invariants proved. A run checks the one of the
worker.

## 6. Where the code and its texts disagree

With a run that shows it (`findings` in `PROJECT.json`):

* `stream_nak_evicted`: the stream keeps the last two messages, so a nacked
  message may be gone (`nq` 96 and 207).
* `croc_mixed_up`: the result cache is per job; the second file gets the first
  file's transcript (`croc_whisper.py:213`).

Met while modelling, without a run of their own; the models contain the
behaviour:

* `UpdateJobStatus` overwrites any status, so a redelivered `in_progress` (its
  acknowledgement was lost) takes a completed row back (`JobRepository.go:98`).
  `SettledRowIsVerdict` excludes such redeliveries; a client who has seen the
  result keeps seeing it out of the cache.
* An exception of Redis inside `finish()` after `is_finished` is set loses the
  announcement of the end (`app.py:135`): the row stays pending, and the stream
  keeps its subscription and its place in the pool until the replica dies.
  `RowCompletes` excludes failures of Redis; `ActiveCounts` bounds the places
  lost by their number. A release that fails leaves the job's lock to its ttl
  (`app.py:136`); in the gateway it leaves the lock of the status, and a
  `finished` that comes before that has expired is dropped (`Api.go:284`).
* The goroutine of the access log reads a `gin.Context` that `gin` may have given
  to another request: the row then names that one (`AccessLoggingMiddleware.go:53`).
  `RowIsOwn` excludes it; the status is safe from other requests, as the wrapper
  is the request's own.
* A failed WebSocket handshake is answered twice: `websocket.Accept` writes its
  own 400 or 426, the handler a body with 500 behind it (`StreamHandler.go:40`).
  The client gets the first status, the log says 500, although its column is
  'HTTP-статус ответа' (`db/ver_0_0_1/tables/08_access_logs.sql:21`). `OneReply`
  and `RowIsOwn` say so.
* With service tokens no request reaches a role-protected route:
  `RequireRole` wants the claims only Keycloak leaves (`AuthMiddleware.go:55`).
* A panic skips the access log: `Next` never returns to it.
* The sweep removes a directory in use once a job has worked for eight hours
  without changing it, and a job that finds an old directory of an earlier attempt
  takes it over while another job's sweep may be removing it
  (`temp_file_manager.py:54`).
* Files in subdirectories of an archive are unpacked and then ignored, without an
  error (`file_manager.py:133`); a zip with two members of one name counts the
  last of them twice when it is unpacked (`utils.py:105`).
* The semaphore's permit is returned when the task is created (`nq` 116–119): it
  limits fetches, not handlers. `FleetBounded` holds by `max_ack_pending`.
* A handler whose heartbeat died is redelivered; the copy finds the lock taken,
  returns and is acknowledged; if the holder then raises, nobody processes the
  job (`mh` 119). `AckedIsAnswered` therefore excludes the fault `heartbeat`, and
  for the same kind of reason `redis`, `lapse` and `outage`.
* A failed response carries a timestamp without an offset, which the gateway
  parses to the zero time (`response_builder.py:60`, `Api.go:154`).
* The webhook of a completed job says `failed` if `result.json` is not found in
  ten seconds (`Api.go:226`).
* The pool of the sync worker is checked when an init arrives and counted when
  its task runs (`app.py:57`, `:105`); a burst of inits passes together.
* `file_map` lives 600 seconds, polling 1800 (`croc_whisper.py:87`); and a crash
  between submitting and registering submits again.
* `rlock` looks for `{key}:write`, which nobody writes, so a writer keeps no
  reader out (`redis.py:10`, `:17`). Nothing takes a read lock today.
* `RedisReadLock.extend_ttl` answers true when the counter is gone
  (`redis.py`, against `database.py:150`). A reader with a shorter ttl shortens
  that of all; the release of a reader whose counter has expired takes it to −1,
  which hides a later reader from a writer until the counter has expired without
  readers. `ReadersCounted` says so.
* A client's file named `result.json` takes the place of the result
  (`Async.go:336`, `file_manager.py:183`): the result is never stored, and the
  client polls its own audio, or an error, while the row and the webhook say
  completed. `CompletedHookIsReal` and `EveryPostCompletes` allow the client's
  file in the result's place.
* A crash between setting `done` and storing the result loses the result: the
  redelivery finds `done` and is acknowledged (`mh` 232), and the client of a
  completed row gets an error. `EveryPostCompletes` names it (`ResultLost`); a crash just
  before `done` has the job processed again, and a client who has seen `completed`
  sees it in progress. `CompletedStaysVisible` ends there.
* `close()` awaits the pull task it has cancelled; its `CancelledError` is not an
  `Exception`, so `drain` and `close` of the connection are skipped (`nq` 146).
  While the shutdown waits for the handlers that ran when it began, the pull loop
  starts new ones, which are not waited for. The image's Python 3.10 cancels every
  task at Ctrl-C, without that wait; `docker stop` sends SIGTERM, for which there
  is no handler: a crash.
* After an early end of the stream the session's read loop goes on
  (`StreamSession.go:271`).

## 7. Abstractions, and what is not modelled

* Contents: requests are of five kinds, responses are statuses with their
  author, audio is a chunk number, a transcript is the file it belongs to.
  In `AsyncWorker` downloading, unpacking, converting and transcribing are the one
  action `Work`, which ends well (with per-file errors in the response) or raises.
* In `RequestFiles` a file is a size and a kind, its content whole or partial.
  The name of a local file is a random string, so names never collide. The
  members of an archive are taken to stay in their directory.
  The call of the model, which has a thread of its own, is one step.
* In `GatewayRequests` a credential is what the checks tell apart. Handlers
  answer as `Gateway` and `StreamSession` say; a WebSocket session is one place the
  request stays in until its client leaves. A route without authentication
  stands for all of them.
* A malformed request has no job id; its response and `result.json` go to the
  bucket's root, which no gateway reads: left out. Responses for the job id
  `unknown` are ignored by the gateway.
* `AsyncWorker` assumes that the stream still has the message it redelivers;
  `RequestStream` models when it does not. No `max_deliver` is configured.
* Callbacks of the sync worker are atomic: Redis is called synchronously and
  the NATS client's publish and subscribe do not suspend. A subscription of the
  gateway, its callback and its channel are one queue.
* The gateway sends only valid job ids and no `check_status` messages to the
  sync worker.
* Time appears through guards: the silence limits (10 s against 20 s), the lock
  ttl against `ack_wait`, five looks for `result.json`. Everything else that
  depends on time may happen at any moment.
* The list of task ids of the Croc adapter, which nothing reads, is left out.
* Calls of Redis raise or return: the client has no timeout, so one may also
  block the event loop for as long as the server is silent. That is a replica that
  does nothing, as far as others see a dead one whose heartbeats have stopped.
* Not modelled: object store client, factories and the local model, which are
  sequential and keep no state; RabbitMQ and NATS without JetStream
  (`NATS_USE_JETSTREAM` off), which no deployment of the repository uses; user
  interfaces and test programs. `PROJECT.json` gives each its reason.

## 8. Plan

Done, in this order: `AsyncWorker` and its proofs, `JobDelivery`, `Gateway`,
`AsyncPipeline`, `RequestStream` and its proofs, `CrocModel`, `SyncService`,
`StreamSession`, `SyncStreaming`, `RequestFiles`, `GatewayRequests` and its proofs,
the shutdown in `RequestStream`, the name `result.json` in the pipeline,
`ReadWriteLock` and its proofs, `SyncStreamingProofs`, `CrocModelProofs`,
`AsyncPipelineProofs`, `RequestFilesProofs`, `WorkQueue` with its two refinements, the
worker's guarantees in the pipeline, the limits on the disk.

Next, by importance:

1. Theorems: that `RequestFiles` keeps what `AsyncWorker` takes its action `Work` to
   do, as a refinement.
2. The reconnecting hook of the mobile application as a client of `StreamSession`.
3. A graceful shutdown and the locks composed: a handler whose cancellation and
   whose lock's extension task meet.
