---------------------------- MODULE AsyncPipeline ----------------------------
(***************************************************************************)
(* The asynchronous path end to end: a client posts a job to the gateway   *)
(* (module Gateway), the worker (module AsyncWorker) takes the request     *)
(* from the request stream, its responses travel back over the response    *)
(* stream, and result.json over the object storage.                        *)
(*                                                                         *)
(* The two share exactly what the processes share: the request stream      *)
(* (published enables the worker's first Fetch), the response stream and   *)
(* the objects of the job.  Every other variable changes on one side only. *)
(***************************************************************************)
EXTENDS AsyncWorker

CONSTANTS GatewayFaults, MaxGatewayFaults, Polled

VARIABLES wantsHook, post, row, hook, file, published, consumed, unacked,
          inHand, calls, sent, cache, fills, seen, gbudget, gmet

G == INSTANCE Gateway WITH delivered <- consumed

ASSUME PipelineAssumption ==
    /\ GatewayFaults \subseteq G!GatewayFaultKind /\ MaxGatewayFaults \in Nat
    /\ Polled \subseteq Jobs

\* None is no response in hand.
ASSUME HandAssumption == None \notin [job : Jobs, index : Nat]

gatewayVars  == <<wantsHook, post, row, hook, file, published, consumed, unacked,
                  inHand, calls, sent, cache, fills, seen, gbudget, gmet>>
pipelineVars == <<vars, gatewayVars>>

\* What the gateway publishes parses, names its job and is small enough.
PipelineInit ==
    /\ Init
    /\ request = [j \in Jobs |-> "valid"]
    /\ resultJson = [j \in Jobs |-> None]
    /\ G!GatewayInit

WorkerSide(step) ==
    /\ step
    /\ \A j \in Jobs : delivered'[j] > 0 => published[j]
    /\ UNCHANGED gatewayVars

GatewaySide(step) ==
    /\ step
    /\ UNCHANGED <<request, queueVars, lockKey, responses, pc, taskVars, faultVars>>

PipelineNext == WorkerSide(Next) \/ GatewaySide(G!GatewayNext)

\* The worker's fairness, and the gateway's: the handler consumes, every
\* goroutine runs on, a cancelled or failed post is not retried.
PipelineFairness ==
    /\ \A a \in Attempt : /\ WF_pipelineVars(WorkerSide(Handle(a)))
                          /\ WF_pipelineVars(WorkerSide(PublishInProgress(a)))
    /\ \A j \in Jobs :
          /\ WF_pipelineVars(WorkerSide(\E w \in Workers : Fetch(w, j)))
          /\ WF_pipelineVars(WorkerSide(AckWaitElapses(j)))
          /\ WF_pipelineVars(WorkerSide(LockExpires(j)))
    /\ WF_pipelineVars(GatewaySide(G!Consume))
    /\ WF_pipelineVars(GatewaySide(G!Report))

PipelineSpec == PipelineInit /\ [][PipelineNext]_pipelineVars
FairPipelineSpec == PipelineSpec /\ PipelineFairness

-----------------------------------------------------------------------------
PipelineTypeOK == TypeOK /\ G!GatewayTypeOK

Terminated(j) == row[j].status \in Terminal
CaughtUp(j)   == consumed[j] = Len(responses[j]) /\ unacked[j] = {} /\ inHand = None

\* When the worker has acknowledged a job and the gateway has consumed its
\* responses, the row says completed: UpdateJobStatus overwrites whatever
\* came before, so the last response of all attempts must be 'completed',
\* through retries, replays and unconfirmed publishes.  (A lost ack, a restart or
\* a failing statement of the gateway breaks it for good: a response that is
\* delivered again takes the row back.)
SettledRowIsVerdict == gmet \cap {"ack", "restart", "postgres"} = {} =>
    \A j \in Jobs : Settled(j) /\ CaughtUp(j) => row[j].status = "completed"

\* A terminal status of the row is reported to the webhook of the request:
\* some goroutine is about to, or has, unless the receiver, the process or
\* the database failed.  The configuration is saved before the request is
\* published (Async.go:323-344), so the response cannot overtake it.
NoMissedHook == gmet \cap {"webhook", "restart", "postgres"} = {} =>
    \A j \in Jobs : wantsHook[j] /\ Terminated(j) =>
        \E i \in 1..consumed[j] :
            /\ responses[j][i].status = row[j].status
            /\ \/ \E c \in calls : c.job = j /\ c.index = i
               \/ \E k \in DOMAIN sent[j] : sent[j][k].index = i

\* A webhook says 'completed' only after an attempt published 'completed'
\* and stored result.json, and carries the result unless reading it failed.
\* (A client's own file of that name is taken for the result: it is never
\* stored then, and the webhook says 'completed' without one.)
CompletedHookIsReal ==
    \A j \in Jobs : \A k \in DOMAIN sent[j] :
        sent[j][k].status = "completed" =>
            /\ sent[j][k].result \/ resultJson[j] = Audio \/ "minio" \in gmet
            /\ \/ resultJson[j] = Audio /\ Said(j, "completed")
               \/ \E i \in DOMAIN responses[j] :
                      responses[j][i] = [by |-> resultJson[j], status |-> "completed"]

\* A client that has seen 'completed' does not see another answer later: no
\* redelivered job takes the row back, and the cache, the row and result.json
\* agree.  That ends with a fault after which a job may be processed twice
\* (message_handler.py:188: a crash, a lost PubAck ...), or a response is
\* handled twice, or the database or the storage cannot be read.
CompletedStaysVisible ==
    [][/\ met' \subseteq {"heartbeat", "ack", "storage", "critical"}
       /\ gmet' \cap {"ack", "restart", "postgres", "minio"} = {}
       => \A j \in Jobs : seen[j] = "completed" => seen'[j] = "completed"]_seen

\* The job is done, and no handler of it will upload its result.
ResultLost(j) ==
    /\ lockKey[j] = Done /\ resultJson[j] = None
    /\ \A a \in Attempts(j) : pc[a] \notin {"release", "upload", "write"}

\* Kinds of fault after which a job may be acknowledged unanswered (see
\* AckedIsAnswered); a lost heartbeat alone is not enough.
MayLoseJob ==
    \/ met \cap {"redis", "lapse", "outage"} # {}
    \/ "heartbeat" \in met /\ met # {"heartbeat"}

\* Every accepted post of a client ends as a completed row with its result
\* stored (or the client's file in its place), while some worker replica
\* keeps running, through crashes of others, failing attempts and
\* redeliveries.  A crash after 'done' was set, or a failing upload, loses
\* the result for good, but not the row.  (A response the gateway has
\* acknowledged and not applied, or gets again, may leave the row behind.)
EveryPostCompletes ==
    /\ <>[](\E w \in Workers : up[w])
    /\ [](gmet \cap {"ack", "restart", "postgres"} = {} /\ ~MayLoseJob)
    => \A j \in Jobs : (post[j] = "accepted") ~>
           [](/\ row[j].status = "completed"
              /\ \/ resultJson[j] # None
                 \/ ResultLost(j) /\ met \cap {"crash", "storage"} # {})
=============================================================================
