-------------------------- MODULE AsyncPipelineProofs --------------------------
(***************************************************************************)
(* The asynchronous path end to end, for any jobs, replicas and faults:    *)
(* what the gateway's rows and webhooks say is what the worker has said.   *)
(***************************************************************************)
EXTENDS AsyncPipeline, AsyncWorkerProofs

-----------------------------------------------------------------------------
(* Steps.  The worker's leave the gateway alone, the gateway's the worker, *)
(* except that a client's file may become result.json.                     *)

workerVars == <<request, queueVars, lockKey, responses, pc, taskVars, faultVars>>

WorkerStep ==
    /\ [Next]_vars
    /\ \A j \in Jobs : delivered'[j] > 0 => published[j] \/ delivered'[j] = delivered[j]
    /\ UNCHANGED gatewayVars
GatewayStep == G!GatewayNext /\ UNCHANGED workerVars

LEMMA PipelineSteps ==
    ASSUME [PipelineNext]_pipelineVars
    PROVE  WorkerStep \/ GatewayStep
<1>1. CASE UNCHANGED pipelineVars
    BY <1>1 DEF pipelineVars, vars, WorkerStep
<1>2. CASE WorkerSide(Next)
    BY <1>2 DEF WorkerSide, WorkerStep
<1>3. CASE GatewaySide(G!GatewayNext)
    BY <1>3 DEF GatewaySide, GatewayStep, workerVars
<1>. QED
    BY <1>1, <1>2, <1>3 DEF PipelineNext

-----------------------------------------------------------------------------
(* The types of both sides, and where a job is before its responses come.  *)

\* A running sendWebhookForJob.  (The last conjunct: c has these fields.)
CallOK(c) ==
    /\ c.job \in Jobs /\ c.index \in 1..consumed[c.job]
    /\ c.status \in Terminal /\ c.result \in BOOLEAN
    /\ c.stage \in {"config", "poll", "send"}
    /\ c = [job |-> c.job, index |-> c.index, status |-> c.status,
            result |-> c.result, stage |-> c.stage, nth |-> c.nth]

Row == [status : G!RowStatus, error : BOOLEAN, finished : {"null", "time", "zero"}]
Sent == [index : Nat, status : Terminal, result : BOOLEAN]

PostTyped ==
    /\ post \in [Jobs -> {"start", "created", "configured", "stored", "accepted", "rejected"}]
    /\ row \in [Jobs -> Row]
    /\ wantsHook \in [Jobs -> BOOLEAN] /\ hook \in [Jobs -> BOOLEAN]
    /\ file \in [Jobs -> BOOLEAN] /\ published \in [Jobs -> BOOLEAN]
    /\ gbudget \in 0..MaxGatewayFaults /\ gmet \subseteq GatewayFaults
HandOK ==
    \/ inHand = None
    \/ inHand \in [job : Jobs, index : Nat] /\ inHand.index \in 1..consumed[inHand.job]
ConsumeTyped ==
    /\ consumed \in [Jobs -> Nat] /\ unacked \in [Jobs -> SUBSET Nat]
    /\ \A j \in Jobs : consumed[j] <= Len(responses[j]) /\ unacked[j] \subseteq 1..consumed[j]
    /\ HandOK
CallsTyped == \A c \in calls : CallOK(c)
SentTyped  == sent \in [Jobs -> Seq(Sent)]

GatewayOK == PostTyped /\ ConsumeTyped /\ CallsTyped /\ SentTyped

(***************************************************************************)
(* What a job has behind it.  A request is delivered after it was          *)
(* published, it has responses after it was delivered; the row exists and  *)
(* the webhook's row is the client's wish before it is published.          *)
(***************************************************************************)
PathOK(j) ==
    /\ request[j] = "valid"
    /\ delivered[j] > 0 => published[j]
    /\ Len(responses[j]) > 0 => delivered[j] > 0
    /\ published[j] => post[j] \in {"accepted", "rejected"} /\ hook[j] = wantsHook[j]
                       /\ row[j].status # "none"
    /\ post[j] \in {"created", "configured", "stored", "accepted"} => row[j].status # "none"
    /\ post[j] \in {"configured", "stored", "accepted"} => hook[j] = wantsHook[j]

PathInv == TaskInv /\ GatewayOK /\ \A j \in Jobs : PathOK(j)

LEMMA TypedPipeline == PathInv => PipelineTypeOK
<1>. SUFFICES ASSUME PathInv PROVE PipelineTypeOK
    OBVIOUS
<1>1. TypeOK /\ PostTyped /\ ConsumeTyped /\ CallsTyped
    BY DEF PathInv, TaskInv, GatewayOK
<1>2. \A j \in Jobs : Len(responses[j]) \in Nat
    BY <1>1 DEF TypeOK
<1>3. ASSUME NEW j \in Jobs
      PROVE  consumed[j] \in 0..Len(responses[j]) /\ unacked[j] \subseteq 1..consumed[j]
    <2>1. /\ consumed[j] \in Nat /\ consumed[j] <= Len(responses[j])
          /\ unacked[j] \subseteq 1..consumed[j]
        BY <1>1 DEF ConsumeTyped
    <2>. QED
        BY <1>2, <2>1
<1>4. \A c \in calls : /\ c.job \in Jobs /\ c.index \in 1..consumed[c.job]
                       /\ c.stage \in {"config", "poll", "send"}
    BY <1>1 DEF CallsTyped, CallOK
<1>5. PostTyped
    BY <1>1
<1>6. G!GatewayTypeOK
    BY <1>3, <1>4, <1>5 DEF G!GatewayTypeOK, PostTyped, Row
<1>. QED
    BY <1>1, <1>6 DEF PipelineTypeOK

-----------------------------------------------------------------------------
(* The worker's steps.                                                     *)

\* One more response leaves those before it where they are.
LEMMA AppendExtends ==
    ASSUME NEW q \in Seq(Response), NEW r \in Response
    PROVE  /\ Append(q, r) \in Seq(Response) /\ Len(Append(q, r)) = Len(q) + 1
           /\ \A i \in 1..Len(q) : Append(q, r)[i] = q[i]
           /\ Append(q, r)[Len(q) + 1] = r
OBVIOUS

LEMMA ResponsesExtend ==
    ASSUME TypeOK, [Next]_vars, NEW j \in Jobs
    PROVE  /\ Len(responses[j]) \in Nat /\ Len(responses'[j]) \in Nat
           /\ Len(responses'[j]) >= Len(responses[j])
           /\ \A i \in 1..Len(responses[j]) : responses'[j][i] = responses[j][i]
<1>1. responses[j] \in Seq(Response)
    BY DEF TypeOK
<1>2. ASSUME NEW b \in Attempt, NEW s \in Status, Publish(b, s), j = JobOf(b)
      PROVE  responses'[j] = Append(responses[j], [by |-> b, status |-> s])
             /\ [by |-> b, status |-> s] \in Response
    BY <1>2 DEF Publish, TypeOK, Response
<1>3. ASSUME NEW b \in Attempt, NEW s, Publish(b, s), j # JobOf(b)
      PROVE  responses'[j] = responses[j]
    BY <1>3 DEF Publish, TypeOK
<1>4. {"failed", "in_progress", "completed"} \subseteq Status
    BY DEF Status
<1>5. responses'[j] = responses[j] \/ \E r \in Response : responses'[j] = Append(responses[j], r)
    BY <1>2, <1>3, <1>4, StepPublishes
<1>. QED
    BY <1>1, <1>5, AppendExtends

\* The first response comes after the first delivery.
LEMMA HeardAfterDelivery ==
    ASSUME TaskInv, [Next]_vars, NEW j \in Jobs, delivered[j] = 0
    PROVE  responses'[j] = responses[j]
<1>1. ASSUME NEW b \in Attempt, JobOf(b) = j
      PROVE  pc[b] = "idle" /\ ackTask[b] = "none"
    <2>1. b[2] > delivered[j]
        BY AttemptNumber, BoundAssumption
    <2>. QED
        BY <1>1, <2>1 DEF TaskInv, TaskOK, Early
<1>2. ASSUME NEW b \in Attempt, NEW s, Publish(b, s), JobOf(b) # j
      PROVE  responses'[j] = responses[j]
    BY <1>2 DEF Publish, TaskInv, TypeOK
<1>. QED
    BY <1>1, <1>2, StepPublishes DEF TaskInv, IsRunning, Running, Guarded

LEMMA DeliveredGrows ==
    ASSUME TypeOK, [Next]_vars, NEW j \in Jobs
    PROVE  delivered'[j] \in Nat /\ delivered[j] \in Nat /\ delivered'[j] >= delivered[j]
<1>1. TypeOK'
    BY NextType
<1>2. delivered[j] \in Nat /\ delivered'[j] \in Nat
    BY <1>1, BoundAssumption DEF TypeOK
<1>3. \A a \in Attempt : Handle(a) => delivered' = delivered
    BY DEF Handle, Refuse, CheckDone, Acquire, Recheck, Work, Answer, Confirm, Excuse,
        Unwind, MarkDone, Release, Upload, WriteResult, AckMsg, NakMsg, queueVars
<1>4. \A a \in Attempt : PublishInProgress(a) => delivered' = delivered
    BY DEF PublishInProgress, queueVars
<1>5. \A i \in Jobs, w \in Workers : Fetch(w, i) => delivered'[j] >= delivered[j]
    BY <1>2, BoundAssumption DEF Fetch, TypeOK
<1>6. \A i \in Jobs : AckWaitElapses(i) \/ HeartbeatLost(i) \/ LockExpires(i) \/ LockLapses(i)
                      \/ DoneExpires(i) => delivered' = delivered
    BY DEF AckWaitElapses, HeartbeatLost, LockExpires, LockLapses, DoneExpires, queueVars
<1>7. \A w \in Workers : Crash(w) \/ Shutdown(w) \/ Restart(w) => delivered' = delivered
    BY DEF Crash, Shutdown, Restart, Stop, queueVars
<1>. QED
    BY <1>2, <1>3, <1>4, <1>5, <1>6, <1>7 DEF Next, vars

LEMMA WorkerPath ==
    ASSUME PathInv, WorkerStep
    PROVE  PathInv'
<1>0. TypeOK /\ [Next]_vars /\ TypeOK' /\ UNCHANGED gatewayVars
    BY NextType DEF PathInv, TaskInv, WorkerStep
<1>. USE <1>0 DEF gatewayVars
<1>1. TaskInv'
    BY TaskStep DEF PathInv, TaskInv
<1>2. PostTyped' /\ CallsTyped' /\ SentTyped' /\ HandOK'
    BY DEF PathInv, GatewayOK, PostTyped, CallsTyped, CallOK, SentTyped, ConsumeTyped, HandOK
<1>3. ASSUME NEW j \in Jobs
      PROVE  consumed'[j] <= Len(responses'[j]) /\ unacked'[j] \subseteq 1..consumed'[j]
    <2>1. /\ consumed[j] <= Len(responses[j]) /\ unacked[j] \subseteq 1..consumed[j]
          /\ consumed[j] \in Nat
        BY DEF PathInv, GatewayOK, ConsumeTyped
    <2>. QED
        BY <2>1, ResponsesExtend
<1>4. ConsumeTyped'
    BY <1>2, <1>3 DEF PathInv, GatewayOK, ConsumeTyped
<1>5. ASSUME NEW j \in Jobs
      PROVE  PathOK(j)'
    <2>1. PathOK(j) /\ request' = request
        BY RequestConstant DEF PathInv
    <2>2. delivered'[j] > 0 => published[j]
        BY <2>1 DEF WorkerStep, PathOK
    <2>3. Len(responses'[j]) > 0 => delivered'[j] > 0
        <3>1. CASE delivered[j] = 0
            <4>1. Len(responses[j]) \in Nat
                BY ResponsesExtend
            <4>. QED
                BY <2>1, <3>1, <4>1, HeardAfterDelivery DEF PathOK, PathInv
        <3>. QED
            BY <3>1, DeliveredGrows
    <2>. QED
        BY <2>1, <2>2, <2>3 DEF PathOK
<1>. QED
    BY <1>1, <1>2, <1>4, <1>5 DEF PathInv, GatewayOK

-----------------------------------------------------------------------------
(* The gateway's steps.                                                    *)

LEMMA ResultStored ==
    ASSUME GatewayStep
    PROVE  \/ resultJson' = resultJson
           \/ \E j \in Jobs, stored \in StoredAs :
                  post[j] = "configured" /\ resultJson' = [resultJson EXCEPT ![j] = stored]
<1>1. ASSUME NEW j \in Jobs, G!Post(j)
      PROVE  \/ resultJson' = resultJson
             \/ \E stored \in StoredAs :
                    post[j] = "configured" /\ resultJson' = [resultJson EXCEPT ![j] = stored]
    BY <1>1 DEF G!Post, G!CreateAsyncJob, G!SaveWebhookConfig, G!StoreFile,
                G!CreateAsyncJobFile, G!PostStep
<1>2. G!Consume => resultJson' = resultJson
    BY DEF G!Consume, G!UpdateJobStatus, G!Receive, G!Redeliver, G!postVars
<1>3. G!Report => resultJson' = resultJson
    BY DEF G!Report, G!GetWebhookConfig, G!FindResult, G!GiveUpOnResult, G!SendWebhook, G!postVars
<1>4. G!Read => resultJson' = resultJson
    BY DEF G!Read, G!GetJob, G!CacheExpires, G!SetCachedJobResult, G!postVars
<1>5. G!RestartGateway => resultJson' = resultJson
    BY DEF G!RestartGateway
<1>. QED
    BY <1>1, <1>2, <1>3, <1>4, <1>5 DEF GatewayStep, G!GatewayNext

LEMMA GatewaySpares ==
    ASSUME TaskInv, GatewayStep
    PROVE  TaskInv' /\ TypeOK'
<1>1. TypeOK
    BY DEF TaskInv
<1>2. resultJson' \in [Jobs -> Attempt \cup {None, Audio}]
    BY <1>1, ResultStored, StoredAssumption DEF TypeOK
<1>3. UNCHANGED <<request, msg, delivered, lockKey, responses, pc, host, ackTask, up, budget, met>>
    BY DEF GatewayStep, workerVars, queueVars, taskVars, faultVars
<1>4. TypeOK'
    BY <1>1, <1>2, <1>3 DEF TypeOK
<1>5. ASSUME NEW a \in Attempt
      PROVE  TaskOK(a)'
    BY <1>3 DEF TaskInv, TaskOK, Early, Parses
<1>. QED
    BY <1>4, <1>5 DEF TaskInv

\* A fault of the gateway, or none, keeps the budget typed.
LEMMA GatewayFaultType ==
    ASSUME PostTyped, (\E kind : G!Hit(kind)) \/ G!Smooth
    PROVE  gbudget' \in 0..MaxGatewayFaults /\ gmet' \subseteq GatewayFaults /\ gmet \subseteq gmet'
BY PipelineAssumption DEF PostTyped, G!Hit, G!Smooth, G!gfaultVars

\* PostJob.
LEMMA PostPath ==
    ASSUME PathInv, GatewayStep, NEW j \in Jobs, G!Post(j)
    PROVE  GatewayOK' /\ \A i \in Jobs : PathOK(i)'
<1>0. /\ PostTyped /\ ConsumeTyped /\ CallsTyped /\ SentTyped
      /\ UNCHANGED <<request, delivered, responses>>
    BY DEF PathInv, GatewayOK, GatewayStep, workerVars, queueVars
<1>1. UNCHANGED <<wantsHook, consumed, unacked, inHand, calls, sent>>
    BY DEF G!Post, G!CreateAsyncJob, G!SaveWebhookConfig, G!StoreFile, G!CreateAsyncJobFile,
           G!consumeVars, G!hookVars
<1>2. ConsumeTyped' /\ CallsTyped' /\ SentTyped'
    BY <1>0, <1>1 DEF ConsumeTyped, HandOK, CallsTyped, CallOK, SentTyped
<1>3. (\E kind : G!Hit(kind)) \/ G!Smooth
    BY DEF G!Post, G!CreateAsyncJob, G!SaveWebhookConfig, G!StoreFile, G!CreateAsyncJobFile
<1>4. gbudget' \in 0..MaxGatewayFaults /\ gmet' \subseteq GatewayFaults
    BY <1>0, <1>3, GatewayFaultType
<1>5. PathOK(j)
    BY DEF PathInv
<1>6. ASSUME PostTyped', PathOK(j)',
             \A i \in Jobs \ {j} : /\ post'[i] = post[i] /\ row'[i] = row[i]
                                   /\ hook'[i] = hook[i] /\ published'[i] = published[i]
      PROVE  GatewayOK' /\ \A i \in Jobs : PathOK(i)'
    <2>1. ASSUME NEW i \in Jobs \ {j}
          PROVE  PathOK(i)'
        BY <1>0, <1>1, <1>6 DEF PathInv, PathOK
    <2>. QED
        BY <1>2, <1>6, <2>1 DEF GatewayOK
<1>7. G!NewRow \in Row /\ G!NewRow.status = "pending"
    BY DEF G!NewRow, G!NoRow, Row, G!RowStatus
<1>. USE <1>0, <1>1, <1>4, <1>5
<1>8. CASE G!CreateAsyncJob(j)
    <2>1. UNCHANGED <<hook, file, published>> /\ post[j] = "start"
        BY <1>8 DEF G!CreateAsyncJob, G!PostStep
    <2>2. \/ post' = [post EXCEPT ![j] = "created"] /\ row' = [row EXCEPT ![j] = G!NewRow]
          \/ post' = [post EXCEPT ![j] = "rejected"] /\ row' = row
        BY <1>8 DEF G!CreateAsyncJob, G!PostStep
    <2>3. PostTyped'
        BY <1>7, <2>1, <2>2 DEF PostTyped
    <2>4. PathOK(j)'
        BY <1>7, <2>1, <2>2 DEF PathOK, PostTyped
    <2>. QED
        BY <1>6, <2>1, <2>2, <2>3, <2>4 DEF PostTyped
<1>9. CASE G!SaveWebhookConfig(j)
    <2>1. UNCHANGED <<row, file, published>> /\ post[j] = "created"
        BY <1>9 DEF G!SaveWebhookConfig, G!PostStep
    <2>2. \/ post' = [post EXCEPT ![j] = "configured"] /\ hook' = [hook EXCEPT ![j] = wantsHook[j]]
          \/ post' = [post EXCEPT ![j] = "rejected"] /\ hook' = hook
        BY <1>9 DEF G!SaveWebhookConfig, G!PostStep
    <2>3. PostTyped'
        BY <2>1, <2>2 DEF PostTyped
    <2>4. PathOK(j)'
        BY <2>1, <2>2 DEF PathOK, PostTyped
    <2>. QED
        BY <1>6, <2>1, <2>2, <2>3, <2>4 DEF PostTyped
<1>10. CASE G!StoreFile(j)
    <2>1. UNCHANGED <<row, hook, published>> /\ post[j] = "configured"
        BY <1>10 DEF G!StoreFile, G!PostStep
    <2>2. \/ post' = [post EXCEPT ![j] = "stored"] /\ file' = [file EXCEPT ![j] = TRUE]
          \/ post' = [post EXCEPT ![j] = "rejected"] /\ file' = file
        BY <1>10 DEF G!StoreFile, G!PostStep
    <2>3. PostTyped'
        BY <2>1, <2>2 DEF PostTyped
    <2>4. PathOK(j)'
        BY <2>1, <2>2 DEF PathOK, PostTyped
    <2>. QED
        BY <1>6, <2>1, <2>2, <2>3, <2>4 DEF PostTyped
<1>11. CASE G!CreateAsyncJobFile(j)
    <2>1. UNCHANGED <<row, hook, file>> /\ post[j] = "stored"
        BY <1>11 DEF G!CreateAsyncJobFile, G!PostStep
    <2>2. \/ post' = [post EXCEPT ![j] = "accepted"]
          \/ post' = [post EXCEPT ![j] = "rejected"]
        BY <1>11 DEF G!CreateAsyncJobFile, G!PostStep
    <2>3. published' = published \/ published' = [published EXCEPT ![j] = TRUE]
        BY <1>11 DEF G!CreateAsyncJobFile
    <2>4. PostTyped'
        BY <2>1, <2>2, <2>3 DEF PostTyped
    <2>5. PathOK(j)'
        BY <2>1, <2>2, <2>3 DEF PathOK, PostTyped
    <2>. QED
        BY <1>6, <2>1, <2>2, <2>3, <2>4, <2>5 DEF PostTyped
<1>. QED
    BY <1>8, <1>9, <1>10, <1>11 DEF G!Post

\* HandleAsyncResponses takes a response.
LEMMA TakePath ==
    ASSUME PathInv, GatewayStep, \E j \in Jobs : G!Receive(j) \/ G!Redeliver(j)
    PROVE  GatewayOK' /\ \A i \in Jobs : PathOK(i)'
<1>0. /\ PostTyped /\ ConsumeTyped /\ CallsTyped /\ SentTyped /\ TypeOK
      /\ UNCHANGED <<request, delivered, responses>>
    BY DEF PathInv, TaskInv, GatewayOK, GatewayStep, workerVars, queueVars
<1>1. UNCHANGED <<wantsHook, post, hook, file, published, row, calls, sent>>
    BY DEF G!Receive, G!Redeliver, G!postVars, G!hookVars
<1>2. \A i \in Jobs : PathOK(i)'
    BY <1>0, <1>1 DEF PathInv, PathOK
<1>3. (\E kind : G!Hit(kind)) \/ G!Smooth
    BY DEF G!Receive, G!Redeliver, G!Handling
<1>4. PostTyped' /\ SentTyped'
    BY <1>0, <1>1, <1>3, GatewayFaultType DEF PostTyped, SentTyped
<1>5. PICK j \in Jobs, i \in Nat :
          /\ \/ consumed' = consumed /\ i \in unacked[j]
             \/ /\ consumed' = [consumed EXCEPT ![j] = @ + 1]
                /\ i = consumed[j] + 1 /\ consumed[j] < Len(responses[j])
          /\ inHand' \in {None, [job |-> j, index |-> i]}
          /\ \/ unacked' = [unacked EXCEPT ![j] = @ \ {i}]
             \/ unacked' = [unacked EXCEPT ![j] = @ \cup {i}]
    BY <1>0 DEF G!Receive, G!Redeliver, G!Handling, ConsumeTyped
<1>6. \A k \in Jobs : consumed[k] \in Nat /\ Len(responses[k]) \in Nat
    BY <1>0 DEF ConsumeTyped, TypeOK
<1>7. /\ consumed' \in [Jobs -> Nat] /\ unacked' \in [Jobs -> SUBSET Nat]
      /\ \A k \in Jobs : consumed'[k] >= consumed[k] /\ consumed'[k] <= Len(responses[k])
    BY <1>0, <1>5, <1>6 DEF ConsumeTyped
<1>8. i \in 1..consumed'[j]
    BY <1>0, <1>5, <1>6 DEF ConsumeTyped
<1>9. HandOK'
    BY <1>5, <1>8 DEF HandOK
<1>10. \A k \in Jobs : unacked'[k] \subseteq 1..consumed'[k]
    <2>1. ASSUME NEW k \in Jobs
          PROVE  unacked[k] \subseteq 1..consumed'[k]
        <3>1. unacked[k] \subseteq 1..consumed[k] /\ consumed'[k] \in Nat
            BY <1>0, <1>7 DEF ConsumeTyped
        <3>. QED
            BY <1>6, <1>7, <3>1
    <2>2. \A k \in Jobs : unacked'[k] \subseteq unacked[k] \cup (IF k = j THEN {i} ELSE {})
        BY <1>0, <1>5 DEF ConsumeTyped
    <2>. QED
        BY <1>8, <2>1, <2>2
<1>11. ConsumeTyped'
    BY <1>0, <1>7, <1>9, <1>10 DEF ConsumeTyped
<1>12. ASSUME NEW c \in calls
       PROVE  CallOK(c)'
    <2>1. CallOK(c) /\ c.job \in Jobs
        BY <1>0 DEF CallsTyped, CallOK
    <2>2. c.index \in 1..consumed'[c.job]
        BY <1>6, <1>7, <2>1 DEF CallOK
    <2>. QED
        BY <2>1, <2>2 DEF CallOK
<1>. QED
    BY <1>1, <1>2, <1>4, <1>11, <1>12 DEF GatewayOK, CallsTyped

\* What an update leaves in a row.
LEMMA UpdatedRow ==
    ASSUME NEW r \in Row, NEW status \in Status
    PROVE  G!Updated(r, status) \in Row /\ G!Updated(r, status).status = status
BY DEF G!Updated, G!FinishedAt, Row, G!RowStatus, Status

\* The goroutine that reports a response.
LEMMA NewCall ==
    ASSUME NEW j, NEW i, NEW status
    PROVE  \E n : G!Call(j, i, status) =
                     [job |-> j, index |-> i, status |-> status, result |-> FALSE,
                      stage |-> "config", nth |-> n]
BY Zenon DEF G!Call

\* UpdateJobStatus: the row follows the response in hand, and a terminal one
\* gets a call, or a statement fails.
LEMMA UpdatePath ==
    ASSUME PathInv, GatewayStep, G!UpdateJobStatus
    PROVE  /\ GatewayOK' /\ \A i \in Jobs : PathOK(i)'
           /\ \E j \in Jobs : \E i \in 1..consumed[j] : \E s \in Status :
                 /\ inHand = [job |-> j, index |-> i] /\ s = responses[j][i].status
                 /\ \/ /\ row'[j].status = s /\ \A k \in Jobs \ {j} : row'[k] = row[k]
                       /\ calls' = calls \cup {G!Call(j, i, t) : t \in {s} \cap Terminal}
                       /\ gmet' = gmet
                    \/ row' = row /\ calls' = calls /\ "postgres" \in gmet'
<1>0. /\ PostTyped /\ ConsumeTyped /\ CallsTyped /\ SentTyped /\ TypeOK
      /\ UNCHANGED <<request, delivered, responses>>
    BY DEF PathInv, TaskInv, GatewayOK, GatewayStep, workerVars, queueVars
<1>1. UNCHANGED <<wantsHook, post, hook, file, published, consumed, unacked, sent>> /\ inHand' = None
    BY DEF G!UpdateJobStatus, G!postVars
<1>2. PICK j \in Jobs, i \in Nat : i \in 1..consumed[j] /\ inHand = [job |-> j, index |-> i]
    BY <1>0 DEF ConsumeTyped, HandOK, G!UpdateJobStatus
<1>3. consumed[j] \in Nat /\ consumed[j] <= Len(responses[j]) /\ responses[j] \in Seq(Response)
    BY <1>0 DEF ConsumeTyped, TypeOK
<1>4. i \in 1..Len(responses[j]) /\ i \in Nat
    BY <1>2, <1>3
<1>5. responses[j][i] \in Response
    BY <1>3, <1>4
<1>6. PICK s \in Status : s = responses[j][i].status
    BY <1>5 DEF Response
<1>7. /\ row[j] \in Row /\ row[j] # G!NoRow
    <2>1. Len(responses[j]) > 0
        BY <1>3, <1>4
    <2>. QED
        BY <1>0, <2>1 DEF PathInv, PathOK, PostTyped, G!NoRow
<1>8. \/ /\ row' = [row EXCEPT ![j] = G!Updated(row[j], s)]
         /\ calls' = calls \cup {G!Call(j, i, t) : t \in {s} \cap Terminal}
         /\ G!Smooth
      \/ G!Hit("postgres") /\ UNCHANGED <<row, calls>>
    BY <1>2, <1>6, <1>7 DEF G!UpdateJobStatus, G!Terminal, Terminal
<1>9. G!Updated(row[j], s) \in Row /\ G!Updated(row[j], s).status = s
    BY <1>7, UpdatedRow
<1>10. PostTyped' /\ SentTyped'
    BY <1>0, <1>1, <1>8, <1>9, GatewayFaultType DEF PostTyped, SentTyped
<1>11. \/ row'[j].status = s /\ \A k \in Jobs \ {j} : row'[k] = row[k]
       \/ row' = row
    BY <1>0, <1>8, <1>9 DEF PostTyped
<1>12. \A k \in Jobs : PathOK(k)'
    <2>1. \A k \in Jobs : row[k].status # "none" => row'[k].status # "none"
        BY <1>11 DEF Status
    <2>. QED
        BY <1>0, <1>1, <2>1 DEF PathInv, PathOK
<1>13. ConsumeTyped'
    BY <1>0, <1>1 DEF ConsumeTyped, HandOK
<1>14. ASSUME NEW t \in {s} \cap Terminal, NEW c, c = G!Call(j, i, t)
       PROVE  CallOK(c)'
    <2>1. PICK n : c = [job |-> j, index |-> i, status |-> t, result |-> FALSE,
                        stage |-> "config", nth |-> n]
        BY <1>14, NewCall
    <2>. QED
        BY <1>1, <1>2, <2>1 DEF CallOK
<1>15. CallsTyped'
    <2>1. ASSUME NEW c \in calls
          PROVE  CallOK(c)'
        BY <1>0, <1>1 DEF CallsTyped, CallOK
    <2>2. ASSUME NEW c \in calls', c \notin calls
          PROVE  \E t \in {s} \cap Terminal : c = G!Call(j, i, t)
        BY <1>8, <2>2
    <2>. QED
        BY <1>14, <2>1, <2>2 DEF CallsTyped
<1>16. \/ /\ row'[j].status = s /\ \A k \in Jobs \ {j} : row'[k] = row[k]
          /\ calls' = calls \cup {G!Call(j, i, t) : t \in {s} \cap Terminal}
          /\ gmet' = gmet
       \/ row' = row /\ calls' = calls /\ "postgres" \in gmet'
    BY <1>0, <1>8, <1>9 DEF PostTyped, G!Smooth, G!gfaultVars, G!Hit
<1>. QED
    BY <1>2, <1>6, <1>10, <1>12, <1>13, <1>15, <1>16 DEF GatewayOK

\* What a step of sendWebhookForJob makes of its call c: d, a goroutine that
\* is further; nothing; or a webhook.
GoesOn(c, d) ==
    /\ CallOK(d) /\ d.job = c.job /\ d.index = c.index
    /\ d.status = "completed" => c.status = "completed"
    /\ d.status = "completed" /\ d.stage = "send" =>
           /\ resultJson[c.job] # None
           /\ d.result \/ resultJson[c.job] = Audio \/ "minio" \in gmet'
Fails(c)   == ~hook[c.job] \/ {"postgres", "webhook"} \cap gmet' # {}
Reports(c) == sent' = [sent EXCEPT ![c.job] =
                          Append(@, [index |-> c.index, status |-> c.status, result |-> c.result])]
CallStep(c) ==
    \/ \E d : GoesOn(c, d) /\ calls' = (calls \ {c}) \cup {d} /\ sent' = sent
    \/ Fails(c) /\ calls' = calls \ {c} /\ sent' = sent
    \/ c.stage = "send" /\ Reports(c) /\ calls' = calls \ {c}

LEMMA CallFields ==
    ASSUME NEW j, NEW i, NEW t, NEW r, NEW g, NEW n, NEW value
    PROVE  /\ [[job |-> j, index |-> i, status |-> t, result |-> r, stage |-> g, nth |-> n]
                  EXCEPT !.stage = value] =
              [job |-> j, index |-> i, status |-> t, result |-> r, stage |-> value, nth |-> n]
           /\ [[job |-> j, index |-> i, status |-> t, result |-> r, stage |-> g, nth |-> n]
                  EXCEPT !.result = value] =
              [job |-> j, index |-> i, status |-> t, result |-> value, stage |-> g, nth |-> n]
           /\ [[job |-> j, index |-> i, status |-> t, result |-> r, stage |-> g, nth |-> n]
                  EXCEPT !.status = value] =
              [job |-> j, index |-> i, status |-> value, result |-> r, stage |-> g, nth |-> n]
OBVIOUS

\* A call with another stage, status or result is a call.
LEMMA CallStaged ==
    ASSUME NEW c, CallOK(c), NEW stage \in {"config", "poll", "send"}
    PROVE  LET d == [c EXCEPT !.stage = stage] IN
           /\ CallOK(d) /\ d.job = c.job /\ d.index = c.index
           /\ d.status = c.status /\ d.result = c.result /\ d.stage = stage
<1>. DEFINE d == [job |-> c.job, index |-> c.index, status |-> c.status,
                  result |-> c.result, stage |-> stage, nth |-> c.nth]
<1>1. [c EXCEPT !.stage = stage] = d
    BY CallFields DEF CallOK
<1>2. /\ CallOK(d) /\ d.job = c.job /\ d.index = c.index
      /\ d.status = c.status /\ d.result = c.result /\ d.stage = stage
    BY DEF CallOK
<1>. QED
    BY <1>1, <1>2

LEMMA CallResult ==
    ASSUME NEW c, CallOK(c), NEW result \in BOOLEAN
    PROVE  LET d == [c EXCEPT !.result = result] IN
           /\ CallOK(d) /\ d.job = c.job /\ d.index = c.index
           /\ d.status = c.status /\ d.result = result
<1>. DEFINE d == [job |-> c.job, index |-> c.index, status |-> c.status,
                  result |-> result, stage |-> c.stage, nth |-> c.nth]
<1>1. [c EXCEPT !.result = result] = d
    BY CallFields DEF CallOK
<1>2. /\ CallOK(d) /\ d.job = c.job /\ d.index = c.index
      /\ d.status = c.status /\ d.result = result
    BY DEF CallOK
<1>. QED
    BY <1>1, <1>2

LEMMA CallStatus ==
    ASSUME NEW c, CallOK(c), NEW status \in Terminal
    PROVE  LET d == [c EXCEPT !.status = status] IN
           /\ CallOK(d) /\ d.job = c.job /\ d.index = c.index /\ d.status = status
<1>. DEFINE d == [job |-> c.job, index |-> c.index, status |-> status,
                  result |-> c.result, stage |-> c.stage, nth |-> c.nth]
<1>1. [c EXCEPT !.status = status] = d
    BY CallFields DEF CallOK
<1>2. /\ CallOK(d) /\ d.job = c.job /\ d.index = c.index /\ d.status = status
    BY DEF CallOK
<1>. QED
    BY <1>1, <1>2

LEMMA ReportStep ==
    ASSUME PathInv, G!Report
    PROVE  /\ \E c \in calls : CallOK(c) /\ CallStep(c)
           /\ (\E kind : G!Hit(kind)) \/ G!Smooth
           /\ UNCHANGED <<G!postVars, row, G!consumeVars>>
<1>1. PICK c \in calls : \/ G!GetWebhookConfig(c) \/ G!FindResult(c)
                         \/ G!GiveUpOnResult(c) \/ G!SendWebhook(c)
    BY DEF G!Report
<1>2. CallOK(c) /\ c.result \in BOOLEAN /\ c.status \in Terminal /\ Terminal = {"completed", "failed"}
    BY DEF PathInv, GatewayOK, CallsTyped, CallOK, Terminal
<1>. USE <1>2
<1>3. CASE G!GetWebhookConfig(c)
    <2>1. CASE G!Becomes(c, [c EXCEPT !.stage = IF c.status = "completed" THEN "poll" ELSE "send"])
               /\ G!Smooth
        <3>. DEFINE stage == IF c.status = "completed" THEN "poll" ELSE "send"
                    d     == [c EXCEPT !.stage = stage]
        <3>1. stage \in {"config", "poll", "send"}
            OBVIOUS
        <3>2. CallOK(d) /\ d.stage = stage /\ d.status = c.status /\ d.job = c.job /\ d.index = c.index
            BY <3>1, CallStaged
        <3>3. GoesOn(c, d)
            BY <3>2 DEF GoesOn
        <3>4. calls' = (calls \ {c}) \cup {d} /\ sent' = sent
            BY <1>3, <2>1 DEF G!Becomes, G!GetWebhookConfig
        <3>. QED
            BY <3>3, <3>4, <1>3, <2>1 DEF CallStep, G!GetWebhookConfig
    <2>2. CASE G!Ends(c) /\ ((~hook[c.job] /\ G!Smooth) \/ G!Hit("postgres"))
        <3>1. Fails(c)
            BY <2>2 DEF Fails, G!Hit
        <3>2. calls' = calls \ {c} /\ sent' = sent
            BY <1>3, <2>2 DEF G!Ends, G!GetWebhookConfig
        <3>. QED
            BY <1>3, <2>2, <3>1, <3>2 DEF CallStep, G!GetWebhookConfig
    <2>. QED
        BY <1>3, <2>1, <2>2 DEF G!GetWebhookConfig
<1>4. CASE G!FindResult(c)
    <2>1. CASE G!Becomes(c, [c EXCEPT !.stage = "send", !.result = resultJson[c.job] # Audio])
               /\ G!Smooth
        <3>. DEFINE result == resultJson[c.job] # Audio
                    e      == [c EXCEPT !.stage = "send"]
                    d      == [e EXCEPT !.result = result]
        <3>1. result \in BOOLEAN
            OBVIOUS
        <3>2. CallOK(d) /\ d.result = result /\ d.status = c.status /\ d.job = c.job /\ d.index = c.index
            <4>1. CallOK(e) /\ e.job = c.job /\ e.index = c.index /\ e.status = c.status
                BY CallStaged
            <4>. HIDE DEF e
            <4>2. CallOK(d) /\ d.job = e.job /\ d.index = e.index
                  /\ d.status = e.status /\ d.result = result
                BY <3>1, <4>1, CallResult
            <4>. QED
                BY <4>1, <4>2
        <3>3. GoesOn(c, d)
            BY <1>4, <3>2 DEF GoesOn, G!FindResult
        <3>4. calls' = (calls \ {c}) \cup {d} /\ sent' = sent
            BY <1>4, <2>1 DEF G!Becomes, G!FindResult
        <3>. QED
            BY <3>3, <3>4, <1>4, <2>1 DEF CallStep, G!FindResult
    <2>2. CASE G!Becomes(c, [c EXCEPT !.stage = "send"]) /\ G!Hit("minio")
        <3>. DEFINE d == [c EXCEPT !.stage = "send"]
        <3>1. CallOK(d) /\ d.status = c.status /\ d.job = c.job /\ d.index = c.index
            BY CallStaged
        <3>2. GoesOn(c, d)
            BY <1>4, <2>2, <3>1 DEF GoesOn, G!FindResult, G!Hit
        <3>3. calls' = (calls \ {c}) \cup {d} /\ sent' = sent
            BY <1>4, <2>2 DEF G!Becomes, G!FindResult
        <3>. QED
            BY <3>2, <3>3, <1>4, <2>2 DEF CallStep, G!FindResult
    <2>. QED
        BY <1>4, <2>1, <2>2 DEF G!FindResult
<1>5. CASE G!GiveUpOnResult(c)
    <2>. DEFINE e == [c EXCEPT !.stage = "send"]
                d == [e EXCEPT !.status = "failed"]
    <2>1. CallOK(d) /\ d.status = "failed" /\ d.job = c.job /\ d.index = c.index
        <3>1. CallOK(e) /\ e.job = c.job /\ e.index = c.index
            BY CallStaged
        <3>. HIDE DEF e
        <3>2. CallOK(d) /\ d.job = e.job /\ d.index = e.index /\ d.status = "failed"
            BY <3>1, CallStatus
        <3>. QED
            BY <3>1, <3>2
    <2>2. GoesOn(c, d)
        BY <2>1 DEF GoesOn
    <2>3. calls' = (calls \ {c}) \cup {d} /\ sent' = sent
        BY <1>5 DEF G!Becomes, G!GiveUpOnResult
    <2>. QED
        BY <2>2, <2>3, <1>5 DEF CallStep, G!GiveUpOnResult
<1>6. CASE G!SendWebhook(c)
    <2>1. CASE Reports(c) /\ G!Smooth
        BY <1>6, <2>1 DEF CallStep, G!SendWebhook, G!Ends
    <2>2. CASE UNCHANGED sent /\ G!Hit("webhook")
        <3>1. Fails(c)
            BY <2>2 DEF Fails, G!Hit
        <3>. QED
            BY <1>6, <2>2, <3>1 DEF CallStep, G!SendWebhook, G!Ends
    <2>. QED
        BY <1>6, <2>1, <2>2 DEF G!SendWebhook, Reports
<1>. QED
    BY <1>1, <1>3, <1>4, <1>5, <1>6

LEMMA ReportPath ==
    ASSUME PathInv, GatewayStep, G!Report
    PROVE  GatewayOK' /\ \A i \in Jobs : PathOK(i)'
<1>0. /\ PostTyped /\ ConsumeTyped /\ CallsTyped /\ SentTyped
      /\ UNCHANGED <<request, delivered, responses>>
    BY DEF PathInv, GatewayOK, GatewayStep, workerVars, queueVars
<1>1. UNCHANGED <<wantsHook, post, hook, file, published, row, consumed, unacked, inHand>>
    BY ReportStep DEF G!postVars, G!consumeVars
<1>2. PostTyped'
    BY <1>0, <1>1, ReportStep, GatewayFaultType DEF PostTyped
<1>3. ConsumeTyped' /\ \A i \in Jobs : PathOK(i)'
    BY <1>0, <1>1 DEF ConsumeTyped, HandOK, PathInv, PathOK
<1>4. PICK c \in calls : CallOK(c) /\ CallStep(c)
    BY ReportStep
<1>5. ASSUME NEW d, CallOK(d)
      PROVE  CallOK(d)'
    BY <1>1, <1>5 DEF CallOK
<1>6. CallsTyped'
    BY <1>0, <1>4, <1>5 DEF CallsTyped, CallStep, GoesOn
<1>7. c.job \in Jobs /\ [index |-> c.index, status |-> c.status, result |-> c.result] \in Sent
    <2>1. consumed[c.job] \in Nat
        BY <1>0, <1>4 DEF ConsumeTyped, CallOK
    <2>. QED
        BY <1>4, <2>1 DEF CallOK, Sent
<1>8. SentTyped'
    <2>1. CASE Reports(c)
        <3>1. Append(sent[c.job], [index |-> c.index, status |-> c.status, result |-> c.result])
                  \in Seq(Sent)
            BY <1>0, <1>7 DEF SentTyped
        <3>. QED
            BY <1>0, <2>1, <3>1 DEF SentTyped, Reports
    <2>2. CASE sent' = sent
        BY <1>0, <2>2 DEF SentTyped
    <2>. QED
        BY <1>4, <2>1, <2>2 DEF CallStep
<1>. QED
    BY <1>2, <1>3, <1>6, <1>8 DEF GatewayOK

\* GetJob reads.
LEMMA ReadPath ==
    ASSUME PathInv, GatewayStep, G!Read
    PROVE  /\ GatewayOK' /\ \A i \in Jobs : PathOK(i)'
           /\ UNCHANGED <<wantsHook, post, hook, file, resultJson, published, row, consumed,
                          unacked, inHand, calls, sent>>
<1>0. /\ PostTyped /\ ConsumeTyped /\ CallsTyped /\ SentTyped
      /\ UNCHANGED <<request, delivered, responses>>
    BY DEF PathInv, GatewayOK, GatewayStep, workerVars, queueVars
<1>1. UNCHANGED <<wantsHook, post, hook, file, resultJson, published, row, consumed,
                  unacked, inHand, calls, sent>>
    BY DEF G!Read, G!GetJob, G!CacheExpires, G!SetCachedJobResult, G!postVars, G!consumeVars,
           G!hookVars
<1>2. (\E kind : G!Hit(kind)) \/ G!Smooth
    BY DEF G!Read, G!GetJob, G!CacheExpires, G!SetCachedJobResult, G!Smooth
<1>3. PostTyped'
    BY <1>0, <1>1, <1>2, GatewayFaultType DEF PostTyped
<1>4. ConsumeTyped' /\ CallsTyped' /\ SentTyped' /\ \A i \in Jobs : PathOK(i)'
    BY <1>0, <1>1 DEF ConsumeTyped, HandOK, CallsTyped, CallOK, SentTyped, PathInv, PathOK
<1>. QED
    BY <1>1, <1>3, <1>4 DEF GatewayOK

LEMMA RestartPath ==
    ASSUME PathInv, GatewayStep, G!RestartGateway
    PROVE  GatewayOK' /\ \A i \in Jobs : PathOK(i)'
<1>0. /\ PostTyped /\ ConsumeTyped /\ CallsTyped /\ SentTyped /\ TypeOK
      /\ UNCHANGED <<request, delivered, responses>>
    BY DEF PathInv, TaskInv, GatewayOK, GatewayStep, workerVars, queueVars
<1>1. UNCHANGED <<wantsHook, hook, file, published, row, sent>> /\ inHand' = None /\ calls' = {}
    BY DEF G!RestartGateway
<1>2. post' = [j \in Jobs |-> IF post[j] \in {"created", "configured", "stored"}
                              THEN "rejected" ELSE post[j]]
    BY DEF G!RestartGateway
<1>3. PostTyped'
    <2>1. gbudget' \in 0..MaxGatewayFaults /\ gmet' \subseteq GatewayFaults
        BY <1>0, GatewayFaultType DEF G!RestartGateway
    <2>2. post' \in [Jobs -> {"start", "created", "configured", "stored", "accepted", "rejected"}]
        BY <1>0, <1>2 DEF PostTyped
    <2>. QED
        BY <1>0, <1>1, <2>1, <2>2 DEF PostTyped
<1>4. PICK ahead \in SUBSET Jobs :
          /\ consumed' = [j \in Jobs |-> IF j \in ahead THEN Len(responses[j]) ELSE consumed[j]]
          /\ unacked' = [j \in Jobs |-> unacked[j] \cup (consumed[j] + 1)..consumed'[j]]
    BY DEF G!RestartGateway
<1>5. ASSUME NEW j \in Jobs
      PROVE  /\ consumed'[j] \in Nat /\ unacked'[j] \subseteq Nat
             /\ consumed'[j] <= Len(responses'[j]) /\ unacked'[j] \subseteq 1..consumed'[j]
    <2>1. /\ consumed[j] \in Nat /\ Len(responses[j]) \in Nat /\ consumed[j] <= Len(responses[j])
          /\ unacked[j] \subseteq 1..consumed[j]
        BY <1>0 DEF ConsumeTyped, TypeOK
    <2>2. consumed'[j] \in {consumed[j], Len(responses[j])}
        BY <1>4
    <2>3. unacked'[j] = unacked[j] \cup (consumed[j] + 1)..consumed'[j]
        BY <1>4
    <2>. QED
        BY <1>0, <2>1, <2>2, <2>3
<1>6. ConsumeTyped'
    <2>1. consumed' \in [Jobs -> Nat]
        BY <1>4, <1>5
    <2>2. unacked' \in [Jobs -> SUBSET Nat]
        BY <1>4, <1>5
    <2>. QED
        BY <1>1, <1>5, <2>1, <2>2 DEF ConsumeTyped, HandOK
<1>7. ASSUME NEW j \in Jobs
      PROVE  PathOK(j)'
    BY <1>0, <1>1, <1>2 DEF PathInv, PathOK
<1>. QED
    BY <1>0, <1>1, <1>3, <1>6, <1>7 DEF GatewayOK, CallsTyped, SentTyped

LEMMA PathStep ==
    ASSUME PathInv, WorkerStep \/ GatewayStep
    PROVE  PathInv'
<1>1. CASE WorkerStep
    BY <1>1, WorkerPath
<1>2. CASE GatewayStep
    <2>1. G!Consume => G!UpdateJobStatus \/ \E j \in Jobs : G!Receive(j) \/ G!Redeliver(j)
        BY DEF G!Consume
    <2>2. GatewayOK' /\ \A i \in Jobs : PathOK(i)'
        BY <1>2, <2>1, PostPath, TakePath, UpdatePath, ReportPath, ReadPath, RestartPath
           DEF GatewayStep, G!GatewayNext
    <2>. QED
        BY <1>2, <2>2, GatewaySpares DEF PathInv
<1>. QED
    BY <1>1, <1>2

LEMMA PathInit == PipelineInit => PathInv
<1>. SUFFICES ASSUME PipelineInit PROVE PathInv
    OBVIOUS
<1>1. TypeOK
    BY InitType DEF PipelineInit
<1>2. TaskInv
    BY <1>1 DEF PipelineInit, Init, TaskInv, TaskOK, Early
<1>3. \A j \in Jobs : responses[j] \in Seq(Response) /\ Len(responses[j]) = 0
    BY <1>1 DEF PipelineInit, Init, TypeOK
<1>4. G!NoRow \in Row
    BY DEF G!NoRow, Row, G!RowStatus
<1>5. PostTyped
    BY <1>4, PipelineAssumption DEF PipelineInit, G!GatewayInit, PostTyped
<1>6. ConsumeTyped
    <2>1. consumed = [j \in Jobs |-> 0] /\ unacked = [j \in Jobs |-> {}] /\ inHand = None
        BY DEF PipelineInit, G!GatewayInit
    <2>. QED
        BY <1>3, <2>1 DEF ConsumeTyped, HandOK
<1>7. CallsTyped /\ SentTyped
    <2>1. <<>> \in Seq(Sent)
        OBVIOUS
    <2>. QED
        BY <2>1 DEF PipelineInit, G!GatewayInit, CallsTyped, SentTyped
<1>8. ASSUME NEW j \in Jobs
      PROVE  PathOK(j)
    BY <1>3 DEF PipelineInit, Init, G!GatewayInit, PathOK
<1>. QED
    BY <1>2, <1>5, <1>6, <1>7, <1>8 DEF PathInv, GatewayOK

\* The types of the two sides together.
THEOREM PipelineTyped == PipelineSpec => []PipelineTypeOK
<1>1. PathInv /\ [PipelineNext]_pipelineVars => PathInv'
    BY PipelineSteps, PathStep
<1>. QED
    BY <1>1, PathInit, TypedPipeline, PTL DEF PipelineSpec

-----------------------------------------------------------------------------
(* A terminal row is reported.                                             *)

LEMMA GatewayMetGrows ==
    ASSUME GatewayStep
    PROVE  gmet \subseteq gmet'
<1>1. ASSUME NEW j \in Jobs, G!Post(j)
      PROVE  (\E kind : G!Hit(kind)) \/ G!Smooth
    BY <1>1 DEF G!Post, G!CreateAsyncJob, G!SaveWebhookConfig, G!StoreFile, G!CreateAsyncJobFile
<1>2. G!Consume => (\E kind : G!Hit(kind)) \/ G!Smooth
    BY DEF G!Consume, G!Receive, G!Redeliver, G!Handling, G!UpdateJobStatus
<1>3. G!Report => (\E kind : G!Hit(kind)) \/ G!Smooth
    BY DEF G!Report, G!GetWebhookConfig, G!FindResult, G!GiveUpOnResult, G!SendWebhook
<1>4. G!Read => (\E kind : G!Hit(kind)) \/ G!Smooth
    BY DEF G!Read, G!GetJob, G!CacheExpires, G!SetCachedJobResult, G!Smooth
<1>5. G!RestartGateway => (\E kind : G!Hit(kind)) \/ G!Smooth
    BY DEF G!RestartGateway
<1>6. (\E kind : G!Hit(kind)) \/ G!Smooth
    BY <1>1, <1>2, <1>3, <1>4, <1>5 DEF GatewayStep, G!GatewayNext
<1>. QED
    BY <1>6 DEF G!Hit, G!Smooth, G!gfaultVars

\* PostJob changes no row but its own, which it creates.
LEMMA PostRow ==
    ASSUME PathInv, NEW j \in Jobs, G!Post(j)
    PROVE  /\ \A i \in Jobs : \/ row'[i] = row[i]
                              \/ post[i] = "start" /\ row'[i].status = "pending"
           /\ UNCHANGED <<wantsHook, consumed, unacked, inHand, calls, sent>>
<1>1. row \in [Jobs -> Row]
    BY DEF PathInv, GatewayOK, PostTyped
<1>2. UNCHANGED <<wantsHook, consumed, unacked, inHand, calls, sent>>
    BY DEF G!Post, G!CreateAsyncJob, G!SaveWebhookConfig, G!StoreFile, G!CreateAsyncJobFile,
           G!consumeVars, G!hookVars
<1>3. \/ row' = row
      \/ post[j] = "start" /\ row' = [row EXCEPT ![j] = G!NewRow]
    BY DEF G!Post, G!CreateAsyncJob, G!SaveWebhookConfig, G!StoreFile, G!CreateAsyncJobFile,
           G!PostStep
<1>4. G!NewRow.status = "pending"
    BY DEF G!NewRow, G!NoRow
<1>. QED
    BY <1>1, <1>2, <1>3, <1>4

\* Somebody is about to report response i of job j, or has.
Told(j, i) == \/ \E c \in calls : c.job = j /\ c.index = i
              \/ \E k \in DOMAIN sent[j] : sent[j][k].index = i
HookOK(j) == wantsHook[j] /\ Terminated(j) =>
    \E i \in 1..consumed[j] : responses[j][i].status = row[j].status /\ Told(j, i)

Unreported == {"webhook", "restart", "postgres"}
HookInv == PathInv /\ (gmet \cap Unreported = {} => \A j \in Jobs : HookOK(j))

\* A step that keeps the row, and who reports it.
LEMMA HookKept ==
    ASSUME PathInv, NEW j \in Jobs, HookOK(j), wantsHook' = wantsHook,
           row'[j] = row[j] \/ row'[j].status \notin Terminal,
           consumed'[j] \in Nat, consumed'[j] >= consumed[j],
           \A i \in 1..consumed[j] : responses'[j][i] = responses[j][i],
           \A i \in 1..consumed[j] : Told(j, i) => Told(j, i)'
    PROVE  HookOK(j)'
<1>1. consumed[j] \in Nat
    BY DEF PathInv, GatewayOK, ConsumeTyped
<1>2. 1..consumed[j] \subseteq 1..consumed'[j]
    BY <1>1
<1>. QED
    BY <1>2 DEF HookOK, Terminated

\* A webhook that reached the receiver stays in the list.
LEMMA SentStays ==
    ASSUME NEW q \in Seq(Sent), NEW h \in Sent
    PROVE  /\ \A k \in DOMAIN q : k \in DOMAIN Append(q, h) /\ Append(q, h)[k] = q[k]
           /\ Len(q) + 1 \in DOMAIN Append(q, h) /\ Append(q, h)[Len(q) + 1] = h
           /\ \A k \in DOMAIN Append(q, h) : k \in DOMAIN q \/ Append(q, h)[k] = h
OBVIOUS

LEMMA ReportHook ==
    ASSUME PathInv, GatewayStep, G!Report, gmet' \cap Unreported = {},
           NEW j \in Jobs, HookOK(j)
    PROVE  HookOK(j)'
<1>0. /\ ConsumeTyped /\ SentTyped /\ TypeOK /\ responses' = responses
    BY DEF PathInv, TaskInv, GatewayOK, GatewayStep, workerVars
<1>1. UNCHANGED <<wantsHook, row, consumed>>
    BY ReportStep DEF G!postVars, G!consumeVars
<1>2. PICK c \in calls : CallOK(c) /\ CallStep(c)
    BY ReportStep
<1>3. CASE Fails(c) /\ c.job = j
    <2>1. published[j]
        <3>1. consumed[j] > 0 /\ consumed[j] <= Len(responses[j]) /\ Len(responses[j]) \in Nat
            BY <1>0, <1>2, <1>3 DEF CallOK, ConsumeTyped, TypeOK
        <3>2. Len(responses[j]) > 0
            BY <1>0, <3>1 DEF ConsumeTyped
        <3>. QED
            BY <3>2 DEF PathInv, PathOK
    <2>2. hook[j] = wantsHook[j]
        BY <2>1 DEF PathInv, PathOK
    <2>. QED
        BY <1>1, <1>3, <2>2 DEF Fails, Unreported, HookOK
<1>4. CASE ~(Fails(c) /\ c.job = j)
    <2>1. ASSUME NEW i, Told(j, i)
          PROVE  Told(j, i)'
        <3>1. CASE \E d : GoesOn(c, d) /\ calls' = (calls \ {c}) \cup {d} /\ sent' = sent
            BY <2>1, <3>1 DEF Told, GoesOn
        <3>2. CASE Fails(c) /\ calls' = calls \ {c} /\ sent' = sent
            BY <1>4, <2>1, <3>2 DEF Told
        <3>3. CASE Reports(c) /\ calls' = calls \ {c}
            <4>. DEFINE h == [index |-> c.index, status |-> c.status, result |-> c.result]
            <4>1. c.job \in Jobs /\ h \in Sent /\ h.index = c.index
                BY <1>0, <1>2 DEF CallOK, Sent, ConsumeTyped
            <4>2. sent[c.job] \in Seq(Sent) /\ sent[j] \in Seq(Sent)
                BY <1>0, <4>1 DEF SentTyped
            <4>3. sent'[c.job] = Append(sent[c.job], h)
                BY <1>0, <3>3, <4>1 DEF SentTyped, Reports
            <4>4. j # c.job => sent'[j] = sent[j]
                BY <1>0, <3>3, <4>1 DEF SentTyped, Reports
            <4>5. ASSUME NEW k \in DOMAIN sent[j]
                  PROVE  k \in DOMAIN sent'[j] /\ sent'[j][k] = sent[j][k]
                BY <4>1, <4>2, <4>3, <4>4, SentStays
            <4>6. j = c.job => \E k \in DOMAIN sent'[j] : sent'[j][k].index = c.index
                BY <4>1, <4>2, <4>3, SentStays
            <4>. QED
                BY <2>1, <3>3, <4>5, <4>6 DEF Told
        <3>. QED
            BY <1>2, <3>1, <3>2, <3>3 DEF CallStep
    <2>2. consumed'[j] \in Nat /\ consumed'[j] >= consumed[j]
        BY <1>0, <1>1 DEF ConsumeTyped
    <2>. QED
        BY <1>0, <1>1, <2>1, <2>2, HookKept
<1>. QED
    BY <1>3, <1>4

LEMMA UpdateHook ==
    ASSUME PathInv, GatewayStep, G!UpdateJobStatus, gmet' \cap Unreported = {},
           NEW j \in Jobs, HookOK(j)
    PROVE  HookOK(j)'
<1>0. ConsumeTyped /\ responses' = responses
    BY DEF PathInv, GatewayOK, GatewayStep, workerVars
<1>1. UNCHANGED <<wantsHook, consumed, sent>>
    BY DEF G!UpdateJobStatus, G!postVars
<1>2. PICK n \in Jobs : \E i \in 1..consumed[n] : \E s \in Status :
          /\ s = responses[n][i].status
          /\ \/ /\ row'[n].status = s /\ \A k \in Jobs \ {n} : row'[k] = row[k]
                /\ calls' = calls \cup {G!Call(n, i, t) : t \in {s} \cap Terminal}
             \/ row' = row /\ calls' = calls
    BY UpdatePath
<1>3. PICK i \in 1..consumed[n] : \E s \in Status :
          /\ s = responses[n][i].status
          /\ \/ /\ row'[n].status = s /\ \A k \in Jobs \ {n} : row'[k] = row[k]
                /\ calls' = calls \cup {G!Call(n, i, t) : t \in {s} \cap Terminal}
             \/ row' = row /\ calls' = calls
    BY <1>2
<1>4. PICK s \in Status :
          /\ s = responses[n][i].status
          /\ \/ /\ row'[n].status = s /\ \A k \in Jobs \ {n} : row'[k] = row[k]
                /\ calls' = calls \cup {G!Call(n, i, t) : t \in {s} \cap Terminal}
             \/ row' = row /\ calls' = calls
    BY <1>3
<1>5. \A k : Told(j, k) => Told(j, k)'
    BY <1>1, <1>4 DEF Told
<1>6. consumed'[j] \in Nat /\ consumed'[j] >= consumed[j]
    BY <1>0, <1>1 DEF ConsumeTyped
<1>7. CASE row'[j] = row[j] \/ row'[j].status \notin Terminal
    BY <1>0, <1>1, <1>5, <1>6, <1>7, HookKept
<1>8. CASE row'[j] # row[j] /\ row'[j].status \in Terminal
    <2>1. n = j /\ row'[j].status = s /\ s \in Terminal
          /\ calls' = calls \cup {G!Call(n, i, t) : t \in {s} \cap Terminal}
        BY <1>4, <1>8
    <2>2. G!Call(j, i, s) \in calls'
        BY <2>1
    <2>3. PICK c \in calls' : c = G!Call(j, i, s)
        BY <2>2
    <2>4. c.job = j /\ c.index = i
        BY <2>3, NewCall
    <2>. QED
        BY <1>0, <1>1, <1>3, <1>4, <2>1, <2>4 DEF HookOK, Told
<1>. QED
    BY <1>7, <1>8

LEMMA HookStep ==
    ASSUME HookInv, WorkerStep \/ GatewayStep
    PROVE  HookInv'
<1>. SUFFICES ASSUME gmet' \cap Unreported = {}, NEW j \in Jobs
              PROVE  HookOK(j)'
    BY PathStep DEF HookInv, Unreported
<1>1. gmet \subseteq gmet'
    BY GatewayMetGrows DEF WorkerStep, gatewayVars
<1>2. PathInv /\ HookOK(j) /\ TypeOK
    BY <1>1 DEF HookInv, PathInv, TaskInv
<1>3. /\ consumed[j] \in Nat /\ consumed[j] <= Len(responses[j]) /\ ConsumeTyped
    BY <1>2 DEF PathInv, GatewayOK, ConsumeTyped
<1>4. CASE WorkerStep
    <2>1. UNCHANGED <<wantsHook, row, consumed, calls, sent>> /\ [Next]_vars
        BY <1>4 DEF WorkerStep, gatewayVars
    <2>2. \A i \in 1..consumed[j] : responses'[j][i] = responses[j][i]
        BY <1>2, <1>3, <2>1, ResponsesExtend
    <2>. QED
        BY <1>2, <1>3, <2>1, <2>2, HookKept DEF Told
<1>5. CASE GatewayStep
    <2>0. responses' = responses
        BY <1>5 DEF GatewayStep, workerVars
    <2>1. CASE \E i \in Jobs : G!Post(i)
        BY <1>2, <1>3, <2>0, <2>1, PostRow, HookKept DEF Told, Terminal
    <2>2. CASE \E i \in Jobs : G!Receive(i) \/ G!Redeliver(i)
        <3>1. UNCHANGED <<wantsHook, row, calls, sent>>
            BY <2>2 DEF G!Receive, G!Redeliver, G!postVars, G!hookVars
        <3>2. consumed'[j] \in Nat /\ consumed'[j] >= consumed[j]
            BY <1>3, <2>2 DEF G!Receive, G!Redeliver, ConsumeTyped
        <3>. QED
            BY <1>2, <2>0, <3>1, <3>2, HookKept DEF Told
    <2>3. CASE G!UpdateJobStatus
        BY <1>2, <1>5, <2>3, UpdateHook
    <2>4. CASE G!Report
        BY <1>2, <1>5, <2>4, ReportHook
    <2>5. CASE G!Read
        BY <1>2, <1>3, <1>5, <2>0, <2>5, ReadPath, HookKept DEF Told
    <2>6. CASE G!RestartGateway
        BY <2>6 DEF G!RestartGateway, G!Hit, Unreported
    <2>. QED
        BY <1>5, <2>1, <2>2, <2>3, <2>4, <2>5, <2>6 DEF GatewayStep, G!GatewayNext, G!Consume
<1>. QED
    BY <1>4, <1>5

\* No webhook is missed: a row that says completed or failed is reported to
\* the client who asked for it, for any jobs, replicas and faults, unless the
\* receiver, the process or the database failed.  It rests on the order of
\* PostJob: the webhook is saved before the request is published.
THEOREM HooksReported == PipelineSpec => []NoMissedHook
<1>1. PipelineInit => HookInv
    BY PathInit DEF PipelineInit, G!GatewayInit, G!NoRow, HookInv, HookOK, Terminated, Terminal
<1>2. HookInv /\ [PipelineNext]_pipelineVars => HookInv'
    BY PipelineSteps, HookStep
<1>3. HookInv => NoMissedHook
    BY DEF HookInv, HookOK, Told, NoMissedHook, Unreported
<1>. QED
    BY <1>1, <1>2, <1>3, PTL DEF PipelineSpec

-----------------------------------------------------------------------------
(* A webhook that says completed is true.                                  *)

\* A handler moves by its own step, unless it is started or stopped.
LEMMA WhoMoves ==
    ASSUME TypeOK, [Next]_vars, NEW a \in Attempt
    PROVE  \/ Handle(a) \/ pc'[a] = pc[a]
           \/ /\ pc'[a] \in {"end", "refuse", "check"}
              /\ pc'[a] = "refuse" => request[JobOf(a)] # "valid"
<1>. USE DEF Goto
<1>0. pc \in [Attempt -> PC]
    BY DEF TypeOK
<1>1. ASSUME NEW b \in Attempt, Handle(b), b # a
      PROVE  pc'[a] = pc[a]
    <2>1. CASE Refuse(b) \/ CheckDone(b) \/ Acquire(b) \/ Recheck(b) \/ Work(b)
        BY <1>0, <1>1, <2>1 DEF Refuse, CheckDone, Acquire, Recheck, Work
    <2>2. CASE Answer(b) \/ Confirm(b) \/ Excuse(b) \/ Unwind(b) \/ MarkDone(b)
        BY <1>0, <1>1, <2>2 DEF Answer, Confirm, Excuse, Unwind, MarkDone
    <2>3. CASE Release(b) \/ Upload(b) \/ WriteResult(b) \/ AckMsg(b) \/ NakMsg(b)
        BY <1>0, <1>1, <2>3 DEF Release, Upload, WriteResult, AckMsg, NakMsg
    <2>. QED
        BY <1>1, <2>1, <2>2, <2>3 DEF Handle
<1>2. ASSUME NEW b \in Attempt, PublishInProgress(b)
      PROVE  pc'[a] = pc[a]
    BY <1>2 DEF PublishInProgress
<1>3. ASSUME NEW i \in Jobs, \/ AckWaitElapses(i) \/ HeartbeatLost(i)
                             \/ LockExpires(i) \/ LockLapses(i) \/ DoneExpires(i)
      PROVE  pc'[a] = pc[a]
    BY <1>3 DEF AckWaitElapses, HeartbeatLost, LockExpires, LockLapses, DoneExpires
<1>4. ASSUME NEW i \in Jobs, NEW w \in Workers, Fetch(w, i)
      PROVE  \/ pc'[a] = pc[a]
             \/ /\ pc'[a] \in {"end", "refuse", "check"}
                /\ pc'[a] = "refuse" => request[JobOf(a)] # "valid"
    BY <1>0, <1>4 DEF Fetch, JobOf, Unwelcome
<1>5. ASSUME NEW w \in Workers, Crash(w) \/ Shutdown(w) \/ Restart(w)
      PROVE  pc'[a] = pc[a] \/ pc'[a] = "end"
    BY <1>5 DEF Crash, Shutdown, Restart, Stop
<1>6. UNCHANGED vars => pc'[a] = pc[a]
    BY DEF vars
<1>. QED
    BY <1>1, <1>2, <1>3, <1>4, <1>5, <1>6 DEF Next

\* Who writes result.json.
LEMMA WhoWrites ==
    ASSUME [Next]_vars
    PROVE  \/ resultJson' = resultJson
           \/ \E b \in Attempt : /\ pc[b] = "write"
                                 /\ resultJson' = [resultJson EXCEPT ![JobOf(b)] = b]
<1>1. ASSUME NEW b \in Attempt, Handle(b)
      PROVE  \/ resultJson' = resultJson
             \/ pc[b] = "write" /\ resultJson' = [resultJson EXCEPT ![JobOf(b)] = b]
    <2>1. CASE WriteResult(b)
        BY <2>1 DEF WriteResult, Goto
    <2>2. CASE \/ Refuse(b) \/ CheckDone(b) \/ Acquire(b) \/ Recheck(b) \/ Work(b)
               \/ Answer(b) \/ Confirm(b) \/ Excuse(b) \/ Unwind(b) \/ MarkDone(b)
               \/ Release(b) \/ Upload(b) \/ AckMsg(b) \/ NakMsg(b)
        BY <2>2 DEF Refuse, CheckDone, Acquire, Recheck, Work, Answer, Confirm, Excuse,
                    Unwind, MarkDone, Release, Upload, AckMsg, NakMsg, outputVars
    <2>. QED
        BY <1>1, <2>1, <2>2 DEF Handle
<1>2. ASSUME NEW b \in Attempt, PublishInProgress(b)
      PROVE  resultJson' = resultJson
    BY <1>2 DEF PublishInProgress
<1>3. ASSUME NEW i \in Jobs, \/ AckWaitElapses(i) \/ HeartbeatLost(i)
                             \/ LockExpires(i) \/ LockLapses(i) \/ DoneExpires(i)
                             \/ \E w \in Workers : Fetch(w, i)
      PROVE  resultJson' = resultJson
    BY <1>3 DEF AckWaitElapses, HeartbeatLost, LockExpires, LockLapses, DoneExpires, Fetch,
                outputVars
<1>4. ASSUME NEW w \in Workers, Crash(w) \/ Shutdown(w) \/ Restart(w)
      PROVE  resultJson' = resultJson
    BY <1>4 DEF Crash, Shutdown, Restart, Stop, outputVars
<1>5. UNCHANGED vars => resultJson' = resultJson
    BY DEF vars
<1>. QED
    BY <1>1, <1>2, <1>3, <1>4, <1>5 DEF Next

\* The attempt's own 'completed' is on the response stream.
SaidBy(a) == \E i \in DOMAIN responses[JobOf(a)] :
                 responses[JobOf(a)][i] = [by |-> a, status |-> "completed"]

\* Past its answer a handler has said so, and it writes where nothing, or an
\* earlier attempt's result, lies.
Spoken == {"confirm", "mark", "release", "upload", "write"}
WriterOK(a) ==
    /\ pc[a] \in Spoken => SaidBy(a)
    /\ pc[a] = "write" => resultJson[JobOf(a)] # Audio
ResultOK(j) == resultJson[j] \in Attempt => JobOf(resultJson[j]) = j /\ SaidBy(resultJson[j])

\* What holds of a 'completed' that is, or may be, sent with this result.
Real(j, result) ==
    /\ Said(j, "completed")
    /\ resultJson[j] # None
    /\ result \/ resultJson[j] = Audio \/ "minio" \in gmet
CallReal(c) == c.status = "completed" =>
    Said(c.job, "completed") /\ (c.stage = "send" => Real(c.job, c.result))
SentReal(j) == \A k \in DOMAIN sent[j] :
    sent[j][k].status = "completed" => Real(j, sent[j][k].result)

RealInv ==
    /\ PathInv
    /\ \A a \in Attempt : WriterOK(a)
    /\ \A j \in Jobs : ResultOK(j) /\ SentReal(j)
    /\ \A c \in calls : CallReal(c)

LEMMA SaidByStays ==
    ASSUME TypeOK, [Next]_vars, NEW a \in Attempt, SaidBy(a)
    PROVE  SaidBy(a)'
<1>1. responses \in [Jobs -> Seq(Response)] /\ responses' \in [Jobs -> Seq(Response)] /\ JobOf(a) \in Jobs
    BY NextType, AttemptType DEF TypeOK
<1>. QED
    BY <1>1, ResponsesExtend DEF SaidBy

LEMMA WriterStep ==
    ASSUME RealInv, [Next]_vars, NEW a \in Attempt
    PROVE  WriterOK(a)'
<1>0. TypeOK /\ JobOf(a) \in Jobs /\ request[JobOf(a)] = "valid" /\ WriterOK(a)
      /\ pc \in [Attempt -> PC]
    BY AttemptType DEF RealInv, PathInv, TaskInv, PathOK, TypeOK
<1>. USE <1>0 DEF Goto
<1>1. pc[a] \in Spoken => SaidBy(a)'
    BY SaidByStays DEF WriterOK
<1>2. resultJson[JobOf(a)] # Audio => resultJson'[JobOf(a)] # Audio
    BY WhoWrites, NoneAssumption DEF TypeOK
<1>3. CASE Handle(a)
    <2>1. CASE Refuse(a) \/ CheckDone(a) \/ Acquire(a) \/ Recheck(a) \/ Work(a)
        <3>1. pc'[a] \notin Spoken
            BY <2>1 DEF Refuse, CheckDone, Acquire, Recheck, Work, Spoken
        <3>. QED
            BY <3>1 DEF WriterOK, Spoken
    <2>2. CASE Answer(a)
        <3>1. CASE Goto(a, "answer", "confirm") /\ Confirmed(a, "completed")
            <4>. DEFINE r == [by |-> a, status |-> "completed"]
            <4>1. responses[JobOf(a)] \in Seq(Response) /\ r \in Response
                BY DEF TypeOK, Response, Status
            <4>2. responses'[JobOf(a)] = Append(responses[JobOf(a)], r)
                BY <3>1 DEF Confirmed, Publish, TypeOK
            <4>3. Len(responses[JobOf(a)]) + 1 \in DOMAIN responses'[JobOf(a)]
                  /\ responses'[JobOf(a)][Len(responses[JobOf(a)]) + 1] = r
                BY <4>1, <4>2
            <4>. QED
                BY <3>1, <4>3 DEF WriterOK, SaidBy
        <3>2. CASE pc'[a] = "unconfirmed"
            BY <3>2 DEF WriterOK, Spoken
        <3>. QED
            BY <2>2, <3>1, <3>2 DEF Answer, Parses
    <2>3. CASE Confirm(a) \/ Excuse(a) \/ Unwind(a) \/ MarkDone(a) \/ Release(a)
        <3>1. pc'[a] # "write" /\ (pc'[a] \in Spoken => pc[a] \in Spoken)
            BY <2>3 DEF Confirm, Excuse, Unwind, MarkDone, Release, Spoken
        <3>. QED
            BY <1>1, <3>1 DEF WriterOK
    <2>4. CASE Upload(a)
        <3>1. /\ pc[a] = "upload" /\ resultJson' = resultJson
              /\ pc'[a] = "write" => resultJson[JobOf(a)] = None
            BY <2>4 DEF Upload, outputVars
        <3>. QED
            BY <1>1, <3>1, NoneAssumption DEF WriterOK, Spoken
    <2>5. CASE WriteResult(a) \/ AckMsg(a) \/ NakMsg(a)
        <3>1. pc'[a] \notin Spoken
            BY <2>5 DEF WriteResult, AckMsg, NakMsg, Spoken
        <3>. QED
            BY <3>1 DEF WriterOK, Spoken
    <2>. QED
        BY <1>3, <2>1, <2>2, <2>3, <2>4, <2>5 DEF Handle
<1>4. CASE pc'[a] = pc[a]
    BY <1>1, <1>2, <1>4 DEF WriterOK
<1>5. CASE pc'[a] \in {"end", "refuse", "check"}
    BY <1>5 DEF WriterOK, Spoken
<1>. QED
    BY <1>3, <1>4, <1>5, WhoMoves

\* Nothing is said of a job whose file is still to be stored.
LEMMA SaidIsPublished ==
    ASSUME PathInv, NEW j \in Jobs, Len(responses[j]) > 0
    PROVE  post[j] # "configured"
BY DEF PathInv, PathOK

LEMMA SaidHasLength ==
    ASSUME TypeOK, NEW j \in Jobs, NEW i \in DOMAIN responses[j]
    PROVE  Len(responses[j]) > 0
<1>1. responses[j] \in Seq(Response)
    BY DEF TypeOK
<1>. QED
    BY <1>1

LEMMA RealStays ==
    ASSUME RealInv, WorkerStep \/ GatewayStep, NEW j \in Jobs, NEW result, Real(j, result)
    PROVE  Real(j, result)'
<1>0. TypeOK /\ PathInv /\ resultJson \in [Jobs -> Attempt \cup {None, Audio}]
    BY DEF RealInv, PathInv, TaskInv, TypeOK
<1>1. CASE WorkerStep
    <2>1. [Next]_vars /\ gmet' = gmet
        BY <1>1 DEF WorkerStep, gatewayVars
    <2>2. Said(j, "completed")'
        BY <1>0, <2>1, ResponsesGrow DEF Real, Status
    <2>3. resultJson'[j] # None /\ (resultJson[j] = Audio => resultJson'[j] = Audio)
        BY <1>0, <2>1, WhoWrites, NoneAssumption DEF Real, RealInv, WriterOK
    <2>. QED
        BY <2>1, <2>2, <2>3 DEF Real
<1>2. CASE GatewayStep
    <2>1. responses' = responses /\ gmet \subseteq gmet'
        BY <1>2, GatewayMetGrows DEF GatewayStep, workerVars
    <2>2. post[j] # "configured"
        BY <1>0, SaidHasLength, SaidIsPublished DEF Real, Said
    <2>3. resultJson'[j] = resultJson[j]
        BY <1>0, <1>2, <2>2, ResultStored
    <2>. QED
        BY <2>1, <2>3 DEF Real, Said
<1>. QED
    BY <1>1, <1>2

LEMMA ResultStep ==
    ASSUME RealInv, WorkerStep \/ GatewayStep, NEW j \in Jobs
    PROVE  ResultOK(j)'
<1>0. TypeOK /\ PathInv /\ resultJson \in [Jobs -> Attempt \cup {None, Audio}] /\ ResultOK(j)
    BY DEF RealInv, PathInv, TaskInv, TypeOK
<1>1. CASE WorkerStep
    <2>1. [Next]_vars
        BY <1>1 DEF WorkerStep
    <2>2. CASE resultJson'[j] = resultJson[j]
        <3>1. ASSUME NEW a \in Attempt, a = resultJson[j]
              PROVE  JobOf(a) = j /\ SaidBy(a)'
            BY <1>0, <2>1, <3>1, SaidByStays DEF ResultOK
        <3>. QED
            BY <2>2, <3>1 DEF ResultOK, SaidBy
    <2>3. ASSUME NEW b \in Attempt, pc[b] = "write", JobOf(b) = j, resultJson'[j] = b
          PROVE  ResultOK(j)'
        <3>1. SaidBy(b)'
            BY <1>0, <2>1, <2>3, SaidByStays DEF RealInv, WriterOK, Spoken
        <3>. QED
            BY <2>3, <3>1 DEF ResultOK, SaidBy
    <2>. QED
        BY <1>0, <2>1, <2>2, <2>3, WhoWrites
<1>2. CASE GatewayStep
    <2>1. responses' = responses
        BY <1>2 DEF GatewayStep, workerVars
    <2>2. resultJson'[j] = resultJson[j] \/ resultJson'[j] \in {None, Audio}
        BY <1>0, <1>2, ResultStored, StoredAssumption
    <2>. QED
        BY <1>0, <2>1, <2>2, NoneAssumption DEF ResultOK, SaidBy
<1>. QED
    BY <1>1, <1>2

\* Calls and webhooks that stay as they are.
LEMMA CallStays ==
    ASSUME RealInv, WorkerStep \/ GatewayStep, NEW c \in calls
    PROVE  CallReal(c)'
<1>1. CallReal(c) /\ c.job \in Jobs
    BY DEF RealInv, PathInv, GatewayOK, CallsTyped, CallOK
<1>2. Said(c.job, "completed") => Said(c.job, "completed")'
    <2>1. CASE WorkerStep
        BY <1>1, <2>1, ResponsesGrow DEF WorkerStep, RealInv, PathInv, TaskInv, Status
    <2>2. CASE GatewayStep
        BY <2>2 DEF GatewayStep, workerVars, Said
    <2>. QED
        BY <2>1, <2>2
<1>. QED
    BY <1>1, <1>2, RealStays DEF CallReal

LEMMA WebhookStays ==
    ASSUME RealInv, WorkerStep \/ GatewayStep, NEW j \in Jobs, NEW k \in DOMAIN sent[j],
           sent[j][k].status = "completed", NEW result, result = sent[j][k].result
    PROVE  Real(j, result)'
<1>1. Real(j, result)
    BY DEF RealInv, SentReal
<1>. QED
    BY <1>1, RealStays

LEMMA WebhooksKept ==
    ASSUME RealInv, WorkerStep \/ GatewayStep, NEW j \in Jobs, sent'[j] = sent[j]
    PROVE  SentReal(j)'
<1>1. ASSUME NEW k \in DOMAIN sent[j], sent[j][k].status = "completed",
             NEW result, result = sent'[j][k].result
      PROVE  Real(j, result)'
    BY <1>1, WebhookStays
<1>2. ASSUME NEW k \in DOMAIN sent'[j], sent'[j][k].status = "completed"
      PROVE  Real(j, sent[j][k].result)'
    BY <1>1, <1>2 DEF Real
<1>. QED
    BY <1>2 DEF SentReal

LEMMA ReportReal ==
    ASSUME RealInv, GatewayStep, G!Report
    PROVE  (\A c \in calls' : CallReal(c)') /\ (\A j \in Jobs : SentReal(j)')
<1>0. /\ SentTyped /\ ConsumeTyped /\ PathInv /\ responses' = responses
    BY DEF RealInv, PathInv, GatewayOK, GatewayStep, workerVars
<1>1. resultJson' = resultJson
    BY <1>0, ReportStep DEF G!postVars
<1>2. PICK c \in calls : CallOK(c) /\ CallStep(c)
    BY <1>0, ReportStep
<1>3. CallReal(c) /\ c.job \in Jobs
    BY <1>2 DEF RealInv, CallOK
<1>4. CASE \E d : GoesOn(c, d) /\ calls' = (calls \ {c}) \cup {d} /\ sent' = sent
    <2>1. PICK d : GoesOn(c, d) /\ calls' = (calls \ {c}) \cup {d} /\ sent' = sent
        BY <1>4
    <2>2. CallReal(d)'
        <3>1. d.job = c.job /\ (d.status = "completed" => c.status = "completed")
            BY <2>1 DEF GoesOn
        <3>2. d.status = "completed" => Said(d.job, "completed")'
            BY <1>0, <1>3, <3>1 DEF CallReal, Said
        <3>3. d.status = "completed" /\ d.stage = "send" =>
                  /\ resultJson'[d.job] # None
                  /\ d.result \/ resultJson'[d.job] = Audio \/ "minio" \in gmet'
            BY <1>1, <2>1, <3>1 DEF GoesOn
        <3>. QED
            BY <3>2, <3>3 DEF CallReal, Real
    <2>3. \A e \in calls' : CallReal(e)'
        BY <2>1, <2>2, CallStays
    <2>. QED
        BY <2>1, <2>3, WebhooksKept
<1>5. CASE calls' = calls \ {c} /\ sent' = sent
    BY <1>5, CallStays, WebhooksKept
<1>6. CASE c.stage = "send" /\ Reports(c) /\ calls' = calls \ {c}
    <2>. DEFINE j == c.job
                h == [index |-> c.index, status |-> c.status, result |-> c.result]
    <2>0. c.index \in Nat /\ c.status \in Terminal /\ c.result \in BOOLEAN
        <3>1. consumed[j] \in Nat
            BY <1>0, <1>3 DEF ConsumeTyped
        <3>2. c.index \in 1..consumed[j] /\ c.status \in Terminal /\ c.result \in BOOLEAN
            BY <1>2, Zenon DEF CallOK
        <3>. QED
            BY <3>1, <3>2
    <2>1. h \in Sent /\ sent[j] \in Seq(Sent)
        BY <1>0, <1>3, <2>0 DEF Sent, SentTyped
    <2>2. /\ sent'[j] = Append(sent[j], h)
          /\ \A i \in Jobs \ {j} : sent'[i] = sent[i]
        BY <1>0, <1>3, <1>6 DEF SentTyped, Reports
    <2>3. ASSUME NEW k \in DOMAIN sent'[j], sent'[j][k].status = "completed",
                 NEW result, result = sent'[j][k].result
          PROVE  Real(j, result)'
        <3>1. CASE k \in DOMAIN sent[j] /\ sent'[j][k] = sent[j][k]
            BY <1>3, <2>3, <3>1, WebhookStays
        <3>2. CASE sent'[j][k] = h
            <4>1. c.status = "completed" /\ result = c.result
                BY <2>3, <3>2
            <4>2. Real(j, result)
                BY <1>3, <1>6, <4>1 DEF CallReal
            <4>. QED
                BY <1>3, <4>2, RealStays
        <3>. QED
            BY <2>1, <2>2, <2>3, <3>1, <3>2, SentStays
    <2>4. ASSUME NEW k \in DOMAIN sent'[j], sent'[j][k].status = "completed"
          PROVE  Real(c.job, sent[c.job][k].result)'
        BY <2>3, <2>4 DEF Real
    <2>5. SentReal(c.job)'
        BY <2>4 DEF SentReal
    <2>. QED
        BY <1>6, <2>2, <2>5, CallStays, WebhooksKept
<1>. QED
    BY <1>2, <1>4, <1>5, <1>6 DEF CallStep

LEMMA RealStep ==
    ASSUME RealInv, WorkerStep \/ GatewayStep
    PROVE  RealInv'
<1>1. PathInv /\ PathInv' /\ TypeOK
    BY PathStep DEF RealInv, PathInv, TaskInv
<1>2. \A j \in Jobs : ResultOK(j)'
    BY ResultStep
<1>3. ASSUME NEW a \in Attempt
      PROVE  WriterOK(a)'
    <2>1. CASE WorkerStep
        BY <2>1, WriterStep DEF WorkerStep
    <2>2. CASE GatewayStep
        <3>1. responses' = responses /\ pc' = pc /\ WriterOK(a) /\ JobOf(a) \in Jobs
              /\ resultJson \in [Jobs -> Attempt \cup {None, Audio}]
            BY <1>1, <2>2, AttemptType DEF GatewayStep, workerVars, RealInv, TypeOK
        <3>2. pc[a] = "write" => post[JobOf(a)] # "configured"
            BY <1>1, <3>1, SaidHasLength, SaidIsPublished DEF WriterOK, Spoken, SaidBy
        <3>3. pc[a] = "write" => resultJson'[JobOf(a)] = resultJson[JobOf(a)]
            BY <2>2, <3>1, <3>2, ResultStored
        <3>. QED
            BY <3>1, <3>3 DEF WriterOK, SaidBy
    <2>. QED
        BY <2>1, <2>2
<1>4. (\A c \in calls' : CallReal(c)') /\ (\A j \in Jobs : SentReal(j)')
    <2>1. CASE calls' \subseteq calls /\ sent' = sent
        BY <2>1, CallStays, WebhooksKept
    <2>2. CASE WorkerStep
        BY <2>1, <2>2 DEF WorkerStep, gatewayVars
    <2>3. CASE GatewayStep /\ G!Report
        BY <2>3, ReportReal
    <2>4. CASE GatewayStep /\ G!UpdateJobStatus
        <3>1. sent' = sent
            BY <2>4 DEF G!UpdateJobStatus
        <3>2. PICK j \in Jobs : \E i \in 1..consumed[j] : \E s \in Status :
                  /\ s = responses[j][i].status
                  /\ \/ calls' = calls \cup {G!Call(j, i, t) : t \in {s} \cap Terminal}
                     \/ calls' = calls
            BY <1>1, <2>4, UpdatePath
        <3>3. PICK i \in 1..consumed[j] : \E s \in Status :
                  /\ s = responses[j][i].status
                  /\ \/ calls' = calls \cup {G!Call(j, i, t) : t \in {s} \cap Terminal}
                     \/ calls' = calls
            BY <3>2
        <3>4. responses'[j] = responses[j] /\ i \in DOMAIN responses[j]
            <4>1. /\ consumed[j] \in Nat /\ consumed[j] <= Len(responses[j])
                  /\ responses[j] \in Seq(Response)
                BY <1>1 DEF PathInv, GatewayOK, ConsumeTyped, TypeOK
            <4>. QED
                BY <2>4, <4>1 DEF GatewayStep, workerVars
        <3>5. ASSUME NEW t, t = responses[j][i].status, NEW c, c = G!Call(j, i, t)
              PROVE  CallReal(c)'
            <4>1. c.job = j /\ c.status = t /\ c.stage = "config"
                BY <3>5, NewCall
            <4>2. t = "completed" => Said(j, "completed")'
                BY <3>4, <3>5 DEF Said
            <4>. QED
                BY <4>1, <4>2 DEF CallReal
        <3>6. \A c \in calls' : c \in calls \/ \E t : t = responses[j][i].status /\ c = G!Call(j, i, t)
            BY <3>3
        <3>. QED
            BY <2>4, <3>1, <3>5, <3>6, CallStays, WebhooksKept
    <2>5. CASE GatewayStep /\ \E j \in Jobs : G!Receive(j) \/ G!Redeliver(j)
        BY <2>1, <2>5 DEF G!Receive, G!Redeliver, G!hookVars
    <2>6. CASE GatewayStep /\ \E j \in Jobs : G!Post(j)
        BY <1>1, <2>1, <2>6, PostRow
    <2>7. CASE GatewayStep /\ G!Read
        BY <1>1, <2>1, <2>7, ReadPath
    <2>8. CASE GatewayStep /\ G!RestartGateway
        BY <2>1, <2>8 DEF G!RestartGateway
    <2>. QED
        BY <2>2, <2>3, <2>4, <2>5, <2>6, <2>7, <2>8 DEF GatewayStep, G!GatewayNext, G!Consume
<1>. QED
    BY <1>1, <1>2, <1>3, <1>4 DEF RealInv

LEMMA RealInit == PipelineInit => RealInv
<1>. SUFFICES ASSUME PipelineInit PROVE RealInv
    OBVIOUS
<1>1. \A a \in Attempt : WriterOK(a)
    BY DEF PipelineInit, Init, WriterOK, Spoken
<1>2. \A j \in Jobs : ResultOK(j)
    BY NoneAssumption DEF PipelineInit, ResultOK
<1>3. calls = {} /\ \A j \in Jobs : sent[j] = <<>>
    BY DEF PipelineInit, G!GatewayInit
<1>4. ASSUME NEW j \in Jobs
      PROVE  SentReal(j)
    <2>1. sent[j] \in Seq(Sent) /\ Len(sent[j]) = 0
        <3>1. <<>> \in Seq(Sent) /\ Len(<<>>) = 0
            OBVIOUS
        <3>. QED
            BY <1>3, <3>1
    <2>2. DOMAIN sent[j] = {}
        BY <2>1
    <2>. QED
        BY <2>2 DEF SentReal
<1>. QED
    BY <1>1, <1>2, <1>3, <1>4, PathInit DEF RealInv

\* A webhook that says completed is true, for any jobs, replicas and faults
\* of both sides: an attempt has published 'completed' and its author stored
\* result.json, unless the client's own file lies there.
THEOREM HooksReal == PipelineSpec => []CompletedHookIsReal
<1>1. PipelineInit => RealInv
    BY RealInit
<1>2. RealInv /\ [PipelineNext]_pipelineVars => RealInv'
    BY PipelineSteps, RealStep
<1>3. RealInv => CompletedHookIsReal
    <2>. SUFFICES ASSUME RealInv, NEW j \in Jobs, NEW k \in DOMAIN sent[j],
                         sent[j][k].status = "completed"
                  PROVE  /\ sent[j][k].result \/ resultJson[j] = Audio \/ "minio" \in gmet
                         /\ \/ resultJson[j] = Audio /\ Said(j, "completed")
                            \/ \E i \in DOMAIN responses[j] :
                                   responses[j][i] = [by |-> resultJson[j], status |-> "completed"]
        BY DEF CompletedHookIsReal
    <2>1. Real(j, sent[j][k].result) /\ ResultOK(j)
        BY DEF RealInv, SentReal
    <2>2. resultJson[j] \in Attempt \/ resultJson[j] = Audio
        BY <2>1 DEF Real, RealInv, PathInv, TaskInv, TypeOK
    <2>. QED
        BY <2>1, <2>2 DEF Real, ResultOK, SaidBy
<1>. QED
    BY <1>1, <1>2, <1>3, PTL DEF PipelineSpec

-----------------------------------------------------------------------------
(* The row of a settled job says completed.                                *)

(***************************************************************************)
(* The worker's side: once a handler has concluded, the job is marked or   *)
(* its message acknowledged, the last response is 'completed'.  Nothing    *)
(* else follows it, because whoever publishes anything else is inside the  *)
(* lock, the only handler of its job, with the message outstanding.        *)
(***************************************************************************)
Final(j) == Len(responses[j]) > 0 /\ responses[j][Len(responses[j])].status = "completed"
FinalOK(j) ==
    /\ lockKey[j] = Done => Final(j)
    /\ \A a \in Attempts(j) : pc[a] \in Concluded => Final(j)
    /\ msg[j] = "acked" => Final(j)
    /\ \A a \in Attempts(j) : ackTask[a] = "created" => pc[a] = "work"

SettleInv == PathInv /\ WorkInv /\ \A j \in Jobs : FinalOK(j)

\* The task _publish_ack waits only while its handler works.
LEMMA TaskAtWork ==
    ASSUME PathInv, [Next]_vars, NEW a \in Attempt,
           ackTask[a] = "created" => pc[a] = "work", ackTask'[a] = "created"
    PROVE  pc'[a] = "work"
<1>0. /\ TypeOK /\ JobOf(a) \in Jobs /\ TaskOK(a)
      /\ pc \in [Attempt -> PC] /\ ackTask \in [Attempt -> {"none", "created", "finished"}]
      /\ request[JobOf(a)] = "valid"
    BY AttemptType DEF PathInv, TaskInv, PathOK, TypeOK
<1>. USE <1>0 DEF Goto, taskVars
<1>1. ASSUME NEW b \in Attempt, Handle(b)
      PROVE  pc'[a] = "work"
    <2>1. CASE Recheck(b)
        BY <2>1 DEF Recheck, Parses
    <2>2. CASE Refuse(b) \/ CheckDone(b) \/ Acquire(b) \/ Work(b)
        BY <2>2 DEF Refuse, CheckDone, Acquire, Work
    <2>3. CASE Answer(b) \/ Confirm(b) \/ Excuse(b) \/ Unwind(b) \/ MarkDone(b)
        BY <2>3 DEF Answer, Confirm, Excuse, Unwind, MarkDone
    <2>4. CASE Release(b) \/ Upload(b) \/ WriteResult(b) \/ AckMsg(b) \/ NakMsg(b)
        BY <2>4 DEF Release, Upload, WriteResult, AckMsg, NakMsg
    <2>. QED
        BY <1>1, <2>1, <2>2, <2>3, <2>4 DEF Handle
<1>2. ASSUME NEW b \in Attempt, PublishInProgress(b)
      PROVE  pc'[a] = "work"
    BY <1>2 DEF PublishInProgress
<1>3. ASSUME NEW i \in Jobs, \/ AckWaitElapses(i) \/ HeartbeatLost(i)
                             \/ LockExpires(i) \/ LockLapses(i) \/ DoneExpires(i)
      PROVE  pc'[a] = "work"
    BY <1>3 DEF AckWaitElapses, HeartbeatLost, LockExpires, LockLapses, DoneExpires
<1>4. ASSUME NEW i \in Jobs, NEW w \in Workers, Fetch(w, i)
      PROVE  pc'[a] = "work"
    <2>1. ackTask[a] = "created" /\ pc[a] = "work"
        BY <1>4 DEF Fetch
    <2>2. a # <<i, delivered[i] + 1>>
        <3>1. CASE a = <<i, delivered[i] + 1>>
            <4>1. JobOf(a) = i /\ a[2] = delivered[i] + 1 /\ delivered[i] \in Int
                BY <3>1, BoundAssumption DEF JobOf, TypeOK
            <4>2. a[2] > delivered[JobOf(a)]
                BY <4>1
            <4>. QED
                BY <2>1, <4>2 DEF TaskOK
        <3>. QED
            BY <3>1
    <2>. QED
        BY <1>4, <2>1, <2>2 DEF Fetch
<1>5. ASSUME NEW w \in Workers, Crash(w) \/ Shutdown(w)
      PROVE  pc'[a] = "work"
    <2>1. ackTask[a] = "created" /\ host[a] # w
        BY <1>5 DEF Crash, Shutdown, Stop
    <2>. QED
        BY <1>5, <2>1 DEF Crash, Shutdown, Stop, On
<1>6. ASSUME NEW w \in Workers, Restart(w)
      PROVE  pc'[a] = "work"
    BY <1>6 DEF Restart
<1>7. UNCHANGED vars => pc'[a] = "work"
    BY DEF vars
<1>. QED
    BY <1>1, <1>2, <1>3, <1>4, <1>5, <1>6, <1>7 DEF Next

\* Whoever publishes something else than 'completed' is about to go on.
LEMMA OthersPublish ==
    ASSUME SettleInv, [Next]_vars, NEW j \in Jobs
    PROVE  \/ responses'[j] = responses[j]
           \/ Final(j)'
           \/ \E b \in Attempts(j) :
                 /\ pc[b] \in {"work", "excuse"} /\ pc' \in {pc, [pc EXCEPT ![b] = "unwind"]}
                 /\ lockKey' = lockKey /\ msg' = msg
<1>0. /\ TypeOK /\ responses[j] \in Seq(Response) /\ request[j] = "valid" /\ JobOK(j) /\ FinalOK(j)
    BY DEF SettleInv, PathInv, TaskInv, TypeOK, PathOK, WorkInv
<1>1. ASSUME NEW b \in Attempt, NEW s, Publish(b, s), JobOf(b) # j
      PROVE  responses'[j] = responses[j]
    BY <1>0, <1>1 DEF Publish, TypeOK
<1>2. ASSUME NEW b \in Attempt, JobOf(b) = j, Handle(b)
      PROVE  \/ responses'[j] = responses[j]
             \/ Final(j)'
             \/ /\ pc[b] \in {"work", "excuse"} /\ pc' \in {pc, [pc EXCEPT ![b] = "unwind"]}
                /\ lockKey' = lockKey /\ msg' = msg
    <2>1. CASE Refuse(b)
        <3>1. b \in Attempts(j) /\ pc[b] = "refuse"
            BY <1>2, <2>1 DEF Refuse, Goto, Attempts
        <3>. QED
            BY <1>0, <3>1 DEF JobOK, Unwelcome
    <2>2. CASE Answer(b)
        <3>1. CASE Confirmed(b, "completed")
            <4>. DEFINE r == [by |-> b, status |-> "completed"]
            <4>1. r \in Response /\ r.status = "completed"
                BY DEF Response, Status
            <4>2. responses'[j] = Append(responses[j], r)
                BY <1>0, <1>2, <3>1 DEF Confirmed, Publish, TypeOK
            <4>3. Len(responses'[j]) > 0 /\ responses'[j][Len(responses'[j])] = r
                BY <1>0, <4>1, <4>2
            <4>. QED
                BY <4>1, <4>3 DEF Final
        <3>2. CASE responses' = responses
            BY <3>2
        <3>. QED
            BY <1>0, <1>2, <2>2, <3>1, <3>2 DEF Answer, Parses
    <2>3. CASE Excuse(b)
        BY <2>3 DEF Excuse, Goto, queueVars
    <2>4. CASE \/ CheckDone(b) \/ Acquire(b) \/ Recheck(b) \/ Work(b)
               \/ Confirm(b) \/ Unwind(b) \/ MarkDone(b) \/ Release(b)
               \/ Upload(b) \/ WriteResult(b) \/ AckMsg(b) \/ NakMsg(b)
        BY <2>4 DEF CheckDone, Acquire, Recheck, Work, Confirm, Unwind,
                    MarkDone, Release, Upload, WriteResult, AckMsg, NakMsg, outputVars
    <2>. QED
        BY <1>2, <2>1, <2>2, <2>3, <2>4 DEF Handle
<1>3. ASSUME NEW b \in Attempt, JobOf(b) # j, Handle(b)
      PROVE  responses'[j] = responses[j]
    <2>1. CASE Refuse(b) \/ Answer(b) \/ Excuse(b)
        BY <1>1, <1>3, <2>1 DEF Refuse, Answer, Excuse, Confirmed, Unsent
    <2>2. CASE \/ CheckDone(b) \/ Acquire(b) \/ Recheck(b) \/ Work(b)
               \/ Confirm(b) \/ Unwind(b) \/ MarkDone(b) \/ Release(b)
               \/ Upload(b) \/ WriteResult(b) \/ AckMsg(b) \/ NakMsg(b)
        BY <2>2 DEF CheckDone, Acquire, Recheck, Work, Confirm, Unwind,
                    MarkDone, Release, Upload, WriteResult, AckMsg, NakMsg, outputVars
    <2>. QED
        BY <1>3, <2>1, <2>2 DEF Handle
<1>4. ASSUME NEW b \in Attempt, PublishInProgress(b)
      PROVE  \/ responses'[j] = responses[j]
             \/ /\ b \in Attempts(j) /\ pc[b] = "work" /\ pc' = pc
                /\ lockKey' = lockKey /\ msg' = msg
    <2>1. CASE JobOf(b) = j
        <3>1. b \in Attempts(j)
            BY <2>1 DEF Attempts
        <3>. QED
            BY <1>0, <1>4, <3>1 DEF PublishInProgress, FinalOK, queueVars
    <2>2. CASE JobOf(b) # j
        BY <1>1, <1>4, <2>2 DEF PublishInProgress, Confirmed, Unsent
    <2>. QED
        BY <2>1, <2>2
<1>5. ASSUME NEW i \in Jobs, \/ AckWaitElapses(i) \/ HeartbeatLost(i)
                             \/ LockExpires(i) \/ LockLapses(i) \/ DoneExpires(i)
                             \/ \E w \in Workers : Fetch(w, i)
      PROVE  responses' = responses
    BY <1>5 DEF AckWaitElapses, HeartbeatLost, LockExpires, LockLapses, DoneExpires, Fetch,
                outputVars
<1>6. ASSUME NEW w \in Workers, Crash(w) \/ Shutdown(w) \/ Restart(w)
      PROVE  responses' = responses
    BY <1>6 DEF Crash, Shutdown, Restart, Stop, outputVars
<1>7. UNCHANGED vars => responses' = responses
    BY DEF vars
<1>. QED
    BY <1>2, <1>3, <1>4, <1>5, <1>6, <1>7 DEF Next, Attempts

\* A handler concludes by publishing 'completed', by going on from there, or
\* because it finds the job done.
LEMMA Concludes ==
    ASSUME SettleInv, [Next]_vars, met' \cap Losing = {}, NEW j \in Jobs,
           NEW a \in Attempts(j), pc'[a] \in Concluded
    PROVE  Final(j) \/ Final(j)'
<1>0. /\ TypeOK /\ a \in Attempt /\ JobOf(a) = j /\ request[j] = "valid"
      /\ JobOK(j) /\ FinalOK(j) /\ WorkInv
      /\ pc \in [Attempt -> PC] /\ lockKey \in [Jobs -> Attempt \cup {None, Done}]
    BY DEF SettleInv, PathInv, TaskInv, TypeOK, PathOK, WorkInv, Attempts
<1>1. pc[a] \in Concluded \/ lockKey[j] = Done => Final(j)
    BY <1>0 DEF FinalOK
<1>2. "redis" \notin met'
    BY DEF Losing
<1>. USE <1>0 DEF Goto, Concluded
<1>3. CASE Handle(a)
    <2>1. CASE Refuse(a)
        BY <2>1 DEF Refuse, JobOK, Unwelcome
    <2>2. CASE CheckDone(a) \/ Recheck(a)
        <3>1. CASE lockKey[j] = Done
            BY <1>1, <3>1
        <3>2. CASE lockKey[j] # Done
            BY <1>2, <2>2, <3>2 DEF CheckDone, Recheck, Fault, Parses
        <3>. QED
            BY <3>1, <3>2
    <2>3. CASE Acquire(a)
        <3>1. lockKey[j] \notin Attempt
            BY <1>3, <2>3, OutsideLock DEF Acquire, InLock, Guarded
        <3>2. lockKey[j] # None
            BY <1>2, <2>3 DEF Acquire, Fault
        <3>. QED
            BY <1>1, <3>1, <3>2
    <2>4. CASE Answer(a)
        <3>. DEFINE r == [by |-> a, status |-> "completed"]
        <3>1. r \in Response /\ r.status = "completed" /\ responses[j] \in Seq(Response)
            BY DEF Response, Status, TypeOK
        <3>2. Publish(a, "completed")
            BY <2>4 DEF Answer, Confirmed, Parses
        <3>3. responses'[j] = Append(responses[j], r)
            BY <3>2 DEF Publish, TypeOK
        <3>4. Len(responses'[j]) > 0 /\ responses'[j][Len(responses'[j])] = r
            BY <3>1, <3>3
        <3>. QED
            BY <3>1, <3>4 DEF Final
    <2>5. CASE Confirm(a) \/ MarkDone(a) \/ Release(a) \/ Upload(a) \/ WriteResult(a) \/ AckMsg(a)
        BY <1>1, <2>5 DEF Confirm, MarkDone, Release, Upload, WriteResult, AckMsg, Parses
    <2>6. CASE Work(a) \/ Excuse(a) \/ Unwind(a) \/ NakMsg(a)
        BY <2>6 DEF Work, Excuse, Unwind, NakMsg
    <2>. QED
        BY <1>3, <2>1, <2>2, <2>3, <2>4, <2>5, <2>6 DEF Handle
<1>. QED
    BY <1>1, <1>3, WhoMoves

LEMMA FinalStep ==
    ASSUME SettleInv, [Next]_vars, met' \cap Losing = {}, NEW j \in Jobs
    PROVE  FinalOK(j)'
<1>0. /\ TypeOK /\ request[j] = "valid" /\ JobOK(j) /\ FinalOK(j) /\ LockInv
      /\ pc \in [Attempt -> PC] /\ Done \notin Attempt
    BY NoneAssumption DEF SettleInv, PathInv, TaskInv, TypeOK, PathOK, WorkInv
<1>1. lockKey'[j] = Done => Final(j)
    <2>1. ASSUME NEW a \in Attempt, JobOf(a) = j, pc[a] \in AboutToMark
          PROVE  Final(j)
        BY <1>0, <2>1 DEF FinalOK, Attempts, AboutToMark, Concluded
    <2>. QED
        BY <1>0, <2>1, DoneByMark DEF FinalOK
<1>2. msg'[j] = "acked" => Final(j)
    <2>1. ASSUME NEW b \in Attempt, AckMsg(b), msg'[j] = "acked"
          PROVE  Final(j)
        <3>1. CASE JobOf(b) = j
            BY <1>0, <2>1, <3>1 DEF AckMsg, Goto, FinalOK, Attempts, Concluded
        <3>2. CASE JobOf(b) # j
            BY <1>0, <2>1, <3>2 DEF AckMsg, FinalOK, TypeOK
        <3>. QED
            BY <3>1, <3>2
    <2>. QED
        BY <1>0, <2>1, StepEffect DEF FinalOK
<1>3. \A a \in Attempts(j) : pc'[a] \in Concluded => Final(j) \/ Final(j)'
    BY Concludes
<1>4. \A a \in Attempts(j) : ackTask'[a] = "created" => pc'[a] = "work"
    BY TaskAtWork DEF FinalOK, SettleInv, Attempts
<1>5. Attempts(j)' = Attempts(j)
    BY DEF Attempts
<1>6. CASE responses'[j] = responses[j] \/ Final(j)'
    <2>1. Final(j) => Final(j)'
        BY <1>6 DEF Final
    <2>. QED
        BY <1>1, <1>2, <1>3, <1>4, <1>5, <2>1 DEF FinalOK
<1>7. ASSUME NEW b \in Attempts(j), pc[b] \in {"work", "excuse"},
             pc' \in {pc, [pc EXCEPT ![b] = "unwind"]}, lockKey' = lockKey, msg' = msg
      PROVE  FinalOK(j)'
    <2>1. InLock(b) /\ IsRunning(b) /\ b \in Attempt /\ JobOf(b) = j
        BY <1>7 DEF InLock, IsRunning, Running, Guarded, Attempts
    <2>2. lockKey'[j] # Done
        BY <1>0, <1>7, <2>1 DEF LockInv, Holds
    <2>3. msg'[j] # "acked"
        BY <1>0, <1>7, <2>1 DEF JobOK
    <2>4. ASSUME NEW a \in Attempts(j)
          PROVE  pc'[a] \notin Concluded
        <3>1. CASE a = b
            BY <1>0, <1>7, <2>1, <3>1 DEF Concluded
        <3>2. CASE a # b
            <4>1. ~IsRunning(a)
                BY <1>0, <2>1, <3>2, OneRuns
            <4>. QED
                BY <1>0, <1>7, <2>1, <3>2, <4>1 DEF Concluded, IsRunning, Running, Guarded, Attempts
        <3>. QED
            BY <3>1, <3>2
    <2>. QED
        BY <1>4, <1>5, <2>2, <2>3, <2>4 DEF FinalOK
<1>. QED
    BY <1>6, <1>7, OthersPublish

\* The gateway's steps leave all of this as it is.
LEMMA GatewaySettles ==
    ASSUME SettleInv, GatewayStep
    PROVE  WorkInv' /\ \A j \in Jobs : FinalOK(j)'
<1>1. UNCHANGED <<request, msg, delivered, lockKey, responses, pc, host, ackTask, up, budget, met>>
    BY DEF GatewayStep, workerVars, queueVars, taskVars, faultVars
<1>2. TypeOK' /\ WorkInv /\ \A j \in Jobs : FinalOK(j) /\ JobOK(j)
    BY GatewaySpares DEF SettleInv, PathInv, WorkInv
<1>. USE <1>1, <1>2
<1>3. \A j \in Jobs : Answered(j)' = Answered(j) /\ Attempts(j)' = Attempts(j) /\ Final(j)' = Final(j)
    BY DEF Answered, Said, Verdicts, Attempts, Final
<1>4. LockInv'
    BY DEF WorkInv, LockInv, Exclusive, Holds, InLock
<1>5. MarkInv'
    BY <1>3, AttemptType DEF WorkInv, MarkInv, DoneIsAnswered
<1>6. ASSUME NEW j \in Jobs
      PROVE  JobOK(j)' /\ FinalOK(j)'
    BY <1>3 DEF JobOK, FinalOK, IsRunning, InLock
<1>. QED
    BY <1>4, <1>5, <1>6 DEF WorkInv

LEMMA SettleStep ==
    ASSUME StaleLocksRunOut, met' \cap Losing = {}, SettleInv, WorkerStep \/ GatewayStep
    PROVE  SettleInv'
<1>1. PathInv'
    BY PathStep DEF SettleInv
<1>2. CASE WorkerStep
    <2>1. [Next]_vars /\ WorkInv
        BY <1>2 DEF WorkerStep, SettleInv
    <2>2. WorkInv'
        BY <2>1, WorkStep DEF UnlessLosing
    <2>. QED
        BY <1>1, <2>1, <2>2, FinalStep DEF SettleInv
<1>3. CASE GatewayStep
    BY <1>1, <1>3, GatewaySettles DEF SettleInv
<1>. QED
    BY <1>2, <1>3

LEMMA SettleInit == PipelineInit => SettleInv
<1>. SUFFICES ASSUME PipelineInit PROVE SettleInv
    OBVIOUS
<1>1. PathInv /\ WorkInv
    BY PathInit, WorkInit DEF PipelineInit
<1>2. /\ \A a \in Attempt : pc[a] = "idle" /\ ackTask[a] = "none"
      /\ \A j \in Jobs : msg[j] = "pending" /\ lockKey[j] = None
    BY DEF PipelineInit, Init
<1>3. \A j \in Jobs : FinalOK(j)
    BY <1>2, NoneAssumption DEF FinalOK, Attempts, Concluded
<1>. QED
    BY <1>1, <1>3 DEF SettleInv

(***************************************************************************)
(* The gateway's side: while no ack gets lost, nothing restarts and no     *)
(* statement fails, responses are taken once and in order, and the row     *)
(* says what the last one taken said, or is about to.                      *)
(***************************************************************************)
Disordering == {"ack", "restart", "postgres"}
InWork(j) == inHand # None /\ inHand.job = j
RowOK(j) ==
    /\ unacked[j] = {}
    /\ InWork(j) => inHand.index = consumed[j]
    /\ consumed[j] > 0 /\ ~InWork(j) => row[j].status = responses[j][consumed[j]].status

RowInv == SettleInv /\ (gmet \cap Disordering = {} => \A j \in Jobs : RowOK(j))

\* Steps that take no response.
LEMMA RowKept ==
    ASSUME PathInv, NEW j \in Jobs, RowOK(j), UNCHANGED <<consumed, unacked, inHand>>,
           \A i \in 1..consumed[j] : responses'[j][i] = responses[j][i],
           consumed[j] > 0 => row'[j] = row[j]
    PROVE  RowOK(j)'
<1>1. consumed[j] \in Nat
    BY DEF PathInv, GatewayOK, ConsumeTyped
<1>. QED
    BY <1>1 DEF RowOK, InWork

LEMMA RowStep ==
    ASSUME PathInv, WorkerStep \/ GatewayStep, gmet' \cap Disordering = {},
           NEW j \in Jobs, \A i \in Jobs : RowOK(i)
    PROVE  RowOK(j)'
<1>0. /\ TypeOK /\ ConsumeTyped /\ PostTyped /\ RowOK(j)
      /\ consumed[j] \in Nat /\ consumed[j] <= Len(responses[j]) /\ Len(responses[j]) \in Nat
    BY DEF PathInv, TaskInv, GatewayOK, ConsumeTyped, TypeOK
<1>1. CASE WorkerStep
    <2>1. UNCHANGED <<consumed, unacked, inHand, row>> /\ [Next]_vars
        BY <1>1 DEF WorkerStep, gatewayVars
    <2>2. \A i \in 1..consumed[j] : responses'[j][i] = responses[j][i]
        BY <1>0, <2>1, ResponsesExtend
    <2>. QED
        BY <1>0, <2>1, <2>2, RowKept
<1>2. ASSUME GatewayStep, UNCHANGED <<consumed, unacked, inHand>>, consumed[j] > 0 => row'[j] = row[j]
      PROVE  RowOK(j)'
    <2>1. responses' = responses
        BY <1>2 DEF GatewayStep, workerVars
    <2>. QED
        BY <1>0, <1>2, <2>1, RowKept
<1>3. ASSUME GatewayStep, NEW i \in Jobs, G!Post(i)
      PROVE  RowOK(j)'
    <2>1. consumed[j] > 0 => post[j] # "start"
        BY <1>0 DEF PathInv, PathOK
    <2>. QED
        BY <1>2, <1>3, <2>1, PostRow
<1>4. ASSUME GatewayStep, NEW i \in Jobs, G!Receive(i)
      PROVE  RowOK(j)'
    <2>1. /\ inHand = None /\ row' = row /\ responses' = responses
          /\ consumed' = [consumed EXCEPT ![i] = @ + 1]
          /\ inHand' = [job |-> i, index |-> consumed[i] + 1]
          /\ unacked' = [unacked EXCEPT ![i] = @ \ {consumed[i] + 1}]
        BY <1>4 DEF G!Receive, G!Handling, G!Hit, Disordering, GatewayStep, workerVars
    <2>2. inHand' # None /\ inHand'.job = i /\ inHand'.index = consumed[i] + 1
        <3>1. consumed[i] + 1 \in Nat
            BY <1>0 DEF ConsumeTyped
        <3>. QED
            BY <2>1, <3>1, HandAssumption
    <2>3. unacked'[j] = {}
        BY <1>0, <2>1 DEF RowOK, ConsumeTyped
    <2>4. CASE i = j
        BY <1>0, <2>1, <2>2, <2>3, <2>4 DEF RowOK, InWork, ConsumeTyped
    <2>5. CASE i # j
        BY <1>0, <2>1, <2>2, <2>3, <2>5 DEF RowOK, InWork, ConsumeTyped
    <2>. QED
        BY <2>4, <2>5
<1>5. ASSUME GatewayStep, NEW i \in Jobs, G!Redeliver(i)
      PROVE  FALSE
    BY <1>5 DEF G!Redeliver, RowOK
<1>6. CASE GatewayStep /\ G!UpdateJobStatus
    <2>1. UNCHANGED <<consumed, unacked, responses>> /\ inHand' = None
        BY <1>6 DEF G!UpdateJobStatus, GatewayStep, workerVars
    <2>2. PICK n \in Jobs : \E i \in 1..consumed[n] : \E s \in Status :
              /\ inHand = [job |-> n, index |-> i] /\ s = responses[n][i].status
              /\ \/ row'[n].status = s /\ \A k \in Jobs \ {n} : row'[k] = row[k]
                 \/ "postgres" \in gmet'
        BY <1>6, UpdatePath
    <2>3. PICK i \in 1..consumed[n] : \E s \in Status :
              /\ inHand = [job |-> n, index |-> i] /\ s = responses[n][i].status
              /\ \/ row'[n].status = s /\ \A k \in Jobs \ {n} : row'[k] = row[k]
                 \/ "postgres" \in gmet'
        BY <2>2
    <2>4. /\ inHand.job = n /\ inHand.index = i /\ inHand # None
          /\ row'[n].status = responses[n][i].status
          /\ \A k \in Jobs \ {n} : row'[k] = row[k]
        BY <1>6, <2>3 DEF Disordering, G!UpdateJobStatus
    <2>5. i = consumed[n]
        BY <2>4 DEF RowOK, InWork
    <2>6. ~InWork(j)'
        BY <2>1 DEF InWork
    <2>7. CASE n = j
        BY <1>0, <2>1, <2>4, <2>5, <2>6, <2>7 DEF RowOK
    <2>8. CASE n # j
        <3>1. ~InWork(j)
            BY <2>4, <2>8 DEF InWork
        <3>. QED
            BY <1>0, <2>1, <2>4, <2>6, <2>8, <3>1 DEF RowOK
    <2>. QED
        BY <2>7, <2>8
<1>7. CASE GatewayStep /\ G!Report
    BY <1>2, <1>7, ReportStep DEF G!consumeVars
<1>8. CASE GatewayStep /\ G!Read
    BY <1>2, <1>8, ReadPath
<1>9. CASE G!RestartGateway
    BY <1>9 DEF G!RestartGateway, G!Hit, Disordering
<1>. QED
    BY <1>1, <1>3, <1>4, <1>5, <1>6, <1>7, <1>8, <1>9 DEF GatewayStep, G!GatewayNext, G!Consume

UnlessLost == PathInv /\ (met \cap Losing = {} => RowInv)

LEMMA UnlessLostStep ==
    ASSUME StaleLocksRunOut, UnlessLost, WorkerStep \/ GatewayStep
    PROVE  UnlessLost'
<1>1. PathInv /\ PathInv' /\ met \subseteq met' /\ gmet \subseteq gmet'
    <2>1. CASE WorkerStep
        BY <2>1, PathStep, MetGrows DEF UnlessLost, WorkerStep, gatewayVars
    <2>2. CASE GatewayStep
        BY <2>2, PathStep, GatewayMetGrows DEF UnlessLost, GatewayStep, workerVars, faultVars
    <2>. QED
        BY <2>1, <2>2
<1>. SUFFICES ASSUME met' \cap Losing = {}
              PROVE  RowInv'
    BY <1>1 DEF UnlessLost
<1>2. RowInv /\ SettleInv'
    BY <1>1, SettleStep DEF UnlessLost, RowInv
<1>. QED
    BY <1>1, <1>2, RowStep DEF RowInv

\* The row of a job the worker has acknowledged, and whose responses the
\* gateway has all consumed, says completed: for any jobs, replicas and
\* crashes, cancellations, retries and unconfirmed publishes of the worker,
\* until one of its faults happens that may lose a job.
THEOREM SettledUnlessLost ==
    ASSUME StaleLocksRunOut
    PROVE  PipelineSpec => [](met \cap Losing = {} => SettledRowIsVerdict)
<1>1. PipelineInit => UnlessLost
    <2>. SUFFICES ASSUME PipelineInit PROVE UnlessLost
        OBVIOUS
    <2>1. inHand = None /\ \A j \in Jobs : consumed[j] = 0 /\ unacked[j] = {}
        BY DEF PipelineInit, G!GatewayInit
    <2>2. ASSUME NEW j \in Jobs
          PROVE  RowOK(j)
        <3>1. ~(consumed[j] > 0)
            BY <2>1
        <3>2. unacked[j] = {} /\ ~InWork(j)
            BY <2>1 DEF InWork
        <3>. QED
            BY <3>1, <3>2, Zenon DEF RowOK
    <2>. QED
        BY <2>2, SettleInit, PathInit DEF RowInv, UnlessLost
<1>2. UnlessLost /\ [PipelineNext]_pipelineVars => UnlessLost'
    BY PipelineSteps, UnlessLostStep
<1>3. UnlessLost => (met \cap Losing = {} => SettledRowIsVerdict)
    <2>. SUFFICES ASSUME RowInv, gmet \cap {"ack", "restart", "postgres"} = {},
                         NEW j \in Jobs, Settled(j), CaughtUp(j)
                  PROVE  row[j].status = "completed"
        BY DEF SettledRowIsVerdict, UnlessLost
    <2>1. FinalOK(j) /\ RowOK(j) /\ msg[j] = "acked"
        BY DEF RowInv, SettleInv, Disordering, Settled
    <2>2. Len(responses[j]) > 0 /\ responses[j][Len(responses[j])].status = "completed"
        BY <2>1 DEF FinalOK, Final
    <2>. QED
        BY <2>1, <2>2 DEF RowOK, InWork, CaughtUp
<1>. QED
    BY <1>1, <1>2, <1>3, PTL DEF PipelineSpec

\* So a deployment in which no such fault is possible settles every row.
THEOREM RowsSettled ==
    ASSUME StaleLocksRunOut, Faults \cap Losing = {}
    PROVE  PipelineSpec => []SettledRowIsVerdict
<1>1. PipelineTypeOK => met \cap Losing = {}
    BY DEF PipelineTypeOK, TypeOK
<1>. QED
    BY <1>1, PipelineTyped, SettledUnlessLost, PTL

-----------------------------------------------------------------------------
(* What a client has been shown stays.                                     *)

(***************************************************************************)
(* The worker's side: when only harmless faults are possible, nothing but  *)
(* 'completed' follows 'completed'.  Whoever could publish anything else   *)
(* is inside the lock before its answer, and then the job is unresolved.   *)
(***************************************************************************)
LastWord(q) == \A i, k \in DOMAIN q :
    i <= k /\ q[i].status = "completed" => q[k].status = "completed"
LastWordInv ==
    /\ PathInv /\ OnceInv
    /\ \A a \in Attempt : pc[a] # "refuse" /\ (ackTask[a] = "created" => pc[a] = "work")
    /\ \A j \in Jobs : LastWord(responses[j])

(***************************************************************************)
(* The gateway's side: the row says completed because a response did, and  *)
(* what a client is shown, a goroutine caches or the cache holds is what   *)
(* lies at result.json: a result or, for ever, the client's own file.      *)
(***************************************************************************)
Bytes == Attempt \cup {Audio}
ReadTyped ==
    /\ cache \in [Jobs -> Bytes \cup {None}]
    /\ fills \subseteq [job : Jobs, bytes : Bytes]
    /\ seen  \in [Jobs -> G!RowStatus \cup {"nothing", "error", "audio"}]

RowSaid(j) == row[j].status = "completed" =>
    \E i \in 1..consumed[j] : responses[j][i].status = "completed"
Stored(j, bytes) ==
    /\ row[j].status = "completed"
    /\ resultJson[j] # None /\ (bytes = Audio <=> resultJson[j] = Audio)
ViewOK(j) ==
    /\ RowSaid(j)
    /\ cache[j] # None => Stored(j, cache[j])
    /\ seen[j] = "completed" => Stored(j, None)

Views ==
    /\ ReadTyped
    /\ \A j \in Jobs : RowOK(j) /\ ViewOK(j)
    /\ \A f \in fills : Stored(f.job, f.bytes)
ViewInv == RealInv /\ LastWordInv /\ (gmet \cap Disordering = {} => Views)

LEMMA LastWordGrows ==
    ASSUME NEW q \in Seq(Response), NEW r \in Response, LastWord(q),
           r.status = "completed" \/ \A i \in DOMAIN q : q[i].status # "completed"
    PROVE  LastWord(Append(q, r))
<1>. DEFINE p == Append(q, r)
            n == Len(q) + 1
<1>1. /\ n \in Nat /\ DOMAIN q = 1..n-1 /\ DOMAIN p = 1..n
      /\ p[n] = r /\ \A i \in 1..n-1 : p[i] = q[i]
    OBVIOUS
<1>. HIDE DEF p, n
<1>2. \A i \in 1..n : i = n \/ i \in 1..n-1
    BY <1>1
<1>3. \A k \in 1..n : n <= k => k = n
    BY <1>1
<1>. QED
    BY <1>1, <1>2, <1>3 DEF LastWord, p

\* A valid request is never refused.
LEMMA NeverRefused ==
    ASSUME PathInv, [Next]_vars, NEW a \in Attempt, pc[a] # "refuse"
    PROVE  pc'[a] # "refuse"
<1>0. TypeOK /\ request[JobOf(a)] = "valid" /\ pc \in [Attempt -> PC]
    BY AttemptType DEF PathInv, TaskInv, PathOK, TypeOK
<1>1. CASE Handle(a)
    <2>1. CASE Refuse(a) \/ CheckDone(a) \/ Acquire(a) \/ Recheck(a) \/ Work(a)
        BY <1>0, <2>1 DEF Refuse, CheckDone, Acquire, Recheck, Work, Goto
    <2>2. CASE Answer(a) \/ Confirm(a) \/ Excuse(a) \/ Unwind(a) \/ MarkDone(a)
        BY <1>0, <2>2 DEF Answer, Confirm, Excuse, Unwind, MarkDone, Goto
    <2>3. CASE Release(a) \/ Upload(a) \/ WriteResult(a) \/ AckMsg(a) \/ NakMsg(a)
        BY <1>0, <2>3 DEF Release, Upload, WriteResult, AckMsg, NakMsg, Goto
    <2>. QED
        BY <1>1, <2>1, <2>2, <2>3 DEF Handle
<1>. QED
    BY <1>0, <1>1, WhoMoves

LEMMA NothingFollows ==
    ASSUME LastWordInv, [Next]_vars, NEW j \in Jobs
    PROVE  LastWord(responses'[j])
<1>0. /\ TypeOK /\ LockInv /\ OnceOK(j) /\ LastWord(responses[j])
      /\ responses \in [Jobs -> Seq(Response)]
    BY DEF LastWordInv, PathInv, TaskInv, OnceInv, TypeOK
<1>1. ASSUME NEW b \in Attempt, JobOf(b) = j, NEW s \in Status, Publish(b, s),
             s = "completed" \/ (InLock(b) /\ pc[b] \in {"work", "answer", "excuse"})
      PROVE  LastWord(responses'[j])
    <2>. DEFINE r == [by |-> b, status |-> s]
    <2>1. r \in Response /\ r.status = s /\ responses'[j] = Append(responses[j], r)
        BY <1>0, <1>1 DEF Response, Publish
    <2>2. s = "completed" \/ ~Resolved(j)
        BY <1>0, <1>1, Unresolved
    <2>3. s = "completed" \/ \A i \in DOMAIN responses[j] : responses[j][i].status # "completed"
        BY <1>0, <2>2 DEF OnceOK, Said
    <2>. QED
        BY <1>0, <2>1, <2>3, LastWordGrows
<1>2. ASSUME NEW b \in Attempt, JobOf(b) # j, NEW s, Publish(b, s)
      PROVE  responses'[j] = responses[j]
    BY <1>0, <1>2 DEF Publish
<1>3. "failed" \in Status /\ "in_progress" \in Status /\ "completed" \in Status
    BY DEF Status
<1>4. ASSUME NEW b \in Attempt, pc[b] \in {"refuse", "answer", "excuse"}
      PROVE  InLock(b) /\ pc[b] \in {"work", "answer", "excuse"}
    BY <1>4 DEF LastWordInv, InLock, Guarded
<1>5. ASSUME NEW b \in Attempt, ackTask[b] = "created"
      PROVE  InLock(b) /\ pc[b] \in {"work", "answer", "excuse"}
    BY <1>5 DEF LastWordInv, InLock, Guarded
<1>6. ASSUME NEW b \in Attempt, Publish(b, "failed"), pc[b] \in {"refuse", "answer", "excuse"}
      PROVE  LastWord(responses'[j])
    BY <1>0, <1>1, <1>2, <1>3, <1>4, <1>6
<1>7. ASSUME NEW b \in Attempt, Publish(b, "in_progress"), ackTask[b] = "created"
      PROVE  LastWord(responses'[j])
    BY <1>0, <1>1, <1>2, <1>3, <1>5, <1>7
<1>8. ASSUME NEW b \in Attempt, Publish(b, "completed")
      PROVE  LastWord(responses'[j])
    BY <1>0, <1>1, <1>2, <1>3, <1>8
<1>9. responses' = responses => LastWord(responses'[j])
    BY <1>0
<1>. QED
    BY <1>0, <1>6, <1>7, <1>8, <1>9, StepPublishes

LEMMA LastWordStep ==
    ASSUME met' \subseteq Harmless, LastWordInv, WorkerStep \/ GatewayStep
    PROVE  LastWordInv'
<1>1. PathInv' /\ PathInv
    BY PathStep DEF LastWordInv
<1>2. CASE WorkerStep
    <2>1. [Next]_vars
        BY <1>2 DEF WorkerStep
    <2>2. OnceInv'
        BY <2>1, OnceStep DEF LastWordInv
    <2>3. ASSUME NEW a \in Attempt
          PROVE  pc'[a] # "refuse" /\ (ackTask'[a] = "created" => pc'[a] = "work")
        BY <1>1, <2>1, NeverRefused, TaskAtWork DEF LastWordInv
    <2>. QED
        BY <1>1, <2>1, <2>2, <2>3, NothingFollows DEF LastWordInv
<1>3. CASE GatewayStep
    <2>1. UNCHANGED <<request, msg, delivered, lockKey, responses, pc, host, ackTask, up, budget, met>>
        BY <1>3 DEF GatewayStep, workerVars, queueVars, taskVars, faultVars
    <2>2. TaskInv' /\ TypeOK'
        BY <1>1, <1>3, GatewaySpares DEF PathInv
    <2>3. LockInv'
        BY <2>1, <2>2 DEF LastWordInv, OnceInv, LockInv, Exclusive, Holds, InLock
    <2>4. \A j \in Jobs : OnceOK(j)'
        BY <2>1 DEF LastWordInv, OnceInv, OnceOK, Said, Resolved, Attempts
    <2>5. OnceInv'
        BY <2>2, <2>3, <2>4 DEF OnceInv
    <2>. QED
        BY <1>1, <2>1, <2>5 DEF LastWordInv
<1>. QED
    BY <1>2, <1>3

\* As long as responses are taken once and in order, a completed row stays.
LEMMA RowLasts ==
    ASSUME PathInv, WorkerStep \/ GatewayStep, gmet' \cap Disordering = {},
           \A i \in Jobs : RowOK(i),
           NEW j \in Jobs, LastWord(responses[j]), RowSaid(j)
    PROVE  RowSaid(j)' /\ (row[j].status = "completed" => row'[j].status = "completed")
<1>0. /\ TypeOK /\ ConsumeTyped /\ RowOK(j) /\ responses[j] \in Seq(Response)
      /\ consumed[j] \in Nat /\ consumed[j] <= Len(responses[j]) /\ Len(responses[j]) \in Nat
    BY DEF PathInv, TaskInv, GatewayOK, ConsumeTyped, TypeOK
<1>1. CASE WorkerStep
    <2>1. UNCHANGED <<consumed, row>> /\ [Next]_vars
        BY <1>1 DEF WorkerStep, gatewayVars
    <2>2. \A i \in 1..consumed[j] : responses'[j][i] = responses[j][i]
        BY <1>0, <2>1, ResponsesExtend
    <2>. QED
        BY <2>1, <2>2 DEF RowSaid
<1>2. ASSUME GatewayStep, row'[j] = row[j], consumed'[j] \in {consumed[j], consumed[j] + 1}
      PROVE  RowSaid(j)' /\ (row[j].status = "completed" => row'[j].status = "completed")
    <2>1. responses' = responses
        BY <1>2 DEF GatewayStep, workerVars
    <2>2. \A i \in 1..consumed[j] : i \in 1..consumed'[j]
        BY <1>0, <1>2
    <2>. QED
        BY <1>2, <2>1, <2>2 DEF RowSaid
<1>3. ASSUME GatewayStep, NEW n \in Jobs, G!Post(n)
      PROVE  RowSaid(j)' /\ (row[j].status = "completed" => row'[j].status = "completed")
    <2>1. consumed' = consumed
        BY <1>3, PostRow
    <2>2. CASE row'[j] = row[j]
        BY <1>2, <1>3, <2>1, <2>2
    <2>3. CASE post[j] = "start" /\ row'[j].status = "pending"
        <3>1. PathOK(j)
            BY DEF PathInv
        <3>2. ~(consumed[j] > 0)
            BY <1>0, <2>3, <3>1 DEF PathOK
        <3>3. row[j].status # "completed"
            BY <1>0, <3>2 DEF RowSaid
        <3>. QED
            BY <2>3, <3>3 DEF RowSaid
    <2>. QED
        BY <1>3, <2>2, <2>3, PostRow
<1>4. ASSUME GatewayStep, NEW n \in Jobs, G!Receive(n)
      PROVE  RowSaid(j)' /\ (row[j].status = "completed" => row'[j].status = "completed")
    <2>1. row' = row /\ consumed' = [consumed EXCEPT ![n] = @ + 1]
        BY <1>4 DEF G!Receive
    <2>2. consumed'[j] \in {consumed[j], consumed[j] + 1}
        BY <1>0, <2>1 DEF ConsumeTyped
    <2>. QED
        BY <1>2, <1>4, <2>1, <2>2
<1>5. ASSUME GatewayStep, NEW n \in Jobs, G!Redeliver(n)
      PROVE  FALSE
    BY <1>5 DEF G!Redeliver, RowOK
<1>6. CASE GatewayStep /\ G!UpdateJobStatus
    <2>1. UNCHANGED <<consumed, responses>>
        BY <1>6 DEF G!UpdateJobStatus, GatewayStep, workerVars
    <2>2. PICK n \in Jobs : \E i \in 1..consumed[n] : \E s \in Status :
              /\ inHand = [job |-> n, index |-> i] /\ s = responses[n][i].status
              /\ \/ row'[n].status = s /\ \A k \in Jobs \ {n} : row'[k] = row[k]
                 \/ "postgres" \in gmet'
        BY <1>6, UpdatePath
    <2>3. PICK i \in 1..consumed[n] : \E s \in Status :
              /\ inHand = [job |-> n, index |-> i] /\ s = responses[n][i].status
              /\ \/ row'[n].status = s /\ \A k \in Jobs \ {n} : row'[k] = row[k]
                 \/ "postgres" \in gmet'
        BY <2>2
    <2>4. /\ inHand.job = n /\ inHand.index = i /\ inHand # None
          /\ row'[n].status = responses[n][i].status
          /\ \A k \in Jobs \ {n} : row'[k] = row[k]
        BY <1>6, <2>3 DEF Disordering, G!UpdateJobStatus
    <2>5. i = consumed[n]
        BY <2>4 DEF RowOK, InWork
    <2>6. CASE n # j
        BY <1>2, <1>6, <2>1, <2>4, <2>6
    <2>7. CASE n = j
        <3>1. RowSaid(j)'
            BY <2>1, <2>4, <2>7 DEF RowSaid
        <3>2. ASSUME row[j].status = "completed"
              PROVE  responses[j][i].status = "completed"
            <4>1. PICK k \in 1..consumed[j] : responses[j][k].status = "completed"
                BY <3>2 DEF RowSaid
            <4>2. k \in DOMAIN responses[j] /\ i \in DOMAIN responses[j] /\ k <= i
                BY <1>0, <2>5, <2>7
            <4>. QED
                BY <4>1, <4>2 DEF LastWord
        <3>. QED
            BY <2>4, <2>7, <3>1, <3>2
    <2>. QED
        BY <2>6, <2>7
<1>7. CASE GatewayStep /\ G!Report
    BY <1>2, <1>7, ReportStep DEF G!consumeVars
<1>8. CASE GatewayStep /\ G!Read
    BY <1>2, <1>8, ReadPath
<1>9. CASE G!RestartGateway
    BY <1>9 DEF G!RestartGateway, G!Hit, Disordering
<1>. QED
    BY <1>1, <1>3, <1>4, <1>5, <1>6, <1>7, <1>8, <1>9 DEF GatewayStep, G!GatewayNext, G!Consume

\* What lies at result.json stays what it is: a result, or the client's file.
LEMMA ResultLasts ==
    ASSUME RealInv, WorkerStep \/ GatewayStep, NEW j \in Jobs, Said(j, "completed"),
           resultJson[j] # None
    PROVE  resultJson'[j] # None /\ (resultJson'[j] = Audio <=> resultJson[j] = Audio)
<1>0. TypeOK /\ PathInv /\ resultJson \in [Jobs -> Attempt \cup {None, Audio}]
    BY DEF RealInv, PathInv, TaskInv, TypeOK
<1>1. CASE WorkerStep
    <2>1. [Next]_vars
        BY <1>1 DEF WorkerStep
    <2>. QED
        BY <1>0, <2>1, WhoWrites, NoneAssumption DEF RealInv, WriterOK
<1>2. CASE GatewayStep
    <2>1. post[j] # "configured"
        BY <1>0, SaidHasLength, SaidIsPublished DEF Said
    <2>2. resultJson'[j] = resultJson[j]
        BY <1>0, <1>2, <2>1, ResultStored
    <2>. QED
        BY <2>2
<1>. QED
    BY <1>1, <1>2

LEMMA StoredLasts ==
    ASSUME ViewInv, WorkerStep \/ GatewayStep, gmet \subseteq gmet', gmet' \cap Disordering = {},
           NEW j \in Jobs, NEW bytes, Stored(j, bytes)
    PROVE  Stored(j, bytes)'
<1>1. RealInv /\ PathInv /\ RowSaid(j) /\ LastWord(responses[j]) /\ \A i \in Jobs : RowOK(i)
    BY DEF ViewInv, Views, ViewOK, RealInv, LastWordInv
<1>2. row'[j].status = "completed"
    BY <1>1, RowLasts DEF Stored
<1>3. Said(j, "completed")
    <2>1. /\ consumed[j] \in Nat /\ consumed[j] <= Len(responses[j])
          /\ responses[j] \in Seq(Response)
        BY <1>1 DEF PathInv, TaskInv, GatewayOK, ConsumeTyped, TypeOK
    <2>2. \A i \in 1..consumed[j] : i \in DOMAIN responses[j]
        BY <2>1
    <2>. QED
        BY <1>1, <2>2 DEF RowSaid, Stored, Said
<1>. QED
    BY <1>1, <1>2, <1>3, ResultLasts DEF Stored

\* What GetJob may answer, and what it hands to a goroutine to cache.
LEMMA GetJobShows ==
    ASSUME ViewInv, gmet \cap Disordering = {}, NEW i \in Jobs, G!GetJob(i)
    PROVE  /\ cache' = cache /\ seen' \in [Jobs -> G!RowStatus \cup {"nothing", "error", "audio"}]
           /\ \A k \in Jobs \ {i} : seen'[k] = seen[k]
           /\ seen'[i] = "completed" => Stored(i, None)
           /\ seen[i] = "completed" => seen'[i] = "completed" \/ gmet' \cap {"minio", "postgres"} # {}
           /\ \A f \in fills' \ fills : f \in [job : Jobs, bytes : Bytes] /\ Stored(f.job, f.bytes)
<1>0. /\ ReadTyped /\ ViewOK(i) /\ resultJson[i] \in Bytes \cup {None}
      /\ None # Audio /\ None \notin Attempt /\ row[i].status \in G!RowStatus
    <2>1. TypeOK /\ PostTyped
        BY DEF ViewInv, RealInv, PathInv, TaskInv, GatewayOK
    <2>2. row[i].status \in G!RowStatus
        BY <2>1 DEF PostTyped, Row
    <2>. QED
        BY <2>1, <2>2, NoneAssumption DEF ViewInv, Views, TypeOK, Bytes
<1>. DEFINE Answers(shown) ==
        /\ seen' = [seen EXCEPT ![i] = shown]
        /\ shown \in G!RowStatus \cup {"nothing", "error", "audio"}
        /\ shown = "completed" => Stored(i, None)
        /\ seen[i] = "completed" => shown = "completed" \/ gmet' \cap {"minio", "postgres"} # {}
        /\ \A f \in fills' \ fills : f \in [job : Jobs, bytes : Bytes] /\ Stored(f.job, f.bytes)
<1>1. cache' = cache
    BY DEF G!GetJob
<1>2. ASSUME NEW bytes \in Bytes, Stored(i, bytes), G!Show(i, bytes),
             fills' \subseteq fills \cup {[job |-> i, bytes |-> bytes]}
      PROVE  \E shown : Answers(shown)
    <2>1. PICK shown \in IF bytes = Audio THEN {"error", "audio"} ELSE {"completed"} :
              seen' = [seen EXCEPT ![i] = shown]
        BY <1>2 DEF G!Show
    <2>2. shown = "completed" <=> bytes # Audio
        BY <2>1
    <2>3. shown = "completed" => Stored(i, None)
        BY <1>0, <1>2, <2>2 DEF Stored
    <2>4. seen[i] = "completed" => shown = "completed"
        BY <1>0, <1>2, <2>2 DEF ViewOK, Stored
    <2>5. \A f \in fills' \ fills : f = [job |-> i, bytes |-> bytes]
        BY <1>2
    <2>6. \A f \in fills' \ fills : f \in [job : Jobs, bytes : Bytes] /\ Stored(f.job, f.bytes)
        BY <1>2, <2>5
    <2>7. shown \in G!RowStatus \cup {"nothing", "error", "audio"}
        BY <2>1 DEF G!RowStatus
    <2>. QED
        BY <2>1, <2>3, <2>4, <2>6, <2>7
<1>3. CASE cache[i] # None /\ G!Show(i, cache[i]) /\ UNCHANGED fills
    <2>1. cache[i] \in Bytes /\ Stored(i, cache[i])
        BY <1>0, <1>3 DEF ReadTyped, ViewOK
    <2>. QED
        BY <1>1, <1>2, <1>3, <2>1, <1>0 DEF ReadTyped
<1>4. CASE G!AnswerFromRow(i)
    <2>1. CASE row[i].status # "completed"
        <3>1. seen[i] # "completed"
            BY <1>0, <2>1 DEF ViewOK, Stored
        <3>2. Answers(row[i].status)
            BY <1>0, <1>4, <2>1, <3>1 DEF G!AnswerFromRow
        <3>. QED
            BY <1>0, <1>1, <3>2 DEF ReadTyped
    <2>2. CASE row[i].status = "completed" /\ resultJson[i] = None
        <3>1. seen[i] # "completed"
            BY <1>0, <2>2 DEF ViewOK, Stored
        <3>2. Answers("error")
            BY <1>4, <2>2, <3>1 DEF G!AnswerFromRow
        <3>. QED
            BY <1>0, <1>1, <3>2 DEF ReadTyped
    <2>3. CASE row[i].status = "completed" /\ resultJson[i] # None
        <3>1. resultJson[i] \in Bytes /\ Stored(i, resultJson[i])
            BY <1>0, <2>3 DEF Stored
        <3>2. G!Show(i, resultJson[i])
              /\ fills' \subseteq fills \cup {[job |-> i, bytes |-> resultJson[i]]}
            BY <1>4, <2>3 DEF G!AnswerFromRow
        <3>3. \E shown : Answers(shown)
            BY <1>2, <3>1, <3>2
        <3>. QED
            BY <1>0, <1>1, <3>3 DEF ReadTyped
    <2>. QED
        BY <2>1, <2>2, <2>3
<1>5. CASE /\ G!Hit("postgres") \/ G!Hit("minio")
           /\ seen' = [seen EXCEPT ![i] = "error"] /\ UNCHANGED fills
    <2>1. gmet' \cap {"minio", "postgres"} # {}
        BY <1>5 DEF G!Hit
    <2>2. Answers("error")
        BY <1>5, <2>1
    <2>. QED
        BY <1>0, <1>1, <2>2 DEF ReadTyped
<1>. QED
    BY <1>3, <1>4, <1>5 DEF G!GetJob

\* Nobody else touches what clients see; a restart forgets what was to be
\* cached.
LEMMA OthersShowNothing ==
    ASSUME WorkerStep \/ (GatewayStep /\ ~G!Read)
    PROVE  UNCHANGED <<cache, seen>> /\ fills' \subseteq fills
<1>1. CASE WorkerStep
    BY <1>1 DEF WorkerStep, gatewayVars
<1>2. ASSUME NEW j \in Jobs, G!Post(j)
      PROVE  UNCHANGED G!readVars
    BY <1>2 DEF G!Post, G!CreateAsyncJob, G!SaveWebhookConfig, G!StoreFile, G!CreateAsyncJobFile
<1>3. G!Consume => UNCHANGED G!readVars
    BY DEF G!Consume, G!UpdateJobStatus, G!Receive, G!Redeliver
<1>4. G!Report => UNCHANGED G!readVars
    BY DEF G!Report, G!GetWebhookConfig, G!FindResult, G!GiveUpOnResult, G!SendWebhook
<1>5. G!RestartGateway => UNCHANGED <<cache, seen>> /\ fills' = {}
    BY DEF G!RestartGateway
<1>. QED
    BY <1>1, <1>2, <1>3, <1>4, <1>5 DEF GatewayStep, G!GatewayNext, G!readVars

\* The goroutine that fills the cache, and the cache's expiry.
LEMMA CacheShows ==
    ASSUME ViewInv, gmet \cap Disordering = {},
           \/ \E f \in fills : G!SetCachedJobResult(f)
           \/ \E i \in Jobs : G!CacheExpires(i)
    PROVE  /\ seen' = seen /\ fills' \subseteq fills /\ cache' \in [Jobs -> Bytes \cup {None}]
           /\ \A j \in Jobs : cache'[j] # None => Stored(j, cache'[j])
<1>0. Views
    BY DEF ViewInv
<1>1. ASSUME NEW f \in fills, G!SetCachedJobResult(f)
      PROVE  /\ seen' = seen /\ fills' \subseteq fills /\ cache' \in [Jobs -> Bytes \cup {None}]
             /\ \A j \in Jobs : cache'[j] # None => Stored(j, cache'[j])
    <2>1. f.job \in Jobs /\ f.bytes \in Bytes /\ Stored(f.job, f.bytes)
        BY <1>0 DEF Views, ReadTyped
    <2>2. cache' = [cache EXCEPT ![f.job] = f.bytes] \/ cache' = cache
        BY <1>1 DEF G!SetCachedJobResult
    <2>3. \A j \in Jobs : cache'[j] = cache[j] \/ (j = f.job /\ cache'[j] = f.bytes)
        BY <1>0, <2>2 DEF Views, ReadTyped
    <2>4. cache' \in [Jobs -> Bytes \cup {None}]
        BY <1>0, <2>1, <2>2 DEF Views, ReadTyped
    <2>5. seen' = seen /\ fills' \subseteq fills
        BY <1>1 DEF G!SetCachedJobResult
    <2>. QED
        BY <1>0, <2>1, <2>3, <2>4, <2>5 DEF Views, ViewOK
<1>2. ASSUME NEW i \in Jobs, G!CacheExpires(i)
      PROVE  /\ seen' = seen /\ fills' \subseteq fills /\ cache' \in [Jobs -> Bytes \cup {None}]
             /\ \A j \in Jobs : cache'[j] # None => Stored(j, cache'[j])
    <2>1. cache' = [cache EXCEPT ![i] = None] /\ UNCHANGED <<seen, fills>>
        BY <1>2 DEF G!CacheExpires
    <2>2. \A j \in Jobs : cache'[j] = cache[j] \/ cache'[j] = None
        BY <1>0, <2>1 DEF Views, ReadTyped
    <2>3. cache' \in [Jobs -> Bytes \cup {None}]
        BY <1>0, <2>1 DEF Views, ReadTyped
    <2>. QED
        BY <1>0, <2>1, <2>2, <2>3 DEF Views, ViewOK
<1>. QED
    BY <1>1, <1>2

LEMMA ViewStep ==
    ASSUME met' \subseteq Harmless, ViewInv, WorkerStep \/ GatewayStep
    PROVE  ViewInv'
<1>0. /\ RealInv' /\ LastWordInv' /\ gmet \subseteq gmet'
      /\ RealInv /\ PathInv /\ LastWordInv
    BY RealStep, LastWordStep, GatewayMetGrows DEF ViewInv, WorkerStep, gatewayVars, RealInv
<1>. SUFFICES ASSUME gmet' \cap Disordering = {}
              PROVE  Views'
    BY <1>0 DEF ViewInv
<1>1. Views /\ gmet \cap Disordering = {}
    BY <1>0 DEF ViewInv
<1>2. ASSUME NEW j \in Jobs
      PROVE  RowOK(j)' /\ RowSaid(j)'
    BY <1>0, <1>1, RowStep, RowLasts DEF Views, ViewOK, LastWordInv
<1>3. ASSUME NEW j \in Jobs, NEW bytes, Stored(j, bytes)
      PROVE  Stored(j, bytes)'
    BY <1>0, <1>3, StoredLasts
<1>4. CASE UNCHANGED <<cache, seen>> /\ fills' \subseteq fills
    <2>1. ReadTyped'
        BY <1>1, <1>4 DEF Views, ReadTyped
    <2>2. ASSUME NEW j \in Jobs
          PROVE  ViewOK(j)'
        <3>1. cache[j] # None => Stored(j, cache[j])'
            BY <1>1, <1>3, <1>4 DEF Views, ViewOK
        <3>2. seen[j] = "completed" => Stored(j, None)'
            BY <1>1, <1>3 DEF Views, ViewOK
        <3>. QED
            BY <1>2, <1>4, <3>1, <3>2 DEF ViewOK, Stored
    <2>3. ASSUME NEW f \in fills'
          PROVE  Stored(f.job, f.bytes)'
        BY <1>1, <1>3, <1>4, <2>3 DEF Views, ReadTyped
    <2>. QED
        BY <1>2, <2>1, <2>2, <2>3 DEF Views
<1>5. CASE GatewayStep /\ G!Read
    <2>1. UNCHANGED <<row, resultJson>>
        BY <1>0, <1>5, ReadPath
    <2>2. ASSUME NEW i \in Jobs, G!GetJob(i)
          PROVE  Views'
        <3>1. cache' = cache /\ ReadTyped'
            BY <1>1, <2>2, GetJobShows DEF Views, ReadTyped
        <3>2. ASSUME NEW j \in Jobs
              PROVE  ViewOK(j)'
            <4>1. seen'[j] = "completed" => Stored(j, None)
                BY <1>1, <2>2, GetJobShows DEF Views, ViewOK
            <4>2. cache[j] # None => Stored(j, cache[j])
                BY <1>1 DEF Views, ViewOK
            <4>. QED
                BY <1>2, <2>1, <3>1, <4>1, <4>2 DEF ViewOK, Stored
        <3>3. ASSUME NEW f \in fills'
              PROVE  Stored(f.job, f.bytes)'
            <4>1. Stored(f.job, f.bytes)
                BY <1>1, <2>2, <3>3, GetJobShows DEF Views
            <4>. QED
                BY <2>1, <4>1 DEF Stored
        <3>. QED
            BY <1>2, <3>1, <3>2, <3>3 DEF Views
    <2>3. ASSUME \/ \E f \in fills : G!SetCachedJobResult(f)
                 \/ \E i \in Jobs : G!CacheExpires(i)
          PROVE  Views'
        <3>1. /\ seen' = seen /\ fills' \subseteq fills /\ cache' \in [Jobs -> Bytes \cup {None}]
              /\ \A j \in Jobs : cache'[j] # None => Stored(j, cache'[j])
            BY <1>1, <2>3, CacheShows
        <3>2. ReadTyped'
            BY <1>1, <3>1 DEF Views, ReadTyped
        <3>3. ASSUME NEW j \in Jobs
              PROVE  ViewOK(j)'
            <4>1. seen[j] = "completed" => Stored(j, None)
                BY <1>1 DEF Views, ViewOK
            <4>. QED
                BY <1>2, <2>1, <3>1, <4>1 DEF ViewOK, Stored
        <3>4. ASSUME NEW f \in fills'
              PROVE  Stored(f.job, f.bytes)'
            <4>1. Stored(f.job, f.bytes)
                BY <1>1, <3>1, <3>4 DEF Views
            <4>. QED
                BY <2>1, <4>1 DEF Stored
        <3>. QED
            BY <1>2, <3>2, <3>3, <3>4 DEF Views
    <2>. QED
        BY <1>5, <2>2, <2>3, PipelineAssumption DEF G!Read
<1>. QED
    BY <1>4, <1>5, OthersShowNothing

UnlessHarmed == RealInv /\ (met \subseteq Harmless => ViewInv)

LEMMA UnlessHarmedStep ==
    ASSUME UnlessHarmed, WorkerStep \/ GatewayStep
    PROVE  /\ UnlessHarmed'
           /\ met \subseteq met' /\ gmet \subseteq gmet'
<1>1. RealInv' /\ met \subseteq met' /\ gmet \subseteq gmet'
    <2>1. CASE WorkerStep
        BY <2>1, RealStep, MetGrows DEF UnlessHarmed, WorkerStep, gatewayVars
    <2>2. CASE GatewayStep
        BY <2>2, RealStep, GatewayMetGrows DEF UnlessHarmed, GatewayStep, workerVars, faultVars
    <2>. QED
        BY <2>1, <2>2
<1>2. ASSUME met' \subseteq Harmless
      PROVE  ViewInv'
    BY <1>1, <1>2, ViewStep DEF UnlessHarmed
<1>. QED
    BY <1>1, <1>2 DEF UnlessHarmed

\* What a client has seen completed, no client sees otherwise later: not by a
\* redelivered request, a repeated or late handler, an expired cache, a lost
\* publish or webhook.  For any jobs, replicas and numbers of faults, until
\* one happens after which a job may be processed twice (mh:108-125,
\* 174-190), a response is delivered twice, which the gateway's UPDATE does
\* not survive (JobRepository.go:98), or database or storage cannot be read.
THEOREM VisibleStays == PipelineSpec => CompletedStaysVisible
<1>1. PipelineInit => UnlessHarmed
    <2>. SUFFICES ASSUME PipelineInit PROVE UnlessHarmed
        OBVIOUS
    <2>1. RealInv /\ PathInv
        BY RealInit, PathInit
    <2>2. LastWordInv
        <3>1. TypeOK
            BY <2>1 DEF PathInv, TaskInv
        <3>2. \A j \in Jobs : responses[j] \in Seq(Response) /\ Len(responses[j]) = 0
            BY <3>1 DEF PipelineInit, Init, TypeOK
        <3>3. ASSUME NEW j \in Jobs
              PROVE  DOMAIN responses[j] = {}
            BY <3>2, <3>3
        <3>4. OnceInv
            BY OnceInit DEF PipelineInit
        <3>5. \A a \in Attempt : pc[a] = "idle" /\ ackTask[a] = "none"
            BY DEF PipelineInit, Init
        <3>. QED
            BY <2>1, <3>3, <3>4, <3>5 DEF LastWordInv, LastWord
    <2>3. /\ inHand = None /\ \A j \in Jobs : consumed[j] = 0 /\ unacked[j] = {}
          /\ \A j \in Jobs : row[j].status = "none" /\ cache[j] = None /\ seen[j] = "nothing"
          /\ fills = {}
        BY DEF PipelineInit, G!GatewayInit, G!NoRow
    <2>4. ASSUME NEW j \in Jobs
          PROVE  RowOK(j) /\ ViewOK(j)
        <3>1. ~(consumed[j] > 0)
            BY <2>3
        <3>2. unacked[j] = {} /\ ~InWork(j)
            BY <2>3 DEF InWork
        <3>3. RowOK(j)
            BY <3>1, <3>2, Zenon DEF RowOK
        <3>. QED
            BY <2>3, <3>3 DEF ViewOK, RowSaid
    <2>5. ReadTyped
        BY DEF PipelineInit, G!GatewayInit, ReadTyped
    <2>. QED
        BY <2>1, <2>2, <2>3, <2>4, <2>5 DEF ViewInv, Views, UnlessHarmed
<1>2. UnlessHarmed /\ [PipelineNext]_pipelineVars => UnlessHarmed'
    BY PipelineSteps, UnlessHarmedStep
<1>3. ASSUME UnlessHarmed, [PipelineNext]_pipelineVars, NEW j \in Jobs, seen[j] = "completed",
             met' \subseteq Harmless, gmet' \cap (Disordering \cup {"minio"}) = {}
      PROVE  seen'[j] = "completed"
    <2>1. WorkerStep \/ GatewayStep
        BY <1>3, PipelineSteps
    <2>2. ViewInv /\ gmet \cap Disordering = {} /\ gmet' \cap {"minio", "postgres"} = {}
        BY <1>3, <2>1, UnlessHarmedStep DEF UnlessHarmed, Disordering
    <2>3. CASE seen' = seen
        BY <1>3, <2>3
    <2>4. ASSUME NEW i \in Jobs, G!GetJob(i)
          PROVE  seen'[j] = "completed"
        BY <1>3, <2>2, <2>4, GetJobShows
    <2>5. CASE \/ \E f \in fills : G!SetCachedJobResult(f)
               \/ \E i \in Jobs : G!CacheExpires(i)
        BY <1>3, <2>2, <2>5, CacheShows
    <2>. QED
        BY <2>1, <2>3, <2>4, <2>5, OthersShowNothing, PipelineAssumption DEF G!Read
<1>4. UnlessHarmed /\ [PipelineNext]_pipelineVars =>
          [/\ met' \subseteq {"heartbeat", "ack", "storage", "critical"}
           /\ gmet' \cap {"ack", "restart", "postgres", "minio"} = {}
           => \A j \in Jobs : seen[j] = "completed" => seen'[j] = "completed"]_seen
    BY <1>3 DEF Harmless, Disordering
<1>. QED
    BY <1>1, <1>2, <1>4, PTL DEF PipelineSpec, CompletedStaysVisible

-----------------------------------------------------------------------------
(***************************************************************************)
(* What the worker guarantees on its own it guarantees in the pipeline.    *)
(* That does not follow from Spec: the gateway may store a client's file   *)
(* as result.json while the worker runs, which is a step of no worker.     *)
(* But nothing the gateway does is visible in what these invariants speak  *)
(* about, so each of them is inductive for the pipeline too.               *)
(***************************************************************************)
OnceUnlessHarmed == OnceInv \/ ~(met \subseteq Harmless)
GuaranteeInv == /\ PathInv /\ MarkInv /\ UnlessLapsed /\ OrderInv /\ PaidInv
                /\ OnceUnlessHarmed

LEMMA GatewayUnseen ==
    ASSUME GatewayStep
    PROVE  UNCHANGED <<request, msg, delivered, lockKey, responses, pc, host,
                       ackTask, up, budget, met>>
BY DEF GatewayStep, workerVars, queueVars, taskVars, faultVars

LEMMA GatewayKeepsGuarantees ==
    ASSUME GuaranteeInv, GatewayStep
    PROVE  MarkInv' /\ UnlessLapsed' /\ OrderInv' /\ PaidInv' /\ OnceUnlessHarmed'
<1>1. UNCHANGED <<request, msg, delivered, lockKey, responses, pc, host, ackTask, up, budget, met>>
    BY GatewayUnseen
<1>2. TaskInv' /\ TypeOK'
    BY GatewaySpares DEF GuaranteeInv, PathInv
<1>. USE <1>1, <1>2
<1>3. MarkInv'
    BY AttemptType DEF GuaranteeInv, MarkInv, DoneIsAnswered, Answered, Said, Verdicts
<1>4. LockInv => LockInv'
    BY DEF LockInv, Exclusive, Holds, InLock
<1>5. OrderInv'
    BY DEF GuaranteeInv, OrderInv, OrderOK, Parses
<1>6. PaidInv'
    <2>1. ASSUME NEW j \in Jobs
          PROVE  Paid(j)'
        <3>1. Failing(j)' = Failing(j)
            BY DEF Failing, Attempts
        <3>2. Due(j)' <=> Due(j)
            BY DEF Due, Quiet, IsRunning, Attempts
        <3>3. Paid(j)
            BY DEF GuaranteeInv, PaidInv
        <3>. QED
            BY <3>1, <3>2, <3>3 DEF Paid
    <2>. QED
        BY <2>1 DEF PaidInv
<1>7. OnceInv => OnceInv'
    BY <1>4 DEF OnceInv, OnceOK, Said, Resolved, Attempts
<1>. QED
    BY <1>3, <1>4, <1>5, <1>6, <1>7 DEF GuaranteeInv, UnlessLapsed, OnceUnlessHarmed

LEMMA GuaranteeStep ==
    ASSUME GuaranteeInv, [PipelineNext]_pipelineVars
    PROVE  GuaranteeInv'
<1>1. PathInv'
    BY PipelineSteps, PathStep DEF GuaranteeInv
<1>2. CASE WorkerStep
    <2>1. [Next]_vars
        BY <1>2 DEF WorkerStep
    <2>2. MarkInv' /\ OrderInv' /\ PaidInv'
        BY <2>1, MarkInvStep, OrderStep, PaidStep DEF GuaranteeInv
    <2>3. UnlessLapsed'
        BY <2>1, LockStep, MetGrows DEF GuaranteeInv, UnlessLapsed
    <2>4. OnceUnlessHarmed'
        BY <2>1, OnceStep, MetGrows DEF GuaranteeInv, OnceUnlessHarmed
    <2>. QED
        BY <1>1, <2>2, <2>3, <2>4 DEF GuaranteeInv
<1>3. CASE GatewayStep
    BY <1>1, <1>3, GatewayKeepsGuarantees DEF GuaranteeInv
<1>. QED
    BY <1>2, <1>3, PipelineSteps

LEMMA GuaranteeInit == PipelineInit => GuaranteeInv
<1>1. PipelineInit => Init
    BY DEF PipelineInit
<1>. QED
    BY <1>1, PathInit, WorkInit, OrderInit, PaidInit, OnceInit
       DEF GuaranteeInv, WorkInv, UnlessLapsed, OnceUnlessHarmed

\* The invariants of the worker, which its own proofs establish for the
\* worker alone, hold while clients post, files arrive and the gateway reads:
\* the gateway cannot make it lose, repeat or disorder what it says.
THEOREM GuaranteesKept ==
    PipelineSpec => [](/\ DoneIsAnswered /\ OneHolder /\ InProgressComesFirst
                       /\ CompletedOnce /\ RedeliveryNeedsFault)
<1>1. GuaranteeInv => DoneIsAnswered
    BY DEF GuaranteeInv, MarkInv
<1>2. GuaranteeInv => OneHolder
    BY DEF GuaranteeInv, UnlessLapsed, LockInv, Exclusive, OneHolder, Attempts
<1>3. GuaranteeInv => InProgressComesFirst
    BY DEF GuaranteeInv, OrderInv, OrderOK, InProgressComesFirst
<1>4. GuaranteeInv => CompletedOnce
    BY DEF GuaranteeInv, OnceUnlessHarmed, OnceInv, OnceOK, OneOf, CompletedOnce, Harmless
<1>5. GuaranteeInv => RedeliveryNeedsFault
    BY PaidDeliveries DEF GuaranteeInv
<1>. QED
    BY <1>1, <1>2, <1>3, <1>4, <1>5, GuaranteeInit, GuaranteeStep, PTL DEF PipelineSpec

\* The mark of a job that is done, too, outlives everything but its hour.
THEOREM PipelineDoneStays == PipelineSpec => DoneIsFinal
<1>1. GuaranteeInv /\ [PipelineNext]_pipelineVars
        => [\A j \in Jobs : lockKey[j] = Done => lockKey'[j] = Done \/ DoneExpires(j)]_vars
    <2>. SUFFICES ASSUME GuaranteeInv, WorkerStep \/ GatewayStep
                  PROVE  [\A j \in Jobs : lockKey[j] = Done =>
                              lockKey'[j] = Done \/ DoneExpires(j)]_vars
        BY PipelineSteps
    <2>1. CASE WorkerStep
        BY <2>1, DoneStep DEF GuaranteeInv, MarkInv, WorkerStep
    <2>2. CASE GatewayStep
        BY <2>2, GatewayUnseen
    <2>. QED
        BY <2>1, <2>2
<1>. QED
    BY <1>1, GuaranteeInit, GuaranteeStep, PTL DEF PipelineSpec, DoneIsFinal

\* In the pipeline, too, the worker uses the queue as WorkQueue allows.
THEOREM PipelineUsesQueue == PipelineSpec => UsesQueue
<1>1. GuaranteeInv /\ [PipelineNext]_pipelineVars => [Queue!Next]_(Queue!vars)
    <2>. SUFFICES ASSUME GuaranteeInv, WorkerStep \/ GatewayStep
                  PROVE  [Queue!Next]_(Queue!vars)
        BY PipelineSteps
    <2>1. CASE WorkerStep
        BY <2>1, QueueUsed DEF GuaranteeInv, MarkInv, WorkerStep
    <2>2. CASE GatewayStep
        <3>1. UNCHANGED <<msg, delivered, pc, met>>
            BY <2>2, GatewayUnseen
        <3>2. UnderWay' = UnderWay /\ ("heartbeat" \in met') = ("heartbeat" \in met)
            BY <3>1 DEF UnderWay, IsRunning
        <3>. QED
            BY <3>1, <3>2 DEF Queue!vars
    <2>. QED
        BY <2>1, <2>2
<1>2. PipelineInit => Queue!Init
    BY QueueUsedInit DEF PipelineInit
<1>. QED
    BY <1>1, <1>2, GuaranteeInit, GuaranteeStep, PTL DEF PipelineSpec, UsesQueue, Queue!Spec

\* Whoever looks at the responses and at the queue of the whole pipeline sees
\* JobDelivery: no post, no file and no failure of the gateway makes the
\* worker drop a job without its verdict, or touch one that is settled.
THEOREM PipelineDelivers ==
    ASSUME StaleLocksRunOut, Faults \cap Losing = {}
    PROVE  PipelineSpec => KeepsPromise
<1>1. PipelineInit => SettleInv /\ Promise!Init
    BY SettleInit, PromiseInit DEF PipelineInit
<1>2. SettleInv /\ [PipelineNext]_pipelineVars => SettleInv'
    <2>. SUFFICES ASSUME SettleInv, WorkerStep \/ GatewayStep
                  PROVE  SettleInv'
        BY PipelineSteps
    <2>1. PathInv'
        BY PathStep DEF SettleInv
    <2>2. met' \cap Losing = {}
        BY <2>1 DEF PathInv, TaskInv, TypeOK
    <2>. QED
        BY <2>2, SettleStep
<1>3. SettleInv /\ SettleInv' /\ [PipelineNext]_pipelineVars => [Promise!Next]_(Promise!vars)
    <2>. SUFFICES ASSUME SettleInv, SettleInv', WorkerStep \/ GatewayStep
                  PROVE  [Promise!Next]_(Promise!vars)
        BY PipelineSteps
    <2>1. CASE WorkerStep
        BY <2>1, PromiseStep DEF SettleInv, WorkerStep
    <2>2. CASE GatewayStep
        <3>1. UNCHANGED <<request, msg, responses, pc>>
            BY <2>2, GatewayUnseen
        <3>2. UNCHANGED Promise!vars
            BY <3>1 DEF Promise!vars, Said, Settled, Quiet, IsRunning, Attempts
        <3>. QED
            BY <3>2
    <2>. QED
        BY <2>1, <2>2
<1>. QED
    BY <1>1, <1>2, <1>3, PTL DEF PipelineSpec, KeepsPromise, Promise!Spec
=============================================================================
