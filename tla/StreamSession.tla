---------------------------- MODULE StreamSession ----------------------------
(***************************************************************************)
(* The gateway's side of a streaming job (gateway/endpoints/sync,          *)
(* HandleSyncStatusFinish of gateway/Api.go): a WebSocket client gets a    *)
(* row and a session; the session publishes the init message, waits for    *)
(* 'ready', passes audio on and responses back, and ends when the client   *)
(* leaves.  A 'finished' on the common status topic completes the row.     *)
(*                                                                         *)
(* A callback that finds its channel full holds the messages behind it     *)
(* back, so a subscription, its callback and its channel are one queue.    *)
(***************************************************************************)
EXTENDS Integers, Sequences

CONSTANTS
    Jobs,
    Replicas,   \* the replicas of the worker
    MaxChunks,  \* bound: chunks of audio a client sends
    Faults,     \* which faults happen
    MaxFaults   \* bound: how many of them

VARIABLES
    inits, chunks, statuses, responses, announced, listens, \* see SyncService
    stream, up, \* the subscribers of the processing and init topics
    budget,     \* faults left
    met,        \* the kinds of fault met so far
    phase,      \* [Jobs]: where HandleWebSocketStream is
    client,     \* [Jobs]: does the client talk?
    forwarder,  \* [Jobs]: the goroutine forwardResponsesToClient
    next,       \* [Jobs]: the next chunk
    got,        \* [Jobs]: the chunks the client saw a response to
    row         \* [Jobs]: the status of the row

sessionVars == <<phase, client, forwarder, next, got, row>>

SessionTypeOK ==
    /\ phase     \in [Jobs -> {"none", "created", "waiting", "streaming",
                               "closing", "closed"}]
    /\ client    \in [Jobs -> {"talks", "silent"}]
    /\ forwarder \in [Jobs -> {"none", "running", "ended"}]
    /\ next      \in [Jobs -> 1..MaxChunks + 1]
    /\ got       \in [Jobs -> Seq(0..MaxChunks)]
    /\ row       \in [Jobs -> {"none", "pending", "completed"}]

SessionInit ==
    /\ phase     = [j \in Jobs |-> "none"]
    /\ client    = [j \in Jobs |-> "talks"]
    /\ forwarder = [j \in Jobs |-> "none"]
    /\ next      = [j \in Jobs |-> 1]
    /\ got       = [j \in Jobs |-> <<>>]
    /\ row       = [j \in Jobs |-> "none"]

Fault(kind) ==
    /\ kind \in Faults /\ budget > 0
    /\ budget' = budget - 1
    /\ met' = met \cup {kind}
NoFault == UNCHANGED <<budget, met>>

PhaseStep(j, from, to) == phase[j] = from /\ phase' = [phase EXCEPT ![j] = to]

\* Publishing to the job's processing topic.
Process(j, n) ==
    chunks' = [r \in Replicas |->
                  IF stream[r][j] \in {"open", "leaked"}
                  THEN [chunks[r] EXCEPT ![j] = Append(@, n)] ELSE chunks[r]]

-----------------------------------------------------------------------------
(* HandleWebSocketStream and newStreamSession.                             *)

CreateSyncJob(j) ==
    /\ \/ /\ PhaseStep(j, "none", "created") /\ NoFault
          /\ row' = [row EXCEPT ![j] = "pending"]
       \/ PhaseStep(j, "none", "closed") /\ UNCHANGED row /\ Fault("postgres")
    /\ UNCHANGED <<inits, chunks, statuses, responses, announced, listens,
                   client, forwarder, next, got>>

\* subscribeNATS, then sendInit: every replica that runs hears it.
SendInit(j) ==
    /\ PhaseStep(j, "created", "waiting")
    /\ listens' = [listens EXCEPT ![j] = TRUE]
    /\ inits' = [r \in Replicas |-> IF up[r] THEN Append(inits[r], j) ELSE inits[r]]
    /\ NoFault
    /\ UNCHANGED <<chunks, statuses, responses, announced,
                   client, forwarder, next, got, row>>

\* waitForReady: any status but 'failed' will do, and the goroutines start;
\* or ten seconds go by, and no finish is sent.
WaitForReady(j) ==
    /\ \/ /\ PhaseStep(j, "waiting", "streaming")
          /\ statuses[j] # <<>>
          /\ statuses' = [statuses EXCEPT ![j] = Tail(@)]
          /\ forwarder' = [forwarder EXCEPT ![j] = "running"]
       \/ PhaseStep(j, "waiting", "closing") /\ UNCHANGED <<statuses, forwarder>>
    /\ NoFault
    /\ UNCHANGED <<inits, chunks, responses, announced, listens, client, next, got, row>>

-----------------------------------------------------------------------------
(* The session: the read loop and the forwarding goroutine.                *)

\* processAudioMessage: only the bytes of the client's message go on.  (One
\* that does not parse is logged; see the fault "garbled".)
ProcessAudioMessage(j) ==
    /\ phase[j] = "streaming" /\ client[j] = "talks" /\ next[j] <= MaxChunks
    /\ Process(j, next[j])
    /\ next' = [next EXCEPT ![j] = @ + 1]
    /\ NoFault
    /\ UNCHANGED <<inits, statuses, responses, announced, listens,
                   phase, client, forwarder, got, row>>

\* The client closes, disappears, or says nothing for ten seconds.
ClientLeaves(j) ==
    /\ client[j] = "talks"
    /\ client' = [client EXCEPT ![j] = "silent"]
    /\ NoFault
    /\ UNCHANGED <<inits, chunks, statuses, responses, announced, listens,
                   phase, forwarder, next, got, row>>

\* handleReadError: a read fails or times out, or the ping loop has closed
\* the connection.
ReadError(j) ==
    /\ client[j] = "silent" /\ PhaseStep(j, "streaming", "closing")
    /\ Process(j, 0)
    /\ NoFault
    /\ UNCHANGED <<inits, statuses, responses, announced, listens,
                   client, forwarder, next, got, row>>

\* forwardResponsesToClient; a failing write is logged.
ForwardResponse(j) ==
    /\ forwarder[j] = "running" /\ responses[j] # <<>>
    /\ responses' = [responses EXCEPT ![j] = Tail(@)]
    /\ got' = IF client[j] = "talks" THEN [got EXCEPT ![j] = Append(@, Head(responses[j]))]
                                     ELSE got
    /\ NoFault
    /\ UNCHANGED <<inits, chunks, statuses, announced, listens,
                   phase, client, forwarder, next, row>>

\* ... ends at a terminal status; the read loop goes on.
ForwardStatus(j) ==
    /\ forwarder[j] = "running" /\ statuses[j] # <<>>
    /\ statuses' = [statuses EXCEPT ![j] = Tail(@)]
    /\ forwarder' = [forwarder EXCEPT ![j] = IF Head(statuses[j]) = "finished"
                                             THEN "ended" ELSE @]
    /\ NoFault
    /\ UNCHANGED <<inits, chunks, responses, announced, listens,
                   phase, client, next, got, row>>

\* Cancels the context, unsubscribes, waits for the goroutines, closes.
Close(j) ==
    /\ PhaseStep(j, "closing", "closed")
    /\ listens' = [listens EXCEPT ![j] = FALSE]
    /\ statuses' = [statuses EXCEPT ![j] = <<>>]
    /\ responses' = [responses EXCEPT ![j] = <<>>]
    /\ forwarder' = [forwarder EXCEPT ![j] = "ended"]
    /\ NoFault
    /\ UNCHANGED <<inits, chunks, announced, client, next, got, row>>

-----------------------------------------------------------------------------
\* HandleSyncStatusFinish: the lock of the status is taken, the row updated,
\* the lock released.  An error of the first two drops the message; so does a
\* lock that Redis would not release, or a gateway that died left, before its
\* five seconds are over.
HandleSyncStatusFinish(j) ==
    /\ announced[j] > 0
    /\ announced' = [announced EXCEPT ![j] = @ - 1]
    /\ \/ row' = [row EXCEPT ![j] = "completed"] /\ (NoFault \/ Fault("redis"))
       \/ UNCHANGED row /\ (Fault("redis") \/ Fault("postgres"))
       \/ UNCHANGED row /\ met \cap {"redis", "gateway"} # {} /\ NoFault
    /\ UNCHANGED <<inits, chunks, statuses, responses, listens,
                   phase, client, forwarder, next, got>>

\* The process dies: its sessions are gone without a finish, and so are the
\* messages on their way to it.
RestartGateway ==
    /\ Fault("gateway")
    /\ phase' = [j \in Jobs |-> IF phase[j] = "none" THEN "none" ELSE "closed"]
    /\ forwarder' = [j \in Jobs |-> IF forwarder[j] = "none" THEN "none" ELSE "ended"]
    /\ listens'   = [j \in Jobs |-> FALSE]
    /\ statuses'  = [j \in Jobs |-> <<>>]
    /\ responses' = [j \in Jobs |-> <<>>]
    /\ announced' = [j \in Jobs |-> 0]
    /\ UNCHANGED <<inits, chunks, client, next, got, row>>

Session(j) ==
    \/ CreateSyncJob(j) \/ SendInit(j) \/ WaitForReady(j) \/ ReadError(j)
    \/ ForwardResponse(j) \/ ForwardStatus(j) \/ Close(j)

SessionNext ==
    \/ \E j \in Jobs : \/ Session(j) \/ ProcessAudioMessage(j) \/ ClientLeaves(j)
                       \/ HandleSyncStatusFinish(j)
    \/ RestartGateway
=============================================================================
