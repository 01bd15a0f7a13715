---------------------------- MODULE SyncStreaming ----------------------------
(***************************************************************************)
(* The streaming path end to end: the gateway's sessions (StreamSession)   *)
(* and the worker's replicas (SyncService), which share what NATS carries  *)
(* between them.                                                           *)
(***************************************************************************)
EXTENDS SyncService

VARIABLES phase, client, forwarder, next, got, row

S == INSTANCE StreamSession

sessionVars   == <<phase, client, forwarder, next, got, row>>
streamingVars == <<syncVars, sessionVars>>

StreamingInit == Init /\ S!SessionInit

ServiceSide(step) == step /\ UNCHANGED sessionVars
SessionSide(step) == step /\ UNCHANGED ownVars

StreamingNext == ServiceSide(ServiceNext) \/ SessionSide(S!SessionNext)

\* Event loops and goroutines run on, timeouts elapse, keys expire.  Nobody
\* makes a client leave, and nobody restarts a worker.
StreamingFairness ==
    /\ \A r \in Replicas : /\ WF_streamingVars(ServiceSide(HandleInit(r)))
                           /\ \A j \in Jobs : WF_streamingVars(ServiceSide(HandleMessages(r, j)))
    /\ \A j \in Jobs : /\ WF_streamingVars(ServiceSide(LockExpires(j)))
                       /\ WF_streamingVars(SessionSide(S!Session(j)))
                       /\ WF_streamingVars(SessionSide(S!HandleSyncStatusFinish(j)))

StreamingSpec     == StreamingInit /\ [][StreamingNext]_streamingVars
FairStreamingSpec == StreamingSpec /\ StreamingFairness

-----------------------------------------------------------------------------
StreamingTypeOK == TypeOK /\ S!SessionTypeOK

\* The client sees responses in the order of its audio and none twice, over
\* crashes of replicas and inits that are handled late.
ResponsesInOrder == met \cap {"lapse", "redis"} = {} =>
    \A j \in Jobs : \A i, k \in DOMAIN got[j] : i < k => got[j][i] < got[j][k]

\* As long as the client's messages parse and no lock is lost, a row says
\* completed only when its session is over: no silence the session tolerates
\* ends the stream, no replica that comes late does, and no session misses the
\* 'ready' and waits while its stream falls silent.
CompletedMeansOver == met \cap {"lapse", "redis", "garbled"} = {} =>
    \A j \in Jobs : row[j] = "completed" => phase[j] \in {"closing", "closed"}

\* A session that ended, however it ended, leaves no open stream behind: not
\* the one it used, not one a late replica opens for it.  (What a failure of
\* Redis leaves of a stream is bounded by ActiveCounts.)
StreamsEnd ==
    \A j \in Jobs : phase[j] = "closed" ~>
        [](\A r \in Replicas : stream[r][j] # "open" /\ j \notin spawned[r])

\* When the client of a streaming session leaves, its row is completed, also
\* when the stream had ended early, unless a process dies, or Redis or the
\* database fails.
RowCompletes ==
    \A j \in Jobs : phase[j] = "streaming" /\ client[j] = "silent" ~>
        row[j] = "completed" \/ met \cap {"crash", "gateway", "redis", "postgres"} # {}
=============================================================================
