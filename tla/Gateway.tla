------------------------------- MODULE Gateway -------------------------------
(***************************************************************************)
(* The API gateway's side of an asynchronous job (api_gateway/src):        *)
(* PostJob creates the row, stores the file and publishes the request;     *)
(* HandleAsyncResponses consumes the response stream and updates the row;  *)
(* sendWebhookForJob reports terminal responses; GetJob answers clients    *)
(* from the Redis cache, the row and result.json.                          *)
(*                                                                         *)
(* The response stream belongs to the worker: it is a variable here and    *)
(* changed by the composition, AsyncPipeline.  Of result.json only one     *)
(* change is the gateway's: the file a client has named so.                *)
(***************************************************************************)
EXTENDS Integers, Sequences, FiniteSets

CONSTANTS
    Jobs,           \* the jobs clients post
    GatewayFaults,  \* which faults the gateway meets
    MaxGatewayFaults, \* bound: how many of them
    Polled,         \* bound: the jobs whose clients call GetJob
    Audio,          \* the client's file, where result.json should be
    StoredAs,       \* what StoreFile may leave at {job}/result.json
    None

GatewayFaultKind == {
    "postgres", \* a statement fails
    "minio",    \* storing or reading a file fails
    "publish",  \* publishing the request fails, stored or not
    "redis",    \* the result cache cannot be read or written
    "ack",      \* msg.Ack() is lost: the response is delivered again
    "webhook",  \* the receiver cannot be reached or answers >= 400
    "restart"}  \* the process stops; docker restarts it (unless-stopped)

VARIABLES
    responses,   \* [Jobs]: the worker's messages on the response stream
    resultJson,  \* [Jobs]: who wrote {job}/result.json, Audio, or None
    wantsHook,   \* [Jobs]: does the request carry a webhook_url?
    post,        \* [Jobs]: where PostJob is
    row,         \* [Jobs]: the row of jobs.transcription_jobs
    hook,        \* [Jobs]: is there a row of jobs.webhook_configs?
    file,        \* [Jobs]: is the audio stored?
    published,   \* [Jobs]: is the request on the request stream?
    delivered,   \* [Jobs]: responses delivered to the consumer so far
    unacked,     \* [Jobs]: delivered responses the server may send again
    inHand,      \* the response HandleAsyncResponses is working on
    calls,       \* running goroutines sendWebhookForJob
    sent,        \* [Jobs]: the webhooks that reached the receiver
    cache,       \* [Jobs]: transcriber:async:{job}:result_cache
    fills,       \* running goroutines setCachedJobResult
    seen,        \* [Jobs]: the last answer of GetJob
    gbudget,     \* gateway faults left
    gmet         \* the kinds of gateway fault met so far

postVars    == <<wantsHook, post, hook, file, resultJson, published>>
consumeVars == <<delivered, unacked, inHand>>
hookVars    == <<calls, sent>>
readVars    == <<cache, fills, seen>>
gfaultVars  == <<gbudget, gmet>>
gatewayVars == <<postVars, row, consumeVars, hookVars, readVars, gfaultVars>>

\* finished_at is parsed as RFC 3339; a timestamp without an offset, which is
\* what ResponseBuilder.send_error_response writes, parses to the zero time.
FinishedAt(status) == IF status = "failed" THEN "zero" ELSE "time"

NoRow     == [status |-> "none", error |-> FALSE, finished |-> "null"]
NewRow    == [NoRow EXCEPT !.status = "pending"]
RowStatus == {"none", "pending", "in_progress", "completed", "failed"}
Terminal  == {"completed", "failed"}

GatewayTypeOK ==
    /\ post      \in [Jobs -> {"start", "created", "configured", "stored",
                               "accepted", "rejected"}]
    /\ row       \in [Jobs -> [status : RowStatus, error : BOOLEAN,
                               finished : {"null", "time", "zero"}]]
    /\ \A j \in Jobs : /\ delivered[j] \in 0..Len(responses[j])
                       /\ unacked[j] \subseteq 1..delivered[j]
    /\ wantsHook \in [Jobs -> BOOLEAN]
    /\ hook      \in [Jobs -> BOOLEAN]
    /\ file      \in [Jobs -> BOOLEAN]
    /\ published \in [Jobs -> BOOLEAN]
    /\ \A c \in calls : /\ c.job \in Jobs /\ c.index \in 1..delivered[c.job]
                        /\ c.stage \in {"config", "poll", "send"}
    /\ gbudget   \in 0..MaxGatewayFaults /\ gmet \subseteq GatewayFaults

GatewayInit ==
    /\ wantsHook \in [Jobs -> BOOLEAN]
    /\ post      = [j \in Jobs |-> "start"]
    /\ row       = [j \in Jobs |-> NoRow]
    /\ hook      = [j \in Jobs |-> FALSE]
    /\ file      = [j \in Jobs |-> FALSE]
    /\ published = [j \in Jobs |-> FALSE]
    /\ delivered = [j \in Jobs |-> 0]
    /\ unacked   = [j \in Jobs |-> {}]
    /\ inHand    = None
    /\ calls     = {}
    /\ sent      = [j \in Jobs |-> <<>>]
    /\ cache     = [j \in Jobs |-> None]
    /\ fills     = {}
    /\ seen      = [j \in Jobs |-> "nothing"]
    /\ gbudget   = MaxGatewayFaults /\ gmet = {}

Hit(kind) == /\ kind \in GatewayFaults
             /\ gbudget > 0
             /\ gbudget' = gbudget - 1
             /\ gmet' = gmet \cup {kind}
Smooth    == UNCHANGED gfaultVars

-----------------------------------------------------------------------------
(* PostJob.  Every error answers the client and leaves what was done.      *)

PostStep(j, from, to) == post[j] = from /\ post' = [post EXCEPT ![j] = to]

CreateAsyncJob(j) ==
    /\ \/ /\ PostStep(j, "start", "created")
          /\ row' = [row EXCEPT ![j] = NewRow]
          /\ Smooth
       \/ /\ PostStep(j, "start", "rejected")
          /\ UNCHANGED row
          /\ Hit("postgres")
    /\ UNCHANGED <<wantsHook, hook, file, resultJson, published, consumeVars, hookVars, readVars>>

SaveWebhookConfig(j) ==
    /\ \/ /\ PostStep(j, "created", "configured")
          /\ hook' = [hook EXCEPT ![j] = wantsHook[j]]
          /\ Smooth
       \/ /\ PostStep(j, "created", "rejected") /\ wantsHook[j]
          /\ UNCHANGED hook
          /\ Hit("postgres")
    /\ UNCHANGED <<wantsHook, row, file, resultJson, published, consumeVars, hookVars, readVars>>

\* storage.Put of {job}/{client's file name}.
StoreFile(j) ==
    /\ \/ /\ PostStep(j, "configured", "stored")
          /\ file' = [file EXCEPT ![j] = TRUE]
          /\ \E stored \in StoredAs : resultJson' = [resultJson EXCEPT ![j] = stored]
          /\ Smooth
       \/ /\ PostStep(j, "configured", "rejected")
          /\ UNCHANGED <<file, resultJson>>
          /\ Hit("minio")
    /\ UNCHANGED <<wantsHook, row, hook, published, consumeVars, hookVars, readVars>>

\* A wrong order: the request is published before the webhook is saved.
PublishFirst(j) ==
    /\ post[j] \in {"created", "configured", "stored"} /\ ~published[j]
    /\ published' = [published EXCEPT ![j] = TRUE]
    /\ post' = [post EXCEPT ![j] = IF @ = "stored" THEN "accepted" ELSE @]
    /\ Smooth
    /\ UNCHANGED <<wantsHook, row, hook, file, resultJson, consumeVars, hookVars, readVars>>

CreateAsyncJobFile(j) ==
    /\ \/ /\ PostStep(j, "stored", "accepted")
          /\ published' = [published EXCEPT ![j] = TRUE]
          /\ Smooth
       \/ /\ PostStep(j, "stored", "rejected")
          /\ published' \in {published, [published EXCEPT ![j] = TRUE]}
          /\ Hit("publish")
    /\ UNCHANGED <<wantsHook, row, hook, file, resultJson, consumeVars, hookVars, readVars>>

-----------------------------------------------------------------------------
(* HandleAsyncResponses: the callback runs for one message at a time, and  *)
(* acknowledges before it does anything else.                              *)

\* Ack() may be lost after the call, or return an error, which ends the
\* handling; either way the server will deliver the message again.
Handling(j, i) ==
    \/ /\ inHand' = [job |-> j, index |-> i]
       /\ unacked' = [unacked EXCEPT ![j] = @ \ {i}]
       /\ Smooth
    \/ /\ inHand' \in {None, [job |-> j, index |-> i]}
       /\ unacked' = [unacked EXCEPT ![j] = @ \cup {i}]
       /\ Hit("ack")

Receive(j) ==
    /\ inHand = None
    /\ delivered[j] < Len(responses[j])
    /\ delivered' = [delivered EXCEPT ![j] = @ + 1]
    /\ Handling(j, delivered[j] + 1)
    /\ UNCHANGED <<postVars, row, hookVars, readVars>>

Redeliver(j) ==
    /\ inHand = None
    /\ \E i \in unacked[j] : Handling(j, i)
    /\ UNCHANGED <<postVars, row, delivered, hookVars, readVars>>

\* A wrong update: only the first one counts.
UpdatedOnce(r, status) ==
    IF r.status = "pending" THEN [r EXCEPT !.status = status] ELSE r

\* JobRepository.UpdateJobStatus: an UPDATE by id, whatever the row says.
Updated(r, status) ==
    IF status = "in_progress" THEN [r EXCEPT !.status = status]
    ELSE IF status = "completed"
         THEN [r EXCEPT !.status = status, !.finished = FinishedAt(status)]
         ELSE [r EXCEPT !.status = status, !.finished = FinishedAt(status), !.error = TRUE]

\* A goroutine sendWebhookForJob; nth tells equal ones apart.
Call(j, i, status) ==
    [job |-> j, index |-> i, status |-> status, result |-> FALSE, stage |-> "config",
     nth |-> CHOOSE n \in 1..Cardinality(calls) + 1 : \A c \in calls : c.nth # n]

\* The update, and for a terminal status the goroutine that reports it.  An
\* error of the database is logged; the message is acknowledged already.
UpdateJobStatus ==
    /\ inHand # None
    /\ LET j == inHand.job
           status == responses[j][inHand.index].status
       IN  \/ /\ row' = [row EXCEPT ![j] = IF @ = NoRow THEN @ ELSE Updated(@, status)]
              /\ calls' = calls \cup {Call(j, inHand.index, s) : s \in {status} \cap Terminal}
              /\ Smooth
           \/ Hit("postgres") /\ UNCHANGED <<row, calls>>
    /\ inHand' = None
    /\ UNCHANGED <<postVars, delivered, unacked, sent, readVars>>

-----------------------------------------------------------------------------
(* sendWebhookForJob, one goroutine per terminal response.                 *)

Becomes(c, d) == calls' = (calls \ {c}) \cup {d}
Ends(c)       == calls' = calls \ {c}

GetWebhookConfig(c) ==
    /\ c.stage = "config"
    /\ \/ /\ hook[c.job]
          /\ Becomes(c, [c EXCEPT !.stage =
                            IF c.status = "completed" THEN "poll" ELSE "send"])
          /\ Smooth
       \/ ~hook[c.job] /\ Ends(c) /\ Smooth
       \/ Hit("postgres") /\ Ends(c)
    /\ UNCHANGED <<postVars, row, consumeVars, sent, readVars>>

\* result.json is there: if it can be read and is JSON, its bytes become the
\* payload's result; else the webhook goes out without one.
FindResult(c) ==
    /\ c.stage = "poll"
    /\ resultJson[c.job] # None
    /\ \/ /\ Becomes(c, [c EXCEPT !.stage = "send", !.result = resultJson[c.job] # Audio])
          /\ Smooth
       \/ Becomes(c, [c EXCEPT !.stage = "send"]) /\ Hit("minio")
    /\ UNCHANGED <<postVars, row, consumeVars, sent, readVars>>

\* A wrong report: 'completed' although no result was found.
GiveUpAsCompleted(c) ==
    /\ c.stage = "poll"
    /\ resultJson[c.job] = None
    /\ Becomes(c, [c EXCEPT !.stage = "send", !.result = TRUE]) /\ Smooth
    /\ UNCHANGED <<postVars, row, consumeVars, sent, readVars>>

\* Five looks, two seconds apart, found nothing: 'failed' is reported.
GiveUpOnResult(c) ==
    /\ c.stage = "poll"
    /\ IF resultJson[c.job] = None THEN Smooth ELSE Hit("minio")
    /\ Becomes(c, [c EXCEPT !.stage = "send", !.status = "failed"])
    /\ UNCHANGED <<postVars, row, consumeVars, sent, readVars>>

\* One attempt, no retry.
SendWebhook(c) ==
    /\ c.stage = "send"
    /\ Ends(c)
    /\ \/ sent' = [sent EXCEPT ![c.job] =
                      Append(@, [index |-> c.index, status |-> c.status,
                                 result |-> c.result])]
          /\ Smooth
       \/ UNCHANGED sent /\ Hit("webhook")
    /\ UNCHANGED <<postVars, row, consumeVars, readVars>>

-----------------------------------------------------------------------------
(* GetJob.                                                                 *)

\* sendDataWithDownload: bytes that are no JSON are an error, or are handed
\* over unread if the client asked for a download.
Show(j, bytes) ==
    \E shown \in IF bytes = Audio THEN {"error", "audio"} ELSE {"completed"} :
        seen' = [seen EXCEPT ![j] = shown]

\* The cached bytes first, then the row; 'completed' needs result.json, and
\* a goroutine caches what was read.  An error of Redis reads as no cache.
AnswerFromRow(j) ==
    IF row[j].status # "completed"
    THEN seen' = [seen EXCEPT ![j] = row[j].status] /\ UNCHANGED fills
    ELSE IF resultJson[j] = None
    THEN seen' = [seen EXCEPT ![j] = "error"] /\ UNCHANGED fills
    ELSE /\ Show(j, resultJson[j])
         /\ fills' = fills \cup {[job |-> j, bytes |-> resultJson[j]]}

GetJob(j) ==
    /\ \/ /\ cache[j] # None
          /\ Show(j, cache[j])
          /\ UNCHANGED fills /\ Smooth
       \/ /\ IF cache[j] = None THEN Smooth ELSE Hit("redis")
          /\ AnswerFromRow(j)
       \/ /\ cache[j] = None
          /\ Hit("postgres") \/ (row[j].status = "completed" /\ Hit("minio"))
          /\ seen' = [seen EXCEPT ![j] = "error"]
          /\ UNCHANGED fills
    /\ UNCHANGED <<postVars, row, consumeVars, hookVars, cache>>

SetCachedJobResult(f) ==
    /\ fills' = fills \ {f}
    /\ \/ cache' = [cache EXCEPT ![f.job] = f.bytes] /\ Smooth
       \/ UNCHANGED cache /\ Hit("redis")
    /\ UNCHANGED <<postVars, row, consumeVars, hookVars, seen>>

\* asyncJobResultCacheTTL is over.
CacheExpires(j) ==
    /\ cache[j] # None
    /\ cache' = [cache EXCEPT ![j] = None]
    /\ UNCHANGED <<postVars, row, consumeVars, hookVars, fills, seen, gfaultVars>>

-----------------------------------------------------------------------------
\* The process dies and comes back: handlers and goroutines are gone, and
\* clients of unfinished posts get an error.  Responses the client library
\* had fetched ahead of the handler are delivered again after the ack wait,
\* newer ones at once.
RestartGateway ==
    /\ Hit("restart")
    /\ post' = [j \in Jobs |-> IF post[j] \in {"created", "configured", "stored"}
                               THEN "rejected" ELSE post[j]]
    /\ inHand' = None /\ calls' = {} /\ fills' = {}
    /\ \E ahead \in SUBSET Jobs :
          /\ delivered' = [j \in Jobs |-> IF j \in ahead THEN Len(responses[j])
                                                       ELSE delivered[j]]
          /\ unacked' = [j \in Jobs |-> unacked[j] \cup (delivered[j] + 1)..delivered'[j]]
    /\ UNCHANGED <<wantsHook, hook, file, resultJson, published, row, sent, cache, seen>>

Post(j)    == \/ CreateAsyncJob(j) \/ SaveWebhookConfig(j)
              \/ StoreFile(j) \/ CreateAsyncJobFile(j)
Consume    == UpdateJobStatus \/ \E j \in Jobs : Receive(j) \/ Redeliver(j)
Report     == \E c \in calls : \/ GetWebhookConfig(c) \/ FindResult(c)
                               \/ GiveUpOnResult(c) \/ SendWebhook(c)
Read       == \/ \E j \in Polled : GetJob(j) \/ CacheExpires(j)
              \/ \E f \in fills : SetCachedJobResult(f)

GatewayNext ==
    \/ \E j \in Jobs : Post(j)
    \/ Consume \/ Report \/ Read \/ RestartGateway
=============================================================================
