------------------------------ MODULE CrocModel ------------------------------
(***************************************************************************)
(* CrocWhisperModel.predict (transcribation_model/croc_whisper.py), the    *)
(* adapter of an external transcription service, as AudioProcessor calls   *)
(* it: one thread per file of a job, the files of an attempt one after the *)
(* other, and a further attempt when the job's message is redelivered.     *)
(*                                                                         *)
(* Between attempts survive the service's tasks and two kinds of Redis     *)
(* keys of the job: file_map (hash of the file -> task) and result.  The   *)
(* list of the job's task ids, which nothing reads, is left out.           *)
(***************************************************************************)
EXTENDS Integers, Sequences

CONSTANTS
    Files,      \* the job's files, in the order of processing
    Silent,     \* the ones in which nobody speaks: no segments
    Faults,     \* which faults happen
    MaxFaults   \* bound: how many of them

File == {Files[i] : i \in DOMAIN Files}

FaultKind == {
    "crash",    \* the replica dies with its threads
    "raise",    \* the handler raises after its files: the job is redelivered
    "lapse",    \* another attempt starts beside this one
    "timeout",  \* TRANSCRIPTION_TIMEOUT is over, and a thread outlives its handler
    "slow",     \* poll_timeout is over
    "api",      \* a call of the service raises, or is retried by the session
    "fails",    \* a task of the service fails
    "redis",    \* a get reads as None, a set as False
    "expire"}   \* a key's ttl is over: 600 s of file_map, 7200 s of result

ASSUME CrocAssumption ==
    /\ Files \in Seq(STRING) /\ Silent \subseteq File
    /\ File \cap {"none", "error"} = {}
    /\ Faults \subseteq FaultKind /\ MaxFaults \in Nat

Attempt == 1..MaxFaults + 1
NoTask  == 0

VARIABLES
    handler,  \* [Attempt]: where process_audio_files is
    current,  \* [Attempt]: which file it waits for
    result,   \* [Attempt -> [File]]: whose segments it got
    pc,       \* [Attempt -> [File]]: where the thread running predict is
    taskId,   \* [Attempt -> [File]]: its task_id
    fileMap,  \* [File]: the key file_map:{hash}
    cache,    \* the key result: whose segments
    tasks,    \* the tasks of the service: file, state, ever in file_map
    budget,   \* faults left
    met       \* the kinds of fault met so far

faultVars == <<budget, met>>
crocVars  == <<handler, current, result, pc, taskId, fileMap, cache, tasks, faultVars>>

PC == {"idle", "cache", "mapping", "submit", "register", "poll", "fetch", "store", "end"}

TypeOK ==
    /\ handler \in [Attempt -> {"idle", "running", "finished", "raised", "dead"}]
    /\ current \in [Attempt -> 0..Len(Files)]
    /\ result  \in [Attempt -> [File -> File \cup {"none", "error"}]]
    /\ pc      \in [Attempt -> [File -> PC]]
    /\ taskId  \in [Attempt -> [File -> 0..Len(tasks)]]
    /\ fileMap \in [File -> 0..Len(tasks)]
    /\ cache   \in File \cup {"none"}
    /\ \A i \in DOMAIN tasks : tasks[i] \in [file : File, registered : BOOLEAN,
                                   state : {"PROGRESS", "SUCCESS", "FAILURE"}]
    /\ budget  \in 0..MaxFaults /\ met \subseteq Faults

Init ==
    /\ handler = [a \in Attempt |-> "idle"]
    /\ current = [a \in Attempt |-> 0]
    /\ result  = [a \in Attempt |-> [f \in File |-> "none"]]
    /\ pc      = [a \in Attempt |-> [f \in File |-> "idle"]]
    /\ taskId  = [a \in Attempt |-> [f \in File |-> NoTask]]
    /\ fileMap = [f \in File |-> NoTask]
    /\ cache   = "none" /\ tasks = <<>> /\ budget = MaxFaults /\ met = {}

Fault(kind) ==
    /\ kind \in Faults /\ budget > 0
    /\ budget' = budget - 1
    /\ met' = met \cup {kind}
NoFault == UNCHANGED faultVars

Goto(a, f, from, to) == pc[a][f] = from /\ pc' = [pc EXCEPT ![a][f] = to]

Waits(a, f) == handler[a] = "running" /\ current[a] > 0 /\ Files[current[a]] = f

\* The thread ends; its value reaches a handler that still waits for it.
Returns(a, f, value) ==
    /\ pc' = [pc EXCEPT ![a][f] = "end"]
    /\ result' = IF Waits(a, f) THEN [result EXCEPT ![a][f] = value] ELSE result

-----------------------------------------------------------------------------
(* AudioProcessor.process_audio_files, in an attempt of the worker.        *)

\* A first delivery, or one after an attempt that will not finish.
StartAttempt(a) ==
    /\ handler[a] = "idle"
    /\ \A b \in 1..a - 1 : handler[b] # "idle"
    /\ \/ /\ \A b \in 1..a - 1 : handler[b] \in {"dead", "raised"}
          /\ NoFault
       \/ /\ \E b \in 1..a - 1 : handler[b] = "running"
          /\ Fault("lapse")
    /\ handler' = [handler EXCEPT ![a] = "running"]
    /\ UNCHANGED <<current, result, pc, taskId, fileMap, cache, tasks>>

\* The next file goes to a thread, unless its conversion takes too long.
NextFile(a) ==
    /\ handler[a] = "running" /\ current[a] < Len(Files)
    /\ current[a] > 0 => result[a][Files[current[a]]] # "none"
    /\ current' = [current EXCEPT ![a] = @ + 1]
    /\ \/ /\ pc' = [pc EXCEPT ![a][Files[current[a] + 1]] = "cache"]
          /\ UNCHANGED result /\ NoFault
       \/ /\ result' = [result EXCEPT ![a][Files[current[a] + 1]] = "error"]
          /\ UNCHANGED pc /\ Fault("timeout")
    /\ UNCHANGED <<handler, taskId, fileMap, cache, tasks>>

\* run_with_timeout gives up; a thread cannot be cancelled and goes on.
StopWaiting(a) ==
    /\ handler[a] = "running" /\ current[a] > 0
    /\ result[a][Files[current[a]]] = "none"
    /\ Fault("timeout")
    /\ result' = [result EXCEPT ![a][Files[current[a]]] = "error"]
    /\ UNCHANGED <<handler, current, pc, taskId, fileMap, cache, tasks>>

EndAttempt(a) ==
    /\ handler[a] = "running" /\ current[a] = Len(Files)
    /\ \A f \in File : result[a][f] # "none"
    /\ \/ handler' = [handler EXCEPT ![a] = "finished"] /\ NoFault
       \/ handler' = [handler EXCEPT ![a] = "raised"] /\ Fault("raise")
    /\ UNCHANGED <<current, result, pc, taskId, fileMap, cache, tasks>>

Crash(a) ==
    /\ handler[a] = "running" /\ Fault("crash")
    /\ handler' = [handler EXCEPT ![a] = "dead"]
    /\ pc' = [pc EXCEPT ![a] = [f \in File |-> "end"]]
    /\ UNCHANGED <<current, result, taskId, fileMap, cache, tasks>>

-----------------------------------------------------------------------------
(* CrocWhisperModel.predict, one thread.                                   *)

\* A wrong look-up: the cached result is not looked at.
GetNothingCached(a, f) ==
    /\ Goto(a, f, "cache", "mapping") /\ NoFault
    /\ UNCHANGED <<handler, current, result, taskId, fileMap, cache, tasks>>

\* The result key belongs to the job, not to the file; a list of segments
\* that is empty counts as no result.
GetCached(a, f) ==
    /\ \/ /\ pc[a][f] = "cache" /\ cache # "none" /\ cache \notin Silent
          /\ Returns(a, f, cache) /\ NoFault
       \/ /\ Goto(a, f, "cache", "mapping")
          /\ IF cache = "none" \/ cache \in Silent THEN NoFault ELSE Fault("redis")
          /\ UNCHANGED result
    /\ UNCHANGED <<handler, current, taskId, fileMap, cache, tasks>>

\* A wrong look-up: of another key than the registration writes.
GetNoTask(a, f) ==
    /\ Goto(a, f, "mapping", "submit") /\ UNCHANGED taskId /\ NoFault
    /\ UNCHANGED <<handler, current, result, fileMap, cache, tasks>>

GetExistingTask(a, f) ==
    /\ \/ /\ Goto(a, f, "mapping", IF fileMap[f] = NoTask THEN "submit" ELSE "poll")
          /\ taskId' = [taskId EXCEPT ![a][f] = fileMap[f]]
          /\ NoFault
       \/ Goto(a, f, "mapping", "submit") /\ Fault("redis") /\ UNCHANGED taskId
    /\ UNCHANGED <<handler, current, result, fileMap, cache, tasks>>

NewTask(f) == [file |-> f, registered |-> FALSE, state |-> "PROGRESS"]

\* POST /gateway/transcribe.  The session repeats a POST that was answered
\* with 5xx, whether or not the service made a task of it; at last it raises.
Submit(a, f) ==
    /\ \/ /\ Goto(a, f, "submit", "register")
          /\ tasks' = Append(tasks, NewTask(f))
          /\ NoFault /\ UNCHANGED result
       \/ /\ Goto(a, f, "submit", "register")
          /\ tasks' = tasks \o <<NewTask(f), NewTask(f)>>
          /\ Fault("api") /\ UNCHANGED result
       \/ /\ pc[a][f] = "submit" /\ Returns(a, f, "error")
          /\ tasks' \in {tasks, Append(tasks, NewTask(f))}
          /\ Fault("api")
    /\ taskId' = [taskId EXCEPT ![a][f] = Len(tasks')]
    /\ UNCHANGED <<handler, current, fileMap, cache>>

\* A set that fails is logged, and the polling starts anyway.
RegisterTask(a, f) ==
    /\ Goto(a, f, "register", "poll")
    /\ \/ /\ fileMap' = [fileMap EXCEPT ![f] = taskId[a][f]]
          /\ tasks' = [tasks EXCEPT ![taskId[a][f]].registered = TRUE]
          /\ NoFault
       \/ UNCHANGED <<fileMap, tasks>> /\ Fault("redis")
    /\ UNCHANGED <<handler, current, result, taskId, cache>>

\* A wrong status: whatever is not in progress counts as success.
PollNotInProgress(a, f) ==
    /\ pc[a][f] = "poll" /\ tasks[taskId[a][f]].state # "PROGRESS"
    /\ Goto(a, f, "poll", "fetch") /\ UNCHANGED result /\ NoFault
    /\ UNCHANGED <<handler, current, taskId, fileMap, cache, tasks>>

\* The status is asked for until it is SUCCESS or an error.
Poll(a, f) ==
    /\ pc[a][f] = "poll"
    /\ \/ /\ tasks[taskId[a][f]].state = "SUCCESS"
          /\ Goto(a, f, "poll", "fetch") /\ UNCHANGED result /\ NoFault
       \/ tasks[taskId[a][f]].state = "FAILURE" /\ Returns(a, f, "error") /\ NoFault
       \/ Fault("api") /\ Returns(a, f, "error")
       \/ Fault("slow") /\ Returns(a, f, "error")
    /\ UNCHANGED <<handler, current, taskId, fileMap, cache, tasks>>

\* GET /gateway/result: its segments, or the thread raises.
FetchResult(a, f) ==
    /\ \/ Goto(a, f, "fetch", "store") /\ UNCHANGED result /\ NoFault
       \/ pc[a][f] = "fetch" /\ Returns(a, f, "error") /\ Fault("api")
    /\ UNCHANGED <<handler, current, taskId, fileMap, cache, tasks>>

CacheResult(a, f) ==
    /\ pc[a][f] = "store"
    /\ Returns(a, f, f)
    /\ \/ cache' = f /\ NoFault
       \/ UNCHANGED cache /\ Fault("redis")
    /\ UNCHANGED <<handler, current, taskId, fileMap, tasks>>

Predict(a, f) ==
    \/ GetCached(a, f) \/ GetExistingTask(a, f) \/ Submit(a, f) \/ RegisterTask(a, f)
    \/ Poll(a, f) \/ FetchResult(a, f) \/ CacheResult(a, f)

-----------------------------------------------------------------------------
\* The service works on its tasks.
TaskEnds(i) ==
    /\ tasks[i].state = "PROGRESS"
    /\ \/ tasks' = [tasks EXCEPT ![i].state = "SUCCESS"] /\ NoFault
       \/ tasks' = [tasks EXCEPT ![i].state = "FAILURE"] /\ Fault("fails")
    /\ UNCHANGED <<handler, current, result, pc, taskId, fileMap, cache>>

KeyExpires ==
    /\ Fault("expire")
    /\ \/ cache' = "none" /\ UNCHANGED fileMap
       \/ \E f \in File : fileMap' = [fileMap EXCEPT ![f] = NoTask] /\ UNCHANGED cache
    /\ UNCHANGED <<handler, current, result, pc, taskId, tasks>>

Next ==
    \/ \E a \in Attempt :
          \/ StartAttempt(a) \/ NextFile(a) \/ StopWaiting(a) \/ EndAttempt(a) \/ Crash(a)
          \/ \E f \in File : Predict(a, f)
    \/ \E i \in DOMAIN tasks : TaskEnds(i)
    \/ KeyExpires

Spec == Init /\ [][Next]_crocVars

-----------------------------------------------------------------------------
\* A task that was entered in file_map is taken up by every later attempt:
\* its file is not submitted again after crashes, raising attempts, failed
\* tasks and polls that were given up.  (A thread that outlives its handler
\* may register after the next attempt has looked.)
ResumesPolling ==
    met \cap {"lapse", "timeout", "api", "redis", "expire"} = {} =>
        \A i, k \in DOMAIN tasks :
            i < k /\ tasks[i].file = tasks[k].file => ~tasks[i].registered

\* Segments, returned or cached, come from a task of the service that has
\* succeeded for the file they belong to, whatever fails or expires.
TranscribedByService ==
    \A g \in File :
        (cache = g \/ \E a \in Attempt, f \in File : result[a][f] = g) =>
            \E i \in DOMAIN tasks : tasks[i].file = g /\ tasks[i].state = "SUCCESS"

\* While a result with segments is cached, no attempt submits anything: the
\* work of an attempt that raised is not paid for twice, even when file_map
\* has expired ("чтобы избежать повторной обработки", croc_whisper.py:162).
NothingSubmittedOnceCached ==
    [][met' \cap {"lapse", "timeout", "redis"} = {} /\ cache \notin Silent \cup {"none"}
           => Len(tasks') = Len(tasks)]_crocVars

\* Each file gets its own transcript: "несколько файлов в job_id не
\* конфликтуют" (croc_whisper.py:26).  False: see the run croc_mixed_up.
OwnTranscript ==
    \A a \in Attempt, f \in File : result[a][f] \in {"none", "error", f}
=============================================================================
