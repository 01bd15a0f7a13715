--------------------------- MODULE CrocModelProofs ---------------------------
(* What holds of CrocModel for any files, attempts and faults.             *)
EXTENDS CrocModel, TLAPS

State  == {"PROGRESS", "SUCCESS", "FAILURE"}
Task   == [file : File, registered : BOOLEAN, state : State]
Status == {"idle", "running", "finished", "raised", "dead"}

Types ==
    /\ handler \in [Attempt -> Status]
    /\ current \in [Attempt -> 0..Len(Files)]
    /\ result  \in [Attempt -> [File -> File \cup {"none", "error"}]]
    /\ pc      \in [Attempt -> [File -> PC]]
    /\ taskId  \in [Attempt -> [File -> Nat]]
    /\ fileMap \in [File -> Nat]
    /\ cache   \in File \cup {"none"}
    /\ tasks   \in Seq(Task)

-----------------------------------------------------------------------------
(* Types.                                                                  *)

LEMMA CurrentFile ==
    ASSUME NEW n \in 1..Len(Files)
    PROVE  Files[n] \in File
BY CrocAssumption DEF File

\* A cell of a table of attempts and files.
LEMMA Cell ==
    ASSUME NEW S, NEW t \in [Attempt -> [File -> S]],
           NEW a \in Attempt, NEW f \in File, NEW v \in S
    PROVE  /\ [t EXCEPT ![a][f] = v] \in [Attempt -> [File -> S]]
           /\ [t EXCEPT ![a][f] = v][a][f] = v
           /\ \A b \in Attempt, g \in File :
                  b # a \/ g # f => [t EXCEPT ![a][f] = v][b][g] = t[b][g]
OBVIOUS

LEMMA NewTaskType ==
    ASSUME NEW f \in File
    PROVE  NewTask(f) \in Task /\ NewTask(f).file = f
BY DEF NewTask, Task, State

\* What happens to the service's tasks: there are more, or one is marked.
TasksGo ==
    \/ tasks' = tasks
    \/ \E f \in File : tasks' = Append(tasks, NewTask(f))
    \/ \E f \in File : tasks' = tasks \o <<NewTask(f), NewTask(f)>>
    \/ \E i \in DOMAIN tasks : tasks' = [tasks EXCEPT ![i].registered = TRUE]
    \/ \E i \in DOMAIN tasks, s \in State :
           tasks[i].state = "PROGRESS" /\ tasks' = [tasks EXCEPT ![i].state = s]

\* No task is forgotten, changes its file or loses its success.
Extends ==
    /\ tasks' \in Seq(Task) /\ Len(tasks') >= Len(tasks)
    /\ \A i \in 1..Len(tasks) :
           /\ tasks'[i].file = tasks[i].file
           /\ tasks[i].state = "SUCCESS" => tasks'[i].state = "SUCCESS"

LEMMA TasksExtend ==
    ASSUME tasks \in Seq(Task), TasksGo
    PROVE  Extends
<1>0. Len(tasks) \in Nat /\ DOMAIN tasks = 1..Len(tasks) /\ \A i \in 1..Len(tasks) : tasks[i] \in Task
    OBVIOUS
<1>1. CASE tasks' = tasks
    BY <1>0, <1>1 DEF Extends
<1>2. ASSUME NEW f \in File, tasks' = Append(tasks, NewTask(f))
      PROVE  Extends
    <2>1. NewTask(f) \in Task
        BY NewTaskType
    <2>2. /\ tasks' \in Seq(Task) /\ Len(tasks') = Len(tasks) + 1
          /\ \A i \in 1..Len(tasks) : tasks'[i] = tasks[i]
        BY <1>2, <2>1
    <2>. QED
        BY <1>0, <2>2 DEF Extends
<1>3. ASSUME NEW f \in File, tasks' = tasks \o <<NewTask(f), NewTask(f)>>
      PROVE  Extends
    <2>1. <<NewTask(f), NewTask(f)>> \in Seq(Task) /\ Len(<<NewTask(f), NewTask(f)>>) = 2
        BY NewTaskType
    <2>2. /\ tasks' \in Seq(Task) /\ Len(tasks') = Len(tasks) + 2
          /\ \A i \in 1..Len(tasks) : tasks'[i] = tasks[i]
        BY <1>3, <2>1
    <2>. QED
        BY <1>0, <2>2 DEF Extends
<1>4. ASSUME NEW i \in DOMAIN tasks, NEW t \in Task, tasks' = [tasks EXCEPT ![i] = t],
             t.file = tasks[i].file, tasks[i].state = "SUCCESS" => t.state = "SUCCESS"
      PROVE  Extends
    <2>1. tasks' \in Seq(Task) /\ Len(tasks') = Len(tasks)
        BY <1>4
    <2>2. \A k \in 1..Len(tasks) : tasks'[k] = IF k = i THEN t ELSE tasks[k]
        BY <1>0, <1>4
    <2>. QED
        BY <1>0, <1>4, <2>1, <2>2 DEF Extends
<1>5. ASSUME NEW i \in DOMAIN tasks, tasks' = [tasks EXCEPT ![i].registered = TRUE]
      PROVE  Extends
    <2>. DEFINE t == [tasks[i] EXCEPT !.registered = TRUE]
    <2>1. tasks[i] \in Task
        BY <1>0
    <2>2. t \in Task /\ t.file = tasks[i].file /\ t.state = tasks[i].state
        BY <2>1 DEF Task
    <2>3. tasks' = [tasks EXCEPT ![i] = t]
        BY <1>5
    <2>. QED
        BY <1>4, <2>2, <2>3
<1>6. ASSUME NEW i \in DOMAIN tasks, NEW s \in State, tasks[i].state = "PROGRESS",
             tasks' = [tasks EXCEPT ![i].state = s]
      PROVE  Extends
    <2>. DEFINE t == [tasks[i] EXCEPT !.state = s]
    <2>1. tasks[i] \in Task
        BY <1>0
    <2>2. t \in Task /\ t.file = tasks[i].file
        BY <2>1 DEF Task
    <2>3. tasks' = [tasks EXCEPT ![i] = t]
        BY <1>6
    <2>. QED
        BY <1>4, <1>6, <2>2, <2>3
<1>. QED
    BY <1>1, <1>2, <1>3, <1>5, <1>6 DEF TasksGo

LEMMA StepTasks ==
    ASSUME Types, [Next]_crocVars
    PROVE  TasksGo
<1>1. ASSUME NEW a \in Attempt, StartAttempt(a) \/ NextFile(a) \/ StopWaiting(a)
                                \/ EndAttempt(a) \/ Crash(a)
      PROVE  tasks' = tasks
    BY <1>1 DEF StartAttempt, NextFile, StopWaiting, EndAttempt, Crash
<1>2. ASSUME NEW a \in Attempt, NEW f \in File, GetCached(a, f) \/ GetExistingTask(a, f)
                 \/ Poll(a, f) \/ FetchResult(a, f) \/ CacheResult(a, f)
      PROVE  tasks' = tasks
    BY <1>2 DEF GetCached, GetExistingTask, Poll, FetchResult, CacheResult
<1>3. ASSUME NEW a \in Attempt, NEW f \in File, Submit(a, f)
      PROVE  TasksGo
    BY <1>3 DEF Submit, TasksGo
<1>4. ASSUME NEW a \in Attempt, NEW f \in File, RegisterTask(a, f)
      PROVE  TasksGo
    <2>1. CASE tasks' = tasks
        BY <2>1 DEF TasksGo
    <2>2. CASE tasks' = [tasks EXCEPT ![taskId[a][f]].registered = TRUE]
        <3>1. CASE taskId[a][f] \in DOMAIN tasks
            BY <2>2, <3>1 DEF TasksGo
        <3>2. CASE taskId[a][f] \notin DOMAIN tasks
            <4>1. tasks' = tasks
                BY <2>2, <3>2 DEF Types
            <4>. QED
                BY <4>1 DEF TasksGo
        <3>. QED
            BY <3>1, <3>2
    <2>. QED
        BY <1>4, <2>1, <2>2 DEF RegisterTask
<1>5. ASSUME NEW i \in DOMAIN tasks, TaskEnds(i)
      PROVE  TasksGo
    BY <1>5 DEF TaskEnds, TasksGo, State
<1>6. KeyExpires \/ UNCHANGED crocVars => tasks' = tasks
    BY DEF KeyExpires, crocVars
<1>7. tasks' = tasks => TasksGo
    BY DEF TasksGo
<1>. QED
    BY <1>1, <1>2, <1>3, <1>4, <1>5, <1>6, <1>7 DEF Next, Predict

\* A thread that ends, and what it hands over.
LEMMA ReturnsType ==
    ASSUME Types, NEW a \in Attempt, NEW f \in File,
           NEW value \in File \cup {"none", "error"}, Returns(a, f, value)
    PROVE  /\ pc' \in [Attempt -> [File -> PC]]
           /\ result' \in [Attempt -> [File -> File \cup {"none", "error"}]]
BY Cell DEF Returns, Types, PC

LEMMA TypesStep ==
    ASSUME Types, [Next]_crocVars
    PROVE  Types'
<1>0. tasks' \in Seq(Task) /\ Len(tasks') \in Nat
    BY StepTasks, TasksExtend DEF Types, Extends
<1>1. ASSUME NEW a \in Attempt, StartAttempt(a) \/ EndAttempt(a)
      PROVE  Types'
    BY <1>0, <1>1 DEF StartAttempt, EndAttempt, Types, Status
<1>2. ASSUME NEW a \in Attempt, NextFile(a)
      PROVE  Types'
    <2>1. current[a] + 1 \in 1..Len(Files)
        BY <1>2, CrocAssumption DEF NextFile, Types
    <2>2. Files[current[a] + 1] \in File
        BY <2>1, CurrentFile
    <2>3. current' \in [Attempt -> 0..Len(Files)]
        BY <1>2, <2>1 DEF NextFile, Types
    <2>4. /\ pc' \in [Attempt -> [File -> PC]]
          /\ result' \in [Attempt -> [File -> File \cup {"none", "error"}]]
        <3>. DEFINE g == Files[current[a] + 1]
        <3>1. /\ "cache" \in PC /\ pc \in [Attempt -> [File -> PC]]
              /\ result \in [Attempt -> [File -> File \cup {"none", "error"}]]
            BY DEF PC, Types
        <3>2. [pc EXCEPT ![a][g] = "cache"] \in [Attempt -> [File -> PC]]
            BY <2>2, <3>1
        <3>3. [result EXCEPT ![a][g] = "error"] \in [Attempt -> [File -> File \cup {"none", "error"}]]
            BY <2>2, <3>1
        <3>. QED
            BY <1>2, <3>1, <3>2, <3>3 DEF NextFile
    <2>. QED
        BY <1>0, <1>2, <2>3, <2>4 DEF NextFile, Types
<1>3. ASSUME NEW a \in Attempt, StopWaiting(a)
      PROVE  Types'
    <2>1. current[a] \in 1..Len(Files)
        BY <1>3, CrocAssumption DEF StopWaiting, Types
    <2>2. Files[current[a]] \in File
        BY <2>1, CurrentFile
    <2>3. result' \in [Attempt -> [File -> File \cup {"none", "error"}]]
        BY <1>3, <2>2, Cell DEF StopWaiting, Types
    <2>. QED
        BY <1>0, <1>3, <2>3 DEF StopWaiting, Types
<1>4. ASSUME NEW a \in Attempt, Crash(a)
      PROVE  Types'
    BY <1>0, <1>4 DEF Crash, Types, PC, Status
<1>5. ASSUME NEW a \in Attempt, NEW f \in File, Predict(a, f)
      PROVE  Types'
    <2>. USE <1>0
    <2>0. ASSUME NEW from, NEW to \in PC, Goto(a, f, from, to)
          PROVE  pc' \in [Attempt -> [File -> PC]]
        BY <2>0, Cell DEF Goto, Types
    <2>1. CASE GetCached(a, f)
        <3>1. CASE Goto(a, f, "cache", "mapping") /\ result' = result
            BY <2>0, <2>1, <3>1 DEF GetCached, Types, PC
        <3>2. CASE cache # "none" /\ Returns(a, f, cache)
            <4>1. cache \in File \cup {"none", "error"}
                BY DEF Types
            <4>2. /\ pc' \in [Attempt -> [File -> PC]]
                  /\ result' \in [Attempt -> [File -> File \cup {"none", "error"}]]
                BY <3>2, <4>1, ReturnsType
            <4>. QED
                BY <2>1, <4>2 DEF GetCached, Types
        <3>. QED
            BY <2>1, <3>1, <3>2 DEF GetCached
    <2>2. CASE GetExistingTask(a, f)
        <3>1. pc' \in [Attempt -> [File -> PC]]
            BY <2>0, <2>2 DEF GetExistingTask, PC
        <3>2. taskId' \in [Attempt -> [File -> Nat]]
            <4>1. fileMap[f] \in Nat /\ taskId \in [Attempt -> [File -> Nat]]
                BY DEF Types
            <4>2. [taskId EXCEPT ![a][f] = fileMap[f]] \in [Attempt -> [File -> Nat]]
                BY <4>1
            <4>. QED
                BY <2>2, <4>1, <4>2 DEF GetExistingTask
        <3>. QED
            BY <2>2, <3>1, <3>2 DEF GetExistingTask, Types
    <2>3. CASE Submit(a, f)
        <3>1. taskId' \in [Attempt -> [File -> Nat]]
            BY <2>3, Cell DEF Submit, Types
        <3>2. /\ pc' \in [Attempt -> [File -> PC]]
              /\ result' \in [Attempt -> [File -> File \cup {"none", "error"}]]
            <4>1. CASE Goto(a, f, "submit", "register") /\ result' = result
                BY <2>0, <4>1 DEF PC, Types
            <4>2. CASE Returns(a, f, "error")
                BY <4>2, ReturnsType
            <4>. QED
                BY <2>3, <4>1, <4>2 DEF Submit
        <3>. QED
            BY <2>3, <3>1, <3>2 DEF Submit, Types
    <2>4. CASE RegisterTask(a, f)
        <3>1. pc' \in [Attempt -> [File -> PC]]
            BY <2>0, <2>4 DEF RegisterTask, PC
        <3>2. taskId[a][f] \in Nat
            BY DEF Types
        <3>3. fileMap' \in [File -> Nat]
            BY <2>4, <3>2 DEF RegisterTask, Types
        <3>. QED
            BY <2>4, <3>1, <3>3 DEF RegisterTask, Types
    <2>5. CASE Poll(a, f) \/ FetchResult(a, f)
        <3>1. /\ pc' \in [Attempt -> [File -> PC]]
              /\ result' \in [Attempt -> [File -> File \cup {"none", "error"}]]
            <4>1. CASE \/ Goto(a, f, "poll", "fetch") /\ result' = result
                       \/ Goto(a, f, "fetch", "store") /\ result' = result
                BY <2>0, <4>1 DEF PC, Types
            <4>2. CASE Returns(a, f, "error")
                BY <4>2, ReturnsType
            <4>. QED
                BY <2>5, <4>1, <4>2 DEF Poll, FetchResult
        <3>. QED
            BY <2>5, <3>1 DEF Poll, FetchResult, Types
    <2>6. CASE CacheResult(a, f)
        <3>1. /\ pc' \in [Attempt -> [File -> PC]]
              /\ result' \in [Attempt -> [File -> File \cup {"none", "error"}]]
            BY <2>6, ReturnsType DEF CacheResult
        <3>. QED
            BY <2>6, <3>1 DEF CacheResult, Types
    <2>. QED
        BY <1>5, <2>1, <2>2, <2>3, <2>4, <2>5, <2>6 DEF Predict
<1>6. ASSUME NEW i \in DOMAIN tasks, TaskEnds(i)
      PROVE  Types'
    BY <1>0, <1>6 DEF TaskEnds, Types
<1>7. CASE KeyExpires
    BY <1>0, <1>7 DEF KeyExpires, Types, NoTask
<1>8. CASE UNCHANGED crocVars
    BY <1>8 DEF crocVars, Types
<1>. QED
    BY <1>1, <1>2, <1>3, <1>4, <1>5, <1>6, <1>7, <1>8 DEF Next

LEMMA TypesInit == Init => Types
BY CrocAssumption DEF Init, Types, PC, Status, NoTask

-----------------------------------------------------------------------------
(* Segments come from the service.                                         *)

Known(f, i)  == i \in 1..Len(tasks) /\ tasks[i].file = f
Succeeded(g) == \E i \in DOMAIN tasks : tasks[i].file = g /\ tasks[i].state = "SUCCESS"

\* A thread polls a task of its own file, and fetches of one that succeeded.
ThreadOK(a, f) ==
    /\ pc[a][f] \in {"register", "poll"} => \A i \in Nat : taskId[a][f] = i => Known(f, i)
    /\ pc[a][f] \in {"fetch", "store"} => Succeeded(f)
    /\ \A g \in File : result[a][f] = g => Succeeded(g)
SharedOK ==
    /\ \A g \in File : cache = g => Succeeded(g)
    /\ \A f \in File : \A i \in Nat \ {NoTask} : fileMap[f] = i => Known(f, i)
TranscriptInv == Types /\ SharedOK /\ \A a \in Attempt, f \in File : ThreadOK(a, f)

LEMMA KnownStays ==
    ASSUME Extends, tasks \in Seq(Task), NEW f, NEW i, Known(f, i)
    PROVE  Known(f, i)'
BY DEF Extends, Known

LEMMA SucceededStays ==
    ASSUME Extends, tasks \in Seq(Task), NEW g, Succeeded(g)
    PROVE  Succeeded(g)'
<1>1. PICK i \in DOMAIN tasks : tasks[i].file = g /\ tasks[i].state = "SUCCESS"
    BY DEF Succeeded
<1>2. i \in 1..Len(tasks) /\ i \in DOMAIN tasks'
    BY DEF Extends
<1>3. tasks'[i].file = g /\ tasks'[i].state = "SUCCESS"
    BY <1>1, <1>2 DEF Extends
<1>. QED
    BY <1>2, <1>3 DEF Succeeded

\* A thread nobody moves, or that ends.
LEMMA ThreadStays ==
    ASSUME Extends, tasks \in Seq(Task), NEW a \in Attempt, NEW f \in File, ThreadOK(a, f),
           pc'[a][f] = pc[a][f] \/ pc'[a][f] \in {"cache", "mapping", "submit", "end"},
           taskId'[a][f] = taskId[a][f] \/ pc'[a][f] \notin {"register", "poll"},
           result'[a][f] = result[a][f] \/ result'[a][f] \in {"none", "error"}
               \/ \E g \in File : result'[a][f] = g /\ Succeeded(g)
    PROVE  ThreadOK(a, f)'
<1>1. pc'[a][f] \in {"register", "poll"} => \A i \in Nat : taskId'[a][f] = i => Known(f, i)'
    BY KnownStays DEF ThreadOK
<1>2. pc'[a][f] \in {"fetch", "store"} => Succeeded(f)'
    BY SucceededStays DEF ThreadOK
<1>3. \A g \in File : result'[a][f] = g => Succeeded(g)'
    BY SucceededStays, CrocAssumption DEF ThreadOK
<1>. QED
    BY <1>1, <1>2, <1>3 DEF ThreadOK

\* What predict does in a thread leaves the other threads alone.
LEMMA OtherThreads ==
    ASSUME Types, NEW a \in Attempt, NEW f \in File, Predict(a, f),
           NEW b \in Attempt, NEW g \in File, b # a \/ g # f
    PROVE  pc'[b][g] = pc[b][g] /\ taskId'[b][g] = taskId[b][g] /\ result'[b][g] = result[b][g]
<1>1. ASSUME NEW S, NEW t \in [Attempt -> [File -> S]], NEW v
      PROVE  [t EXCEPT ![a][f] = v][b][g] = t[b][g]
    OBVIOUS
<1>2. /\ pc \in [Attempt -> [File -> PC]] /\ taskId \in [Attempt -> [File -> Nat]]
      /\ result \in [Attempt -> [File -> File \cup {"none", "error"}]]
    BY DEF Types
<1>3. /\ \A v : [pc EXCEPT ![a][f] = v][b][g] = pc[b][g]
      /\ \A v : [taskId EXCEPT ![a][f] = v][b][g] = taskId[b][g]
      /\ \A v : [result EXCEPT ![a][f] = v][b][g] = result[b][g]
    BY <1>1, <1>2
<1>4. pc'[b][g] = pc[b][g]
    <2>1. \E v : pc' = [pc EXCEPT ![a][f] = v]
        <3>1. CASE GetCached(a, f) \/ GetExistingTask(a, f) \/ Submit(a, f)
            BY <3>1 DEF GetCached, GetExistingTask, Submit, Goto, Returns
        <3>2. CASE RegisterTask(a, f) \/ Poll(a, f) \/ FetchResult(a, f) \/ CacheResult(a, f)
            BY <3>2 DEF RegisterTask, Poll, FetchResult, CacheResult, Goto, Returns
        <3>. QED
            BY <3>1, <3>2 DEF Predict
    <2>. QED
        BY <1>3, <2>1
<1>5. taskId'[b][g] = taskId[b][g]
    <2>1. taskId' = taskId \/ \E v : taskId' = [taskId EXCEPT ![a][f] = v]
        <3>1. CASE GetCached(a, f) \/ GetExistingTask(a, f) \/ Submit(a, f)
            BY <3>1 DEF GetCached, GetExistingTask, Submit
        <3>2. CASE RegisterTask(a, f) \/ Poll(a, f) \/ FetchResult(a, f) \/ CacheResult(a, f)
            BY <3>2 DEF RegisterTask, Poll, FetchResult, CacheResult
        <3>. QED
            BY <3>1, <3>2 DEF Predict
    <2>. QED
        BY <1>3, <2>1
<1>6. result'[b][g] = result[b][g]
    <2>1. result' = result \/ \E v : result' = [result EXCEPT ![a][f] = v]
        <3>1. CASE GetCached(a, f) \/ GetExistingTask(a, f) \/ Submit(a, f)
            BY <3>1 DEF GetCached, GetExistingTask, Submit, Returns
        <3>2. CASE RegisterTask(a, f) \/ Poll(a, f) \/ FetchResult(a, f) \/ CacheResult(a, f)
            BY <3>2 DEF RegisterTask, Poll, FetchResult, CacheResult, Returns
        <3>. QED
            BY <3>1, <3>2 DEF Predict
    <2>. QED
        BY <1>3, <2>1
<1>. QED
    BY <1>4, <1>5, <1>6

LEMMA ReturnsResult ==
    ASSUME Types, NEW a \in Attempt, NEW f \in File, NEW value, Returns(a, f, value)
    PROVE  /\ pc'[a][f] = "end"
           /\ result'[a][f] = result[a][f] \/ result'[a][f] = value
<1>1. /\ pc \in [Attempt -> [File -> PC]]
      /\ result \in [Attempt -> [File -> File \cup {"none", "error"}]]
    BY DEF Types
<1>. QED
    BY <1>1 DEF Returns

LEMMA GotoMoves ==
    ASSUME Types, NEW a \in Attempt, NEW f \in File, NEW from, NEW to, Goto(a, f, from, to)
    PROVE  pc[a][f] = from /\ pc'[a][f] = to
BY DEF Types, Goto

\* Of the thread itself: it gets to "poll" with a task of its file, past it
\* with a task that succeeded, and to a result by either.
LEMMA ThreadStep ==
    ASSUME TranscriptInv, Extends, NEW a \in Attempt, NEW f \in File, Predict(a, f)
    PROVE  ThreadOK(a, f)' /\ SharedOK'
<1>0. /\ Types /\ SharedOK /\ ThreadOK(a, f) /\ tasks \in Seq(Task)
      /\ \A g : Succeeded(g) => Succeeded(g)'
      /\ \A g, i : Known(g, i) => Known(g, i)'
    BY KnownStays, SucceededStays DEF TranscriptInv, Types
<1>1. ASSUME cache' = cache, fileMap' = fileMap
      PROVE  SharedOK'
    BY <1>0, <1>1 DEF SharedOK
<1>2. CASE GetCached(a, f)
    <2>1. cache' = cache /\ fileMap' = fileMap /\ taskId' = taskId
        BY <1>2 DEF GetCached
    <2>2. CASE Goto(a, f, "cache", "mapping") /\ result' = result
        BY <1>0, <1>1, <2>1, <2>2, GotoMoves, ThreadStays
    <2>3. CASE cache # "none" /\ Returns(a, f, cache)
        <3>1. cache \in File /\ Succeeded(cache)
            BY <1>0, <2>3 DEF SharedOK, Types
        <3>2. pc'[a][f] = "end" /\ (result'[a][f] = result[a][f] \/ result'[a][f] = cache)
            BY <1>0, <2>3, ReturnsResult
        <3>. QED
            BY <1>0, <1>1, <2>1, <3>1, <3>2, ThreadStays
    <2>. QED
        BY <1>2, <2>2, <2>3 DEF GetCached
<1>3. CASE GetExistingTask(a, f)
    <2>1. cache' = cache /\ fileMap' = fileMap /\ tasks' = tasks /\ result' = result
        BY <1>3 DEF GetExistingTask
    <2>2. CASE Goto(a, f, "mapping", "submit")
        BY <1>0, <1>1, <2>1, <2>2, GotoMoves, ThreadStays
    <2>3. CASE /\ Goto(a, f, "mapping", "poll") /\ fileMap[f] # NoTask
               /\ taskId' = [taskId EXCEPT ![a][f] = fileMap[f]]
        <3>1. taskId'[a][f] = fileMap[f] /\ pc'[a][f] = "poll"
            <4>1. taskId \in [Attempt -> [File -> Nat]]
                BY <1>0 DEF Types
            <4>. QED
                BY <1>0, <2>3, <4>1, GotoMoves
        <3>2. \A i \in Nat : fileMap[f] = i => Known(f, i)'
            BY <1>0, <2>1, <2>3 DEF SharedOK
        <3>3. \A g \in File : result'[a][f] = g => Succeeded(g)'
            BY <1>0, <2>1 DEF ThreadOK
        <3>4. \A i \in Nat : taskId'[a][f] = i => Known(f, i)'
            BY <3>1, <3>2
        <3>. QED
            BY <1>1, <2>1, <3>1, <3>3, <3>4 DEF ThreadOK
    <2>. QED
        BY <1>3, <2>2, <2>3 DEF GetExistingTask
<1>4. CASE Submit(a, f)
    <2>1. cache' = cache /\ fileMap' = fileMap
        BY <1>4 DEF Submit
    <2>2. taskId'[a][f] = Len(tasks')
        <3>1. taskId \in [Attempt -> [File -> Nat]]
            BY <1>0 DEF Types
        <3>. QED
            BY <1>4, <3>1 DEF Submit
    <2>3. CASE /\ Goto(a, f, "submit", "register") /\ result' = result
               /\ \/ tasks' = Append(tasks, NewTask(f))
                  \/ tasks' = tasks \o <<NewTask(f), NewTask(f)>>
        <3>1. \A i \in Nat : Len(tasks') = i => Known(f, i)'
            <4>1. NewTask(f) \in Task /\ NewTask(f).file = f /\ Len(tasks) \in Nat
                BY <1>0, NewTaskType
            <4>2. CASE tasks' = Append(tasks, NewTask(f))
                <5>1. Len(tasks') = Len(tasks) + 1 /\ tasks'[Len(tasks) + 1] = NewTask(f)
                    BY <1>0, <4>1, <4>2
                <5>. QED
                    BY <4>1, <5>1 DEF Known
            <4>3. CASE tasks' = tasks \o <<NewTask(f), NewTask(f)>>
                <5>1. Len(tasks') = Len(tasks) + 2 /\ tasks'[Len(tasks) + 2] = NewTask(f)
                    BY <1>0, <4>1, <4>3
                <5>. QED
                    BY <4>1, <5>1 DEF Known
            <4>. QED
                BY <2>3, <4>2, <4>3
        <3>2. pc'[a][f] = "register"
            BY <1>0, <2>3, GotoMoves
        <3>3. \A g \in File : result'[a][f] = g => Succeeded(g)'
            BY <1>0, <2>3 DEF ThreadOK
        <3>4. \A i \in Nat : taskId'[a][f] = i => Known(f, i)'
            BY <2>2, <3>1
        <3>. QED
            BY <1>1, <2>1, <3>2, <3>3, <3>4 DEF ThreadOK
    <2>4. CASE Returns(a, f, "error")
        <3>1. pc'[a][f] = "end" /\ (result'[a][f] = result[a][f] \/ result'[a][f] = "error")
            BY <1>0, <2>4, ReturnsResult
        <3>. QED
            BY <1>0, <1>1, <2>1, <3>1, ThreadStays
    <2>. QED
        BY <1>4, <2>3, <2>4 DEF Submit
<1>5. CASE RegisterTask(a, f)
    <2>1. cache' = cache /\ taskId' = taskId /\ result' = result
        BY <1>5 DEF RegisterTask
    <2>2. pc[a][f] = "register" /\ pc'[a][f] = "poll"
        BY <1>0, <1>5, GotoMoves DEF RegisterTask
    <2>3. \A i \in Nat : taskId[a][f] = i => Known(f, i)'
        BY <1>0, <2>1, <2>2 DEF ThreadOK
    <2>4. \A g \in File : fileMap'[g] = fileMap[g] \/ (g = f /\ fileMap'[g] = taskId[a][f])
        BY <1>0, <1>5 DEF RegisterTask, Types
    <2>5. SharedOK'
        <3>1. \A g \in File : \A i \in Nat \ {NoTask} : fileMap'[g] = i => Known(g, i)'
            BY <1>0, <2>3, <2>4 DEF SharedOK
        <3>. QED
            BY <1>0, <2>1, <3>1 DEF SharedOK
    <2>6. \A g \in File : result'[a][f] = g => Succeeded(g)'
        BY <1>0, <2>1 DEF ThreadOK
    <2>. QED
        BY <2>1, <2>2, <2>3, <2>5, <2>6 DEF ThreadOK
<1>6. CASE Poll(a, f)
    <2>1. cache' = cache /\ fileMap' = fileMap /\ taskId' = taskId /\ pc[a][f] = "poll"
        BY <1>6 DEF Poll
    <2>2. CASE tasks[taskId[a][f]].state = "SUCCESS" /\ Goto(a, f, "poll", "fetch") /\ result' = result
        <3>1. Succeeded(f)
            <4>1. taskId[a][f] \in Nat
                BY <1>0 DEF Types
            <4>2. Known(f, taskId[a][f])
                BY <1>0, <2>1, <4>1 DEF ThreadOK
            <4>3. taskId[a][f] \in DOMAIN tasks /\ tasks[taskId[a][f]].file = f
                BY <1>0, <4>2 DEF Known
            <4>. QED
                BY <2>2, <4>3 DEF Succeeded
        <3>2. pc'[a][f] = "fetch"
            BY <1>0, <2>2, GotoMoves
        <3>3. Succeeded(f)' /\ \A g \in File : result'[a][f] = g => Succeeded(g)'
            BY <1>0, <2>2, <3>1 DEF ThreadOK
        <3>. QED
            BY <1>1, <2>1, <3>2, <3>3 DEF ThreadOK
    <2>3. CASE Returns(a, f, "error")
        <3>1. pc'[a][f] = "end" /\ (result'[a][f] = result[a][f] \/ result'[a][f] = "error")
            BY <1>0, <2>3, ReturnsResult
        <3>. QED
            BY <1>0, <1>1, <2>1, <3>1, ThreadStays
    <2>. QED
        BY <1>6, <2>2, <2>3 DEF Poll
<1>7. CASE FetchResult(a, f)
    <2>1. cache' = cache /\ fileMap' = fileMap /\ taskId' = taskId /\ pc[a][f] = "fetch"
        BY <1>7 DEF FetchResult, Goto
    <2>2. CASE Goto(a, f, "fetch", "store") /\ result' = result
        <3>1. Succeeded(f)' /\ \A g \in File : result'[a][f] = g => Succeeded(g)'
            BY <1>0, <2>1, <2>2 DEF ThreadOK
        <3>2. pc'[a][f] = "store"
            BY <1>0, <2>2, GotoMoves
        <3>. QED
            BY <1>1, <2>1, <3>1, <3>2 DEF ThreadOK
    <2>3. CASE Returns(a, f, "error")
        <3>1. pc'[a][f] = "end" /\ (result'[a][f] = result[a][f] \/ result'[a][f] = "error")
            BY <1>0, <2>3, ReturnsResult
        <3>. QED
            BY <1>0, <1>1, <2>1, <3>1, ThreadStays
    <2>. QED
        BY <1>7, <2>2, <2>3 DEF FetchResult
<1>8. CASE CacheResult(a, f)
    <2>1. fileMap' = fileMap /\ taskId' = taskId /\ pc[a][f] = "store" /\ cache' \in {cache, f}
        BY <1>8 DEF CacheResult
    <2>2. Succeeded(f)
        BY <1>0, <2>1 DEF ThreadOK
    <2>3. pc'[a][f] = "end" /\ (result'[a][f] = result[a][f] \/ result'[a][f] = f)
        BY <1>0, <1>8, ReturnsResult DEF CacheResult
    <2>4. SharedOK'
        BY <1>0, <2>1, <2>2 DEF SharedOK
    <2>. QED
        BY <1>0, <2>1, <2>2, <2>3, <2>4, ThreadStays
<1>. QED
    BY <1>2, <1>3, <1>4, <1>5, <1>6, <1>7, <1>8 DEF Predict

LEMMA TranscriptStep ==
    ASSUME TranscriptInv, [Next]_crocVars
    PROVE  TranscriptInv'
<1>0. /\ Types /\ Types' /\ SharedOK /\ tasks \in Seq(Task) /\ Extends
      /\ \A a \in Attempt, f \in File : ThreadOK(a, f)
    BY TypesStep, StepTasks, TasksExtend DEF TranscriptInv, Types
<1>1. ASSUME cache' = cache \/ cache' = "none",
             \A f \in File : fileMap'[f] = fileMap[f] \/ fileMap'[f] = NoTask
      PROVE  SharedOK'
    <2>1. \A g \in File : cache' = g => Succeeded(g)'
        BY <1>0, <1>1, SucceededStays, CrocAssumption DEF SharedOK
    <2>2. \A f \in File : \A i \in Nat \ {NoTask} : fileMap'[f] = i => Known(f, i)'
        BY <1>0, <1>1, KnownStays DEF SharedOK
    <2>. QED
        BY <2>1, <2>2 DEF SharedOK
<1>2. ASSUME NEW a \in Attempt, NEW f \in File, Predict(a, f)
      PROVE  TranscriptInv'
    <2>1. ASSUME NEW b \in Attempt, NEW g \in File, b # a \/ g # f
          PROVE  ThreadOK(b, g)'
        BY <1>0, <1>2, <2>1, OtherThreads, ThreadStays
    <2>2. ThreadOK(a, f)' /\ SharedOK'
        BY <1>0, <1>2, ThreadStep DEF TranscriptInv
    <2>. QED
        BY <1>0, <2>1, <2>2 DEF TranscriptInv
<1>3. ASSUME cache' = cache, fileMap' = fileMap, taskId' = taskId,
             \A b \in Attempt, g \in File :
                 /\ pc'[b][g] = pc[b][g] \/ pc'[b][g] \in {"cache", "end"}
                 /\ result'[b][g] = result[b][g] \/ result'[b][g] = "error"
      PROVE  TranscriptInv'
    <2>1. ASSUME NEW b \in Attempt, NEW g \in File
          PROVE  ThreadOK(b, g)'
        BY <1>0, <1>3, ThreadStays
    <2>. QED
        BY <1>0, <1>1, <1>3, <2>1 DEF TranscriptInv
<1>4. ASSUME NEW a \in Attempt, StartAttempt(a) \/ EndAttempt(a)
      PROVE  TranscriptInv'
    BY <1>3, <1>4 DEF StartAttempt, EndAttempt
<1>5. ASSUME NEW a \in Attempt, NEW g,
             \/ pc' = [pc EXCEPT ![a][g] = "cache"] /\ result' = result
             \/ result' = [result EXCEPT ![a][g] = "error"] /\ pc' = pc
      PROVE  \A b \in Attempt, h \in File :
                 /\ pc'[b][h] = pc[b][h] \/ pc'[b][h] \in {"cache", "end"}
                 /\ result'[b][h] = result[b][h] \/ result'[b][h] = "error"
    <2>1. ASSUME NEW S, NEW t \in [Attempt -> [File -> S]], NEW v,
                 NEW b \in Attempt, NEW h \in File
          PROVE  [t EXCEPT ![a][g] = v][b][h] \in {t[b][h], v}
        OBVIOUS
    <2>2. /\ pc \in [Attempt -> [File -> PC]]
          /\ result \in [Attempt -> [File -> File \cup {"none", "error"}]]
        BY <1>0 DEF Types
    <2>3. \A b \in Attempt, h \in File :
              /\ [pc EXCEPT ![a][g] = "cache"][b][h] \in {pc[b][h], "cache"}
              /\ [result EXCEPT ![a][g] = "error"][b][h] \in {result[b][h], "error"}
        BY <2>1, <2>2
    <2>4. CASE pc' = [pc EXCEPT ![a][g] = "cache"] /\ result' = result
        <3>1. \A b \in Attempt, h \in File : pc'[b][h] \in {pc[b][h], "cache"}
            BY <2>3, <2>4
        <3>. QED
            BY <2>4, <3>1
    <2>5. CASE result' = [result EXCEPT ![a][g] = "error"] /\ pc' = pc
        <3>1. \A b \in Attempt, h \in File : result'[b][h] \in {result[b][h], "error"}
            BY <2>3, <2>5
        <3>. QED
            BY <2>5, <3>1
    <2>. QED
        BY <1>5, <2>4, <2>5
<1>6. ASSUME NEW a \in Attempt, NextFile(a) \/ StopWaiting(a)
      PROVE  TranscriptInv'
    <2>1. \E g : \/ pc' = [pc EXCEPT ![a][g] = "cache"] /\ result' = result
                 \/ result' = [result EXCEPT ![a][g] = "error"] /\ pc' = pc
        BY <1>6 DEF NextFile, StopWaiting
    <2>2. cache' = cache /\ fileMap' = fileMap /\ taskId' = taskId
        BY <1>6 DEF NextFile, StopWaiting
    <2>. QED
        BY <1>3, <1>5, <2>1, <2>2
<1>7. ASSUME NEW a \in Attempt, Crash(a)
      PROVE  TranscriptInv'
    <2>1. \A b \in Attempt, g \in File : pc'[b][g] = pc[b][g] \/ pc'[b][g] = "end"
        BY <1>0, <1>7 DEF Crash, Types
    <2>. QED
        BY <1>3, <1>7, <2>1 DEF Crash
<1>8. ASSUME UNCHANGED <<pc, result, taskId>>,
             cache' = cache \/ cache' = "none",
             \A f \in File : fileMap'[f] = fileMap[f] \/ fileMap'[f] = NoTask
      PROVE  TranscriptInv'
    <2>1. ASSUME NEW b \in Attempt, NEW g \in File
          PROVE  ThreadOK(b, g)'
        BY <1>0, <1>8, ThreadStays
    <2>. QED
        BY <1>0, <1>1, <1>8, <2>1 DEF TranscriptInv
<1>9. ASSUME NEW i \in DOMAIN tasks, TaskEnds(i)
      PROVE  TranscriptInv'
    BY <1>8, <1>9 DEF TaskEnds
<1>10. CASE KeyExpires
    <2>1. \A f \in File : fileMap'[f] = fileMap[f] \/ fileMap'[f] = NoTask
        BY <1>0, <1>10 DEF KeyExpires, Types
    <2>. QED
        BY <1>8, <1>10, <2>1 DEF KeyExpires
<1>11. CASE UNCHANGED crocVars
    BY <1>8, <1>11 DEF crocVars
<1>. QED
    BY <1>2, <1>4, <1>6, <1>7, <1>9, <1>10, <1>11 DEF Next

\* Nothing is made up: whatever crashes, times out, fails, expires or starts
\* beside another attempt, segments returned or cached for a file are those
\* of a task of that file which the service has finished.
THEOREM SegmentsAreServed == Spec => []TranscribedByService
<1>1. Init => TranscriptInv
    <2>. SUFFICES ASSUME Init PROVE TranscriptInv
        OBVIOUS
    <2>1. \A a \in Attempt, f \in File : ThreadOK(a, f)
        BY CrocAssumption DEF Init, ThreadOK
    <2>2. SharedOK
        BY CrocAssumption DEF Init, SharedOK
    <2>. QED
        BY <2>1, <2>2, TypesInit DEF TranscriptInv
<1>2. TranscriptInv /\ [Next]_crocVars => TranscriptInv'
    BY TranscriptStep
<1>3. TranscriptInv => TranscribedByService
    BY DEF TranscriptInv, ThreadOK, SharedOK, Succeeded, TranscribedByService
<1>. QED
    BY <1>1, <1>2, <1>3, PTL DEF Spec

-----------------------------------------------------------------------------
(* One thread of a job at a time.                                          *)

\* The files of a job are different files.
FilesDiffer == \A i, k \in DOMAIN Files : Files[i] = Files[k] => i = k

\* The faults that leave two threads of the job.
Doubling == {"lapse", "timeout"}

\* One thread lives at a time, and its handler waits for it.
Alive(a, f) == pc[a][f] \notin {"idle", "end"}
HandlersOK == \A a, b \in Attempt :
    /\ handler[a] = "running" /\ handler[b] = "running" => a = b
    /\ b < a /\ handler[a] # "idle" => handler[b] # "idle"
WaitingOK == \A a \in Attempt :
    /\ \A f \in File : Alive(a, f) => Waits(a, f) /\ result[a][f] = "none"
    /\ \A i \in DOMAIN Files : i > current[a] => result[a][Files[i]] = "none"

LEMMA OneAlive ==
    ASSUME HandlersOK, WaitingOK, NEW a \in Attempt, NEW f \in File, Alive(a, f),
           NEW b \in Attempt, NEW g \in File, Alive(b, g)
    PROVE  a = b /\ f = g
BY DEF HandlersOK, WaitingOK, Waits

LEMMA PredictAlive ==
    ASSUME NEW a \in Attempt, NEW f \in File, Predict(a, f)
    PROVE  Alive(a, f)
<1>1. CASE GetCached(a, f) \/ GetExistingTask(a, f) \/ Submit(a, f)
    BY <1>1 DEF GetCached, GetExistingTask, Submit, Goto, Alive
<1>2. CASE RegisterTask(a, f) \/ Poll(a, f) \/ FetchResult(a, f) \/ CacheResult(a, f)
    BY <1>2 DEF RegisterTask, Poll, FetchResult, CacheResult, Goto, Alive
<1>. QED
    BY <1>1, <1>2 DEF Predict

LEMMA CrocStarts ==
    ASSUME Init
    PROVE  TranscriptInv /\ HandlersOK /\ WaitingOK
<1>1. TranscriptInv
    <2>1. \A a \in Attempt, f \in File : ThreadOK(a, f)
        BY CrocAssumption DEF Init, ThreadOK
    <2>2. SharedOK
        BY CrocAssumption DEF Init, SharedOK
    <2>. QED
        BY <2>1, <2>2, TypesInit DEF TranscriptInv
<1>2. HandlersOK
    BY DEF Init, HandlersOK
<1>3. WaitingOK
    <2>1. \A i \in DOMAIN Files : Files[i] \in File
        BY DEF File
    <2>. QED
        BY <2>1 DEF Init, WaitingOK, Alive
<1>. QED
    BY <1>1, <1>2, <1>3

LEMMA CrocMetGrows ==
    ASSUME [Next]_crocVars
    PROVE  met \subseteq met'
<1>. USE DEF Fault, NoFault, faultVars
<1>1. ASSUME NEW a \in Attempt, \/ StartAttempt(a) \/ NextFile(a) \/ StopWaiting(a)
                                \/ EndAttempt(a) \/ Crash(a)
      PROVE  met \subseteq met'
    BY <1>1 DEF StartAttempt, NextFile, StopWaiting, EndAttempt, Crash
<1>2. ASSUME NEW a \in Attempt, NEW f \in File, Predict(a, f)
      PROVE  met \subseteq met'
    <2>1. CASE GetCached(a, f) \/ GetExistingTask(a, f) \/ Submit(a, f)
        BY <2>1 DEF GetCached, GetExistingTask, Submit
    <2>2. CASE RegisterTask(a, f) \/ Poll(a, f) \/ FetchResult(a, f) \/ CacheResult(a, f)
        BY <2>2 DEF RegisterTask, Poll, FetchResult, CacheResult
    <2>. QED
        BY <1>2, <2>1, <2>2 DEF Predict
<1>3. ASSUME NEW i \in DOMAIN tasks, TaskEnds(i)
      PROVE  met \subseteq met'
    BY <1>3 DEF TaskEnds
<1>4. KeyExpires \/ UNCHANGED crocVars => met \subseteq met'
    BY DEF KeyExpires, crocVars
<1>. QED
    BY <1>1, <1>2, <1>3, <1>4 DEF Next

\* predict leaves the handlers, and what other threads have got, alone.
LEMMA PredictWaits ==
    ASSUME Types, HandlersOK, WaitingOK, FilesDiffer,
           NEW a \in Attempt, NEW f \in File, Predict(a, f), Alive(a, f)
    PROVE  HandlersOK' /\ WaitingOK'
<1>0. handler' = handler /\ current' = current
    <2>1. CASE GetCached(a, f) \/ GetExistingTask(a, f) \/ Submit(a, f)
        BY <2>1 DEF GetCached, GetExistingTask, Submit
    <2>2. CASE RegisterTask(a, f) \/ Poll(a, f) \/ FetchResult(a, f) \/ CacheResult(a, f)
        BY <2>2 DEF RegisterTask, Poll, FetchResult, CacheResult
    <2>. QED
        BY <2>1, <2>2 DEF Predict
<1>1. HandlersOK'
    BY <1>0 DEF HandlersOK
<1>2. Waits(a, f) /\ result[a][f] = "none"
    BY DEF WaitingOK
<1>3. pc'[a][f] = "end" \/ result' = result
    <2>1. CASE GetCached(a, f) \/ GetExistingTask(a, f) \/ Submit(a, f)
        BY <1>0, <2>1, ReturnsResult DEF GetCached, GetExistingTask, Submit
    <2>2. CASE RegisterTask(a, f) \/ Poll(a, f) \/ FetchResult(a, f) \/ CacheResult(a, f)
        BY <1>0, <2>2, ReturnsResult DEF RegisterTask, Poll, FetchResult, CacheResult
    <2>. QED
        BY <2>1, <2>2 DEF Predict
<1>4. ASSUME NEW b \in Attempt, NEW g \in File, Alive(b, g)'
      PROVE  Waits(b, g)' /\ result'[b][g] = "none"
    <2>1. CASE b = a /\ g = f
        BY <1>0, <1>2, <1>3, <1>4, <2>1 DEF Alive, Waits
    <2>2. CASE b # a \/ g # f
        BY <1>0, <1>4, <2>2, OtherThreads DEF Alive, WaitingOK, Waits
    <2>. QED
        BY <2>1, <2>2
<1>5. ASSUME NEW b \in Attempt, NEW i \in DOMAIN Files, i > current'[b]
      PROVE  result'[b][Files[i]] = "none"
    <2>0. Files[i] \in File
        BY DEF File
    <2>1. result[b][Files[i]] = "none"
        BY <1>0, <1>5 DEF WaitingOK
    <2>2. b # a \/ Files[i] # f
        BY <1>0, <1>2, <1>5 DEF Waits, FilesDiffer, Types
    <2>. QED
        BY <1>0, <2>0, <2>1, <2>2, OtherThreads
<1>. QED
    BY <1>1, <1>4, <1>5 DEF WaitingOK

\* The attempt's own steps.
LEMMA AttemptWaits ==
    ASSUME Types, HandlersOK, WaitingOK, FilesDiffer, NEW a \in Attempt, met' \cap Doubling = {},
           \/ StartAttempt(a) \/ NextFile(a) \/ StopWaiting(a) \/ EndAttempt(a) \/ Crash(a)
    PROVE  HandlersOK' /\ WaitingOK'
<1>0. a \in Nat /\ Attempt \subseteq Nat
    BY CrocAssumption DEF Attempt
<1>1. CASE StartAttempt(a)
    <2>1. /\ handler' = [handler EXCEPT ![a] = "running"]
          /\ UNCHANGED <<current, result, pc>>
          /\ handler[a] = "idle"
          /\ \A b \in 1..a - 1 : handler[b] \in {"dead", "raised"}
        BY <1>1 DEF StartAttempt, Fault, Doubling
    <2>2. \A b \in Attempt : b # a => handler'[b] = handler[b] /\ handler[b] # "running"
        <3>1. ASSUME NEW b \in Attempt, b < a
              PROVE  handler[b] # "running"
            BY <1>0, <2>1, <3>1 DEF Attempt
        <3>2. ASSUME NEW b \in Attempt, a < b
              PROVE  handler[b] # "running"
            BY <2>1, <3>2 DEF HandlersOK
        <3>. QED
            BY <1>0, <2>1, <3>1, <3>2 DEF Types
    <2>3. HandlersOK'
        <3>1. handler'[a] = "running"
            BY <1>0, <2>1 DEF Types
        <3>2. ASSUME NEW b \in Attempt, NEW c \in Attempt, c < b, handler'[b] # "idle"
              PROVE  handler'[c] # "idle"
            <4>1. CASE b = a
                BY <1>0, <2>1, <2>2, <3>2, <4>1 DEF Attempt
            <4>2. CASE b # a
                BY <2>2, <3>1, <3>2, <4>2 DEF HandlersOK
            <4>. QED
                BY <4>1, <4>2
        <3>. QED
            BY <2>2, <3>1, <3>2 DEF HandlersOK
    <2>4. WaitingOK'
        <3>1. ASSUME NEW b \in Attempt, NEW f \in File, Alive(b, f)'
              PROVE  Waits(b, f)' /\ result'[b][f] = "none"
            <4>1. Alive(b, f)
                BY <2>1, <3>1 DEF Alive
            <4>2. Waits(b, f) /\ result[b][f] = "none"
                BY <4>1 DEF WaitingOK
            <4>3. b # a
                BY <2>1, <4>2 DEF Waits
            <4>. QED
                BY <2>1, <2>2, <4>2, <4>3 DEF Waits
        <3>2. ASSUME NEW b \in Attempt, NEW i \in DOMAIN Files, i > current'[b]
              PROVE  result'[b][Files[i]] = "none"
            BY <2>1, <3>2 DEF WaitingOK
        <3>. QED
            BY <3>1, <3>2 DEF WaitingOK
    <2>. QED
        BY <2>3, <2>4
<1>2. CASE NextFile(a)
    <2>. DEFINE n == current[a] + 1
                g == Files[n]
    <2>1. /\ pc' = [pc EXCEPT ![a][g] = "cache"]
          /\ current' = [current EXCEPT ![a] = n]
          /\ UNCHANGED <<handler, result>>
          /\ handler[a] = "running" /\ current[a] < Len(Files)
          /\ current[a] > 0 => result[a][Files[current[a]]] # "none"
        BY <1>2 DEF NextFile, Fault, Doubling
    <2>2. n \in DOMAIN Files /\ n > 0 /\ n \in Nat /\ current[a] \in Nat /\ current'[a] = n /\ g \in File
        <3>1. current[a] \in Nat /\ n \in 1..Len(Files) /\ current'[a] = n
            BY <1>0, <2>1, CrocAssumption DEF Types
        <3>. QED
            BY <3>1, CurrentFile, CrocAssumption
    <2>3. HandlersOK'
        BY <2>1 DEF HandlersOK
    <2>4. ASSUME NEW b \in Attempt, NEW f \in File, Alive(b, f)'
          PROVE  Waits(b, f)' /\ result'[b][f] = "none"
        <3>1. CASE b = a /\ f = g
            <4>1. result[a][g] = "none"
                BY <2>2 DEF WaitingOK
            <4>. QED
                BY <2>1, <2>2, <3>1, <4>1 DEF Waits
        <3>2. CASE b # a \/ f # g
            <4>1. pc'[b][f] = pc[b][f]
                BY <1>0, <2>1, <2>2, <3>2 DEF Types
            <4>2. Waits(b, f) /\ result[b][f] = "none"
                BY <2>4, <4>1 DEF Alive, WaitingOK
            <4>3. b # a
                BY <2>1, <4>2 DEF Waits
            <4>4. current'[b] = current[b]
                BY <1>0, <2>1, <4>3 DEF Types
            <4>. QED
                BY <2>1, <4>2, <4>4 DEF Waits
        <3>. QED
            BY <3>1, <3>2
    <2>5. ASSUME NEW b \in Attempt, NEW i \in DOMAIN Files, i > current'[b]
          PROVE  result'[b][Files[i]] = "none"
        <3>1. i > current[b]
            BY <1>0, <2>1, <2>2, <2>5, CrocAssumption DEF Types
        <3>. QED
            BY <2>1, <3>1 DEF WaitingOK
    <2>. QED
        BY <2>3, <2>4, <2>5 DEF WaitingOK
<1>3. CASE StopWaiting(a)
    BY <1>3 DEF StopWaiting, Fault, Doubling
<1>4. ASSUME NEW s \in {"finished", "raised", "dead"}, handler' = [handler EXCEPT ![a] = s],
             handler[a] = "running", UNCHANGED <<current, result>>,
             \A f \in File : ~Alive(a, f)',
             \A b \in Attempt \ {a} : pc'[b] = pc[b]
      PROVE  HandlersOK' /\ WaitingOK'
    <2>1. handler'[a] = s /\ \A b \in Attempt : b # a => handler'[b] = handler[b]
        BY <1>0, <1>4 DEF Types
    <2>2. HandlersOK'
        <3>1. \A b \in Attempt : /\ handler'[b] = "running" => handler[b] = "running"
                                 /\ handler'[b] = "idle" <=> handler[b] = "idle"
            BY <1>4, <2>1
        <3>. QED
            BY <3>1 DEF HandlersOK
    <2>3. ASSUME NEW b \in Attempt, NEW f \in File, Alive(b, f)'
          PROVE  Waits(b, f)' /\ result'[b][f] = "none"
        <3>1. b # a
            BY <1>4, <2>3
        <3>2. Waits(b, f) /\ result[b][f] = "none"
            BY <1>4, <2>3, <3>1 DEF Alive, WaitingOK
        <3>. QED
            BY <1>4, <2>1, <3>1, <3>2 DEF Waits
    <2>4. ASSUME NEW b \in Attempt, NEW i \in DOMAIN Files, i > current'[b]
          PROVE  result'[b][Files[i]] = "none"
        BY <1>4, <2>4 DEF WaitingOK
    <2>. QED
        BY <2>2, <2>3, <2>4 DEF WaitingOK
<1>5. CASE EndAttempt(a)
    <2>1. pc' = pc /\ handler[a] = "running" /\ UNCHANGED <<current, result>>
        BY <1>5 DEF EndAttempt
    <2>2. PICK s \in {"finished", "raised", "dead"} : handler' = [handler EXCEPT ![a] = s]
        BY <1>5 DEF EndAttempt
    <2>3. \A f \in File : ~Alive(a, f)
        BY <1>5 DEF EndAttempt, WaitingOK
    <2>4. \A f \in File : ~Alive(a, f)'
        BY <2>1, <2>3 DEF Alive
    <2>. QED
        BY <1>4, <2>1, <2>2, <2>4
<1>6. CASE Crash(a)
    <2>1. /\ handler[a] = "running" /\ UNCHANGED <<current, result>>
          /\ handler' = [handler EXCEPT ![a] = "dead"]
          /\ pc' = [pc EXCEPT ![a] = [f \in File |-> "end"]]
        BY <1>6 DEF Crash
    <2>2. (\A f \in File : pc'[a][f] = "end") /\ \A b \in Attempt \ {a} : pc'[b] = pc[b]
        BY <1>0, <2>1 DEF Types
    <2>. QED
        BY <1>4, <2>1, <2>2 DEF Alive
<1>. QED
    BY <1>1, <1>2, <1>3, <1>5, <1>6

-----------------------------------------------------------------------------
(* Known tasks are taken up again.                                         *)

\* No fault has happened that leaves two threads of the job, makes two tasks
\* of one POST, or loses a key.
Disturbing == {"lapse", "timeout", "api", "redis", "expire"}

\* With one thread, the map of the tasks cannot change behind its back.
SubmitOK == \A a \in Attempt, f \in File :
    /\ pc[a][f] = "submit" => fileMap[f] = NoTask
    /\ pc[a][f] = "register" => taskId[a][f] = Len(tasks)
TasksOK == \A i \in DOMAIN tasks : tasks[i].registered =>
    /\ fileMap[tasks[i].file] # NoTask
    /\ \A k \in DOMAIN tasks : i < k => tasks[k].file # tasks[i].file
CalmInv == TranscriptInv /\ HandlersOK /\ WaitingOK /\ SubmitOK /\ TasksOK
ResumeInv == CalmInv \/ (TranscriptInv /\ met \cap Disturbing # {})

\* Between the look into file_map and the registration the file stays
\* unregistered, so nobody's registered task is doubled.
LEMMA PredictSubmits ==
    ASSUME CalmInv, NEW a \in Attempt, NEW f \in File, Predict(a, f), Alive(a, f),
           met' \cap Disturbing = {}
    PROVE  SubmitOK' /\ TasksOK'
<1>0. Types /\ tasks \in Seq(Task) /\ Len(tasks) \in Nat /\ DOMAIN tasks = 1..Len(tasks)
    BY DEF CalmInv, TranscriptInv, Types
<1>1. ASSUME NEW b \in Attempt, NEW g \in File, b # a \/ g # f
      PROVE  pc'[b][g] \in {"idle", "end"}
    BY <1>0, <1>1, OneAlive, OtherThreads DEF Alive, CalmInv
<1>2. ASSUME pc'[a][f] = "submit" => fileMap'[f] = NoTask,
             pc'[a][f] = "register" => taskId'[a][f] = Len(tasks')
      PROVE  SubmitOK'
    BY <1>1, <1>2 DEF SubmitOK
<1>3. ASSUME tasks' = tasks, fileMap' = fileMap
      PROVE  TasksOK'
    BY <1>3 DEF CalmInv, TasksOK
<1>4. CASE GetCached(a, f) \/ Poll(a, f) \/ FetchResult(a, f) \/ CacheResult(a, f)
    <2>1. tasks' = tasks /\ fileMap' = fileMap
        BY <1>4 DEF GetCached, Poll, FetchResult, CacheResult
    <2>2. pc'[a][f] \in {"mapping", "fetch", "store", "end"}
        <3>1. CASE GetCached(a, f) \/ Poll(a, f)
            BY <1>0, <3>1, ReturnsResult, GotoMoves DEF GetCached, Poll
        <3>2. CASE FetchResult(a, f) \/ CacheResult(a, f)
            BY <1>0, <3>2, ReturnsResult, GotoMoves DEF FetchResult, CacheResult
        <3>. QED
            BY <1>4, <3>1, <3>2
    <2>. QED
        BY <1>2, <1>3, <2>1, <2>2
<1>5. CASE GetExistingTask(a, f)
    <2>1. tasks' = tasks /\ fileMap' = fileMap
        BY <1>5 DEF GetExistingTask
    <2>2. Goto(a, f, "mapping", IF fileMap[f] = NoTask THEN "submit" ELSE "poll")
        BY <1>5 DEF GetExistingTask, Fault, Disturbing
    <2>3. pc'[a][f] = "poll" \/ (pc'[a][f] = "submit" /\ fileMap[f] = NoTask)
        BY <1>0, <2>2, GotoMoves
    <2>. QED
        BY <1>2, <1>3, <2>1, <2>3
<1>6. CASE Submit(a, f)
    <2>1. /\ Goto(a, f, "submit", "register") /\ fileMap' = fileMap
          /\ tasks' = Append(tasks, NewTask(f))
          /\ taskId' = [taskId EXCEPT ![a][f] = Len(tasks')]
        BY <1>6 DEF Submit, Fault, Disturbing
    <2>2. pc[a][f] = "submit" /\ pc'[a][f] = "register"
        BY <1>0, <2>1, GotoMoves
    <2>3. taskId'[a][f] = Len(tasks')
        <3>1. taskId \in [Attempt -> [File -> Nat]]
            BY <1>0 DEF Types
        <3>. QED
            BY <2>1, <3>1
    <2>4. fileMap[f] = NoTask
        BY <2>2 DEF CalmInv, SubmitOK
    <2>5. /\ Len(tasks') = Len(tasks) + 1 /\ DOMAIN tasks' = 1..Len(tasks) + 1
          /\ \A i \in 1..Len(tasks) : tasks'[i] = tasks[i]
          /\ tasks'[Len(tasks) + 1].file = f /\ tasks'[Len(tasks) + 1].registered = FALSE
        <3>1. NewTask(f) \in Task /\ NewTask(f).file = f /\ NewTask(f).registered = FALSE
            BY NewTaskType DEF NewTask
        <3>2. tasks'[Len(tasks) + 1] = NewTask(f)
            BY <1>0, <2>1, <3>1
        <3>. QED
            BY <1>0, <2>1, <3>1, <3>2
    <2>6. ASSUME NEW i \in DOMAIN tasks', tasks'[i].registered
          PROVE  /\ fileMap'[tasks'[i].file] # NoTask
                 /\ \A k \in DOMAIN tasks' : i < k => tasks'[k].file # tasks'[i].file
        <3>1. i \in 1..Len(tasks) /\ tasks'[i] = tasks[i] /\ tasks[i].registered
            BY <1>0, <2>5, <2>6
        <3>2. /\ fileMap[tasks[i].file] # NoTask
              /\ \A k \in DOMAIN tasks : i < k => tasks[k].file # tasks[i].file
            BY <1>0, <3>1 DEF CalmInv, TasksOK
        <3>. QED
            BY <1>0, <2>1, <2>4, <2>5, <3>1, <3>2
    <2>7. TasksOK'
        BY <2>6 DEF TasksOK
    <2>. QED
        BY <1>2, <2>2, <2>3, <2>7
<1>7. CASE RegisterTask(a, f)
    <2>. DEFINE t == taskId[a][f]
    <2>1. /\ Goto(a, f, "register", "poll") /\ fileMap' = [fileMap EXCEPT ![f] = t]
          /\ tasks' = [tasks EXCEPT ![t].registered = TRUE]
        BY <1>7 DEF RegisterTask, Fault, Disturbing
    <2>2. pc[a][f] = "register" /\ pc'[a][f] = "poll"
        BY <1>0, <2>1, GotoMoves
    <2>3. t = Len(tasks) /\ t \in Nat
        BY <1>0, <2>2 DEF CalmInv, SubmitOK
    <2>4. t \in 1..Len(tasks) /\ tasks[t].file = f
        BY <2>2, <2>3 DEF CalmInv, TranscriptInv, ThreadOK, Known
    <2>5. /\ DOMAIN tasks' = DOMAIN tasks
          /\ \A i \in DOMAIN tasks :
                 /\ tasks'[i].file = tasks[i].file
                 /\ i # t => tasks'[i].registered = tasks[i].registered
        <3>1. tasks[t] \in Task
            BY <1>0, <2>4
        <3>2. [tasks[t] EXCEPT !.registered = TRUE].file = tasks[t].file
            BY <3>1 DEF Task
        <3>3. tasks' = [tasks EXCEPT ![t] = [tasks[t] EXCEPT !.registered = TRUE]]
            BY <2>1
        <3>. QED
            BY <1>0, <2>4, <3>2, <3>3
    <2>6. \A g \in File : fileMap'[g] = IF g = f THEN t ELSE fileMap[g]
        BY <1>0, <2>1 DEF Types
    <2>7. \A i \in DOMAIN tasks : tasks[i].file \in File
        <3>1. \A i \in DOMAIN tasks : tasks[i] \in Task
            BY <1>0
        <3>. QED
            BY <3>1 DEF Task
    <2>8. ASSUME NEW i \in DOMAIN tasks', tasks'[i].registered
          PROVE  /\ fileMap'[tasks'[i].file] # NoTask
                 /\ \A k \in DOMAIN tasks' : i < k => tasks'[k].file # tasks'[i].file
        <3>1. CASE i = t
            <4>1. \A k \in DOMAIN tasks' : ~(i < k)
                BY <1>0, <2>3, <2>5, <3>1
            <4>2. fileMap'[tasks'[i].file] = t
                BY <1>0, <2>4, <2>5, <2>6, <3>1
            <4>. QED
                BY <2>4, <4>1, <4>2 DEF NoTask
        <3>2. CASE i # t
            <4>1. tasks[i].registered
                BY <2>5, <2>8, <3>2
            <4>2. /\ fileMap[tasks[i].file] # NoTask
                  /\ \A k \in DOMAIN tasks : i < k => tasks[k].file # tasks[i].file
                BY <2>5, <4>1 DEF CalmInv, TasksOK
            <4>3. t # NoTask
                BY <2>4 DEF NoTask
            <4>4. fileMap'[tasks[i].file] # NoTask
                BY <2>5, <2>6, <2>7, <4>2, <4>3
            <4>. QED
                BY <2>5, <4>2, <4>4
        <3>. QED
            BY <3>1, <3>2
    <2>9. TasksOK'
        BY <2>8 DEF TasksOK
    <2>. QED
        BY <1>2, <2>2, <2>9
<1>. QED
    BY <1>4, <1>5, <1>6, <1>7 DEF Predict

\* They leave the tasks and their map alone.
LEMMA AttemptSubmits ==
    ASSUME CalmInv, NEW a \in Attempt,
           \/ StartAttempt(a) \/ NextFile(a) \/ StopWaiting(a) \/ EndAttempt(a) \/ Crash(a)
    PROVE  SubmitOK' /\ TasksOK'
<1>0. Types
    BY DEF CalmInv, TranscriptInv
<1>1. TasksOK'
    <2>1. tasks' = tasks /\ fileMap' = fileMap
        BY DEF StartAttempt, NextFile, StopWaiting, EndAttempt, Crash
    <2>. QED
        BY <2>1 DEF CalmInv, TasksOK
<1>2. SubmitOK'
    <2>1. tasks' = tasks /\ fileMap' = fileMap /\ taskId' = taskId
        BY DEF StartAttempt, NextFile, StopWaiting, EndAttempt, Crash
    <2>2. \A b \in Attempt, g \in File : pc'[b][g] = pc[b][g] \/ pc'[b][g] \in {"cache", "end"}
        <3>1. CASE pc' = pc
            BY <3>1
        <3>2. CASE Crash(a)
            BY <1>0, <3>2 DEF Crash, Types
        <3>3. ASSUME NEW g, pc' = [pc EXCEPT ![a][g] = "cache"]
              PROVE  \A b \in Attempt, h \in File : pc'[b][h] = pc[b][h] \/ pc'[b][h] = "cache"
            BY <1>0, <3>3 DEF Types
        <3>. QED
            BY <3>1, <3>2, <3>3 DEF StartAttempt, NextFile, StopWaiting, EndAttempt
    <2>. QED
        BY <2>1, <2>2 DEF CalmInv, SubmitOK
<1>. QED
    BY <1>1, <1>2

LEMMA ResumeStep ==
    ASSUME ResumeInv, FilesDiffer, [Next]_crocVars
    PROVE  ResumeInv'
<1>0. TranscriptInv /\ TranscriptInv' /\ met \subseteq met'
    BY TranscriptStep, CrocMetGrows DEF ResumeInv, CalmInv
<1>. SUFFICES ASSUME met' \cap Disturbing = {}
              PROVE  HandlersOK' /\ WaitingOK' /\ SubmitOK' /\ TasksOK'
    BY <1>0 DEF ResumeInv, CalmInv
<1>1. CalmInv
    BY <1>0 DEF ResumeInv
<1>2. ASSUME NEW a \in Attempt, NEW f \in File, Predict(a, f)
      PROVE  HandlersOK' /\ WaitingOK' /\ SubmitOK' /\ TasksOK'
    <2>1. HandlersOK' /\ WaitingOK'
        BY <1>0, <1>1, <1>2, PredictAlive, PredictWaits DEF CalmInv, TranscriptInv
    <2>2. SubmitOK' /\ TasksOK'
        BY <1>1, <1>2, PredictAlive, PredictSubmits
    <2>. QED
        BY <2>1, <2>2
<1>3. ASSUME NEW a \in Attempt,
             \/ StartAttempt(a) \/ NextFile(a) \/ StopWaiting(a) \/ EndAttempt(a) \/ Crash(a)
      PROVE  HandlersOK' /\ WaitingOK' /\ SubmitOK' /\ TasksOK'
    <2>1. met' \cap Doubling = {}
        BY DEF Doubling, Disturbing
    <2>2. HandlersOK' /\ WaitingOK'
        BY <1>0, <1>1, <1>3, <2>1, AttemptWaits DEF CalmInv, TranscriptInv
    <2>3. SubmitOK' /\ TasksOK'
        BY <1>1, <1>3, AttemptSubmits
    <2>. QED
        BY <2>2, <2>3
<1>4. ASSUME UNCHANGED <<handler, current, result, pc, taskId, fileMap>>,
             Len(tasks') = Len(tasks), DOMAIN tasks' = DOMAIN tasks,
             \A i \in DOMAIN tasks : /\ tasks'[i].file = tasks[i].file
                                    /\ tasks'[i].registered = tasks[i].registered
      PROVE  HandlersOK' /\ WaitingOK' /\ SubmitOK' /\ TasksOK'
    <2>1. HandlersOK' /\ SubmitOK'
        BY <1>1, <1>4 DEF CalmInv, HandlersOK, SubmitOK
    <2>2. WaitingOK'
        BY <1>1, <1>4 DEF CalmInv, WaitingOK, Alive, Waits
    <2>3. TasksOK'
        BY <1>1, <1>4 DEF CalmInv, TasksOK
    <2>. QED
        BY <2>1, <2>2, <2>3
<1>5. ASSUME NEW i \in DOMAIN tasks, TaskEnds(i)
      PROVE  HandlersOK' /\ WaitingOK' /\ SubmitOK' /\ TasksOK'
    <2>1. PICK s : tasks' = [tasks EXCEPT ![i].state = s]
        BY <1>5 DEF TaskEnds
    <2>2. tasks \in Seq(Task) /\ tasks[i] \in Task
        BY <1>0 DEF TranscriptInv, Types
    <2>3. /\ [tasks[i] EXCEPT !.state = s].file = tasks[i].file
          /\ [tasks[i] EXCEPT !.state = s].registered = tasks[i].registered
        BY <2>2 DEF Task
    <2>4. tasks' = [tasks EXCEPT ![i] = [tasks[i] EXCEPT !.state = s]]
        BY <2>1
    <2>5. /\ Len(tasks') = Len(tasks) /\ DOMAIN tasks' = DOMAIN tasks
          /\ \A k \in DOMAIN tasks : /\ tasks'[k].file = tasks[k].file
                                     /\ tasks'[k].registered = tasks[k].registered
        BY <2>2, <2>3, <2>4
    <2>. QED
        BY <1>4, <1>5, <2>5 DEF TaskEnds
<1>6. ~KeyExpires
    BY DEF KeyExpires, Fault, Disturbing
<1>7. CASE UNCHANGED crocVars
    BY <1>4, <1>7 DEF crocVars
<1>. QED
    BY <1>2, <1>3, <1>5, <1>6, <1>7 DEF Next

\* A task entered in file_map is taken up by every later attempt, however
\* often replicas die, handlers raise, tasks fail and polls are given up.
THEOREM KnownTasksResume == FilesDiffer => (Spec => []ResumesPolling)
<1>. SUFFICES ASSUME FilesDiffer
              PROVE  Spec => []ResumesPolling
    OBVIOUS
<1>1. Init => ResumeInv
    <2>. SUFFICES ASSUME Init PROVE ResumeInv
        OBVIOUS
    <2>1. TranscriptInv /\ HandlersOK /\ WaitingOK
        BY CrocStarts
    <2>2. SubmitOK
        BY DEF Init, SubmitOK
    <2>3. TasksOK
        <3>1. tasks = <<>>
            BY DEF Init
        <3>2. DOMAIN tasks = {}
            <4>1. tasks \in Seq(Task) /\ Len(tasks) = 0
                BY <3>1
            <4>. QED
                BY <4>1
        <3>. QED
            BY <3>2 DEF TasksOK
    <2>4. CalmInv
        BY <2>1, <2>2, <2>3 DEF CalmInv
    <2>. QED
        BY <2>4 DEF ResumeInv
<1>2. ResumeInv /\ [Next]_crocVars => ResumeInv'
    BY ResumeStep
<1>3. ResumeInv => ResumesPolling
    BY DEF ResumeInv, CalmInv, TasksOK, ResumesPolling, Disturbing
<1>. QED
    BY <1>1, <1>2, <1>3, PTL DEF Spec

-----------------------------------------------------------------------------
(* Work that is done is not paid for twice.                                *)

\* The faults after which a thread may submit beside a cached result: another
\* one stored it behind its back, or its look-up failed.
Overlooking == Doubling \cup {"redis"}

\* Who goes on from the look-up found nothing, and nothing came since.
LookedOK == \A a \in Attempt, f \in File :
    pc[a][f] \in {"mapping", "submit"} => cache \in Silent \cup {"none"}
CachedInv ==
    /\ TranscriptInv
    /\ met \cap Overlooking = {} => HandlersOK /\ WaitingOK /\ LookedOK

\* The one thread that lives is the only one to fill the cache.
LEMMA PredictLooks ==
    ASSUME Types, HandlersOK, WaitingOK, LookedOK,
           NEW a \in Attempt, NEW f \in File, Predict(a, f), met' \cap Overlooking = {}
    PROVE  LookedOK'
<1>1. ASSUME NEW b \in Attempt, NEW g \in File, b # a \/ g # f
      PROVE  pc'[b][g] \in {"idle", "end"}
    BY <1>1, OneAlive, OtherThreads, PredictAlive DEF Alive
<1>2. ASSUME pc'[a][f] \in {"mapping", "submit"} => cache' \in Silent \cup {"none"}
      PROVE  LookedOK'
    BY <1>1, <1>2 DEF LookedOK
<1>3. CASE GetCached(a, f)
    <2>1. pc'[a][f] = "end" \/ cache \in Silent \cup {"none"}
        BY <1>3, ReturnsResult DEF GetCached, Fault, Overlooking
    <2>2. cache' = cache
        BY <1>3 DEF GetCached
    <2>. QED
        BY <1>2, <2>1, <2>2
<1>4. CASE GetExistingTask(a, f)
    <2>1. pc[a][f] = "mapping" /\ cache' = cache
        BY <1>4 DEF GetExistingTask, Goto
    <2>2. cache \in Silent \cup {"none"}
        BY <2>1 DEF LookedOK
    <2>. QED
        BY <1>2, <2>1, <2>2
<1>5. CASE Submit(a, f) \/ RegisterTask(a, f)
    <2>1. pc'[a][f] \in {"register", "poll", "end"}
        BY <1>5, ReturnsResult, GotoMoves DEF Submit, RegisterTask
    <2>. QED
        BY <1>2, <2>1
<1>6. CASE Poll(a, f) \/ FetchResult(a, f) \/ CacheResult(a, f)
    <2>1. pc'[a][f] \in {"fetch", "store", "end"}
        BY <1>6, ReturnsResult, GotoMoves DEF Poll, FetchResult, CacheResult
    <2>. QED
        BY <1>2, <2>1
<1>. QED
    BY <1>3, <1>4, <1>5, <1>6 DEF Predict

LEMMA AttemptLooks ==
    ASSUME Types, LookedOK, NEW a \in Attempt,
           \/ StartAttempt(a) \/ NextFile(a) \/ StopWaiting(a) \/ EndAttempt(a) \/ Crash(a)
    PROVE  LookedOK'
<1>1. cache' = cache
    BY DEF StartAttempt, NextFile, StopWaiting, EndAttempt, Crash
<1>2. \A b \in Attempt, g \in File : pc'[b][g] = pc[b][g] \/ pc'[b][g] \in {"cache", "end"}
    <2>1. CASE pc' = pc
        BY <2>1
    <2>2. CASE Crash(a)
        BY <2>2 DEF Crash, Types
    <2>3. ASSUME NEW g, pc' = [pc EXCEPT ![a][g] = "cache"]
          PROVE  \A b \in Attempt, h \in File : pc'[b][h] = pc[b][h] \/ pc'[b][h] = "cache"
        BY <2>3 DEF Types
    <2>. QED
        BY <2>1, <2>2, <2>3 DEF StartAttempt, NextFile, StopWaiting, EndAttempt
<1>. QED
    BY <1>1, <1>2 DEF LookedOK

LEMMA CachedStep ==
    ASSUME CachedInv, FilesDiffer, [Next]_crocVars
    PROVE  CachedInv'
<1>0. Types /\ TranscriptInv' /\ met \subseteq met'
    BY TranscriptStep, CrocMetGrows DEF CachedInv, TranscriptInv
<1>. SUFFICES ASSUME met' \cap Overlooking = {}
              PROVE  HandlersOK' /\ WaitingOK' /\ LookedOK'
    BY <1>0 DEF CachedInv
<1>1. HandlersOK /\ WaitingOK /\ LookedOK /\ met' \cap Doubling = {}
    BY <1>0 DEF CachedInv, Overlooking
<1>2. ASSUME NEW a \in Attempt, NEW f \in File, Predict(a, f)
      PROVE  HandlersOK' /\ WaitingOK' /\ LookedOK'
    BY <1>0, <1>1, <1>2, PredictAlive, PredictWaits, PredictLooks
<1>3. ASSUME NEW a \in Attempt,
             \/ StartAttempt(a) \/ NextFile(a) \/ StopWaiting(a) \/ EndAttempt(a) \/ Crash(a)
      PROVE  HandlersOK' /\ WaitingOK' /\ LookedOK'
    BY <1>0, <1>1, <1>3, AttemptWaits, AttemptLooks
<1>4. ASSUME UNCHANGED <<handler, current, result, pc>>, cache' \in {cache, "none"}
      PROVE  HandlersOK' /\ WaitingOK' /\ LookedOK'
    <2>1. HandlersOK' /\ LookedOK'
        BY <1>1, <1>4 DEF HandlersOK, LookedOK
    <2>2. WaitingOK'
        BY <1>1, <1>4 DEF WaitingOK, Alive, Waits
    <2>. QED
        BY <2>1, <2>2
<1>5. ASSUME NEW i \in DOMAIN tasks, TaskEnds(i)
      PROVE  HandlersOK' /\ WaitingOK' /\ LookedOK'
    BY <1>4, <1>5 DEF TaskEnds
<1>6. CASE KeyExpires
    BY <1>4, <1>6 DEF KeyExpires
<1>7. CASE UNCHANGED crocVars
    BY <1>4, <1>7 DEF crocVars
<1>. QED
    BY <1>2, <1>3, <1>5, <1>6, <1>7 DEF Next

\* Only Submit makes tasks, and it runs in a thread that looked.
LEMMA SubmitsUncached ==
    ASSUME CachedInv, [Next]_crocVars, met' \cap Overlooking = {},
           cache \notin Silent \cup {"none"}
    PROVE  Len(tasks') = Len(tasks)
<1>0. Types /\ tasks \in Seq(Task) /\ met \subseteq met'
    BY CrocMetGrows DEF CachedInv, TranscriptInv, Types
<1>1. LookedOK
    BY <1>0 DEF CachedInv
<1>2. ASSUME NEW a \in Attempt, NEW f \in File, Submit(a, f)
      PROVE  FALSE
    <2>1. pc[a][f] = "submit"
        BY <1>2 DEF Submit, Goto
    <2>. QED
        BY <1>1, <2>1 DEF LookedOK
<1>3. ASSUME NEW a \in Attempt, NEW f \in File, RegisterTask(a, f)
      PROVE  Len(tasks') = Len(tasks)
    BY <1>0, <1>3 DEF RegisterTask
<1>4. ASSUME NEW i \in DOMAIN tasks, TaskEnds(i)
      PROVE  Len(tasks') = Len(tasks)
    BY <1>0, <1>4 DEF TaskEnds
<1>5. ASSUME NEW a \in Attempt, NEW f \in File,
             \/ GetCached(a, f) \/ GetExistingTask(a, f) \/ Poll(a, f)
             \/ FetchResult(a, f) \/ CacheResult(a, f)
      PROVE  tasks' = tasks
    BY <1>5 DEF GetCached, GetExistingTask, Poll, FetchResult, CacheResult
<1>6. ASSUME NEW a \in Attempt,
             \/ StartAttempt(a) \/ NextFile(a) \/ StopWaiting(a) \/ EndAttempt(a) \/ Crash(a)
      PROVE  tasks' = tasks
    BY <1>6 DEF StartAttempt, NextFile, StopWaiting, EndAttempt, Crash
<1>7. KeyExpires \/ UNCHANGED crocVars => tasks' = tasks
    BY DEF KeyExpires, crocVars
<1>. QED
    BY <1>2, <1>3, <1>4, <1>5, <1>6, <1>7 DEF Next, Predict

\* While a result with segments is cached, no attempt submits anything,
\* however often replicas die, handlers raise, the service fails and file_map
\* expires: the look of predict at its cache is enough, as long as one thread
\* works for the job and Redis answers.
THEOREM CachedNeverResubmitted == FilesDiffer => (Spec => NothingSubmittedOnceCached)
<1>. SUFFICES ASSUME FilesDiffer
              PROVE  Spec => NothingSubmittedOnceCached
    OBVIOUS
<1>1. Init => CachedInv
    <2>. SUFFICES ASSUME Init PROVE CachedInv
        OBVIOUS
    <2>1. LookedOK
        BY DEF Init, LookedOK
    <2>. QED
        BY <2>1, CrocStarts DEF CachedInv
<1>2. CachedInv /\ [Next]_crocVars => CachedInv'
    BY CachedStep
<1>3. CachedInv /\ [Next]_crocVars =>
          [met' \cap {"lapse", "timeout", "redis"} = {} /\ cache \notin Silent \cup {"none"}
              => Len(tasks') = Len(tasks)]_crocVars
    BY SubmitsUncached DEF Overlooking, Doubling
<1>. QED
    BY <1>1, <1>2, <1>3, PTL DEF Spec, NothingSubmittedOnceCached

-----------------------------------------------------------------------------
(* The type invariant: ids of tasks that exist, faults within the bound.   *)

Bounded == budget \in 0..MaxFaults /\ met \subseteq Faults
IdsOK ==
    /\ \A a \in Attempt, f \in File : taskId[a][f] <= Len(tasks)
    /\ \A f \in File : fileMap[f] <= Len(tasks)

LEMMA BoundedStep ==
    ASSUME Bounded, [Next]_crocVars
    PROVE  Bounded'
<1>. USE CrocAssumption DEF Fault, NoFault, faultVars, Bounded
<1>1. ASSUME NEW a \in Attempt, \/ StartAttempt(a) \/ NextFile(a) \/ StopWaiting(a)
                                \/ EndAttempt(a) \/ Crash(a)
      PROVE  Bounded'
    BY <1>1 DEF StartAttempt, NextFile, StopWaiting, EndAttempt, Crash
<1>2. ASSUME NEW a \in Attempt, NEW f \in File, Predict(a, f)
      PROVE  Bounded'
    <2>1. CASE GetCached(a, f) \/ GetExistingTask(a, f) \/ Submit(a, f)
        BY <2>1 DEF GetCached, GetExistingTask, Submit
    <2>2. CASE RegisterTask(a, f) \/ Poll(a, f) \/ FetchResult(a, f) \/ CacheResult(a, f)
        BY <2>2 DEF RegisterTask, Poll, FetchResult, CacheResult
    <2>. QED
        BY <1>2, <2>1, <2>2 DEF Predict
<1>3. ASSUME NEW i \in DOMAIN tasks, TaskEnds(i)
      PROVE  Bounded'
    BY <1>3 DEF TaskEnds
<1>4. KeyExpires \/ UNCHANGED crocVars => Bounded'
    BY DEF KeyExpires, crocVars
<1>. QED
    BY <1>1, <1>2, <1>3, <1>4 DEF Next

\* An id is 0, or comes from file_map, or is that of the last task.
LEMMA IdsStep ==
    ASSUME Types, IdsOK, [Next]_crocVars
    PROVE  IdsOK'
<1>0. /\ taskId \in [Attempt -> [File -> Nat]] /\ fileMap \in [File -> Nat]
      /\ Len(tasks) \in Nat /\ Len(tasks') \in Nat /\ Len(tasks') >= Len(tasks)
    BY StepTasks, TasksExtend DEF Types, Extends
<1>1. ASSUME \A a \in Attempt, f \in File : taskId'[a][f] = taskId[a][f] \/ taskId'[a][f] <= Len(tasks'),
             \A f \in File : fileMap'[f] = fileMap[f] \/ fileMap'[f] <= Len(tasks')
      PROVE  IdsOK'
    <2>1. ASSUME NEW a \in Attempt, NEW f \in File
          PROVE  taskId'[a][f] <= Len(tasks')
        <3>1. taskId[a][f] \in Nat /\ taskId[a][f] <= Len(tasks)
            BY <1>0 DEF IdsOK
        <3>. QED
            BY <1>0, <1>1, <3>1
    <2>2. ASSUME NEW f \in File
          PROVE  fileMap'[f] <= Len(tasks')
        <3>1. fileMap[f] \in Nat /\ fileMap[f] <= Len(tasks)
            BY <1>0 DEF IdsOK
        <3>. QED
            BY <1>0, <1>1, <3>1
    <2>. QED
        BY <2>1, <2>2 DEF IdsOK
<1>2. CASE taskId' = taskId /\ fileMap' = fileMap
    BY <1>1, <1>2
<1>3. ASSUME NEW a \in Attempt, \/ StartAttempt(a) \/ NextFile(a) \/ StopWaiting(a)
                                \/ EndAttempt(a) \/ Crash(a)
      PROVE  IdsOK'
    BY <1>2, <1>3 DEF StartAttempt, NextFile, StopWaiting, EndAttempt, Crash
<1>4. ASSUME NEW a \in Attempt, NEW f \in File, Predict(a, f)
      PROVE  IdsOK'
    <2>0. ASSUME NEW v \in Nat, v <= Len(tasks') PROVE
              \A b \in Attempt, g \in File :
                  LET t == [taskId EXCEPT ![a][f] = v]
                  IN  t[b][g] = taskId[b][g] \/ t[b][g] <= Len(tasks')
        <3>1. \A b \in Attempt, g \in File :
                  [taskId EXCEPT ![a][f] = v][b][g] \in {taskId[b][g], v}
            BY <1>0
        <3>. QED
            BY <2>0, <3>1
    <2>1. CASE GetCached(a, f) \/ Poll(a, f) \/ FetchResult(a, f) \/ CacheResult(a, f)
        BY <1>2, <2>1 DEF GetCached, Poll, FetchResult, CacheResult
    <2>2. CASE GetExistingTask(a, f)
        <3>1. fileMap[f] \in Nat /\ fileMap[f] <= Len(tasks) /\ fileMap' = fileMap /\ tasks' = tasks
            BY <1>0, <2>2 DEF IdsOK, GetExistingTask
        <3>2. taskId' = taskId \/ taskId' = [taskId EXCEPT ![a][f] = fileMap[f]]
            BY <2>2 DEF GetExistingTask
        <3>. QED
            BY <1>1, <1>2, <2>0, <3>1, <3>2
    <2>3. CASE Submit(a, f)
        <3>1. fileMap' = fileMap /\ taskId' = [taskId EXCEPT ![a][f] = Len(tasks')]
            BY <2>3 DEF Submit
        <3>2. Len(tasks') <= Len(tasks')
            BY <1>0
        <3>. QED
            BY <1>0, <1>1, <2>0, <3>1, <3>2
    <2>4. CASE RegisterTask(a, f)
        <3>1. taskId[a][f] \in Nat /\ taskId[a][f] <= Len(tasks')
            BY <1>0 DEF IdsOK
        <3>2. taskId' = taskId
              /\ (fileMap' = fileMap \/ fileMap' = [fileMap EXCEPT ![f] = taskId[a][f]])
            BY <2>4 DEF RegisterTask
        <3>3. \A g \in File : fileMap'[g] = fileMap[g] \/ fileMap'[g] <= Len(tasks')
            BY <1>0, <3>1, <3>2
        <3>. QED
            BY <1>1, <3>2, <3>3
    <2>. QED
        BY <1>4, <2>1, <2>2, <2>3, <2>4 DEF Predict
<1>5. ASSUME NEW i \in DOMAIN tasks, TaskEnds(i)
      PROVE  IdsOK'
    BY <1>2, <1>5 DEF TaskEnds
<1>6. CASE KeyExpires
    <2>1. taskId' = taskId /\ \A g \in File : fileMap'[g] \in {fileMap[g], 0}
        BY <1>0, <1>6 DEF KeyExpires, NoTask
    <2>2. \A g \in File : fileMap'[g] = fileMap[g] \/ fileMap'[g] <= Len(tasks')
        BY <1>0, <2>1
    <2>. QED
        BY <1>1, <2>1, <2>2
<1>7. CASE UNCHANGED crocVars
    BY <1>2, <1>7 DEF crocVars
<1>. QED
    BY <1>3, <1>4, <1>5, <1>6, <1>7 DEF Next

\* Handlers, threads, tasks and keys have the values the code can give them:
\* an id of a task in a thread or a key is that of a task the service has.
THEOREM CrocTyped == Spec => []TypeOK
<1>1. Init => Types /\ Bounded /\ IdsOK
    <2>. SUFFICES ASSUME Init PROVE Bounded /\ IdsOK
        BY TypesInit
    <2>1. Len(tasks) = 0
        BY DEF Init
    <2>. QED
        BY <2>1, CrocAssumption DEF Init, Bounded, IdsOK, NoTask
<1>2. Types /\ Bounded /\ IdsOK /\ [Next]_crocVars => Types' /\ Bounded' /\ IdsOK'
    BY TypesStep, BoundedStep, IdsStep
<1>3. Types /\ Bounded /\ IdsOK => TypeOK
    <2>. SUFFICES ASSUME Types, Bounded, IdsOK PROVE TypeOK
        OBVIOUS
    <2>1. taskId \in [Attempt -> [File -> 0..Len(tasks)]] /\ fileMap \in [File -> 0..Len(tasks)]
        <3>1. \A a \in Attempt, f \in File : taskId[a][f] \in 0..Len(tasks)
            BY DEF Types, IdsOK
        <3>2. \A f \in File : fileMap[f] \in 0..Len(tasks)
            BY DEF Types, IdsOK
        <3>3. \A a \in Attempt : taskId[a] \in [File -> 0..Len(tasks)]
            BY <3>1 DEF Types
        <3>. QED
            BY <3>2, <3>3 DEF Types
    <2>2. \A i \in DOMAIN tasks : tasks[i] \in [file : File, registered : BOOLEAN,
                                                state : {"PROGRESS", "SUCCESS", "FAILURE"}]
        <3>1. \A i \in DOMAIN tasks : tasks[i] \in Task
            BY DEF Types
        <3>. QED
            BY <3>1 DEF Task, State
    <2>. QED
        BY <2>1, <2>2 DEF Types, Bounded, TypeOK, Status
<1>. QED
    BY <1>1, <1>2, <1>3, PTL DEF Spec
=============================================================================
