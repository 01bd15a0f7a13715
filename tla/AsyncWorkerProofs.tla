-------------------------- MODULE AsyncWorkerProofs --------------------------
(***************************************************************************)
(* What holds of AsyncWorker for every number of jobs, replicas and        *)
(* faults, and that it implements JobDelivery.                             *)
(***************************************************************************)
EXTENDS AsyncWorker, FiniteSetTheorems, TLAPS

-----------------------------------------------------------------------------
(* Type correctness.                                                       *)

LEMMA AttemptType ==
    ASSUME NEW a \in Attempt
    PROVE  JobOf(a) \in Jobs
BY DEF Attempt, JobOf

\* A published response keeps the job's responses a sequence of responses.
LEMMA PublishType ==
    ASSUME TypeOK, NEW a \in Attempt, NEW status \in Status, Publish(a, status)
    PROVE  responses' \in [Jobs -> Seq(Response)]
<1>1. [by |-> a, status |-> status] \in Response
    BY DEF Response
<1>2. responses \in [Jobs -> Seq(Response)]
    BY DEF TypeOK
<1>3. responses[JobOf(a)] \in Seq(Response)
    BY <1>2, AttemptType
<1>4. Append(responses[JobOf(a)], [by |-> a, status |-> status]) \in Seq(Response)
    BY <1>1, <1>3
<1>. QED
    BY <1>2, <1>4 DEF Publish

\* One step of a handler moves its pc within PC and touches no other pc.
LEMMA GotoType ==
    ASSUME TypeOK, NEW a \in Attempt, NEW from, NEW to \in PC, Goto(a, from, to)
    PROVE  pc' \in [Attempt -> PC]
BY DEF TypeOK, Goto

LEMMA FaultType ==
    ASSUME TypeOK, NEW kind, Fault(kind) \/ NoFault
    PROVE  budget' \in 0..MaxFaults /\ met' \subseteq Faults
BY BoundAssumption DEF TypeOK, Fault, NoFault, CanFail, faultVars

\* A rewritten key keeps its type.
LEMMA LockKeyType ==
    ASSUME TypeOK, NEW j \in Jobs, NEW v \in Attempt \cup {None, Done}
    PROVE  [lockKey EXCEPT ![j] = v] \in [Jobs -> Attempt \cup {None, Done}]
BY DEF TypeOK

LEMMA UnlockType ==
    ASSUME TypeOK, NEW a \in Attempt, Unlock(a)
    PROVE  /\ lockKey' \in [Jobs -> Attempt \cup {None, Done}]
           /\ budget' \in 0..MaxFaults /\ met' \subseteq Faults
<1>1. lockKey' \in [Jobs -> Attempt \cup {None, Done}]
    BY AttemptType DEF TypeOK, Unlock
<1>2. budget' \in 0..MaxFaults /\ met' \subseteq Faults
    BY FaultType DEF Unlock
<1>. QED
    BY <1>1, <1>2

\* What a handler and its tasks do keeps every variable in its type.
LEMMA HandlerType ==
    ASSUME TypeOK, NEW a \in Attempt, Handle(a) \/ PublishInProgress(a)
    PROVE  TypeOK'
<1>. USE AttemptType DEF PC, Running, Guarded, outputVars, queueVars, taskVars, faultVars
<1>1. CASE Refuse(a)
    <2>1. responses' \in [Jobs -> Seq(Response)]
        BY <1>1, PublishType DEF Refuse, Confirmed, Unsent, Status, TypeOK
    <2>2. budget' \in 0..MaxFaults /\ met' \subseteq Faults
        BY <1>1, FaultType DEF Refuse, Confirmed, Unsent
    <2>3. pc' \in [Attempt -> PC]
        BY <1>1, GotoType DEF Refuse
    <2>. QED
        BY <1>1, <2>1, <2>2, <2>3 DEF Refuse, TypeOK
<1>2. CASE CheckDone(a)
    <2>1. budget' \in 0..MaxFaults /\ met' \subseteq Faults
        BY <1>2, FaultType DEF CheckDone
    <2>2. pc' \in [Attempt -> PC]
        BY <1>2, GotoType DEF CheckDone
    <2>. QED
        BY <1>2, <2>1, <2>2 DEF CheckDone, TypeOK
<1>3. CASE Acquire(a)
    <2>1. budget' \in 0..MaxFaults /\ met' \subseteq Faults
        BY <1>3, FaultType DEF Acquire
    <2>2. pc' \in [Attempt -> PC]
        BY <1>3, GotoType DEF Acquire
    <2>3. \/ lockKey' = lockKey
          \/ lockKey' = [lockKey EXCEPT ![JobOf(a)] = a]
          \/ lockKey' = [lockKey EXCEPT ![JobOf(a)] = IF @ = None THEN a ELSE @]
        BY <1>3 DEF Acquire
    <2>4. lockKey' \in [Jobs -> Attempt \cup {None, Done}]
        <3>1. JobOf(a) \in Jobs /\ lockKey \in [Jobs -> Attempt \cup {None, Done}]
            BY DEF TypeOK
        <3>2. lockKey[JobOf(a)] \in Attempt \cup {None, Done}
            BY <3>1
        <3>3. CASE lockKey' = [lockKey EXCEPT ![JobOf(a)] = IF @ = None THEN a ELSE @]
            BY <3>1, <3>2, <3>3
        <3>. QED
            BY <2>3, <3>1, <3>3, LockKeyType
    <2>. QED
        BY <1>3, <2>1, <2>2, <2>4 DEF Acquire, TypeOK
<1>4. CASE Recheck(a)
    <2>1. budget' \in 0..MaxFaults /\ met' \subseteq Faults
        BY <1>4, FaultType DEF Recheck
    <2>2. pc' \in [Attempt -> PC]
        BY <1>4, GotoType DEF Recheck
    <2>3. ackTask' \in [Attempt -> {"none", "created", "finished"}]
        BY <1>4 DEF Recheck, TypeOK
    <2>. QED
        BY <1>4, <2>1, <2>2, <2>3 DEF Recheck, TypeOK
<1>5. CASE Work(a)
    <2>1. budget' \in 0..MaxFaults /\ met' \subseteq Faults
        BY <1>5, FaultType DEF Work
    <2>2. pc' \in [Attempt -> PC]
        BY <1>5, GotoType DEF Work
    <2>. QED
        BY <1>5, <2>1, <2>2 DEF Work, TypeOK
<1>6. CASE Answer(a)
    <2>1. responses' \in [Jobs -> Seq(Response)]
        BY <1>6, PublishType DEF Answer, Confirmed, Status, TypeOK
    <2>2. budget' \in 0..MaxFaults /\ met' \subseteq Faults
        BY <1>6, FaultType DEF Answer, Confirmed
    <2>3. pc' \in [Attempt -> PC]
        BY <1>6, GotoType DEF Answer
    <2>. QED
        BY <1>6, <2>1, <2>2, <2>3 DEF Answer, TypeOK
<1>7. CASE Confirm(a)
    <2>1. budget' \in 0..MaxFaults /\ met' \subseteq Faults
        BY <1>7, FaultType DEF Confirm
    <2>2. pc' \in [Attempt -> PC]
        BY <1>7, GotoType DEF Confirm
    <2>. QED
        BY <1>7, <2>1, <2>2 DEF Confirm, TypeOK
<1>8. CASE Excuse(a)
    <2>1. responses' \in [Jobs -> Seq(Response)]
        BY <1>8, PublishType DEF Excuse, Confirmed, Unsent, Status, TypeOK
    <2>2. budget' \in 0..MaxFaults /\ met' \subseteq Faults
        BY <1>8, FaultType DEF Excuse, Confirmed, Unsent
    <2>3. pc' \in [Attempt -> PC]
        BY <1>8, GotoType DEF Excuse
    <2>. QED
        BY <1>8, <2>1, <2>2, <2>3 DEF Excuse, TypeOK
<1>9. CASE Unwind(a)
    <2>1. pc' \in [Attempt -> PC]
        BY <1>9, GotoType DEF Unwind
    <2>. QED
        BY <1>9, <2>1, UnlockType DEF Unwind, TypeOK
<1>10. CASE MarkDone(a)
    <2>1. budget' \in 0..MaxFaults /\ met' \subseteq Faults
        BY <1>10, FaultType DEF MarkDone
    <2>2. pc' \in [Attempt -> PC]
        BY <1>10, GotoType DEF MarkDone
    <2>3. lockKey' \in [Jobs -> Attempt \cup {None, Done}]
        BY <1>10 DEF MarkDone, TypeOK
    <2>. QED
        BY <1>10, <2>1, <2>2, <2>3 DEF MarkDone, TypeOK
<1>11. CASE Release(a)
    <2>1. pc' \in [Attempt -> PC]
        BY <1>11, GotoType DEF Release
    <2>. QED
        BY <1>11, <2>1, UnlockType DEF Release, TypeOK
<1>12. CASE Upload(a)
    <2>1. budget' \in 0..MaxFaults /\ met' \subseteq Faults
        BY <1>12, FaultType DEF Upload
    <2>2. pc' \in [Attempt -> PC]
        BY <1>12, GotoType DEF Upload
    <2>. QED
        BY <1>12, <2>1, <2>2 DEF Upload, TypeOK
<1>13. CASE WriteResult(a)
    <2>1. budget' \in 0..MaxFaults /\ met' \subseteq Faults
        BY <1>13, FaultType DEF WriteResult
    <2>2. pc' \in [Attempt -> PC]
        BY <1>13, GotoType DEF WriteResult
    <2>. QED
        BY <1>13, <2>1, <2>2 DEF WriteResult, TypeOK
<1>14. CASE AckMsg(a)
    <2>1. budget' \in 0..MaxFaults /\ met' \subseteq Faults
        BY <1>14, FaultType DEF AckMsg
    <2>2. pc' \in [Attempt -> PC]
        BY <1>14, GotoType DEF AckMsg
    <2>. QED
        BY <1>14, <2>1, <2>2 DEF AckMsg, TypeOK
<1>15. CASE NakMsg(a)
    <2>1. budget' \in 0..MaxFaults /\ met' \subseteq Faults
        BY <1>15, FaultType DEF NakMsg
    <2>2. pc' \in [Attempt -> PC]
        BY <1>15, GotoType DEF NakMsg
    <2>. QED
        BY <1>15, <2>1, <2>2 DEF NakMsg, TypeOK
<1>16. CASE PublishInProgress(a)
    <2>1. responses' \in [Jobs -> Seq(Response)]
        BY <1>16, PublishType DEF PublishInProgress, Confirmed, Unsent, Status, TypeOK
    <2>2. budget' \in 0..MaxFaults /\ met' \subseteq Faults
        BY <1>16, FaultType DEF PublishInProgress, Confirmed, Unsent
    <2>. QED
        BY <1>16, <2>1, <2>2 DEF PublishInProgress, TypeOK
<1>. QED
    BY <1>1, <1>2, <1>3, <1>4, <1>5, <1>6, <1>7, <1>8, <1>9, <1>10, <1>11,
       <1>12, <1>13, <1>14, <1>15, <1>16 DEF Handle

\* What the queue, Redis and the replicas do keeps every variable in its type.
LEMMA EnvironmentType ==
    ASSUME TypeOK,
           \/ \E j \in Jobs : \/ AckWaitElapses(j) \/ HeartbeatLost(j)
                              \/ LockExpires(j) \/ LockLapses(j) \/ DoneExpires(j)
                              \/ \E w \in Workers : Fetch(w, j)
           \/ \E w \in Workers : Crash(w) \/ Shutdown(w) \/ Restart(w)
    PROVE  TypeOK'
<1>. USE DEF PC, Running, Guarded, outputVars, queueVars, taskVars, faultVars
<1>1. ASSUME NEW j \in Jobs, NEW w \in Workers, Fetch(w, j)
      PROVE  TypeOK'
    <2>1. <<j, delivered[j] + 1>> \in Attempt /\ delivered[j] + 1 \in 0..MaxFaults + 1
        BY <1>1, BoundAssumption DEF Fetch, TypeOK, Attempt
    <2>. QED
        BY <1>1, <2>1 DEF Fetch, TypeOK
<1>2. ASSUME NEW j \in Jobs, AckWaitElapses(j)
      PROVE  TypeOK'
    BY <1>2 DEF AckWaitElapses, TypeOK
<1>3. ASSUME NEW j \in Jobs, HeartbeatLost(j)
      PROVE  TypeOK'
    BY <1>3, FaultType DEF HeartbeatLost, TypeOK
<1>4. ASSUME NEW j \in Jobs, LockExpires(j)
      PROVE  TypeOK'
    BY <1>4 DEF LockExpires, TypeOK
<1>5. ASSUME NEW j \in Jobs, LockLapses(j) \/ DoneExpires(j)
      PROVE  TypeOK'
    BY <1>5, FaultType DEF LockLapses, DoneExpires, TypeOK
<1>6. ASSUME NEW w \in Workers, Stop(w)
      PROVE  /\ up' \in [Workers -> BOOLEAN]
             /\ pc' \in [Attempt -> PC]
             /\ ackTask' \in [Attempt -> {"none", "created", "finished"}]
    BY <1>6 DEF Stop, TypeOK
<1>7. ASSUME NEW w \in Workers, Crash(w)
      PROVE  TypeOK'
    BY <1>6, <1>7, FaultType DEF Crash, Stop, TypeOK
<1>8. ASSUME NEW w \in Workers, Shutdown(w)
      PROVE  TypeOK'
    <2>1. lockKey' \in [Jobs -> Attempt \cup {None, Done}]
        BY <1>8 DEF Shutdown, TypeOK
    <2>2. budget' \in 0..MaxFaults /\ met' \subseteq Faults
        BY <1>8, FaultType DEF Shutdown
    <2>. QED
        BY <1>6, <1>8, <2>1, <2>2 DEF Shutdown, Stop, TypeOK
<1>9. ASSUME NEW w \in Workers, Restart(w)
      PROVE  TypeOK'
    BY <1>9 DEF Restart, TypeOK
<1>. QED
    BY <1>1, <1>2, <1>3, <1>4, <1>5, <1>7, <1>8, <1>9

LEMMA NextType == TypeOK /\ [Next]_vars => TypeOK'
<1>1. TypeOK /\ Next => TypeOK'
    BY HandlerType, EnvironmentType DEF Next
<1>2. TypeOK /\ UNCHANGED vars => TypeOK'
    BY DEF TypeOK, vars
<1>. QED
    BY <1>1, <1>2

LEMMA InitType == Init => TypeOK
<1>. SUFFICES ASSUME Init PROVE TypeOK
    OBVIOUS
<1>1. resultJson \in [Jobs -> Attempt \cup {None, Audio}]
    BY StoredAssumption DEF Init
<1>. QED
    BY <1>1, BoundAssumption DEF Init, TypeOK, PC, Running

\* Every variable keeps its type, whatever the numbers of jobs and replicas
\* and whatever faults happen.
THEOREM TypeCorrect == Spec => []TypeOK
BY InitType, NextType, PTL DEF Spec

-----------------------------------------------------------------------------
(* 'done' is final.                                                        *)

\* RedisLock.release spares a key that holds another value than the token.
LEMMA UnlockSparesDone ==
    ASSUME TypeOK, NEW a \in Attempt, NEW j \in Jobs, Unlock(a), lockKey[j] = Done
    PROVE  lockKey'[j] = lockKey[j]
BY NoneAssumption DEF Unlock, TypeOK

LEMMA DoneStep ==
    ASSUME TypeOK, [Next]_vars, NEW j \in Jobs, lockKey[j] = Done
    PROVE  lockKey'[j] = Done \/ DoneExpires(j)
<1>. USE NoneAssumption
<1>1. ASSUME NEW a \in Attempt, Handle(a)
      PROVE  lockKey'[j] = Done
    <2>1. CASE Acquire(a)
        BY <2>1 DEF Acquire, TypeOK
    <2>2. CASE Unwind(a) \/ Release(a)
        BY <2>2, UnlockSparesDone DEF Unwind, Release
    <2>3. CASE MarkDone(a)
        BY <2>3 DEF MarkDone, TypeOK
    <2>4. CASE \/ Refuse(a) \/ CheckDone(a) \/ Recheck(a) \/ Work(a) \/ Answer(a)
               \/ Confirm(a) \/ Excuse(a) \/ Upload(a) \/ WriteResult(a)
               \/ AckMsg(a) \/ NakMsg(a)
        BY <2>4 DEF Refuse, CheckDone, Recheck, Work, Answer, Confirm, Excuse,
                    Upload, WriteResult, AckMsg, NakMsg
    <2>. QED
        BY <1>1, <2>1, <2>2, <2>3, <2>4 DEF Handle
<1>2. ASSUME NEW a \in Attempt, PublishInProgress(a)
      PROVE  lockKey'[j] = Done
    BY <1>2 DEF PublishInProgress
<1>3. ASSUME NEW i \in Jobs, AckWaitElapses(i) \/ HeartbeatLost(i)
      PROVE  lockKey'[j] = Done
    BY <1>3 DEF AckWaitElapses, HeartbeatLost
<1>4. ASSUME NEW i \in Jobs, LockExpires(i) \/ LockLapses(i)
      PROVE  lockKey'[j] = Done
    BY <1>4 DEF LockExpires, LockLapses, TypeOK
<1>5. ASSUME NEW i \in Jobs, DoneExpires(i)
      PROVE  lockKey'[j] = Done \/ DoneExpires(j)
    BY <1>5 DEF DoneExpires, TypeOK
<1>6. ASSUME NEW i \in Jobs, NEW w \in Workers, Fetch(w, i)
      PROVE  lockKey'[j] = Done
    BY <1>6 DEF Fetch
<1>7. ASSUME NEW w \in Workers, Crash(w) \/ Shutdown(w) \/ Restart(w)
      PROVE  lockKey'[j] = Done
    BY <1>7 DEF Crash, Shutdown, Restart, On
<1>8. ASSUME UNCHANGED vars
      PROVE  lockKey'[j] = Done
    BY <1>8 DEF vars
<1>. QED
    BY <1>1, <1>2, <1>3, <1>4, <1>5, <1>6, <1>7, <1>8 DEF Next

\* Nothing but the end of its hour removes 'done' from the lock key: not the
\* release or extension of a stale lock, not an acquire, not a shutdown.
THEOREM DoneStays == Spec => DoneIsFinal
<1>1. TypeOK /\ [Next]_vars
        => [\A j \in Jobs : lockKey[j] = Done => lockKey'[j] = Done \/ DoneExpires(j)]_vars
    BY DoneStep
<1>. QED
    BY <1>1, TypeCorrect, PTL DEF Spec, DoneIsFinal

-----------------------------------------------------------------------------
(* 'done' means answered.                                                  *)

\* The strengthening: an attempt awaiting the confirmation of a stored
\* response, or about to mark the job, has published the verdict.
AboutToMark == {"confirm", "mark"}
MarkInv ==
    /\ TypeOK
    /\ \A a \in Attempt : pc[a] \in AboutToMark => Answered(JobOf(a))
    /\ DoneIsAnswered

\* Responses are only ever appended: what has been said stays said.
LEMMA PublishKeeps ==
    ASSUME TypeOK, NEW a \in Attempt, NEW status \in Status,
           Publish(a, status), NEW j \in Jobs
    PROVE  /\ \A s \in Status : Said(j, s) => Said(j, s)'
           /\ j = JobOf(a) => Said(j, status)'
<1>. DEFINE r == [by |-> a, status |-> status]
<1>1. responses[j] \in Seq(Response) /\ responses[JobOf(a)] \in Seq(Response)
    BY AttemptType DEF TypeOK
<1>2. r \in Response /\ r.status = status
    BY DEF Response
<1>3. CASE j = JobOf(a)
    <2>1. responses'[j] = Append(responses[j], r)
        BY <1>3 DEF Publish, TypeOK
    <2>2. /\ Len(responses'[j]) = Len(responses[j]) + 1
          /\ responses'[j][Len(responses[j]) + 1] = r
          /\ \A i \in 1..Len(responses[j]) : responses'[j][i] = responses[j][i]
          /\ DOMAIN responses[j] = 1..Len(responses[j])
          /\ DOMAIN responses'[j] = 1..Len(responses[j]) + 1
          /\ Len(responses[j]) \in Nat
        BY <1>1, <1>2, <2>1
    <2>3. Said(j, status)'
        BY <1>2, <2>2 DEF Said
    <2>4. ASSUME NEW s \in Status, Said(j, s)
          PROVE  Said(j, s)'
        <3>1. PICK i \in DOMAIN responses[j] : responses[j][i].status = s
            BY <2>4 DEF Said
        <3>2. i \in DOMAIN responses'[j] /\ responses'[j][i].status = s
            BY <2>2, <3>1
        <3>. QED
            BY <3>2 DEF Said
    <2>. QED
        BY <2>3, <2>4
<1>4. CASE j # JobOf(a)
    BY <1>4 DEF Publish, Said, TypeOK
<1>. QED
    BY <1>3, <1>4

\* No step takes a response back.
LEMMA ResponsesGrow ==
    ASSUME TypeOK, [Next]_vars, NEW j \in Jobs, NEW s \in Status
    PROVE  Said(j, s) => Said(j, s)'
<1>1. CASE UNCHANGED responses
    BY <1>1 DEF Said
<1>2. CASE \E a \in Attempt, status \in Status : Publish(a, status)
    BY <1>2, PublishKeeps
<1>3. UNCHANGED responses \/ \E a \in Attempt, status \in Status : Publish(a, status)
    <2>1. ASSUME NEW a \in Attempt, Handle(a)
          PROVE  UNCHANGED responses \/ \E status \in Status : Publish(a, status)
        <3>1. CASE Refuse(a) \/ Answer(a) \/ Excuse(a)
            BY <3>1 DEF Refuse, Answer, Excuse, Confirmed, Unsent, Status
        <3>2. CASE \/ CheckDone(a) \/ Acquire(a) \/ Recheck(a) \/ Work(a)
                   \/ Confirm(a) \/ Unwind(a) \/ MarkDone(a) \/ Release(a)
                   \/ Upload(a) \/ WriteResult(a) \/ AckMsg(a) \/ NakMsg(a)
            BY <3>2 DEF CheckDone, Acquire, Recheck, Work, Confirm, Unwind,
                        MarkDone, Release, Upload, WriteResult, AckMsg, NakMsg,
                        outputVars
        <3>. QED
            BY <2>1, <3>1, <3>2 DEF Handle
    <2>2. ASSUME NEW a \in Attempt, PublishInProgress(a)
          PROVE  UNCHANGED responses \/ \E status \in Status : Publish(a, status)
        BY <2>2 DEF PublishInProgress, Confirmed, Unsent, Status
    <2>3. ASSUME NEW i \in Jobs, \/ AckWaitElapses(i) \/ HeartbeatLost(i)
                                 \/ LockExpires(i) \/ LockLapses(i) \/ DoneExpires(i)
                                 \/ \E w \in Workers : Fetch(w, i)
          PROVE  UNCHANGED responses
        BY <2>3 DEF AckWaitElapses, HeartbeatLost, LockExpires, LockLapses,
                    DoneExpires, Fetch, outputVars
    <2>4. ASSUME NEW w \in Workers, Crash(w) \/ Shutdown(w) \/ Restart(w)
          PROVE  UNCHANGED responses
        BY <2>4 DEF Crash, Shutdown, Restart, Stop, outputVars
    <2>. QED
        BY <2>1, <2>2, <2>3, <2>4 DEF Next, vars
<1>. QED
    BY <1>1, <1>2, <1>3

\* The kind of a request never changes.
LEMMA RequestConstant == [Next]_vars => request' = request
BY DEF Next, vars, Handle, Refuse, CheckDone, Acquire, Recheck, Work, Answer,
       Confirm, Excuse, Unwind, MarkDone, Release, Upload, WriteResult, AckMsg,
       NakMsg, PublishInProgress, AckWaitElapses, HeartbeatLost, LockExpires,
       LockLapses, DoneExpires, Fetch, Crash, Shutdown, Restart, Stop

LEMMA AnsweredStays ==
    ASSUME TypeOK, [Next]_vars, NEW j \in Jobs, Answered(j)
    PROVE  Answered(j)'
<1>1. Verdicts(j) \subseteq Status /\ Verdicts(j)' = Verdicts(j)
    BY RequestConstant DEF Verdicts, Status
<1>2. PICK s \in Verdicts(j) : Said(j, s)
    BY DEF Answered
<1>3. Said(j, s)'
    BY <1>1, <1>2, ResponsesGrow
<1>. QED
    BY <1>1, <1>2, <1>3 DEF Answered

\* An attempt gets there only by publishing the verdict.
LEMMA MarkersAnswered ==
    ASSUME TypeOK, [Next]_vars, NEW a \in Attempt, pc'[a] \in AboutToMark
    PROVE  pc[a] \in AboutToMark \/ Answered(JobOf(a))'
<1>. USE DEF AboutToMark, Goto
<1>. SUFFICES ASSUME pc[a] \notin AboutToMark
              PROVE  Answered(JobOf(a))'
    OBVIOUS
<1>0. pc \in [Attempt -> PC]
    BY DEF TypeOK
<1>1. ASSUME NEW b \in Attempt, Handle(b)
      PROVE  a = b /\ Answer(a) /\ Goto(a, "answer", "confirm")
    <2>1. CASE Answer(b)
        BY <1>0, <2>1 DEF Answer
    <2>2. CASE Refuse(b) \/ CheckDone(b) \/ Acquire(b) \/ Recheck(b) \/ Work(b)
        BY <1>0, <2>2 DEF Refuse, CheckDone, Acquire, Recheck, Work
    <2>3. CASE Confirm(b) \/ Excuse(b) \/ Unwind(b) \/ MarkDone(b) \/ Release(b)
        BY <1>0, <2>3 DEF Confirm, Excuse, Unwind, MarkDone, Release
    <2>4. CASE Upload(b) \/ WriteResult(b) \/ AckMsg(b) \/ NakMsg(b)
        BY <1>0, <2>4 DEF Upload, WriteResult, AckMsg, NakMsg
    <2>. QED
        BY <1>1, <2>1, <2>2, <2>3, <2>4 DEF Handle
<1>2. ASSUME Answer(a), Goto(a, "answer", "confirm")
      PROVE  Answered(JobOf(a))'
    <2>1. /\ Verdicts(JobOf(a)) \subseteq Status
          /\ Verdicts(JobOf(a))' = Verdicts(JobOf(a))
        BY <1>2 DEF Answer, Verdicts, Status
    <2>2. request[JobOf(a)] \in RequestKind
        BY AttemptType DEF TypeOK
    <2>3. PICK status \in Verdicts(JobOf(a)) : Publish(a, status)
        BY <1>0, <1>2, <2>2 DEF Answer, Confirmed, Verdicts, Parses, RequestKind
    <2>4. Said(JobOf(a), status)'
        BY <2>1, <2>3, PublishKeeps, AttemptType
    <2>. QED
        BY <2>1, <2>4 DEF Answered
<1>3. ASSUME NEW b \in Attempt, PublishInProgress(b)
      PROVE  FALSE
    BY <1>3 DEF PublishInProgress
<1>4. ASSUME NEW i \in Jobs, \/ AckWaitElapses(i) \/ HeartbeatLost(i)
                             \/ LockExpires(i) \/ LockLapses(i) \/ DoneExpires(i)
      PROVE  FALSE
    BY <1>4 DEF AckWaitElapses, HeartbeatLost, LockExpires, LockLapses, DoneExpires
<1>5. ASSUME NEW i \in Jobs, NEW w \in Workers, Fetch(w, i)
      PROVE  FALSE
    BY <1>0, <1>5 DEF Fetch
<1>6. ASSUME NEW w \in Workers, Crash(w) \/ Shutdown(w) \/ Restart(w)
      PROVE  FALSE
    BY <1>6 DEF Crash, Shutdown, Restart, Stop
<1>7. ASSUME UNCHANGED vars
      PROVE  FALSE
    BY <1>7 DEF vars
<1>. QED
    BY <1>1, <1>2, <1>3, <1>4, <1>5, <1>6, <1>7 DEF Next

\* The key becomes 'done' only by the hand of an attempt about to mark it.
LEMMA DoneByMark ==
    ASSUME TypeOK, [Next]_vars, NEW j \in Jobs, lockKey'[j] = Done
    PROVE  \/ lockKey[j] = Done
           \/ \E a \in Attempt : JobOf(a) = j /\ pc[a] \in AboutToMark
<1>. USE NoneAssumption DEF AboutToMark, Goto
<1>. SUFFICES ASSUME lockKey[j] # Done
              PROVE  \E a \in Attempt : JobOf(a) = j /\ pc[a] \in AboutToMark
    OBVIOUS
<1>0. lockKey \in [Jobs -> Attempt \cup {None, Done}]
    BY DEF TypeOK
<1>1. ASSUME NEW a \in Attempt, Handle(a)
      PROVE  JobOf(a) = j /\ pc[a] \in AboutToMark
    <2>1. CASE MarkDone(a)
        BY <1>0, <2>1 DEF MarkDone
    <2>2. CASE Acquire(a)
        BY <1>0, <2>2 DEF Acquire
    <2>3. CASE Unwind(a) \/ Release(a)
        BY <1>0, <2>3 DEF Unwind, Release, Unlock
    <2>4. CASE \/ Refuse(a) \/ CheckDone(a) \/ Recheck(a) \/ Work(a) \/ Answer(a)
               \/ Confirm(a) \/ Excuse(a) \/ Upload(a) \/ WriteResult(a)
               \/ AckMsg(a) \/ NakMsg(a)
        BY <2>4 DEF Refuse, CheckDone, Recheck, Work, Answer, Confirm, Excuse,
                    Upload, WriteResult, AckMsg, NakMsg
    <2>. QED
        BY <1>1, <2>1, <2>2, <2>3, <2>4 DEF Handle
<1>2. ASSUME NEW a \in Attempt, PublishInProgress(a)
      PROVE  FALSE
    BY <1>2 DEF PublishInProgress
<1>3. ASSUME NEW i \in Jobs, \/ AckWaitElapses(i) \/ HeartbeatLost(i)
                             \/ \E w \in Workers : Fetch(w, i)
      PROVE  FALSE
    BY <1>3 DEF AckWaitElapses, HeartbeatLost, Fetch
<1>4. ASSUME NEW i \in Jobs, LockExpires(i) \/ LockLapses(i) \/ DoneExpires(i)
      PROVE  FALSE
    BY <1>0, <1>4 DEF LockExpires, LockLapses, DoneExpires
<1>5. ASSUME NEW w \in Workers, Crash(w) \/ Shutdown(w) \/ Restart(w)
      PROVE  FALSE
    BY <1>0, <1>5 DEF Crash, Shutdown, Restart
<1>6. ASSUME UNCHANGED vars
      PROVE  FALSE
    BY <1>6 DEF vars
<1>. QED
    BY <1>1, <1>2, <1>3, <1>4, <1>5, <1>6 DEF Next

LEMMA MarkInvStep == MarkInv /\ [Next]_vars => MarkInv'
<1>. SUFFICES ASSUME MarkInv, [Next]_vars
              PROVE  MarkInv'
    OBVIOUS
<1>1. TypeOK'
    BY NextType DEF MarkInv
<1>2. ASSUME NEW a \in Attempt, pc'[a] \in AboutToMark
      PROVE  Answered(JobOf(a))'
    BY <1>2, MarkersAnswered, AnsweredStays, AttemptType DEF MarkInv
<1>3. ASSUME NEW j \in Jobs, lockKey'[j] = Done
      PROVE  Answered(j)'
    BY <1>3, DoneByMark, AnsweredStays DEF MarkInv, DoneIsAnswered
<1>. QED
    BY <1>1, <1>2, <1>3 DEF MarkInv, DoneIsAnswered

\* The idempotency mark never hides an unanswered job: whatever crashes,
\* lapses, lost publishes, Redis errors and redeliveries happen, and however
\* many replicas work on the job, 'done' is set only after its verdict.
THEOREM DoneAnswered == Spec => []DoneIsAnswered
<1>1. Init => MarkInv
    <2>1. Init => DoneIsAnswered
        BY NoneAssumption DEF Init, DoneIsAnswered
    <2>2. Init => \A a \in Attempt : pc[a] \in AboutToMark => Answered(JobOf(a))
        BY DEF Init, AboutToMark
    <2>. QED
        BY <2>1, <2>2, InitType DEF MarkInv
<1>2. MarkInv => DoneIsAnswered
    BY DEF MarkInv
<1>. QED
    BY <1>1, <1>2, MarkInvStep, PTL DEF Spec

-----------------------------------------------------------------------------
(* The lock excludes, as long as it does not lapse under its holder.       *)

\* The strengthening: the key of a job holds the token of the handler inside
\* its lock, or the 'done' that handler has just written over it.
Holds(a) ==
    \/ lockKey[JobOf(a)] = a
    \/ pc[a] = "release" /\ lockKey[JobOf(a)] = Done
Exclusive == \A a, b \in Attempt :
    JobOf(a) = JobOf(b) /\ InLock(a) /\ InLock(b) => a = b
LockInv ==
    /\ TypeOK
    /\ \A a \in Attempt : InLock(a) => Holds(a)
    /\ Exclusive

\* What is left once a lock has lapsed under its holder: nothing.
UnlessLapsed == LockInv \/ "lapse" \in met

\* Steps of one handler b that leave the key alone: b may not enter the lock,
\* and from "release" it must leave it.
LEMMA KeepsLock ==
    ASSUME LockInv, NEW b \in Attempt, TypeOK', lockKey' = lockKey,
           \A a \in Attempt : a # b => pc'[a] = pc[a],
           InLock(b)' => InLock(b) /\ pc[b] # "release"
    PROVE  LockInv'
<1>1. ASSUME NEW a \in Attempt, InLock(a)'
      PROVE  InLock(a) /\ Holds(a)'
    <2>1. InLock(a)
        BY <1>1 DEF InLock
    <2>2. Holds(a)
        BY <2>1 DEF LockInv
    <2>. QED
        BY <1>1, <2>1, <2>2 DEF Holds
<1>2. Exclusive'
    <2>1. \A a, c \in Attempt : JobOf(a) = JobOf(c) /\ InLock(a)' /\ InLock(c)' => a = c
        BY <1>1 DEF LockInv, Exclusive
    <2>. QED
        BY <2>1 DEF Exclusive, InLock
<1>. QED
    BY <1>1, <1>2 DEF LockInv

\* Steps that rewrite the key of job j: nobody stays in the lock of j but a
\* handler that then holds it.
LEMMA MovesLock ==
    ASSUME LockInv, NEW j \in Jobs, NEW b \in Attempt, TypeOK',
           \A i \in Jobs : i # j => lockKey'[i] = lockKey[i],
           \A a \in Attempt : JobOf(a) # j => pc'[a] = pc[a],
           \A a \in Attempt : JobOf(a) = j /\ InLock(a)' => a = b /\ Holds(b)'
    PROVE  LockInv'
<1>1. ASSUME NEW a \in Attempt, JobOf(a) # j
      PROVE  /\ InLock(a)' = InLock(a)
             /\ Holds(a)' = Holds(a)
    BY <1>1, AttemptType DEF InLock, Holds
<1>2. \A a \in Attempt : InLock(a)' => Holds(a)'
    BY <1>1 DEF LockInv
<1>3. \A a, c \in Attempt : JobOf(a) = JobOf(c) /\ InLock(a)' /\ InLock(c)' => a = c
    BY <1>1 DEF LockInv, Exclusive
<1>4. Exclusive'
    BY <1>3 DEF Exclusive, InLock
<1>. QED
    BY <1>2, <1>4 DEF LockInv

\* Nobody is in the lock of a job whose key is free, or is another's.
LEMMA OnlyHolder ==
    ASSUME LockInv, NEW a \in Attempt, InLock(a), lockKey[JobOf(a)] # Done
    PROVE  lockKey[JobOf(a)] = a
BY DEF LockInv, Holds

LEMMA LockHandlerStep ==
    ASSUME LockInv, TypeOK', NEW b \in Attempt, Handle(b)
    PROVE  LockInv'
<1>. DEFINE j == JobOf(b)
<1>. USE NoneAssumption, AttemptType DEF Goto
<1>0. TypeOK /\ j \in Jobs /\ None # Done /\ Done \notin Attempt /\ None \notin Attempt
    BY DEF LockInv
<1>1. CASE \/ Refuse(b) \/ CheckDone(b) \/ Recheck(b) \/ Work(b) \/ Answer(b)
           \/ Confirm(b) \/ Excuse(b) \/ Upload(b) \/ WriteResult(b)
           \/ AckMsg(b) \/ NakMsg(b)
    <2>1. lockKey' = lockKey
        BY <1>1 DEF Refuse, CheckDone, Recheck, Work, Answer, Confirm, Excuse,
                    Upload, WriteResult, AckMsg, NakMsg
    <2>2. \A a \in Attempt : a # b => pc'[a] = pc[a]
        BY <1>0, <1>1 DEF TypeOK, Refuse, CheckDone, Recheck, Work, Answer,
            Confirm, Excuse, Upload, WriteResult, AckMsg, NakMsg
    <2>3. InLock(b)' => InLock(b) /\ pc[b] # "release"
        <3>0. CASE Refuse(b)
            <4>1. pc'[b] \in {"ack", "nak", "check"}
                BY <1>0, <3>0 DEF TypeOK, Refuse
            <4>. QED
                BY <4>1 DEF InLock, Guarded
        <3>1. CASE CheckDone(b) \/ Upload(b) \/ WriteResult(b) \/ AckMsg(b) \/ NakMsg(b)
            BY <1>0, <3>1 DEF TypeOK, InLock, Guarded, CheckDone,
                Upload, WriteResult, AckMsg, NakMsg
        <3>2. CASE Recheck(b) \/ Work(b) \/ Answer(b) \/ Confirm(b) \/ Excuse(b)
            BY <1>0, <3>2 DEF TypeOK, InLock, Guarded, Recheck, Work, Answer,
                Confirm, Excuse
        <3>. QED
            BY <1>1, <3>0, <3>1, <3>2
    <2>. QED
        BY <2>1, <2>2, <2>3, KeepsLock
<1>2. CASE Acquire(b)
    <2>1. CASE lockKey[j] # None
        <3>1. lockKey' = lockKey /\ pc' = [pc EXCEPT ![b] = "ack"]
            BY <1>0, <1>2, <2>1 DEF Acquire, TypeOK
        <3>. QED
            BY <1>0, <3>1, KeepsLock DEF TypeOK, InLock, Guarded
    <2>2. CASE lockKey[j] = None
        <3>1. \A a \in Attempt : JobOf(a) = j => ~InLock(a)
            BY <1>0, <2>2, OnlyHolder
        <3>2. /\ \A i \in Jobs : i # j => lockKey'[i] = lockKey[i]
              /\ \A a \in Attempt : a # b => pc'[a] = pc[a]
              /\ \/ pc'[b] = "ack"
                 \/ pc'[b] = "recheck" /\ lockKey'[j] = b
            BY <1>0, <1>2, <2>2 DEF Acquire, TypeOK
        <3>3. \A a \in Attempt : JobOf(a) = j /\ InLock(a)' => a = b /\ Holds(b)'
            BY <3>1, <3>2 DEF InLock, Guarded, Holds
        <3>. QED
            BY <1>0, <3>2, <3>3, MovesLock
    <2>. QED
        BY <2>1, <2>2
<1>3. CASE Unwind(b) \/ MarkDone(b) \/ Release(b)
    <2>1. InLock(b)
        BY <1>3 DEF Unwind, MarkDone, Release, InLock, Guarded
    <2>2. \A a \in Attempt : JobOf(a) = j /\ InLock(a) => a = b
        BY <2>1 DEF LockInv, Exclusive
    <2>3. Holds(b) /\ pc[b] \in {"unwind", "mark", "release"}
        BY <1>3, <2>1 DEF LockInv, Unwind, MarkDone, Release
    <2>4. /\ \A i \in Jobs : i # j => lockKey'[i] = lockKey[i]
          /\ \A a \in Attempt : a # b => pc'[a] = pc[a]
        BY <1>0, <1>3 DEF Unwind, MarkDone, Release, Unlock, TypeOK
    <2>5. InLock(b)' => Holds(b)'
        BY <1>0, <1>3, <2>3 DEF Unwind, MarkDone, Release, TypeOK, InLock, Guarded, Holds
    <2>6. \A a \in Attempt : JobOf(a) = j /\ InLock(a)' => a = b /\ Holds(b)'
        BY <2>2, <2>4, <2>5 DEF InLock
    <2>. QED
        BY <1>0, <2>4, <2>6, MovesLock
<1>. QED
    BY <1>1, <1>2, <1>3 DEF Handle

LEMMA LockStep ==
    ASSUME LockInv, [Next]_vars
    PROVE  UnlessLapsed'
<1>. SUFFICES LockInv' \/ "lapse" \in met'
    BY DEF UnlessLapsed
<1>. USE NoneAssumption, AttemptType
<1>0. TypeOK /\ TypeOK' /\ None # Done /\ Done \notin Attempt /\ None \notin Attempt
    BY NextType DEF LockInv
<1>1. ASSUME NEW b \in Attempt, Handle(b)
      PROVE  LockInv'
    BY <1>0, <1>1, LockHandlerStep
<1>2. ASSUME UNCHANGED <<lockKey, pc>>
      PROVE  LockInv'
    BY <1>0, <1>2 DEF LockInv, Exclusive, InLock, Holds
<1>3. ASSUME NEW b \in Attempt, PublishInProgress(b)
      PROVE  LockInv'
    BY <1>2, <1>3 DEF PublishInProgress
<1>4. ASSUME NEW j \in Jobs, AckWaitElapses(j) \/ HeartbeatLost(j)
      PROVE  LockInv'
    BY <1>2, <1>4 DEF AckWaitElapses, HeartbeatLost
<1>5. ASSUME NEW j \in Jobs, LockExpires(j)
      PROVE  LockInv'
    <2>1. /\ pc' = pc /\ lockKey[j] \in Attempt /\ ~InLock(lockKey[j])
          /\ \A i \in Jobs : i # j => lockKey'[i] = lockKey[i]
        BY <1>0, <1>5 DEF LockExpires, TypeOK
    <2>2. \A a \in Attempt : JobOf(a) = j => ~InLock(a)
        BY <1>0, <2>1, OnlyHolder
    <2>3. lockKey[j] \in Attempt
        BY <2>1
    <2>4. \A a \in Attempt : ~(JobOf(a) = j /\ InLock(a)')
        BY <2>1, <2>2 DEF InLock
    <2>. QED
        BY <1>0, <2>1, <2>3, <2>4, MovesLock
<1>6. ASSUME NEW j \in Jobs, LockLapses(j)
      PROVE  "lapse" \in met'
    BY <1>6 DEF LockLapses, Fault
<1>7. ASSUME NEW j \in Jobs, DoneExpires(j)
      PROVE  LockInv'
    <2>1. /\ pc' = pc /\ lockKey[j] = Done
          /\ \A a \in Attempt : JobOf(a) = j => pc[a] # "release"
          /\ \A i \in Jobs : i # j => lockKey'[i] = lockKey[i]
        BY <1>0, <1>7 DEF DoneExpires, TypeOK, Attempts
    <2>2. \A a \in Attempt : JobOf(a) = j => ~InLock(a)
        BY <1>0, <2>1 DEF LockInv, Holds
    <2>3. \A a \in Attempt : ~(JobOf(a) = j /\ InLock(a)')
        BY <2>1, <2>2 DEF InLock
    <2>4. CASE Attempt = {}
        BY <1>0, <2>4 DEF LockInv, Exclusive
    <2>5. CASE Attempt # {}
        <3>1. PICK b \in Attempt : TRUE
            BY <2>5
        <3>. QED
            BY <1>0, <2>1, <2>3, <3>1, MovesLock
    <2>. QED
        BY <2>4, <2>5
<1>8. ASSUME NEW j \in Jobs, NEW w \in Workers, Fetch(w, j)
      PROVE  LockInv'
    <2>1. <<j, delivered[j] + 1>> \in Attempt
        BY <1>0, <1>8, BoundAssumption DEF Fetch, TypeOK, Attempt
    <2>2. PICK b \in Attempt :
              /\ lockKey' = lockKey
              /\ \A a \in Attempt : a # b => pc'[a] = pc[a]
              /\ pc'[b] \in {"refuse", "check"}
        BY <1>0, <1>8, <2>1 DEF Fetch, TypeOK
    <2>3. ~InLock(b)'
        BY <2>2 DEF InLock, Guarded
    <2>. QED
        BY <1>0, <2>2, <2>3, KeepsLock
<1>9. ASSUME NEW w \in Workers, Crash(w) \/ Shutdown(w)
      PROVE  LockInv'
    <2>1. \A a \in Attempt : InLock(a)' => InLock(a) /\ pc'[a] = pc[a] /\ a \notin On(w)
        BY <1>9 DEF Crash, Shutdown, Stop, InLock, Guarded
    <2>2. \A a \in Attempt : InLock(a)' => lockKey'[JobOf(a)] = lockKey[JobOf(a)]
        <3>1. CASE Crash(w)
            BY <3>1 DEF Crash
        <3>2. CASE Shutdown(w)
            <4>. SUFFICES ASSUME NEW a \in Attempt, InLock(a)'
                          PROVE  lockKey'[JobOf(a)] = lockKey[JobOf(a)]
                OBVIOUS
            <4>1. Holds(a)
                BY <2>1 DEF LockInv
            <4>2. lockKey[JobOf(a)] \notin On(w)
                BY <1>0, <2>1, <4>1 DEF Holds, On
            <4>. QED
                BY <3>2, <4>2 DEF Shutdown
        <3>. QED
            BY <1>9, <3>1, <3>2
    <2>3. \A a \in Attempt : InLock(a)' => Holds(a)'
        BY <2>1, <2>2 DEF LockInv, Holds
    <2>4. Exclusive'
        BY <2>1 DEF LockInv, Exclusive
    <2>. QED
        BY <1>0, <2>3, <2>4 DEF LockInv
<1>10. ASSUME NEW w \in Workers, Restart(w)
      PROVE  LockInv'
    BY <1>2, <1>10 DEF Restart
<1>11. UNCHANGED vars => LockInv'
    BY <1>2 DEF vars
<1>. QED
    BY <1>1, <1>3, <1>4, <1>5, <1>6, <1>7, <1>8, <1>9, <1>10, <1>11 DEF Next

\* A fault met stays met.
LEMMA MetGrows ==
    ASSUME [Next]_vars
    PROVE  met \subseteq met'
<1>. USE DEF Fault, NoFault, faultVars
<1>1. ASSUME NEW a \in Attempt, Handle(a)
      PROVE  met \subseteq met'
    <2>1. CASE Refuse(a) \/ CheckDone(a) \/ Acquire(a) \/ Recheck(a) \/ Work(a)
        BY <2>1 DEF Refuse, CheckDone, Acquire, Recheck, Work, Confirmed, Unsent
    <2>2. CASE Answer(a) \/ Confirm(a) \/ Excuse(a) \/ Unwind(a) \/ MarkDone(a)
        BY <2>2 DEF Answer, Confirm, Excuse, Unwind, MarkDone, Confirmed, Unsent, Unlock
    <2>3. CASE Release(a) \/ Upload(a) \/ WriteResult(a) \/ AckMsg(a) \/ NakMsg(a)
        BY <2>3 DEF Release, Upload, WriteResult, AckMsg, NakMsg, Unlock
    <2>. QED
        BY <1>1, <2>1, <2>2, <2>3 DEF Handle
<1>2. ASSUME NEW a \in Attempt, PublishInProgress(a)
      PROVE  met \subseteq met'
    BY <1>2 DEF PublishInProgress, Confirmed, Unsent
<1>3. ASSUME NEW j \in Jobs, \/ AckWaitElapses(j) \/ HeartbeatLost(j)
                             \/ LockExpires(j) \/ LockLapses(j) \/ DoneExpires(j)
                             \/ \E w \in Workers : Fetch(w, j)
      PROVE  met \subseteq met'
    BY <1>3 DEF AckWaitElapses, HeartbeatLost, LockExpires, LockLapses, DoneExpires, Fetch
<1>4. ASSUME NEW w \in Workers, Crash(w) \/ Shutdown(w) \/ Restart(w)
      PROVE  met \subseteq met'
    BY <1>4 DEF Crash, Shutdown, Restart
<1>5. CASE UNCHANGED vars
    BY <1>5 DEF vars
<1>. QED
    BY <1>1, <1>2, <1>3, <1>4, <1>5 DEF Next

\* Redelivered messages, stale holders' releases, Redis errors, crashes and
\* cancellations never put two handlers of one job inside the lock; only a
\* lock that expires under a handler that goes on working can.
THEOREM LockExcludes == Spec => []OneHolder
<1>1. Init => UnlessLapsed
    BY InitType DEF Init, UnlessLapsed, LockInv, Exclusive, InLock, Guarded
<1>2. UnlessLapsed /\ [Next]_vars => UnlessLapsed'
    BY LockStep, MetGrows DEF UnlessLapsed
<1>3. UnlessLapsed => OneHolder
    BY DEF UnlessLapsed, LockInv, Exclusive, OneHolder, Attempts
<1>. QED
    BY <1>1, <1>2, <1>3, PTL DEF Spec

-----------------------------------------------------------------------------
(* 'in_progress' comes first.                                              *)

\* The task _publish_ack does not exist before the second look under the
\* lock, and has finished when the response of a request that parses is sent.
Early == {"idle", "refuse", "check", "acquire", "recheck"}
TaskOK(a) ==
    /\ a[2] > delivered[JobOf(a)] => pc[a] = "idle"
    /\ pc[a] \in Early => ackTask[a] = "none"
    /\ pc[a] = "answer" /\ Parses(JobOf(a)) => ackTask[a] = "finished"
TaskInv == TypeOK /\ \A a \in Attempt : TaskOK(a)

LEMMA AttemptNumber ==
    ASSUME NEW a \in Attempt
    PROVE  a[2] \in 1..MaxFaults + 1
BY DEF Attempt

\* Steps that leave an attempt's place, or end it, and do not restart its task.
LEMMA TaskKept ==
    ASSUME TypeOK, [Next]_vars, NEW a \in Attempt, TaskOK(a),
           delivered'[JobOf(a)] \geq delivered[JobOf(a)] /\ delivered'[JobOf(a)] \in Int,
           \/ pc'[a] = pc[a]
           \/ pc[a] # "idle" /\ pc'[a] \notin Early \cup {"answer"},
           \/ ackTask'[a] = ackTask[a]
           \/ ackTask[a] = "created" /\ ackTask'[a] = "finished"
    PROVE  TaskOK(a)'
<1>1. a[2] \in Int /\ delivered[JobOf(a)] \in Int
    BY AttemptType, AttemptNumber, BoundAssumption DEF TypeOK
<1>2. request' = request
    BY RequestConstant
<1>. QED
    BY <1>1, <1>2 DEF TaskOK, Parses

LEMMA TaskStep ==
    ASSUME TaskInv, [Next]_vars, NEW a \in Attempt
    PROVE  TaskOK(a)' /\ (ackTask[a] = "finished" => ackTask'[a] = "finished")
<1>. USE DEF Early
<1>0. /\ TypeOK /\ TaskOK(a) /\ request' = request /\ JobOf(a) \in Jobs
      /\ delivered[JobOf(a)] \in Int /\ delivered[JobOf(a)] \geq delivered[JobOf(a)]
      /\ a[2] \in Int
    <2>1. TypeOK /\ TaskOK(a) /\ request' = request /\ JobOf(a) \in Jobs
        BY RequestConstant, AttemptType DEF TaskInv
    <2>2. delivered[JobOf(a)] \in Int /\ a[2] \in Int
        BY <2>1, AttemptNumber, BoundAssumption DEF TypeOK
    <2>. QED
        BY <2>1, <2>2
<1>1. ASSUME NEW b \in Attempt, Handle(b), a # b
      PROVE  TaskOK(a)' /\ ackTask'[a] = ackTask[a]
    <2>1. pc'[a] = pc[a] /\ ackTask'[a] = ackTask[a] /\ delivered' = delivered
        <3>. USE <1>0, <1>1 DEF TypeOK, Goto, queueVars, taskVars
        <3>1. CASE Refuse(b) \/ CheckDone(b) \/ Acquire(b) \/ Recheck(b) \/ Work(b)
            BY <3>1 DEF Refuse, CheckDone, Acquire, Recheck, Work
        <3>2. CASE Answer(b) \/ Confirm(b) \/ Excuse(b) \/ Unwind(b) \/ MarkDone(b)
            BY <3>2 DEF Answer, Confirm, Excuse, Unwind, MarkDone
        <3>3. CASE Release(b) \/ Upload(b) \/ WriteResult(b) \/ AckMsg(b) \/ NakMsg(b)
            BY <3>3 DEF Release, Upload, WriteResult, AckMsg, NakMsg
        <3>. QED
            BY <1>1, <3>1, <3>2, <3>3 DEF Handle
    <2>. QED
        BY <1>0, <2>1, TaskKept
<1>2. ASSUME Handle(a)
      PROVE  TaskOK(a)' /\ (ackTask[a] = "finished" => ackTask'[a] = "finished")
    <2>. USE <1>0 DEF TypeOK, Goto, queueVars, taskVars
    <2>1. CASE Refuse(a) \/ CheckDone(a) \/ Acquire(a)
        <3>1. /\ pc[a] \in Early /\ ackTask' = ackTask /\ delivered' = delivered
              /\ pc[a] # "idle" /\ pc'[a] # "answer"
            BY <2>1 DEF Refuse, CheckDone, Acquire
        <3>. QED
            BY <3>1 DEF TaskOK
    <2>2. CASE Recheck(a)
        <3>1. ackTask[a] = "none" /\ pc[a] = "recheck" /\ delivered' = delivered
            BY <2>2 DEF Recheck, TaskOK
        <3>2. a[2] \leq delivered[JobOf(a)]
            BY <3>1 DEF TaskOK
        <3>3. \/ pc'[a] \in {"ack", "work"}
              \/ pc'[a] = "answer" /\ ~Parses(JobOf(a))
            BY <2>2 DEF Recheck
        <3>4. ~Parses(JobOf(a)) => ~Parses(JobOf(a))'
            BY DEF Parses
        <3>. QED
            BY <3>1, <3>2, <3>3, <3>4 DEF TaskOK
    <2>3. CASE Work(a)
        BY <2>3 DEF Work, TaskOK
    <2>4. CASE Answer(a) \/ Confirm(a) \/ Excuse(a) \/ Unwind(a) \/ MarkDone(a)
        <3>1. /\ ackTask' = ackTask /\ delivered' = delivered
              /\ pc[a] # "idle" /\ pc'[a] \notin Early \cup {"answer"}
            BY <2>4 DEF Answer, Confirm, Excuse, Unwind, MarkDone
        <3>. QED
            BY <3>1, TaskKept
    <2>5. CASE Release(a) \/ Upload(a) \/ WriteResult(a) \/ AckMsg(a) \/ NakMsg(a)
        <3>1. /\ ackTask' = ackTask /\ delivered' = delivered
              /\ pc[a] # "idle" /\ pc'[a] \notin Early \cup {"answer"}
            BY <2>5 DEF Release, Upload, WriteResult, AckMsg, NakMsg
        <3>. QED
            BY <3>1, TaskKept
    <2>. QED
        BY <1>2, <2>1, <2>2, <2>3, <2>4, <2>5 DEF Handle
<1>3. ASSUME NEW b \in Attempt, PublishInProgress(b)
      PROVE  TaskOK(a)' /\ (ackTask[a] = "finished" => ackTask'[a] = "finished")
    <2>1. pc' = pc /\ delivered' = delivered
        BY <1>3 DEF PublishInProgress, queueVars
    <2>2. ackTask'[a] = ackTask[a] \/ (ackTask[a] = "created" /\ ackTask'[a] = "finished")
        BY <1>0, <1>3 DEF PublishInProgress, TypeOK
    <2>. QED
        BY <1>0, <2>1, <2>2, TaskKept
<1>4. ASSUME UNCHANGED <<pc, ackTask, delivered>>
      PROVE  TaskOK(a)' /\ (ackTask[a] = "finished" => ackTask'[a] = "finished")
    BY <1>0, <1>4, TaskKept
<1>5. ASSUME NEW j \in Jobs, \/ AckWaitElapses(j) \/ HeartbeatLost(j)
                             \/ LockExpires(j) \/ LockLapses(j) \/ DoneExpires(j)
      PROVE  UNCHANGED <<pc, ackTask, delivered>>
    BY <1>5 DEF AckWaitElapses, HeartbeatLost, LockExpires, LockLapses, DoneExpires,
                queueVars, taskVars
<1>6. ASSUME NEW j \in Jobs, NEW w \in Workers, Fetch(w, j)
      PROVE  TaskOK(a)' /\ (ackTask[a] = "finished" => ackTask'[a] = "finished")
    <2>. DEFINE b == <<j, delivered[j] + 1>>
    <2>0. b \in Attempt /\ b[2] = delivered[j] + 1 /\ JobOf(b) = j
        BY <1>0, <1>6, BoundAssumption DEF Fetch, TypeOK, Attempt, JobOf
    <2>1. ackTask' = ackTask
        BY <1>6 DEF Fetch
    <2>2. delivered' = [delivered EXCEPT ![j] = delivered[j] + 1]
        BY <1>6 DEF Fetch
    <2>3. delivered'[JobOf(a)] \geq delivered[JobOf(a)] /\ delivered'[JobOf(a)] \in Int
        BY <1>0, <2>2 DEF TypeOK
    <2>4. CASE a # b
        <3>1. pc'[a] = pc[a]
            BY <1>0, <1>6, <2>0, <2>4 DEF Fetch, TypeOK
        <3>. QED
            BY <1>0, <2>1, <2>3, <3>1, TaskKept
    <2>5. CASE a = b
        <3>1. pc'[a] \in {"refuse", "check"} /\ delivered'[JobOf(a)] = a[2]
            BY <1>0, <1>6, <2>0, <2>2, <2>5 DEF Fetch, TypeOK
        <3>2. a[2] > delivered[JobOf(a)]
            BY <1>0, <2>0, <2>5
        <3>3. ackTask'[a] = "none"
            BY <1>0, <2>1, <3>2 DEF TaskOK
        <3>. QED
            BY <1>0, <3>1, <3>3, <2>1 DEF TaskOK
    <2>. QED
        BY <2>4, <2>5
<1>7. ASSUME NEW w \in Workers, Stop(w)
      PROVE  TaskOK(a)' /\ (ackTask[a] = "finished" => ackTask'[a] = "finished")
    <2>1. delivered' = delivered
        BY <1>7 DEF Stop, queueVars
    <2>2. pc'[a] = pc[a] \/ (pc[a] # "idle" /\ pc'[a] = "end")
        BY <1>7 DEF Stop, On, IsRunning, Running, Guarded
    <2>3. ackTask'[a] = ackTask[a] \/ (ackTask[a] = "created" /\ ackTask'[a] = "finished")
        BY <1>7 DEF Stop
    <2>. QED
        BY <1>0, <2>1, <2>2, <2>3, TaskKept
<1>8. ASSUME NEW w \in Workers, Restart(w)
      PROVE  UNCHANGED <<pc, ackTask, delivered>>
    BY <1>8 DEF Restart, queueVars
<1>9. UNCHANGED vars => UNCHANGED <<pc, ackTask, delivered>>
    BY DEF vars
<1>. QED
    BY <1>1, <1>2, <1>3, <1>4, <1>5, <1>6, <1>7, <1>8, <1>9 DEF Next, Crash, Shutdown

\* What a step may publish.
LEMMA StepPublishes ==
    ASSUME TypeOK, [Next]_vars
    PROVE  \/ responses' = responses
           \/ \E b \in Attempt :
                  \/ Publish(b, "failed") /\ IsRunning(b) /\ pc[b] \in {"refuse", "answer", "excuse"}
                  \/ Publish(b, "in_progress") /\ ackTask[b] = "created"
                  \/ Publish(b, "completed") /\ Answer(b) /\ pc[b] = "answer"
<1>1. ASSUME NEW b \in Attempt, Handle(b)
      PROVE  \/ responses' = responses
             \/ Publish(b, "failed") /\ IsRunning(b) /\ pc[b] \in {"refuse", "answer", "excuse"}
             \/ Publish(b, "completed") /\ Answer(b) /\ pc[b] = "answer"
    <2>1. CASE Refuse(b) \/ Excuse(b)
        BY <2>1 DEF Refuse, Excuse, Confirmed, Unsent, Goto, IsRunning, Running, Guarded
    <2>2. CASE Answer(b)
        BY <2>2 DEF Answer, Confirmed, Goto, IsRunning, Running, Guarded
    <2>3. CASE \/ CheckDone(b) \/ Acquire(b) \/ Recheck(b) \/ Work(b)
               \/ Confirm(b) \/ Unwind(b) \/ MarkDone(b) \/ Release(b)
               \/ Upload(b) \/ WriteResult(b) \/ AckMsg(b) \/ NakMsg(b)
        BY <2>3 DEF CheckDone, Acquire, Recheck, Work, Confirm, Unwind,
                    MarkDone, Release, Upload, WriteResult, AckMsg, NakMsg, outputVars
    <2>. QED
        BY <1>1, <2>1, <2>2, <2>3 DEF Handle
<1>2. ASSUME NEW b \in Attempt, PublishInProgress(b)
      PROVE  responses' = responses \/ (Publish(b, "in_progress") /\ ackTask[b] = "created")
    BY <1>2 DEF PublishInProgress, Confirmed, Unsent
<1>3. ASSUME NEW j \in Jobs, \/ AckWaitElapses(j) \/ HeartbeatLost(j)
                             \/ LockExpires(j) \/ LockLapses(j) \/ DoneExpires(j)
                             \/ \E w \in Workers : Fetch(w, j)
      PROVE  responses' = responses
    BY <1>3 DEF AckWaitElapses, HeartbeatLost, LockExpires, LockLapses, DoneExpires,
                Fetch, outputVars
<1>4. ASSUME NEW w \in Workers, Crash(w) \/ Shutdown(w) \/ Restart(w)
      PROVE  responses' = responses
    BY <1>4 DEF Crash, Shutdown, Restart, Stop, outputVars
<1>5. UNCHANGED vars => responses' = responses
    BY DEF vars
<1>. QED
    BY <1>1, <1>2, <1>3, <1>4, <1>5 DEF Next

\* Nothing an attempt has completed still waits for its _publish_ack.
OrderOK(j) == \A i \in DOMAIN responses[j] :
    responses[j][i].status = "completed" =>
        /\ ackTask[responses[j][i].by] = "finished"
        /\ \A k \in DOMAIN responses[j] :
               responses[j][k].by = responses[j][i].by /\ responses[j][k].status = "in_progress"
                   => k < i
OrderInv == TaskInv /\ \A j \in Jobs : Parses(j) => OrderOK(j)

LEMMA OrderStep ==
    ASSUME OrderInv, [Next]_vars
    PROVE  OrderInv'
<1>0. TypeOK /\ TypeOK' /\ request' = request
    BY NextType, RequestConstant DEF OrderInv, TaskInv
<1>1. TaskInv'
    BY <1>0, TaskStep DEF OrderInv, TaskInv
<1>2. \A a \in Attempt : ackTask[a] = "finished" => ackTask'[a] = "finished"
    BY TaskStep DEF OrderInv
<1>3. ASSUME NEW j \in Jobs, Parses(j)
      PROVE  OrderOK(j)'
    <2>0. OrderOK(j) /\ responses[j] \in Seq(Response)
        BY <1>0, <1>3 DEF OrderInv, TypeOK
    <2>1. \A i \in DOMAIN responses[j] : responses[j][i].by \in Attempt
        <3>1. \A i \in DOMAIN responses[j] : responses[j][i] \in Response
            BY <2>0
        <3>. QED
            BY <3>1 DEF Response
    <2>2. CASE responses'[j] = responses[j]
        BY <1>2, <2>0, <2>1, <2>2 DEF OrderOK
    <2>3. ASSUME NEW b \in Attempt, j = JobOf(b), NEW s \in Status, Publish(b, s),
                 s = "in_progress" => ackTask[b] = "created",
                 s = "completed" => ackTask[b] = "finished"
          PROVE  OrderOK(j)'
        <3>. DEFINE r == [by |-> b, status |-> s]
                    n == Len(responses[j]) + 1
        <3>1. r \in Response /\ r.by = b /\ r.status = s
            BY DEF Response
        <3>2. responses'[j] = Append(responses[j], r)
            BY <1>0, <2>3 DEF Publish, TypeOK
        <3>3. /\ n \in Nat /\ responses'[j][n] = r
              /\ DOMAIN responses[j] = 1..n-1 /\ DOMAIN responses'[j] = 1..n
              /\ \A i \in 1..n-1 : responses'[j][i] = responses[j][i]
            BY <2>0, <3>1, <3>2
        <3>4. ASSUME NEW i \in 1..n, responses'[j][i].status = "completed"
              PROVE  /\ ackTask'[responses'[j][i].by] = "finished"
                     /\ \A k \in 1..n :
                            responses'[j][k].by = responses'[j][i].by
                                /\ responses'[j][k].status = "in_progress" => k < i
            <4>1. CASE i = n
                <5>1. s = "completed" /\ ackTask'[b] = "finished"
                    BY <1>2, <2>3, <3>1, <3>3, <3>4, <4>1
                <5>2. ackTask'[responses'[j][i].by] = "finished"
                    BY <3>1, <3>3, <4>1, <5>1
                <5>3. ASSUME NEW k \in 1..n, responses'[j][k].status = "in_progress"
                      PROVE  k < i
                    <6>1. k # n
                        BY <3>1, <3>3, <5>1, <5>3
                    <6>. QED
                        BY <3>3, <4>1, <6>1
                <5>. QED
                    BY <5>2, <5>3
            <4>2. CASE i # n
                <5>1. i \in 1..n-1 /\ responses'[j][i] = responses[j][i]
                    BY <3>3, <4>2
                <5>2. ackTask[responses[j][i].by] = "finished"
                    BY <2>0, <3>3, <3>4, <5>1 DEF OrderOK
                <5>3. ackTask'[responses'[j][i].by] = "finished"
                    BY <1>2, <2>1, <3>3, <5>1, <5>2
                <5>4. ASSUME NEW k \in 1..n-1, responses'[j][k].by = responses'[j][i].by,
                             responses'[j][k].status = "in_progress"
                      PROVE  k < i
                    BY <2>0, <3>3, <3>4, <5>1, <5>4 DEF OrderOK
                <5>5. responses'[j][n].by = responses'[j][i].by => s # "in_progress"
                    BY <2>3, <3>1, <3>3, <5>1, <5>2
                <5>6. ASSUME NEW k \in 1..n, responses'[j][k].by = responses'[j][i].by,
                             responses'[j][k].status = "in_progress"
                      PROVE  k < i
                    <6>1. k # n
                        BY <3>1, <3>3, <5>5, <5>6
                    <6>. QED
                        BY <3>3, <5>4, <5>6, <6>1
                <5>. QED
                    BY <5>3, <5>6
            <4>. QED
                BY <4>1, <4>2
        <3>. QED
            BY <3>3, <3>4 DEF OrderOK
    <2>4. ASSUME NEW b \in Attempt, NEW s \in Status, Publish(b, s), j # JobOf(b)
          PROVE  responses'[j] = responses[j]
        BY <1>0, <2>4 DEF Publish, TypeOK
    <2>5. ASSUME NEW b \in Attempt, j = JobOf(b), pc[b] = "answer"
          PROVE  ackTask[b] = "finished"
        BY <1>3, <2>5 DEF OrderInv, TaskInv, TaskOK
    <2>6. {"failed", "in_progress", "completed"} \subseteq Status
        BY DEF Status
    <2>7. ASSUME NEW b \in Attempt, Publish(b, "failed")
          PROVE  OrderOK(j)'
        BY <2>2, <2>3, <2>4, <2>6, <2>7
    <2>8. ASSUME NEW b \in Attempt, Publish(b, "in_progress"), ackTask[b] = "created"
          PROVE  OrderOK(j)'
        BY <2>2, <2>3, <2>4, <2>6, <2>8
    <2>9. ASSUME NEW b \in Attempt, Publish(b, "completed"), pc[b] = "answer"
          PROVE  OrderOK(j)'
        BY <2>2, <2>3, <2>4, <2>5, <2>6, <2>9
    <2>. QED
        BY <1>0, <2>2, <2>7, <2>8, <2>9, StepPublishes
<1>. QED
    BY <1>0, <1>1, <1>3 DEF OrderInv, Parses

LEMMA OrderInit == Init => OrderInv
<1>. SUFFICES ASSUME Init PROVE OrderInv
    OBVIOUS
<1>1. TypeOK
    BY InitType
<1>2. TaskInv
    BY <1>1 DEF Init, TaskInv, TaskOK, Early
<1>3. \A j \in Jobs : responses[j] \in Seq(Response) /\ Len(responses[j]) = 0
    BY <1>1 DEF Init, TypeOK
<1>4. ASSUME NEW j \in Jobs
      PROVE  DOMAIN responses[j] = {}
    BY <1>3, <1>4
<1>. QED
    BY <1>2, <1>4 DEF OrderInv, OrderOK

\* The task _publish_ack races with the response: of a request that parses,
\* an attempt's 'in_progress' never comes after its 'completed', whatever
\* crashes, cancellations and lost publishes happen.
THEOREM CompletedComesLast == Spec => []InProgressComesFirst
<1>1. Init => OrderInv
    BY OrderInit
<1>2. OrderInv /\ [Next]_vars => OrderInv'
    BY OrderStep
<1>3. OrderInv => InProgressComesFirst
    BY DEF OrderInv, OrderOK, InProgressComesFirst
<1>. QED
    BY <1>1, <1>2, <1>3, PTL DEF Spec
-----------------------------------------------------------------------------
(* Every redelivery has cost a fault.                                      *)

(***************************************************************************)
(* Faults spent pay for deliveries beyond the first.  Not yet paid out are *)
(* those of the handlers on their way to a nak, each struck by a fault of  *)
(* its own, and that of a message which is due, or will be because nobody  *)
(* is left to acknowledge it.                                              *)
(***************************************************************************)
OnError    == {"excuse", "unconfirmed", "unwind", "nak"}
Failing(j) == {a \in Attempts(j) : pc[a] \in OnError}
Due(j)     == msg[j] = "pending" \/ (msg[j] = "outstanding" /\ Quiet(j))
Paid(j)    == delivered[j] + Cardinality(Failing(j)) + (IF Due(j) THEN 1 ELSE 0)
                  <= 1 + MaxFaults - budget
PaidInv    == TypeOK /\ \A j \in Jobs : Paid(j)

LEMMA AttemptsFinite ==
    ASSUME NEW j \in Jobs, NEW F \in SUBSET Attempts(j)
    PROVE  IsFiniteSet(F) /\ Cardinality(F) \in Nat
<1>1. DEFINE f == [n \in 1..MaxFaults + 1 |-> <<j, n>>]
<1>2. f \in Surjection(1..MaxFaults + 1, Attempts(j))
    BY DEF Surjection, Attempts, Attempt, JobOf
<1>3. IsFiniteSet(1..MaxFaults + 1)
    BY FS_Interval, BoundAssumption
<1>4. IsFiniteSet(Attempts(j))
    BY <1>2, <1>3, FS_Surjection
<1>. QED
    BY <1>4, FS_Subset, FS_CardinalityType

LEMMA AtMostOneMore ==
    ASSUME NEW F, IsFiniteSet(F), Cardinality(F) \in Nat, NEW a
    PROVE  /\ IsFiniteSet(F \cup {a})
           /\ Cardinality(F \cup {a}) \in {Cardinality(F), Cardinality(F) + 1}
<1>1. IsFiniteSet(F \cup {a}) /\ Cardinality(F \cup {a}) =
          IF a \in F THEN Cardinality(F) ELSE Cardinality(F) + 1
    BY FS_AddElement
<1>. QED
    BY <1>1

\* The bill of a job: what a step adds is covered by the fault it meets.
LEMMA Bill ==
    ASSUME TypeOK, TypeOK', NEW j \in Jobs, Paid(j), delivered'[j] = delivered[j],
           \/ /\ Failing(j)' \subseteq Failing(j)
              /\ budget' < budget \/ (budget' <= budget /\ (Due(j)' => Due(j)))
           \/ /\ \E a \in Attempts(j) : Failing(j)' \subseteq Failing(j) \cup {a}
              /\ budget' < budget /\ (Due(j)' => Due(j))
           \/ /\ \E a \in Failing(j) : Failing(j)' \subseteq Failing(j) \ {a}
              /\ budget' <= budget
    PROVE  Paid(j)'
<1>. DEFINE F == Failing(j)
            G == Failing(j)'
<1>1. F \subseteq Attempts(j) /\ G \subseteq Attempts(j)
    BY DEF Failing, Attempts
<1>2. IsFiniteSet(F) /\ Cardinality(F) \in Nat /\ IsFiniteSet(G) /\ Cardinality(G) \in Nat
    BY <1>1, AttemptsFinite
<1>3. /\ delivered[j] \in Nat /\ budget \in Nat /\ budget' \in Nat /\ MaxFaults \in Nat
      /\ budget <= MaxFaults /\ budget' <= MaxFaults
    BY BoundAssumption DEF TypeOK
<1>4. CASE /\ G \subseteq F
           /\ budget' < budget \/ (budget' <= budget /\ (Due(j)' => Due(j)))
    <2>1. Cardinality(G) <= Cardinality(F)
        BY <1>2, <1>4, FS_Subset
    <2>. QED
        BY <1>2, <1>3, <1>4, <2>1 DEF Paid
<1>5. CASE /\ \E a \in Attempts(j) : G \subseteq F \cup {a}
           /\ budget' < budget /\ (Due(j)' => Due(j))
    <2>1. PICK a \in Attempts(j) : G \subseteq F \cup {a}
        BY <1>5
    <2>0. /\ IsFiniteSet(F \cup {a})
          /\ Cardinality(F \cup {a}) \in {Cardinality(F), Cardinality(F) + 1}
        <3>. HIDE DEF F
        <3>. QED
            BY <1>2, AtMostOneMore
    <2>2. /\ IsFiniteSet(F \cup {a})
          /\ Cardinality(F \cup {a}) <= Cardinality(F) + 1
          /\ Cardinality(F \cup {a}) \in Nat
        BY <1>2, <2>0
    <2>3. Cardinality(G) <= Cardinality(F \cup {a})
        BY <2>1, <2>2, FS_Subset
    <2>. QED
        BY <1>2, <1>3, <1>5, <2>2, <2>3 DEF Paid
<1>6. CASE /\ \E a \in F : G \subseteq F \ {a}
           /\ budget' <= budget
    <2>1. PICK a \in F : G \subseteq F \ {a}
        BY <1>6
    <2>2. IsFiniteSet(F \ {a}) /\ Cardinality(F \ {a}) = Cardinality(F) - 1
        BY <1>2, FS_RemoveElement
    <2>3. Cardinality(G) <= Cardinality(F \ {a})
        BY <2>1, <2>2, FS_Subset
    <2>. QED
        BY <1>2, <1>3, <1>6, <2>2, <2>3 DEF Paid
<1>. QED
    BY <1>4, <1>5, <1>6

\* A step that leaves the handlers and the message of a job alone.
LEMMA BillKept ==
    ASSUME TypeOK, TypeOK', NEW j \in Jobs, Paid(j), budget' <= budget,
           delivered'[j] = delivered[j], msg'[j] = msg[j],
           \A a \in Attempts(j) : pc'[a] = pc[a]
    PROVE  Paid(j)'
<1>1. Failing(j)' \subseteq Failing(j)
    BY DEF Failing, Attempts
<1>2. Due(j)' => Due(j)
    BY DEF Due, Quiet, IsRunning, Attempts
<1>. QED
    BY <1>1, <1>2, Bill

\* A step of a handler that goes on: towards a nak only if it met a fault.
LEMMA BillGoesOn ==
    ASSUME TypeOK, TypeOK', NEW b \in Attempt, IsRunning(b), IsRunning(b)',
           Paid(JobOf(b)), delivered' = delivered, msg' = msg,
           \A a \in Attempt \ {b} : pc'[a] = pc[a],
           \/ budget' < budget
           \/ budget' <= budget /\ (pc'[b] \in OnError => pc[b] \in OnError)
    PROVE  Paid(JobOf(b))'
<1>. DEFINE j == JobOf(b)
<1>1. j \in Jobs /\ b \in Attempts(j)
    BY AttemptType DEF Attempts
<1>2. \A a \in Attempts(j) \ {b} : pc'[a] = pc[a]
    BY DEF Attempts
<1>3. ~Quiet(j) /\ ~Quiet(j)'
    BY <1>1 DEF Quiet, IsRunning, Attempts
<1>4. Due(j)' => Due(j)
    BY <1>3 DEF Due
<1>5. Failing(j)' \subseteq Failing(j) \cup {b}
    BY <1>2 DEF Failing, Attempts
<1>6. (pc'[b] \in OnError => pc[b] \in OnError) => Failing(j)' \subseteq Failing(j)
    BY <1>1, <1>2 DEF Failing, Attempts
<1>. QED
    BY <1>1, <1>4, <1>5, <1>6, Bill

\* The budget never grows; a fault takes one off.
LEMMA FaultCosts ==
    ASSUME TypeOK
    PROVE  /\ \A kind : Fault(kind) => budget' < budget
           /\ NoFault => budget' <= budget
BY BoundAssumption DEF TypeOK, Fault, CanFail, NoFault, faultVars

\* The handlers' steps, in three groups: those that go on, the two that end.
LEMMA HandlerPays ==
    ASSUME PaidInv, TypeOK', NEW b \in Attempt, Handle(b)
    PROVE  Paid(JobOf(b))'
<1>0. TypeOK /\ JobOf(b) \in Jobs /\ Paid(JobOf(b)) /\ b \in Attempts(JobOf(b))
    BY AttemptType DEF PaidInv, Attempts
<1>. DEFINE Free == budget' <= budget
            Hurt == budget' < budget
<1>f. /\ \A kind : Fault(kind) => Hurt
      /\ NoFault => Free
      /\ Hurt => Free
    BY <1>0, FaultCosts, BoundAssumption DEF TypeOK, Fault, CanFail
<1>p. pc \in [Attempt -> PC]
    BY <1>0 DEF TypeOK
<1>. USE <1>0, <1>f, <1>p DEF queueVars
<1>1. CASE AckMsg(b)
    <2>1. /\ pc[b] = "ack" /\ pc'[b] = "end"
          /\ \A a \in Attempts(JobOf(b)) \ {b} : pc'[a] = pc[a]
        BY <1>1 DEF AckMsg, Goto, TypeOK, Attempts
    <2>2. Failing(JobOf(b))' \subseteq Failing(JobOf(b))
        BY <2>1 DEF Failing, Attempts, OnError
    <2>3. delivered' = delivered
        BY <1>1 DEF AckMsg
    <2>4. CASE msg' = [msg EXCEPT ![JobOf(b)] = "acked"] /\ NoFault
        <3>1. ~Due(JobOf(b))'
            BY <2>4 DEF Due, TypeOK
        <3>. QED
            BY <2>2, <2>3, <2>4, <3>1, Bill
    <2>5. CASE Fault("ack")
        BY <2>2, <2>3, <2>5, Bill
    <2>. QED
        BY <1>1, <2>4, <2>5 DEF AckMsg
<1>2. CASE NakMsg(b)
    <2>1. /\ pc[b] = "nak" /\ pc'[b] = "end"
          /\ \A a \in Attempts(JobOf(b)) \ {b} : pc'[a] = pc[a]
        BY <1>2 DEF NakMsg, Goto, TypeOK, Attempts
    <2>2. b \in Failing(JobOf(b)) /\ Failing(JobOf(b))' \subseteq Failing(JobOf(b)) \ {b}
        BY <2>1 DEF Failing, Attempts, OnError
    <2>3. delivered' = delivered
        BY <1>2 DEF NakMsg
    <2>4. Free
        <3>1. Fault("ack") \/ NoFault
            BY <1>2 DEF NakMsg
        <3>. QED
            BY <3>1
    <2>. QED
        BY <2>2, <2>3, <2>4, Bill
<1>3. CASE \/ Refuse(b) \/ CheckDone(b) \/ Acquire(b) \/ Recheck(b) \/ Work(b)
           \/ Answer(b) \/ Confirm(b) \/ Excuse(b) \/ Unwind(b) \/ MarkDone(b)
           \/ Release(b) \/ Upload(b) \/ WriteResult(b)
    <2>1. /\ IsRunning(b) /\ IsRunning(b)' /\ \A a \in Attempt \ {b} : pc'[a] = pc[a]
          /\ delivered' = delivered /\ msg' = msg
        BY <1>3 DEF Refuse, CheckDone, Acquire, Recheck, Work, Answer, Confirm, Excuse, Unwind,
            MarkDone, Release, Upload, WriteResult, Goto, TypeOK, IsRunning, Running, Guarded
    <2>2. Hurt \/ (Free /\ (pc'[b] \in OnError => pc[b] \in OnError))
        <3>. USE DEF Goto, OnError
        <3>1. CASE Refuse(b)
            BY <3>1 DEF Refuse, Confirmed, Unsent
        <3>2. CASE CheckDone(b)
            BY <3>2 DEF CheckDone
        <3>3. CASE Acquire(b)
            BY <3>3 DEF Acquire
        <3>4. CASE Recheck(b)
            BY <3>4 DEF Recheck
        <3>5. CASE Work(b)
            BY <3>5 DEF Work
        <3>6. CASE Answer(b)
            BY <3>6 DEF Answer, Confirmed
        <3>7. CASE Confirm(b)
            BY <3>7 DEF Confirm
        <3>8. CASE Excuse(b)
            BY <3>8 DEF Excuse, Confirmed, Unsent
        <3>9. CASE Unwind(b)
            BY <3>9 DEF Unwind, Unlock
        <3>10. CASE MarkDone(b)
            BY <3>10 DEF MarkDone
        <3>11. CASE Release(b)
            BY <3>11 DEF Release, Unlock
        <3>12. CASE Upload(b)
            BY <3>12 DEF Upload
        <3>13. CASE WriteResult(b)
            BY <3>13 DEF WriteResult
        <3>. QED
            BY <1>3, <3>1, <3>2, <3>3, <3>4, <3>5, <3>6, <3>7, <3>8, <3>9, <3>10, <3>11,
               <3>12, <3>13
    <2>. QED
        BY <2>1, <2>2, BillGoesOn
<1>. QED
    BY <1>1, <1>2, <1>3 DEF Handle

\* A job none of whose handlers, and whose message, the step is about.
LEMMA OtherPays ==
    ASSUME PaidInv, TypeOK', NEW b \in Attempt, Handle(b), NEW j \in Jobs, j # JobOf(b)
    PROVE  Paid(j)'
<1>0. TypeOK /\ JobOf(b) \in Jobs /\ Paid(j)
    BY AttemptType DEF PaidInv
<1>1. budget' <= budget
    <2>1. NoFault \/ \E kind : Fault(kind)
        BY DEF Handle, Refuse, CheckDone, Acquire, Recheck, Work, Answer, Confirm, Excuse,
            Unwind, MarkDone, Release, Upload, WriteResult, AckMsg, NakMsg, Confirmed, Unsent,
            Unlock
    <2>. QED
        BY <1>0, <2>1, BoundAssumption DEF TypeOK, Fault, CanFail, NoFault, faultVars
<1>2. \A a \in Attempts(j) : pc'[a] = pc[a]
    <2>1. \E from, to : Goto(b, from, to)
        BY DEF Handle, Refuse, CheckDone, Acquire, Recheck, Work, Answer, Confirm, Excuse,
            Unwind, MarkDone, Release, Upload, WriteResult, AckMsg, NakMsg
    <2>. QED
        BY <1>0, <2>1 DEF Goto, Attempts, TypeOK
<1>3. delivered' = delivered
    BY DEF Handle, Refuse, CheckDone, Acquire, Recheck, Work, Answer, Confirm, Excuse,
        Unwind, MarkDone, Release, Upload, WriteResult, AckMsg, NakMsg, queueVars
<1>4. msg' = msg \/ \E v : msg' = [msg EXCEPT ![JobOf(b)] = v]
    BY DEF Handle, Refuse, CheckDone, Acquire, Recheck, Work, Answer, Confirm, Excuse,
        Unwind, MarkDone, Release, Upload, WriteResult, AckMsg, NakMsg, queueVars
<1>5. msg'[j] = msg[j]
    BY <1>0, <1>4 DEF TypeOK
<1>. QED
    BY <1>0, <1>1, <1>2, <1>3, <1>5, BillKept

LEMMA PaidStep ==
    ASSUME PaidInv, [Next]_vars
    PROVE  PaidInv'
<1>0. TypeOK /\ TypeOK'
    BY NextType DEF PaidInv
<1>1. SUFFICES ASSUME NEW j \in Jobs
               PROVE  Paid(j)'
    BY <1>0 DEF PaidInv
<1>. USE <1>0, FaultCosts
<1>2. Paid(j)
    BY DEF PaidInv
<1>3. CASE \E a \in Attempt : Handle(a)
    BY <1>3, HandlerPays, OtherPays
<1>4. CASE \E a \in Attempt : PublishInProgress(a)
    <2>1. PICK a \in Attempt : PublishInProgress(a)
        BY <1>4
    <2>2. NoFault \/ Fault("publish")
        BY <2>1 DEF PublishInProgress, Confirmed, Unsent
    <2>3. budget' <= budget
        BY <2>2, BoundAssumption DEF TypeOK, Fault, CanFail, NoFault, faultVars
    <2>. QED
        BY <1>2, <2>1, <2>3, BillKept DEF PublishInProgress, queueVars
<1>5. ASSUME NEW i \in Jobs, NEW w \in Workers, Fetch(w, i)
      PROVE  Paid(j)'
    <2>. DEFINE a == <<i, delivered[i] + 1>>
    <2>1. budget' = budget /\ budget' <= budget
        BY <1>5, BoundAssumption DEF Fetch, faultVars, TypeOK
    <2>2. a \in Attempt /\ JobOf(a) = i /\ delivered[i] \in Nat
        BY <1>5, BoundAssumption DEF Fetch, TypeOK, Attempt, JobOf
    <2>3. CASE j # i
        <3>1. delivered'[j] = delivered[j] /\ msg'[j] = msg[j]
            BY <1>5, <2>3 DEF Fetch, TypeOK
        <3>2. \A b \in Attempts(j) : pc'[b] = pc[b]
            BY <1>5, <2>2, <2>3 DEF Fetch, TypeOK, Attempts
        <3>. QED
            BY <1>2, <2>1, <3>1, <3>2, BillKept
    <2>4. CASE j = i
        <3>1. delivered'[j] = delivered[j] + 1 /\ Due(j)
            BY <1>5, <2>4 DEF Fetch, TypeOK, Due
        <3>2. /\ pc'[a] \in {"refuse", "check"} /\ \A b \in Attempt \ {a} : pc'[b] = pc[b]
              /\ msg'[j] = "outstanding"
            BY <1>5, <2>2, <2>4 DEF Fetch, TypeOK
        <3>3. Failing(j)' \subseteq Failing(j)
            BY <3>2 DEF Failing, OnError, Attempts
        <3>4. ~Due(j)'
            BY <2>2, <2>4, <3>2 DEF Due, Quiet, IsRunning, Running, Attempts
        <3>5. /\ IsFiniteSet(Failing(j)) /\ Cardinality(Failing(j)) \in Nat
              /\ IsFiniteSet(Failing(j)') /\ Cardinality(Failing(j)') \in Nat
            <4>1. Failing(j) \subseteq Attempts(j) /\ Failing(j)' \subseteq Attempts(j)
                BY DEF Failing, Attempts
            <4>. QED
                BY <4>1, AttemptsFinite
        <3>6. Cardinality(Failing(j)') <= Cardinality(Failing(j))
            BY <3>3, <3>5, FS_Subset
        <3>7. budget \in Nat /\ MaxFaults \in Nat /\ delivered[j] \in Nat
            BY <2>2, <2>4, BoundAssumption DEF TypeOK
        <3>. QED
            BY <1>2, <2>1, <3>1, <3>4, <3>5, <3>6, <3>7 DEF Paid
    <2>. QED
        BY <2>3, <2>4
<1>6. ASSUME NEW i \in Jobs, AckWaitElapses(i)
      PROVE  Paid(j)'
    <2>1. Failing(j)' \subseteq Failing(j) /\ budget' = budget /\ delivered' = delivered
        BY <1>6 DEF AckWaitElapses, Failing, Attempts, faultVars
    <2>2. Due(j)' => Due(j)
        BY <1>6 DEF AckWaitElapses, Due, Quiet, IsRunning, Attempts, TypeOK
    <2>3. budget' <= budget
        BY <2>1, BoundAssumption DEF TypeOK
    <2>. QED
        BY <1>2, <2>1, <2>2, <2>3, Bill
<1>7. ASSUME NEW i \in Jobs, HeartbeatLost(i)
      PROVE  Paid(j)'
    <2>1. Failing(j)' \subseteq Failing(j) /\ delivered' = delivered /\ budget' < budget
        BY <1>7 DEF HeartbeatLost, Failing, Attempts
    <2>. QED
        BY <1>2, <2>1, Bill
<1>8. ASSUME NEW i \in Jobs, LockExpires(i) \/ LockLapses(i) \/ DoneExpires(i)
      PROVE  Paid(j)'
    <2>1. NoFault \/ \E kind : Fault(kind)
        BY <1>8 DEF LockExpires, LockLapses, DoneExpires, NoFault
    <2>2. budget' <= budget
        BY <2>1, BoundAssumption DEF TypeOK, Fault, CanFail, NoFault, faultVars
    <2>3. pc' = pc /\ msg' = msg /\ delivered' = delivered
        BY <1>8 DEF LockExpires, LockLapses, DoneExpires, queueVars
    <2>. QED
        BY <1>2, <2>2, <2>3, BillKept
<1>9. ASSUME NEW w \in Workers, Crash(w) \/ Shutdown(w)
      PROVE  Paid(j)'
    <2>1. budget' < budget
        BY <1>9 DEF Crash, Shutdown
    <2>2. \A a \in Attempt : pc'[a] = pc[a] \/ pc'[a] = "end"
        BY <1>9 DEF Crash, Shutdown, Stop
    <2>3. Failing(j)' \subseteq Failing(j)
        BY <2>2 DEF Failing, Attempts, OnError
    <2>4. delivered' = delivered
        BY <1>9 DEF Crash, Shutdown, Stop, queueVars
    <2>. QED
        BY <1>2, <2>1, <2>3, <2>4, Bill
<1>10. CASE UNCHANGED vars \/ \E w \in Workers : Restart(w)
    <2>1. budget' = budget /\ pc' = pc /\ msg' = msg /\ delivered' = delivered
        BY <1>10 DEF vars, Restart, queueVars, faultVars
    <2>2. budget' <= budget
        BY <2>1, BoundAssumption DEF TypeOK
    <2>. QED
        BY <1>2, <2>1, <2>2, BillKept
<1>. QED
    BY <1>3, <1>4, <1>5, <1>6, <1>7, <1>8, <1>9, <1>10 DEF Next

LEMMA PaidInit == Init => PaidInv
<1>. SUFFICES ASSUME Init PROVE PaidInv
    OBVIOUS
<1>1. TypeOK
    BY InitType
<1>2. ASSUME NEW j \in Jobs
      PROVE  Paid(j)
    <2>1. Failing(j) = {}
        BY DEF Init, Failing, OnError, Attempts
    <2>2. delivered[j] = 0 /\ budget = MaxFaults
        BY DEF Init
    <2>3. Cardinality(Failing(j)) = 0
        BY <2>1, FS_EmptySet
    <2>. QED
        BY <2>2, <2>3, BoundAssumption DEF Paid
<1>. QED
    BY <1>1, <1>2 DEF PaidInv

LEMMA PaidDeliveries == PaidInv => RedeliveryNeedsFault
<1>. SUFFICES ASSUME PaidInv, NEW j \in Jobs
              PROVE  delivered[j] <= 1 + MaxFaults - budget
    BY DEF RedeliveryNeedsFault
<1>1. Paid(j) /\ delivered[j] \in Nat /\ budget \in Nat /\ MaxFaults \in Nat
    BY BoundAssumption DEF PaidInv, TypeOK
<1>2. Failing(j) \subseteq Attempts(j)
    BY DEF Failing
<1>3. Cardinality(Failing(j)) \in Nat
    BY <1>2, AttemptsFinite
<1>. QED
    BY <1>1, <1>3 DEF Paid

\* A job is delivered at most once more often than faults have happened, of
\* any kind and to any replica: no race of acks, naks, heartbeats and
\* restarts hands it out for nothing, and the bound of Fetch stops none.
THEOREM DeliveriesPaid == Spec => []RedeliveryNeedsFault
<1>1. Init => PaidInv
    BY PaidInit
<1>2. PaidInv /\ [Next]_vars => PaidInv'
    BY PaidStep
<1>3. PaidInv => RedeliveryNeedsFault
    BY PaidDeliveries
<1>. QED
    BY <1>1, <1>2, <1>3, PTL DEF Spec

-----------------------------------------------------------------------------
(* 'completed' is published once, unless a fault forces a repetition.      *)

\* The faults after which a job is redelivered but not processed again.
Harmless == {"heartbeat", "ack", "storage", "critical"}

(***************************************************************************)
(* The strengthening: once 'completed' is published, the job is marked or  *)
(* its handler is about to mark it.  So nobody else is, or will be, past   *)
(* the second look under the lock.                                         *)
(***************************************************************************)
Resolved(j)  == \/ lockKey[j] = Done
                \/ \E a \in Attempts(j) : pc[a] \in {"confirm", "mark"}
OneOf(q)     == \A i, k \in DOMAIN q :
                    q[i].status = "completed" /\ q[k].status = "completed" => i = k
OnceOK(j)    == OneOf(responses[j]) /\ (Said(j, "completed") => Resolved(j))
OnceInv      == LockInv /\ TaskInv /\ \A j \in Jobs : OnceOK(j)

LEMMA ResolvedStays ==
    ASSUME TaskInv, [Next]_vars, met' \subseteq Harmless, NEW j \in Jobs, Resolved(j)
    PROVE  Resolved(j)'
<1>. USE DEF Harmless, Fault
<1>0. TypeOK /\ pc \in [Attempt -> PC] /\ Attempts(j)' = Attempts(j)
    BY DEF TaskInv, TypeOK, Attempts
<1>1. CASE lockKey[j] = Done
    <2>1. ~DoneExpires(j)
        BY DEF DoneExpires
    <2>. QED
        BY <1>0, <1>1, <2>1, DoneStep DEF Resolved
<1>2. ASSUME NEW a \in Attempts(j), pc[a] \in {"confirm", "mark"}
      PROVE  lockKey'[j] = Done \/ pc'[a] \in {"confirm", "mark"}
    <2>0. a \in Attempt /\ JobOf(a) = j
        BY DEF Attempts
    <2>1. ASSUME NEW b \in Attempt, Handle(b), b # a
          PROVE  pc'[a] = pc[a]
        <3>1. \E from, to : Goto(b, from, to)
            BY <2>1 DEF Handle, Refuse, CheckDone, Acquire, Recheck, Work, Answer, Confirm,
                Excuse, Unwind, MarkDone, Release, Upload, WriteResult, AckMsg, NakMsg
        <3>. QED
            BY <1>0, <2>0, <2>1, <3>1 DEF Goto
    <2>2. CASE Handle(a)
        <3>1. Confirm(a) \/ MarkDone(a)
            BY <1>2, <2>2 DEF Handle, Refuse, CheckDone, Acquire, Recheck, Work, Answer,
                Excuse, Unwind, Release, Upload, WriteResult, AckMsg, NakMsg, Goto
        <3>2. CASE Confirm(a)
            BY <1>0, <1>2, <2>0, <3>2 DEF Confirm, Goto
        <3>3. CASE MarkDone(a)
            BY <1>0, <2>0, <3>3 DEF MarkDone, TypeOK
        <3>. QED
            BY <3>1, <3>2, <3>3
    <2>3. ASSUME NEW b \in Attempt, PublishInProgress(b)
          PROVE  pc'[a] = pc[a]
        BY <2>3 DEF PublishInProgress
    <2>4. ASSUME NEW i \in Jobs, \/ AckWaitElapses(i) \/ HeartbeatLost(i)
                                 \/ LockExpires(i) \/ LockLapses(i) \/ DoneExpires(i)
          PROVE  pc'[a] = pc[a]
        BY <2>4 DEF AckWaitElapses, HeartbeatLost, LockExpires, LockLapses, DoneExpires
    <2>5. ASSUME NEW i \in Jobs, NEW w \in Workers, Fetch(w, i)
          PROVE  pc'[a] = pc[a]
        <3>1. a # <<i, delivered[i] + 1>>
            <4>2. delivered[j] \in Nat /\ a[2] \in Int
                BY <1>0, <2>0, AttemptNumber, BoundAssumption DEF TypeOK
            <4>3. TaskOK(a)
                BY <2>0 DEF TaskInv
            <4>1. a[2] <= delivered[j]
                BY <1>2, <2>0, <4>2, <4>3 DEF TaskOK
            <4>. QED
                BY <2>0, <4>1, <4>2 DEF JobOf
        <3>. QED
            BY <1>0, <2>0, <2>5, <3>1 DEF Fetch
    <2>6. ASSUME NEW w \in Workers, Crash(w) \/ Shutdown(w) \/ Restart(w)
          PROVE  pc'[a] = pc[a]
        BY <2>6 DEF Crash, Shutdown, Restart
    <2>7. CASE UNCHANGED vars
        BY <1>2, <2>7 DEF vars
    <2>. QED
        BY <1>2, <2>0, <2>1, <2>2, <2>3, <2>4, <2>5, <2>6, <2>7 DEF Next
<1>. QED
    BY <1>0, <1>1, <1>2 DEF Resolved

\* Whoever is inside the lock and not about to mark finds the job unresolved.
LEMMA Unresolved ==
    ASSUME LockInv, NEW b \in Attempt, InLock(b), pc[b] \notin {"confirm", "mark", "release"}
    PROVE  ~Resolved(JobOf(b))
<1>1. lockKey[JobOf(b)] # Done
    BY NoneAssumption DEF LockInv, Holds
<1>2. ASSUME NEW a \in Attempts(JobOf(b)), pc[a] \in {"confirm", "mark"}
      PROVE  FALSE
    <2>1. a \in Attempt /\ JobOf(a) = JobOf(b) /\ InLock(a)
        BY <1>2 DEF Attempts, InLock, Guarded
    <2>2. a = b
        BY <2>1 DEF LockInv, Exclusive
    <2>. QED
        BY <1>2, <2>2
<1>. QED
    BY <1>1, <1>2 DEF Resolved

LEMMA AppendsOne ==
    ASSUME NEW q \in Seq(Response), NEW r \in Response, OneOf(q),
           r.status = "completed" => \A i \in DOMAIN q : q[i].status # "completed"
    PROVE  /\ OneOf(Append(q, r))
           /\ r.status # "completed" =>
                  \A i \in DOMAIN Append(q, r) : Append(q, r)[i].status = "completed" =>
                      \E k \in DOMAIN q : q[k].status = "completed"
<1>. DEFINE p == Append(q, r)
            n == Len(q) + 1
<1>1. /\ n \in Nat /\ DOMAIN q = 1..n-1 /\ DOMAIN p = 1..n
      /\ p[n] = r /\ \A i \in 1..n-1 : p[i] = q[i]
    OBVIOUS
<1>. HIDE DEF p, n
<1>2. \A i \in 1..n : i = n \/ i \in 1..n-1
    BY <1>1
<1>. QED
    BY <1>1, <1>2 DEF OneOf, p

LEMMA OnceStep ==
    ASSUME OnceInv, [Next]_vars, met' \subseteq Harmless
    PROVE  OnceInv'
<1>0. TypeOK /\ TypeOK'
    BY NextType DEF OnceInv, TaskInv
<1>1. LockInv'
    BY LockStep DEF OnceInv, UnlessLapsed, Harmless
<1>2. TaskInv'
    BY <1>0, TaskStep DEF OnceInv, TaskInv
<1>3. ASSUME NEW j \in Jobs
      PROVE  OnceOK(j)'
    <2>0. OnceOK(j) /\ responses[j] \in Seq(Response)
        BY <1>0 DEF OnceInv, TypeOK
    <2>1. Resolved(j) => Resolved(j)'
        BY ResolvedStays DEF OnceInv
    <2>2. CASE responses'[j] = responses[j]
        BY <2>0, <2>1, <2>2 DEF OnceOK, Said
    <2>3. ASSUME NEW b \in Attempt, j = JobOf(b), NEW s \in Status, Publish(b, s),
                 s = "completed" => Answer(b)
          PROVE  OnceOK(j)'
        <3>. DEFINE r == [by |-> b, status |-> s]
        <3>1. r \in Response /\ r.status = s
            BY DEF Response
        <3>2. responses'[j] = Append(responses[j], r)
            BY <1>0, <2>3 DEF Publish, TypeOK
        <3>3. CASE s # "completed"
            <4>1. OneOf(responses'[j]) /\ (Said(j, "completed")' => Said(j, "completed"))
                BY <2>0, <3>1, <3>2, <3>3, AppendsOne DEF OnceOK, Said
            <4>. QED
                BY <2>0, <2>1, <4>1 DEF OnceOK
        <3>4. CASE s = "completed"
            <4>1. pc[b] = "answer"
                BY <2>3, <3>4 DEF Answer, Goto
            <4>3. ~Resolved(j)
                BY <2>3, <4>1, Unresolved DEF OnceInv, InLock, Guarded
            <4>4. \A i \in DOMAIN responses[j] : responses[j][i].status # "completed"
                BY <2>0, <4>3 DEF OnceOK, Said
            <4>5. OneOf(responses'[j])
                BY <2>0, <3>1, <3>2, <4>4, AppendsOne DEF OnceOK
            <4>6. pc'[b] = "confirm"
                BY <1>0, <2>3, <3>4 DEF Answer, Goto, Fault, Harmless, TypeOK
            <4>7. Resolved(j)'
                BY <2>3, <4>6 DEF Resolved, Attempts
            <4>. QED
                BY <4>5, <4>7 DEF OnceOK
        <3>. QED
            BY <3>3, <3>4
    <2>4. ASSUME NEW b \in Attempt, NEW s, Publish(b, s), j # JobOf(b)
          PROVE  responses'[j] = responses[j]
        BY <1>0, <2>4 DEF Publish, TypeOK
    <2>5. "failed" \in Status /\ "in_progress" \in Status /\ "completed" \in Status
        BY DEF Status
    <2>6. CASE responses' = responses
        BY <2>2, <2>6
    <2>7. CASE \E b \in Attempt : Publish(b, "failed") \/ Publish(b, "in_progress")
        BY <2>2, <2>3, <2>4, <2>5, <2>7
    <2>8. CASE \E b \in Attempt : Publish(b, "completed") /\ Answer(b)
        BY <2>2, <2>3, <2>4, <2>5, <2>8
    <2>. QED
        BY <1>0, <2>6, <2>7, <2>8, StepPublishes
<1>. QED
    BY <1>1, <1>2, <1>3 DEF OnceInv

LEMMA OnceInit == Init => OnceInv
<1>. SUFFICES ASSUME Init PROVE OnceInv
    OBVIOUS
<1>1. TypeOK
    BY InitType
<1>2. LockInv
    BY <1>1 DEF Init, LockInv, Exclusive, InLock, Guarded
<1>3. TaskInv
    BY <1>1 DEF Init, TaskInv, TaskOK, Early
<1>4. \A j \in Jobs : responses[j] \in Seq(Response) /\ Len(responses[j]) = 0
    BY <1>1 DEF Init, TypeOK
<1>5. ASSUME NEW j \in Jobs
      PROVE  DOMAIN responses[j] = {}
    BY <1>4, <1>5
<1>. QED
    BY <1>2, <1>3, <1>5 DEF OnceInv, OnceOK, OneOf, Said

\* However often heartbeats die, acknowledgements get lost, uploads fail and
\* attempts raise, on however many replicas: a job is not processed again
\* once its result is published.
THEOREM CompletedJustOnce == Spec => []CompletedOnce
<1>. DEFINE I == OnceInv \/ ~(met \subseteq Harmless)
<1>1. Init => I
    BY OnceInit
<1>2. I /\ [Next]_vars => I'
    BY OnceStep, MetGrows
<1>3. I => CompletedOnce
    BY DEF OnceInv, OnceOK, OneOf, CompletedOnce, Harmless
<1>. QED
    BY <1>1, <1>2, <1>3, PTL DEF Spec

-----------------------------------------------------------------------------
(***************************************************************************)
(* The worker implements JobDelivery, for any jobs, replicas and numbers   *)
(* of faults, as long as heartbeats arrive, Redis answers, no lock lapses  *)
(* under its holder and no done mark outlives its hour.                    *)
(***************************************************************************)
Losing == {"heartbeat", "redis", "lapse", "outage"}

\* A lock nobody extends has expired when the server redelivers: 15 seconds
\* against the 40 that are left of ack_wait after a heartbeat.
StaleLocksRunOut == LockTTL < AckWait - AckWait \div 3

(***************************************************************************)
(* The inductive invariant.  A job has one handler at a time, that of its  *)
(* last delivery, and while it has, the message is outstanding.  A token   *)
(* in the key belongs to that handler, or to a dead one whose message has  *)
(* not come back yet: a handler that finds the key taken finds 'done'.  So *)
(* whoever is on the way to the acknowledgement has seen the verdict       *)
(* published.                                                              *)
(***************************************************************************)
Concluded == {"confirm", "mark", "release", "upload", "write", "ack"}

JobOK(j) ==
    /\ \A a \in Attempts(j) : IsRunning(a) => msg[j] = "outstanding" /\ a[2] = delivered[j]
    /\ lockKey[j] \in Attempt =>
           /\ msg[j] = "outstanding"
           /\ \A a \in Attempts(j) : IsRunning(a) => InLock(a)
    /\ \A a \in Attempts(j) : pc[a] \in Concluded => Answered(j)
    /\ msg[j] = "acked" => Answered(j)
    /\ \A a \in Attempts(j) : pc[a] = "refuse" => request[j] \in Unwelcome

WorkInv == LockInv /\ MarkInv /\ \A j \in Jobs : JobOK(j)

\* A step that leaves a job alone, or stops its handler.
LEMMA Untouched ==
    ASSUME NEW j \in Jobs, JobOK(j), Answered(j) => Answered(j)',
           msg'[j] = msg[j], delivered'[j] = delivered[j],
           lockKey'[j] = lockKey[j] \/ lockKey'[j] \notin Attempt, request' = request,
           \A a \in Attempts(j) : pc'[a] = pc[a] \/ pc'[a] = "end"
    PROVE  JobOK(j)'
<1>1. \A a \in Attempts(j) : pc'[a] \in Running \cup Concluded \cup {"refuse"} => pc'[a] = pc[a]
    BY DEF Running, Guarded, Concluded
<1>2. Attempts(j)' = Attempts(j)
    BY DEF Attempts
<1>. QED
    BY <1>1, <1>2 DEF JobOK, IsRunning, InLock

\* The handler that runs is the only one of its job.
LEMMA OneRuns ==
    ASSUME NEW j \in Jobs, JobOK(j), NEW a \in Attempts(j), NEW b \in Attempts(j),
           IsRunning(a), IsRunning(b)
    PROVE  a = b
BY DEF JobOK, Attempts, Attempt, JobOf

\* A step of the running handler of a job.
LEMMA HandlerMoves ==
    ASSUME TypeOK, NEW b \in Attempt, JobOK(JobOf(b)), IsRunning(b), NEW to \in PC,
           to # "refuse", request' = request, pc' = [pc EXCEPT ![b] = to], delivered' = delivered,
           Answered(JobOf(b)) => Answered(JobOf(b))',
           to \in Running => msg'[JobOf(b)] = "outstanding",
           lockKey'[JobOf(b)] \in Attempt =>
               msg'[JobOf(b)] = "outstanding" /\ (to \in Running => to \in Guarded),
           to \in Concluded => Answered(JobOf(b))',
           msg'[JobOf(b)] = "acked" => Answered(JobOf(b))'
    PROVE  JobOK(JobOf(b))'
<1>. DEFINE j == JobOf(b)
<1>1. j \in Jobs /\ b \in Attempts(j)
    BY AttemptType DEF Attempts
<1>2. pc'[b] = to /\ \A a \in Attempts(j) \ {b} : pc'[a] = pc[a]
    BY DEF TypeOK, Attempts
<1>3. \A a \in Attempts(j) \ {b} : ~IsRunning(a)
    BY <1>1, OneRuns
<1>4. \A a \in Attempts(j) \ {b} : pc'[a] \notin Running
    BY <1>2, <1>3 DEF IsRunning
<1>5. b[2] = delivered[j]
    BY <1>1 DEF JobOK
<1>6. \A a \in Attempts(j) : pc'[a] \in Running =>
          a = b /\ msg'[j] = "outstanding" /\ a[2] = delivered'[j]
    BY <1>2, <1>4, <1>5
<1>7. lockKey'[j] \in Attempt =>
          msg'[j] = "outstanding" /\ \A a \in Attempts(j) : pc'[a] \in Running => pc'[a] \in Guarded
    BY <1>2, <1>4
<1>8. \A a \in Attempts(j) : pc'[a] \in Concluded => Answered(j)'
    BY <1>1, <1>2 DEF JobOK
<1>9. \A a \in Attempts(j) : pc'[a] = "refuse" => request'[j] \in Unwelcome
    BY <1>1, <1>2 DEF JobOK
<1>10. Attempts(j)' = Attempts(j)
    BY DEF Attempts
<1>. QED
    BY <1>6, <1>7, <1>8, <1>9, <1>10 DEF JobOK, IsRunning, InLock

\* What holds of a handler about to take a step.
LEMMA Handling ==
    ASSUME WorkInv, NEW b \in Attempt, Handle(b)
    PROVE  /\ TypeOK /\ JobOf(b) \in Jobs /\ b \in Attempts(JobOf(b))
           /\ JobOK(JobOf(b)) /\ IsRunning(b) /\ msg[JobOf(b)] = "outstanding"
           /\ lockKey[JobOf(b)] \in Attempt => InLock(b)
           /\ request' = request /\ delivered' = delivered
           /\ Answered(JobOf(b)) => Answered(JobOf(b))'
<1>1. TypeOK /\ JobOf(b) \in Jobs /\ b \in Attempts(JobOf(b)) /\ JobOK(JobOf(b))
    BY AttemptType DEF WorkInv, MarkInv, Attempts
<1>2. IsRunning(b)
    <2>1. CASE Refuse(b) \/ CheckDone(b) \/ Acquire(b) \/ Recheck(b) \/ Work(b)
        BY <2>1 DEF Refuse, CheckDone, Acquire, Recheck, Work, Goto, IsRunning, Running, Guarded
    <2>2. CASE Answer(b) \/ Confirm(b) \/ Excuse(b) \/ Unwind(b) \/ MarkDone(b)
        BY <2>2 DEF Answer, Confirm, Excuse, Unwind, MarkDone, Goto, IsRunning, Running, Guarded
    <2>3. CASE Release(b) \/ Upload(b) \/ WriteResult(b) \/ AckMsg(b) \/ NakMsg(b)
        BY <2>3 DEF Release, Upload, WriteResult, AckMsg, NakMsg, Goto, IsRunning, Running, Guarded
    <2>. QED
        BY <2>1, <2>2, <2>3 DEF Handle
<1>3. [Next]_vars
    BY DEF Next
<1>4. request' = request /\ (Answered(JobOf(b)) => Answered(JobOf(b))')
    BY <1>1, <1>3, RequestConstant, AnsweredStays
<1>5. delivered' = delivered
    BY DEF Handle, Refuse, CheckDone, Acquire, Recheck, Work, Answer, Confirm, Excuse,
        Unwind, MarkDone, Release, Upload, WriteResult, AckMsg, NakMsg, queueVars
<1>. QED
    BY <1>1, <1>2, <1>4, <1>5 DEF JobOK

\* A step of a handler that leaves the message alone.
LEMMA HandlerGoes ==
    ASSUME WorkInv, NEW b \in Attempt, Handle(b), NEW from, NEW to \in Running \ {"refuse"},
           Goto(b, from, to), msg' = msg,
           lockKey'[JobOf(b)] \in Attempt => to \in Guarded,
           to \in Concluded => Answered(JobOf(b))'
    PROVE  JobOK(JobOf(b))'
<1>1. to \in PC /\ to # "refuse" /\ pc' = [pc EXCEPT ![b] = to]
    BY DEF Goto, PC
<1>2. msg'[JobOf(b)] = "outstanding"
    BY Handling
<1>. QED
    BY <1>1, <1>2, Handling, HandlerMoves

\* The verdict is published: the job is answered.
LEMMA VerdictAnswers ==
    ASSUME TypeOK, NEW b \in Attempt, NEW status \in Status, Publish(b, status),
           status \in Verdicts(JobOf(b)), request' = request
    PROVE  Answered(JobOf(b))'
<1>1. Said(JobOf(b), status)'
    BY PublishKeeps, AttemptType
<1>2. Verdicts(JobOf(b))' = Verdicts(JobOf(b))
    BY DEF Verdicts
<1>. QED
    BY <1>1, <1>2 DEF Answered

\* Until it takes the lock, a handler finds no token in the key.
LEMMA OutsideLock ==
    ASSUME WorkInv, NEW b \in Attempt, Handle(b), ~InLock(b)
    PROVE  lockKey[JobOf(b)] \notin Attempt
BY Handling

\* An unlosing step of Unlock leaves no token of its job in the key.
LEMMA UnlockFrees ==
    ASSUME WorkInv, NEW b \in Attempt, InLock(b), Unlock(b), "redis" \notin met'
    PROVE  lockKey'[JobOf(b)] \notin Attempt
<1>1. lockKey \in [Jobs -> Attempt \cup {None, Done}] /\ JobOf(b) \in Jobs
    BY AttemptType DEF WorkInv, LockInv, TypeOK
<1>2. lockKey[JobOf(b)] = b \/ lockKey[JobOf(b)] = Done
    BY DEF WorkInv, LockInv, Holds
<1>3. lockKey' = [lockKey EXCEPT ![JobOf(b)] = IF @ = b THEN None ELSE @]
    BY DEF Unlock, Fault
<1>. QED
    BY <1>1, <1>2, <1>3, NoneAssumption

\* What the handlers do, one line of handle_message at a time.
LEMMA HandlerKeeps ==
    ASSUME WorkInv, NEW b \in Attempt, Handle(b), met' \cap Losing = {}
    PROVE  JobOK(JobOf(b))'
<1>. DEFINE j == JobOf(b)
<1>0. /\ TypeOK /\ j \in Jobs /\ b \in Attempts(j) /\ JobOK(j)
      /\ msg[j] = "outstanding" /\ request' = request /\ delivered' = delivered
      /\ Answered(j) => Answered(j)'
    BY Handling
<1>1. pc[b] \in Concluded => Answered(j)'
    BY <1>0 DEF JobOK
<1>2. lockKey[j] = Done => Answered(j)'
    BY <1>0 DEF WorkInv, MarkInv, DoneIsAnswered
<1>3. request[j] \in RequestKind
    BY <1>0 DEF TypeOK
<1>4. "redis" \notin met'
    BY DEF Losing
<1>5. CASE Refuse(b)
    <2>0. pc[b] = "refuse" /\ lockKey' = lockKey /\ msg' = msg
        BY <1>5 DEF Refuse, Goto, queueVars
    <2>1. lockKey'[j] \notin Attempt
        BY <2>0, OutsideLock DEF InLock, Guarded
    <2>2. CASE Goto(b, "refuse", "ack") /\ Confirmed(b, "failed")
        <3>1. "failed" \in Verdicts(j) /\ "failed" \in Status
            BY <1>0, <2>0 DEF JobOK, Verdicts, Status, Unwelcome
        <3>2. Answered(j)'
            BY <1>0, <2>2, <3>1, VerdictAnswers DEF Confirmed
        <3>. QED
            BY <2>0, <2>1, <2>2, <3>2, HandlerGoes DEF Running
    <2>3. CASE Goto(b, "refuse", IF request[j] = "refused" THEN "nak" ELSE "check")
        <3>1. Goto(b, "refuse", "check") \/ Goto(b, "refuse", "nak")
            BY <2>3
        <3>. QED
            BY <2>0, <2>1, <3>1, HandlerGoes DEF Running, Concluded
    <2>. QED
        BY <1>5, <2>2, <2>3 DEF Refuse
<1>6. CASE CheckDone(b)
    <2>0. pc[b] = "check" /\ lockKey' = lockKey /\ msg' = msg
        BY <1>6 DEF CheckDone, Goto, queueVars
    <2>1. lockKey'[j] \notin Attempt
        BY <2>0, OutsideLock DEF InLock, Guarded
    <2>2. CASE Goto(b, "check", "ack") /\ lockKey[j] = Done
        BY <1>2, <2>0, <2>1, <2>2, HandlerGoes DEF Running
    <2>3. CASE Goto(b, "check", "acquire")
        BY <2>0, <2>1, <2>3, HandlerGoes DEF Running, Concluded
    <2>. QED
        BY <1>6, <2>2, <2>3 DEF CheckDone
<1>7. CASE Acquire(b)
    <2>0. pc[b] = "acquire" /\ msg' = msg
        BY <1>7 DEF Acquire, Goto, queueVars
    <2>1. lockKey[j] \notin Attempt
        BY <2>0, OutsideLock DEF InLock, Guarded
    <2>2. CASE Goto(b, "acquire", "recheck")
        BY <2>0, <2>2, HandlerGoes DEF Running, Guarded, Concluded
    <2>3. CASE Goto(b, "acquire", "ack") /\ lockKey[j] # None /\ lockKey' = lockKey
        <3>1. lockKey[j] = Done
            BY <1>0, <2>1, <2>3 DEF TypeOK
        <3>. QED
            BY <1>2, <2>0, <2>1, <2>3, <3>1, HandlerGoes DEF Running
    <2>. QED
        BY <1>4, <1>7, <2>2, <2>3 DEF Acquire, Fault
<1>8. CASE Recheck(b)
    <2>0. pc[b] = "recheck" /\ lockKey' = lockKey /\ msg' = msg
        BY <1>8 DEF Recheck, Goto, queueVars
    <2>1. CASE lockKey[j] = Done /\ Goto(b, "recheck", "ack")
        BY <1>2, <2>0, <2>1, NoneAssumption, HandlerGoes DEF Running
    <2>2. CASE Goto(b, "recheck", "work") \/ Goto(b, "recheck", "answer")
        BY <2>0, <2>2, HandlerGoes DEF Running, Guarded, Concluded
    <2>. QED
        BY <1>8, <2>1, <2>2 DEF Recheck
<1>9. CASE Work(b)
    <2>0. lockKey' = lockKey /\ msg' = msg
        BY <1>9 DEF Work, queueVars
    <2>1. Goto(b, "work", "answer") \/ Goto(b, "work", "excuse")
        BY <1>9 DEF Work
    <2>. QED
        BY <2>0, <2>1, HandlerGoes DEF Running, Guarded, Concluded
<1>10. CASE Answer(b)
    <2>0. lockKey' = lockKey /\ msg' = msg
        BY <1>10 DEF Answer, queueVars
    <2>1. CASE Goto(b, "answer", "unconfirmed")
        BY <2>0, <2>1, HandlerGoes DEF Running, Guarded, Concluded
    <2>2. ASSUME Goto(b, "answer", "confirm"),
                 Confirmed(b, IF Parses(j) THEN "completed" ELSE "failed")
          PROVE  JobOK(j)'
        <3>1. PICK status \in Verdicts(j) : Publish(b, status) /\ status \in Status
            BY <1>3, <2>2 DEF Confirmed, Verdicts, Parses, RequestKind, Status
        <3>2. Answered(j)'
            BY <1>0, <3>1, VerdictAnswers
        <3>. QED
            BY <2>0, <2>2, <3>2, HandlerGoes DEF Running, Guarded
    <2>. QED
        BY <1>10, <2>1, <2>2 DEF Answer
<1>11. CASE Confirm(b)
    <2>0. lockKey' = lockKey /\ msg' = msg
        BY <1>11 DEF Confirm, queueVars
    <2>1. CASE Goto(b, "confirm", "mark")
        <3>1. Answered(j)'
            BY <1>1, <2>1 DEF Goto, Concluded
        <3>. QED
            BY <2>0, <2>1, <3>1, HandlerGoes DEF Running, Guarded
    <2>2. ASSUME NEW from, NEW to \in {"excuse", "unwind"}, Goto(b, from, to)
          PROVE  JobOK(j)'
        BY <2>0, <2>2, HandlerGoes DEF Running, Guarded, Concluded
    <2>. QED
        BY <1>11, <2>1, <2>2 DEF Confirm
<1>12. CASE Excuse(b)
    <2>0. lockKey' = lockKey /\ msg' = msg /\ Goto(b, "excuse", "unwind")
        BY <1>12 DEF Excuse, queueVars
    <2>. QED
        BY <2>0, HandlerGoes DEF Running, Guarded, Concluded
<1>13. CASE Unwind(b)
    <2>0. msg' = msg /\ Goto(b, "unwind", "nak") /\ Unlock(b) /\ InLock(b)
        BY <1>13 DEF Unwind, queueVars, Goto, InLock, Guarded
    <2>. QED
        BY <1>4, <2>0, UnlockFrees, HandlerGoes DEF Running, Concluded
<1>14. CASE MarkDone(b)
    <2>0. msg' = msg /\ Goto(b, "mark", "release") /\ pc[b] = "mark"
        BY <1>14 DEF MarkDone, queueVars, Goto
    <2>1. Answered(j)'
        BY <1>1, <2>0 DEF Concluded
    <2>. QED
        BY <2>0, <2>1, HandlerGoes DEF Running, Guarded
<1>15. CASE Release(b)
    <2>0. msg' = msg /\ pc[b] = "release" /\ Unlock(b) /\ InLock(b)
        BY <1>15 DEF Release, queueVars, Goto, InLock, Guarded
    <2>1. Goto(b, "release", "upload") \/ Goto(b, "release", "ack")
        BY <1>15 DEF Release
    <2>2. Answered(j)'
        BY <1>1, <2>0 DEF Concluded
    <2>. QED
        BY <1>4, <2>0, <2>1, <2>2, UnlockFrees, HandlerGoes DEF Running
<1>16. CASE Upload(b) \/ WriteResult(b)
    <2>0. msg' = msg /\ lockKey' = lockKey /\ pc[b] \in {"upload", "write"}
        BY <1>16 DEF Upload, WriteResult, queueVars, Goto
    <2>1. PICK to \in {"write", "ack"} : Goto(b, pc[b], to)
        BY <1>16 DEF Upload, WriteResult, Goto
    <2>2. Answered(j)'
        BY <1>1, <2>0 DEF Concluded
    <2>3. lockKey'[j] \notin Attempt
        BY <2>0, OutsideLock DEF InLock, Guarded
    <2>. QED
        BY <2>0, <2>1, <2>2, <2>3, HandlerGoes DEF Running
<1>17. CASE AckMsg(b) \/ NakMsg(b)
    <2>0. lockKey' = lockKey /\ pc' = [pc EXCEPT ![b] = "end"] /\ pc[b] \in {"ack", "nak"}
        BY <1>17 DEF AckMsg, NakMsg, Goto
    <2>1. IsRunning(b) /\ lockKey'[j] \notin Attempt
        BY <2>0, OutsideLock DEF IsRunning, Running, InLock, Guarded
    <2>2. msg'[j] = "acked" => Answered(j)'
        <3>1. CASE AckMsg(b)
            BY <1>1, <2>0, <3>1 DEF AckMsg, Goto, Concluded
        <3>2. CASE NakMsg(b)
            BY <1>0, <3>2 DEF NakMsg, TypeOK
        <3>. QED
            BY <1>17, <3>1, <3>2
    <2>3. "end" \in PC /\ "end" \notin Running /\ "end" \notin Concluded
        BY DEF PC, Running, Guarded, Concluded
    <2>. QED
        BY <1>0, <2>0, <2>1, <2>2, <2>3, HandlerMoves
<1>. QED
    BY <1>5, <1>6, <1>7, <1>8, <1>9, <1>10, <1>11, <1>12, <1>13, <1>14, <1>15,
       <1>16, <1>17 DEF Handle

\* Nor does a handler touch another job.
LEMMA HandlerSpares ==
    ASSUME WorkInv, NEW b \in Attempt, Handle(b), NEW j \in Jobs, j # JobOf(b)
    PROVE  JobOK(j)'
<1>0. TypeOK /\ JobOK(j) /\ request' = request /\ delivered' = delivered
    BY Handling DEF WorkInv
<1>1. Answered(j) => Answered(j)'
    BY <1>0, AnsweredStays DEF Next
<1>2. \A a \in Attempts(j) : a # b
    BY DEF Attempts
<1>3. /\ \A a \in Attempts(j) : pc'[a] = pc[a]
      /\ msg'[j] = msg[j] /\ lockKey'[j] = lockKey[j]
    <2>. USE <1>0, <1>2 DEF TypeOK, Attempts, Goto, Unlock, queueVars
    <2>1. CASE Refuse(b) \/ CheckDone(b) \/ Recheck(b) \/ Work(b) \/ Answer(b)
        BY <2>1 DEF Refuse, CheckDone, Recheck, Work, Answer
    <2>2. CASE Confirm(b) \/ Excuse(b) \/ Upload(b) \/ WriteResult(b)
        BY <2>2 DEF Confirm, Excuse, Upload, WriteResult
    <2>3. CASE Acquire(b)
        BY <2>3 DEF Acquire
    <2>4. CASE Unwind(b) \/ MarkDone(b) \/ Release(b)
        BY <2>4 DEF Unwind, MarkDone, Release
    <2>5. CASE AckMsg(b) \/ NakMsg(b)
        BY <2>5 DEF AckMsg, NakMsg
    <2>. QED
        BY <2>1, <2>2, <2>3, <2>4, <2>5 DEF Handle
<1>. QED
    BY <1>0, <1>1, <1>3, Untouched

\* The queue, Redis and the replicas: a message comes back to a job without
\* handler and without lock, and only then.
LEMMA EnvironmentKeeps ==
    ASSUME WorkInv, StaleLocksRunOut, met' \cap Losing = {}, NEW j \in Jobs,
           \/ \E a \in Attempt : PublishInProgress(a)
           \/ \E i \in Jobs : \/ AckWaitElapses(i) \/ HeartbeatLost(i)
                              \/ LockExpires(i) \/ LockLapses(i) \/ DoneExpires(i)
                              \/ \E w \in Workers : Fetch(w, i)
           \/ \E w \in Workers : Crash(w) \/ Shutdown(w) \/ Restart(w)
    PROVE  JobOK(j)'
<1>0. TypeOK /\ JobOK(j) /\ None \notin Attempt
    BY NoneAssumption DEF WorkInv, MarkInv
<1>1. Next /\ request' = request /\ (Answered(j) => Answered(j)')
    BY <1>0, AnsweredStays, RequestConstant DEF Next
<1>2. ASSUME NEW a \in Attempt, PublishInProgress(a)
      PROVE  JobOK(j)'
    BY <1>0, <1>1, <1>2, Untouched DEF PublishInProgress, queueVars
<1>3. ASSUME NEW i \in Jobs, AckWaitElapses(i)
      PROVE  JobOK(j)'
    <2>1. delivered' = delivered /\ lockKey' = lockKey /\ pc' = pc
        BY <1>3 DEF AckWaitElapses
    <2>2. CASE i # j
        BY <1>0, <1>1, <1>3, <2>1, <2>2, Untouched DEF AckWaitElapses, TypeOK
    <2>3. CASE i = j
        <3>1. msg'[j] = "pending"
            BY <1>0, <1>3, <2>3 DEF AckWaitElapses, TypeOK
        <3>2. lockKey'[j] \notin Attempt
            BY <1>3, <2>1, <2>3 DEF AckWaitElapses, StaleLockGone, StaleLocksRunOut
        <3>3. \A a \in Attempts(j) : pc'[a] = pc[a] /\ pc'[a] \notin Running
            BY <1>3, <2>1, <2>3 DEF AckWaitElapses, Quiet, IsRunning
        <3>4. Attempts(j)' = Attempts(j)
            BY DEF Attempts
        <3>. QED
            BY <1>0, <1>1, <3>1, <3>2, <3>3, <3>4 DEF JobOK, IsRunning
    <2>. QED
        BY <2>2, <2>3
<1>4. ASSUME NEW i \in Jobs, HeartbeatLost(i) \/ LockLapses(i) \/ DoneExpires(i)
      PROVE  FALSE
    BY <1>4 DEF HeartbeatLost, LockLapses, DoneExpires, Fault, Losing
<1>5. ASSUME NEW i \in Jobs, LockExpires(i)
      PROVE  JobOK(j)'
    <2>1. msg' = msg /\ delivered' = delivered /\ pc' = pc
        BY <1>5 DEF LockExpires, queueVars
    <2>2. lockKey'[j] = lockKey[j] \/ lockKey'[j] \notin Attempt
        BY <1>0, <1>5 DEF LockExpires, TypeOK
    <2>. QED
        BY <1>0, <1>1, <2>1, <2>2, Untouched
<1>6. ASSUME NEW i \in Jobs, NEW w \in Workers, Fetch(w, i)
      PROVE  JobOK(j)'
    <2>. DEFINE b == <<i, delivered[i] + 1>>
    <2>0. b \in Attempt /\ b \in Attempts(i) /\ b[2] = delivered[i] + 1 /\ JobOf(b) = i
        BY <1>0, <1>6, BoundAssumption DEF Fetch, TypeOK, Attempt, Attempts, JobOf
    <2>1. lockKey' = lockKey
        BY <1>6 DEF Fetch
    <2>2. CASE i # j
        <3>1. msg'[j] = msg[j] /\ delivered'[j] = delivered[j]
            BY <1>0, <1>6, <2>2 DEF Fetch, TypeOK
        <3>2. \A a \in Attempts(j) : pc'[a] = pc[a]
            BY <1>0, <1>6, <2>0, <2>2 DEF Fetch, TypeOK, Attempts
        <3>. QED
            BY <1>0, <1>1, <2>1, <3>1, <3>2, Untouched
    <2>3. CASE i = j
        <3>1. msg[j] = "pending" /\ msg'[j] = "outstanding" /\ delivered'[j] = b[2]
            BY <1>0, <1>6, <2>0, <2>3 DEF Fetch, TypeOK
        <3>2. \A a \in Attempts(j) : ~IsRunning(a)
            BY <1>0, <3>1 DEF JobOK
        <3>3. lockKey'[j] \notin Attempt
            BY <1>0, <2>1, <3>1 DEF JobOK
        <3>4. pc'[b] = IF request[j] \in Unwelcome THEN "refuse" ELSE "check"
            BY <1>0, <1>6, <2>0, <2>3 DEF Fetch, TypeOK
        <3>5. \A a \in Attempts(j) : a = b \/ pc'[a] = pc[a]
            BY <1>0, <1>6, <2>0, <2>3 DEF Fetch, TypeOK, Attempts
        <3>6. \A a \in Attempts(j) : pc'[a] \in Running => a = b
            BY <3>2, <3>5 DEF IsRunning
        <3>7. \A a \in Attempts(j) : pc'[a] \in Concluded => Answered(j)'
            BY <1>0, <1>1, <3>4, <3>5 DEF JobOK, Concluded
        <3>8. \A a \in Attempts(j) : pc'[a] = "refuse" => request'[j] \in Unwelcome
            BY <1>0, <1>1, <3>4, <3>5 DEF JobOK
        <3>9. Attempts(j)' = Attempts(j)
            BY DEF Attempts
        <3>. QED
            BY <3>1, <3>3, <3>6, <3>7, <3>8, <3>9 DEF JobOK, IsRunning
    <2>. QED
        BY <2>2, <2>3
<1>7. ASSUME NEW w \in Workers, Crash(w) \/ Shutdown(w)
      PROVE  JobOK(j)'
    <2>1. msg' = msg /\ delivered' = delivered
        BY <1>7 DEF Crash, Shutdown, Stop, queueVars
    <2>2. \A a \in Attempts(j) : pc'[a] = pc[a] \/ pc'[a] = "end"
        BY <1>7 DEF Crash, Shutdown, Stop, Attempts
    <2>3. lockKey'[j] = lockKey[j] \/ lockKey'[j] \notin Attempt
        BY <1>0, <1>7 DEF Crash, Shutdown
    <2>. QED
        BY <1>0, <1>1, <2>1, <2>2, <2>3, Untouched
<1>8. ASSUME NEW w \in Workers, Restart(w)
      PROVE  JobOK(j)'
    BY <1>0, <1>1, <1>8, Untouched DEF Restart, queueVars
<1>. QED
    BY <1>2, <1>3, <1>4, <1>5, <1>6, <1>7, <1>8

\* What is left once one of the losing faults has happened: nothing.
UnlessLosing == WorkInv \/ met \cap Losing # {}

LEMMA WorkStep ==
    ASSUME StaleLocksRunOut, UnlessLosing, [Next]_vars
    PROVE  UnlessLosing'
<1>. SUFFICES ASSUME met' \cap Losing = {}
              PROVE  WorkInv'
    BY DEF UnlessLosing, Losing
<1>1. WorkInv
    BY MetGrows DEF UnlessLosing
<1>2. LockInv'
    BY <1>1, LockStep DEF WorkInv, UnlessLapsed, Losing
<1>3. MarkInv'
    BY <1>1, MarkInvStep DEF WorkInv
<1>4. ASSUME NEW j \in Jobs
      PROVE  JobOK(j)'
    <2>1. ASSUME NEW b \in Attempt, Handle(b)
          PROVE  JobOK(j)'
        BY <1>1, <2>1, HandlerKeeps, HandlerSpares
    <2>2. CASE UNCHANGED vars
        <3>1. JobOK(j) /\ TypeOK
            BY <1>1 DEF WorkInv, MarkInv
        <3>2. Answered(j) => Answered(j)'
            BY <3>1, AnsweredStays
        <3>. QED
            BY <2>2, <3>1, <3>2, Untouched DEF vars
    <2>. QED
        BY <1>1, <2>1, <2>2, EnvironmentKeeps DEF Next
<1>. QED
    BY <1>2, <1>3, <1>4 DEF WorkInv

LEMMA WorkInit == Init => WorkInv
<1>. SUFFICES ASSUME Init PROVE WorkInv
    OBVIOUS
<1>1. TypeOK
    BY InitType
<1>2. /\ \A a \in Attempt : pc[a] = "idle"
      /\ \A j \in Jobs : msg[j] = "pending" /\ lockKey[j] = None
    BY DEF Init
<1>3. LockInv
    BY <1>1, <1>2 DEF LockInv, Exclusive, InLock, Guarded
<1>4. MarkInv
    BY <1>1, <1>2, NoneAssumption DEF MarkInv, DoneIsAnswered, AboutToMark
<1>5. ASSUME NEW j \in Jobs
      PROVE  JobOK(j)
    BY <1>2, NoneAssumption DEF JobOK, IsRunning, Running, Guarded, Concluded, Attempts
<1>. QED
    BY <1>3, <1>4, <1>5 DEF WorkInv

\* No job is lost: however many replicas, jobs and faults there are, a message
\* that has left the consumer for good has had its verdict published.
THEOREM NothingLost == StaleLocksRunOut => (Spec => []AckedIsAnswered)
<1>1. Init => UnlessLosing
    BY WorkInit DEF UnlessLosing
<1>2. StaleLocksRunOut /\ UnlessLosing /\ [Next]_vars => UnlessLosing'
    BY WorkStep
<1>3. UnlessLosing => AckedIsAnswered
    BY DEF UnlessLosing, WorkInv, JobOK, AckedIsAnswered, Losing, Settled
<1>. SUFFICES ASSUME StaleLocksRunOut
              PROVE  Spec => []AckedIsAnswered
    OBVIOUS
<1>4. UnlessLosing /\ [Next]_vars => UnlessLosing'
    BY <1>2
<1>. QED
    BY <1>1, <1>3, <1>4, PTL DEF Spec

-----------------------------------------------------------------------------
(* The refinement.  A job is settled when its message is acknowledged: no  *)
(* handler of it is left then.                                             *)

LEMMA SettledIsAcked ==
    ASSUME NEW j \in Jobs, JobOK(j)
    PROVE  Settled(j) <=> msg[j] = "acked"
BY DEF JobOK, Settled, Quiet

\* What a step publishes, and whether it acknowledges.
LEMMA StepEffect ==
    ASSUME TypeOK, [Next]_vars
    PROVE  \/ /\ responses' = responses
              /\ \A j \in Jobs : msg'[j] = "acked" <=> msg[j] = "acked"
           \/ \E b \in Attempt : /\ IsRunning(b) /\ msg' = msg
                                 /\ \E s \in Verdicts(JobOf(b)) \cup {"failed"} : Publish(b, s)
           \/ \E b \in Attempt : msg' = msg /\ Publish(b, "in_progress")
           \/ \E b \in Attempt : AckMsg(b)
<1>. DEFINE Nothing == /\ responses' = responses
                      /\ \A j \in Jobs : msg'[j] = "acked" <=> msg[j] = "acked"
            Terminates(b) == /\ IsRunning(b) /\ msg' = msg
                             /\ \E s \in Verdicts(JobOf(b)) \cup {"failed"} : Publish(b, s)
<1>1. ASSUME NEW b \in Attempt, Handle(b)
      PROVE  Nothing \/ Terminates(b) \/ AckMsg(b)
    <2>1. CASE Refuse(b) \/ Excuse(b)
        BY <2>1 DEF Refuse, Excuse, Confirmed, Unsent, Goto, queueVars,
                    IsRunning, Running, Guarded
    <2>2. CASE Answer(b)
        <3>1. request[JobOf(b)] \in RequestKind
            BY AttemptType DEF TypeOK
        <3>2. (IF Parses(JobOf(b)) THEN "completed" ELSE "failed")
                  \in Verdicts(JobOf(b)) \cup {"failed"}
            BY <3>1 DEF Parses, Verdicts, RequestKind
        <3>3. IsRunning(b) /\ msg' = msg
            BY <2>2 DEF Answer, Goto, queueVars, IsRunning, Running, Guarded
        <3>. QED
            BY <2>2, <3>2, <3>3 DEF Answer, Confirmed
    <2>3. CASE NakMsg(b)
        BY <2>3 DEF NakMsg, TypeOK, outputVars
    <2>4. CASE CheckDone(b) \/ Acquire(b) \/ Recheck(b) \/ Work(b) \/ Confirm(b)
        BY <2>4 DEF CheckDone, Acquire, Recheck, Work, Confirm, queueVars, outputVars
    <2>5. CASE Unwind(b) \/ MarkDone(b) \/ Release(b) \/ Upload(b) \/ WriteResult(b)
        BY <2>5 DEF Unwind, MarkDone, Release, Upload, WriteResult, queueVars, outputVars
    <2>. QED
        BY <1>1, <2>1, <2>2, <2>3, <2>4, <2>5 DEF Handle
<1>2. ASSUME NEW b \in Attempt, PublishInProgress(b)
      PROVE  Nothing \/ (msg' = msg /\ Publish(b, "in_progress"))
    BY <1>2 DEF PublishInProgress, Confirmed, Unsent, queueVars
<1>3. ASSUME NEW j \in Jobs, NEW w \in Workers, Fetch(w, j)
      PROVE  Nothing
    BY <1>3 DEF Fetch, TypeOK, outputVars
<1>4. ASSUME NEW j \in Jobs, AckWaitElapses(j) \/ HeartbeatLost(j)
      PROVE  Nothing
    BY <1>4 DEF AckWaitElapses, HeartbeatLost, TypeOK, outputVars
<1>5. ASSUME NEW j \in Jobs, LockExpires(j) \/ LockLapses(j) \/ DoneExpires(j)
      PROVE  Nothing
    BY <1>5 DEF LockExpires, LockLapses, DoneExpires, queueVars, outputVars
<1>6. ASSUME NEW w \in Workers, Crash(w) \/ Shutdown(w) \/ Restart(w)
      PROVE  Nothing
    BY <1>6 DEF Crash, Shutdown, Restart, Stop, queueVars, outputVars
<1>7. CASE UNCHANGED vars
    BY <1>7 DEF vars
<1>. QED
    BY <1>1, <1>2, <1>3, <1>4, <1>5, <1>6, <1>7 DEF Next

\* The terminal statuses published, the abstract variable.
Published == [j \in Jobs |-> {s \in Terminal : Said(j, s)}]

\* One more response says what it says and nothing else.
LEMMA PublishSays ==
    ASSUME TypeOK, NEW b \in Attempt, NEW s \in Status, Publish(b, s),
           NEW j \in Jobs, NEW t \in Status, Said(j, t)'
    PROVE  Said(j, t) \/ (j = JobOf(b) /\ t = s)
<1>. DEFINE r == [by |-> b, status |-> s]
<1>1. responses[j] \in Seq(Response) /\ r \in Response
    BY DEF TypeOK, Response
<1>2. CASE j # JobOf(b)
    BY <1>2 DEF Publish, Said, TypeOK
<1>3. CASE j = JobOf(b)
    <2>1. responses'[j] = Append(responses[j], r)
        BY <1>3 DEF Publish, TypeOK
    <2>2. PICK i \in DOMAIN responses'[j] : responses'[j][i].status = t
        BY DEF Said
    <2>3. \/ i \in DOMAIN responses[j] /\ responses'[j][i] = responses[j][i]
          \/ responses'[j][i] = r
        BY <1>1, <2>1, <2>2
    <2>. QED
        BY <1>3, <2>2, <2>3 DEF Said
<1>. QED
    BY <1>2, <1>3

LEMMA PublishPublishes ==
    ASSUME TypeOK, NEW b \in Attempt, NEW s \in Terminal, Publish(b, s)
    PROVE  Published' = [Published EXCEPT ![JobOf(b)] = @ \cup {s}]
<1>1. s \in Status /\ Terminal \subseteq Status
    BY DEF Terminal, Status
<1>2. ASSUME NEW j \in Jobs, NEW t \in Terminal
      PROVE  Said(j, t)' <=> Said(j, t) \/ (j = JobOf(b) /\ t = s)
    BY <1>1, PublishSays, PublishKeeps
<1>3. \A j \in Jobs : {t \in Terminal : Said(j, t)'} =
          IF j = JobOf(b) THEN {t \in Terminal : Said(j, t)} \cup {s}
                          ELSE {t \in Terminal : Said(j, t)}
    BY <1>2
<1>. QED
    BY <1>3, AttemptType DEF Published

LEMMA InProgressPublishesNone ==
    ASSUME TypeOK, NEW b \in Attempt, Publish(b, "in_progress")
    PROVE  Published' = Published
<1>1. "in_progress" \in Status /\ "in_progress" \notin Terminal /\ Terminal \subseteq Status
    BY DEF Terminal, Status
<1>2. ASSUME NEW j \in Jobs, NEW t \in Terminal
      PROVE  Said(j, t)' <=> Said(j, t)
    BY <1>1, PublishSays, PublishKeeps
<1>. QED
    BY <1>2 DEF Published

\* Every step of the worker is one of JobDelivery, or none.
LEMMA PromiseStep ==
    ASSUME WorkInv, WorkInv', [Next]_vars
    PROVE  [Promise!Next]_(Promise!vars)
<1>. DEFINE S == [j \in Jobs |-> Settled(j)]
<1>0. TypeOK /\ request' = request /\ \A j \in Jobs : JobOK(j) /\ JobOK(j)'
    BY RequestConstant DEF WorkInv, MarkInv
<1>1. \A j \in Jobs : /\ Settled(j) <=> msg[j] = "acked"
                      /\ Settled(j)' <=> msg'[j] = "acked"
    <2>1. ASSUME NEW j \in Jobs
          PROVE  Settled(j) <=> msg[j] = "acked"
        BY <1>0, SettledIsAcked
    <2>2. ASSUME NEW j \in Jobs
          PROVE  Settled(j)' <=> msg'[j] = "acked"
        <3>1. \A a \in Attempts(j)' : ~(msg'[j] = "acked" /\ IsRunning(a)')
            BY <1>0 DEF JobOK
        <3>. QED
            BY <3>1 DEF Settled, Quiet
    <2>. QED
        BY <2>1, <2>2
<1>2. ASSUME \A j \in Jobs : msg'[j] = "acked" <=> msg[j] = "acked"
      PROVE  S' = S
    <2>1. \A j \in Jobs : Settled(j)' = Settled(j)
        BY <1>1, <1>2 DEF Settled
    <2>. QED
        BY <2>1
<1>3. ASSUME responses' = responses
      PROVE  Published' = Published
    BY <1>3 DEF Published, Said
<1>4. \A j \in Jobs : Promise!Verdicts(j) = Verdicts(j)
    BY DEF Promise!Verdicts, Verdicts
<1>5. ASSUME request' = request, Published' = Published, S' = S
      PROVE  UNCHANGED Promise!vars
    BY <1>5 DEF Promise!vars, Published
<1>6. ASSUME NEW b \in Attempt, IsRunning(b), msg' = msg,
             NEW s \in Verdicts(JobOf(b)) \cup {"failed"}, Publish(b, s)
      PROVE  Promise!Conclude(JobOf(b))
    <2>1. JobOf(b) \in Jobs /\ b \in Attempts(JobOf(b))
        BY AttemptType DEF Attempts
    <2>2. ~S[JobOf(b)]
        BY <1>0, <1>1, <1>6, <2>1 DEF JobOK
    <2>3. s \in Terminal
        BY <1>6 DEF Verdicts, Terminal
    <2>4. Published' = [Published EXCEPT ![JobOf(b)] = @ \cup {s}]
        BY <1>0, <1>6, <2>3, PublishPublishes
    <2>5. S' = S
        BY <1>2, <1>6
    <2>. QED
        BY <1>0, <1>4, <1>6, <2>1, <2>2, <2>4, <2>5 DEF Promise!Conclude, Published
<1>7. ASSUME NEW b \in Attempt, AckMsg(b)
      PROVE  Promise!Settle(JobOf(b)) \/ UNCHANGED Promise!vars
    <2>1. JobOf(b) \in Jobs
        BY AttemptType
    <2>2. Published' = Published
        BY <1>3, <1>7 DEF AckMsg, outputVars
    <2>3. CASE msg' = msg
        BY <1>0, <1>2, <1>5, <2>2, <2>3
    <2>4. CASE msg' = [msg EXCEPT ![JobOf(b)] = "acked"]
        <3>1. \A j \in Jobs : msg'[j] = IF j = JobOf(b) THEN "acked" ELSE msg[j]
            BY <1>0, <2>4 DEF TypeOK
        <3>2. \A j \in Jobs : Settled(j)' = IF j = JobOf(b) THEN TRUE ELSE Settled(j)
            BY <1>1, <3>1 DEF Settled
        <3>3. S' = [S EXCEPT ![JobOf(b)] = TRUE]
            BY <3>2
        <3>4. Answered(JobOf(b))
            <4>1. Answered(JobOf(b))'
                BY <1>0, <2>1, <3>1 DEF JobOK
            <4>2. responses' = responses
                BY <1>7 DEF AckMsg, outputVars
            <4>. QED
                BY <1>0, <4>1, <4>2 DEF Answered, Said, Verdicts
        <3>5. Verdicts(JobOf(b)) \subseteq Terminal
            BY DEF Verdicts, Terminal
        <3>6. Verdicts(JobOf(b)) \cap Published[JobOf(b)] # {}
            BY <2>1, <3>4, <3>5 DEF Answered, Published
        <3>. QED
            BY <1>0, <1>4, <2>1, <2>2, <3>3, <3>6 DEF Promise!Settle, Published
    <2>. QED
        BY <1>7, <2>3, <2>4 DEF AckMsg
<1>. QED
    <2>1. CASE /\ responses' = responses
               /\ \A j \in Jobs : msg'[j] = "acked" <=> msg[j] = "acked"
        BY <1>0, <1>2, <1>3, <1>5, <2>1
    <2>2. ASSUME NEW b \in Attempt, msg' = msg, Publish(b, "in_progress")
          PROVE  UNCHANGED Promise!vars
        BY <1>0, <1>2, <1>5, <2>2, InProgressPublishesNone
    <2>. QED
        BY <1>0, <1>6, <1>7, <2>1, <2>2, StepEffect, AttemptType DEF Promise!Next

LEMMA PromiseInit == Init => Promise!Init
<1>. SUFFICES ASSUME Init PROVE Promise!Init
    OBVIOUS
<1>1. \A j \in Jobs : responses[j] = <<>> /\ msg[j] = "pending"
    BY DEF Init
<1>2. \A j \in Jobs : {s \in Terminal : Said(j, s)} = {} /\ Settled(j) = FALSE
    <2>1. ASSUME NEW j \in Jobs
          PROVE  Settled(j) = FALSE
        <3>1. msg[j] # "acked"
            BY <1>1
        <3>2. ~Settled(j)
            BY <3>1 DEF Settled
        <3>3. Settled(j) \in BOOLEAN
            BY DEF Settled
        <3>. QED
            BY <3>2, <3>3
    <2>2. \A j \in Jobs : DOMAIN responses[j] = {}
        <3>1. <<>> \in Seq(Response) /\ Len(<<>>) = 0
            OBVIOUS
        <3>2. ASSUME NEW q \in Seq(Response), Len(q) = 0
              PROVE  DOMAIN q = {}
            BY <3>2
        <3>. QED
            BY <1>1, <3>1, <3>2
    <2>3. \A j \in Jobs, s \in Terminal : ~Said(j, s)
        BY <2>2 DEF Said
    <2>. QED
        BY <2>1, <2>3
<1>3. request \in [Jobs -> RequestKind]
    BY DEF Init
<1>. QED
    BY <1>2, <1>3 DEF Promise!Init, RequestKind

\* Seen through its responses and acknowledgements the worker is JobDelivery:
\* a job settles only after a verdict it deserves, and is then left alone.
THEOREM WorkerDelivers ==
    ASSUME StaleLocksRunOut, Faults \cap Losing = {}
    PROVE  Spec => KeepsPromise
<1>1. Init => Promise!Init
    BY PromiseInit
<1>2. Init => WorkInv
    BY WorkInit
<1>3. WorkInv /\ [Next]_vars => WorkInv'
    <2>. SUFFICES ASSUME WorkInv, [Next]_vars PROVE WorkInv'
        OBVIOUS
    <2>1. UnlessLosing'
        BY WorkStep DEF UnlessLosing
    <2>2. met' \cap Losing = {}
        BY NextType DEF WorkInv, MarkInv, TypeOK
    <2>. QED
        BY <2>1, <2>2 DEF UnlessLosing
<1>4. WorkInv /\ WorkInv' /\ [Next]_vars => [Promise!Next]_(Promise!vars)
    BY PromiseStep
<1>. QED
    BY <1>1, <1>2, <1>3, <1>4, PTL DEF Spec, KeepsPromise, Promise!Spec

-----------------------------------------------------------------------------
(***************************************************************************)
(* The other side of the worker: it uses the queue as WorkQueue allows.    *)
(* The type invariant is all this takes, so it holds under every fault; an *)
(* ack or a nak that is lost, a crash and a shutdown are handlers that     *)
(* vanish without a word.                                                  *)
(***************************************************************************)
Unmoved == UNCHANGED <<queueVars, UnderWay, "heartbeat" \in met>>

LEMMA OtherFaults ==
    ASSUME NEW kind \in FaultKind \ {"heartbeat"}, Fault(kind)
    PROVE  ("heartbeat" \in met') = ("heartbeat" \in met)
BY DEF Fault

LEMMA RunsOn ==
    ASSUME TypeOK, NEW a \in Attempt, NEW from \in Running, NEW to, Goto(a, from, to)
    PROVE  /\ a \in UnderWay
           /\ to \in Running => UnderWay' = UnderWay
           /\ to = "end" => UnderWay' = UnderWay \ {a}
<1>1. pc[a] \in Running /\ \A b \in Attempt : pc'[b] = IF b = a THEN to ELSE pc[b]
    BY DEF Goto, TypeOK
<1>2. "end" \notin Running
    BY DEF Running, Guarded
<1>. QED
    BY <1>1, <1>2 DEF UnderWay, IsRunning

\* A handler that neither acks nor naks changes nothing the queue sees.
LEMMA HandlerUnmoved ==
    ASSUME TypeOK, NEW a \in Attempt, Handle(a), ~AckMsg(a), ~NakMsg(a)
    PROVE  Unmoved
<1>1. \E from, to \in Running : Goto(a, from, to)
    <2>1. CASE Refuse(a) \/ CheckDone(a) \/ Acquire(a) \/ Recheck(a) \/ Work(a)
        BY <2>1 DEF Refuse, CheckDone, Acquire, Recheck, Work, Running, Guarded
    <2>2. CASE Answer(a) \/ Confirm(a) \/ Excuse(a) \/ Unwind(a) \/ MarkDone(a)
        BY <2>2 DEF Answer, Confirm, Excuse, Unwind, MarkDone, Running, Guarded
    <2>3. CASE Release(a) \/ Upload(a) \/ WriteResult(a)
        BY <2>3 DEF Release, Upload, WriteResult, Running, Guarded
    <2>. QED
        BY <2>1, <2>2, <2>3 DEF Handle
<1>2. UnderWay' = UnderWay
    BY <1>1, RunsOn
<1>3. UNCHANGED queueVars
    BY DEF Handle, Refuse, CheckDone, Acquire, Recheck, Work, Answer, Confirm, Excuse,
        Unwind, MarkDone, Release, Upload, WriteResult
<1>4. met' = met \/ \E kind \in FaultKind \ {"heartbeat"} : Fault(kind)
    <2>1. CASE Refuse(a) \/ CheckDone(a) \/ Acquire(a) \/ Recheck(a) \/ Work(a)
        BY <2>1 DEF Refuse, CheckDone, Acquire, Recheck, Work, Confirmed, Unsent,
                    NoFault, faultVars, FaultKind
    <2>2. CASE Answer(a) \/ Confirm(a) \/ Excuse(a) \/ Unwind(a) \/ MarkDone(a)
        BY <2>2 DEF Answer, Confirm, Excuse, Unwind, MarkDone, Confirmed, Unsent, Unlock,
                    NoFault, faultVars, FaultKind
    <2>3. CASE Release(a) \/ Upload(a) \/ WriteResult(a)
        BY <2>3 DEF Release, Upload, WriteResult, Unlock, NoFault, faultVars, FaultKind
    <2>. QED
        BY <2>1, <2>2, <2>3 DEF Handle
<1>5. ("heartbeat" \in met') = ("heartbeat" \in met)
    BY <1>4, OtherFaults
<1>. QED
    BY <1>2, <1>3, <1>5 DEF Unmoved

\* One that does ends with it, whether the server hears of it or not.
LEMMA HandlerSettles ==
    ASSUME TypeOK, NEW a \in Attempt, AckMsg(a) \/ NakMsg(a)
    PROVE  Queue!Next
<1>1. /\ a \in UnderWay /\ UnderWay' = UnderWay \ {a} /\ delivered' = delivered
    BY RunsOn DEF AckMsg, NakMsg, Running, Guarded
<1>2. Queue!Ends(a) /\ a[1] = JobOf(a)
    BY <1>1 DEF Queue!Ends, JobOf
<1>3. CASE NoFault /\ AckMsg(a) /\ msg' = [msg EXCEPT ![JobOf(a)] = "acked"]
    <2>1. Queue!Ack(a)
        BY <1>1, <1>2, <1>3 DEF Queue!Ack, Queue!Becomes, NoFault, faultVars
    <2>. QED
        BY <1>1, <2>1 DEF Queue!Next
<1>4. CASE NoFault /\ NakMsg(a) /\ msg' = [msg EXCEPT ![JobOf(a)] =
                        IF @ = "outstanding" THEN "pending" ELSE @]
    <2>1. Queue!Nak(a)
        BY <1>1, <1>2, <1>4 DEF Queue!Nak, Queue!Becomes, NoFault, faultVars
    <2>. QED
        BY <1>1, <2>1 DEF Queue!Next
<1>5. CASE Fault("ack") /\ msg' = msg
    <2>1. ("heartbeat" \in met') = ("heartbeat" \in met)
        BY <1>5, OtherFaults DEF FaultKind
    <2>2. Queue!Vanish
        BY <1>1, <1>5, <2>1 DEF Queue!Vanish
    <2>. QED
        BY <2>2 DEF Queue!Next
<1>. QED
    BY <1>3, <1>4, <1>5 DEF AckMsg, NakMsg

LEMMA FetchDelivers ==
    ASSUME TypeOK, NEW w \in Workers, NEW j \in Jobs, Fetch(w, j)
    PROVE  Queue!Deliver(j)
<1>. DEFINE a == <<j, delivered[j] + 1>>
<1>1. a \in Attempt
    BY BoundAssumption DEF Fetch, Attempt, TypeOK
<1>2. \A b \in Attempt : b # a => pc'[b] = pc[b]
    BY DEF Fetch, TypeOK
<1>3. pc'[a] \in {"refuse", "check"}
    BY <1>1 DEF Fetch, TypeOK
<1>4. UnderWay' = UnderWay \cup {a}
    BY <1>1, <1>2, <1>3 DEF UnderWay, IsRunning, Running
<1>. QED
    BY <1>4 DEF Fetch, Queue!Deliver, Queue!Becomes, faultVars

\* What the handlers of a stopped replica were doing is gone.
LEMMA StopVanishes ==
    ASSUME TypeOK, NEW w \in Workers, Crash(w) \/ Shutdown(w)
    PROVE  Queue!Vanish
<1>1. Stop(w) /\ ("heartbeat" \in met') = ("heartbeat" \in met)
    BY OtherFaults DEF Crash, Shutdown, FaultKind
<1>2. \A a \in Attempt : pc'[a] \in {pc[a], "end"}
    BY <1>1 DEF Stop
<1>3. UnderWay' \subseteq UnderWay
    BY <1>2 DEF UnderWay, IsRunning, Running, Guarded
<1>. QED
    BY <1>1, <1>3 DEF Stop, queueVars, Queue!Vanish

LEMMA QueueUsed ==
    ASSUME TypeOK, [Next]_vars
    PROVE  [Queue!Next]_(Queue!vars)
<1>0. ASSUME Unmoved
      PROVE  UNCHANGED Queue!vars
    BY <1>0 DEF Unmoved, Queue!vars, queueVars
<1>1. ASSUME NEW a \in Attempt, Handle(a)
      PROVE  Queue!Next \/ Unmoved
    BY <1>1, HandlerUnmoved, HandlerSettles
<1>2. ASSUME NEW a \in Attempt, PublishInProgress(a)
      PROVE  Unmoved
    <2>1. UNCHANGED <<queueVars, pc>>
        BY <1>2 DEF PublishInProgress
    <2>2. met' = met \/ Fault("publish")
        BY <1>2 DEF PublishInProgress, Confirmed, Unsent, NoFault, faultVars
    <2>3. ("heartbeat" \in met') = ("heartbeat" \in met)
        BY <2>2, OtherFaults DEF FaultKind
    <2>. QED
        BY <2>1, <2>3 DEF Unmoved, UnderWay, IsRunning
<1>3. ASSUME NEW w \in Workers, NEW j \in Jobs, Fetch(w, j)
      PROVE  Queue!Next
    BY <1>3, FetchDelivers DEF Queue!Next
<1>4. ASSUME NEW j \in Jobs, AckWaitElapses(j) \/ HeartbeatLost(j)
      PROVE  Queue!Next
    <2>1. UnderWay' = UnderWay /\ delivered' = delivered
        BY <1>4 DEF AckWaitElapses, HeartbeatLost, UnderWay, IsRunning
    <2>2. Queue!Handled(j) <=> ~Quiet(j)
        BY DEF Queue!Handled, Quiet, UnderWay, Attempts, JobOf
    <2>3. Queue!Overdue(j)
        BY <1>4 DEF AckWaitElapses, HeartbeatLost, Queue!Overdue, Queue!Becomes
    <2>4. CASE AckWaitElapses(j)
        <3>1. Queue!AckWaitElapses(j)
            BY <2>1, <2>2, <2>3, <2>4 DEF AckWaitElapses, faultVars, Queue!AckWaitElapses
        <3>. QED
            BY <3>1 DEF Queue!Next
    <2>5. CASE HeartbeatLost(j)
        <3>1. ("heartbeat" \in met') = TRUE
            BY <2>5 DEF HeartbeatLost, Fault
        <3>2. Queue!HeartbeatLost(j)
            BY <2>1, <2>2, <2>3, <2>5, <3>1 DEF HeartbeatLost, Queue!HeartbeatLost
        <3>. QED
            BY <3>2 DEF Queue!Next
    <2>. QED
        BY <1>4, <2>4, <2>5
<1>5. ASSUME NEW j \in Jobs, LockExpires(j) \/ LockLapses(j) \/ DoneExpires(j)
      PROVE  Unmoved
    <2>1. UNCHANGED <<queueVars, pc>>
        BY <1>5 DEF LockExpires, LockLapses, DoneExpires
    <2>2. met' = met \/ Fault("lapse") \/ Fault("outage")
        BY <1>5 DEF LockExpires, LockLapses, DoneExpires, faultVars
    <2>3. ("heartbeat" \in met') = ("heartbeat" \in met)
        BY <2>2, OtherFaults DEF FaultKind
    <2>. QED
        BY <2>1, <2>3 DEF Unmoved, UnderWay, IsRunning
<1>6. ASSUME NEW w \in Workers, Crash(w) \/ Shutdown(w)
      PROVE  Queue!Next
    BY <1>6, StopVanishes DEF Queue!Next
<1>7. ASSUME NEW w \in Workers, Restart(w)
      PROVE  Unmoved
    BY <1>7 DEF Restart, Unmoved, UnderWay, IsRunning, faultVars
<1>8. ASSUME UNCHANGED vars
      PROVE  Unmoved
    BY <1>8 DEF vars, Unmoved, queueVars, UnderWay, IsRunning
<1>. QED
    BY <1>0, <1>1, <1>2, <1>3, <1>4, <1>5, <1>6, <1>7, <1>8 DEF Next

LEMMA QueueUsedInit == Init => Queue!Init
<1>. SUFFICES ASSUME Init PROVE Queue!Init
    OBVIOUS
<1>1. UnderWay = {}
    BY DEF Init, UnderWay, IsRunning, Running, Guarded
<1>2. ("heartbeat" \in met) = FALSE
    BY DEF Init
<1>. QED
    BY <1>1, <1>2 DEF Init, Queue!Init

\* Whatever goes wrong, the worker takes nothing of NATS but what WorkQueue
\* promises, and StreamServes proves that the consumer it configures keeps
\* that promise.
THEOREM WorkerUsesQueue == Spec => UsesQueue
<1>1. Init => Queue!Init
    BY QueueUsedInit
<1>2. Init => TypeOK
    BY InitType
<1>3. TypeOK /\ [Next]_vars => TypeOK'
    BY NextType
<1>4. TypeOK /\ [Next]_vars => [Queue!Next]_(Queue!vars)
    BY QueueUsed
<1>. QED
    BY <1>1, <1>2, <1>3, <1>4, PTL DEF Spec, UsesQueue, Queue!Spec
=============================================================================
