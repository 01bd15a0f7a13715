-------------------------- MODULE SyncStreamingProofs --------------------------
(***************************************************************************)
(* Proofs about SyncStreaming: the pool counter of a replica of the        *)
(* streaming worker, the uniqueness of a job's stream, the order of the    *)
(* responses and what a completed row means, for any jobs, replicas, pool  *)
(* size and number of faults.                                              *)
(***************************************************************************)
EXTENDS SyncStreaming, FiniteSetTheorems, TLAPS

(***************************************************************************)
(* The inductive invariant.  The counter is right because no replica opens *)
(* the stream of a job twice; that is so because a job's init is sent      *)
(* once, so a job is on a replica's queue, or taken off it and its task    *)
(* created, or its stream opened, one after the other (Stages).  Its       *)
(* stream is the only one because whoever is past the queue has the lock   *)
(* (Locked).                                                               *)
(***************************************************************************)
Waits(r, j) == \E i \in DOMAIN inits[r] : inits[r][i] = j
Counted(r)  == {j \in Jobs : Subscribed(r, j)}

WeakType ==
    /\ inits   \in [Replicas -> Seq(Jobs)]
    /\ spawned \in [Replicas -> SUBSET Jobs]
    /\ stream  \in [Replicas -> [Jobs -> StreamState]]
    /\ active  \in [Replicas -> Int]
    /\ lock    \in [Jobs -> Replicas \cup {None}]

Once(q) == \A i, k \in DOMAIN q : q[i] = q[k] => i = k

Stages(r, j) ==
    /\ Waits(r, j) => j \notin spawned[r] /\ stream[r][j] = "none"
    /\ j \in spawned[r] => stream[r][j] = "none"
    /\ phase[j] \in {"none", "created"} =>
          ~Waits(r, j) /\ j \notin spawned[r] /\ stream[r][j] = "none"

Counts(r) == IsFiniteSet(Counted(r)) /\ active[r] = Cardinality(Counted(r))

Locked(r, j) == met \cap {"lapse", "redis"} = {} =>
    (j \in spawned[r] \/ stream[r][j] = "open" => lock[j] = r)

Inv ==
    /\ WeakType
    /\ phase \in [Jobs -> {"none", "created", "waiting", "streaming", "closing", "closed"}]
    /\ \A r \in Replicas : Once(inits[r]) /\ Counts(r)
    /\ \A r \in Replicas, j \in Jobs : Stages(r, j) /\ Locked(r, j)

LEMMA InvInit == StreamingInit => Inv
<1>. SUFFICES ASSUME StreamingInit
              PROVE  Inv
    OBVIOUS
<1>. USE DEF StreamingInit, Init, S!SessionInit
<1>1. WeakType
    BY DEF WeakType, StreamState
<1>2. phase \in [Jobs -> {"none", "created", "waiting", "streaming", "closing", "closed"}]
    OBVIOUS
<1>3. ASSUME NEW r \in Replicas
      PROVE  Once(inits[r]) /\ Counts(r)
    <2>1. Counted(r) = {}
        BY DEF Counted, Subscribed
    <2>. QED
        BY <2>1, FS_EmptySet DEF Once, Counts
<1>4. ASSUME NEW r \in Replicas, NEW j \in Jobs
      PROVE  Stages(r, j) /\ Locked(r, j)
    BY DEF Stages, Locked, Waits
<1>. QED
    BY <1>1, <1>2, <1>3, <1>4 DEF Inv

-----------------------------------------------------------------------------
(* Queues.                                                                 *)

LEMMA TailOfOnce ==
    ASSUME NEW q \in Seq(Jobs), q # <<>>, Once(q)
    PROVE  /\ Head(q) \in Jobs /\ Tail(q) \in Seq(Jobs) /\ Once(Tail(q))
           /\ \E i \in DOMAIN q : q[i] = Head(q)
           /\ \A i \in DOMAIN Tail(q) : /\ Tail(q)[i] # Head(q)
                                        /\ \E k \in DOMAIN q : q[k] = Tail(q)[i]
<1>1. Len(q) \in Nat /\ Len(q) >= 1 /\ DOMAIN q = 1..Len(q) /\ Head(q) = q[1]
    OBVIOUS
<1>2. Tail(q) \in Seq(Jobs) /\ DOMAIN Tail(q) = 1..Len(q) - 1
    BY <1>1
<1>3. \A i \in 1..Len(q) - 1 : Tail(q)[i] = q[i + 1] /\ i + 1 \in 1..Len(q)
    BY <1>1
<1>. QED
    BY <1>1, <1>2, <1>3 DEF Once

LEMMA AppendOfOnce ==
    ASSUME NEW q \in Seq(Jobs), NEW j \in Jobs, Once(q), \A i \in DOMAIN q : q[i] # j
    PROVE  /\ Append(q, j) \in Seq(Jobs) /\ Once(Append(q, j))
           /\ \A i \in DOMAIN Append(q, j) :
                 Append(q, j)[i] = j \/ \E k \in DOMAIN q : q[k] = Append(q, j)[i]
<1>1. Len(q) \in Nat /\ DOMAIN q = 1..Len(q)
    OBVIOUS
<1>2. Append(q, j) \in Seq(Jobs) /\ DOMAIN Append(q, j) = 1..Len(q) + 1
    BY <1>1
<1>3. \A i \in 1..Len(q) + 1 : Append(q, j)[i] = IF i = Len(q) + 1 THEN j ELSE q[i]
    BY <1>1
<1>4. \A i \in 1..Len(q) + 1 : i # Len(q) + 1 => i \in 1..Len(q)
    BY <1>1
<1>. QED
    BY <1>1, <1>2, <1>3, <1>4 DEF Once

-----------------------------------------------------------------------------
(* What every step keeps: what it does not touch.                          *)

\* Neither queue, tasks, streams nor counter of replica r change.
Idle(r) == /\ inits'[r] = inits[r] /\ spawned'[r] = spawned[r]
           /\ stream'[r] = stream[r] /\ active'[r] = active[r]

LEMMA IdleKept ==
    ASSUME Inv, NEW r \in Replicas, Idle(r),
           \A j \in Jobs : phase'[j] \in {"none", "created"} => phase[j] \in {"none", "created"}
    PROVE  /\ Once(inits'[r]) /\ Counts(r)'
           /\ \A j \in Jobs : Stages(r, j)'
<1>1. Counted(r)' = Counted(r)
    BY DEF Counted, Subscribed, Idle
<1>2. Once(inits'[r]) /\ Counts(r)'
    BY <1>1 DEF Inv, Idle, Counts
<1>3. ASSUME NEW j \in Jobs
      PROVE  Stages(r, j)'
    BY DEF Inv, Idle, Stages, Waits
<1>. QED
    BY <1>2, <1>3

LEMMA LockKept ==
    ASSUME Inv, NEW r \in Replicas, NEW j \in Jobs, met \subseteq met',
           j \in spawned'[r] => j \in spawned[r],
           stream'[r][j] = "open" => stream[r][j] = "open" \/ j \in spawned[r],
           lock'[j] = lock[j]
    PROVE  Locked(r, j)'
BY DEF Inv, Locked

\* No step of these kinds touches the worker's own state.
LEMMA QuietStep ==
    ASSUME Inv, UNCHANGED ownVars, UNCHANGED inits, met \subseteq met',
           phase' \in [Jobs -> {"none", "created", "waiting", "streaming", "closing", "closed"}],
           \A j \in Jobs : phase'[j] \in {"none", "created"} => phase[j] \in {"none", "created"}
    PROVE  Inv'
<1>. USE DEF ownVars
<1>1. WeakType'
    BY DEF Inv, WeakType
<1>2. \A r \in Replicas : Idle(r)
    BY DEF Idle
<1>3. \A r \in Replicas, j \in Jobs : Locked(r, j)'
    BY LockKept
<1>. QED
    BY <1>1, <1>2, <1>3, IdleKept DEF Inv

-----------------------------------------------------------------------------
(* The steps of the worker.                                                *)

LEMMA HandleInitStep ==
    ASSUME Inv, NEW r \in Replicas, HandleInit(r), UNCHANGED phase
    PROVE  Inv'
<1>. DEFINE q == inits[r]
            h == Head(q)
<1>1. /\ q # <<>> /\ inits' = [inits EXCEPT ![r] = Tail(q)]
      /\ stream' = stream /\ active' = active /\ met \subseteq met'
    BY DEF HandleInit, NoFault, Fault, Spends, faultVars
<1>2. q \in Seq(Jobs) /\ Once(q)
    BY DEF Inv, WeakType
<1>3. /\ h \in Jobs /\ Tail(q) \in Seq(Jobs) /\ Once(Tail(q))
      /\ Waits(r, h)
      /\ \A i \in DOMAIN Tail(q) : Tail(q)[i] # h /\ Waits(r, Tail(q)[i])
    BY <1>1, <1>2, TailOfOnce DEF Waits
<1>4. \/ spawned' = spawned /\ lock' = lock
      \/ /\ lock[h] = None /\ lock' = [lock EXCEPT ![h] = r]
         /\ spawned' = [spawned EXCEPT ![r] = @ \cup {h}]
      \/ /\ spawned' = spawned /\ "redis" \in met'
         /\ lock' \in {lock, [lock EXCEPT ![h] = IF @ = None THEN r ELSE @]}
    BY DEF HandleInit, Fault, Spends
<1>5. WeakType'
    <2>1. inits' \in [Replicas -> Seq(Jobs)]
        BY <1>1, <1>3 DEF Inv, WeakType
    <2>2. lock' \in [Jobs -> Replicas \cup {None}]
        BY <1>3, <1>4 DEF Inv, WeakType
    <2>3. spawned' \in [Replicas -> SUBSET Jobs]
        <3>1. spawned \in [Replicas -> SUBSET Jobs] /\ spawned[r] \cup {h} \in SUBSET Jobs
            BY <1>3 DEF Inv, WeakType
        <3>2. spawned' = spawned \/ spawned' = [spawned EXCEPT ![r] = spawned[r] \cup {h}]
            BY <1>4
        <3>. QED
            BY <3>1, <3>2
    <2>. QED
        BY <1>1, <2>1, <2>2, <2>3 DEF Inv, WeakType
<1>6. /\ inits'[r] = Tail(q)
      /\ spawned'[r] \subseteq spawned[r] \cup {h}
      /\ \A v \in Replicas : v # r => inits'[v] = inits[v] /\ spawned'[v] = spawned[v]
    BY <1>1, <1>3, <1>4 DEF Inv, WeakType
<1>7. ASSUME NEW v \in Replicas
      PROVE  Once(inits'[v]) /\ Counts(v)' /\ \A j \in Jobs : Stages(v, j)'
    <2>1. CASE v # r
        BY <1>1, <1>6, <2>1, IdleKept DEF Idle
    <2>2. CASE v = r
        <3>1. Counted(r)' = Counted(r)
            BY <1>1 DEF Counted, Subscribed
        <3>2. Once(inits'[r]) /\ Counts(r)'
            BY <1>1, <1>3, <1>6, <3>1 DEF Inv, Counts
        <3>3. ASSUME NEW j \in Jobs
              PROVE  Stages(r, j)'
            <4>1. Stages(r, j) /\ Stages(r, h)
                BY <1>3 DEF Inv
            <4>2. Waits(r, j)' => Waits(r, j) /\ j # h
                BY <1>3, <1>6 DEF Waits
            <4>. QED
                BY <1>1, <1>3, <1>6, <4>1, <4>2 DEF Stages
        <3>. QED
            BY <2>2, <3>2, <3>3
    <2>. QED
        BY <2>1, <2>2
<1>8. ASSUME NEW v \in Replicas, NEW j \in Jobs
      PROVE  Locked(v, j)'
    <2>1. CASE spawned' = spawned /\ lock' = lock
        BY <1>1, <2>1, LockKept
    <2>2. CASE "redis" \in met'
        BY <2>2 DEF Locked
    <2>3. CASE /\ lock[h] = None /\ lock' = [lock EXCEPT ![h] = r]
               /\ spawned' = [spawned EXCEPT ![r] = @ \cup {h}]
        <3>1. CASE j = h
            <4>1. lock'[j] = r
                BY <1>3, <2>3, <3>1 DEF Inv, WeakType
            <4>2. met' \cap {"lapse", "redis"} = {} =>
                      j \notin spawned[v] /\ stream[v][j] # "open"
                BY <1>1, <2>3, <3>1, SyncAssumption DEF Inv, Locked
            <4>3. j \in spawned'[v] => j \in spawned[v] \/ v = r
                BY <1>6
            <4>. QED
                BY <1>1, <4>1, <4>2, <4>3 DEF Locked
        <3>2. CASE j # h
            <4>1. lock'[j] = lock[j]
                BY <2>3, <3>2 DEF Inv, WeakType
            <4>2. j \in spawned'[v] => j \in spawned[v]
                BY <1>6, <3>2
            <4>. QED
                BY <1>1, <4>1, <4>2, LockKept
        <3>. QED
            BY <3>1, <3>2
    <2>. QED
        BY <1>4, <2>1, <2>2, <2>3
<1>. QED
    BY <1>5, <1>7, <1>8 DEF Inv

\* The stream of one job at one replica changes, and with it the counter.
LEMMA OneStreamStep ==
    ASSUME Inv, NEW r \in Replicas, NEW j \in Jobs, NEW x \in StreamState \ {"none"},
           stream' = [stream EXCEPT ![r][j] = x],
           UNCHANGED <<inits, phase>>, met \subseteq met',
           spawned' \in [Replicas -> SUBSET Jobs], lock' \in [Jobs -> Replicas \cup {None}],
           \A v \in Replicas : v # r => spawned'[v] = spawned[v],
           spawned'[r] = spawned[r] \ {j},
           j \in spawned[r] \/ stream[r][j] = "open",
           \A k \in Jobs : k # j => lock'[k] = lock[k],
           lock'[j] = lock[j] \/ (x # "open" /\ lock[j] = r) \/ met' \cap {"lapse", "redis"} # {},
           stream[r][j] = "none" => x = "open" /\ active' = [active EXCEPT ![r] = @ + 1],
           stream[r][j] = "open" =>
               \/ x \in {"open", "leaked"} /\ active' = active
               \/ x = "finished" /\ active' = [active EXCEPT ![r] = @ - 1]
    PROVE  Inv'
<1>1. /\ stream' \in [Replicas -> [Jobs -> StreamState]]
      /\ \A v \in Replicas, k \in Jobs :
            stream'[v][k] = IF v = r /\ k = j THEN x ELSE stream[v][k]
    <2>. DEFINE new == [stream[r] EXCEPT ![j] = x]
    <2>1. stream \in [Replicas -> [Jobs -> StreamState]] /\ x \in StreamState
        BY DEF Inv, WeakType
    <2>2. new \in [Jobs -> StreamState]
        BY <2>1
    <2>3. stream' = [stream EXCEPT ![r] = new]
        OBVIOUS
    <2>4. \A k \in Jobs : new[k] = IF k = j THEN x ELSE stream[r][k]
        BY <2>1
    <2>. QED
        BY <2>1, <2>2, <2>3, <2>4
<1>2. stream[r][j] \in {"none", "open"} /\ Stages(r, j)
    BY DEF Inv, Stages
<1>3. active' \in [Replicas -> Int] /\ \A v \in Replicas : v # r => active'[v] = active[v]
    BY <1>2 DEF Inv, WeakType
<1>4. WeakType'
    BY <1>1, <1>3 DEF Inv, WeakType
<1>5. ASSUME NEW v \in Replicas, v # r
      PROVE  Once(inits'[v]) /\ Counts(v)' /\ \A k \in Jobs : Stages(v, k)'
    <2>1. stream[v] \in [Jobs -> StreamState] /\ stream'[v] \in [Jobs -> StreamState]
        BY <1>1 DEF Inv, WeakType
    <2>2. stream'[v] = stream[v]
        BY <1>1, <1>5, <2>1
    <2>. QED
        BY <1>3, <1>5, <2>2, IdleKept DEF Idle
<1>6. Once(inits'[r]) /\ \A k \in Jobs : Stages(r, k)'
    <2>1. Once(inits'[r])
        BY DEF Inv
    <2>2. ASSUME NEW k \in Jobs
          PROVE  Stages(r, k)'
        <3>1. Stages(r, k) /\ (Waits(r, k)' <=> Waits(r, k))
            BY DEF Inv, Waits
        <3>. QED
            BY <1>1, <1>2, <3>1 DEF Stages
    <2>. QED
        BY <2>1, <2>2
<1>7. Counts(r)'
    <2>1. IsFiniteSet(Counted(r)) /\ active[r] = Cardinality(Counted(r)) /\ active[r] \in Int
        BY DEF Inv, Counts, WeakType
    <2>2. \A k \in Jobs : k # j => (k \in Counted(r)' <=> k \in Counted(r))
        BY <1>1 DEF Counted, Subscribed
    <2>3. j \in Counted(r)' <=> x \in {"open", "leaked"}
        BY <1>1 DEF Counted, Subscribed
    <2>4. j \in Counted(r) <=> stream[r][j] = "open"
        BY <1>2 DEF Counted, Subscribed
    <2>5. Counted(r) \subseteq Jobs /\ Counted(r)' \subseteq Jobs
        BY DEF Counted
    <2>6. CASE stream[r][j] = "none"
        <3>1. Counted(r)' = Counted(r) \cup {j} /\ j \notin Counted(r)
            BY <2>2, <2>3, <2>4, <2>5, <2>6
        <3>2. active'[r] = active[r] + 1
            BY <2>6 DEF Inv, WeakType
        <3>. QED
            BY <2>1, <3>1, <3>2, FS_AddElement DEF Counts
    <2>7. CASE stream[r][j] = "open" /\ x \in {"open", "leaked"} /\ active' = active
        <3>1. Counted(r)' = Counted(r)
            BY <2>2, <2>3, <2>4, <2>5, <2>7
        <3>. QED
            BY <2>1, <2>7, <3>1 DEF Counts
    <2>8. CASE stream[r][j] = "open" /\ x = "finished" /\ active' = [active EXCEPT ![r] = @ - 1]
        <3>1. Counted(r)' = Counted(r) \ {j} /\ j \in Counted(r)
            BY <2>2, <2>3, <2>4, <2>5, <2>8
        <3>2. active'[r] = active[r] - 1
            BY <2>8 DEF Inv, WeakType
        <3>. QED
            BY <2>1, <3>1, <3>2, FS_RemoveElement DEF Counts
    <2>. QED
        BY <1>2, <2>6, <2>7, <2>8
<1>8. ASSUME NEW v \in Replicas, NEW k \in Jobs
      PROVE  Locked(v, k)'
    <2>1. /\ k \in spawned'[v] => k \in spawned[v]
          /\ stream'[v][k] = "open" => stream[v][k] = "open" \/ k \in spawned[v]
        BY <1>1
    <2>2. CASE lock'[k] = lock[k]
        BY <2>1, <2>2, LockKept
    <2>3. CASE met' \cap {"lapse", "redis"} # {}
        BY <2>3 DEF Locked
    <2>4. CASE k = j /\ x # "open" /\ lock[j] = r
        <3>1. Locked(v, j) /\ Locked(r, j)
            BY DEF Inv
        <3>2. stream'[r][j] # "open" /\ j \notin spawned'[r]
            BY <1>1, <2>4
        <3>. QED
            BY <2>1, <2>4, <3>1, <3>2 DEF Locked
    <2>. QED
        BY <2>2, <2>3, <2>4
<1>. QED
    BY <1>4, <1>5, <1>6, <1>7, <1>8 DEF Inv

LEMMA StartStreamStep ==
    ASSUME Inv, NEW r \in Replicas, NEW j \in Jobs, StartStream(r, j), UNCHANGED phase
    PROVE  Inv'
<1>1. /\ j \in spawned[r] /\ spawned' = [spawned EXCEPT ![r] = @ \ {j}]
      /\ active' = [active EXCEPT ![r] = @ + 1]
      /\ stream' = [stream EXCEPT ![r][j] = "open"]
      /\ UNCHANGED <<inits, lock>> /\ met' = met
    BY DEF StartStream, faultVars
<1>2. stream[r][j] = "none"
    BY <1>1 DEF Inv, Stages
<1>3. /\ spawned' \in [Replicas -> SUBSET Jobs] /\ spawned'[r] = spawned[r] \ {j}
      /\ \A v \in Replicas : v # r => spawned'[v] = spawned[v]
      /\ lock' \in [Jobs -> Replicas \cup {None}]
    BY <1>1 DEF Inv, WeakType
<1>4. "open" \in StreamState \ {"none"}
    BY DEF StreamState
<1>. QED
    BY <1>1, <1>2, <1>3, <1>4, OneStreamStep

\* The lock is released, or Redis would not.
LockFreed(r, j) == lock' \in {lock, [lock EXCEPT ![j] = IF @ = r THEN None ELSE @]}

LEMMA EndsStep ==
    ASSUME Inv, NEW r \in Replicas, NEW j \in Jobs, stream[r][j] = "open",
           \/ Finishes(r, j) /\ LockFreed(r, j)
           \/ Leaks(r, j) /\ "redis" \in met',
           UNCHANGED <<inits, spawned, phase>>, met \subseteq met'
    PROVE  Inv'
<1>1. /\ spawned' \in [Replicas -> SUBSET Jobs] /\ spawned'[r] = spawned[r] \ {j}
      /\ \A v \in Replicas : v # r => spawned'[v] = spawned[v]
    BY DEF Inv, WeakType, Stages
<1>2. {"finished", "leaked"} \subseteq StreamState \ {"none"}
    BY DEF StreamState
<1>3. CASE Finishes(r, j) /\ LockFreed(r, j)
    <2>1. /\ lock' \in {lock, [lock EXCEPT ![j] = IF @ = r THEN None ELSE @]}
          /\ stream' = [stream EXCEPT ![r][j] = "finished"]
          /\ active' = [active EXCEPT ![r] = @ - 1]
        BY <1>3 DEF Finishes, LockFreed
    <2>2. /\ lock' \in [Jobs -> Replicas \cup {None}]
          /\ \A k \in Jobs : k # j => lock'[k] = lock[k]
          /\ lock'[j] = lock[j] \/ lock[j] = r
        BY <2>1 DEF Inv, WeakType
    <2>. QED
        BY <1>1, <1>2, <2>1, <2>2, OneStreamStep
<1>4. CASE Leaks(r, j) /\ "redis" \in met'
    <2>1. /\ stream' = [stream EXCEPT ![r][j] = "leaked"]
          /\ lock' = lock /\ active' = active
          /\ lock' \in [Jobs -> Replicas \cup {None}]
        BY <1>4 DEF Leaks, Inv, WeakType
    <2>. QED
        BY <1>1, <1>2, <2>1, OneStreamStep
<1>. QED
    BY <1>3, <1>4

LEMMA CrashStep ==
    ASSUME Inv, NEW r \in Replicas, Crash(r), UNCHANGED phase
    PROVE  Inv'
<1>1. /\ inits' = [inits EXCEPT ![r] = <<>>] /\ spawned' = [spawned EXCEPT ![r] = {}]
      /\ stream' = [stream EXCEPT ![r] = [j \in Jobs |-> "none"]]
      /\ active' = [active EXCEPT ![r] = 0] /\ lock' = lock /\ met \subseteq met'
    BY DEF Crash, Fault, Spends
<1>2. [j \in Jobs |-> "none"] \in [Jobs -> StreamState]
    BY DEF StreamState
<1>3. WeakType'
    BY <1>1, <1>2 DEF Inv, WeakType
<1>4. /\ inits'[r] = <<>> /\ spawned'[r] = {} /\ active'[r] = 0
      /\ \A j \in Jobs : stream'[r][j] = "none"
    BY <1>1 DEF Inv, WeakType
<1>5. ASSUME NEW v \in Replicas, v # r
      PROVE  Idle(v)
    BY <1>1, <1>5 DEF Idle, Inv, WeakType
<1>6. Once(inits'[r]) /\ Counts(r)' /\ \A j \in Jobs : Stages(r, j)'
    <2>1. Counted(r)' = {}
        BY <1>4 DEF Counted, Subscribed
    <2>2. Counts(r)'
        BY <1>4, <2>1, FS_EmptySet DEF Counts
    <2>3. Once(inits'[r]) /\ \A j \in Jobs : Stages(r, j)'
        BY <1>4 DEF Once, Stages, Waits
    <2>. QED
        BY <2>2, <2>3
<1>7. ASSUME NEW v \in Replicas, NEW j \in Jobs
      PROVE  Locked(v, j)'
    <2>1. CASE v = r
        BY <1>4, <2>1 DEF Locked
    <2>2. CASE v # r
        BY <1>1, <1>5, <2>2, LockKept DEF Idle
    <2>. QED
        BY <2>1, <2>2
<1>8. ASSUME NEW v \in Replicas
      PROVE  Once(inits'[v]) /\ Counts(v)' /\ \A j \in Jobs : Stages(v, j)'
    BY <1>5, <1>6, IdleKept
<1>. QED
    BY <1>3, <1>7, <1>8 DEF Inv

\* A lock expires or lapses.
LEMMA LockGoneStep ==
    ASSUME Inv, NEW j \in Jobs, LockExpires(j) \/ LockLapses(j), UNCHANGED phase
    PROVE  Inv'
<1>1. /\ lock' = [lock EXCEPT ![j] = None] /\ met \subseteq met'
      /\ UNCHANGED <<inits, spawned, stream, active>>
    BY DEF LockExpires, LockLapses, natsVars, faultVars, Fault, Spends
<1>2. WeakType'
    BY <1>1 DEF Inv, WeakType
<1>3. ASSUME NEW v \in Replicas, NEW k \in Jobs
      PROVE  Locked(v, k)'
    <2>1. CASE k # j
        <3>1. lock'[k] = lock[k]
            BY <1>1, <2>1 DEF Inv, WeakType
        <3>. QED
            BY <1>1, <3>1, LockKept
    <2>2. CASE k = j /\ LockLapses(j)
        <3>1. "lapse" \in met'
            BY <2>2 DEF LockLapses, Fault, Spends
        <3>. QED
            BY <3>1 DEF Locked
    <2>3. CASE k = j /\ LockExpires(j)
        <3>1. lock[j] = v => j \notin spawned[v] /\ stream[v][j] # "open"
            BY <2>3 DEF LockExpires, Held
        <3>2. Locked(v, j)
            BY DEF Inv
        <3>. QED
            BY <1>1, <2>3, <3>1, <3>2 DEF Locked
    <2>. QED
        BY <2>1, <2>2, <2>3
<1>4. \A v \in Replicas : Idle(v)
    BY <1>1 DEF Idle
<1>. QED
    BY <1>2, <1>3, <1>4, IdleKept DEF Inv

LEMMA ServiceStep ==
    ASSUME Inv, ServiceNext, UNCHANGED phase
    PROVE  Inv'
<1>1. ASSUME NEW r \in Replicas, NEW j \in Jobs, HandleMessages(r, j) \/ ExtendFails(r, j)
      PROVE  Inv'
    <2>1. CASE StartStream(r, j)
        BY <2>1, StartStreamStep
    <2>2. CASE HandleAudio(r, j)
        <3>1. UNCHANGED ownVars /\ UNCHANGED inits /\ met' = met
            BY <2>2 DEF HandleAudio, faultVars
        <3>. QED
            BY <3>1, QuietStep DEF Inv
    <2>3. CASE HandleFinish(r, j)
        <3>1. UNCHANGED <<inits, spawned, up>> /\ met \subseteq met'
            BY <2>3 DEF HandleFinish, Releases, NoFault, Fault, Spends, faultVars
        <3>2. \/ stream[r][j] = "open" /\ Finishes(r, j) /\ LockFreed(r, j)
              \/ stream[r][j] = "open" /\ Leaks(r, j) /\ "redis" \in met'
              \/ UNCHANGED <<stream, lock, active>>
            BY <2>3 DEF HandleFinish, Releases, LockFreed, Fault, Spends
        <3>. QED
            BY <3>1, <3>2, EndsStep, QuietStep DEF Inv, ownVars
    <2>4. CASE CheckTimeout(r, j) \/ ExtendFails(r, j)
        <3>1. UNCHANGED <<inits, spawned>> /\ met \subseteq met'
            BY <2>4 DEF CheckTimeout, ExtendFails, Ends, Releases, Spends
        <3>2. /\ stream[r][j] = "open"
              /\ \/ Finishes(r, j) /\ LockFreed(r, j)
                 \/ Leaks(r, j) /\ "redis" \in met'
            BY <2>4 DEF CheckTimeout, ExtendFails, Ends, Releases, LockFreed, Spends
        <3>. QED
            BY <3>1, <3>2, EndsStep
    <2>. QED
        BY <1>1, <2>1, <2>2, <2>3, <2>4 DEF HandleMessages
<1>2. ASSUME NEW r \in Replicas, Restart(r)
      PROVE  Inv'
    <2>1. UNCHANGED <<inits, spawned, stream, active, lock>> /\ met' = met
        BY <1>2 DEF Restart, natsVars, faultVars
    <2>2. \A v \in Replicas : Idle(v)
        BY <2>1 DEF Idle
    <2>3. WeakType'
        BY <2>1 DEF Inv, WeakType
    <2>4. \A v \in Replicas, k \in Jobs : Locked(v, k)'
        BY <2>1, LockKept
    <2>. QED
        BY <2>2, <2>3, <2>4, IdleKept DEF Inv
<1>. QED
    BY <1>1, <1>2, HandleInitStep, CrashStep, LockGoneStep DEF ServiceNext

-----------------------------------------------------------------------------
(* The steps of the session, which sends the init and nothing else that    *)
(* matters here.                                                           *)

LEMMA SendInitStep ==
    ASSUME Inv, NEW j \in Jobs, S!SendInit(j), UNCHANGED ownVars
    PROVE  Inv'
<1>1. /\ phase[j] = "created" /\ phase' = [phase EXCEPT ![j] = "waiting"]
      /\ inits' = [r \in Replicas |-> IF up[r] THEN Append(inits[r], j) ELSE inits[r]]
      /\ met' = met
    BY DEF S!SendInit, S!PhaseStep, S!NoFault
<1>2. UNCHANGED <<spawned, stream, active, lock>>
    BY DEF ownVars
<1>3. ASSUME NEW r \in Replicas
      PROVE  /\ inits'[r] \in Seq(Jobs) /\ Once(inits'[r])
             /\ \A k \in Jobs : Waits(r, k)' => Waits(r, k) \/ k = j
    <2>1. inits[r] \in Seq(Jobs) /\ Once(inits[r])
        BY DEF Inv, WeakType
    <2>2. \A i \in DOMAIN inits[r] : inits[r][i] # j
        BY <1>1 DEF Inv, Stages, Waits
    <2>3. CASE up[r]
        <3>1. inits'[r] = Append(inits[r], j)
            BY <1>1, <2>3
        <3>. QED
            BY <2>1, <2>2, <3>1, AppendOfOnce DEF Waits
    <2>4. CASE ~up[r]
        BY <1>1, <2>1, <2>4 DEF Waits
    <2>. QED
        BY <2>3, <2>4
<1>4. WeakType'
    <2>1. inits' \in [Replicas -> Seq(Jobs)]
        BY <1>1, <1>3
    <2>. QED
        BY <1>2, <2>1 DEF Inv, WeakType
<1>5. /\ phase' \in [Jobs -> {"none", "created", "waiting", "streaming", "closing", "closed"}]
      /\ \A k \in Jobs : phase'[k] \in {"none", "created"} => phase[k] = phase'[k] /\ k # j
    BY <1>1 DEF Inv
<1>6. ASSUME NEW r \in Replicas
      PROVE  Counts(r)'
    <2>1. Counted(r)' = Counted(r)
        BY <1>2 DEF Counted, Subscribed
    <2>. QED
        BY <1>2, <2>1 DEF Inv, Counts
<1>7. ASSUME NEW r \in Replicas, NEW k \in Jobs
      PROVE  Stages(r, k)' /\ Locked(r, k)'
    <2>1. Stages(r, k) /\ Stages(r, j)
        BY DEF Inv
    <2>2. Stages(r, k)'
        BY <1>1, <1>2, <1>3, <1>5, <2>1 DEF Stages
    <2>. QED
        BY <1>1, <1>2, <2>2, LockKept
<1>. QED
    BY <1>3, <1>4, <1>5, <1>6, <1>7 DEF Inv

LEMMA SessionStep ==
    ASSUME Inv, S!SessionNext, UNCHANGED ownVars
    PROVE  Inv'
<1>1. ASSUME NEW j \in Jobs, S!SendInit(j)
      PROVE  Inv'
    BY <1>1, SendInitStep
<1>2. ASSUME UNCHANGED inits, met \subseteq met',
             \/ phase' = phase
             \/ \E j \in Jobs : \E to \in {"waiting", "streaming", "closing", "closed"} :
                   phase' = [phase EXCEPT ![j] = to]
             \/ \E j \in Jobs : phase[j] = "none" /\ phase' = [phase EXCEPT ![j] = "created"]
             \/ phase' = [j \in Jobs |-> IF phase[j] = "none" THEN "none" ELSE "closed"]
      PROVE  Inv'
    <2>1. phase' \in [Jobs -> {"none", "created", "waiting", "streaming", "closing", "closed"}]
        BY <1>2 DEF Inv
    <2>2. \A j \in Jobs : phase'[j] \in {"none", "created"} => phase[j] \in {"none", "created"}
        BY <1>2 DEF Inv
    <2>. QED
        BY <1>2, <2>1, <2>2, QuietStep
<1>3. ASSUME NEW j \in Jobs, S!CreateSyncJob(j)
      PROVE  Inv'
    BY <1>2, <1>3 DEF S!CreateSyncJob, S!PhaseStep, S!NoFault, S!Fault
<1>4. ASSUME NEW j \in Jobs, S!WaitForReady(j) \/ S!ReadError(j) \/ S!Close(j)
      PROVE  Inv'
    BY <1>2, <1>4 DEF S!WaitForReady, S!ReadError, S!Close, S!PhaseStep, S!NoFault
<1>5. ASSUME NEW j \in Jobs,
             \/ S!ForwardResponse(j) \/ S!ForwardStatus(j) \/ S!ProcessAudioMessage(j)
             \/ S!ClientLeaves(j) \/ S!HandleSyncStatusFinish(j)
      PROVE  Inv'
    BY <1>2, <1>5 DEF S!ForwardResponse, S!ForwardStatus, S!ProcessAudioMessage,
                      S!ClientLeaves, S!HandleSyncStatusFinish, S!NoFault, S!Fault
<1>6. CASE S!RestartGateway
    BY <1>2, <1>6 DEF S!RestartGateway, S!Fault
<1>. QED
    BY <1>1, <1>3, <1>4, <1>5, <1>6 DEF S!SessionNext, S!Session

LEMMA Invariant == StreamingSpec => []Inv
<1>1. Inv /\ [StreamingNext]_streamingVars => Inv'
    <2>. SUFFICES ASSUME Inv, [StreamingNext]_streamingVars
                  PROVE  Inv'
        OBVIOUS
    <2>1. CASE ServiceSide(ServiceNext)
        BY <2>1, ServiceStep DEF ServiceSide, sessionVars
    <2>2. CASE SessionSide(S!SessionNext)
        BY <2>2, SessionStep DEF SessionSide
    <2>3. CASE UNCHANGED streamingVars
        <3>1. UNCHANGED ownVars /\ UNCHANGED inits /\ met' = met /\ phase' = phase
            BY <2>3 DEF streamingVars, syncVars, natsVars, faultVars, sessionVars
        <3>. QED
            BY <3>1, QuietStep DEF Inv
    <2>. QED
        BY <2>1, <2>2, <2>3 DEF StreamingNext
<1>. QED
    BY InvInit, <1>1, PTL DEF StreamingSpec

\* Unless a lock lapses or Redis fails, a job's audio goes to one stream
\* (sync/app.py:39-98), however late a replica handles the init.
THEOREM StreamUnique == StreamingSpec => []OneStreamPerJob
<1>1. Inv => OneStreamPerJob
    BY DEF Inv, Locked, OneStreamPerJob
<1>. QED
    BY <1>1, Invariant, PTL

-----------------------------------------------------------------------------
(***************************************************************************)
(* The second invariant, about what the queues carry.  Whatever is on its  *)
(* way, from the client's audio to the responses it has seen, is in the    *)
(* order of the audio, and only the one open stream has any of it (Flow).  *)
(* A stream ends in silence only when its session no longer listens, and   *)
(* finds a finish only after the session sent it (Ending).                 *)
(***************************************************************************)
Typed ==
    /\ chunks    \in [Replicas -> [Jobs -> Seq(Message)]]
    /\ statuses  \in [Jobs -> Seq({"ready", "finished"})]
    /\ responses \in [Jobs -> Seq(Message)]
    /\ announced \in [Jobs -> Nat]
    /\ listens   \in [Jobs -> BOOLEAN]
    /\ up        \in [Replicas -> BOOLEAN]
    /\ budget    \in 0..MaxFaults /\ met \subseteq Faults
    /\ client    \in [Jobs -> {"talks", "silent"}]
    /\ forwarder \in [Jobs -> {"none", "running", "ended"}]
    /\ next      \in [Jobs -> 1..MaxChunks + 1]
    /\ got       \in [Jobs -> Seq(Message)]
    /\ row       \in [Jobs -> {"none", "pending", "completed"}]

Rising(q)      == \A i, k \in DOMAIN q : i < k /\ q[k] # Finish => q[i] < q[k]
Precedes(p, q) == \A x \in Range(p), y \in Range(q) : y # Finish => x < y
Below(q, n)    == \A x \in Range(q) : x < n

Flow(j) ==
    /\ Rising(got[j]) /\ Rising(responses[j]) /\ Precedes(got[j], responses[j])
    /\ Below(got[j], next[j]) /\ Below(responses[j], next[j])
    /\ Finish \notin Range(got[j]) \cup Range(responses[j])
    /\ \A r \in Replicas :
         /\ stream[r][j] # "leaked"
         /\ chunks[r][j] # <<>> => stream[r][j] = "open"
         /\ Rising(chunks[r][j]) /\ Below(chunks[r][j], next[j])
         /\ Precedes(got[j], chunks[r][j]) /\ Precedes(responses[j], chunks[r][j])

Ending(j) ==
    /\ phase[j] \in {"waiting", "streaming"} => listens[j]
    /\ met \cap {"lapse", "redis", "garbled"} = {} =>
         /\ announced[j] > 0 \/ row[j] = "completed" => phase[j] \in {"closing", "closed"}
         /\ \A r \in Replicas :
               Finish \in Range(chunks[r][j]) => phase[j] \in {"closing", "closed"}

FlowInv ==
    /\ Typed
    /\ \A j \in Jobs : (met \cap {"lapse", "redis"} = {} => Flow(j)) /\ Ending(j)

-----------------------------------------------------------------------------
(* Sequences of messages.                                                  *)

LEMMA EmptyRises ==
    /\ <<>> \in Seq(Message) /\ Range(<<>>) = {}
    /\ Rising(<<>>) /\ \A n \in Int : Below(<<>>, n)
    /\ \A q \in Seq(Message) : Precedes(q, <<>>) /\ Precedes(<<>>, q)
<1>1. <<>> \in Seq(Message) /\ Len(<<>>) = 0
    OBVIOUS
<1>2. DOMAIN <<>> = {}
    BY <1>1
<1>3. Range(<<>>) = {}
    BY <1>2 DEF Range
<1>. QED
    BY <1>1, <1>2, <1>3 DEF Rising, Below, Precedes

LEMMA TailRises ==
    ASSUME NEW q \in Seq(Message), q # <<>>
    PROVE  /\ Head(q) \in Message /\ Tail(q) \in Seq(Message)
           /\ Head(q) \in Range(q) /\ Range(Tail(q)) \subseteq Range(q)
           /\ Rising(q) => /\ Rising(Tail(q))
                           /\ \A x \in Range(Tail(q)) : x # Finish => Head(q) < x
<1>1. Len(q) \in Nat /\ Len(q) >= 1 /\ DOMAIN q = 1..Len(q) /\ Head(q) = q[1]
    OBVIOUS
<1>2. Tail(q) \in Seq(Message) /\ DOMAIN Tail(q) = 1..Len(q) - 1
    BY <1>1
<1>3. \A i \in 1..Len(q) - 1 : Tail(q)[i] = q[i + 1] /\ i + 1 \in 1..Len(q) /\ 1 < i + 1
    BY <1>1
<1>4. 1 \in 1..Len(q) /\ q[1] \in Message
    BY <1>1
<1>5. Head(q) \in Range(q) /\ Range(Tail(q)) \subseteq Range(q)
    BY <1>1, <1>2, <1>3, <1>4 DEF Range
<1>6. ASSUME Rising(q)
      PROVE  Rising(Tail(q)) /\ \A x \in Range(Tail(q)) : x # Finish => Head(q) < x
    <2>1. Rising(Tail(q))
        BY <1>1, <1>2, <1>3, <1>6 DEF Rising
    <2>2. \A i \in DOMAIN Tail(q) : Tail(q)[i] # Finish => Head(q) < Tail(q)[i]
        BY <1>1, <1>2, <1>3, <1>4, <1>6 DEF Rising
    <2>. QED
        BY <2>1, <2>2 DEF Range
<1>. QED
    BY <1>1, <1>2, <1>4, <1>5, <1>6

LEMMA AppendRises ==
    ASSUME NEW q \in Seq(Message), NEW n \in Message
    PROVE  /\ Append(q, n) \in Seq(Message) /\ Append(q, n) # <<>>
           /\ Range(Append(q, n)) = Range(q) \cup {n}
           /\ Rising(q) /\ (n # Finish => Below(q, n)) => Rising(Append(q, n))
<1>. DEFINE a == Append(q, n)
<1>1. Len(q) \in Nat /\ DOMAIN q = 1..Len(q)
    OBVIOUS
<1>2. a \in Seq(Message) /\ DOMAIN a = 1..Len(q) + 1 /\ Len(a) = Len(q) + 1
    BY <1>1
<1>3. a[Len(q) + 1] = n /\ \A i \in 1..Len(q) : a[i] = q[i]
    BY <1>1
<1>4. \A i \in 1..Len(q) + 1 : i = Len(q) + 1 \/ i \in 1..Len(q)
    BY <1>1
<1>5. Range(a) = Range(q) \cup {n}
    <2>. HIDE DEF a
    <2>1. 1..Len(q) + 1 = (1..Len(q)) \cup {Len(q) + 1}
        BY <1>1
    <2>. QED
        BY <1>1, <1>2, <1>3, <2>1 DEF Range
<1>6. ASSUME Rising(q), n # Finish => Below(q, n)
      PROVE  Rising(a)
    <2>1. SUFFICES ASSUME NEW i \in DOMAIN a, NEW k \in DOMAIN a, i < k, a[k] # Finish
                   PROVE  a[i] < a[k]
        BY DEF Rising
    <2>. HIDE DEF a
    <2>2. i \in 1..Len(q)
        BY <1>1, <1>2, <1>4, <2>1
    <2>3. CASE k = Len(q) + 1
        BY <1>1, <1>3, <1>6, <2>1, <2>2, <2>3 DEF Below, Range
    <2>4. CASE k \in 1..Len(q)
        BY <1>1, <1>3, <1>6, <2>1, <2>2, <2>4 DEF Rising
    <2>. QED
        BY <1>2, <1>4, <2>3, <2>4
<1>7. a # <<>>
    BY <1>1, <1>2
<1>. QED
    BY <1>2, <1>5, <1>6, <1>7

\* One place of a table of tables.
LEMMA Nested ==
    ASSUME NEW A, NEW B, NEW C, NEW f \in [A -> [B -> C]],
           NEW a \in A, NEW b \in B, NEW x \in C
    PROVE  /\ [f EXCEPT ![a][b] = x] \in [A -> [B -> C]]
           /\ \A c \in A, d \in B :
                 [f EXCEPT ![a][b] = x][c][d] = IF c = a /\ d = b THEN x ELSE f[c][d]
<1>. DEFINE g == [f[a] EXCEPT ![b] = x]
<1>1. g \in [B -> C] /\ \A d \in B : g[d] = IF d = b THEN x ELSE f[a][d]
    OBVIOUS
<1>2. [f EXCEPT ![a][b] = x] = [f EXCEPT ![a] = g]
    OBVIOUS
<1>3. /\ [f EXCEPT ![a] = g] \in [A -> [B -> C]]
      /\ \A c \in A : [f EXCEPT ![a] = g][c] = IF c = a THEN g ELSE f[c]
    BY <1>1
<1>. QED
    BY <1>1, <1>2, <1>3

-----------------------------------------------------------------------------
(* The order of the responses: what the steps do to Flow.                  *)

LEMMA MessageBounds ==
    /\ Message \subseteq Int /\ Finish \in Message /\ MaxChunks \in Nat
    /\ \A n \in 1..MaxChunks : n \in Message /\ n # Finish
    /\ \A q \in Seq(Message) : Range(q) \subseteq Message
<1>1. MaxChunks \in Nat
    BY SyncAssumption
<1>2. \A q \in Seq(Message) : Range(q) \subseteq Message
    BY DEF Range
<1>. QED
    BY <1>1, <1>2 DEF Message, Finish

\* Queues stay, or are emptied.
LEMMA FlowKept ==
    ASSUME Typed, NEW j \in Jobs, Flow(j),
           got'[j] = got[j], next'[j] = next[j],
           responses'[j] = responses[j] \/ responses'[j] = <<>>,
           \A r \in Replicas : /\ chunks'[r][j] = chunks[r][j] \/ chunks'[r][j] = <<>>
                               /\ stream'[r][j] # "leaked"
                               /\ chunks'[r][j] # <<>> => stream'[r][j] = "open"
    PROVE  Flow(j)'
<1>1. next[j] \in Int /\ got[j] \in Seq(Message) /\ responses[j] \in Seq(Message)
    BY SyncAssumption DEF Typed
<1>2. /\ Rising(responses'[j]) /\ Precedes(got[j], responses'[j])
      /\ Below(responses'[j], next[j]) /\ Finish \notin Range(responses'[j])
      /\ responses'[j] \in Seq(Message)
    BY <1>1, EmptyRises DEF Flow
<1>3. ASSUME NEW r \in Replicas
      PROVE  /\ Rising(chunks'[r][j]) /\ Below(chunks'[r][j], next[j])
             /\ Precedes(got[j], chunks'[r][j]) /\ Precedes(responses'[j], chunks'[r][j])
    <2>1. chunks[r][j] \in Seq(Message)
        BY DEF Typed
    <2>2. /\ Rising(chunks[r][j]) /\ Below(chunks[r][j], next[j])
          /\ Precedes(got[j], chunks[r][j]) /\ Precedes(responses[j], chunks[r][j])
        BY DEF Flow
    <2>3. /\ Rising(chunks'[r][j]) /\ Below(chunks'[r][j], next[j])
          /\ Precedes(got[j], chunks'[r][j]) /\ chunks'[r][j] \in Seq(Message)
        BY <1>1, <2>1, <2>2, EmptyRises
    <2>4. Precedes(responses'[j], chunks'[r][j])
        BY <1>1, <1>2, <2>1, <2>2, <2>3, EmptyRises
    <2>. QED
        BY <2>3, <2>4
<1>4. \A r \in Replicas : stream'[r][j] # "leaked" /\ (chunks'[r][j] # <<>> => stream'[r][j] = "open")
    OBVIOUS
<1>5. Rising(got[j]) /\ Below(got[j], next[j]) /\ Finish \notin Range(got[j])
    BY DEF Flow
<1>. QED
    BY <1>2, <1>3, <1>4, <1>5 DEF Flow

\* The stream's oldest chunk becomes the newest response, or is dropped.
LEMMA FlowAnswered ==
    ASSUME Typed, NEW j \in Jobs, Flow(j), NEW r \in Replicas,
           \A s \in Replicas : s # r => chunks[s][j] = <<>>,
           chunks[r][j] # <<>>, Head(chunks[r][j]) # Finish,
           UNCHANGED <<got, next, stream>>,
           \A s \in Replicas : chunks'[s][j] = IF s = r THEN Tail(chunks[r][j]) ELSE chunks[s][j],
           responses'[j] \in {responses[j], Append(responses[j], Head(chunks[r][j]))}
    PROVE  Flow(j)'
<1>. DEFINE q == chunks[r][j]
            h == Head(q)
            p == responses[j]
<1>1. q \in Seq(Message) /\ p \in Seq(Message) /\ got[j] \in Seq(Message) /\ next[j] \in Int
    BY SyncAssumption DEF Typed
<1>2. /\ Rising(q) /\ Below(q, next[j]) /\ Precedes(got[j], q) /\ Precedes(p, q)
      /\ Rising(p) /\ Below(p, next[j]) /\ Precedes(got[j], p) /\ Finish \notin Range(p)
      /\ stream[r][j] = "open"
    BY DEF Flow
<1>3. /\ h \in Message /\ Tail(q) \in Seq(Message) /\ h \in Range(q) /\ Range(Tail(q)) \subseteq Range(q)
      /\ Rising(Tail(q)) /\ \A x \in Range(Tail(q)) : x # Finish => h < x
    BY <1>1, <1>2, TailRises
<1>4. /\ Append(p, h) \in Seq(Message) /\ Range(Append(p, h)) = Range(p) \cup {h}
      /\ Below(p, h) => Rising(Append(p, h))
    BY <1>1, <1>2, <1>3, AppendRises
<1>. HIDE DEF q, h, p
<1>5. /\ Rising(responses'[j]) /\ Below(responses'[j], next[j]) /\ Precedes(got[j], responses'[j])
      /\ Finish \notin Range(responses'[j]) /\ Precedes(responses'[j], Tail(q))
    <2>1. h # Finish /\ (responses'[j] = p \/ responses'[j] = Append(p, h))
        BY DEF h, q, p
    <2>2. Below(p, h) /\ h < next[j]
        BY <1>2, <1>3, <2>1 DEF Precedes, Below
    <2>3. Precedes(got[j], Append(p, h)) /\ Below(Append(p, h), next[j])
        BY <1>2, <1>3, <1>4, <2>1, <2>2 DEF Precedes, Below
    <2>4. Precedes(p, Tail(q)) /\ Precedes(Append(p, h), Tail(q))
        BY <1>2, <1>3, <1>4 DEF Precedes
    <2>. QED
        BY <1>2, <1>4, <2>1, <2>2, <2>3, <2>4
<1>6. Below(Tail(q), next[j]) /\ Precedes(got[j], Tail(q))
    BY <1>2, <1>3 DEF Below, Precedes
<1>7. responses'[j] \in Seq(Message)
    BY <1>1, <1>4 DEF h, q, p
<1>8. ASSUME NEW s \in Replicas
      PROVE  /\ stream[s][j] # "leaked"
             /\ chunks'[s][j] # <<>> => stream[s][j] = "open"
             /\ Rising(chunks'[s][j]) /\ Below(chunks'[s][j], next[j])
             /\ Precedes(got[j], chunks'[s][j]) /\ Precedes(responses'[j], chunks'[s][j])
    <2>1. CASE s = r
        BY <1>2, <1>3, <1>5, <1>6, <2>1 DEF q, Flow
    <2>2. CASE s # r
        BY <1>1, <1>7, <2>2, EmptyRises DEF Flow
    <2>. QED
        BY <2>1, <2>2
<1>9. Rising(got[j]) /\ Below(got[j], next[j]) /\ Finish \notin Range(got[j])
    BY DEF Flow
<1>. QED
    BY <1>5, <1>8, <1>9 DEF Flow

\* The client sees the oldest response, or is gone.
LEMMA FlowForwarded ==
    ASSUME Typed, NEW j \in Jobs, Flow(j), responses[j] # <<>>,
           UNCHANGED <<chunks, next, stream>>,
           responses'[j] = Tail(responses[j]),
           got'[j] = got[j] \/ got'[j] = Append(got[j], Head(responses[j]))
    PROVE  Flow(j)'
<1>. DEFINE q == responses[j]
            h == Head(q)
            g == got[j]
<1>1. q \in Seq(Message) /\ g \in Seq(Message) /\ next[j] \in Int
    BY SyncAssumption DEF Typed
<1>2. /\ Rising(q) /\ Below(q, next[j]) /\ Precedes(g, q) /\ Finish \notin Range(q)
      /\ Rising(g) /\ Below(g, next[j]) /\ Finish \notin Range(g)
    BY DEF Flow
<1>3. /\ h \in Message /\ Tail(q) \in Seq(Message) /\ h \in Range(q) /\ Range(Tail(q)) \subseteq Range(q)
      /\ Rising(Tail(q)) /\ \A x \in Range(Tail(q)) : x # Finish => h < x
    BY <1>1, <1>2, TailRises
<1>4. /\ Range(Append(g, h)) = Range(g) \cup {h}
      /\ Below(g, h) => Rising(Append(g, h))
    BY <1>1, <1>2, <1>3, AppendRises
<1>. HIDE DEF q, h, g
<1>5. got'[j] = g \/ got'[j] = Append(g, h)
    BY DEF g, h, q
<1>6. Range(got'[j]) \subseteq Range(g) \cup {h} /\ Rising(got'[j])
    BY <1>2, <1>3, <1>4, <1>5 DEF Precedes, Below
<1>7. Below(got'[j], next[j]) /\ Finish \notin Range(got'[j])
    BY <1>2, <1>3, <1>6 DEF Below
<1>8. Below(Tail(q), next[j]) /\ Finish \notin Range(Tail(q)) /\ Precedes(got'[j], Tail(q))
    BY <1>2, <1>3, <1>6 DEF Below, Precedes
<1>9. ASSUME NEW r \in Replicas
      PROVE  Precedes(got'[j], chunks[r][j]) /\ Precedes(Tail(q), chunks[r][j])
    <2>1. Precedes(g, chunks[r][j]) /\ Precedes(q, chunks[r][j])
        BY DEF Flow, g, q
    <2>. QED
        BY <1>3, <1>6, <2>1 DEF Precedes
<1>. QED
    BY <1>3, <1>6, <1>7, <1>8, <1>9 DEF Flow, q

\* The session sends the next chunk, or the finish, to the open stream.
LEMMA FlowSent ==
    ASSUME Typed, NEW j \in Jobs, Flow(j), UNCHANGED <<responses, got, stream>>,
           NEW n \in Message,
           \/ n = Finish /\ next'[j] = next[j]
           \/ n = next[j] /\ next'[j] = next[j] + 1,
           \A r \in Replicas : chunks'[r][j] = IF Subscribed(r, j) THEN Append(chunks[r][j], n)
                                               ELSE chunks[r][j]
    PROVE  Flow(j)'
<1>. DEFINE m == next'[j]
<1>1. /\ got[j] \in Seq(Message) /\ responses[j] \in Seq(Message) /\ next[j] \in Int
      /\ n \in Int /\ m \in Int /\ next[j] <= m /\ n < m /\ next[j] >= 1
    BY SyncAssumption, MessageBounds DEF Typed, Finish
<1>. HIDE DEF m
<1>2. n # Finish => n = next[j]
    BY <1>1
<1>3. /\ Below(got[j], next[j]) /\ Below(responses[j], next[j])
      /\ Range(got[j]) \subseteq Int /\ Range(responses[j]) \subseteq Int
    BY <1>1, MessageBounds DEF Flow
<1>4. Below(got[j], m) /\ Below(responses[j], m)
    BY <1>1, <1>3 DEF Below
<1>5. ASSUME NEW r \in Replicas
      PROVE  /\ stream[r][j] # "leaked"
             /\ chunks'[r][j] # <<>> => stream[r][j] = "open"
             /\ Rising(chunks'[r][j]) /\ Below(chunks'[r][j], m)
             /\ Precedes(got[j], chunks'[r][j]) /\ Precedes(responses[j], chunks'[r][j])
    <2>1. /\ chunks[r][j] \in Seq(Message) /\ Range(chunks[r][j]) \subseteq Int
          /\ stream[r][j] # "leaked" /\ (chunks[r][j] # <<>> => stream[r][j] = "open")
          /\ Rising(chunks[r][j]) /\ Below(chunks[r][j], next[j])
          /\ Precedes(got[j], chunks[r][j]) /\ Precedes(responses[j], chunks[r][j])
        <3>1. chunks[r][j] \in Seq(Message)
            BY DEF Typed
        <3>2. Range(chunks[r][j]) \subseteq Int
            BY <3>1, MessageBounds
        <3>. QED
            BY <3>1, <3>2 DEF Flow
    <2>2. Below(chunks[r][j], m)
        BY <1>1, <2>1 DEF Below
    <2>3. CASE ~Subscribed(r, j)
        BY <2>1, <2>2, <2>3
    <2>4. CASE Subscribed(r, j)
        <3>1. stream[r][j] = "open" /\ chunks'[r][j] = Append(chunks[r][j], n)
            BY <2>1, <2>4 DEF Subscribed
        <3>2. /\ Range(Append(chunks[r][j], n)) = Range(chunks[r][j]) \cup {n}
              /\ Rising(Append(chunks[r][j], n))
            BY <1>2, <2>1, AppendRises
        <3>3. Below(Append(chunks[r][j], n), m)
            BY <1>1, <2>2, <3>2 DEF Below
        <3>4. Precedes(got[j], Append(chunks[r][j], n)) /\ Precedes(responses[j], Append(chunks[r][j], n))
            BY <1>2, <1>3, <2>1, <3>2 DEF Below, Precedes
        <3>. QED
            BY <2>1, <3>1, <3>2, <3>3, <3>4
    <2>. QED
        BY <2>3, <2>4
<1>. QED
    BY <1>4, <1>5 DEF Flow, m

-----------------------------------------------------------------------------
(* ... action by action.                                                   *)

LEMMA FinishesAt ==
    ASSUME Inv, Typed, NEW r \in Replicas, NEW k \in Jobs, Finishes(r, k)
    PROVE  /\ chunks' \in [Replicas -> [Jobs -> Seq(Message)]]
           /\ \A s \in Replicas, j \in Jobs :
                 /\ chunks'[s][j] = IF s = r /\ j = k THEN <<>> ELSE chunks[s][j]
                 /\ stream'[s][j] = IF s = r /\ j = k THEN "finished" ELSE stream[s][j]
<1>1. stream \in [Replicas -> [Jobs -> StreamState]] /\ "finished" \in StreamState
    BY DEF Inv, WeakType, StreamState
<1>2. chunks \in [Replicas -> [Jobs -> Seq(Message)]] /\ <<>> \in Seq(Message)
    BY DEF Typed
<1>3. /\ stream' = [stream EXCEPT ![r][k] = "finished"]
      /\ chunks' = [chunks EXCEPT ![r][k] = <<>>]
    BY DEF Finishes
<1>4. \A s \in Replicas, j \in Jobs :
         stream'[s][j] = IF s = r /\ j = k THEN "finished" ELSE stream[s][j]
    BY <1>1, <1>3, Nested
<1>5. /\ chunks' \in [Replicas -> [Jobs -> Seq(Message)]]
      /\ \A s \in Replicas, j \in Jobs :
            chunks'[s][j] = IF s = r /\ j = k THEN <<>> ELSE chunks[s][j]
    BY <1>2, <1>3, Nested
<1>. QED
    BY <1>4, <1>5

\* The oldest chunk of a stream is taken.
LEMMA TakenAt ==
    ASSUME Typed, NEW r \in Replicas, NEW k \in Jobs, chunks[r][k] # <<>>,
           chunks' = [chunks EXCEPT ![r][k] = Tail(@)]
    PROVE  /\ chunks' \in [Replicas -> [Jobs -> Seq(Message)]]
           /\ Head(chunks[r][k]) \in Message
           /\ \A s \in Replicas, j \in Jobs :
                 chunks'[s][j] = IF s = r /\ j = k THEN Tail(chunks[r][k]) ELSE chunks[s][j]
<1>1. chunks \in [Replicas -> [Jobs -> Seq(Message)]] /\ chunks[r][k] \in Seq(Message)
    BY DEF Typed
<1>2. Tail(chunks[r][k]) \in Seq(Message) /\ Head(chunks[r][k]) \in Message
    BY <1>1, TailRises
<1>3. chunks' = [chunks EXCEPT ![r][k] = Tail(chunks[r][k])]
    BY <1>1
<1>. QED
    BY <1>1, <1>2, <1>3, Nested

LEMMA AudioFlow ==
    ASSUME Inv, Typed, NEW r \in Replicas, NEW k \in Jobs, HandleAudio(r, k),
           UNCHANGED sessionVars, NEW j \in Jobs, Flow(j), met \cap {"lapse", "redis"} = {}
    PROVE  Flow(j)'
<1>1. /\ chunks[r][k] # <<>> /\ Head(chunks[r][k]) # Finish
      /\ chunks' = [chunks EXCEPT ![r][k] = Tail(@)] /\ Answer(k, Head(chunks[r][k]))
      /\ stream' = stream /\ got' = got /\ next' = next
    BY DEF HandleAudio, ownVars, sessionVars
<1>2. \A s \in Replicas, i \in Jobs :
         chunks'[s][i] = IF s = r /\ i = k THEN Tail(chunks[r][k]) ELSE chunks[s][i]
    BY <1>1, TakenAt
<1>3. /\ \A i \in Jobs : i # k => responses'[i] = responses[i]
      /\ responses'[k] \in {responses[k], Append(responses[k], Head(chunks[r][k]))}
    BY <1>1 DEF Typed, Answer
<1>4. CASE j # k
    BY <1>1, <1>2, <1>3, <1>4, FlowKept DEF Flow
<1>5. CASE j = k
    <2>1. stream[r][j] = "open"
        BY <1>1, <1>5 DEF Flow
    <2>2. ASSUME NEW s \in Replicas, s # r
          PROVE  chunks[s][j] = <<>>
        <3>1. Locked(r, j) /\ Locked(s, j)
            BY DEF Inv
        <3>. QED
            BY <2>1, <2>2, <3>1 DEF Flow, Locked
    <2>3. \A s \in Replicas : chunks'[s][j] = IF s = r THEN Tail(chunks[r][j]) ELSE chunks[s][j]
        BY <1>2, <1>5
    <2>4. responses'[j] \in {responses[j], Append(responses[j], Head(chunks[r][j]))}
        BY <1>3, <1>5
    <2>5. chunks[r][j] # <<>> /\ Head(chunks[r][j]) # Finish
        BY <1>1, <1>5
    <2>. QED
        BY <1>1, <2>2, <2>3, <2>4, <2>5, FlowAnswered
<1>. QED
    BY <1>4, <1>5

LEMMA ServiceFlow ==
    ASSUME Inv, Typed, ServiceNext, UNCHANGED sessionVars, NEW j \in Jobs, Flow(j),
           met \cap {"lapse", "redis"} = {}, met' \cap {"lapse", "redis"} = {}
    PROVE  Flow(j)'
<1>. got' = got /\ next' = next
    BY DEF sessionVars
<1>1. ASSUME NEW r \in Replicas, HandleInit(r)
      PROVE  Flow(j)'
    <2>1. chunks' = chunks /\ responses' = responses /\ stream' = stream
        BY <1>1 DEF HandleInit
    <2>. QED
        BY <2>1, FlowKept DEF Flow
<1>2. ASSUME NEW r \in Replicas, Restart(r)
      PROVE  Flow(j)'
    <2>1. chunks' = chunks /\ responses' = responses /\ stream' = stream
        BY <1>2 DEF Restart, natsVars
    <2>. QED
        BY <2>1, FlowKept DEF Flow
<1>3. ASSUME NEW k \in Jobs, LockExpires(k) \/ LockLapses(k)
      PROVE  Flow(j)'
    <2>1. chunks' = chunks /\ responses' = responses /\ stream' = stream
        BY <1>3 DEF LockExpires, LockLapses, natsVars
    <2>. QED
        BY <2>1, FlowKept DEF Flow
<1>4. ASSUME NEW r \in Replicas, Crash(r)
      PROVE  Flow(j)'
    <2>1. /\ chunks' = [chunks EXCEPT ![r] = [i \in Jobs |-> <<>>]]
          /\ stream' = [stream EXCEPT ![r] = [i \in Jobs |-> "none"]]
          /\ responses' = responses
        BY <1>4 DEF Crash
    <2>2. \A s \in Replicas :
             /\ chunks'[s][j] = IF s = r THEN <<>> ELSE chunks[s][j]
             /\ stream'[s][j] = IF s = r THEN "none" ELSE stream[s][j]
        BY <2>1 DEF Inv, WeakType, Typed
    <2>. QED
        BY <2>1, <2>2, FlowKept DEF Flow
<1>5. ASSUME NEW r \in Replicas, NEW k \in Jobs, StartStream(r, k)
      PROVE  Flow(j)'
    <2>1. /\ chunks' = chunks /\ responses' = responses
          /\ stream' = [stream EXCEPT ![r][k] = "open"]
        BY <1>5 DEF StartStream
    <2>2. stream \in [Replicas -> [Jobs -> StreamState]] /\ "open" \in StreamState
        BY DEF Inv, WeakType, StreamState
    <2>3. \A s \in Replicas, i \in Jobs :
             stream'[s][i] = IF s = r /\ i = k THEN "open" ELSE stream[s][i]
        BY <2>1, <2>2, Nested
    <2>. QED
        BY <2>1, <2>3, FlowKept DEF Flow
<1>6. ASSUME NEW r \in Replicas, NEW k \in Jobs, HandleAudio(r, k)
      PROVE  Flow(j)'
    BY <1>6, AudioFlow
<1>7. ASSUME NEW r \in Replicas, NEW k \in Jobs, Finishes(r, k), responses' = responses
      PROVE  Flow(j)'
    <2>1. \A s \in Replicas :
             /\ chunks'[s][j] = IF s = r /\ j = k THEN <<>> ELSE chunks[s][j]
             /\ stream'[s][j] = IF s = r /\ j = k THEN "finished" ELSE stream[s][j]
        BY <1>7, FinishesAt
    <2>. QED
        BY <1>7, <2>1, FlowKept DEF Flow
<1>8. ASSUME NEW r \in Replicas, NEW k \in Jobs, HandleFinish(r, k)
      PROVE  Flow(j)'
    <2>1. \/ Finishes(r, k) /\ responses' = responses
          \/ /\ stream[r][k] = "leaked" /\ chunks[r][k] # <<>>
             /\ chunks' = [chunks EXCEPT ![r][k] = Tail(@)]
             /\ stream' = stream /\ responses' = responses
        BY <1>8 DEF HandleFinish, Fault, Spends
    <2>2. CASE Finishes(r, k) /\ responses' = responses
        BY <1>7, <2>2
    <2>3. CASE /\ stream[r][k] = "leaked" /\ chunks[r][k] # <<>>
               /\ chunks' = [chunks EXCEPT ![r][k] = Tail(@)]
               /\ stream' = stream /\ responses' = responses
        <3>1. j # k
            BY <2>3 DEF Flow
        <3>2. \A s \in Replicas : chunks'[s][j] = chunks[s][j]
            BY <2>3, <3>1, TakenAt
        <3>. QED
            BY <2>3, <3>2, FlowKept DEF Flow
    <2>. QED
        BY <2>1, <2>2, <2>3
<1>9. ASSUME NEW r \in Replicas, NEW k \in Jobs, CheckTimeout(r, k) \/ ExtendFails(r, k)
      PROVE  Flow(j)'
    <2>1. Finishes(r, k) /\ responses' = responses
        BY <1>9 DEF CheckTimeout, ExtendFails, Ends, Spends
    <2>. QED
        BY <1>7, <2>1
<1>. QED
    BY <1>1, <1>2, <1>3, <1>4, <1>5, <1>6, <1>8, <1>9 DEF ServiceNext, HandleMessages

\* Publishing to the processing topic.
LEMMA ProcessAt ==
    ASSUME Typed, NEW k \in Jobs, NEW n \in Message, S!Process(k, n)
    PROVE  /\ chunks' \in [Replicas -> [Jobs -> Seq(Message)]]
           /\ \A s \in Replicas, j \in Jobs :
                 chunks'[s][j] = IF Subscribed(s, k) /\ j = k THEN Append(chunks[s][k], n)
                                 ELSE chunks[s][j]
<1>1. chunks' = [r \in Replicas |->
                    IF Subscribed(r, k) THEN [chunks[r] EXCEPT ![k] = Append(@, n)] ELSE chunks[r]]
    BY DEF S!Process, Subscribed
<1>2. ASSUME NEW s \in Replicas
      PROVE  /\ chunks'[s] \in [Jobs -> Seq(Message)]
             /\ \A j \in Jobs :
                   chunks'[s][j] = IF Subscribed(s, k) /\ j = k THEN Append(chunks[s][k], n)
                                   ELSE chunks[s][j]
    <2>1. chunks[s] \in [Jobs -> Seq(Message)] /\ Append(chunks[s][k], n) \in Seq(Message)
        BY AppendRises DEF Typed
    <2>2. CASE Subscribed(s, k)
        BY <1>1, <2>1, <2>2
    <2>3. CASE ~Subscribed(s, k)
        BY <1>1, <2>1, <2>3
    <2>. QED
        BY <2>2, <2>3
<1>3. chunks' \in [Replicas -> [Jobs -> Seq(Message)]]
    BY <1>1, <1>2
<1>. QED
    BY <1>2, <1>3

LEMMA SessionFlow ==
    ASSUME Inv, Typed, S!SessionNext, UNCHANGED ownVars, NEW j \in Jobs, Flow(j)
    PROVE  Flow(j)'
<1>. stream' = stream
    BY DEF ownVars
<1>1. ASSUME UNCHANGED <<chunks, got, next>>,
             responses'[j] = responses[j] \/ responses'[j] = <<>>
      PROVE  Flow(j)'
    BY <1>1, FlowKept DEF Flow
<1>2. ASSUME NEW k \in Jobs,
             \/ S!CreateSyncJob(k) \/ S!SendInit(k) \/ S!WaitForReady(k) \/ S!ForwardStatus(k)
             \/ S!ClientLeaves(k) \/ S!HandleSyncStatusFinish(k)
      PROVE  Flow(j)'
    BY <1>1, <1>2 DEF S!CreateSyncJob, S!SendInit, S!WaitForReady, S!ForwardStatus,
                      S!ClientLeaves, S!HandleSyncStatusFinish
<1>3. ASSUME NEW k \in Jobs, S!Close(k)
      PROVE  Flow(j)'
    <2>1. UNCHANGED <<chunks, got, next>> /\ responses' = [responses EXCEPT ![k] = <<>>]
        BY <1>3 DEF S!Close
    <2>. QED
        BY <1>1, <2>1 DEF Typed
<1>4. CASE S!RestartGateway
    BY <1>1, <1>4 DEF S!RestartGateway
<1>5. ASSUME NEW k \in Jobs, S!ForwardResponse(k)
      PROVE  Flow(j)'
    <2>1. /\ responses[k] # <<>> /\ responses' = [responses EXCEPT ![k] = Tail(@)]
          /\ got' = got \/ got' = [got EXCEPT ![k] = Append(@, Head(responses[k]))]
          /\ chunks' = chunks /\ next' = next
        BY <1>5 DEF S!ForwardResponse
    <2>2. /\ responses'[j] = IF j = k THEN Tail(responses[k]) ELSE responses[j]
          /\ got'[j] = got[j] \/ (j = k /\ got'[j] = Append(got[j], Head(responses[k])))
        BY <2>1 DEF Typed
    <2>3. CASE j = k
        BY <2>1, <2>2, <2>3, FlowForwarded
    <2>4. CASE j # k
        BY <2>1, <2>2, <2>4, FlowKept DEF Flow
    <2>. QED
        BY <2>3, <2>4
<1>6. ASSUME NEW k \in Jobs, S!ProcessAudioMessage(k) \/ S!ReadError(k)
      PROVE  Flow(j)'
    <2>1. /\ responses' = responses /\ got' = got
          /\ \/ /\ next[k] <= MaxChunks /\ S!Process(k, next[k])
                /\ next' = [next EXCEPT ![k] = @ + 1]
             \/ S!Process(k, 0) /\ next' = next
        BY <1>6 DEF S!ProcessAudioMessage, S!ReadError
    <2>2. PICK n \in Message :
             /\ S!Process(k, n)
             /\ \A i \in Jobs : i # k => next'[i] = next[i]
             /\ \/ n = Finish /\ next'[k] = next[k]
                \/ n = next[k] /\ next'[k] = next[k] + 1
        <3>1. next \in [Jobs -> 1..MaxChunks + 1] /\ MaxChunks \in Nat
            BY SyncAssumption DEF Typed
        <3>2. CASE S!Process(k, 0) /\ next' = next
            BY <3>2, MessageBounds DEF Finish
        <3>3. CASE /\ next[k] <= MaxChunks /\ S!Process(k, next[k])
                   /\ next' = [next EXCEPT ![k] = @ + 1]
            <4>1. next[k] \in Message
                BY <3>1, <3>3 DEF Message
            <4>2. next'[k] = next[k] + 1 /\ \A i \in Jobs : i # k => next'[i] = next[i]
                BY <3>1, <3>3
            <4>. QED
                BY <3>3, <4>1, <4>2
        <3>. QED
            BY <2>1, <3>2, <3>3
    <2>3. \A s \in Replicas, i \in Jobs :
             chunks'[s][i] = IF Subscribed(s, k) /\ i = k THEN Append(chunks[s][k], n)
                             ELSE chunks[s][i]
        BY <2>2, ProcessAt
    <2>4. CASE j = k
        BY <2>1, <2>2, <2>3, <2>4, FlowSent
    <2>5. CASE j # k
        BY <2>1, <2>2, <2>3, <2>5, FlowKept DEF Flow
    <2>. QED
        BY <2>4, <2>5
<1>. QED
    BY <1>2, <1>3, <1>4, <1>5, <1>6 DEF S!SessionNext, S!Session

-----------------------------------------------------------------------------
(* The types of what the queues carry.                                     *)

LEMMA FaultTyped ==
    ASSUME budget \in 0..MaxFaults, met \subseteq Faults,
           NoFault \/ \E kinds \in SUBSET FaultKind, n \in 0..2 : Spends(kinds, n)
    PROVE  budget' \in 0..MaxFaults /\ met' \subseteq Faults
<1>1. CASE NoFault
    BY <1>1 DEF NoFault, faultVars
<1>2. ASSUME NEW kinds \in SUBSET FaultKind, NEW n \in 0..2, Spends(kinds, n)
      PROVE  budget' \in 0..MaxFaults /\ met' \subseteq Faults
    <2>1. budget >= n /\ budget' = budget - n /\ met' = met \cup kinds /\ kinds \subseteq Faults
        BY <1>2 DEF Spends
    <2>2. budget' \in 0..MaxFaults
        BY <2>1, SyncAssumption
    <2>. QED
        BY <2>1, <2>2
<1>. QED
    BY <1>1, <1>2

\* What the end of a stream spends, after n faults that led to it.
LEMMA EndsTyped ==
    ASSUME NEW r, NEW j, NEW kinds \in SUBSET FaultKind, NEW n \in {0, 1}, Ends(r, j, kinds, n)
    PROVE  \E all \in SUBSET FaultKind, m \in 0..2 : Spends(all, m)
<1>1. Spends(kinds, n) \/ Spends(kinds \cup {"redis"}, n + 1)
    BY DEF Ends, Releases
<1>2. n \in 0..2 /\ n + 1 \in 0..2 /\ kinds \cup {"redis"} \in SUBSET FaultKind
    BY DEF FaultKind
<1>. QED
    BY <1>1, <1>2

LEMMA TellTyped ==
    ASSUME Typed, NEW j \in Jobs, NEW msgs \in Seq({"ready", "finished"}), Tell(j, msgs)
    PROVE  statuses' \in [Jobs -> Seq({"ready", "finished"})]
<1>1. statuses[j] \o msgs \in Seq({"ready", "finished"})
    BY DEF Typed
<1>. QED
    BY <1>1 DEF Typed, Tell

LEMMA AnswerTyped ==
    ASSUME Typed, NEW j \in Jobs, NEW n \in Message, Answer(j, n)
    PROVE  responses' \in [Jobs -> Seq(Message)]
<1>1. Append(responses[j], n) \in Seq(Message)
    BY DEF Typed
<1>. QED
    BY <1>1 DEF Typed, Answer

LEMMA AnnouncedTyped ==
    ASSUME Typed, NEW r \in Replicas, NEW j \in Jobs, Finishes(r, j)
    PROVE  announced' \in [Jobs -> Nat]
BY DEF Typed, Finishes

LEMMA ServiceTyped ==
    ASSUME Inv, Typed, ServiceNext, UNCHANGED sessionVars
    PROVE  Typed'
<1>. UNCHANGED <<client, forwarder, next, got, row>>
    BY DEF sessionVars
<1>1. {"crash", "lapse", "redis", "garbled"} \subseteq FaultKind /\ Finish \in Message
    BY MessageBounds DEF FaultKind
<1>2. /\ <<"ready">> \in Seq({"ready", "finished"}) /\ <<"finished">> \in Seq({"ready", "finished"})
      /\ <<"finished", "finished">> \in Seq({"ready", "finished"})
    OBVIOUS
<1>3. listens' = listens
    BY DEF ServiceNext, HandleInit, Crash, Restart, HandleMessages, ExtendFails, StartStream,
           HandleAudio, HandleFinish, CheckTimeout, LockExpires, LockLapses, natsVars
<1>4. budget' \in 0..MaxFaults /\ met' \subseteq Faults
    <2>. DEFINE Local == NoFault \/ \E kinds \in SUBSET FaultKind, n \in 0..2 : Spends(kinds, n)
    <2>1. Local
        <3>1. ASSUME NEW r \in Replicas, HandleInit(r) \/ Crash(r) \/ Restart(r)
              PROVE  NoFault \/ Spends({"redis"}, 1) \/ Spends({"crash"}, 1)
            BY <3>1 DEF HandleInit, Crash, Restart, Fault, NoFault
        <3>2. ASSUME NEW r \in Replicas, NEW j \in Jobs, HandleMessages(r, j)
              PROVE  Local
            <4>1. CASE StartStream(r, j) \/ HandleAudio(r, j)
                BY <4>1 DEF StartStream, HandleAudio, NoFault
            <4>2. CASE HandleFinish(r, j)
                <5>1. NoFault \/ Spends({}, 0) \/ Spends({"redis"}, 1) \/ Spends({} \cup {"redis"}, 0 + 1)
                    BY <4>2 DEF HandleFinish, Releases, Fault
                <5>2. Spends({} \cup {"redis"}, 0 + 1) <=> Spends({"redis"}, 1)
                    BY DEF Spends
                <5>. QED
                    BY <1>1, <5>1, <5>2
            <4>3. CASE CheckTimeout(r, j)
                BY <1>1, <4>3, EndsTyped DEF CheckTimeout
            <4>. QED
                BY <3>2, <4>1, <4>2, <4>3 DEF HandleMessages
        <3>3. ASSUME NEW r \in Replicas, NEW j \in Jobs, ExtendFails(r, j)
              PROVE  Local
            BY <1>1, <3>3, EndsTyped DEF ExtendFails
        <3>4. ASSUME NEW j \in Jobs, LockExpires(j) \/ LockLapses(j)
              PROVE  NoFault \/ Spends({"lapse"}, 1)
            BY <3>4 DEF LockExpires, LockLapses, Fault, NoFault
        <3>. QED
            BY <1>1, <3>1, <3>2, <3>3, <3>4 DEF ServiceNext
    <2>. QED
        BY <2>1, FaultTyped DEF Typed
<1>5. up' \in [Replicas -> BOOLEAN]
    <2>1. \/ up' = up
          \/ \E r \in Replicas : \E b \in BOOLEAN : up' = [up EXCEPT ![r] = b]
        <3>1. ASSUME NEW r \in Replicas, HandleInit(r) \/ Crash(r) \/ Restart(r)
              PROVE  up' = up \/ \E b \in BOOLEAN : up' = [up EXCEPT ![r] = b]
            BY <3>1 DEF HandleInit, Crash, Restart
        <3>2. ASSUME NEW r \in Replicas, NEW j \in Jobs, HandleMessages(r, j) \/ ExtendFails(r, j)
              PROVE  up' = up
            BY <3>2 DEF HandleMessages, ExtendFails, StartStream, HandleAudio, HandleFinish,
                        CheckTimeout, ownVars
        <3>3. ASSUME NEW j \in Jobs, LockExpires(j) \/ LockLapses(j)
              PROVE  up' = up
            BY <3>3 DEF LockExpires, LockLapses
        <3>. QED
            BY <3>1, <3>2, <3>3 DEF ServiceNext
    <2>2. up \in [Replicas -> BOOLEAN]
        BY DEF Typed
    <2>. QED
        BY <2>1, <2>2
<1>. DEFINE Carried ==
        /\ chunks'    \in [Replicas -> [Jobs -> Seq(Message)]]
        /\ statuses'  \in [Jobs -> Seq({"ready", "finished"})]
        /\ responses' \in [Jobs -> Seq(Message)]
        /\ announced' \in [Jobs -> Nat]
<1>6. Carried
    <2>1. CASE UNCHANGED <<chunks, statuses, responses, announced>>
        BY <2>1 DEF Typed
    <2>2. ASSUME NEW r \in Replicas, Crash(r)
          PROVE  Carried
        <3>1. [j \in Jobs |-> <<>>] \in [Jobs -> Seq(Message)]
            BY EmptyRises
        <3>2. chunks' \in [Replicas -> [Jobs -> Seq(Message)]]
            BY <2>2, <3>1 DEF Crash, Typed
        <3>. QED
            BY <2>2, <3>2 DEF Crash, Typed
    <2>3. ASSUME NEW r \in Replicas, NEW j \in Jobs, StartStream(r, j)
          PROVE  Carried
        BY <1>2, <2>3, TellTyped DEF StartStream, Typed
    <2>4. ASSUME NEW r \in Replicas, NEW j \in Jobs, HandleAudio(r, j)
          PROVE  Carried
        BY <2>4, TakenAt, AnswerTyped DEF HandleAudio, Typed
    <2>5. ASSUME NEW r \in Replicas, NEW j \in Jobs, HandleFinish(r, j)
          PROVE  Carried
        <3>1. CASE Finishes(r, j) /\ Tell(j, <<"finished", "finished">>) /\ responses' = responses
            BY <1>2, <3>1, FinishesAt, AnnouncedTyped, TellTyped DEF Typed
        <3>2. CASE /\ chunks[r][j] # <<>> /\ chunks' = [chunks EXCEPT ![r][j] = Tail(@)]
                   /\ Tell(j, <<"finished">>) /\ UNCHANGED <<announced, responses>>
            BY <1>2, <3>2, TakenAt, TellTyped DEF Typed
        <3>3. CASE /\ chunks[r][j] # <<>> /\ chunks' = [chunks EXCEPT ![r][j] = Tail(@)]
                   /\ Answer(j, Finish) /\ UNCHANGED <<announced, statuses>>
            BY <1>1, <3>3, TakenAt, AnswerTyped DEF Typed
        <3>. QED
            BY <2>5, <3>1, <3>2, <3>3 DEF HandleFinish, Leaks
    <2>6. ASSUME NEW r \in Replicas, NEW j \in Jobs, CheckTimeout(r, j) \/ ExtendFails(r, j)
          PROVE  Carried
        <3>1. responses' = responses
            BY <2>6 DEF CheckTimeout, ExtendFails
        <3>2. CASE Finishes(r, j) /\ Tell(j, <<"finished">>)
            BY <1>2, <3>1, <3>2, FinishesAt, AnnouncedTyped, TellTyped DEF Typed
        <3>3. CASE UNCHANGED <<chunks, statuses, announced>>
            BY <3>1, <3>3 DEF Typed
        <3>. QED
            BY <2>6, <3>2, <3>3 DEF CheckTimeout, ExtendFails, Ends, Leaks
    <2>7. ASSUME NEW r \in Replicas, HandleInit(r) \/ Restart(r)
          PROVE  Carried
        BY <2>1, <2>7 DEF HandleInit, Restart, natsVars
    <2>8. ASSUME NEW j \in Jobs, LockExpires(j) \/ LockLapses(j)
          PROVE  Carried
        BY <2>1, <2>8 DEF LockExpires, LockLapses, natsVars
    <2>. QED
        BY <2>2, <2>3, <2>4, <2>5, <2>6, <2>7, <2>8 DEF ServiceNext, HandleMessages
<1>. QED
    BY <1>3, <1>4, <1>5, <1>6 DEF Typed

LEMMA SessionTyped ==
    ASSUME Typed, S!SessionNext, UNCHANGED ownVars
    PROVE  Typed'
<1>1. up' = up
    BY DEF ownVars
<1>2. budget' \in 0..MaxFaults /\ met' \subseteq Faults
    <2>1. ASSUME NEW kind \in FaultKind, S!Fault(kind)
          PROVE  Spends({kind}, 1)
        BY <2>1, SyncAssumption DEF S!Fault, Spends, Typed
    <2>2. \/ UNCHANGED <<budget, met>>
          \/ S!Fault("postgres") \/ S!Fault("redis") \/ S!Fault("gateway")
        BY DEF S!SessionNext, S!Session, S!CreateSyncJob, S!SendInit, S!WaitForReady, S!ReadError,
               S!ForwardResponse, S!ForwardStatus, S!Close, S!ProcessAudioMessage,
               S!ClientLeaves, S!HandleSyncStatusFinish, S!RestartGateway, S!NoFault
    <2>3. {"postgres", "redis", "gateway"} \subseteq FaultKind
        BY DEF FaultKind
    <2>. QED
        <3>1. NoFault \/ \E kinds \in SUBSET FaultKind, n \in 0..2 : Spends(kinds, n)
            <4>1. ASSUME NEW kind \in FaultKind, S!Fault(kind)
                  PROVE  \E kinds \in SUBSET FaultKind, n \in 0..2 : Spends(kinds, n)
                <5>1. {kind} \in SUBSET FaultKind /\ 1 \in 0..2
                    OBVIOUS
                <5>. QED
                    BY <2>1, <4>1, <5>1
            <4>. QED
                BY <2>2, <2>3, <4>1 DEF NoFault, faultVars
        <3>. QED
            BY <3>1, FaultTyped DEF Typed
<1>. DEFINE Rest ==
        /\ chunks'    \in [Replicas -> [Jobs -> Seq(Message)]]
        /\ statuses'  \in [Jobs -> Seq({"ready", "finished"})]
        /\ responses' \in [Jobs -> Seq(Message)]
        /\ announced' \in [Jobs -> Nat]
        /\ listens'   \in [Jobs -> BOOLEAN]
        /\ client'    \in [Jobs -> {"talks", "silent"}]
        /\ forwarder' \in [Jobs -> {"none", "running", "ended"}]
        /\ next'      \in [Jobs -> 1..MaxChunks + 1]
        /\ got'       \in [Jobs -> Seq(Message)]
        /\ row'       \in [Jobs -> {"none", "pending", "completed"}]
<1>3. ASSUME NEW k \in Jobs, S!CreateSyncJob(k) \/ S!SendInit(k) \/ S!ClientLeaves(k)
      PROVE  Rest
    BY <1>3 DEF S!CreateSyncJob, S!SendInit, S!ClientLeaves, Typed
<1>4. ASSUME NEW k \in Jobs, S!WaitForReady(k) \/ S!ForwardStatus(k)
      PROVE  Rest
    <2>1. statuses[k] # <<>> => Tail(statuses[k]) \in Seq({"ready", "finished"})
        BY DEF Typed
    <2>2. statuses' \in [Jobs -> Seq({"ready", "finished"})]
        BY <1>4, <2>1 DEF S!WaitForReady, S!ForwardStatus, Typed
    <2>3. forwarder' \in [Jobs -> {"none", "running", "ended"}]
        BY <1>4 DEF S!WaitForReady, S!ForwardStatus, Typed
    <2>. QED
        BY <1>4, <2>2, <2>3 DEF S!WaitForReady, S!ForwardStatus, Typed
<1>5. ASSUME NEW k \in Jobs, S!HandleSyncStatusFinish(k)
      PROVE  Rest
    <2>1. announced' \in [Jobs -> Nat]
        <3>1. announced \in [Jobs -> Nat] /\ announced[k] > 0
            BY <1>5 DEF S!HandleSyncStatusFinish, Typed
        <3>2. announced' = [announced EXCEPT ![k] = announced[k] - 1]
            BY <1>5 DEF S!HandleSyncStatusFinish
        <3>. QED
            BY <3>1, <3>2
    <2>2. row' \in [Jobs -> {"none", "pending", "completed"}]
        BY <1>5 DEF S!HandleSyncStatusFinish, Typed
    <2>. QED
        BY <1>5, <2>1, <2>2 DEF S!HandleSyncStatusFinish, Typed
<1>6. ASSUME NEW k \in Jobs, S!Close(k)
      PROVE  Rest
    BY <1>6, EmptyRises DEF S!Close, Typed
<1>7. ASSUME S!RestartGateway
      PROVE  Rest
    <2>1. forwarder' \in [Jobs -> {"none", "running", "ended"}]
        BY <1>7 DEF S!RestartGateway, Typed
    <2>2. statuses' \in [Jobs -> Seq({"ready", "finished"})] /\ responses' \in [Jobs -> Seq(Message)]
        BY <1>7, EmptyRises DEF S!RestartGateway
    <2>3. listens' \in [Jobs -> BOOLEAN] /\ announced' \in [Jobs -> Nat]
        BY <1>7 DEF S!RestartGateway
    <2>4. UNCHANGED <<chunks, client, next, got, row>>
        BY <1>7 DEF S!RestartGateway
    <2>. QED
        BY <2>1, <2>2, <2>3, <2>4 DEF Typed
<1>8. ASSUME NEW k \in Jobs, S!ForwardResponse(k)
      PROVE  Rest
    <2>1. responses[k] # <<>> /\ responses[k] \in Seq(Message) /\ got[k] \in Seq(Message)
        BY <1>8 DEF S!ForwardResponse, Typed
    <2>2. Head(responses[k]) \in Message /\ Tail(responses[k]) \in Seq(Message)
        BY <2>1, TailRises
    <2>3. Append(got[k], Head(responses[k])) \in Seq(Message)
        BY <2>1, <2>2
    <2>. QED
        BY <1>8, <2>2, <2>3 DEF S!ForwardResponse, Typed
<1>9. ASSUME NEW k \in Jobs, S!ReadError(k) \/ S!ProcessAudioMessage(k)
      PROVE  Rest
    <2>1. \/ S!ReadError(k) /\ S!Process(k, 0)
          \/ S!ProcessAudioMessage(k) /\ S!Process(k, next[k]) /\ next[k] \in 1..MaxChunks
        BY <1>9, SyncAssumption DEF S!ReadError, S!ProcessAudioMessage, Typed
    <2>2. chunks' \in [Replicas -> [Jobs -> Seq(Message)]]
        BY <2>1, MessageBounds, ProcessAt DEF Finish
    <2>3. next' \in [Jobs -> 1..MaxChunks + 1]
        <3>1. next \in [Jobs -> 1..MaxChunks + 1] /\ MaxChunks \in Nat
            BY SyncAssumption DEF Typed
        <3>2. next' = next \/ (next[k] \in 1..MaxChunks /\ next' = [next EXCEPT ![k] = next[k] + 1])
            BY <2>1 DEF S!ReadError, S!ProcessAudioMessage
        <3>3. next[k] \in 1..MaxChunks => next[k] + 1 \in 1..MaxChunks + 1
            BY <3>1
        <3>. QED
            BY <3>1, <3>2, <3>3
    <2>. QED
        BY <1>9, <2>2, <2>3 DEF S!ReadError, S!ProcessAudioMessage, Typed
<1>10. Rest
    BY <1>3, <1>4, <1>5, <1>6, <1>7, <1>8, <1>9 DEF S!SessionNext, S!Session
<1>. QED
    BY <1>1, <1>2, <1>10 DEF Typed

-----------------------------------------------------------------------------
(* Why a stream ends.                                                      *)

LEMMA EndsRightly ==
    ASSUME Inv, Typed, NEW r \in Replicas, NEW k \in Jobs, Ending(k),
           met \cap {"lapse", "redis", "garbled"} = {},
           met' \cap {"lapse", "redis", "garbled"} = {},
           HandleFinish(r, k) \/ CheckTimeout(r, k) \/ ExtendFails(r, k)
    PROVE  \/ announced' = announced
           \/ phase[k] \in {"closing", "closed"} /\ announced' = [announced EXCEPT ![k] = @ + 1]
<1>1. announced' = announced \/ announced' = [announced EXCEPT ![k] = @ + 1]
    BY DEF HandleFinish, CheckTimeout, ExtendFails, Ends, Finishes, Leaks
<1>2. CASE HandleFinish(r, k)
    <2>1. chunks[r][k] # <<>> /\ Head(chunks[r][k]) = Finish /\ chunks[r][k] \in Seq(Message)
        BY <1>2 DEF HandleFinish, Typed
    <2>2. Finish \in Range(chunks[r][k])
        BY <2>1, TailRises
    <2>. QED
        BY <1>1, <2>2 DEF Ending
<1>3. CASE CheckTimeout(r, k)
    <2>1. stream[r][k] = "open" /\ (~listens[k] \/ "garbled" \in met')
        BY <1>3 DEF CheckTimeout, Ends, Releases, Spends
    <2>2. phase[k] \notin {"none", "created"}
        BY <2>1 DEF Inv, Stages
    <2>. QED
        BY <1>1, <2>1, <2>2 DEF Ending, Inv
<1>4. CASE ExtendFails(r, k)
    <2>1. stream[r][k] = "open" /\ (lock[k] # r \/ "redis" \in met')
        BY <1>4 DEF ExtendFails, Ends, Releases, Spends
    <2>2. lock[k] = r
        <3>1. Locked(r, k)
            BY DEF Inv
        <3>. QED
            BY <2>1, <3>1 DEF Locked
    <2>. QED
        BY <2>1, <2>2
<1>. QED
    BY <1>2, <1>3, <1>4

\* What a step of the worker may do to what ends a stream.
LEMMA EndingKept ==
    ASSUME NEW j \in Jobs, Ending(j), met \subseteq met',
           UNCHANGED <<phase, listens, row>>,
           met' \cap {"lapse", "redis", "garbled"} = {} =>
              /\ announced'[j] = announced[j] \/ phase[j] \in {"closing", "closed"}
              /\ \A s \in Replicas : Range(chunks'[s][j]) \subseteq Range(chunks[s][j])
    PROVE  Ending(j)'
<1>1. met' \cap {"lapse", "redis", "garbled"} = {} => met \cap {"lapse", "redis", "garbled"} = {}
    OBVIOUS
<1>2. (phase[j] \in {"waiting", "streaming"} => listens[j])'
    BY DEF Ending
<1>3. ASSUME met' \cap {"lapse", "redis", "garbled"} = {}
      PROVE  /\ announced'[j] > 0 \/ row'[j] = "completed" => phase'[j] \in {"closing", "closed"}
             /\ \A s \in Replicas :
                   Finish \in Range(chunks'[s][j]) => phase'[j] \in {"closing", "closed"}
    <2>1. /\ announced[j] > 0 \/ row[j] = "completed" => phase[j] \in {"closing", "closed"}
          /\ \A s \in Replicas :
                Finish \in Range(chunks[s][j]) => phase[j] \in {"closing", "closed"}
        BY <1>1, <1>3 DEF Ending
    <2>. QED
        BY <1>3, <2>1
<1>. QED
    BY <1>2, <1>3 DEF Ending

LEMMA ServiceEnding ==
    ASSUME Inv, Typed, ServiceNext, UNCHANGED sessionVars, NEW j \in Jobs, Ending(j)
    PROVE  Ending(j)'
<1>1. UNCHANGED <<phase, row>>
    BY DEF sessionVars
<1>. DEFINE Kept == /\ announced'[j] = announced[j] \/ phase[j] \in {"closing", "closed"}
                    /\ \A s \in Replicas : Range(chunks'[s][j]) \subseteq Range(chunks[s][j])
<1>2. listens' = listens /\ met \subseteq met'
    <2>1. ASSUME NEW r \in Replicas, HandleInit(r) \/ Crash(r) \/ Restart(r)
          PROVE  listens' = listens /\ met \subseteq met'
        BY <2>1 DEF HandleInit, Crash, Restart, NoFault, Fault, Spends, natsVars, faultVars
    <2>2. ASSUME NEW r \in Replicas, NEW k \in Jobs, HandleMessages(r, k) \/ ExtendFails(r, k)
          PROVE  listens' = listens /\ met \subseteq met'
        BY <2>2 DEF HandleMessages, ExtendFails, StartStream, HandleAudio, HandleFinish,
                    CheckTimeout, Ends, Releases, NoFault, Fault, Spends, faultVars
    <2>3. ASSUME NEW k \in Jobs, LockExpires(k) \/ LockLapses(k)
          PROVE  listens' = listens /\ met \subseteq met'
        BY <2>3 DEF LockExpires, LockLapses, Fault, Spends, natsVars, faultVars
    <2>. QED
        BY <2>1, <2>2, <2>3 DEF ServiceNext
<1>3. ASSUME met' \cap {"lapse", "redis", "garbled"} = {}
      PROVE  Kept
    <2>1. met \cap {"lapse", "redis", "garbled"} = {}
        BY <1>2, <1>3
    <2>2. CASE UNCHANGED <<chunks, announced>>
        BY <2>2
    <2>3. ASSUME NEW r \in Replicas, Crash(r)
          PROVE  Kept
        <3>1. chunks' = [chunks EXCEPT ![r] = [i \in Jobs |-> <<>>]] /\ announced' = announced
            BY <2>3 DEF Crash
        <3>2. \A s \in Replicas : chunks'[s][j] \in {chunks[s][j], <<>>}
            BY <3>1 DEF Typed
        <3>. QED
            BY <3>1, <3>2, EmptyRises
    <2>4. ASSUME NEW r \in Replicas, NEW k \in Jobs, HandleAudio(r, k)
          PROVE  Kept
        <3>1. /\ chunks[r][k] # <<>> /\ announced' = announced
              /\ chunks' = [chunks EXCEPT ![r][k] = Tail(@)]
            BY <2>4 DEF HandleAudio
        <3>2. Range(Tail(chunks[r][k])) \subseteq Range(chunks[r][k])
            BY <3>1, TailRises DEF Typed
        <3>. QED
            BY <3>1, <3>2, TakenAt
    <2>5. ASSUME NEW r \in Replicas, NEW k \in Jobs,
                 HandleFinish(r, k) \/ CheckTimeout(r, k) \/ ExtendFails(r, k)
          PROVE  Kept
        <3>1. announced'[j] = announced[j] \/ phase[j] \in {"closing", "closed"}
            <4>1. CASE j = k
                BY <1>3, <2>1, <2>5, <4>1, EndsRightly
            <4>2. CASE j # k
                <5>1. announced' = announced \/ announced' = [announced EXCEPT ![k] = @ + 1]
                    BY <2>5 DEF HandleFinish, CheckTimeout, ExtendFails, Ends, Finishes, Leaks
                <5>. QED
                    BY <4>2, <5>1 DEF Typed
            <4>. QED
                BY <4>1, <4>2
        <3>2. \/ Finishes(r, k)
              \/ chunks' = chunks
              \/ chunks[r][k] # <<>> /\ chunks' = [chunks EXCEPT ![r][k] = Tail(@)]
            BY <2>5 DEF HandleFinish, CheckTimeout, ExtendFails, Ends
        <3>3. CASE Finishes(r, k)
            BY <3>1, <3>3, FinishesAt, EmptyRises
        <3>4. CASE chunks[r][k] # <<>> /\ chunks' = [chunks EXCEPT ![r][k] = Tail(@)]
            <4>1. Range(Tail(chunks[r][k])) \subseteq Range(chunks[r][k])
                BY <3>4, TailRises DEF Typed
            <4>. QED
                BY <3>1, <3>4, <4>1, TakenAt
        <3>. QED
            BY <3>1, <3>2, <3>3, <3>4
    <2>6. ASSUME NEW r \in Replicas, HandleInit(r) \/ Restart(r)
          PROVE  UNCHANGED <<chunks, announced>>
        BY <2>6 DEF HandleInit, Restart, natsVars
    <2>7. ASSUME NEW k \in Jobs, LockExpires(k) \/ LockLapses(k)
          PROVE  UNCHANGED <<chunks, announced>>
        BY <2>7 DEF LockExpires, LockLapses, natsVars
    <2>8. ASSUME NEW r \in Replicas, NEW k \in Jobs, StartStream(r, k)
          PROVE  UNCHANGED <<chunks, announced>>
        BY <2>8 DEF StartStream
    <2>. QED
        BY <2>2, <2>3, <2>4, <2>5, <2>6, <2>7, <2>8 DEF ServiceNext, HandleMessages
<1>. QED
    BY <1>1, <1>2, <1>3, EndingKept

LEMMA SessionEnding ==
    ASSUME Inv, Typed, S!SessionNext, UNCHANGED ownVars, NEW j \in Jobs, Ending(j)
    PROVE  Ending(j)'
<1>. DEFINE PhaseFits  == /\ phase'[j] \in {"waiting", "streaming"} => listens'[j]
                          /\ phase[j] \in {"closing", "closed"} => phase'[j] \in {"closing", "closed"}
            Closing    == phase'[j] \in {"closing", "closed"}
            RowFits    == row'[j] = "completed" => row[j] = "completed" \/ announced[j] > 0
            SentFits   == \A s \in Replicas : Finish \in Range(chunks'[s][j]) =>
                                              Finish \in Range(chunks[s][j]) \/ Closing
<1>1. /\ phase \in [Jobs -> {"none", "created", "waiting", "streaming", "closing", "closed"}]
      /\ phase[j] \in {"waiting", "streaming"} => listens[j]
    BY DEF Inv, Ending
<1>2. ASSUME met \subseteq met', PhaseFits, RowFits, SentFits,
             announced'[j] > 0 => announced[j] > 0
      PROVE  Ending(j)'
    <2>1. ASSUME met' \cap {"lapse", "redis", "garbled"} = {}
          PROVE  /\ announced'[j] > 0 \/ row'[j] = "completed" => Closing
                 /\ \A s \in Replicas : Finish \in Range(chunks'[s][j]) => Closing
        <3>1. met \cap {"lapse", "redis", "garbled"} = {}
            BY <1>2, <2>1
        <3>2. /\ announced[j] > 0 \/ row[j] = "completed" => phase[j] \in {"closing", "closed"}
              /\ \A s \in Replicas :
                    Finish \in Range(chunks[s][j]) => phase[j] \in {"closing", "closed"}
            BY <3>1 DEF Ending
        <3>. QED
            BY <1>2, <3>2
    <2>. QED
        BY <1>2, <2>1 DEF Ending
<1>3. ASSUME NEW k \in Jobs, S!CreateSyncJob(k)
      PROVE  Ending(j)'
    <2>1. met \subseteq met' /\ UNCHANGED <<chunks, announced, listens>>
        BY <1>3 DEF S!CreateSyncJob, S!NoFault, S!Fault
    <2>2. PhaseFits
        BY <1>1, <1>3, <2>1 DEF S!CreateSyncJob, S!PhaseStep
    <2>3. RowFits
        BY <1>3 DEF S!CreateSyncJob, Typed
    <2>. QED
        BY <1>2, <2>1, <2>2, <2>3
<1>4. ASSUME NEW k \in Jobs, S!SendInit(k) \/ S!WaitForReady(k) \/ S!Close(k)
      PROVE  Ending(j)'
    <2>1. met' = met /\ UNCHANGED <<chunks, announced, row>>
        BY <1>4 DEF S!SendInit, S!WaitForReady, S!Close, S!NoFault
    <2>2. \/ phase[k] = "created" /\ phase' = [phase EXCEPT ![k] = "waiting"]
             /\ listens' = [listens EXCEPT ![k] = TRUE]
          \/ phase[k] = "waiting" /\ phase' = [phase EXCEPT ![k] = "streaming"] /\ listens' = listens
          \/ phase[k] = "waiting" /\ phase' = [phase EXCEPT ![k] = "closing"] /\ listens' = listens
          \/ phase[k] = "closing" /\ phase' = [phase EXCEPT ![k] = "closed"]
             /\ listens' = [listens EXCEPT ![k] = FALSE]
        BY <1>4 DEF S!SendInit, S!WaitForReady, S!Close, S!PhaseStep
    <2>3. listens \in [Jobs -> BOOLEAN]
        BY DEF Typed
    <2>4. PhaseFits
        BY <1>1, <2>2, <2>3
    <2>. QED
        BY <1>2, <2>1, <2>4
<1>5. ASSUME NEW k \in Jobs, S!ForwardResponse(k) \/ S!ForwardStatus(k) \/ S!ClientLeaves(k)
      PROVE  Ending(j)'
    <2>1. met' = met /\ UNCHANGED <<chunks, announced, row, phase, listens>>
        BY <1>5 DEF S!ForwardResponse, S!ForwardStatus, S!ClientLeaves, S!NoFault
    <2>. QED
        BY <1>1, <1>2, <2>1
<1>6. ASSUME NEW k \in Jobs, S!HandleSyncStatusFinish(k)
      PROVE  Ending(j)'
    <2>1. met \subseteq met' /\ UNCHANGED <<chunks, phase, listens>>
        BY <1>6 DEF S!HandleSyncStatusFinish, S!NoFault, S!Fault
    <2>2. RowFits
        BY <1>6 DEF S!HandleSyncStatusFinish, Typed
    <2>3. announced'[j] > 0 => announced[j] > 0
        <3>1. announced \in [Jobs -> Nat] /\ announced' = [announced EXCEPT ![k] = announced[k] - 1]
            BY <1>6 DEF S!HandleSyncStatusFinish, Typed
        <3>. QED
            BY <3>1
    <2>. QED
        BY <1>1, <1>2, <2>1, <2>2, <2>3
<1>7. CASE S!RestartGateway
    <2>1. met \subseteq met' /\ UNCHANGED <<chunks, row>> /\ announced'[j] = 0
        BY <1>7 DEF S!RestartGateway, S!Fault
    <2>2. phase'[j] \in {"none", "closed"} /\ (phase[j] # "none" => phase'[j] = "closed")
        BY <1>7 DEF S!RestartGateway
    <2>. QED
        BY <1>2, <2>1, <2>2
<1>8. ASSUME NEW k \in Jobs, S!ReadError(k) \/ S!ProcessAudioMessage(k)
      PROVE  Ending(j)'
    <2>1. met' = met /\ UNCHANGED <<announced, row, listens>>
        BY <1>8 DEF S!ReadError, S!ProcessAudioMessage, S!NoFault
    <2>2. PhaseFits
        BY <1>1, <1>8, <2>1 DEF S!ReadError, S!ProcessAudioMessage, S!PhaseStep
    <2>3. SentFits
        <3>1. PICK n \in Message :
                 /\ S!Process(k, n)
                 /\ n = Finish => phase'[k] \in {"closing", "closed"}
            <4>1. CASE S!ReadError(k)
                BY <1>1, <4>1, MessageBounds DEF S!ReadError, S!PhaseStep, Finish
            <4>2. CASE S!ProcessAudioMessage(k)
                <5>1. next[k] \in 1..MaxChunks /\ S!Process(k, next[k])
                    BY <4>2, SyncAssumption DEF S!ProcessAudioMessage, Typed
                <5>. QED
                    BY <5>1, MessageBounds
            <4>. QED
                BY <1>8, <4>1, <4>2
        <3>2. SUFFICES ASSUME NEW s \in Replicas, Finish \in Range(chunks'[s][j]),
                              Finish \notin Range(chunks[s][j])
                       PROVE  Closing
            OBVIOUS
        <3>3. chunks'[s][j] = Append(chunks[s][k], n) /\ j = k
            BY <3>1, <3>2, ProcessAt
        <3>4. Range(Append(chunks[s][k], n)) = Range(chunks[s][k]) \cup {n}
            BY AppendRises DEF Typed
        <3>. QED
            BY <3>1, <3>2, <3>3, <3>4
    <2>. QED
        BY <1>2, <2>1, <2>2, <2>3
<1>. QED
    BY <1>3, <1>4, <1>5, <1>6, <1>7, <1>8 DEF S!SessionNext, S!Session

-----------------------------------------------------------------------------
LEMMA FlowInvInit == StreamingInit => FlowInv
<1>. SUFFICES ASSUME StreamingInit
              PROVE  FlowInv
    OBVIOUS
<1>. USE DEF StreamingInit, Init, S!SessionInit
<1>1. Typed
    <2>1. MaxFaults \in 0..MaxFaults /\ 1 \in 1..MaxChunks + 1
        BY SyncAssumption
    <2>2. [j \in Jobs |-> <<>>] \in [Jobs -> Seq(Message)]
        BY EmptyRises
    <2>. QED
        BY <2>1, <2>2 DEF Typed
<1>2. ASSUME NEW j \in Jobs
      PROVE  Flow(j) /\ Ending(j)
    <2>1. got[j] = <<>> /\ responses[j] = <<>> /\ next[j] = 1
        OBVIOUS
    <2>2. \A r \in Replicas : chunks[r][j] = <<>> /\ stream[r][j] = "none"
        OBVIOUS
    <2>3. Flow(j)
        <3>1. /\ Rising(<<>>) /\ Below(<<>>, 1) /\ Precedes(<<>>, <<>>)
              /\ Finish \notin Range(<<>>) \cup Range(<<>>)
            <4>1. Range(<<>>) = {} /\ Rising(<<>>)
                BY EmptyRises
            <4>. QED
                BY <4>1 DEF Below, Precedes
        <3>. QED
            BY <2>1, <2>2, <3>1 DEF Flow
    <2>4. Ending(j)
        BY <2>2, EmptyRises DEF Ending
    <2>. QED
        BY <2>3, <2>4
<1>. QED
    BY <1>1, <1>2 DEF FlowInv

LEMMA MetGrows ==
    ASSUME StreamingNext
    PROVE  met \subseteq met'
<1>1. CASE ServiceNext
    BY <1>1 DEF ServiceNext, HandleInit, Crash, Restart, HandleMessages, StartStream,
                HandleAudio, HandleFinish, CheckTimeout, ExtendFails, Ends, Releases,
                LockExpires, LockLapses, NoFault, Fault, Spends, faultVars
<1>2. CASE S!SessionNext
    BY <1>2 DEF S!SessionNext, S!Session, S!CreateSyncJob, S!SendInit, S!WaitForReady,
                S!ReadError, S!ForwardResponse, S!ForwardStatus, S!Close,
                S!ProcessAudioMessage, S!ClientLeaves, S!HandleSyncStatusFinish,
                S!RestartGateway, S!NoFault, S!Fault
<1>. QED
    BY <1>1, <1>2 DEF StreamingNext, ServiceSide, SessionSide

LEMMA FlowInvStep == Inv /\ FlowInv /\ [StreamingNext]_streamingVars => FlowInv'
<1>. SUFFICES ASSUME Inv, FlowInv, [StreamingNext]_streamingVars
              PROVE  FlowInv'
    OBVIOUS
<1>1. Typed
    BY DEF FlowInv
<1>2. CASE ServiceSide(ServiceNext)
    <2>1. ServiceNext /\ UNCHANGED sessionVars
        BY <1>2 DEF ServiceSide
    <2>2. Typed'
        BY <1>1, <2>1, ServiceTyped
    <2>3. met \subseteq met'
        BY <1>2, MetGrows DEF StreamingNext
    <2>4. ASSUME NEW j \in Jobs, met' \cap {"lapse", "redis"} = {}
          PROVE  Flow(j)'
        <3>1. met \cap {"lapse", "redis"} = {}
            BY <2>3, <2>4
        <3>. QED
            BY <1>1, <2>1, <2>4, <3>1, ServiceFlow DEF FlowInv
    <2>5. \A j \in Jobs : Ending(j)'
        BY <1>1, <2>1, ServiceEnding DEF FlowInv
    <2>. QED
        BY <2>2, <2>4, <2>5 DEF FlowInv
<1>3. CASE SessionSide(S!SessionNext)
    <2>1. S!SessionNext /\ UNCHANGED ownVars
        BY <1>3 DEF SessionSide
    <2>2. Typed'
        BY <1>1, <2>1, SessionTyped
    <2>3. met \subseteq met'
        BY <1>3, MetGrows DEF StreamingNext
    <2>4. ASSUME NEW j \in Jobs, met' \cap {"lapse", "redis"} = {}
          PROVE  Flow(j)'
        <3>1. met \cap {"lapse", "redis"} = {}
            BY <2>3, <2>4
        <3>. QED
            BY <1>1, <2>1, <3>1, SessionFlow DEF FlowInv
    <2>5. \A j \in Jobs : Ending(j)'
        BY <1>1, <2>1, SessionEnding DEF FlowInv
    <2>. QED
        BY <2>2, <2>4, <2>5 DEF FlowInv
<1>4. CASE UNCHANGED streamingVars
    <2>. USE <1>4 DEF streamingVars, syncVars, natsVars, ownVars, faultVars, sessionVars
    <2>1. Typed'
        BY <1>1 DEF Typed
    <2>2. \A j \in Jobs : Flow(j)' <=> Flow(j)
        BY DEF Flow
    <2>3. \A j \in Jobs : Ending(j)' <=> Ending(j)
        BY DEF Ending
    <2>. QED
        BY <2>1, <2>2, <2>3 DEF FlowInv
<1>. QED
    BY <1>2, <1>3, <1>4 DEF StreamingNext

LEMMA FlowInvariant == StreamingSpec => [](Inv /\ FlowInv)
<1>1. StreamingInit => Inv /\ FlowInv
    BY InvInit, FlowInvInit
<1>2. StreamingSpec => []Inv
    BY Invariant
<1>. QED
    BY <1>1, <1>2, FlowInvStep, PTL DEF StreamingSpec

-----------------------------------------------------------------------------
(***************************************************************************)
(* The third invariant: a stream that finish() left half done was paid for *)
(* with a failure of Redis.                                                *)
(***************************************************************************)
FewLeaked(r) ==
    /\ IsFiniteSet(Leaked(r)) /\ Cardinality(Leaked(r)) <= MaxFaults - budget
    /\ "redis" \notin met => Leaked(r) = {}

\* At most one stream leaks in a step, and it takes a fault.
MoreLeaked(r) ==
    \/ Leaked(r)' \subseteq Leaked(r) /\ budget' <= budget
    \/ /\ \E j \in Jobs : Leaked(r)' \subseteq Leaked(r) \cup {j}
       /\ budget' <= budget - 1 /\ "redis" \in met'

LEMMA FewLeakedKept ==
    ASSUME Typed, Typed', NEW r \in Replicas, FewLeaked(r), MoreLeaked(r), met \subseteq met'
    PROVE  FewLeaked(r)'
<1>1. budget \in Nat /\ budget' \in Nat /\ MaxFaults \in Nat
    BY SyncAssumption DEF Typed
<1>2. IsFiniteSet(Leaked(r)) /\ Cardinality(Leaked(r)) \in Nat
    BY FS_CardinalityType DEF FewLeaked
<1>3. ASSUME NEW A, IsFiniteSet(A), Leaked(r)' \subseteq A, Cardinality(A) <= MaxFaults - budget'
      PROVE  IsFiniteSet(Leaked(r)') /\ Cardinality(Leaked(r)') <= MaxFaults - budget'
    <2>1. IsFiniteSet(Leaked(r)') /\ Cardinality(Leaked(r)') <= Cardinality(A)
        BY <1>3, FS_Subset
    <2>2. Cardinality(Leaked(r)') \in Nat /\ Cardinality(A) \in Nat
        BY <1>3, <2>1, FS_CardinalityType
    <2>. QED
        BY <1>1, <1>3, <2>1, <2>2
<1>4. CASE Leaked(r)' \subseteq Leaked(r) /\ budget' <= budget
    <2>1. Cardinality(Leaked(r)) <= MaxFaults - budget'
        BY <1>1, <1>2, <1>4 DEF FewLeaked
    <2>. QED
        BY <1>2, <1>3, <1>4, <2>1 DEF FewLeaked
<1>5. ASSUME NEW j \in Jobs, Leaked(r)' \subseteq Leaked(r) \cup {j},
             budget' <= budget - 1, "redis" \in met'
      PROVE  FewLeaked(r)'
    <2>1. /\ IsFiniteSet(Leaked(r) \cup {j})
          /\ \/ Cardinality(Leaked(r) \cup {j}) = Cardinality(Leaked(r))
             \/ Cardinality(Leaked(r) \cup {j}) = Cardinality(Leaked(r)) + 1
        BY <1>2, FS_AddElement
    <2>2. Cardinality(Leaked(r) \cup {j}) <= MaxFaults - budget'
        BY <1>1, <1>2, <1>5, <2>1 DEF FewLeaked
    <2>. QED
        BY <1>3, <1>5, <2>1, <2>2 DEF FewLeaked
<1>. QED
    BY <1>4, <1>5 DEF MoreLeaked

LEMMA SpendsLess ==
    ASSUME Typed, NEW kinds, NEW n \in 0..2, Spends(kinds, n)
    PROVE  /\ budget' <= budget /\ kinds \subseteq met' /\ met \subseteq met'
           /\ n > 0 => budget' <= budget - 1
<1>1. budget \in Int
    BY DEF Typed
<1>. QED
    BY <1>1 DEF Spends

\* Where one stream changes, only it can leak.
LEMMA LeakedAt ==
    ASSUME Inv, NEW r \in Replicas, NEW j \in Jobs, NEW x \in StreamState,
           stream' = [stream EXCEPT ![r][j] = x], NEW v \in Replicas
    PROVE  /\ Leaked(v)' \subseteq Leaked(v) \cup {j}
           /\ x # "leaked" => Leaked(v)' \subseteq Leaked(v)
<1>1. stream \in [Replicas -> [Jobs -> StreamState]]
    BY DEF Inv, WeakType
<1>2. \A s \in Replicas, i \in Jobs :
         stream'[s][i] = IF s = r /\ i = j THEN x ELSE stream[s][i]
    BY <1>1, Nested
<1>. QED
    BY <1>2 DEF Leaked

LEMMA LeakedService ==
    ASSUME Inv, Typed, ServiceNext, NEW v \in Replicas
    PROVE  MoreLeaked(v)
<1>. DEFINE Kept == Leaked(v)' \subseteq Leaked(v)
<1>1. budget \in Int
    BY DEF Typed
<1>2. {"open", "leaked", "finished"} \subseteq StreamState
    BY DEF StreamState
<1>3. stream' = stream => Kept
    BY DEF Leaked
<1>4. NoFault => budget' <= budget
    BY <1>1 DEF NoFault, faultVars
<1>5. \A kind : Fault(kind) => budget' <= budget /\ budget' <= budget - 1 /\ kind \in met'
    BY <1>1 DEF Fault, Spends
<1>6. ASSUME NEW r \in Replicas, NEW j \in Jobs, Finishes(r, j)
      PROVE  Kept
    BY <1>2, <1>6, LeakedAt DEF Finishes
<1>7. ASSUME NEW r \in Replicas, NEW j \in Jobs, Leaks(r, j), budget' <= budget - 1, "redis" \in met'
      PROVE  MoreLeaked(v)
    BY <1>2, <1>7, LeakedAt DEF Leaks, MoreLeaked
<1>8. ASSUME NEW r \in Replicas, NEW j \in Jobs, NEW kinds, NEW n \in {0, 1}, Releases(r, j, kinds, n)
      PROVE  budget' <= budget
    <2>1. n \in 0..2 /\ n + 1 \in 0..2
        OBVIOUS
    <2>. QED
        BY <1>8, <2>1, SpendsLess DEF Releases
<1>9. ASSUME NEW r \in Replicas, NEW j \in Jobs, NEW kinds, NEW n \in {0, 1}, Ends(r, j, kinds, n)
      PROVE  MoreLeaked(v)
    <2>1. CASE Finishes(r, j) /\ Releases(r, j, kinds, n)
        BY <1>6, <1>8, <2>1 DEF MoreLeaked
    <2>2. CASE Leaks(r, j) /\ Spends(kinds \cup {"redis"}, n + 1)
        <3>1. n + 1 \in 0..2 /\ n + 1 > 0
            OBVIOUS
        <3>2. budget' <= budget - 1 /\ "redis" \in met'
            BY <2>2, <3>1, SpendsLess
        <3>. QED
            BY <1>7, <2>2, <3>2
    <2>. QED
        BY <1>9, <2>1, <2>2 DEF Ends
<1>10. ASSUME NEW r \in Replicas, HandleInit(r) \/ Restart(r)
       PROVE  MoreLeaked(v)
    <2>1. stream' = stream /\ (NoFault \/ Fault("redis"))
        BY <1>10 DEF HandleInit, Restart, NoFault
    <2>. QED
        BY <1>3, <1>4, <1>5, <2>1 DEF MoreLeaked
<1>11. ASSUME NEW r \in Replicas, Crash(r)
       PROVE  MoreLeaked(v)
    <2>1. stream' = [stream EXCEPT ![r] = [i \in Jobs |-> "none"]] /\ Fault("crash")
        BY <1>11 DEF Crash
    <2>2. Kept
        BY <2>1 DEF Leaked, Inv, WeakType
    <2>. QED
        BY <1>5, <2>1, <2>2 DEF MoreLeaked
<1>12. ASSUME NEW j \in Jobs, LockExpires(j) \/ LockLapses(j)
       PROVE  MoreLeaked(v)
    <2>1. stream' = stream /\ (NoFault \/ Fault("lapse"))
        BY <1>12 DEF LockExpires, LockLapses, NoFault
    <2>. QED
        BY <1>3, <1>4, <1>5, <2>1 DEF MoreLeaked
<1>13. ASSUME NEW r \in Replicas, NEW j \in Jobs, HandleMessages(r, j) \/ ExtendFails(r, j)
       PROVE  MoreLeaked(v)
    <2>1. CASE StartStream(r, j)
        <3>1. stream' = [stream EXCEPT ![r][j] = "open"] /\ NoFault
            BY <2>1 DEF StartStream, NoFault
        <3>2. Kept
            BY <1>2, <3>1, LeakedAt
        <3>. QED
            BY <1>4, <3>1, <3>2 DEF MoreLeaked
    <2>2. CASE HandleAudio(r, j)
        <3>1. stream' = stream /\ NoFault
            BY <2>2 DEF HandleAudio, ownVars, NoFault
        <3>. QED
            BY <1>3, <1>4, <3>1 DEF MoreLeaked
    <2>3. CASE HandleFinish(r, j)
        <3>1. CASE Finishes(r, j) /\ Releases(r, j, {}, 0)
            BY <1>6, <1>8, <3>1 DEF MoreLeaked
        <3>2. CASE stream' = stream /\ NoFault
            BY <1>3, <1>4, <3>2 DEF MoreLeaked
        <3>3. CASE Leaks(r, j) /\ Fault("redis")
            BY <1>5, <1>7, <3>3
        <3>. QED
            BY <2>3, <3>1, <3>2, <3>3 DEF HandleFinish
    <2>4. CASE CheckTimeout(r, j)
        BY <1>9, <2>4 DEF CheckTimeout
    <2>5. CASE ExtendFails(r, j)
        BY <1>9, <2>5 DEF ExtendFails
    <2>. QED
        BY <1>13, <2>1, <2>2, <2>3, <2>4, <2>5 DEF HandleMessages
<1>. QED
    BY <1>10, <1>11, <1>12, <1>13 DEF ServiceNext

LEMMA LeakedSession ==
    ASSUME Typed, S!SessionNext, UNCHANGED ownVars, NEW v \in Replicas
    PROVE  MoreLeaked(v)
<1>1. budget \in Int
    BY DEF Typed
<1>2. budget' = budget \/ budget' = budget - 1
    BY DEF S!SessionNext, S!Session, S!CreateSyncJob, S!SendInit, S!WaitForReady, S!ReadError,
           S!ForwardResponse, S!ForwardStatus, S!Close, S!ProcessAudioMessage, S!ClientLeaves,
           S!HandleSyncStatusFinish, S!RestartGateway, S!NoFault, S!Fault
<1>3. Leaked(v)' = Leaked(v)
    BY DEF Leaked, ownVars
<1>. QED
    BY <1>1, <1>2, <1>3 DEF MoreLeaked

LEMMA LeakedInvariant == StreamingSpec => [](\A r \in Replicas : FewLeaked(r))
<1>1. StreamingInit => \A r \in Replicas : FewLeaked(r)
    <2>. SUFFICES ASSUME StreamingInit, NEW r \in Replicas
                  PROVE  FewLeaked(r)
        OBVIOUS
    <2>1. Leaked(r) = {} /\ budget = MaxFaults
        BY DEF Leaked, StreamingInit, Init
    <2>. QED
        BY <2>1, FS_EmptySet, SyncAssumption DEF FewLeaked
<1>2. Inv /\ FlowInv /\ FlowInv' /\ [StreamingNext]_streamingVars
          /\ (\A r \in Replicas : FewLeaked(r)) => (\A r \in Replicas : FewLeaked(r))'
    <2>. SUFFICES ASSUME Inv, FlowInv, FlowInv', [StreamingNext]_streamingVars,
                         NEW r \in Replicas, FewLeaked(r)
                  PROVE  FewLeaked(r)'
        OBVIOUS
    <2>1. Typed /\ Typed'
        BY DEF FlowInv
    <2>2. CASE UNCHANGED streamingVars
        BY <2>2 DEF FewLeaked, Leaked, streamingVars, syncVars, ownVars, faultVars
    <2>3. CASE StreamingNext
        <3>1. MoreLeaked(r)
            BY <2>1, <2>3, LeakedService, LeakedSession DEF StreamingNext, ServiceSide, SessionSide
        <3>2. met \subseteq met'
            BY <2>3, MetGrows
        <3>. QED
            BY <2>1, <3>1, <3>2, FewLeakedKept
    <2>. QED
        BY <2>2, <2>3
<1>. QED
    BY <1>1, <1>2, FlowInvariant, PTL DEF StreamingSpec

\* current_active_streams of every replica is the number of its streams that
\* are open or were left half done, and those are no more than the failures
\* of Redis, for any jobs, replicas, pool size and faults
\* (sync/app.py:100-160).
THEOREM CounterRight == StreamingSpec => []ActiveCounts
<1>1. Inv /\ (\A r \in Replicas : FewLeaked(r)) => ActiveCounts
    BY DEF Inv, Counts, Counted, FewLeaked, ActiveCounts
<1>. QED
    BY <1>1, Invariant, LeakedInvariant, PTL

-----------------------------------------------------------------------------
\* Every variable of the two sides keeps its type; no queue carries a chunk
\* that was not sent, and the pool counter never falls below zero.
THEOREM StreamingTyped == StreamingSpec => []StreamingTypeOK
<1>1. Inv /\ FlowInv => StreamingTypeOK
    <2>. SUFFICES ASSUME Inv, FlowInv
                  PROVE  StreamingTypeOK
        OBVIOUS
    <2>1. active \in [Replicas -> Nat]
        <3>1. \A r \in Replicas : active[r] \in Nat
            BY FS_CardinalityType DEF Inv, Counts
        <3>. QED
            BY <3>1 DEF Inv, WeakType
    <2>2. TypeOK
        BY <2>1 DEF TypeOK, Inv, WeakType, FlowInv, Typed
    <2>3. S!SessionTypeOK
        BY DEF S!SessionTypeOK, Inv, FlowInv, Typed, Message
    <2>. QED
        BY <2>2, <2>3 DEF StreamingTypeOK
<1>. QED
    BY <1>1, FlowInvariant, PTL

\* Unless a lock lapses or Redis fails, the client sees responses in the
\* order of its audio and none twice, whichever replicas crash or handle the
\* init late (sync/app.py:100-330, gateway StreamSession.go).
THEOREM ResponsesOrdered == StreamingSpec => []ResponsesInOrder
<1>1. Inv /\ FlowInv => ResponsesInOrder
    <2>. SUFFICES ASSUME FlowInv, met \cap {"lapse", "redis"} = {}, NEW j \in Jobs,
                         NEW i \in DOMAIN got[j], NEW k \in DOMAIN got[j], i < k
                  PROVE  got[j][i] < got[j][k]
        BY DEF ResponsesInOrder
    <2>1. Flow(j)
        BY DEF FlowInv
    <2>2. got[j][k] # Finish
        BY <2>1 DEF Flow, Range
    <2>. QED
        BY <2>1, <2>2 DEF Flow, Rising
<1>. QED
    BY <1>1, FlowInvariant, PTL

\* As long as the client's messages parse and no lock is lost, a row says
\* completed only when its session is over: the 'finished' that completes it
\* (gateway/Api.go, HandleSyncStatusFinish) comes from a stream that got the
\* session's finish, or heard nothing of a session that is gone.
THEOREM CompletedIsOver == StreamingSpec => []CompletedMeansOver
<1>1. Inv /\ FlowInv => CompletedMeansOver
    BY DEF FlowInv, Ending, CompletedMeansOver
<1>. QED
    BY <1>1, FlowInvariant, PTL
=============================================================================
