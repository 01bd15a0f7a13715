-------------------------- MODULE RequestStreamProofs --------------------------
(***************************************************************************)
(* Proofs about RequestStream: without lost heartbeats, max_ack_pending    *)
(* bounds the handlers running in all replicas together, for any number of *)
(* replicas, messages, redeliveries and evictions.                         *)
(***************************************************************************)
EXTENDS RequestStream, FiniteSetTheorems, TLAPS

(***************************************************************************)
(* The inductive invariant.  WeakType keeps of TypeOK what the proof needs *)
(* (how often a message is delivered is a matter of the fault budget, and  *)
(* has no part here).  OneFlat is OneHandlerPerMessage without the set     *)
(* Running: handlers are told apart by their messages, and each message is *)
(* counted by the consumer and not due.                                    *)
(***************************************************************************)
WeakType ==
    /\ last       \in 0..MaxPosted
    /\ cursor     \in 0..last
    /\ ackPending \subseteq 1..cursor
    /\ due        \subseteq ackPending
    /\ nth        \in [Message -> Nat]
    /\ handlers   \in [Workers -> SUBSET (Message \X Nat)]

OneFlat ==
    /\ \A v, w \in Workers : \A h \in handlers[v], g \in handlers[w] :
          h[1] = g[1] => v = w /\ h = g
    /\ \A w \in Workers : \A h \in handlers[w] : h[1] \in ackPending /\ h[1] \notin due

Inv ==
    /\ WeakType
    /\ OneFlat
    /\ Cardinality(ackPending) <= MaxConcurrent

LEMMA PendingFinite ==
    ASSUME WeakType
    PROVE  IsFiniteSet(ackPending)
<1>1. IsFiniteSet(1..cursor)
    BY FS_Interval DEF WeakType
<1>. QED
    BY <1>1, FS_Subset DEF WeakType

LEMMA InvInit == Init => Inv
<1>1. Cardinality({}) = 0
    BY FS_EmptySet
<1>. QED
    BY <1>1, StreamAssumption DEF Init, Inv, WeakType, OneFlat

\* A handler started for a message nobody handles, that is pending and not
\* due afterwards.
LEMMA StartKeeps ==
    ASSUME Inv, NEW w \in Workers, NEW n \in Message, Start(w, n),
           \A v \in Workers : \A h \in handlers[v] : h[1] # n,
           \A v \in Workers : \A h \in handlers[v] :
               h[1] \in ackPending' /\ h[1] \notin due',
           n \in ackPending', n \notin due'
    PROVE  /\ OneFlat'
           /\ nth' \in [Message -> Nat]
           /\ handlers' \in [Workers -> SUBSET (Message \X Nat)]
<1>. DEFINE new == <<n, nth[n] + 1>>
<1>1. nth[n] + 1 \in Nat /\ new \in Message \X Nat /\ new[1] = n
    BY DEF Inv, WeakType
<1>2. nth' \in [Message -> Nat]
    BY <1>1 DEF Start, Inv, WeakType
<1>3. handlers' \in [Workers -> SUBSET (Message \X Nat)]
    BY <1>1 DEF Start, Inv, WeakType
<1>4. \A v \in Workers : \A h \in handlers'[v] :
          h \in handlers[v] \/ (v = w /\ h = new)
    BY DEF Start, Inv, WeakType
<1>5. ASSUME NEW v \in Workers, NEW u \in Workers,
             NEW h \in handlers'[v], NEW g \in handlers'[u], h[1] = g[1]
      PROVE  v = u /\ h = g
    <2>1. CASE h \in handlers[v] /\ g \in handlers[u]
        BY <1>5, <2>1 DEF Inv, OneFlat
    <2>2. CASE h \in handlers[v] /\ u = w /\ g = new
        BY <1>1, <1>5, <2>2
    <2>3. CASE g \in handlers[u] /\ v = w /\ h = new
        BY <1>1, <1>5, <2>3
    <2>. QED
        BY <1>4, <2>1, <2>2, <2>3
<1>6. \A v \in Workers : \A h \in handlers'[v] : h[1] \in ackPending' /\ h[1] \notin due'
    BY <1>1, <1>4
<1>. QED
    BY <1>2, <1>3, <1>5, <1>6 DEF OneFlat

\* A message sent for the first time takes a place that was free; nobody
\* handled it before.
LEMMA SendNewKeeps ==
    ASSUME Inv, NEW n \in Message, SendNew(n), last' = last
    PROVE  /\ n \notin ackPending /\ n \in ackPending' /\ n \notin due'
           /\ cursor' \in 0..last' /\ ackPending' \subseteq 1..cursor'
           /\ due' \subseteq ackPending'
           /\ Cardinality(ackPending') <= MaxConcurrent
           /\ \A w \in Workers : \A h \in handlers[w] :
                 h[1] # n /\ h[1] \in ackPending' /\ h[1] \notin due'
<1>1. /\ InStream(n) /\ n > cursor /\ cursor' = n /\ due' = due
      /\ ackPending' = ackPending \cup {n}
    BY DEF SendNew
<1>2. n \in 1..last /\ n \notin ackPending
    BY <1>1 DEF Inv, WeakType, InStream
<1>3. cursor' \in 0..last' /\ ackPending' \subseteq 1..cursor' /\ due' \subseteq ackPending'
    BY <1>1, <1>2 DEF Inv, WeakType
<1>4. Cardinality(ackPending') <= MaxConcurrent
    <2>1. IsFiniteSet(ackPending) /\ Cardinality(ackPending) \in Nat
        BY PendingFinite, FS_CardinalityType DEF Inv
    <2>2. Cardinality(ackPending \cup {n}) = Cardinality(ackPending) + 1
        BY <1>2, <2>1, FS_AddElement
    <2>. QED
        BY <1>1, <2>1, <2>2, StreamAssumption DEF SendNew
<1>5. \A w \in Workers : \A h \in handlers[w] :
          h[1] # n /\ h[1] \in ackPending' /\ h[1] \notin due'
    BY <1>1, <1>2 DEF Inv, OneFlat
<1>6. n \in ackPending' /\ n \notin due'
    BY <1>1, <1>2 DEF Inv, WeakType
<1>. QED
    BY <1>2, <1>3, <1>4, <1>5, <1>6

\* A message sent again was pending and due, so nobody handled it either.
LEMMA SendAgainKeeps ==
    ASSUME Inv, NEW n \in Message, SendAgain(n), last' = last
    PROVE  /\ n \in ackPending' /\ n \notin due'
           /\ cursor' \in 0..last' /\ ackPending' \subseteq 1..cursor'
           /\ due' \subseteq ackPending'
           /\ Cardinality(ackPending') <= MaxConcurrent
           /\ \A w \in Workers : \A h \in handlers[w] :
                 h[1] # n /\ h[1] \in ackPending' /\ h[1] \notin due'
<1>1. n \in due /\ due' = due \ {n} /\ cursor' = cursor /\ ackPending' = ackPending
    BY DEF SendAgain
<1>2. n \in ackPending
    BY <1>1 DEF Inv, WeakType
<1>3. \A w \in Workers : \A h \in handlers[w] :
          h[1] # n /\ h[1] \in ackPending' /\ h[1] \notin due'
    BY <1>1 DEF Inv, OneFlat
<1>. QED
    BY <1>1, <1>2, <1>3 DEF Inv, WeakType

LEMMA DeliverStep ==
    ASSUME Inv, NEW w \in Workers, Deliver(w)
    PROVE  Inv'
<1>1. PICK n \in Message : (SendNew(n) \/ SendAgain(n)) /\ Start(w, n)
    BY DEF Deliver
<1>2. last' = last
    BY DEF Deliver
<1>3. /\ n \in ackPending' /\ n \notin due'
      /\ cursor' \in 0..last' /\ ackPending' \subseteq 1..cursor'
      /\ due' \subseteq ackPending'
      /\ Cardinality(ackPending') <= MaxConcurrent
      /\ \A v \in Workers : \A h \in handlers[v] :
            h[1] # n /\ h[1] \in ackPending' /\ h[1] \notin due'
    BY <1>1, <1>2, SendNewKeeps, SendAgainKeeps
<1>4. /\ OneFlat'
      /\ nth' \in [Message -> Nat]
      /\ handlers' \in [Workers -> SUBSET (Message \X Nat)]
    BY <1>1, <1>3, StartKeeps
<1>. QED
    BY <1>2, <1>3, <1>4 DEF Inv, WeakType

\* A replica that ends takes its handlers along; what the server sent it
\* last is counted all the same.
LEMMA GoneStep ==
    ASSUME Inv, NEW w \in Workers, Gone(w)
    PROVE  Inv'
<1>1. last' = last /\ nth' = nth /\ handlers' = [handlers EXCEPT ![w] = {}]
    BY DEF Gone
<1>2. /\ handlers' \in [Workers -> SUBSET (Message \X Nat)]
      /\ \A v \in Workers : handlers'[v] \subseteq handlers[v]
    BY <1>1 DEF Inv, WeakType
<1>3. CASE UNCHANGED <<cursor, ackPending, due, naked>>
    BY <1>1, <1>2, <1>3 DEF Inv, WeakType, OneFlat
<1>4. CASE \E n \in Message : SendNew(n) \/ SendAgain(n)
    <2>1. PICK n \in Message : SendNew(n) \/ SendAgain(n)
        BY <1>4
    <2>2. /\ cursor' \in 0..last' /\ ackPending' \subseteq 1..cursor'
          /\ due' \subseteq ackPending'
          /\ Cardinality(ackPending') <= MaxConcurrent
          /\ \A v \in Workers : \A h \in handlers[v] :
                h[1] # n /\ h[1] \in ackPending' /\ h[1] \notin due'
        BY <1>1, <2>1, SendNewKeeps, SendAgainKeeps
    <2>3. OneFlat'
        BY <1>2, <2>2 DEF Inv, OneFlat
    <2>. QED
        BY <1>1, <1>2, <2>2, <2>3 DEF Inv, WeakType
<1>. QED
    BY <1>3, <1>4 DEF Gone

\* A handler that ends takes only itself along, and its message if it acks.
LEMMA HandlerEndsStep ==
    ASSUME Inv, NEW w \in Workers, NEW h \in handlers[w], Ack(w, h) \/ Nak(w, h)
    PROVE  Inv'
<1>1. handlers' = [handlers EXCEPT ![w] = @ \ {h}]
    BY DEF Ack, Nak, Ends
<1>2. /\ handlers' \in [Workers -> SUBSET (Message \X Nat)]
      /\ \A v \in Workers : handlers'[v] \subseteq handlers[v]
      /\ h \notin handlers'[w]
    BY <1>1 DEF Inv, WeakType
<1>3. /\ last' = last /\ cursor' = cursor /\ nth' = nth
      /\ ackPending' \subseteq ackPending
      /\ ackPending \subseteq ackPending' \cup {h[1]}
      /\ due' \subseteq due \cup {h[1]}
      /\ due' \subseteq ackPending'
    BY DEF Ack, Nak, Inv, WeakType
<1>4. WeakType'
    BY <1>2, <1>3 DEF Inv, WeakType
<1>5. \A v \in Workers : \A g \in handlers'[v] : g[1] # h[1]
    BY <1>2 DEF Inv, OneFlat
<1>6. OneFlat'
    BY <1>2, <1>3, <1>5 DEF Inv, OneFlat
<1>7. Cardinality(ackPending') <= MaxConcurrent
    <2>1. IsFiniteSet(ackPending) /\ Cardinality(ackPending) \in Nat
        BY PendingFinite, FS_CardinalityType DEF Inv
    <2>2. IsFiniteSet(ackPending') /\ Cardinality(ackPending') <= Cardinality(ackPending)
        BY <1>3, <2>1, FS_Subset
    <2>3. Cardinality(ackPending') \in Nat
        BY <2>2, FS_CardinalityType
    <2>. QED
        BY <2>1, <2>2, <2>3, StreamAssumption DEF Inv
<1>. QED
    BY <1>4, <1>6, <1>7 DEF Inv

LEMMA InvStep ==
    ASSUME Inv, [Next]_streamVars
    PROVE  Inv' \/ "heartbeat" \in met'
<1>1. CASE Publish
    BY <1>1, StreamAssumption DEF Publish, consumerVars, clientVars, Inv, WeakType, OneFlat
<1>2. ASSUME NEW w \in Workers, Pull(w) \/ PullTimeout(w)
      PROVE  Inv'
    BY <1>2 DEF Pull, PullTimeout, consumerVars, Inv, WeakType, OneFlat
<1>3. ASSUME NEW w \in Workers, Crash(w) \/ Exit(w) \/ Interrupt(w) \/ Restart(w)
      PROVE  Inv'
    <2>1. CASE Crash(w) \/ Exit(w)
        BY <2>1, GoneStep DEF Crash, Exit
    <2>2. CASE Interrupt(w)
        BY <2>2 DEF Interrupt, consumerVars, Inv, WeakType, OneFlat
    <2>3. CASE Restart(w)
        BY <2>3 DEF Restart, consumerVars, Inv, WeakType, OneFlat
    <2>. QED
        BY <1>3, <2>1, <2>2, <2>3
<1>4. ASSUME NEW w \in Workers, Deliver(w)
      PROVE  Inv'
    BY <1>4, DeliverStep
<1>5. ASSUME NEW w \in Workers, Handler(w)
      PROVE  Inv'
    BY <1>5, HandlerEndsStep DEF Handler
<1>6. ASSUME NEW n \in Message, Forget(n)
      PROVE  Inv'
    <2>1. IsFiniteSet(ackPending) /\ Cardinality(ackPending) \in Nat
        BY PendingFinite, FS_CardinalityType DEF Inv
    <2>2. Cardinality(ackPending \ {n}) <= MaxConcurrent
        <3>1. /\ IsFiniteSet(ackPending \ {n})
              /\ Cardinality(ackPending \ {n}) <= Cardinality(ackPending)
            BY <2>1, FS_Subset
        <3>2. Cardinality(ackPending \ {n}) \in Nat
            BY <3>1, FS_CardinalityType
        <3>. QED
            BY <2>1, <3>1, <3>2, StreamAssumption DEF Inv
    <2>3. n \in due /\ \A w \in Workers : \A h \in handlers[w] : h[1] # n
        BY <1>6 DEF Forget, Inv, OneFlat
    <2>4. WeakType'
        BY <1>6 DEF Forget, clientVars, Inv, WeakType
    <2>5. OneFlat'
        BY <1>6, <2>3 DEF Forget, clientVars, Inv, OneFlat
    <2>. QED
        BY <1>6, <2>2, <2>4, <2>5 DEF Forget, Inv
<1>7. ASSUME NEW n \in Message, AckWaitElapses(n)
      PROVE  Inv'
    BY <1>7 DEF AckWaitElapses, Handled, clientVars, Inv, WeakType, OneFlat
<1>8. ASSUME NEW n \in Message, HeartbeatLost(n)
      PROVE  "heartbeat" \in met'
    BY <1>8 DEF HeartbeatLost, Fault
<1>9. CASE UNCHANGED streamVars
    BY <1>9 DEF streamVars, consumerVars, clientVars, Inv, WeakType, OneFlat
<1>. QED
    BY <1>1, <1>2, <1>3, <1>4, <1>5, <1>6, <1>7, <1>8, <1>9 DEF Next, Loop

\* Every running handler has a message of its own among the unacknowledged.
LEMMA HandlersInject ==
    ASSUME Inv
    PROVE  FleetBounded
<1>. DEFINE message == [x \in Running |-> x[2][1]]
<1>1. \A x \in Running : \E w \in Workers : \E h \in handlers[w] : x = <<w, h>>
    BY DEF Running
<1>2. message \in Injection(Running, ackPending)
    <2>1. ASSUME NEW x \in Running
          PROVE  x[2][1] \in ackPending
        BY <1>1 DEF Inv, OneFlat
    <2>2. ASSUME NEW x \in Running, NEW y \in Running, x[2][1] = y[2][1]
          PROVE  x = y
        BY <1>1, <2>2 DEF Inv, OneFlat
    <2>3. message \in [Running -> ackPending]
        BY <2>1
    <2>4. \A x, y \in Running : message[x] = message[y] => x = y
        BY <2>2
    <2>. QED
        BY <2>3, <2>4 DEF Injection, IsInjective
<1>3. IsFiniteSet(ackPending) /\ Cardinality(ackPending) \in Nat
    BY PendingFinite, FS_CardinalityType DEF Inv
<1>4. IsFiniteSet(Running) /\ Cardinality(Running) <= Cardinality(ackPending)
    BY <1>2, <1>3, FS_Injection
<1>5. Cardinality(Running) \in Nat
    BY <1>4, FS_CardinalityType
<1>. QED
    BY <1>3, <1>4, <1>5, StreamAssumption DEF FleetBounded, Inv

\* The invariant stands until a heartbeat is lost, which met does not forget.
UnlessLost == Inv \/ "heartbeat" \in met

LEMMA UnlessLostInvariant == Spec => []UnlessLost
<1>1. Init => UnlessLost
    BY InvInit DEF UnlessLost
<1>2. [Next]_streamVars => met \subseteq met'
    BY DEF Next, Publish, Loop, Pull, PullTimeout, Deliver, Handler, Ack, Nak,
           Forget, AckWaitElapses, HeartbeatLost, Crash, Interrupt, Exit, Restart,
           Fault, streamVars, faultVars
<1>3. UnlessLost /\ [Next]_streamVars => UnlessLost'
    BY <1>2, InvStep DEF UnlessLost
<1>. QED
    BY <1>1, <1>3, PTL DEF Spec

\* No message is handled twice at a time while heartbeats arrive.
THEOREM MessagesUnshared == Spec => []OneHandlerPerMessage
<1>1. UnlessLost => OneHandlerPerMessage
    BY DEF UnlessLost, Inv, OneFlat, OneHandlerPerMessage, Running
<1>. QED
    BY <1>1, UnlessLostInvariant, PTL

\* max_ack_pending, a limit the NATS server keeps, bounds the handlers of
\* the whole fleet, whatever raises, dies or is discarded, unless the
\* heartbeat of a running handler is lost (nats_queue.py:60-85).
THEOREM HandlersBounded == Spec => []FleetBounded
<1>1. UnlessLost => FleetBounded
    BY HandlersInject DEF UnlessLost, FleetBounded
<1>. QED
    BY <1>1, UnlessLostInvariant, PTL
-----------------------------------------------------------------------------
(***************************************************************************)
(* The refinement of WorkQueue.  It holds after a lost heartbeat too, when *)
(* OneFlat does not: two handlers of a message may then run, in one        *)
(* replica or in two, and they are told apart by the number of their       *)
(* delivery.                                                               *)
(***************************************************************************)
Places ==
    /\ last       \in 0..MaxPosted
    /\ cursor     \in 0..last
    /\ ackPending \subseteq 1..cursor
    /\ due        \subseteq ackPending
    /\ acked      \subseteq 1..cursor
    /\ acked \cap ackPending = {}

Numbered ==
    /\ nth      \in [Message -> Nat]
    /\ handlers \in [Workers -> SUBSET (Message \X Nat)]
    /\ \A w \in Workers : \A h \in handlers[w] : h[2] <= nth[h[1]]
    /\ \A v, w \in Workers : handlers[v] \cap handlers[w] # {} => v = w

Reached == \A w \in Workers : \A h \in handlers[w] : h[1] \in 1..cursor

QueueInv == Places /\ Numbered /\ Reached

LEMMA QueueInvInit == Init => QueueInv /\ Queue!Init
<1>. SUFFICES ASSUME Init
              PROVE  QueueInv /\ Queue!Init
    OBVIOUS
<1>1. QueueInv
    BY StreamAssumption DEF Init, QueueInv, Places, Numbered, Reached
<1>2. Standing = [n \in Message |-> "pending"]
    BY DEF Init, Standing
<1>3. UnderWay = {}
    BY DEF Init, UnderWay
<1>4. nth = [n \in Message |-> 0] /\ "heartbeat" \notin met
    BY DEF Init
<1>. QED
    BY <1>1, <1>2, <1>3, <1>4 DEF Queue!Init

\* A step that moves one message.
LEMMA OneMoves ==
    ASSUME NEW n \in Message, NEW state, Standing'[n] = state,
           \A m \in Message \ {n} :
               /\ m \in acked' <=> m \in acked
               /\ m \in ackPending' \ due' <=> m \in ackPending \ due
    PROVE  Queue!Becomes(n, state)
<1>1. \A m \in Message \ {n} : Standing'[m] = Standing[m]
    BY DEF Standing
<1>2. Standing' = [m \in Message |-> Standing'[m]] /\ Standing = [m \in Message |-> Standing[m]]
    BY DEF Standing
<1>3. Standing' = [Standing EXCEPT ![n] = state]
    BY <1>1, <1>2
<1>. QED
    BY <1>3 DEF Queue!Becomes

LEMMA NoneMoves ==
    ASSUME acked' = acked, ackPending' \ due' = ackPending \ due
    PROVE  Standing' = Standing
BY DEF Standing

\* What the server sends was pending, and is outstanding then.
LEMMA SendMoves ==
    ASSUME Places, NEW n \in Message, SendNew(n) \/ SendAgain(n),
           UNCHANGED <<last, acked>>
    PROVE  /\ Places'
           /\ Standing[n] = "pending" /\ Queue!Becomes(n, "outstanding")
           /\ n \in 1..cursor' /\ 1..cursor \subseteq 1..cursor'
<1>1. CASE SendNew(n)
    <2>1. /\ n \in 1..last /\ n > cursor /\ cursor' = n /\ due' = due
          /\ ackPending' = ackPending \cup {n}
        BY <1>1 DEF SendNew, InStream
    <2>2. n \notin ackPending /\ n \notin acked
        BY <2>1 DEF Places
    <2>3. Places'
        BY <2>1, <2>2 DEF Places
    <2>4. Standing[n] = "pending"
        BY <2>2 DEF Standing
    <2>5. Standing'[n] = "outstanding"
        BY <2>1, <2>2 DEF Standing, Places
    <2>6. n \in 1..cursor' /\ 1..cursor \subseteq 1..cursor'
        BY <2>1 DEF Places
    <2>. QED
        BY <2>1, <2>3, <2>4, <2>5, <2>6, OneMoves
<1>2. CASE SendAgain(n)
    <2>1. n \in due /\ due' = due \ {n} /\ cursor' = cursor /\ ackPending' = ackPending
        BY <1>2 DEF SendAgain
    <2>2. n \in ackPending /\ n \notin acked
        BY <2>1 DEF Places
    <2>3. Places'
        BY <2>1 DEF Places
    <2>4. Standing[n] = "pending"
        BY <2>1, <2>2 DEF Standing
    <2>5. Standing'[n] = "outstanding"
        BY <2>1, <2>2 DEF Standing
    <2>6. n \in 1..cursor' /\ 1..cursor \subseteq 1..cursor'
        BY <2>1, <2>2 DEF Places
    <2>. QED
        BY <2>1, <2>3, <2>4, <2>5, <2>6, OneMoves
<1>. QED
    BY <1>1, <1>2

LEMMA DeliverServes ==
    ASSUME QueueInv, NEW w \in Workers, Deliver(w)
    PROVE  QueueInv' /\ \E n \in Message : Queue!Deliver(n)
<1>1. PICK n \in Message : (SendNew(n) \/ SendAgain(n)) /\ Start(w, n)
    BY DEF Deliver
<1>. DEFINE new == <<n, nth[n] + 1>>
<1>2. /\ Places' /\ Standing[n] = "pending" /\ Queue!Becomes(n, "outstanding")
      /\ n \in 1..cursor' /\ 1..cursor \subseteq 1..cursor'
    BY <1>1, SendMoves DEF Deliver, QueueInv
<1>3. /\ nth' = [nth EXCEPT ![n] = @ + 1]
      /\ handlers' = [handlers EXCEPT ![w] = @ \cup {new}]
    BY <1>1 DEF Start
<1>4. nth[n] \in Nat /\ new \in Message \X Nat /\ new[1] = n /\ new[2] = nth[n] + 1
    BY DEF QueueInv, Numbered
<1>5. \A v \in Workers : \A h \in handlers'[v] :
          h \in handlers[v] \/ (v = w /\ h = new)
    BY <1>3 DEF QueueInv, Numbered
<1>6. \A v \in Workers : new \notin handlers[v]
    BY <1>4 DEF QueueInv, Numbered
<1>7. Numbered'
    <2>1. nth' \in [Message -> Nat] /\ handlers' \in [Workers -> SUBSET (Message \X Nat)]
        BY <1>3, <1>4 DEF QueueInv, Numbered
    <2>2. ASSUME NEW v \in Workers, NEW h \in handlers'[v]
          PROVE  h[2] <= nth'[h[1]]
        <3>1. CASE h = new
            BY <1>3, <1>4, <3>1 DEF QueueInv, Numbered
        <3>2. CASE h \in handlers[v]
            <4>1. h[1] \in Message /\ h[2] \in Nat /\ nth[h[1]] \in Nat /\ h[2] <= nth[h[1]]
                BY <3>2 DEF QueueInv, Numbered
            <4>2. nth'[h[1]] >= nth[h[1]] /\ nth'[h[1]] \in Nat
                BY <1>3, <4>1 DEF QueueInv, Numbered
            <4>. QED
                BY <4>1, <4>2
        <3>. QED
            BY <1>5, <2>2, <3>1, <3>2
    <2>3. ASSUME NEW v \in Workers, NEW u \in Workers, NEW h \in handlers'[v], h \in handlers'[u]
          PROVE  v = u
        BY <1>5, <1>6, <2>3 DEF QueueInv, Numbered
    <2>. QED
        BY <2>1, <2>2, <2>3 DEF Numbered
<1>8. UnderWay' = UnderWay \cup {new}
    <2>1. \A v \in Workers : handlers'[v] = IF v = w THEN handlers[v] \cup {new} ELSE handlers[v]
        BY <1>3 DEF QueueInv, Numbered
    <2>. QED
        BY <2>1 DEF UnderWay
<1>9. ("heartbeat" \in met)' = ("heartbeat" \in met)
    BY DEF Deliver, faultVars
<1>10. Queue!Deliver(n)
    BY <1>2, <1>3, <1>8, <1>9 DEF Queue!Deliver
<1>11. Reached'
    BY <1>2, <1>4, <1>5 DEF QueueInv, Reached
<1>. QED
    BY <1>2, <1>7, <1>10, <1>11 DEF QueueInv

LEMMA GoneServes ==
    ASSUME QueueInv, NEW w \in Workers, Gone(w), UNCHANGED ("heartbeat" \in met)
    PROVE  QueueInv' /\ Queue!Vanish
<1>1. /\ handlers' = [handlers EXCEPT ![w] = {}] /\ nth' = nth
      /\ last' = last /\ acked' = acked
    BY DEF Gone
<1>2. \A v \in Workers : handlers'[v] \subseteq handlers[v]
    BY <1>1 DEF QueueInv, Numbered
<1>3. Numbered'
    <2>1. handlers' \in [Workers -> SUBSET (Message \X Nat)]
        BY <1>1 DEF QueueInv, Numbered
    <2>2. \A v, u \in Workers : handlers'[v] \cap handlers'[u] # {} => v = u
        BY <1>2 DEF QueueInv, Numbered
    <2>3. \A v \in Workers : \A h \in handlers'[v] : h[2] <= nth'[h[1]]
        BY <1>1, <1>2 DEF QueueInv, Numbered
    <2>. QED
        BY <1>1, <2>1, <2>2, <2>3 DEF QueueInv, Numbered
<1>4. UnderWay' \subseteq UnderWay
    BY <1>2 DEF UnderWay
<1>5. /\ Places'
      /\ 1..cursor \subseteq 1..cursor'
      /\ \/ Standing' = Standing
         \/ \E n \in Message : Standing[n] = "pending" /\ Queue!Becomes(n, "outstanding")
    <2>1. CASE UNCHANGED <<cursor, ackPending, due, naked>>
        BY <1>1, <2>1, NoneMoves DEF QueueInv, Places
    <2>2. CASE \E n \in Message : SendNew(n) \/ SendAgain(n)
        BY <1>1, <2>2, SendMoves DEF QueueInv
    <2>. QED
        BY <2>1, <2>2 DEF Gone
<1>6. Reached'
    BY <1>2, <1>5 DEF QueueInv, Reached
<1>. QED
    BY <1>1, <1>3, <1>4, <1>5, <1>6 DEF QueueInv, Queue!Vanish

\* A handler ends that ran in one replica only.
LEMMA EndServes ==
    ASSUME QueueInv, NEW w \in Workers, NEW h \in handlers[w], Ends(w, h),
           UNCHANGED <<nth, cursor>>
    PROVE  Numbered' /\ Reached' /\ Queue!Ends(h) /\ h[1] \in Message
<1>1. handlers' = [handlers EXCEPT ![w] = @ \ {h}]
    BY DEF Ends
<1>2. \A v \in Workers : handlers'[v] = IF v = w THEN handlers[v] \ {h} ELSE handlers[v]
    BY <1>1 DEF QueueInv, Numbered
<1>3. \A v \in Workers : v # w => h \notin handlers[v]
    BY DEF QueueInv, Numbered
<1>4. UnderWay' = UnderWay \ {h}
    BY <1>2, <1>3 DEF UnderWay
<1>5. h \in UnderWay /\ h[1] \in Message
    BY DEF UnderWay, QueueInv, Numbered
<1>6. handlers' \in [Workers -> SUBSET (Message \X Nat)]
    BY <1>1 DEF QueueInv, Numbered
<1>7. \A v, u \in Workers : handlers'[v] \cap handlers'[u] # {} => v = u
    BY <1>2 DEF QueueInv, Numbered
<1>8. \A v \in Workers : \A g \in handlers'[v] : g[2] <= nth'[g[1]]
    BY <1>2 DEF QueueInv, Numbered
<1>9. Numbered'
    BY <1>6, <1>7, <1>8 DEF QueueInv, Numbered
<1>10. Reached'
    BY <1>2 DEF QueueInv, Reached
<1>. QED
    BY <1>4, <1>5, <1>9, <1>10 DEF Queue!Ends

\* An acknowledged message that was not counted any more, because it had
\* left the stream, is acknowledged all the same.
LEMMA AckServes ==
    ASSUME QueueInv, NEW w \in Workers, NEW h \in handlers[w], Ack(w, h)
    PROVE  QueueInv' /\ \E x \in UnderWay : Queue!Ack(x)
<1>1. /\ Ends(w, h) /\ acked' = acked \cup {h[1]} /\ due' = due \ {h[1]}
      /\ ackPending' = ackPending \ {h[1]}
      /\ UNCHANGED <<last, cursor, nth>>
      /\ UNCHANGED ("heartbeat" \in met)
    BY DEF Ack, faultVars
<1>2. Numbered' /\ Reached' /\ Queue!Ends(h) /\ h[1] \in Message
    BY <1>1, EndServes
<1>3. h[1] \in 1..cursor
    BY DEF QueueInv, Reached
<1>4. Places'
    BY <1>1, <1>3 DEF QueueInv, Places
<1>5. Standing'[h[1]] = "acked"
    BY <1>1, <1>2 DEF Standing
<1>6. Queue!Becomes(h[1], "acked")
    BY <1>1, <1>2, <1>5, OneMoves
<1>. QED
    BY <1>1, <1>2, <1>4, <1>6 DEF QueueInv, Queue!Ack, Queue!Ends

LEMMA NakServes ==
    ASSUME QueueInv, NEW w \in Workers, NEW h \in handlers[w], Nak(w, h)
    PROVE  QueueInv' /\ \E x \in UnderWay : Queue!Nak(x)
<1>1. /\ Ends(w, h) /\ due' = due \cup ({h[1]} \cap ackPending)
      /\ UNCHANGED <<last, cursor, ackPending, acked, nth>>
      /\ met' = met \cup {"raise"}
    BY DEF Nak, Fault
<1>2. Numbered' /\ Reached' /\ Queue!Ends(h) /\ h[1] \in Message
    BY <1>1, EndServes
<1>3. Places'
    BY <1>1 DEF QueueInv, Places
<1>4. Standing'[h[1]] = IF Standing[h[1]] = "outstanding" THEN "pending" ELSE Standing[h[1]]
    BY <1>1, <1>2 DEF Standing
<1>5. Queue!Becomes(h[1], IF Standing[h[1]] = "outstanding" THEN "pending" ELSE Standing[h[1]])
    BY <1>1, <1>2, <1>4, OneMoves
<1>6. UNCHANGED ("heartbeat" \in met)
    BY <1>1
<1>. QED
    BY <1>1, <1>2, <1>3, <1>5, <1>6 DEF QueueInv, Queue!Nak, Queue!Ends

\* A message becomes due, under a handler or not.
LEMMA OverdueServes ==
    ASSUME QueueInv, NEW n \in ackPending \ due, due' = due \cup {n},
           UNCHANGED <<last, cursor, ackPending, acked, nth, handlers>>
    PROVE  /\ QueueInv' /\ Queue!Overdue(n) /\ n \in Message
           /\ UnderWay' = UnderWay /\ (Handled(n) <=> Queue!Handled(n))
<1>1. n \in Message /\ n \notin acked
    BY StreamAssumption DEF QueueInv, Places, Message
<1>2. QueueInv'
    BY DEF QueueInv, Places, Numbered, Reached
<1>3. Standing[n] = "outstanding" /\ Standing'[n] = "pending"
    BY <1>1 DEF Standing
<1>4. Queue!Becomes(n, "pending")
    BY <1>1, <1>3, OneMoves
<1>5. UnderWay' = UnderWay /\ (Handled(n) <=> Queue!Handled(n))
    BY DEF UnderWay, Handled, Queue!Handled
<1>. QED
    BY <1>1, <1>2, <1>3, <1>4, <1>5 DEF Queue!Overdue

\* The steps no handler and no message notices.
LEMMA OthersServe ==
    ASSUME QueueInv, acked' = acked, cursor' = cursor, last' \in last..MaxPosted,
           ackPending' \ due' = ackPending \ due, ackPending' \subseteq ackPending,
           due' \subseteq ackPending',
           UNCHANGED <<nth, handlers>>, UNCHANGED ("heartbeat" \in met)
    PROVE  QueueInv' /\ UNCHANGED Queue!vars
<1>1. QueueInv'
    BY DEF QueueInv, Places, Numbered, Reached
<1>2. Standing' = Standing /\ UnderWay' = UnderWay
    BY NoneMoves DEF UnderWay
<1>. QED
    BY <1>1, <1>2 DEF Queue!vars

LEMMA QueueStep ==
    ASSUME QueueInv, [Next]_streamVars
    PROVE  QueueInv' /\ [Queue!Next]_(Queue!vars)
<1>. DEFINE Served == QueueInv' /\ (Queue!Next \/ UNCHANGED Queue!vars)
<1>. SUFFICES Served
    OBVIOUS
<1>1. ASSUME Publish
      PROVE  Served
    <2>1. last' \in last..MaxPosted /\ UNCHANGED <<consumerVars, handlers, met>>
        BY <1>1, StreamAssumption DEF Publish, clientVars, faultVars, QueueInv, Places
    <2>. QED
        BY <2>1, OthersServe DEF consumerVars, QueueInv, Places
<1>2. ASSUME NEW w \in Workers, Pull(w) \/ PullTimeout(w) \/ Restart(w) \/ Interrupt(w)
      PROVE  Served
    <2>1. UNCHANGED <<last, consumerVars, handlers>>
        BY <1>2 DEF Pull, PullTimeout, Restart, Interrupt
    <2>2. UNCHANGED ("heartbeat" \in met)
        BY <1>2 DEF Pull, PullTimeout, Restart, Interrupt, faultVars, Fault
    <2>. QED
        BY <2>1, <2>2, OthersServe DEF consumerVars, QueueInv, Places
<1>3. ASSUME NEW w \in Workers, Deliver(w)
      PROVE  Served
    BY <1>3, DeliverServes DEF Queue!Next
<1>4. ASSUME NEW w \in Workers, Handler(w)
      PROVE  Served
    BY <1>4, AckServes, NakServes DEF Handler, Queue!Next
<1>5. ASSUME NEW w \in Workers, Crash(w) \/ Exit(w)
      PROVE  Served
    <2>1. Gone(w) /\ UNCHANGED ("heartbeat" \in met)
        BY <1>5 DEF Crash, Exit, Fault, faultVars
    <2>. QED
        BY <2>1, GoneServes DEF Queue!Next
<1>6. ASSUME NEW n \in Message, Forget(n)
      PROVE  Served
    <2>1. /\ n \in due /\ due' = due \ {n} /\ ackPending' = ackPending \ {n}
          /\ UNCHANGED <<last, cursor, acked, nth, handlers, met>>
        BY <1>6 DEF Forget, clientVars, faultVars
    <2>2. ackPending' \ due' = ackPending \ due
        BY <2>1
    <2>. QED
        BY <2>1, <2>2, OthersServe DEF QueueInv, Places
<1>7. ASSUME NEW n \in Message, AckWaitElapses(n)
      PROVE  Served
    <2>1. /\ n \in ackPending \ due /\ ~Handled(n) /\ due' = due \cup {n}
          /\ UNCHANGED <<last, cursor, ackPending, acked, nth, handlers, met>>
        BY <1>7 DEF AckWaitElapses, clientVars, faultVars
    <2>2. /\ QueueInv' /\ Queue!Overdue(n) /\ ~Queue!Handled(n)
          /\ UnderWay' = UnderWay
        BY <2>1, OverdueServes
    <2>3. Queue!AckWaitElapses(n)
        BY <2>1, <2>2 DEF Queue!AckWaitElapses
    <2>. QED
        BY <2>2, <2>3 DEF Queue!Next
<1>8. ASSUME NEW n \in Message, HeartbeatLost(n)
      PROVE  Served
    <2>1. /\ n \in ackPending \ due /\ Handled(n) /\ due' = due \cup {n}
          /\ UNCHANGED <<last, cursor, ackPending, acked, nth, handlers>>
          /\ "heartbeat" \in met'
        BY <1>8 DEF HeartbeatLost, clientVars, Fault
    <2>2. /\ QueueInv' /\ Queue!Overdue(n) /\ Queue!Handled(n)
          /\ UnderWay' = UnderWay
        BY <2>1, OverdueServes
    <2>3. Queue!HeartbeatLost(n)
        BY <2>1, <2>2 DEF Queue!HeartbeatLost
    <2>. QED
        BY <2>2, <2>3 DEF Queue!Next
<1>9. ASSUME UNCHANGED streamVars
      PROVE  Served
    <2>1. UNCHANGED <<last, consumerVars, handlers, met>>
        BY <1>9 DEF streamVars, clientVars, faultVars
    <2>. QED
        BY <2>1, OthersServe DEF consumerVars, QueueInv, Places
<1>. QED
    BY <1>1, <1>2, <1>3, <1>4, <1>5, <1>6, <1>7, <1>8, <1>9 DEF Next, Loop

\* The stream, its consumer and the pull loops of all replicas are the queue
\* WorkQueue describes, for any limits, replicas, requests and faults: what
\* is evicted, who pulls and who stops is invisible to a handler, and two
\* deliveries of a message run together only after a lost heartbeat.
THEOREM StreamServes == Spec => ServesAsQueue
<1>1. Init => QueueInv /\ Queue!Init
    BY QueueInvInit
<1>2. QueueInv /\ [Next]_streamVars => QueueInv' /\ [Queue!Next]_(Queue!vars)
    BY QueueStep
<1>. QED
    BY <1>1, <1>2, PTL DEF Spec, ServesAsQueue, Queue!Spec

-----------------------------------------------------------------------------
(***************************************************************************)
(* The type invariant.  Two of its bounds are no matter of form.  The      *)
(* permits: a pull loop never holds more than one of the semaphore's, and  *)
(* gives it back on every path.  And how often a message is delivered:     *)
(* once, and once more per fault.  A message is Owed a delivery when it is *)
(* due, or nobody is left to keep it from becoming so.  A replica that is  *)
(* stopping has spent its fault, and will leave its handlers without one.  *)
(***************************************************************************)
Owed(n)  == n > cursor \/ n \in due \/ (n \in ackPending /\ ~Handled(n))
Stopping == {w \in Workers : phase[w] = "stopping"}
Bill(n)  == nth[n] + Cardinality(Stopping) + (IF Owed(n) THEN 1 ELSE 0)
                <= 1 + MaxFaults - budget

ClientTyped ==
    /\ pulling \in [Workers -> BOOLEAN]
    /\ permits \in [Workers -> Int]
    /\ phase   \in [Workers -> {"running", "stopping", "stopped"}]
    /\ \A w \in Workers : permits[w] = IF pulling[w] THEN MaxConcurrent - 1 ELSE MaxConcurrent
FaultTyped ==
    /\ budget \in 0..MaxFaults /\ met \subseteq Faults
    /\ naked \subseteq 1..cursor
    /\ \A w \in Workers : \A h \in handlers[w] : h[2] >= 1
Billed == IsFiniteSet(Stopping) /\ \A n \in Message : Bill(n)

StreamInv == QueueInv /\ ClientTyped /\ FaultTyped /\ Billed

LEMMA ClientStep ==
    ASSUME ClientTyped, [Next]_streamVars
    PROVE  ClientTyped'
<1>. USE StreamAssumption DEF ClientTyped
<1>1. CASE \E w \in Workers : Pull(w)
    BY <1>1 DEF Pull
<1>2. CASE \E w \in Workers : PullTimeout(w)
    BY <1>2 DEF PullTimeout
<1>3. CASE \E w \in Workers : Deliver(w)
    BY <1>3 DEF Deliver, Start
<1>4. CASE \E w \in Workers : Handler(w)
    BY <1>4 DEF Handler, Ack, Nak
<1>5. CASE \E w \in Workers : Crash(w) \/ Exit(w)
    <2>1. PICK w \in Workers : Gone(w)
        BY <1>5 DEF Crash, Exit
    <2>2. /\ phase' = [phase EXCEPT ![w] = "stopped"]
          /\ pulling' = [pulling EXCEPT ![w] = FALSE]
          /\ permits' = [permits EXCEPT ![w] = MaxConcurrent]
        BY <2>1 DEF Gone
    <2>. QED
        BY <2>2
<1>6. CASE \E w \in Workers : Interrupt(w) \/ Restart(w)
    BY <1>6 DEF Interrupt, Restart
<1>7. CASE Publish \/ UNCHANGED streamVars
    BY <1>7 DEF Publish, clientVars, streamVars
<1>8. CASE \E n \in Message : Forget(n) \/ AckWaitElapses(n) \/ HeartbeatLost(n)
    BY <1>8 DEF Forget, AckWaitElapses, HeartbeatLost, clientVars
<1>. QED
    BY <1>1, <1>2, <1>3, <1>4, <1>5, <1>6, <1>7, <1>8 DEF Next, Loop

\* Every handler that is there was there, or has just been started.
LEMMA NewHandlers ==
    ASSUME QueueInv, [Next]_streamVars, NEW v \in Workers, NEW h \in handlers'[v]
    PROVE  h \in handlers[v] \/ \E n \in Message : h = <<n, nth[n] + 1>>
<1>. USE DEF QueueInv, Numbered
<1>1. CASE \E w \in Workers : Pull(w) \/ PullTimeout(w) \/ Interrupt(w) \/ Restart(w)
    BY <1>1 DEF Pull, PullTimeout, Interrupt, Restart
<1>2. CASE \E w \in Workers : Deliver(w)
    BY <1>2 DEF Deliver, Start
<1>3. CASE \E w \in Workers : Handler(w)
    BY <1>3 DEF Handler, Ack, Nak, Ends
<1>4. CASE \E w \in Workers : Crash(w) \/ Exit(w)
    BY <1>4 DEF Crash, Exit, Gone
<1>5. CASE Publish \/ UNCHANGED streamVars
    BY <1>5 DEF Publish, clientVars, streamVars
<1>6. CASE \E n \in Message : Forget(n) \/ AckWaitElapses(n) \/ HeartbeatLost(n)
    BY <1>6 DEF Forget, AckWaitElapses, HeartbeatLost, clientVars
<1>. QED
    BY <1>1, <1>2, <1>3, <1>4, <1>5, <1>6 DEF Next, Loop

LEMMA FaultsTyped ==
    ASSUME FaultTyped, [Next]_streamVars
    PROVE  budget' \in 0..MaxFaults /\ met' \subseteq Faults
<1>1. UNCHANGED faultVars \/ \E kind : Fault(kind)
    <2>1. CASE \E w \in Workers : Loop(w) \/ PullTimeout(w) \/ Restart(w) \/ Exit(w)
        BY <2>1 DEF Loop, Pull, Deliver, PullTimeout, Restart, Exit
    <2>2. CASE \E w \in Workers : Handler(w) \/ Crash(w) \/ Interrupt(w)
        BY <2>2 DEF Handler, Ack, Nak, Crash, Interrupt
    <2>3. CASE Publish \/ UNCHANGED streamVars
        BY <2>3 DEF Publish, streamVars
    <2>4. CASE \E n \in Message : Forget(n) \/ AckWaitElapses(n) \/ HeartbeatLost(n)
        BY <2>4 DEF Forget, AckWaitElapses, HeartbeatLost
    <2>. QED
        BY <2>1, <2>2, <2>3, <2>4 DEF Next
<1>. QED
    BY <1>1, StreamAssumption DEF FaultTyped, Fault, faultVars

LEMMA NakedStep ==
    ASSUME QueueInv, FaultTyped, [Next]_streamVars
    PROVE  naked' \subseteq 1..cursor'
<1>. USE DEF QueueInv, FaultTyped
<1>0. naked' \subseteq naked \cup ackPending /\ (cursor' = cursor \/ \E n \in Message : SendNew(n))
    <2>1. CASE \E w \in Workers : Pull(w) \/ PullTimeout(w) \/ Interrupt(w) \/ Restart(w)
        BY <2>1 DEF Pull, PullTimeout, Interrupt, Restart, consumerVars
    <2>2. CASE \E w \in Workers : Deliver(w) \/ Crash(w) \/ Exit(w)
        BY <2>2 DEF Deliver, Crash, Exit, Gone, SendNew, SendAgain
    <2>3. CASE \E w \in Workers : Handler(w)
        BY <2>3 DEF Handler, Ack, Nak
    <2>4. CASE Publish \/ UNCHANGED streamVars
        BY <2>4 DEF Publish, consumerVars, streamVars
    <2>5. CASE \E n \in Message : Forget(n) \/ AckWaitElapses(n) \/ HeartbeatLost(n)
        BY <2>5 DEF Forget, AckWaitElapses, HeartbeatLost
    <2>. QED
        BY <2>1, <2>2, <2>3, <2>4, <2>5 DEF Next, Loop
<1>1. 1..cursor \subseteq 1..cursor'
    <2>1. CASE \E n \in Message : SendNew(n)
        BY <2>1 DEF SendNew, Message, Places
    <2>. QED
        BY <1>0, <2>1
<1>. QED
    BY <1>0, <1>1 DEF Places

LEMMA FaultStep ==
    ASSUME QueueInv, FaultTyped, [Next]_streamVars
    PROVE  FaultTyped'
<1>1. ASSUME NEW w \in Workers, NEW h \in handlers'[w]
      PROVE  h[2] >= 1
    <2>1. CASE h \in handlers[w]
        BY <2>1 DEF FaultTyped
    <2>2. ASSUME NEW n \in Message, h = <<n, nth[n] + 1>>
          PROVE  h[2] >= 1
        BY <2>2 DEF QueueInv, Numbered
    <2>. QED
        BY <1>1, <2>1, <2>2, NewHandlers
<1>. QED
    BY <1>1, FaultsTyped, NakedStep DEF FaultTyped

\* Three ways a message's bill can stay covered: nothing new is owed, ...
LEMMA BillStays ==
    ASSUME StreamInv, NEW n \in Message, nth'[n] = nth[n], Stopping' = Stopping,
           budget' = budget, Owed(n)' => Owed(n)
    PROVE  Bill(n)'
<1>1. Cardinality(Stopping) \in Nat /\ nth[n] \in Nat /\ budget \in Nat /\ Bill(n)
    BY FS_CardinalityType DEF StreamInv, Billed, QueueInv, Numbered, FaultTyped
<1>. QED
    BY <1>1, StreamAssumption DEF Bill

\* ... a fault pays for what is, ...
LEMMA FaultPays ==
    ASSUME StreamInv, NEW n \in Message, nth'[n] = nth[n], budget' = budget - 1,
           \/ Cardinality(Stopping') <= Cardinality(Stopping) /\ IsFiniteSet(Stopping')
           \/ /\ Cardinality(Stopping') <= Cardinality(Stopping) + 1 /\ IsFiniteSet(Stopping')
              /\ Owed(n)' => Owed(n)
    PROVE  Bill(n)'
<1>1. /\ Cardinality(Stopping) \in Nat /\ nth[n] \in Nat /\ budget \in Nat /\ Bill(n)
      /\ Cardinality(Stopping') \in Nat
    BY FS_CardinalityType DEF StreamInv, Billed, QueueInv, Numbered, FaultTyped
<1>. QED
    BY <1>1, StreamAssumption DEF Bill

\* ... or a replica that was stopping stops.
LEMMA StopPays ==
    ASSUME StreamInv, NEW n \in Message, nth'[n] = nth[n], budget' = budget,
           NEW w \in Stopping, Stopping' = Stopping \ {w}
    PROVE  Bill(n)'
<1>1. /\ Cardinality(Stopping) \in Nat /\ nth[n] \in Nat /\ budget \in Nat /\ Bill(n)
      /\ Cardinality(Stopping') = Cardinality(Stopping) - 1
    BY FS_CardinalityType, FS_RemoveElement
       DEF StreamInv, Billed, QueueInv, Numbered, FaultTyped
<1>. QED
    BY <1>1, StreamAssumption DEF Bill

LEMMA DeliverBilled ==
    ASSUME StreamInv, NEW w \in Workers, Deliver(w)
    PROVE  Billed'
<1>1. PICK n \in Message : (SendNew(n) \/ SendAgain(n)) /\ Start(w, n)
    BY DEF Deliver
<1>. DEFINE new == <<n, nth[n] + 1>>
<1>2. Stopping' = Stopping /\ budget' = budget
    BY DEF Deliver, Stopping, faultVars
<1>3. \A m \in Message : nth'[m] = IF m = n THEN nth[n] + 1 ELSE nth[m]
    BY <1>1 DEF Start, StreamInv, QueueInv, Numbered
<1>4. \A v \in Workers : handlers'[v] = IF v = w THEN handlers[v] \cup {new} ELSE handlers[v]
    BY <1>1 DEF Start, StreamInv, QueueInv, Numbered
<1>5. \A m \in Message : Handled(m)' <=> Handled(m) \/ m = n
    <2>0. new[1] = n
        OBVIOUS
    <2>. HIDE DEF new
    <2>1. Handled(n)'
        BY <1>4, <2>0 DEF Handled
    <2>2. ASSUME NEW m \in Message, Handled(m)
          PROVE  Handled(m)'
        BY <1>4, <2>2 DEF Handled
    <2>3. ASSUME NEW m \in Message, m # n, Handled(m)'
          PROVE  Handled(m)
        BY <1>4, <2>0, <2>3 DEF Handled
    <2>. QED
        BY <2>1, <2>2, <2>3
<1>6. Owed(n) /\ ~Owed(n)'
    <2>1. CASE SendNew(n)
        <3>1. n > cursor /\ cursor' = n /\ due' = due
            BY <2>1 DEF SendNew
        <3>2. n \notin due' /\ ~(n > cursor')
            BY <3>1, StreamAssumption DEF StreamInv, QueueInv, Places, Message
        <3>. QED
            BY <1>5, <3>1, <3>2 DEF Owed
    <2>2. CASE SendAgain(n)
        <3>1. n \in due /\ due' = due \ {n} /\ cursor' = cursor
            BY <2>2 DEF SendAgain
        <3>2. ~(n > cursor)
            BY <3>1, StreamAssumption DEF StreamInv, QueueInv, Places, Message
        <3>. QED
            BY <1>5, <3>1, <3>2 DEF Owed
    <2>. QED
        BY <1>1, <2>1, <2>2
<1>7. ASSUME NEW m \in Message, m # n, Owed(m)'
      PROVE  Owed(m)
    <2>1. CASE SendNew(n)
        <3>1. n > cursor /\ cursor' = n /\ due' = due /\ ackPending' = ackPending \cup {n}
            BY <2>1 DEF SendNew
        <3>2. m > cursor' => m > cursor
            BY <3>1, StreamAssumption DEF StreamInv, QueueInv, Places, Message
        <3>. QED
            BY <1>5, <1>7, <3>1, <3>2 DEF Owed
    <2>2. CASE SendAgain(n)
        BY <1>5, <1>7, <2>2 DEF SendAgain, Owed
    <2>. QED
        BY <1>1, <2>1, <2>2
<1>8. Bill(n)'
    <2>1. Cardinality(Stopping) \in Nat /\ nth[n] \in Nat /\ budget \in Nat /\ Bill(n)
        BY FS_CardinalityType DEF StreamInv, Billed, QueueInv, Numbered, FaultTyped
    <2>. QED
        BY <1>2, <1>3, <1>6, <2>1, StreamAssumption DEF Bill
<1>9. ASSUME NEW m \in Message, m # n
      PROVE  Bill(m)'
    BY <1>2, <1>3, <1>7, <1>9, BillStays
<1>. QED
    BY <1>2, <1>8, <1>9 DEF Billed, StreamInv

\* The ack of a message settles what is owed of it.
LEMMA AckOwes ==
    ASSUME StreamInv, NEW w \in Workers, NEW h \in handlers[w], Ack(w, h),
           NEW m \in Message, Owed(m)'
    PROVE  Owed(m)
<1>1. /\ ackPending' = ackPending \ {h[1]} /\ due' = due \ {h[1]} /\ cursor' = cursor
      /\ handlers' = [handlers EXCEPT ![w] = @ \ {h}]
    BY DEF Ack, Ends
<1>2. \A v \in Workers : handlers'[v] = IF v = w THEN handlers[v] \ {h} ELSE handlers[v]
    BY <1>1 DEF StreamInv, QueueInv, Numbered
<1>3. CASE m = h[1]
    BY <1>1, <1>3 DEF Owed
<1>4. CASE m # h[1]
    <2>1. Handled(m) => Handled(m)'
        BY <1>2, <1>4 DEF Handled
    <2>. QED
        BY <1>1, <2>1 DEF Owed
<1>. QED
    BY <1>3, <1>4

LEMMA BilledStep ==
    ASSUME StreamInv, [Next]_streamVars
    PROVE  Billed'
<1>0. IsFiniteSet(Stopping) /\ ClientTyped
    BY DEF StreamInv, Billed
<1>1. ASSUME Publish \/ (UNCHANGED streamVars) \/ \E w \in Workers : Pull(w) \/ PullTimeout(w)
      PROVE  Billed'
    <2>1. UNCHANGED <<nth, cursor, due, ackPending, handlers, phase, budget>>
        BY <1>1 DEF Publish, Pull, PullTimeout, streamVars, consumerVars, clientVars, faultVars
    <2>2. Stopping' = Stopping /\ \A m \in Message : Owed(m)' => Owed(m)
        BY <2>1 DEF Stopping, Owed, Handled
    <2>. QED
        BY <1>0, <2>1, <2>2, BillStays DEF Billed
<1>2. ASSUME NEW w \in Workers, Deliver(w)
      PROVE  Billed'
    BY <1>2, DeliverBilled
<1>3. ASSUME NEW w \in Workers, NEW h \in handlers[w], Ack(w, h)
      PROVE  Billed'
    <2>1. Stopping' = Stopping /\ nth' = nth /\ budget' = budget
        BY <1>3 DEF Ack, Stopping, faultVars
    <2>. QED
        BY <1>0, <1>3, <2>1, AckOwes, BillStays DEF Billed
<1>4. ASSUME NEW w \in Workers, NEW h \in handlers[w], Nak(w, h)
      PROVE  Billed'
    <2>1. Stopping' = Stopping /\ nth' = nth /\ budget' = budget - 1
        BY <1>4 DEF Nak, Fault, Stopping
    <2>2. Cardinality(Stopping) <= Cardinality(Stopping)
        BY <1>0, FS_CardinalityType
    <2>. QED
        BY <1>0, <2>1, <2>2, FaultPays DEF Billed
<1>5. ASSUME NEW n \in Message, HeartbeatLost(n)
      PROVE  Billed'
    <2>1. Stopping' = Stopping /\ nth' = nth /\ budget' = budget - 1
        BY <1>5 DEF HeartbeatLost, Fault, Stopping, clientVars
    <2>2. Cardinality(Stopping) <= Cardinality(Stopping)
        BY <1>0, FS_CardinalityType
    <2>. QED
        BY <1>0, <2>1, <2>2, FaultPays DEF Billed
<1>6. ASSUME NEW w \in Workers, Crash(w)
      PROVE  Billed'
    <2>1. phase' = [phase EXCEPT ![w] = "stopped"] /\ nth' = nth /\ budget' = budget - 1
        BY <1>6 DEF Crash, Fault, Gone
    <2>2. Stopping' \subseteq Stopping
        BY <1>0, <2>1 DEF Stopping, ClientTyped
    <2>3. IsFiniteSet(Stopping') /\ Cardinality(Stopping') <= Cardinality(Stopping)
        BY <1>0, <2>2, FS_Subset
    <2>. QED
        BY <2>1, <2>3, FaultPays DEF Billed
<1>7. ASSUME NEW w \in Workers, Interrupt(w)
      PROVE  Billed'
    <2>1. /\ phase' = [phase EXCEPT ![w] = "stopping"] /\ nth' = nth /\ budget' = budget - 1
          /\ phase[w] = "running"
          /\ UNCHANGED <<cursor, due, ackPending, handlers>>
        BY <1>7 DEF Interrupt, Fault, consumerVars
    <2>2. Stopping' = Stopping \cup {w} /\ w \notin Stopping
        BY <1>0, <2>1 DEF Stopping, ClientTyped
    <2>3. /\ IsFiniteSet(Stopping') /\ Cardinality(Stopping) \in Nat
          /\ Cardinality(Stopping') = Cardinality(Stopping) + 1
        BY <1>0, <2>2, FS_AddElement, FS_CardinalityType
    <2>4. Cardinality(Stopping') <= Cardinality(Stopping) + 1
        BY <2>3
    <2>5. \A m \in Message : Owed(m)' => Owed(m)
        BY <2>1 DEF Owed, Handled
    <2>. QED
        BY <2>1, <2>3, <2>4, <2>5, FaultPays DEF Billed
<1>8. ASSUME NEW w \in Workers, Exit(w)
      PROVE  Billed'
    <2>1. /\ phase' = [phase EXCEPT ![w] = "stopped"] /\ nth' = nth /\ budget' = budget
          /\ phase[w] = "stopping"
        BY <1>8 DEF Exit, Gone, faultVars
    <2>2. Stopping' = Stopping \ {w} /\ w \in Stopping
        BY <1>0, <2>1 DEF Stopping, ClientTyped
    <2>3. IsFiniteSet(Stopping')
        BY <1>0, <2>2, FS_RemoveElement
    <2>. QED
        BY <2>1, <2>2, <2>3, StopPays DEF Billed
<1>9. ASSUME NEW w \in Workers, Restart(w)
      PROVE  Billed'
    <2>1. /\ phase' = [phase EXCEPT ![w] = "running"] /\ phase[w] = "stopped"
          /\ UNCHANGED <<nth, budget, cursor, due, ackPending, handlers>>
        BY <1>9 DEF Restart, consumerVars, faultVars
    <2>2. Stopping' = Stopping
        BY <1>0, <2>1 DEF Stopping, ClientTyped
    <2>3. \A m \in Message : Owed(m)' => Owed(m)
        BY <2>1 DEF Owed, Handled
    <2>. QED
        BY <1>0, <2>1, <2>2, <2>3, BillStays DEF Billed
<1>10. ASSUME NEW n \in Message, Forget(n) \/ AckWaitElapses(n)
      PROVE  Billed'
    <2>1. /\ UNCHANGED <<nth, cursor, handlers, phase, budget>>
          /\ \/ n \in due /\ due' = due \ {n} /\ ackPending' = ackPending \ {n}
             \/ /\ n \in ackPending /\ ~Handled(n)
                /\ due' = due \cup {n} /\ ackPending' = ackPending
        BY <1>10 DEF Forget, AckWaitElapses, clientVars, faultVars
    <2>2. \A m \in Message : Owed(m)' => Owed(m)
        BY <2>1 DEF Owed, Handled
    <2>3. Stopping' = Stopping
        BY <2>1 DEF Stopping
    <2>. QED
        BY <1>0, <2>1, <2>2, <2>3, BillStays DEF Billed
<1>. QED
    BY <1>1, <1>2, <1>3, <1>4, <1>5, <1>6, <1>7, <1>8, <1>9, <1>10 DEF Next, Loop, Handler

LEMMA StreamInit == Init => StreamInv
<1>. SUFFICES ASSUME Init PROVE StreamInv
    OBVIOUS
<1>1. QueueInv
    BY QueueInvInit
<1>2. ClientTyped /\ FaultTyped
    BY StreamAssumption DEF Init, ClientTyped, FaultTyped
<1>3. Stopping = {}
    BY DEF Init, Stopping
<1>4. IsFiniteSet(Stopping) /\ Cardinality(Stopping) = 0
    BY <1>3, FS_EmptySet
<1>5. \A n \in Message : nth[n] = 0 /\ budget = MaxFaults
    BY DEF Init
<1>. QED
    BY <1>1, <1>2, <1>4, <1>5, StreamAssumption DEF StreamInv, Billed, Bill

LEMMA StreamTypes == StreamInv => TypeOK
<1>. SUFFICES ASSUME StreamInv PROVE TypeOK
    OBVIOUS
<1>1. Places /\ Numbered /\ ClientTyped /\ FaultTyped
    BY DEF StreamInv, QueueInv
<1>2. \A n \in Message : nth[n] \in 0..MaxFaults + 1
    <2>1. Cardinality(Stopping) \in Nat
        BY FS_CardinalityType DEF StreamInv, Billed
    <2>2. ASSUME NEW n \in Message
          PROVE  nth[n] \in 0..MaxFaults + 1
        <3>1. Bill(n) /\ nth[n] \in Nat /\ budget \in Nat
            BY <1>1 DEF StreamInv, Billed, Numbered, FaultTyped
        <3>. QED
            BY <2>1, <3>1, StreamAssumption DEF Bill
    <2>. QED
        BY <2>2
<1>3. nth \in [Message -> 0..MaxFaults + 1]
    BY <1>1, <1>2 DEF Numbered
<1>4. ASSUME NEW w \in Workers, NEW h \in handlers[w]
      PROVE  h \in Delivery
    <2>1. h \in Message \X Nat /\ h[2] >= 1 /\ h[2] <= nth[h[1]]
        BY <1>1, <1>4 DEF Numbered, FaultTyped
    <2>2. h[2] \in 1..MaxFaults + 1
        BY <1>2, <2>1, StreamAssumption
    <2>. QED
        BY <2>1, <2>2 DEF Delivery
<1>5. handlers \in [Workers -> SUBSET Delivery]
    BY <1>1, <1>4 DEF Numbered
<1>6. permits \in [Workers -> 0..MaxConcurrent]
    BY <1>1, StreamAssumption DEF ClientTyped
<1>. QED
    BY <1>1, <1>3, <1>5, <1>6 DEF TypeOK, Places, ClientTyped, FaultTyped

\* The type invariant, for any replicas, limits and faults: a pull loop takes
\* one permit at a time and gives it back, whatever ends its fetch, and a
\* message is delivered at most once more often than there were faults, with
\* all replicas pulling, crashing and being interrupted under way.
THEOREM StreamTyped == Spec => []TypeOK
<1>1. StreamInv /\ [Next]_streamVars => StreamInv'
    BY QueueStep, ClientStep, FaultStep, BilledStep DEF StreamInv
<1>. QED
    BY <1>1, StreamInit, StreamTypes, PTL DEF Spec

-----------------------------------------------------------------------------
(***************************************************************************)
(* The consumer loses nothing: what it has gone past and does not count is *)
(* acknowledged, or the stream has discarded it.                           *)
(***************************************************************************)

LEMMA EvictedStays ==
    ASSUME last \in Int, last' \in Int, last' >= last, NEW n \in 1..last, InStream(n)'
    PROVE  InStream(n)
<1>1. n > last' - MaxMsgs
    BY DEF InStream
<1>2. n \in Int /\ MaxMsgs \in Int
    BY StreamAssumption
<1>. \A a, b, m, k \in Int : b >= a /\ k > b - m => k > a - m
    OBVIOUS
<1>3. n > last - MaxMsgs
    BY <1>1, <1>2
<1>. QED
    BY <1>3 DEF InStream

LEMMA SendForgets ==
    ASSUME Places, ForgetsOnlyEvicted, NEW n \in Message, SendNew(n) \/ SendAgain(n),
           UNCHANGED <<last, acked>>
    PROVE  ForgetsOnlyEvicted'
<1>1. CASE SendNew(n)
    <2>1. /\ n > cursor /\ cursor' = n /\ ackPending' = ackPending \cup {n}
          /\ \A m \in cursor + 1..n - 1 : ~InStream(m)
        BY <1>1 DEF SendNew
    <2>2. \A m \in 1..n : m \in 1..cursor \/ m \in cursor + 1..n - 1 \/ m = n
        BY <2>1 DEF Places, Message
    <2>3. \A m \in 1..n : InStream(m)' <=> InStream(m)
        BY DEF InStream
    <2>. QED
        BY <2>1, <2>2, <2>3 DEF ForgetsOnlyEvicted
<1>2. CASE SendAgain(n)
    BY <1>2 DEF SendAgain, ForgetsOnlyEvicted, InStream
<1>. QED
    BY <1>1, <1>2

LEMMA ForgetsStep ==
    ASSUME QueueInv, ForgetsOnlyEvicted, [Next]_streamVars
    PROVE  ForgetsOnlyEvicted'
<1>0. Places /\ last \in Int /\ cursor \in Int
    BY DEF QueueInv, Places
<1>1. ASSUME UNCHANGED <<last, cursor>>,
             acked \cup ackPending \subseteq acked' \cup ackPending'
      PROVE  ForgetsOnlyEvicted'
    BY <1>1 DEF ForgetsOnlyEvicted, InStream
<1>2. CASE Publish
    <2>1. last' = last + 1 /\ UNCHANGED <<cursor, acked, ackPending>>
        BY <1>2 DEF Publish, consumerVars
    <2>2. \A n \in 1..cursor : InStream(n)' => InStream(n)
        BY <1>0, <2>1, EvictedStays DEF Places
    <2>. QED
        BY <2>1, <2>2 DEF ForgetsOnlyEvicted
<1>3. CASE \E w \in Workers : Pull(w) \/ PullTimeout(w) \/ Interrupt(w) \/ Restart(w)
    <2>1. UNCHANGED <<last, cursor, acked, ackPending>>
        BY <1>3 DEF Pull, PullTimeout, Interrupt, Restart, consumerVars
    <2>. QED
        BY <1>1, <2>1
<1>4. CASE \E w \in Workers : Deliver(w) \/ Crash(w) \/ Exit(w)
    <2>1. /\ UNCHANGED <<last, acked>>
          /\ \/ UNCHANGED <<cursor, ackPending>>
             \/ \E n \in Message : SendNew(n) \/ SendAgain(n)
        BY <1>4 DEF Deliver, Crash, Exit, Gone
    <2>. QED
        BY <1>0, <1>1, <2>1, SendForgets
<1>5. CASE \E w \in Workers : Handler(w)
    <2>1. UNCHANGED <<last, cursor>> /\ acked \cup ackPending \subseteq acked' \cup ackPending'
        BY <1>5 DEF Handler, Ack, Nak
    <2>. QED
        BY <1>1, <2>1
<1>6. CASE \E n \in Message : Forget(n)
    <2>1. PICK n \in Message : Forget(n)
        BY <1>6
    <2>2. /\ ~InStream(n) /\ ackPending' = ackPending \ {n}
          /\ UNCHANGED <<last, cursor, acked>>
        BY <2>1 DEF Forget
    <2>. QED
        BY <2>2 DEF ForgetsOnlyEvicted, InStream
<1>7. CASE (UNCHANGED streamVars) \/ \E n \in Message : AckWaitElapses(n) \/ HeartbeatLost(n)
    <2>1. UNCHANGED <<last, cursor, acked, ackPending>>
        BY <1>7 DEF streamVars, consumerVars, AckWaitElapses, HeartbeatLost
    <2>. QED
        BY <1>1, <2>1
<1>. QED
    BY <1>2, <1>3, <1>4, <1>5, <1>6, <1>7 DEF Next, Loop

\* A request that is neither acknowledged nor counted by the consumer has
\* left the stream, or has not been reached: raises, crashes, interrupted
\* fetches and lost heartbeats lose none.  Only max_msgs does.
THEOREM OnlyEvictionLoses == Spec => []ForgetsOnlyEvicted
<1>1. Init => ForgetsOnlyEvicted
    BY DEF Init, ForgetsOnlyEvicted
<1>2. QueueInv /\ ForgetsOnlyEvicted /\ [Next]_streamVars => QueueInv' /\ ForgetsOnlyEvicted'
    BY QueueStep, ForgetsStep
<1>. QED
    BY <1>1, <1>2, QueueInvInit, PTL DEF Spec
=============================================================================
