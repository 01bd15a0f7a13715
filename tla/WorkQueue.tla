------------------------------ MODULE WorkQueue ------------------------------
(***************************************************************************)
(* The queue of requests as a handler sees it: at least one delivery each, *)
(* without streams, sequence numbers, limits, pull loops and semaphores on *)
(* one side, and without what a handler does with a request on the other.  *)
(* RequestStream, which models how NatsQueue configures the server, and    *)
(* AsyncWorker, which models the handlers, both implement it: what the     *)
(* second relies on is what the first provides.                            *)
(***************************************************************************)
EXTENDS Naturals

CONSTANT Messages

VARIABLES
    msg,        \* [Messages]: "pending", "outstanding" or "acked"
    delivered,  \* [Messages]: how many handlers were started for it
    running,    \* the deliveries <<m, k>> whose handler is running
    deaf        \* has a heartbeat been lost under a handler?

vars == <<msg, delivered, running, deaf>>

Init ==
    /\ msg       = [m \in Messages |-> "pending"]
    /\ delivered = [m \in Messages |-> 0]
    /\ running   = {}
    /\ deaf      = FALSE

Handled(m) == \E x \in running : x[1] = m
Becomes(m, state) == msg' = [msg EXCEPT ![m] = state]

Deliver(m) ==
    /\ msg[m] = "pending"
    /\ Becomes(m, "outstanding")
    /\ delivered' = [delivered EXCEPT ![m] = @ + 1]
    /\ running'   = running \cup {<<m, delivered[m] + 1>>}
    /\ UNCHANGED deaf

Ends(x) == x \in running /\ running' = running \ {x}

\* An ack settles a message, whatever other deliveries of it are about ...
Ack(x) ==
    /\ Ends(x)
    /\ Becomes(x[1], "acked")
    /\ UNCHANGED <<delivered, deaf>>

\* ... and a nak brings back one that nobody has acknowledged.
Nak(x) ==
    /\ Ends(x)
    /\ Becomes(x[1], IF msg[x[1]] = "outstanding" THEN "pending" ELSE msg[x[1]])
    /\ UNCHANGED <<delivered, deaf>>

Overdue(m) == msg[m] = "outstanding" /\ Becomes(m, "pending")

AckWaitElapses(m) ==
    /\ Overdue(m) /\ ~Handled(m)
    /\ UNCHANGED <<delivered, running, deaf>>

HeartbeatLost(m) ==
    /\ Overdue(m) /\ Handled(m)
    /\ deaf' = TRUE
    /\ UNCHANGED <<delivered, running>>

\* Handlers vanish without a word, and with them the answer of a fetch that
\* nobody reads any more: its message waits for ack_wait.
Vanish ==
    /\ running' \subseteq running
    /\ \/ UNCHANGED msg
       \/ \E m \in Messages : msg[m] = "pending" /\ Becomes(m, "outstanding")
    /\ UNCHANGED <<delivered, deaf>>

Next ==
    \/ \E m \in Messages : Deliver(m) \/ AckWaitElapses(m) \/ HeartbeatLost(m)
    \/ \E x \in running : Ack(x) \/ Nak(x)
    \/ Vanish

Spec == Init /\ [][Next]_vars
=============================================================================
