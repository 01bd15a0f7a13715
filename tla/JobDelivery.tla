----------------------------- MODULE JobDelivery -----------------------------
(***************************************************************************)
(* What the asynchronous worker promises whoever posts jobs and reads the  *)
(* response stream, without workers, locks, deliveries or acknowledgements *)
(* (transcribator-services/async seen from outside).  Responses may repeat *)
(* and a 'failed' may be followed by a retry's 'completed', but a job is   *)
(* dropped from the queue only after a verdict it deserves: 'completed'    *)
(* for a request that is accepted, 'failed' for one that is not.           *)
(***************************************************************************)
CONSTANT Jobs

VARIABLES
    request,   \* [Jobs]: what handle_message makes of it
    verdicts,  \* [Jobs]: the terminal statuses published so far
    settled    \* [Jobs]: the request will not be looked at again

vars == <<request, verdicts, settled>>

\* A request with too many files ("crowded") is refused, or accepted when
\* the refusal cannot be sent.
Verdicts(j) == CASE request[j] = "valid"   -> {"completed"}
                 [] request[j] = "crowded" -> {"completed", "failed"}
                 [] OTHER                  -> {"failed"}

Init ==
    /\ request  \in [Jobs -> {"valid", "malformed", "refused", "crowded", "flooded"}]
    /\ verdicts = [j \in Jobs |-> {}]
    /\ settled  = [j \in Jobs |-> FALSE]

\* A terminal response, the first or a repeated one.
Conclude(j) ==
    /\ ~settled[j]
    /\ \E v \in Verdicts(j) \cup {"failed"} :
           verdicts' = [verdicts EXCEPT ![j] = @ \cup {v}]
    /\ UNCHANGED <<request, settled>>

\* The request leaves the queue.
Settle(j) ==
    /\ Verdicts(j) \cap verdicts[j] # {}
    /\ settled' = [settled EXCEPT ![j] = TRUE]
    /\ UNCHANGED <<request, verdicts>>

Next == \E j \in Jobs : Conclude(j) \/ Settle(j)

Spec == Init /\ [][Next]_vars
=============================================================================
