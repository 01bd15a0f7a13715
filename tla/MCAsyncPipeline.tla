--------------------------- MODULE MCAsyncPipeline ---------------------------
(***************************************************************************)
(* Small instances of AsyncPipeline: one job, two replicas.                *)
(***************************************************************************)
EXTENDS AsyncPipeline, TLC

\* Faults of the worker after which its message is redelivered and the last
\* attempt completes.
WorkerRetries == {"crash", "shutdown", "publish", "critical", "storage", "ack"}

\* Faults that repeat an attempt, one of them beside the first, or take a
\* result away.  (A shutdown is a crash that releases the lock.)
WorkerRepeats == {"crash", "storage", "heartbeat", "critical", "ack"}

AnyGatewayFault  == {"postgres", "minio", "publish", "redis", "ack", "webhook", "restart"}
GatewayReads     == {"redis", "minio"}

\* The client may have named his file result.json.
AnyName == {None, Audio}

Symmetry == Permutations(Workers)
=============================================================================
