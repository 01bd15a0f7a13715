---------------------------- MODULE MCAsyncWorker ----------------------------
(* Instances of AsyncWorker for TLC: which faults are possible.            *)
EXTENDS AsyncWorker, TLC

\* Everything that can go wrong.
AnyFault == FaultKind

\* Everything but what takes a lock or a delivery away from a live handler.
RecoverableFaults == FaultKind \ {"heartbeat", "redis", "lapse", "outage"}

\* The client's file has another name than result.json, or any name.
Nothing == {None}
AnyName == {None, Audio}

Symmetry == Permutations(Workers)
=============================================================================
