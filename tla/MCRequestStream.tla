--------------------------- MODULE MCRequestStream ---------------------------
(***************************************************************************)
(* Small instances of RequestStream: two replicas, a stream of two         *)
(* messages as in the code, max_concurrent scaled down from 10.            *)
(***************************************************************************)
EXTENDS RequestStream

AllFaults == FaultKind
RaiseOnly == {"raise"}
=============================================================================
