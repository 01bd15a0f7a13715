--------------------------- MODULE MCSyncStreaming ---------------------------
(* Small instances of SyncStreaming.                                       *)
EXTENDS SyncStreaming

AllFaults == FaultKind
=============================================================================
