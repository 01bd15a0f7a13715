--------------------------- MODULE MCReadWriteLock ---------------------------
(* Instances of ReadWriteLock for TLC.                                     *)
EXTENDS ReadWriteLock

AnyFault == FaultKind
=============================================================================
