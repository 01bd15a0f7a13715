----------------------------- MODULE MCCrocModel -----------------------------
(* A small instance of CrocModel: a job of two files.                      *)
EXTENDS CrocModel

TwoFiles  == <<"first", "second">>
Second    == {"second"}
NoFile    == {}
AllFaults == FaultKind
NoFaults  == {}
=============================================================================
