---------------------------- MODULE MCRequestFiles ----------------------------
(* A small instance of RequestFiles: limits of three, two jobs at a time.  *)
EXTENDS RequestFiles

P(n, k, s) == [name |-> n, kind |-> k, size |-> s]
Files(ps)     == [type |-> "files", bytes |-> 0, format |-> "zip", parts |-> ps]
Pack(b, f, ps) == [type |-> "archive", bytes |-> b, format |-> f, parts |-> ps]

TwoFiles == Files(<<P(1, "audio", 1), P(2, "audio", 1)>>)

Large    == Pack(3, "zip", <<P(1, "audio", 1)>>)                          \* archive too large

Archives == {
    Pack(1, "zip", <<P(1, "folder", 0), P(2, "nested", 1)>>),
    Pack(1, "zip", <<P(1, "nested", 1), P(2, "audio", 1)>>),
    Pack(1, "zip", <<P(1, "audio", 1), P(1, "audio", 2)>>),              \* 3 in all, 4 accumulated
    Pack(2, "tar", <<P(1, "audio", 2), P(2, "audio", 2)>>),              \* too large
    Pack(1, "tar", <<P(1, "script", 1), P(2, "link", 0), P(3, "nested", 1)>>),
    Pack(1, "tar", <<P(1, "audio", 0), P(2, "audio", 0), P(3, "audio", 0), P(4, "audio", 0)>>)}

TwoJobs   == [j1 |-> {TwoFiles} \cup Archives, j2 |-> {Large}]
JobNames  == DOMAIN TwoJobs
OneJob   == {"j1"}
=============================================================================
