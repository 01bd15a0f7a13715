-------------------------- MODULE RequestFilesProofs --------------------------
(***************************************************************************)
(* Proofs about RequestFiles, for any jobs, requests, limits and number of *)
(* threads of the executor: however long abandoned calls go on, what they  *)
(* write is never what a handler reads.                                    *)
(***************************************************************************)
EXTENDS RequestFiles, FiniteSetTheorems, TLAPS

-----------------------------------------------------------------------------
(* Numbers and names.                                                      *)

LEMMA LeastExists ==
    ASSUME NEW T \in SUBSET Nat, T # {}
    PROVE  \E x \in T : \A y \in T : x <= y
<1>. DEFINE R == {ss \in Nat \X Nat : ss[1] < ss[2]}
<1>1. IsWellFoundedOn(R, Nat)
    BY NatLessThanWellFounded DEF OpToRel
<1>2. PICK x \in T : \A y \in T : ~ (<<y, x>> \in R)
    BY <1>1, WFMin
<1>3. ASSUME NEW y \in T, y < x
      PROVE  FALSE
    <2>1. <<y, x>> \in Nat \X Nat /\ <<y, x>>[1] = y /\ <<y, x>>[2] = x
        OBVIOUS
    <2>. QED
        BY <1>2, <1>3, <2>1
<1>4. \A y \in T : x <= y
    BY <1>3
<1>. QED
    BY <1>4

LEMMA MinOfNames ==
    ASSUME NEW T \in SUBSET Nat, T # {}
    PROVE  Min(T) \in T
BY LeastExists DEF Min

LEMMA MaxOfBounded ==
    ASSUME NEW n \in Nat, NEW T \in SUBSET (0..n), T # {}
    PROVE  Max(T) \in T /\ \A i \in T : i <= Max(T)
<1>. DEFINE U == {k \in Nat : n - k \in T}
<1>1. U # {}
    <2>1. PICK i \in T : TRUE
        OBVIOUS
    <2>2. n - i \in Nat /\ n - (n - i) = i
        BY <2>1
    <2>. QED
        BY <2>1, <2>2
<1>2. Min(U) \in U
    BY <1>1, MinOfNames
<1>3. \A k \in U : Min(U) <= k
    <2>1. PICK m \in U : \A k \in U : m <= k
        BY <1>1, LeastExists
    <2>. QED
        BY <2>1 DEF Min
<1>4. n - Min(U) \in T /\ \A i \in T : n - Min(U) >= i
    <2>1. Min(U) \in Nat /\ n - Min(U) \in T
        BY <1>2
    <2>2. ASSUME NEW i \in T
          PROVE  n - Min(U) >= i
        <3>1. n - i \in Nat /\ n - (n - i) = i
            OBVIOUS
        <3>2. Min(U) <= n - i
            BY <1>3, <2>2, <3>1
        <3>. QED
            BY <2>1, <3>1, <3>2
    <2>. QED
        BY <2>1, <2>2
<1>5. \E x \in T : \A y \in T : x >= y
    BY <1>4
<1>6. Max(T) \in T /\ \A y \in T : Max(T) >= y
    BY <1>5 DEF Max
<1>. QED
    BY <1>6

\* Sets of places in a sequence have a greatest element.
LEMMA MaxOfPlaces ==
    ASSUME NEW n \in Nat, NEW T \in SUBSET (1..n), T # {}
    PROVE  Max(T) \in T /\ \A i \in T : i <= Max(T)
<1>1. T \in SUBSET (0..n)
    OBVIOUS
<1>. QED
    BY <1>1, MaxOfBounded

\* One place of a table of tables.
LEMMA Entry ==
    ASSUME NEW A, NEW B, NEW C, NEW f \in [A -> [B -> C]],
           NEW a \in A, NEW b \in B, NEW x \in C
    PROVE  /\ [f EXCEPT ![a][b] = x] \in [A -> [B -> C]]
           /\ \A c \in A, d \in B :
                 [f EXCEPT ![a][b] = x][c][d] = IF c = a /\ d = b THEN x ELSE f[c][d]
<1>. DEFINE g == [f[a] EXCEPT ![b] = x]
<1>1. g \in [B -> C] /\ \A d \in B : g[d] = IF d = b THEN x ELSE f[a][d]
    OBVIOUS
<1>2. [f EXCEPT ![a][b] = x] = [f EXCEPT ![a] = g]
    OBVIOUS
<1>3. /\ [f EXCEPT ![a] = g] \in [A -> [B -> C]]
      /\ \A c \in A : [f EXCEPT ![a] = g][c] = IF c = a THEN g ELSE f[c]
    BY <1>1
<1>. QED
    BY <1>1, <1>2, <1>3

\* What a request is.
LEMMA RequestOf ==
    ASSUME NEW j \in Job, request[j] \in Inputs[j]
    PROVE  /\ request[j].type \in {"files", "archive"}
           /\ request[j].format \in {"zip", "tar", "rar"}
           /\ request[j].parts \in Seq(Part)
           /\ Names(request[j]) \subseteq Name \ {Archive}
           /\ \A i \in DOMAIN request[j].parts :
                 /\ request[j].parts[i].name \in Names(request[j])
                 /\ request[j].parts[i].kind \in MemberKind
<1>1. IsRequest(request[j])
    BY FilesAssumption
<1>2. /\ request[j].type \in {"files", "archive"} /\ request[j].format \in {"zip", "tar", "rar"}
      /\ request[j].parts \in Seq(Part)
    BY <1>1 DEF IsRequest
<1>3. \A i \in DOMAIN request[j].parts : request[j].parts[i] \in Part
    BY <1>2
<1>4. \A i \in DOMAIN request[j].parts :
         /\ request[j].parts[i].name \in Nat \ {0}
         /\ request[j].parts[i].kind \in MemberKind
    BY <1>3 DEF Part
<1>5. Names(request[j]) \subseteq Name /\ 0 \notin Names(request[j])
    BY <1>4, FilesAssumption DEF Name, Names
<1>. QED
    BY <1>2, <1>4, <1>5 DEF Names, Archive

LEMMA NamesAreNumbers == Name \subseteq Nat /\ Archive \in Name
<1>1. ASSUME NEW j \in Job, NEW q \in Inputs[j]
      PROVE  Names(q) \subseteq Nat
    <2>1. q.parts \in Seq(Part)
        BY FilesAssumption DEF IsRequest
    <2>2. \A i \in DOMAIN q.parts : q.parts[i] \in Part
        BY <2>1
    <2>3. \A i \in DOMAIN q.parts : q.parts[i].name \in Nat
        BY <2>2 DEF Part
    <2>. QED
        BY <2>3 DEF Names
<1>. QED
    BY <1>1 DEF Name, Archive

-----------------------------------------------------------------------------
(* Threads.                                                                *)

SameCall(t, u) == u.job = t.job /\ u.call = t.call /\ u.file = t.file

LEMMA ThreadFields ==
    ASSUME NEW t \in Thread
    PROVE  /\ t.job \in Job /\ t.call \in Call /\ t.file \in Name
           /\ t.running \in BOOLEAN /\ t.left \in SUBSET Job
           /\ t.doomed \in SUBSET Job /\ t.step \in Nat
BY DEF Thread

LEMMA ThreadRuns ==
    ASSUME NEW t \in Thread
    PROVE  /\ [t EXCEPT !.running = TRUE] \in Thread /\ SameCall(t, [t EXCEPT !.running = TRUE])
           /\ [t EXCEPT !.running = TRUE].doomed = t.doomed
           /\ [t EXCEPT !.running = TRUE].step = t.step
BY DEF Thread, SameCall

LEMMA ThreadSweeps ==
    ASSUME NEW t \in Thread, NEW l \in SUBSET Job, NEW d \in SUBSET Job
    PROVE  /\ [t EXCEPT !.left = l, !.doomed = d] \in Thread
           /\ SameCall(t, [t EXCEPT !.left = l, !.doomed = d])
           /\ [t EXCEPT !.left = l, !.doomed = d].doomed = d
           /\ [t EXCEPT !.left = l, !.doomed = d].step = t.step
BY DEF Thread, SameCall

LEMMA ThreadSwept ==
    ASSUME NEW t \in Thread
    PROVE  /\ [t EXCEPT !.doomed = {}] \in Thread /\ SameCall(t, [t EXCEPT !.doomed = {}])
           /\ [t EXCEPT !.doomed = {}].doomed = {}
           /\ [t EXCEPT !.doomed = {}].step = t.step
BY DEF Thread, SameCall

LEMMA ThreadGoesOn ==
    ASSUME NEW t \in Thread, NEW n \in Nat
    PROVE  /\ [t EXCEPT !.step = n] \in Thread /\ SameCall(t, [t EXCEPT !.step = n])
           /\ [t EXCEPT !.step = n].doomed = t.doomed
           /\ [t EXCEPT !.step = n].step = n
BY DEF Thread, SameCall

-----------------------------------------------------------------------------
(* Type correctness.                                                       *)

HandlersTyped ==
    /\ pc \in [Job -> Call \cup Over \cup
                   {"new", "prepare", "fetch", "unpack", "list", "transcribe", "converted"}]
    /\ at \in [Job -> Name]
    /\ paths \in [Job -> SUBSET Name]
    /\ errors \in [Job -> SUBSET Name]
    /\ outcome \in [Job -> [Name -> {"none", "audio", "stub", "text", "cut", "error"}]]

LEMMA ResultTyped ==
    ASSUME HandlersTyped, NEW j \in Job, NEW f \in Name,
           NEW r \in {"none", "audio", "stub", "text", "cut", "error"}, Result(j, f, r)
    PROVE  /\ outcome' \in [Job -> [Name -> {"none", "audio", "stub", "text", "cut", "error"}]]
           /\ \A k \in Job, g \in Name :
                 outcome'[k][g] = IF k = j /\ g = f THEN r ELSE outcome[k][g]
<1>1. /\ outcome \in [Job -> [Name -> {"none", "audio", "stub", "text", "cut", "error"}]]
      /\ outcome' = [outcome EXCEPT ![j][f] = r]
    BY DEF HandlersTyped, Result
<1>. QED
    BY <1>1, Entry

\* What the return of a call does to its handler.
LEMMA ResumeTyped ==
    ASSUME HandlersTyped, NEW j \in Job, NEW ok \in BOOLEAN, Resume(j, ok)
    PROVE  HandlersTyped'
<1>. DEFINE f == at[j]
<1>1. f \in Name /\ at' = at
    BY DEF HandlersTyped, Resume
<1>. HIDE DEF f
<1>2. CASE pc[j] \in {"sweep", "download", "extract"}
    <2>1. /\ outcome' = outcome
          /\ \E l \in {"prepare", "fetch", "unpack", "transcribe", "list"} : Goto(j, l)
          /\ paths' \in {paths, [paths EXCEPT ![j] = @ \cup {f}]}
          /\ errors' \in {errors, [errors EXCEPT ![j] = @ \cup {f}],
                          [errors EXCEPT ![j] = @ \cup {Archive}]}
        BY <1>2 DEF Resume, Fails, f
    <2>2. paths' \in [Job -> SUBSET Name]
        BY <1>1, <2>1 DEF HandlersTyped
    <2>3. errors' \in [Job -> SUBSET Name]
        BY <1>1, <2>1, NamesAreNumbers DEF HandlersTyped
    <2>4. pc' \in [Job -> Call \cup Over \cup
                     {"new", "prepare", "fetch", "unpack", "list", "transcribe", "converted"}]
        BY <2>1 DEF HandlersTyped, Goto
    <2>. QED
        BY <1>1, <2>1, <2>2, <2>3, <2>4 DEF HandlersTyped
<1>3. CASE pc[j] = "convert"
    <2>1. /\ UNCHANGED <<paths, errors>>
          /\ \E l \in {"converted", "transcribe"} : Goto(j, l)
          /\ \E r \in {"audio", "stub", "error"} : Result(j, f, r)
        BY <1>3 DEF Resume, f
    <2>2. outcome' \in [Job -> [Name -> {"none", "audio", "stub", "text", "cut", "error"}]]
        BY <1>1, <2>1, ResultTyped
    <2>3. pc' \in [Job -> Call \cup Over \cup
                     {"new", "prepare", "fetch", "unpack", "list", "transcribe", "converted"}]
        BY <2>1 DEF HandlersTyped, Goto
    <2>. QED
        BY <1>1, <2>1, <2>2, <2>3 DEF HandlersTyped
<1>. QED
    BY <1>2, <1>3 DEF Resume

LEMMA ReturnTyped ==
    ASSUME HandlersTyped, threads \subseteq Thread, NEW t \in threads,
           NEW ok \in BOOLEAN, Return(t, ok)
    PROVE  HandlersTyped' /\ threads' \subseteq Thread
<1>1. threads' \subseteq Thread /\ t.job \in Job
    BY ThreadFields DEF Return
<1>2. CASE Awaited(t)
    BY <1>1, <1>2, ResumeTyped DEF Return
<1>3. CASE ~Awaited(t)
    BY <1>1, <1>3 DEF Return, handlers, HandlersTyped
<1>. QED
    BY <1>1, <1>2, <1>3

LEMMA BecomesTyped ==
    ASSUME HandlersTyped, threads \subseteq Thread, NEW t \in threads, NEW u \in Thread,
           Becomes(t, u)
    PROVE  HandlersTyped' /\ threads' \subseteq Thread
BY DEF Becomes, handlers, HandlersTyped

\* The thread that a handler starts.
LEMMA AwaitTyped ==
    ASSUME HandlersTyped, threads \subseteq Thread, UNCHANGED <<paths, errors, outcome>>,
           NEW j \in Job, NEW call \in Call, NEW f \in Name, Await(j, call, f)
    PROVE  /\ HandlersTyped' /\ threads' \subseteq Thread
           /\ \E u \in Thread : /\ threads' = threads \cup {u} /\ u.step = 0 /\ u.doomed = {}
                                /\ u.job = j /\ u.call = call /\ u.file = f
<1>. DEFINE b == Cardinality(Running) < Workers
            l == {k \in Job : dir[k] # "none"}
<1>1. b \in BOOLEAN
    OBVIOUS
<1>2. l \in SUBSET Job
    OBVIOUS
<1>. DEFINE u == [job |-> j, call |-> call, file |-> f, running |-> b,
                  left |-> l, doomed |-> {}, step |-> 0]
<1>3. threads' = threads \cup {u} /\ pc' = [pc EXCEPT ![j] = call] /\ at' = [at EXCEPT ![j] = f]
    BY DEF Await
<1>. HIDE DEF b, l
<1>4. u \in Thread
    BY <1>1, <1>2 DEF Thread
<1>5. HandlersTyped'
    BY <1>3 DEF HandlersTyped
<1>. QED
    BY <1>3, <1>4, <1>5

DiskTyped ==
    /\ dir \in [Job -> {"none", "fresh", "old"}]
    /\ disk \in [Job -> [Name -> {"none", "partial", "whole"}]]
    /\ met \in [Job -> SUBSET {"slow", "swept"}]

LEMMA TypeParts ==
    TypeOK <=> /\ \A j \in Job : request[j] \in Inputs[j]
               /\ HandlersTyped /\ DiskTyped /\ threads \subseteq Thread
BY DEF TypeOK, HandlersTyped, DiskTyped

LEMMA TypeRemains ==
    ASSUME \A j \in Job : request'[j] \in Inputs[j],
           HandlersTyped', DiskTyped', threads' \subseteq Thread
    PROVE  TypeOK'
BY DEF TypeOK, HandlersTyped, DiskTyped

LEMMA TypeInit == Init => TypeOK
<1>. SUFFICES ASSUME Init
              PROVE  TypeOK
    OBVIOUS
<1>. USE DEF Init
<1>1. HandlersTyped
    BY NamesAreNumbers DEF HandlersTyped
<1>2. DiskTyped
    <2>1. [f \in Name |-> "none"] \in [Name -> {"none", "partial", "whole"}]
        OBVIOUS
    <2>. QED
        BY <2>1 DEF DiskTyped
<1>. QED
    BY <1>1, <1>2, TypeParts

\* What each step of a thread writes.
LEMMA SweepRemoveWrites ==
    ASSUME TypeOK, NEW t \in threads, SweepRemove(t)
    PROVE  /\ DiskTyped'
           /\ \E k \in t.doomed : \A i \in Job :
                 /\ i # k => dir'[i] = dir[i] /\ disk'[i] = disk[i]
                 /\ \A f \in Name : disk'[i][f] \in {disk[i][f], "none"}
<1>1. t \in Thread /\ DiskTyped
    BY TypeParts
<1>2. PICK k \in t.doomed :
         LET there == {f \in Name : disk[k][f] # "none"} IN
         \E gone \in SUBSET there :
           /\ disk' = [disk EXCEPT ![k] =
                         [f \in Name |-> IF f \in gone THEN "none" ELSE @[f]]]
           /\ dir' = [dir EXCEPT ![k] = IF gone = there THEN "none" ELSE "fresh"]
    BY DEF SweepRemove
<1>3. PICK gone :
         /\ disk' = [disk EXCEPT ![k] = [f \in Name |-> IF f \in gone THEN "none" ELSE @[f]]]
         /\ dir' \in {[dir EXCEPT ![k] = "none"], [dir EXCEPT ![k] = "fresh"]}
    BY <1>2
<1>4. k \in Job
    BY <1>1, ThreadFields
<1>. DEFINE new == [f \in Name |-> IF f \in gone THEN "none" ELSE disk[k][f]]
<1>5. /\ new \in [Name -> {"none", "partial", "whole"}]
      /\ \A f \in Name : new[f] \in {disk[k][f], "none"}
    BY <1>1, <1>4 DEF DiskTyped
<1>6. disk' = [disk EXCEPT ![k] = new]
    BY <1>1, <1>3, <1>4 DEF DiskTyped
<1>. HIDE DEF new
<1>7. disk' \in [Job -> [Name -> {"none", "partial", "whole"}]]
    BY <1>1, <1>4, <1>5, <1>6 DEF DiskTyped
<1>8. dir' \in [Job -> {"none", "fresh", "old"}] /\ met' = met
    BY <1>1, <1>3, <1>4 DEF DiskTyped, SweepRemove
<1>9. \A i \in Job :
         /\ i # k => dir'[i] = dir[i] /\ disk'[i] = disk[i]
         /\ \A f \in Name : disk'[i][f] \in {disk[i][f], "none"}
    BY <1>1, <1>3, <1>4, <1>5, <1>6 DEF DiskTyped
<1>. QED
    BY <1>1, <1>7, <1>8, <1>9 DEF DiskTyped

LEMMA OpenFilesWrites ==
    ASSUME TypeOK, NEW t \in threads, OpenFiles(t)
    PROVE  /\ DiskTyped'
           /\ \/ Return(t, FALSE) /\ UNCHANGED files
              \/ /\ dir[t.job] # "none" /\ dir' = [dir EXCEPT ![t.job] = "fresh"]
                 /\ \A k \in Job, g \in Name :
                       disk'[k][g] = IF k = t.job /\ g = t.file THEN "partial" ELSE disk[k][g]
                 /\ Becomes(t, [t EXCEPT !.step = 1])
<1>1. t.job \in Job /\ t.file \in Name /\ DiskTyped
    BY TypeParts, ThreadFields
<1>2. met' = met
    BY DEF OpenFiles
<1>3. CASE Return(t, FALSE) /\ UNCHANGED files
    BY <1>1, <1>2, <1>3 DEF files, DiskTyped
<1>4. CASE /\ dir[t.job] # "none"
           /\ disk' = [disk EXCEPT ![t.job][t.file] = "partial"]
           /\ dir' = [dir EXCEPT ![t.job] = "fresh"]
           /\ Becomes(t, [t EXCEPT !.step = 1])
    <2>1. /\ disk' \in [Job -> [Name -> {"none", "partial", "whole"}]]
          /\ \A k \in Job, g \in Name :
                disk'[k][g] = IF k = t.job /\ g = t.file THEN "partial" ELSE disk[k][g]
        <3>1. /\ disk \in [Job -> [Name -> {"none", "partial", "whole"}]]
              /\ disk' = [disk EXCEPT ![t.job][t.file] = "partial"]
              /\ "partial" \in {"none", "partial", "whole"}
            BY <1>1, <1>4 DEF DiskTyped
        <3>. QED
            BY <1>1, <3>1, Entry
    <2>2. dir' \in [Job -> {"none", "fresh", "old"}]
        BY <1>1, <1>4 DEF DiskTyped
    <2>. QED
        BY <1>1, <1>2, <1>4, <2>1, <2>2 DEF DiskTyped
<1>. QED
    BY <1>3, <1>4 DEF OpenFiles

LEMMA CopyFileWrites ==
    ASSUME TypeOK, NEW t \in threads, CopyFile(t)
    PROVE  /\ DiskTyped' /\ dir' = dir
           /\ \/ Return(t, FALSE) /\ UNCHANGED disk
              \/ /\ Return(t, TRUE)
                 /\ \A k \in Job, g \in Name :
                       disk'[k][g] = IF k = t.job /\ g = t.file /\ disk[k][g] # "none"
                                     THEN "whole" ELSE disk[k][g]
<1>1. t.job \in Job /\ t.file \in Name /\ DiskTyped
    BY TypeParts, ThreadFields
<1>2. met' = met /\ dir' = dir
    BY DEF CopyFile
<1>3. CASE Return(t, FALSE) /\ UNCHANGED disk
    BY <1>1, <1>2, <1>3 DEF DiskTyped
<1>4. CASE /\ Return(t, TRUE)
           /\ disk' = [disk EXCEPT ![t.job][t.file] = IF @ = "none" THEN @ ELSE "whole"]
    <2>. DEFINE x == IF disk[t.job][t.file] = "none" THEN "none" ELSE "whole"
    <2>1. disk' = [disk EXCEPT ![t.job][t.file] = x]
        BY <1>1, <1>4 DEF DiskTyped
    <2>2. x \in {"none", "partial", "whole"}
        OBVIOUS
    <2>3. x = IF disk[t.job][t.file] = "none" THEN "none" ELSE "whole"
        OBVIOUS
    <2>. HIDE DEF x
    <2>4. /\ disk' \in [Job -> [Name -> {"none", "partial", "whole"}]]
          /\ \A k \in Job, g \in Name :
                disk'[k][g] = IF k = t.job /\ g = t.file THEN x ELSE disk[k][g]
        <3>1. disk \in [Job -> [Name -> {"none", "partial", "whole"}]]
            BY <1>1 DEF DiskTyped
        <3>. QED
            BY <1>1, <2>1, <2>2, <3>1, Entry
    <2>. QED
        BY <1>1, <1>2, <1>4, <2>3, <2>4 DEF DiskTyped
<1>. QED
    BY <1>2, <1>3, <1>4 DEF CopyFile

LEMMA ExtractMemberWrites ==
    ASSUME TypeOK, NEW t \in threads, ExtractMember(t)
    PROVE  /\ DiskTyped' /\ t.call = "extract"
           /\ t.step \in DOMAIN request[t.job].parts
           /\ \/ Return(t, FALSE) /\ UNCHANGED files
              \/ /\ Becomes(t, [t EXCEPT !.step = t.step + 1])
                 /\ \A k \in Job : dir'[k] = dir[k] \/ (dir[k] = "none" /\ dir'[k] = "fresh")
                 /\ LET p == request[t.job].parts[t.step] IN
                    \A k \in Job, g \in Name :
                       disk'[k][g] = IF k = t.job /\ g = p.name /\ Writes(request[t.job], p)
                                     THEN "whole" ELSE disk[k][g]
<1>. DEFINE j == t.job
            q == request[j]
            p == q.parts[t.step]
<1>1. t.job \in Job /\ DiskTyped /\ request[j] \in Inputs[j]
    BY TypeParts, ThreadFields
<1>2. t.call = "extract" /\ t.step \in DOMAIN q.parts /\ met' = met
    BY DEF ExtractMember
<1>3. p.name \in Name
    BY <1>1, <1>2, RequestOf
<1>4. CASE Return(t, FALSE) /\ UNCHANGED files
    BY <1>1, <1>2, <1>4 DEF files, DiskTyped
<1>5. CASE /\ dir' = [dir EXCEPT ![j] = IF Creates(q, p) /\ @ = "none" THEN "fresh" ELSE @]
           /\ disk' = [disk EXCEPT ![j][p.name] = IF Writes(q, p) THEN "whole" ELSE @]
           /\ Becomes(t, [t EXCEPT !.step = @ + 1])
    <2>. DEFINE x == IF Writes(q, p) THEN "whole" ELSE disk[j][p.name]
    <2>1. disk' = [disk EXCEPT ![j][p.name] = x]
        BY <1>1, <1>3, <1>5 DEF DiskTyped
    <2>2. x \in {"none", "partial", "whole"}
        BY <1>1, <1>3 DEF DiskTyped
    <2>3. x = IF Writes(q, p) THEN "whole" ELSE disk[j][p.name]
        OBVIOUS
    <2>. HIDE DEF x
    <2>4. /\ disk' \in [Job -> [Name -> {"none", "partial", "whole"}]]
          /\ \A k \in Job, g \in Name :
                disk'[k][g] = IF k = j /\ g = p.name THEN x ELSE disk[k][g]
        <3>1. disk \in [Job -> [Name -> {"none", "partial", "whole"}]]
            BY <1>1 DEF DiskTyped
        <3>. QED
            BY <1>1, <1>3, <2>1, <2>2, <3>1, Entry
    <2>5. /\ dir' \in [Job -> {"none", "fresh", "old"}]
          /\ \A k \in Job : dir'[k] = dir[k] \/ (dir[k] = "none" /\ dir'[k] = "fresh")
        BY <1>1, <1>5 DEF DiskTyped
    <2>6. \A k \in Job, g \in Name :
             disk'[k][g] = IF k = j /\ g = p.name /\ Writes(q, p) THEN "whole" ELSE disk[k][g]
        BY <2>3, <2>4
    <2>7. Becomes(t, [t EXCEPT !.step = t.step + 1])
        BY <1>5
    <2>. QED
        BY <1>1, <1>2, <2>4, <2>5, <2>6, <2>7 DEF DiskTyped
<1>. QED
    BY <1>2, <1>4, <1>5 DEF ExtractMember

LEMMA ToFetchNames ==
    ASSUME TypeOK, NEW j \in Job, ToFetch(j) # {}
    PROVE  Min(ToFetch(j)) \in ToFetch(j) /\ Min(ToFetch(j)) \in Name
<1>1. ToFetch(j) \subseteq Name
    BY TypeParts, RequestOf, NamesAreNumbers DEF ToFetch
<1>2. ToFetch(j) \in SUBSET Nat
    BY <1>1, NamesAreNumbers
<1>. QED
    BY <1>1, <1>2, MinOfNames

LEMMA ToTranscribeNames ==
    ASSUME TypeOK, NEW j \in Job, ToTranscribe(j) # {}
    PROVE  /\ Min(ToTranscribe(j)) \in Name /\ Min(ToTranscribe(j)) \in paths[j]
           /\ outcome[j][Min(ToTranscribe(j))] = "none"
<1>1. ToTranscribe(j) \subseteq Name
    BY TypeParts DEF ToTranscribe, HandlersTyped
<1>2. ToTranscribe(j) \in SUBSET Nat
    BY <1>1, NamesAreNumbers
<1>3. Min(ToTranscribe(j)) \in ToTranscribe(j)
    BY <1>2, MinOfNames
<1>. QED
    BY <1>1, <1>3 DEF ToTranscribe

LEMMA HandlerTypes ==
    ASSUME TypeOK, NEW j \in Job, Begin(j) \/ Proceed(j) \/ Age(j)
    PROVE  TypeOK'
<1>1. HandlersTyped /\ DiskTyped /\ threads \subseteq Thread /\ request' = request
    BY TypeParts DEF Begin, Proceed, Age, Prepare, Fetch, Unpack, ListFiles, Transcribe, AskModel,
                     Answer, Timeout
<1>2. \A k \in Job : request'[k] \in Inputs[k]
    BY <1>1, TypeParts
<1>3. CASE Begin(j)
    <2>1. HandlersTyped' /\ threads' \subseteq Thread
        BY <1>1, <1>3, NamesAreNumbers, AwaitTyped DEF Begin, Call
    <2>2. DiskTyped'
        BY <1>1, <1>3 DEF Begin, files, DiskTyped
    <2>. QED
        BY <1>2, <2>1, <2>2, TypeRemains
<1>4. CASE Prepare(j)
    <2>1. HandlersTyped'
        BY <1>1, <1>4 DEF Prepare, HandlersTyped, Goto
    <2>2. DiskTyped' /\ threads' = threads
        BY <1>1, <1>4 DEF Prepare, DiskTyped
    <2>. QED
        BY <1>1, <1>2, <2>1, <2>2, TypeRemains
<1>5. CASE Fetch(j)
    <2>1. DiskTyped'
        BY <1>1, <1>5 DEF Fetch, files, DiskTyped
    <2>2. CASE ToFetch(j) = {}
        BY <1>1, <1>2, <1>5, <2>1, <2>2, TypeRemains DEF Fetch, Goto, HandlersTyped
    <2>3. CASE ToFetch(j) # {}
        <3>1. HandlersTyped' /\ threads' \subseteq Thread
            BY <1>1, <1>5, <2>3, ToFetchNames, AwaitTyped DEF Fetch, Call
        <3>. QED
            BY <1>2, <2>1, <3>1, TypeRemains
    <2>. QED
        BY <2>2, <2>3
<1>6. CASE Unpack(j)
    <2>1. DiskTyped'
        BY <1>1, <1>6 DEF Unpack, DiskTyped
    <2>2. CASE Await(j, "extract", Archive) /\ UNCHANGED errors
        <3>1. HandlersTyped' /\ threads' \subseteq Thread
            BY <1>1, <1>6, <2>2, NamesAreNumbers, AwaitTyped DEF Unpack, Call
        <3>. QED
            BY <1>2, <2>1, <3>1, TypeRemains
    <2>3. CASE ~(Await(j, "extract", Archive) /\ UNCHANGED errors)
        <3>1. HandlersTyped'
            BY <1>1, <1>6, <2>3, NamesAreNumbers DEF Unpack, Goto, Fails, HandlersTyped, Over
        <3>2. threads' = threads
            BY <1>6, <2>3 DEF Unpack
        <3>. QED
            BY <1>1, <1>2, <2>1, <3>1, <3>2, TypeRemains
    <2>. QED
        BY <2>2, <2>3
<1>7. CASE ListFiles(j)
    <2>1. DiskTyped' /\ threads' = threads
        BY <1>1, <1>7 DEF ListFiles, files, DiskTyped
    <2>2. Names(request[j]) \subseteq Name
        BY TypeParts, RequestOf
    <2>3. UNCHANGED <<at, outcome>> /\ \E l \in {"raised", "transcribe"} : Goto(j, l)
        BY <1>7 DEF ListFiles
    <2>4. /\ \E x \in SUBSET Name : paths' = [paths EXCEPT ![j] = x]
          /\ \E x \in SUBSET Name : errors' = [errors EXCEPT ![j] = @ \cup x]
        <3>. DEFINE found == {f \in Names(request[j]) :
                                disk[j][f] # "none" /\ Listed(Last(request[j], f).kind)}
                    scripts == {f \in found : Last(request[j], f).kind = "script"}
        <3>1. found \ scripts \in SUBSET Name /\ scripts \in SUBSET Name
            BY <2>2
        <3>. HIDE DEF found, scripts
        <3>2. CASE dir[j] = "none"
            <4>1. UNCHANGED <<paths, errors>>
                BY <1>7, <3>2 DEF ListFiles
            <4>2. /\ paths = [paths EXCEPT ![j] = paths[j]] /\ paths[j] \in SUBSET Name
                  /\ errors = [errors EXCEPT ![j] = errors[j] \cup {}]
                BY <1>1 DEF HandlersTyped
            <4>3. {} \in SUBSET Name
                OBVIOUS
            <4>. QED
                BY <4>1, <4>2, <4>3
        <3>3. CASE dir[j] # "none"
            <4>1. /\ paths' = [paths EXCEPT ![j] = found \ scripts]
                  /\ errors' = [errors EXCEPT ![j] = @ \cup scripts]
                BY <1>7, <3>3 DEF ListFiles, found, scripts
            <4>. QED
                BY <3>1, <4>1
        <3>. QED
            BY <3>2, <3>3
    <2>5. paths' \in [Job -> SUBSET Name]
        BY <1>1, <2>4 DEF HandlersTyped
    <2>6. errors' \in [Job -> SUBSET Name]
        BY <1>1, <2>4 DEF HandlersTyped
    <2>7. HandlersTyped'
        BY <1>1, <2>3, <2>5, <2>6 DEF HandlersTyped, Goto, Over
    <2>. QED
        BY <1>1, <1>2, <2>1, <2>7, TypeRemains
<1>8. CASE Transcribe(j)
    <2>1. HandlersTyped' /\ threads' \subseteq Thread
        BY <1>1, <1>8, ToTranscribeNames, AwaitTyped DEF Transcribe, Call
    <2>2. DiskTyped'
        BY <1>1, <1>8 DEF Transcribe, files, DiskTyped
    <2>. QED
        BY <1>2, <2>1, <2>2, TypeRemains
<1>9. CASE AskModel(j)
    <2>1. at[j] \in Name
        BY <1>1 DEF HandlersTyped
    <2>2. /\ \E r \in {"text", "cut", "error"} : Result(j, at[j], r)
          /\ UNCHANGED <<at, paths, errors, threads>> /\ Goto(j, "transcribe")
        BY <1>9 DEF AskModel
    <2>3. outcome' \in [Job -> [Name -> {"none", "audio", "stub", "text", "cut", "error"}]]
        BY <1>1, <2>1, <2>2, ResultTyped
    <2>4. HandlersTyped'
        BY <1>1, <2>2, <2>3 DEF HandlersTyped, Goto
    <2>5. DiskTyped'
        BY <1>1, <1>9 DEF AskModel, files, DiskTyped
    <2>. QED
        BY <1>1, <1>2, <2>2, <2>4, <2>5, TypeRemains
<1>10. CASE Answer(j)
    <2>1. HandlersTyped'
        BY <1>1, <1>10 DEF Answer, Goto, HandlersTyped, Over
    <2>2. DiskTyped' /\ threads' = threads
        BY <1>1, <1>10 DEF Answer, files, DiskTyped
    <2>. QED
        BY <1>1, <1>2, <2>1, <2>2, TypeRemains
<1>11. CASE Timeout(j)
    <2>1. HandlersTyped'
        BY <1>1, <1>11, ResumeTyped DEF Timeout
    <2>2. DiskTyped' /\ threads' \subseteq Thread
        BY <1>1, <1>11 DEF Timeout, files, DiskTyped
    <2>. QED
        BY <1>2, <2>1, <2>2, TypeRemains
<1>12. CASE Age(j)
    <2>1. HandlersTyped' /\ threads' = threads
        BY <1>1, <1>12 DEF Age, handlers, HandlersTyped
    <2>2. DiskTyped'
        BY <1>1, <1>12 DEF Age, DiskTyped
    <2>. QED
        BY <1>1, <1>2, <2>1, <2>2, TypeRemains
<1>. QED
    BY <1>3, <1>4, <1>5, <1>6, <1>7, <1>8, <1>9, <1>10, <1>11, <1>12 DEF Proceed

\* What a step of a thread is: it goes on, and its handler does not notice,
\* or it returns.
LEMMA ThreadMoves ==
    ASSUME TypeOK, NEW t \in threads, InThread(t)
    PROVE  /\ request' = request
           /\ \/ \E u \in Thread : /\ Becomes(t, u) /\ SameCall(t, u)
                                   /\ u.step # t.step => t.call \in {"download", "extract"}
              \/ \E ok \in BOOLEAN : Return(t, ok)
<1>1. t \in Thread
    BY TypeParts
<1>2. request' = request
    BY DEF InThread, Run, SweepStat, SweepRemove, SweepEnd, OpenFiles, CopyFile, OpenArchive,
           ExtractMember, ExtractEnd, Convert
<1>. DEFINE GoesOn == \E u \in Thread : /\ Becomes(t, u) /\ SameCall(t, u)
                                        /\ u.step # t.step => t.call \in {"download", "extract"}
            Returns == \E ok \in BOOLEAN : Return(t, ok)
<1>3. CASE Run(t)
    <2>1. Becomes(t, [t EXCEPT !.running = TRUE])
        BY <1>3 DEF Run, Becomes
    <2>. QED
        BY <1>1, <1>2, <2>1, ThreadRuns
<1>4. CASE SweepStat(t)
    <2>1. PICK k \in t.left :
             Becomes(t, [t EXCEPT !.left = @ \ {k}, !.doomed = IF dir[k] = "old" THEN {k} ELSE {}])
        BY <1>4 DEF SweepStat
    <2>. DEFINE l == t.left \ {k}
                d == IF dir[k] = "old" THEN {k} ELSE {}
    <2>2. k \in Job /\ l \in SUBSET Job
        BY <1>1, ThreadFields
    <2>3. d \in SUBSET Job
        BY <2>2
    <2>4. Becomes(t, [t EXCEPT !.left = l, !.doomed = d])
        BY <2>1
    <2>. HIDE DEF l, d
    <2>5. /\ [t EXCEPT !.left = l, !.doomed = d] \in Thread
          /\ SameCall(t, [t EXCEPT !.left = l, !.doomed = d])
          /\ [t EXCEPT !.left = l, !.doomed = d].step = t.step
        BY <1>1, <2>2, <2>3, ThreadSweeps
    <2>. QED
        BY <1>2, <2>4, <2>5
<1>5. CASE SweepRemove(t)
    <2>1. Becomes(t, [t EXCEPT !.doomed = {}])
        BY <1>5 DEF SweepRemove
    <2>. QED
        BY <1>1, <1>2, <2>1, ThreadSwept
<1>6. CASE OpenFiles(t)
    <2>1. Return(t, FALSE) \/ Becomes(t, [t EXCEPT !.step = 1])
        BY <1>6 DEF OpenFiles
    <2>2. t.call = "download"
        BY <1>6 DEF OpenFiles
    <2>. QED
        BY <1>1, <1>2, <2>1, <2>2, ThreadGoesOn
<1>7. CASE OpenArchive(t)
    <2>1. Return(t, FALSE) \/ Becomes(t, [t EXCEPT !.step = 1])
        BY <1>7 DEF OpenArchive
    <2>2. t.call = "extract"
        BY <1>7 DEF OpenArchive
    <2>. QED
        BY <1>1, <1>2, <2>1, <2>2, ThreadGoesOn
<1>8. CASE ExtractMember(t)
    <2>1. /\ Return(t, FALSE) \/ Becomes(t, [t EXCEPT !.step = t.step + 1])
          /\ t.call = "extract"
        BY <1>8, ExtractMemberWrites
    <2>2. t.step + 1 \in Nat
        BY <1>1, ThreadFields
    <2>. QED
        BY <1>1, <1>2, <2>1, <2>2, ThreadGoesOn
<1>9. CASE SweepEnd(t) \/ CopyFile(t) \/ ExtractEnd(t) \/ Convert(t)
    <2>1. Return(t, TRUE) \/ Return(t, FALSE)
        BY <1>9 DEF SweepEnd, CopyFile, ExtractEnd, Convert
    <2>. QED
        BY <1>2, <2>1
<1>. QED
    BY <1>3, <1>4, <1>5, <1>6, <1>7, <1>8, <1>9 DEF InThread

LEMMA ThreadTypes ==
    ASSUME TypeOK, NEW t \in threads, InThread(t)
    PROVE  TypeOK'
<1>1. HandlersTyped' /\ threads' \subseteq Thread /\ request' = request
    <2>1. HandlersTyped /\ threads \subseteq Thread
        BY TypeParts
    <2>. QED
        BY <2>1, ThreadMoves, BecomesTyped, ReturnTyped
<1>2. DiskTyped'
    <2>1. CASE UNCHANGED <<files, met>>
        BY <2>1, TypeParts DEF DiskTyped, files
    <2>2. CASE SweepRemove(t) \/ OpenFiles(t) \/ CopyFile(t) \/ ExtractMember(t)
        BY <2>2, SweepRemoveWrites, OpenFilesWrites, CopyFileWrites, ExtractMemberWrites
    <2>3. CASE \/ Run(t) \/ SweepStat(t) \/ SweepEnd(t) \/ OpenArchive(t) \/ ExtractEnd(t)
               \/ Convert(t)
        BY <2>1, <2>3 DEF Run, SweepStat, SweepEnd, OpenArchive, ExtractEnd, Convert
    <2>. QED
        BY <2>2, <2>3 DEF InThread
<1>3. \A k \in Job : request'[k] \in Inputs[k]
    BY <1>1, TypeParts
<1>. QED
    BY <1>1, <1>2, <1>3, TypeRemains

LEMMA TypeStep == TypeOK /\ [Next]_filesVars => TypeOK'
<1>. SUFFICES ASSUME TypeOK, [Next]_filesVars
              PROVE  TypeOK'
    OBVIOUS
<1>1. CASE UNCHANGED filesVars
    BY <1>1 DEF filesVars, handlers, files, TypeOK
<1>. QED
    BY <1>1, HandlerTypes, ThreadTypes DEF Next

\* Every variable keeps its type, the calls abandoned in the executor
\* included (utils.py, run_with_timeout).
THEOREM FilesTyped == Spec => []TypeOK
BY TypeInit, TypeStep, PTL DEF Spec

-----------------------------------------------------------------------------
(***************************************************************************)
(* The inductive invariant.  A handler's files, results and errors fit the *)
(* place it has reached and the kind of its request (Results, ListRequest, *)
(* ArchiveRequest).  A file has one call of a kind (OneEach), which is     *)
(* either waited for or given up, and a file whose call was given up is    *)
(* never used (ThreadOK); so what is used is not half written (DiskOK).    *)
(* As long as its directory is neither old nor being swept, everything the *)
(* handler counts on is there (StayOK).                                    *)
(***************************************************************************)
Early == {"new", "sweep", "prepare"}
Late  == {"transcribe", "convert", "converted", "answered"}

Results(j) ==
    /\ paths[j] \subseteq Names(request[j]) /\ paths[j] \cap errors[j] = {}
    /\ \A f \in Name :
         /\ outcome[j][f] # "none" => f \in paths[j]
         /\ outcome[j][f] \notin {"stub", "cut"}
         /\ outcome[j][f] = "audio" => pc[j] = "converted" /\ at[j] = f
    /\ pc[j] = "convert" => at[j] \in paths[j] /\ outcome[j][at[j]] = "none"
    /\ pc[j] = "converted" => at[j] \in paths[j] /\ outcome[j][at[j]] = "audio"
    /\ pc[j] \in Early => paths[j] = {} /\ errors[j] = {}
    /\ pc[j] = "sweep" => at[j] = Archive

ListRequest(j) == request[j].type = "files" =>
    /\ errors[j] \subseteq Names(request[j])
    /\ pc[j] \in Early \cup {"fetch", "download"} \cup Late
    /\ pc[j] = "download" => at[j] \in Names(request[j]) \ (paths[j] \cup errors[j])
    /\ pc[j] \in Late => Names(request[j]) \subseteq paths[j] \cup errors[j]

ArchiveRequest(j) == request[j].type = "archive" =>
    /\ pc[j] \notin Late => paths[j] = {} /\ errors[j] = {}
    /\ pc[j] \in {"download", "unpack", "extract"} => at[j] = Archive
    /\ Archive \in errors[j] => errors[j] = {Archive} /\ paths[j] = {}

HandlerOK(j) == Results(j) /\ ListRequest(j) /\ ArchiveRequest(j)

(* What no step takes back.                                                *)
Progress(j) ==
    /\ errors[j] \subseteq errors'[j] /\ paths[j] \subseteq paths'[j]
    /\ \A f \in Name : outcome[j][f] = "error" => outcome'[j][f] = "error"
    /\ pc[j] \notin {"new", "sweep"} => pc'[j] \notin {"new", "sweep"}

Same(j) == /\ pc'[j] = pc[j] /\ at'[j] = at[j] /\ paths'[j] = paths[j]
           /\ errors'[j] = errors[j] /\ outcome'[j] = outcome[j]

LEMMA SameHandler ==
    ASSUME NEW j \in Job, HandlerOK(j), Same(j), request' = request
    PROVE  HandlerOK(j)' /\ Progress(j)
<1>1. Progress(j)
    BY DEF Same, Progress
<1>2. Results(j)'
    BY DEF HandlerOK, Same, Results
<1>3. ListRequest(j)' /\ ArchiveRequest(j)'
    BY DEF HandlerOK, Same, ListRequest, ArchiveRequest
<1>. QED
    BY <1>1, <1>2, <1>3 DEF HandlerOK

\* The handler moves, and no result changes.
LEMMA MoveHandler ==
    ASSUME TypeOK, NEW j \in Job, HandlerOK(j), request' = request,
           outcome'[j] = outcome[j], pc[j] # "converted", pc'[j] \notin {"new", "sweep", "converted"},
           paths[j] \subseteq paths'[j], errors[j] \subseteq errors'[j],
           paths'[j] \subseteq Names(request[j]), paths'[j] \cap errors'[j] = {},
           pc'[j] = "convert" => at'[j] \in paths'[j] /\ outcome[j][at'[j]] = "none",
           pc'[j] \in Early => paths'[j] = {} /\ errors'[j] = {},
           ListRequest(j)', ArchiveRequest(j)'
    PROVE  HandlerOK(j)' /\ Progress(j)
<1>1. Progress(j)
    BY DEF Progress
<1>2. \A f \in Name :
         /\ outcome'[j][f] # "none" => f \in paths'[j]
         /\ outcome'[j][f] \notin {"stub", "cut", "audio"}
    BY DEF HandlerOK, Results
<1>3. Results(j)'
    BY <1>2 DEF Results
<1>. QED
    BY <1>1, <1>3 DEF HandlerOK

\* A file gets its result, or audio on the way to it.
LEMMA ResultHandler ==
    ASSUME TypeOK, NEW j \in Job, HandlerOK(j), request' = request,
           UNCHANGED <<at, paths, errors>>,
           NEW r \in {"audio", "text", "error"}, Result(j, at[j], r),
           pc[j] \in {"convert", "converted"},
           pc'[j] = IF r = "audio" THEN "converted" ELSE "transcribe"
    PROVE  HandlerOK(j)' /\ Progress(j)
<1>1. at[j] \in Name /\ HandlersTyped
    BY TypeParts DEF HandlersTyped
<1>2. \A k \in Job, g \in Name :
         outcome'[k][g] = IF k = j /\ g = at[j] THEN r ELSE outcome[k][g]
    BY <1>1, ResultTyped
<1>3. at[j] \in paths[j] /\ outcome[j][at[j]] \in {"none", "audio"}
    BY DEF HandlerOK, Results
<1>4. Progress(j)
    BY <1>1, <1>2, <1>3 DEF Progress
<1>5. \A f \in Name :
         /\ outcome'[j][f] # "none" => f \in paths[j]
         /\ outcome'[j][f] \notin {"stub", "cut"}
         /\ outcome'[j][f] = "audio" => pc'[j] = "converted" /\ at[j] = f
    <2>1. SUFFICES ASSUME NEW f \in Name
                   PROVE  /\ outcome'[j][f] # "none" => f \in paths[j]
                          /\ outcome'[j][f] \notin {"stub", "cut"}
                          /\ outcome'[j][f] = "audio" => pc'[j] = "converted" /\ at[j] = f
        OBVIOUS
    <2>2. outcome'[j][f] = IF f = at[j] THEN r ELSE outcome[j][f]
        BY <1>2
    <2>3. /\ outcome[j][f] # "none" => f \in paths[j]
          /\ outcome[j][f] \notin {"stub", "cut"}
          /\ outcome[j][f] = "audio" => at[j] = f
        BY DEF HandlerOK, Results
    <2>. QED
        BY <1>3, <2>2, <2>3
<1>6. pc'[j] = "converted" => outcome'[j][at[j]] = "audio"
    BY <1>1, <1>2
<1>7. Results(j)'
    BY <1>3, <1>5, <1>6 DEF HandlerOK, Results, Early
<1>8. ListRequest(j)' /\ ArchiveRequest(j)'
    BY DEF HandlerOK, ListRequest, ArchiveRequest, Early, Late
<1>. QED
    BY <1>4, <1>7, <1>8 DEF HandlerOK

\* A handler goes on when its call returns, with a file that is whole when
\* it was to be converted.
LEMMA ResumeHandler ==
    ASSUME TypeOK, NEW j \in Job, HandlerOK(j), request' = request,
           NEW ok \in BOOLEAN, Resume(j, ok),
           pc[j] = "convert" /\ ok => disk[j][at[j]] = "whole"
    PROVE  /\ HandlerOK(j)' /\ Progress(j) /\ \A k \in Job \ {j} : Same(k)
           /\ pc'[j] \notin {"new", "sweep", "raised"}
<1>. DEFINE f == at[j]
            q == request[j]
<1>1. HandlersTyped /\ f \in Name /\ at' = at /\ Archive \notin Names(q) /\ Names(q) \subseteq Name
    BY TypeParts, RequestOf DEF HandlersTyped, Resume
<1>2. Results(j) /\ ListRequest(j) /\ ArchiveRequest(j) /\ q.type \in {"files", "archive"}
    BY TypeParts, RequestOf DEF HandlerOK
<1>3. CASE pc[j] = "sweep"
    <2>1. pc' = [pc EXCEPT ![j] = "prepare"] /\ UNCHANGED <<paths, errors, outcome>>
        BY <1>3 DEF Resume, Goto
    <2>2. pc'[j] = "prepare" /\ \A k \in Job \ {j} : pc'[k] = pc[k]
        BY <1>1, <2>1 DEF HandlersTyped
    <2>3. ListRequest(j)' /\ ArchiveRequest(j)'
        BY <1>2, <1>3, <2>1, <2>2 DEF ListRequest, ArchiveRequest, Early, Late
    <2>4. HandlerOK(j)' /\ Progress(j)
        BY <1>2, <1>3, <2>1, <2>2, <2>3, MoveHandler DEF Results, Early
    <2>. QED
        BY <1>1, <2>1, <2>2, <2>4 DEF Same
<1>4. CASE pc[j] = "download" /\ ok /\ f # Archive
    <2>1. /\ pc' = [pc EXCEPT ![j] = "fetch"] /\ paths' = [paths EXCEPT ![j] = @ \cup {f}]
          /\ UNCHANGED <<errors, outcome>>
        BY <1>4 DEF Resume, Goto
    <2>2. /\ pc'[j] = "fetch" /\ paths'[j] = paths[j] \cup {f}
          /\ \A k \in Job \ {j} : pc'[k] = pc[k] /\ paths'[k] = paths[k]
        BY <1>1, <2>1 DEF HandlersTyped
    <2>3. q.type = "files" /\ f \in Names(q) \ (paths[j] \cup errors[j])
        BY <1>2, <1>4 DEF ListRequest, ArchiveRequest
    <2>4. ListRequest(j)' /\ ArchiveRequest(j)'
        BY <1>2, <2>1, <2>2, <2>3 DEF ListRequest, ArchiveRequest, Early, Late
    <2>5. HandlerOK(j)' /\ Progress(j)
        <3>1. paths'[j] \subseteq Names(q) /\ paths'[j] \cap errors'[j] = {}
            BY <1>2, <2>1, <2>2, <2>3 DEF Results
        <3>2. paths[j] \subseteq paths'[j] /\ errors[j] \subseteq errors'[j] /\ outcome'[j] = outcome[j]
            BY <2>1, <2>2
        <3>. QED
            BY <1>4, <2>2, <2>4, <3>1, <3>2, MoveHandler DEF Early
    <2>. QED
        BY <1>1, <2>1, <2>2, <2>5 DEF Same
<1>5. CASE pc[j] = "download" /\ ok /\ f = Archive
    <2>1. pc' = [pc EXCEPT ![j] = "unpack"] /\ UNCHANGED <<paths, errors, outcome>>
        BY <1>5 DEF Resume, Goto
    <2>2. pc'[j] = "unpack" /\ \A k \in Job \ {j} : pc'[k] = pc[k]
        BY <1>1, <2>1 DEF HandlersTyped
    <2>3. q.type = "archive"
        BY <1>1, <1>2, <1>5 DEF ListRequest
    <2>4. ListRequest(j)' /\ ArchiveRequest(j)'
        BY <1>1, <1>2, <1>5, <2>1, <2>2, <2>3 DEF ListRequest, ArchiveRequest, Late
    <2>5. HandlerOK(j)' /\ Progress(j)
        BY <1>2, <1>5, <2>1, <2>2, <2>4, MoveHandler DEF Results, Early
    <2>. QED
        BY <1>1, <2>1, <2>2, <2>5 DEF Same
<1>6. CASE pc[j] = "download" /\ ~ok /\ q.type = "files"
    <2>1. f \in Names(q) \ (paths[j] \cup errors[j]) /\ f # Archive
        BY <1>1, <1>2, <1>6 DEF ListRequest
    <2>2. /\ pc' = [pc EXCEPT ![j] = "fetch"] /\ errors' = [errors EXCEPT ![j] = @ \cup {f}]
          /\ UNCHANGED <<paths, outcome>>
        BY <1>6, <2>1 DEF Resume, Goto, Fails
    <2>3. /\ pc'[j] = "fetch" /\ errors'[j] = errors[j] \cup {f}
          /\ \A k \in Job \ {j} : pc'[k] = pc[k] /\ errors'[k] = errors[k]
        BY <1>1, <2>2 DEF HandlersTyped
    <2>4. ListRequest(j)' /\ ArchiveRequest(j)'
        BY <1>2, <1>6, <2>1, <2>2, <2>3 DEF ListRequest, ArchiveRequest, Early, Late
    <2>5. HandlerOK(j)' /\ Progress(j)
        <3>1. paths'[j] \subseteq Names(q) /\ paths'[j] \cap errors'[j] = {}
            BY <1>2, <2>1, <2>2, <2>3 DEF Results
        <3>2. paths[j] \subseteq paths'[j] /\ errors[j] \subseteq errors'[j] /\ outcome'[j] = outcome[j]
            BY <2>2, <2>3
        <3>. QED
            BY <1>6, <2>3, <2>4, <3>1, <3>2, MoveHandler DEF Early
    <2>. QED
        BY <1>1, <2>2, <2>3, <2>5 DEF Same
<1>7. CASE pc[j] = "extract" /\ ok
    <2>1. pc' = [pc EXCEPT ![j] = "list"] /\ UNCHANGED <<paths, errors, outcome>>
        BY <1>7 DEF Resume, Goto
    <2>2. pc'[j] = "list" /\ \A k \in Job \ {j} : pc'[k] = pc[k]
        BY <1>1, <2>1 DEF HandlersTyped
    <2>3. q.type = "archive"
        BY <1>2, <1>7 DEF ListRequest, Early, Late
    <2>4. ListRequest(j)' /\ ArchiveRequest(j)'
        BY <1>2, <1>7, <2>1, <2>2, <2>3 DEF ListRequest, ArchiveRequest, Late
    <2>5. HandlerOK(j)' /\ Progress(j)
        BY <1>2, <1>7, <2>1, <2>2, <2>4, MoveHandler DEF Results, Early
    <2>. QED
        BY <1>1, <2>1, <2>2, <2>5 DEF Same
<1>8. CASE ~ok /\ pc[j] \in {"download", "extract"} /\ q.type # "files"
    <2>1. q.type = "archive" /\ f = Archive /\ paths[j] = {} /\ errors[j] = {}
        BY <1>2, <1>8 DEF ArchiveRequest, Late
    <2>2. /\ pc' = [pc EXCEPT ![j] = "transcribe"]
          /\ errors' = [errors EXCEPT ![j] = @ \cup {Archive}]
          /\ UNCHANGED <<paths, outcome>>
        BY <1>8, <2>1 DEF Resume, Goto, Fails
    <2>3. /\ pc'[j] = "transcribe" /\ errors'[j] = {Archive}
          /\ \A k \in Job \ {j} : pc'[k] = pc[k] /\ errors'[k] = errors[k]
        BY <1>1, <2>1, <2>2 DEF HandlersTyped
    <2>4. ListRequest(j)' /\ ArchiveRequest(j)'
        BY <2>1, <2>2, <2>3 DEF ListRequest, ArchiveRequest, Late
    <2>5. HandlerOK(j)' /\ Progress(j)
        <3>1. paths'[j] = {} /\ errors[j] \subseteq errors'[j] /\ outcome'[j] = outcome[j]
            BY <2>1, <2>2, <2>3
        <3>. QED
            BY <1>8, <2>1, <2>3, <2>4, <3>1, MoveHandler DEF Early
    <2>. QED
        BY <1>1, <2>2, <2>3, <2>5 DEF Same
<1>9. CASE pc[j] = "convert"
    <2>. DEFINE r == IF ok THEN "audio" ELSE "error"
    <2>1. /\ Result(j, f, r) /\ Goto(j, IF ok THEN "converted" ELSE "transcribe")
          /\ UNCHANGED <<paths, errors>>
        BY <1>9 DEF Resume
    <2>2. /\ pc'[j] = IF r = "audio" THEN "converted" ELSE "transcribe"
          /\ \A k \in Job \ {j} : pc'[k] = pc[k]
        BY <1>1, <2>1 DEF HandlersTyped, Goto
    <2>3. r \in {"audio", "text", "error"}
        OBVIOUS
    <2>. HIDE DEF r
    <2>4. HandlerOK(j)' /\ Progress(j)
        BY <1>1, <1>9, <2>1, <2>2, <2>3, ResultHandler
    <2>5. \A k \in Job \ {j} : outcome'[k] = outcome[k]
        BY <1>1, <2>1 DEF Result, HandlersTyped
    <2>. QED
        BY <1>1, <2>1, <2>2, <2>4, <2>5 DEF Same
<1>10. pc[j] \in {"sweep", "download", "extract", "convert"} /\ ~(pc[j] = "extract" /\ q.type = "files")
    BY <1>2 DEF Resume, ListRequest, Early, Late
<1>. QED
    BY <1>3, <1>4, <1>5, <1>6, <1>7, <1>8, <1>9, <1>10

Moves(j) == HandlerOK(j)' /\ Progress(j) /\ \A k \in Job \ {j} : Same(k)

LEMMA GoesTo ==
    ASSUME HandlersTyped, NEW j \in Job, NEW l, Goto(j, l)
    PROVE  pc'[j] = l /\ \A k \in Job \ {j} : pc'[k] = pc[k]
BY DEF Goto, HandlersTyped

LEMMA WaitsFor ==
    ASSUME HandlersTyped, NEW j \in Job, NEW call, NEW f, Await(j, call, f)
    PROVE  /\ pc'[j] = call /\ at'[j] = f
           /\ \A k \in Job \ {j} : pc'[k] = pc[k] /\ at'[k] = at[k]
BY DEF Await, HandlersTyped

LEMMA BeginHandler ==
    ASSUME TypeOK, NEW j \in Job, HandlerOK(j), Begin(j)
    PROVE  Moves(j)
<1>1. HandlersTyped /\ Results(j) /\ ListRequest(j) /\ ArchiveRequest(j)
    BY TypeParts DEF HandlerOK
<1>2. UNCHANGED <<request, paths, errors, outcome>> /\ pc[j] = "new"
    BY DEF Begin
<1>3. /\ pc'[j] = "sweep" /\ at'[j] = Archive
      /\ \A k \in Job \ {j} : pc'[k] = pc[k] /\ at'[k] = at[k]
    BY <1>1, WaitsFor DEF Begin
<1>4. ListRequest(j)' /\ ArchiveRequest(j)'
    BY <1>1, <1>2, <1>3 DEF ListRequest, ArchiveRequest, Early, Late
<1>5. \A f \in Name : outcome'[j][f] # "audio"
    BY <1>1, <1>2 DEF Results
<1>6. Results(j)'
    BY <1>1, <1>2, <1>3, <1>5 DEF Results, Early
<1>7. Progress(j)
    BY <1>2 DEF Progress
<1>. QED
    BY <1>2, <1>3, <1>4, <1>6, <1>7 DEF Moves, HandlerOK, Same

LEMMA PrepareHandler ==
    ASSUME TypeOK, NEW j \in Job, HandlerOK(j), Prepare(j)
    PROVE  Moves(j)
<1>1. HandlersTyped /\ Results(j) /\ ListRequest(j) /\ ArchiveRequest(j)
    BY TypeParts DEF HandlerOK
<1>2. UNCHANGED <<request, at, paths, errors, outcome>> /\ pc[j] = "prepare"
    BY DEF Prepare
<1>3. pc'[j] = "fetch" /\ \A k \in Job \ {j} : pc'[k] = pc[k]
    BY <1>1, GoesTo DEF Prepare
<1>4. ListRequest(j)' /\ ArchiveRequest(j)'
    BY <1>1, <1>2, <1>3 DEF ListRequest, ArchiveRequest, Early, Late
<1>5. HandlerOK(j)' /\ Progress(j)
    BY <1>1, <1>2, <1>3, <1>4, MoveHandler DEF Results, Early
<1>. QED
    BY <1>2, <1>3, <1>5 DEF Moves, Same

LEMMA FetchHandler ==
    ASSUME TypeOK, NEW j \in Job, HandlerOK(j), Fetch(j)
    PROVE  Moves(j)
<1>1. /\ HandlersTyped /\ Results(j) /\ ListRequest(j) /\ ArchiveRequest(j)
      /\ request[j].type \in {"files", "archive"}
    BY TypeParts, RequestOf DEF HandlerOK
<1>2. UNCHANGED <<request, paths, errors, outcome>> /\ pc[j] = "fetch"
    BY DEF Fetch
<1>3. CASE ToFetch(j) = {}
    <2>1. UNCHANGED at /\ pc'[j] = "transcribe" /\ \A k \in Job \ {j} : pc'[k] = pc[k]
        BY <1>1, <1>3, GoesTo DEF Fetch
    <2>2. request[j].type = "files" /\ Names(request[j]) \subseteq paths[j] \cup errors[j]
        BY <1>1, <1>3 DEF ToFetch
    <2>3. ListRequest(j)' /\ ArchiveRequest(j)'
        BY <1>1, <1>2, <2>1, <2>2 DEF ListRequest, ArchiveRequest, Early, Late
    <2>4. HandlerOK(j)' /\ Progress(j)
        BY <1>1, <1>2, <2>1, <2>3, MoveHandler DEF Results, Early
    <2>. QED
        BY <1>2, <2>1, <2>4 DEF Moves, Same
<1>4. CASE ToFetch(j) # {}
    <2>. DEFINE f == Min(ToFetch(j))
    <2>1. f \in ToFetch(j)
        BY <1>4, ToFetchNames
    <2>2. /\ pc'[j] = "download" /\ at'[j] = f
          /\ \A k \in Job \ {j} : pc'[k] = pc[k] /\ at'[k] = at[k]
        BY <1>1, <1>4, WaitsFor DEF Fetch
    <2>. HIDE DEF f
    <2>3. ListRequest(j)' /\ ArchiveRequest(j)'
        BY <1>1, <1>2, <2>1, <2>2 DEF ListRequest, ArchiveRequest, Early, Late, ToFetch
    <2>4. HandlerOK(j)' /\ Progress(j)
        BY <1>1, <1>2, <2>2, <2>3, MoveHandler DEF Results, Early
    <2>. QED
        BY <1>2, <2>2, <2>4 DEF Moves, Same
<1>. QED
    BY <1>3, <1>4

LEMMA UnpackHandler ==
    ASSUME TypeOK, NEW j \in Job, HandlerOK(j), Unpack(j)
    PROVE  Moves(j)
<1>1. /\ HandlersTyped /\ Results(j) /\ ListRequest(j) /\ ArchiveRequest(j)
      /\ request[j].type \in {"files", "archive"}
    BY TypeParts, RequestOf DEF HandlerOK
<1>2. UNCHANGED <<request, paths, outcome>> /\ pc[j] = "unpack"
    BY DEF Unpack
<1>3. /\ request[j].type = "archive" /\ at[j] = Archive /\ paths[j] = {} /\ errors[j] = {}
      /\ \A f \in Name : outcome[j][f] = "none"
    BY <1>1, <1>2 DEF Results, ListRequest, ArchiveRequest, Early, Late
<1>4. /\ pc'[j] \in {"raised", "transcribe", "extract"}
      /\ pc'[j] = "transcribe" => errors'[j] = {Archive} /\ UNCHANGED at
      /\ pc'[j] # "transcribe" => errors'[j] = {}
      /\ pc'[j] = "extract" => at'[j] = Archive
      /\ \A k \in Job \ {j} : pc'[k] = pc[k] /\ at'[k] = at[k] /\ errors'[k] = errors[k]
    <2>1. CASE Goto(j, "raised") /\ UNCHANGED <<at, errors>>
        BY <1>1, <1>3, <2>1, GoesTo
    <2>2. CASE Fails(j, Archive, "transcribe") /\ UNCHANGED at
        <3>1. errors'[j] = {Archive} /\ \A k \in Job \ {j} : errors'[k] = errors[k]
            BY <1>1, <1>3, <2>2 DEF Fails, HandlersTyped
        <3>2. pc'[j] = "transcribe" /\ \A k \in Job \ {j} : pc'[k] = pc[k]
            BY <1>1, <2>2, GoesTo DEF Fails
        <3>. QED
            BY <2>2, <3>1, <3>2
    <2>3. CASE Await(j, "extract", Archive) /\ UNCHANGED errors
        BY <1>1, <1>3, <2>3, WaitsFor
    <2>. QED
        BY <2>1, <2>2, <2>3 DEF Unpack
<1>5. ListRequest(j)' /\ ArchiveRequest(j)'
    BY <1>2, <1>3, <1>4 DEF ListRequest, ArchiveRequest, Late
<1>6. HandlerOK(j)' /\ Progress(j)
    BY <1>1, <1>2, <1>3, <1>4, <1>5, MoveHandler DEF Early
<1>. QED
    BY <1>2, <1>4, <1>6 DEF Moves, Same

LEMMA ListHandler ==
    ASSUME TypeOK, NEW j \in Job, HandlerOK(j), ListFiles(j)
    PROVE  Moves(j)
<1>1. /\ HandlersTyped /\ Results(j) /\ ListRequest(j) /\ ArchiveRequest(j)
      /\ request[j].type \in {"files", "archive"}
      /\ Archive \notin Names(request[j])
    BY TypeParts, RequestOf DEF HandlerOK
<1>2. UNCHANGED <<request, at, outcome>> /\ pc[j] = "list"
    BY DEF ListFiles
<1>3. /\ request[j].type = "archive" /\ paths[j] = {} /\ errors[j] = {}
    BY <1>1, <1>2 DEF ListRequest, ArchiveRequest, Early, Late
<1>4. /\ pc'[j] \in {"raised", "transcribe"}
      /\ paths'[j] \subseteq Names(request[j]) /\ errors'[j] \subseteq Names(request[j])
      /\ paths'[j] \cap errors'[j] = {}
      /\ pc'[j] = "raised" => paths'[j] = {} /\ errors'[j] = {}
      /\ \A k \in Job \ {j} : pc'[k] = pc[k] /\ paths'[k] = paths[k] /\ errors'[k] = errors[k]
    <2>1. CASE dir[j] = "none"
        <3>1. Goto(j, "raised") /\ UNCHANGED <<paths, errors>>
            BY <2>1 DEF ListFiles
        <3>. QED
            BY <1>1, <1>3, <3>1, GoesTo
    <2>2. CASE dir[j] # "none"
        <3>. DEFINE found == {f \in Names(request[j]) :
                                disk[j][f] # "none" /\ Listed(Last(request[j], f).kind)}
                    scripts == {f \in found : Last(request[j], f).kind = "script"}
        <3>1. /\ paths' = [paths EXCEPT ![j] = found \ scripts]
              /\ errors' = [errors EXCEPT ![j] = @ \cup scripts] /\ Goto(j, "transcribe")
            BY <2>2 DEF ListFiles
        <3>2. found \subseteq Names(request[j]) /\ scripts \subseteq Names(request[j])
            OBVIOUS
        <3>. HIDE DEF found, scripts
        <3>3. /\ paths'[j] = found \ scripts /\ errors'[j] = scripts
              /\ \A k \in Job \ {j} : paths'[k] = paths[k] /\ errors'[k] = errors[k]
            BY <1>1, <1>3, <3>1 DEF HandlersTyped
        <3>. QED
            BY <1>1, <3>1, <3>2, <3>3, GoesTo
    <2>. QED
        BY <2>1, <2>2
<1>5. ListRequest(j)' /\ ArchiveRequest(j)'
    BY <1>1, <1>2, <1>3, <1>4 DEF ListRequest, ArchiveRequest, Late
<1>6. HandlerOK(j)' /\ Progress(j)
    BY <1>1, <1>2, <1>3, <1>4, <1>5, MoveHandler DEF Early
<1>. QED
    BY <1>2, <1>4, <1>6 DEF Moves, Same

LEMMA TranscribeHandler ==
    ASSUME TypeOK, NEW j \in Job, HandlerOK(j), Transcribe(j)
    PROVE  Moves(j)
<1>1. HandlersTyped /\ Results(j) /\ ListRequest(j) /\ ArchiveRequest(j)
    BY TypeParts DEF HandlerOK
<1>. DEFINE f == Min(ToTranscribe(j))
<1>2. UNCHANGED <<request, paths, errors, outcome>> /\ pc[j] = "transcribe"
    BY DEF Transcribe
<1>3. f \in paths[j] /\ outcome[j][f] = "none"
    BY ToTranscribeNames DEF Transcribe
<1>4. /\ pc'[j] = "convert" /\ at'[j] = f
      /\ \A k \in Job \ {j} : pc'[k] = pc[k] /\ at'[k] = at[k]
    BY <1>1, WaitsFor DEF Transcribe
<1>. HIDE DEF f
<1>5. ListRequest(j)' /\ ArchiveRequest(j)'
    BY <1>1, <1>2, <1>4 DEF ListRequest, ArchiveRequest, Early, Late
<1>6. HandlerOK(j)' /\ Progress(j)
    BY <1>1, <1>2, <1>3, <1>4, <1>5, MoveHandler DEF Results, Early
<1>. QED
    BY <1>2, <1>4, <1>6 DEF Moves, Same

LEMMA AskHandler ==
    ASSUME TypeOK, NEW j \in Job, HandlerOK(j), AskModel(j)
    PROVE  Moves(j)
<1>1. HandlersTyped /\ Results(j) /\ pc[j] = "converted" /\ outcome[j][at[j]] = "audio"
    BY TypeParts DEF HandlerOK, Results, AskModel
<1>2. UNCHANGED <<request, at, paths, errors>> /\ \E r \in {"text", "error"} : Result(j, at[j], r)
    BY <1>1 DEF AskModel
<1>3. pc'[j] = "transcribe" /\ \A k \in Job \ {j} : pc'[k] = pc[k]
    BY <1>1, GoesTo DEF AskModel
<1>4. HandlerOK(j)' /\ Progress(j)
    BY <1>1, <1>2, <1>3, ResultHandler
<1>5. \A k \in Job \ {j} : outcome'[k] = outcome[k]
    BY <1>1, <1>2 DEF Result, HandlersTyped
<1>. QED
    BY <1>2, <1>3, <1>4, <1>5 DEF Moves, Same

LEMMA AnswerHandler ==
    ASSUME TypeOK, NEW j \in Job, HandlerOK(j), Answer(j)
    PROVE  Moves(j)
<1>1. HandlersTyped /\ Results(j) /\ ListRequest(j) /\ ArchiveRequest(j)
    BY TypeParts DEF HandlerOK
<1>2. UNCHANGED <<request, at, paths, errors, outcome>> /\ pc[j] = "transcribe"
    BY DEF Answer
<1>3. pc'[j] = "answered" /\ \A k \in Job \ {j} : pc'[k] = pc[k]
    BY <1>1, GoesTo DEF Answer
<1>4. ListRequest(j)' /\ ArchiveRequest(j)'
    BY <1>1, <1>2, <1>3 DEF ListRequest, ArchiveRequest, Early, Late
<1>5. HandlerOK(j)' /\ Progress(j)
    BY <1>1, <1>2, <1>3, <1>4, MoveHandler DEF Results, Early
<1>. QED
    BY <1>2, <1>3, <1>5 DEF Moves, Same

-----------------------------------------------------------------------------
(* Threads, and what they leave on the disk.                               *)

GivenUp(t) ==
    \/ t.call = "sweep" /\ pc[t.job] \notin {"new", "sweep"}
    \/ t.call \in {"download", "extract"} /\ t.file \in errors[t.job]
    \/ t.call = "convert" /\ outcome[t.job][t.file] = "error"

OneEach == \A t, u \in threads : SameCall(t, u) => t = u

ThreadOK(t) ==
    LET q == request[t.job] IN
    /\ Awaited(t) \/ GivenUp(t)
    /\ t.call = "sweep" => t.file = Archive
    /\ t.call = "download" =>
         IF q.type = "files" THEN t.file \in Names(q) \ paths[t.job] ELSE t.file = Archive
    /\ t.call = "extract" =>
         t.file = Archive /\ q.type = "archive" /\ (t.step > 0 => ~Refused(q))
    /\ t.call = "convert" => t.file \in paths[t.job]

DiskOK(j) ==
    IF request[j].type = "files" THEN \A f \in paths[j] : disk[j][f] # "partial"
    ELSE \A f \in Name \ {Archive} : /\ disk[j][f] # "partial"
                                     /\ disk[j][f] # "none" => ~Refused(request[j])

ListedOK(j) == pc[j] = "list" => ~Refused(request[j])

Coherent ==
    /\ OneEach /\ \A t \in threads : ThreadOK(t)
    /\ \A j \in Job : HandlerOK(j) /\ DiskOK(j) /\ ListedOK(j)

\* A call given up stays given up.
LEMMA GivenUpStays ==
    ASSUME NEW t \in Thread, GivenUp(t), Progress(t.job)
    PROVE  GivenUp(t)'
BY ThreadFields DEF GivenUp, Progress

\* A thread, or what it has become.
LEMMA ThreadStays ==
    ASSUME NEW t \in Thread, NEW u \in Thread, SameCall(t, u), ThreadOK(t), request' = request,
           HandlerOK(t.job)', Progress(t.job), Awaited(u)' \/ GivenUp(u)',
           request[t.job] \in Inputs[t.job],
           u.call = "extract" /\ u.step > 0 => t.step > 0 \/ ~Refused(request[t.job])
    PROVE  ThreadOK(u)'
<1>. DEFINE j == t.job
            q == request[j]
<1>1. u.job = j /\ u.call = t.call /\ u.file = t.file
    BY DEF SameCall
<1>2. u.call = "download" =>
         IF q.type = "files" THEN u.file \in Names(q) \ paths'[j] ELSE u.file = Archive
    <2>. SUFFICES ASSUME u.call = "download", q.type = "files"
                  PROVE  u.file \notin paths'[j]
        BY <1>1 DEF ThreadOK
    <2>1. CASE Awaited(u)'
        BY <1>1, <2>1 DEF Awaited, HandlerOK, ListRequest
    <2>2. CASE GivenUp(u)'
        <3>1. u.file \in errors'[j]
            BY <1>1, <2>2 DEF GivenUp
        <3>. QED
            BY <3>1 DEF HandlerOK, Results
    <2>. QED
        BY <2>1, <2>2
<1>3. u.call = "convert" => u.file \in paths'[j]
    BY <1>1 DEF ThreadOK, Progress
<1>4. u.call = "extract" => u.file = Archive /\ q.type = "archive" /\ (u.step > 0 => ~Refused(q))
    BY <1>1 DEF ThreadOK
<1>5. u.call = "sweep" => u.file = Archive
    BY <1>1 DEF ThreadOK
<1>. QED
    BY <1>1, <1>2, <1>3, <1>4, <1>5 DEF ThreadOK

\* A thread of a handler that does not move.
LEMMA ThreadWaits ==
    ASSUME NEW t \in Thread, NEW u \in Thread, SameCall(t, u), ThreadOK(t), Same(t.job)
    PROVE  Awaited(u)' \/ GivenUp(u)'
BY DEF ThreadOK, Awaited, GivenUp, Same, SameCall

\* A handler waits for a call it has not made before.
LEMMA NewCall ==
    ASSUME TypeOK, Coherent, NEW j \in Job, NEW t \in threads, t.job = j,
           \/ pc[j] = "new" /\ t.call = "sweep"
           \/ pc[j] = "fetch" /\ t.call = "download" /\ t.file \in ToFetch(j)
           \/ pc[j] = "unpack" /\ t.call = "extract" /\ request[j].type = "archive"
           \/ pc[j] = "transcribe" /\ t.call = "convert" /\ outcome[j][t.file] = "none"
    PROVE  FALSE
<1>1. ThreadOK(t) /\ HandlerOK(j) /\ request[j].type \in {"files", "archive"}
    BY TypeParts, RequestOf DEF Coherent
<1>2. GivenUp(t)
    BY <1>1 DEF ThreadOK, Awaited
<1>3. CASE pc[j] = "fetch" /\ t.call = "download" /\ t.file \in ToFetch(j)
    <2>1. t.file \in errors[j]
        BY <1>2, <1>3 DEF GivenUp
    <2>. QED
        BY <1>1, <1>3, <2>1 DEF ToFetch, HandlerOK, ArchiveRequest, Late
<1>4. CASE pc[j] = "unpack" /\ t.call = "extract" /\ request[j].type = "archive"
    <2>1. t.file \in errors[j]
        BY <1>2, <1>4 DEF GivenUp
    <2>. QED
        BY <1>1, <1>4, <2>1 DEF HandlerOK, ArchiveRequest, Late
<1>. QED
    BY <1>2, <1>3, <1>4 DEF GivenUp

\* What a step of a handler is that does not wait.
HandlerStep(j) ==
    \/ Begin(j) \/ Prepare(j) \/ Fetch(j) \/ Unpack(j) \/ ListFiles(j)
    \/ Transcribe(j) \/ AskModel(j) \/ Answer(j)

LEMMA HandlerSteps ==
    ASSUME TypeOK, Coherent, NEW j \in Job, HandlerStep(j)
    PROVE  /\ Moves(j) /\ pc[j] \notin Call /\ pc'[j] # "list"
           /\ request' = request /\ disk' = disk
           /\ paths' = paths \/ request[j].type = "archive"
<1>1. HandlerOK(j) /\ request[j].type \in {"files", "archive"}
    BY TypeParts, RequestOf DEF Coherent
<1>2. Moves(j)
    BY <1>1, BeginHandler, PrepareHandler, FetchHandler, UnpackHandler, ListHandler,
       TranscribeHandler, AskHandler, AnswerHandler DEF HandlerStep
<1>3. request' = request /\ disk' = disk /\ pc[j] \notin Call
    BY DEF HandlerStep, Begin, Prepare, Fetch, Unpack, ListFiles, Transcribe, AskModel, Answer,
           files, Call
<1>4. paths' = paths \/ request[j].type = "archive"
    <2>1. CASE ListFiles(j)
        BY <1>1, <2>1 DEF ListFiles, HandlerOK, ListRequest, Early, Late
    <2>2. CASE ~ListFiles(j)
        BY <2>2 DEF HandlerStep, Begin, Prepare, Fetch, Unpack, Transcribe, AskModel, Answer
    <2>. QED
        BY <2>1, <2>2
<1>5. pc'[j] # "list"
    BY TypeParts, GoesTo, WaitsFor
       DEF HandlerStep, Begin, Prepare, Fetch, Unpack, ListFiles, Transcribe, AskModel, Answer, Fails
<1>. QED
    BY <1>2, <1>3, <1>4, <1>5

\* The thread a handler starts, if any.
LEMMA HandlerThreads ==
    ASSUME TypeOK, Coherent, NEW j \in Job, HandlerStep(j)
    PROVE  \/ threads' = threads
           \/ \E u \in Thread :
                 /\ threads' = threads \cup {u} /\ u.job = j /\ u.step = 0 /\ u.doomed = {}
                 /\ ThreadOK(u)' /\ \A t \in threads : ~SameCall(t, u)
<1>1. /\ HandlersTyped /\ threads \subseteq Thread /\ HandlerOK(j) /\ request' = request
      /\ request[j].type \in {"files", "archive"}
    BY TypeParts, RequestOf, HandlerSteps DEF Coherent
<1>. DEFINE New(c, f) ==
        \E u \in Thread : /\ threads' = threads \cup {u} /\ u.step = 0 /\ u.doomed = {}
                          /\ u.job = j /\ u.call = c /\ u.file = f
            Goal == \E u \in Thread :
                 /\ threads' = threads \cup {u} /\ u.job = j /\ u.step = 0 /\ u.doomed = {}
                 /\ ThreadOK(u)' /\ \A t \in threads : ~SameCall(t, u)
<1>2. CASE Begin(j)
    <2>1. pc[j] = "new" /\ pc'[j] = "sweep" /\ at'[j] = Archive
        BY <1>1, <1>2, WaitsFor DEF Begin
    <2>2. New("sweep", Archive)
        BY <1>1, <1>2, AwaitTyped, NamesAreNumbers DEF Begin, Call
    <2>3. PICK u \in Thread : /\ threads' = threads \cup {u} /\ u.step = 0 /\ u.doomed = {}
                              /\ u.job = j /\ u.call = "sweep" /\ u.file = Archive
        BY <2>2
    <2>4. ThreadOK(u)'
        BY <2>1, <2>3 DEF ThreadOK, Awaited
    <2>5. \A t \in threads : ~SameCall(t, u)
        BY <2>1, <2>3, NewCall DEF SameCall
    <2>. QED
        BY <2>3, <2>4, <2>5
<1>3. CASE Fetch(j) /\ ToFetch(j) # {}
    <2>. DEFINE f == Min(ToFetch(j))
    <2>1. f \in ToFetch(j) /\ f \in Name
        BY <1>3, ToFetchNames
    <2>2. /\ pc[j] = "fetch" /\ pc'[j] = "download" /\ at'[j] = f
          /\ UNCHANGED <<paths, errors, outcome>> /\ Await(j, "download", f)
        BY <1>1, <1>3, WaitsFor DEF Fetch
    <2>. HIDE DEF f
    <2>3. New("download", f)
        BY <1>1, <2>1, <2>2, AwaitTyped DEF Call
    <2>4. PICK u \in Thread : /\ threads' = threads \cup {u} /\ u.step = 0 /\ u.doomed = {}
                              /\ u.job = j /\ u.call = "download" /\ u.file = f
        BY <2>3
    <2>5. ThreadOK(u)'
        BY <1>1, <2>1, <2>2, <2>4 DEF ThreadOK, Awaited, ToFetch
    <2>6. \A t \in threads : ~SameCall(t, u)
        BY <2>1, <2>2, <2>4, NewCall DEF SameCall
    <2>. QED
        BY <2>4, <2>5, <2>6
<1>4. CASE Unpack(j) /\ Await(j, "extract", Archive)
    <2>1. /\ pc[j] = "unpack" /\ pc'[j] = "extract" /\ at'[j] = Archive
        BY <1>1, <1>4, WaitsFor DEF Unpack
    <2>2. request[j].type = "archive"
        BY <1>1, <2>1 DEF HandlerOK, ListRequest, Early, Late
    <2>3. New("extract", Archive)
        <3>1. UNCHANGED <<paths, errors, outcome>>
            BY <1>4, <2>1 DEF Unpack, Goto, Fails, Await
        <3>. QED
            BY <1>1, <1>4, <3>1, AwaitTyped, NamesAreNumbers DEF Call
    <2>4. PICK u \in Thread : /\ threads' = threads \cup {u} /\ u.step = 0 /\ u.doomed = {}
                              /\ u.job = j /\ u.call = "extract" /\ u.file = Archive
        BY <2>3
    <2>5. ThreadOK(u)'
        BY <1>1, <2>1, <2>2, <2>4 DEF ThreadOK, Awaited
    <2>6. \A t \in threads : ~SameCall(t, u)
        BY <2>1, <2>2, <2>4, NewCall DEF SameCall
    <2>. QED
        BY <2>4, <2>5, <2>6
<1>5. CASE Transcribe(j)
    <2>. DEFINE f == Min(ToTranscribe(j))
    <2>1. f \in Name /\ f \in paths[j] /\ outcome[j][f] = "none"
        BY <1>5, ToTranscribeNames DEF Transcribe
    <2>2. /\ pc[j] = "transcribe" /\ pc'[j] = "convert" /\ at'[j] = f
          /\ UNCHANGED <<paths, errors, outcome>> /\ Await(j, "convert", f)
        BY <1>1, <1>5, WaitsFor DEF Transcribe
    <2>. HIDE DEF f
    <2>3. New("convert", f)
        BY <1>1, <2>1, <2>2, AwaitTyped DEF Call
    <2>4. PICK u \in Thread : /\ threads' = threads \cup {u} /\ u.step = 0 /\ u.doomed = {}
                              /\ u.job = j /\ u.call = "convert" /\ u.file = f
        BY <2>3
    <2>5. ThreadOK(u)'
        BY <1>1, <2>1, <2>2, <2>4 DEF ThreadOK, Awaited
    <2>6. \A t \in threads : ~SameCall(t, u)
        BY <2>1, <2>2, <2>4, NewCall DEF SameCall
    <2>. QED
        BY <2>4, <2>5, <2>6
<1>6. \/ Begin(j) \/ (Fetch(j) /\ ToFetch(j) # {}) \/ (Unpack(j) /\ Await(j, "extract", Archive))
      \/ Transcribe(j) \/ threads' = threads
    BY DEF HandlerStep, Prepare, Fetch, Unpack, ListFiles, AskModel, Answer
<1>. QED
    BY <1>2, <1>3, <1>4, <1>5, <1>6

\* A handler that does not wait keeps what it has found.
LEMMA HandlerCoherent ==
    ASSUME TypeOK, Coherent, NEW j \in Job, HandlerStep(j)
    PROVE  Coherent'
<1>1. /\ Moves(j) /\ pc[j] \notin Call /\ pc'[j] # "list" /\ request' = request /\ disk' = disk
      /\ paths' = paths \/ request[j].type = "archive"
    BY HandlerSteps
<1>2. /\ OneEach /\ \A t \in threads : ThreadOK(t) /\ t \in Thread
      /\ \A k \in Job : HandlerOK(k) /\ DiskOK(k) /\ ListedOK(k)
      /\ \A k \in Job : request[k] \in Inputs[k] /\ request[k].type \in {"files", "archive"}
    BY TypeParts, RequestOf DEF Coherent
<1>3. \A k \in Job : HandlerOK(k)' /\ Progress(k)
    BY <1>1, <1>2, SameHandler DEF Moves
<1>4. \A k \in Job : DiskOK(k)'
    <2>1. ASSUME NEW k \in Job
          PROVE  DiskOK(k)'
        <3>1. request[k].type = "archive" \/ paths'[k] = paths[k]
            BY <1>1 DEF Moves, Same
        <3>. QED
            BY <1>1, <1>2, <3>1 DEF DiskOK
    <2>. QED
        BY <2>1
<1>5. \A k \in Job : ListedOK(k)'
    BY <1>1, <1>2 DEF Moves, Same, ListedOK
<1>6. \A t \in threads : ThreadOK(t)'
    <2>1. ASSUME NEW t \in threads
          PROVE  ThreadOK(t)'
        <3>1. t \in Thread /\ t.job \in Job /\ ThreadOK(t)
            BY <1>2, ThreadFields
        <3>2. Awaited(t)' \/ GivenUp(t)'
            <4>1. CASE t.job = j
                <5>1. GivenUp(t)
                    BY <1>1, <3>1, <4>1, ThreadFields DEF ThreadOK, Awaited
                <5>. QED
                    BY <1>3, <3>1, <5>1, GivenUpStays
            <4>2. CASE t.job # j
                BY <1>1, <3>1, <4>2, ThreadWaits DEF Moves, SameCall
            <4>. QED
                BY <4>1, <4>2
        <3>. QED
            BY <1>1, <1>2, <1>3, <3>1, <3>2, ThreadStays DEF SameCall
    <2>. QED
        BY <2>1
<1>7. OneEach' /\ \A t \in threads' : ThreadOK(t)'
    <2>1. CASE threads' = threads
        BY <1>2, <1>6, <2>1 DEF OneEach, SameCall
    <2>2. ASSUME NEW u \in Thread, threads' = threads \cup {u}, ThreadOK(u)',
                 \A t \in threads : ~SameCall(t, u)
          PROVE  OneEach' /\ \A t \in threads' : ThreadOK(t)'
        BY <1>2, <1>6, <2>2 DEF OneEach, SameCall
    <2>. QED
        BY <2>1, <2>2, HandlerThreads
<1>. QED
    BY <1>3, <1>4, <1>5, <1>7 DEF Coherent

\* Whoever does not get a result in time has an error instead.
LEMMA ResumeGivesUp ==
    ASSUME TypeOK, NEW j \in Job, HandlerOK(j), Resume(j, FALSE), NEW t \in Thread,
           t.job = j, Awaited(t), ThreadOK(t)
    PROVE  GivenUp(t)'
<1>1. HandlersTyped /\ t.file \in Name /\ t.call \in Call /\ pc[j] = t.call /\ at[j] = t.file
    BY TypeParts, ThreadFields DEF Awaited
<1>2. CASE t.call = "sweep"
    <2>1. pc'[j] = "prepare"
        BY <1>1, <1>2, GoesTo DEF Resume
    <2>. QED
        BY <1>2, <2>1 DEF GivenUp
<1>3. CASE t.call = "download"
    <2>1. errors' = [errors EXCEPT ![j] = @ \cup {t.file}]
        BY <1>1, <1>3 DEF Resume, Fails
    <2>2. t.file \in errors'[j]
        BY <1>1, <2>1 DEF HandlersTyped
    <2>. QED
        BY <1>3, <2>2 DEF GivenUp
<1>4. CASE t.call = "extract"
    <2>1. errors' = [errors EXCEPT ![j] = @ \cup {Archive}] /\ t.file = Archive
        BY <1>1, <1>4 DEF Resume, Fails, ThreadOK
    <2>2. t.file \in errors'[j]
        BY <1>1, <2>1 DEF HandlersTyped
    <2>. QED
        BY <1>4, <2>2 DEF GivenUp
<1>5. CASE t.call = "convert"
    <2>1. Result(j, t.file, "error")
        BY <1>1, <1>5 DEF Resume
    <2>2. outcome'[j][t.file] = "error"
        BY <1>1, <2>1, ResultTyped
    <2>. QED
        BY <1>5, <2>2 DEF GivenUp
<1>. QED
    BY <1>1, <1>2, <1>3, <1>4, <1>5 DEF Call

\* Only a download adds a path, only an extraction leads to the listing.
LEMMA ResumePaths ==
    ASSUME TypeOK, NEW j \in Job, NEW ok \in BOOLEAN, Resume(j, ok), NEW k \in Job
    PROVE  /\ \/ paths'[k] = paths[k]
              \/ k = j /\ pc[j] = "download" /\ ok /\ paths'[k] = paths[k] \cup {at[j]}
           /\ pc'[k] = "list" => pc[k] = "list" \/ (k = j /\ pc[j] = "extract" /\ ok)
<1>1. HandlersTyped
    BY TypeParts
<1>2. CASE pc[j] = "download" /\ ok
    <2>1. /\ paths' \in {paths, [paths EXCEPT ![j] = @ \cup {at[j]}]}
          /\ Goto(j, "fetch") \/ Goto(j, "unpack")
        BY <1>2 DEF Resume
    <2>. QED
        BY <1>1, <1>2, <2>1, GoesTo DEF HandlersTyped
<1>3. CASE pc[j] = "extract" /\ ok
    BY <1>1, <1>3, GoesTo DEF Resume
<1>4. CASE ~(pc[j] \in {"download", "extract"} /\ ok)
    <2>1. UNCHANGED paths /\ \E l \in {"prepare", "fetch", "transcribe", "converted"} : Goto(j, l)
        BY <1>4 DEF Resume, Fails
    <2>. QED
        BY <1>1, <2>1, GoesTo
<1>. QED
    BY <1>2, <1>3, <1>4

LEMMA TimeoutCoherent ==
    ASSUME TypeOK, Coherent, NEW j \in Job, Timeout(j)
    PROVE  /\ Coherent' /\ Moves(j) /\ paths' = paths
           /\ \A k \in Job : pc'[k] = "list" => pc[k] = "list"
<1>1. /\ Resume(j, FALSE) /\ request' = request /\ disk' = disk
      /\ threads' = {t \in threads : ~(t.job = j /\ Awaited(t) /\ ~t.running)}
    BY DEF Timeout, files
<1>2. /\ OneEach /\ \A t \in threads : ThreadOK(t) /\ t \in Thread
      /\ \A k \in Job : HandlerOK(k) /\ DiskOK(k) /\ ListedOK(k) /\ request[k] \in Inputs[k]
      /\ HandlersTyped
    BY TypeParts DEF Coherent
<1>3. HandlerOK(j)' /\ Progress(j) /\ \A k \in Job \ {j} : Same(k)
    BY <1>1, <1>2, ResumeHandler
<1>4. \A k \in Job : HandlerOK(k)' /\ Progress(k)
    BY <1>1, <1>2, <1>3, SameHandler
<1>5. \A k \in Job : paths'[k] = paths[k] /\ (pc'[k] = "list" => pc[k] = "list")
    BY <1>1, ResumePaths
<1>6. paths' = paths
    <2>1. CASE pc[j] = "download"
        BY <1>1, <2>1 DEF Resume
    <2>2. CASE pc[j] # "download"
        BY <1>1, <2>2 DEF Resume
    <2>. QED
        BY <2>1, <2>2
<1>7. \A k \in Job : DiskOK(k)' /\ ListedOK(k)'
    BY <1>1, <1>2, <1>5 DEF DiskOK, ListedOK
<1>8. \A t \in threads : ThreadOK(t)'
    <2>1. ASSUME NEW t \in threads
          PROVE  ThreadOK(t)'
        <3>1. t \in Thread /\ t.job \in Job /\ ThreadOK(t)
            BY <1>2, ThreadFields
        <3>2. Awaited(t)' \/ GivenUp(t)'
            <4>1. CASE t.job = j /\ Awaited(t)
                BY <1>1, <1>2, <3>1, <4>1, ResumeGivesUp
            <4>2. CASE ~Awaited(t)
                BY <1>4, <3>1, <4>2, GivenUpStays DEF ThreadOK
            <4>3. CASE t.job # j
                BY <1>3, <3>1, <4>3, ThreadWaits DEF SameCall
            <4>. QED
                BY <4>1, <4>2, <4>3
        <3>. QED
            BY <1>1, <1>2, <1>4, <3>1, <3>2, ThreadStays DEF SameCall
    <2>. QED
        BY <2>1
<1>9. OneEach' /\ \A t \in threads' : ThreadOK(t)'
    BY <1>1, <1>2, <1>8 DEF OneEach, SameCall
<1>. QED
    BY <1>3, <1>4, <1>5, <1>6, <1>7, <1>9 DEF Coherent, Moves

\* A thread goes on, and its handler does not notice.
LEMMA BecomesCoherent ==
    ASSUME TypeOK, Coherent, NEW t \in threads, NEW u \in Thread, Becomes(t, u), SameCall(t, u),
           request' = request,
           u.call = "extract" /\ u.step > 0 => t.step > 0 \/ ~Refused(request[t.job])
    PROVE  /\ OneEach' /\ \A v \in threads' : ThreadOK(v)'
           /\ \A k \in Job : Same(k) /\ HandlerOK(k)' /\ Progress(k) /\ ListedOK(k)'
<1>1. /\ OneEach /\ \A v \in threads : ThreadOK(v) /\ v \in Thread /\ v.job \in Job
      /\ \A k \in Job : HandlerOK(k) /\ ListedOK(k) /\ request[k] \in Inputs[k]
    BY TypeParts, ThreadFields DEF Coherent
<1>2. threads' = (threads \ {t}) \cup {u} /\ \A k \in Job : Same(k)
    BY DEF Becomes, handlers, Same
<1>3. \A k \in Job : HandlerOK(k)' /\ Progress(k)
    BY <1>1, <1>2, SameHandler
<1>4. \A k \in Job : ListedOK(k)'
    BY <1>1, <1>2 DEF ListedOK, Same
<1>5. OneEach'
    BY <1>1, <1>2 DEF OneEach, SameCall
<1>6. ThreadOK(u)'
    BY <1>1, <1>2, <1>3, ThreadWaits, ThreadStays
<1>7. \A v \in threads : ThreadOK(v)'
    <2>1. ASSUME NEW v \in threads
          PROVE  ThreadOK(v)'
        <3>1. v \in Thread /\ v.job \in Job /\ ThreadOK(v)
            BY <1>1
        <3>2. Awaited(v)' \/ GivenUp(v)'
            BY <1>2, <3>1, ThreadWaits DEF SameCall
        <3>. QED
            BY <1>1, <1>3, <3>1, <3>2, ThreadStays DEF SameCall
    <2>. QED
        BY <2>1
<1>. QED
    BY <1>2, <1>3, <1>4, <1>5, <1>6, <1>7

\* A thread returns, to its handler if that still waits.
LEMMA ReturnCoherent ==
    ASSUME TypeOK, Coherent, NEW t \in threads, NEW ok \in BOOLEAN, Return(t, ok),
           request' = request,
           t.call = "convert" /\ ok => disk[t.job][t.file] # "none"
    PROVE  /\ OneEach' /\ \A v \in threads' : ThreadOK(v)'
           /\ \A k \in Job : HandlerOK(k)' /\ Progress(k)
           /\ \A k \in Job \ {t.job} : Same(k)
           /\ \A k \in Job :
                 /\ \/ paths'[k] = paths[k]
                    \/ k = t.job /\ t.call = "download" /\ ok /\ paths'[k] = paths[k] \cup {t.file}
                 /\ pc'[k] = "list" => pc[k] = "list" \/ (k = t.job /\ t.call = "extract" /\ ok)
<1>. DEFINE j == t.job
<1>1. /\ OneEach /\ \A v \in threads : ThreadOK(v) /\ v \in Thread /\ v.job \in Job
      /\ \A k \in Job : /\ HandlerOK(k) /\ DiskOK(k) /\ request[k] \in Inputs[k]
                        /\ request[k].type \in {"files", "archive"}
                        /\ Names(request[k]) \subseteq Name \ {Archive}
      /\ HandlersTyped /\ DiskTyped
    BY TypeParts, ThreadFields, RequestOf DEF Coherent
<1>2. threads' = threads \ {t} /\ j \in Job
    BY <1>1 DEF Return
<1>3. CASE ~Awaited(t)
    <2>1. \A k \in Job : Same(k)
        BY <1>3 DEF Return, handlers, Same
    <2>2. \A k \in Job : HandlerOK(k)' /\ Progress(k)
        BY <1>1, <2>1, SameHandler
    <2>3. \A v \in threads' : ThreadOK(v)'
        <3>1. ASSUME NEW v \in threads'
              PROVE  ThreadOK(v)'
            <4>1. v \in Thread /\ v.job \in Job /\ ThreadOK(v)
                BY <1>1, <1>2
            <4>2. Awaited(v)' \/ GivenUp(v)'
                BY <2>1, <4>1, ThreadWaits DEF SameCall
            <4>. QED
                BY <1>1, <2>2, <4>1, <4>2, ThreadStays DEF SameCall
        <3>. QED
            BY <3>1
    <2>4. OneEach'
        BY <1>1, <1>2 DEF OneEach, SameCall
    <2>. QED
        BY <2>1, <2>2, <2>3, <2>4 DEF Same
<1>4. CASE Awaited(t)
    <2>1. Resume(j, ok) /\ pc[j] = t.call /\ at[j] = t.file
        BY <1>4 DEF Return, Awaited
    <2>2. pc[j] = "convert" /\ ok => disk[j][at[j]] = "whole"
        <3>. SUFFICES ASSUME pc[j] = "convert", ok
                      PROVE  disk[j][at[j]] = "whole"
            OBVIOUS
        <3>1. at[j] \in paths[j] /\ at[j] \in Name \ {Archive}
            BY <1>1, <1>2 DEF HandlerOK, Results
        <3>2. disk[j][at[j]] # "partial"
            BY <1>1, <1>2, <3>1 DEF DiskOK
        <3>. QED
            BY <1>1, <1>2, <2>1, <3>1, <3>2 DEF DiskTyped
    <2>3. HandlerOK(j)' /\ Progress(j) /\ \A k \in Job \ {j} : Same(k)
        BY <1>1, <1>2, <2>1, <2>2, ResumeHandler
    <2>4. \A k \in Job : HandlerOK(k)' /\ Progress(k)
        BY <1>1, <2>3, SameHandler
    <2>5. \A v \in threads' : ThreadOK(v)'
        <3>1. ASSUME NEW v \in threads'
              PROVE  ThreadOK(v)'
            <4>1. v \in Thread /\ v.job \in Job /\ ThreadOK(v) /\ v \in threads /\ v # t
                BY <1>1, <1>2
            <4>2. Awaited(v)' \/ GivenUp(v)'
                <5>1. CASE v.job = j
                    <6>1. ~Awaited(v)
                        BY <1>1, <2>1, <4>1, <5>1 DEF OneEach, SameCall, Awaited
                    <6>. QED
                        BY <2>4, <4>1, <6>1, GivenUpStays DEF ThreadOK
                <5>2. CASE v.job # j
                    BY <2>3, <4>1, <5>2, ThreadWaits DEF SameCall
                <5>. QED
                    BY <5>1, <5>2
            <4>. QED
                BY <1>1, <2>4, <4>1, <4>2, ThreadStays DEF SameCall
        <3>. QED
            BY <3>1
    <2>6. OneEach'
        BY <1>1, <1>2 DEF OneEach, SameCall
    <2>7. \A k \in Job :
             /\ \/ paths'[k] = paths[k]
                \/ k = j /\ t.call = "download" /\ ok /\ paths'[k] = paths[k] \cup {t.file}
             /\ pc'[k] = "list" => pc[k] = "list" \/ (k = j /\ t.call = "extract" /\ ok)
        BY <1>2, <2>1, ResumePaths
    <2>. QED
        BY <2>3, <2>4, <2>5, <2>6, <2>7
<1>. QED
    BY <1>3, <1>4

LEMMA DiskStays ==
    ASSUME NEW k \in Job, DiskOK(k), request' = request, paths'[k] = paths[k],
           \A f \in Name : disk'[k][f] \in {disk[k][f], "none"},
           paths[k] \subseteq Name
    PROVE  DiskOK(k)'
BY DEF DiskOK

\* A step of a thread that leaves the files alone.
LEMMA QuietCoherent ==
    ASSUME TypeOK, Coherent, NEW t \in threads, request' = request, disk' = disk,
           \/ \E u \in Thread :
                 /\ Becomes(t, u) /\ SameCall(t, u)
                 /\ u.call = "extract" /\ u.step > 0 => t.step > 0 \/ ~Refused(request[t.job])
           \/ Return(t, FALSE)
           \/ /\ Return(t, TRUE) /\ t.call # "download"
              /\ t.call = "extract" => t.step > 0
              /\ t.call = "convert" => disk[t.job][t.file] # "none"
    PROVE  Coherent'
<1>1. \A k \in Job : DiskOK(k) /\ ListedOK(k) /\ paths[k] \subseteq Name
    BY TypeParts DEF Coherent, HandlersTyped
<1>2. CASE \E u \in Thread :
                 /\ Becomes(t, u) /\ SameCall(t, u)
                 /\ u.call = "extract" /\ u.step > 0 => t.step > 0 \/ ~Refused(request[t.job])
    <2>1. /\ OneEach' /\ \A v \in threads' : ThreadOK(v)'
          /\ \A k \in Job : Same(k) /\ HandlerOK(k)' /\ ListedOK(k)'
        BY <1>2, BecomesCoherent
    <2>2. \A k \in Job : DiskOK(k)'
        BY <1>1, <2>1, DiskStays DEF Same
    <2>. QED
        BY <2>1, <2>2 DEF Coherent
<1>3. ASSUME NEW ok \in BOOLEAN, Return(t, ok), ok => t.call # "download",
             ok /\ t.call = "extract" => t.step > 0,
             ok /\ t.call = "convert" => disk[t.job][t.file] # "none"
      PROVE  Coherent'
    <2>1. /\ OneEach' /\ \A v \in threads' : ThreadOK(v)'
          /\ \A k \in Job :
                /\ HandlerOK(k)' /\ paths'[k] = paths[k]
                /\ pc'[k] = "list" => pc[k] = "list" \/ (k = t.job /\ t.call = "extract" /\ ok)
        BY <1>3, ReturnCoherent
    <2>2. \A k \in Job : DiskOK(k)'
        BY <1>1, <2>1, DiskStays
    <2>3. t.call = "extract" /\ ok => ~Refused(request[t.job])
        BY <1>3 DEF Coherent, ThreadOK
    <2>4. \A k \in Job : ListedOK(k)'
        BY <1>1, <2>1, <2>3 DEF ListedOK
    <2>. QED
        BY <2>1, <2>2, <2>4 DEF Coherent
<1>. QED
    BY <1>2, <1>3

LEMMA ThreadCoherent ==
    ASSUME TypeOK, Coherent, NEW t \in threads, InThread(t)
    PROVE  Coherent'
<1>1. /\ t \in Thread /\ t.job \in Job /\ t.file \in Name /\ t.step \in Nat /\ ThreadOK(t)
      /\ \A k \in Job : /\ HandlerOK(k) /\ DiskOK(k) /\ ListedOK(k) /\ paths[k] \subseteq Name
                        /\ request[k].type \in {"files", "archive"}
                        /\ Names(request[k]) \subseteq Name \ {Archive}
    BY TypeParts, ThreadFields, RequestOf DEF Coherent, HandlersTyped
<1>2. request' = request
    BY ThreadMoves
<1>3. CASE Run(t)
    <2>1. Becomes(t, [t EXCEPT !.running = TRUE]) /\ disk' = disk
        BY <1>3 DEF Run, Becomes, files
    <2>2. /\ [t EXCEPT !.running = TRUE] \in Thread /\ SameCall(t, [t EXCEPT !.running = TRUE])
          /\ [t EXCEPT !.running = TRUE].step = t.step
        BY <1>1, ThreadRuns
    <2>. QED
        BY <1>2, <2>1, <2>2, QuietCoherent
<1>4. CASE SweepStat(t)
    <2>1. disk' = disk /\ t.call = "sweep"
        BY <1>4 DEF SweepStat, files
    <2>2. PICK u \in Thread : Becomes(t, u) /\ SameCall(t, u)
        <3>1. PICK k \in t.left :
                 Becomes(t, [t EXCEPT !.left = @ \ {k},
                                      !.doomed = IF dir[k] = "old" THEN {k} ELSE {}])
            BY <1>4 DEF SweepStat
        <3>. DEFINE l == t.left \ {k}
                    d == IF dir[k] = "old" THEN {k} ELSE {}
        <3>2. k \in Job /\ l \in SUBSET Job
            BY <1>1, ThreadFields
        <3>3. d \in SUBSET Job
            BY <3>2
        <3>4. Becomes(t, [t EXCEPT !.left = l, !.doomed = d])
            BY <3>1
        <3>. HIDE DEF l, d
        <3>. QED
            BY <1>1, <3>2, <3>3, <3>4, ThreadSweeps
    <2>. QED
        BY <1>2, <2>1, <2>2, QuietCoherent DEF SameCall
<1>5. CASE SweepRemove(t)
    <2>1. Becomes(t, [t EXCEPT !.doomed = {}]) /\ t.call = "sweep"
        BY <1>5 DEF SweepRemove
    <2>2. /\ [t EXCEPT !.doomed = {}] \in Thread /\ SameCall(t, [t EXCEPT !.doomed = {}])
        BY <1>1, ThreadSwept
    <2>3. /\ OneEach' /\ \A v \in threads' : ThreadOK(v)'
          /\ \A k \in Job : Same(k) /\ HandlerOK(k)' /\ ListedOK(k)'
        BY <1>2, <2>1, <2>2, BecomesCoherent DEF SameCall
    <2>4. \A k \in Job : \A f \in Name : disk'[k][f] \in {disk[k][f], "none"}
        BY <1>5, SweepRemoveWrites
    <2>5. \A k \in Job : DiskOK(k)'
        BY <1>1, <1>2, <2>3, <2>4, DiskStays DEF Same
    <2>. QED
        BY <2>3, <2>5 DEF Coherent
<1>6. CASE OpenFiles(t)
    <2>1. CASE Return(t, FALSE) /\ UNCHANGED files
        BY <1>2, <2>1, QuietCoherent DEF files
    <2>2. CASE /\ \A k \in Job, g \in Name :
                     disk'[k][g] = IF k = t.job /\ g = t.file THEN "partial" ELSE disk[k][g]
               /\ Becomes(t, [t EXCEPT !.step = 1])
        <3>1. t.call = "download"
            BY <1>6 DEF OpenFiles
        <3>2. [t EXCEPT !.step = 1] \in Thread /\ SameCall(t, [t EXCEPT !.step = 1])
            BY <1>1, ThreadGoesOn
        <3>3. /\ OneEach' /\ \A v \in threads' : ThreadOK(v)'
              /\ \A k \in Job : Same(k) /\ HandlerOK(k)' /\ ListedOK(k)'
            BY <1>2, <2>2, <3>1, <3>2, BecomesCoherent DEF SameCall
        <3>4. ASSUME NEW k \in Job
              PROVE  DiskOK(k)'
            <4>1. CASE request[k].type = "files"
                <5>1. k = t.job => t.file \notin paths[k]
                    BY <1>1, <3>1, <4>1 DEF ThreadOK
                <5>2. \A g \in paths[k] : disk'[k][g] = disk[k][g]
                    BY <1>1, <2>2, <5>1
                <5>. QED
                    BY <1>1, <1>2, <3>3, <4>1, <5>2 DEF DiskOK, Same
            <4>2. CASE request[k].type # "files"
                <5>1. k = t.job => t.file = Archive
                    BY <1>1, <3>1, <4>2 DEF ThreadOK
                <5>2. \A g \in Name \ {Archive} : disk'[k][g] = disk[k][g]
                    BY <2>2, <5>1
                <5>. QED
                    BY <1>1, <1>2, <4>2, <5>2 DEF DiskOK
            <4>. QED
                BY <4>1, <4>2
        <3>. QED
            BY <3>3, <3>4 DEF Coherent
    <2>. QED
        BY <1>6, <2>1, <2>2, OpenFilesWrites
<1>7. CASE CopyFile(t)
    <2>1. CASE Return(t, FALSE) /\ UNCHANGED disk
        BY <1>2, <2>1, QuietCoherent
    <2>2. CASE /\ Return(t, TRUE)
               /\ \A k \in Job, g \in Name :
                     disk'[k][g] = IF k = t.job /\ g = t.file /\ disk[k][g] # "none"
                                   THEN "whole" ELSE disk[k][g]
        <3>1. t.call = "download"
            BY <1>7 DEF CopyFile
        <3>2. /\ OneEach' /\ \A v \in threads' : ThreadOK(v)'
              /\ \A k \in Job :
                    /\ HandlerOK(k)'
                    /\ \/ paths'[k] = paths[k]
                       \/ k = t.job /\ paths'[k] = paths[k] \cup {t.file}
                    /\ pc'[k] = "list" => pc[k] = "list"
            BY <1>2, <2>2, <3>1, ReturnCoherent
        <3>3. ASSUME NEW k \in Job
              PROVE  DiskOK(k)'
            <4>1. CASE request[k].type = "files"
                <5>1. ASSUME NEW g \in paths'[k]
                      PROVE  disk'[k][g] # "partial"
                    <6>1. CASE k = t.job /\ g = t.file
                        BY <1>1, <2>2, <6>1
                    <6>2. CASE ~(k = t.job /\ g = t.file)
                        <7>1. g \in paths[k] /\ g \in Name
                            BY <1>1, <3>2, <5>1, <6>2
                        <7>2. disk'[k][g] = disk[k][g]
                            BY <2>2, <6>2, <7>1
                        <7>. QED
                            BY <1>1, <4>1, <7>1, <7>2 DEF DiskOK
                    <6>. QED
                        BY <6>1, <6>2
                <5>. QED
                    BY <1>2, <4>1, <5>1 DEF DiskOK
            <4>2. CASE request[k].type # "files"
                <5>1. k = t.job => t.file = Archive
                    BY <1>1, <3>1, <4>2 DEF ThreadOK
                <5>2. \A g \in Name \ {Archive} : disk'[k][g] = disk[k][g]
                    BY <2>2, <5>1
                <5>. QED
                    BY <1>1, <1>2, <4>2, <5>2 DEF DiskOK
            <4>. QED
                BY <4>1, <4>2
        <3>4. \A k \in Job : ListedOK(k)'
            BY <1>1, <1>2, <3>2 DEF ListedOK
        <3>. QED
            BY <3>2, <3>3, <3>4 DEF Coherent
    <2>. QED
        BY <1>7, <2>1, <2>2, CopyFileWrites
<1>8. CASE OpenArchive(t)
    <2>1. disk' = disk /\ t.call = "extract" /\ t.step = 0
        BY <1>8 DEF OpenArchive, files
    <2>2. \/ Return(t, FALSE)
          \/ ~Refused(request[t.job]) /\ Becomes(t, [t EXCEPT !.step = 1])
        BY <1>8 DEF OpenArchive
    <2>3. [t EXCEPT !.step = 1] \in Thread /\ SameCall(t, [t EXCEPT !.step = 1])
        BY <1>1, ThreadGoesOn
    <2>. QED
        BY <1>2, <2>1, <2>2, <2>3, QuietCoherent
<1>9. CASE ExtractMember(t)
    <2>1. t.call = "extract" /\ t.step \in DOMAIN request[t.job].parts
        BY <1>9, ExtractMemberWrites
    <2>2. t.step > 0
        <3>1. request[t.job].parts \in Seq(Part)
            BY <1>1, TypeParts, RequestOf
        <3>. QED
            BY <2>1, <3>1
    <2>3. ~Refused(request[t.job]) /\ request[t.job].type = "archive"
        BY <1>1, <2>1, <2>2 DEF ThreadOK
    <2>4. CASE Return(t, FALSE) /\ UNCHANGED files
        BY <1>2, <2>4, QuietCoherent DEF files
    <2>5. CASE /\ Becomes(t, [t EXCEPT !.step = t.step + 1])
               /\ LET p == request[t.job].parts[t.step] IN
                  \A k \in Job, g \in Name :
                     disk'[k][g] = IF k = t.job /\ g = p.name /\ Writes(request[t.job], p)
                                   THEN "whole" ELSE disk[k][g]
        <3>1. /\ [t EXCEPT !.step = t.step + 1] \in Thread
              /\ SameCall(t, [t EXCEPT !.step = t.step + 1])
            BY <1>1, ThreadGoesOn
        <3>2. /\ OneEach' /\ \A v \in threads' : ThreadOK(v)'
              /\ \A k \in Job : Same(k) /\ HandlerOK(k)' /\ ListedOK(k)'
            BY <1>2, <2>2, <2>5, <3>1, BecomesCoherent
        <3>3. ASSUME NEW k \in Job
              PROVE  DiskOK(k)'
            <4>1. CASE k = t.job
                <5>1. \A g \in Name : disk'[k][g] = "whole" \/ disk'[k][g] = disk[k][g]
                    BY <2>5, <4>1
                <5>. QED
                    BY <1>1, <1>2, <2>3, <4>1, <5>1 DEF DiskOK
            <4>2. CASE k # t.job
                BY <1>1, <1>2, <2>5, <3>2, <4>2, DiskStays DEF Same
            <4>. QED
                BY <4>1, <4>2
        <3>. QED
            BY <3>2, <3>3 DEF Coherent
    <2>. QED
        BY <1>9, <2>4, <2>5, ExtractMemberWrites
<1>10. CASE SweepEnd(t) \/ ExtractEnd(t) \/ Convert(t)
    <2>1. disk' = disk
        BY <1>10 DEF SweepEnd, ExtractEnd, Convert, files
    <2>2. \/ Return(t, FALSE)
          \/ /\ Return(t, TRUE) /\ t.call # "download"
             /\ t.call = "extract" => t.step > 0
             /\ t.call = "convert" => disk[t.job][t.file] # "none"
        <3>1. CASE SweepEnd(t)
            BY <3>1 DEF SweepEnd
        <3>2. CASE ExtractEnd(t)
            <4>1. request[t.job].parts \in Seq(Part)
                BY <1>1, TypeParts, RequestOf
            <4>2. Len(request[t.job].parts) \in Nat
                BY <4>1
            <4>3. t.step = Len(request[t.job].parts) + 1 /\ t.call = "extract" /\ Return(t, TRUE)
                BY <3>2 DEF ExtractEnd
            <4>4. t.step > 0
                BY <4>2, <4>3
            <4>. QED
                BY <4>3, <4>4
        <3>3. CASE Convert(t)
            BY <3>3 DEF Convert
        <3>. QED
            BY <1>10, <3>1, <3>2, <3>3
    <2>. QED
        BY <1>2, <2>1, <2>2, QuietCoherent
<1>. QED
    BY <1>3, <1>4, <1>5, <1>6, <1>7, <1>8, <1>9, <1>10 DEF InThread

LEMMA CoherentSame ==
    ASSUME Coherent, UNCHANGED <<request, handlers, disk, threads>>
    PROVE  Coherent'
<1>1. OneEach' /\ \A t \in threads' : ThreadOK(t)'
    BY DEF Coherent, handlers, OneEach, ThreadOK, Awaited, GivenUp
<1>2. ASSUME NEW j \in Job
      PROVE  HandlerOK(j)' /\ DiskOK(j)' /\ ListedOK(j)'
    <2>1. HandlerOK(j)'
        BY SameHandler DEF Coherent, handlers, Same
    <2>2. DiskOK(j)' /\ ListedOK(j)'
        BY DEF Coherent, handlers, DiskOK, ListedOK
    <2>. QED
        BY <2>1, <2>2
<1>. QED
    BY <1>1, <1>2 DEF Coherent

LEMMA CoherentInit == Init => Coherent
<1>. SUFFICES ASSUME Init
              PROVE  Coherent
    OBVIOUS
<1>1. threads = {} /\ OneEach
    BY DEF Init, OneEach
<1>2. ASSUME NEW j \in Job
      PROVE  HandlerOK(j) /\ DiskOK(j) /\ ListedOK(j)
    <2>1. /\ pc[j] = "new" /\ at[j] = Archive /\ paths[j] = {} /\ errors[j] = {}
          /\ \A f \in Name : outcome[j][f] = "none" /\ disk[j][f] = "none"
        BY DEF Init
    <2>2. HandlerOK(j)
        BY <2>1 DEF HandlerOK, Results, ListRequest, ArchiveRequest, Early, Late
    <2>3. DiskOK(j) /\ ListedOK(j)
        BY <2>1 DEF DiskOK, ListedOK
    <2>. QED
        BY <2>2, <2>3
<1>. QED
    BY <1>1, <1>2 DEF Coherent

LEMMA CoherentStep == TypeOK /\ Coherent /\ [Next]_filesVars => Coherent'
<1>. SUFFICES ASSUME TypeOK, Coherent, [Next]_filesVars
              PROVE  Coherent'
    OBVIOUS
<1>1. CASE UNCHANGED filesVars
    BY <1>1, CoherentSame DEF filesVars, files
<1>2. ASSUME NEW j \in Job, HandlerStep(j)
      PROVE  Coherent'
    BY <1>2, HandlerCoherent
<1>3. ASSUME NEW j \in Job, Timeout(j)
      PROVE  Coherent'
    BY <1>3, TimeoutCoherent
<1>4. ASSUME NEW j \in Job, Age(j)
      PROVE  Coherent'
    BY <1>4, CoherentSame DEF Age
<1>5. ASSUME NEW t \in threads, InThread(t)
      PROVE  Coherent'
    BY <1>5, ThreadCoherent
<1>. QED
    BY <1>1, <1>2, <1>3, <1>4, <1>5 DEF Next, Proceed, HandlerStep

\* A call that has timed out goes on writing, but only to a file its handler
\* has put on the list of errors and does not open again: no transcript is
\* that of a file cut short (file_manager.py, download_files;
\* audio_processor.py).
THEOREM NeverCutShort == Spec => []NothingCutShort
<1>1. Coherent => NothingCutShort
    BY DEF Coherent, HandlerOK, Results, NothingCutShort
<1>. QED
    BY <1>1, TypeInit, TypeStep, CoherentInit, CoherentStep, PTL DEF Spec

-----------------------------------------------------------------------------
(* What a handler counts on is there.                                      *)

(* Nobody will take the directory away.                                    *)
Safe(j) == dir[j] = "fresh" /\ \A t \in threads : j \notin t.doomed

Unpacked(j, n) ==
    \A i \in DOMAIN request[j].parts :
       i < n /\ Writes(request[j], request[j].parts[i]) =>
          disk[j][request[j].parts[i].name] # "none"

AllUnpacked(j) ==
    \A i \in DOMAIN request[j].parts :
       Writes(request[j], request[j].parts[i]) => disk[j][request[j].parts[i].name] # "none"

Made(t) ==
    /\ t.call = "download" /\ t.step > 0 => disk[t.job][t.file] # "none"
    /\ t.call = "extract" => Unpacked(t.job, t.step)

(* The members that os.listdir and isfile find.                            *)
Due(q) == {n \in Names(q) : Listed(Last(q, n).kind) /\
                            ~(q.format = "tar" /\ Last(q, n).kind = "link")}

Has(j) ==
    /\ pc[j] = "unpack" => disk[j][Archive] # "none"
    /\ \A f \in paths[j] : disk[j][f] # "none"
    /\ pc[j] = "list" => AllUnpacked(j)
    /\ request[j].type = "archive" /\ pc[j] \in Late /\ Archive \notin errors[j] =>
          Due(request[j]) \subseteq paths[j] \cup errors[j]

StayOK(j) == met[j] = {} =>
    /\ pc[j] # "raised" /\ (pc[j] \notin Early => Safe(j))
    /\ Has(j) /\ \A t \in threads : t.job = j => Made(t)

AnsweredOK(j) == pc[j] = "answered" => \A f \in paths[j] : outcome[j][f] # "none"

Stays == \A j \in Job : StayOK(j) /\ AnsweredOK(j)

Kept(j) == \A f \in Name : disk[j][f] # "none" => disk'[j][f] # "none"

LEMMA EarlyThreads ==
    ASSUME TypeOK, Coherent, NEW t \in threads, pc[t.job] \in Early
    PROVE  t.call = "sweep"
<1>1. t.job \in Job /\ t.call \in Call /\ t.file \in Name /\ ThreadOK(t)
    BY TypeParts, ThreadFields DEF Coherent
<1>2. /\ paths[t.job] = {} /\ errors[t.job] = {}
      /\ \A f \in Name : outcome[t.job][f] = "none"
    BY <1>1 DEF Coherent, HandlerOK, Results
<1>3. Awaited(t) \/ GivenUp(t)
    BY <1>1 DEF ThreadOK
<1>. QED
    BY <1>1, <1>2, <1>3 DEF Awaited, GivenUp, Early, Call

\* The places of a request.
LEMMA PlacesOf ==
    ASSUME NEW j \in Job, request[j] \in Inputs[j]
    PROVE  /\ Len(request[j].parts) \in Nat
           /\ DOMAIN request[j].parts = 1..Len(request[j].parts)
           /\ \A i \in DOMAIN request[j].parts : request[j].parts[i].name \in Name
BY RequestOf

LEMMA MadeStays ==
    ASSUME TypeOK, NEW t \in Thread, NEW u \in Thread, SameCall(t, u), u.step = t.step,
           Made(t), Kept(t.job), request' = request
    PROVE  Made(u)'
<1>1. t.job \in Job /\ t.file \in Name
    BY ThreadFields
<1>2. \A i \in DOMAIN request[t.job].parts : request[t.job].parts[i].name \in Name
    BY <1>1, TypeParts, PlacesOf
<1>. QED
    BY <1>1, <1>2 DEF Made, Unpacked, Kept, SameCall

\* A thread that has not begun has made nothing yet.
LEMMA MadeNew ==
    ASSUME TypeOK, NEW u \in Thread, u.step = 0, request' = request
    PROVE  Made(u)'
<1>1. u.job \in Job
    BY ThreadFields
<1>2. \A i \in DOMAIN request[u.job].parts : ~(i < 0)
    BY <1>1, TypeParts, PlacesOf
<1>. QED
    BY <1>1, <1>2 DEF Made, Unpacked

\* How a handler goes on that has waited.
LEMMA ResumeStays ==
    ASSUME TypeOK, NEW j \in Job, HandlerOK(j), NEW ok \in BOOLEAN, Resume(j, ok)
    PROVE  /\ pc'[j] \notin {"raised", "answered"} /\ pc[j] \in Call
           /\ pc[j] \in Early => pc'[j] \in Early
           /\ pc'[j] = "unpack" => pc[j] = "download" /\ ok /\ at[j] = Archive
           /\ request[j].type = "archive" /\ pc'[j] \in Late /\ Archive \notin errors'[j] =>
                 pc[j] \in Late /\ errors' = errors
<1>1. HandlersTyped
    BY TypeParts
<1>2. CASE pc[j] = "sweep"
    BY <1>1, <1>2, GoesTo DEF Resume, Early, Late, Call
<1>3. CASE pc[j] = "download" /\ ok
    <2>1. Goto(j, IF at[j] = Archive THEN "unpack" ELSE "fetch")
        BY <1>3 DEF Resume
    <2>. QED
        BY <1>1, <1>3, <2>1, GoesTo DEF Early, Late, Call
<1>4. CASE pc[j] = "download" /\ ~ok
    <2>1. Fails(j, at[j], IF at[j] = Archive THEN "transcribe" ELSE "fetch")
        BY <1>4 DEF Resume
    <2>2. /\ at[j] \in errors'[j]
          /\ pc'[j] = IF at[j] = Archive THEN "transcribe" ELSE "fetch"
        BY <1>1, <2>1, GoesTo DEF Fails, HandlersTyped
    <2>. QED
        BY <1>4, <2>2 DEF Early, Late, Call
<1>5. CASE pc[j] = "extract" /\ ok
    BY <1>1, <1>5, GoesTo DEF Resume, Early, Late, Call
<1>6. CASE pc[j] = "extract" /\ ~ok
    <2>1. Fails(j, Archive, "transcribe")
        BY <1>6 DEF Resume
    <2>2. Archive \in errors'[j] /\ pc'[j] = "transcribe"
        BY <1>1, <2>1, GoesTo DEF Fails, HandlersTyped
    <2>. QED
        BY <1>6, <2>2 DEF Early, Late, Call
<1>7. CASE pc[j] = "convert"
    <2>1. errors' = errors /\ (Goto(j, "converted") \/ Goto(j, "transcribe"))
        BY <1>7 DEF Resume
    <2>. QED
        BY <1>1, <1>7, <2>1, GoesTo DEF Early, Late, Call
<1>. QED
    BY <1>2, <1>3, <1>4, <1>5, <1>6, <1>7 DEF Resume

\* What a handler that does not wait changes of the directories.
LEMMA HandlerDirs ==
    ASSUME TypeOK, NEW j \in Job, HandlerStep(j)
    PROVE  /\ \A k \in Job \ {j} : dir'[k] = dir[k] /\ met'[k] = met[k]
           /\ met[j] \subseteq met'[j]
           /\ dir[j] = "fresh" => dir'[j] = "fresh"
           /\ pc[j] # "prepare" => met' = met
<1>1. DiskTyped
    BY TypeParts
<1>2. CASE Prepare(j)
    BY <1>1, <1>2 DEF Prepare, DiskTyped
<1>3. CASE Unpack(j)
    <2>1. /\ dir' = dir \/ dir' = [dir EXCEPT ![j] = "fresh"]
          /\ met' = met
        BY <1>3 DEF Unpack
    <2>. QED
        BY <1>1, <2>1 DEF DiskTyped
<1>4. CASE ~(Prepare(j) \/ Unpack(j))
    BY <1>4 DEF HandlerStep, Begin, Fetch, ListFiles, Transcribe, AskModel, Answer, files
<1>. QED
    BY <1>2, <1>3, <1>4

\* The directory of another job, and all that is in it, stays.
LEMMA OtherStays ==
    ASSUME TypeOK, Coherent, Stays, NEW j \in Job, HandlerStep(j), NEW k \in Job \ {j}
    PROVE  StayOK(k)' /\ AnsweredOK(k)'
<1>1. Same(k) /\ disk' = disk /\ request' = request /\ dir'[k] = dir[k] /\ met'[k] = met[k]
    BY HandlerSteps, HandlerDirs DEF Moves
<1>2. StayOK(k) /\ AnsweredOK(k)
    BY DEF Stays
<1>3. AnsweredOK(k)'
    BY <1>1, <1>2 DEF AnsweredOK, Same
<1>4. \A t \in threads : Made(t) => Made(t)'
    BY <1>1 DEF Made, Unpacked
<1>5. \A t \in threads' : t \in threads \/ (t.job # k /\ t.doomed = {})
    BY HandlerThreads
<1>6. Has(k) => Has(k)'
    BY <1>1 DEF Has, AllUnpacked, Same
<1>7. pc[k] \notin Early /\ Safe(k) => Safe(k)'
    BY <1>1, <1>5 DEF Safe
<1>8. StayOK(k)'
    <2>. SUFFICES ASSUME met'[k] = {}
                  PROVE  /\ pc'[k] # "raised" /\ (pc'[k] \notin Early => Safe(k)')
                         /\ Has(k)' /\ \A t \in threads' : t.job = k => Made(t)'
        BY DEF StayOK
    <2>1. /\ pc[k] # "raised" /\ (pc[k] \notin Early => Safe(k))
          /\ Has(k) /\ \A t \in threads : t.job = k => Made(t)
        BY <1>1, <1>2 DEF StayOK
    <2>. QED
        BY <1>1, <1>4, <1>5, <1>6, <1>7, <2>1 DEF Same
<1>. QED
    BY <1>3, <1>8

\* A list has all that is due.
LEMMA ListedDue ==
    ASSUME TypeOK, NEW j \in Job, AllUnpacked(j), ~Refused(request[j]),
           NEW n \in Due(request[j])
    PROVE  disk[j][n] # "none"
<1>. DEFINE q == request[j]
            places == {i \in DOMAIN q.parts : q.parts[i].name = n}
            m == Max(places)
<1>1. /\ q.parts \in Seq(Part) /\ q.format \in {"zip", "tar", "rar"} /\ n \in Names(q)
      /\ Len(q.parts) \in Nat /\ DOMAIN q.parts = 1..Len(q.parts)
    BY TypeParts, RequestOf DEF Due
<1>2. places \in SUBSET (1..Len(q.parts)) /\ places # {}
    BY <1>1 DEF Names
<1>3. m \in places
    BY <1>1, <1>2, MaxOfPlaces
<1>4. Last(q, n) = q.parts[m]
    BY DEF Last
<1>. HIDE DEF m
<1>5. m \in DOMAIN q.parts /\ q.parts[m].name = n
    BY <1>3
<1>6. /\ q.parts[m].kind \in {"audio", "script", "link"} /\ q.format # "rar"
      /\ ~(q.format = "tar" /\ q.parts[m].kind = "link")
    BY <1>4 DEF Due, Listed, Refused
<1>7. Writes(q, q.parts[m])
    BY <1>1, <1>6 DEF Writes, IsFile
<1>. QED
    BY <1>5, <1>7 DEF AllUnpacked

\* A handler that does not wait finds what it needs.
LEMMA MoverStays ==
    ASSUME TypeOK, Coherent, Stays, NEW j \in Job, HandlerStep(j)
    PROVE  StayOK(j)' /\ AnsweredOK(j)'
<1>1. /\ disk' = disk /\ request' = request /\ met[j] \subseteq met'[j]
      /\ dir[j] = "fresh" => dir'[j] = "fresh"
      /\ HandlerOK(j) /\ ListedOK(j) /\ HandlerOK(j)' /\ Progress(j)
      /\ request[j].type \in {"files", "archive"} /\ HandlersTyped /\ DiskTyped
    BY HandlerSteps, HandlerDirs, TypeParts, RequestOf DEF Moves, Coherent
<1>2. StayOK(j) /\ AnsweredOK(j)
    BY DEF Stays
<1>3. AnsweredOK(j)'
    <2>1. CASE Answer(j)
        <3>1. \A f \in paths[j] : outcome[j][f] # "none"
            BY <2>1 DEF Answer, ToTranscribe
        <3>. QED
            BY <2>1, <3>1 DEF AnsweredOK, Answer
    <2>2. CASE ~Answer(j)
        <3>1. pc'[j] # "answered"
            BY <1>1, <2>2, GoesTo, WaitsFor
               DEF HandlerStep, Begin, Prepare, Fetch, Unpack, ListFiles, Transcribe, AskModel, Fails
        <3>. QED
            BY <3>1 DEF AnsweredOK
    <2>. QED
        BY <2>1, <2>2
<1>4. StayOK(j)'
    <2>. SUFFICES ASSUME met'[j] = {}
                  PROVE  /\ pc'[j] # "raised" /\ (pc'[j] \notin Early => Safe(j)')
                         /\ Has(j)' /\ \A t \in threads' : t.job = j => Made(t)'
        BY DEF StayOK
    <2>1. /\ pc[j] # "raised" /\ (pc[j] \notin Early => Safe(j))
          /\ Has(j) /\ \A t \in threads : t.job = j => Made(t)
        BY <1>1, <1>2 DEF StayOK
    <2>2. \A t \in threads' : t.job = j => Made(t)'
        <3>1. \A t \in threads : Made(t) => Made(t)'
            BY <1>1 DEF Made, Unpacked
        <3>2. \A t \in threads' : t \in threads \/ (t \in Thread /\ t.step = 0)
            BY HandlerThreads
        <3>. QED
            BY <1>1, <2>1, <3>1, <3>2, MadeNew
    <2>3. pc'[j] \notin Early => Safe(j)'
        <3>1. \A t \in threads' : t \in threads \/ t.doomed = {}
            BY HandlerThreads
        <3>2. CASE pc[j] \notin Early
            BY <1>1, <2>1, <3>1, <3>2 DEF Safe
        <3>3. CASE Prepare(j)
            <4>1. /\ ~(dir[j] = "old" \/ \E t \in threads : j \in t.doomed)
                  /\ threads' = threads
                <5>1. met' = IF dir[j] = "old" \/ \E t \in threads : j \in t.doomed
                             THEN [met EXCEPT ![j] = @ \cup {"swept"}] ELSE met
                    BY <3>3 DEF Prepare
                <5>. QED
                    BY <1>1, <3>3, <5>1 DEF Prepare, DiskTyped
            <4>2. dir'[j] = "fresh"
                BY <1>1, <3>3, <4>1 DEF Prepare, DiskTyped
            <4>. QED
                BY <4>1, <4>2 DEF Safe
        <3>4. CASE Begin(j)
            BY <1>1, <3>4, WaitsFor DEF Begin, Early
        <3>5. CASE ~(Prepare(j) \/ Begin(j))
            <4>1. pc[j] \notin Early
                BY <3>5 DEF HandlerStep, Fetch, Unpack, ListFiles, Transcribe, AskModel, Answer, Early
            <4>. QED
                BY <3>2, <4>1
        <3>. QED
            BY <3>3, <3>4, <3>5
    <2>4. pc'[j] # "raised" /\ Has(j)'
        <3>1. CASE Begin(j) \/ Prepare(j)
            <4>1. pc'[j] \in {"sweep", "fetch"} /\ paths' = paths /\ errors' = errors
                BY <1>1, <3>1, GoesTo, WaitsFor DEF Begin, Prepare
            <4>. QED
                BY <1>1, <2>1, <4>1 DEF Has, Late
        <3>2. CASE Fetch(j)
            <4>1. /\ pc'[j] = IF ToFetch(j) = {} THEN "transcribe" ELSE "download"
                  /\ paths' = paths /\ errors' = errors
                BY <1>1, <3>2, GoesTo, WaitsFor DEF Fetch
            <4>2. request[j].type = "archive" => pc'[j] = "download"
                BY <4>1 DEF ToFetch
            <4>. QED
                BY <1>1, <2>1, <4>1, <4>2 DEF Has, Late
        <3>3. CASE Unpack(j)
            <4>1. disk[j][Archive] # "none"
                BY <2>1, <3>3 DEF Unpack, Has
            <4>2. \/ Fails(j, Archive, "transcribe")
                  \/ Await(j, "extract", Archive)
                BY <3>3, <4>1 DEF Unpack
            <4>3. /\ pc'[j] \in {"transcribe", "extract"} /\ paths' = paths
                  /\ pc'[j] = "transcribe" => Archive \in errors'[j]
                BY <1>1, <3>3, <4>2, GoesTo, WaitsFor DEF Unpack, Fails, HandlersTyped
            <4>. QED
                BY <1>1, <2>1, <4>3 DEF Has, Late
        <3>4. CASE ListFiles(j)
            <4>. DEFINE found == {f \in Names(request[j]) :
                                    disk[j][f] # "none" /\ Listed(Last(request[j], f).kind)}
                        scripts == {f \in found : Last(request[j], f).kind = "script"}
            <4>1. pc[j] = "list" /\ dir[j] # "none"
                BY <2>1, <3>4 DEF ListFiles, Safe, Early
            <4>2. /\ paths' = [paths EXCEPT ![j] = found \ scripts]
                  /\ errors' = [errors EXCEPT ![j] = @ \cup scripts] /\ Goto(j, "transcribe")
                BY <3>4, <4>1 DEF ListFiles
            <4>3. Due(request[j]) \subseteq found
                <5>1. AllUnpacked(j) /\ ~Refused(request[j])
                    BY <1>1, <2>1, <4>1 DEF Has, ListedOK
                <5>. QED
                    BY <5>1, ListedDue DEF Due
            <4>4. \A f \in found : disk[j][f] # "none"
                OBVIOUS
            <4>. HIDE DEF found, scripts
            <4>5. /\ paths'[j] = found \ scripts /\ errors'[j] = errors[j] \cup scripts
                  /\ pc'[j] = "transcribe"
                BY <1>1, <4>2, GoesTo DEF HandlersTyped
            <4>. QED
                BY <1>1, <4>3, <4>4, <4>5 DEF Has
        <3>5. CASE Transcribe(j) \/ AskModel(j) \/ Answer(j)
            <4>1. pc[j] \in Late /\ paths' = paths /\ errors' = errors
                BY <3>5 DEF Transcribe, AskModel, Answer, Late
            <4>2. pc'[j] \in {"convert", "transcribe", "answered"}
                BY <1>1, <3>5, GoesTo, WaitsFor DEF Transcribe, AskModel, Answer
            <4>. QED
                BY <1>1, <2>1, <4>1, <4>2 DEF Has, Late
        <3>. QED
            BY <3>1, <3>2, <3>3, <3>4, <3>5 DEF HandlerStep
    <2>. QED
        BY <2>2, <2>3, <2>4
<1>. QED
    BY <1>3, <1>4

LEMMA TimeoutStays ==
    ASSUME TypeOK, Coherent, Stays, NEW j \in Job, Timeout(j)
    PROVE  Stays'
<1>1. /\ Resume(j, FALSE) /\ request' = request /\ disk' = disk /\ dir' = dir /\ met' = met
      /\ threads' \subseteq threads /\ HandlerOK(j)
    BY DEF Timeout, files, Coherent
<1>2. /\ paths' = paths /\ \A k \in Job : pc'[k] = "list" => pc[k] = "list"
      /\ \A k \in Job \ {j} : Same(k)
    BY TimeoutCoherent DEF Moves
<1>3. \A t \in threads : Made(t) => Made(t)'
    BY <1>1 DEF Made, Unpacked
<1>4. ASSUME NEW k \in Job \ {j}
      PROVE  StayOK(k)' /\ AnsweredOK(k)'
    <2>1. StayOK(k) /\ AnsweredOK(k) /\ Same(k)
        BY <1>2 DEF Stays
    <2>2. AnsweredOK(k)'
        BY <2>1 DEF AnsweredOK, Same
    <2>3. Has(k) => Has(k)'
        BY <1>1, <2>1 DEF Has, AllUnpacked, Same
    <2>4. Safe(k) => Safe(k)'
        BY <1>1 DEF Safe
    <2>5. StayOK(k)'
        BY <1>1, <1>3, <2>1, <2>3, <2>4 DEF StayOK, Same
    <2>. QED
        BY <2>2, <2>5
<1>5. StayOK(j)' /\ AnsweredOK(j)'
    <2>1. /\ pc'[j] \notin {"raised", "answered"}
          /\ pc[j] \in Early => pc'[j] \in Early
          /\ pc'[j] # "unpack"
          /\ request[j].type = "archive" /\ pc'[j] \in Late /\ Archive \notin errors'[j] =>
                pc[j] \in Late /\ errors' = errors
        BY <1>1, ResumeStays
    <2>2. StayOK(j) /\ AnsweredOK(j)'
        BY <2>1 DEF Stays, AnsweredOK
    <2>3. Has(j) => Has(j)'
        BY <1>1, <1>2, <2>1 DEF Has, AllUnpacked
    <2>4. Safe(j) => Safe(j)'
        BY <1>1 DEF Safe
    <2>5. StayOK(j)'
        BY <1>1, <1>3, <2>1, <2>2, <2>3, <2>4 DEF StayOK
    <2>. QED
        BY <2>2, <2>5
<1>. QED
    BY <1>4, <1>5 DEF Stays

\* A thread takes nothing away of a job that is under way.
ThreadKeeps(j) == /\ dir'[j] = "fresh" /\ Kept(j)
                  /\ \A t \in threads' : j \notin t.doomed

\* A thread goes on; what it has made is there.
LEMMA BecomesStays ==
    ASSUME TypeOK, Coherent, Stays, NEW t \in threads, NEW u \in Thread, Becomes(t, u),
           SameCall(t, u), request' = request, met' = met,
           NEW j \in Job, met[j] = {} /\ pc[j] \notin Early => ThreadKeeps(j),
           met[j] = {} /\ pc[j] \notin Early /\ t.job = j => Made(u)'
    PROVE  StayOK(j)' /\ AnsweredOK(j)'
<1>1. Same(j) /\ threads' = (threads \ {t}) \cup {u}
    BY DEF Becomes, handlers, Same
<1>2. StayOK(j) /\ AnsweredOK(j) /\ HandlerOK(j) /\ paths[j] \subseteq Name
    BY TypeParts DEF Stays, Coherent, HandlersTyped
<1>3. AnsweredOK(j)'
    BY <1>1, <1>2 DEF AnsweredOK, Same
<1>4. CASE met[j] = {} /\ pc[j] \notin Early
    <2>1. /\ pc[j] # "raised" /\ Has(j) /\ ThreadKeeps(j)
          /\ \A v \in threads : v.job = j => Made(v)
        BY <1>2, <1>4 DEF StayOK
    <2>2. Has(j)'
        <3>1. AllUnpacked(j) => AllUnpacked(j)'
            BY <2>1, TypeParts, PlacesOf DEF AllUnpacked, Kept, ThreadKeeps
        <3>. QED
            BY <1>1, <1>2, <2>1, <3>1, NamesAreNumbers DEF Has, Same, Kept, ThreadKeeps
    <2>3. \A v \in threads' : v.job = j => Made(v)'
        <3>1. ASSUME NEW v \in threads, v.job = j
              PROVE  Made(v)'
            <4>1. v \in Thread /\ Made(v) /\ Kept(v.job)
                BY <2>1, <3>1, TypeParts DEF ThreadKeeps
            <4>. QED
                BY <4>1, MadeStays DEF SameCall
        <3>. QED
            BY <1>1, <1>4, <3>1 DEF SameCall
    <2>4. Safe(j)'
        BY <2>1 DEF Safe, ThreadKeeps
    <2>. QED
        BY <1>1, <1>3, <2>1, <2>2, <2>3, <2>4 DEF StayOK, Same
<1>5. CASE met[j] = {} /\ pc[j] \in Early
    <2>1. pc'[j] \in Early /\ paths'[j] = {}
        BY <1>1, <1>2, <1>5 DEF Same, HandlerOK, Results
    <2>2. Has(j)' /\ pc'[j] # "raised"
        BY <2>1 DEF Has, Early, Late
    <2>3. \A v \in threads' : v.job = j => v.call = "sweep"
        BY <1>1, <1>5, EarlyThreads DEF SameCall
    <2>4. \A v \in threads' : v.job = j => Made(v)'
        BY <2>3 DEF Made
    <2>. QED
        BY <1>3, <2>1, <2>2, <2>4 DEF StayOK
<1>6. CASE met[j] # {}
    BY <1>3, <1>6 DEF StayOK
<1>. QED
    BY <1>4, <1>5, <1>6

\* A thread returns; what its handler was waiting for is there.
LEMMA ReturnStays ==
    ASSUME TypeOK, Coherent, Stays, NEW t \in threads, NEW ok \in BOOLEAN, Return(t, ok),
           request' = request, met' = met,
           t.call = "convert" /\ ok => disk[t.job][t.file] # "none",
           NEW j \in Job, met[j] = {} /\ pc[j] \notin Early => ThreadKeeps(j),
           met[j] = {} /\ t.job = j /\ ok /\ t.call = "download" => disk'[j][t.file] # "none",
           met[j] = {} /\ t.job = j /\ ok /\ t.call = "extract" => AllUnpacked(j)'
    PROVE  StayOK(j)' /\ AnsweredOK(j)'
<1>1. /\ threads' = threads \ {t} /\ t \in Thread /\ t.job \in Job
      /\ StayOK(j) /\ AnsweredOK(j) /\ HandlerOK(j) /\ paths[j] \subseteq Name
    BY TypeParts, ThreadFields DEF Return, Stays, Coherent, HandlersTyped
<1>2. /\ HandlerOK(j)' /\ Progress(j)
      /\ \/ paths'[j] = paths[j]
         \/ j = t.job /\ t.call = "download" /\ ok /\ paths'[j] = paths[j] \cup {t.file}
      /\ pc'[j] = "list" => pc[j] = "list" \/ (j = t.job /\ t.call = "extract" /\ ok)
    BY ReturnCoherent
<1>3. \/ Same(j)
      \/ /\ j = t.job /\ t.call = pc[j] /\ t.file = at[j] /\ Resume(j, ok)
    <2>1. CASE j # t.job
        BY <2>1, ReturnCoherent
    <2>2. CASE j = t.job /\ Awaited(t)
        BY <2>2 DEF Return, Awaited
    <2>3. CASE j = t.job /\ ~Awaited(t)
        BY <2>3 DEF Return, handlers, Same
    <2>. QED
        BY <2>1, <2>2, <2>3
<1>4. /\ pc'[j] \in {"raised", "answered"} => Same(j)
      /\ pc[j] \in Early => pc'[j] \in Early
      /\ pc'[j] = "unpack" => \/ Same(j)
                              \/ j = t.job /\ t.call = "download" /\ ok /\ t.file = Archive
      /\ request[j].type = "archive" /\ pc'[j] \in Late /\ Archive \notin errors'[j] =>
            pc[j] \in Late /\ errors'[j] = errors[j]
    <2>1. CASE Same(j)
        BY <2>1 DEF Same
    <2>2. CASE j = t.job /\ t.call = pc[j] /\ t.file = at[j] /\ Resume(j, ok)
        BY <1>1, <2>2, ResumeStays
    <2>. QED
        BY <1>3, <2>1, <2>2
<1>5. AnsweredOK(j)'
    BY <1>1, <1>4 DEF AnsweredOK, Same
<1>6. CASE met[j] = {} /\ pc[j] \notin Early
    <2>1. /\ pc[j] # "raised" /\ Has(j) /\ ThreadKeeps(j)
          /\ \A v \in threads : v.job = j => Made(v)
        BY <1>1, <1>6 DEF StayOK
    <2>2. AllUnpacked(j) => AllUnpacked(j)'
        BY <2>1, TypeParts, PlacesOf DEF AllUnpacked, Kept, ThreadKeeps
    <2>3. Has(j)'
        <3>1. pc'[j] = "unpack" => disk'[j][Archive] # "none"
            BY <1>4, <1>6, <2>1, NamesAreNumbers DEF Has, Same, Kept, ThreadKeeps
        <3>2. \A f \in paths'[j] : disk'[j][f] # "none"
            <4>1. \A f \in paths[j] : disk'[j][f] # "none"
                BY <1>1, <2>1 DEF Has, Kept, ThreadKeeps
            <4>. QED
                BY <1>2, <1>6, <4>1
        <3>3. pc'[j] = "list" => AllUnpacked(j)'
            BY <1>2, <1>6, <2>1, <2>2 DEF Has
        <3>4. request'[j].type = "archive" /\ pc'[j] \in Late /\ Archive \notin errors'[j] =>
                 Due(request'[j]) \subseteq paths'[j] \cup errors'[j]
            BY <1>2, <1>4, <2>1 DEF Has
        <3>. QED
            BY <3>1, <3>2, <3>3, <3>4 DEF Has
    <2>4. \A v \in threads' : v.job = j => Made(v)'
        <3>1. ASSUME NEW v \in threads, v.job = j
              PROVE  Made(v)'
            <4>1. v \in Thread /\ Made(v) /\ Kept(v.job)
                BY <2>1, <3>1, TypeParts DEF ThreadKeeps
            <4>. QED
                BY <4>1, MadeStays DEF SameCall
        <3>. QED
            BY <1>1, <3>1
    <2>5. Safe(j)'
        BY <2>1 DEF Safe, ThreadKeeps
    <2>6. pc'[j] # "raised"
        BY <1>4, <2>1 DEF Same
    <2>. QED
        BY <1>5, <2>3, <2>4, <2>5, <2>6 DEF StayOK
<1>7. CASE met[j] = {} /\ pc[j] \in Early
    <2>1. pc'[j] \in Early /\ paths'[j] = {}
        BY <1>2, <1>4, <1>7 DEF HandlerOK, Results
    <2>2. Has(j)' /\ pc'[j] # "raised"
        BY <2>1 DEF Has, Early, Late
    <2>3. \A v \in threads' : v.job = j => v.call = "sweep"
        BY <1>1, <1>7, EarlyThreads
    <2>4. \A v \in threads' : v.job = j => Made(v)'
        BY <2>3 DEF Made
    <2>. QED
        BY <1>5, <2>1, <2>2, <2>4 DEF StayOK
<1>8. CASE met[j] # {}
    BY <1>5, <1>8 DEF StayOK
<1>. QED
    BY <1>6, <1>7, <1>8

LEMMA KeepsThreads ==
    ASSUME TypeOK, Stays, NEW t \in threads, InThread(t), NEW j \in Job,
           met[j] = {}, pc[j] \notin Early
    PROVE  ThreadKeeps(j)
<1>1. /\ dir[j] = "fresh" /\ \A v \in threads : j \notin v.doomed
      /\ t \in Thread /\ DiskTyped
    BY TypeParts DEF Stays, StayOK, Safe
<1>2. CASE SweepStat(t)
    <2>1. dir' = dir /\ disk' = disk
        BY <1>2 DEF SweepStat, files
    <2>2. PICK k \in t.left :
             Becomes(t, [t EXCEPT !.left = @ \ {k}, !.doomed = IF dir[k] = "old" THEN {k} ELSE {}])
        BY <1>2 DEF SweepStat
    <2>. DEFINE l == t.left \ {k}
                d == IF dir[k] = "old" THEN {k} ELSE {}
    <2>3. l \in SUBSET Job /\ k \in Job
        BY <1>1, ThreadFields
    <2>4. d \in SUBSET Job /\ j \notin d
        BY <1>1, <2>3
    <2>5. Becomes(t, [t EXCEPT !.left = l, !.doomed = d])
        BY <2>2
    <2>. HIDE DEF l, d
    <2>6. [t EXCEPT !.left = l, !.doomed = d].doomed = d
        BY <1>1, <2>3, <2>4, ThreadSweeps
    <2>7. \A v \in threads' : j \notin v.doomed
        BY <1>1, <2>4, <2>5, <2>6 DEF Becomes
    <2>. QED
        BY <1>1, <2>1, <2>7 DEF ThreadKeeps, Kept
<1>3. CASE SweepRemove(t)
    <2>1. dir'[j] = dir[j] /\ disk'[j] = disk[j]
        BY <1>1, <1>3, SweepRemoveWrites
    <2>2. Becomes(t, [t EXCEPT !.doomed = {}]) /\ [t EXCEPT !.doomed = {}].doomed = {}
        BY <1>1, <1>3, ThreadSwept DEF SweepRemove
    <2>. QED
        BY <1>1, <2>1, <2>2 DEF ThreadKeeps, Kept, Becomes
<1>4. ASSUME \/ \E ok \in BOOLEAN : Return(t, ok)
             \/ \E u \in Thread : Becomes(t, u) /\ u.doomed = t.doomed
      PROVE  \A v \in threads' : j \notin v.doomed
    BY <1>1, <1>4 DEF Return, Becomes
<1>5. CASE Run(t)
    <2>1. Becomes(t, [t EXCEPT !.running = TRUE]) /\ dir' = dir /\ disk' = disk
        BY <1>5 DEF Run, Becomes, files
    <2>2. \A v \in threads' : j \notin v.doomed
        BY <1>1, <1>4, <2>1, ThreadRuns
    <2>. QED
        BY <1>1, <2>1, <2>2 DEF ThreadKeeps, Kept
<1>6. CASE OpenFiles(t)
    <2>1. CASE Return(t, FALSE) /\ UNCHANGED files
        BY <1>1, <1>4, <2>1 DEF files, ThreadKeeps, Kept
    <2>2. CASE /\ dir' = [dir EXCEPT ![t.job] = "fresh"]
               /\ \A k \in Job, g \in Name :
                     disk'[k][g] = IF k = t.job /\ g = t.file THEN "partial" ELSE disk[k][g]
               /\ Becomes(t, [t EXCEPT !.step = 1])
        <3>1. \A v \in threads' : j \notin v.doomed
            <4>1. [t EXCEPT !.step = 1] \in Thread /\ [t EXCEPT !.step = 1].doomed = t.doomed
                BY <1>1, ThreadGoesOn
            <4>. QED
                BY <1>4, <2>2, <4>1
        <3>2. dir'[j] = "fresh"
            BY <1>1, <2>2 DEF DiskTyped
        <3>3. Kept(j)
            BY <2>2 DEF Kept
        <3>. QED
            BY <3>1, <3>2, <3>3 DEF ThreadKeeps
    <2>. QED
        BY <1>6, <2>1, <2>2, OpenFilesWrites
<1>7. CASE CopyFile(t)
    <2>1. /\ dir' = dir /\ \E ok \in BOOLEAN : Return(t, ok)
          /\ Kept(j)
        BY <1>7, CopyFileWrites DEF Kept
    <2>. QED
        BY <1>1, <1>4, <2>1 DEF ThreadKeeps
<1>8. CASE OpenArchive(t)
    <2>1. dir' = dir /\ disk' = disk /\ (Return(t, FALSE) \/ Becomes(t, [t EXCEPT !.step = 1]))
        BY <1>8 DEF OpenArchive, files
    <2>2. \A v \in threads' : j \notin v.doomed
        BY <1>1, <1>4, <2>1, ThreadGoesOn
    <2>. QED
        BY <1>1, <2>1, <2>2 DEF ThreadKeeps, Kept
<1>9. CASE ExtractMember(t)
    <2>1. CASE Return(t, FALSE) /\ UNCHANGED files
        BY <1>1, <1>4, <2>1 DEF files, ThreadKeeps, Kept
    <2>2. CASE /\ Becomes(t, [t EXCEPT !.step = t.step + 1])
               /\ \A k \in Job : dir'[k] = dir[k] \/ (dir[k] = "none" /\ dir'[k] = "fresh")
               /\ LET p == request[t.job].parts[t.step] IN
                  \A k \in Job, g \in Name :
                     disk'[k][g] = IF k = t.job /\ g = p.name /\ Writes(request[t.job], p)
                                   THEN "whole" ELSE disk[k][g]
        <3>1. t.step + 1 \in Nat
            BY <1>1, ThreadFields
        <3>2. \A v \in threads' : j \notin v.doomed
            BY <1>1, <1>4, <2>2, <3>1, ThreadGoesOn
        <3>3. Kept(j)
            BY <2>2 DEF Kept
        <3>. QED
            BY <1>1, <2>2, <3>2, <3>3 DEF ThreadKeeps
    <2>. QED
        BY <1>9, <2>1, <2>2, ExtractMemberWrites
<1>10. CASE SweepEnd(t) \/ ExtractEnd(t) \/ Convert(t)
    <2>1. dir' = dir /\ disk' = disk /\ (Return(t, TRUE) \/ Return(t, FALSE))
        BY <1>10 DEF SweepEnd, ExtractEnd, Convert, files
    <2>. QED
        BY <1>1, <1>4, <2>1 DEF ThreadKeeps, Kept
<1>. QED
    BY <1>2, <1>3, <1>5, <1>6, <1>7, <1>8, <1>9, <1>10 DEF InThread

LEMMA ThreadsStay ==
    ASSUME TypeOK, Coherent, Stays, NEW t \in threads, InThread(t), NEW j \in Job
    PROVE  StayOK(j)' /\ AnsweredOK(j)'
<1>1. /\ t \in Thread /\ t.job \in Job /\ t.file \in Name /\ t.step \in Nat
      /\ request' = request /\ request[t.job] \in Inputs[t.job]
    BY TypeParts, ThreadFields, ThreadMoves
<1>2. met' = met
    BY DEF InThread, Run, SweepStat, SweepRemove, SweepEnd, OpenFiles, CopyFile, OpenArchive,
           ExtractMember, ExtractEnd, Convert
<1>3. met[j] = {} /\ pc[j] \notin Early => ThreadKeeps(j)
    BY KeepsThreads
<1>4. met[j] = {} /\ t.job = j => Made(t)
    BY DEF Stays, StayOK
\* A thread that has only got a worker, or is a sweep.
<1>5. ASSUME NEW u \in Thread, Becomes(t, u), SameCall(t, u), u.step = t.step
      PROVE  StayOK(j)' /\ AnsweredOK(j)'
    <2>1. met[j] = {} /\ pc[j] \notin Early /\ t.job = j => Made(u)'
        BY <1>1, <1>3, <1>4, <1>5, MadeStays DEF ThreadKeeps
    <2>. QED
        BY <1>1, <1>2, <1>3, <1>5, <2>1, BecomesStays
<1>6. CASE Run(t) \/ SweepRemove(t)
    <2>1. Becomes(t, [t EXCEPT !.running = TRUE]) \/ Becomes(t, [t EXCEPT !.doomed = {}])
        BY <1>6 DEF Run, SweepRemove, Becomes
    <2>. QED
        BY <1>1, <1>5, <2>1, ThreadRuns, ThreadSwept
<1>7. CASE SweepStat(t)
    <2>1. PICK k \in t.left :
             Becomes(t, [t EXCEPT !.left = @ \ {k}, !.doomed = IF dir[k] = "old" THEN {k} ELSE {}])
        BY <1>7 DEF SweepStat
    <2>. DEFINE l == t.left \ {k}
                d == IF dir[k] = "old" THEN {k} ELSE {}
    <2>2. l \in SUBSET Job /\ k \in Job
        BY <1>1, ThreadFields
    <2>3. d \in SUBSET Job
        BY <2>2
    <2>4. Becomes(t, [t EXCEPT !.left = l, !.doomed = d])
        BY <2>1
    <2>. HIDE DEF l, d
    <2>. QED
        BY <1>1, <1>5, <2>2, <2>3, <2>4, ThreadSweeps
<1>8. ASSUME NEW ok \in BOOLEAN, Return(t, ok),
             t.call = "convert" /\ ok => disk[t.job][t.file] # "none",
             met[j] = {} /\ t.job = j /\ ok /\ t.call = "download" => disk'[j][t.file] # "none",
             met[j] = {} /\ t.job = j /\ ok /\ t.call = "extract" => AllUnpacked(j)'
      PROVE  StayOK(j)' /\ AnsweredOK(j)'
    BY <1>1, <1>2, <1>3, <1>8, ReturnStays
<1>9. ASSUME Return(t, FALSE)
      PROVE  StayOK(j)' /\ AnsweredOK(j)'
    BY <1>8, <1>9
<1>10. CASE SweepEnd(t) \/ Convert(t)
    <2>1. \/ Return(t, FALSE)
          \/ /\ Return(t, TRUE) /\ t.call \notin {"download", "extract"}
             /\ t.call = "convert" => disk[t.job][t.file] # "none"
        BY <1>10 DEF SweepEnd, Convert
    <2>. QED
        BY <1>8, <1>9, <2>1
<1>11. CASE OpenFiles(t)
    <2>1. CASE Return(t, FALSE)
        BY <1>9, <2>1
    <2>2. CASE /\ \A k \in Job, g \in Name :
                     disk'[k][g] = IF k = t.job /\ g = t.file THEN "partial" ELSE disk[k][g]
               /\ Becomes(t, [t EXCEPT !.step = 1])
        <3>. DEFINE u == [t EXCEPT !.step = 1]
        <3>1. u \in Thread /\ SameCall(t, u) /\ t.call = "download"
            BY <1>1, <1>11, ThreadGoesOn DEF OpenFiles
        <3>2. Becomes(t, u)
            BY <2>2
        <3>. HIDE DEF u
        <3>3. Made(u)'
            BY <1>1, <2>2, <3>1 DEF Made, SameCall
        <3>. QED
            BY <1>1, <1>2, <1>3, <3>1, <3>2, <3>3, BecomesStays
    <2>. QED
        BY <1>11, <2>1, <2>2, OpenFilesWrites
<1>12. CASE CopyFile(t)
    <2>1. t.call = "download" /\ t.step = 1
        BY <1>12 DEF CopyFile
    <2>2. CASE Return(t, FALSE)
        BY <1>9, <2>2
    <2>3. CASE /\ Return(t, TRUE)
               /\ \A k \in Job, g \in Name :
                     disk'[k][g] = IF k = t.job /\ g = t.file /\ disk[k][g] # "none"
                                   THEN "whole" ELSE disk[k][g]
        <3>1. met[j] = {} /\ t.job = j => disk'[j][t.file] # "none"
            BY <1>1, <1>4, <2>1, <2>3 DEF Made
        <3>. QED
            BY <1>8, <2>1, <2>3, <3>1
    <2>. QED
        BY <1>12, <2>2, <2>3, CopyFileWrites
<1>13. CASE OpenArchive(t)
    <2>1. CASE Return(t, FALSE)
        BY <1>9, <2>1
    <2>2. CASE Becomes(t, [t EXCEPT !.step = 1])
        <3>. DEFINE u == [t EXCEPT !.step = 1]
        <3>1. u \in Thread /\ SameCall(t, u) /\ t.call = "extract" /\ u.step = 1
            BY <1>1, <1>13, ThreadGoesOn DEF OpenArchive
        <3>2. Becomes(t, u)
            BY <2>2
        <3>. HIDE DEF u
        <3>3. \A i \in DOMAIN request[t.job].parts : ~(i < 1)
            BY <1>1, PlacesOf
        <3>4. Made(u)'
            BY <1>1, <3>1, <3>3 DEF Made, SameCall, Unpacked
        <3>. QED
            BY <1>1, <1>2, <1>3, <3>1, <3>2, <3>4, BecomesStays
    <2>. QED
        BY <1>13, <2>1, <2>2 DEF OpenArchive
<1>14. CASE ExtractMember(t)
    <2>1. CASE Return(t, FALSE)
        BY <1>9, <2>1
    <2>2. CASE /\ Becomes(t, [t EXCEPT !.step = t.step + 1])
               /\ LET p == request[t.job].parts[t.step] IN
                  \A k \in Job, g \in Name :
                     disk'[k][g] = IF k = t.job /\ g = p.name /\ Writes(request[t.job], p)
                                   THEN "whole" ELSE disk[k][g]
        <3>. DEFINE u == [t EXCEPT !.step = t.step + 1]
                    q == request[t.job]
        <3>1. /\ u \in Thread /\ SameCall(t, u) /\ t.call = "extract" /\ u.step = t.step + 1
              /\ t.step \in DOMAIN q.parts
            <4>1. t.call = "extract" /\ t.step \in DOMAIN q.parts
                BY <1>14, ExtractMemberWrites
            <4>2. t.step + 1 \in Nat
                BY <1>1
            <4>. QED
                BY <1>1, <4>1, <4>2, ThreadGoesOn
        <3>2. Becomes(t, u)
            BY <2>2
        <3>. HIDE DEF u
        <3>3. ASSUME met[j] = {}, pc[j] \notin Early, t.job = j
              PROVE  Made(u)'
            <4>1. Unpacked(j, t.step) /\ Kept(j)
                BY <1>3, <1>4, <3>1, <3>3 DEF Made, ThreadKeeps
            <4>2. ASSUME NEW i \in DOMAIN q.parts, i < t.step + 1, Writes(q, q.parts[i])
                  PROVE  disk'[j][q.parts[i].name] # "none"
                <5>1. q.parts[i].name \in Name /\ i \in Nat
                    BY <1>1, PlacesOf
                <5>2. CASE i < t.step
                    BY <3>3, <4>1, <4>2, <5>1, <5>2 DEF Unpacked, Kept
                <5>3. CASE i = t.step
                    <6>1. disk'[j][q.parts[i].name] = "whole"
                        BY <2>2, <3>3, <4>2, <5>1, <5>3
                    <6>. QED
                        BY <6>1
                <5>. QED
                    BY <1>1, <4>2, <5>1, <5>2, <5>3
            <4>. QED
                BY <1>1, <3>1, <3>3, <4>2 DEF Made, SameCall, Unpacked
        <3>. QED
            BY <1>1, <1>2, <1>3, <3>1, <3>2, <3>3, BecomesStays
    <2>. QED
        BY <1>14, <2>1, <2>2, ExtractMemberWrites
<1>15. CASE ExtractEnd(t)
    <2>1. /\ Return(t, TRUE) /\ t.call = "extract" /\ disk' = disk
          /\ t.step = Len(request[t.job].parts) + 1
        BY <1>15 DEF ExtractEnd, files
    <2>2. ASSUME met[j] = {}, t.job = j
          PROVE  AllUnpacked(j)'
        <3>1. Unpacked(j, t.step)
            BY <1>4, <2>1, <2>2 DEF Made
        <3>2. \A i \in DOMAIN request[j].parts : i < t.step
            BY <1>1, <2>1, <2>2, PlacesOf
        <3>. QED
            BY <1>1, <2>1, <3>1, <3>2 DEF Unpacked, AllUnpacked
    <2>. QED
        BY <1>8, <2>1, <2>2
<1>. QED
    BY <1>6, <1>7, <1>10, <1>11, <1>12, <1>13, <1>14, <1>15 DEF InThread

LEMMA StaysInit == Init => Stays
<1>. SUFFICES ASSUME Init, NEW j \in Job
              PROVE  StayOK(j) /\ AnsweredOK(j)
    BY DEF Stays
<1>1. pc[j] = "new" /\ paths[j] = {} /\ threads = {}
    BY DEF Init
<1>. QED
    BY <1>1 DEF StayOK, AnsweredOK, Has, Early, Late

LEMMA AgeStays ==
    ASSUME TypeOK, Stays, NEW i \in Job, Age(i)
    PROVE  Stays'
<1>1. /\ UNCHANGED <<request, disk, threads>>
      /\ \A j \in Job : Same(j) /\ (met'[j] = {} => met[j] = {} /\ dir'[j] = dir[j])
    <2>1. /\ DiskTyped /\ dir' = [dir EXCEPT ![i] = "old"]
          /\ met' = [met EXCEPT ![i] = @ \cup {"slow"}]
          /\ UNCHANGED <<request, handlers, disk, threads>>
        BY TypeParts DEF Age
    <2>. QED
        BY <2>1 DEF DiskTyped, handlers, Same
<1>2. \A t \in threads : Made(t) => Made(t)'
    BY <1>1 DEF Made, Unpacked
<1>3. ASSUME NEW j \in Job
      PROVE  StayOK(j)' /\ AnsweredOK(j)'
    <2>1. StayOK(j) /\ AnsweredOK(j) /\ Same(j)
        BY <1>1 DEF Stays
    <2>2. AnsweredOK(j)'
        BY <2>1 DEF AnsweredOK, Same
    <2>3. Has(j) => Has(j)'
        BY <1>1, <2>1 DEF Has, AllUnpacked, Same
    <2>4. Safe(j) /\ met'[j] = {} => Safe(j)'
        BY <1>1 DEF Safe
    <2>5. StayOK(j)'
        BY <1>1, <1>2, <2>1, <2>3, <2>4 DEF StayOK, Same
    <2>. QED
        BY <2>2, <2>5
<1>. QED
    BY <1>3 DEF Stays

LEMMA StaysStep == TypeOK /\ Coherent /\ Stays /\ [Next]_filesVars => Stays'
<1>. SUFFICES ASSUME TypeOK, Coherent, Stays, [Next]_filesVars
              PROVE  Stays'
    OBVIOUS
<1>1. CASE UNCHANGED filesVars
    BY <1>1 DEF filesVars, handlers, files, Stays, StayOK, AnsweredOK, Safe, Has, AllUnpacked,
                Made, Unpacked
<1>2. ASSUME NEW j \in Job, HandlerStep(j)
      PROVE  Stays'
    BY <1>2, OtherStays, MoverStays DEF Stays
<1>3. ASSUME NEW j \in Job, Timeout(j)
      PROVE  Stays'
    BY <1>3, TimeoutStays
<1>4. ASSUME NEW j \in Job, Age(j)
      PROVE  Stays'
    BY <1>4, AgeStays
<1>5. ASSUME NEW t \in threads, InThread(t)
      PROVE  Stays'
    BY <1>5, ThreadsStay DEF Stays
<1>. QED
    BY <1>1, <1>2, <1>3, <1>4, <1>5 DEF Next, Proceed, HandlerStep

LEMMA StayFacts == TypeOK /\ Coherent /\ Stays => FilesStay
<1>. SUFFICES ASSUME TypeOK, Coherent, Stays, NEW j \in Job, met[j] = {},
                     NEW f \in paths[j]
              PROVE  disk[j][f] = "whole"
    BY DEF FilesStay, Stays, StayOK, ToTranscribe
<1>1. f \in Name \ {Archive} /\ request[j].type \in {"files", "archive"} /\ DiskTyped
    BY TypeParts, RequestOf DEF Coherent, HandlerOK, Results
<1>2. disk[j][f] # "none"
    BY DEF Stays, StayOK, Has
<1>3. disk[j][f] # "partial"
    BY <1>1 DEF Coherent, DiskOK
<1>. QED
    BY <1>1, <1>2, <1>3 DEF DiskTyped

\* As long as a job's directory has neither grown eight hours old nor was
\* about to be swept when the job took it over, nobody takes a file away
\* that the job still has to transcribe: the sweep that looks at the time of
\* the last change of a directory leaves every job under way alone
\* (temp_file_manager.py, cleanup_old_dirs).
THEOREM NothingSwept == Spec => []FilesStay
BY StayFacts, TypeInit, TypeStep, CoherentInit, CoherentStep, StaysInit, StaysStep, PTL DEF Spec

LEMMA PartFacts == TypeOK /\ Coherent /\ Stays => EveryPartAccounted
<1>. SUFFICES ASSUME TypeOK, Coherent, Stays, NEW j \in Job, pc[j] = "answered"
              PROVE  IF Archive \in errors[j]
                     THEN errors[j] = {Archive} /\ \A f \in Name : outcome[j][f] = "none"
                     ELSE met[j] = {} =>
                            \A f \in IF request[j].type = "files" THEN Names(request[j])
                                     ELSE Due(request[j]) :
                               (f \in errors[j]) # (outcome[j][f] \in {"text", "cut", "error"})
    BY DEF EveryPartAccounted, Due
<1>. DEFINE q == request[j]
<1>1. /\ q.type \in {"files", "archive"} /\ Names(q) \subseteq Name \ {Archive}
      /\ HandlersTyped /\ Results(j) /\ ListRequest(j) /\ ArchiveRequest(j)
      /\ AnsweredOK(j) /\ StayOK(j)
    BY TypeParts, RequestOf DEF Coherent, HandlerOK, Stays
<1>2. CASE Archive \in errors[j]
    <2>1. q.type = "archive"
        BY <1>1, <1>2 DEF ListRequest
    <2>2. errors[j] = {Archive} /\ paths[j] = {}
        BY <1>1, <1>2, <2>1 DEF ArchiveRequest
    <2>. QED
        BY <1>1, <1>2, <2>2 DEF Results
<1>3. ASSUME Archive \notin errors[j], met[j] = {},
             NEW f \in IF q.type = "files" THEN Names(q) ELSE Due(q)
      PROVE  (f \in errors[j]) # (outcome[j][f] \in {"text", "cut", "error"})
    <2>1. f \in paths[j] \cup errors[j]
        BY <1>1, <1>3 DEF ListRequest, StayOK, Has, Late
    <2>2. f \in Name
        BY <1>1, <1>3 DEF Due
    <2>3. outcome[j][f] \in {"none", "audio", "stub", "text", "cut", "error"}
        BY <1>1, <2>2 DEF HandlersTyped
    <2>4. outcome[j][f] \notin {"stub", "audio"}
        BY <1>1, <2>2 DEF Results
    <2>5. CASE f \in errors[j]
        <3>1. f \notin paths[j]
            BY <1>1, <2>5 DEF Results
        <3>2. outcome[j][f] = "none"
            BY <1>1, <2>2, <3>1 DEF Results
        <3>. QED
            BY <2>5, <3>2
    <2>6. CASE f \notin errors[j]
        <3>1. outcome[j][f] # "none"
            BY <1>1, <2>1, <2>6 DEF AnsweredOK
        <3>. QED
            BY <2>3, <2>4, <2>6, <3>1
    <2>. QED
        BY <2>5, <2>6
<1>. QED
    BY <1>2, <1>3

\* The answer accounts for every remote file of a list and for every member
\* that an archive has at its top level once, as an error or as a result;
\* an archive that is refused has one error and no result (file_manager.py,
\* audio_processor.py).
THEOREM PartsAccounted == Spec => []EveryPartAccounted
BY PartFacts, TypeInit, TypeStep, CoherentInit, CoherentStep, StaysInit, StaysStep, PTL DEF Spec

-----------------------------------------------------------------------------
(* Sums.  MapThenSumSet(op, S) is iter[S] for the recursive function iter  *)
(* of the library: that it has the value it should is shown by counting,   *)
(* and an inequality of sums by an injection.                              *)

\* Of a family of subsets of a finite set one has no smaller one in it.
LEMMA SmallestSubset ==
    ASSUME NEW S, IsFiniteSet(S), NEW T \in SUBSET SUBSET S, T # {}
    PROVE  \E s \in T : \A u \in T : u \subseteq s => u = s
<1>1. IsWellFoundedOn(StrictSubsetOrdering(S), SUBSET S)
    BY FS_FiniteSubsetsOfFinite, FS_StrictSubsetOrderingWellFounded
<1>2. PICK s \in T : \A u \in T : ~(<<u, s>> \in StrictSubsetOrdering(S))
    BY <1>1, WFMin
<1>3. ASSUME NEW u \in T, u \subseteq s
      PROVE  u = s
    <2>1. <<u, s>> \in (SUBSET S) \X (SUBSET S) /\ <<u, s>>[1] = u /\ <<u, s>>[2] = s
        OBVIOUS
    <2>. QED
        BY <1>2, <1>3, <2>1 DEF StrictSubsetOrdering
<1>. QED
    BY <1>3

(* A sum counts the pairs of an element and a number below its weight.     *)
Units(w, s) == {p \in s \X Nat : p[2] < w[p[1]]}

LEMMA UnitsOfOne ==
    ASSUME NEW S, NEW w \in [S -> Nat], NEW x \in S
    PROVE  IsFiniteSet(Units(w, {x})) /\ Cardinality(Units(w, {x})) = w[x]
<1>. DEFINE I == 0 .. (w[x] - 1)
            f == [k \in I |-> <<x, k>>]
<1>1. w[x] \in Nat
    OBVIOUS
<1>2. IsFiniteSet(I) /\ Cardinality(I) = w[x]
    BY <1>1, FS_Interval
<1>3. f \in Bijection(I, Units(w, {x}))
    <2>1. \A k \in I : f[k] = <<x, k>> /\ <<x, k>> \in Units(w, {x})
        BY <1>1 DEF Units
    <2>2. f \in [I -> Units(w, {x})]
        BY <2>1
    <2>3. \A a, b \in I : f[a] = f[b] => a = b
        BY <2>1
    <2>4. \A p \in Units(w, {x}) : \E k \in I : f[k] = p
        <3>. SUFFICES ASSUME NEW p \in Units(w, {x})
                      PROVE  \E k \in I : f[k] = p
            OBVIOUS
        <3>1. p = <<x, p[2]>> /\ p[2] \in Nat /\ p[2] < w[x]
            BY DEF Units
        <3>2. p[2] \in I
            BY <1>1, <3>1
        <3>. QED
            BY <2>1, <3>1, <3>2
    <2>. QED
        BY <2>2, <2>3, <2>4 DEF Bijection, Injection, Surjection, IsInjective
<1>. QED
    BY <1>2, <1>3, FS_Bijection DEF ExistsBijection

LEMMA UnitsWithout ==
    ASSUME NEW S, NEW w \in [S -> Nat], NEW s \in SUBSET S, NEW x \in s,
           IsFiniteSet(Units(w, s \ {x}))
    PROVE  /\ IsFiniteSet(Units(w, s))
           /\ Cardinality(Units(w, s)) = w[x] + Cardinality(Units(w, s \ {x}))
<1>1. IsFiniteSet(Units(w, {x})) /\ Cardinality(Units(w, {x})) = w[x]
    BY UnitsOfOne
<1>2. Units(w, s) = Units(w, s \ {x}) \cup Units(w, {x})
    BY DEF Units
<1>3. Units(w, s \ {x}) \cap Units(w, {x}) = {}
    BY DEF Units
<1>4. Cardinality(Units(w, s \ {x})) \in Nat /\ w[x] \in Nat
    BY FS_CardinalityType
<1>. HIDE DEF Units
<1>. DEFINE A == Units(w, s \ {x})
            B == Units(w, {x})
<1>5. IsFiniteSet(A) /\ IsFiniteSet(B)
    BY <1>1
<1>. HIDE DEF A, B
<1>6. /\ IsFiniteSet(A \cup B)
      /\ Cardinality(A \cup B) = Cardinality(A) + Cardinality(B) - Cardinality(A \cap B)
    BY <1>5, FS_Union
<1>7. Units(w, s) = A \cup B /\ A \cap B = {}
    BY <1>2, <1>3 DEF A, B
<1>8. Cardinality(A) \in Nat /\ Cardinality(B) = w[x]
    BY <1>1, <1>4 DEF A, B
<1>9. Cardinality(A \cup B) = w[x] + Cardinality(A)
    BY <1>4, <1>6, <1>7, <1>8, FS_EmptySet
<1>. QED
    BY <1>6, <1>7, <1>9 DEF A

LEMMA UnitsOfNone ==
    ASSUME NEW w
    PROVE  Units(w, {}) = {} /\ IsFiniteSet(Units(w, {})) /\ Cardinality(Units(w, {})) = 0
<1>1. Units(w, {}) = {}
    BY DEF Units
<1>. QED
    BY <1>1, FS_EmptySet

LEMMA UnitsFinite ==
    ASSUME NEW S, IsFiniteSet(S), NEW w \in [S -> Nat], NEW s \in SUBSET S
    PROVE  IsFiniteSet(Units(w, s))
<1>. DEFINE Bad == {u \in SUBSET S : ~IsFiniteSet(Units(w, u))}
<1>. SUFFICES ASSUME Bad # {}
              PROVE  FALSE
    OBVIOUS
<1>0. Bad \in SUBSET SUBSET S
    OBVIOUS
<1>1. PICK u \in Bad : \A v \in Bad : v \subseteq u => v = u
    <2>. HIDE DEF Bad
    <2>. QED
        BY <1>0, SmallestSubset
<1>2. CASE u = {}
    BY <1>2, UnitsOfNone
<1>3. CASE u # {}
    <2>1. PICK x \in u : TRUE
        BY <1>3
    <2>2. u \ {x} \notin Bad
        BY <1>1, <2>1
    <2>. QED
        BY <2>2, UnitsWithout
<1>. QED
    BY <1>2, <1>3

(* The function by which the library defines a sum counts the units: it    *)
(* exists, and there is no other.                                          *)
Unfold(S, w, h) ==
    [s \in SUBSET S |-> IF s = {} THEN 0
                        ELSE w[CHOOSE x \in s : TRUE] + h[s \ {CHOOSE x \in s : TRUE}]]

LEMMA CountsExist ==
    ASSUME NEW S, IsFiniteSet(S), NEW w \in [S -> Nat]
    PROVE  \E h : h = Unfold(S, w, h)
<1>. DEFINE h == [s \in SUBSET S |-> Cardinality(Units(w, s))]
<1>1. ASSUME NEW s \in SUBSET S
      PROVE  h[s] = IF s = {} THEN 0
                    ELSE w[CHOOSE x \in s : TRUE] + h[s \ {CHOOSE x \in s : TRUE}]
    <2>1. CASE s = {}
        BY <2>1, UnitsOfNone
    <2>2. CASE s # {}
        <3>. DEFINE x == CHOOSE y \in s : TRUE
        <3>1. x \in s
            BY <2>2
        <3>2. s \ {x} \in SUBSET S
            OBVIOUS
        <3>. HIDE DEF x
        <3>3. Cardinality(Units(w, s)) = w[x] + Cardinality(Units(w, s \ {x}))
            BY <3>1, <3>2, UnitsFinite, UnitsWithout
        <3>4. h[s] = w[x] + h[s \ {x}]
            BY <3>2, <3>3
        <3>. QED
            BY <2>2, <3>4 DEF x
    <2>. QED
        BY <2>1, <2>2
<1>2. h = Unfold(S, w, h)
    BY <1>1 DEF Unfold
<1>. QED
    BY <1>2

LEMMA FoldCounts ==
    ASSUME NEW S, IsFiniteSet(S), NEW w \in [S -> Nat], NEW it,
           it = Unfold(S, w, it)
    PROVE  it[S] = Cardinality(Units(w, S))
<1>. DEFINE Bad == {s \in SUBSET S : it[s] # Cardinality(Units(w, s))}
<1>. SUFFICES ASSUME Bad # {}
              PROVE  FALSE
    OBVIOUS
<1>0. Bad \in SUBSET SUBSET S
    OBVIOUS
<1>1. PICK u \in Bad : \A v \in Bad : v \subseteq u => v = u
    <2>. HIDE DEF Bad
    <2>. QED
        BY <1>0, SmallestSubset
<1>2. CASE u = {}
    BY <1>2, UnitsOfNone DEF Unfold
<1>3. CASE u # {}
    <2>. DEFINE x == CHOOSE y \in u : TRUE
    <2>1. x \in u
        BY <1>3
    <2>2. it[u] = w[x] + it[u \ {x}]
        BY <1>3 DEF Unfold
    <2>. HIDE DEF x
    <2>3. u \ {x} \in SUBSET S /\ u \ {x} \notin Bad
        BY <1>1, <2>1
    <2>4. Cardinality(Units(w, u)) = w[x] + Cardinality(Units(w, u \ {x}))
        <3>1. u \in SUBSET S
            OBVIOUS
        <3>2. IsFiniteSet(Units(w, u \ {x}))
            BY <2>3, UnitsFinite
        <3>. QED
            BY <2>1, <3>1, <3>2, UnitsWithout
    <2>. QED
        BY <2>2, <2>3, <2>4
<1>. QED
    BY <1>2, <1>3

LEMMA UnitsCompared ==
    ASSUME NEW S, IsFiniteSet(S), NEW T, IsFiniteSet(T), NEW w \in [S -> Nat], NEW v \in [T -> Nat],
           NEW m \in [S -> T], \A x, y \in S : m[x] = m[y] => x = y, \A x \in S : w[x] <= v[m[x]]
    PROVE  Cardinality(Units(w, S)) <= Cardinality(Units(v, T))
<1>. DEFINE A == Units(w, S)
            B == Units(v, T)
            f == [p \in A |-> <<m[p[1]], p[2]>>]
<1>1. ASSUME NEW p \in A
      PROVE  /\ p[1] \in S /\ p[2] \in Nat /\ p = <<p[1], p[2]>>
             /\ f[p] = <<m[p[1]], p[2]>> /\ f[p] \in B
    <2>1. p[1] \in S /\ p[2] \in Nat /\ p = <<p[1], p[2]>> /\ p[2] < w[p[1]]
        BY DEF Units
    <2>2. p[2] < v[m[p[1]]]
        <3>1. w[p[1]] \in Nat /\ v[m[p[1]]] \in Nat /\ w[p[1]] <= v[m[p[1]]]
            BY <2>1
        <3>. QED
            BY <2>1, <3>1
    <2>. QED
        BY <2>1, <2>2 DEF Units
<1>2. \A p, r \in A : f[p] = f[r] => p = r
    <2>1. ASSUME NEW p \in A, NEW r \in A, f[p] = f[r]
          PROVE  p = r
        <3>1. m[p[1]] = m[r[1]] /\ p[2] = r[2]
            BY <1>1, <2>1
        <3>2. p[1] \in S /\ r[1] \in S /\ p = <<p[1], p[2]>> /\ r = <<r[1], r[2]>>
            BY <1>1, <2>1
        <3>. HIDE DEF f, A
        <3>3. p[1] = r[1]
            BY <3>1, <3>2
        <3>. QED
            BY <3>1, <3>2, <3>3
    <2>. QED
        BY <2>1
<1>3. f \in [A -> B]
    BY <1>1
<1>4. IsFiniteSet(B)
    BY UnitsFinite
<1>. HIDE DEF A, B, f
<1>5. f \in Injection(A, B)
    BY <1>2, <1>3 DEF Injection, IsInjective
<1>6. Cardinality(A) <= Cardinality(B)
    BY <1>4, <1>5, FS_Injection
<1>. QED
    BY <1>6 DEF A, B

-----------------------------------------------------------------------------
(* What is unpacked of an archive.                                         *)

LEMMA SizesOf ==
    ASSUME NEW j \in Job, request[j] \in Inputs[j]
    PROVE  /\ \A i \in DOMAIN request[j].parts : request[j].parts[i].size \in Nat
           /\ IsFiniteSet(DOMAIN request[j].parts)
<1>1. IsRequest(request[j])
    BY FilesAssumption
<1>2. request[j].parts \in Seq(Part)
    BY <1>1 DEF IsRequest
<1>3. \A i \in DOMAIN request[j].parts : request[j].parts[i] \in Part
    BY <1>2
<1>4. \A i \in DOMAIN request[j].parts : request[j].parts[i].size \in Nat
    BY <1>3 DEF Part
<1>5. IsFiniteSet(1..Len(request[j].parts))
    BY PlacesOf, FS_Interval
<1>. QED
    BY <1>4, <1>5, PlacesOf

Content(q) == [i \in DOMAIN q.parts |-> Counted(q, i)]

LEMMA TotalCounts ==
    ASSUME NEW q, NEW S, S = DOMAIN q.parts, IsFiniteSet(S), \A i \in S : q.parts[i].size \in Nat
    PROVE  Content(q) \in [S -> Nat] /\ TotalSize(q) = Cardinality(Units(Content(q), S))
<1>. DEFINE w == Content(q)
            F(it) == [s \in SUBSET S |-> IF s = {} THEN 0
                                         ELSE Counted(q, CHOOSE x \in s : TRUE)
                                              + it[s \ {CHOOSE x \in s : TRUE}]]
<1>1. IsFiniteSet(S) /\ \A i \in S : q.parts[i].size \in Nat
    OBVIOUS
<1>2. \A i \in S : Counted(q, i) \in Nat
    BY <1>1 DEF Counted
<1>3. w \in [S -> Nat] /\ \A i \in S : w[i] = Counted(q, i)
    BY <1>2 DEF Content
<1>4. TotalSize(q) = (CHOOSE it : it = F(it))[S]
    BY DEF TotalSize, MapThenSumSet, MapThenFoldSet
<1>. HIDE DEF w
<1>5. \A it : F(it) = Unfold(S, w, it)
    <2>. SUFFICES ASSUME NEW it, NEW s \in SUBSET S
                  PROVE  F(it)[s] = Unfold(S, w, it)[s]
        BY DEF Unfold
    <2>1. CASE s = {}
        BY <2>1 DEF Unfold
    <2>2. CASE s # {}
        <3>1. (CHOOSE x \in s : TRUE) \in S
            BY <2>2
        <3>. QED
            BY <1>3, <2>2, <3>1 DEF Unfold
    <2>. QED
        BY <2>1, <2>2
<1>6. \E it : it = F(it)
    <2>. HIDE DEF F
    <2>1. \E h : h = Unfold(S, w, h)
        BY <1>1, <1>3, CountsExist
    <2>. QED
        BY <1>5, <2>1
<1>. DEFINE it == CHOOSE f : f = F(f)
<1>7. it = F(it)
    <2>. HIDE DEF F
    <2>. QED
        BY <1>6
<1>8. it = Unfold(S, w, it)
    <2>. HIDE DEF F, it
    <2>. QED
        BY <1>5, <1>7
<1>. HIDE DEF it
<1>9. it[S] = Cardinality(Units(w, S))
    BY <1>1, <1>3, <1>8, FoldCounts
<1>. QED
    BY <1>3, <1>4, <1>9 DEF it, w

Sizes(q, s) == [f \in s |-> Largest(q, f)]

LEMMA LargestCounts ==
    ASSUME NEW q, NEW S, IsFiniteSet(S), Sizes(q, S) \in [S -> Nat]
    PROVE  MapThenSumSet(LAMBDA f : Largest(q, f), S) = Cardinality(Units(Sizes(q, S), S))
<1>. DEFINE w == Sizes(q, S)
            F(it) == [s \in SUBSET S |-> IF s = {} THEN 0
                                         ELSE Largest(q, CHOOSE x \in s : TRUE)
                                              + it[s \ {CHOOSE x \in s : TRUE}]]
<1>1. \A f \in S : w[f] = Largest(q, f)
    BY DEF Sizes
<1>2. w \in [S -> Nat]
    OBVIOUS
<1>3. MapThenSumSet(LAMBDA f : Largest(q, f), S) = (CHOOSE it : it = F(it))[S]
    BY DEF MapThenSumSet, MapThenFoldSet
<1>. HIDE DEF w
<1>4. \A it : F(it) = Unfold(S, w, it)
    <2>. SUFFICES ASSUME NEW it, NEW s \in SUBSET S
                  PROVE  F(it)[s] = Unfold(S, w, it)[s]
        BY DEF Unfold
    <2>1. CASE s = {}
        BY <2>1 DEF Unfold
    <2>2. CASE s # {}
        <3>1. (CHOOSE x \in s : TRUE) \in S
            BY <2>2
        <3>. QED
            BY <1>1, <2>2, <3>1 DEF Unfold
    <2>. QED
        BY <2>1, <2>2
<1>5. \E it : it = F(it)
    <2>. HIDE DEF F
    <2>1. \E h : h = Unfold(S, w, h)
        BY <1>2, CountsExist
    <2>. QED
        BY <1>4, <2>1
<1>. DEFINE it == CHOOSE f : f = F(f)
<1>6. it = F(it)
    <2>. HIDE DEF F
    <2>. QED
        BY <1>5
<1>7. it = Unfold(S, w, it)
    <2>. HIDE DEF F, it
    <2>. QED
        BY <1>4, <1>6
<1>. HIDE DEF it
<1>8. it[S] = Cardinality(Units(w, S))
    BY <1>2, <1>7, FoldCounts
<1>. QED
    BY <1>3, <1>8 DEF it, w

(* A size that a set of places has, and none has a greater one.            *)
LEMMA LargestIsCopy ==
    ASSUME NEW j \in Job, request[j] \in Inputs[j], NEW f, Copies(request[j], f) # {}
    PROVE  \E i \in Copies(request[j], f) : Largest(request[j], f) = request[j].parts[i].size
<1>. DEFINE q == request[j]
            size == [i \in DOMAIN q.parts |-> q.parts[i].size]
            n == Cardinality(Units(size, DOMAIN q.parts))
            T == {q.parts[i].size : i \in Copies(q, f)}
<1>1. IsFiniteSet(DOMAIN q.parts) /\ size \in [DOMAIN q.parts -> Nat]
    BY SizesOf
<1>2. n \in Nat
    BY <1>1, UnitsFinite, FS_CardinalityType
<1>3. ASSUME NEW i \in DOMAIN q.parts
      PROVE  size[i] <= n
    <2>. DEFINE A == Units(size, {i})
                B == Units(size, DOMAIN q.parts)
    <2>1. Cardinality(A) = size[i]
        BY <1>1, UnitsOfOne
    <2>2. IsFiniteSet(B) /\ A \in SUBSET B
        BY <1>1, UnitsFinite DEF Units
    <2>. HIDE DEF A, B
    <2>3. Cardinality(A) <= Cardinality(B)
        BY <2>2, FS_Subset
    <2>. QED
        BY <2>1, <2>3 DEF B
<1>4. T \in SUBSET (0..n) /\ T # {}
    <2>1. \A i \in Copies(q, f) : q.parts[i].size \in 0..n
        BY <1>1, <1>2, <1>3 DEF Copies
    <2>. QED
        BY <2>1
<1>5. Max(T) \in T
    <2>. HIDE DEF n, T
    <2>. QED
        BY <1>2, <1>4, MaxOfBounded
<1>. QED
    BY <1>5 DEF Largest

(* What lies on the disk of an archive's job has been written by one of    *)
(* its members.                                                            *)
CopiedOK(j) == request[j].type = "archive" =>
    \A f \in Name \ {Archive} : disk[j][f] # "none" => Copies(request[j], f) # {}

Copied == \A j \in Job : CopiedOK(j)

LEMMA CopiedStays ==
    ASSUME Copied, request' = request,
           \A k \in Job, f \in Name : \/ disk'[k][f] \in {disk[k][f], "none"}
                                      \/ request[k].type = "archive" =>
                                            f = Archive \/ Copies(request[k], f) # {}
    PROVE  Copied'
<1>1. ASSUME NEW k \in Job, request[k].type = "archive", NEW f \in Name \ {Archive}, disk'[k][f] # "none"
      PROVE  Copies(request[k], f) # {}
    BY <1>1 DEF Copied, CopiedOK
<1>. QED
    BY <1>1 DEF Copied, CopiedOK

LEMMA CopiedInit == Init => Copied
BY DEF Init, Copied, CopiedOK

LEMMA CopiedStep == TypeOK /\ Coherent /\ Copied /\ [Next]_filesVars => Copied'
<1>. SUFFICES ASSUME TypeOK, Coherent, Copied, [Next]_filesVars
              PROVE  Copied'
    OBVIOUS
<1>1. ASSUME request' = request, disk' = disk
      PROVE  Copied'
    BY <1>1, CopiedStays
<1>2. ASSUME NEW j \in Job, HandlerStep(j)
      PROVE  Copied'
    BY <1>1, <1>2, HandlerSteps
<1>3. ASSUME NEW j \in Job, Timeout(j) \/ Age(j)
      PROVE  Copied'
    BY <1>1, <1>3 DEF Timeout, Age, files
<1>4. ASSUME NEW t \in threads, InThread(t)
      PROVE  Copied'
    <2>1. t \in Thread /\ t.job \in Job /\ t.file \in Name /\ ThreadOK(t) /\ request' = request
        BY <1>4, TypeParts, ThreadFields, ThreadMoves DEF Coherent
    <2>2. CASE disk' = disk
        BY <1>1, <2>1, <2>2
    <2>3. CASE SweepRemove(t)
        BY <2>1, <2>3, SweepRemoveWrites, CopiedStays
    <2>4. ASSUME NEW k \in Job, NEW f \in Name, OpenFiles(t) \/ CopyFile(t)
          PROVE  disk'[k][f] = disk[k][f] \/ (request[k].type = "archive" => f = Archive)
        <3>1. t.call = "download"
            BY <2>4 DEF OpenFiles, CopyFile
        <3>2. request[t.job].type = "archive" => t.file = Archive
            BY <2>1, <3>1 DEF ThreadOK
        <3>3. disk'[k][f] = disk[k][f] \/ (k = t.job /\ f = t.file)
            <4>1. CASE OpenFiles(t)
                BY <4>1, OpenFilesWrites DEF files
            <4>2. CASE CopyFile(t)
                BY <4>2, CopyFileWrites
            <4>. QED
                BY <2>4, <4>1, <4>2
        <3>. QED
            BY <3>2, <3>3
    <2>5. CASE OpenFiles(t) \/ CopyFile(t)
        BY <2>1, <2>4, <2>5, CopiedStays
    <2>6. ASSUME NEW k \in Job, NEW f \in Name, ExtractMember(t)
          PROVE  disk'[k][f] = disk[k][f] \/ Copies(request[k], f) # {}
        <3>1. t.step \in DOMAIN request[t.job].parts
            BY <2>6, ExtractMemberWrites
        <3>2. \/ disk'[k][f] = disk[k][f]
              \/ /\ k = t.job /\ f = request[t.job].parts[t.step].name
                 /\ Writes(request[t.job], request[t.job].parts[t.step])
            BY <2>6, ExtractMemberWrites DEF files
        <3>. QED
            BY <3>1, <3>2 DEF Copies
    <2>7. CASE ExtractMember(t)
        BY <2>1, <2>6, <2>7, CopiedStays
    <2>8. \/ disk' = disk \/ SweepRemove(t) \/ OpenFiles(t) \/ CopyFile(t) \/ ExtractMember(t)
        BY <1>4 DEF InThread, Run, SweepStat, SweepEnd, OpenArchive, ExtractEnd, Convert, files
    <2>. QED
        BY <2>2, <2>3, <2>5, <2>7, <2>8
<1>5. CASE UNCHANGED filesVars
    BY <1>1, <1>5 DEF filesVars, files
<1>. QED
    BY <1>2, <1>3, <1>4, <1>5 DEF Next, Proceed, HandlerStep

(* As many files as an archive may have members, and no more bytes than    *)
(* they may have in all: each file is one of its members, and no two are   *)
(* the same one.                                                           *)
LEMMA LimitFacts == TypeOK /\ Coherent /\ Copied => DiskWithinLimits
<1>. SUFFICES ASSUME TypeOK, Coherent, Copied, NEW j \in Job, request[j].type = "archive"
              PROVE  LET there == {f \in Names(request[j]) : disk[j][f] # "none"} IN
                     /\ Cardinality(there) <= MaxMembers
                     /\ MapThenSumSet(LAMBDA f : Largest(request[j], f), there) <= MaxTotal
    BY DEF DiskWithinLimits
<1>. DEFINE q == request[j]
            n == Len(q.parts)
            S == DOMAIN q.parts
            there == {f \in Names(q) : disk[j][f] # "none"}
            copy == [f \in there |-> CHOOSE i \in Copies(q, f) : Largest(q, f) = q.parts[i].size]
<1>1. /\ n \in Nat /\ S = 1..n /\ IsFiniteSet(S) /\ Cardinality(S) = n
      /\ MaxMembers \in Nat /\ MaxTotal \in Nat
    <2>1. n \in Nat /\ S = 1..n
        BY TypeParts, PlacesOf
    <2>. HIDE DEF n, S
    <2>2. IsFiniteSet(1..n) /\ Cardinality(1..n) = n
        BY <2>1, FS_Interval
    <2>. QED
        BY <2>1, <2>2, FilesAssumption
<1>2. /\ q \in Inputs[j] /\ Names(q) \subseteq Name \ {Archive}
      /\ \A i \in S : q.parts[i].size \in Nat
    BY TypeParts, RequestOf, SizesOf
<1>3. ASSUME NEW f \in there
      PROVE  /\ copy[f] \in S /\ q.parts[copy[f]].name = f /\ Largest(q, f) \in Nat
             /\ Largest(q, f) = Content(q)[copy[f]] /\ ~Refused(q)
    <2>1. Copies(q, f) # {} /\ ~Refused(q)
        BY <1>2 DEF Copied, CopiedOK, Coherent, DiskOK
    <2>2. \E i \in Copies(q, f) : Largest(q, f) = q.parts[i].size
        BY <1>2, <2>1, LargestIsCopy
    <2>3. copy[f] \in Copies(q, f) /\ Largest(q, f) = q.parts[copy[f]].size
        BY <2>2
    <2>. HIDE DEF copy
    <2>4. copy[f] \in S /\ q.parts[copy[f]].name = f /\ Writes(q, q.parts[copy[f]])
        BY <2>3 DEF Copies
    <2>5. Content(q)[copy[f]] = q.parts[copy[f]].size
        BY <2>4 DEF Content, Counted, Writes
    <2>. QED
        BY <1>2, <2>1, <2>3, <2>4, <2>5
<1>. HIDE DEF copy
<1>4. copy \in [there -> S] /\ \A f, g \in there : copy[f] = copy[g] => f = g
    <2>1. copy = [f \in there |-> copy[f]]
        BY DEF copy
    <2>. QED
        BY <1>3, <2>1
<1>5. IsFiniteSet(there) /\ Cardinality(there) <= n
    <2>. HIDE DEF there, n, S
    <2>1. copy \in Injection(there, S)
        BY <1>4 DEF Injection, IsInjective
    <2>. QED
        BY <1>1, <2>1, FS_Injection
<1>6. CASE there = {}
    <2>1. Sizes(q, there) \in [there -> Nat]
        BY <1>6 DEF Sizes
    <2>2. MapThenSumSet(LAMBDA f : Largest(q, f), there) = Cardinality(Units(Sizes(q, there), there))
        <3>. HIDE DEF there, q
        <3>. QED
            BY <1>5, <2>1, LargestCounts
    <2>3. Cardinality(Units(Sizes(q, there), there)) = 0 /\ Cardinality(there) = 0
        BY <1>6, UnitsOfNone, FS_EmptySet
    <2>. QED
        BY <1>1, <2>2, <2>3
<1>7. CASE there # {}
    <2>1. n <= MaxMembers /\ TotalSize(q) <= MaxTotal
        <3>1. ~Refused(q)
            BY <1>3, <1>7
        <3>2. /\ Content(q) \in [S -> Nat] /\ TotalSize(q) = Cardinality(Units(Content(q), S))
            BY <1>1, <1>2, TotalCounts
        <3>3. TotalSize(q) \in Nat
            BY <1>1, <3>2, UnitsFinite, FS_CardinalityType
        <3>. QED
            BY <1>1, <3>1, <3>3 DEF Refused
    <2>2. Sizes(q, there) \in [there -> Nat] /\ \A f \in there : Sizes(q, there)[f] = Content(q)[copy[f]]
        BY <1>3 DEF Sizes
    <2>3. MapThenSumSet(LAMBDA f : Largest(q, f), there) = Cardinality(Units(Sizes(q, there), there))
        <3>. HIDE DEF there, q
        <3>. QED
            BY <1>5, <2>2, LargestCounts
    <2>4. Content(q) \in [S -> Nat] /\ TotalSize(q) = Cardinality(Units(Content(q), S))
        BY <1>1, <1>2, TotalCounts
    <2>5. \A f \in there : Sizes(q, there)[f] <= Content(q)[copy[f]]
        BY <1>4, <2>2, <2>4
    <2>6. Cardinality(Units(Sizes(q, there), there)) <= Cardinality(Units(Content(q), S))
        <3>. DEFINE w == Sizes(q, there)
                    v == Content(q)
        <3>1. w \in [there -> Nat] /\ v \in [S -> Nat] /\ \A f \in there : w[f] <= v[copy[f]]
            BY <2>2, <2>4, <2>5
        <3>. HIDE DEF w, v, there, S
        <3>2. Cardinality(Units(w, there)) <= Cardinality(Units(v, S))
            BY <1>1, <1>4, <1>5, <3>1, UnitsCompared
        <3>. QED
            BY <3>2 DEF w, v
    <2>7. /\ Cardinality(Units(Sizes(q, there), there)) \in Nat
          /\ Cardinality(there) \in Nat /\ TotalSize(q) \in Nat
        BY <1>1, <1>5, <2>2, <2>4, UnitsFinite, FS_CardinalityType
    <2>. QED
        BY <1>1, <1>5, <2>1, <2>3, <2>4, <2>6, <2>7
<1>. QED
    BY <1>6, <1>7

\* Whatever an archive claims, no more files and no more bytes come out of
\* it than the limits on its members allow, also after its handler has
\* stopped waiting (utils.py, extract_archive).
THEOREM FilesWithinLimit == Spec => []DiskWithinLimits
BY LimitFacts, TypeInit, TypeStep, CoherentInit, CoherentStep, CopiedInit, CopiedStep, PTL DEF Spec
=============================================================================
