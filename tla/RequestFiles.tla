----------------------------- MODULE RequestFiles -----------------------------
(***************************************************************************)
(* What one replica of the async worker does with the files of its jobs:   *)
(* sweep the temporary directory, make one for the job, download, unpack,  *)
(* transcribe file after file (file_manager.py, temp_file_manager.py,      *)
(* audio_processor.py, utils.py).  It is the action Work of AsyncWorker in *)
(* detail.                                                                 *)
(*                                                                         *)
(* All slow calls go through run_with_timeout(asyncio.to_thread(..)).  A   *)
(* timeout ends the waiting, not the thread: a call that still queues for  *)
(* a worker of the executor is cancelled, a running one goes on, holds its *)
(* worker and writes where it was told to, perhaps for ever.               *)
(***************************************************************************)
EXTENDS Integers, Sequences, FiniteSets, FiniteSetsExt

CONSTANTS
    Job,          \* the jobs a replica handles at the same time
    Inputs,       \* [Job]: the requests a job may come with
    Workers,      \* threads of the default executor
    MaxArchive,   \* MAX_ARCHIVE_SIZE
    MaxTotal,     \* MAX_ARCHIVE_UNCOMPRESSED_SIZE
    MaxMembers,   \* MAX_ARCHIVE_FILES
    MaxRatio,     \* MAX_COMPRESSION_RATIO
    Leftover,     \* jobs with, perhaps, a directory of an earlier attempt
    Slow          \* jobs that may work for eight hours on what they downloaded

MemberKind == {
    "audio",   \* a regular file at the top level
    "script",  \* the same with the name of an executable
    "nested",  \* a regular file in a directory
    "folder",  \* a directory
    "link"}    \* a symbolic link

(* A part is an entry of a list of remote files, or a member of an         *)
(* archive.  The name of an entry is that of its local file, a random one: *)
(* a remote file that is listed twice is two parts of two names.  Of the   *)
(* members of an archive two may have the same name.                       *)
Part == [name : Nat \ {0}, kind : MemberKind, size : Nat]

(* A request for a file is one for a list of one.                          *)
IsRequest(q) ==
    /\ DOMAIN q = {"type", "bytes", "format", "parts"}
    /\ q.type \in {"files", "archive"} /\ q.format \in {"zip", "tar", "rar"}
    /\ q.bytes \in Nat /\ q.parts \in Seq(Part)
    /\ q.type = "files" =>
          \A i, k \in DOMAIN q.parts : q.parts[i].name = q.parts[k].name => i = k

ASSUME FilesAssumption ==
    /\ DOMAIN Inputs = Job /\ \A j \in Job : \A q \in Inputs[j] : IsRequest(q)
    /\ Workers \in Nat \ {0} /\ Leftover \subseteq Job /\ Slow \subseteq Job
    /\ {MaxArchive, MaxTotal, MaxMembers, MaxRatio} \subseteq Nat

Archive == 0                                  \* the name of the archive itself
Names(q) == {q.parts[i].name : i \in DOMAIN q.parts}
Name == {Archive} \cup UNION {Names(q) : q \in UNION {Inputs[j] : j \in Job}}

VARIABLES
    request,  \* [Job]: what was asked for
    pc,       \* [Job]: where the handler is; the name of a call: it waits for it
    at,       \* [Job]: the file it waits for
    paths,    \* [Job]: local_paths, the files it will transcribe
    errors,   \* [Job]: download_errors, by file
    outcome,  \* [Job -> [Name]]: the result of a file
    dir,      \* [Job]: the job's directory
    disk,     \* [Job -> [Name]]: the files in it
    threads,  \* calls handed to the executor
    met       \* [Job]: what happened to its directory

handlers  == <<pc, at, paths, errors, outcome>>
files     == <<dir, disk>>
filesVars == <<request, handlers, files, threads, met>>

Call == {"sweep", "download", "extract", "convert"}
Over == {"answered", "raised"}

(* A call in the executor.  left and doomed are the sweep's: the entries   *)
(* it has not looked at, and the one it is removing; step counts members.  *)
Thread == [job : Job, call : Call, file : Name, running : BOOLEAN,
           left : SUBSET Job, doomed : SUBSET Job, step : Nat]

TypeOK ==
    /\ \A j \in Job : request[j] \in Inputs[j]
    /\ pc \in [Job -> Call \cup Over \cup
                   {"new", "prepare", "fetch", "unpack", "list", "transcribe", "converted"}]
    /\ at \in [Job -> Name]
    /\ paths \in [Job -> SUBSET Name]
    /\ errors \in [Job -> SUBSET Name]
    /\ outcome \in [Job -> [Name -> {"none", "audio", "stub", "text", "cut", "error"}]]
    /\ dir \in [Job -> {"none", "fresh", "old"}]
    /\ disk \in [Job -> [Name -> {"none", "partial", "whole"}]]
    /\ threads \subseteq Thread
    /\ met \in [Job -> SUBSET {"slow", "swept"}]

(* Nothing is known of a job but, perhaps, a directory an attempt left     *)
(* behind more than eight hours ago.                                       *)
Init ==
    /\ request \in [Job -> UNION {Inputs[j] : j \in Job}]
    /\ \A j \in Job : request[j] \in Inputs[j]
    /\ pc = [j \in Job |-> "new"]
    /\ at = [j \in Job |-> Archive]
    /\ paths = [j \in Job |-> {}]
    /\ errors = [j \in Job |-> {}]
    /\ outcome = [j \in Job |-> [f \in Name |-> "none"]]
    /\ dir \in [Job -> {"none", "old"}] /\ \A j \in Job : dir[j] = "old" => j \in Leftover
    /\ disk = [j \in Job |-> [f \in Name |-> "none"]]
    /\ threads = {}
    /\ met = [j \in Job |-> {}]

-----------------------------------------------------------------------------
(* run_with_timeout(asyncio.to_thread(call, ..), timeout)                  *)

Running == {t \in threads : t.running}

(* A free worker takes the call at once.  os.scandir lists what is there.  *)
Await(j, call, f) ==
    /\ pc' = [pc EXCEPT ![j] = call]
    /\ at' = [at EXCEPT ![j] = f]
    /\ threads' = threads \cup
         {[job |-> j, call |-> call, file |-> f,
           running |-> Cardinality(Running) < Workers,
           left |-> {k \in Job : dir[k] # "none"}, doomed |-> {}, step |-> 0]}

Awaited(t) == pc[t.job] = t.call /\ at[t.job] = t.file

(* A worker that has become free takes a call that queues.                 *)
Run(t) ==
    /\ ~t.running /\ Cardinality(Running) < Workers
    /\ threads' = (threads \ {t}) \cup {[t EXCEPT !.running = TRUE]}
    /\ UNCHANGED <<request, handlers, files, met>>

Becomes(t, u) == threads' = (threads \ {t}) \cup {u} /\ UNCHANGED handlers

Goto(j, l) == pc' = [pc EXCEPT ![j] = l]
Fails(j, f, l) == errors' = [errors EXCEPT ![j] = @ \cup {f}] /\ Goto(j, l)
Result(j, f, r) == outcome' = [outcome EXCEPT ![j][f] = r]

(* How the handler goes on when the call it waits for returns.  A timeout  *)
(* is a call that has not succeeded.                                       *)
Resume(j, ok) ==
    LET f == at[j] IN
    /\ \/ /\ pc[j] = "sweep"
          /\ Goto(j, "prepare") /\ UNCHANGED <<paths, errors, outcome>>
       \/ /\ pc[j] = "download" /\ ok /\ f # Archive
          /\ paths' = [paths EXCEPT ![j] = @ \cup {f}]
          /\ Goto(j, "fetch") /\ UNCHANGED <<errors, outcome>>
       \/ /\ pc[j] = "download" /\ ok /\ f = Archive
          /\ Goto(j, "unpack") /\ UNCHANGED <<paths, errors, outcome>>
       \/ /\ pc[j] = "download" /\ ~ok
          /\ Fails(j, f, IF f = Archive THEN "transcribe" ELSE "fetch")
          /\ UNCHANGED <<paths, outcome>>
       \/ /\ pc[j] = "extract" /\ ok
          /\ Goto(j, "list") /\ UNCHANGED <<paths, errors, outcome>>
       \/ /\ pc[j] = "extract" /\ ~ok
          /\ Fails(j, Archive, "transcribe") /\ UNCHANGED <<paths, outcome>>
       \/ /\ pc[j] = "convert" /\ ok
          /\ Result(j, f, IF disk[j][f] = "whole" THEN "audio" ELSE "stub")
          /\ Goto(j, "converted") /\ UNCHANGED <<paths, errors>>
       \/ /\ pc[j] = "convert" /\ ~ok
          /\ Result(j, f, "error")
          /\ Goto(j, "transcribe") /\ UNCHANGED <<paths, errors>>
    /\ UNCHANGED at

(* A thread whose handler has given up ends unnoticed.                     *)
Return(t, ok) ==
    /\ threads' = threads \ {t}
    /\ IF Awaited(t) THEN Resume(t.job, ok) ELSE UNCHANGED handlers

(* Wrong ones: the path is kept; extraction has none.                      *)
TimeoutKeepsPath(j) ==
    /\ pc[j] \in Call
    /\ Resume(j, pc[j] = "download")
    /\ threads' = {t \in threads : ~(t.job = j /\ Awaited(t) /\ ~t.running)}
    /\ UNCHANGED <<request, files, met>>

TimeoutButExtract(j) ==
    /\ pc[j] \in Call \ {"extract"}
    /\ Resume(j, FALSE)
    /\ threads' = {t \in threads : ~(t.job = j /\ Awaited(t) /\ ~t.running)}
    /\ UNCHANGED <<request, files, met>>

Timeout(j) ==
    /\ pc[j] \in Call
    /\ Resume(j, FALSE)
    /\ threads' = {t \in threads : ~(t.job = j /\ Awaited(t) /\ ~t.running)}
    /\ UNCHANGED <<request, files, met>>

-----------------------------------------------------------------------------
(* TempFileManager *)

(* The sweep of a job's own attempt runs before its directory is made.     *)
Begin(j) ==
    /\ pc[j] = "new"
    /\ Await(j, "sweep", Archive)
    /\ UNCHANGED <<request, paths, errors, outcome, files, met>>

(* The sweep looks at the time of the last change of the directory..       *)
(* (A wrong one: it does not.)                                             *)
SweepAnything(t) ==
    /\ t.call = "sweep" /\ t.running /\ t.doomed = {}
    /\ \E k \in t.left : Becomes(t, [t EXCEPT !.left = @ \ {k}, !.doomed = {k}])
    /\ UNCHANGED <<request, files, met>>

SweepStat(t) ==
    /\ t.call = "sweep" /\ t.running /\ t.doomed = {}
    /\ \E k \in t.left :
         Becomes(t, [t EXCEPT !.left = @ \ {k},
                              !.doomed = IF dir[k] = "old" THEN {k} ELSE {}])
    /\ UNCHANGED <<request, files, met>>

(* ..and rmtree removes what it finds.  Files made meanwhile may stay, and *)
(* then the directory, which has just been changed, stays with them.       *)
SweepRemove(t) ==
    /\ t.call = "sweep" /\ t.running
    /\ \E k \in t.doomed :
         LET there == {f \in Name : disk[k][f] # "none"} IN
         \E gone \in SUBSET there :
           /\ disk' = [disk EXCEPT ![k] =
                         [f \in Name |-> IF f \in gone THEN "none" ELSE @[f]]]
           /\ dir' = [dir EXCEPT ![k] = IF gone = there THEN "none" ELSE "fresh"]
    /\ Becomes(t, [t EXCEPT !.doomed = {}])
    /\ UNCHANGED <<request, met>>

SweepEnd(t) ==
    /\ t.call = "sweep" /\ t.running /\ t.left = {} /\ t.doomed = {}
    /\ Return(t, TRUE)
    /\ UNCHANGED <<request, files, met>>

Prepare(j) ==
    /\ pc[j] = "prepare"
    /\ dir' = [dir EXCEPT ![j] = IF @ = "none" THEN "fresh" ELSE @]
    /\ met' = IF dir[j] = "old" \/ \E t \in threads : j \in t.doomed
              THEN [met EXCEPT ![j] = @ \cup {"swept"}] ELSE met
    /\ Goto(j, "fetch")
    /\ UNCHANGED <<request, at, paths, errors, outcome, disk, threads>>

(* Eight hours pass while a job transcribes, half an hour to a call.  The  *)
(* downloads of at most 50 files do not take that long.  What passes after *)
(* a job is over shows when the next attempt finds the directory: see Init.*)
Age(j) ==
    /\ j \in Slow /\ dir[j] = "fresh"
    /\ pc[j] \in {"transcribe", "convert", "converted"}
    /\ dir' = [dir EXCEPT ![j] = "old"]
    /\ met' = [met EXCEPT ![j] = @ \cup {"slow"}]
    /\ UNCHANGED <<request, handlers, disk, threads>>

-----------------------------------------------------------------------------
(* FileManager: downloads *)

ToFetch(j) ==
    IF request[j].type = "files" THEN Names(request[j]) \ (paths[j] \cup errors[j])
    ELSE {Archive}

Fetch(j) ==
    /\ pc[j] = "fetch"
    /\ IF ToFetch(j) = {}
       THEN Goto(j, "transcribe") /\ UNCHANGED <<at, threads>>
       ELSE Await(j, "download", Min(ToFetch(j)))
    /\ UNCHANGED <<request, paths, errors, outcome, files, met>>

(* download_file opens the remote file, then the local one..               *)
OpenFiles(t) ==
    /\ t.call = "download" /\ t.running /\ t.step = 0
    /\ \/ Return(t, FALSE) /\ UNCHANGED files
       \/ /\ dir[t.job] # "none"
          /\ disk' = [disk EXCEPT ![t.job][t.file] = "partial"]
          /\ dir' = [dir EXCEPT ![t.job] = "fresh"]
          /\ Becomes(t, [t EXCEPT !.step = 1])
    /\ UNCHANGED <<request, met>>

(* ..and copies.  It does not notice that its file has been removed.       *)
CopyFile(t) ==
    /\ t.call = "download" /\ t.running /\ t.step = 1
    /\ \/ Return(t, FALSE) /\ UNCHANGED disk
       \/ /\ Return(t, TRUE)
          /\ disk' = [disk EXCEPT ![t.job][t.file] = IF @ = "none" THEN @ ELSE "whole"]
    /\ UNCHANGED <<request, dir, met>>

-----------------------------------------------------------------------------
(* FileManager and extract_archive: archives *)

Listed(k)  == k \in {"audio", "script", "link"}
IsFile(k)  == k \in {"audio", "script", "nested"}
Last(q, n) == q.parts[Max({i \in DOMAIN q.parts : q.parts[i].name = n})]

(* Members that count: in a tar archive the regular files, in a zip        *)
(* archive, where every member has a content, all.                         *)
Counted(q, i) == IF q.format = "tar" /\ ~IsFile(q.parts[i].kind) THEN 0 ELSE q.parts[i].size

TotalSize(q) == MapThenSumSet(LAMBDA i : Counted(q, i), DOMAIN q.parts)

(* accumulated_size when a member has been looked at.  Folders are passed  *)
(* over; zipfile.getinfo returns the last of the members of a name.        *)
Accumulated(q, i) ==
    MapThenSumSet(LAMBDA k : IF q.format = "zip" THEN Last(q, q.parts[k].name).size
                             ELSE Counted(q, k), {k \in 1..i : q.parts[k].kind # "folder"})

(* The first layer: what is known before anything is unpacked.             *)
(* (A wrong one: the number of members is not looked at.)                  *)
RefusedBySize(q) ==
    \/ q.format = "rar"
    \/ q.bytes > 0 /\ TotalSize(q) > MaxRatio * q.bytes
    \/ TotalSize(q) > MaxTotal

Refused(q) ==
    \/ q.format = "rar"
    \/ Len(q.parts) > MaxMembers
    \/ q.bytes > 0 /\ TotalSize(q) > MaxRatio * q.bytes
    \/ TotalSize(q) > MaxTotal

Unpack(j) ==
    /\ pc[j] = "unpack"
    /\ \/ /\ disk[j][Archive] = "none"          \* getsize raises
          /\ Goto(j, "raised") /\ UNCHANGED <<at, errors, dir, threads>>
       \/ /\ disk[j][Archive] # "none" /\ request[j].bytes > MaxArchive
          /\ Fails(j, Archive, "transcribe") /\ UNCHANGED <<at, dir, threads>>
       \/ /\ disk[j][Archive] # "none" /\ request[j].bytes <= MaxArchive
          /\ dir' = [dir EXCEPT ![j] = "fresh"]
          /\ Await(j, "extract", Archive) /\ UNCHANGED errors
    /\ UNCHANGED <<request, paths, outcome, disk, met>>

OpenArchive(t) ==
    /\ t.call = "extract" /\ t.running /\ t.step = 0
    /\ IF Refused(request[t.job]) \/ disk[t.job][Archive] = "none"
       THEN Return(t, FALSE)
       ELSE Becomes(t, [t EXCEPT !.step = 1])
    /\ UNCHANGED <<request, files, met>>

(* A zip member is written where it belongs, and that must exist; tarfile  *)
(* makes the directories it needs, and everything but files is skipped.    *)
Creates(q, p) == IF q.format = "zip" THEN p.kind = "folder" ELSE IsFile(p.kind)
Writes(q, p)  == IF q.format = "zip" THEN p.kind # "folder" ELSE IsFile(p.kind)
Homeless(q, i) ==
    /\ q.format = "zip" /\ q.parts[i].kind = "nested"
    /\ \A k \in 1..i : q.parts[k].kind # "folder"

ExtractMember(t) ==
    LET j == t.job
        q == request[j]
        p == q.parts[t.step] IN
    /\ t.call = "extract" /\ t.running /\ t.step \in DOMAIN q.parts
    /\ IF \/ Accumulated(q, t.step) > MaxTotal
          \/ Homeless(q, t.step)
          \/ dir[j] = "none" /\ Writes(q, p) /\ ~Creates(q, p)
       THEN Return(t, FALSE) /\ UNCHANGED files
       ELSE /\ dir' = [dir EXCEPT ![j] = IF Creates(q, p) /\ @ = "none" THEN "fresh" ELSE @]
            /\ disk' = [disk EXCEPT ![j][p.name] = IF Writes(q, p) THEN "whole" ELSE @]
            /\ Becomes(t, [t EXCEPT !.step = @ + 1])
    /\ UNCHANGED <<request, met>>

ExtractEnd(t) ==
    /\ t.call = "extract" /\ t.running /\ t.step = Len(request[t.job].parts) + 1
    /\ Return(t, TRUE)
    /\ UNCHANGED <<request, files, met>>

(* os.listdir and isfile: directories and what is in them do not count.    *)
(* (A wrong one: executables are passed over without an error.)            *)
ListQuietly(j) ==
    LET found == {f \in Names(request[j]) : disk[j][f] # "none" /\ Listed(Last(request[j], f).kind)} IN
    /\ pc[j] = "list"
    /\ IF dir[j] = "none"
       THEN Goto(j, "raised") /\ UNCHANGED paths
       ELSE /\ paths' = [paths EXCEPT ![j] = {f \in found : Last(request[j], f).kind # "script"}]
            /\ Goto(j, "transcribe")
    /\ UNCHANGED <<request, at, errors, outcome, files, threads, met>>

ListFiles(j) ==
    LET found == {f \in Names(request[j]) : disk[j][f] # "none" /\ Listed(Last(request[j], f).kind)}
        scripts == {f \in found : Last(request[j], f).kind = "script"} IN
    /\ pc[j] = "list"
    /\ IF dir[j] = "none"
       THEN Goto(j, "raised") /\ UNCHANGED <<paths, errors>>
       ELSE /\ paths' = [paths EXCEPT ![j] = found \ scripts]
            /\ errors' = [errors EXCEPT ![j] = @ \cup scripts]
            /\ Goto(j, "transcribe")
    /\ UNCHANGED <<request, at, outcome, files, threads, met>>

-----------------------------------------------------------------------------
(* AudioProcessor and the answer *)

ToTranscribe(j) == {f \in paths[j] : outcome[j][f] = "none"}

Transcribe(j) ==
    /\ pc[j] = "transcribe" /\ ToTranscribe(j) # {}
    /\ Await(j, "convert", Min(ToTranscribe(j)))
    /\ UNCHANGED <<request, paths, errors, outcome, files, met>>

(* librosa.load takes whatever is in the file.                             *)
Convert(t) ==
    /\ t.call = "convert" /\ t.running
    /\ \/ Return(t, FALSE)
       \/ disk[t.job][t.file] # "none" /\ Return(t, TRUE)
    /\ UNCHANGED <<request, files, met>>

(* The call of the model, which CrocModel describes, ends well or not.     *)
AskModel(j) ==
    /\ pc[j] = "converted"
    /\ \/ Result(j, at[j], IF outcome[j][at[j]] = "audio" THEN "text" ELSE "cut")
       \/ Result(j, at[j], "error")
    /\ Goto(j, "transcribe")
    /\ UNCHANGED <<request, at, paths, errors, files, threads, met>>

(* The response has a result for every path and for every error.           *)
Answer(j) ==
    /\ pc[j] = "transcribe" /\ ToTranscribe(j) = {}
    /\ Goto(j, "answered")
    /\ UNCHANGED <<request, at, paths, errors, outcome, files, threads, met>>

-----------------------------------------------------------------------------

Proceed(j) == \/ Prepare(j) \/ Fetch(j) \/ Unpack(j) \/ ListFiles(j)
              \/ Transcribe(j) \/ AskModel(j) \/ Answer(j) \/ Timeout(j)

InThread(t) ==
    \/ Run(t) \/ SweepStat(t) \/ SweepRemove(t) \/ SweepEnd(t)
    \/ OpenFiles(t) \/ CopyFile(t) \/ OpenArchive(t) \/ ExtractMember(t) \/ ExtractEnd(t)
    \/ Convert(t)

Next == \/ \E j \in Job : Begin(j) \/ Proceed(j) \/ Age(j)
        \/ \E t \in threads : InThread(t)

(* The event loop runs, and timers fire.  Nothing is said of the threads.  *)
Spec == Init /\ [][Next]_filesVars /\ \A j \in Job : WF_filesVars(Proceed(j))

-----------------------------------------------------------------------------
(* Properties *)

(* A transcript is that of a whole file: a thread that goes on downloading *)
(* after its timeout never writes to a file the handler uses.              *)
NothingCutShort == \A j \in Job, f \in Name : outcome[j][f] # "cut"

(* Every file asked for, every member at the top level of an archive that  *)
(* could be unpacked, has exactly one result in the answer; an archive     *)
(* that could not has one error and nothing of it is transcribed.          *)
EveryPartAccounted ==
    \A j \in Job :
       LET q == request[j]
           top == {n \in Names(q) : Listed(Last(q, n).kind) /\
                                    ~(q.format = "tar" /\ Last(q, n).kind = "link")}
           due == IF q.type = "files" THEN Names(q) ELSE top IN
       pc[j] = "answered" =>
          IF Archive \in errors[j]
          THEN errors[j] = {Archive} /\ \A f \in Name : outcome[j][f] = "none"
          ELSE met[j] = {} =>
                 \A f \in due : (f \in errors[j]) # (outcome[j][f] \in {"text", "cut", "error"})

(* The files of a job stay until it has used them, unless it works for     *)
(* eight hours without changing its directory, or takes over one that is   *)
(* due to be swept or being swept.  So no sweep makes it raise.            *)
FilesStay ==
    \A j \in Job : met[j] = {} =>
        /\ pc[j] # "raised"
        /\ pc[j] \notin Over => \A f \in ToTranscribe(j) : disk[j][f] = "whole"

(* Whatever an archive claims, what is unpacked of it stays within the     *)
(* limits, at every moment and also while the handler has long stopped     *)
(* waiting.  A file is one of the members that are written under its name; *)
(* the largest of them counts.                                             *)
Copies(q, f)  == {i \in DOMAIN q.parts : q.parts[i].name = f /\ Writes(q, q.parts[i])}
Largest(q, f) == Max({q.parts[i].size : i \in Copies(q, f)})

DiskWithinLimits ==
    \A j \in Job : request[j].type = "archive" =>
        LET there == {f \in Names(request[j]) : disk[j][f] # "none"} IN
        /\ Cardinality(there) <= MaxMembers
        /\ MapThenSumSet(LAMBDA f : Largest(request[j], f), there) <= MaxTotal

(* However many calls hang, a job that has begun is answered or raises.    *)
EveryRequestEnds == \A j \in Job : pc[j] = "sweep" ~> pc[j] \in Over
=============================================================================
