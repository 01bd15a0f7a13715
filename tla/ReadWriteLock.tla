---------------------------- MODULE ReadWriteLock ----------------------------
(***************************************************************************)
(* The locks of DictionaryDatabase for one key of Redis                    *)
(* (async/database/dictionary_db): rlock counts the readers in             *)
(* {key}:readers, rwlock looks whether that counter is positive and then   *)
(* lets redis.lock.Lock write a token to {key}.  Both keys expire, any     *)
(* call of Redis may fail with or without having had its effect, and a     *)
(* client may die with what it holds.                                      *)
(*                                                                         *)
(* rlock also asks whether {key}:write exists; no code ever writes that    *)
(* key (the token is at {key}), so the answer is always no and a writer    *)
(* keeps no reader out.                                                    *)
(***************************************************************************)
EXTENDS Integers, FiniteSets

CONSTANTS
    Clients,    \* processes that use the key
    Faults,     \* what may go wrong
    MaxFaults,  \* bound: how often
    Orphan,     \* a token whose owner does not know of it, or is gone
    None        \* no token

FaultKind == {
    "redis",    \* a call raises: it had its effect, or it had not
    "crash",    \* a client dies
    "counter",  \* the counter expires under a reader who did not extend it,
                \* or after another reader set a shorter ttl
    "token"}    \* the token of a writer expires under him

ASSUME LockAssumption ==
    /\ Faults \subseteq FaultKind /\ MaxFaults \in Nat
    /\ Orphan \notin Clients \cup {None} /\ None \notin Clients

VARIABLES
    readers,  \* the number at {key}:readers, 0 if there is none
    key,      \* {key}:readers: absent, expiring, or kept without a ttl
    token,    \* {key}: whose token
    pc,       \* [Clients]: where the client is
    spoiled,  \* did the counter, when it last expired, have readers?
    lapsed,   \* the writers inside whose token has expired under them
    budget    \* faults left

counterVars == <<readers, key, spoiled>>
tokenVars   == <<token, lapsed>>
vars        == <<counterVars, tokenVars, pc, budget>>

Place   == {"out", "reading", "looked", "writing"}
Reading == {c \in Clients : pc[c] = "reading"}
Writing == {c \in Clients : pc[c] = "writing"}

LockTypeOK ==
    /\ readers \in Int
    /\ key    \in {"absent", "expiring", "kept"}
    /\ token  \in Clients \cup {Orphan, None}
    /\ pc     \in [Clients -> Place]
    /\ lapsed \subseteq Clients
    /\ spoiled \in BOOLEAN
    /\ budget \in 0..MaxFaults

Init ==
    /\ readers = 0 /\ key = "absent" /\ spoiled = FALSE
    /\ token   = None
    /\ pc      = [c \in Clients |-> "out"]
    /\ lapsed  = {}
    /\ budget  = MaxFaults

Fault(kind) == /\ kind \in Faults
               /\ budget > 0
               /\ budget' = budget - 1
NoFault     == UNCHANGED budget

Goto(c, from, to) == pc[c] = from /\ pc' = [pc EXCEPT ![c] = to]

-----------------------------------------------------------------------------
(* RedisReadLock.                                                          *)

\* A wrong script: INCR alone.
CountForever ==
    /\ readers' = readers + 1
    /\ key' = IF key = "absent" THEN "kept" ELSE key
    /\ UNCHANGED spoiled

\* INCR and EXPIRE, in one script.
Count == readers' = readers + 1 /\ key' = "expiring" /\ UNCHANGED spoiled

\* DECR, which keeps the ttl, and creates the key without one.
Uncount ==
    /\ readers' = readers - 1
    /\ key' = IF key = "absent" THEN "kept" ELSE key
    /\ UNCHANGED spoiled

\* rlock: an error reads as "not acquired".
RLock(c) ==
    /\ \/ Goto(c, "out", "reading") /\ Count /\ NoFault
       \/ /\ pc[c] = "out" /\ UNCHANGED pc
          /\ Count \/ UNCHANGED counterVars
          /\ Fault("redis")
    /\ UNCHANGED tokenVars

\* EXPIRE of the shared counter; of one that is gone it does nothing (and
\* extend_ttl answers True all the same).
ReadExtend(c) ==
    /\ pc[c] = "reading"
    /\ key' = IF key = "absent" THEN key ELSE "expiring"
    /\ UNCHANGED <<readers, spoiled, tokenVars, pc, budget>>

\* A wrong release: the client is counted off when its rlock failed, too.
ReadReleaseAnyway(c) ==
    /\ \/ Goto(c, "reading", "out")
       \/ pc[c] = "out" /\ UNCHANGED pc
    /\ Uncount /\ NoFault
    /\ UNCHANGED tokenVars

\* Errors of the release are swallowed, and it is not repeated.
ReadRelease(c) ==
    /\ Goto(c, "reading", "out")
    /\ \/ Uncount /\ NoFault
       \/ (Uncount \/ UNCHANGED counterVars) /\ Fault("redis")
    /\ UNCHANGED tokenVars

-----------------------------------------------------------------------------
(* RedisWriteLock: two calls, and readers may come between them.           *)

\* _check_readers_script; a positive counter or an error ends the attempt.
CheckReaders(c) ==
    /\ readers <= 0
    /\ Goto(c, "out", "looked")
    /\ UNCHANGED <<counterVars, tokenVars, budget>>

\* SET NX of a new token, once and without waiting.
Acquire(c) ==
    /\ \/ /\ token = None
          /\ Goto(c, "looked", "writing")
          /\ token' = c
          /\ NoFault
       \/ /\ token # None
          /\ Goto(c, "looked", "out")
          /\ UNCHANGED token /\ NoFault
       \/ /\ Goto(c, "looked", "out")
          /\ token' \in {token, IF token = None THEN Orphan ELSE token}
          /\ Fault("redis")
    /\ UNCHANGED <<counterVars, lapsed>>

\* A wrong release: DEL without comparing the token.
WriteReleaseAny(c) ==
    /\ Goto(c, "writing", "out")
    /\ lapsed' = lapsed \ {c}
    /\ token' = None /\ NoFault
    /\ UNCHANGED counterVars

\* The token is deleted if it is still this client's.  A failed call may
\* leave it behind, with no owner.
WriteRelease(c) ==
    /\ Goto(c, "writing", "out")
    /\ lapsed' = lapsed \ {c}
    /\ \/ token' = (IF token = c THEN None ELSE token) /\ NoFault
       \/ /\ \E left \in {None, Orphan} :
                 token' = IF token = c THEN left ELSE token
          /\ Fault("redis")
    /\ UNCHANGED counterVars

-----------------------------------------------------------------------------
(* Redis forgets keys; clients die.                                        *)

CounterExpires ==
    /\ key = "expiring"
    /\ IF Reading = {} THEN NoFault ELSE Fault("counter")
    /\ readers' = 0 /\ key' = "absent"
    /\ spoiled' = (Reading # {})
    /\ UNCHANGED <<tokenVars, pc>>

\* A token nobody extends expires; that of a writer inside, if its
\* extensions failed.
TokenExpires ==
    /\ token # None
    /\ token' = None
    /\ IF token = Orphan
       THEN UNCHANGED lapsed /\ NoFault
       ELSE lapsed' = lapsed \cup {token} /\ Fault("token")
    /\ UNCHANGED <<counterVars, pc>>

Crash(c) ==
    /\ pc[c] # "out"
    /\ Fault("crash")
    /\ pc' = [pc EXCEPT ![c] = "out"]
    /\ lapsed' = lapsed \ {c}
    /\ token' = IF token = c THEN Orphan ELSE token
    /\ UNCHANGED counterVars

\* rwlock: both calls, and no retry.
RWLock(c) == CheckReaders(c) \/ Acquire(c)

\* LockContext.__exit__.
Leave(c) == ReadRelease(c) \/ WriteRelease(c)

Next ==
    \/ CounterExpires \/ TokenExpires
    \/ \E c \in Clients : \/ RLock(c) \/ ReadExtend(c) \/ RWLock(c)
                          \/ Leave(c) \/ Crash(c)

Spec == Init /\ [][Next]_vars

\* Keys expire.  Clients may do nothing.
FairSpec == Spec /\ WF_vars(CounterExpires) /\ WF_vars(TokenExpires)

-----------------------------------------------------------------------------
\* The counter is never less than the number of readers inside, so that no
\* writer's check overlooks one, unless it expired under a reader and has not
\* expired without one since: failed calls, clients that die and what they
\* leave behind only make it too large, and when the readers have stayed away
\* for a ttl it is right again.
ReadersCounted == ~spoiled => Cardinality(Reading) <= readers

\* Two writers are inside together only if the token of one of them has
\* expired under him: his late release, and what dead clients and failed
\* calls left behind, take no other writer's lock away.
WritersExclude ==
    \A c, d \in Writing : {c, d} \cap lapsed = {} => c = d

\* What dead readers and failed calls left behind does not keep writers out
\* for good: once the readers stay away, both locks are open again and again.
LocksOpen == <>[](Reading = {} /\ Writing = {}) => []<>(readers <= 0 /\ token = None)
=============================================================================
