-------------------------- MODULE ReadWriteLockProofs --------------------------
(***************************************************************************)
(* What ReadWriteLock guarantees for any clients and any faults.           *)
(***************************************************************************)
EXTENDS ReadWriteLock, FiniteSetTheorems, TLAPS

(***************************************************************************)
(* Types.                                                                  *)
(***************************************************************************)
LEMMA FaultType ==
    ASSUME LockTypeOK, NEW kind, Fault(kind) \/ NoFault
    PROVE  budget' \in 0..MaxFaults
BY LockAssumption DEF LockTypeOK, Fault, NoFault

LEMMA GotoType ==
    ASSUME LockTypeOK, NEW c \in Clients, NEW from, NEW to \in Place, Goto(c, from, to)
    PROVE  pc' \in [Clients -> Place]
BY DEF LockTypeOK, Goto

LEMMA CounterType ==
    ASSUME LockTypeOK, Count \/ Uncount \/ UNCHANGED counterVars
    PROVE  /\ readers' \in Int
           /\ spoiled' \in BOOLEAN
           /\ key' \in {"absent", "expiring", "kept"}
BY DEF LockTypeOK, Count, Uncount, counterVars

LEMMA ReaderTypes ==
    ASSUME LockTypeOK, NEW c \in Clients, RLock(c) \/ ReadExtend(c) \/ ReadRelease(c)
    PROVE  LockTypeOK'
<1>1. CASE RLock(c)
    <2>1. pc' \in [Clients -> Place]
        BY <1>1, GotoType DEF RLock, LockTypeOK, Place
    <2>2. budget' \in 0..MaxFaults
        BY <1>1, FaultType DEF RLock
    <2>3. Count \/ Uncount \/ UNCHANGED counterVars
        BY <1>1 DEF RLock
    <2>. QED
        BY <1>1, <2>1, <2>2, <2>3, CounterType DEF RLock, LockTypeOK, tokenVars
<1>2. CASE ReadExtend(c)
    BY <1>2 DEF ReadExtend, LockTypeOK, tokenVars
<1>3. CASE ReadRelease(c)
    <2>1. pc' \in [Clients -> Place]
        BY <1>3, GotoType DEF ReadRelease, Place
    <2>2. budget' \in 0..MaxFaults
        BY <1>3, FaultType DEF ReadRelease
    <2>3. Count \/ Uncount \/ UNCHANGED counterVars
        BY <1>3 DEF ReadRelease
    <2>. QED
        BY <1>3, <2>1, <2>2, <2>3, CounterType DEF ReadRelease, LockTypeOK, tokenVars
<1>. QED
    BY <1>1, <1>2, <1>3

LEMMA WriterTypes ==
    ASSUME LockTypeOK, NEW c \in Clients, CheckReaders(c) \/ Acquire(c) \/ WriteRelease(c) \/ Crash(c)
    PROVE  LockTypeOK'
<1>1. pc' \in [Clients -> Place]
    BY GotoType DEF CheckReaders, Acquire, WriteRelease, Crash, LockTypeOK, Place
<1>2. budget' \in 0..MaxFaults
    BY FaultType DEF CheckReaders, Acquire, WriteRelease, Crash, LockTypeOK
<1>3. token' \in Clients \cup {Orphan, None}
    BY DEF CheckReaders, Acquire, WriteRelease, Crash, LockTypeOK, tokenVars
<1>4. lapsed' \subseteq Clients
    BY DEF CheckReaders, Acquire, WriteRelease, Crash, LockTypeOK, tokenVars
<1>5. UNCHANGED counterVars
    BY DEF CheckReaders, Acquire, WriteRelease, Crash
<1>. QED
    BY <1>1, <1>2, <1>3, <1>4, <1>5 DEF LockTypeOK, counterVars

LEMMA RedisTypes ==
    ASSUME LockTypeOK, CounterExpires \/ TokenExpires
    PROVE  LockTypeOK'
<1>1. budget' \in 0..MaxFaults
    BY FaultType DEF CounterExpires, TokenExpires
<1>2. CASE CounterExpires
    <2>1. spoiled' \in BOOLEAN
        BY <1>2 DEF CounterExpires
    <2>. QED
        BY <1>1, <1>2, <2>1 DEF CounterExpires, LockTypeOK, tokenVars
<1>3. CASE TokenExpires
    BY <1>1, <1>3 DEF TokenExpires, LockTypeOK, counterVars
<1>. QED
    BY <1>2, <1>3

(***************************************************************************)
(* Readers: how the set of those inside changes, and the count with it.    *)
(***************************************************************************)
Counted == IsFiniteSet(Reading) /\ ReadersCounted

LEMMA OneMore ==
    ASSUME LockTypeOK, NEW c \in Clients, Goto(c, "out", "reading")
    PROVE  Reading' = Reading \cup {c} /\ c \notin Reading
BY DEF LockTypeOK, Goto, Reading, Place

LEMMA OneLess ==
    ASSUME LockTypeOK, NEW c \in Clients, Goto(c, "reading", "out")
    PROVE  Reading' = Reading \ {c} /\ c \in Reading
BY DEF LockTypeOK, Goto, Reading, Place

LEMMA SameReaders ==
    ASSUME LockTypeOK, NEW c \in Clients, NEW from \in Place \ {"reading"},
           NEW to \in Place \ {"reading"}, Goto(c, from, to)
    PROVE  Reading' = Reading
BY DEF LockTypeOK, Goto, Reading, Place

\* A client that comes in is counted in the step it comes in.
LEMMA CountedIn ==
    ASSUME LockTypeOK, Counted, NEW c \in Clients, RLock(c)
    PROVE  Counted'
<1>1. CASE Goto(c, "out", "reading") /\ Count
    <2>1. Reading' = Reading \cup {c} /\ c \notin Reading
        BY <1>1, OneMore
    <2>2. IsFiniteSet(Reading') /\ Cardinality(Reading') = Cardinality(Reading) + 1
        BY <2>1, FS_AddElement DEF Counted
    <2>3. Cardinality(Reading) \in Nat
        BY FS_CardinalityType DEF Counted
    <2>. QED
        BY <1>1, <2>2, <2>3 DEF Counted, ReadersCounted, Count, LockTypeOK
<1>2. CASE UNCHANGED pc /\ (Count \/ UNCHANGED counterVars)
    <2>1. Reading' = Reading
        BY <1>2 DEF Reading
    <2>2. Cardinality(Reading) \in Nat
        BY FS_CardinalityType DEF Counted
    <2>. QED
        BY <1>2, <2>1, <2>2 DEF Counted, ReadersCounted, Count, counterVars, LockTypeOK
<1>. QED
    BY <1>1, <1>2 DEF RLock

\* A client that leaves is counted off once at the most.
LEMMA CountedOut ==
    ASSUME LockTypeOK, Counted, NEW c \in Clients, ReadRelease(c)
    PROVE  Counted'
<1>1. Reading' = Reading \ {c} /\ c \in Reading
    BY OneLess DEF ReadRelease
<1>2. IsFiniteSet(Reading') /\ Cardinality(Reading') = Cardinality(Reading) - 1
    BY <1>1, FS_RemoveElement DEF Counted
<1>3. Cardinality(Reading) \in Nat
    BY FS_CardinalityType DEF Counted
<1>4. Uncount \/ UNCHANGED counterVars
    BY DEF ReadRelease
<1>. QED
    BY <1>2, <1>3, <1>4 DEF Counted, ReadersCounted, Uncount, counterVars, LockTypeOK

\* One that dies stays counted.
LEMMA CountedDead ==
    ASSUME LockTypeOK, Counted, NEW c \in Clients, Crash(c)
    PROVE  Counted'
<1>1. Reading' = Reading \/ (Reading' = Reading \ {c} /\ c \in Reading)
    BY DEF Crash, LockTypeOK, Reading, Place
<1>2. Cardinality(Reading) \in Nat
    BY FS_CardinalityType DEF Counted
<1>3. IsFiniteSet(Reading') /\ Cardinality(Reading') <= Cardinality(Reading)
    BY <1>1, <1>2, FS_RemoveElement DEF Counted
<1>4. Cardinality(Reading') \in Nat
    BY <1>3, FS_CardinalityType
<1>. QED
    BY <1>2, <1>3, <1>4 DEF Counted, ReadersCounted, Crash, counterVars, LockTypeOK

\* The counter that expires without readers is right, and else known wrong.
LEMMA CountedAnew ==
    ASSUME LockTypeOK, Counted, CounterExpires
    PROVE  Counted'
<1>1. Reading' = Reading
    BY DEF CounterExpires, Reading
<1>2. CASE Reading = {}
    BY <1>1, <1>2, FS_EmptySet DEF Counted, ReadersCounted, CounterExpires
<1>3. CASE Reading # {}
    BY <1>1, <1>3 DEF Counted, ReadersCounted, CounterExpires
<1>. QED
    BY <1>2, <1>3

LEMMA CountedElse ==
    ASSUME LockTypeOK, Counted, NEW c \in Clients,
           ReadExtend(c) \/ CheckReaders(c) \/ Acquire(c) \/ WriteRelease(c)
    PROVE  Counted'
<1>1. Reading' = Reading
    BY SameReaders DEF ReadExtend, CheckReaders, Acquire, WriteRelease, Reading, Place
<1>2. readers' = readers /\ spoiled' = spoiled
    BY DEF ReadExtend, CheckReaders, Acquire, WriteRelease, counterVars
<1>. QED
    BY <1>1, <1>2 DEF Counted, ReadersCounted

(***************************************************************************)
(* Writers: one whose token did not expire under him still has it, and no  *)
(* token is that of a client who is not inside.                            *)
(***************************************************************************)
Hold  == \A c \in Writing : c \in lapsed \/ token = c
Owned == lapsed \subseteq Writing /\ (token \in Clients => token \in Writing)

LEMMA HoldByReaders ==
    ASSUME LockTypeOK, Hold, Owned, NEW c \in Clients,
           RLock(c) \/ ReadExtend(c) \/ ReadRelease(c) \/ CheckReaders(c)
    PROVE  Hold' /\ Owned'
<1>1. Writing' = Writing
    BY DEF RLock, ReadExtend, ReadRelease, CheckReaders, Goto, Writing, LockTypeOK, Place
<1>2. lapsed' = lapsed /\ token' = token
    BY DEF RLock, ReadExtend, ReadRelease, CheckReaders, tokenVars
<1>. QED
    BY <1>1, <1>2 DEF Hold, Owned

LEMMA HoldByRedis ==
    ASSUME LockTypeOK, Hold, Owned, CounterExpires \/ TokenExpires
    PROVE  Hold' /\ Owned'
<1>1. Writing' = Writing
    BY DEF CounterExpires, TokenExpires, Writing
<1>2. CASE CounterExpires
    BY <1>1, <1>2 DEF CounterExpires, Hold, Owned, tokenVars
<1>3. CASE TokenExpires
    <2>1. token \in Clients \cup {Orphan} /\ token' = None
        BY <1>3 DEF TokenExpires, LockTypeOK
    <2>2. CASE token = Orphan
        BY <1>1, <1>3, <2>1, <2>2, LockAssumption DEF TokenExpires, Hold, Owned, Writing
    <2>3. CASE token \in Clients
        <3>1. lapsed' = lapsed \cup {token}
            BY <1>3, <2>3, LockAssumption DEF TokenExpires
        <3>. QED
            BY <1>1, <2>1, <2>3, <3>1, LockAssumption DEF Hold, Owned
    <2>. QED
        BY <2>1, <2>2, <2>3
<1>. QED
    BY <1>2, <1>3

\* The token is free when somebody comes in, so all others inside have lapsed.
LEMMA HoldByAcquire ==
    ASSUME LockTypeOK, Hold, Owned, NEW c \in Clients, Acquire(c)
    PROVE  Hold' /\ Owned'
<1>1. lapsed' = lapsed
    BY DEF Acquire
<1>2. CASE token = None /\ Goto(c, "looked", "writing") /\ token' = c
    <2>1. Writing' = Writing \cup {c}
        BY <1>2 DEF Goto, Writing, LockTypeOK, Place
    <2>2. \A d \in Writing : d \in lapsed
        BY <1>2, LockAssumption DEF Hold, Writing
    <2>. QED
        BY <1>1, <1>2, <2>1, <2>2 DEF Hold, Owned
<1>3. CASE Goto(c, "looked", "out") /\ (token' = token \/ (token = None /\ token' = Orphan))
    <2>1. Writing' = Writing
        BY <1>3 DEF Goto, Writing, LockTypeOK, Place
    <2>. QED
        BY <1>1, <1>3, <2>1, LockAssumption DEF Hold, Owned, Writing
<1>. QED
    BY <1>2, <1>3 DEF Acquire

\* Who leaves or dies takes nothing away but his own token.
LEMMA HoldByLeaving ==
    ASSUME LockTypeOK, Hold, Owned, NEW c \in Clients, WriteRelease(c) \/ Crash(c)
    PROVE  Hold' /\ Owned'
<1>1. Writing' = Writing \ {c} /\ lapsed' = lapsed \ {c}
    BY DEF WriteRelease, Crash, Goto, Writing, LockTypeOK, Place
<1>2. token = c => token' \in {None, Orphan}
    BY DEF WriteRelease, Crash
<1>3. token # c => token' = token
    BY DEF WriteRelease, Crash
<1>. QED
    BY <1>1, <1>2, <1>3, LockAssumption DEF Hold, Owned, Writing

(***************************************************************************)
(* The theorems.                                                           *)
(***************************************************************************)
LockInv == LockTypeOK /\ Counted /\ Hold /\ Owned

LEMMA InitInv == Init => LockInv
<1>. SUFFICES ASSUME Init PROVE LockInv
    OBVIOUS
<1>1. LockTypeOK
    <2>1. spoiled \in BOOLEAN
        BY DEF Init
    <2>2. budget \in 0..MaxFaults
        BY LockAssumption DEF Init
    <2>. QED
        BY <2>1, <2>2 DEF Init, LockTypeOK, Place
<1>2. Reading = {} /\ Writing = {}
    BY DEF Init, Reading, Writing
<1>3. Counted
    BY <1>2, FS_EmptySet DEF Init, Counted, ReadersCounted
<1>4. Hold /\ Owned
    BY <1>2, LockAssumption DEF Init, Hold, Owned
<1>. QED
    BY <1>1, <1>3, <1>4 DEF LockInv

LEMMA StepInv == LockInv /\ [Next]_vars => LockInv'
<1>. SUFFICES ASSUME LockInv, [Next]_vars PROVE LockInv'
    OBVIOUS
<1>. USE DEF LockInv
<1>1. CASE CounterExpires
    BY <1>1, RedisTypes, CountedAnew, HoldByRedis
<1>3. ASSUME NEW c \in Clients, RLock(c) PROVE LockInv'
    BY <1>3, ReaderTypes, CountedIn, HoldByReaders
<1>4. ASSUME NEW c \in Clients, ReadExtend(c) PROVE LockInv'
    BY <1>4, ReaderTypes, CountedElse, HoldByReaders
<1>5. ASSUME NEW c \in Clients, ReadRelease(c) PROVE LockInv'
    BY <1>5, ReaderTypes, CountedOut, HoldByReaders
<1>6. ASSUME NEW c \in Clients, CheckReaders(c) PROVE LockInv'
    BY <1>6, WriterTypes, CountedElse, HoldByReaders
<1>7. ASSUME NEW c \in Clients, Acquire(c) PROVE LockInv'
    BY <1>7, WriterTypes, CountedElse, HoldByAcquire
<1>8. ASSUME NEW c \in Clients, WriteRelease(c) PROVE LockInv'
    BY <1>8, WriterTypes, CountedElse, HoldByLeaving
<1>9. ASSUME NEW c \in Clients, Crash(c) PROVE LockInv'
    BY <1>9, WriterTypes, CountedDead, HoldByLeaving
<1>10. CASE TokenExpires
    <2>1. Counted'
        BY <1>10 DEF TokenExpires, counterVars, Counted, ReadersCounted, Reading
    <2>. QED
        BY <1>10, <2>1, RedisTypes, HoldByRedis
<1>11. CASE UNCHANGED vars
    BY <1>11 DEF vars, counterVars, tokenVars, LockTypeOK, Counted, ReadersCounted, Reading,
                 Hold, Owned, Writing
<1>. QED
    BY <1>1, <1>3, <1>4, <1>5, <1>6, <1>7, <1>8, <1>9, <1>10, <1>11 DEF Next, Leave, RWLock

\* Every variable keeps its type.
THEOREM LockTyped == Spec => []LockTypeOK
<1>1. LockInv => LockTypeOK
    BY DEF LockInv
<1>. QED
    BY <1>1, InitInv, StepInv, PTL DEF Spec

\* A writer's check overlooks no reader, whatever calls fail and whoever
\* dies, unless the counter expired under readers.
THEOREM ReadersSeen == Spec => []ReadersCounted
<1>1. LockInv => ReadersCounted
    BY DEF LockInv, Counted
<1>. QED
    BY <1>1, InitInv, StepInv, PTL DEF Spec

\* Writers are alone unless a token expired under its owner, for any
\* clients and any faults.
THEOREM WritersAlone == Spec => []WritersExclude
<1>1. LockInv => WritersExclude
    BY DEF LockInv, Hold, WritersExclude
<1>. QED
    BY <1>1, InitInv, StepInv, PTL DEF Spec
=============================================================================
