---------------------------- MODULE IpDataProofs ----------------------------
(***************************************************************************)
(* If nobody outstays its lease, what GetRawRed returns is whole, and is   *)
(* what all the queues had at one moment, for any number of queues and of  *)
(* readers.  The lock's own invariant is taken from RedMutexProofs: every  *)
(* step here is a step of RedMutex, or leaves the lock alone.              *)
(***************************************************************************)
EXTENDS IpData, TLAPS

P == INSTANCE RedMutexProofs

\* The assumptions of the lock hold of its clients here.
LEMMA LockConstants ==
    Lease \in Nat \ {0} /\ Timeout \in Nat /\ None \notin Client
  BY LockAssumption DEF Client

\* The lock's invariant is preserved by what happens here.
LEMMA LockStep == ASSUME P!IInv, [P!Next]_lockVars PROVE P!IInv'
  BY P!NextIInv, LockConstants DEF lockVars, P!mutexVars

\* Every step is a step of the lock or leaves it alone.
LEMMA StepsAreLockSteps == [Next]_vars => [P!Next]_lockVars
  <1> SUFFICES ASSUME [Next]_vars PROVE [P!Next]_lockVars
    OBVIOUS
  <1> USE DEF lockVars
  <1>c. Queue \subseteq Client /\ Reader \subseteq Client
    BY DEF Client
  <1>1. ASSUME NEW c \in Client,
               \/ M!Lock(c) \/ M!Attempt(c) \/ M!LockFails(c) \/ M!Unlock(c) \/ M!UnlockFails(c)
        PROVE  P!Next
    BY <1>1 DEF P!Next, M!Lock, P!Lock, M!Attempt, P!Attempt, M!Acquire, P!Acquire,
                M!Taken, P!Taken, M!LockFails, P!LockFails, M!Unlock, P!Unlock,
                M!UnlockFails, P!UnlockFails, M!SetNX, P!SetNX, M!PastDeadline, P!PastDeadline,
                M!GiveUp, P!GiveUp, M!DelScript, P!DelScript
  <1>2. M!Tick => P!Next
    BY DEF M!Tick, P!Tick, M!Expire, P!Expire, M!Less, P!Less, P!Next
  <1>3. ASSUME NEW q \in Queue,
               Gather(q) \/ LockSave(q) \/ Save(q) \/ UnlockSave(q) \/ Report(q) \/ Wake(q)
        PROVE  [P!Next]_lockVars
    BY <1>1, <1>3, <1>c DEF Gather, LockSave, Save, UnlockSave, Report, Wake
  <1>4. ASSUME NEW r \in Reader,
               \/ StartRead(r) \/ LockRead(r) \/ ReadKeys(r)
               \/ ReadData(r) \/ ReadResult(r) \/ EndRead(r)
        PROVE  [P!Next]_lockVars
    BY <1>1, <1>4, <1>c DEF StartRead, LockRead, ReadKeys, ReadData, ReadResult, EndRead
  <1>5. CASE Tick
    BY <1>2, <1>5 DEF Tick
  <1>6. CASE UNCHANGED vars
    BY <1>6 DEF vars
  <1>7. QED BY <1>3, <1>4, <1>5, <1>6 DEF Next

---------------------------------------------------------------------------
(* The inductive invariant                                                 *)

\* Whoever is in the section holds the lock.
InSection ==
    /\ \A q \in Queue : work[q].at \in {"save", "unlock"} => pc[q] = "held"
    /\ \A r \in Reader : read[r].at \in {"keys", "data", "result"} => pc[r] = "held"

\* Whoever holds the lock may still count on it.
HeldLive == \A c \in Client : pc[c] = "held" => left[c] > 0

\* What is stored is whole.
SavedWhole == \A q \in Queue : saved[q].keys = saved[q].data

\* What a goroutine has read is whole, but for the queue whose data it reads
\* next: the keys it has of that queue are those that are stored.
ReadFresh ==
    \A r \in Reader : read[r].at # "idle" =>
        \A q \in Queue :
            IF read[r].at = "data" /\ q = read[r].cur
            THEN read[r].got[q].keys = saved[q].keys
            ELSE read[r].got[q].keys = read[r].got[q].data

DataTypes ==
    /\ saved \in [Queue -> SavedRec]
    /\ work \in [Queue -> WorkRec]
    /\ read \in [Reader -> ReadRec]

IInv == P!IInv /\ DataTypes /\ InSection /\ HeldLive /\ SavedWhole /\ ReadFresh

\* The lock's types, and the exclusion that the lock provides.
LEMMA LockFacts ==
    ASSUME IInv
    PROVE  /\ pc \in [Client -> {"free", "trying", "sleeping", "held"}]
           /\ left \in [Client -> 0 .. Lease]
           /\ \A c, e \in Client : pc[c] = "held" /\ pc[e] = "held" => c = e
  <1>1. pc \in [Client -> {"free", "trying", "sleeping", "held"}]
        /\ left \in [Client -> 0 .. Lease]
    BY DEF IInv, P!IInv, P!TypeOK
  <1>2. ASSUME NEW c \in Client, NEW e \in Client, pc[c] = "held", pc[e] = "held"
        PROVE  c = e
    <2>1. left[c] > 0 /\ left[e] > 0
      BY <1>2 DEF IInv, HeldLive
    <2>2. key = c /\ key = e
      BY <2>1 DEF IInv, P!IInv, P!LeaseBacked
    <2>3. QED BY <2>2
  <1>3. QED BY <1>1, <1>2

\* While a worker is about to save, nobody is reading.
LEMMA SaveAlone ==
    ASSUME IInv, NEW q \in Queue, NEW r \in Reader, work[q].at \in {"save", "unlock"}
    PROVE  read[r].at \notin {"keys", "data", "result"}
  <1>1. q \in Client /\ r \in Client /\ q # r
    BY ClientAssumption DEF Client
  <1>2. QED BY <1>1, LockFacts DEF IInv, InSection

\* Initially nothing is stored, read or locked.
LEMMA InitIInv == Init => IInv
  <1> SUFFICES ASSUME Init PROVE IInv
    OBVIOUS
  <1>1. P!IInv
    BY P!InitIInv, LockConstants DEF Init, M!Init, P!Init
  <1>2. DataTypes
    BY MaxVerAssumption DEF Init, DataTypes, SavedRec, WorkRec, ReadRec, NoData, Ver
  <1>3. InSection /\ HeldLive /\ SavedWhole /\ ReadFresh
    BY DEF Init, M!Init, InSection, HeldLive, SavedWhole, ReadFresh, NoData
  <1>4. QED BY <1>1, <1>2, <1>3 DEF IInv

\* What a step of one client does to the other clients' part of the lock:
\* nothing, and a client that obtains the lock may count on it.
LEMMA LockFrame ==
    ASSUME IInv, NEW c \in Client,
           \/ M!Lock(c) \/ M!Attempt(c) \/ M!LockFails(c) \/ M!Unlock(c) \/ M!UnlockFails(c)
    PROVE  HeldLive' /\ \A e \in Client \ {c} : pc'[e] = pc[e]
  <1>1. /\ pc \in [Client -> {"free", "trying", "sleeping", "held"}]
        /\ left \in [Client -> 0 .. Lease]
        /\ \A e \in Client : pc[e] = "held" => left[e] > 0
    BY LockFacts DEF IInv, HeldLive
  <1>2. CASE M!Lock(c)
    BY <1>1, <1>2 DEF M!Lock, HeldLive
  <1>3. CASE M!Acquire(c)
    BY <1>1, <1>3, LockConstants DEF M!Acquire, M!SetNX, HeldLive
  <1>4. CASE M!Taken(c)
    BY <1>1, <1>4 DEF M!Taken, M!GiveUp, HeldLive
  <1>5. CASE M!LockFails(c) \/ M!Unlock(c) \/ M!UnlockFails(c)
    BY <1>1, <1>5 DEF M!LockFails, M!Unlock, M!UnlockFails, M!GiveUp, HeldLive
  <1>6. QED BY <1>2, <1>3, <1>4, <1>5 DEF M!Attempt

\* A step of a worker preserves the invariant: it saves only while nobody
\* reads, and everything it saves of its queue is of one gathering.
LEMMA WorkerIInv ==
    ASSUME IInv, P!IInv', NEW q \in Queue,
           Gather(q) \/ LockSave(q) \/ Save(q) \/ UnlockSave(q) \/ Report(q) \/ Wake(q)
    PROVE  IInv'
  <1> USE DEF IInv
  <1>t. /\ DataTypes /\ InSection /\ HeldLive /\ SavedWhole /\ ReadFresh
        /\ work[q] \in WorkRec /\ saved[q] \in SavedRec
        /\ q \in Client /\ \A r \in Reader : r \in Client \ {q}
    BY ClientAssumption DEF DataTypes, Client
  <1>u. Queue \subseteq Client
    BY DEF Client
  <1>r. UNCHANGED read
    BY DEF Gather, LockSave, Save, UnlockSave, Report, Wake
  \* The readers see other keys and data only when the queue is saved.
  <1>f. (\A x \in Queue : saved'[x].keys = saved[x].keys) => ReadFresh'
    BY <1>r, <1>t DEF ReadFresh
  <1>1. CASE Gather(q)
    <2>1. HeldLive' /\ \A e \in Client \ {q} : pc'[e] = pc[e]
      BY <1>1, <1>t, LockFrame DEF Gather, lockVars, HeldLive
    <2>2. DataTypes'
      <3>1. work[q].ver + 1 \in Ver
        BY <1>1, <1>t, MaxVerAssumption DEF Gather, WorkRec, Ver
      <3> DEFINE rec(at, err) == [at |-> at, ver |-> work[q].ver + 1, err |-> err, done |-> FALSE]
      <3>2. rec("lock", "nil") \in WorkRec /\ rec("report", "some") \in WorkRec
        BY <3>1 DEF WorkRec
      <3>3. \/ work' = [work EXCEPT ![q] = rec("lock", "nil")]
            \/ work' = [work EXCEPT ![q] = rec("report", "some")]
        BY <1>1 DEF Gather
      <3> HIDE DEF rec
      <3>4. work' \in [Queue -> WorkRec]
        BY <1>t, <3>2, <3>3 DEF DataTypes
      <3>5. QED BY <1>1, <1>r, <1>t, <3>4 DEF Gather, DataTypes
    <2>3. InSection'
      BY <1>1, <1>r, <1>t, <1>u, <2>1 DEF Gather, DataTypes, InSection
    <2>4. SavedWhole' /\ ReadFresh'
      BY <1>1, <1>f, <1>t DEF Gather, SavedWhole
    <2>5. QED BY <2>1, <2>2, <2>3, <2>4
  <1>2. CASE LockSave(q)
    <2>1. HeldLive' /\ \A e \in Client \ {q} : pc'[e] = pc[e]
      BY <1>2, <1>t, LockFrame DEF LockSave
    <2>2. DataTypes'
      BY <1>2, <1>r, <1>t DEF LockSave, DataTypes, WorkRec, WorkTo
    <2>3. InSection'
      <3>1. \A x \in Queue \ {q} : work'[x] = work[x]
        BY <1>2 DEF LockSave, DataTypes, WorkTo
      <3>2. work'[q].at \in {"save", "unlock"} => pc'[q] = "held"
        <4>1. CASE pc'[q] = "held"
          BY <4>1
        <4>2. CASE work' = work
          BY <1>2, <4>2 DEF LockSave
        <4>3. CASE \E err : WorkTo(q, "report", err)
          BY <1>t, <4>3 DEF WorkTo, DataTypes, WorkRec
        <4>4. QED BY <1>2, <4>1, <4>2, <4>3 DEF LockSave
      <3>3. QED BY <1>r, <1>t, <1>u, <2>1, <3>1, <3>2 DEF InSection
    <2>4. SavedWhole' /\ ReadFresh'
      BY <1>2, <1>f, <1>t DEF LockSave, SavedWhole
    <2>5. QED BY <2>1, <2>2, <2>3, <2>4
  <1>3. CASE Save(q)
    <2>1. HeldLive' /\ UNCHANGED pc
      BY <1>3, <1>t DEF Save, lockVars, HeldLive
    <2>2. work[q].at = "save" /\ (SaveAll(q) \/ UNCHANGED saved)
      BY <1>3 DEF Save, Ready
    <2>3. DataTypes'
      <3>0. work[q].ver \in Ver
        BY <1>t DEF WorkRec
      <3>1. saved' \in [Queue -> SavedRec]
        <4>1. CASE SaveAll(q)
          BY <1>t, <3>0, <4>1 DEF SaveAll, DataTypes, SavedRec
        <4>2. CASE UNCHANGED saved
          BY <1>t, <4>2 DEF DataTypes
        <4>3. QED BY <2>2, <4>1, <4>2
      <3>2. work' \in [Queue -> WorkRec]
        BY <1>3, <1>t DEF Save, WorkTo, DataTypes, WorkRec
      <3>3. QED BY <1>r, <1>t, <3>1, <3>2 DEF DataTypes
    <2>4. InSection'
      BY <1>3, <1>r, <1>t, <2>1, <2>2 DEF Save, WorkTo, DataTypes, InSection
    <2>5. SavedWhole'
      BY <1>t, <2>2 DEF SaveAll, SavedWhole, DataTypes
    <2>6. \A r \in Reader : read[r].at \notin {"keys", "data", "result"}
      BY <2>2, SaveAlone
    <2>7. ReadFresh'
      BY <1>r, <1>t, <2>6 DEF ReadFresh
    <2>8. QED BY <2>1, <2>3, <2>4, <2>5, <2>7
  <1>4. CASE UnlockSave(q)
    <2>1. HeldLive' /\ \A e \in Client \ {q} : pc'[e] = pc[e]
      BY <1>4, <1>t, LockFrame DEF UnlockSave
    <2>2. DataTypes'
      BY <1>4, <1>r, <1>t DEF UnlockSave, DataTypes, WorkRec
    <2>3. InSection'
      <3>1. /\ \A x \in Queue \ {q} : work'[x] = work[x]
            /\ work'[q].at = "report"
        BY <1>4, <1>t DEF UnlockSave, DataTypes, WorkRec
      <3>2. QED BY <1>r, <1>t, <1>u, <2>1, <3>1 DEF InSection
    <2>4. SavedWhole' /\ ReadFresh'
      BY <1>4, <1>f, <1>t DEF UnlockSave, SavedWhole
    <2>5. QED BY <2>1, <2>2, <2>3, <2>4
  <1>5. CASE Report(q)
    <2>1. HeldLive' /\ UNCHANGED pc
      BY <1>5, <1>t DEF Report, lockVars, HeldLive
    <2>2. /\ saved' \in [Queue -> SavedRec]
          /\ \A x \in Queue : saved'[x].keys = saved[x].keys /\ saved'[x].data = saved[x].data
      BY <1>5, <1>t DEF Report, DataTypes, SavedRec
    <2>3. DataTypes'
      BY <1>5, <1>r, <1>t, <2>2 DEF Report, DataTypes, WorkRec
    <2>4. InSection'
      BY <1>5, <1>r, <1>t, <2>1 DEF Report, DataTypes, InSection
    <2>5. QED BY <1>f, <1>t, <2>1, <2>2, <2>3, <2>4 DEF SavedWhole
  <1>6. CASE Wake(q)
    <2>1. HeldLive' /\ UNCHANGED pc
      BY <1>6, <1>t DEF Wake, lockVars, HeldLive
    <2>2. DataTypes'
      BY <1>6, <1>r, <1>t DEF Wake, WorkTo, DataTypes, WorkRec
    <2>3. InSection'
      BY <1>6, <1>r, <1>t, <2>1 DEF Wake, WorkTo, DataTypes, InSection
    <2>4. QED BY <1>6, <1>f, <1>t, <2>1, <2>2, <2>3 DEF Wake, SavedWhole
  <1>7. QED BY <1>1, <1>2, <1>3, <1>4, <1>5, <1>6

\* A step of a reader preserves the invariant: what it gets next is stored
\* beside what it has got.
LEMMA ReaderIInv ==
    ASSUME IInv, P!IInv', NEW r \in Reader,
           \/ StartRead(r) \/ LockRead(r) \/ ReadKeys(r)
           \/ ReadData(r) \/ ReadResult(r) \/ EndRead(r)
    PROVE  IInv'
  <1> USE DEF IInv
  <1>t. /\ DataTypes /\ InSection /\ HeldLive /\ SavedWhole /\ ReadFresh
        /\ read[r] \in ReadRec
        /\ r \in Client /\ \A q \in Queue : q \in Client \ {r}
    BY ClientAssumption DEF DataTypes, Client
  <1>u. Reader \subseteq Client
    BY DEF Client
  <1>w. UNCHANGED <<saved, work>> /\ SavedWhole'
    BY <1>t DEF StartRead, LockRead, ReadKeys, ReadData, ReadResult, EndRead, SavedWhole
  <1>o. \A x \in Reader \ {r} : read'[x] = read[x]
    BY <1>t DEF StartRead, LockRead, ReadKeys, ReadData, ReadResult, EndRead, DataTypes
  \* The other readers have what they had.
  <1>f. ASSUME read'[r].at # "idle" =>
                 \A q \in Queue :
                     IF read'[r].at = "data" /\ q = read'[r].cur
                     THEN read'[r].got[q].keys = saved[q].keys
                     ELSE read'[r].got[q].keys = read'[r].got[q].data
        PROVE  ReadFresh'
    BY <1>f, <1>o, <1>t, <1>w DEF ReadFresh
  <1>s. ASSUME \A e \in Client \ {r} : pc'[e] = pc[e],
               read'[r].at \in {"keys", "data", "result"} => pc'[r] = "held"
        PROVE  InSection'
    BY <1>o, <1>s, <1>t, <1>u, <1>w DEF InSection
  <1>d. read' \in [Reader -> ReadRec] => DataTypes'
    BY <1>t, <1>w DEF DataTypes
  <1>1. CASE StartRead(r)
    <2> DEFINE rec == [at |-> "lock", todo |-> Queue, cur |-> None,
                       got |-> [q \in Queue |-> NoData]]
    <2>1. rec \in ReadRec
      BY MaxVerAssumption DEF ReadRec, SavedRec, NoData, Ver
    <2>2. read' = [read EXCEPT ![r] = rec]
      BY <1>1 DEF StartRead
    <2>3. read'[r] = rec /\ read' \in [Reader -> ReadRec]
      BY <1>t, <2>1, <2>2 DEF DataTypes
    <2>4. HeldLive' /\ \A e \in Client \ {r} : pc'[e] = pc[e]
      BY <1>1, <1>t, LockFrame DEF StartRead
    <2>5. ReadFresh'
      BY <1>f, <2>3 DEF NoData
    <2>6. QED BY <1>d, <1>s, <1>w, <2>3, <2>4, <2>5
  <1>2. CASE LockRead(r)
    <2>1. HeldLive' /\ \A e \in Client \ {r} : pc'[e] = pc[e]
      BY <1>2, <1>t, LockFrame DEF LockRead
    <2>2. \/ pc'[r] = "held" /\ read' = [read EXCEPT ![r].at = "keys"]
          \/ read' = [read EXCEPT ![r].at = "idle"]
          \/ UNCHANGED read
      BY <1>2 DEF LockRead
    <2>3. read[r].at = "lock"
      BY <1>2 DEF LockRead
    <2>4. read' \in [Reader -> ReadRec]
      BY <1>t, <2>2 DEF DataTypes, ReadRec
    <2>5. read'[r].at \in {"keys", "data", "result"} => pc'[r] = "held"
      BY <1>t, <2>2, <2>3 DEF DataTypes, ReadRec
    <2>6. ReadFresh'
      BY <1>f, <1>t, <2>2, <2>3 DEF ReadFresh, DataTypes, ReadRec
    <2>7. QED BY <1>d, <1>s, <1>w, <2>1, <2>4, <2>5, <2>6
  <1>3. CASE ReadKeys(r)
    <2>1. HeldLive' /\ UNCHANGED pc
      BY <1>3, <1>t DEF ReadKeys, lockVars, HeldLive
    <2>2. PICK q \in read[r].todo :
            read' = [read EXCEPT ![r].at = "data", ![r].cur = q, ![r].todo = @ \ {q},
                                 ![r].got[q].keys = saved[q].keys]
      BY <1>3 DEF ReadKeys
    <2>3. q \in Queue /\ saved[q].keys \in Ver /\ read[r].at = "keys"
      BY <1>3, <1>t DEF ReadKeys, DataTypes, ReadRec, SavedRec
    <2>4. /\ read'[r].at = "data" /\ read'[r].cur = q
          /\ read'[r].todo = read[r].todo \ {q}
          /\ read'[r].got = [read[r].got EXCEPT ![q].keys = saved[q].keys]
      BY <1>t, <2>2 DEF DataTypes, ReadRec
    <2>5. read'[r].got \in [Queue -> SavedRec]
      BY <1>t, <2>3, <2>4 DEF ReadRec, SavedRec
    <2>6. read' \in [Reader -> ReadRec]
      BY <1>t, <2>2, <2>3, <2>5 DEF DataTypes, ReadRec
    <2>7. ReadFresh'
      <3>1. ASSUME NEW x \in Queue
            PROVE  IF x = q THEN read'[r].got[x].keys = saved[x].keys
                   ELSE read'[r].got[x].keys = read'[r].got[x].data
        BY <1>t, <2>3, <2>4 DEF ReadFresh, ReadRec, SavedRec
      <3>2. QED BY <1>f, <2>4, <3>1
    <2>8. pc'[r] = "held"
      BY <1>t, <2>1, <2>3 DEF InSection
    <2>9. QED BY <1>d, <1>s, <1>w, <2>1, <2>6, <2>7, <2>8
  <1>4. CASE ReadData(r)
    <2>1. HeldLive' /\ UNCHANGED pc
      BY <1>4, <1>t DEF ReadData, lockVars, HeldLive
    <2> DEFINE q == read[r].cur
    <2>2. /\ read[r].at = "data"
          /\ read' = [read EXCEPT ![r].at = "result", ![r].got[q].data = saved[q].data]
      BY <1>4 DEF ReadData
    <2>3. /\ read'[r].at = "result"
          /\ read'[r].got = [read[r].got EXCEPT ![q].data = saved[q].data]
      BY <1>t, <2>2 DEF DataTypes, ReadRec
    <2>4. read'[r].got \in [Queue -> SavedRec]
      <3>1. read[r].got \in [Queue -> SavedRec]
        BY <1>t DEF ReadRec
      <3>2. CASE q \in Queue
        <4>1. saved[q] \in SavedRec
          BY <1>t, <3>2 DEF DataTypes
        <4>2. QED BY <2>3, <3>1, <3>2, <4>1 DEF SavedRec
      <3>3. CASE q \notin Queue
        <4>1. read'[r].got = read[r].got
          BY <2>3, <3>1, <3>3
        <4>2. QED BY <3>1, <4>1
      <3>4. QED BY <3>2, <3>3
    <2>5. read' \in [Reader -> ReadRec]
      BY <1>t, <2>2, <2>4 DEF DataTypes, ReadRec
    <2>6. ReadFresh'
      <3>1. ASSUME NEW x \in Queue
            PROVE  read'[r].got[x].keys = read'[r].got[x].data
        <4>1. CASE x = q
          BY <1>t, <2>2, <2>3, <4>1 DEF ReadFresh, SavedWhole, ReadRec, SavedRec
        <4>2. CASE x # q
          BY <1>t, <2>2, <2>3, <4>2 DEF ReadFresh, ReadRec
        <4>3. QED BY <4>1, <4>2
      <3>2. QED BY <1>f, <2>3, <3>1
    <2>7. pc'[r] = "held"
      BY <1>t, <2>1, <2>2 DEF InSection
    <2>8. QED BY <1>d, <1>s, <1>w, <2>1, <2>5, <2>6, <2>7
  <1>5. CASE ReadResult(r)
    <2>1. HeldLive' /\ UNCHANGED pc
      BY <1>5, <1>t DEF ReadResult, lockVars, HeldLive
    <2> DEFINE q == read[r].cur
    <2>2. /\ read[r].at = "result"
          /\ read' = [read EXCEPT ![r].at = "keys", ![r].got[q].ok = saved[q].ok]
      BY <1>5 DEF ReadResult
    <2>3. /\ read'[r].at = "keys"
          /\ read'[r].got = [read[r].got EXCEPT ![q].ok = saved[q].ok]
      BY <1>t, <2>2 DEF DataTypes, ReadRec
    <2>4. read'[r].got \in [Queue -> SavedRec]
      <3>1. read[r].got \in [Queue -> SavedRec]
        BY <1>t DEF ReadRec
      <3>2. CASE q \in Queue
        <4>1. saved[q] \in SavedRec
          BY <1>t, <3>2 DEF DataTypes
        <4>2. QED BY <2>3, <3>1, <3>2, <4>1 DEF SavedRec
      <3>3. CASE q \notin Queue
        <4>1. read'[r].got = read[r].got
          BY <2>3, <3>1, <3>3
        <4>2. QED BY <3>1, <4>1
      <3>4. QED BY <3>2, <3>3
    <2>5. read' \in [Reader -> ReadRec]
      BY <1>t, <2>2, <2>4 DEF DataTypes, ReadRec
    <2>6. ReadFresh'
      <3>1. ASSUME NEW x \in Queue
            PROVE  read'[r].got[x].keys = read'[r].got[x].data
        BY <1>t, <2>2, <2>3 DEF ReadFresh, ReadRec, SavedRec
      <3>2. QED BY <1>f, <2>3, <3>1
    <2>7. pc'[r] = "held"
      BY <1>t, <2>1, <2>2 DEF InSection
    <2>8. QED BY <1>d, <1>s, <1>w, <2>1, <2>5, <2>6, <2>7
  <1>6. CASE EndRead(r)
    <2>1. HeldLive' /\ \A e \in Client \ {r} : pc'[e] = pc[e]
      BY <1>6, <1>t, LockFrame DEF EndRead
    <2>2. \/ read[r].at = "keys" /\ read' = [read EXCEPT ![r].at = "done"]
          \/ read' = [read EXCEPT ![r].at = "idle"]
      BY <1>6, <1>t DEF EndRead, Outcomes, DataTypes
    <2>3. read' \in [Reader -> ReadRec]
      <3>1. [read[r] EXCEPT !.at = "done"] \in ReadRec /\ [read[r] EXCEPT !.at = "idle"] \in ReadRec
        BY <1>t DEF ReadRec
      <3>2. QED BY <1>t, <2>2, <3>1 DEF DataTypes
    <2>6. read'[r].at \notin {"keys", "data", "result"}
      BY <1>t, <2>2 DEF DataTypes, ReadRec
    <2>4. ReadFresh'
      BY <1>f, <1>t, <2>2 DEF ReadFresh, DataTypes, ReadRec
    <2>7. QED BY <1>d, <1>s, <1>w, <2>1, <2>3, <2>4, <2>6
  <1>7. QED BY <1>1, <1>2, <1>3, <1>4, <1>5, <1>6

\* If nobody outstays its lease, every step preserves the invariant.
LEMMA NextIInv == ASSUME Prompt, IInv, [Next]_vars PROVE IInv'
  <1>1. P!IInv'
    BY LockStep, StepsAreLockSteps DEF IInv
  <1>2. ASSUME NEW q \in Queue,
               Gather(q) \/ LockSave(q) \/ Save(q) \/ UnlockSave(q) \/ Report(q) \/ Wake(q)
        PROVE  IInv'
    BY <1>1, <1>2, WorkerIInv
  <1>3. ASSUME NEW r \in Reader,
               \/ StartRead(r) \/ LockRead(r) \/ ReadKeys(r)
               \/ ReadData(r) \/ ReadResult(r) \/ EndRead(r)
        PROVE  IInv'
    BY <1>1, <1>3, ReaderIInv
  <1>4. CASE Tick
    <2>1. /\ pc \in [Client -> {"free", "trying", "sleeping", "held"}]
          /\ left \in [Client -> 0 .. Lease]
          /\ \A c \in Client : pc[c] = "held" => left[c] > 0
      BY LockFacts DEF IInv, HeldLive
    <2>2. \A c \in Client : (pc'[c] = "held") <=> (pc[c] = "held")
      BY <1>4, <2>1 DEF Tick, M!Tick
    <2>3. ASSUME NEW c \in Client, pc'[c] = "held" PROVE left'[c] > 0
      <3>1. left[c] > 0 /\ left[c] # 1
        BY <1>4, <2>1, <2>2, <2>3 DEF Tick
      <3>2. left'[c] = left[c] - 1
        BY <1>4, <2>1, <3>1 DEF Tick, M!Tick, M!Less
      <3>3. QED BY <2>1, <3>1, <3>2, LockConstants
    <2>4. HeldLive'
      BY <2>3 DEF HeldLive
    <2>5. UNCHANGED <<saved, work, read>>
      BY <1>4 DEF Tick
    <2>6. DataTypes' /\ SavedWhole' /\ ReadFresh'
      BY <2>5 DEF IInv, DataTypes, SavedWhole, ReadFresh
    <2>7. InSection'
      BY <2>2, <2>5 DEF IInv, InSection, Client
    <2>8. QED BY <1>1, <2>4, <2>6, <2>7 DEF IInv
  <1>5. CASE UNCHANGED vars
    BY <1>1, <1>5 DEF vars, IInv, DataTypes, InSection, HeldLive, SavedWhole, ReadFresh
  <1>6. QED BY <1>2, <1>3, <1>4, <1>5 DEF Next

\* The inductive invariant holds of every reachable state.
LEMMA IInvHolds == ASSUME Prompt PROVE Spec => []IInv
  <1>1. IInv /\ [Next]_vars => IInv'
    BY NextIInv
  <1>2. QED BY <1>1, InitIInv, PTL DEF Spec

\* If nobody outstays its lease, what GetRawRed returns is whole.
THEOREM ReadsAreWhole == ASSUME Prompt PROVE Spec => []WholeRead
  <1>1. IInv => WholeRead
    BY DEF IInv, ReadFresh, WholeRead
  <1>2. QED BY <1>1, IInvHolds, PTL

---------------------------------------------------------------------------
(* IpData implements IpSnapshot                                            *)

\* A goroutine that waits for the lock has read nothing.
NothingYet == \A r \in Reader : read[r].at = "lock" => read[r].todo = Queue

\* While a goroutine reads, what it has of a queue is what is stored.
ReadCurrent ==
    \A r \in Reader : read[r].at \in {"keys", "data", "result"} =>
        \A q \in Queue \ read[r].todo :
            /\ saved[q].keys # 0 /\ read[r].got[q].keys = saved[q].keys
            /\ (read[r].at = "data" /\ q = read[r].cur) \/ read[r].got[q].data = saved[q].data

\* What a worker is about to save is later than what is stored.
GatheredLater ==
    \A q \in Queue : /\ saved[q].data <= work[q].ver
                     /\ work[q].at \in {"lock", "save"} => saved[q].data < work[q].ver

\* What a step leaves alone when it is not a save.
LEMMA SaveOrKeep ==
    ASSUME IInv, [Next]_vars
    PROVE  \/ \E q \in Queue : work[q].at = "save" /\ SaveAll(q)
           \/ \A q \in Queue : saved'[q].keys = saved[q].keys /\ saved'[q].data = saved[q].data
  <1>1. CASE \E q \in Queue : Save(q)
    BY <1>1 DEF Save, Ready
  <1>2. CASE \E q \in Queue : Report(q)
    BY <1>2 DEF Report, IInv, DataTypes, SavedRec
  <1>3. CASE UNCHANGED saved
    BY <1>3
  <1>4. QED
    BY <1>1, <1>2, <1>3 DEF Next, vars, Gather, LockSave, UnlockSave, Wake, StartRead,
       LockRead, ReadKeys, ReadData, ReadResult, EndRead, Tick

\* Gatherings are numbered upwards, and each is saved once.
LEMMA LaterKept == ASSUME IInv, GatheredLater, [Next]_vars PROVE GatheredLater'
  <1>t. /\ \A q \in Queue : work[q] \in WorkRec /\ saved[q] \in SavedRec
        /\ work \in [Queue -> WorkRec] /\ saved \in [Queue -> SavedRec]
    BY DEF IInv, DataTypes
  <1>v. \A q \in Queue : work[q].ver \in Nat /\ saved[q].data \in Nat
    BY <1>t, MaxVerAssumption DEF WorkRec, SavedRec, Ver
  <1>1. ASSUME NEW q \in Queue, Gather(q) PROVE GatheredLater'
    <2>1. /\ saved' = saved /\ work'[q].ver = work[q].ver + 1
          /\ \A x \in Queue \ {q} : work'[x] = work[x]
      BY <1>1, <1>t DEF Gather
    <2>2. QED BY <1>v, <2>1 DEF GatheredLater
  <1>2. ASSUME NEW q \in Queue, LockSave(q) PROVE GatheredLater'
    <2>1. /\ saved' = saved /\ work'[q].ver = work[q].ver /\ work[q].at = "lock"
          /\ \A x \in Queue \ {q} : work'[x] = work[x]
      BY <1>2, <1>t DEF LockSave, WorkTo, WorkRec
    <2>2. QED BY <2>1 DEF GatheredLater
  <1>3. ASSUME NEW q \in Queue, Save(q) PROVE GatheredLater'
    <2>1. /\ work'[q].ver = work[q].ver /\ work'[q].at = "unlock" /\ work[q].at = "save"
          /\ \A x \in Queue \ {q} : work'[x] = work[x]
      BY <1>3, <1>t DEF Save, Ready, WorkTo, WorkRec
    <2>2. /\ saved'[q].data \in {work[q].ver, saved[q].data}
          /\ \A x \in Queue \ {q} : saved'[x] = saved[x]
      BY <1>3, <1>t DEF Save, SaveAll
    <2>3. QED BY <1>v, <2>1, <2>2 DEF GatheredLater
  <1>4. ASSUME NEW q \in Queue, UnlockSave(q) \/ Report(q) \/ Wake(q) PROVE GatheredLater'
    <2>1. /\ work'[q].ver = work[q].ver /\ work'[q].at \notin {"lock", "save"}
          /\ \A x \in Queue \ {q} : work'[x] = work[x]
      BY <1>4, <1>t DEF UnlockSave, Report, Wake, WorkTo, WorkRec
    <2>2. \A x \in Queue : saved'[x].data = saved[x].data
      BY <1>4, <1>t DEF UnlockSave, Report, Wake, SavedRec
    <2>3. QED BY <2>1, <2>2 DEF GatheredLater
  <1>5. CASE UNCHANGED <<saved, work>>
    BY <1>5 DEF GatheredLater
  <1>6. QED
    BY <1>1, <1>2, <1>3, <1>4, <1>5 DEF Next, vars, StartRead, LockRead, ReadKeys,
       ReadData, ReadResult, EndRead, Tick

\* A last result that is ok was written together with data.
OkHasData == \A q \in Queue : saved[q].ok => saved[q].data # 0

\* Only a save makes a result ok, and what it saves is a gathering.
LEMMA OkHasDataKept == ASSUME IInv, GatheredLater, OkHasData, [Next]_vars PROVE OkHasData'
  <1>t. /\ \A q \in Queue : work[q] \in WorkRec /\ saved[q] \in SavedRec
        /\ saved \in [Queue -> SavedRec]
    BY DEF IInv, DataTypes
  <1>1. ASSUME NEW q \in Queue, Save(q) PROVE OkHasData'
    <2>1. work[q].ver \in Nat /\ saved[q].data \in Nat /\ saved[q].data < work[q].ver
      BY <1>1, <1>t, MaxVerAssumption DEF Save, Ready, GatheredLater, WorkRec, SavedRec, Ver
    <2>2. work[q].ver # 0
      BY <2>1
    <2>3. QED BY <1>1, <1>t, <2>2 DEF Save, SaveAll, OkHasData
  <1>2. ASSUME NEW q \in Queue, Report(q) PROVE OkHasData'
    BY <1>2, <1>t DEF Report, OkHasData, SavedRec
  <1>3. CASE UNCHANGED saved
    BY <1>3 DEF OkHasData
  <1>4. QED
    BY <1>1, <1>2, <1>3 DEF Next, vars, Gather, LockSave, UnlockSave, Wake, StartRead,
       LockRead, ReadKeys, ReadData, ReadResult, EndRead, Tick

\* If nobody outstays its lease, the variables keep their types, and a last result that
\* is ok has data.
THEOREM TypeCorrect == ASSUME Prompt PROVE Spec => []TypeOK
  <1> DEFINE I == IInv /\ GatheredLater /\ OkHasData
  <1>1. Init => I
    BY InitIInv, MaxVerAssumption DEF Init, GatheredLater, OkHasData, NoData
  <1>2. I /\ [Next]_vars => I'
    BY NextIInv, LaterKept, OkHasDataKept
  <1>3. I => TypeOK
    BY DEF IInv, DataTypes, OkHasData, TypeOK, P!IInv, P!TypeOK, M!TypeOK
  <1>4. QED BY <1>1, <1>2, <1>3, PTL DEF Spec

\* A goroutine that reads on stays in the section.
LEMMA ReadOn ==
    ASSUME IInv, NEW r \in Reader, ReadKeys(r) \/ ReadData(r) \/ ReadResult(r)
    PROVE  /\ saved' = saved
           /\ {read[r].at, read'[r].at} \subseteq {"keys", "data", "result"}
           /\ \A x \in Reader \ {r} : read'[x] = read[x]
  <1>t. read \in [Reader -> ReadRec]
    BY DEF IInv, DataTypes
  <1>1. CASE ReadKeys(r)
    <2>1. PICK q \in read[r].todo :
            read' = [read EXCEPT ![r].at = "data", ![r].cur = q, ![r].todo = @ \ {q},
                                 ![r].got[q].keys = saved[q].keys]
      BY <1>1 DEF ReadKeys
    <2>2. read'[r].at = "data" /\ \A x \in Reader \ {r} : read'[x] = read[x]
      BY <1>t, <2>1 DEF ReadRec
    <2>3. QED BY <1>1, <2>2 DEF ReadKeys
  <1>2. CASE ReadData(r)
    BY <1>2, <1>t DEF ReadData, ReadRec
  <1>3. CASE ReadResult(r)
    BY <1>3, <1>t DEF ReadResult, ReadRec
  <1>4. QED BY <1>1, <1>2, <1>3

\* Reading begins with all the queues yet to come.
LEMMA NothingYetKept == ASSUME IInv, NothingYet, [Next]_vars PROVE NothingYet'
  <1>t. read \in [Reader -> ReadRec]
    BY DEF IInv, DataTypes
  <1>1. ASSUME NEW r \in Reader, StartRead(r) PROVE NothingYet'
    BY <1>1, <1>t DEF StartRead, NothingYet
  <1>2. ASSUME NEW r \in Reader, LockRead(r) PROVE NothingYet'
    <2>1. /\ read'[r].at = "lock" => read'[r].todo = Queue
          /\ \A x \in Reader \ {r} : read'[x] = read[x]
      BY <1>2, <1>t DEF LockRead, NothingYet, ReadRec
    <2>2. QED BY <2>1 DEF NothingYet
  <1>3. ASSUME NEW r \in Reader, ReadKeys(r) \/ ReadData(r) \/ ReadResult(r) PROVE NothingYet'
    <2>1. read'[r].at # "lock" /\ \A x \in Reader \ {r} : read'[x] = read[x]
      BY <1>3, ReadOn
    <2>2. QED BY <2>1 DEF NothingYet
  <1>4. ASSUME NEW r \in Reader, EndRead(r) PROVE NothingYet'
    <2>1. read'[r].at # "lock" /\ \A x \in Reader \ {r} : read'[x] = read[x]
      BY <1>4, <1>t DEF EndRead, Outcomes, ReadRec
    <2>2. QED BY <2>1 DEF NothingYet
  <1>5. CASE UNCHANGED read
    BY <1>5 DEF NothingYet
  <1>6. QED
    BY <1>1, <1>2, <1>3, <1>4, <1>5 DEF Next, vars, Gather, LockSave, Save, UnlockSave,
       Report, Wake, Tick

\* A goroutine that reads has the lock, so what it has read stays as it is stored.
LEMMA CurrentKept ==
    ASSUME IInv, NothingYet, ReadCurrent, [Next]_vars PROVE ReadCurrent'
  <1>t. /\ read \in [Reader -> ReadRec] /\ saved \in [Queue -> SavedRec]
        /\ \A r \in Reader : read[r].got \in [Queue -> SavedRec]
    BY DEF IInv, DataTypes, ReadRec
  <1>s. ASSUME NEW r \in Reader, read[r].at \in {"keys", "data", "result"}
        PROVE  \A q \in Queue : saved'[q].keys = saved[q].keys /\ saved'[q].data = saved[q].data
    BY <1>s, SaveOrKeep, SaveAlone
  \* One goroutine reads on, the others have what they had.
  <1>o. ASSUME NEW r \in Reader, \A x \in Reader \ {r} : read'[x] = read[x],
               read'[r].at \in {"keys", "data", "result"} =>
                   \A q \in Queue \ read'[r].todo :
                       /\ saved'[q].keys # 0 /\ read'[r].got[q].keys = saved'[q].keys
                       /\ \/ read'[r].at = "data" /\ q = read'[r].cur
                          \/ read'[r].got[q].data = saved'[q].data
        PROVE  ReadCurrent'
    <2>1. ASSUME NEW x \in Reader, x # r, read'[x].at \in {"keys", "data", "result"},
                 NEW q \in Queue \ read'[x].todo
          PROVE  /\ saved'[q].keys # 0 /\ read'[x].got[q].keys = saved'[q].keys
                 /\ \/ read'[x].at = "data" /\ q = read'[x].cur
                    \/ read'[x].got[q].data = saved'[q].data
      BY <1>o, <1>s, <2>1 DEF ReadCurrent
    <2>2. QED BY <1>o, <2>1 DEF ReadCurrent
  <1>1. ASSUME NEW r \in Reader, StartRead(r) PROVE ReadCurrent'
    <2>1. read'[r].at = "lock" /\ \A x \in Reader \ {r} : read'[x] = read[x]
      BY <1>1, <1>t DEF StartRead
    <2>2. QED BY <1>o, <2>1
  <1>2. ASSUME NEW r \in Reader, LockRead(r) PROVE ReadCurrent'
    <2>1. read[r].at = "lock" /\ \A x \in Reader \ {r} : read'[x] = read[x]
      BY <1>2, <1>t DEF LockRead
    <2>2. \/ read'[r].at \in {"lock", "idle"}
          \/ read'[r] = [read[r] EXCEPT !.at = "keys"]
      BY <1>2, <1>t, <2>1 DEF LockRead, ReadRec
    <2>3. CASE read'[r] = [read[r] EXCEPT !.at = "keys"]
      \* Nothing has been read yet.
      <3>1. Queue \ read'[r].todo = {}
        BY <1>t, <2>1, <2>3 DEF NothingYet, ReadRec
      <3>2. QED BY <1>o, <2>1, <3>1
    <2>4. QED BY <1>o, <2>1, <2>2, <2>3
  <1>3. ASSUME NEW r \in Reader, ReadKeys(r) PROVE ReadCurrent'
    <2>1. PICK q \in read[r].todo :
            /\ saved[q].keys # 0
            /\ read' = [read EXCEPT ![r].at = "data", ![r].cur = q, ![r].todo = @ \ {q},
                                    ![r].got[q].keys = saved[q].keys]
      BY <1>3 DEF ReadKeys
    <2>2. /\ read'[r].at = "data" /\ read'[r].cur = q /\ read'[r].todo = read[r].todo \ {q}
          /\ read'[r].got = [read[r].got EXCEPT ![q].keys = saved[q].keys]
          /\ \A x \in Reader \ {r} : read'[x] = read[x]
      BY <1>t, <2>1 DEF ReadRec
    <2>3. read[r].at = "keys" /\ saved' = saved
      BY <1>3 DEF ReadKeys
    <2>4. ASSUME NEW x \in Queue \ read'[r].todo
          PROVE  /\ saved[x].keys # 0 /\ read'[r].got[x].keys = saved[x].keys
                 /\ x = q \/ read'[r].got[x].data = saved[x].data
      BY <1>t, <2>1, <2>2, <2>3 DEF ReadCurrent, SavedRec
    <2>5. QED BY <1>o, <2>2, <2>3, <2>4
  <1>4. ASSUME NEW r \in Reader, ReadData(r) PROVE ReadCurrent'
    <2> DEFINE q == read[r].cur
    <2>1. /\ read'[r].at = "result" /\ read'[r].todo = read[r].todo
          /\ read'[r].got = [read[r].got EXCEPT ![q].data = saved[q].data]
          /\ \A x \in Reader \ {r} : read'[x] = read[x]
      BY <1>4, <1>t DEF ReadData, ReadRec
    <2>2. read[r].at = "data" /\ saved' = saved
      BY <1>4 DEF ReadData
    <2>3. ASSUME NEW x \in Queue \ read'[r].todo
          PROVE  /\ saved[x].keys # 0 /\ read'[r].got[x].keys = saved[x].keys
                 /\ read'[r].got[x].data = saved[x].data
      BY <1>t, <2>1, <2>2 DEF ReadCurrent, SavedRec
    <2>4. QED BY <1>o, <2>1, <2>2, <2>3
  <1>5. ASSUME NEW r \in Reader, ReadResult(r) PROVE ReadCurrent'
    <2> DEFINE q == read[r].cur
    <2>1. /\ read'[r].at = "keys" /\ read'[r].todo = read[r].todo
          /\ read'[r].got = [read[r].got EXCEPT ![q].ok = saved[q].ok]
          /\ \A x \in Reader \ {r} : read'[x] = read[x]
      BY <1>5, <1>t DEF ReadResult, ReadRec
    <2>2. read[r].at = "result" /\ saved' = saved
      BY <1>5 DEF ReadResult
    <2>3. ASSUME NEW x \in Queue \ read'[r].todo
          PROVE  /\ saved[x].keys # 0 /\ read'[r].got[x].keys = saved[x].keys
                 /\ read'[r].got[x].data = saved[x].data
      BY <1>t, <2>1, <2>2 DEF ReadCurrent, SavedRec
    <2>4. QED BY <1>o, <2>1, <2>2, <2>3
  <1>6. ASSUME NEW r \in Reader, EndRead(r) PROVE ReadCurrent'
    <2>1. read'[r].at \in {"done", "idle"} /\ \A x \in Reader \ {r} : read'[x] = read[x]
      BY <1>6, <1>t DEF EndRead, Outcomes
    <2>2. QED BY <1>o, <2>1
  <1>7. CASE UNCHANGED read
    BY <1>7, <1>s DEF ReadCurrent
  <1>8. QED
    BY <1>1, <1>2, <1>3, <1>4, <1>5, <1>6, <1>7 DEF Next, vars, Gather, LockSave, Save,
       UnlockSave, Report, Wake, Tick

\* Where the refinement of a step takes place.
StoredNow == [q \in Queue |-> KeysData(saved[q])]
ViewNow == [r \in Reader |-> ViewOf(r)]

\* If nothing else happens, a save exchanges the data of its queue.
LEMMA SaveIsPut ==
    ASSUME IInv, GatheredLater, NEW q \in Queue, Save(q)
    PROVE  [S!Next]_S!vars
  <1>1. UNCHANGED ViewNow
    BY DEF Save, ViewNow, ViewOf
  <1>2. CASE UNCHANGED saved
    BY <1>1, <1>2 DEF StoredNow, ViewNow, S!vars
  <1>3. CASE SaveAll(q)
    <2>1. /\ work[q].ver \in Ver /\ work[q].ver > saved[q].data
          /\ saved \in [Queue -> SavedRec]
      BY MaxVerAssumption DEF GatheredLater, Save, Ready, IInv, DataTypes, WorkRec, SavedRec, Ver
    <2>2. StoredNow' = [StoredNow EXCEPT ![q] = S!Whole(work[q].ver)]
      BY <1>3, <2>1 DEF SaveAll, StoredNow, KeysData, S!Whole
    <2>3. StoredNow[q].data = saved[q].data
      BY DEF StoredNow, KeysData
    <2>4. S!Put(q)
      BY <1>1, <2>1, <2>2, <2>3 DEF S!Put, StoredNow, ViewNow
    <2>5. QED BY <2>4 DEF S!Next
  <1>4. QED BY <1>2, <1>3 DEF Save

\* When a goroutine returns what it has, this is what all the queues have.
LEMMA EndIsGet ==
    ASSUME IInv, ReadCurrent, NEW r \in Reader, EndRead(r)
    PROVE  [S!Next]_S!vars
  <1>t. /\ read \in [Reader -> ReadRec] /\ saved \in [Queue -> SavedRec]
        /\ read[r].got \in [Queue -> SavedRec]
    BY DEF IInv, DataTypes, ReadRec
  <1>0. PICK out \in Outcomes(r) : read' = [read EXCEPT ![r].at = out]
    BY DEF EndRead
  <1>1. UNCHANGED saved /\ read[r].at \in {"keys", "data", "result"}
    BY DEF EndRead
  <1>2. /\ read'[r].at = out /\ read'[r].got = read[r].got
        /\ \A x \in Reader \ {r} : read'[x] = read[x]
    BY <1>0, <1>t DEF ReadRec
  <1>3. UNCHANGED StoredNow
    BY <1>1 DEF StoredNow
  <1>4. \A x \in Reader \ {r} : ViewNow'[x] = ViewNow[x]
    BY <1>2 DEF ViewNow, ViewOf
  <1>5. CASE out = "done"
    <2>1. read[r].at = "keys" /\ read[r].todo = {}
      BY <1>0, <1>5 DEF Outcomes
    <2>2. ASSUME NEW q \in Queue
          PROVE  KeysData(read[r].got[q]) = KeysData(saved[q]) /\ saved[q].keys # 0
      BY <1>t, <2>1 DEF ReadCurrent, KeysData
    <2>3. ViewNow'[r] = StoredNow
      BY <1>2, <1>5, <2>2 DEF ViewNow, ViewOf, StoredNow
    <2>4. \A q \in Queue : StoredNow[q] # S!Whole(0)
      BY <2>2 DEF StoredNow, KeysData, S!Whole
    <2>5. ViewNow' = [ViewNow EXCEPT ![r] = StoredNow]
      BY <1>4, <2>3 DEF ViewNow
    <2>6. S!Get(r)
      BY <1>3, <2>4, <2>5 DEF S!Get, StoredNow, ViewNow
    <2>7. QED BY <2>6 DEF S!Next
  <1>6. CASE out # "done"
    <2>1. ViewNow'[r] = None /\ ViewNow[r] = None
      BY <1>1, <1>2, <1>6 DEF ViewNow, ViewOf
    <2>2. UNCHANGED ViewNow
      BY <1>4, <2>1 DEF ViewNow
    <2>3. QED BY <1>3, <2>2 DEF StoredNow, ViewNow, S!vars
  <1>7. QED BY <1>5, <1>6

\* Every step is a step of IpSnapshot, or nothing happens there.
LEMMA StepIsAbstract ==
    ASSUME IInv, ReadCurrent, GatheredLater, [Next]_vars
    PROVE  [S!Next]_S!vars
  <1>t. read \in [Reader -> ReadRec] /\ saved \in [Queue -> SavedRec]
    BY DEF IInv, DataTypes
  <1>u. ASSUME UNCHANGED StoredNow, UNCHANGED ViewNow PROVE [S!Next]_S!vars
    BY <1>u DEF StoredNow, ViewNow, S!vars
  <1>1. ASSUME NEW q \in Queue, Gather(q) \/ LockSave(q) \/ UnlockSave(q) \/ Report(q) \/ Wake(q)
        PROVE  [S!Next]_S!vars
    <2>1. UNCHANGED read
      BY <1>1 DEF Gather, LockSave, UnlockSave, Report, Wake
    <2>2. \A x \in Queue : saved'[x].keys = saved[x].keys /\ saved'[x].data = saved[x].data
      BY <1>1, <1>t DEF Gather, LockSave, UnlockSave, Report, Wake, SavedRec
    <2>3. QED BY <1>u, <2>1, <2>2 DEF StoredNow, ViewNow, ViewOf, KeysData
  <1>2. ASSUME NEW r \in Reader, StartRead(r) PROVE [S!Next]_S!vars
    <2>1. /\ saved' = saved /\ read'[r].at = "lock"
          /\ \A x \in Reader \ {r} : read'[x] = read[x]
      BY <1>2, <1>t DEF StartRead
    <2>2. ViewNow' = [ViewNow EXCEPT ![r] = None]
      BY <2>1 DEF ViewNow, ViewOf
    <2>3. S!Forget(r)
      BY <2>1, <2>2 DEF S!Forget, StoredNow, ViewNow
    <2>4. QED BY <2>3 DEF S!Next
  <1>3. ASSUME NEW r \in Reader, LockRead(r) \/ ReadKeys(r) \/ ReadData(r) \/ ReadResult(r)
        PROVE  [S!Next]_S!vars
    <2>a. read[r].at \in {"lock", "keys", "data", "result"}
      BY <1>3, ReadOn DEF LockRead
    <2> DEFINE kept == /\ saved' = saved /\ read'[r].at # "done"
                       /\ \A x \in Reader \ {r} : read'[x] = read[x]
    <2>b. LockRead(r) => kept
      <3>1. LockRead(r) =>
              \/ UNCHANGED read
              \/ \E at \in {"keys", "idle"} : read' = [read EXCEPT ![r].at = at]
        BY DEF LockRead
      <3>2. QED BY <1>t, <2>a, <3>1 DEF LockRead, ReadRec
    <2>c. ReadKeys(r) \/ ReadData(r) \/ ReadResult(r) => kept
      BY ReadOn
    <2>1. /\ saved' = saved /\ read[r].at # "done" /\ read'[r].at # "done"
          /\ \A x \in Reader \ {r} : read'[x] = read[x]
      BY <1>3, <2>a, <2>b, <2>c
    <2>2. \A x \in Reader : ViewOf(x)' = ViewOf(x)
      BY <2>1 DEF ViewOf
    <2>3. QED BY <1>u, <2>1, <2>2 DEF StoredNow, ViewNow
  <1>4. CASE UNCHANGED <<saved, read>>
    BY <1>4, <1>u DEF StoredNow, ViewNow, ViewOf
  <1>5. QED
    BY <1>1, <1>2, <1>3, <1>4, SaveIsPut, EndIsGet DEF Next, vars, Tick

\* If nobody outstays its lease, locks, transactions and single reads implement
\* IpSnapshot: saves exchange the data of a queue for later ones, and a read returns
\* what all the queues had at one moment.
THEOREM ReadsAreSnapshots == ASSUME Prompt PROVE Spec => ImplementsSnapshot
  <1>1. Init => S!Init /\ NothingYet /\ ReadCurrent /\ GatheredLater
    BY MaxVerAssumption
    DEF Init, S!Init, S!Whole, NothingYet, ReadCurrent, GatheredLater, NoData, KeysData, ViewOf
  <1> DEFINE I == IInv /\ NothingYet /\ ReadCurrent /\ GatheredLater
  <1>2. I /\ [Next]_vars => I'
    BY NextIInv, NothingYetKept, CurrentKept, LaterKept
  <1>3. I /\ [Next]_vars => [S!Next]_S!vars
    BY StepIsAbstract
  <1>4. Init => I
    BY <1>1, InitIInv
  <1> HIDE DEF I
  <1>5. QED BY <1>1, <1>2, <1>3, <1>4, PTL DEF Spec, ImplementsSnapshot, S!Spec

=============================================================================
