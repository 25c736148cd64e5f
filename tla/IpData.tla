------------------------------- MODULE IpData -------------------------------
(***************************************************************************)
(* The data of one address in redis: the scanner's workers, one per queue, *)
(* write them and the broker's goroutines read them (GetRawRed), each with *)
(* a lock of RedMutex on the address.  A save is one MULTI/EXEC; a read is *)
(* a command per key, so only the lock keeps it from seeing half of a save.*)
(***************************************************************************)
EXTENDS Integers

CONSTANTS
    Queue,      \* the queues of the address, each with its worker
    Reader,     \* the goroutines of the broker that read the address
    Lease, Timeout, None,   \* as in RedMutex
    MaxVer,     \* bound on the number of gatherings of a worker
    Prompt      \* nobody stays in the section longer than its lease

ASSUME ClientAssumption == Queue \intersect Reader = {}
ASSUME LockAssumption ==
    Lease \in Nat \ {0} /\ Timeout \in Nat /\ None \notin Queue \union Reader
ASSUME MaxVerAssumption == MaxVer \in Nat
ASSUME PromptAssumption == Prompt \in BOOLEAN

VARIABLES
    key, ttl, pc, waited, left, \* of RedMutex
    saved,  \* redis: the gathering that ip_keys, ip_data, ip_last_result are of
    work,   \* the workers
    read    \* the goroutines

lockVars == <<key, ttl, pc, waited, left>>
vars == <<key, ttl, pc, waited, left, saved, work, read>>

Client == Queue \union Reader

M == INSTANCE RedMutex

\* Gatherings are numbered; 0 is a key that does not exist.
Ver == 0 .. MaxVer

\* What is stored, and what is read, of a queue.
SavedRec == [keys : Ver, data : Ver, ok : BOOLEAN]

\* err is the variable of the worker: "redis" stands for an error of the
\* connection, after which nothing more reaches redis in this cycle.
WorkRec == [at : {"gather", "lock", "save", "unlock", "report", "sleep"},
            ver : Ver, err : {"nil", "some", "redis"}, done : BOOLEAN]

\* cur is the queue being read, with part of its keys yet to come.
ReadRec == [at : {"idle", "lock", "keys", "data", "result", "done"},
            todo : SUBSET Queue, cur : Queue \union {None}, got : [Queue -> SavedRec]]

NoData == [keys |-> 0, data |-> 0, ok |-> FALSE]

---------------------------------------------------------------------------
(* The worker of a queue                                                   *)

WorkTo(q, at, err) == work' = [work EXCEPT ![q].at = at, ![q].err = err]

\* The job is done, or has failed; a cycle that is done goes on to Lock.
Gather(q) ==
    /\ work[q].at = "gather"
    /\ work[q].ver < MaxVer
    /\ \/ /\ work' = [work EXCEPT ![q] = [at |-> "lock", ver |-> @.ver + 1,
                                           err |-> "nil", done |-> FALSE]]
          /\ M!Lock(q)
       \/ /\ work' = [work EXCEPT ![q] = [at |-> "report", ver |-> @.ver + 1,
                                           err |-> "some", done |-> FALSE]]
          /\ UNCHANGED lockVars
    /\ UNCHANGED <<saved, read>>

\* Lock, up to its return.
LockSave(q) ==
    /\ work[q].at = "lock"
    /\ \/ /\ M!Attempt(q)
          /\ CASE pc'[q] = "held" -> WorkTo(q, "save", "nil")
               [] pc'[q] = "free" -> WorkTo(q, "report", "some")
               [] OTHER -> UNCHANGED work
       \/ M!LockFails(q) /\ \E err \in {"some", "redis"} : WorkTo(q, "report", err)
    /\ UNCHANGED <<saved, read>>

SaveAll(q) == saved' = [saved EXCEPT ![q] = [keys |-> work[q].ver, data |-> work[q].ver, ok |-> TRUE]]

\* Variant: it is not asked whether Lock has succeeded.
ReadyAnyway(q) == work[q].at \in {"lock", "save"}

Ready(q) == work[q].at = "save"

\* EXEC succeeds, is refused, or gets no answer.
Save(q) ==
    /\ Ready(q)
    /\ \/ SaveAll(q) /\ WorkTo(q, "unlock", "nil")
       \/ UNCHANGED saved /\ WorkTo(q, "unlock", "some")
       \/ SaveAll(q) /\ WorkTo(q, "unlock", "redis")
       \/ UNCHANGED saved /\ WorkTo(q, "unlock", "redis")
    /\ UNCHANGED <<lockVars, read>>

\* err is what Unlock returns, whatever EXEC has returned; then the broker is
\* told "scan done".
UnlockSave(q) ==
    /\ work[q].at = "unlock"
    /\ LET told(err) == work' = [work EXCEPT ![q].at = "report", ![q].err = err,
                                              ![q].done = (err # "redis")]
       IN  \/ /\ work[q].err # "redis"
              /\ M!Unlock(q)
              /\ told(IF key = q THEN "nil" ELSE "some")
           \/ M!UnlockFails(q) /\ told("redis")
    /\ UNCHANGED <<saved, read>>

\* Variant: the result is written after the cycle, whatever it is.
ReportAll(q) ==
    /\ work[q].at = "report"
    /\ saved' = IF work[q].err = "redis" THEN saved
                ELSE [saved EXCEPT ![q].ok = (work[q].err = "nil")]
    /\ work' = [work EXCEPT ![q].at = "sleep"]
    /\ UNCHANGED <<lockVars, read>>

\* An error is written to ip_last_result, without the lock.
Report(q) ==
    /\ work[q].at = "report"
    /\ saved' = IF work[q].err = "some" THEN [saved EXCEPT ![q].ok = FALSE] ELSE saved
    /\ work' = [work EXCEPT ![q].at = "sleep"]
    /\ UNCHANGED <<lockVars, read>>

\* The timer of the worker.
Wake(q) ==
    /\ work[q].at = "sleep"
    /\ WorkTo(q, "gather", "nil")
    /\ UNCHANGED <<lockVars, saved, read>>

---------------------------------------------------------------------------
(* GetRawRed                                                               *)

StartRead(r) ==
    /\ read[r].at \in {"idle", "done"}
    /\ M!Lock(r)
    /\ read' = [read EXCEPT ![r] = [at |-> "lock", todo |-> Queue, cur |-> None,
                                    got |-> [q \in Queue |-> NoData]]]
    /\ UNCHANGED <<saved, work>>

LockRead(r) ==
    /\ read[r].at = "lock"
    /\ \/ /\ M!Attempt(r)
          /\ CASE pc'[r] = "held" -> read' = [read EXCEPT ![r].at = "keys"]
               [] pc'[r] = "free" -> read' = [read EXCEPT ![r].at = "idle"]
               [] OTHER -> UNCHANGED read
       \/ M!LockFails(r) /\ read' = [read EXCEPT ![r].at = "idle"]
    /\ UNCHANGED <<saved, work>>

\* HGETALL ip_keys, of the queues in any order
ReadKeys(r) ==
    /\ read[r].at = "keys"
    /\ \E q \in read[r].todo :
         /\ saved[q].keys # 0
         /\ read' = [read EXCEPT ![r].at = "data", ![r].cur = q, ![r].todo = @ \ {q},
                                 ![r].got[q].keys = saved[q].keys]
    /\ UNCHANGED <<lockVars, saved, work>>

\* HGETALL ip_data
ReadData(r) ==
    /\ read[r].at = "data"
    /\ read' = [read EXCEPT ![r].at = "result", ![r].got[read[r].cur].data = saved[read[r].cur].data]
    /\ UNCHANGED <<lockVars, saved, work>>

\* GET ip_last_result
ReadResult(r) ==
    /\ read[r].at = "result"
    /\ read' = [read EXCEPT ![r].at = "keys", ![r].got[read[r].cur].ok = saved[read[r].cur].ok]
    /\ UNCHANGED <<lockVars, saved, work>>

\* Variant: an error ends the reading and what was read is returned.
OutcomesPartly(r) == IF read[r].at = "keys" THEN {"done", "idle"} ELSE {"idle"}

\* All the data, if they fit together; otherwise the error of any queue.
Outcomes(r) == {"idle"} \union IF read[r].at = "keys" /\ read[r].todo = {} THEN {"done"} ELSE {}

\* All is read, or an error ends it early: Unlock, whose result is ignored.
EndRead(r) ==
    /\ read[r].at \in {"keys", "data", "result"}
    /\ M!Unlock(r) \/ M!UnlockFails(r)
    /\ \E out \in Outcomes(r) : read' = [read EXCEPT ![r].at = out]
    /\ UNCHANGED <<saved, work>>

---------------------------------------------------------------------------

\* waitTime passes.  Prompt: not while a lease is about to run out.
Tick ==
    /\ Prompt => \A c \in Client : left[c] # 1
    /\ M!Tick
    /\ UNCHANGED <<saved, work, read>>

Init ==
    /\ M!Init
    /\ saved = [q \in Queue |-> NoData]
    /\ work = [q \in Queue |-> [at |-> "gather", ver |-> 0, err |-> "nil", done |-> FALSE]]
    /\ read = [r \in Reader |-> [at |-> "idle", todo |-> {}, cur |-> None,
                                 got |-> [q \in Queue |-> NoData]]]

Next ==
    \/ \E q \in Queue : \/ Gather(q) \/ LockSave(q) \/ Save(q)
                        \/ UnlockSave(q) \/ Report(q) \/ Wake(q)
    \/ \E r \in Reader : \/ StartRead(r) \/ LockRead(r)
                         \/ ReadKeys(r) \/ ReadData(r) \/ ReadResult(r) \/ EndRead(r)
    \/ Tick

Spec == Init /\ [][Next]_vars

---------------------------------------------------------------------------
(* Properties                                                              *)

\* The variables have their types, and a last result that is ok has data: a save that
\* was refused is never told of as one that was made.
TypeOK ==
    /\ M!TypeOK
    /\ saved \in [Queue -> SavedRec]
    /\ work \in [Queue -> WorkRec]
    /\ read \in [Reader -> ReadRec]
    /\ \A q \in Queue : saved[q].ok => saved[q].data # 0

\* What GetRawRed returns is whole: the keys and the data of a queue are of
\* one gathering ("lock redis data for this worker", map-scanner.go:723).
WholeRead == \A r \in Reader : read[r].at = "done" =>
                 \A q \in Queue : read[r].got[q].keys = read[r].got[q].data

\* What is saved of a queue under the lock; the result is also written without.
KeysData(rec) == [keys |-> rec.keys, data |-> rec.data]

\* What a goroutine has of the address: something once GetRawRed has returned it.
ViewOf(r) == IF read[r].at = "done" THEN [q \in Queue |-> KeysData(read[r].got[q])] ELSE None

S == INSTANCE IpSnapshot WITH
        NoView <- None,
        stored <- [q \in Queue |-> KeysData(saved[q])],
        view <- [r \in Reader |-> ViewOf(r)]

\* Locks, transactions and single reads come to this: each save is an exchange of
\* the data of a queue for later ones, and what GetRawRed returns is what all the
\* queues had at one moment, although they are read one after the other.
ImplementsSnapshot == S!Spec

=============================================================================
