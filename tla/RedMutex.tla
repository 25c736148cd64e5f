------------------------------ MODULE RedMutex ------------------------------
(***************************************************************************)
(* The lock that map-scanner and map-broker take on the data of an address *)
(* (redmutex): a redis key that holds the token of its owner and expires   *)
(* by itself.  Time passes in steps of waitTime, the pause between two     *)
(* attempts.  The tokens of two attempts are taken to differ (they are the *)
(* text of time.Now, to the nanosecond), so a client stands for the token  *)
(* of its last attempt.                                                    *)
(***************************************************************************)
EXTENDS Integers

CONSTANTS
    Client,     \* the Mutex values that name this key, in any process
    Lease,      \* argument d of Lock, in ticks
    Timeout,    \* argument timeout of Lock, in ticks
    None        \* the key does not exist

ASSUME LeaseAssumption == Lease \in Nat \ {0}
ASSUME TimeoutAssumption == Timeout \in Nat
ASSUME NoneAssumption == None \notin Client

VARIABLES
    key,    \* the key: the client whose token it holds, or None
    ttl,    \* what is left of the time to live of the key
    pc,     \* where each client is: "free", "trying" or "sleeping" in Lock, "held"
    waited, \* how long the client has been in Lock
    left    \* how long the client may still count on its lock

mutexVars == <<key, ttl, pc, waited, left>>

\* Every variable has its type, and a key that is there has a time to live.
TypeOK ==
    /\ key \in Client \union {None}
    /\ ttl \in 0 .. Lease
    /\ pc \in [Client -> {"free", "trying", "sleeping", "held"}]
    /\ waited \in [Client -> 0 .. Timeout]
    /\ left \in [Client -> 0 .. Lease]
    /\ key = None <=> ttl = 0

Init ==
    /\ key = None
    /\ ttl = 0
    /\ pc = [c \in Client |-> "free"]
    /\ waited = [c \in Client |-> 0]
    /\ left = [c \in Client |-> 0]

\* The client is not in possession of the lock, in its own view.
GiveUp(c) ==
    /\ pc' = [pc EXCEPT ![c] = "free"]
    /\ left' = [left EXCEPT ![c] = 0]

---------------------------------------------------------------------------
(* Lock                                                                    *)

\* Lock is called: the deadline is set.
Lock(c) ==
    /\ pc[c] = "free"
    /\ pc' = [pc EXCEPT ![c] = "trying"]
    /\ waited' = [waited EXCEPT ![c] = 0]
    /\ UNCHANGED <<key, ttl, left>>

\* Variant: the key is set without PX.
SetNXForEver(c) == key = None /\ key' = c /\ UNCHANGED ttl

\* SET key lock PX d NX
SetNX(c) == key = None /\ key' = c /\ ttl' = Lease

Acquire(c) ==
    /\ pc[c] = "trying"
    /\ SetNX(c)
    /\ pc' = [pc EXCEPT ![c] = "held"]
    /\ left' = [left EXCEPT ![c] = Lease]
    /\ UNCHANGED waited

\* Variant: the deadline is never met.
PastDeadlineNever(c) == waited[c] > Timeout

\* The next attempt would come after the deadline.
PastDeadline(c) == waited[c] + 1 > Timeout

\* The key is taken: ErrTimeout, or another attempt after waitTime.
Taken(c) ==
    /\ pc[c] = "trying"
    /\ key # None
    /\ IF PastDeadline(c) THEN GiveUp(c)
       ELSE pc' = [pc EXCEPT ![c] = "sleeping"] /\ UNCHANGED left
    /\ UNCHANGED <<key, ttl, waited>>

\* The command fails: Lock returns the error, whether or not redis has
\* carried it out.
LockFails(c) ==
    /\ pc[c] = "trying"
    /\ SetNX(c) \/ UNCHANGED <<key, ttl>>
    /\ GiveUp(c)
    /\ UNCHANGED waited

---------------------------------------------------------------------------
(* Unlock                                                                  *)

\* Variant: the key is deleted whoever holds it.
DelAlways(c) == key' = None /\ ttl' = 0

\* del_script: the key goes only if it still holds the token.
DelScript(c) == IF key = c THEN key' = None /\ ttl' = 0 ELSE UNCHANGED <<key, ttl>>

\* nil, ErrNotUs or ErrExpired, as DelScript has it
Unlock(c) ==
    /\ pc[c] = "held"
    /\ DelScript(c)
    /\ GiveUp(c)
    /\ UNCHANGED waited

\* The script fails, or its answer is lost: Locked is reset all the same.
UnlockFails(c) ==
    /\ pc[c] = "held"
    /\ DelScript(c) \/ UNCHANGED <<key, ttl>>
    /\ GiveUp(c)
    /\ UNCHANGED waited

---------------------------------------------------------------------------

\* A client ends, with or without the lock, and another takes its place.
Crash(c) ==
    /\ pc[c] # "free"
    /\ GiveUp(c)
    /\ UNCHANGED <<key, ttl, waited>>

Less(n) == IF n > 0 THEN n - 1 ELSE 0

\* Variant: a key that was set stays.
ExpireNever == UNCHANGED <<key, ttl>>

\* The time to live runs out.
Expire ==
    /\ ttl' = Less(ttl)
    /\ key' = IF ttl > 1 THEN key ELSE None

\* waitTime passes for everyone.
Tick ==
    /\ Expire
    /\ pc' = [c \in Client |-> IF pc[c] = "sleeping" THEN "trying" ELSE pc[c]]
    /\ waited' = [c \in Client |-> IF pc[c] \in {"trying", "sleeping"} /\ waited[c] < Timeout
                                   THEN waited[c] + 1 ELSE waited[c]]
    /\ left' = [c \in Client |-> Less(left[c])]

Attempt(c) == Acquire(c) \/ Taken(c)

Next ==
    \/ \E c \in Client : \/ Lock(c) \/ Attempt(c) \/ LockFails(c)
                         \/ Unlock(c) \/ UnlockFails(c) \/ Crash(c)
    \/ Tick

Spec == Init /\ [][Next]_mutexVars

\* Time passes, and a command that was sent is answered.
FairSpec == Spec /\ WF_mutexVars(Tick) /\ \A c \in Client : WF_mutexVars(Attempt(c))

---------------------------------------------------------------------------
(* Properties                                                              *)

\* Two clients never count on the lock at once: within d of the SET that gave
\* it the lock, a client that has not unlocked is alone.
MutualExclusion == \A c, e \in Client : left[c] > 0 /\ left[e] > 0 => c = e

\* Every call of Lock returns, with the lock or without it.
LockReturns == \A c \in Client : pc[c] \in {"trying", "sleeping"} ~> pc[c] \in {"free", "held"}

\* A key that its owner has left behind - it crashed, or an answer was lost -
\* goes away, or the owner locks again.
LeftoverGoes == \A c \in Client : key = c /\ pc[c] # "held" ~> key # c \/ pc[c] = "held"

=============================================================================
