--------------------------- MODULE RedMutexProofs ---------------------------
(***************************************************************************)
(* Mutual exclusion of the lease lock, for any clients, any lease and any  *)
(* timeout: the time that a client may count on is never longer than what  *)
(* is left of the key that holds its token.                                *)
(***************************************************************************)
EXTENDS RedMutex, TLAPS

\* Whoever counts on the lock is in possession of the key, and for no longer
\* than the key lives.
LeaseBacked == \A c \in Client : left[c] > 0 => key = c /\ left[c] <= ttl /\ pc[c] = "held"

IInv == TypeOK /\ LeaseBacked

\* Time is counted down within its range.
LEMMA LessRange == ASSUME NEW n \in 0 .. Lease PROVE Less(n) \in 0 .. Lease
  BY LeaseAssumption DEF Less

\* Nobody holds the lock initially.
LEMMA InitIInv == Init => IInv
  BY LeaseAssumption, TimeoutAssumption DEF Init, IInv, TypeOK, LeaseBacked

\* Every step keeps the leases backed.
LEMMA NextIInv == IInv /\ [Next]_mutexVars => IInv'
  <1> SUFFICES ASSUME IInv, [Next]_mutexVars PROVE IInv'
    OBVIOUS
  <1> USE LeaseAssumption, TimeoutAssumption, NoneAssumption DEF IInv, TypeOK, LeaseBacked
  <1>1. ASSUME NEW c \in Client, Lock(c) PROVE IInv'
    BY <1>1 DEF Lock
  \* The key is free, so nobody counts on it.
  <1>2. ASSUME NEW c \in Client, Acquire(c) PROVE IInv'
    BY <1>2 DEF Acquire, SetNX
  <1>3. ASSUME NEW c \in Client, Taken(c) PROVE IInv'
    BY <1>3 DEF Taken, GiveUp
  <1>4. ASSUME NEW c \in Client, LockFails(c) PROVE IInv'
    <2>1. CASE SetNX(c)
      BY <1>4, <2>1 DEF LockFails, GiveUp, SetNX
    <2>2. CASE UNCHANGED <<key, ttl>>
      BY <1>4, <2>2 DEF LockFails, GiveUp
    <2>3. QED BY <1>4, <2>1, <2>2 DEF LockFails
  \* The key that the script deletes is nobody else's.
  <1>5. ASSUME NEW c \in Client, Unlock(c) PROVE IInv'
    BY <1>5 DEF Unlock, GiveUp, DelScript
  <1>6. ASSUME NEW c \in Client, UnlockFails(c) PROVE IInv'
    BY <1>6 DEF UnlockFails, GiveUp, DelScript
  <1>7. ASSUME NEW c \in Client, Crash(c) PROVE IInv'
    BY <1>7 DEF Crash, GiveUp
  <1>8. CASE Tick
    <2>1. ttl' \in 0 .. Lease /\ key' \in Client \union {None}
      BY <1>8, LessRange DEF Tick, Expire
    <2>2. left' \in [Client -> 0 .. Lease]
      BY <1>8, LessRange DEF Tick
    <2>3. /\ pc' \in [Client -> {"free", "trying", "sleeping", "held"}]
          /\ waited' \in [Client -> 0 .. Timeout]
      BY <1>8 DEF Tick
    <2>4. ASSUME NEW c \in Client, left'[c] > 0
          PROVE  key' = c /\ left'[c] <= ttl' /\ pc'[c] = "held"
      <3>1. left[c] > 1 /\ left'[c] = left[c] - 1
        BY <1>8, <2>4 DEF Tick, Less
      <3>2. key = c /\ left[c] <= ttl /\ pc[c] = "held"
        BY <3>1
      <3>3. ttl > 1 /\ ttl' = ttl - 1 /\ key' = key
        BY <1>8, <3>1, <3>2 DEF Tick, Expire, Less
      <3>4. pc'[c] = "held"
        BY <1>8, <3>2 DEF Tick
      <3>5. QED BY <3>1, <3>2, <3>3, <3>4
    <2>5. key' = None <=> ttl' = 0
      <3>1. key = None <=> ttl = 0
        OBVIOUS
      <3>2. ttl \in 0 .. Lease
        OBVIOUS
      <3>3. QED BY <1>8, <3>1, <3>2 DEF Tick, Expire, Less
    <2>6. QED BY <2>1, <2>2, <2>3, <2>4, <2>5
  <1>9. CASE UNCHANGED mutexVars
    BY <1>9 DEF mutexVars
  <1>10. QED
    BY <1>1, <1>2, <1>3, <1>4, <1>5, <1>6, <1>7, <1>8, <1>9 DEF Next, Attempt

\* The leases are backed in every reachable state.
LEMMA IInvHolds == Spec => []IInv
  BY InitIInv, NextIInv, PTL DEF Spec

\* The variables keep their types.
THEOREM TypeCorrect == Spec => []TypeOK
  BY IInvHolds, PTL DEF IInv

\* Two clients never count on the lock at once.
THEOREM NeverTwoHolders == Spec => []MutualExclusion
  <1>1. IInv => MutualExclusion
    BY DEF IInv, LeaseBacked, MutualExclusion
  <1>2. QED BY <1>1, IInvHolds, PTL

=============================================================================
