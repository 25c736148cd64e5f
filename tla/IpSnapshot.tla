----------------------------- MODULE IpSnapshot -----------------------------
(***************************************************************************)
(* What the data of one address promise to those who use them: a save      *)
(* replaces all there is of a queue by a later gathering, and a read gives *)
(* all the queues as they were at one moment.  The lock, the transactions  *)
(* and the command per key by which this is done are in IpData, which      *)
(* implements this specification.                                          *)
(***************************************************************************)
EXTENDS Naturals

CONSTANTS
    Queue,      \* the queues of the address
    Reader,     \* who reads the address
    Ver,        \* the numbers of the gatherings; 0 is a queue without data
    NoView      \* a reader that has got nothing, or has not finished

VARIABLES
    stored,     \* the keys and the data of each queue
    view        \* what each reader has got

vars == <<stored, view>>

\* Keys and data of one gathering.
Whole(v) == [keys |-> v, data |-> v]

Init ==
    /\ stored = [q \in Queue |-> Whole(0)]
    /\ view = [r \in Reader |-> NoView]

\* Data that a worker has gathered since the last save.
Put(q) ==
    /\ \E v \in Ver : v > stored[q].data /\ stored' = [stored EXCEPT ![q] = Whole(v)]
    /\ UNCHANGED view

\* All the queues at once; a queue without data is an error.
Get(r) ==
    /\ \A q \in Queue : stored[q] # Whole(0)
    /\ view' = [view EXCEPT ![r] = stored]
    /\ UNCHANGED stored

\* The reader begins anew.
Forget(r) ==
    /\ view' = [view EXCEPT ![r] = NoView]
    /\ UNCHANGED stored

Next ==
    \/ \E q \in Queue : Put(q)
    \/ \E r \in Reader : Get(r) \/ Forget(r)

Spec == Init /\ [][Next]_vars

=============================================================================
