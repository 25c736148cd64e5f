--------------------------- MODULE MCDevRegistry ---------------------------
(* Instances of DevRegistry for TLC.                                       *)
EXTENDS DevRegistry, TLC

CONSTANTS a1, a2, dA, dB, t1, t2

NoPref == [d \in DevId |-> NoIp]

\* Device dA is to be polled at a2.
PrefA2 == [d \in DevId |-> IF d = dA THEN a2 ELSE NoIp]

TaskSymmetry == Permutations(Task)

=============================================================================
