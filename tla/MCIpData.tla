------------------------------ MODULE MCIpData ------------------------------
(* Instances of IpData for TLC.                                            *)
EXTENDS IpData, TLC

CONSTANTS q0, q1, r1

QueueSymmetry == Permutations(Queue)

=============================================================================
