----------------------------- MODULE MCRedMutex -----------------------------
(* Instances of RedMutex for TLC.                                          *)
EXTENDS RedMutex

CONSTANTS c1, c2, c3

=============================================================================
