------------------------------ MODULE MCRedSub ------------------------------
(* Instances of RedSub for TLC.                                            *)
EXTENDS RedSub

=============================================================================
