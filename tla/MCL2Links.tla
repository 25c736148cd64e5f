----------------------------- MODULE MCL2Links -----------------------------
(* Instances of L2Links for TLC.                                           *)
EXTENDS L2Links, TLC

CONSTANTS d1, d2, i1, i2

\* One cable between two devices.
PairCables == {l2l_key(<<d1, i1>>, <<d2, i1>>)}

\* A cable that is moved: at d2 i1 it ends at the other device or loops back.
MovedCables == PairCables \union {l2l_key(<<d2, i1>>, <<d2, i2>>)}

=============================================================================
