----------------------------- MODULE MCTurnPoints -----------------------------
(* Instances of TurnPoints for TLC. *)
EXTENDS TurnPoints

Size(t) == IF t = NoTps THEN 0 ELSE Cardinality(DOMAIN t)

\* Bound: saves fail only while the lines on the page and at the broker are short.
FewUnsaved == tps = stored \/ Size(tps) + Size(stored) <= 3

\* Bound: ports come and go only while the lines are shorter still, and a line is as
\* long as it may be only while the link is known.
FewEdits == /\ Size(tps) + Size(stored) > 2 =>
                 edit = NoEdit /\ undrawn = {} /\ ~adrift /\ ports = devs
            /\ Size(tps) = MaxTps => known
===============================================================================
