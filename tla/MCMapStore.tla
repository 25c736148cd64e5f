------------------------------ MODULE MCMapStore ------------------------------
(* Instances of MapStore for TLC. *)
EXTENDS MapStore, Naturals, TLC

\* Users are alike, and so are items and slots.
Symmetry == Permutations(Pages) \cup Permutations(Items) \cup Permutations(Slots)

UnderWay(p) == Cardinality({s \in Slots : calls[p][s] # NoCall}) + IF loading[p] = "no" THEN 0 ELSE 1

\* Bound: users who wait for the answers to one click before the next.
WaitsBetweenClicks == \A p \in Pages : Click(p) => UnderWay(p) = 0

\* Bound: nobody copies the layout into another file.
NoCopies == \A p \in Pages, s \in Slots : calls[p][s] # NoCall => calls[p][s].op # "copy"

\* Bound: two requests under way at once, those of all pages and loadings together.
FewCalls == \A p, q \in Pages : p # q => UnderWay(p) + UnderWay(q) <= 2

\* Bound: of two requests of a page under way one has not written the user's layout yet;
\* what handlers that both have written it do to the default layout is left out.
OneWritten == \A p \in Pages, s, t \in Slots :
  s # t /\ calls[p][s] # NoCall /\ calls[p][t] # NoCall => Early(calls[p][s]) \/ Early(calls[p][t])

\* A page whose layout is stored as it is shown, but for the one request under way.
Calm(p) == /\ UnderWay(p) <= 1 /\ ~amiss[p]
           /\ \/ unsure[p] = {} \/ loading[p] # "no"
              \/ \E s \in Slots : /\ calls[p][s] # NoCall
                                  /\ (unsure[p] \subseteq calls[p][s].part) \/ calls[p][s].op = "delete"

Settled(p) == /\ Calm(p) /\ Quiet(p) /\ view[p] = "own"
              /\ shown[p] = Items /\ owner = p /\ def = Items

\* Bound: while requests of a page overlap or fail, and until it is loaded again or all
\* it shows is saved, the other one rests with all items in its layout, the default one.
OneStirs == \A p, q \in Pages : p # q => (Calm(p) /\ Calm(q)) \/ Settled(p) \/ Settled(q)
===============================================================================
