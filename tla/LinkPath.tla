------------------------------- MODULE LinkPath -------------------------------
(***************************************************************************)
(* What the turn points of one link promise to the person who draws the    *)
(* map: they form one broken line from one device of the link to the other *)
(* and an edit touches one place of it.  The line is the sequence of the   *)
(* points met on the way; the page keeps it as records that refer to each  *)
(* other (TurnPoints), which implement this specification.                 *)
(***************************************************************************)
EXTENDS Naturals, Sequences, SequencesExt

CONSTANT Ids        \* the indexes a turn point may have

VARIABLES path,     \* the points of the line the page shows
          saved     \* the line the broker would give to a page loaded now

vars == <<path, saved>>

TypeOK == path \in Seq(Ids) /\ saved \in Seq(Ids)

Init == path = <<>> /\ saved = <<>>

\* A change is sent to be saved; a save that fails is not repeated.
Sent == saved' = path' \/ saved' = saved

\* A new point goes between two neighbours, or next to a device.
PutIn == /\ \E k \in 1..(Len(path) + 1), n \in Ids \ ToSet(path) :
              path' = InsertAt(path, k, n)
         /\ Sent

\* A point is taken out, the others keep their order.
TakeOut == /\ \E k \in DOMAIN path : path' = RemoveAt(path, k)
           /\ Sent

\* A device is taken off the map with the lines that end at it.
Clear == path' = <<>> /\ Sent

\* A point is moved, or the whole map is saved.
Save == path' = path /\ saved' = path

\* The page is loaded anew.
Load == path' = saved /\ saved' = saved

Next == Load \/ Save \/ Clear \/ TakeOut \/ PutIn

Spec == Init /\ [][Next]_vars
===============================================================================
