------------------------------ MODULE TurnPoints ------------------------------
(***************************************************************************)
(* The turn points of one link on the map page (www/mapper.js).  A link    *)
(* between two ports is drawn as a broken line; its corners are the turn   *)
(* points map_data["tps"][link_id], records that refer to each other and   *)
(* to the devices.  From them build_connections derives the legs of the    *)
(* line, on which the next point can be put.  The model keeps one link     *)
(* with its two devices, what the page knows of them, and the copy of the  *)
(* turn points at the broker.  Coordinates are left out: no decision about *)
(* the records depends on them.                                            *)
(***************************************************************************)
EXTENDS Naturals, FiniteSets, Sequences

CONSTANTS EndA, EndB,   \* the devices the link joins, each by one of its ports
          NoRef,        \* a field of a record that is not there
          NoTps,        \* the link has no entry in map_data["tps"]
          NoConn,       \* the link has no entry in connections
          MaxTps        \* bound: turn points of the link

Ends  == {EndA, EndB}
Ids   == 0..(MaxTps - 1)

ASSUME EndsAssumption == EndA # EndB /\ EndA \notin Nat /\ EndB \notin Nat
ASSUME NoRefAssumption == NoRef \notin Nat \cup Ends
ASSUME MaxTpsAssumption == MaxTps \in Nat \ {0}

Other(e) == IF e = EndA THEN EndB ELSE EndA

VARIABLES devs,     \* data["devs"]: which of the two devices the page knows
          known,    \* data["l2_links"] has the link
          ports,    \* devices whose record has the port of the link
          listed,   \* devices whose port names the link in its l2_links
          loc,      \* map_data["loc"]: devices placed on the map
          tps,      \* map_data["tps"][link_id]
          conn,     \* connections[link_id]
          asked,    \* a save_vlink for the link is not answered yet
          edit,     \* the save_vdev that is not answered yet
          undrawn,  \* devices on the map with a port that was not laid out (temp_data)
          stored,   \* the link's turn points in the map the broker keeps
          adrift    \* history: the link is known although the page took one of its ports away

vars == <<devs, known, ports, listed, loc, tps, conn, asked, edit, undrawn, stored, adrift>>

-------------------------------------------------------------------------------
(* Records: turn points and legs have the same fields and the same types. *)

DevDev(x, y) == [type |-> "devdev", from_dev |-> x, to_dev |-> y,
                 from_tp |-> NoRef, to_tp |-> NoRef]
DevTp(x, p)  == [type |-> "devtp", from_dev |-> x, to_dev |-> NoRef,
                 from_tp |-> NoRef, to_tp |-> p]
TpTp(p, q)   == [type |-> "tptp", from_dev |-> NoRef, to_dev |-> NoRef,
                 from_tp |-> p, to_tp |-> q]

Points == {DevDev(x, y) : x, y \in Ends} \cup {DevTp(x, p) : x \in Ends, p \in Ids}
            \cup {TpTp(p, q) : p, q \in Ids}

\* The turn points a turn point refers to.
Refs(p) == IF p.type = "devdev" THEN {}
           ELSE IF p.type = "devtp" THEN {p.to_tp} ELSE {p.from_tp, p.to_tp}

ASSUME NoTpsAssumption == \A D \in SUBSET Ids : NoTps \notin [D -> Points]
ASSUME NoConnAssumption == NoConn \notin [from_dev : Ends, legs : SUBSET Points]

-------------------------------------------------------------------------------
(* build_connections: the legs of the line. *)

\* Variant: only the first device of a point is looked at.
EndLegsFrom(t) == {DevTp(t[k].from_dev, k) : k \in {j \in DOMAIN t : t[j].type # "tptp"}}

\* One leg from a device to each point that names it.
EndLegs(t) == {DevTp(x[1], x[2]) : x \in {y \in Ends \X (DOMAIN t) :
                  /\ t[y[2]].type # "tptp"
                  /\ y[1] \in {t[y[2]].from_dev, t[y[2]].to_dev}}}

\* Variant: without the "connected" marks.
TpLegsTwice(t) == {TpTp(x[1], x[2]) : x \in {y \in (DOMAIN t) \X Ids : y[2] \in Refs(t[y[1]])}}

\* One leg for each pair of points, pushed when the first of the two is visited
\* (indexes are visited in ascending order); the "connected" marks stop the other.
TpLegs(t) == {TpTp(x[1], x[2]) : x \in {y \in (DOMAIN t) \X Ids :
                 /\ y[2] \in Refs(t[y[1]])
                 /\ ~(y[2] \in DOMAIN t /\ y[2] < y[1] /\ y[1] \in Refs(t[y[2]]))}}

LegsOf(t, e) == IF t = NoTps THEN {DevDev(e, Other(e))} ELSE EndLegs(t) \cup TpLegs(t)

\* The connection is made by the first drawn device whose port lists the link.
Connections(d, k, ls, lc, t) ==
  IF k /\ Ends \subseteq d \cap lc /\ ls # {}
  THEN {[from_dev |-> e, legs |-> LegsOf(t, e)] : e \in ls}
  ELSE {NoConn}

-------------------------------------------------------------------------------
(* new_tp: a point is put on a leg. *)

\* Variant: the device that stays is taken to be the second one.
SplitEndUnturned(p, e, n) ==
  CASE p.type = "devdev" -> DevTp(p.to_dev, n)
    [] p.type = "devtp"  -> TpTp(n, p.to_tp)
    [] OTHER -> p

\* The point next to the device e, when the new point n comes between them.
SplitEnd(p, e, n) ==
  CASE p.type = "devdev" -> DevTp(IF p.from_dev = e THEN p.to_dev ELSE p.from_dev, n)
    [] p.type = "devtp"  -> TpTp(n, p.to_tp)
    [] OTHER -> p

\* Variant: the new point always takes the first place.
SplitInnerFirst(p, o, n) == IF p.type = "devtp" THEN [p EXCEPT !.to_tp = n]
                            ELSE IF p.type = "tptp" THEN [p EXCEPT !.from_tp = n] ELSE p

\* A point next to the point o, when the new point n comes between them.
SplitInner(p, o, n) ==
  CASE p.type = "devtp" -> [p EXCEPT !.to_tp = n]
    [] p.type = "tptp" /\ p.from_tp = o -> [p EXCEPT !.from_tp = n]
    [] p.type = "tptp" /\ p.from_tp # o -> [p EXCEPT !.to_tp = n]
    [] OTHER -> p

OnDevDev(leg, n) == [k \in {n} |-> DevDev(leg.from_dev, leg.to_dev)]

OnDevTp(t, leg, n) ==
  [k \in DOMAIN t \cup {n} |->
     IF k = n THEN DevTp(leg.from_dev, leg.to_tp)
     ELSE IF k = leg.to_tp THEN SplitEnd(t[k], leg.from_dev, n) ELSE t[k]]

OnTpTp(t, leg, n) ==
  [k \in DOMAIN t \cup {n} |->
     IF k = n THEN TpTp(leg.from_tp, leg.to_tp)
     ELSE IF k = leg.from_tp THEN SplitInner(t[k], leg.to_tp, n)
     ELSE IF k = leg.to_tp THEN SplitInner(t[k], leg.from_tp, n) ELSE t[k]]

WithTp(t, leg, n) == CASE leg.type = "devdev" -> OnDevDev(leg, n)
                       [] leg.type = "devtp"  -> OnDevTp(t, leg, n)
                       [] leg.type = "tptp"   -> OnTpTp(t, leg, n)

\* new_tp refuses with "Invalid leg type" when the leg and the points disagree.
InvalidLeg(t, leg) == (t = NoTps) # (leg.type = "devdev")

-------------------------------------------------------------------------------
(* remove_tp: a point is taken out and its neighbours are joined. *)

\* The neighbour p of the removed point i, which lay between p and the device e.
JoinDev(p, i, e) == IF p.type = "devtp" THEN DevDev(p.from_dev, e)
                    ELSE DevTp(e, IF p.from_tp = i THEN p.to_tp ELSE p.from_tp)

\* The neighbour p of the removed point i, which lay between p and the point o.
JoinTp(p, i, o) == IF p.type = "tptp" /\ p.from_tp = i THEN [p EXCEPT !.from_tp = o]
                   ELSE [p EXCEPT !.to_tp = o]

Joined(t, i) ==
  [k \in DOMAIN t \ {i} |->
     CASE t[i].type = "devtp" /\ k = t[i].to_tp  -> JoinDev(t[k], i, t[i].from_dev)
       [] t[i].type = "tptp" /\ k = t[i].from_tp -> JoinTp(t[k], i, t[i].to_tp)
       [] t[i].type = "tptp" /\ k = t[i].to_tp   -> JoinTp(t[k], i, t[i].from_tp)
       [] OTHER -> t[k]]

\* Variant: the entry stays when its last point is gone.
WithoutTpEmpty(t, i) == Joined(t, i)

WithoutTp(t, i) == IF DOMAIN t = {i} THEN NoTps ELSE Joined(t, i)

\* remove_tp gives up with "Corrupted turnpoints database" when a neighbour of
\* the point is missing or does not refer back to it.
Corrupted(t, i) == \E k \in Refs(t[i]) : k \notin DOMAIN t \/ i \notin Refs(t[k])

-------------------------------------------------------------------------------
(* The page. *)

drawn == devs \cap loc

\* What get_front answers: a link only with both devices, and then listed at both
\* ports; a port may list a link the answer leaves out.
Answer(d, k, ps, ls) == /\ ls \subseteq ps /\ ps \subseteq d
                        /\ k => d = Ends /\ ls = Ends

\* No save_vdev is under way.
NoEdit == [dev |-> NoRef, had |-> FALSE, differ |-> FALSE]

Init == /\ tps = NoTps /\ stored = NoTps
        /\ devs \in SUBSET Ends /\ known \in BOOLEAN
        /\ ports \in SUBSET Ends /\ listed \in SUBSET Ends
        /\ Answer(devs, known, ports, listed)
        /\ loc \in SUBSET Ends
        /\ asked = FALSE /\ edit = NoEdit /\ undrawn = {} /\ adrift = FALSE
        /\ conn \in Connections(devs, known, listed, loc, tps)

\* Variant: what is sent was read before the edit.
SaveBefore == stored' = tps \/ stored' = stored

\* save_map: the request may fail; the page says so and does not repeat it.
Save == stored' = tps' \/ stored' = stored

\* data_loaded(data, false): every port is laid out and every link drawn again.
Rebuild == /\ undrawn' = {}
           /\ conn' \in Connections(devs', known', listed', loc', tps')

\* delete connections[link_id]; build_connections(), which throws at a port that was
\* not laid out, before or after it has come to this link.
Reconnect == /\ UNCHANGED undrawn
             /\ \/ conn' \in Connections(devs', known', listed', loc', tps')
                \/ undrawn # {} /\ conn' = NoConn

\* A double click on the button of a leg.
NewTp == /\ conn # NoConn
         /\ \E leg \in conn.legs, n \in Ids :
              /\ ~InvalidLeg(tps, leg)
              /\ tps # NoTps => n \notin DOMAIN tps
              /\ \A m \in 0..(n - 1) : tps # NoTps /\ m \in DOMAIN tps
              /\ tps' = WithTp(tps, leg, n)
         /\ UNCHANGED <<devs, known, ports, listed, loc, asked, edit, adrift>>
         /\ Save /\ Reconnect

\* A double click on a turn point.
RemoveTp == /\ conn # NoConn /\ tps # NoTps
            /\ \E i \in DOMAIN tps : /\ ~Corrupted(tps, i)
                                     /\ tps' = WithoutTp(tps, i)
            /\ UNCHANGED <<devs, known, ports, listed, loc, asked, edit, adrift>>
            /\ Save /\ Reconnect

\* tp_moved, and device_drag_stop of several devices: new coordinates are saved
\* with the records, the whole link at once.
MoveTp == /\ tps # NoTps
          /\ stored' = tps
          /\ UNCHANGED <<devs, known, ports, listed, loc, tps, conn, asked, edit, undrawn, adrift>>

\* remove_from_map(e): the device goes back to the list or, e being deleted, away.
\* The turn points of the links drawn at it are forgotten.
OffMap(e) == /\ loc' = loc \ {e}
             /\ tps' = IF conn # NoConn THEN NoTps ELSE tps
             /\ conn' = NoConn
             /\ undrawn' = undrawn \ {e}
             /\ Save

RemoveFromMap(e) == /\ e \in drawn
                    /\ OffMap(e)
                    /\ UNCHANGED <<devs, known, ports, listed, asked, edit, adrift>>

\* The answers to wipe_dev and del_vdev.  The link is wiped when the record of e is no
\* longer there to be cleaned, which matters only while a save_vdev holds it.
DeleteDev(e) ==
  LET held == {e} \cap {edit.dev}
  IN  /\ e \in devs
      /\ devs' = devs \ {e}
      /\ IF e \in drawn THEN OffMap(e) ELSE UNCHANGED <<loc, tps, conn, undrawn, stored>>
      /\ known' = FALSE /\ adrift' = FALSE
      /\ ports' = ports \ ({e} \ held)
      /\ listed' = (IF known THEN {} ELSE listed \ {e}) \cup (listed \cap held)
      /\ UNCHANGED <<asked, edit>>

\* The answer to del_vlink.
DeleteLink == /\ known
              /\ known' = FALSE /\ adrift' = FALSE
              /\ listed' = listed \ devs
              /\ UNCHANGED <<devs, ports, loc, tps, asked, edit, stored>>
              /\ Rebuild

\* "Create" in the window of virtual links, and the answer to save_vlink, which
\* finds the page as it is by then: a device or its port may be gone, and the link
\* becomes known all the same.
AskLink == /\ Ends \subseteq devs \cap ports /\ ~known /\ ~asked
           /\ asked' = TRUE
           /\ UNCHANGED <<devs, known, ports, listed, loc, tps, conn, edit, undrawn, stored, adrift>>

LinkSaved == /\ asked
             /\ asked' = FALSE
             /\ known' = TRUE
             /\ listed' = listed \cup (devs \cap ports)
             /\ adrift' = (adrift \/ ~(Ends \subseteq devs \cap ports))
             /\ UNCHANGED <<devs, ports, loc, tps, edit, stored>>
             /\ Rebuild

\* "Save" in the window of a virtual device, which changes the page's own record before
\* anything is sent: its ports are made anew and list nothing, with the port of the
\* link (keep) or without, perhaps with another one (more).  differ: the ports or the
\* name are not what they were.
\* Bound: one save_vdev under way, whose window is modal and closes with the answer.
EditVdev(e, keep, more, differ) ==
  /\ e \in devs /\ edit = NoEdit
  /\ more \/ (keep # (e \in ports)) => differ
  /\ ports' = IF keep THEN ports \cup {e} ELSE ports \ {e}
  /\ listed' = listed \ {e}
  /\ undrawn' = IF e \in drawn /\ (more \/ (keep /\ e \notin ports)) THEN undrawn \cup {e}
                ELSE undrawn
  /\ edit' = [dev |-> e, had |-> e \in ports, differ |-> differ]
  /\ UNCHANGED <<devs, known, loc, tps, conn, asked, stored, adrift>>

\* Variant: the former ports are read when the answer is there.
PortTakenLate == edit.dev \in ports /\ edit.dev \notin ports

\* The port of the link was in the record before the click and is not now.
PortTaken == edit.had /\ edit.dev \notin ports

\* The answer to save_vdev: the record is entered (again, if the device was deleted in
\* the meantime) and the links of the ports taken away are wiped.  The page is drawn
\* again when something differs and the device is on the map.
VdevSaved == /\ edit # NoEdit
             /\ edit' = NoEdit
             /\ devs' = devs \cup {edit.dev}
             /\ known' = (known /\ ~PortTaken)
             /\ listed' = IF known /\ PortTaken THEN listed \ devs' ELSE listed
             /\ adrift' = (adrift /\ known')
             /\ UNCHANGED <<ports, loc, tps, asked, stored>>
             /\ IF edit.differ /\ edit.dev \in drawn THEN Rebuild ELSE UNCHANGED <<conn, undrawn>>

\* The answer to save_vdev is an error, or does not come: nothing is taken back.
VdevNotSaved == /\ edit # NoEdit
                /\ edit' = NoEdit
                /\ adrift' = (adrift \/ (known /\ edit.had /\ edit.dev \notin ports))
                /\ UNCHANGED <<devs, known, ports, listed, loc, tps, conn, asked, undrawn, stored>>

\* dev_list_stop: a device is dragged from the list to the map.
PlaceDev(e) == /\ e \in devs \ loc
               /\ loc' = loc \cup {e}
               /\ UNCHANGED <<devs, known, ports, listed, tps, asked, edit, stored, adrift>>
               /\ Rebuild

\* The page is loaded anew.  Devices, links and places are what the broker has by
\* then; they are saved apart from the turn points.
Reload == /\ tps' = stored
          /\ devs' \in SUBSET Ends /\ known' \in BOOLEAN
          /\ ports' \in SUBSET Ends /\ listed' \in SUBSET Ends
          /\ Answer(devs', known', ports', listed')
          /\ loc' \in SUBSET Ends
          /\ asked' = FALSE /\ edit' = NoEdit /\ adrift' = FALSE
          /\ UNCHANGED stored
          /\ Rebuild

Next == \/ NewTp \/ RemoveTp \/ MoveTp \/ DeleteLink \/ AskLink \/ LinkSaved
        \/ VdevSaved \/ VdevNotSaved \/ Reload
        \/ \E e \in Ends : \/ RemoveFromMap(e) \/ DeleteDev(e) \/ PlaceDev(e)
                           \/ \E keep, more, differ \in BOOLEAN : EditVdev(e, keep, more, differ)

Spec == Init /\ [][Next]_vars

-------------------------------------------------------------------------------
(* Properties. *)

TpsEntry(t) == t = NoTps \/ \E D \in (SUBSET Ids) \ {{}} : t \in [D -> Points]

\* The state is well-formed; in particular an entry of turn points is never left
\* empty (build_connections would then draw no leg and the link could not be seen).
TypeOK == /\ devs \subseteq Ends /\ loc \subseteq Ends /\ undrawn \subseteq drawn
          /\ ports \subseteq Ends /\ listed \subseteq ports
          /\ known \in BOOLEAN /\ asked \in BOOLEAN /\ adrift \in BOOLEAN
          /\ edit \in [dev : Ends, had : BOOLEAN, differ : BOOLEAN] \cup {NoEdit}
          /\ TpsEntry(tps) /\ TpsEntry(stored)
          /\ conn = NoConn \/ conn \in [from_dev : Ends, legs : SUBSET Points]

\* The i-th stop of the line through the points s[1], ..., s[n].
Stop(s, n, i) == IF i = 0 THEN EndA ELSE IF i = n + 1 THEN EndB ELSE s[i]

\* The record p has the neighbours x and y, devices or points.
Joins(p, x, y) ==
  \/ x \in Ends /\ y \in Ends /\ p \in {DevDev(x, y), DevDev(y, x)}
  \/ x \in Ends /\ y \in Ids /\ p = DevTp(x, y)
  \/ x \in Ids /\ y \in Ends /\ p = DevTp(y, x)
  \/ x \in Ids /\ y \in Ids /\ p \in {TpTp(x, y), TpTp(y, x)}

\* The points of t form one line from EndA to EndB, in the order of s.
Line(t, s, n) ==
  /\ \A x \in DOMAIN t : \E i \in 1..n : s[i] = x
  /\ \A i, j \in 1..n : s[i] = s[j] => i = j
  /\ \A i \in 1..n : Joins(t[s[i]], Stop(s, n, i - 1), Stop(s, n, i + 1))

OneLine(t) == t = NoTps \/ LET n == Cardinality(DOMAIN t)
                           IN  \E s \in [1..n -> DOMAIN t] : Line(t, s, n)

\* However points are added and removed, the records of a link form one line from
\* device to device that visits every point once: no branch, no loop, no lost point.
\* So does what the broker has to give to the next page.
TpsAreOneLine == OneLine(tps) /\ OneLine(stored)

\* The checks remove_tp and new_tp make before they change the records never fail:
\* the page never reports a corrupted turn point database or an invalid leg type.
EditsNeverRefused == /\ tps # NoTps => \A i \in DOMAIN tps : ~Corrupted(tps, i)
                     /\ conn # NoConn => \A leg \in conn.legs : ~InvalidLeg(tps, leg)

\* The legs on the screen are those of the records: no click finds a leg of an
\* earlier line, and the legs are one more than the points.
LegsAreFresh == conn # NoConn =>
                  /\ conn.legs = LegsOf(tps, conn.from_dev)
                  /\ Cardinality(conn.legs) = 1 + (IF tps = NoTps THEN 0 ELSE Cardinality(DOMAIN tps))

\* A link with turn points is drawn to each of its devices from the one point that
\* names the device: arrange_interfaces_dev2tp, which asks for it when the connection
\* has several legs, finds it ("Turnpoint not found", "Turnpoint error" never come up).
EndsReachALine ==
  conn # NoConn /\ tps # NoTps =>
    \A e \in Ends : \E leg \in conn.legs :
      /\ \A l \in conn.legs : l.type = "devtp" /\ l.from_dev = e <=> l = leg
      /\ leg.to_tp \in DOMAIN tps /\ tps[leg.to_tp].type # "tptp"

\* What is drawn is what the page knows: a connection only between two devices on the
\* map that a known link joins, port to port (else draw_connection reports undefined
\* elements), and no link that could be drawn is missing on the screen.  A port may be
\* missing until the save_vdev that took it away is answered, and from then on when that
\* save failed or when the link was saved without the port; a link may be missing while
\* the record of a device has a port that was not laid out.
DrawnIsKnown ==
  /\ conn # NoConn => known /\ Ends \subseteq drawn
  /\ conn # NoConn /\ ~adrift => Ends \subseteq ports \cup {edit.dev}
  /\ conn = NoConn /\ undrawn = {} => NoConn \in Connections(devs, known, listed, loc, tps)

-------------------------------------------------------------------------------
\* The points in the order they are met on the way from EndA.
PathOf(t) == IF t = NoTps THEN <<>>
             ELSE LET n == Cardinality(DOMAIN t)
                  IN  CHOOSE s \in [1..n -> DOMAIN t] : Line(t, s, n)

Abstract == INSTANCE LinkPath WITH path <- PathOf(tps), saved <- PathOf(stored)

\* Each edit of the records is an edit of the line: a point is put in at one place
\* or taken out, and the others keep their order; what is loaded is what was saved.
ImplementsLinkPath == Abstract!Spec
===============================================================================
