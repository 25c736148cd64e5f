--------------------------- MODULE L2LinksProofs ---------------------------
(***************************************************************************)
(* For any set of devices, interfaces and cables: the link maps keep their *)
(* types, every link is known to, indexed under and listed by the devices  *)
(* it joins, no list or index names a link that is gone, and the status of *)
(* a link is that of both its ends.                                        *)
(*                                                                         *)
(* The first three are proved together, operator by operator: each of the  *)
(* two halves of processLinks, and wipe_dev, takes a consistent store to a *)
(* consistent store.  The status follows in a second pass over them.       *)
(***************************************************************************)
EXTENDS L2Links, TLAPS

\* What the operators need of the store they are given and preserve.
ConsistentStore(S) == S \in Store /\ LinkIntegrityOf(S) /\ NoDanglingIdOf(S)

\* The rows of a record are on its existing interfaces and name possible cables.
GoodRows(d, dev) ==
    dev.nei \subseteq ReportsOf(d) /\ \A r \in dev.nei : dev.ifs[r[1]] # "absent"

AllGoodRows(D) == \A d \in DevId : D[d] # NoDev => GoodRows(d, D[d])

\* The second startup pass only visits known devices.
VisitsKnown == phase = "relink" => \A d \in todo : devs[d] # NoDev

IInv ==
    /\ ConsistentStore(Cur)
    /\ AllGoodRows(devs)
    /\ VisitsKnown
    /\ phase \in {"load", "relink", "run"} /\ todo \in SUBSET DevId

\* A link id holds exactly the two ends that l2l_key was given.
LEMMA KeyEnds ==
    ASSUME NEW p, NEW q, NEW r, NEW s, l2l_key(p, q) = l2l_key(r, s)
    PROVE  (p = r /\ q = s) \/ (p = s /\ q = r)
  BY DEF l2l_key

\* The ends of a cable are ports.
LEMMA CablePorts ==
    ASSUME NEW l \in Cables, NEW p \in l
    PROVE  p \in Port /\ p[1] \in DevId /\ p[2] \in IfName
  BY CablesAssumption DEF LinkId, l2l_key, Port

---------------------------------------------------------------------------
(* wipe_dev                                                                *)

\* wipe_dev of any device leaves a consistent store.
LEMMA WipedConsistent ==
    ASSUME NEW S, ConsistentStore(S), NEW d \in DevId
    PROVE  ConsistentStore(Wiped(S, d))
  <1> DEFINE T == Wiped(S, d)
             gone == {l \in S.refs[d] : S.links[l] # NoLink}
  <1>0. S \in Store /\ LinkIntegrityOf(S) /\ NoDanglingIdOf(S)
    BY DEF ConsistentStore
  <1>f. /\ \A x \in DevId : T.devs[x] = IF x = d THEN NoDev ELSE S.devs[x]
        /\ \A p \in Port : T.lists[p] = IF p[1] = d THEN {}
                           ELSE S.lists[p] \ {m \in gone : NeiLeg(S.links[m], d) = p}
        /\ \A l \in Cables : T.links[l] = IF l \in S.refs[d] THEN NoLink ELSE S.links[l]
        /\ \A x \in DevId : T.refs[x] = IF x = d THEN {}
                           ELSE S.refs[x] \ {m \in gone : NeiLeg(S.links[m], d)[1] = x}
    BY DEF Wiped
  <1>1. T \in Store
    BY <1>0 DEF Wiped, Store
  \* A link that survives is not indexed under d, so it does not end at d.
  <1>2. LinkIntegrityOf(T)
    <2> SUFFICES ASSUME NEW l \in Cables, T.links[l] # NoLink
                 PROVE  /\ {T.links[l].leg0, T.links[l].leg1} = l
                        /\ T.links[l].creator = T.links[l].leg0[1]
                        /\ \A p \in l : T.devs[p[1]] # NoDev /\ l \in T.refs[p[1]]
                        /\ IF Loop(l) THEN \E p \in l : l \in T.lists[p]
                           ELSE \A p \in l : /\ T.devs[p[1]].ifs[p[2]] # "absent"
                                             /\ l \in T.lists[p]
      BY DEF LinkIntegrityOf
    <2>1. l \notin S.refs[d] /\ T.links[l] = S.links[l] /\ S.links[l] # NoLink
      BY <1>f
    <2>2. /\ {S.links[l].leg0, S.links[l].leg1} = l
          /\ S.links[l].creator = S.links[l].leg0[1]
          /\ \A p \in l : S.devs[p[1]] # NoDev /\ l \in S.refs[p[1]]
          /\ IF Loop(l) THEN \E p \in l : l \in S.lists[p]
             ELSE \A p \in l : S.devs[p[1]].ifs[p[2]] # "absent" /\ l \in S.lists[p]
      BY <1>0, <2>1 DEF LinkIntegrityOf
    <2>3. \A p \in l : p \in Port /\ p[1] \in DevId
      BY CablePorts
    <2>4. \A p \in l : p[1] # d /\ T.devs[p[1]] = S.devs[p[1]] /\ l \in T.refs[p[1]]
      <3> SUFFICES ASSUME NEW p \in l
                   PROVE  p[1] # d /\ T.devs[p[1]] = S.devs[p[1]] /\ l \in T.refs[p[1]]
        OBVIOUS
      <3>1. p[1] # d /\ l \in S.refs[p[1]] /\ l \notin gone
        BY <2>1, <2>2
      <3>2. T.refs[p[1]] = S.refs[p[1]] \ {m \in gone : NeiLeg(S.links[m], d)[1] = p[1]}
        BY <1>f, <2>3, <3>1
      <3>3. l \in T.refs[p[1]]
        <4> HIDE DEF gone
        <4> QED BY <3>1, <3>2
      <3>4. T.devs[p[1]] = S.devs[p[1]]
        BY <1>f, <2>3, <3>1
      <3>5. QED BY <3>1, <3>3, <3>4
    <2>5. \A p \in l : l \in S.lists[p] => l \in T.lists[p]
      BY <1>f, <2>1, <2>3, <2>4
    <2>6. QED BY <2>1, <2>2, <2>4, <2>5
  \* A link that goes is taken off the only end of it that is not d's.
  <1>3. ASSUME NEW l \in Cables, l \in S.refs[d]
        PROVE  /\ l \in gone
               /\ \A p \in l : p[1] # d => NeiLeg(S.links[l], d) = p
    <2>1. S.links[l] # NoLink /\ d \in EndDevs(l)
      BY <1>0, <1>3 DEF NoDanglingIdOf
    <2>2. /\ {S.links[l].leg0, S.links[l].leg1} = l
          /\ S.links[l].creator = S.links[l].leg0[1]
      BY <1>0, <2>1 DEF LinkIntegrityOf
    <2>3. S.links[l].leg0[1] = d \/ S.links[l].leg1[1] = d
      BY <2>1, <2>2 DEF EndDevs
    <2>4. l \in gone
      BY <1>3, <2>1
    <2>5. ASSUME NEW p \in l, p[1] # d PROVE NeiLeg(S.links[l], d) = p
      <3>1. p = S.links[l].leg0 \/ p = S.links[l].leg1
        BY <2>2
      <3>2. CASE p = S.links[l].leg0
        BY <2>2, <2>3, <2>5, <3>2 DEF NeiLeg
      <3>3. CASE p = S.links[l].leg1
        BY <2>2, <2>3, <2>5, <3>3 DEF NeiLeg
      <3>4. QED BY <3>1, <3>2, <3>3
    <2>6. QED BY <2>4, <2>5
  <1>4. NoDanglingIdOf(T)
    <2>1. ASSUME NEW x \in DevId, NEW l \in T.refs[x]
          PROVE  T.links[l] # NoLink /\ x \in EndDevs(l)
      <3>1. x # d /\ l \in S.refs[x] /\ l \in Cables
        <4>1. x # d /\ l \in S.refs[x]
          <5> HIDE DEF gone
          <5> QED BY <1>f, <2>1
        <4>2. S.refs[x] \subseteq Cables
          BY <1>0 DEF Store
        <4>3. QED BY <4>1, <4>2
      <3>2. S.links[l] # NoLink /\ x \in EndDevs(l)
        BY <1>0, <3>1 DEF NoDanglingIdOf
      <3>3. PICK p \in l : p[1] = x
        BY <3>2 DEF EndDevs
      <3>4. ASSUME l \in S.refs[d] PROVE FALSE
        <4>1. l \in gone /\ NeiLeg(S.links[l], d) = p
          BY <1>3, <3>1, <3>3, <3>4
        <4>2. l \in {m \in gone : NeiLeg(S.links[m], d)[1] = x}
          BY <3>3, <4>1
        <4>3. l \notin T.refs[x]
          BY <1>f, <3>1, <4>2
        <4>4. QED BY <2>1, <4>3
      <3>5. QED BY <1>f, <3>1, <3>2, <3>4
    <2>2. ASSUME NEW p \in Port, NEW l \in T.lists[p]
          PROVE  T.links[l] # NoLink /\ p \in l
      <3>1. p[1] # d /\ l \in S.lists[p] /\ l \in Cables
        BY <1>0, <1>f, <2>2 DEF Store
      <3>2. S.links[l] # NoLink /\ p \in l
        BY <1>0, <3>1 DEF NoDanglingIdOf
      <3>3. ASSUME l \in S.refs[d] PROVE FALSE
        <4>1. l \in gone /\ NeiLeg(S.links[l], d) = p
          BY <1>3, <3>1, <3>2, <3>3
        <4>2. l \in {m \in gone : NeiLeg(S.links[m], d) = p}
          BY <4>1
        <4>3. l \notin T.lists[p]
          BY <1>f, <3>1, <4>2
        <4>4. QED BY <2>2, <4>3
      <3>4. QED BY <1>f, <3>1, <3>2, <3>3
    <2>3. QED BY <2>1, <2>2 DEF NoDanglingIdOf
  <1>5. QED BY <1>1, <1>2, <1>4 DEF ConsistentStore

---------------------------------------------------------------------------
(* processLinks                                                            *)

\* The store between the two halves of processLinks for d: the links in old are
\* undecided, every other link is already where it should be, with own as the
\* lists of the new record of d.
Midway(S, d, dev, own, old) ==
    /\ S \in Store
    /\ dev \in DevRec
    /\ own \in [Port -> SUBSET Cables]
    /\ old \in SUBSET Cables
    /\ \A l \in old : S.links[l] # NoLink
    /\ \A l \in Cables : S.links[l] # NoLink =>
         /\ {S.links[l].leg0, S.links[l].leg1} = l
         /\ S.links[l].creator = S.links[l].leg0[1]
         /\ \A p \in l : (p[1] # d => S.devs[p[1]] # NoDev) /\ l \in S.refs[p[1]]
         /\ l \notin old =>
              IF Loop(l)
              THEN \E p \in l : l \in (IF p[1] = d THEN own[p] ELSE S.lists[p])
              ELSE \A p \in l : /\ RecOf(S, d, dev, p[1]).ifs[p[2]] # "absent"
                                /\ l \in (IF p[1] = d THEN own[p] ELSE S.lists[p])
    /\ \A x \in DevId : \A l \in S.refs[x] : S.links[l] # NoLink /\ x \in EndDevs(l)
    /\ \A p \in Port : \A l \in (IF p[1] = d THEN own[p] ELSE S.lists[p]) :
         S.links[l] # NoLink /\ p \in l

\* The second half decides the undecided links one way or the other and leaves
\* a consistent store.
LEMMA CarriedOverConsistent ==
    ASSUME NEW S, NEW d \in DevId, NEW dev, NEW own, NEW old, Midway(S, d, dev, own, old)
    PROVE  ConsistentStore(CarriedOver(S, d, dev, own, old))
  <1> DEFINE T == CarriedOver(S, d, dev, own, old)
             kept == {l \in old : Keeps(S, d, dev, l)}
             lost == old \ kept
             ends(l) == {S.links[l].leg0, S.links[l].leg1}
             list(p) == IF p[1] = d THEN own[p] ELSE S.lists[p]
  <1>t. /\ S \in Store /\ dev \in DevRec /\ own \in [Port -> SUBSET Cables]
        /\ old \in SUBSET Cables
    BY DEF Midway
  <1>o. \A l \in old : S.links[l] # NoLink
    BY DEF Midway
  <1>e. \A l \in Cables : S.links[l] # NoLink =>
          /\ ends(l) = l
          /\ S.links[l].creator = S.links[l].leg0[1]
          /\ \A p \in l : (p[1] # d => S.devs[p[1]] # NoDev) /\ l \in S.refs[p[1]]
    BY DEF Midway
  <1>n. \A l \in Cables : S.links[l] # NoLink /\ l \notin old =>
          IF Loop(l) THEN \E p \in l : l \in list(p)
          ELSE \A p \in l : RecOf(S, d, dev, p[1]).ifs[p[2]] # "absent" /\ l \in list(p)
    BY DEF Midway
  <1>r. \A x \in DevId : \A l \in S.refs[x] : S.links[l] # NoLink /\ x \in EndDevs(l)
    BY DEF Midway
  <1>l. \A p \in Port : \A l \in list(p) : S.links[l] # NoLink /\ p \in l
    BY DEF Midway
  <1>1. /\ T.devs = [S.devs EXCEPT ![d] = dev]
        /\ T.lists = [p \in Port |-> (list(p) \ {m \in lost : p \in ends(m)})
                                      \union {m \in kept : p \in ends(m)}]
        /\ T.links = [l \in Cables |->
                        IF l \in lost THEN NoLink
                        ELSE IF l \in kept
                          THEN [S.links[l] EXCEPT !.status = KeptStatus(S, d, dev, l)]
                        ELSE S.links[l]]
        /\ T.refs = [x \in DevId |->
                       (S.refs[x] \ {m \in lost : \E p \in ends(m) : p[1] = x})
                          \union {m \in kept : \E p \in ends(m) : p[1] = x}]
    BY DEF CarriedOver
  <1>2. T \in Store
    <2>1. T.devs \in [DevId -> DevRec \union {NoDev}]
      BY <1>1, <1>t DEF Store
    <2>2. T.lists \in [Port -> SUBSET Cables]
      <3>1. \A p \in Port : list(p) \subseteq Cables
        BY <1>t DEF Store
      <3>2. lost \subseteq Cables /\ kept \subseteq Cables
        BY <1>t
      <3>3. QED BY <1>1, <3>1, <3>2
    <2>3. ASSUME NEW l \in kept
          PROVE  [S.links[l] EXCEPT !.status = KeptStatus(S, d, dev, l)] \in LinkRec
      <3>1. S.links[l] \in LinkRec
        BY <1>t, <1>o DEF Store
      <3>2. KeptStatus(S, d, dev, l) \in {1, 2}
        BY DEF KeptStatus
      <3>3. QED BY <3>1, <3>2 DEF LinkRec
    <2>4. T.links \in [Cables -> LinkRec \union {NoLink}]
      BY <1>1, <1>t, <2>3 DEF Store
    <2>5. T.refs \in [DevId -> SUBSET Cables]
      BY <1>1, <1>t DEF Store
    <2>6. T = [devs |-> T.devs, lists |-> T.lists, links |-> T.links, refs |-> T.refs]
      BY DEF CarriedOver
    <2>7. QED BY <2>1, <2>2, <2>4, <2>5, <2>6 DEF Store
  <1>3. ASSUME NEW l \in Cables, T.links[l] # NoLink
        PROVE  /\ l \notin lost /\ S.links[l] # NoLink
               /\ T.links[l].leg0 = S.links[l].leg0
               /\ T.links[l].leg1 = S.links[l].leg1
               /\ T.links[l].creator = S.links[l].creator
    <2>1. l \notin lost
      BY <1>1, <1>3
    <2>2. S.links[l] # NoLink
      BY <1>1, <1>3, <1>o, <2>1
    <2>3. S.links[l] \in LinkRec
      BY <1>t, <2>2 DEF Store
    <2>4. CASE l \in kept
      <3>1. T.links[l] = [S.links[l] EXCEPT !.status = KeptStatus(S, d, dev, l)]
        BY <1>1, <2>1, <2>4
      <3>2. QED BY <2>1, <2>2, <2>3, <3>1 DEF LinkRec
    <2>5. CASE l \notin kept
      BY <1>1, <2>1, <2>2, <2>5
    <2>6. QED BY <2>4, <2>5
  <1>4. LinkIntegrityOf(T)
    <2> SUFFICES ASSUME NEW l \in Cables, T.links[l] # NoLink
                 PROVE  /\ {T.links[l].leg0, T.links[l].leg1} = l
                        /\ T.links[l].creator = T.links[l].leg0[1]
                        /\ \A p \in l : T.devs[p[1]] # NoDev /\ l \in T.refs[p[1]]
                        /\ IF Loop(l) THEN \E p \in l : l \in T.lists[p]
                           ELSE \A p \in l : /\ T.devs[p[1]].ifs[p[2]] # "absent"
                                             /\ l \in T.lists[p]
      BY DEF LinkIntegrityOf
    <2>1. /\ l \notin lost /\ S.links[l] # NoLink
          /\ T.links[l].leg0 = S.links[l].leg0
          /\ T.links[l].leg1 = S.links[l].leg1
          /\ T.links[l].creator = S.links[l].creator
      BY <1>3
    <2>2. ends(l) = l /\ S.links[l].creator = S.links[l].leg0[1]
      BY <1>e, <2>1
    <2>3. \A p \in l : p \in Port /\ p[1] \in DevId
      BY CablePorts
    <2>4. \A p \in l : T.devs[p[1]] # NoDev /\ T.devs[p[1]] = RecOf(S, d, dev, p[1])
      BY <1>1, <1>t, <1>e, <2>1, <2>3, NoDevAssumption DEF RecOf, Store
    <2>5. \A p \in l : l \in T.refs[p[1]]
      BY <1>1, <1>e, <2>1, <2>3
    <2>6. \A p \in l : l \in list(p) => l \in T.lists[p]
      BY <1>1, <2>1, <2>3
    <2>7. CASE l \in kept
      <3>1. \A p \in l : l \in T.lists[p]
        BY <1>1, <2>2, <2>3, <2>7
      <3>2. \A p \in l : T.devs[p[1]].ifs[p[2]] # "absent"
        BY <2>2, <2>4, <2>7 DEF Keeps
      <3>3. \E p \in l : TRUE
        BY <2>2
      <3>4. QED BY <2>1, <2>2, <2>4, <2>5, <3>1, <3>2, <3>3
    <2>8. CASE l \notin kept
      <3>1. IF Loop(l) THEN \E p \in l : l \in list(p)
            ELSE \A p \in l : RecOf(S, d, dev, p[1]).ifs[p[2]] # "absent" /\ l \in list(p)
        BY <1>n, <2>1, <2>8
      <3>2. QED BY <2>1, <2>2, <2>4, <2>5, <2>6, <3>1
    <2>9. QED BY <2>7, <2>8
  \* A link that is not lost is still there.
  <1>5. ASSUME NEW l \in Cables, S.links[l] # NoLink, l \notin lost
        PROVE  T.links[l] # NoLink
    <2>1. CASE l \in kept
      <3>1. T.links[l] = [S.links[l] EXCEPT !.status = KeptStatus(S, d, dev, l)]
        BY <1>1, <1>5, <2>1
      <3>2. S.links[l] \in LinkRec /\ KeptStatus(S, d, dev, l) \in {1, 2}
        BY <1>t, <1>5 DEF Store, KeptStatus
      <3>3. T.links[l] \in LinkRec
        BY <3>1, <3>2 DEF LinkRec
      <3>4. QED BY <3>3, NoLinkAssumption
    <2>2. CASE l \notin kept
      BY <1>1, <1>5, <2>2
    <2>3. QED BY <2>1, <2>2
  <1>6. NoDanglingIdOf(T)
    <2>1. ASSUME NEW x \in DevId, NEW l \in T.refs[x]
          PROVE  T.links[l] # NoLink /\ x \in EndDevs(l)
      <3>1. l \in Cables
        BY <1>2, <2>1 DEF Store
      <3>2. CASE l \in kept
        <4>1. l \in old /\ l \notin lost /\ S.links[l] # NoLink /\ ends(l) = l
          BY <1>o, <1>e, <3>1, <3>2
        <4>2. \A m \in kept : \A y \in DevId :
                 m \in S.refs[y] => y \in EndDevs(m)
          BY <1>r
        <4>3. x \in EndDevs(l)
          BY <1>1, <2>1, <4>1, <4>2, <3>2 DEF EndDevs
        <4>4. QED BY <1>5, <3>1, <4>1, <4>3
      <3>3. CASE l \notin kept
        <4>1. l \in S.refs[x] /\ ~(l \in lost /\ \E p \in ends(l) : p[1] = x)
          BY <1>1, <2>1, <3>3
        <4>2. S.links[l] # NoLink /\ x \in EndDevs(l)
          BY <1>r, <4>1
        <4>3. l \notin lost
          BY <1>e, <3>1, <4>1, <4>2 DEF EndDevs
        <4>4. QED BY <1>5, <3>1, <4>2, <4>3
      <3>4. QED BY <3>2, <3>3
    <2>2. ASSUME NEW p \in Port, NEW l \in T.lists[p]
          PROVE  T.links[l] # NoLink /\ p \in l
      <3>1. l \in Cables
        BY <1>2, <2>2 DEF Store
      <3>2. CASE l \in kept /\ p \in ends(l)
        <4>1. l \in old /\ l \notin lost /\ S.links[l] # NoLink /\ ends(l) = l
          BY <1>o, <1>e, <3>1, <3>2
        <4>2. QED BY <1>5, <3>1, <3>2, <4>1
      <3>3. CASE ~(l \in kept /\ p \in ends(l))
        <4>1. l \in list(p) /\ ~(l \in lost /\ p \in ends(l))
          BY <1>1, <2>2, <3>3
        <4>2. S.links[l] # NoLink /\ p \in l
          BY <1>l, <4>1
        <4>3. l \notin lost
          BY <1>e, <3>1, <4>1, <4>2
        <4>4. QED BY <1>5, <3>1, <4>2, <4>3
      <3>4. QED BY <3>2, <3>3
    <2>3. QED BY <2>1, <2>2 DEF NoDanglingIdOf
  <1>7. QED BY <1>2, <1>4, <1>6 DEF ConsistentStore

\* What the first half does with the links it reports: each joins an existing
\* interface of d to a known one, in the index and on both lists.
LEMMA SeenFacts ==
    ASSUME NEW S, S \in Store, NEW d \in DevId, NEW dev \in DevRec, GoodRows(d, dev),
           NEW row \in RowChoices(S, d, dev), NEW l \in SeenLinks(S, d, dev)
    PROVE  LET T == Discovered(S, d, dev, row)
               r == row[l]
           IN  /\ l \in Cables
               /\ r \in Report /\ r[1] \in IfName /\ r[2] \in Port
               /\ l = {<<d, r[1]>>, r[2]}
               /\ dev.ifs[r[1]] # "absent"
               /\ S.devs[r[2][1]] # NoDev /\ S.devs[r[2][1]].ifs[r[2][2]] # "absent"
               /\ T.links[l] = NewLink(S, d, dev, r)
               /\ \A p \in l : l \in T.refs[p[1]]
               /\ l \in T.lists[r[2]]
               /\ l \in OwnLists(S, d, dev)[<<d, r[1]>>]
  <1> DEFINE T == Discovered(S, d, dev, row)
             r == row[l]
  <1>1. r \in Resolved(S, d, dev) /\ KeyOf(d, r) = l
    BY DEF RowChoices
  <1>2. r \in dev.nei /\ S.devs[r[2][1]] # NoDev /\ S.devs[r[2][1]].ifs[r[2][2]] # "absent"
    BY <1>1 DEF Resolved
  <1>3. r \in Report /\ r[1] \in IfName /\ r[2] \in Port /\ l \in Cables
    BY <1>1, <1>2 DEF GoodRows, ReportsOf, Report
  <1>4. l = {<<d, r[1]>>, r[2]}
    BY <1>1 DEF KeyOf, l2l_key
  <1>5. dev.ifs[r[1]] # "absent"
    BY <1>2 DEF GoodRows
  <1>6. T.links[l] = NewLink(S, d, dev, r)
    BY <1>3 DEF Discovered
  <1>7. ASSUME NEW p \in l PROVE l \in T.refs[p[1]]
    <2>1. p[1] \in DevId
      BY <1>3, CablePorts
    <2>2. QED BY <2>1 DEF Discovered, EndDevs
  <1>8. l \in T.lists[r[2]]
    BY <1>1, <1>3 DEF Discovered
  <1>9. l \in OwnLists(S, d, dev)[<<d, r[1]>>]
    <2>1. <<d, r[1]>> \in Port
      BY <1>3 DEF Port
    <2>2. QED BY <1>1, <2>1 DEF OwnLists
  <1>10. QED BY <1>2, <1>3, <1>4, <1>5, <1>6, <1>7, <1>8, <1>9

\* Every id the first half puts on a list or keeps in the index is a seen link
\* that ends there, or was there before.
LEMMA DiscoveredNames ==
    ASSUME NEW S, ConsistentStore(S), NEW d \in DevId, NEW dev \in DevRec, GoodRows(d, dev),
           NEW row \in RowChoices(S, d, dev)
    PROVE  LET T == Discovered(S, d, dev, row)
               seen == SeenLinks(S, d, dev)
               own == OwnLists(S, d, dev)
           IN  /\ seen \subseteq Cables
               /\ \A l \in Cables : l \notin seen => T.links[l] = S.links[l]
               /\ \A l \in seen : T.links[l] # NoLink
               /\ T \in Store /\ own \in [Port -> SUBSET Cables]
               /\ \A p \in Port : \A l \in own[p] : l \in seen /\ p \in l
               /\ \A p \in Port : \A l \in T.lists[p] : T.links[l] # NoLink /\ p \in l
               /\ \A x \in DevId : \A l \in T.refs[x] : T.links[l] # NoLink /\ x \in EndDevs(l)
               /\ \A p \in Port : S.lists[p] \subseteq T.lists[p]
               /\ \A x \in DevId : S.refs[x] \subseteq T.refs[x]
               /\ T.devs = S.devs
  <1> DEFINE T == Discovered(S, d, dev, row)
             seen == SeenLinks(S, d, dev)
             own == OwnLists(S, d, dev)
  <1>s. S \in Store /\ LinkIntegrityOf(S) /\ NoDanglingIdOf(S)
    BY DEF ConsistentStore
  <1>f. /\ T.devs = S.devs
        /\ T.lists = [p \in Port |-> S.lists[p] \union
                        {KeyOf(d, r) : r \in {q \in Resolved(S, d, dev) : q[2] = p}}]
        /\ T.links = [l \in Cables |-> IF l \in seen THEN NewLink(S, d, dev, row[l])
                                                     ELSE S.links[l]]
        /\ T.refs = [x \in DevId |-> S.refs[x] \union {l \in seen : x \in EndDevs(l)}]
    BY DEF Discovered
  <1>1. \A r \in Resolved(S, d, dev) : /\ r \in Report /\ KeyOf(d, r) \in Cables
                                       /\ KeyOf(d, r) = {<<d, r[1]>>, r[2]}
                                       /\ KeyOf(d, r) \in seen
    BY DEF Resolved, GoodRows, ReportsOf, KeyOf, l2l_key, SeenLinks
  <1>2. seen \subseteq Cables
    BY <1>1 DEF SeenLinks
  <1>3. \A l \in Cables : l \notin seen => T.links[l] = S.links[l]
    BY <1>f
  <1>4. ASSUME NEW l \in seen PROVE T.links[l] \in LinkRec
    <2> DEFINE r == row[l]
    <2>1. /\ r \in Report /\ r[1] \in IfName /\ r[2] \in Port
          /\ T.links[l] = NewLink(S, d, dev, r)
          /\ l \in T.lists[r[2]]
          /\ l \in own[<<d, r[1]>>]
      BY <1>s, <1>4, SeenFacts
    <2>2. <<d, row[l][1]>> \in Port /\ row[l][2] \in Port
      BY <2>1 DEF Report, Port
    <2>3. dev.seen \in Seen
      BY DEF DevRec
    <2>4. QED BY <2>1, <2>2, <2>3 DEF NewLink, LinkRec
  <1>5. \A l \in seen : T.links[l] # NoLink
    BY <1>4, NoLinkAssumption
  <1>6. own \in [Port -> SUBSET Cables] /\ \A p \in Port : \A l \in own[p] : l \in seen /\ p \in l
    BY <1>1 DEF OwnLists
  <1>7. T \in Store
    <2>1. T.lists \in [Port -> SUBSET Cables]
      BY <1>s, <1>f, <1>1 DEF Store
    <2>2. T.links \in [Cables -> LinkRec \union {NoLink}]
      BY <1>s, <1>f, <1>4 DEF Store
    <2>3. T.refs \in [DevId -> SUBSET Cables]
      BY <1>s, <1>f, <1>2 DEF Store
    <2>4. T.devs \in [DevId -> DevRec \union {NoDev}]
      BY <1>s, <1>f DEF Store
    <2>5. T = [devs |-> T.devs, lists |-> T.lists, links |-> T.links, refs |-> T.refs]
      BY DEF Discovered
    <2>6. QED BY <2>1, <2>2, <2>3, <2>4, <2>5 DEF Store
  <1>8. ASSUME NEW p \in Port, NEW l \in T.lists[p]
        PROVE  T.links[l] # NoLink /\ p \in l
    <2>1. CASE l \in S.lists[p]
      <3>1. l \in Cables /\ S.links[l] # NoLink /\ p \in l
        BY <1>s, <2>1 DEF NoDanglingIdOf, Store
      <3>2. QED BY <1>3, <1>5, <3>1
    <2>2. CASE l \notin S.lists[p]
      <3>1. l \in seen /\ p \in l
        BY <1>f, <1>1, <1>8, <2>2
      <3>2. QED BY <1>5, <3>1
    <2>3. QED BY <2>1, <2>2
  <1>9. ASSUME NEW x \in DevId, NEW l \in T.refs[x]
        PROVE  T.links[l] # NoLink /\ x \in EndDevs(l)
    <2>1. CASE l \in S.refs[x]
      <3>1. l \in Cables /\ S.links[l] # NoLink /\ x \in EndDevs(l)
        BY <1>s, <2>1 DEF NoDanglingIdOf, Store
      <3>2. QED BY <1>3, <1>5, <3>1
    <2>2. CASE l \notin S.refs[x]
      <3>1. l \in seen /\ x \in EndDevs(l)
        BY <1>f, <1>9, <2>2
      <3>2. QED BY <1>5, <3>1
    <2>3. QED BY <2>1, <2>2
  <1>10. /\ \A p \in Port : S.lists[p] \subseteq T.lists[p]
         /\ \A x \in DevId : S.refs[x] \subseteq T.refs[x]
    BY <1>f
  <1>11. QED BY <1>2, <1>3, <1>5, <1>6, <1>7, <1>8, <1>9, <1>10, <1>f

\* A live report leaves the links of the previous run of d, and nothing else,
\* undecided between the two halves.
LEMMA ProcessedConsistent ==
    ASSUME NEW S, ConsistentStore(S), NEW d \in DevId, NEW dev \in DevRec, GoodRows(d, dev),
           NEW row \in RowChoices(S, d, dev)
    PROVE  ConsistentStore(Processed(S, d, dev, row))
  <1> DEFINE T == Discovered(S, d, dev, row)
             seen == SeenLinks(S, d, dev)
             own == OwnLists(S, d, dev)
             old == Carried(T, d, seen)
  <1>s. S \in Store /\ LinkIntegrityOf(S) /\ NoDanglingIdOf(S)
    BY DEF ConsistentStore
  <1>n. /\ seen \subseteq Cables
        /\ \A l \in Cables : l \notin seen => T.links[l] = S.links[l]
        /\ \A l \in seen : T.links[l] # NoLink
        /\ T \in Store /\ own \in [Port -> SUBSET Cables]
        /\ \A p \in Port : \A l \in own[p] : l \in seen /\ p \in l
        /\ \A p \in Port : \A l \in T.lists[p] : T.links[l] # NoLink /\ p \in l
        /\ \A x \in DevId : \A l \in T.refs[x] : T.links[l] # NoLink /\ x \in EndDevs(l)
        /\ \A p \in Port : S.lists[p] \subseteq T.lists[p]
        /\ \A x \in DevId : S.refs[x] \subseteq T.refs[x]
        /\ T.devs = S.devs
    BY DiscoveredNames
  <1>1. \A l \in old : l \in Cables /\ l \notin seen /\ T.links[l] # NoLink
    <2>1. \A i \in IfName : <<d, i>> \in Port
      BY DEF Port
    <2>2. \A i \in IfName : T.lists[<<d, i>>] \subseteq Cables
      BY <1>n, <2>1 DEF Store
    <2>3. \A l \in old : (\E i \in IfName : l \in T.lists[<<d, i>>]) /\ l \notin seen
                          /\ T.links[l] # NoLink
      BY DEF Carried
    <2>4. QED BY <2>2, <2>3
  <1>2. ASSUME NEW l \in Cables, T.links[l] # NoLink
        PROVE  /\ {T.links[l].leg0, T.links[l].leg1} = l
               /\ T.links[l].creator = T.links[l].leg0[1]
               /\ \A p \in l : (p[1] # d => T.devs[p[1]] # NoDev) /\ l \in T.refs[p[1]]
               /\ l \notin old =>
                    IF Loop(l)
                    THEN \E p \in l : l \in (IF p[1] = d THEN own[p] ELSE T.lists[p])
                    ELSE \A p \in l : /\ RecOf(T, d, dev, p[1]).ifs[p[2]] # "absent"
                                      /\ l \in (IF p[1] = d THEN own[p] ELSE T.lists[p])
    <2>1. CASE l \in seen
      <3> DEFINE r == row[l]
      <3>1. /\ r \in Report /\ r[1] \in IfName /\ r[2] \in Port
            /\ l = {<<d, r[1]>>, r[2]}
            /\ dev.ifs[r[1]] # "absent"
            /\ S.devs[r[2][1]] # NoDev /\ S.devs[r[2][1]].ifs[r[2][2]] # "absent"
            /\ T.links[l] = NewLink(S, d, dev, r)
            /\ \A p \in l : l \in T.refs[p[1]]
            /\ l \in T.lists[r[2]]
            /\ l \in own[<<d, r[1]>>]
        BY <1>s, <2>1, SeenFacts, SMTT(30)
      <3>2. /\ T.links[l].leg0 = <<d, r[1]>> /\ T.links[l].leg1 = r[2]
            /\ T.links[l].creator = d
        BY <3>1 DEF NewLink
      <3>3. \A p \in l : p[1] # d => p = r[2]
        BY <3>1
      <3>4. CASE Loop(l)
        BY <1>n, <3>1, <3>2, <3>3, <3>4
      <3>5. CASE ~Loop(l)
        <4>1. r[2][1] # d
          BY <3>1, <3>5 DEF Loop
        <4>2. \A p \in l : /\ RecOf(T, d, dev, p[1]).ifs[p[2]] # "absent"
                           /\ l \in (IF p[1] = d THEN own[p] ELSE T.lists[p])
          BY <1>n, <3>1, <4>1 DEF RecOf
        <4>3. QED BY <1>n, <3>1, <3>2, <3>3, <3>5, <4>2
      <3>6. QED BY <3>4, <3>5
    <2>2. CASE l \notin seen
      <3>1. T.links[l] = S.links[l]
        BY <1>n, <2>2
      <3>2. /\ {S.links[l].leg0, S.links[l].leg1} = l
            /\ S.links[l].creator = S.links[l].leg0[1]
            /\ \A p \in l : S.devs[p[1]] # NoDev /\ l \in S.refs[p[1]]
            /\ IF Loop(l) THEN \E p \in l : l \in S.lists[p]
               ELSE \A p \in l : S.devs[p[1]].ifs[p[2]] # "absent" /\ l \in S.lists[p]
        BY <1>s, <1>2, <3>1 DEF LinkIntegrityOf
      <3>3. \A p \in l : p \in Port /\ p[1] \in DevId /\ p[2] \in IfName /\ p = <<p[1], p[2]>>
        BY CablePorts DEF Port
      <3>4. \A p \in l : p[1] = d /\ l \in S.lists[p] => l \in old
        BY <1>n, <1>2, <2>2, <3>1, <3>3 DEF Carried
      <3>5. \A p \in l : T.devs[p[1]] # NoDev /\ l \in T.refs[p[1]]
        BY <1>n, <3>2, <3>3
      <3>6. \A p \in l : p[1] # d => RecOf(T, d, dev, p[1]) = S.devs[p[1]]
        BY <1>n DEF RecOf
      <3>7. \A p \in l : l \in S.lists[p] /\ l \notin old =>
                l \in (IF p[1] = d THEN own[p] ELSE T.lists[p])
        BY <1>n, <3>3, <3>4
      <3>8. CASE Loop(l)
        BY <3>1, <3>2, <3>5, <3>7, <3>8
      <3>9. CASE ~Loop(l)
        BY <3>1, <3>2, <3>4, <3>5, <3>6, <3>7, <3>9
      <3>10. QED BY <3>8, <3>9
    <2>3. QED BY <2>1, <2>2
  <1>3. \A p \in Port : \A l \in (IF p[1] = d THEN own[p] ELSE T.lists[p]) :
           T.links[l] # NoLink /\ p \in l
    BY <1>n
  <1>4. Midway(T, d, dev, own, old)
    <2>1. old \in SUBSET Cables
      BY <1>1
    <2>2. \A l \in old : T.links[l] # NoLink
      BY <1>1
    <2>3. QED BY <1>n, <1>2, <1>3, <2>1, <2>2 DEF Midway
  <1>5. QED BY <1>4, CarriedOverConsistent DEF Processed

\* A device that is not known yet has no links to carry over, so the startup
\* load, which looks at none, does what a live report would.
LEMMA LoadedConsistent ==
    ASSUME NEW S, ConsistentStore(S), NEW d \in DevId, NEW dev \in DevRec, GoodRows(d, dev),
           NEW row \in RowChoices(S, d, dev), S.devs[d] = NoDev
    PROVE  ConsistentStore(Loaded(S, d, dev, row))
  <1> DEFINE T == Discovered(S, d, dev, row)
             seen == SeenLinks(S, d, dev)
  <1>s. S \in Store /\ LinkIntegrityOf(S) /\ NoDanglingIdOf(S)
    BY DEF ConsistentStore
  <1>1. ASSUME NEW i \in IfName PROVE T.lists[<<d, i>>] = {}
    <2>1. <<d, i>> \in Port /\ <<d, i>>[1] = d
      BY DEF Port
    <2>2. S.lists[<<d, i>>] = {}
      <3> SUFFICES ASSUME NEW l \in S.lists[<<d, i>>] PROVE FALSE
        OBVIOUS
      <3>1. l \in Cables /\ S.links[l] # NoLink /\ <<d, i>> \in l
        BY <1>s, <2>1 DEF NoDanglingIdOf, Store
      <3>2. QED BY <1>s, <2>1, <3>1 DEF LinkIntegrityOf
    <2>3. \A q \in Resolved(S, d, dev) : q[2] # <<d, i>>
      BY <2>1 DEF Resolved
    <2>4. QED BY <2>1, <2>2, <2>3 DEF Discovered
  <1>2. Carried(T, d, seen) = {}
    BY <1>1 DEF Carried
  <1>3. Processed(S, d, dev, row) = Loaded(S, d, dev, row)
    BY <1>2 DEF Processed, Loaded
  <1>4. QED BY <1>3, ProcessedConsistent

\* The second startup pass drops nothing: what it adds joins what was there.
LEMMA RelinkedConsistent ==
    ASSUME NEW S, ConsistentStore(S), NEW d \in DevId, S.devs[d] # NoDev,
           GoodRows(d, S.devs[d]), NEW row \in RowChoices(S, d, S.devs[d])
    PROVE  ConsistentStore(Relinked(S, d, row))
  <1> DEFINE dev == S.devs[d]
             T == Discovered(S, d, dev, row)
             seen == SeenLinks(S, d, dev)
             rows == OwnLists(S, d, dev)
             own == [p \in Port |-> T.lists[p] \union rows[p]]
  <1>s. S \in Store /\ LinkIntegrityOf(S) /\ NoDanglingIdOf(S)
    BY DEF ConsistentStore
  <1>d. dev \in DevRec
    BY <1>s DEF Store
  <1>n. /\ seen \subseteq Cables
        /\ \A l \in Cables : l \notin seen => T.links[l] = S.links[l]
        /\ \A l \in seen : T.links[l] # NoLink
        /\ T \in Store /\ rows \in [Port -> SUBSET Cables]
        /\ \A p \in Port : \A l \in rows[p] : l \in seen /\ p \in l
        /\ \A p \in Port : \A l \in T.lists[p] : T.links[l] # NoLink /\ p \in l
        /\ \A x \in DevId : \A l \in T.refs[x] : T.links[l] # NoLink /\ x \in EndDevs(l)
        /\ \A p \in Port : S.lists[p] \subseteq T.lists[p]
        /\ \A x \in DevId : S.refs[x] \subseteq T.refs[x]
        /\ T.devs = S.devs
    BY <1>d, DiscoveredNames
  <1>1. own \in [Port -> SUBSET Cables]
    <2>1. \A p \in Port : T.lists[p] \subseteq Cables /\ rows[p] \subseteq Cables
      BY <1>n DEF Store
    <2>2. QED BY <2>1
  <1>2. ASSUME NEW l \in Cables, T.links[l] # NoLink
        PROVE  /\ {T.links[l].leg0, T.links[l].leg1} = l
               /\ T.links[l].creator = T.links[l].leg0[1]
               /\ \A p \in l : T.devs[p[1]] # NoDev /\ l \in T.refs[p[1]]
               /\ IF Loop(l) THEN \E p \in l : l \in own[p]
                  ELSE \A p \in l : T.devs[p[1]].ifs[p[2]] # "absent" /\ l \in own[p]
               /\ ~Loop(l) => \A p \in l : p[1] # d => l \in T.lists[p]
    <2>1. CASE l \in seen
      <3> DEFINE r == row[l]
      <3>1. /\ r \in Report /\ r[1] \in IfName /\ r[2] \in Port
            /\ l = {<<d, r[1]>>, r[2]}
            /\ dev.ifs[r[1]] # "absent"
            /\ S.devs[r[2][1]] # NoDev /\ S.devs[r[2][1]].ifs[r[2][2]] # "absent"
            /\ T.links[l] = NewLink(S, d, dev, r)
            /\ \A p \in l : l \in T.refs[p[1]]
            /\ l \in T.lists[r[2]]
            /\ l \in rows[<<d, r[1]>>]
        BY <1>s, <1>d, <2>1, SeenFacts, SMTT(30)
      <3>2. /\ T.links[l].leg0 = <<d, r[1]>> /\ T.links[l].leg1 = r[2]
            /\ T.links[l].creator = d
        BY <3>1 DEF NewLink
      <3>3. <<d, r[1]>> \in Port /\ <<d, r[1]>>[1] = d /\ <<d, r[1]>>[2] = r[1]
        BY <3>1 DEF Port
      <3>4. \A p \in l : l \in own[p]
        BY <3>1, <3>3
      <3>5. \A p \in l : T.devs[p[1]] # NoDev /\ T.devs[p[1]].ifs[p[2]] # "absent"
        BY <1>n, <3>1, <3>3
      <3>6. \A p \in l : p[1] # d => l \in T.lists[p]
        BY <3>1, <3>3
      <3>7. /\ {T.links[l].leg0, T.links[l].leg1} = l
            /\ T.links[l].creator = T.links[l].leg0[1]
        BY <3>1, <3>2, <3>3
      <3>8. IF Loop(l) THEN \E p \in l : l \in own[p]
            ELSE \A p \in l : T.devs[p[1]].ifs[p[2]] # "absent" /\ l \in own[p]
        BY <3>1, <3>4, <3>5
      <3>9. QED BY <3>1, <3>5, <3>6, <3>7, <3>8
    <2>2. CASE l \notin seen
      <3>1. T.links[l] = S.links[l]
        BY <1>n, <2>2
      <3>2. /\ {S.links[l].leg0, S.links[l].leg1} = l
            /\ S.links[l].creator = S.links[l].leg0[1]
            /\ \A p \in l : S.devs[p[1]] # NoDev /\ l \in S.refs[p[1]]
            /\ IF Loop(l) THEN \E p \in l : l \in S.lists[p]
               ELSE \A p \in l : S.devs[p[1]].ifs[p[2]] # "absent" /\ l \in S.lists[p]
        BY <1>s, <1>2, <3>1 DEF LinkIntegrityOf
      <3>3. \A p \in l : p \in Port /\ p[1] \in DevId
        BY CablePorts
      <3>4. \A p \in l : l \in S.lists[p] => l \in own[p] /\ l \in T.lists[p]
        BY <1>n, <3>3
      <3>5. \A p \in l : T.devs[p[1]] # NoDev /\ l \in T.refs[p[1]]
        BY <1>n, <3>2, <3>3
      <3>6. CASE Loop(l)
        BY <3>1, <3>2, <3>4, <3>5, <3>6
      <3>7. CASE ~Loop(l)
        BY <1>n, <3>1, <3>2, <3>4, <3>5, <3>7
      <3>8. QED BY <3>6, <3>7
    <2>3. QED BY <2>1, <2>2
  <1>3. ASSUME NEW l \in Cables, T.links[l] # NoLink
        PROVE  IF Loop(l)
               THEN \E p \in l : l \in (IF p[1] = d THEN own[p] ELSE T.lists[p])
               ELSE \A p \in l : /\ RecOf(T, d, dev, p[1]).ifs[p[2]] # "absent"
                                 /\ l \in (IF p[1] = d THEN own[p] ELSE T.lists[p])
    <2>1. \A p \in l : RecOf(T, d, dev, p[1]) = T.devs[p[1]]
      BY <1>n DEF RecOf
    <2>2. CASE Loop(l)
      <3>1. PICK p \in l : l \in own[p]
        BY <1>2, <1>3, <2>2
      <3>2. CASE p[1] = d
        BY <2>2, <3>1, <3>2
      <3>3. CASE p[1] # d
        <4>1. p \in Port
          BY CablePorts
        <4>2. l \notin rows[p]
          <5>1. \A q \in Resolved(S, d, dev) : <<d, q[1]>> # p
            BY <3>3
          <5>2. QED BY <4>1, <5>1 DEF OwnLists
        <4>3. l \in T.lists[p]
          BY <3>1, <4>1, <4>2
        <4>4. QED BY <2>2, <3>3, <4>3
      <3>4. QED BY <3>2, <3>3
    <2>3. CASE ~Loop(l)
      BY <1>2, <1>3, <2>1, <2>3
    <2>4. QED BY <2>2, <2>3
  <1>4. \A p \in Port : \A l \in own[p] : l \in Cables /\ T.links[l] # NoLink /\ p \in l
    BY <1>n, <1>1
  <1>5. Midway(T, d, dev, own, {})
    <2>1. \A p \in Port : \A l \in (IF p[1] = d THEN own[p] ELSE T.lists[p]) :
             T.links[l] # NoLink /\ p \in l
      BY <1>n, <1>4
    <2>2. \A l \in Cables : T.links[l] # NoLink =>
             /\ {T.links[l].leg0, T.links[l].leg1} = l
             /\ T.links[l].creator = T.links[l].leg0[1]
             /\ \A p \in l : (p[1] # d => T.devs[p[1]] # NoDev) /\ l \in T.refs[p[1]]
             /\ l \notin {} =>
                  IF Loop(l)
                  THEN \E p \in l : l \in (IF p[1] = d THEN own[p] ELSE T.lists[p])
                  ELSE \A p \in l : /\ RecOf(T, d, dev, p[1]).ifs[p[2]] # "absent"
                                    /\ l \in (IF p[1] = d THEN own[p] ELSE T.lists[p])
      BY <1>2, <1>3
    <2>3. QED BY <1>d, <1>n, <1>1, <2>1, <2>2 DEF Midway
  <1>6. QED BY <1>5, CarriedOverConsistent DEF Relinked

---------------------------------------------------------------------------
(* The invariant                                                           *)

\* What a gathering brings is a record with rows on existing interfaces.
LEMMA ObservationsGood ==
    ASSUME NEW d \in DevId, NEW dev \in Observations(d)
    PROVE  dev \in DevRec /\ GoodRows(d, dev)
  BY DEF Observations, DevRec, GoodRows, ReportsOf

\* Storing a record with good rows, or wiping a device, keeps the rows good.
LEMMA RowsKept ==
    ASSUME NEW D \in [DevId -> DevRec \union {NoDev}], AllGoodRows(D), NEW d \in DevId
    PROVE  /\ \A dev : GoodRows(d, dev) => AllGoodRows([D EXCEPT ![d] = dev])
           /\ AllGoodRows([D EXCEPT ![d] = D[d]])
           /\ AllGoodRows([x \in DevId |-> IF x = d THEN NoDev ELSE D[x]])
  <1>1. ASSUME NEW dev, GoodRows(d, dev) PROVE AllGoodRows([D EXCEPT ![d] = dev])
    <2> DEFINE E == [D EXCEPT ![d] = dev]
    <2>1. ASSUME NEW x \in DevId, E[x] # NoDev PROVE GoodRows(x, E[x])
      <3>1. CASE x = d
        BY <1>1, <3>1
      <3>2. CASE x # d
        <4>1. E[x] = D[x]
          BY <3>2
        <4>2. QED BY <2>1, <4>1 DEF AllGoodRows
      <3>3. QED BY <3>1, <3>2
    <2>2. QED BY <2>1 DEF AllGoodRows
  <1>2. [D EXCEPT ![d] = D[d]] = D
    OBVIOUS
  <1>3. AllGoodRows([x \in DevId |-> IF x = d THEN NoDev ELSE D[x]])
    <2> DEFINE E == [x \in DevId |-> IF x = d THEN NoDev ELSE D[x]]
    <2>1. ASSUME NEW x \in DevId, E[x] # NoDev PROVE GoodRows(x, E[x])
      <3>1. E[x] = D[x]
        BY <2>1
      <3>2. QED BY <2>1, <3>1 DEF AllGoodRows
    <2>2. QED BY <2>1 DEF AllGoodRows
  <1>4. QED BY <1>1, <1>2, <1>3

\* A step to a consistent store with good rows is what Becomes needs.
LEMMA BecomesConsistent ==
    ASSUME NEW S, ConsistentStore(S), Becomes(S)
    PROVE  ConsistentStore(Cur)'
  <1>1. Cur' = S
    BY DEF Becomes, Cur, ConsistentStore, Store
  <1>2. QED BY <1>1

\* The initial state satisfies the invariant.
LEMMA InitIInv == Init => IInv
  <1> SUFFICES ASSUME Init PROVE IInv
    OBVIOUS
  <1>1. /\ Cur.devs = [d \in DevId |-> NoDev]
        /\ Cur.lists = [p \in Port |-> {}]
        /\ Cur.links = [l \in Cables |-> NoLink]
        /\ Cur.refs = [d \in DevId |-> {}]
    BY DEF Init, Cur
  <1>2. Cur \in Store
    BY DEF Init, Cur, Store
  <1>3. LinkIntegrityOf(Cur)
    BY <1>1 DEF LinkIntegrityOf
  <1>4. NoDanglingIdOf(Cur)
    BY <1>1 DEF NoDanglingIdOf
  <1>5. AllGoodRows(devs)
    BY DEF Init, AllGoodRows
  <1>6. QED BY <1>2, <1>3, <1>4, <1>5 DEF Init, IInv, ConsistentStore, VisitsKnown

\* Every step preserves it.
LEMMA NextIInv == IInv /\ [Next]_vars => IInv'
  <1> SUFFICES ASSUME IInv, [Next]_vars PROVE IInv'
    OBVIOUS
  <1> DEFINE Phases == {"load", "relink", "run"}
             Good(S) == ConsistentStore(S) /\ AllGoodRows(S.devs)
  <1>i. /\ Good(Cur) /\ Cur.devs = devs /\ devs \in [DevId -> DevRec \union {NoDev}]
        /\ VisitsKnown /\ phase \in Phases /\ todo \in SUBSET DevId
    BY DEF IInv, ConsistentStore, Cur, Store
  <1>t. ASSUME NEW S, Good(S) PROVE S.devs \in [DevId -> DevRec \union {NoDev}]
    BY <1>t DEF ConsistentStore, Store
  <1>w. ASSUME NEW S, Good(S), NEW d \in DevId
        PROVE  Good(Wiped(S, d)) /\ Wiped(S, d).devs[d] = NoDev
    <2>1. Wiped(S, d).devs = [x \in DevId |-> IF x = d THEN NoDev ELSE S.devs[x]]
      BY DEF Wiped
    <2>2. AllGoodRows(Wiped(S, d).devs)
      BY <1>w, <1>t, <2>1, RowsKept
    <2>3. ConsistentStore(Wiped(S, d))
      BY <1>w, WipedConsistent
    <2>4. QED BY <2>1, <2>2, <2>3
  <1>b. ASSUME NEW S, Good(S), Becomes(S), VisitsKnown',
               phase' \in Phases, todo' \in SUBSET DevId
        PROVE  IInv'
    <2>1. ConsistentStore(Cur)'
      BY <1>b, BecomesConsistent
    <2>2. devs' = S.devs
      BY <1>b DEF Becomes
    <2>3. AllGoodRows(devs')
      BY <1>b, <2>2
    <2>4. QED BY <1>b, <2>1, <2>3 DEF IInv
  \* A step that leaves the store alone.
  <1>u. ASSUME UNCHANGED <<devs, lists, l2_links, dev_refs>>, VisitsKnown',
               phase' \in Phases, todo' \in SUBSET DevId
        PROVE  IInv'
    <2>1. Cur' = Cur /\ devs' = devs
      BY <1>u DEF Cur
    <2>2. ConsistentStore(Cur') /\ AllGoodRows(devs')
      BY <1>i, <2>1
    <2>3. QED BY <1>u, <2>2 DEF IInv
  <1>1. CASE EndLoad
    BY <1>1, <1>u DEF EndLoad, VisitsKnown
  <1>2. CASE EndRelink
    BY <1>2, <1>u, <1>i DEF EndRelink, VisitsKnown
  <1>3. ASSUME NEW d \in DevId, Load(d) PROVE IInv'
    <2> DEFINE S == IF devs[d] = NoDev THEN Cur ELSE Wiped(Cur, d)
    <2>1. PICK dev \in Observations(d) : \E row \in RowChoices(S, d, dev) :
             Becomes(Loaded(S, d, dev, row))
      BY <1>3 DEF Load
    <2>2. PICK row \in RowChoices(S, d, dev) : Becomes(Loaded(S, d, dev, row))
      BY <2>1
    <2>3. Good(S) /\ S.devs[d] = NoDev
      <3>1. CASE devs[d] = NoDev
        BY <1>i, <3>1
      <3>2. CASE devs[d] # NoDev
        BY <1>i, <1>w, <3>2
      <3>3. QED BY <3>1, <3>2
    <2> HIDE DEF S
    <2>4. dev \in DevRec /\ GoodRows(d, dev)
      BY ObservationsGood
    <2>5. ConsistentStore(Loaded(S, d, dev, row))
      BY <2>3, <2>4, LoadedConsistent
    <2>6. AllGoodRows(Loaded(S, d, dev, row).devs)
      <3>1. Loaded(S, d, dev, row).devs = [S.devs EXCEPT ![d] = dev]
        BY DEF Loaded, CarriedOver, Discovered
      <3>2. QED BY <1>t, <2>3, <2>4, <3>1, RowsKept
    <2>7. phase' \in Phases /\ todo' \in SUBSET DevId /\ VisitsKnown'
      BY <1>i, <1>3 DEF Load, VisitsKnown
    <2>8. QED BY <1>b, <2>2, <2>5, <2>6, <2>7
  <1>4. ASSUME NEW d \in DevId, Relink(d) PROVE IInv'
    <2>0. devs[d] # NoDev /\ phase = "relink" /\ todo' = todo \ {d} /\ phase' = phase
      BY <1>i, <1>4 DEF Relink, VisitsKnown
    <2>1. PICK row \in RowChoices(Cur, d, devs[d]) : Becomes(Relinked(Cur, d, row))
      BY <1>4 DEF Relink
    <2>2. ConsistentStore(Relinked(Cur, d, row))
      <3>1. GoodRows(d, devs[d])
        BY <1>i, <2>0 DEF AllGoodRows
      <3>2. QED BY <1>i, <2>0, <3>1, RelinkedConsistent
    <2>3. Relinked(Cur, d, row).devs = devs
      <3>1. Relinked(Cur, d, row).devs = [Cur.devs EXCEPT ![d] = Cur.devs[d]]
        BY DEF Relinked, CarriedOver, Discovered
      <3>2. QED BY <1>i, <3>1
    <2>4. AllGoodRows(Relinked(Cur, d, row).devs) /\ devs' = devs
      BY <1>i, <2>1, <2>3 DEF Becomes
    <2>5. phase' \in Phases /\ todo' \in SUBSET DevId /\ VisitsKnown'
      BY <1>i, <2>0, <2>4 DEF VisitsKnown
    <2>6. QED BY <1>b, <2>1, <2>2, <2>4, <2>5
  <1>5. ASSUME NEW d \in DevId, Process(d) PROVE IInv'
    <2>1. PICK own \in BOOLEAN, prev \in DevId :
            LET S0 == IF own THEN Wiped(Cur, d) ELSE Cur
                S  == IF prev # d THEN Wiped(S0, prev) ELSE S0
            IN  \E dev \in Observations(d) : \E row \in RowChoices(S, d, dev) :
                  Becomes(Processed(S, d, dev, row))
      BY <1>5 DEF Process
    <2> DEFINE S0 == IF own THEN Wiped(Cur, d) ELSE Cur
               S == IF prev # d THEN Wiped(S0, prev) ELSE S0
    <2>2. PICK dev \in Observations(d) : \E row \in RowChoices(S, d, dev) :
            Becomes(Processed(S, d, dev, row))
      BY <2>1
    <2>3. PICK row \in RowChoices(S, d, dev) : Becomes(Processed(S, d, dev, row))
      BY <2>2
    <2>4. Good(S0)
      BY <1>i, <1>w
    <2>5. Good(S)
      BY <1>w, <2>4
    <2> HIDE DEF S
    <2>6. dev \in DevRec /\ GoodRows(d, dev)
      BY ObservationsGood
    <2>7. ConsistentStore(Processed(S, d, dev, row))
      BY <2>5, <2>6, ProcessedConsistent
    <2>8. AllGoodRows(Processed(S, d, dev, row).devs)
      <3>1. Processed(S, d, dev, row).devs = [S.devs EXCEPT ![d] = dev]
        BY DEF Processed, CarriedOver, Discovered
      <3>2. S.devs \in [DevId -> DevRec \union {NoDev}] /\ AllGoodRows(S.devs)
        BY <1>t, <2>5
      <3>3. AllGoodRows([S.devs EXCEPT ![d] = dev])
        BY <2>6, <3>2, RowsKept
      <3>4. QED BY <3>1, <3>3
    <2>9. phase' \in Phases /\ todo' \in SUBSET DevId /\ VisitsKnown'
      BY <1>i, <1>5 DEF Process, VisitsKnown
    <2>10. QED BY <1>b, <2>3, <2>7, <2>8, <2>9
  <1>6. ASSUME NEW d \in DevId, WipeDev(d) PROVE IInv'
    <2>1. Becomes(Wiped(Cur, d)) /\ phase' = phase /\ todo' = todo /\ phase = "run"
      BY <1>6 DEF WipeDev
    <2>2. Good(Wiped(Cur, d))
      BY <1>i, <1>w
    <2>3. phase' \in Phases /\ todo' \in SUBSET DevId /\ VisitsKnown'
      BY <1>i, <2>1 DEF VisitsKnown
    <2>4. QED BY <1>b, <2>1, <2>2, <2>3
  <1>7. CASE UNCHANGED vars
    BY <1>7, <1>u, <1>i DEF vars, VisitsKnown
  <1>8. QED
    <2>1. CASE Next
      <3>1. CASE EndLoad \/ EndRelink
        BY <1>1, <1>2, <3>1
      <3>2. CASE \E d \in DevId : Load(d) \/ Relink(d) \/ Process(d) \/ WipeDev(d)
        BY <1>3, <1>4, <1>5, <1>6, <3>2
      <3>3. QED BY <2>1, <3>1, <3>2 DEF Next
    <2>2. QED BY <1>7, <2>1

\* The inductive invariant holds of every reachable state.
LEMMA IInvHolds == Spec => []IInv
  BY InitIInv, NextIInv, PTL DEF Spec

\* The maps keep their types.
THEOREM TypeCorrect == Spec => []TypeOK
  <1> DEFINE Strayed == stray \in SUBSET DevId
  <1>1. Init => Strayed
    BY DEF Init
  <1>2. Strayed /\ [Next]_vars => Strayed'
    BY DEF Next, vars, EndLoad, EndRelink, Load, Relink, Process, WipeDev, StrayAfter
  <1>3. IInv /\ Strayed => TypeOK
    BY DEF IInv, ConsistentStore, TypeOK
  <1>4. QED BY <1>1, <1>2, <1>3, IInvHolds, PTL DEF Spec

\* Every link joins two known devices that index and list it.
THEOREM LinksAreKnown == Spec => []LinkIntegrity
  <1>1. IInv => LinkIntegrity
    BY DEF IInv, ConsistentStore, LinkIntegrity
  <1>2. QED BY <1>1, IInvHolds, PTL

\* No list and no index entry outlives its link.
THEOREM NothingDangles == Spec => []NoDanglingId
  <1>1. IInv => NoDanglingId
    BY DEF IInv, ConsistentStore, NoDanglingId
  <1>2. QED BY <1>1, IInvHolds, PTL

---------------------------------------------------------------------------
(* The status of the links.  What is true of one link is stated of a store *)
(* and shown operator by operator, as above; a consistent store is given.  *)

\* The status of l is that of its two interfaces.
StatusRight(S, l) ==
    S.links[l].status = 1 <=> \A p \in l : Live(S.devs[p[1]], p[2])

\* The creator of l has not lost data since; while it has the same data, is not
\* astray and has no error it reports l; and l is only up while it has the same data.
Vouched(S, l, A) ==
    LET k == S.links[l]
        m == S.devs[k.creator]
    IN  /\ k.time <= m.seen
        /\ k.creator \notin A /\ k.time = m.seen /\ m.st # "error" =>
              \E r \in m.nei : KeyOf(k.creator, r) = l
        /\ k.status = 1 => k.time = m.seen

Settled(S, l, A) ==
    S.links[l] # NoLink /\ ~Loop(l) => StatusRight(S, l) /\ Vouched(S, l, A)

\* A are the devices that are astray.
AllSettled(S, A) == \A l \in Cables : Settled(S, l, A)

\* A link that two devices share joins them by one interface each.
LEMMA TwoEnds ==
    ASSUME NEW p, NEW q, ~Loop({p, q})
    PROVE  p # q /\ p[1] # q[1]
  BY DEF Loop

\* What a consistent store says of a link between two devices.
LEMMA SharedLink ==
    ASSUME NEW S, ConsistentStore(S), NEW l \in Cables, S.links[l] # NoLink, ~Loop(l)
    PROVE  /\ S.links[l] \in LinkRec
           /\ l = {S.links[l].leg0, S.links[l].leg1}
           /\ S.links[l].creator = S.links[l].leg0[1]
           /\ S.links[l].leg0[1] # S.links[l].leg1[1]
           /\ \A p \in l : /\ p \in Port /\ p[1] \in DevId /\ p[2] \in IfName
                           /\ S.devs[p[1]] \in DevRec /\ l \in S.lists[p]
  <1>1. S.links[l] \in LinkRec
    BY DEF ConsistentStore, Store
  <1>2. /\ {S.links[l].leg0, S.links[l].leg1} = l
        /\ S.links[l].creator = S.links[l].leg0[1]
        /\ \A p \in l : S.devs[p[1]] # NoDev /\ l \in S.lists[p]
    BY DEF ConsistentStore, LinkIntegrityOf
  <1>3. S.links[l].leg0[1] # S.links[l].leg1[1]
    BY <1>2, TwoEnds
  <1>4. \A p \in l : p \in Port /\ p[1] \in DevId /\ p[2] \in IfName
    BY CablePorts
  <1>5. \A p \in l : S.devs[p[1]] \in DevRec
    BY <1>2, <1>4 DEF ConsistentStore, Store
  <1>6. QED BY <1>1, <1>2, <1>3, <1>4, <1>5

\* A link that no step touched, between devices that no step touched, stays settled.
LEMMA UntouchedSettled ==
    ASSUME NEW S, ConsistentStore(S), NEW T, NEW l \in Cables, NEW A, NEW B,
           Settled(S, l, A), T.links[l] = S.links[l],
           \A p \in l : T.devs[p[1]] = S.devs[p[1]] /\ (p[1] \in A => p[1] \in B)
    PROVE  Settled(T, l, B)
  <1> SUFFICES ASSUME S.links[l] # NoLink, ~Loop(l)
               PROVE  StatusRight(T, l) /\ Vouched(T, l, B)
    BY DEF Settled
  <1>1. StatusRight(S, l) /\ Vouched(S, l, A)
    BY DEF Settled
  <1>2. StatusRight(T, l)
    BY <1>1 DEF StatusRight
  <1>3. /\ T.devs[T.links[l].creator] = S.devs[S.links[l].creator]
        /\ S.links[l].creator \in A => S.links[l].creator \in B
    BY SharedLink
  <1>4. Vouched(T, l, B)
    BY <1>1, <1>3 DEF Vouched
  <1>5. QED BY <1>2, <1>4

\* wipe_dev leaves only links it did not touch.
LEMMA WipedSettled ==
    ASSUME NEW S, NEW A, ConsistentStore(S), AllSettled(S, A), NEW d \in DevId
    PROVE  AllSettled(Wiped(S, d), A)
  <1> DEFINE T == Wiped(S, d)
  <1> SUFFICES ASSUME NEW l \in Cables, T.links[l] # NoLink PROVE Settled(T, l, A)
    BY DEF AllSettled, Settled
  <1>1. l \notin S.refs[d] /\ T.links[l] = S.links[l] /\ S.links[l] # NoLink
    BY DEF Wiped
  <1>2. \A p \in l : p[1] \in DevId /\ l \in S.refs[p[1]]
    BY <1>1, CablePorts DEF ConsistentStore, LinkIntegrityOf
  <1>3. \A p \in l : T.devs[p[1]] = S.devs[p[1]]
    BY <1>1, <1>2 DEF Wiped
  <1>4. QED BY <1>1, <1>3, UntouchedSettled DEF AllSettled

\* A link that the report of d brings is settled: its status is computed from the
\* new record of d and the stored one of the other end, its time is that of d.
LEMMA SeenSettled ==
    ASSUME NEW S, S \in Store, NEW d \in DevId, NEW dev \in DevRec, GoodRows(d, dev),
           NEW row \in RowChoices(S, d, dev), NEW l \in SeenLinks(S, d, dev), NEW U, NEW A,
           U.links[l] = NewLink(S, d, dev, row[l]), U.devs = [S.devs EXCEPT ![d] = dev]
    PROVE  Settled(U, l, A)
  <1> DEFINE r == row[l]
  <1> SUFFICES ASSUME ~Loop(l) PROVE StatusRight(U, l) /\ Vouched(U, l, A)
    BY DEF Settled
  <1>1. /\ r \in Report /\ r[1] \in IfName /\ r[2] \in Port
        /\ l = {<<d, r[1]>>, r[2]}
    <2>1. row[l] \in Report /\ row[l][1] \in IfName /\ row[l][2] \in Port
      BY SeenFacts
    <2>2. l = {<<d, row[l][1]>>, row[l][2]}
      <3>1. KeyOf(d, row[l]) = l
        BY DEF RowChoices
      <3>2. QED BY <3>1 DEF KeyOf, l2l_key
    <2>3. QED BY <2>1, <2>2
  <1>2. r \in dev.nei /\ KeyOf(d, r) = l
    BY DEF RowChoices, Resolved
  <1>3. r[2][1] # d
    BY <1>1, TwoEnds
  <1>4. r[2][1] \in DevId
    BY <1>1 DEF Port
  <1>5. U.devs[d] = dev /\ U.devs[r[2][1]] = S.devs[r[2][1]]
    BY <1>3, <1>4 DEF Store
  <1>6. StatusRight(U, l)
    <2>1. (\A p \in l : Live(U.devs[p[1]], p[2]))
            <=> Live(dev, r[1]) /\ Live(S.devs[r[2][1]], r[2][2])
      <3> DEFINE p == <<d, r[1]>>
                 q == r[2]
      <3>1. l = {p, q} /\ p[1] = d /\ p[2] = r[1]
        BY <1>1
      <3> HIDE DEF p, q, r
      <3>2. QED BY <1>5, <3>1 DEF q
    <2>2. U.links[l].status = 1 <=> Live(dev, r[1]) /\ Live(S.devs[r[2][1]], r[2][2])
      BY DEF NewLink
    <2>3. QED BY <2>1, <2>2 DEF StatusRight
  <1>7. Vouched(U, l, A)
    <2>1. U.links[l].creator = d /\ U.links[l].time = dev.seen
      BY DEF NewLink
    <2>2. dev.seen \in Seen
      BY DEF DevRec
    <2>3. U.links[l].time <= dev.seen
      BY <2>1, <2>2, MaxSeenAssumption DEF Seen
    <2>4. QED BY <1>2, <1>5, <2>1, <2>3 DEF Vouched
  <1>8. QED BY <1>6, <1>7

\* A link that is carried over is settled: its status is computed anew, and it is
\* up only if the other end created it from the data it still has.
LEMMA KeptSettled ==
    ASSUME NEW S, ConsistentStore(S), NEW d \in DevId, NEW dev \in DevRec,
           Follows(S.devs[d], dev), NEW l \in Cables, S.links[l] # NoLink,
           Settled(S, l, stray), d \in EndDevs(l), Keeps(S, d, dev, l), NEW U,
           U.links[l] = [S.links[l] EXCEPT !.status = KeptStatus(S, d, dev, l)],
           U.devs = [S.devs EXCEPT ![d] = dev]
    PROVE  Settled(U, l, StrayAfter(d, S.devs[d], dev))
  <1> DEFINE k == S.links[l]
             B == StrayAfter(d, S.devs[d], dev)
  <1> SUFFICES ASSUME ~Loop(l) PROVE StatusRight(U, l) /\ Vouched(U, l, B)
    BY DEF Settled
  <1>1. /\ k \in LinkRec /\ l = {k.leg0, k.leg1} /\ k.creator = k.leg0[1]
        /\ k.leg0[1] # k.leg1[1]
        /\ \A p \in l : p[1] \in DevId /\ p[2] \in IfName /\ S.devs[p[1]] \in DevRec
    BY SharedLink
  <1>2. \A x \in DevId : U.devs[x] = RecOf(S, d, dev, x)
    BY DEF RecOf, ConsistentStore, Store
  <1>3. k.leg0[1] \in DevId /\ k.leg1[1] \in DevId
    BY <1>1
  <1>4. /\ U.links[l].status = KeptStatus(S, d, dev, l)
        /\ U.links[l].time = k.time /\ U.links[l].creator = k.creator
    BY <1>1 DEF LinkRec
  <1>5. StatusRight(U, l)
    <2>1. (\A p \in l : Live(U.devs[p[1]], p[2]))
            <=> /\ Live(RecOf(S, d, dev, k.leg0[1]), k.leg0[2])
                /\ Live(RecOf(S, d, dev, k.leg1[1]), k.leg1[2])
      BY <1>1, <1>2, <1>3
    <2>2. QED BY <1>4, <2>1 DEF StatusRight, KeptStatus
  \* An up link is one that the other end vouches for.
  <1>6. ASSUME U.links[l].status = 1
        PROVE  k.creator # d /\ k.time = U.devs[k.creator].seen
    <2>1. /\ Live(RecOf(S, d, dev, k.leg0[1]), k.leg0[2])
          /\ Live(RecOf(S, d, dev, k.leg1[1]), k.leg1[2])
      BY <1>4, <1>6 DEF KeptStatus
    <2>2. VouchedByPeer(k, d, RecOf(S, d, dev, k.leg0[1]))
      BY <2>1 DEF Keeps, Live
    <2>3. QED BY <1>1, <1>2, <1>3, <2>2 DEF VouchedByPeer
  <1>7. Vouched(U, l, B)
    <2>1. Vouched(S, l, stray)
      BY DEF Settled
    <2>2. CASE k.creator # d
      <3>1. U.devs[k.creator] = S.devs[k.creator] /\ (k.creator \notin B => k.creator \notin stray)
        BY <1>1, <1>2, <2>2 DEF RecOf, StrayAfter
      <3>2. QED BY <1>4, <1>6, <2>1, <3>1 DEF Vouched
    <2>3. CASE k.creator = d
      <3> DEFINE old == S.devs[d]
      <3>1. U.devs[k.creator] = dev /\ old \in DevRec /\ old # NoDev
        <4>1. U.devs[d] = dev
          BY <1>2 DEF RecOf
        <4>2. k.leg0 \in l /\ k.leg0[1] = d
          BY <1>1, <2>3
        <4>3. S.devs[d] \in DevRec
          BY <1>1, <4>2
        <4>4. QED BY <2>3, <4>1, <4>3, NoDevAssumption
      <3>2. /\ k.time <= old.seen
            /\ k.creator \notin stray /\ k.time = old.seen /\ old.st # "error" =>
                 \E r \in old.nei : KeyOf(k.creator, r) = l
        BY <2>1, <2>3 DEF Vouched
      <3>3. k.time \in Nat /\ old.seen \in Nat /\ dev.seen \in Nat
        BY <1>1, <3>1, MaxSeenAssumption DEF LinkRec, DevRec, Seen
      <3>4. dev.seen = old.seen \/ dev.seen = old.seen + 1
        BY <3>1 DEF Follows
      <3>5. k.time <= dev.seen
        BY <3>2, <3>3, <3>4
      <3>6. k.creator \notin B /\ k.time = dev.seen /\ dev.st # "error" =>
              \E r \in dev.nei : KeyOf(k.creator, r) = l
        <4> SUFFICES ASSUME k.creator \notin B, k.time = dev.seen, dev.st # "error"
                     PROVE  \E r \in dev.nei : KeyOf(k.creator, r) = l
          OBVIOUS
        <4>1. dev.seen = old.seen /\ k.time = old.seen
          BY <3>2, <3>3, <3>4
        <4>2. ~Strays(old, dev) /\ k.creator \notin stray
          BY <2>3, <3>1, <4>1 DEF StrayAfter
        <4>3. old.st # "error" /\ dev.nei = old.nei
          BY <3>1, <4>1, <4>2 DEF Strays
        <4>4. QED BY <3>2, <4>1, <4>2, <4>3
      <3>7. U.links[l].status # 1
        BY <1>6, <2>3
      <3>8. QED BY <1>4, <3>1, <3>5, <3>6, <3>7 DEF Vouched
    <2>4. QED BY <2>2, <2>3
  <1>8. QED BY <1>5, <1>7

\* After a live report every link is settled: those it brings, those of the old
\* record it keeps, and those it does not concern.
LEMMA ProcessedSettled ==
    ASSUME NEW S, ConsistentStore(S), AllSettled(S, stray), NEW d \in DevId, NEW dev \in DevRec,
           GoodRows(d, dev), Follows(S.devs[d], dev), NEW row \in RowChoices(S, d, dev)
    PROVE  AllSettled(Processed(S, d, dev, row), StrayAfter(d, S.devs[d], dev))
  <1> DEFINE T == Discovered(S, d, dev, row)
             seen == SeenLinks(S, d, dev)
             own == OwnLists(S, d, dev)
             old == Carried(T, d, seen)
             U == CarriedOver(T, d, dev, own, old)
             kept == {l \in old : Keeps(T, d, dev, l)}
             B == StrayAfter(d, S.devs[d], dev)
  <1>s. S \in Store /\ LinkIntegrityOf(S) /\ NoDanglingIdOf(S)
    BY DEF ConsistentStore
  <1>d. /\ T.devs = S.devs /\ T \in Store /\ seen \subseteq Cables
        /\ \A l \in Cables : l \notin seen => T.links[l] = S.links[l]
        /\ \A p \in Port : S.lists[p] \subseteq T.lists[p]
        /\ \A p \in Port : \A l \in T.lists[p] : T.links[l] # NoLink /\ p \in l
    BY DiscoveredNames
  <1>u. /\ U.devs = [S.devs EXCEPT ![d] = dev]
        /\ \A l \in Cables : U.links[l] =
              IF l \in old \ kept THEN NoLink
              ELSE IF l \in kept THEN [T.links[l] EXCEPT !.status = KeptStatus(T, d, dev, l)]
              ELSE T.links[l]
    BY <1>d DEF CarriedOver
  <1>o. old = {l \in UNION {T.lists[<<d, i>>] : i \in IfName} : l \notin seen /\ T.links[l] # NoLink}
    BY DEF Carried
  <1>p. \A i \in IfName : <<d, i>> \in Port /\ <<d, i>>[1] = d
    BY DEF Port
  <1> SUFFICES ASSUME NEW l \in Cables, U.links[l] # NoLink, ~Loop(l) PROVE Settled(U, l, B)
    BY DEF Processed, AllSettled, Settled
  <1> HIDE DEF T, seen, own, old, U, kept, B
  <1>1. CASE l \in seen
    <2>1. U.links[l] = NewLink(S, d, dev, row[l])
      <3>1. T.links[l] = NewLink(S, d, dev, row[l])
        BY <1>1 DEF T, seen, Discovered
      <3>2. l \notin old
        BY <1>1, <1>o
      <3>3. QED BY <1>u, <3>1, <3>2 DEF kept
    <2>2. QED BY <1>s, <1>u, <1>1, <2>1, SeenSettled DEF seen
  <1>2. CASE l \notin seen
    <2>1. T.links[l] = S.links[l] /\ S.links[l] # NoLink /\ Settled(S, l, stray)
      <3>1. T.links[l] = S.links[l]
        BY <1>d, <1>2
      <3>2. T.links[l] = NoLink => l \notin old /\ l \notin kept
        BY <1>o DEF kept
      <3>3. T.links[l] # NoLink
        BY <1>u, <3>2
      <3>4. QED BY <3>1, <3>3 DEF AllSettled
    <2>2. CASE d \in EndDevs(l)
      <3>1. PICK p \in l : p[1] = d
        BY <2>2 DEF EndDevs
      <3>2. p \in Port /\ p[2] \in IfName /\ p = <<d, p[2]>> /\ l \in S.lists[p]
        BY <2>1, <3>1, SharedLink DEF Port
      <3>3. l \in old
        BY <1>d, <1>o, <1>2, <2>1, <3>2
      <3>4. l \in kept /\ U.links[l] = [S.links[l] EXCEPT !.status = KeptStatus(T, d, dev, l)]
        BY <1>u, <2>1, <3>3
      <3>5. Keeps(S, d, dev, l) /\ KeptStatus(S, d, dev, l) = KeptStatus(T, d, dev, l)
        BY <1>d, <2>1, <3>4 DEF kept, Keeps, KeptStatus, RecOf
      <3>6. QED BY <1>u, <2>1, <2>2, <3>4, <3>5, KeptSettled DEF B
    <2>3. CASE d \notin EndDevs(l)
      <3>1. l \notin old
        <4>1. ASSUME NEW i \in IfName PROVE l \notin T.lists[<<d, i>>]
          <5>1. <<d, i>> \notin l
            BY <1>p, <2>3 DEF EndDevs
          <5>2. QED BY <1>d, <1>p, <5>1
        <4>2. QED BY <1>o, <4>1
      <3>2. U.links[l] = S.links[l]
        BY <1>u, <2>1, <3>1 DEF kept
      <3>3. \A p \in l : U.devs[p[1]] = S.devs[p[1]] /\ (p[1] \in stray => p[1] \in B)
        BY <1>s, <1>u, <2>3, CablePorts DEF EndDevs, Store, StrayAfter, B
      <3>4. QED BY <2>1, <3>2, <3>3, UntouchedSettled
    <2>4. QED BY <2>2, <2>3
  <1>3. QED BY <1>1, <1>2

\* Neither startup pass decides upon links of a previous run: with an empty old the
\* second half changes no link.
LEMMA StartupSettled ==
    ASSUME NEW S, NEW A, ConsistentStore(S), AllSettled(S, A), NEW d \in DevId, NEW dev \in DevRec,
           GoodRows(d, dev), S.devs[d] = NoDev \/ S.devs[d] = dev,
           NEW row \in RowChoices(S, d, dev), NEW own
    PROVE  AllSettled(CarriedOver(Discovered(S, d, dev, row), d, dev, own, {}), A)
  <1> DEFINE T == Discovered(S, d, dev, row)
             seen == SeenLinks(S, d, dev)
             U == CarriedOver(T, d, dev, own, {})
  <1>s. S \in Store /\ LinkIntegrityOf(S)
    BY DEF ConsistentStore
  <1>d. /\ T.devs = S.devs /\ seen \subseteq Cables
        /\ \A l \in Cables : T.links[l] = IF l \in seen THEN NewLink(S, d, dev, row[l])
                                           ELSE S.links[l]
    BY DiscoveredNames DEF Discovered
  <1>u. /\ U.devs = [S.devs EXCEPT ![d] = dev]
        /\ \A l \in Cables : U.links[l] = T.links[l]
    BY <1>d DEF CarriedOver
  <1> SUFFICES ASSUME NEW l \in Cables, U.links[l] # NoLink, ~Loop(l) PROVE Settled(U, l, A)
    BY DEF AllSettled, Settled
  <1> HIDE DEF T, seen, U
  <1>1. CASE l \in seen
    BY <1>s, <1>d, <1>u, <1>1, SeenSettled DEF seen
  <1>2. CASE l \notin seen
    <2>1. U.links[l] = S.links[l] /\ S.links[l] # NoLink /\ Settled(S, l, A)
      BY <1>d, <1>u, <1>2 DEF AllSettled
    <2>2. \A p \in l : U.devs[p[1]] = S.devs[p[1]]
      BY <1>s, <1>u, <2>1, CablePorts DEF LinkIntegrityOf, Store
    <2>3. QED BY <2>1, <2>2, UntouchedSettled
  <1>3. QED BY <1>1, <1>2

\* Init and every step settle all links.
LEMMA InitSettled == Init => AllSettled(Cur, stray)
  BY DEF Init, Cur, AllSettled, Settled

LEMMA NextSettled == IInv /\ AllSettled(Cur, stray) /\ [Next]_vars => AllSettled(Cur, stray)'
  <1> SUFFICES ASSUME IInv, AllSettled(Cur, stray), [Next]_vars PROVE AllSettled(Cur, stray)'
    OBVIOUS
  <1> DEFINE Good(S) == ConsistentStore(S) /\ AllSettled(S, stray)
  <1>i. Good(Cur) /\ Cur.devs = devs /\ devs \in [DevId -> DevRec \union {NoDev}]
    BY DEF IInv, ConsistentStore, Cur, Store
  <1>w. ASSUME NEW S, Good(S), NEW d \in DevId PROVE Good(Wiped(S, d))
    BY <1>w, WipedConsistent, WipedSettled
  <1>b. ASSUME NEW S, ConsistentStore(S), AllSettled(S, stray'), Becomes(S) PROVE AllSettled(Cur, stray)'
    <2>1. Cur' = S
      BY <1>b DEF Becomes, Cur, ConsistentStore, Store
    <2>2. QED BY <1>b, <2>1
  <1>u. ASSUME UNCHANGED <<devs, lists, l2_links, dev_refs, stray>> PROVE AllSettled(Cur, stray)'
    <2>1. Cur' = Cur
      BY <1>u DEF Cur
    <2>2. QED BY <1>u, <2>1
  <1>1. CASE EndLoad \/ EndRelink \/ UNCHANGED vars
    BY <1>1, <1>u DEF EndLoad, EndRelink, vars
  <1>3. ASSUME NEW d \in DevId, Load(d) PROVE AllSettled(Cur, stray)'
    <2> DEFINE S == IF devs[d] = NoDev THEN Cur ELSE Wiped(Cur, d)
    <2>1. PICK dev \in Observations(d) : \E row \in RowChoices(S, d, dev) :
             Becomes(Loaded(S, d, dev, row))
      BY <1>3 DEF Load
    <2>2. PICK row \in RowChoices(S, d, dev) : Becomes(Loaded(S, d, dev, row))
      BY <2>1
    <2>3. Good(S) /\ S.devs[d] = NoDev
      <3>1. CASE devs[d] = NoDev
        BY <1>i, <3>1
      <3>2. CASE devs[d] # NoDev
        <4>1. Wiped(Cur, d).devs[d] = NoDev
          BY DEF Wiped
        <4>2. QED BY <1>i, <1>w, <3>2, <4>1
      <3>3. QED BY <3>1, <3>2
    <2> HIDE DEF S
    <2>4. dev \in DevRec /\ GoodRows(d, dev)
      BY ObservationsGood
    <2>5. ConsistentStore(Loaded(S, d, dev, row))
      BY <2>3, <2>4, LoadedConsistent
    <2>6. AllSettled(Loaded(S, d, dev, row), stray) /\ stray' = stray
      BY <1>3, <2>3, <2>4, StartupSettled DEF Loaded, Load
    <2>7. QED BY <1>b, <2>2, <2>5, <2>6
  <1>4. ASSUME NEW d \in DevId, Relink(d) PROVE AllSettled(Cur, stray)'
    <2>0. devs[d] # NoDev
      BY <1>4 DEF IInv, Relink, VisitsKnown
    <2>1. PICK row \in RowChoices(Cur, d, devs[d]) : Becomes(Relinked(Cur, d, row))
      BY <1>4 DEF Relink
    <2>2. GoodRows(d, devs[d]) /\ devs[d] \in DevRec
      BY <1>i, <2>0 DEF AllGoodRows, IInv
    <2>3. ConsistentStore(Relinked(Cur, d, row))
      BY <1>i, <2>0, <2>2, RelinkedConsistent
    <2>4. AllSettled(Relinked(Cur, d, row), stray) /\ stray' = stray
      BY <1>i, <1>4, <2>2, StartupSettled DEF Relinked, Relink
    <2>5. QED BY <1>b, <2>1, <2>3, <2>4
  <1>5. ASSUME NEW d \in DevId, Process(d) PROVE AllSettled(Cur, stray)'
    <2>1. PICK own \in BOOLEAN, prev \in DevId :
            LET S0 == IF own THEN Wiped(Cur, d) ELSE Cur
                S  == IF prev # d THEN Wiped(S0, prev) ELSE S0
            IN  \E dev \in Observations(d) :
                  /\ Follows(S.devs[d], dev)
                  /\ stray' = StrayAfter(d, S.devs[d], dev)
                  /\ \E row \in RowChoices(S, d, dev) : Becomes(Processed(S, d, dev, row))
      BY <1>5 DEF Process
    <2> DEFINE S0 == IF own THEN Wiped(Cur, d) ELSE Cur
               S == IF prev # d THEN Wiped(S0, prev) ELSE S0
    <2>2. PICK dev \in Observations(d) :
            /\ Follows(S.devs[d], dev)
            /\ stray' = StrayAfter(d, S.devs[d], dev)
            /\ \E row \in RowChoices(S, d, dev) : Becomes(Processed(S, d, dev, row))
      BY <2>1
    <2>3. PICK row \in RowChoices(S, d, dev) : Becomes(Processed(S, d, dev, row))
      BY <2>2
    <2>4. Good(S0)
      BY <1>i, <1>w
    <2>5. Good(S)
      BY <1>w, <2>4
    <2> HIDE DEF S
    <2>6. dev \in DevRec /\ GoodRows(d, dev)
      BY ObservationsGood
    <2>7. ConsistentStore(Processed(S, d, dev, row))
      BY <2>5, <2>6, ProcessedConsistent
    <2>8. AllSettled(Processed(S, d, dev, row), stray')
      BY <2>2, <2>5, <2>6, ProcessedSettled
    <2>9. QED BY <1>b, <2>3, <2>7, <2>8
  <1>6. ASSUME NEW d \in DevId, WipeDev(d) PROVE AllSettled(Cur, stray)'
    BY <1>6, <1>i, <1>w, <1>b DEF WipeDev
  <1>7. QED
    BY <1>1, <1>3, <1>4, <1>5, <1>6 DEF Next

LEMMA SettledHolds == Spec => [](IInv /\ AllSettled(Cur, stray))
  <1>1. Init => IInv /\ AllSettled(Cur, stray)
    BY InitIInv, InitSettled
  <1>2. IInv /\ AllSettled(Cur, stray) /\ [Next]_vars => (IInv /\ AllSettled(Cur, stray))'
    BY NextIInv, NextSettled
  <1>3. QED BY <1>1, <1>2, PTL DEF Spec

\* The status of every link between two devices is that of its two interfaces,
\* whichever device was processed last.
THEOREM StatusFollowsBothEnds == Spec => []StatusExact
  <1>1. AllSettled(Cur, stray) => StatusExact
    BY DEF AllSettled, Settled, StatusRight, StatusExact, Cur
  <1>2. QED BY <1>1, SettledHolds, PTL

\* A link that is up is reported by its creator, unless a handler of the creator was
\* overtaken since its last later data.
THEOREM NothingIsKeptUp == Spec => []NoPhantomUp
  <1>1. IInv /\ AllSettled(Cur, stray) => NoPhantomUp
    <2> SUFFICES ASSUME IInv, AllSettled(Cur, stray), NEW l \in Cables, l2_links[l] # NoLink,
                        ~Loop(l), l2_links[l].status = 1, l2_links[l].creator \notin stray
                 PROVE  \E r \in devs[l2_links[l].creator].nei : KeyOf(l2_links[l].creator, r) = l
      BY DEF NoPhantomUp
    <2> DEFINE k == l2_links[l]
    <2>1. StatusRight(Cur, l) /\ Vouched(Cur, l, stray) /\ Cur.links[l] = k /\ Cur.devs = devs
      BY DEF AllSettled, Settled, Cur
    <2>2. l = {k.leg0, k.leg1} /\ k.creator = k.leg0[1]
      BY <2>1, SharedLink DEF IInv
    <2>3. devs[k.creator].st = "ok"
      BY <2>1, <2>2 DEF StatusRight, Live
    <2>4. k.time = devs[k.creator].seen
      BY <2>1 DEF Vouched
    <2>5. QED BY <2>1, <2>3, <2>4 DEF Vouched
  <1>2. QED BY <1>1, SettledHolds, PTL

=============================================================================
