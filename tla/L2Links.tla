------------------------------ MODULE L2Links ------------------------------
(***************************************************************************)
(* The map of physical links that map-broker keeps in memory: devs, the    *)
(* global data.l2_links and the reverse index dev_refs, as changed by      *)
(* processLinks (discovery from LLDP and CDP reports, then the carry-over  *)
(* of the links of the previous run) and by wipe_dev.                      *)
(*                                                                         *)
(* Every operation runs to its end under globalMutex, so a handler is one  *)
(* step.  The three maps are passed around as one record S of type Store,  *)
(* the way the Go functions share them as package variables.               *)
(***************************************************************************)
EXTENDS Integers, FiniteSets

CONSTANTS
    DevId,      \* device ids
    IfName,     \* interface names
    Cables,     \* the links that LLDP or CDP may report, a set of link ids
    Status,     \* the values of overall_status in play
    IfState,    \* the interface states in play
    MaxSeen,    \* bound on last_seen
    NoDev,      \* absence of a key in devs
    NoLink      \* absence of a key in data.l2_links

Port == DevId \X IfName

\* l2l_key orders the two ends before it joins them, so the key identifies
\* the unordered pair of ends.
l2l_key(p, q) == {p, q}

LinkId == {l2l_key(e[1], e[2]) : e \in {f \in Port \X Port : f[1] # f[2]}}

ASSUME CablesAssumption == Cables \subseteq LinkId
ASSUME StatusAssumption == "ok" \in Status /\ Status \subseteq {"ok", "paused", "error"}
\* "shut" has ifAdminStatus # 1; "down" is enabled with ifOperStatus # 1.
ASSUME IfStateAssumption == IfState \subseteq {"absent", "shut", "down", "up"}
ASSUME MaxSeenAssumption == MaxSeen \in Nat

\* One neighbour row: the local interface and the end it resolves to.
Report == IfName \X Port

Seen == 0 .. MaxSeen

\* The l2_links lists of the interfaces are kept apart from the record, in lists.
DevRec == [st : Status, seen : Seen, ifs : [IfName -> IfState],
           nei : SUBSET Report]

LinkRec == [creator : DevId, leg0 : Port, leg1 : Port, time : Seen, status : {1, 2}]

Store == [devs  : [DevId -> DevRec \union {NoDev}],
          lists : [Port -> SUBSET Cables],
          links : [Cables -> LinkRec \union {NoLink}],
          refs  : [DevId -> SUBSET Cables]]

ASSUME NoDevAssumption == NoDev \notin DevRec
ASSUME NoLinkAssumption == NoLink \notin LinkRec

EndDevs(l) == {p[1] : p \in l}

\* A cable between two interfaces of one device.
Loop(l) == \A p, q \in l : p[1] = q[1]

---------------------------------------------------------------------------
(* wipe_dev                                                                *)

\* Variant: the first leg, whoever created the link.
NeiLegFirst(k, d) == k.leg0

\* The leg that wipe_dev takes for the neighbour's.
NeiLeg(k, d) == IF k.creator = d THEN k.leg1 ELSE k.leg0

Wiped(S, d) ==
    LET gone == {l \in S.refs[d] : S.links[l] # NoLink}
    IN  [devs  |-> [x \in DevId |-> IF x = d THEN NoDev ELSE S.devs[x]],
         lists |-> [p \in Port |->
                      IF p[1] = d THEN {}
                      ELSE S.lists[p] \ {l \in gone : NeiLeg(S.links[l], d) = p}],
         links |-> [l \in Cables |-> IF l \in S.refs[d] THEN NoLink ELSE S.links[l]],
         refs  |-> [x \in DevId |->
                      IF x = d THEN {}
                      ELSE S.refs[x] \ {l \in gone : NeiLeg(S.links[l], d)[1] = x}]]

---------------------------------------------------------------------------
(* processLinks                                                            *)

Live(r, i) == r.st = "ok" /\ r.ifs[i] = "up"

\* find_lldp_nei / find_cdp_nei resolve a row against the known devices; a row
\* that resolves to the very port it was received on is skipped.
Resolved(S, d, dev) ==
    {r \in dev.nei : /\ S.devs[r[2][1]] # NoDev
                     /\ S.devs[r[2][1]].ifs[r[2][2]] # "absent"
                     /\ r[2] # <<d, r[1]>>}

KeyOf(d, r) == l2l_key(<<d, r[1]>>, r[2])

\* seen_links
SeenLinks(S, d, dev) == {KeyOf(d, r) : r \in Resolved(S, d, dev)}

\* Variant: status not set before the test.
NewLinkUnset(S, d, dev, r) ==
    [creator |-> d, leg0 |-> <<d, r[1]>>, leg1 |-> r[2], time |-> dev.seen,
     status |-> IF Live(dev, r[1]) /\ Live(S.devs[r[2][1]], r[2][2]) THEN 1 ELSE 0]

\* The link record built from one row.  The far end is always read from devs,
\* also when it is another interface of the device being processed.
NewLink(S, d, dev, r) ==
    [creator |-> d, leg0 |-> <<d, r[1]>>, leg1 |-> r[2], time |-> dev.seen,
     status |-> IF Live(dev, r[1]) /\ Live(S.devs[r[2][1]], r[2][2]) THEN 1 ELSE 2]

\* row[l] is the row whose record stays in l2_links: with a loop both of its
\* ends report the same key and Go's map order decides which is written last.
RowChoices(S, d, dev) ==
    {row \in [SeenLinks(S, d, dev) -> Resolved(S, d, dev)] :
        \A l \in DOMAIN row : KeyOf(d, row[l]) = l}

\* First half of processLinks: the links reported by d, also appended to the
\* lists of their far ends.
Discovered(S, d, dev, row) ==
    LET seen == SeenLinks(S, d, dev)
    IN  [devs  |-> S.devs,
         lists |-> [p \in Port |-> S.lists[p] \union
                      {KeyOf(d, r) : r \in {q \in Resolved(S, d, dev) : q[2] = p}}],
         links |-> [l \in Cables |-> IF l \in seen THEN NewLink(S, d, dev, row[l])
                                                   ELSE S.links[l]],
         refs  |-> [x \in DevId |-> S.refs[x] \union {l \in seen : x \in EndDevs(l)}]]

\* What it puts on the interfaces of the new record of d.
OwnLists(S, d, dev) ==
    [p \in Port |-> {KeyOf(d, r) : r \in {q \in Resolved(S, d, dev) : <<d, q[1]>> = p}}]

\* Variant: the record in devs, not the one being processed.
RecOfStored(S, d, dev, x) == S.devs[x]

\* l0M / l1M: the record that stands for device x while d is processed.
RecOf(S, d, dev, x) == IF x = d THEN dev ELSE S.devs[x]

\* Variant: any link that another device created.
VouchedEver(k, d, m0) == k.creator # d

\* The link was created by the other device, from the data it has now.
VouchedByPeer(k, d, m0) == k.creator # d /\ k.time = m0.seen

\* The condition on which a link of the previous run survives.
Keeps(S, d, dev, l) ==
    LET k  == S.links[l]
        m0 == RecOf(S, d, dev, k.leg0[1])
        m1 == RecOf(S, d, dev, k.leg1[1])
        s0 == m0.ifs[k.leg0[2]]
        s1 == m1.ifs[k.leg1[2]]
    IN  /\ k.leg0[1] = d \/ k.leg1[1] = d
        /\ k.leg0 # k.leg1
        /\ m0 # NoDev /\ m1 # NoDev
        /\ s0 \in {"down", "up"} /\ s1 \in {"down", "up"}
        /\ \/ m0.st # "ok" \/ m1.st # "ok"
           \/ s0 = "down" /\ s1 = "down"
           \/ s0 = "up" /\ s1 = "up" /\ VouchedByPeer(k, d, m0)

\* Variant: the status it was created with.
KeptStatusOld(S, d, dev, l) == S.links[l].status

\* Its status once kept.
KeptStatus(S, d, dev, l) ==
    LET k == S.links[l]
    IN  IF /\ Live(RecOf(S, d, dev, k.leg0[1]), k.leg0[2])
           /\ Live(RecOf(S, d, dev, k.leg1[1]), k.leg1[2]) THEN 1 ELSE 2

\* Variant: the links of the previous run are not looked at.
CarriedNone(S, d, seen) == {}

\* The links that the interfaces of the old record of d list and that were not
\* seen in this run.
Carried(S, d, seen) ==
    {l \in UNION {S.lists[<<d, i>>] : i \in IfName} : l \notin seen /\ S.links[l] # NoLink}

\* Second half of processLinks and devs[dev_id] = dev: own is what the new
\* record lists so far, old the links it has to decide upon.
CarriedOver(S, d, dev, own, old) ==
    LET kept == {l \in old : Keeps(S, d, dev, l)}
        lost == old \ kept
        ends(l) == {S.links[l].leg0, S.links[l].leg1}
        list(p) == IF p[1] = d THEN own[p] ELSE S.lists[p]
        endsAt(L, x) == {l \in L : \E p \in ends(l) : p[1] = x}
    IN  [devs  |-> [S.devs EXCEPT ![d] = dev],
         lists |-> [p \in Port |-> (list(p) \ {l \in lost : p \in ends(l)})
                                     \union {l \in kept : p \in ends(l)}],
         links |-> [l \in Cables |->
                      IF l \in lost THEN NoLink
                      ELSE IF l \in kept
                        THEN [S.links[l] EXCEPT !.status = KeptStatus(S, d, dev, l)]
                      ELSE S.links[l]],
         refs  |-> [x \in DevId |-> (S.refs[x] \ endsAt(lost, x)) \union endsAt(kept, x)]]

\* process_ip_data of a live report.
Processed(S, d, dev, row) ==
    LET T == Discovered(S, d, dev, row)
    IN  CarriedOver(T, d, dev, OwnLists(S, d, dev), Carried(T, d, SeenLinks(S, d, dev)))

\* process_ip_data(startup): links of a previous run are not looked at.
Loaded(S, d, dev, row) ==
    CarriedOver(Discovered(S, d, dev, row), d, dev, OwnLists(S, d, dev), {})

\* The second pass of the startup: dev is devs[d] itself, so what the first
\* half appends to the far ends of d lands in the same lists.
Relinked(S, d, row) ==
    LET T == Discovered(S, d, S.devs[d], row)
        own == OwnLists(S, d, S.devs[d])
    IN  CarriedOver(T, d, S.devs[d], [p \in Port |-> T.lists[p] \union own[p]], {})

---------------------------------------------------------------------------
(* What a gathering of device d may bring                                  *)

ReportsOf(d) == {r \in Report : r[2] # <<d, r[1]>> /\ KeyOf(d, r) \in Cables}

\* A decoded record: rows only on existing interfaces.
Observations(d) ==
    {o \in [st : Status, seen : Seen, ifs : [IfName -> IfState],
            nei : SUBSET ReportsOf(d)] :
        \A r \in o.nei : o.ifs[r[1]] # "absent"}

\* last_seen only moves to the save time of new data, and a queue in error has
\* no save time: an error report leaves it where it was.  Another report brings a
\* later one, or leaves it where it was: it has the very same data, or it is paused
\* and a queue of it is in error, or it was overtaken by the handler of a later report
\* of its address and brings older data after last_seen has moved.
Follows(old, o) ==
    old # NoDev =>
        IF o.st = "error" THEN o.seen = old.seen
        ELSE o.seen \in {old.seen, old.seen + 1}

\* The record o that replaces old has other rows although last_seen has not moved.
Strays(old, o) ==
    /\ old # NoDev /\ o.seen = old.seen
    /\ o.st # "error" /\ (old.st = "error" \/ o.nei # old.nei)

---------------------------------------------------------------------------

VARIABLES
    devs,       \* device id -> record, or NoDev
    lists,      \* port -> devs[d].interfaces[if].l2_links, {} when there is none
    l2_links,   \* data.l2_links
    dev_refs,   \* dev_refs[d].l2_links, {} when the key is missing
    phase,      \* "load", "relink": the two passes of the startup; "run"
    todo,       \* devices the current startup pass has still to visit
    stray       \* history: devices whose rows are not those of their last_seen

vars == <<devs, lists, l2_links, dev_refs, phase, todo, stray>>

Cur == [devs |-> devs, lists |-> lists, links |-> l2_links, refs |-> dev_refs]

Becomes(S) ==
    /\ devs' = S.devs /\ lists' = S.lists
    /\ l2_links' = S.links /\ dev_refs' = S.refs

Init ==
    /\ devs = [d \in DevId |-> NoDev]
    /\ lists = [p \in Port |-> {}]
    /\ l2_links = [l \in Cables |-> NoLink]
    /\ dev_refs = [d \in DevId |-> {}]
    /\ phase = "load"
    /\ todo = DevId
    /\ stray = {}

\* Variant: the earlier record is overwritten without being wiped.
LoadOver(d) ==
    /\ phase = "load"
    /\ \E dev \in Observations(d) : \E row \in RowChoices(Cur, d, dev) :
          Becomes(Loaded(Cur, d, dev, row))
    /\ todo' = todo \ {d}
    /\ UNCHANGED <<phase, stray>>

\* process_ip_data(startup = true) of one address of the redis dev_list.  When
\* two addresses answer with one id the later wipes the earlier.
Load(d) ==
    /\ phase = "load"
    /\ LET S == IF devs[d] = NoDev THEN Cur ELSE Wiped(Cur, d)
       IN  \E dev \in Observations(d) : \E row \in RowChoices(S, d, dev) :
             Becomes(Loaded(S, d, dev, row))
    /\ todo' = todo \ {d}
    /\ UNCHANGED <<phase, stray>>

\* wg_.Wait(): all addresses are loaded; those never loaded stay unknown.
EndLoad ==
    /\ phase = "load"
    /\ phase' = "relink"
    /\ todo' = {d \in DevId : devs[d] # NoDev}
    /\ UNCHANGED <<devs, lists, l2_links, dev_refs, stray>>

Relink(d) ==
    /\ phase = "relink"
    /\ d \in todo
    /\ \E row \in RowChoices(Cur, d, devs[d]) : Becomes(Relinked(Cur, d, row))
    /\ todo' = todo \ {d}
    /\ UNCHANGED <<phase, stray>>

EndRelink ==
    /\ phase = "relink"
    /\ todo = {}
    /\ phase' = "run"
    /\ UNCHANGED <<devs, lists, l2_links, dev_refs, todo, stray>>

\* stray, once the record o of d has replaced old: a device is astray until a record
\* with a later last_seen is processed, or one that replaces none.
StrayAfter(d, old, o) ==
    IF Strays(old, o) THEN stray \union {d}
    ELSE IF old # NoDev /\ o.seen = old.seen THEN stray
    ELSE stray \ {d}

\* The locked part of process_ip_data for a live report of d.  purge holds what
\* it wipes first: d itself when another address held the id, and the previous
\* id of the address when that changed (wiping an unknown id changes nothing).
Process(d) ==
    /\ phase = "run"
    /\ \E own \in BOOLEAN, prev \in DevId :
         /\ own => devs[d] # NoDev
         /\ prev # d => devs[prev] # NoDev
         /\ LET S0 == IF own THEN Wiped(Cur, d) ELSE Cur
                S  == IF prev # d THEN Wiped(S0, prev) ELSE S0
            IN  \E dev \in Observations(d) :
                  /\ Follows(S.devs[d], dev)
                  /\ stray' = StrayAfter(d, S.devs[d], dev)
                  /\ \E row \in RowChoices(S, d, dev) : Becomes(Processed(S, d, dev, row))
    /\ UNCHANGED <<phase, todo>>

\* A device leaves: its address was removed, ignored or lost a conflict, or an
\* operator asked for it.
WipeDev(d) ==
    /\ phase = "run"
    /\ Becomes(Wiped(Cur, d))
    /\ UNCHANGED <<phase, todo, stray>>

Next ==
    \/ EndLoad
    \/ EndRelink
    \/ \E d \in DevId : Load(d) \/ Relink(d) \/ Process(d) \/ WipeDev(d)

Spec == Init /\ [][Next]_vars

---------------------------------------------------------------------------
(* Properties                                                              *)

\* The three maps and the startup bookkeeping keep their types.
TypeOK ==
    /\ Cur \in Store
    /\ phase \in {"load", "relink", "run"}
    /\ todo \in SUBSET DevId
    /\ stray \in SUBSET DevId

\* Every link of the exported map (map-broker.go:108) joins two known devices,
\* is indexed in dev_refs under both, so that wipe_dev of either finds it, and
\* is listed on the interfaces it joins, so that the next run of either end
\* reconsiders it.  A cable that loops back to its own device may be listed on
\* one of its interfaces only, which is still enough for both purposes.
LinkIntegrityOf(S) ==
    \A l \in Cables : S.links[l] # NoLink =>
        /\ {S.links[l].leg0, S.links[l].leg1} = l
        /\ S.links[l].creator = S.links[l].leg0[1]
        /\ \A p \in l : S.devs[p[1]] # NoDev /\ l \in S.refs[p[1]]
        /\ IF Loop(l) THEN \E p \in l : l \in S.lists[p]
           ELSE \A p \in l : S.devs[p[1]].ifs[p[2]] # "absent" /\ l \in S.lists[p]

LinkIntegrity == LinkIntegrityOf(Cur)

\* Conversely no interface list and no dev_refs entry names a link that is not
\* in l2_links or that does not end there ("Should not get here!",
\* process_ip.go:512), and a wiped device leaves no reference behind.
NoDanglingIdOf(S) ==
    /\ \A x \in DevId : \A l \in S.refs[x] : S.links[l] # NoLink /\ x \in EndDevs(l)
    /\ \A p \in Port : \A l \in S.lists[p] : S.links[l] # NoLink /\ p \in l

NoDanglingId == NoDanglingIdOf(Cur)

\* A link between two devices is shown up exactly when both of its interfaces
\* are up on two devices in good state, whichever of them was processed last:
\* processing one end re-evaluates every link it shares with the others.
StatusExact ==
    \A l \in Cables : l2_links[l] # NoLink /\ ~Loop(l) =>
        (l2_links[l].status = 1 <=> \A p \in l : Live(devs[p[1]], p[2]))

\* A link between two devices that is shown up is one that the device which created
\* it reports in its current data: a cable that was moved is not kept up by the
\* carry-over of either end.  A handler that is overtaken by a later one of its address
\* does keep one up, and does so only until the next later data of that device are
\* processed ("link created by live divice, which seen us recently",
\* process_ip.go:545).
NoPhantomUp ==
    \A l \in Cables : l2_links[l] # NoLink /\ ~Loop(l) /\ l2_links[l].status = 1 =>
        LET x == l2_links[l].creator
        IN  x \in stray \/ \E r \in devs[x].nei : KeyOf(x, r) = l

=============================================================================
