---------------------------- MODULE MapStoreProofs ----------------------------
(***************************************************************************)
(* Proofs about MapStore, for any users, any items of a layout and any     *)
(* number of requests of a page under way at once.                         *)
(***************************************************************************)
EXTENDS MapStore, TLAPS

Calls == CallType \cup {NoCall}

EarlyIn(cs) == \E s \in Slots : Early(cs[s])

\* A save that has written the user's layout and will be answered.
OwedCall(c) == c # NoCall /\ c.op = "save" /\ ~Early(c) /\ c.heard

Owed(cs) == \E s \in Slots : OwedCall(cs[s])

(* What the invariant says of a page, as operators on what there is of it: the stored *)
(* layout st, the shown one sh, view vw, loading ld, amiss am, unsure un, calls cs.   *)

\* The items that the page is sure of are stored as they are shown.
Agree(st, sh, un) == \A i \in Items \ un : i \in sh <=> i \in Content(st)

\* They are so in every layout that a save is about to write.
SaveFits(c, sh, vw, un) ==
  /\ c.val \subseteq c.part
  /\ c.at = "read" => c.part # Items
  /\ c.part # Items => vw = "own" \/ un = Items
  /\ \A i \in Items \ un : /\ i \in c.part => (i \in c.val <=> i \in sh)
                           /\ c.at = "write" /\ i \notin c.part => (i \in c.buf <=> i \in sh)

EarlyFits(sh, vw, un, cs) ==
  \A s \in Slots : Early(cs[s]) =>
    IF cs[s].op = "save" THEN SaveFits(cs[s], sh, vw, un) ELSE un = Items

\* A save that nothing has crossed brings what is shown.
AloneCall(c, sh, vw) == /\ c.op = "save" /\ Early(c)
                        /\ \A i \in c.part : i \in c.val <=> i \in sh
                        /\ c.part # Items => vw = "own"

AloneFits(sh, vw, cs) ==
  \A s \in Slots : cs[s] # NoCall /\ cs[s].alone =>
    AloneCall(cs[s], sh, vw) /\ \A t \in Slots \ {s} : ~Early(cs[t])

\* A page that is being loaded is sure of nothing and hears nothing.
LoadFits(st, ld, am, un, cs) ==
  /\ ld # "no" => un = Items /\ \A s \in Slots : cs[s] # NoCall => ~cs[s].heard /\ ~cs[s].alone
  /\ ld = "def" /\ ~am => st = NoMap /\ ~EarlyIn(cs)

\* Nothing is written under a page that shows the default layout unasked, except by a
\* save of its own whose answer makes it show its user's layout.
HeardFits(st, vw, ld, am, cs) ==
  ld = "no" /\ ~am => /\ \A s \in Slots : Early(cs[s]) => cs[s].heard
                      /\ vw = "default" => st = NoMap \/ Owed(cs)

Fits(st, sh, vw, ld, am, un, cs) ==
  /\ vw = "own" \/ Owed(cs) => Agree(st, sh, un)
  /\ EarlyFits(sh, vw, un, cs)
  /\ AloneFits(sh, vw, cs)
  /\ LoadFits(st, ld, am, un, cs)
  /\ HeardFits(st, vw, ld, am, cs)

PageOK(p) == Fits(stored[p], shown[p], view[p], loading[p], amiss[p], unsure[p], calls[p])

IInv == TypeOK /\ \A p \in Pages : PageOK(p)

-------------------------------------------------------------------------------
(* Requests of one page. *)

\* Once something is amiss less is expected.
LEMMA BadFits ==
  ASSUME NEW st, NEW sh, NEW vw, NEW ld, NEW am, NEW un, NEW cs, Fits(st, sh, vw, ld, am, un, cs)
  PROVE  Fits(st, sh, vw, ld, TRUE, un, cs)
  BY DEF Fits, LoadFits, HeardFits

\* A request that goes on after its write, or ends, without a change of the layouts.
LEMMA LateFits ==
  ASSUME NEW st, NEW sh, NEW vw, NEW ld, NEW am, NEW un, NEW cs \in [Slots -> Calls],
         Fits(st, sh, vw, ld, am, un, cs),
         NEW s \in Slots, NEW d \in Calls, cs[s] # NoCall,
         ~Early(d), OwedCall(d) => OwedCall(cs[s]),
         OwedCall(cs[s]) => OwedCall(d) \/ am = TRUE \/ vw # "default",
         d # NoCall => ~d.alone /\ (d.heard => cs[s].heard)
  PROVE  Fits(st, sh, vw, ld, am, un, [cs EXCEPT ![s] = d])
  <1> DEFINE ds == [cs EXCEPT ![s] = d]
  <1>1. ds[s] = d /\ \A t \in Slots \ {s} : ds[t] = cs[t]
    OBVIOUS
  <1> HIDE DEF ds
  <1>2. \A t \in Slots : Early(ds[t]) => t # s /\ ds[t] = cs[t] /\ Early(cs[t])
    BY <1>1
  <1>3. (Owed(ds) => Owed(cs)) /\ (Owed(cs) => Owed(ds) \/ am = TRUE \/ vw # "default")
    BY <1>1 DEF Owed
  <1>4. EarlyFits(sh, vw, un, ds)
    BY <1>2 DEF EarlyFits, Fits
  <1>5. AloneFits(sh, vw, ds)
    <2> SUFFICES ASSUME NEW t \in Slots, ds[t] # NoCall, ds[t].alone
                 PROVE  AloneCall(ds[t], sh, vw) /\ \A u \in Slots \ {t} : ~Early(ds[u])
      BY DEF AloneFits
    <2>1. t # s /\ ds[t] = cs[t]
      BY <1>1
    <2> QED
      BY <1>2, <2>1 DEF Fits, AloneFits
  <1>6. LoadFits(st, ld, am, un, ds)
    BY <1>1, <1>2 DEF LoadFits, EarlyIn, Fits
  <1>7. HeardFits(st, vw, ld, am, ds)
    BY <1>2, <1>3 DEF HeardFits, Fits
  <1>8. vw = "own" \/ Owed(ds) => Agree(st, sh, un)
    BY <1>3 DEF Fits
  <1> QED
    BY <1>4, <1>5, <1>6, <1>7, <1>8 DEF Fits, ds

\* The answer to an early request is lost.
LEMMA LostFits ==
  ASSUME NEW st, NEW sh, NEW vw, NEW ld, NEW am, NEW un, NEW cs \in [Slots -> Calls],
         Fits(st, sh, vw, ld, am, un, cs), NEW s \in Slots, Early(cs[s]),
         NEW d, d = [cs[s] EXCEPT !.heard = FALSE]
  PROVE  Fits(st, sh, vw, ld, TRUE, un, [cs EXCEPT ![s] = d])
  <1> DEFINE ds == [cs EXCEPT ![s] = d]
  <1>1. ds[s] = d /\ \A t \in Slots \ {s} : ds[t] = cs[t]
    OBVIOUS
  <1>2. cs[s] \in CallType /\ d \in CallType /\ cs[s] # NoCall /\ d # NoCall
    BY NoCallAssumption DEF Early, Calls, CallType
  <1>3. /\ d.op = cs[s].op /\ d.at = cs[s].at /\ d.part = cs[s].part /\ d.val = cs[s].val
        /\ d.buf = cs[s].buf /\ d.alone = cs[s].alone /\ d.heard = FALSE
    BY <1>2 DEF CallType
  <1>4. Early(d) /\ ~OwedCall(d) /\ ~OwedCall(cs[s])
    BY <1>2, <1>3 DEF Early, OwedCall
  <1>5. Owed(ds) => Owed(cs)
    BY <1>1, <1>4 DEF Owed
  <1> HIDE DEF ds
  <1>6. \A t \in Slots : Early(ds[t]) <=> Early(cs[t])
    BY <1>1, <1>4
  <1>7. EarlyFits(sh, vw, un, ds)
    <2> SUFFICES ASSUME NEW t \in Slots, Early(ds[t])
                 PROVE  IF ds[t].op = "save" THEN SaveFits(ds[t], sh, vw, un) ELSE un = Items
      BY DEF EarlyFits
    <2>1. IF cs[t].op = "save" THEN SaveFits(cs[t], sh, vw, un) ELSE un = Items
      BY <1>6 DEF Fits, EarlyFits
    <2>2. CASE t # s
      BY <1>1, <2>1, <2>2
    <2>3. CASE t = s
      BY <1>1, <1>3, <2>1, <2>3 DEF SaveFits
    <2> QED
      BY <2>2, <2>3
  <1>8. AloneFits(sh, vw, ds)
    <2> SUFFICES ASSUME NEW t \in Slots, ds[t] # NoCall, ds[t].alone
                 PROVE  AloneCall(ds[t], sh, vw) /\ \A u \in Slots \ {t} : ~Early(ds[u])
      BY DEF AloneFits
    <2>1. cs[t] # NoCall /\ cs[t].alone
      BY <1>1, <1>2, <1>3
    <2>2. AloneCall(cs[t], sh, vw) /\ \A u \in Slots \ {t} : ~Early(cs[u])
      BY <2>1 DEF Fits, AloneFits
    <2>3. AloneCall(ds[t], sh, vw)
      BY <1>1, <1>3, <1>4, <2>2 DEF AloneCall
    <2> QED
      BY <1>6, <2>2, <2>3
  <1>9. LoadFits(st, ld, TRUE, un, ds)
    <2>1. ld # "no" => un = Items /\ \A t \in Slots : cs[t] # NoCall => ~cs[t].heard /\ ~cs[t].alone
      BY DEF Fits, LoadFits
    <2> QED
      BY <1>1, <1>2, <1>3, <2>1 DEF LoadFits
  <1>10. HeardFits(st, vw, ld, TRUE, ds)
    BY DEF HeardFits
  <1>11. vw = "own" \/ Owed(ds) => Agree(st, sh, un)
    BY <1>5 DEF Fits
  <1> QED
    BY <1>7, <1>8, <1>9, <1>10, <1>11 DEF Fits, ds

\* A save or deletion is sent: un2 has all items that are shown in another way than before.
LEMMA SendFits ==
  ASSUME NEW st, NEW sh, NEW vw, NEW am \in BOOLEAN, NEW un, NEW cs \in [Slots -> Calls],
         Fits(st, sh, vw, "no", am, un, cs),
         NEW sh2, NEW un2 \in SUBSET Items, un \subseteq un2,
         \A i \in Items \ un2 : i \in sh2 <=> i \in sh,
         NEW s \in Slots, cs[s] = NoCall, NEW c \in CallType, Early(c), c.heard,
         IF c.op = "save" THEN SaveFits(c, sh2, vw, un2) ELSE un2 = Items,
         c.alone => AloneCall(c, sh2, vw) /\ ~EarlyIn(cs)
  PROVE  Fits(st, sh2, vw, "no", am, un2, [Crossed(cs) EXCEPT ![s] = c])
  <1> DEFINE ds == [Crossed(cs) EXCEPT ![s] = c]
  <1>1. ds[s] = c /\ \A t \in Slots \ {s} : ds[t] = Crossed(cs)[t]
    BY DEF Crossed
  <1> HIDE DEF ds
  <1>2. ASSUME NEW t \in Slots, t # s, cs[t] # NoCall
        PROVE  /\ ds[t] # NoCall /\ ds[t].op = cs[t].op /\ ds[t].at = cs[t].at /\ ds[t].part = cs[t].part
               /\ ds[t].val = cs[t].val /\ ds[t].buf = cs[t].buf /\ ds[t].heard = cs[t].heard /\ ~ds[t].alone
    <2>1. cs[t] \in CallType
      BY <1>2 DEF Calls
    <2>2. ds[t] = [cs[t] EXCEPT !.alone = FALSE]
      BY <1>1, <1>2 DEF Crossed
    <2>3. ds[t] \in CallType
      BY <2>1, <2>2 DEF CallType
    <2> QED
      BY <2>1, <2>2, <2>3, NoCallAssumption DEF CallType
  <1>3. \A t \in Slots : t # s /\ cs[t] = NoCall => ds[t] = NoCall
    BY <1>1 DEF Crossed
  <1>4. ASSUME NEW t \in Slots, t # s
        PROVE  /\ Early(ds[t]) <=> Early(cs[t])
               /\ OwedCall(ds[t]) <=> OwedCall(cs[t])
    <2>1. CASE cs[t] = NoCall
      BY <1>3, <1>4, <2>1 DEF Early, OwedCall
    <2>2. CASE cs[t] # NoCall
      BY <1>2, <1>4, <2>2 DEF Early, OwedCall
    <2> QED
      BY <2>1, <2>2
  <1>5. ~OwedCall(c) /\ ~OwedCall(cs[s]) /\ c # NoCall
    BY NoCallAssumption DEF OwedCall
  <1>6. Owed(ds) <=> Owed(cs)
    BY <1>1, <1>4, <1>5 DEF Owed
  <1>7. EarlyFits(sh2, vw, un2, ds)
    <2> SUFFICES ASSUME NEW t \in Slots, Early(ds[t])
                 PROVE  IF ds[t].op = "save" THEN SaveFits(ds[t], sh2, vw, un2) ELSE un2 = Items
      BY DEF EarlyFits
    <2>1. CASE t = s
      BY <1>1, <2>1
    <2>2. CASE t # s
      <3>1. Early(cs[t]) /\ cs[t] # NoCall
        BY <1>4, <2>2 DEF Early
      <3>2. IF cs[t].op = "save" THEN SaveFits(cs[t], sh, vw, un) ELSE un = Items
        BY <3>1 DEF Fits, EarlyFits
      <3>3. CASE cs[t].op # "save"
        <4>1. un2 = Items
          BY <3>2, <3>3
        <4> QED
          BY <1>2, <2>2, <3>1, <3>3, <4>1
      <3>4. CASE cs[t].op = "save"
        <4>1. SaveFits(cs[t], sh2, vw, un2)
          BY <3>2, <3>4 DEF SaveFits
        <4> QED
          BY <1>2, <2>2, <3>1, <3>4, <4>1 DEF SaveFits
      <3> QED
        BY <3>3, <3>4
    <2> QED
      BY <2>1, <2>2
  <1>8. AloneFits(sh2, vw, ds)
    <2> SUFFICES ASSUME NEW t \in Slots, ds[t] # NoCall, ds[t].alone
                 PROVE  AloneCall(ds[t], sh2, vw) /\ \A u \in Slots \ {t} : ~Early(ds[u])
      BY DEF AloneFits
    <2>1. t = s
      BY <1>2, <1>3
    <2> QED
      BY <1>1, <1>4, <2>1 DEF EarlyIn
  <1>9. LoadFits(st, "no", am, un2, ds)
    BY DEF LoadFits
  <1>10. HeardFits(st, vw, "no", am, ds)
    <2> SUFFICES ASSUME ~am
                 PROVE  /\ \A t \in Slots : Early(ds[t]) => ds[t].heard
                        /\ vw = "default" => st = NoMap \/ Owed(ds)
      BY DEF HeardFits
    <2>1. /\ \A t \in Slots : Early(cs[t]) => cs[t].heard
          /\ vw = "default" => st = NoMap \/ Owed(cs)
      BY DEF Fits, HeardFits
    <2>2. ASSUME NEW t \in Slots, t # s, Early(ds[t]) PROVE ds[t].heard
      BY <1>2, <1>4, <2>1, <2>2 DEF Early
    <2> QED
      BY <1>1, <1>6, <2>1, <2>2
  <1>11. vw = "own" \/ Owed(ds) => Agree(st, sh2, un2)
    BY <1>6 DEF Fits, Agree
  <1> QED
    BY <1>7, <1>8, <1>9, <1>10, <1>11 DEF Fits, ds

\* A request is sent that does not touch the user's layout.
LEMMA AskFits ==
  ASSUME NEW st, NEW sh, NEW vw, NEW am \in BOOLEAN, NEW un, NEW cs \in [Slots -> Calls],
         Fits(st, sh, vw, "no", am, un, cs),
         NEW s \in Slots, cs[s] = NoCall, NEW c \in CallType, c.op \in {"copy", "setdefault"}, ~c.alone
  PROVE  Fits(st, sh, vw, "no", am, un, [cs EXCEPT ![s] = c])
  <1> DEFINE ds == [cs EXCEPT ![s] = c]
  <1>1. ds[s] = c /\ \A t \in Slots \ {s} : ds[t] = cs[t]
    OBVIOUS
  <1> HIDE DEF ds
  <1>2. ~Early(c) /\ ~OwedCall(c) /\ ~OwedCall(cs[s]) /\ ~Early(cs[s])
    BY DEF Early, OwedCall
  <1>3. (Owed(ds) <=> Owed(cs)) /\ \A t \in Slots : Early(ds[t]) <=> Early(cs[t])
    BY <1>1, <1>2 DEF Owed
  <1>4. \A t \in Slots : Early(ds[t]) => ds[t] = cs[t]
    BY <1>1, <1>2
  <1>5. EarlyFits(sh, vw, un, ds)
    BY <1>3, <1>4 DEF EarlyFits, Fits
  <1>6. AloneFits(sh, vw, ds)
    <2> SUFFICES ASSUME NEW t \in Slots, ds[t] # NoCall, ds[t].alone
                 PROVE  AloneCall(ds[t], sh, vw) /\ \A u \in Slots \ {t} : ~Early(ds[u])
      BY DEF AloneFits
    <2>1. ds[t] = cs[t]
      BY <1>1
    <2> QED
      BY <1>3, <2>1 DEF Fits, AloneFits
  <1>7. LoadFits(st, "no", am, un, ds)
    BY DEF LoadFits
  <1>8. HeardFits(st, vw, "no", am, ds)
    BY <1>3, <1>4 DEF HeardFits, Fits
  <1>9. vw = "own" \/ Owed(ds) => Agree(st, sh, un)
    BY <1>3 DEF Fits
  <1> QED
    BY <1>5, <1>6, <1>7, <1>8, <1>9 DEF Fits, ds

\* The early saves of a page bring a part of a layout.
PartsIn(cs) == \A s \in Slots : Early(cs[s]) /\ cs[s].op = "save" =>
                 cs[s].val \subseteq cs[s].part /\ (cs[s].at = "read" => cs[s].part # Items)

\* A page that is left is sure of nothing and owed nothing; what its early saves are
\* like no longer matters.
LEMMA LeaveFits ==
  ASSUME NEW st, NEW sh, NEW vw, NEW ld \in {"own", "asked"}, NEW am,
         NEW cs \in [Slots -> Calls], PartsIn(cs)
  PROVE  Fits(st, sh, vw, ld, am, Items, Unheard(cs))
  <1> DEFINE ds == Unheard(cs)
  <1>1. \A s \in Slots : cs[s] = NoCall => ds[s] = NoCall
    BY DEF Unheard
  <1>2. ASSUME NEW s \in Slots, cs[s] # NoCall
        PROVE  /\ ds[s] # NoCall /\ ds[s].op = cs[s].op /\ ds[s].at = cs[s].at /\ ds[s].part = cs[s].part
               /\ ds[s].val = cs[s].val /\ ~ds[s].heard /\ ~ds[s].alone
    <2>1. cs[s] \in CallType
      BY <1>2 DEF Calls
    <2>2. ds[s] = [cs[s] EXCEPT !.heard = FALSE, !.alone = FALSE]
      BY <1>2 DEF Unheard
    <2>3. ds[s] \in CallType
      BY <2>1, <2>2 DEF CallType
    <2> QED
      BY <2>1, <2>2, <2>3, NoCallAssumption DEF CallType
  <1> HIDE DEF ds
  <1>3. \A s \in Slots : ds[s] # NoCall => cs[s] # NoCall /\ ~ds[s].heard /\ ~ds[s].alone
    BY <1>1, <1>2
  <1>4. EarlyFits(sh, vw, Items, ds)
    <2> SUFFICES ASSUME NEW s \in Slots, Early(ds[s]), ds[s].op = "save"
                 PROVE  SaveFits(ds[s], sh, vw, Items)
      BY DEF EarlyFits
    <2>1. cs[s] # NoCall
      BY <1>3 DEF Early
    <2>2. Early(cs[s]) /\ cs[s].op = "save"
      BY <1>2, <2>1 DEF Early
    <2> QED
      BY <1>2, <2>1, <2>2 DEF SaveFits, PartsIn
  <1>5. AloneFits(sh, vw, ds) /\ ~Owed(ds)
    BY <1>3 DEF AloneFits, Owed, OwedCall
  <1>6. LoadFits(st, ld, am, Items, ds) /\ HeardFits(st, vw, ld, am, ds)
    BY <1>3 DEF LoadFits, HeardFits
  <1> QED
    BY <1>4, <1>5, <1>6 DEF Fits, Agree, ds

\* Nobody hears the answers.
Deaf(cs) == \A s \in Slots : cs[s] # NoCall => ~cs[s].heard /\ ~cs[s].alone

\* A page that has been loaded shows what was read; no early save then means that it is
\* still what is stored.
LEMMA LoadedFits ==
  ASSUME NEW st, NEW m, NEW v, NEW bad \in BOOLEAN, NEW cs \in [Slots -> Calls],
         PartsIn(cs), Deaf(cs),
         bad = FALSE => ~EarlyIn(cs),
         bad = FALSE /\ v = "own" => m = Content(st),
         bad = FALSE /\ v = "default" => st = NoMap,
         NEW un, un = IF bad THEN Items ELSE {}
  PROVE  Fits(st, m, v, "no", bad, un, cs)
  <1>1. \A s \in Slots : cs[s] # NoCall => ~cs[s].heard /\ ~cs[s].alone
    BY DEF Deaf
  <1>2. ~Owed(cs) /\ AloneFits(m, v, cs)
    BY <1>1 DEF Owed, OwedCall, AloneFits
  <1>3. v = "own" => Agree(st, m, un)
    BY DEF Agree
  <1>4. EarlyFits(m, v, un, cs)
    <2> SUFFICES ASSUME NEW s \in Slots, Early(cs[s])
                 PROVE  IF cs[s].op = "save" THEN SaveFits(cs[s], m, v, un) ELSE un = Items
      BY DEF EarlyFits
    <2>1. un = Items
      BY DEF EarlyIn
    <2> QED
      BY <2>1 DEF SaveFits, PartsIn
  <1>5. LoadFits(st, "no", bad, un, cs)
    BY DEF LoadFits
  <1>6. HeardFits(st, v, "no", bad, cs)
    BY DEF HeardFits, EarlyIn
  <1> QED
    BY <1>2, <1>3, <1>4, <1>5, <1>6 DEF Fits

\* Between two commands of get_front, and when it fails, all stays as it was.
LEMMA StillFits ==
  ASSUME NEW st, NEW sh, NEW vw, NEW ld, NEW am, NEW cs \in [Slots -> Calls], ld # "no",
         Fits(st, sh, vw, ld, am, Items, cs),
         NEW how \in {"own", "def", "asked"}, NEW bad \in BOOLEAN,
         how = "def" /\ ~bad => st = NoMap /\ ~EarlyIn(cs)
  PROVE  Fits(st, sh, vw, how, bad, Items, cs)
  BY DEF Fits, LoadFits, HeardFits

\* The layout that a part is put into has been read.
LEMMA ReadFits ==
  ASSUME NEW st, NEW sh, NEW vw, NEW ld, NEW am, NEW un \in SUBSET Items,
         NEW cs \in [Slots -> Calls],
         Fits(st, sh, vw, ld, am, un, cs), NEW s \in Slots, cs[s] # NoCall,
         cs[s].op = "save", cs[s].at = "read", Content(st) \in SUBSET Items,
         NEW d, d = [cs[s] EXCEPT !.at = "write", !.buf = Content(st)]
  PROVE  Fits(st, sh, vw, ld, am, un, [cs EXCEPT ![s] = d])
  <1> DEFINE ds == [cs EXCEPT ![s] = d]
  <1>1. ds[s] = d /\ \A t \in Slots \ {s} : ds[t] = cs[t]
    OBVIOUS
  <1>2. cs[s] \in CallType /\ d \in CallType /\ d # NoCall
    BY NoCallAssumption DEF Calls, CallType
  <1>3. /\ d.op = "save" /\ d.at = "write" /\ d.part = cs[s].part /\ d.val = cs[s].val
        /\ d.buf = Content(st) /\ d.alone = cs[s].alone /\ d.heard = cs[s].heard
    BY <1>2 DEF CallType
  <1>4. Early(d) /\ Early(cs[s]) /\ ~OwedCall(d) /\ ~OwedCall(cs[s])
    BY <1>2, <1>3 DEF Early, OwedCall
  <1>5. Owed(ds) <=> Owed(cs)
    BY <1>1, <1>4 DEF Owed
  <1> HIDE DEF ds
  <1>6. \A t \in Slots : Early(ds[t]) <=> Early(cs[t])
    BY <1>1, <1>4
  <1>7. EarlyFits(sh, vw, un, ds)
    <2> SUFFICES ASSUME NEW t \in Slots, Early(ds[t])
                 PROVE  IF ds[t].op = "save" THEN SaveFits(ds[t], sh, vw, un) ELSE un = Items
      BY DEF EarlyFits
    <2>1. IF cs[t].op = "save" THEN SaveFits(cs[t], sh, vw, un) ELSE un = Items
      BY <1>6 DEF Fits, EarlyFits
    <2>2. CASE t # s
      BY <1>1, <2>1, <2>2
    <2>3. CASE t = s
      <3>1. SaveFits(cs[s], sh, vw, un)
        BY <2>1, <2>3
      <3>2. un # Items => Agree(st, sh, un)
        BY <3>1 DEF SaveFits, Fits
      <3>3. \A i \in Items \ un : i \in d.buf <=> i \in sh
        BY <1>3, <3>2 DEF Agree
      <3>4. SaveFits(d, sh, vw, un)
        BY <1>3, <3>1, <3>3 DEF SaveFits
      <3> QED
        BY <1>1, <1>3, <2>3, <3>4
    <2> QED
      BY <2>2, <2>3
  <1>8. AloneFits(sh, vw, ds)
    <2> SUFFICES ASSUME NEW t \in Slots, ds[t] # NoCall, ds[t].alone
                 PROVE  AloneCall(ds[t], sh, vw) /\ \A u \in Slots \ {t} : ~Early(ds[u])
      BY DEF AloneFits
    <2>1. cs[t] # NoCall /\ cs[t].alone
      BY <1>1, <1>2, <1>3
    <2>2. AloneCall(cs[t], sh, vw) /\ \A u \in Slots \ {t} : ~Early(cs[u])
      BY <2>1 DEF Fits, AloneFits
    <2>3. AloneCall(ds[t], sh, vw)
      BY <1>1, <1>3, <1>4, <2>2 DEF AloneCall
    <2> QED
      BY <1>6, <2>2, <2>3
  <1>9. LoadFits(st, ld, am, un, ds)
    <2>1. ld # "no" => un = Items /\ \A t \in Slots : cs[t] # NoCall => ~cs[t].heard /\ ~cs[t].alone
      BY DEF Fits, LoadFits
    <2>2. ld = "def" /\ ~am => st = NoMap /\ ~EarlyIn(ds)
      BY <1>6 DEF Fits, LoadFits, EarlyIn
    <2> QED
      BY <1>1, <1>2, <1>3, <2>1, <2>2 DEF LoadFits
  <1>10. HeardFits(st, vw, ld, am, ds)
    <2> SUFFICES ASSUME ld = "no", ~am
                 PROVE  /\ \A t \in Slots : Early(ds[t]) => ds[t].heard
                        /\ vw = "default" => st = NoMap \/ Owed(ds)
      BY DEF HeardFits
    <2>1. /\ \A t \in Slots : Early(cs[t]) => cs[t].heard
          /\ vw = "default" => st = NoMap \/ Owed(cs)
      BY DEF Fits, HeardFits
    <2> QED
      BY <1>1, <1>3, <1>4, <1>5, <1>6, <2>1
  <1>11. vw = "own" \/ Owed(ds) => Agree(st, sh, un)
    BY <1>5 DEF Fits
  <1> QED
    BY <1>7, <1>8, <1>9, <1>10, <1>11 DEF Fits, ds

\* The write of a save: what the page is sure of is now stored, and with a save that
\* nothing crossed also the part that it brought.
LEMMA WriteFits ==
  ASSUME NEW st, NEW sh, NEW vw, NEW ld, NEW am, NEW un \in SUBSET Items,
         NEW cs \in [Slots -> Calls],
         Fits(st, sh, vw, ld, am, un, cs), NEW s \in Slots, cs[s] # NoCall,
         cs[s].op = "save", cs[s].at = "write",
         NEW un2, un2 = IF cs[s].alone THEN un \ cs[s].part ELSE un, NEW m, m = Put(cs[s]),
         NEW d, d = [cs[s] EXCEPT !.at = "own", !.part = {}, !.val = {}, !.buf = m, !.alone = FALSE]
  PROVE  Fits(m, sh, vw, ld, am, un2, [cs EXCEPT ![s] = d])
  <1> DEFINE c == cs[s]
             ds == [cs EXCEPT ![s] = d]
  <1>1. ds[s] = d /\ \A t \in Slots \ {s} : ds[t] = cs[t]
    OBVIOUS
  <1>2. c \in CallType
    BY DEF Calls
  <1>3. Put(c) \in SUBSET Items
    BY <1>2 DEF Put, CallType
  <1>4. d \in CallType /\ d # NoCall
    BY <1>2, <1>3, NoCallAssumption DEF CallType
  <1>5. d.op = "save" /\ d.at = "own" /\ d.heard = c.heard /\ ~d.alone
    BY <1>2, <1>3 DEF CallType
  <1>6. Early(c) /\ ~Early(d) /\ (OwedCall(d) <=> c.heard)
    BY <1>4, <1>5 DEF Early, OwedCall
  <1>7. Content(Put(c)) = Put(c)
    BY <1>3, NoMapAssumption DEF Content
  <1>8. SaveFits(c, sh, vw, un)
    BY <1>6 DEF Fits, EarlyFits
  <1>9. c.alone => AloneCall(c, sh, vw) /\ \A t \in Slots \ {s} : ~Early(cs[t])
    BY DEF Fits, AloneFits
  <1>10. Agree(Put(c), sh, un2)
    <2> SUFFICES ASSUME NEW i \in Items \ un2 PROVE i \in sh <=> i \in Put(c)
      BY <1>7 DEF Agree
    <2>1. CASE i \in c.part
      <3>1. i \in c.val <=> i \in sh
        BY <1>8, <1>9, <2>1 DEF SaveFits, AloneCall
      <3> QED
        BY <2>1, <3>1 DEF Put
    <2>2. CASE i \notin c.part
      <3>1. i \notin un /\ i \notin c.val
        BY <1>8, <2>2 DEF SaveFits
      <3>2. i \in c.buf <=> i \in sh
        BY <1>8, <2>2, <3>1 DEF SaveFits
      <3> QED
        BY <2>2, <3>1, <3>2 DEF Put
    <2> QED
      BY <2>1, <2>2
  <1>11. un2 \subseteq un /\ un2 \in SUBSET Items
    OBVIOUS
  <1>12. \A t \in Slots : Early(ds[t]) => t # s /\ ds[t] = cs[t] /\ ~c.alone
    BY <1>1, <1>6, <1>9
  <1>13. EarlyFits(sh, vw, un2, ds)
    BY <1>12 DEF EarlyFits, Fits
  <1>14. AloneFits(sh, vw, ds)
    <2> SUFFICES ASSUME NEW t \in Slots, ds[t] # NoCall, ds[t].alone PROVE FALSE
      BY DEF AloneFits
    <2>1. t # s /\ cs[t] # NoCall /\ cs[t].alone
      BY <1>1, <1>5
    <2> QED
      BY <1>6, <2>1 DEF Fits, AloneFits
  <1>15. LoadFits(Put(c), ld, am, un2, ds)
    <2>1. ld # "no" => un = Items /\ \A t \in Slots : cs[t] # NoCall => ~cs[t].heard /\ ~cs[t].alone
      BY DEF Fits, LoadFits
    <2>2. ~(ld = "def" /\ ~am)
      BY <1>6 DEF Fits, LoadFits, EarlyIn
    <2>3. ld # "no" => \A t \in Slots : ds[t] # NoCall => ~ds[t].heard /\ ~ds[t].alone
      BY <1>1, <1>5, <2>1
    <2> QED
      BY <2>1, <2>2, <2>3 DEF LoadFits
  <1>16. HeardFits(Put(c), vw, ld, am, ds)
    <2> SUFFICES ASSUME ld = "no", ~am
                 PROVE  (\A t \in Slots : Early(ds[t]) => ds[t].heard) /\ Owed(ds)
      BY DEF HeardFits
    <2>1. \A t \in Slots : Early(cs[t]) => cs[t].heard
      BY DEF Fits, HeardFits
    <2>2. Owed(ds)
      BY <1>1, <1>6, <2>1 DEF Owed
    <2> QED
      BY <1>12, <2>1, <2>2
  <1> QED
    BY <1>10, <1>13, <1>14, <1>15, <1>16 DEF Fits

\* A layout is deleted: the page has been sure of nothing since it asked for that.
LEMMA DropFits ==
  ASSUME NEW st, NEW sh, NEW vw, NEW ld, NEW am \in BOOLEAN, NEW un, NEW cs \in [Slots -> Calls],
         Fits(st, sh, vw, ld, am, un, cs), NEW s \in Slots, cs[s] # NoCall,
         cs[s].op = "delete", cs[s].at = "write"
  PROVE  Fits(NoMap, sh, vw, ld, am, un, [cs EXCEPT ![s] = [cs[s] EXCEPT !.at = "own"]])
  <1> DEFINE d == [cs[s] EXCEPT !.at = "own"]
  <1>1. cs[s] \in CallType /\ d \in CallType
    BY DEF Calls, CallType
  <1>2. d.op = "delete" /\ d.at = "own" /\ d.heard = cs[s].heard /\ d.alone = cs[s].alone
    BY <1>1 DEF CallType
  <1>3. Early(cs[s]) /\ ~Early(d) /\ ~OwedCall(d) /\ ~OwedCall(cs[s])
    BY <1>2 DEF Early, OwedCall
  <1>4. un = Items /\ ~cs[s].alone
    BY <1>3 DEF Fits, EarlyFits, AloneFits, AloneCall
  <1>5. Fits(NoMap, sh, vw, ld, am, un, cs)
    BY <1>4 DEF Fits, Agree, LoadFits, HeardFits
  <1>6. d \in Calls /\ (d # NoCall => ~d.alone /\ (d.heard => cs[s].heard))
    BY <1>1, <1>2, <1>4 DEF Calls
  <1> HIDE DEF d
  <1>8. Fits(NoMap, sh, vw, ld, am, un, [cs EXCEPT ![s] = d])
    BY <1>3, <1>5, <1>6, LateFits
  <1> QED
    BY <1>8 DEF d

\* The answer to a save: the page shows its user's layout from now on.
LEMMA SavedFits ==
  ASSUME NEW st, NEW sh, NEW vw, NEW am \in BOOLEAN, NEW un, NEW cs \in [Slots -> Calls],
         Fits(st, sh, vw, "no", am, un, cs), Agree(st, sh, un)
  PROVE  Fits(st, sh, "own", "no", am, un, cs)
  BY DEF Fits, EarlyFits, SaveFits, AloneFits, AloneCall, LoadFits, HeardFits

\* The page has become sure of nothing.
LEMMA DoubtFits ==
  ASSUME NEW st, NEW sh, NEW vw, NEW ld, NEW am \in BOOLEAN, NEW un, NEW cs \in [Slots -> Calls],
         Fits(st, sh, vw, ld, am, un, cs)
  PROVE  Fits(st, sh, vw, ld, am, Items, cs)
  BY DEF Fits, Agree, EarlyFits, SaveFits, LoadFits

-------------------------------------------------------------------------------
(* Steps. *)

\* Calls are what CallType says.
LEMMA CallsTyped ==
  /\ \A part, s \in SUBSET Items : SaveCall(part, s) \in CallType
  /\ Call("delete", "write", {}, {}) \in CallType
  /\ Call("setdefault", "read", {}, {}) \in CallType
  /\ Call("copy", "done", {}, {}) \in CallType
  BY DEF SaveCall, Call, CallType

\* A layout that is there is a set of items, and so is what is read of any.
LEMMA MapsTyped == \A m \in Maps : Content(m) \in SUBSET Items /\ (m # NoMap => m \in SUBSET Items)
  BY DEF Maps, Content

\* What a page shows is a set of items.
LEMMA ShownTyped == ASSUME TypeOK, NEW p \in Pages PROVE shown[p] \in SUBSET Items
  BY MapsTyped DEF TypeOK

\* The requests of a page.
LEMMA CallsOf == ASSUME TypeOK, NEW p \in Pages PROVE calls[p] \in [Slots -> Calls]
  BY DEF TypeOK, Calls

PageTyped(st, sh, vw, ld, am, un, cs) ==
  /\ st \in Maps /\ sh \in SUBSET Items /\ vw \in {"own", "default", "asked"}
  /\ ld \in {"no", "own", "def", "asked"} /\ am \in BOOLEAN /\ un \in SUBSET Items
  /\ cs \in [Slots -> Calls]

BrokerTyped == owner \in {NoOne} \cup Pages /\ def \in Maps

\* The step leaves this of the page p, and the other pages as they are.
Leaves(p, st, sh, vw, ld, am, un, cs) ==
  /\ stored' = [stored EXCEPT ![p] = st] /\ shown' = [shown EXCEPT ![p] = sh]
  /\ view' = [view EXCEPT ![p] = vw] /\ loading' = [loading EXCEPT ![p] = ld]
  /\ amiss' = [amiss EXCEPT ![p] = am] /\ unsure' = [unsure EXCEPT ![p] = un]
  /\ calls' = [calls EXCEPT ![p] = cs]

\* What a page has is what it has.
LEMMA Kept ==
  ASSUME IInv, NEW p \in Pages
  PROVE  /\ TypeOK /\ BrokerTyped
         /\ PageTyped(stored[p], shown[p], view[p], loading[p], amiss[p], unsure[p], calls[p])
         /\ Fits(stored[p], shown[p], view[p], loading[p], amiss[p], unsure[p], calls[p])
         /\ stored = [stored EXCEPT ![p] = stored[p]] /\ shown = [shown EXCEPT ![p] = shown[p]]
         /\ view = [view EXCEPT ![p] = view[p]] /\ loading = [loading EXCEPT ![p] = loading[p]]
         /\ amiss = [amiss EXCEPT ![p] = amiss[p]] /\ unsure = [unsure EXCEPT ![p] = unsure[p]]
  BY ShownTyped, CallsOf DEF IInv, PageOK, TypeOK, PageTyped, BrokerTyped

\* What a step of the page p has to show: p is as it should be, the others are kept.
LEMMA StepIInv ==
  ASSUME IInv, NEW p \in Pages, NEW st, NEW sh, NEW vw, NEW ld, NEW am, NEW un, NEW cs,
         PageTyped(st, sh, vw, ld, am, un, cs), BrokerTyped',
         Fits(st, sh, vw, ld, am, un, cs), Leaves(p, st, sh, vw, ld, am, un, cs)
  PROVE  IInv'
  <1>1. TypeOK
    BY DEF IInv
  <1>2. TypeOK'
    <2>1. stored' \in [Pages -> Maps] /\ view' \in [Pages -> {"own", "default", "asked"}]
      BY <1>1 DEF TypeOK, PageTyped, Leaves
    <2>2. shown' \in [Pages -> Maps] /\ \A q \in Pages : shown'[q] # NoMap
      BY <1>1, NoMapAssumption DEF TypeOK, Maps, PageTyped, Leaves
    <2>3. loading' \in [Pages -> {"no", "own", "def", "asked"}] /\ amiss' \in [Pages -> BOOLEAN]
      BY <1>1 DEF TypeOK, PageTyped, Leaves
    <2>4. unsure' \in [Pages -> SUBSET Items]
      BY <1>1 DEF TypeOK, PageTyped, Leaves
    <2>5. calls' \in [Pages -> [Slots -> CallType \cup {NoCall}]]
      BY <1>1 DEF TypeOK, Calls, PageTyped, Leaves
    <2> QED
      BY <2>1, <2>2, <2>3, <2>4, <2>5 DEF TypeOK, BrokerTyped
  <1>3. /\ stored'[p] = st /\ shown'[p] = sh /\ view'[p] = vw /\ loading'[p] = ld
        /\ amiss'[p] = am /\ unsure'[p] = un /\ calls'[p] = cs
    BY <1>1 DEF TypeOK, PageTyped, Leaves
  <1>4. ASSUME NEW q \in Pages, q # p
        PROVE  /\ stored'[q] = stored[q] /\ shown'[q] = shown[q] /\ view'[q] = view[q]
               /\ loading'[q] = loading[q] /\ amiss'[q] = amiss[q] /\ unsure'[q] = unsure[q]
               /\ calls'[q] = calls[q]
    BY <1>1, <1>4 DEF TypeOK, PageTyped, Leaves
  <1>5. \A q \in Pages : PageOK(q)'
    <2> TAKE q \in Pages
    <2>1. CASE q = p
      BY <1>3, <2>1 DEF PageOK
    <2>2. CASE q # p
      BY <1>4, <2>2 DEF IInv, PageOK
    <2> QED
      BY <2>1, <2>2
  <1> QED
    BY <1>2, <1>5 DEF IInv

\* A step of the handlers that writes no layout of a user.
LEMMA CallsIInv ==
  ASSUME IInv, NEW p \in Pages, NEW cs \in [Slots -> Calls],
         Fits(stored[p], shown[p], view[p], loading[p], amiss[p], unsure[p], cs),
         calls' = [calls EXCEPT ![p] = cs], UNCHANGED <<stored, page, history>>, BrokerTyped'
  PROVE  IInv'
  <1>1. PageTyped(stored[p], shown[p], view[p], loading[p], amiss[p], unsure[p], cs)
    BY Kept DEF PageTyped
  <1>2. Leaves(p, stored[p], shown[p], view[p], loading[p], amiss[p], unsure[p], cs)
    BY Kept DEF Leaves, page, history
  <1> QED
    BY <1>1, <1>2, StepIInv

LEMMA InitIInv == Init => IInv
  <1> SUFFICES ASSUME Init PROVE IInv
    OBVIOUS
  <1>1. TypeOK
    BY NoMapAssumption DEF Init, TypeOK, Maps
  <1>2. ASSUME NEW p \in Pages PROVE PageOK(p)
    <2>1. \A s \in Slots : calls[p][s] = NoCall
      BY DEF Init
    <2>2. ~Owed(calls[p]) /\ ~EarlyIn(calls[p]) /\ \A s \in Slots : ~Early(calls[p][s])
      BY <2>1 DEF Owed, OwedCall, EarlyIn, Early
    <2>3. Agree(stored[p], shown[p], unsure[p]) /\ stored[p] = NoMap
      BY DEF Init, Agree, Content
    <2> QED
      BY <2>1, <2>2, <2>3 DEF PageOK, Fits, EarlyFits, AloneFits, LoadFits, HeardFits, Init
  <1> QED
    BY <1>1, <1>2 DEF IInv

-------------------------------------------------------------------------------
(* The page. *)

\* A save that a page sends fits what it shows then.
LEMMA SentFits ==
  ASSUME NEW part \in SUBSET Items, NEW s \in SUBSET Items, NEW vw, NEW un,
         part = Items \/ vw = "own",
         NEW c \in CallType, c.op = "save", c.at = (IF part = Items THEN "write" ELSE "read"),
         c.part = part, c.val = s \cap part
  PROVE  Early(c) /\ SaveFits(c, s, vw, un) /\ AloneCall(c, s, vw)
  <1>1. Early(c)
    BY NoCallAssumption DEF Early
  <1> QED
    BY <1>1 DEF SaveFits, AloneCall

LEMMA CrossedTyped == ASSUME NEW cs \in [Slots -> Calls] PROVE Crossed(cs) \in [Slots -> Calls]
  <1>1. ASSUME NEW s \in Slots, cs[s] # NoCall PROVE [cs[s] EXCEPT !.alone = FALSE] \in CallType
    BY <1>1 DEF Calls, CallType
  <1> QED
    BY <1>1 DEF Crossed, Calls

\* A page sends a save of what it shows from now on.
LEMMA SendIInv ==
  ASSUME IInv, NEW p \in Pages, loading[p] = "no", NEW s \in SUBSET Items, NEW S \in SUBSET Items,
         NEW part \in SUBSET Items, part = Items \/ view[p] = "own",
         \A i \in Items \ S : i \in s <=> i \in shown[p],
         Send(p, SaveCall(part, s), S), shown' = [shown EXCEPT ![p] = s],
         UNCHANGED <<broker, view, loading, amiss>>
  PROVE  IInv'
  <1>1. PICK t \in Slots :
          /\ calls[p][t] = NoCall
          /\ calls' = [calls EXCEPT ![p] =
               [Crossed(calls[p]) EXCEPT ![t] = [SaveCall(part, s) EXCEPT !.alone = ~Pending(p)]]]
    BY DEF Send
  <1>2. /\ PageTyped(stored[p], shown[p], view[p], "no", amiss[p], unsure[p], calls[p])
        /\ Fits(stored[p], shown[p], view[p], "no", amiss[p], unsure[p], calls[p])
    BY Kept
  <1>3. PICK c : c = [SaveCall(part, s) EXCEPT !.alone = ~Pending(p)]
    OBVIOUS
  <1>4. /\ c \in CallType /\ c.op = "save" /\ c.at = (IF part = Items THEN "write" ELSE "read")
        /\ c.part = part /\ c.val = s \cap part /\ c.heard /\ c.alone = ~Pending(p)
    BY <1>3 DEF SaveCall, Call, CallType
  <1>5. PICK un : un = unsure[p] \cup S
    OBVIOUS
  <1>6. Early(c) /\ SaveFits(c, s, view[p], un) /\ AloneCall(c, s, view[p])
    BY <1>4, SentFits
  <1>7. c.alone => ~EarlyIn(calls[p])
    BY <1>4 DEF Pending, EarlyIn
  <1>8. un \in SUBSET Items /\ unsure[p] \subseteq un
    BY <1>2, <1>5 DEF PageTyped
  <1> DEFINE cs == [Crossed(calls[p]) EXCEPT ![t] = c]
  <1>9. Fits(stored[p], s, view[p], "no", amiss[p], un, cs)
    <2>1. \A i \in Items \ un : i \in s <=> i \in shown[p]
      BY <1>5
    <2> QED
      BY <1>1, <1>2, <1>4, <1>6, <1>7, <1>8, <2>1, SendFits DEF PageTyped
  <1>10. PageTyped(stored[p], s, view[p], "no", amiss[p], un, cs)
    BY <1>2, <1>4, <1>8, CrossedTyped DEF PageTyped, Calls
  <1>11. Leaves(p, stored[p], s, view[p], "no", amiss[p], un, cs) /\ BrokerTyped'
    BY <1>1, <1>3, <1>5, Kept DEF Send, Leaves, broker, BrokerTyped
  <1> HIDE DEF cs
  <1> QED
    BY <1>9, <1>10, <1>11, StepIInv

\* The steps of one page, by what it changes.
LEMMA ChangeIInv == ASSUME IInv, NEW p \in Pages, Change(p) PROVE IInv'
  <1>1. PICK S \in SUBSET Items \ {{}} :
          LET s == (shown[p] \ S) \cup (S \ shown[p])
          IN  /\ shown' = [shown EXCEPT ![p] = s]
              /\ Send(p, Sent(p, IF Cardinality(S) = 1 THEN S ELSE Items, s), S)
    BY DEF Change
  <1>2. PICK s : s = (shown[p] \ S) \cup (S \ shown[p])
    OBVIOUS
  <1>3. PICK part : part = IF view[p] = "own" THEN (IF Cardinality(S) = 1 THEN S ELSE Items) ELSE Items
    OBVIOUS
  <1>4. Send(p, SaveCall(part, s), S) /\ shown' = [shown EXCEPT ![p] = s]
    BY <1>1, <1>2, <1>3 DEF Sent
  <1>5. part \in SUBSET Items /\ S \in SUBSET Items /\ (part = Items \/ view[p] = "own")
    BY <1>3
  <1>6. s \in SUBSET Items /\ \A i \in Items \ S : i \in s <=> i \in shown[p]
    BY <1>2, Kept DEF PageTyped
  <1>7. loading[p] = "no" /\ UNCHANGED <<broker, view, loading, amiss>>
    BY DEF Change
  <1> QED
    BY <1>4, <1>5, <1>6, <1>7, SendIInv

LEMMA SaveWholeIInv == ASSUME IInv, NEW p \in Pages, SaveWhole(p) PROVE IInv'
  <1>1. Send(p, SaveCall(Items, shown[p]), {}) /\ loading[p] = "no" /\ UNCHANGED <<broker, page, amiss>>
    BY DEF SaveWhole
  <1>2. shown[p] \in SUBSET Items /\ shown' = [shown EXCEPT ![p] = shown[p]]
    BY <1>1, Kept DEF PageTyped, page
  <1> QED
    BY <1>1, <1>2, SendIInv DEF page

LEMMA TakeOffIInv == ASSUME IInv, NEW p \in Pages, TakeOff(p) PROVE IInv'
  <1>1. PICK i \in shown[p], j \in shown[p], s \in Slots, t \in Slots :
          /\ i # j /\ s # t /\ calls[p][s] = NoCall /\ calls[p][t] = NoCall
          /\ shown' = [shown EXCEPT ![p] = @ \ {i, j}]
          /\ calls' = [calls EXCEPT ![p] =
               [Crossed(calls[p]) EXCEPT ![s] = Sent(p, {i}, shown[p] \ {i}),
                                         ![t] = Sent(p, {j}, shown[p] \ {i, j})]]
          /\ unsure' = [unsure EXCEPT ![p] = @ \cup {i, j}]
    BY DEF TakeOff
  <1>2. /\ PageTyped(stored[p], shown[p], view[p], "no", amiss[p], unsure[p], calls[p])
        /\ Fits(stored[p], shown[p], view[p], "no", amiss[p], unsure[p], calls[p])
    BY Kept DEF TakeOff
  <1>3. PICK s1, s2, u1, u2 : /\ s1 = shown[p] \ {i} /\ s2 = shown[p] \ {i, j}
                              /\ u1 = unsure[p] \cup {i} /\ u2 = unsure[p] \cup {i, j}
    OBVIOUS
  <1>4. PICK c1, c2 : c1 = Sent(p, {i}, s1) /\ c2 = Sent(p, {j}, s2)
    OBVIOUS
  <1>5. /\ s1 \in SUBSET Items /\ s2 \in SUBSET Items /\ u1 \in SUBSET Items /\ u2 \in SUBSET Items
        /\ i \in Items /\ j \in Items
    BY <1>2, <1>3 DEF PageTyped
  <1>6. /\ c1 \in CallType /\ c1.heard /\ c1.op = "save" /\ ~c1.alone
        /\ Early(c1) /\ SaveFits(c1, s1, view[p], u1)
    <2>1. PICK part : part = IF view[p] = "own" THEN {i} ELSE Items
      OBVIOUS
    <2>2. /\ c1 \in CallType /\ c1.op = "save" /\ c1.at = (IF part = Items THEN "write" ELSE "read")
          /\ c1.part = part /\ c1.val = s1 \cap part /\ c1.heard /\ ~c1.alone
      BY <1>4, <1>5, <2>1 DEF Sent, SaveCall, Call, CallType
    <2>3. part \in SUBSET Items /\ (part = Items \/ view[p] = "own")
      BY <1>5, <2>1
    <2> QED
      BY <1>5, <2>2, <2>3, SentFits
  <1>7. /\ c2 \in CallType /\ c2.heard /\ c2.op = "save" /\ ~c2.alone
        /\ Early(c2) /\ SaveFits(c2, s2, view[p], u2)
    <2>1. PICK part : part = IF view[p] = "own" THEN {j} ELSE Items
      OBVIOUS
    <2>2. /\ c2 \in CallType /\ c2.op = "save" /\ c2.at = (IF part = Items THEN "write" ELSE "read")
          /\ c2.part = part /\ c2.val = s2 \cap part /\ c2.heard /\ ~c2.alone
      BY <1>4, <1>5, <2>1 DEF Sent, SaveCall, Call, CallType
    <2>3. part \in SUBSET Items /\ (part = Items \/ view[p] = "own")
      BY <1>5, <2>1
    <2> QED
      BY <1>5, <2>2, <2>3, SentFits
  <1> DEFINE cs1 == [Crossed(calls[p]) EXCEPT ![s] = c1]
             cs2 == [Crossed(cs1) EXCEPT ![t] = c2]
  <1>8. Crossed(calls[p]) \in [Slots -> Calls] /\ cs1 \in [Slots -> Calls] /\ cs1[t] = NoCall
    BY <1>1, <1>2, <1>6, CrossedTyped DEF PageTyped, Calls, Crossed
  <1>9. Fits(stored[p], s1, view[p], "no", amiss[p], u1, cs1)
    <2>1. /\ \A k \in Items \ u1 : k \in s1 <=> k \in shown[p]
          /\ unsure[p] \subseteq u1
      BY <1>3
    <2> QED
      BY <1>1, <1>2, <1>5, <1>6, <2>1, SendFits DEF PageTyped
  <1> HIDE DEF cs1
  <1>10. Fits(stored[p], s2, view[p], "no", amiss[p], u2, cs2) /\ cs2 \in [Slots -> Calls]
    <2>1. /\ \A k \in Items \ u2 : k \in s2 <=> k \in s1
          /\ u1 \subseteq u2
      BY <1>3
    <2>2. Crossed(cs1) \in [Slots -> Calls] /\ cs2 \in [Slots -> Calls]
      BY <1>7, <1>8, CrossedTyped DEF Calls
    <2>3. Fits(stored[p], s2, view[p], "no", amiss[p], u2, cs2)
      BY <1>2, <1>5, <1>7, <1>8, <1>9, <2>1, SendFits DEF PageTyped
    <2> QED
      BY <2>2, <2>3
  <1>11. calls' = [calls EXCEPT ![p] = cs2]
    <2>1. Crossed(cs1) = [Crossed(calls[p]) EXCEPT ![s] = c1]
      <3>1. Crossed(cs1) \in [Slots -> Calls]
        BY <1>8, CrossedTyped
      <3>2. ASSUME NEW r \in Slots, r # s PROVE Crossed(cs1)[r] = Crossed(calls[p])[r]
        <4>1. cs1[r] = Crossed(calls[p])[r]
          BY <1>8, <3>2 DEF cs1
        <4>2. CASE calls[p][r] = NoCall
          BY <4>1, <4>2 DEF Crossed
        <4>3. CASE calls[p][r] # NoCall
          <5>1. calls[p][r] \in CallType
            BY <1>2, <4>3 DEF PageTyped, Calls
          <5>2. cs1[r] = [calls[p][r] EXCEPT !.alone = FALSE] /\ cs1[r] \in CallType
            BY <4>1, <4>3, <5>1 DEF Crossed, CallType
          <5>3. Crossed(cs1)[r] = [cs1[r] EXCEPT !.alone = FALSE]
            BY <5>2, NoCallAssumption DEF Crossed
          <5> QED
            BY <4>1, <5>1, <5>2, <5>3 DEF CallType
        <4> QED
          BY <4>2, <4>3
      <3>3. Crossed(cs1)[s] = c1
        <4>1. cs1[s] = c1
          BY <1>8 DEF cs1
        <4>2. Crossed(cs1)[s] = [c1 EXCEPT !.alone = FALSE]
          BY <1>6, <4>1, NoCallAssumption DEF Crossed
        <4>3. c1.alone = FALSE
          BY <1>6 DEF CallType
        <4> QED
          BY <1>6, <4>2, <4>3 DEF CallType
      <3> QED
        BY <1>8, <3>1, <3>2, <3>3
    <2> QED
      BY <1>1, <1>3, <1>4, <2>1
  <1>12. PageTyped(stored[p], s2, view[p], "no", amiss[p], u2, cs2)
    BY <1>2, <1>5, <1>10 DEF PageTyped
  <1> HIDE DEF cs2
  <1>13. Leaves(p, stored[p], s2, view[p], "no", amiss[p], u2, cs2) /\ BrokerTyped'
    BY <1>1, <1>3, <1>11, Kept DEF TakeOff, Leaves, broker, BrokerTyped
  <1> QED
    BY <1>10, <1>12, <1>13, StepIInv

\* A request of the page that does not touch the user's layout.
LEMMA AskIInv ==
  ASSUME IInv, NEW p \in Pages, loading[p] = "no", NEW c \in CallType,
         c.op \in {"copy", "setdefault"}, ~c.alone, Ask(p, c), UNCHANGED <<broker, page, history>>
  PROVE  IInv'
  <1>1. PICK s \in Slots : calls[p][s] = NoCall /\ calls' = [calls EXCEPT ![p][s] = c]
    BY DEF Ask
  <1>2. /\ PageTyped(stored[p], shown[p], view[p], "no", amiss[p], unsure[p], calls[p])
        /\ Fits(stored[p], shown[p], view[p], "no", amiss[p], unsure[p], calls[p])
    BY Kept
  <1> DEFINE cs == [calls[p] EXCEPT ![s] = c]
  <1>3. Fits(stored[p], shown[p], view[p], "no", amiss[p], unsure[p], cs)
    BY <1>1, <1>2, AskFits DEF PageTyped
  <1>4. cs \in [Slots -> Calls] /\ calls' = [calls EXCEPT ![p] = cs]
    BY <1>1, <1>2 DEF PageTyped, Calls
  <1> HIDE DEF cs
  <1>5. BrokerTyped' /\ UNCHANGED stored
    BY Kept DEF broker, BrokerTyped
  <1> QED
    BY <1>3, <1>4, <1>5, CallsIInv

LEMMA CopyIInv == ASSUME IInv, NEW p \in Pages, Copy(p) PROVE IInv'
  <1>1. PICK c : c = Call("copy", "done", {}, {})
    OBVIOUS
  <1>2. c \in CallType /\ c.op = "copy" /\ ~c.alone
    BY <1>1 DEF Call, CallType
  <1> QED
    BY <1>1, <1>2, AskIInv DEF Copy

LEMMA SetDefaultIInv == ASSUME IInv, NEW p \in Pages, SetDefault(p) PROVE IInv'
  <1>1. PICK c : c = Call("setdefault", "read", {}, {})
    OBVIOUS
  <1>2. c \in CallType /\ c.op = "setdefault" /\ ~c.alone
    BY <1>1 DEF Call, CallType
  <1> QED
    BY <1>1, <1>2, AskIInv DEF SetDefault

LEMMA DeleteIInv == ASSUME IInv, NEW p \in Pages, Delete(p) PROVE IInv'
  <1>1. PICK c : c = Call("delete", "write", {}, {})
    OBVIOUS
  <1>2. PICK s \in Slots : /\ calls[p][s] = NoCall
                           /\ calls' = [calls EXCEPT ![p] = [Crossed(calls[p]) EXCEPT ![s] = c]]
    BY <1>1 DEF Delete
  <1>3. /\ PageTyped(stored[p], shown[p], view[p], "no", amiss[p], unsure[p], calls[p])
        /\ Fits(stored[p], shown[p], view[p], "no", amiss[p], unsure[p], calls[p])
    BY Kept DEF Delete
  <1>4. c \in CallType /\ c.op = "delete" /\ c.heard /\ ~c.alone /\ Early(c)
    <2>1. c \in CallType
      BY <1>1, CallsTyped
    <2> QED
      BY <1>1, <2>1, NoCallAssumption DEF Call, Early
  <1> DEFINE cs == [Crossed(calls[p]) EXCEPT ![s] = c]
  <1>5. Fits(stored[p], shown[p], view[p], "no", amiss[p], Items, cs)
    <2>1. PICK un : un = Items /\ un \in SUBSET Items /\ unsure[p] \subseteq un
      BY <1>3 DEF PageTyped
    <2>2. Fits(stored[p], shown[p], view[p], "no", amiss[p], un, cs)
      BY <1>2, <1>3, <1>4, <2>1, SendFits DEF PageTyped
    <2> QED
      BY <2>1, <2>2
  <1>6. PageTyped(stored[p], shown[p], view[p], "no", amiss[p], Items, cs)
    BY <1>3, <1>4, CrossedTyped DEF PageTyped, Calls
  <1>7. Leaves(p, stored[p], shown[p], view[p], "no", amiss[p], Items, cs) /\ BrokerTyped'
    BY <1>2, Kept DEF Delete, Leaves, broker, page, BrokerTyped
  <1> HIDE DEF cs
  <1> QED
    BY <1>5, <1>6, <1>7, StepIInv

LEMMA UnheardTyped == ASSUME NEW cs \in [Slots -> Calls] PROVE Unheard(cs) \in [Slots -> Calls]
  <1>1. ASSUME NEW s \in Slots, cs[s] # NoCall
        PROVE  [cs[s] EXCEPT !.heard = FALSE, !.alone = FALSE] \in CallType
    BY <1>1 DEF Calls, CallType
  <1> QED
    BY <1>1 DEF Unheard, Calls

LEMMA LeaveIInv ==
  ASSUME IInv, NEW p \in Pages, NEW how \in {"own", "asked"}, NEW ds \in [Slots -> Calls],
         PartsIn(ds), Leave(p, how, ds)
  PROVE  IInv'
  <1>1. PageTyped(stored[p], shown[p], view[p], how, amiss[p], Items, Unheard(ds))
    BY Kept, UnheardTyped DEF PageTyped
  <1>2. Fits(stored[p], shown[p], view[p], how, amiss[p], Items, Unheard(ds))
    BY LeaveFits
  <1>3. Leaves(p, stored[p], shown[p], view[p], how, amiss[p], Items, Unheard(ds)) /\ BrokerTyped'
    BY Kept DEF Leave, Leaves, broker, BrokerTyped
  <1> QED
    BY <1>1, <1>2, <1>3, StepIInv

LEMMA PartsOf == ASSUME IInv, NEW p \in Pages PROVE PartsIn(calls[p]) /\ calls[p] \in [Slots -> Calls]
  BY Kept DEF PartsIn, Fits, EarlyFits, SaveFits, PageTyped

LEMMA LoadIInv == ASSUME IInv, NEW p \in Pages, Load(p) PROVE IInv'
  BY PartsOf, LeaveIInv DEF Load

LEMMA ClearIInv == ASSUME IInv, NEW p \in Pages, Clear(p) PROVE IInv'
  <1>1. PICK s \in Slots : /\ calls[p][s] = NoCall
                           /\ Leave(p, "own", [calls[p] EXCEPT ![s] = SaveCall(Items, {})])
    BY DEF Clear
  <1>2. PICK c : c = SaveCall(Items, {})
    OBVIOUS
  <1>3. c \in CallType /\ c.val = {} /\ c.at = "write"
    BY <1>2, CallsTyped DEF SaveCall, Call
  <1> DEFINE ds == [calls[p] EXCEPT ![s] = c]
  <1>4. ds \in [Slots -> Calls]
    BY <1>3, PartsOf DEF Calls
  <1>5. ds[s] = c /\ \A t \in Slots \ {s} : ds[t] = calls[p][t]
    BY PartsOf
  <1>6. Leave(p, "own", ds)
    BY <1>1, <1>2
  <1> HIDE DEF ds
  <1>7. PartsIn(ds)
    BY <1>3, <1>5, PartsOf DEF PartsIn
  <1> QED
    BY <1>4, <1>6, <1>7, LeaveIInv

-------------------------------------------------------------------------------
(* The handlers. *)

\* A request that is past its write is not one that nothing crossed.
LEMMA NotAlone ==
  ASSUME IInv, NEW p \in Pages, NEW s \in Slots, calls[p][s] # NoCall, ~Early(calls[p][s])
  PROVE  calls[p][s] \in CallType /\ ~calls[p][s].alone
  BY Kept DEF Fits, AloneFits, AloneCall, PageTyped, Calls

LEMMA LateIInv ==
  ASSUME IInv, NEW p \in Pages, NEW s \in Slots, NEW d \in Calls, calls[p][s] # NoCall,
         ~Early(d), OwedCall(d) => OwedCall(calls[p][s]), OwedCall(calls[p][s]) => OwedCall(d),
         d # NoCall => ~d.alone /\ (d.heard => calls[p][s].heard),
         Become(p, s, d), UNCHANGED <<stored, page, history>>, BrokerTyped'
  PROVE  IInv'
  <1> DEFINE cs == [calls[p] EXCEPT ![s] = d]
  <1>1. Fits(stored[p], shown[p], view[p], loading[p], amiss[p], unsure[p], cs)
    BY Kept, LateFits DEF PageTyped
  <1>2. cs \in [Slots -> Calls] /\ calls' = [calls EXCEPT ![p] = cs]
    BY PartsOf DEF Become
  <1> HIDE DEF cs
  <1> QED
    BY <1>1, <1>2, CallsIInv

\* A request that goes on to its next command and stays past the write.
LEMMA OnIInv ==
  ASSUME IInv, NEW p \in Pages, NEW s \in Slots, NEW d \in CallType, calls[p][s] # NoCall,
         ~Early(calls[p][s]), ~Early(d), d.op = calls[p][s].op, d.heard = calls[p][s].heard,
         d.alone = calls[p][s].alone, Become(p, s, d), UNCHANGED <<stored, page, history>>, BrokerTyped'
  PROVE  IInv'
  <1>1. calls[p][s] \in CallType /\ ~calls[p][s].alone
    BY NotAlone
  <1>2. (OwedCall(d) => OwedCall(calls[p][s])) /\ (OwedCall(calls[p][s]) => OwedCall(d))
    BY NoCallAssumption DEF OwedCall
  <1> QED
    BY <1>1, <1>2, LateIInv DEF Calls

LEMMA ReadOwnerIInv ==
  ASSUME IInv, NEW p \in Pages, NEW s \in Slots, calls[p][s] # NoCall, ReadOwner(p, s)
  PROVE  IInv'
  <1>1. calls[p][s].at = "own" /\ ~Early(calls[p][s]) /\ calls[p][s] \in CallType
    BY NotAlone DEF ReadOwner, Early
  <1>2. BrokerTyped' /\ UNCHANGED <<stored, page, history>>
    BY Kept DEF ReadOwner, broker, BrokerTyped
  <1>3. PICK d : /\ d \in {[calls[p][s] EXCEPT !.at = "claim"], [calls[p][s] EXCEPT !.at = "done", !.buf = {}]}
                 /\ Become(p, s, d)
    BY DEF ReadOwner, Go, Finish
  <1>4. /\ d \in CallType /\ d.op = calls[p][s].op /\ d.heard = calls[p][s].heard
        /\ d.alone = calls[p][s].alone /\ ~Early(d)
    BY <1>1, <1>3 DEF CallType, Early
  <1> QED
    BY <1>1, <1>2, <1>3, <1>4, OnIInv

LEMMA WriteOwnerIInv ==
  ASSUME IInv, NEW p \in Pages, NEW s \in Slots, calls[p][s] # NoCall, WriteOwner(p, s)
  PROVE  IInv'
  <1>1. calls[p][s].at = "claim" /\ ~Early(calls[p][s]) /\ calls[p][s] \in CallType
    BY NotAlone DEF WriteOwner, Early
  <1>2. BrokerTyped' /\ UNCHANGED <<stored, page, history>>
    BY Kept DEF WriteOwner, BrokerTyped
  <1>3. PICK d : d = [calls[p][s] EXCEPT !.at = "def"] /\ Become(p, s, d)
    BY DEF WriteOwner, Go
  <1>4. /\ d \in CallType /\ d.op = calls[p][s].op /\ d.heard = calls[p][s].heard
        /\ d.alone = calls[p][s].alone /\ ~Early(d)
    BY <1>1, <1>3 DEF CallType, Early
  <1> QED
    BY <1>1, <1>2, <1>3, <1>4, OnIInv

LEMMA WriteDefIInv ==
  ASSUME IInv, NEW p \in Pages, NEW s \in Slots, calls[p][s] # NoCall, WriteDef(p, s)
  PROVE  IInv'
  <1>1. calls[p][s].at = "def" /\ ~Early(calls[p][s]) /\ calls[p][s] \in CallType
    BY NotAlone DEF WriteDef, Early
  <1>2. BrokerTyped' /\ UNCHANGED <<stored, page, history>>
    BY <1>1, Kept DEF WriteDef, BrokerTyped, CallType, Maps
  <1>3. PICK d : d = [calls[p][s] EXCEPT !.at = "done", !.buf = {}] /\ Become(p, s, d)
    BY DEF WriteDef, Finish
  <1>4. /\ d \in CallType /\ d.op = calls[p][s].op /\ d.heard = calls[p][s].heard
        /\ d.alone = calls[p][s].alone /\ ~Early(d)
    BY <1>1, <1>3 DEF CallType, Early
  <1> QED
    BY <1>1, <1>2, <1>3, <1>4, OnIInv

LEMMA UnnoticedIInv ==
  ASSUME IInv, NEW p \in Pages, NEW s \in Slots, calls[p][s] # NoCall, Unnoticed(p, s)
  PROVE  IInv'
  <1>1. ~Early(calls[p][s]) /\ calls[p][s] \in CallType
    BY NotAlone DEF Unnoticed, Early
  <1>2. BrokerTyped' /\ UNCHANGED <<stored, page, history>>
    BY Kept DEF Unnoticed, broker, BrokerTyped
  <1>3. PICK d : /\ d \in {[calls[p][s] EXCEPT !.at = "def"], [calls[p][s] EXCEPT !.at = "done", !.buf = {}]}
                 /\ Become(p, s, d)
    BY DEF Unnoticed, Go, Finish
  <1>4. /\ d \in CallType /\ d.op = calls[p][s].op /\ d.heard = calls[p][s].heard
        /\ d.alone = calls[p][s].alone /\ ~Early(d)
    BY <1>1, <1>3 DEF CallType, Early
  <1> QED
    BY <1>1, <1>2, <1>3, <1>4, OnIInv

\* A request ends; if its answer is lost that way, something is amiss.
LEMMA EndIInv ==
  ASSUME IInv, NEW p \in Pages, NEW s \in Slots, calls[p][s] # NoCall, ~OwedCall(calls[p][s]),
         Done(p, s), UNCHANGED <<stored, page, history>>, BrokerTyped'
  PROVE  IInv'
  <1>1. PICK d : d = NoCall
    OBVIOUS
  <1>2. d \in Calls /\ ~Early(d) /\ ~OwedCall(d)
    BY <1>1 DEF Calls, Early, OwedCall
  <1> QED
    BY <1>1, <1>2, LateIInv DEF Done

LEMMA ReadForDefaultIInv ==
  ASSUME IInv, NEW p \in Pages, NEW s \in Slots, calls[p][s] # NoCall, ReadForDefault(p, s)
  PROVE  IInv'
  <1>1. /\ calls[p][s].op = "setdefault" /\ ~Early(calls[p][s]) /\ calls[p][s] \in CallType
        /\ ~OwedCall(calls[p][s])
    BY NotAlone DEF ReadForDefault, Early, OwedCall
  <1>2. BrokerTyped' /\ UNCHANGED <<stored, page, history>>
    BY Kept DEF ReadForDefault, broker, BrokerTyped
  <1>3. CASE stored[p] = NoMap
    BY <1>1, <1>2, <1>3, EndIInv DEF ReadForDefault
  <1>4. CASE stored[p] # NoMap
    <2>1. PICK d : d = [calls[p][s] EXCEPT !.at = "claim", !.buf = stored[p]] /\ Become(p, s, d)
      BY <1>4 DEF ReadForDefault
    <2>2. stored[p] \in SUBSET Items
      BY <1>4, Kept, MapsTyped DEF PageTyped
    <2>3. /\ d \in CallType /\ d.op = calls[p][s].op /\ d.heard = calls[p][s].heard
          /\ d.alone = calls[p][s].alone /\ ~Early(d)
      BY <1>1, <2>1, <2>2 DEF CallType, Early
    <2> QED
      BY <1>1, <1>2, <2>1, <2>3, OnIInv
  <1> QED
    BY <1>3, <1>4

LEMMA ReadMapIInv ==
  ASSUME IInv, NEW p \in Pages, NEW s \in Slots, calls[p][s] # NoCall, ReadMap(p, s)
  PROVE  IInv'
  <1>1. calls[p][s].op = "save" /\ calls[p][s].at = "read" /\ calls[p][s] \in CallType
    BY PartsOf DEF ReadMap, Calls
  <1>2. PICK d : d = [calls[p][s] EXCEPT !.at = "write", !.buf = Content(stored[p])]
    OBVIOUS
  <1>3. d \in CallType /\ Content(stored[p]) \in SUBSET Items
    BY <1>1, <1>2, Kept, MapsTyped DEF CallType, PageTyped
  <1> DEFINE cs == [calls[p] EXCEPT ![s] = d]
  <1>4. Fits(stored[p], shown[p], view[p], loading[p], amiss[p], unsure[p], cs)
    <2>1. /\ Fits(stored[p], shown[p], view[p], loading[p], amiss[p], unsure[p], calls[p])
          /\ unsure[p] \in SUBSET Items /\ calls[p] \in [Slots -> Calls]
      BY Kept DEF PageTyped
    <2> QED
      BY <1>1, <1>2, <1>3, <2>1, ReadFits
  <1>5. cs \in [Slots -> Calls] /\ calls' = [calls EXCEPT ![p] = cs]
    BY <1>2, <1>3, PartsOf DEF ReadMap, Become, Calls
  <1>6. BrokerTyped' /\ UNCHANGED <<stored, page, history>>
    BY Kept DEF ReadMap, broker, BrokerTyped
  <1> HIDE DEF cs
  <1> QED
    BY <1>4, <1>5, <1>6, CallsIInv

LEMMA WriteMapIInv ==
  ASSUME IInv, NEW p \in Pages, NEW s \in Slots, calls[p][s] # NoCall, WriteMap(p, s)
  PROVE  IInv'
  <1>1. calls[p][s].op = "save" /\ calls[p][s].at = "write" /\ calls[p][s] \in CallType
    BY PartsOf DEF WriteMap, Calls
  <1>2. PICK m, d, un : /\ m = Put(calls[p][s])
                        /\ d = [calls[p][s] EXCEPT !.at = "own", !.part = {}, !.val = {}, !.buf = m, !.alone = FALSE]
                        /\ un = IF calls[p][s].alone THEN unsure[p] \ calls[p][s].part ELSE unsure[p]
    OBVIOUS
  <1>3. m \in SUBSET Items /\ m \in Maps /\ un \in SUBSET Items
    BY <1>1, <1>2, Kept DEF CallType, Put, Maps, PageTyped
  <1>4. d \in CallType
    BY <1>1, <1>2, <1>3 DEF CallType
  <1> DEFINE cs == [calls[p] EXCEPT ![s] = d]
  <1>5. Fits(m, shown[p], view[p], loading[p], amiss[p], un, cs)
    BY <1>1, <1>2, Kept, WriteFits DEF PageTyped
  <1>6. PageTyped(m, shown[p], view[p], loading[p], amiss[p], un, cs)
    BY <1>3, <1>4, Kept DEF PageTyped, Calls
  <1>7. Leaves(p, m, shown[p], view[p], loading[p], amiss[p], un, cs) /\ BrokerTyped'
    BY <1>2, Kept DEF WriteMap, Become, Leaves, page, BrokerTyped
  <1> HIDE DEF cs
  <1> QED
    BY <1>5, <1>6, <1>7, StepIInv

LEMMA DropMapIInv ==
  ASSUME IInv, NEW p \in Pages, NEW s \in Slots, calls[p][s] # NoCall, DropMap(p, s)
  PROVE  IInv'
  <1>1. calls[p][s].op = "delete" /\ calls[p][s].at = "write" /\ calls[p][s] \in CallType
    BY PartsOf DEF DropMap, Calls
  <1>2. PICK d : d = [calls[p][s] EXCEPT !.at = "own"]
    OBVIOUS
  <1>3. d \in CallType
    BY <1>1, <1>2 DEF CallType
  <1> DEFINE cs == [calls[p] EXCEPT ![s] = d]
  <1>4. Fits(NoMap, shown[p], view[p], loading[p], amiss[p], unsure[p], cs)
    BY <1>1, <1>2, Kept, DropFits DEF PageTyped
  <1>5. PageTyped(NoMap, shown[p], view[p], loading[p], amiss[p], unsure[p], cs)
    BY <1>3, Kept DEF PageTyped, Calls, Maps
  <1>6. Leaves(p, NoMap, shown[p], view[p], loading[p], amiss[p], unsure[p], cs) /\ BrokerTyped'
    BY <1>2, Kept DEF DropMap, Go, Become, Leaves, page, history, BrokerTyped
  <1> HIDE DEF cs
  <1> QED
    BY <1>4, <1>5, <1>6, StepIInv

-------------------------------------------------------------------------------
(* Answers. *)

LEMMA EndedIInv ==
  ASSUME IInv, NEW p \in Pages, NEW s \in Slots, calls[p][s] # NoCall, Ended(p, s)
  PROVE  IInv'
  <1>1. ~OwedCall(calls[p][s])
    BY DEF Ended, OwedCall
  <1>2. BrokerTyped' /\ UNCHANGED <<stored, page, history>> /\ Done(p, s)
    BY Kept DEF Ended, broker, BrokerTyped
  <1> QED
    BY <1>1, <1>2, EndIInv

LEMMA DeletedIInv ==
  ASSUME IInv, NEW p \in Pages, NEW s \in Slots, Deleted(p, s)
  PROVE  IInv'
  <1> DEFINE ds == [calls[p] EXCEPT ![s] = NoCall]
  <1>1. ds \in [Slots -> Calls] /\ ds[s] = NoCall /\ \A t \in Slots \ {s} : ds[t] = calls[p][t]
    BY PartsOf DEF Calls
  <1>2. Leave(p, "own", ds)
    BY DEF Deleted
  <1> HIDE DEF ds
  <1>3. PartsIn(ds)
    BY <1>1, PartsOf DEF PartsIn, Early
  <1> QED
    BY <1>1, <1>2, <1>3, LeaveIInv

LEMMA SavedIInv ==
  ASSUME IInv, NEW p \in Pages, NEW s \in Slots, calls[p][s] # NoCall, Saved(p, s)
  PROVE  IInv'
  <1>1. /\ calls[p][s].op \in {"save", "copy"} /\ calls[p][s].at = "done" /\ calls[p][s].heard
        /\ ~Early(calls[p][s])
        /\ calls[p][s].op = "save" => OwedCall(calls[p][s])
    BY DEF Saved, Early, OwedCall
  <1>2. loading[p] = "no"
    BY <1>1, Kept DEF Fits, LoadFits
  <1>3. PICK un : un = IF calls[p][s].op = "copy" /\ view[p] # "own" THEN Items ELSE unsure[p]
    OBVIOUS
  <1>4. un \in SUBSET Items
    BY <1>3, Kept DEF PageTyped
  <1>5. /\ Fits(stored[p], shown[p], view[p], "no", amiss[p], un, calls[p])
        /\ Agree(stored[p], shown[p], un)
    <2>1. CASE calls[p][s].op = "copy" /\ view[p] # "own"
      <3>1. un = Items
        BY <1>3, <2>1
      <3>2. Fits(stored[p], shown[p], view[p], "no", amiss[p], Items, calls[p])
        BY <1>2, Kept, DoubtFits DEF PageTyped
      <3> QED
        BY <3>1, <3>2 DEF Agree
    <2>2. CASE ~(calls[p][s].op = "copy" /\ view[p] # "own")
      <3>1. un = unsure[p]
        BY <1>3, <2>2
      <3>2. view[p] = "own" \/ Owed(calls[p])
        BY <1>1, <2>2 DEF Owed
      <3>3. Agree(stored[p], shown[p], unsure[p])
        BY <3>2, Kept DEF Fits
      <3> QED
        BY <1>2, <3>1, <3>3, Kept
    <2> QED
      BY <2>1, <2>2
  <1>6. Fits(stored[p], shown[p], "own", "no", amiss[p], un, calls[p])
    BY <1>5, Kept, SavedFits DEF PageTyped
  <1>7. PICK d : d = NoCall
    OBVIOUS
  <1> DEFINE cs == [calls[p] EXCEPT ![s] = d]
  <1>8. d \in Calls /\ ~Early(d) /\ ~OwedCall(d)
    BY <1>7 DEF Calls, Early, OwedCall
  <1>9. Fits(stored[p], shown[p], "own", "no", amiss[p], un, cs)
    BY <1>6, <1>7, <1>8, PartsOf, LateFits
  <1>10. PageTyped(stored[p], shown[p], "own", "no", amiss[p], un, cs)
    BY <1>4, <1>8, Kept DEF PageTyped
  <1>11. Leaves(p, stored[p], shown[p], "own", "no", amiss[p], un, cs) /\ BrokerTyped'
    BY <1>2, <1>3, <1>7, Kept DEF Saved, Done, Become, Leaves, broker, BrokerTyped
  <1> HIDE DEF cs
  <1> QED
    BY <1>9, <1>10, <1>11, StepIInv

\* An answer that is an error, or no request any more.
LEMMA FailIInv ==
  ASSUME IInv, NEW p \in Pages, NEW s \in Slots, calls[p][s] # NoCall, NEW d \in Calls,
         calls[p][s].heard, calls[p][s].op \in {"save", "delete"},
         d = NoCall \/ d = [calls[p][s] EXCEPT !.heard = FALSE],
         Become(p, s, d), Errs(p, s), UNCHANGED <<broker, page, unsure>>
  PROVE  IInv'
  <1>1. Fits(stored[p], shown[p], view[p], loading[p], TRUE, unsure[p], calls[p])
    BY Kept, BadFits
  <1>2. calls[p][s] \in CallType
    BY PartsOf DEF Calls
  <1>3. PICK am : am = TRUE
    OBVIOUS
  <1> DEFINE cs == [calls[p] EXCEPT ![s] = d]
  <1>4. Fits(stored[p], shown[p], view[p], loading[p], am, unsure[p], cs)
    <2>1. CASE Early(calls[p][s]) /\ d # NoCall
      BY <1>3, <2>1, Kept, LostFits DEF PageTyped
    <2>2. CASE ~Early(calls[p][s]) \/ d = NoCall
      <3>1. d # NoCall => d.op = calls[p][s].op /\ d.at = calls[p][s].at /\ ~d.heard /\ d.alone = calls[p][s].alone
        BY <1>2 DEF CallType
      <3>2. ~Early(d) /\ ~OwedCall(d)
        BY <2>2, <3>1 DEF Early, OwedCall
      <3>3. d # NoCall => ~d.alone
        BY <2>2, <3>1, NotAlone
      <3> QED
        BY <1>1, <1>3, <3>1, <3>2, <3>3, PartsOf, LateFits
    <2> QED
      BY <2>1, <2>2
  <1>5. PageTyped(stored[p], shown[p], view[p], loading[p], am, unsure[p], cs)
    BY <1>3, Kept DEF PageTyped
  <1>6. amiss' = [amiss EXCEPT ![p] = am]
    BY <1>3, Kept DEF Errs, PageTyped
  <1>7. Leaves(p, stored[p], shown[p], view[p], loading[p], am, unsure[p], cs) /\ BrokerTyped'
    BY <1>6, Kept DEF Become, Leaves, broker, page, BrokerTyped
  <1> HIDE DEF cs
  <1> QED
    BY <1>4, <1>5, <1>7, StepIInv

\* Nobody hears of it, or nothing is saved or deleted by it.
LEMMA SilentIInv ==
  ASSUME IInv, NEW p \in Pages, NEW s \in Slots, calls[p][s] # NoCall,
         ~(calls[p][s].heard /\ calls[p][s].op \in {"save", "delete"}),
         Errs(p, s), UNCHANGED <<broker, page, unsure>>
  PROVE  ~OwedCall(calls[p][s]) /\ BrokerTyped' /\ UNCHANGED <<stored, page, history>>
  <1>1. ~OwedCall(calls[p][s])
    BY DEF OwedCall
  <1>2. amiss' = [amiss EXCEPT ![p] = amiss[p]]
    BY Kept DEF Errs, PageTyped
  <1>3. UNCHANGED amiss
    BY <1>2, Kept
  <1> QED
    BY <1>1, <1>3, Kept DEF broker, BrokerTyped, history

LEMMA StopIInv ==
  ASSUME IInv, NEW p \in Pages, NEW s \in Slots, Stop(p, s)
  PROVE  IInv'
  <1>1. calls[p][s] # NoCall /\ Errs(p, s) /\ Done(p, s) /\ UNCHANGED <<broker, page, unsure>>
    BY DEF Stop
  <1>2. CASE calls[p][s].heard /\ calls[p][s].op \in {"save", "delete"}
    <2>1. PICK d \in Calls : d = NoCall
      BY DEF Calls
    <2> QED
      BY <1>1, <1>2, <2>1, FailIInv DEF Done
  <1>3. CASE ~(calls[p][s].heard /\ calls[p][s].op \in {"save", "delete"})
    BY <1>1, <1>3, SilentIInv, EndIInv
  <1> QED
    BY <1>2, <1>3

LEMMA LoseAnswerIInv ==
  ASSUME IInv, NEW p \in Pages, NEW s \in Slots, LoseAnswer(p, s)
  PROVE  IInv'
  <1>1. calls[p][s] # NoCall /\ calls[p][s].heard /\ Errs(p, s) /\ UNCHANGED <<broker, page, unsure>>
    BY DEF LoseAnswer
  <1>2. calls[p][s] \in CallType
    BY <1>1, PartsOf DEF Calls
  <1>3. PICK d : d = [calls[p][s] EXCEPT !.heard = FALSE] /\ Become(p, s, d)
    BY DEF LoseAnswer
  <1>4. /\ d \in CallType /\ d.op = calls[p][s].op /\ d.at = calls[p][s].at /\ ~d.heard
        /\ d.alone = calls[p][s].alone
    BY <1>2, <1>3 DEF CallType
  <1>5. CASE calls[p][s].op \in {"save", "delete"}
    BY <1>1, <1>3, <1>4, <1>5, FailIInv DEF Calls
  <1>6. CASE calls[p][s].op \notin {"save", "delete"}
    <2>1. ~Early(calls[p][s]) /\ ~Early(d) /\ ~OwedCall(d)
      BY <1>4, <1>6 DEF Early, OwedCall
    <2>2. ~d.alone
      BY <1>1, <1>4, <2>1, NotAlone
    <2>3. ~OwedCall(calls[p][s]) /\ BrokerTyped' /\ UNCHANGED <<stored, page, history>>
      BY <1>1, <1>6, SilentIInv
    <2> QED
      BY <1>1, <1>3, <1>4, <2>1, <2>2, <2>3, LateIInv DEF Calls
  <1> QED
    BY <1>5, <1>6

-------------------------------------------------------------------------------
(* get_front. *)

\* What is read becomes the layout of the page.
LEMMA LoadedIInv ==
  ASSUME IInv, NEW p \in Pages, loading[p] # "no", NEW m \in SUBSET Items,
         NEW v \in {"own", "default", "asked"}, NEW bad \in BOOLEAN, Loaded(p, m, v, bad),
         bad = FALSE => /\ ~EarlyIn(calls[p])
                        /\ v = "own" => m = Content(stored[p])
                        /\ v = "default" => stored[p] = NoMap,
         UNCHANGED <<broker, calls>>
  PROVE  IInv'
  <1>1. PartsIn(calls[p]) /\ Deaf(calls[p])
    BY PartsOf, Kept DEF Fits, LoadFits, Deaf
  <1>2. PICK un : un = IF bad THEN Items ELSE {}
    OBVIOUS
  <1>3. Fits(stored[p], m, v, "no", bad, un, calls[p])
    BY <1>1, <1>2, PartsOf, LoadedFits
  <1>4. PageTyped(stored[p], m, v, "no", bad, un, calls[p])
    BY <1>2, Kept DEF PageTyped
  <1>5. calls = [calls EXCEPT ![p] = calls[p]]
    BY Kept DEF TypeOK
  <1>6. Leaves(p, stored[p], m, v, "no", bad, un, calls[p]) /\ BrokerTyped'
    BY <1>2, <1>5, Kept DEF Loaded, Leaves, broker, BrokerTyped
  <1> QED
    BY <1>3, <1>4, <1>6, StepIInv

\* The loading goes on, or begins again.
LEMMA StillIInv ==
  ASSUME IInv, NEW p \in Pages, loading[p] # "no", NEW how \in {"own", "def", "asked"}, NEW bad \in BOOLEAN,
         how = "def" /\ bad = FALSE => stored[p] = NoMap /\ ~EarlyIn(calls[p]),
         loading' = [loading EXCEPT ![p] = how], amiss' = [amiss EXCEPT ![p] = bad],
         UNCHANGED <<broker, shown, view, calls, unsure>>
  PROVE  IInv'
  <1>1. unsure[p] = Items
    BY Kept DEF Fits, LoadFits
  <1>2. Fits(stored[p], shown[p], view[p], how, bad, unsure[p], calls[p])
    BY <1>1, Kept, StillFits DEF PageTyped
  <1>3. PageTyped(stored[p], shown[p], view[p], how, bad, unsure[p], calls[p])
    BY Kept DEF PageTyped
  <1>4. calls = [calls EXCEPT ![p] = calls[p]]
    BY Kept DEF TypeOK
  <1>5. Leaves(p, stored[p], shown[p], view[p], how, bad, unsure[p], calls[p]) /\ BrokerTyped'
    BY <1>4, Kept DEF Leaves, broker, BrokerTyped
  <1> QED
    BY <1>2, <1>3, <1>5, StepIInv

LEMMA LoadMapIInv == ASSUME IInv, NEW p \in Pages, LoadMap(p) PROVE IInv'
  <1>1. PICK bad \in BOOLEAN : bad = Pending(p)
    BY DEF Pending
  <1>2. bad = FALSE => ~EarlyIn(calls[p])
    BY <1>1 DEF Pending, EarlyIn
  <1>3. loading[p] # "no" /\ UNCHANGED <<broker, calls>>
    BY DEF LoadMap
  <1>4. CASE stored[p] # NoMap
    <2>1. PICK m : m = stored[p]
      OBVIOUS
    <2>2. m \in SUBSET Items /\ m = Content(stored[p])
      BY <1>4, <2>1, Kept, MapsTyped DEF Content, PageTyped
    <2>3. Loaded(p, m, "own", bad)
      BY <1>1, <1>4, <2>1 DEF LoadMap, OwnServes
    <2> QED
      BY <1>2, <1>3, <2>2, <2>3, LoadedIInv
  <1>5. CASE stored[p] = NoMap
    BY <1>1, <1>2, <1>3, <1>5, StillIInv DEF LoadMap, OwnServes
  <1> QED
    BY <1>4, <1>5

LEMMA LoadDefIInv == ASSUME IInv, NEW p \in Pages, LoadDef(p) PROVE IInv'
  <1>1. loading[p] # "no" /\ UNCHANGED <<broker, calls>>
    BY DEF LoadDef
  <1>2. amiss[p] \in BOOLEAN /\ (def # NoMap => def \in SUBSET Items) /\ {} \in SUBSET Items
    BY Kept, MapsTyped DEF PageTyped, BrokerTyped
  <1>3. loading[p] = "def" /\ amiss[p] = FALSE => stored[p] = NoMap /\ ~EarlyIn(calls[p])
    BY Kept DEF Fits, LoadFits
  <1>4. Content(NoMap) = {}
    BY DEF Content
  <1>5. CASE loading[p] = "def" /\ def # NoMap /\ Loaded(p, def, "default", amiss[p])
    BY <1>1, <1>2, <1>3, <1>5, LoadedIInv
  <1>6. CASE loading[p] = "def" /\ def = NoMap /\ Loaded(p, NothingStored, "own", amiss[p])
    <2>1. PICK m : m = {}
      OBVIOUS
    <2>2. Loaded(p, m, "own", amiss[p]) /\ (amiss[p] = FALSE => m = Content(stored[p]))
      BY <1>3, <1>4, <1>6, <2>1 DEF NothingStored
    <2> QED
      BY <1>1, <1>2, <1>3, <1>6, <2>1, <2>2, LoadedIInv
  <1>7. CASE loading[p] = "asked" /\ def # NoMap /\ Loaded(p, def, "asked", Pending(p))
    <2>1. PICK bad \in BOOLEAN : bad = Pending(p)
      BY DEF Pending
    <2>2. bad = FALSE => ~EarlyIn(calls[p])
      BY <2>1 DEF Pending, EarlyIn
    <2> QED
      BY <1>1, <1>2, <1>7, <2>1, <2>2, LoadedIInv
  <1> QED
    BY <1>5, <1>6, <1>7 DEF LoadDef

LEMMA LoadFailsIInv == ASSUME IInv, NEW p \in Pages, LoadFails(p) PROVE IInv'
  <1>1. amiss[p] \in BOOLEAN /\ amiss = [amiss EXCEPT ![p] = amiss[p]]
    BY Kept DEF PageTyped
  <1> QED
    BY <1>1, StillIInv DEF LoadFails, history

-------------------------------------------------------------------------------
(* The theorems. *)

LEMMA NextIInv == IInv /\ [Next]_vars => IInv'
  <1> SUFFICES ASSUME IInv, [Next]_vars PROVE IInv'
    OBVIOUS
  <1>1. CASE UNCHANGED vars
    BY <1>1 DEF vars, IInv, TypeOK, PageOK
  <1>2. ASSUME NEW p \in Pages, Click(p) PROVE IInv'
    BY <1>2, ChangeIInv, TakeOffIInv, LoadIInv, SaveWholeIInv, CopyIInv, ClearIInv, DeleteIInv,
       SetDefaultIInv DEF Click
  <1>3. ASSUME NEW p \in Pages, NEW s \in Slots, calls[p][s] # NoCall, Handle(p, s) PROVE IInv'
    BY <1>3, ReadMapIInv, WriteMapIInv, ReadForDefaultIInv, DropMapIInv, ReadOwnerIInv, WriteOwnerIInv,
       WriteDefIInv, UnnoticedIInv, SavedIInv, DeletedIInv, EndedIInv, StopIInv, LoseAnswerIInv DEF Handle
  <1>4. ASSUME NEW p \in Pages, LoadMap(p) \/ LoadDef(p) \/ LoadFails(p) PROVE IInv'
    BY <1>4, LoadMapIInv, LoadDefIInv, LoadFailsIInv
  <1> QED
    BY <1>1, <1>2, <1>3, <1>4 DEF Next

\* The invariant: what each page is sure of is stored and is in all saves to come.
THEOREM Invariant == Spec => []IInv
  <1>1. Init => IInv
    BY InitIInv
  <1>2. IInv /\ [Next]_vars => IInv'
    BY NextIInv
  <1> QED
    BY <1>1, <1>2, PTL DEF Spec

\* The state is well-formed; a page that was loaded always has a layout to change.
THEOREM TypeCorrect == Spec => []TypeOK
  <1>1. IInv => TypeOK
    BY DEF IInv
  <1> QED
    BY <1>1, Invariant, PTL

\* However its requests overlap, fail or lose their answers, an item of a page that
\* shows its user's layout is stored as it is shown, unless its own last change was
\* lost by an error or crossed by another request of the page before the write.
THEOREM ItemsAreSafe == Spec => []SureIsStored
  <1>1. IInv => SureIsStored
    <2> SUFFICES ASSUME IInv, NEW p \in Pages, view[p] = "own", NEW i \in Items \ unsure[p]
                 PROVE  i \in shown[p] <=> i \in Content(stored[p])
      BY DEF SureIsStored
    <2>1. Agree(stored[p], shown[p], unsure[p])
      BY Kept DEF Fits
    <2> QED
      BY <2>1 DEF Agree
  <1> QED
    BY <1>1, Invariant, PTL

\* A user who has a layout is not shown the default one unasked, which the first change
\* would save over it.
THEOREM OwnComesFirst == Spec => []NothingOverwritten
  <1>1. IInv => NothingOverwritten
    <2> SUFFICES ASSUME IInv, NEW p \in Pages, Quiet(p), view[p] = "default", ~amiss[p]
                 PROVE  stored[p] = NoMap
      BY DEF NothingOverwritten
    <2>1. ~Owed(calls[p]) /\ loading[p] = "no"
      BY DEF Owed, OwedCall, Quiet
    <2> QED
      BY <2>1, Kept DEF Fits, HeardFits
  <1> QED
    BY <1>1, Invariant, PTL

===============================================================================
