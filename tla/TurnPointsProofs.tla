--------------------------- MODULE TurnPointsProofs ---------------------------
(***************************************************************************)
(* Proofs about TurnPoints: the turn points stay one line from device to   *)
(* device whatever is added, removed, reloaded, and the legs on the screen *)
(* are the segments of that line, for every MaxTps.                        *)
(***************************************************************************)
EXTENDS TurnPoints, TLAPS, FiniteSetTheorems

LEMMA IdsNotEnds == Ids \cap Ends = {} /\ NoRef \notin Ids \cup Ends /\ Ids \subseteq Nat
  BY EndsAssumption, NoRefAssumption, MaxTpsAssumption, SMT DEF Ids, Ends

LEMMA IdsFinite == IsFiniteSet(Ids)
  BY MaxTpsAssumption, FS_Interval, SMT DEF Ids

-------------------------------------------------------------------------------
(* Records and their neighbours. *)

\* What a line is made of, with the types of its parts.
IsLine(t, D, n, s) == /\ D \in SUBSET Ids /\ n \in Nat
                      /\ s \in [1..n -> D]
                      /\ DOMAIN t = D /\ t = [k \in D |-> t[k]]
                      /\ Line(t, s, n)

\* The record p names x as a neighbour.
Names(p, x) == \/ x \in Refs(p)
               \/ x \in Ends /\ p.type # "tptp" /\ x \in {p.from_dev, p.to_dev}

LEMMA JoinsSym ==
  ASSUME NEW p, NEW x, NEW y, Joins(p, x, y)
  PROVE  Joins(p, y, x)
  BY Zenon DEF Joins

LEMMA JoinsType ==
  ASSUME NEW p, NEW x, NEW y, Joins(p, x, y)
  PROVE  p \in Points /\ x \in Ends \cup Ids /\ y \in Ends \cup Ids
  BY SMT DEF Joins, Points

\* A record names its two neighbours and nothing else.
LEMMA JoinsNames ==
  ASSUME NEW p, NEW x, NEW y, Joins(p, x, y), NEW z
  PROVE  /\ Names(p, z) <=> z = x \/ z = y
         /\ Refs(p) = {x, y} \cap Ids
         /\ p.type = "devdev" <=> x \in Ends /\ y \in Ends
         /\ p.type = "tptp" <=> x \in Ids /\ y \in Ids
         /\ p.type \in {"devdev", "devtp", "tptp"}
  <1>1. CASE x \in Ends /\ y \in Ends
    BY <1>1, IdsNotEnds, SMT DEF Joins, Names, Refs, DevDev, DevTp, TpTp
  <1>2. CASE x \in Ends /\ y \in Ids
    BY <1>2, IdsNotEnds, SMT DEF Joins, Names, Refs, DevDev, DevTp, TpTp
  <1>3. CASE x \in Ids /\ y \in Ends
    BY <1>3, IdsNotEnds, SMT DEF Joins, Names, Refs, DevDev, DevTp, TpTp
  <1>4. CASE x \in Ids /\ y \in Ids
    BY <1>4, IdsNotEnds, SMT DEF Joins, Names, Refs, DevDev, DevTp, TpTp
  <1> QED
    BY <1>1, <1>2, <1>3, <1>4 DEF Joins

\* The record q has the neighbour y where the record p has x.
Replaces(p, q, x, y) == \A z : z # x /\ Joins(p, x, z) => Joins(q, y, z)

\* The edits of new_tp replace one neighbour of a point by the new one.
LEMMA SplitEndJoins ==
  ASSUME NEW p, NEW e \in Ends, NEW n \in Ids
  PROVE  Replaces(p, SplitEnd(p, e, n), e, n)
  <1> SUFFICES ASSUME NEW z, z # e, Joins(p, e, z) PROVE Joins(SplitEnd(p, e, n), n, z)
    BY DEF Replaces
  <1>1. CASE z \in Ends
    BY <1>1, IdsNotEnds, SMT DEF Joins, SplitEnd, DevDev, DevTp, TpTp
  <1>2. CASE z \in Ids
    BY <1>2, IdsNotEnds, SMT DEF Joins, SplitEnd, DevDev, DevTp, TpTp
  <1> QED
    BY <1>1, <1>2 DEF Joins

LEMMA SplitInnerJoins ==
  ASSUME NEW p, NEW o \in Ids, NEW n \in Ids
  PROVE  Replaces(p, SplitInner(p, o, n), o, n)
  <1> SUFFICES ASSUME NEW z, z # o, Joins(p, o, z) PROVE Joins(SplitInner(p, o, n), n, z)
    BY DEF Replaces
  <1>1. CASE z \in Ends
    BY <1>1, IdsNotEnds, SMT DEF Joins, SplitInner, DevDev, DevTp, TpTp
  <1>2. CASE z \in Ids
    BY <1>2, IdsNotEnds, SMT DEF Joins, SplitInner, DevDev, DevTp, TpTp
  <1> QED
    BY <1>1, <1>2 DEF Joins

\* The edits of remove_tp replace the removed neighbour by the one behind it.
LEMMA JoinDevJoins ==
  ASSUME NEW p, NEW i \in Ids, NEW e \in Ends
  PROVE  Replaces(p, JoinDev(p, i, e), i, e)
  <1> SUFFICES ASSUME NEW z, z # i, Joins(p, i, z) PROVE Joins(JoinDev(p, i, e), e, z)
    BY DEF Replaces
  <1>1. CASE z \in Ends
    BY <1>1, IdsNotEnds, SMT DEF Joins, JoinDev, DevDev, DevTp, TpTp
  <1>2. CASE z \in Ids
    BY <1>2, IdsNotEnds, SMT DEF Joins, JoinDev, DevDev, DevTp, TpTp
  <1> QED
    BY <1>1, <1>2 DEF Joins

LEMMA JoinTpJoins ==
  ASSUME NEW p, NEW i \in Ids, NEW o \in Ids
  PROVE  Replaces(p, JoinTp(p, i, o), i, o)
  <1> SUFFICES ASSUME NEW z, z # i, Joins(p, i, z) PROVE Joins(JoinTp(p, i, o), o, z)
    BY DEF Replaces
  <1>1. CASE z \in Ends
    BY <1>1, IdsNotEnds, SMT DEF Joins, JoinTp, DevDev, DevTp, TpTp
  <1>2. CASE z \in Ids
    BY <1>2, IdsNotEnds, SMT DEF Joins, JoinTp, DevDev, DevTp, TpTp
  <1> QED
    BY <1>1, <1>2 DEF Joins

-------------------------------------------------------------------------------
(* Lines. *)

\* The stops of a line are different from each other.
LEMMA StopInj ==
  ASSUME NEW t, NEW D, NEW n, NEW s, IsLine(t, D, n, s),
         NEW i \in 0..(n + 1), NEW j \in 0..(n + 1), Stop(s, n, i) = Stop(s, n, j)
  PROVE  i = j
  <1>1. n \in Nat /\ D \subseteq Ids /\ s \in [1..n -> D]
    BY DEF IsLine
  <1>2. \A k \in 1..n : s[k] \notin Ends
    BY <1>1, IdsNotEnds
  <1>3. \A k, m \in 1..n : s[k] = s[m] => k = m
    BY DEF IsLine, Line
  <1>4. \A k \in 0..(n + 1) : k = 0 \/ k = n + 1 \/ k \in 1..n
    BY <1>1
  <1> QED
    BY <1>1, <1>2, <1>3, <1>4, EndsAssumption, SMT DEF Stop, Ends

LEMMA StopType ==
  ASSUME NEW t, NEW D, NEW n, NEW s, IsLine(t, D, n, s), NEW i \in 0..(n + 1)
  PROVE  /\ Stop(s, n, i) \in D => i \in 1..n /\ Stop(s, n, i) = s[i]
         /\ Stop(s, n, i) \in Ids => Stop(s, n, i) \in D
         /\ Stop(s, n, i) \in Ends => i = 0 \/ i = n + 1
         /\ Stop(s, n, i) \in D \cup Ends
  <1>1. n \in Nat /\ D \subseteq Ids /\ s \in [1..n -> D]
    BY DEF IsLine
  <1>2. i = 0 \/ (i = n + 1 /\ i # 0) \/ (i \in 1..n /\ i # 0 /\ i # n + 1)
    BY <1>1
  <1>3. EndA \in Ends /\ EndB \in Ends /\ Ends \cap Ids = {}
    BY IdsNotEnds DEF Ends
  <1>4. CASE i = 0 \/ (i = n + 1 /\ i # 0)
    <2>1. Stop(s, n, i) \in Ends
      BY <1>3, <1>4, Zenon DEF Stop
    <2> QED
      BY <1>1, <1>3, <1>4, <2>1
  <1>5. CASE i \in 1..n /\ i # 0 /\ i # n + 1
    <2>1. Stop(s, n, i) = s[i]
      BY <1>5, Zenon DEF Stop
    <2>2. s[i] \in D
      BY <1>1, <1>5
    <2> QED
      BY <1>1, <1>3, <1>5, <2>1, <2>2
  <1> QED
    BY <1>2, <1>4, <1>5

\* A point on a line has its place between two stops, which its record joins.
LEMMA Place ==
  ASSUME NEW t, NEW D, NEW n, NEW s, IsLine(t, D, n, s), NEW d \in D
  PROVE  \E i \in 1..n : /\ s[i] = d /\ Stop(s, n, i) = d
                         /\ Joins(t[d], Stop(s, n, i - 1), Stop(s, n, i + 1))
  <1>1. n \in Nat /\ DOMAIN t = D
    BY DEF IsLine
  <1>2. PICK i \in 1..n : s[i] = d
    BY <1>1 DEF IsLine, Line
  <1>3. Joins(t[d], Stop(s, n, i - 1), Stop(s, n, i + 1))
    BY <1>2 DEF IsLine, Line
  <1>4. Stop(s, n, i) = d
    BY <1>1, <1>2, SMT DEF Stop
  <1> QED
    BY <1>2, <1>3, <1>4

\* A line has as many places as points.
LEMMA LineLength ==
  ASSUME NEW t, NEW D, NEW n, NEW s, IsLine(t, D, n, s)
  PROVE  Cardinality(D) = n
  <1>1. n \in Nat /\ D \subseteq Ids /\ s \in [1..n -> D] /\ DOMAIN t = D /\ Line(t, s, n)
    BY DEF IsLine
  <1>2. s \in Bijection(1..n, D)
    BY <1>1 DEF Line, Bijection, Injection, Surjection, IsInjective
  <1>3. IsFiniteSet(1..n) /\ Cardinality(1..n) = n
    BY <1>1, FS_Interval, SMT
  <1> QED
    BY <1>2, <1>3, FS_Bijection DEF ExistsBijection

\* OneLine and the type of the entry follow from a line.
LEMMA LineIsOneLine ==
  ASSUME NEW t, NEW D, NEW n, NEW s, IsLine(t, D, n, s), n # 0
  PROVE  OneLine(t) /\ TpsEntry(t)
  <1>1. n \in Nat \ {0} /\ D \subseteq Ids /\ s \in [1..n -> D] /\ DOMAIN t = D /\ Line(t, s, n)
    BY DEF IsLine
  <1>2. Cardinality(D) = n
    BY LineLength
  <1>3. D # {}
    BY <1>1
  <1>4. \A d \in D : t[d] \in Points
    BY Place, JoinsType
  <1>5. t \in [D -> Points]
    BY <1>4 DEF IsLine
  <1> QED
    BY <1>1, <1>2, <1>3, <1>5 DEF OneLine, TpsEntry

LEMMA OneLineIsLine ==
  ASSUME NEW t, t # NoTps, OneLine(t), TpsEntry(t)
  PROVE  \E D, n, s : IsLine(t, D, n, s) /\ n # 0
  <1> DEFINE D == DOMAIN t
             n == Cardinality(D)
  <1>1. D \in SUBSET Ids /\ D # {} /\ t \in [D -> Points]
    BY DEF TpsEntry
  <1>2. IsFiniteSet(D)
    BY <1>1, IdsFinite, FS_Subset
  <1>3. n \in Nat /\ n # 0
    BY <1>1, <1>2, FS_CardinalityType, FS_EmptySet
  <1>4. PICK s \in [1..n -> D] : Line(t, s, n)
    BY DEF OneLine
  <1> QED
    BY <1>1, <1>3, <1>4 DEF IsLine

-------------------------------------------------------------------------------
(* A point is put between two neighbouring stops of a line. *)

\* The line s of n points with the point m put behind the k-th stop.
PutAfter(s, n, k, m) == [i \in 1..(n + 1) |->
                           IF i <= k THEN s[i] ELSE IF i = k + 1 THEN m ELSE s[i - 1]]

LEMMA InsertLine ==
  ASSUME NEW t, NEW D, NEW n, NEW s, IsLine(t, D, n, s),
         NEW k \in 0..n, NEW m \in Ids \ D, NEW u,
         u = [d \in D \cup {m} |-> u[d]],
         Joins(u[m], Stop(s, n, k), Stop(s, n, k + 1)),
         \A d \in D \ {Stop(s, n, k), Stop(s, n, k + 1)} : u[d] = t[d],
         k # 0 => Replaces(t[s[k]], u[s[k]], Stop(s, n, k + 1), m),
         k # n => Replaces(t[s[k + 1]], u[s[k + 1]], Stop(s, n, k), m)
  PROVE  IsLine(u, D \cup {m}, n + 1, PutAfter(s, n, k, m))
  <1> DEFINE r == [i \in 1..(n + 1) |->
                     IF i <= k THEN s[i] ELSE IF i = k + 1 THEN m ELSE s[i - 1]]
             N(i) == IF i <= k THEN Stop(s, n, i) ELSE IF i = k + 1 THEN m ELSE Stop(s, n, i - 1)
  <1>a. n \in Nat
    BY DEF IsLine
  <1>0. k \in Nat /\ k <= n /\ n \in Nat
    BY <1>a, SMT
  <1>1. /\ D \subseteq Ids /\ s \in [1..n -> D] /\ DOMAIN t = D
        /\ \A x \in D : \E i \in 1..n : s[i] = x
        /\ \A i, j \in 1..n : s[i] = s[j] => i = j
    BY SMT DEF IsLine, Line
  <1>j. \A i \in 1..n : Joins(t[s[i]], Stop(s, n, i - 1), Stop(s, n, i + 1))
    BY DEF IsLine, Line
  <1>2. /\ r \in [1..(n + 1) -> D \cup {m}]
        /\ \A i \in 1..n : i <= k => r[i] = s[i]
        /\ r[k + 1] = m
        /\ \A i \in 1..n : i > k => r[i + 1] = s[i]
    BY <1>0, <1>1, SMT
  <1>3. \A i \in 0..(n + 2) : Stop(r, n + 1, i) = N(i)
    BY <1>0, <1>1, <1>2, SMTT(30) DEF Stop
  <1>4. \A x \in DOMAIN u : \E i \in 1..(n + 1) : r[i] = x
    <2> SUFFICES ASSUME NEW x \in D \cup {m} PROVE \E i \in 1..(n + 1) : r[i] = x
      BY Zenon
    <2>1. CASE x = m
      BY <1>0, <1>1, <1>2, <2>1
    <2>2. CASE x \in D
      <3>1. PICK i \in 1..n : s[i] = x
        BY <1>1, <2>2
      <3>2. CASE i <= k
        <4>1. i \in 1..(n + 1) /\ r[i] = x
          BY <1>0, <1>2, <3>1, <3>2
        <4> QED
          BY <4>1
      <3>3. CASE i > k
        <4>1. i + 1 \in 1..(n + 1) /\ r[i + 1] = x
          BY <1>0, <1>2, <3>1, <3>3
        <4> QED
          BY <4>1
      <3> QED
        BY <1>0, <3>2, <3>3
    <2> QED
      BY <2>1, <2>2
  <1>5. ASSUME NEW i \in 1..(n + 1), NEW j \in 1..(n + 1), r[i] = r[j] PROVE i = j
    BY <1>0, <1>1, <1>5, SMT
  <1>6. ASSUME NEW i \in 1..(n + 1)
        PROVE  Joins(u[r[i]], Stop(r, n + 1, i - 1), Stop(r, n + 1, i + 1))
    <2>0. Stop(r, n + 1, i - 1) = N(i - 1) /\ Stop(r, n + 1, i + 1) = N(i + 1)
      <3>1. i - 1 \in 0..(n + 2) /\ i + 1 \in 0..(n + 2)
        BY <1>0
      <3> HIDE DEF r, N
      <3> QED
        BY <1>3, <3>1
    <2>1. CASE i = k + 1
      <3>1. N(i - 1) = Stop(s, n, k) /\ N(i + 1) = Stop(s, n, k + 1)
        BY <1>0, <1>1, <2>1, SMT
      <3> QED
        BY <1>2, <2>0, <2>1, <3>1
    <2>2. CASE i = k
      <3>1. /\ i \in 1..n /\ N(i - 1) = Stop(s, n, i - 1) /\ N(i + 1) = m /\ r[i] = s[k]
        BY <1>0, <1>1, <1>2, <2>2, SMT
      <3>2. Joins(t[s[k]], Stop(s, n, k + 1), Stop(s, n, k - 1))
        BY <1>0, <1>1, <1>j, <2>2, <3>1, JoinsSym
      <3>3. Stop(s, n, k - 1) # Stop(s, n, k + 1)
        <4>1. k - 1 \in 0..(n + 1) /\ k + 1 \in 0..(n + 1) /\ k - 1 # k + 1
          BY <1>0, <2>2, <3>1, SMT
        <4> QED
          BY <4>1, StopInj
      <3>4. k # 0
        BY <2>2, <3>1
      <3>5. Joins(u[s[k]], m, Stop(s, n, k - 1))
        BY <3>2, <3>3, <3>4, Zenon DEF Replaces
      <3> QED
        BY <2>0, <2>2, <3>1, <3>5, JoinsSym
    <2>3. CASE i = k + 2
      <3>1. /\ k + 1 \in 1..n /\ N(i - 1) = m /\ N(i + 1) = Stop(s, n, k + 2) /\ r[i] = s[k + 1]
            /\ k # n
        BY <1>0, <1>1, <1>2, <2>3, SMT
      <3>2. Joins(t[s[k + 1]], Stop(s, n, k), Stop(s, n, k + 2))
        <4>1. (k + 1) - 1 = k /\ (k + 1) + 1 = k + 2
          BY <1>0
        <4> QED
          BY <1>0, <1>1, <1>j, <3>1, <4>1
      <3>3. Stop(s, n, k) # Stop(s, n, k + 2)
        <4>1. k \in 0..(n + 1) /\ k + 2 \in 0..(n + 1) /\ k # k + 2
          BY <1>0, <3>1, SMT
        <4> QED
          BY <4>1, StopInj
      <3>4. Joins(u[s[k + 1]], m, Stop(s, n, k + 2))
        BY <3>1, <3>2, <3>3, Zenon DEF Replaces
      <3> QED
        BY <2>0, <3>1, <3>4
    <2>4. CASE i < k \/ i > k + 2
      <3> DEFINE j == IF i < k THEN i ELSE i - 1
      <3>1. /\ j \in 1..n /\ r[i] = s[j] /\ j # k /\ j # k + 1
            /\ N(i - 1) = Stop(s, n, j - 1) /\ N(i + 1) = Stop(s, n, j + 1)
        BY <1>0, <1>1, <1>2, <2>4, SMT
      <3>2. s[j] = Stop(s, n, j)
        BY <1>0, <1>1, <3>1, SMT DEF Stop
      <3>3. s[j] # Stop(s, n, k) /\ s[j] # Stop(s, n, k + 1)
        <4>1. j \in 0..(n + 1) /\ k \in 0..(n + 1) /\ k + 1 \in 0..(n + 1)
          BY <1>0, <3>1, SMT
        <4> HIDE DEF j
        <4> QED
          BY <3>1, <3>2, <4>1, StopInj
      <3>4. u[s[j]] = t[s[j]]
        BY <1>0, <1>1, <3>1, <3>3
      <3> HIDE DEF j
      <3> QED
        BY <1>0, <1>1, <1>j, <2>0, <3>1, <3>4
    <2> QED
      BY <1>0, <1>1, <2>1, <2>2, <2>3, <2>4, SMT
  <1> HIDE DEF r
  <1>7. Line(u, r, n + 1)
    BY <1>4, <1>5, <1>6, Zenon DEF Line
  <1> QED
    BY <1>0, <1>1, <1>2, <1>7 DEF IsLine, PutAfter, r

-------------------------------------------------------------------------------
(* A point is taken out of a line, its neighbours are joined. *)

\* The line s of n points without its k-th point.
WithoutAt(s, n, k) == [i \in 1..(n - 1) |-> IF i < k THEN s[i] ELSE s[i + 1]]

LEMMA DeleteLine ==
  ASSUME NEW t, NEW D, NEW n, NEW s, IsLine(t, D, n, s), NEW k \in 1..n, NEW u,
         u = [d \in D \ {s[k]} |-> u[d]],
         \A d \in D \ {s[k], Stop(s, n, k - 1), Stop(s, n, k + 1)} : u[d] = t[d],
         k # 1 => Replaces(t[s[k - 1]], u[s[k - 1]], s[k], Stop(s, n, k + 1)),
         k # n => Replaces(t[s[k + 1]], u[s[k + 1]], s[k], Stop(s, n, k - 1))
  PROVE  IsLine(u, D \ {s[k]}, n - 1, WithoutAt(s, n, k))
  <1>a. n \in Nat
    BY DEF IsLine
  <1>0. k \in Nat /\ 1 <= k /\ k <= n /\ n \in Nat /\ n - 1 \in Nat
    BY <1>a, SMT
  <1>1. /\ D \subseteq Ids /\ s \in [1..n -> D] /\ DOMAIN t = D
        /\ \A x \in D : \E i \in 1..n : s[i] = x
        /\ \A i, j \in 1..n : s[i] = s[j] => i = j
    BY SMT DEF IsLine, Line
  <1>j. \A i \in 1..n : Joins(t[s[i]], Stop(s, n, i - 1), Stop(s, n, i + 1))
    BY DEF IsLine, Line
  <1> DEFINE r == [i \in 1..(n - 1) |-> IF i < k THEN s[i] ELSE s[i + 1]]
             N(i) == IF i < k THEN Stop(s, n, i) ELSE Stop(s, n, i + 1)
  <1>2. /\ \A i \in 1..n : i < k => r[i] = s[i]
        /\ \A i \in 1..n : i > k => r[i - 1] = s[i]
    BY <1>0, <1>1, SMT
  <1>3. r \in [1..(n - 1) -> D \ {s[k]}]
    BY <1>0, <1>1, SMT
  <1>4. \A i \in 0..n : Stop(r, n - 1, i) = N(i)
    BY <1>0, <1>1, SMT DEF Stop
  <1>5. \A x \in DOMAIN u : \E i \in 1..(n - 1) : r[i] = x
    <2> SUFFICES ASSUME NEW x \in D \ {s[k]} PROVE \E i \in 1..(n - 1) : r[i] = x
      BY Zenon
    <2>1. PICK i \in 1..n : s[i] = x
      BY <1>0, <1>1
    <2>2. CASE i < k
      <3>1. i \in 1..(n - 1) /\ r[i] = x
        BY <1>0, <1>2, <2>1, <2>2
      <3> QED
        BY <3>1
    <2>3. CASE i > k
      <3>1. i - 1 \in 1..(n - 1) /\ r[i - 1] = x
        BY <1>0, <1>2, <2>1, <2>3
      <3> QED
        BY <3>1
    <2>4. i < k \/ i > k
      BY <1>0, <2>1
    <2> QED
      BY <2>2, <2>3, <2>4
  <1>6. ASSUME NEW i \in 1..(n - 1), NEW j \in 1..(n - 1), r[i] = r[j] PROVE i = j
    BY <1>0, <1>1, <1>6, SMT
  <1>7. ASSUME NEW i \in 1..(n - 1)
        PROVE  Joins(u[r[i]], Stop(r, n - 1, i - 1), Stop(r, n - 1, i + 1))
    <2>0. Stop(r, n - 1, i - 1) = N(i - 1) /\ Stop(r, n - 1, i + 1) = N(i + 1)
      <3>1. i - 1 \in 0..n /\ i + 1 \in 0..n
        BY <1>0
      <3> HIDE DEF r, N
      <3> QED
        BY <1>4, <3>1
    <2>1. CASE i = k - 1
      <3>1. /\ k - 1 \in 1..n /\ k # 1 /\ r[i] = s[k - 1]
            /\ N(i - 1) = Stop(s, n, k - 2) /\ N(i + 1) = Stop(s, n, k + 1)
        BY <1>0, <1>1, <1>2, <2>1, SMT
      <3>2. Stop(s, n, k) = s[k]
        BY <1>0, <1>1, SMT DEF Stop
      <3>3. Joins(t[s[k - 1]], s[k], Stop(s, n, k - 2))
        <4>1. (k - 1) - 1 = k - 2 /\ (k - 1) + 1 = k
          BY <1>0
        <4> QED
          BY <1>0, <1>1, <1>j, <3>1, <3>2, <4>1, JoinsSym
      <3>4. Stop(s, n, k - 2) # s[k]
        <4>1. k - 2 \in 0..(n + 1) /\ k \in 0..(n + 1) /\ k # k - 2
          BY <1>0, <3>1, SMT
        <4> QED
          BY <3>2, <4>1, StopInj
      <3>5. Joins(u[s[k - 1]], Stop(s, n, k + 1), Stop(s, n, k - 2))
        BY <3>1, <3>3, <3>4, Zenon DEF Replaces
      <3> QED
        BY <2>0, <3>1, <3>5, JoinsSym
    <2>2. CASE i = k
      <3>1. /\ k + 1 \in 1..n /\ k # n /\ r[i] = s[k + 1]
            /\ N(i - 1) = Stop(s, n, k - 1) /\ N(i + 1) = Stop(s, n, k + 2)
        BY <1>0, <1>1, <1>2, <2>2, SMT
      <3>2. Stop(s, n, k) = s[k]
        BY <1>0, <1>1, SMT DEF Stop
      <3>3. Joins(t[s[k + 1]], s[k], Stop(s, n, k + 2))
        <4>1. (k + 1) - 1 = k /\ (k + 1) + 1 = k + 2
          BY <1>0
        <4> QED
          BY <1>0, <1>1, <1>j, <3>1, <3>2, <4>1
      <3>4. Stop(s, n, k + 2) # s[k]
        <4>1. k + 2 \in 0..(n + 1) /\ k \in 0..(n + 1) /\ k # k + 2
          BY <1>0, <3>1, SMT
        <4> QED
          BY <3>2, <4>1, StopInj
      <3>5. Joins(u[s[k + 1]], Stop(s, n, k - 1), Stop(s, n, k + 2))
        BY <3>1, <3>3, <3>4, Zenon DEF Replaces
      <3> QED
        BY <2>0, <3>1, <3>5
    <2>3. CASE i < k - 1 \/ i > k
      <3> DEFINE j == IF i < k THEN i ELSE i + 1
      <3>1. /\ j \in 1..n /\ r[i] = s[j] /\ j # k /\ j # k - 1 /\ j # k + 1
            /\ N(i - 1) = Stop(s, n, j - 1) /\ N(i + 1) = Stop(s, n, j + 1)
        BY <1>0, <1>1, <1>2, <2>3, SMT
      <3>2. s[j] = Stop(s, n, j)
        BY <1>0, <1>1, <3>1, SMT DEF Stop
      <3>3. s[j] # Stop(s, n, k - 1) /\ s[j] # Stop(s, n, k + 1) /\ s[j] # s[k]
        <4>1. j \in 0..(n + 1) /\ k - 1 \in 0..(n + 1) /\ k + 1 \in 0..(n + 1)
          BY <1>0, <3>1, SMT
        <4> HIDE DEF j
        <4> QED
          BY <1>0, <1>1, <3>1, <3>2, <4>1, StopInj, SMTT(30)
      <3>4. u[s[j]] = t[s[j]]
        BY <1>0, <1>1, <3>1, <3>3
      <3> HIDE DEF j
      <3> QED
        BY <1>0, <1>1, <1>j, <2>0, <3>1, <3>4
    <2> QED
      BY <1>0, <1>1, <2>1, <2>2, <2>3, SMT
  <1> HIDE DEF r
  <1>8. Line(u, r, n - 1)
    <2>1. (n - 1) + 1 = n
      BY <1>0, <1>1
    <2> QED
      BY <1>5, <1>6, <1>7, Zenon DEF Line
  <1> QED
    BY <1>0, <1>1, <1>3, <1>8 DEF IsLine, WithoutAt, r

-------------------------------------------------------------------------------
(* new_tp and remove_tp keep the line. *)

\* The same as InsertLine, the place given by a point p and a neighbour x of it.
LEMMA InsertBetween ==
  ASSUME NEW t, NEW D, NEW n, NEW s, IsLine(t, D, n, s),
         NEW p \in D, NEW x, Names(t[p], x), NEW m \in Ids \ D, NEW u,
         u = [d \in D \cup {m} |-> u[d]],
         Joins(u[m], p, x),
         \A d \in D \ {p, x} : u[d] = t[d],
         Replaces(t[p], u[p], x, m),
         x \in D => Replaces(t[x], u[x], p, m)
  PROVE  \E k \in 0..n : IsLine(u, D \cup {m}, n + 1, PutAfter(s, n, k, m))
  <1>0. PICK i \in 1..n : /\ s[i] = p /\ Stop(s, n, i) = p
                          /\ Joins(t[p], Stop(s, n, i - 1), Stop(s, n, i + 1))
    BY Place
  <1>1. /\ s[i] = p /\ Stop(s, n, i) = p
        /\ x \in {Stop(s, n, i - 1), Stop(s, n, i + 1)}
    BY <1>0, JoinsNames
  <1>2. n \in Nat /\ i \in Nat /\ 1 <= i /\ i <= n
    <2>1. n \in Nat
      BY DEF IsLine
    <2> QED
      BY <2>1, SMT
  <1>3. CASE x = Stop(s, n, i - 1)
    <2> DEFINE k == i - 1
    <2>1. k \in 0..n /\ k \in 0..(n + 1) /\ k + 1 = i
      BY <1>2
    <2>2. Stop(s, n, k) = x /\ Stop(s, n, k + 1) = p
      BY <1>1, <1>3, <2>1
    <2>3. k # 0 => s[k] = x /\ x \in D
      <3>1. k # 0 => k \in 1..n /\ k # n + 1
        BY <1>2
      <3>2. k # 0 => Stop(s, n, k) = s[k]
        BY <3>1, Zenon DEF Stop
      <3> QED
        BY <2>2, <3>1, <3>2 DEF IsLine
    <2> HIDE DEF k
    <2>4. s[k + 1] = p
      BY <1>1, <2>1
    <2>5. Joins(u[m], Stop(s, n, k), Stop(s, n, k + 1))
      BY <2>2, JoinsSym
    <2> QED
      BY <2>1, <2>2, <2>3, <2>4, <2>5, InsertLine
  <1>4. CASE x = Stop(s, n, i + 1)
    <2>1. i \in 0..n /\ i + 1 \in 0..(n + 1) /\ i # 0
      BY <1>2
    <2>2. i # n => s[i + 1] = x /\ x \in D
      <3>1. i # n => i + 1 \in 1..n /\ i + 1 # 0 /\ i + 1 # n + 1
        BY <1>2
      <3>2. i # n => Stop(s, n, i + 1) = s[i + 1]
        BY <3>1, Zenon DEF Stop
      <3> QED
        BY <1>4, <3>1, <3>2 DEF IsLine
    <2>3. Joins(u[m], Stop(s, n, i), Stop(s, n, i + 1))
      BY <1>1, <1>4
    <2>4. \A d \in D \ {Stop(s, n, i), Stop(s, n, i + 1)} : u[d] = t[d]
      BY <1>1, <1>4
    <2>5. i # 0 => Replaces(t[s[i]], u[s[i]], Stop(s, n, i + 1), m)
      BY <1>1, <1>4
    <2>6. i # n => Replaces(t[s[i + 1]], u[s[i + 1]], Stop(s, n, i), m)
      BY <1>1, <2>2
    <2> QED
      BY <2>1, <2>3, <2>4, <2>5, <2>6, InsertLine
  <1> QED
    BY <1>1, <1>3, <1>4

\* The first point is put on the leg between the two devices.
LEMMA FirstTpLine ==
  ASSUME NEW e \in Ends, NEW leg \in LegsOf(NoTps, e), NEW m \in Ids
  PROVE  IsLine(WithTp(NoTps, leg, m), {m}, 1, [i \in 1..1 |-> m])
  <1> DEFINE u == WithTp(NoTps, leg, m)
  <1>1. leg = DevDev(e, Other(e)) /\ Other(e) \in Ends /\ {e, Other(e)} = {EndA, EndB}
    BY DEF LegsOf, Other, Ends
  <1>2. u = [k \in {m} |-> DevDev(e, Other(e))]
    BY <1>1 DEF WithTp, OnDevDev, DevDev
  <1> DEFINE s == [i \in 1..1 |-> m]
  <1>3. s[1] = m /\ s \in [1..1 -> {m}] /\ \A i \in 1..1 : i = 1
    BY SMT
  <1>4. u[m] = DevDev(e, Other(e)) /\ DOMAIN u = {m}
    BY <1>2, Zenon
  <1>5. Stop(s, 1, 1 - 1) = EndA /\ Stop(s, 1, 1 + 1) = EndB
    BY SMT DEF Stop
  <1>6. Joins(u[m], EndA, EndB)
    BY <1>1, <1>4, Zenon DEF Joins, Ends
  <1> HIDE DEF u, s
  <1>7. Line(u, s, 1)
    BY <1>3, <1>4, <1>5, <1>6 DEF Line
  <1>8. IsLine(u, {m}, 1, s)
    BY <1>2, <1>3, <1>4, <1>7, Zenon DEF IsLine, u
  <1> QED
    BY <1>8 DEF u, s

\* A further point is put on a leg of the line.
LEMMA NextTpLine ==
  ASSUME NEW t, t # NoTps, NEW D, NEW n, NEW s, IsLine(t, D, n, s),
         NEW e \in Ends, NEW leg \in LegsOf(t, e), NEW m \in Ids \ D
  PROVE  \E k \in 0..n : IsLine(WithTp(t, leg, m), D \cup {m}, n + 1, PutAfter(s, n, k, m))
  <1> DEFINE u == WithTp(t, leg, m)
  <1> SUFFICES \E k \in 0..n : IsLine(u, D \cup {m}, n + 1, PutAfter(s, n, k, m))
    OBVIOUS
  <1>1. DOMAIN t = D /\ D \subseteq Ids /\ n \in Nat
    BY DEF IsLine
  <1>2. CASE leg \in EndLegs(t)
    <2>1. PICK x \in Ends \X D : /\ leg = DevTp(x[1], x[2]) /\ t[x[2]].type # "tptp"
                                 /\ x[1] \in {t[x[2]].from_dev, t[x[2]].to_dev}
      BY <1>1, <1>2 DEF EndLegs
    <2> DEFINE f == x[1]
               p == x[2]
    <2>2. f \in Ends /\ p \in D /\ p \in Ids /\ f \notin D /\ p # m /\ Names(t[p], f)
      BY <1>1, <2>1, IdsNotEnds DEF Names
    <2>3. leg.type = "devtp" /\ leg.from_dev = f /\ leg.to_tp = p /\ leg = DevTp(f, p)
      BY <2>1 DEF DevTp
    <2> HIDE DEF f, p
    <2>4. u = OnDevTp(t, leg, m)
      BY <2>3 DEF WithTp
    <2>5. u = [k \in D \cup {m} |-> IF k = m THEN DevTp(f, p)
                                    ELSE IF k = p THEN SplitEnd(t[k], f, m) ELSE t[k]]
      BY <1>1, <2>3, <2>4, Zenon DEF OnDevTp
    <2> HIDE DEF u
    <2>6. /\ u[m] = DevTp(f, p) /\ u[p] = SplitEnd(t[p], f, m)
          /\ \A d \in D \ {p, f} : u[d] = t[d]
          /\ u = [k \in D \cup {m} |-> u[k]]
      BY <1>1, <2>2, <2>5
    <2>7. Joins(u[m], p, f)
      BY <2>2, <2>6, Zenon DEF Joins
    <2>8. Replaces(t[p], u[p], f, m)
      BY <2>2, <2>6, SplitEndJoins
    <2> QED
      BY <1>1, <2>2, <2>6, <2>7, <2>8, InsertBetween
  <1>3. CASE leg \in TpLegs(t)
    <2>1. PICK x \in D \X Ids : leg = TpTp(x[1], x[2]) /\ x[2] \in Refs(t[x[1]])
      BY <1>1, <1>3 DEF TpLegs
    <2> DEFINE p == x[1]
               q == x[2]
    <2>2. p \in D /\ p \in Ids /\ q \in Ids /\ Names(t[p], q) /\ p # m
      BY <1>1, <2>1 DEF Names
    <2>3. leg.type = "tptp" /\ leg.from_tp = p /\ leg.to_tp = q /\ leg = TpTp(p, q)
      BY <2>1 DEF TpTp
    <2> HIDE DEF p, q
    <2>4. p # q /\ q \in D
      <3>0. PICK i \in 1..n :
              /\ s[i] = p /\ Stop(s, n, i) = p
              /\ Joins(t[p], Stop(s, n, i - 1), Stop(s, n, i + 1))
        BY <2>2, Place
      <3>1. Stop(s, n, i) = p /\ q \in {Stop(s, n, i - 1), Stop(s, n, i + 1)}
        BY <2>2, <3>0, JoinsNames
      <3>2. /\ i - 1 \in 0..(n + 1) /\ i \in 0..(n + 1) /\ i + 1 \in 0..(n + 1)
            /\ i # i - 1 /\ i # i + 1
        BY <1>1, SMT
      <3>3. p # q
        BY <3>1, <3>2, StopInj
      <3>4. q \in D
        BY <2>2, <3>1, <3>2, StopType
      <3> QED
        BY <3>3, <3>4
    <2>5. u = OnTpTp(t, leg, m)
      BY <2>3 DEF WithTp
    <2>6. u = [k \in D \cup {m} |-> IF k = m THEN TpTp(p, q)
                                    ELSE IF k = p THEN SplitInner(t[k], q, m)
                                    ELSE IF k = q THEN SplitInner(t[k], p, m) ELSE t[k]]
      BY <1>1, <2>3, <2>5, Zenon DEF OnTpTp
    <2> HIDE DEF u
    <2>7. /\ u[m] = TpTp(p, q) /\ u[p] = SplitInner(t[p], q, m)
          /\ u[q] = SplitInner(t[q], p, m)
          /\ \A d \in D \ {p, q} : u[d] = t[d]
          /\ u = [k \in D \cup {m} |-> u[k]]
      BY <1>1, <2>2, <2>4, <2>6
    <2>8. Joins(u[m], p, q)
      BY <2>2, <2>7, Zenon DEF Joins
    <2>9. Replaces(t[p], u[p], q, m)
      BY <2>2, <2>7, SplitInnerJoins
    <2>10. q \in D => Replaces(t[q], u[q], p, m)
      BY <2>2, <2>7, SplitInnerJoins
    <2>11. p \in D /\ Names(t[p], q) /\ m \in Ids \ D
      BY <2>2
    <2>12. u = [k \in D \cup {m} |-> u[k]] /\ \A d \in D \ {p, q} : u[d] = t[d]
      BY <2>7
    <2> QED
      BY <2>8, <2>9, <2>10, <2>11, <2>12, InsertBetween
  <1> QED
    BY <1>2, <1>3 DEF LegsOf

LEMMA WithTpLine ==
  ASSUME NEW t, OneLine(t), TpsEntry(t), NEW e \in Ends, NEW leg \in LegsOf(t, e),
         NEW m \in Ids, t # NoTps => m \notin DOMAIN t
  PROVE  OneLine(WithTp(t, leg, m)) /\ TpsEntry(WithTp(t, leg, m))
  <1>1. CASE t = NoTps
    <2>1. IsLine(WithTp(t, leg, m), {m}, 1, [i \in 1..1 |-> m])
      BY <1>1, FirstTpLine
    <2> QED
      BY <2>1, LineIsOneLine
  <1>2. CASE t # NoTps
    <2>1. PICK D, n, s : IsLine(t, D, n, s) /\ n # 0
      BY <1>2, OneLineIsLine
    <2>2. n \in Nat /\ n + 1 # 0 /\ m \in Ids \ D
      BY <1>2, <2>1 DEF IsLine
    <2> QED
      BY <1>2, <2>1, <2>2, NextTpLine, LineIsOneLine
  <1> QED
    BY <1>1, <1>2

\* A point that is not the last one is taken out of the line.
LEMMA CutTpLine ==
  ASSUME NEW t, NEW i \in DOMAIN t, DOMAIN t # {i}, NEW D, NEW n, NEW s, IsLine(t, D, n, s)
  PROVE  n # 1 /\ \E k \in 1..n : /\ s[k] = i
                                   /\ IsLine(WithoutTp(t, i), D \ {i}, n - 1, WithoutAt(s, n, k))
  <1>1. DOMAIN t = D /\ D \subseteq Ids /\ n \in Nat /\ i \in D /\ s \in [1..n -> D]
    BY DEF IsLine
  <1>2. PICK k \in 1..n : /\ s[k] = i /\ Stop(s, n, k) = i
                          /\ Joins(t[i], Stop(s, n, k - 1), Stop(s, n, k + 1))
    BY <1>1, Place
  <1> DEFINE a == Stop(s, n, k - 1)
             b == Stop(s, n, k + 1)
             u == WithoutTp(t, i)
  <1>3. /\ k \in Nat /\ 1 <= k /\ k <= n
        /\ k - 1 \in 0..(n + 1) /\ k \in 0..(n + 1) /\ k + 1 \in 0..(n + 1) /\ n - 1 \in Nat
        /\ k # k - 1 /\ k # k + 1 /\ k - 1 # k + 1 /\ k - 1 # n + 1 /\ k + 1 # 0
    BY <1>1, SMT
  <1>4. /\ a # b /\ a # i /\ b # i
        /\ k = 1 => a \in Ends
        /\ k # 1 => a = s[k - 1] /\ a \in D
        /\ k = n => b \in Ends
        /\ k # n => b = s[k + 1] /\ b \in D
    <2>1. a # b /\ a # i /\ b # i
      BY <1>2, <1>3, StopInj
    <2>2. k = 1 => k - 1 = 0
      BY <1>3
    <2>3. k # 1 => k - 1 # 0 /\ k - 1 \in 1..n
      BY <1>1, <1>3
    <2>4. k # n => k + 1 # n + 1 /\ k + 1 \in 1..n
      BY <1>1, <1>3
    <2>5. /\ k = 1 => a = EndA
          /\ k # 1 => a = s[k - 1]
          /\ k = n => b = EndB
          /\ k # n => b = s[k + 1]
      BY <1>3, <2>2, <2>3, <2>4, Zenon DEF Stop
    <2> QED
      BY <1>1, <2>1, <2>3, <2>4, <2>5 DEF Ends
  <1>5. n # 1
    <2> SUFFICES ASSUME n = 1 PROVE FALSE
      OBVIOUS
    <2>1. D = {i}
      BY <1>1, <1>2 DEF IsLine, Line
    <2> QED
      BY <1>1, <2>1
  <1> HIDE DEF a, b
  <1>6. u = [d \in D \ {i} |->
               CASE t[i].type = "devtp" /\ d = t[i].to_tp  -> JoinDev(t[d], i, t[i].from_dev)
                 [] t[i].type = "tptp" /\ d = t[i].from_tp -> JoinTp(t[d], i, t[i].to_tp)
                 [] t[i].type = "tptp" /\ d = t[i].to_tp   -> JoinTp(t[d], i, t[i].from_tp)
                 [] OTHER -> t[d]]
    BY <1>1, Zenon DEF WithoutTp, Joined
  <1>7. i \in Ids /\ Joins(t[i], a, b)
    BY <1>1, <1>2 DEF a, b
  <1>8. IsLine(u, D \ {i}, n - 1, WithoutAt(s, n, k))
    <2> SUFFICES /\ u = [d \in D \ {i} |-> u[d]]
                 /\ \A d \in D \ {i, a, b} : u[d] = t[d]
                 /\ k # 1 => Replaces(t[a], u[a], i, b)
                 /\ k # n => Replaces(t[b], u[b], i, a)
      <3> HIDE DEF u
      <3>1. k # 1 => Replaces(t[s[k - 1]], u[s[k - 1]], s[k], Stop(s, n, k + 1))
        BY <1>2, <1>4 DEF b
      <3>2. k # n => Replaces(t[s[k + 1]], u[s[k + 1]], s[k], Stop(s, n, k - 1))
        BY <1>2, <1>4 DEF a
      <3>3. \A d \in D \ {s[k], Stop(s, n, k - 1), Stop(s, n, k + 1)} : u[d] = t[d]
        BY <1>2 DEF a, b
      <3>4. u = [d \in D \ {s[k]} |-> u[d]]
        BY <1>2
      <3>5. IsLine(u, D \ {s[k]}, n - 1, WithoutAt(s, n, k))
        BY <3>1, <3>2, <3>3, <3>4, DeleteLine
      <3> QED
        BY <1>2, <3>5
    <2>1. CASE k = 1
      <3>1. a \in Ends /\ b \in D /\ b \in Ids /\ k # n
        BY <1>1, <1>4, <1>5, <2>1
      <3>2. t[i].type = "devtp" /\ t[i].from_dev = a /\ t[i].to_tp = b
        BY <1>7, <3>1, IdsNotEnds, SMT DEF Joins, DevDev, DevTp, TpTp
      <3>3. u = [d \in D \ {i} |-> IF d = b THEN JoinDev(t[d], i, a) ELSE t[d]]
        BY <1>6, <3>2
      <3> HIDE DEF u
      <3>4. /\ u = [d \in D \ {i} |-> u[d]] /\ u[b] = JoinDev(t[b], i, a)
            /\ \A d \in D \ {i, a, b} : u[d] = t[d]
        BY <1>4, <3>1, <3>3
      <3>5. Replaces(t[b], u[b], i, a)
        BY <1>7, <3>1, <3>4, JoinDevJoins
      <3> QED
        BY <2>1, <3>4, <3>5
    <2>2. CASE k = n
      <3>1. b \in Ends /\ a \in D /\ a \in Ids /\ k # 1
        BY <1>1, <1>4, <1>5, <2>2
      <3>2. t[i].type = "devtp" /\ t[i].from_dev = b /\ t[i].to_tp = a
        BY <1>7, <3>1, IdsNotEnds, SMT DEF Joins, DevDev, DevTp, TpTp
      <3>3. u = [d \in D \ {i} |-> IF d = a THEN JoinDev(t[d], i, b) ELSE t[d]]
        BY <1>6, <3>2
      <3> HIDE DEF u
      <3>4. /\ u = [d \in D \ {i} |-> u[d]] /\ u[a] = JoinDev(t[a], i, b)
            /\ \A d \in D \ {i, a, b} : u[d] = t[d]
        BY <1>4, <3>1, <3>3
      <3>5. Replaces(t[a], u[a], i, b)
        BY <1>7, <3>1, <3>4, JoinDevJoins
      <3> QED
        BY <2>2, <3>4, <3>5
    <2>3. CASE k # 1 /\ k # n
      <3>1. a \in D /\ b \in D /\ a \in Ids /\ b \in Ids /\ a # b /\ a # i /\ b # i
        BY <1>1, <1>4, <2>3
      <3>2. /\ t[i].type = "tptp"
            /\ \/ t[i].from_tp = a /\ t[i].to_tp = b
               \/ t[i].from_tp = b /\ t[i].to_tp = a
        BY <1>7, <3>1, IdsNotEnds, SMT DEF Joins, DevDev, DevTp, TpTp
      <3>3. u = [d \in D \ {i} |-> IF d = a THEN JoinTp(t[d], i, b)
                                   ELSE IF d = b THEN JoinTp(t[d], i, a) ELSE t[d]]
        BY <1>6, <3>1, <3>2
      <3> HIDE DEF u
      <3>4. /\ u = [d \in D \ {i} |-> u[d]] /\ u[a] = JoinTp(t[a], i, b)
            /\ u[b] = JoinTp(t[b], i, a) /\ \A d \in D \ {i, a, b} : u[d] = t[d]
        BY <3>1, <3>3
      <3>5. Replaces(t[a], u[a], i, b)
        BY <1>7, <3>1, <3>4, JoinTpJoins
      <3>6. Replaces(t[b], u[b], i, a)
        BY <1>7, <3>1, <3>4, JoinTpJoins
      <3> QED
        BY <3>4, <3>5, <3>6
    <2> QED
      BY <2>1, <2>2, <2>3
  <1> QED
    BY <1>2, <1>5, <1>8

LEMMA WithoutTpLine ==
  ASSUME NEW t, t # NoTps, OneLine(t), TpsEntry(t), NEW i \in DOMAIN t
  PROVE  OneLine(WithoutTp(t, i)) /\ TpsEntry(WithoutTp(t, i))
  <1>1. CASE DOMAIN t = {i}
    BY <1>1, Zenon DEF WithoutTp, OneLine, TpsEntry
  <1>2. CASE DOMAIN t # {i}
    <2>1. PICK D, n, s : IsLine(t, D, n, s) /\ n # 0
      BY OneLineIsLine
    <2>2. n # 1
      BY <1>2, <2>1, CutTpLine
    <2>3. PICK k \in 1..n : /\ s[k] = i
                            /\ IsLine(WithoutTp(t, i), D \ {i}, n - 1, WithoutAt(s, n, k))
      BY <1>2, <2>1, CutTpLine
    <2>4. n - 1 # 0
      BY <2>1, <2>2 DEF IsLine
    <2> QED
      BY <2>3, <2>4, LineIsOneLine
  <1> QED
    BY <1>1, <1>2

-------------------------------------------------------------------------------
(* The invariant: the records form a line, the legs come from the records. *)

ConnOK == conn # NoConn => conn.from_dev \in Ends /\ conn.legs = LegsOf(tps, conn.from_dev)

\* A port of a known link is missing only while the save_vdev that took it is under way.
PortsThere == known /\ ~adrift => Ends \ ports \subseteq (IF edit.had THEN {edit.dev} ELSE {})

\* A device that was deleted while its save_vdev was under way is not on the map.
HeldIsOff == edit.dev \in Ends \ devs => edit.dev \notin loc

\* A port taken away is something that differs.
TakenDiffers == edit.had /\ edit.dev \notin ports => edit.differ

IInv == TypeOK /\ TpsAreOneLine /\ ConnOK /\ PortsThere /\ HeldIsOff /\ TakenDiffers

\* A drawn link is known and its devices are on the map; one that could be drawn is.
Shown == /\ conn # NoConn => known /\ Ends \subseteq drawn
         /\ conn = NoConn /\ undrawn = {} => NoConn \in Connections(devs, known, listed, loc, tps)

\* Legs are records like turn points.
LEMMA LegsType ==
  ASSUME NEW t, TpsEntry(t), NEW e \in Ends
  PROVE  LegsOf(t, e) \in SUBSET Points
  <1>1. CASE t = NoTps
    BY <1>1 DEF LegsOf, Points, Other, Ends
  <1>2. CASE t # NoTps
    <2>1. DOMAIN t \subseteq Ids
      BY <1>2 DEF TpsEntry
    <2>2. EndLegs(t) \subseteq Points
      BY <2>1 DEF EndLegs, Points
    <2>3. TpLegs(t) \subseteq Points
      BY <2>1 DEF TpLegs, Points
    <2> QED
      BY <1>2, <2>2, <2>3 DEF LegsOf
  <1> QED
    BY <1>1, <1>2

\* What build_connections leaves: nothing, or the legs of the records; nothing
\* unless both devices are drawn and the page knows the link.
Made(c, d, k, lc, t) ==
  \/ c = NoConn
  \/ /\ c \in [from_dev : Ends, legs : SUBSET Points] /\ c.legs = LegsOf(t, c.from_dev)
     /\ k /\ Ends \subseteq d \cap lc

LEMMA ConnectionsType ==
  ASSUME NEW d, NEW k, NEW ls \in SUBSET Ends, NEW lc, NEW t, TpsEntry(t),
         NEW c \in Connections(d, k, ls, lc, t)
  PROVE  Made(c, d, k, lc, t)
  <1>1. CASE k /\ Ends \subseteq d \cap lc /\ ls # {}
    <2>1. PICK e \in ls : c = [from_dev |-> e, legs |-> LegsOf(t, e)]
      BY <1>1 DEF Connections
    <2> QED
      BY <1>1, <2>1, LegsType DEF Made
  <1>2. CASE ~(k /\ Ends \subseteq d \cap lc /\ ls # {})
    BY <1>2 DEF Connections, Made
  <1> QED
    BY <1>1, <1>2

\* Init and every action leave conn as it was, or as build_connections makes it.
LEMMA RebuildOK ==
  ASSUME listed' \subseteq Ends, TpsEntry(tps'),
         conn' \in Connections(devs', known', listed', loc', tps')
  PROVE  /\ ConnOK'
         /\ conn' = NoConn \/ conn' \in [from_dev : Ends, legs : SUBSET Points]
         /\ Shown'
  <1>1. Made(conn', devs', known', loc', tps')
    <2>1. listed' \in SUBSET Ends
      OBVIOUS
    <2> QED
      BY <2>1, ConnectionsType
  <1>2. ConnOK'
    BY <1>1 DEF ConnOK, Made
  <1>3. Shown'
    BY <1>1 DEF Shown, drawn, Made
  <1> QED
    BY <1>1, <1>2, <1>3 DEF Made

\* The same with what a throw in build_connections may leave undone.
LEMMA ReconnectOK ==
  ASSUME listed' \subseteq Ends, TpsEntry(tps'), Reconnect
  PROVE  /\ ConnOK'
         /\ conn' = NoConn \/ conn' \in [from_dev : Ends, legs : SUBSET Points]
         /\ Shown'
  <1>1. CASE conn' \in Connections(devs', known', listed', loc', tps')
    BY <1>1, RebuildOK
  <1>2. CASE undrawn # {} /\ conn' = NoConn
    <2>1. undrawn' # {}
      BY <1>2 DEF Reconnect
    <2> QED
      BY <1>2, <2>1 DEF ConnOK, Shown
  <1> QED
    BY <1>1, <1>2 DEF Reconnect

LEMMA SaveOK ==
  ASSUME Save, TpsEntry(tps'), OneLine(tps'), TpsEntry(stored), OneLine(stored)
  PROVE  TpsEntry(stored') /\ OneLine(stored')
  BY DEF Save

LEMMA NoTpsOK == TpsEntry(NoTps) /\ OneLine(NoTps)
  BY Zenon DEF TpsEntry, OneLine

\* The effect of remove_from_map.
LEMMA OffMapOK ==
  ASSUME NEW e, IInv, OffMap(e)
  PROVE  /\ loc' = loc \ {e} /\ undrawn' = undrawn \ {e}
         /\ TpsEntry(tps') /\ OneLine(tps') /\ TpsEntry(stored') /\ OneLine(stored')
         /\ conn' = NoConn
  <1>1. TpsEntry(tps') /\ OneLine(tps')
    BY NoTpsOK DEF OffMap, IInv, TypeOK, TpsAreOneLine
  <1>2. TpsEntry(stored') /\ OneLine(stored')
    BY <1>1, SaveOK DEF OffMap, IInv, TypeOK, TpsAreOneLine
  <1> QED
    BY <1>1, <1>2 DEF OffMap

LEMMA NoEditType == NoEdit.dev \notin Ends /\ NoEdit.had = FALSE
  BY NoRefAssumption DEF NoEdit

LEMMA InitIInv == Init => IInv /\ Shown
  <1> SUFFICES ASSUME Init PROVE IInv /\ Shown
    OBVIOUS
  <1>1. listed \subseteq Ends /\ TpsEntry(tps) /\ OneLine(tps)
    BY NoTpsOK DEF Init
  <1>2. Made(conn, devs, known, loc, tps)
    <2>1. listed \in SUBSET Ends /\ conn \in Connections(devs, known, listed, loc, tps)
      BY DEF Init
    <2>2. TpsEntry(tps)
      BY <1>1
    <2> QED
      BY <2>1, <2>2, ConnectionsType
  <1>3. TypeOK
    <2>1. /\ devs \subseteq Ends /\ loc \subseteq Ends /\ undrawn \subseteq drawn
          /\ ports \subseteq Ends /\ listed \subseteq ports
          /\ known \in BOOLEAN /\ asked \in BOOLEAN /\ adrift \in BOOLEAN
      BY DEF Init, Answer
    <2>2. TpsEntry(stored) /\ edit \in [dev : Ends, had : BOOLEAN, differ : BOOLEAN] \cup {NoEdit}
      BY <1>1, NoEditType DEF Init
    <2> QED
      BY <1>1, <1>2, <2>1, <2>2 DEF TypeOK, Made
  <1>4. TpsAreOneLine /\ ConnOK
    BY <1>1, <1>2 DEF Init, TpsAreOneLine, ConnOK, Made
  <1>5. PortsThere /\ HeldIsOff /\ TakenDiffers
    BY NoEditType DEF Init, Answer, PortsThere, HeldIsOff, TakenDiffers
  <1>6. Shown
    BY <1>2 DEF Init, Shown, drawn, Made
  <1> QED
    BY <1>3, <1>4, <1>5, <1>6 DEF IInv

\* What the page knows stays well-formed, whatever becomes of the lines.
Page == /\ devs \subseteq Ends /\ loc \subseteq Ends /\ undrawn \subseteq drawn
        /\ ports \subseteq Ends /\ listed \subseteq ports
        /\ known \in BOOLEAN /\ asked \in BOOLEAN /\ adrift \in BOOLEAN
        /\ edit \in [dev : Ends, had : BOOLEAN, differ : BOOLEAN] \cup {NoEdit}
        /\ PortsThere /\ HeldIsOff /\ TakenDiffers

LEMMA PageVdev ==
  ASSUME Page, NEW e \in Ends, NEW keep \in BOOLEAN, NEW more \in BOOLEAN, NEW differ \in BOOLEAN,
         EditVdev(e, keep, more, differ)
  PROVE  Page'
  <1> DEFINE new == [dev |-> e, had |-> e \in ports, differ |-> differ]
  <1>0. edit' = new /\ (e \in ports) \in BOOLEAN
    BY DEF EditVdev
  <1>1. new.dev = e /\ new.had = (e \in ports) /\ new.differ = differ
    BY Zenon
  <1>h. new \in [dev : Ends, had : BOOLEAN, differ : BOOLEAN]
    BY <1>0
  <1> HIDE DEF new
  <1>2. /\ edit.had = FALSE /\ e \in devs
        /\ ports' \subseteq Ends /\ ports \ {e} \subseteq ports' /\ listed' = listed \ {e}
        /\ undrawn' \subseteq drawn /\ UNCHANGED <<devs, known, loc, asked, adrift>>
    BY NoEditType DEF EditVdev, Page
  <1>3. PortsThere'
    BY <1>0, <1>1, <1>2 DEF Page, PortsThere
  <1>4. HeldIsOff'
    BY <1>0, <1>1, <1>2 DEF HeldIsOff
  <1>5. TakenDiffers'
    BY <1>0, <1>1 DEF EditVdev, TakenDiffers
  <1> QED
    BY <1>0, <1>h, <1>2, <1>3, <1>4, <1>5 DEF Page, drawn

LEMMA PageAnswers == Page /\ (VdevSaved \/ VdevNotSaved) => Page'
  <1>1. ASSUME Page, VdevSaved PROVE Page'
    <2>1. edit' = NoEdit /\ edit.dev \in Ends
      BY <1>1, NoRefAssumption DEF VdevSaved, Page, NoEdit
    <2>2. PortsThere' /\ HeldIsOff' /\ TakenDiffers'
      BY <1>1, <2>1, NoEditType DEF VdevSaved, Page, PortsThere, HeldIsOff, TakenDiffers, PortTaken
    <2>3. undrawn' \subseteq drawn' /\ listed' \subseteq ports' /\ devs' \subseteq Ends
      BY <1>1, <2>1 DEF VdevSaved, Page, drawn, Rebuild
    <2> QED
      BY <1>1, <2>1, <2>2, <2>3, NoEditType DEF VdevSaved, Page
  <1>2. ASSUME Page, VdevNotSaved PROVE Page'
    <2>1. edit' = NoEdit /\ UNCHANGED <<devs, known, ports, listed, loc, asked, undrawn>>
      BY <1>2 DEF VdevNotSaved
    <2>2. PortsThere' /\ HeldIsOff' /\ TakenDiffers'
      BY <1>2, <2>1, NoEditType DEF VdevNotSaved, Page, PortsThere, HeldIsOff, TakenDiffers
    <2> QED
      BY <1>2, <2>1, <2>2, NoEditType DEF VdevNotSaved, Page, drawn
  <1> QED
    BY <1>1, <1>2

LEMMA PageKept == IInv /\ [Next]_vars => Page'
  <1> SUFFICES ASSUME IInv, [Next]_vars PROVE Page'
    OBVIOUS
  <1>p. Page
    BY DEF IInv, TypeOK, Page
  <1>1. CASE NewTp \/ RemoveTp \/ MoveTp \/ UNCHANGED vars
    <2>1. UNCHANGED <<devs, known, ports, listed, loc, asked, edit, undrawn, adrift>>
      BY <1>1 DEF NewTp, RemoveTp, Reconnect, MoveTp, vars
    <2> QED
      BY <1>p, <2>1 DEF Page, PortsThere, HeldIsOff, TakenDiffers, drawn
  <1>2. CASE DeleteLink \/ AskLink \/ LinkSaved
    <2>1. UNCHANGED <<devs, ports, loc, edit>> /\ undrawn' \subseteq undrawn
      BY <1>2 DEF DeleteLink, AskLink, LinkSaved, Rebuild
    <2>2. listed' \subseteq ports /\ known' \in BOOLEAN /\ asked' \in BOOLEAN /\ adrift' \in BOOLEAN
      BY <1>p, <1>2 DEF DeleteLink, AskLink, LinkSaved, Page
    <2>3. PortsThere'
      BY <1>p, <1>2, <2>1 DEF DeleteLink, AskLink, LinkSaved, Page, PortsThere
    <2> QED
      BY <1>p, <2>1, <2>2, <2>3 DEF Page, HeldIsOff, TakenDiffers, drawn
  <1>3. CASE Reload
    <2>1. /\ devs' \subseteq Ends /\ loc' \subseteq Ends /\ ports' \subseteq Ends
          /\ listed' \subseteq ports' /\ known' \in BOOLEAN /\ asked' = FALSE /\ adrift' = FALSE
          /\ undrawn' = {} /\ edit' = NoEdit /\ (known' => Ends \subseteq ports')
      BY <1>3 DEF Reload, Answer, Rebuild
    <2> QED
      BY <2>1, NoEditType DEF Page, PortsThere, HeldIsOff, TakenDiffers, drawn
  <1>4. ASSUME NEW e \in Ends, RemoveFromMap(e) \/ PlaceDev(e) PROVE Page'
    <2>1. /\ UNCHANGED <<devs, known, ports, listed, asked, edit, adrift>>
          /\ loc' \subseteq Ends /\ undrawn' \subseteq devs \cap loc'
          /\ loc' \subseteq loc \/ (loc' = loc \cup {e} /\ e \in devs)
      BY <1>p, <1>4 DEF RemoveFromMap, PlaceDev, OffMap, Rebuild, Page, drawn
    <2>2. PortsThere' /\ HeldIsOff' /\ TakenDiffers'
      BY <1>p, <2>1 DEF Page, PortsThere, HeldIsOff, TakenDiffers
    <2> QED
      BY <1>p, <2>1, <2>2 DEF Page, drawn
  <1>5. ASSUME NEW e \in Ends, DeleteDev(e) PROVE Page'
    <2>1. /\ devs' = devs \ {e} /\ known' = FALSE /\ adrift' = FALSE /\ e \in devs
          /\ UNCHANGED <<asked, edit>>
      BY <1>5 DEF DeleteDev
    <2>2. /\ loc' = loc \ {e} \/ (loc' = loc /\ e \notin loc)
          /\ undrawn' \subseteq undrawn \ {e}
      BY <1>p, <1>5 DEF DeleteDev, OffMap, Page, drawn
    <2>3. /\ ports' \subseteq Ends /\ listed' \subseteq ports'
          /\ edit.dev \in ports => edit.dev \in ports'
      BY <1>p, <1>5 DEF DeleteDev, Page
    <2>4. PortsThere' /\ HeldIsOff' /\ TakenDiffers'
      BY <1>p, <2>1, <2>2, <2>3 DEF Page, PortsThere, HeldIsOff, TakenDiffers
    <2> QED
      BY <1>p, <2>1, <2>2, <2>3, <2>4 DEF Page, drawn
  <1>6. ASSUME NEW e \in Ends, NEW keep \in BOOLEAN, NEW more \in BOOLEAN, NEW differ \in BOOLEAN,
               EditVdev(e, keep, more, differ)
        PROVE  Page'
    BY <1>p, <1>6, PageVdev
  <1>7. CASE VdevSaved \/ VdevNotSaved
    BY <1>p, <1>7, PageAnswers
  <1> QED
    BY <1>1, <1>2, <1>3, <1>4, <1>5, <1>6, <1>7 DEF Next

LEMMA NextIInv == IInv /\ [Next]_vars => IInv'
  <1> SUFFICES ASSUME IInv, [Next]_vars PROVE IInv'
    OBVIOUS
  <1>p. Page' /\ listed' \subseteq Ends
    BY PageKept DEF Page
  <1>t. TypeOK /\ TpsEntry(tps) /\ TpsEntry(stored) /\ OneLine(tps) /\ OneLine(stored) /\ ConnOK
    BY DEF IInv, TypeOK, TpsAreOneLine
  <1> DEFINE Lines == /\ TpsEntry(tps') /\ OneLine(tps') /\ TpsEntry(stored') /\ OneLine(stored')
             Conn == /\ conn = NoConn \/ conn \in [from_dev : Ends, legs : SUBSET Points]
                     /\ ConnOK
  \* What is left to show.
  <1>l. ASSUME Lines, Conn' PROVE IInv'
    BY <1>l, <1>p DEF IInv, TypeOK, TpsAreOneLine, Page
  <1>r. ASSUME Lines, Rebuild \/ Reconnect PROVE IInv'
    BY <1>r, <1>l, <1>p, RebuildOK, ReconnectOK DEF Rebuild
  <1>g. ASSUME Lines, conn' = NoConn PROVE IInv'
    BY <1>g, <1>l DEF ConnOK
  <1>s. ASSUME TpsEntry(stored'), OneLine(stored'), tps' = tps, conn' = conn PROVE IInv'
    BY <1>s, <1>t, <1>l DEF TypeOK, ConnOK
  <1> HIDE DEF Lines, Conn
  <1>1. CASE NewTp
    <2>1. PICK leg \in conn.legs, n \in Ids :
            /\ conn # NoConn /\ ~InvalidLeg(tps, leg)
            /\ tps # NoTps => n \notin DOMAIN tps
            /\ tps' = WithTp(tps, leg, n)
      BY <1>1 DEF NewTp
    <2>2. conn.from_dev \in Ends /\ leg \in LegsOf(tps, conn.from_dev)
      BY <1>t, <2>1 DEF ConnOK
    <2>3. TpsEntry(tps') /\ OneLine(tps')
      BY <1>t, <2>1, <2>2, WithTpLine
    <2>4. TpsEntry(stored') /\ OneLine(stored')
      BY <1>t, <1>1, <2>3, SaveOK DEF NewTp
    <2> QED
      BY <1>r, <1>1, <2>3, <2>4 DEF NewTp, Lines
  <1>2. CASE RemoveTp
    <2>1. PICK i \in DOMAIN tps : tps # NoTps /\ tps' = WithoutTp(tps, i)
      BY <1>2 DEF RemoveTp
    <2>2. TpsEntry(tps') /\ OneLine(tps')
      BY <1>t, <2>1, WithoutTpLine
    <2>3. TpsEntry(stored') /\ OneLine(stored')
      BY <1>t, <1>2, <2>2, SaveOK DEF RemoveTp
    <2> QED
      BY <1>r, <1>2, <2>2, <2>3 DEF RemoveTp, Lines
  <1>3. CASE MoveTp \/ AskLink \/ VdevNotSaved
    BY <1>t, <1>s, <1>3 DEF MoveTp, AskLink, VdevNotSaved
  <1>4. CASE DeleteLink \/ LinkSaved
    BY <1>t, <1>r, <1>4 DEF DeleteLink, LinkSaved, Lines
  <1>5. CASE Reload
    BY <1>t, <1>r, <1>5 DEF Reload, Lines
  <1>6. CASE VdevSaved
    <2>1. tps' = tps /\ stored' = stored /\ (Rebuild \/ conn' = conn)
      BY <1>6 DEF VdevSaved
    <2> QED
      BY <1>t, <1>r, <1>s, <2>1 DEF Lines
  <1>7. ASSUME NEW e \in Ends, RemoveFromMap(e) PROVE IInv'
    BY <1>g, <1>7, OffMapOK DEF RemoveFromMap, Lines
  <1>8. ASSUME NEW e \in Ends, DeleteDev(e) PROVE IInv'
    <2>1. CASE e \in drawn
      BY <1>g, <1>8, <2>1, OffMapOK DEF DeleteDev, Lines
    <2>2. CASE e \notin drawn
      BY <1>t, <1>s, <1>8, <2>2 DEF DeleteDev
    <2> QED
      BY <2>1, <2>2
  <1>9. ASSUME NEW e \in Ends, PlaceDev(e) PROVE IInv'
    BY <1>t, <1>r, <1>9 DEF PlaceDev, Lines
  <1>10. ASSUME NEW e \in Ends, NEW keep \in BOOLEAN, NEW more \in BOOLEAN, NEW differ \in BOOLEAN,
                EditVdev(e, keep, more, differ)
         PROVE  IInv'
    BY <1>t, <1>s, <1>10 DEF EditVdev
  <1>11. CASE UNCHANGED vars
    BY <1>t, <1>s, <1>11 DEF vars
  <1> QED
    BY <1>1, <1>2, <1>3, <1>4, <1>5, <1>6, <1>7, <1>8, <1>9, <1>10, <1>11 DEF Next

LEMMA Invariant == Spec => []IInv
  BY InitIInv, NextIInv, PTL DEF Spec

-------------------------------------------------------------------------------
(* What remove_tp and new_tp ask of the records before they change them. *)

LEMMA NotCorrupted ==
  ASSUME NEW t, t # NoTps, OneLine(t), TpsEntry(t), NEW i \in DOMAIN t
  PROVE  ~Corrupted(t, i)
  <1>1. PICK D, n, s : IsLine(t, D, n, s) /\ n # 0
    BY OneLineIsLine
  <1>2. DOMAIN t = D /\ D \subseteq Ids /\ n \in Nat
    BY <1>1 DEF IsLine
  <1> SUFFICES ASSUME NEW k \in Refs(t[i]) PROVE k \in D /\ i \in Refs(t[k])
    BY <1>2 DEF Corrupted
  <1>3. PICK p \in 1..n : /\ s[p] = i /\ Stop(s, n, p) = i
                          /\ Joins(t[i], Stop(s, n, p - 1), Stop(s, n, p + 1))
    BY <1>1, <1>2, Place
  <1>4. k \in Ids /\ k \in {Stop(s, n, p - 1), Stop(s, n, p + 1)}
    BY <1>3, JoinsNames
  <1>5. p - 1 \in 0..(n + 1) /\ p \in 0..(n + 1) /\ p + 1 \in 0..(n + 1)
    BY <1>2, SMT
  <1>6. k \in D
    BY <1>1, <1>4, <1>5, StopType
  <1>7. PICK q \in 1..n : /\ s[q] = k /\ Stop(s, n, q) = k
                          /\ Joins(t[k], Stop(s, n, q - 1), Stop(s, n, q + 1))
    BY <1>1, <1>6, Place
  <1>8. q \in 0..(n + 1)
    BY <1>2, SMT
  <1>9. q = p - 1 \/ q = p + 1
    BY <1>1, <1>4, <1>5, <1>7, <1>8, StopInj
  <1>10. p = q - 1 \/ p = q + 1
    BY <1>9, <1>5, <1>8, SMT
  <1>11. i \in {Stop(s, n, q - 1), Stop(s, n, q + 1)} \cap Ids
    BY <1>2, <1>3, <1>10
  <1>12. Refs(t[k]) = {Stop(s, n, q - 1), Stop(s, n, q + 1)} \cap Ids
    BY <1>7, JoinsNames
  <1> QED
    BY <1>6, <1>11, <1>12

LEMMA EditsAccepted == IInv => EditsNeverRefused
  <1> SUFFICES ASSUME IInv PROVE EditsNeverRefused
    OBVIOUS
  <1>1. ASSUME tps # NoTps, NEW i \in DOMAIN tps PROVE ~Corrupted(tps, i)
    BY <1>1, NotCorrupted DEF IInv, TypeOK, TpsAreOneLine
  <1>2. ASSUME conn # NoConn, NEW leg \in conn.legs PROVE ~InvalidLeg(tps, leg)
    <2>1. leg \in LegsOf(tps, conn.from_dev)
      BY <1>2 DEF IInv, ConnOK
    <2>2. CASE tps = NoTps
      BY <2>1, <2>2 DEF LegsOf, InvalidLeg, DevDev
    <2>3. CASE tps # NoTps
      <3>1. leg.type \in {"devtp", "tptp"}
        BY <2>1, <2>3 DEF LegsOf, EndLegs, TpLegs, DevTp, TpTp
      <3> QED
        BY <2>3, <3>1 DEF InvalidLeg
    <2> QED
      BY <2>2, <2>3
  <1> QED
    BY <1>1, <1>2 DEF EditsNeverRefused

\* What could be drawn is not there when a device is missing, the link or both lists.
LEMMA NotDrawable ==
  ASSUME IInv, conn = NoConn, undrawn = {}, Shown
  PROVE  ~(known /\ Ends \subseteq devs \cap loc /\ listed # {})
  <1> SUFFICES ASSUME known, Ends \subseteq devs \cap loc, listed # {} PROVE FALSE
    OBVIOUS
  <1>1. PICK f \in listed : NoConn = [from_dev |-> f, legs |-> LegsOf(tps, f)]
    BY DEF Shown, Connections
  <1>2. LegsOf(tps, f) \in SUBSET Points /\ f \in Ends
    BY <1>1, LegsType DEF IInv, TypeOK
  <1>3. NoConn \in [from_dev : Ends, legs : SUBSET Points]
    BY <1>1, <1>2
  <1> QED
    BY <1>3, NoConnAssumption

\* No action leaves a drawn link the page does not know, or hides one it knows.
LEMMA NextShown == IInv /\ Shown /\ [Next]_vars => Shown'
  <1> SUFFICES ASSUME IInv, Shown, [Next]_vars PROVE Shown'
    OBVIOUS
  <1>t. /\ devs \subseteq Ends /\ listed \subseteq Ends /\ undrawn \subseteq drawn
        /\ listed' \subseteq Ends /\ TpsEntry(tps')
    BY NextIInv DEF IInv, TypeOK
  <1>r. Rebuild \/ Reconnect => Shown'
    BY <1>t, RebuildOK, ReconnectOK DEF Rebuild
  \* Nothing is drawn and nothing can be.
  <1>g. ASSUME conn' = NoConn, ~(known' /\ Ends \subseteq devs' \cap loc' /\ listed' # {})
        PROVE  Shown'
    BY <1>g DEF Shown, Connections
  <1>u. ASSUME UNCHANGED <<devs, known, listed, loc, tps, conn, undrawn>> PROVE Shown'
    BY <1>u DEF Shown, drawn
  <1>1. CASE NewTp \/ RemoveTp \/ DeleteLink \/ LinkSaved \/ Reload
    BY <1>1, <1>r DEF NewTp, RemoveTp, DeleteLink, LinkSaved, Reload
  <1>2. CASE MoveTp \/ AskLink \/ VdevNotSaved \/ UNCHANGED vars
    BY <1>2, <1>u DEF MoveTp, AskLink, VdevNotSaved, vars
  <1>3. ASSUME NEW e \in Ends, OffMap(e) PROVE Shown'
    BY <1>g, <1>3 DEF OffMap
  <1>4. ASSUME NEW e \in Ends, DeleteDev(e), e \notin drawn PROVE Shown'
    <2>1. conn = NoConn
      BY <1>4 DEF Shown
    <2>2. conn' = NoConn /\ ~known'
      BY <1>4, <2>1 DEF DeleteDev
    <2> QED
      BY <1>g, <2>2
  <1>5. ASSUME NEW e \in Ends, PlaceDev(e) PROVE Shown'
    BY <1>r, <1>5 DEF PlaceDev
  <1>6. ASSUME NEW e \in Ends, NEW keep \in BOOLEAN, NEW more \in BOOLEAN, NEW differ \in BOOLEAN,
               EditVdev(e, keep, more, differ)
        PROVE  Shown'
    <2>1. UNCHANGED <<devs, known, loc, tps, conn>> /\ listed' \subseteq listed /\ undrawn \subseteq undrawn'
      BY <1>6 DEF EditVdev
    <2>2. CASE conn # NoConn
      BY <2>1, <2>2 DEF Shown, drawn
    <2>3. CASE conn = NoConn
      BY <1>g, <2>1, <2>3, NotDrawable DEF Shown
    <2> QED
      BY <2>2, <2>3
  <1>7. ASSUME VdevSaved, ~Rebuild PROVE Shown'
    <2>1. /\ UNCHANGED <<loc, tps, conn, undrawn>> /\ listed' \subseteq listed /\ (known' => known)
          /\ devs' = devs \cup {edit.dev} /\ ~(edit.differ /\ edit.dev \in drawn)
      BY <1>7 DEF VdevSaved
    <2>2. CASE conn # NoConn
      <3>1. edit.dev \in Ends /\ Ends \subseteq drawn /\ known
        BY <1>7, <2>2 DEF VdevSaved, IInv, TypeOK, Shown
      <3>2. ~PortTaken
        BY <2>1, <3>1 DEF IInv, TakenDiffers, PortTaken
      <3>3. known'
        BY <1>7, <3>1, <3>2 DEF VdevSaved
      <3> QED
        BY <2>1, <2>2, <3>1, <3>3 DEF Shown, drawn
    <2>3. CASE conn = NoConn
      BY <1>g, <2>1, <2>3, NotDrawable DEF Shown
    <2> QED
      BY <2>2, <2>3
  <1> QED
    BY <1>1, <1>2, <1>3, <1>4, <1>5, <1>6, <1>7, <1>r DEF Next, RemoveFromMap, DeleteDev

-------------------------------------------------------------------------------
(* The legs of a line. *)

\* The leg between two neighbouring stops, a point and a point or a device.
Between(x, y) == IF x \in Ends THEN DevTp(x, y) ELSE IF y \in Ends THEN DevTp(y, x)
                 ELSE IF x < y THEN TpTp(x, y) ELSE TpTp(y, x)

LEMMA BetweenWhat ==
  ASSUME NEW x \in Ends \cup Ids, NEW y \in Ends \cup Ids, x \in Ids \/ y \in Ids
  PROVE  /\ Between(x, y).type = "devtp" <=> x \in Ends \/ y \in Ends
         /\ x \in Ends => Between(x, y).from_dev = x /\ Between(x, y).to_tp = y
         /\ y \in Ends => Between(x, y).from_dev = y /\ Between(x, y).to_tp = x
         /\ x \in Ids /\ y \in Ids => /\ {Between(x, y).from_tp, Between(x, y).to_tp} = {x, y}
                                      /\ Between(x, y).type = "tptp"
         /\ Between(x, y) = Between(y, x)
  <1>1. CASE x \in Ends
    BY <1>1, IdsNotEnds, SMT DEF Between, DevTp, TpTp
  <1>2. CASE y \in Ends
    BY <1>2, IdsNotEnds, SMT DEF Between, DevTp, TpTp
  <1>3. CASE x \in Ids /\ y \in Ids
    <2>1. x \in Nat /\ y \in Nat /\ x \notin Ends /\ y \notin Ends
      BY <1>3, IdsNotEnds
    <2>2. CASE x < y
      BY <2>1, <2>2, SMT DEF Between, DevTp, TpTp
    <2>3. CASE y < x
      BY <2>1, <2>3, SMT DEF Between, DevTp, TpTp
    <2>4. CASE x = y
      BY <2>1, <2>4, SMT DEF Between, DevTp, TpTp
    <2> QED
      BY <2>1, <2>2, <2>3, <2>4
  <1> QED
    BY <1>1, <1>2, <1>3

\* A leg tells which two stops it lies between.
LEMMA BetweenInj ==
  ASSUME NEW x \in Ends \cup Ids, NEW y \in Ends \cup Ids, x \in Ids \/ y \in Ids,
         NEW z \in Ends \cup Ids, NEW w \in Ends \cup Ids, z \in Ids \/ w \in Ids,
         Between(x, y) = Between(z, w)
  PROVE  (x = z /\ y = w) \/ (x = w /\ y = z)
  <1> DEFINE b == Between(x, y)
  <1>1. /\ b.type = "devtp" <=> x \in Ends \/ y \in Ends
        /\ x \in Ends => b.from_dev = x /\ b.to_tp = y
        /\ y \in Ends => b.from_dev = y /\ b.to_tp = x
        /\ x \in Ids /\ y \in Ids => {b.from_tp, b.to_tp} = {x, y}
    BY BetweenWhat, Zenon
  <1>2. /\ b.type = "devtp" <=> z \in Ends \/ w \in Ends
        /\ z \in Ends => b.from_dev = z /\ b.to_tp = w
        /\ w \in Ends => b.from_dev = w /\ b.to_tp = z
        /\ z \in Ids /\ w \in Ids => {b.from_tp, b.to_tp} = {z, w}
    <2>1. b = Between(z, w)
      OBVIOUS
    <2> HIDE DEF b
    <2> QED
      BY <2>1, BetweenWhat
  <1> HIDE DEF b
  <1>3. CASE x \in Ids /\ y \in Ids
    <2>1. z \in Ids /\ w \in Ids
      BY <1>1, <1>2, <1>3, IdsNotEnds
    <2> QED
      BY <1>1, <1>2, <1>3, <2>1
  <1>4. CASE x \in Ends \/ y \in Ends
    BY <1>1, <1>2, <1>4, IdsNotEnds
  <1> QED
    BY <1>3, <1>4

\* build_connections draws a leg between a point and each of its neighbours.
LEMMA LegsAreBetween ==
  ASSUME NEW t, t # NoTps, OneLine(t), TpsEntry(t), NEW e, NEW leg
  PROVE  leg \in LegsOf(t, e) <=> \E p \in DOMAIN t : \E z : Names(t[p], z) /\ leg = Between(p, z)
  <1>1. DOMAIN t \subseteq Ids /\ \A p \in DOMAIN t : Refs(t[p]) \subseteq Ids
    BY SMT DEF TpsEntry, Points, Refs, DevDev, DevTp, TpTp
  <1>2. \A p \in DOMAIN t : \A z \in Refs(t[p]) : z \in DOMAIN t /\ p \in Refs(t[z])
    BY NotCorrupted DEF Corrupted
  <1>3. leg \in EndLegs(t) <=> \E p \in DOMAIN t, z \in Ends : Names(t[p], z) /\ leg = Between(p, z)
    <2>1. \A p \in DOMAIN t, z \in Ends : /\ Between(p, z) = DevTp(z, p)
                                          /\ z \notin Refs(t[p])
      BY <1>1, IdsNotEnds DEF Between
    <2>2. leg \in EndLegs(t) <=> \E p \in DOMAIN t, z \in Ends :
            /\ t[p].type # "tptp" /\ z \in {t[p].from_dev, t[p].to_dev}
            /\ leg = DevTp(z, p)
      <3>1. ASSUME leg \in EndLegs(t)
            PROVE  \E p \in DOMAIN t, z \in Ends :
                     /\ t[p].type # "tptp" /\ z \in {t[p].from_dev, t[p].to_dev}
                     /\ leg = DevTp(z, p)
        <4>1. PICK x \in Ends \X (DOMAIN t) : /\ t[x[2]].type # "tptp"
                                              /\ x[1] \in {t[x[2]].from_dev, t[x[2]].to_dev}
                                              /\ leg = DevTp(x[1], x[2])
          BY <3>1 DEF EndLegs
        <4> QED
          BY <4>1
      <3>2. ASSUME NEW p \in DOMAIN t, NEW z \in Ends, t[p].type # "tptp",
                   z \in {t[p].from_dev, t[p].to_dev}, leg = DevTp(z, p)
            PROVE  leg \in EndLegs(t)
        <4>1. <<z, p>> \in Ends \X (DOMAIN t) /\ <<z, p>>[1] = z /\ <<z, p>>[2] = p
          OBVIOUS
        <4> QED
          BY <3>2, <4>1, Zenon DEF EndLegs
      <3> QED
        BY <3>1, <3>2
    <2> QED
      BY <2>1, <2>2 DEF Names
  <1>4. leg \in TpLegs(t) <=> \E p \in DOMAIN t, z \in Ids : Names(t[p], z) /\ leg = Between(p, z)
    <2>1. \A p \in DOMAIN t, z \in Ids : Names(t[p], z) <=> z \in Refs(t[p])
      BY IdsNotEnds DEF Names
    <2>2. \A p \in Ids, z \in Ids :
            p \in Nat /\ z \in Nat /\ Between(p, z) = IF p < z THEN TpTp(p, z) ELSE TpTp(z, p)
      BY IdsNotEnds DEF Between
    <2>3. ASSUME leg \in TpLegs(t)
          PROVE  \E p \in DOMAIN t, z \in Ids : Names(t[p], z) /\ leg = Between(p, z)
      <3>1. PICK x \in (DOMAIN t) \X Ids :
              /\ x[2] \in Refs(t[x[1]]) /\ leg = TpTp(x[1], x[2])
              /\ ~(x[2] \in DOMAIN t /\ x[2] < x[1] /\ x[1] \in Refs(t[x[2]]))
        BY <2>3 DEF TpLegs
      <3>2. ~(x[2] < x[1])
        BY <1>2, <3>1
      <3>3. x[1] \in DOMAIN t /\ x[2] \in Ids /\ x[1] \in Ids
        BY <1>1
      <3>4. leg = Between(x[1], x[2])
        BY <2>2, <3>1, <3>2, <3>3
      <3> QED
        BY <2>1, <3>1, <3>3, <3>4
    <2>4. ASSUME NEW p \in DOMAIN t, NEW z \in Ids, p \in Ids, z \in Refs(t[p]), ~(z < p), leg = TpTp(p, z)
          PROVE  leg \in TpLegs(t)
      <3>1. <<p, z>> \in (DOMAIN t) \X Ids /\ <<p, z>>[1] = p /\ <<p, z>>[2] = z
        OBVIOUS
      <3> QED
        BY <2>4, <3>1, Zenon DEF TpLegs
    <2>5. ASSUME NEW p \in DOMAIN t, NEW z \in Ids, Names(t[p], z), leg = Between(p, z)
          PROVE  leg \in TpLegs(t)
      <3>1. z \in Refs(t[p]) /\ z \in DOMAIN t /\ p \in Refs(t[z]) /\ p \in Ids /\ p \in Nat /\ z \in Nat
        BY <1>1, <1>2, <2>1, <2>2, <2>5
      <3>2. CASE p < z
        BY <2>2, <2>4, <2>5, <3>1, <3>2
      <3>3. CASE ~(p < z)
        BY <2>2, <2>4, <2>5, <3>1, <3>3
      <3> QED
        BY <3>2, <3>3
    <2> QED
      BY <2>3, <2>5
  <1>5. \A p \in DOMAIN t : \A z : Names(t[p], z) => z \in Ends \cup Ids
    BY <1>1 DEF Names
  <1> QED
    BY <1>3, <1>4, <1>5 DEF LegsOf

\* The legs are the pieces of the line from stop to stop, all different.
Leg(s, n, i) == Between(Stop(s, n, i), Stop(s, n, i + 1))

LEMMA LegsAreSegments ==
  ASSUME NEW t, t # NoTps, OneLine(t), TpsEntry(t), NEW e,
         NEW D, NEW n, NEW s, IsLine(t, D, n, s), n # 0
  PROVE  LegsOf(t, e) = {Leg(s, n, i) : i \in 0..n}
  <1>1. DOMAIN t = D /\ D \subseteq Ids /\ n \in Nat
    BY DEF IsLine
  <1>2. ASSUME NEW leg \in LegsOf(t, e) PROVE \E i \in 0..n : leg = Leg(s, n, i)
    <2> PICK p \in D : \E z : Names(t[p], z) /\ leg = Between(p, z)
      BY <1>1, <1>2, LegsAreBetween
    <2>1. PICK x : Names(t[p], x) /\ leg = Between(p, x)
      OBVIOUS
    <2>2. PICK i \in 1..n : /\ s[i] = p /\ Stop(s, n, i) = p
                            /\ Joins(t[p], Stop(s, n, i - 1), Stop(s, n, i + 1))
      BY <2>1, Place
    <2>3. Stop(s, n, i) = p /\ x \in {Stop(s, n, i - 1), Stop(s, n, i + 1)}
      BY <2>1, <2>2, JoinsNames
    <2>4. i \in 0..n /\ i - 1 \in 0..n /\ (i - 1) + 1 = i /\ i - 1 \in 0..(n + 1)
      BY <1>1
    <2>5. CASE x = Stop(s, n, i + 1)
      BY <2>1, <2>3, <2>4, <2>5 DEF Leg
    <2>6. CASE x = Stop(s, n, i - 1)
      <3>1. x \in Ends \cup Ids /\ p \in Ids
        BY <1>1, <2>4, <2>6, StopType
      <3>2. leg = Between(x, p)
        BY <2>1, <3>1, BetweenWhat
      <3> QED
        BY <2>3, <2>4, <2>6, <3>2 DEF Leg
    <2> QED
      BY <2>3, <2>5, <2>6
  <1>3. ASSUME NEW i \in 0..n PROVE Leg(s, n, i) \in LegsOf(t, e)
    <2> DEFINE x == Stop(s, n, i)
               y == Stop(s, n, i + 1)
    <2>1. i \in Nat /\ i \in 0..(n + 1) /\ i + 1 \in 0..(n + 1) /\ i # i + 1
      BY <1>1
    <2>2. x \in D \cup Ends /\ y \in D \cup Ends
      BY <2>1, StopType
    <2>3. CASE i # 0
      <3>1. i \in 1..n /\ x = s[i] /\ x \in D
        <4>1. i \in 1..n /\ i # n + 1
          BY <1>1, <2>1, <2>3
        <4> QED
          BY <2>3, <4>1 DEF Stop, IsLine
      <3>2. Joins(t[x], Stop(s, n, i - 1), y)
        BY <3>1 DEF IsLine, Line
      <3>3. Names(t[x], y)
        BY <3>2, JoinsNames
      <3> QED
        BY <1>1, <3>1, <3>3, LegsAreBetween DEF Leg
    <2>4. CASE i = 0
      <3>1. i + 1 \in 1..n /\ y = s[i + 1] /\ y \in D /\ (i + 1) - 1 = i
        <4>1. i + 1 \in 1..n /\ i + 1 # n + 1 /\ i + 1 # 0 /\ (i + 1) - 1 = i
          BY <1>1, <2>1, <2>4
        <4> QED
          BY <4>1 DEF Stop, IsLine
      <3>2. Joins(t[y], x, Stop(s, n, (i + 1) + 1))
        BY <3>1 DEF IsLine, Line
      <3>3. Names(t[y], x)
        BY <3>2, JoinsNames
      <3>4. Between(y, x) = Leg(s, n, i)
        <4>1. y \in Ids /\ x \in Ends \cup Ids
          BY <1>1, <2>2, <3>1
        <4> QED
          BY <4>1, BetweenWhat DEF Leg
      <3> QED
        BY <1>1, <3>1, <3>3, <3>4, LegsAreBetween
    <2> QED
      BY <2>3, <2>4
  <1> QED
    BY <1>2, <1>3

\* Of two neighbouring stops of a line at most one is a device.
LEMMA Neighbours ==
  ASSUME NEW t, NEW D, NEW n, NEW s, IsLine(t, D, n, s), n # 0, NEW i \in 0..n
  PROVE  /\ Stop(s, n, i) \in Ends \cup Ids /\ Stop(s, n, i + 1) \in Ends \cup Ids
         /\ Stop(s, n, i) \in Ids \/ Stop(s, n, i + 1) \in Ids
         /\ i \in 0..(n + 1) /\ i + 1 \in 0..(n + 1)
  <1>1. n \in Nat /\ D \subseteq Ids
    BY DEF IsLine
  <1>2. i \in 0..(n + 1) /\ i + 1 \in 0..(n + 1) /\ ~(i = 0 /\ i + 1 = n + 1)
    BY <1>1
  <1>3. i # n + 1 /\ i + 1 # 0
    BY <1>1
  <1> QED
    BY <1>1, <1>2, <1>3, StopType

LEMMA LegInj ==
  ASSUME NEW t, NEW D, NEW n, NEW s, IsLine(t, D, n, s), n # 0,
         NEW i \in 0..n, NEW j \in 0..n, Leg(s, n, i) = Leg(s, n, j)
  PROVE  i = j
  <1>1. \/ Stop(s, n, i) = Stop(s, n, j) /\ Stop(s, n, i + 1) = Stop(s, n, j + 1)
        \/ Stop(s, n, i) = Stop(s, n, j + 1) /\ Stop(s, n, i + 1) = Stop(s, n, j)
    BY Neighbours, BetweenInj DEF Leg
  <1>2. i = j \/ (i = j + 1 /\ i + 1 = j)
    BY <1>1, Neighbours, StopInj
  <1>3. n \in Nat
    BY DEF IsLine
  <1> QED
    BY <1>2, <1>3

\* One leg more than points.
LEMMA LegCount ==
  ASSUME NEW t, OneLine(t), TpsEntry(t), NEW e
  PROVE  Cardinality(LegsOf(t, e)) = 1 + (IF t = NoTps THEN 0 ELSE Cardinality(DOMAIN t))
  <1>1. CASE t = NoTps
    BY <1>1, FS_Singleton DEF LegsOf
  <1>2. CASE t # NoTps
    <2>1. PICK D, n, s : IsLine(t, D, n, s) /\ n # 0
      BY <1>2, OneLineIsLine
    <2>2. n \in Nat /\ DOMAIN t = D
      BY <2>1 DEF IsLine
    <2> DEFINE L == LegsOf(t, e)
               f == [i \in 0..n |-> Leg(s, n, i)]
    <2>3. L = {Leg(s, n, i) : i \in 0..n}
      BY <1>2, <2>1, LegsAreSegments
    <2>4. \A i, j \in 0..n : Leg(s, n, i) = Leg(s, n, j) => i = j
      BY <2>1, LegInj
    <2> HIDE DEF L
    <2>5. f \in Bijection(0..n, L)
      BY <2>3, <2>4 DEF Bijection, Injection, Surjection, IsInjective
    <2>6. IsFiniteSet(0..n) /\ Cardinality(0..n) = n + 1
      BY <2>2, FS_Interval, SMT
    <2>7. Cardinality(L) = n + 1
      BY <2>5, <2>6, FS_Bijection DEF ExistsBijection
    <2>8. Cardinality(DOMAIN t) = n
      BY <2>1, <2>2, LineLength
    <2> QED
      BY <1>2, <2>2, <2>7, <2>8 DEF L
  <1> QED
    BY <1>1, <1>2

LEMMA LegsFresh == IInv => LegsAreFresh
  BY LegCount DEF IInv, TypeOK, TpsAreOneLine, ConnOK, LegsAreFresh

\* The first and the last leg are the only ones at a device.
LEMMA EndLeg ==
  ASSUME NEW t, t # NoTps, OneLine(t), TpsEntry(t), NEW c, NEW e \in Ends
  PROVE  \E leg \in LegsOf(t, c) :
           /\ \A l \in LegsOf(t, c) : l.type = "devtp" /\ l.from_dev = e <=> l = leg
           /\ leg.to_tp \in DOMAIN t /\ t[leg.to_tp].type # "tptp"
  <1>1. PICK D, n, s : IsLine(t, D, n, s) /\ n # 0
    BY OneLineIsLine
  <1>2. n \in Nat /\ DOMAIN t = D /\ D \subseteq Ids /\ s \in [1..n -> D] /\ n \in 1..n /\ 1 \in 1..n
    BY <1>1 DEF IsLine
  <1>3. LegsOf(t, c) = {Leg(s, n, i) : i \in 0..n}
    BY <1>1, LegsAreSegments
  <1> DEFINE k == IF e = EndA THEN 0 ELSE n
             p == IF e = EndA THEN s[1] ELSE s[n]
             o == IF e = EndA THEN 0 ELSE n + 1
  <1>4. k \in 0..n /\ o \in 0..(n + 1) /\ Stop(s, n, o) = e
    BY <1>2, EndsAssumption, SMT DEF Stop, Ends
  <1>5. {Stop(s, n, k), Stop(s, n, k + 1)} = {e, p} /\ p \in D
    <2>1. 1 # 0 /\ 1 # n + 1 /\ n # n + 1 /\ 0 + 1 = 1
      BY <1>1, <1>2
    <2> QED
      BY <1>1, <1>2, <2>1, EndsAssumption DEF Stop, Ends
  <1>6. Names(t[p], e)
    <2> HIDE DEF p
    <2>1. PICK i \in 1..n : /\ s[i] = p /\ Stop(s, n, i) = p
                            /\ Joins(t[p], Stop(s, n, i - 1), Stop(s, n, i + 1))
      BY <1>1, <1>5, Place
    <2>2. i = IF e = EndA THEN 1 ELSE n
      BY <1>1, <1>2, <2>1 DEF IsLine, Line, p
    <2>3. e \in {Stop(s, n, i - 1), Stop(s, n, i + 1)}
      BY <1>2, <2>2, EndsAssumption, SMT DEF Stop, Ends
    <2> QED
      BY <2>1, <2>3, JoinsNames
  <1>7. t[p].type # "tptp"
    <2>1. e \notin Ids /\ t[p] \in Points
      BY <1>2, <1>5, IdsNotEnds DEF TpsEntry
    <2> HIDE DEF p
    <2>2. \A x \in Refs(t[p]) : x \in Ids
      BY <2>1 DEF Points, Refs, DevDev, DevTp, TpTp
    <2> QED
      BY <1>6, <2>1, <2>2 DEF Names
  <1> DEFINE leg == Leg(s, n, k)
  <1>8. leg.type = "devtp" /\ leg.from_dev = e /\ leg.to_tp = p
    <2>1. p \in Ids /\ e \in Ends \cup Ids /\ p \in Ends \cup Ids
      BY <1>2, <1>5
    <2>2. leg = Between(e, p)
      <3>1. \/ Stop(s, n, k) = e /\ Stop(s, n, k + 1) = p
            \/ Stop(s, n, k) = p /\ Stop(s, n, k + 1) = e
        BY <1>5
      <3>2. Between(e, p) = Between(p, e)
        BY <2>1, BetweenWhat
      <3> QED
        BY <3>1, <3>2, Zenon DEF Leg
    <2> QED
      BY <2>1, <2>2, BetweenWhat
  <1>9. ASSUME NEW j \in 0..n, Leg(s, n, j).type = "devtp", Leg(s, n, j).from_dev = e
        PROVE  j = k
    <2>1. e \in {Stop(s, n, j), Stop(s, n, j + 1)}
      BY <1>1, <1>9, Neighbours, BetweenWhat DEF Leg
    <2>2. o \in {j, j + 1}
      BY <1>1, <1>4, <2>1, Neighbours, StopInj
    <2> QED
      BY <1>2, <2>2
  <1> HIDE DEF leg, k, p, o
  <1>10. leg \in LegsOf(t, c)
    BY <1>3, <1>4 DEF leg
  <1>11. \A l \in LegsOf(t, c) : l.type = "devtp" /\ l.from_dev = e <=> l = leg
    BY <1>3, <1>8, <1>9 DEF leg
  <1> QED
    BY <1>2, <1>5, <1>7, <1>8, <1>10, <1>11

LEMMA EndsReach == IInv => EndsReachALine
  <1> SUFFICES ASSUME IInv, conn # NoConn, tps # NoTps, NEW e \in Ends
               PROVE  \E leg \in conn.legs :
                        /\ \A l \in conn.legs : l.type = "devtp" /\ l.from_dev = e <=> l = leg
                        /\ leg.to_tp \in DOMAIN tps /\ tps[leg.to_tp].type # "tptp"
    BY DEF EndsReachALine
  <1>1. conn.legs = LegsOf(tps, conn.from_dev) /\ OneLine(tps) /\ TpsEntry(tps)
    BY DEF IInv, TypeOK, TpsAreOneLine, ConnOK
  <1> QED
    BY <1>1, EndLeg

-------------------------------------------------------------------------------
(* Theorems. *)

\* The state stays well-formed; an entry of turn points is never left empty.
THEOREM TypeCorrect == Spec => []TypeOK
  BY Invariant, PTL DEF IInv

\* For any number of turn points: however new_tp, remove_tp, remove_from_map, the
\* deletion of devices and links and reloads of the page follow each other, the
\* records form one line that visits every point once, on the page and when saved.
THEOREM LineIsKept == Spec => []TpsAreOneLine
  BY Invariant, PTL DEF IInv

\* new_tp and remove_tp never refuse: no "Corrupted turnpoints database", no
\* "Invalid leg type".
THEOREM NoEditRefused == Spec => []EditsNeverRefused
  BY Invariant, EditsAccepted, PTL

\* The legs on which the next point can be put are those of the records, for a line
\* of any length, and one more than its points.
THEOREM LegsFollowTheLine == Spec => []LegsAreFresh
  BY Invariant, LegsFresh, PTL

\* arrange_interfaces_dev2tp finds the one leg that ends at a device: of the legs of
\* a link with turn points exactly one names the device, and its point does too.
THEOREM EveryEndReachesTheLine == Spec => []EndsReachALine
  BY Invariant, EndsReach, PTL

\* What is drawn is known, port to port, and what could be drawn is: whatever save_vdev
\* does to the record before it is answered, however late a link is saved, and with the
\* exceptions that DrawnIsKnown names.
THEOREM WhatIsDrawnIsKnown == Spec => []DrawnIsKnown
  <1>1. Init => Shown
    BY InitIInv
  <1>2. IInv /\ Shown => DrawnIsKnown
    BY DEF IInv, PortsThere, Shown, DrawnIsKnown
  <1> QED
    BY <1>1, <1>2, Invariant, NextShown, PTL DEF Spec
===============================================================================
