---------------------------- MODULE LinkPathProofs ----------------------------
(* Proofs that TurnPoints implements LinkPath: the records of the turn     *)
(* points, however they refer to each other, are one sequence, and every   *)
(* action of the page is an action on that sequence or leaves it alone.    *)
EXTENDS TurnPointsProofs, SequenceTheorems, WellFoundedInduction

-------------------------------------------------------------------------------
(* The line of the records is unique: PathOf may choose any. *)

LEMMA LeastElement ==
  ASSUME NEW T \in SUBSET Nat, T # {}
  PROVE  \E m \in T : \A k \in T : m <= k
  <1> DEFINE R == {ss \in Nat \X Nat : ss[1] < ss[2]}
  <1>1. IsWellFoundedOn(R, Nat)
    BY NatLessThanWellFounded DEF OpToRel
  <1> HIDE DEF R
  <1>2. PICK m \in T : \A k \in T : ~(<<k, m>> \in R)
    BY <1>1, WFMin
  <1>3. \A k \in T : ~(k < m)
    BY <1>2 DEF R
  <1> QED
    BY <1>3

\* Two lines through the same records agree at the first stop where they could part:
\* the point there is the neighbour of the stop before that the line has not visited.
LEMMA SamePoint ==
  ASSUME NEW t, NEW D, NEW n, NEW s, IsLine(t, D, n, s), NEW r, IsLine(t, D, n, r),
         NEW m \in 1..n, \A k \in 1..n : k < m => s[k] = r[k]
  PROVE  s[m] = r[m]
  <1>1. n \in Nat /\ s \in [1..n -> D] /\ r \in [1..n -> D]
        /\ \A i, j \in 1..n : s[i] = s[j] => i = j
    BY DEF IsLine, Line
  <1> DEFINE a == Stop(s, n, m - 1)
  <1>2. m \in Nat /\ 1 <= m /\ m <= n /\ m - 1 \in 0..(n + 1) /\ m - 1 < m /\ m - 1 # n + 1
        /\ (m - 1 # 0 => m - 1 \in 1..n)
    BY <1>1
  <1>3. a = Stop(r, n, m - 1)
    BY <1>2 DEF Stop
  <1>4. Joins(t[s[m]], a, Stop(s, n, m + 1))
    BY DEF IsLine, Line
  <1>5. s[m] \in D
    BY <1>1
  <1>6. PICK j \in 1..n : /\ r[j] = s[m] /\ Stop(r, n, j) = s[m]
                          /\ Joins(t[s[m]], Stop(r, n, j - 1), Stop(r, n, j + 1))
    BY <1>5, Place
  <1>7. a = Stop(r, n, j - 1) \/ a = Stop(r, n, j + 1)
    <2>1. Names(t[s[m]], a)
      BY <1>4, JoinsNames
    <2> HIDE DEF a
    <2> QED
      BY <1>6, <2>1, JoinsNames
  <1>8. j - 1 \in 0..(n + 1) /\ j + 1 \in 0..(n + 1) /\ j \in Nat
    BY <1>1
  <1> HIDE DEF a
  <1>9. m - 1 = j - 1 \/ m - 1 = j + 1
    BY <1>2, <1>3, <1>7, <1>8, StopInj
  <1>10. CASE m - 1 = j - 1
    <2>1. m = j
      BY <1>2, <1>8, <1>10
    <2> QED
      BY <1>6, <2>1
  <1>11. CASE m - 1 = j + 1
    <2>1. j < m /\ j # m
      BY <1>2, <1>8, <1>11
    <2>2. s[j] = s[m]
      BY <1>6, <2>1
    <2> QED
      BY <1>1, <2>1, <2>2
  <1> QED
    BY <1>9, <1>10, <1>11

LEMMA OneOrder ==
  ASSUME NEW t, NEW D, NEW n, NEW s, IsLine(t, D, n, s), NEW r, IsLine(t, D, n, r)
  PROVE  s = r
  <1>1. n \in Nat /\ s \in [1..n -> D] /\ r \in [1..n -> D]
    BY DEF IsLine
  <1> DEFINE T == {i \in 1..n : s[i] # r[i]}
  <1>2. T = {}
    <2> SUFFICES ASSUME T # {} PROVE FALSE
      OBVIOUS
    <2>1. T \in SUBSET Nat
      BY <1>1
    <2> HIDE DEF T
    <2>2. PICK m \in T : \A k \in T : m <= k
      BY <2>1, LeastElement
    <2>3. m \in 1..n /\ s[m] # r[m]
      BY <2>2 DEF T
    <2>4. \A k \in 1..n : k < m => s[k] = r[k]
      BY <1>1, <2>2, <2>3 DEF T
    <2> QED
      BY <2>3, <2>4, SamePoint
  <1> QED
    BY <1>1, <1>2

\* The path of records that form a line is that line.
LEMMA PathOfLine ==
  ASSUME NEW t, t # NoTps, NEW D, NEW n, NEW s, IsLine(t, D, n, s)
  PROVE  PathOf(t) = s
  <1>1. DOMAIN t = D /\ Cardinality(D) = n /\ s \in [1..n -> D] /\ Line(t, s, n)
    BY LineLength DEF IsLine
  <1> DEFINE r == CHOOSE q \in [1..n -> D] : Line(t, q, n)
  <1>2. PathOf(t) = r
    BY <1>1, Zenon DEF PathOf
  <1>3. r \in [1..n -> D] /\ Line(t, r, n)
    BY <1>1
  <1> HIDE DEF r
  <1>4. IsLine(t, D, n, r)
    BY <1>3 DEF IsLine
  <1> QED
    BY <1>2, <1>4, OneOrder

-------------------------------------------------------------------------------
(* What the edits of a sequence return. *)

LEMMA FunctionIsSeq ==
  ASSUME NEW S, NEW n \in Nat, NEW s \in [1..n -> S]
  PROVE  s \in Seq(S) /\ Len(s) = n /\ DOMAIN s = 1..n
  <1>1. s \in Seq(S)
    BY SeqDef
  <1>2. DOMAIN s = 1..n /\ DOMAIN s = 1..Len(s) /\ Len(s) \in Nat
    BY <1>1, LenProperties
  <1> QED
    BY <1>1, <1>2

LEMMA InsertedLine ==
  ASSUME NEW n \in Nat, NEW s \in [1..n -> Ids], NEW k \in 0..n, NEW j, j = k + 1, NEW m \in Ids
  PROVE  Abstract!InsertAt(s, j, m) = PutAfter(s, n, k, m)
  <1>1. s \in Seq(Ids) /\ Len(s) = n
    BY FunctionIsSeq
  <1>2. k \in Nat /\ k <= n /\ (k + 1) - 1 = k
    OBVIOUS
  <1> DEFINE a == SubSeq(s, 1, k)
             b == <<m>>
             c == SubSeq(s, k + 1, n)
             q == PutAfter(s, n, k, m)
  <1>3. /\ a \in Seq(Ids) /\ Len(a) = k /\ \A i \in 1..k : a[i] = s[i]
    <2>1. \A i \in 1..k : s[i] \in Ids
      BY <1>2
    <2> QED
      BY <1>2, <2>1, SubSeqProperties
  <1>4. /\ c \in Seq(Ids) /\ Len(c) = n - k /\ \A i \in 1..(n - k) : c[i] = s[k + i]
    <2>1. \A i \in (k + 1)..n : s[i] \in Ids
      BY <1>2
    <2>2. /\ c \in Seq(Ids) /\ Len(c) = IF k + 1 <= n THEN n - (k + 1) + 1 ELSE 0
          /\ \A i \in 1..(n - (k + 1) + 1) : c[i] = s[(k + 1) + i - 1]
      BY <1>2, <2>1, SubSeqProperties
    <2> HIDE DEF c
    <2> QED
      BY <1>2, <2>2
  <1>5. b \in Seq(Ids) /\ Len(b) = 1 /\ b[1] = m
    OBVIOUS
  <1> HIDE DEF a, b, c
  <1>6. /\ a \o b \in Seq(Ids) /\ Len(a \o b) = k + 1
        /\ \A i \in 1..(k + 1) : (a \o b)[i] = IF i <= k THEN s[i] ELSE m
    <2>1. /\ a \o b \in Seq(Ids) /\ Len(a \o b) = Len(a) + Len(b)
          /\ \A i \in 1..(Len(a) + Len(b)) :
               (a \o b)[i] = IF i <= Len(a) THEN a[i] ELSE b[i - Len(a)]
      BY <1>3, <1>5, ConcatProperties
    <2> QED
      BY <1>2, <1>3, <1>5, <2>1
  <1>7. /\ (a \o b) \o c \in Seq(Ids) /\ Len((a \o b) \o c) = n + 1
        /\ \A i \in 1..(n + 1) : ((a \o b) \o c)[i] =
             IF i <= k + 1 THEN (a \o b)[i] ELSE c[i - (k + 1)]
    <2>1. (k + 1) + (n - k) = n + 1
      BY <1>2
    <2> QED
      BY <1>4, <1>6, <2>1, ConcatProperties
  <1>8. q \in [1..(n + 1) -> Ids]
    BY <1>2 DEF PutAfter
  <1>9. q \in Seq(Ids) /\ Len(q) = n + 1
    BY <1>8, FunctionIsSeq
  <1>10. \A i \in 1..(n + 1) : q[i] = ((a \o b) \o c)[i]
    <2> SUFFICES ASSUME NEW i \in 1..(n + 1) PROVE q[i] = ((a \o b) \o c)[i]
      OBVIOUS
    <2>1. q[i] = IF i <= k THEN s[i] ELSE IF i = k + 1 THEN m ELSE s[i - 1]
      BY DEF PutAfter
    <2> HIDE DEF q
    <2>2. CASE i <= k + 1
      BY <1>2, <1>6, <1>7, <2>1, <2>2
    <2>3. CASE ~(i <= k + 1)
      <3>1. /\ i - (k + 1) \in 1..(n - k) /\ k + (i - (k + 1)) = i - 1
            /\ ~(i <= k) /\ i # k + 1
        BY <1>2, <2>3
      <3>2. q[i] = s[i - 1]
        BY <2>1, <3>1, Zenon
      <3>3. ((a \o b) \o c)[i] = c[i - (k + 1)]
        BY <1>7, <2>3, Zenon
      <3>4. c[i - (k + 1)] = s[i - 1]
        BY <1>4, <3>1
      <3> QED
        BY <3>2, <3>3, <3>4
    <2> QED
      BY <2>2, <2>3
  <1>11. Abstract!InsertAt(s, j, m) = (a \o b) \o c
    BY <1>1, <1>2, Zenon DEF Abstract!InsertAt, a, b, c
  <1> HIDE DEF q
  <1>12. q = (a \o b) \o c
    BY <1>7, <1>9, <1>10, SeqEqual
  <1> QED
    BY <1>11, <1>12 DEF q

LEMMA RemovedLine ==
  ASSUME NEW n \in Nat, NEW s \in [1..n -> Ids], NEW k \in 1..n
  PROVE  Abstract!RemoveAt(s, k) = WithoutAt(s, n, k)
  <1>1. s \in Seq(Ids) /\ Len(s) = n
    BY FunctionIsSeq
  <1>2. k \in Nat /\ 1 <= k /\ k <= n /\ k - 1 \in Nat
    OBVIOUS
  <1> DEFINE a == SubSeq(s, 1, k - 1)
             c == SubSeq(s, k + 1, n)
             q == WithoutAt(s, n, k)
  <1>3. /\ a \in Seq(Ids) /\ Len(a) = k - 1 /\ \A i \in 1..(k - 1) : a[i] = s[i]
    <2>1. \A i \in 1..(k - 1) : s[i] \in Ids
      BY <1>2
    <2>2. /\ a \in Seq(Ids) /\ Len(a) = IF 1 <= k - 1 THEN (k - 1) - 1 + 1 ELSE 0
          /\ \A i \in 1..((k - 1) - 1 + 1) : a[i] = s[1 + i - 1]
      BY <1>2, <2>1, SubSeqProperties
    <2> HIDE DEF a
    <2> QED
      BY <1>2, <2>2
  <1>4. /\ c \in Seq(Ids) /\ Len(c) = n - k /\ \A i \in 1..(n - k) : c[i] = s[k + i]
    <2>1. \A i \in (k + 1)..n : s[i] \in Ids
      BY <1>2
    <2>2. /\ c \in Seq(Ids) /\ Len(c) = IF k + 1 <= n THEN n - (k + 1) + 1 ELSE 0
          /\ \A i \in 1..(n - (k + 1) + 1) : c[i] = s[(k + 1) + i - 1]
      BY <1>2, <2>1, SubSeqProperties
    <2> HIDE DEF c
    <2> QED
      BY <1>2, <2>2
  <1> HIDE DEF a, c
  <1>5. /\ a \o c \in Seq(Ids) /\ Len(a \o c) = n - 1
        /\ \A i \in 1..(n - 1) : (a \o c)[i] = IF i <= k - 1 THEN a[i] ELSE c[i - (k - 1)]
    <2>1. (k - 1) + (n - k) = n - 1
      BY <1>2
    <2>2. /\ a \o c \in Seq(Ids) /\ Len(a \o c) = Len(a) + Len(c)
          /\ \A i \in 1..(Len(a) + Len(c)) :
               (a \o c)[i] = IF i <= Len(a) THEN a[i] ELSE c[i - Len(a)]
      BY <1>3, <1>4, ConcatProperties
    <2>3. Len(a) = k - 1 /\ Len(a) + Len(c) = n - 1
      BY <1>3, <1>4, <2>1
    <2> QED
      BY <2>2, <2>3
  <1>6. q \in [1..(n - 1) -> Ids] /\ n - 1 \in Nat
    BY <1>2 DEF WithoutAt
  <1>7. q \in Seq(Ids) /\ Len(q) = n - 1
    BY <1>6, FunctionIsSeq
  <1>8. \A i \in 1..(n - 1) : q[i] = (a \o c)[i]
    <2> SUFFICES ASSUME NEW i \in 1..(n - 1) PROVE q[i] = (a \o c)[i]
      OBVIOUS
    <2>1. q[i] = IF i < k THEN s[i] ELSE s[i + 1]
      BY DEF WithoutAt
    <2> HIDE DEF q
    <2>2. CASE i < k
      <3>1. i \in 1..(k - 1) /\ i <= k - 1
        BY <1>2, <2>2
      <3> QED
        BY <1>3, <1>5, <2>1, <2>2, <3>1
    <2>3. CASE ~(i < k)
      <3>1. i - (k - 1) \in 1..(n - k) /\ k + (i - (k - 1)) = i + 1 /\ ~(i <= k - 1)
        BY <1>2, <2>3
      <3> QED
        BY <1>4, <1>5, <2>1, <2>3, <3>1
    <2> QED
      BY <2>2, <2>3
  <1>9. Abstract!RemoveAt(s, k) = a \o c
    BY <1>1, Zenon DEF Abstract!RemoveAt, a, c
  <1> HIDE DEF q
  <1>10. q = a \o c
    BY <1>5, <1>7, <1>8, SeqEqual
  <1> QED
    BY <1>9, <1>10 DEF q

-------------------------------------------------------------------------------
(* new_tp and remove_tp on the path. *)

LEMMA LineIsAnEntry ==
  ASSUME NEW t, NEW D, NEW n, NEW s, IsLine(t, D, n, s)
  PROVE  t # NoTps
  <1>1. \A d \in D : t[d] \in Points
    BY Place, JoinsType
  <1>2. D \in SUBSET Ids /\ t \in [D -> Points]
    BY <1>1 DEF IsLine
  <1> QED
    BY <1>2, NoTpsAssumption

LEMMA PathTyped ==
  ASSUME NEW t, t # NoTps, NEW D, NEW n, NEW s, IsLine(t, D, n, s)
  PROVE  Len(PathOf(t)) = n /\ Abstract!ToSet(PathOf(t)) = D
  <1>1. n \in Nat /\ s \in [1..n -> D] /\ \A x \in D : \E i \in 1..n : s[i] = x
    BY DEF IsLine, Line
  <1>2. PathOf(t) = s
    BY PathOfLine
  <1>3. Len(s) = n /\ DOMAIN s = 1..n
    BY <1>1, FunctionIsSeq
  <1>4. Abstract!ToSet(s) = D
    BY <1>1, <1>3 DEF Abstract!ToSet
  <1> QED
    BY <1>2, <1>3, <1>4

LEMMA PathWithTp ==
  ASSUME NEW t, OneLine(t), TpsEntry(t), NEW e \in Ends, NEW leg \in LegsOf(t, e),
         NEW m \in Ids, t # NoTps => m \notin DOMAIN t
  PROVE  /\ m \notin Abstract!ToSet(PathOf(t))
         /\ \E k \in 1..(Len(PathOf(t)) + 1) :
              PathOf(WithTp(t, leg, m)) = Abstract!InsertAt(PathOf(t), k, m)
  <1>1. CASE t = NoTps
    <2> DEFINE s == [i \in 1..1 |-> m]
    <2>1. PathOf(t) = <<>>
      BY <1>1 DEF PathOf
    <2>2. <<>> \in [1..0 -> Ids] /\ Len(<<>>) = 0 /\ DOMAIN <<>> = {}
      BY EmptySeq, LenProperties
    <2>3. m \notin Abstract!ToSet(<<>>)
      BY <2>2, Zenon DEF Abstract!ToSet
    <2>4. IsLine(WithTp(t, leg, m), {m}, 1, s)
      BY <1>1, FirstTpLine
    <2>5. PathOf(WithTp(t, leg, m)) = s
      BY <2>4, LineIsAnEntry, PathOfLine
    <2>6. Abstract!InsertAt(<<>>, 1, m) = PutAfter(<<>>, 0, 0, m)
      <3>1. \A n \in Nat : \A q \in [1..n -> Ids], k \in 0..n : \A j :
              j = k + 1 => Abstract!InsertAt(q, j, m) = PutAfter(q, n, k, m)
        BY InsertedLine
      <3>2. 0 \in 0..0 /\ 1 = 0 + 1 /\ 0 \in Nat
        OBVIOUS
      <3> QED
        BY <2>2, <3>1, <3>2, Zenon
    <2>7. PutAfter(<<>>, 0, 0, m) = s
      BY DEF PutAfter
    <2> HIDE DEF s
    <2>8. 1 \in 1..(Len(PathOf(t)) + 1)
      BY <2>1, <2>2
    <2> QED
      BY <2>1, <2>3, <2>5, <2>6, <2>7, <2>8
  <1>2. CASE t # NoTps
    <2>1. PICK D, n, s : IsLine(t, D, n, s)
      BY <1>2, OneLineIsLine
    <2>2. n \in Nat /\ D \subseteq Ids /\ s \in [1..n -> D] /\ DOMAIN t = D /\ m \in Ids \ D
      BY <1>2, <2>1 DEF IsLine
    <2>3. PICK k \in 0..n : IsLine(WithTp(t, leg, m), D \cup {m}, n + 1, PutAfter(s, n, k, m))
      BY <1>2, <2>1, <2>2, NextTpLine
    <2>4. PathOf(WithTp(t, leg, m)) = PutAfter(s, n, k, m)
      BY <2>3, LineIsAnEntry, PathOfLine
    <2>5. s \in [1..n -> Ids]
      BY <2>2
    <2>6. Abstract!InsertAt(s, k + 1, m) = PutAfter(s, n, k, m)
      BY <2>2, <2>5, InsertedLine
    <2>7. PathOf(t) = s /\ Len(PathOf(t)) = n /\ Abstract!ToSet(PathOf(t)) = D
      BY <1>2, <2>1, PathOfLine, PathTyped
    <2>8. k + 1 \in 1..(Len(PathOf(t)) + 1)
      BY <2>2, <2>7
    <2> QED
      BY <2>2, <2>4, <2>6, <2>7, <2>8
  <1> QED
    BY <1>1, <1>2

LEMMA PathWithoutTp ==
  ASSUME NEW t, t # NoTps, OneLine(t), TpsEntry(t), NEW i \in DOMAIN t
  PROVE  \E k \in DOMAIN PathOf(t) : PathOf(WithoutTp(t, i)) = Abstract!RemoveAt(PathOf(t), k)
  <1>1. PICK D, n, s : IsLine(t, D, n, s)
    BY OneLineIsLine
  <1>2. /\ n \in Nat /\ D \subseteq Ids /\ s \in [1..n -> D] /\ DOMAIN t = D
        /\ \A j, k \in 1..n : s[j] = s[k] => j = k
        /\ \A x \in D : \E j \in 1..n : s[j] = x
    BY <1>1 DEF IsLine, Line
  <1>3. PathOf(t) = s /\ DOMAIN s = 1..n
    BY <1>1, <1>2, PathOfLine
  <1>s. s \in [1..n -> Ids]
    BY <1>2
  <1>r. \A k \in 1..n : Abstract!RemoveAt(s, k) = WithoutAt(s, n, k)
    BY <1>2, <1>s, RemovedLine
  <1>4. CASE DOMAIN t = {i}
    <2>1. n = 1 /\ 1 \in 1..n
      BY <1>2, <1>4
    <2>2. Abstract!RemoveAt(s, 1) = WithoutAt(s, n, 1)
      BY <1>r, <2>1, Zenon
    <2>3. WithoutAt(s, n, 1) = <<>>
      BY <2>1 DEF WithoutAt
    <2>4. PathOf(WithoutTp(t, i)) = <<>>
      BY <1>4 DEF WithoutTp, PathOf
    <2> QED
      BY <1>3, <2>1, <2>2, <2>3, <2>4
  <1>5. CASE DOMAIN t # {i}
    <2>1. PICK k \in 1..n : IsLine(WithoutTp(t, i), D \ {i}, n - 1, WithoutAt(s, n, k))
      BY <1>1, <1>5, CutTpLine
    <2>2. PathOf(WithoutTp(t, i)) = WithoutAt(s, n, k)
      BY <2>1, LineIsAnEntry, PathOfLine
    <2>3. Abstract!RemoveAt(s, k) = WithoutAt(s, n, k)
      BY <1>r
    <2> QED
      BY <1>3, <2>2, <2>3
  <1> QED
    BY <1>4, <1>5

-------------------------------------------------------------------------------
(* Every action of the page is one of LinkPath or leaves the line alone. *)

LEMMA SaveIsSent == Save => Abstract!Sent
  BY DEF Save, Abstract!Sent

LEMMA OffMapStep ==
  ASSUME NEW e, OffMap(e)
  PROVE  [Abstract!Next]_(Abstract!vars)
  <1>1. CASE conn # NoConn
    <2>1. tps' = NoTps /\ Save
      BY <1>1 DEF OffMap
    <2>2. Abstract!Clear
      BY <2>1, SaveIsSent DEF Abstract!Clear, PathOf
    <2> QED
      BY <2>2 DEF Abstract!Next
  <1>2. CASE conn = NoConn
    <2>1. tps' = tps /\ (stored' = tps \/ stored' = stored)
      BY <1>2 DEF OffMap, Save
    <2>2. CASE stored' = tps
      BY <2>1, <2>2 DEF Abstract!Next, Abstract!Save
    <2>3. CASE stored' = stored
      BY <2>1, <2>3 DEF Abstract!vars
    <2> QED
      BY <2>1, <2>2, <2>3
  <1> QED
    BY <1>1, <1>2

LEMMA StepIsAbstract == IInv /\ [Next]_vars => [Abstract!Next]_(Abstract!vars)
  <1> SUFFICES ASSUME IInv, [Next]_vars PROVE [Abstract!Next]_(Abstract!vars)
    OBVIOUS
  <1>t. TpsEntry(tps) /\ OneLine(tps) /\ ConnOK
    BY DEF IInv, TypeOK, TpsAreOneLine
  <1>u. ASSUME UNCHANGED <<tps, stored>> PROVE [Abstract!Next]_(Abstract!vars)
    BY <1>u DEF Abstract!vars
  <1>1. CASE NewTp
    <2>1. PICK leg \in conn.legs, n \in Ids :
            /\ conn # NoConn
            /\ tps # NoTps => n \notin DOMAIN tps
            /\ tps' = WithTp(tps, leg, n)
      BY <1>1 DEF NewTp
    <2>2. conn.from_dev \in Ends /\ leg \in LegsOf(tps, conn.from_dev)
      BY <1>t, <2>1 DEF ConnOK
    <2>3. /\ n \in Ids \ Abstract!ToSet(PathOf(tps))
          /\ \E k \in 1..(Len(PathOf(tps)) + 1) : PathOf(tps') = Abstract!InsertAt(PathOf(tps), k, n)
      BY <1>t, <2>1, <2>2, PathWithTp
    <2>4. Abstract!Sent
      BY <1>1, SaveIsSent DEF NewTp
    <2>5. Abstract!PutIn
      BY <2>3, <2>4 DEF Abstract!PutIn
    <2> QED
      BY <2>5 DEF Abstract!Next
  <1>2. CASE RemoveTp
    <2>1. PICK i \in DOMAIN tps : tps # NoTps /\ tps' = WithoutTp(tps, i)
      BY <1>2 DEF RemoveTp
    <2>2. \E k \in DOMAIN PathOf(tps) : PathOf(tps') = Abstract!RemoveAt(PathOf(tps), k)
      BY <1>t, <2>1, PathWithoutTp
    <2>3. Abstract!Sent
      BY <1>2, SaveIsSent DEF RemoveTp
    <2>4. Abstract!TakeOut
      BY <2>2, <2>3 DEF Abstract!TakeOut
    <2> QED
      BY <2>4 DEF Abstract!Next
  <1>3. CASE MoveTp
    BY <1>3 DEF MoveTp, Abstract!Next, Abstract!Save
  <1>4. CASE Reload
    BY <1>4 DEF Reload, Abstract!Next, Abstract!Load
  <1>5. CASE DeleteLink \/ AskLink \/ LinkSaved \/ VdevSaved \/ VdevNotSaved
    BY <1>5, <1>u DEF DeleteLink, AskLink, LinkSaved, VdevSaved, VdevNotSaved
  <1>6. ASSUME NEW e \in Ends, RemoveFromMap(e) PROVE [Abstract!Next]_(Abstract!vars)
    BY <1>6, OffMapStep DEF RemoveFromMap
  <1>7. ASSUME NEW e \in Ends, DeleteDev(e) PROVE [Abstract!Next]_(Abstract!vars)
    BY <1>7, <1>u, OffMapStep DEF DeleteDev
  <1>8. ASSUME NEW e \in Ends, PlaceDev(e) PROVE [Abstract!Next]_(Abstract!vars)
    BY <1>8, <1>u DEF PlaceDev
  <1>9. ASSUME NEW e \in Ends, NEW keep \in BOOLEAN, NEW more \in BOOLEAN, NEW differ \in BOOLEAN,
               EditVdev(e, keep, more, differ)
        PROVE  [Abstract!Next]_(Abstract!vars)
    BY <1>9, <1>u DEF EditVdev
  <1>10. CASE UNCHANGED vars
    BY <1>10, <1>u DEF vars
  <1> QED
    BY <1>1, <1>2, <1>3, <1>4, <1>5, <1>6, <1>7, <1>8, <1>9, <1>10 DEF Next

\* The records of the turn points implement a line drawn as a sequence of points:
\* new_tp puts one point in at one place, remove_tp takes one out, remove_from_map
\* clears the line, a reload brings back what was saved last, for any number of points.
THEOREM RecordsAreAPath == Spec => ImplementsLinkPath
  <1>1. Init => Abstract!Init
    BY DEF Init, Abstract!Init, PathOf
  <1> QED
    BY <1>1, StepIsAbstract, Invariant, PTL DEF Spec, ImplementsLinkPath, Abstract!Spec
===============================================================================
