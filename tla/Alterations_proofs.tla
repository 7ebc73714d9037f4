---------------------------- MODULE Alterations_proofs ----------------------------
(* Theorems about Checks, for every set of inputs and every answer of the     *)
(* model: equal reports have no findings, and an alteration is told.          *)
EXTENDS Checks_proofs

-----------------------------------------------------------------------------
(* RunEvents: an event agrees with itself, and no other one is more like it.  *)
AreFacts(fs) == \A f \in fs : f[2] \in Int
IsEvent(e) == IsFiniteSet(e.words) /\ AreFacts(e.amounts) /\ AreFacts(e.pcts)

LEMMA NumbersAreNear ==
  ASSUME NEW x \in Int, NEW exact
  PROVE  E!Near(x, x, exact)
PROOF
  BY DEF E!Near, E!Within, E!Abs, E!Larger

LEMMA OwnOverlap ==
  ASSUME NEW xs, \A x \in xs : x \in Int, NEW ys, NEW exact
  PROVE  /\ xs # {} => E!Overlap(xs, xs, exact)
         /\ E!Overlap(xs, ys, exact) => E!Overlap(xs, xs, exact)
PROOF
  <1>1. xs # {} => E!Overlap(xs, xs, exact)
    <2> SUFFICES ASSUME NEW x \in xs PROVE E!Overlap(xs, xs, exact)
      OBVIOUS
    <2>1. E!Near(x, x, exact)
      BY NumbersAreNear
    <2> QED BY <2>1 DEF E!Overlap
  <1>2. E!Overlap(xs, ys, exact) => xs # {}
    BY DEF E!Overlap
  <1> QED BY <1>1, <1>2

LEMMA NoOwnConflict ==
  ASSUME NEW fs, AreFacts(fs)
  PROVE  ~E!Conflict(fs, fs, E!RolesIn(fs) \intersect E!RolesIn(fs))
PROOF
  <1> DEFINE shared == E!RolesIn(fs) \intersect E!RolesIn(fs)
  <1>1. \A x \in E!ValuesIn(fs) : x \in Int
    BY DEF E!ValuesIn, AreFacts
  <1>2. fs # {} => E!ValuesIn(fs) # {}
    BY DEF E!ValuesIn
  <1>3. fs # {} => E!Overlap(E!ValuesIn(fs), E!ValuesIn(fs), FALSE)
    BY <1>1, <1>2, OwnOverlap
  <1>4. ASSUME NEW r \in shared PROVE E!Overlap(E!ValuesOf(fs, r), E!ValuesOf(fs, r), E!Exact(r))
    <2>1. \E f \in fs : f[1] = r
      BY DEF E!RolesIn
    <2>2. E!ValuesOf(fs, r) # {}
      BY <2>1 DEF E!ValuesOf
    <2>3. \A x \in E!ValuesOf(fs, r) : x \in Int
      BY DEF E!ValuesOf, AreFacts
    <2> QED BY <2>2, <2>3, OwnOverlap
  <1> HIDE DEF shared
  <1>5. E!ConflictIn(fs, fs, shared) = {}
    BY <1>4 DEF E!ConflictIn
  <1> QED BY <1>3, <1>5 DEF E!Conflict, shared

LEMMA NothingMismatches ==
  ASSUME NEW e, IsEvent(e)
  PROVE  E!RealMismatches(e, e) = {}
PROOF
  <1>1. ~E!DateConflict(e, e)
    BY DEF E!DateConflict, E!DaysOf
  <1>2. ~E!Conflict(e.amounts, e.amounts, E!SharedAmounts(e, e)) /\ ~E!Conflict(e.pcts, e.pcts, E!SharedPcts(e, e))
    BY NoOwnConflict DEF E!SharedAmounts, E!SharedPcts, IsEvent
  <1>3. E!Mismatches(e, e) = {}
    BY <1>1, <1>2 DEF E!Mismatches
  <1> QED BY <1>3 DEF E!RealMismatches

LEMMA TokensAreShares ==
  ASSUME NEW a, IsFiniteSet(a.words), NEW h, IsFiniteSet(h.words)
  PROVE  /\ E!Tokens(a, h) \in 0 .. 1000 /\ E!Wording(a, h) \in 0 .. 1000
         /\ a.words # {} => E!Tokens(a, a) = 1000
         /\ E!Wording(a, a) = 1000
PROOF
  <1> DEFINE x == Cardinality(a.words \intersect h.words)
             y == Cardinality(a.words \union h.words)
             z == Cardinality(a.words)
  <1>1. x \in Nat /\ y \in Nat /\ (a.words # {} => y # 0) /\ z \in Nat /\ (a.words # {} => z # 0)
    BY CommonIsANumber, FS_CardinalityType, FS_EmptySet
  <1>2. x <= y
    <2> DEFINE v == a.words \intersect h.words
               w == a.words \union h.words
    <2>1. v \subseteq w /\ IsFiniteSet(w)
      BY FS_Union
    <2> HIDE DEF v, w
    <2>2. Cardinality(v) <= Cardinality(w)
      BY <2>1, FS_Subset
    <2> QED BY <2>2 DEF v, w
  <1>3. E!Tokens(a, h) = IF a.words = {} \/ h.words = {} THEN 0 ELSE (1000 * x) \div y
    BY SameOperators DEF E!Tokens
  <1>4. a.words # {} => E!Tokens(a, a) = (1000 * z) \div z
    <2> DEFINE w == a.words
               v == w \intersect w
               u == w \union w
    <2>1. v = w /\ u = w
      OBVIOUS
    <2>2. w # {} => E!Tokens(a, a) = (1000 * E!Cardinality(v)) \div E!Cardinality(u)
      BY Zenon DEF E!Tokens
    <2> HIDE DEF u, v, w
    <2>3. w # {} => E!Tokens(a, a) = (1000 * Cardinality(w)) \div Cardinality(w)
      BY <2>1, <2>2, SameOperators, Zenon
    <2> QED BY <2>3, Zenon DEF w
  <1> HIDE DEF x, y, z
  <1>5. E!Tokens(a, h) \in 0 .. 1000
    <2>1. CASE y # 0
      <3>1. (1000 * x) \div y \in 0 .. 1000
        <4> DEFINE d == (1000 * x) \div y
                   r == (1000 * x) % y
        <4>1. 1000 * x = y * d + r /\ r \in 0 .. y - 1 /\ d \in Int
          BY <1>1, <2>1
        <4> HIDE DEF d, r
        <4>2. d >= 0
          <5> SUFFICES ASSUME d <= -1 PROVE FALSE
            BY <4>1
          <5>1. y * d <= y * (-1)
            BY <1>1, <4>1
          <5> QED BY <1>1, <2>1, <4>1, <5>1
        <4>3. d <= 1000
          <5> SUFFICES ASSUME d >= 1001 PROVE FALSE
            BY <4>1
          <5>1. y * d >= y * 1001
            BY <1>1, <4>1
          <5> QED BY <1>1, <1>2, <2>1, <4>1, <5>1
        <4> QED BY <4>1, <4>2, <4>3 DEF d
      <3> QED BY <1>3, <3>1
    <2>2. CASE y = 0
      BY <1>1, <1>3, <2>2
    <2> QED BY <2>1, <2>2
  <1>6. E!Wording(a, h) \in 0 .. 1000
    BY <1>5 DEF E!Wording
  <1>7. a.words # {} => E!Tokens(a, a) = 1000
    BY <1>1, <1>4
  <1> QED BY <1>5, <1>6, <1>7 DEF E!Wording

LEMMA PointsGrow ==
  ASSUME NEW n \in Nat, NEW c, NEW d, c => d
  PROVE  E!Points(n, c) <= E!Points(n, d) /\ E!Points(n, c) \in Nat /\ E!Points(n, d) \in Nat
PROOF
  BY DEF E!Points

LEMMA OwnFactPoints ==
  ASSUME NEW a, IsEvent(a), NEW h
  PROVE  /\ E!FactPoints(a, h) <= E!FactPoints(a, a)
         /\ E!FactPoints(a, h) \in Nat /\ E!FactPoints(a, a) \in Nat
PROOF
  <1> DEFINE c1 == E!Overlap(E!ValuesIn(a.amounts), E!ValuesIn(h.amounts), FALSE)
             d1 == E!Overlap(E!ValuesIn(a.amounts), E!ValuesIn(a.amounts), FALSE)
             c2 == E!Overlap(E!ValuesIn(a.pcts), E!ValuesIn(h.pcts), FALSE)
             d2 == E!Overlap(E!ValuesIn(a.pcts), E!ValuesIn(a.pcts), FALSE)
             c3 == a.statuses \intersect h.statuses # {}
             d3 == a.statuses \intersect a.statuses # {}
             c4 == E!SpecificDays(a) \intersect E!SpecificDays(h) # {}
             d4 == E!SpecificDays(a) \intersect E!SpecificDays(a) # {}
             c5 == a.entities \intersect h.entities # {}
             d5 == a.entities \intersect a.entities # {}
             o(c) == E!Points(120, c)
  <1>1. (c1 => d1) /\ (c2 => d2)
    <2>1. (\A x \in E!ValuesIn(a.amounts) : x \in Int) /\ (\A x \in E!ValuesIn(a.pcts) : x \in Int)
      BY DEF E!ValuesIn, AreFacts, IsEvent
    <2>2. c1 => d1
      BY <2>1, OwnOverlap
    <2>3. c2 => d2
      BY <2>1, OwnOverlap
    <2> QED BY <2>2, <2>3
  <1>2. (c3 => d3) /\ (c4 => d4) /\ (c5 => d5)
    OBVIOUS
  <1>3. /\ E!FactPoints(a, h) = o(c1) + o(c2) + o(c3) + o(c4) + o(c5)
        /\ E!FactPoints(a, a) = o(d1) + o(d2) + o(d3) + o(d4) + o(d5)
    BY DEF E!FactPoints
  <1> HIDE DEF c1, c2, c3, c4, c5, d1, d2, d3, d4, d5
  <1>4. /\ o(c1) <= o(d1) /\ o(c1) \in Nat /\ o(d1) \in Nat
        /\ o(c2) <= o(d2) /\ o(c2) \in Nat /\ o(d2) \in Nat
        /\ o(c3) <= o(d3) /\ o(c3) \in Nat /\ o(d3) \in Nat
        /\ o(c4) <= o(d4) /\ o(c4) \in Nat /\ o(d4) \in Nat
        /\ o(c5) <= o(d5) /\ o(c5) \in Nat /\ o(d5) \in Nat
    BY <1>1, <1>2, PointsGrow
  <1> HIDE DEF o
  <1> QED BY <1>3, <1>4

LEMMA OwnTopicPoints ==
  ASSUME NEW a, NEW h
  PROVE  /\ E!TopicPoints(a, h) <= E!TopicPoints(a, a)
         /\ E!TopicPoints(a, h) \in Nat /\ E!TopicPoints(a, a) \in Nat
PROOF
  <1> DEFINE c1 == E!TopicOf(a) = E!TopicOf(h)
             c2 == E!Bucket(a) = E!Bucket(h)
             c3 == a.actions \intersect h.actions # {}
             d3 == a.actions \intersect a.actions # {}
             c4 == a.domains \intersect h.domains # {}
             d4 == a.domains \intersect a.domains # {}
             c5 == E!SharedAmounts(a, h) # {}
             d5 == E!SharedAmounts(a, a) # {}
             c6 == c4 /\ E!SharedAmounts(a, h) \intersect E!RealAmounts # {}
             d6 == d4 /\ E!SharedAmounts(a, a) \intersect E!RealAmounts # {}
             p1 == E!Points(120, c1)
             p2 == E!Points(60, c2)
             p3 == E!Points(100, c3)
             p4 == E!Points(180, c4)
             p5 == E!Points(120, c5)
             p6 == E!Points(140, c6)
             q1 == E!Points(120, TRUE)
             q2 == E!Points(60, TRUE)
             q3 == E!Points(100, d3)
             q4 == E!Points(180, d4)
             q5 == E!Points(120, d5)
             q6 == E!Points(140, d6)
  <1>1. (c3 => d3) /\ (c4 => d4) /\ (c5 => d5) /\ (c6 => d6)
    BY DEF E!SharedAmounts
  <1>2. E!TopicPoints(a, h) = p1 + p2 + p3 + p4 + p5 + p6
    BY DEF E!TopicPoints
  <1>3. E!TopicPoints(a, a) = q1 + q2 + q3 + q4 + q5 + q6
    BY DEF E!TopicPoints
  <1> HIDE DEF c1, c2, c3, c4, c5, c6, d3, d4, d5, d6
  <1>4. /\ p1 <= q1 /\ p1 \in Nat /\ q1 \in Nat
        /\ p2 <= q2 /\ p2 \in Nat /\ q2 \in Nat
        /\ p3 <= q3 /\ p3 \in Nat /\ q3 \in Nat
        /\ p4 <= q4 /\ p4 \in Nat /\ q4 \in Nat
        /\ p5 <= q5 /\ p5 \in Nat /\ q5 \in Nat
        /\ p6 <= q6 /\ p6 \in Nat /\ q6 \in Nat
    <2>1. /\ p1 <= q1 /\ p1 \in Nat /\ q1 \in Nat
          /\ p2 <= q2 /\ p2 \in Nat /\ q2 \in Nat
      BY PointsGrow
    <2>2. /\ p3 <= q3 /\ p3 \in Nat /\ q3 \in Nat
          /\ p4 <= q4 /\ p4 \in Nat /\ q4 \in Nat
      BY <1>1, PointsGrow
    <2>3. /\ p5 <= q5 /\ p5 \in Nat /\ q5 \in Nat
          /\ p6 <= q6 /\ p6 \in Nat /\ q6 \in Nat
      BY <1>1, PointsGrow
    <2> QED BY <2>1, <2>2, <2>3
  <1> HIDE DEF p1, p2, p3, p4, p5, p6, q1, q2, q3, q4, q5, q6
  <1> QED BY <1>2, <1>3, <1>4

(* An event that may be paired at all scores as high with itself as with any  *)
(* other one, and high enough.                                                *)
SaysEnough(e) == e.words # {} /\ (E!SoftPair(e, e) => E!HardAnchor(e, e))

LEMMA OwnEventScore ==
  ASSUME NEW a, NEW h, IsEvent(a), IsEvent(h), SaysEnough(a)
  PROVE  E!EventScore(a, h) <= E!EventScore(a, a) /\ E!EventScore(a, a) >= 420
PROOF
  <1> DEFINE t == E!Tokens(a, h)
             w == E!Wording(a, h)
             x == E!TopicPoints(a, h) + E!FactPoints(a, h)
             y == E!TopicPoints(a, a) + E!FactPoints(a, a)
             Top(z) == E!AtMost(z, 1000)
  <1>1. /\ t \in 0 .. 1000 /\ w \in 0 .. 1000
        /\ E!Tokens(a, a) = 1000 /\ E!Wording(a, a) = 1000
    BY TokensAreShares DEF IsEvent, SaysEnough
  <1>2. x <= y /\ x \in Nat /\ y \in Nat
    BY OwnFactPoints, OwnTopicPoints
  <1>3. E!EventScore(a, a) = Top(y + 500)
    <2>1. E!Anchored(a, a)
      BY <1>1 DEF E!Anchored
    <2>2. ~(E!SoftPair(a, a) /\ ~E!HardAnchor(a, a))
      BY DEF SaysEnough
    <2>3. E!EventScore(a, a) = Top(y + (24 * 1000 + 26 * 1000) \div 100)
      BY <1>1, <2>1, <2>2 DEF E!EventScore
    <2>4. (24 * 1000 + 26 * 1000) \div 100 = 500
      OBVIOUS
    <2> QED BY <2>3, <2>4
  <1>4. /\ (t + w) \div 5 \in Int /\ (t + w) \div 4 \in Int
        /\ (24 * t + 26 * w) \div 100 \in Int /\ (24 * t + 26 * w) \div 100 <= 500
    <2> DEFINE v == t + w
               z == 24 * t + 26 * w
    <2>1. v \in Int /\ z \in Int /\ z <= 100 * 500
      <3>1. t \in Int /\ w \in Int /\ t <= 1000 /\ w <= 1000
        BY <1>1
      <3> HIDE DEF t, w
      <3> QED BY <3>1
    <2> HIDE DEF v, z
    <2>2. v \div 5 \in Int /\ v \div 4 \in Int /\ z \div 100 \in Int /\ z \div 100 <= 500
      BY <2>1
    <2> QED BY <2>2 DEF v, z
  <1> DEFINE d5 == (t + w) \div 5
             d4 == (t + w) \div 4
             dd == (24 * t + 26 * w) \div 100
  <1>5. \/ E!EventScore(a, h) = E!AtMost(d5, 350)
        \/ E!EventScore(a, h) = E!AtMost(d4, 410)
        \/ E!EventScore(a, h) = Top(x + dd)
    BY DEF E!EventScore
  <1>6. d5 \in Int /\ d4 \in Int /\ dd \in Int /\ dd <= 500
    BY <1>4
  <1> HIDE DEF x, y, d5, d4, dd
  <1>7. Top(y + 500) >= 500
    BY <1>2 DEF E!AtMost
  <1>8. E!AtMost(d5, 350) <= 350 /\ E!AtMost(d4, 410) <= 410 /\ Top(x + dd) <= Top(y + 500)
    BY <1>2, <1>6 DEF E!AtMost
  <1>9. E!AtMost(d5, 350) \in Int /\ E!AtMost(d4, 410) \in Int /\ Top(x + dd) \in Int /\ Top(y + 500) \in Int
    BY <1>2, <1>6 DEF E!AtMost
  <1> QED BY <1>3, <1>5, <1>7, <1>8, <1>9

AreTelling(as) == IsList(as) /\ \A i \in 1 .. Len(as) : IsEvent(as[i]) /\ SaysEnough(as[i])

(* Each event is the best of those that are left for itself.                  *)
LEMMA OwnIsBest ==
  ASSUME NEW as, AreTelling(as), NEW i \in 1 .. Len(as), NEW taken, taken = 1 .. (i - 1)
  PROVE  E!BestFor(as, as, i, taken) = i
PROOF
  <1> DEFINE Score(j) == E!EventScore(as[i], as[j])
             fit == {j \in DOMAIN as \ taken : Score(j) >= 420}
             Best(j) == \A k \in fit : Score(j) > Score(k) \/ (Score(j) = Score(k) /\ j <= k)
  <1>1. DOMAIN as = 1 .. Len(as) /\ Len(as) \in Nat
    BY DEF AreTelling, IsList
  <1>2. \A j \in 1 .. Len(as) : Score(j) <= Score(i) /\ Score(i) >= 420 /\ Score(j) \in Int
    <2> SUFFICES ASSUME NEW j \in 1 .. Len(as) PROVE Score(j) <= Score(i) /\ Score(i) >= 420 /\ Score(j) \in Int
      OBVIOUS
    <2>1. IsEvent(as[i]) /\ SaysEnough(as[i]) /\ IsEvent(as[j])
      BY DEF AreTelling
    <2>2. Score(j) <= Score(i) /\ Score(i) >= 420
      BY <2>1, OwnEventScore
    <2>3. Score(j) \in Int
      BY <2>1, EventScoresAreNumbers DEF IsEvent
    <2> QED BY <2>2, <2>3
  <1> HIDE DEF Score
  <1>3. \A j \in fit : j \in 1 .. Len(as) /\ i <= j
    <2> SUFFICES ASSUME NEW j \in fit PROVE j \in 1 .. Len(as) /\ i <= j
      OBVIOUS
    <2>1. j \in 1 .. Len(as) /\ j \notin 1 .. (i - 1)
      BY <1>1
    <2> DEFINE n == Len(as)
    <2>2. j \in 1 .. n /\ n \in Nat /\ i \in 1 .. n
      BY <1>1, <2>1
    <2> HIDE DEF n, fit
    <2>3. i <= j
      BY <2>1, <2>2
    <2> QED BY <2>1, <2>3
  <1>4. E!BestFor(as, as, i, taken) = IF fit = {} THEN 0 ELSE CHOOSE j \in fit : Best(j)
    BY DEF E!BestFor, Score
  <1>5. i \in fit
    <2>1. i \notin 1 .. (i - 1)
      OBVIOUS
    <2> QED BY <1>1, <1>2, <2>1
  <1> HIDE DEF fit
  <1>6. Best(i)
    <2> SUFFICES ASSUME NEW k \in fit PROVE Score(i) > Score(k) \/ (Score(i) = Score(k) /\ i <= k)
      OBVIOUS
    <2>1. i <= k /\ Score(k) <= Score(i) /\ Score(k) \in Int /\ Score(i) \in Int
      BY <1>2, <1>3
    <2> QED BY <2>1
  <1>7. ASSUME NEW j \in fit, Best(j) PROVE j = i
    <2>1. Score(j) > Score(i) \/ (Score(j) = Score(i) /\ j <= i)
      BY <1>5, <1>7
    <2>2. i <= j /\ j \in 1 .. Len(as) /\ Score(j) <= Score(i) /\ Score(j) \in Int /\ Score(i) \in Int
      BY <1>2, <1>3
    <2> QED BY <2>1, <2>2
  <1> QED BY <1>4, <1>5, <1>6, <1>7

LEMMA OwnEvents ==
  ASSUME NEW as, AreTelling(as)
  PROVE  \A p \in E!EventPairs(as, as) : p[1] \in 1 .. Len(as) /\ p[2] = p[1]
PROOF
  <1> DEFINE n == Len(as)
  <1>1. n \in Nat
    BY DEF AreTelling, IsList
  <1>2. PICK g : /\ g[0] = {}
                 /\ \A k \in 1 .. n : g[k] = E!Taken(as, as, g[k - 1], k)
                 /\ E!EventPairs(as, as) = g[n]
    BY <1>1, EventsFollow
  <1> DEFINE Own1(k) == {<<i, i>> : i \in 1 .. k}
             S == {k \in Nat : k <= n => g[k] = Own1(k)}
  <1>0. /\ Own1(0) = {}
        /\ \A k \in Nat : Own1(k + 1) = Own1(k) \union {<<k + 1, k + 1>>} /\ {p[2] : p \in Own1(k)} = 1 .. k
    <2>1. Own1(0) = {}
      <3>1. 1 .. 0 = {}
        OBVIOUS
      <3> QED BY <3>1
    <2>2. ASSUME NEW k \in Nat PROVE Own1(k + 1) = Own1(k) \union {<<k + 1, k + 1>>}
      <3>1. 1 .. (k + 1) = 1 .. k \union {k + 1}
        OBVIOUS
      <3> DEFINE top == 1 .. (k + 1)
                 low == 1 .. k
      <3> HIDE DEF top, low
      <3>2. {<<i, i>> : i \in top} = {<<i, i>> : i \in low} \union {<<k + 1, k + 1>>}
        BY <3>1, Zenon DEF top, low
      <3> QED BY <3>2 DEF top, low
    <2>3. ASSUME NEW k \in Nat PROVE {p[2] : p \in Own1(k)} = 1 .. k
      <3> DEFINE low == 1 .. k
      <3> HIDE DEF low
      <3>1. {p[2] : p \in {<<i, i>> : i \in low}} = low
        <4> DEFINE d == {<<i, i>> : i \in low}
        <4>1. \A i \in low : \E p \in d : p[2] = i
          <5> SUFFICES ASSUME NEW i \in low PROVE \E p \in d : p[2] = i
            OBVIOUS
          <5> QED BY <<i, i>> \in d /\ <<i, i>>[2] = i
        <4>2. \A p \in d : p[2] \in low
          OBVIOUS
        <4> HIDE DEF d
        <4> QED BY <4>1, <4>2 DEF d
      <3> QED BY <3>1 DEF low
    <2> QED BY <2>1, <2>2, <2>3
  <1> HIDE DEF Own1, n
  <1>3. 0 \in S
    BY <1>0, <1>2
  <1>4. ASSUME NEW k \in Nat, k \in S PROVE k + 1 \in S
    <2> SUFFICES ASSUME k + 1 <= n PROVE g[k + 1] = Own1(k + 1)
      OBVIOUS
    <2>1. k + 1 \in 1 .. n /\ (k + 1) - 1 = k /\ k <= n
      BY <1>1
    <2>2. g[k] = Own1(k) /\ g[k + 1] = E!Taken(as, as, g[k], k + 1)
      BY <1>2, <1>4, <2>1
    <2>3. E!Rights(g[k]) = 1 .. k
      BY <1>0, <2>2 DEF E!Rights
    <2>4. E!BestFor(as, as, k + 1, E!Rights(g[k])) = k + 1
      <3>1. k + 1 \in 1 .. Len(as) /\ 1 .. k = 1 .. ((k + 1) - 1)
        BY <2>1 DEF n
      <3> QED BY <2>3, <3>1, OwnIsBest
    <2>5. g[k + 1] = g[k] \union {<<k + 1, k + 1>>}
      <3> DEFINE j == E!BestFor(as, as, k + 1, E!Rights(g[k]))
      <3>1. g[k + 1] = IF j = 0 THEN g[k] ELSE g[k] \union {<<k + 1, j>>}
        BY <2>2, Zenon DEF E!Taken
      <3>2. j = k + 1
        BY <2>4, Zenon
      <3> HIDE DEF j
      <3>3. k + 1 # 0
        OBVIOUS
      <3> QED BY <3>1, <3>2, <3>3
    <2> QED BY <1>0, <2>2, <2>5
  <1> HIDE DEF S
  <1>5. n \in S
    BY <1>1, <1>3, <1>4, EveryNumber
  <1>6. E!EventPairs(as, as) = Own1(n)
    BY <1>1, <1>2, <1>5 DEF S
  <1>7. \A p \in Own1(n) : p[1] \in 1 .. n /\ p[2] = p[1]
    BY DEF Own1
  <1> QED BY <1>6, <1>7 DEF n

LEMMA NoEventDiffers ==
  ASSUME NEW as, AreTelling(as), NEW same
  PROVE  E!EventDiffs(as, as, E!EventPairs(as, as), same) = {}
PROOF
  <1> DEFINE m == E!EventPairs(as, as)
             Told(p) == [pair |-> p, labels |-> E!RealMismatches(as[p[1]], as[p[2]]),
                         triage |-> IF same THEN "real" ELSE "unresolved"]
  <1>1. ASSUME NEW p \in m PROVE Told(p).labels = {}
    <2>1. p[1] \in 1 .. Len(as) /\ p[2] = p[1]
      BY OwnEvents
    <2>2. E!RealMismatches(as[p[1]], as[p[2]]) = {}
      BY <2>1, NothingMismatches DEF AreTelling
    <2> QED BY <2>2
  <1> HIDE DEF Told, m
  <1>2. PICK plain : plain \subseteq m /\ E!EventDiffs(as, as, m, same) = {d \in {Told(p) : p \in plain} : d.labels # {}}
    <2> DEFINE plain == {p \in m : E!HardAnchor(as[p[1]], as[p[2]]) \/ ~E!Ambiguous(as, as, m, p)}
    <2>1. plain \subseteq m
      OBVIOUS
    <2>2. E!EventDiffs(as, as, m, same) = {d \in {Told(p) : p \in plain} : d.labels # {}}
      BY DEF E!EventDiffs, Told
    <2> HIDE DEF plain
    <2> QED BY <2>1, <2>2
  <1> QED BY <1>1, <1>2 DEF m

HasMentions(e) == HasWords(e) /\ \A x \in e.mentions : x.n \in Int

LEMMA ExtractedAreEvents ==
  ASSUME NEW s, IsList(s), \A i \in 1 .. Len(s) : HasMentions(s[i])
  PROVE  IsList(E!Extracted(s)) /\ \A i \in 1 .. Len(E!Extracted(s)) : IsEvent(E!Extracted(s)[i])
PROOF
  <1>1. PICK places : /\ places \subseteq DOMAIN s
                      /\ LET kept == E!Picked(s, places)
                         IN E!Extracted(s) = [i \in DOMAIN kept |-> E!EventOf(kept[i])]
    BY DEF E!Extracted
  <1> DEFINE kept == Picked(s, places)
             t == [i \in DOMAIN kept |-> E!EventOf(kept[i])]
             n == Len(s)
  <1>2. /\ n \in Nat /\ places \in SUBSET (1 .. n)
        /\ E!Extracted(s) = t
    BY <1>1, SameOperators DEF IsList
  <1> HIDE DEF n
  <1>3. IsList(kept) /\ \A k \in 1 .. Len(kept) : \E i \in places : kept[k] = s[i]
    BY <1>2, PickedIsAList, Zenon
  <1>4. \A k \in 1 .. Len(kept) : HasMentions(kept[k])
    BY <1>2, <1>3 DEF n
  <1> HIDE DEF kept
  <1>5. ASSUME NEW f, HasMentions(f) PROVE IsEvent(E!EventOf(f))
    <2> DEFINE amounts == {<<E!AmountRole(m), m.n>> : m \in E!AmountsOf(f)}
               pcts == {<<E!PctRole(m), m.n>> : m \in E!PctsOf(f)}
    <2>1. E!EventOf(f) = [x \in DOMAIN f \union {"amounts", "pcts"} |->
                            CASE x = "amounts" -> amounts [] x = "pcts" -> pcts [] OTHER -> f[x]]
      BY DEF E!EventOf
    <2>2. AreFacts(amounts)
      <3> SUFFICES ASSUME NEW m \in E!AmountsOf(f) PROVE <<E!AmountRole(m), m.n>>[2] \in Int
        BY DEF AreFacts
      <3> QED BY <1>5 DEF HasMentions, E!AmountsOf
    <2>3. AreFacts(pcts)
      <3> SUFFICES ASSUME NEW m \in E!PctsOf(f) PROVE <<E!PctRole(m), m.n>>[2] \in Int
        BY DEF AreFacts
      <3> QED BY <1>5 DEF HasMentions, E!PctsOf
    <2> HIDE DEF amounts, pcts
    <2>4. E!EventOf(f).words = f.words /\ E!EventOf(f).amounts = amounts /\ E!EventOf(f).pcts = pcts
      BY <1>5, <2>1 DEF HasMentions, HasWords
    <2> QED BY <1>5, <2>2, <2>3, <2>4 DEF IsEvent, HasMentions, HasWords
  <1>6. Len(t) = Len(kept) /\ DOMAIN t = 1 .. Len(kept)
    BY <1>3 DEF IsList
  <1>7. IsList(t)
    BY <1>3, <1>6 DEF IsList
  <1>8. \A k \in 1 .. Len(t) : IsEvent(t[k])
    BY <1>4, <1>5, <1>6
  <1> QED BY <1>2, <1>7, <1>8

LEMMA EventIsClean ==
  ASSUME RunEvents
  PROVE  EventSameIsClean'
PROOF
  <1>1. PICK as, to, same : /\ as \in EventSides
                            /\ \E hs \in Others(as, to) :
                                 input' = [as |-> E!Extracted(as), hs |-> E!Extracted(hs), same |-> same]
    BY Zenon DEF RunEvents
  <1>2. PICK hs \in Others(as, to) : input' = [as |-> E!Extracted(as), hs |-> E!Extracted(hs), same |-> same]
    BY <1>1
  <1>3. \A e \in EventSides : IsList(e) /\ \A i \in 1 .. Len(e) : HasMentions(e[i])
    BY EventsAssumption DEF EventsAssumption, HasMentions, HasWords, IsList
  <1> DEFINE a == E!Extracted(as)
             h == E!Extracted(hs)
  <1>4. IsList(a) /\ \A i \in 1 .. Len(a) : IsEvent(a[i])
    BY <1>1, <1>3, ExtractedAreEvents, Zenon
  <1> HIDE DEF a, h
  <1>5. input' = [as |-> a, hs |-> h, same |-> same]
    BY <1>2, Zenon DEF a, h
  <1>6. input'.as = a /\ input'.hs = h /\ input'.same = same
    BY <1>5
  <1>7. found'.told = E!EventDiffs(input'.as, input'.hs, E!EventPairs(input'.as, input'.hs), input'.same)
    BY DEF RunEvents
  <1>8. DOMAIN a = 1 .. Len(a)
    BY <1>4 DEF IsList
  <1>9. a = h /\ (\A i \in DOMAIN a : SaysEnough(a[i])) => found'.told = {}
    <2> SUFFICES ASSUME a = h, \A i \in DOMAIN a : SaysEnough(a[i]) PROVE found'.told = {}
      OBVIOUS
    <2>1. AreTelling(a)
      BY <1>4, <1>8 DEF AreTelling
    <2> QED BY <1>6, <1>7, <2>1, NoEventDiffers
  <1>10. EventSameIsClean' <=>
           (check' = "events" /\ input'.as = input'.hs /\ (\A i \in DOMAIN input'.as : SaysEnough(input'.as[i])) => found'.told = {})
    BY DEF EventSameIsClean, SaysEnough
  <1> QED BY <1>6, <1>9, <1>10

-----------------------------------------------------------------------------
(* RunPairing: paragraphs of two equal reports, none of which tells more of   *)
(* another one than of itself.                                                *)
Twice(q) ==
  /\ AreBlocks(q.zh) /\ q.en = q.zh /\ q.zhTotal = 60 /\ q.enTotal = 60
  /\ \A i, j \in 1 .. Len(q.zh) : /\ P!ScoreAt(q, <<i, j>>) <= P!ScoreAt(q, <<i, i>>)
                                  /\ P!ScoreAt(q, <<i, j>>) <= P!ScoreAt(q, <<j, j>>)

LEMMA LowerIsNotAbove ==
  ASSUME NEW r \in Ints(5), NEW s \in Ints(5), r[1] <= s[1], r[2] <= s[2], r[3] <= s[3], r[4] < s[4]
  PROVE  ~Above(r, s) /\ Above(s, r)
PROOF
  <1>1. /\ \A k \in 1 .. 5 : r[k] \in Int /\ s[k] \in Int
        /\ Len(r) = 5
    BY DEF Ints
  <1>2. ~Above(r, s)
    <2> SUFFICES ASSUME NEW k \in 1 .. 5, r[k] > s[k], \A l \in 1 .. (k - 1) : r[l] = s[l] PROVE FALSE
      BY <1>1 DEF Above
    <2>1. k \in {1, 2, 3, 4, 5}
      OBVIOUS
    <2>2. k = 5
      BY <1>1, <2>1
    <2>3. 4 \in 1 .. (k - 1)
      BY <2>2
    <2> QED BY <1>1, <2>3
  <1>3. r # s
    BY <1>1
  <1>4. 5 \in Nat
    OBVIOUS
  <1> DEFINE n == 5
  <1> HIDE DEF n
  <1>5. n \in Nat /\ r \in Ints(n) /\ s \in Ints(n)
    BY <1>4 DEF n
  <1>6. r = s \/ Above(r, s) \/ Above(s, r)
    BY <1>5, RanksCompare, Zenon
  <1> QED BY <1>2, <1>3, <1>6

LEMMA OwnBlockRank ==
  ASSUME NEW q, Twice(q), NEW i \in 1 .. Len(q.zh), NEW j \in 1 .. Len(q.zh), i # j
  PROVE  /\ ~Above(P!BlockRank(q, i, j), P!BlockRank(q, i, i))
         /\ Above(P!BlockRank(q, i, i), P!BlockRank(q, i, j))
         /\ ~P!Above(P!Closeness(q, i, j), P!Closeness(q, i, i))
PROOF
  <1> DEFINE r == P!BlockRank(q, i, j)
             s == P!BlockRank(q, i, i)
             c == P!Closeness(q, i, j)
             d == P!Closeness(q, i, i)
  <1>1. AreBlocks(q.zh) /\ AreBlocks(q.en) /\ q.en = q.zh
    BY DEF Twice
  <1>2. r \in Ints(5) /\ s \in Ints(5)
    BY <1>1, BlockRanks
  <1>3. q.zh[i].page \in Int /\ q.zh[j].page \in Int
    BY <1>1 DEF AreBlocks, IsBlock
  <1>4. c = <<IF P!SameSection(q.zh[i], q.zh[j]) THEN 1 ELSE 0, - P!Abs(q.zh[j].page - q.zh[i].page), - P!Abs(i - j), - j>>
    BY <1>1 DEF P!Closeness
  <1>5. d = <<IF P!SameSection(q.zh[i], q.zh[i]) THEN 1 ELSE 0, - P!Abs(q.zh[i].page - q.zh[i].page), - P!Abs(i - i), - i>>
    BY <1>1 DEF P!Closeness
  <1>6. r = <<P!ScoreAt(q, <<i, j>>), c[1], c[2], c[3], c[4]>> /\ s = <<P!ScoreAt(q, <<i, i>>), d[1], d[2], d[3], d[4]>>
    BY DEF P!BlockRank
  <1>7. P!SameSection(q.zh[i], q.zh[j]) => P!SameSection(q.zh[i], q.zh[i])
    BY DEF P!SameSection
  <1>8. P!Abs(i - j) >= 1 /\ P!Abs(i - j) \in Int /\ P!Abs(i - i) = 0
    BY DEF P!Abs
  <1> DEFINE x == q.zh[i].page
             y == q.zh[j].page
  <1>9. P!Abs(y - x) >= 0 /\ P!Abs(y - x) \in Int /\ P!Abs(x - x) = 0
    <2>1. x \in Int /\ y \in Int
      BY <1>3
    <2> HIDE DEF x, y
    <2> QED BY <2>1 DEF P!Abs
  <1> DEFINE a1 == IF P!SameSection(q.zh[i], q.zh[j]) THEN 1 ELSE 0
             b1 == IF P!SameSection(q.zh[i], q.zh[i]) THEN 1 ELSE 0
             a2 == - P!Abs(y - x)
             b2 == - P!Abs(x - x)
             a3 == - P!Abs(i - j)
             b3 == - P!Abs(i - i)
             mi == - i
             mj == - j
  <1>10. /\ a1 <= b1 /\ a1 \in Int /\ b1 \in Int
         /\ a2 <= b2 /\ a2 \in Int /\ b2 \in Int
         /\ a3 < b3 /\ a3 \in Int /\ b3 \in Int
         /\ mi \in Int /\ mj \in Int
    BY <1>7, <1>8, <1>9
  <1>11. c = <<a1, a2, a3, mj>> /\ d = <<b1, b2, b3, mi>>
    BY <1>4, <1>5
  <1>12. P!ScoreAt(q, <<i, j>>) <= P!ScoreAt(q, <<i, i>>)
    BY DEF Twice
  <1> HIDE DEF c, d, r, s, a1, b1, a2, b2, a3, b3, mi, mj
  <1>13. ~Above(r, s) /\ Above(s, r)
    <2>1. r[1] <= s[1] /\ r[2] <= s[2] /\ r[3] <= s[3] /\ r[4] < s[4]
      <3> DEFINE u == P!ScoreAt(q, <<i, j>>)
                 v == P!ScoreAt(q, <<i, i>>)
      <3>1. r = <<u, a1, a2, a3, mj>> /\ s = <<v, b1, b2, b3, mi>>
        BY <1>6, <1>11
      <3>2. u <= v
        BY <1>12
      <3> HIDE DEF u, v
      <3> QED BY <1>10, <3>1, <3>2
    <2> QED BY <1>2, <2>1, LowerIsNotAbove
  <1>14. ~P!Above(c, d)
    <2> SUFFICES ASSUME NEW k \in 1 .. Len(c), c[k] > d[k], \A l \in 1 .. (k - 1) : c[l] = d[l] PROVE FALSE
      BY DEF P!Above
    <2>1. k \in {1, 2, 3, 4}
      BY <1>11
    <2>2. c[1] = a1 /\ c[2] = a2 /\ c[3] = a3 /\ d[1] = b1 /\ d[2] = b2 /\ d[3] = b3
      BY <1>11
    <2>3. k = 4
      BY <1>10, <2>1, <2>2
    <2>4. 3 \in 1 .. (k - 1)
      BY <2>3
    <2> QED BY <1>10, <2>2, <2>4
  <1> QED BY <1>13, <1>14 DEF r, s, c, d

(* A paragraph is a candidate for itself, whichever others are used.          *)
LEMMA OwnBlockIsOpen ==
  ASSUME NEW q, Twice(q), NEW i \in 1 .. Len(q.zh)
  PROVE  /\ i \in P!CandidateBlocks(q, i, {})
         /\ \A used : i \notin used => i \in P!CandidateBlocks(q, i, used)
         /\ \A used : P!CandidateBlocks(q, i, used) \subseteq 1 .. Len(q.zh)
PROOF
  <1> DEFINE z == q.zh[i]
             Meet(j) == \/ P!InWindow(z, q.en[j], q.zhTotal, q.enTotal)
                        \/ P!SameSection(z, q.en[j])
                        \/ P!Signals(z) \intersect P!Signals(q.en[j]) # {}
             all == {j \in DOMAIN q.en \ {} : Meet(j)}
             Over(k) == P!Above(P!Closeness(q, i, k), P!Closeness(q, i, i))
  <1>1. AreBlocks(q.en) /\ q.en = q.zh /\ DOMAIN q.en = 1 .. Len(q.zh)
    BY DEF Twice, AreBlocks, IsList
  <1>2. P!InWindow(z, z, 60, 60)
    <2>1. z.page \in Int
      BY <1>1 DEF AreBlocks, IsBlock
    <2> QED BY <2>1, OwnPageIsNear
  <1>3. Meet(i)
    BY <1>1, <1>2 DEF Twice
  <1>4. P!CandidateBlocks(q, i, {}) = {j \in all : P!Cardinality({k \in all : P!Above(P!Closeness(q, i, k), P!Closeness(q, i, j))}) < 2}
    BY DEF P!CandidateBlocks
  <1>5. \A used : P!CandidateBlocks(q, i, used) \subseteq 1 .. Len(q.zh)
    BY <1>1 DEF P!CandidateBlocks
  <1> HIDE DEF Meet
  <1>6. ASSUME NEW k \in all PROVE ~Over(k)
    <2>1. k \in 1 .. Len(q.zh)
      BY <1>1
    <2>2. CASE k = i
      <3> DEFINE c == P!Closeness(q, i, i)
      <3>1. \A l \in 1 .. Len(c) : ~(c[l] > c[l])
        <4>1. c = <<IF P!SameSection(q.zh[i], q.zh[i]) THEN 1 ELSE 0, - P!Abs(q.zh[i].page - q.zh[i].page), - P!Abs(i - i), - i>>
          BY <1>1 DEF P!Closeness
        <4>2. q.zh[i].page \in Int
          BY <1>1 DEF AreBlocks, IsBlock
        <4> DEFINE a == IF P!SameSection(q.zh[i], q.zh[i]) THEN 1 ELSE 0
                   b == - P!Abs(q.zh[i].page - q.zh[i].page)
                   d == - P!Abs(i - i)
                   e == - i
        <4>3. a \in Int /\ b \in Int /\ d \in Int /\ e \in Int
          BY <4>2 DEF P!Abs
        <4>4. c = <<a, b, d, e>>
          BY <4>1
        <4> HIDE DEF a, b, d, e, c
        <4> QED BY <4>3, <4>4
      <3> HIDE DEF c
      <3>2. ~P!Above(c, c)
        BY <3>1 DEF P!Above
      <3> QED BY <2>2, <3>2 DEF c
    <2>3. CASE k # i
      BY <2>1, <2>3, OwnBlockRank
    <2> QED BY <2>2, <2>3
  <1> HIDE DEF Over
  <1>7. i \in all
    BY <1>1, <1>3
  <1>8. {k \in all : Over(k)} = {} /\ P!Cardinality({k \in all : Over(k)}) = 0
    <2>1. {k \in all : Over(k)} = {}
      BY <1>6
    <2>2. Cardinality({}) = 0
      BY FS_EmptySet
    <2> QED BY <2>1, <2>2, SameOperators
  <1> HIDE DEF all
  <1>9. i \in P!CandidateBlocks(q, i, {})
    BY <1>4, <1>7, <1>8 DEF Over
  <1>10. \A used : i \notin used => i \in P!CandidateBlocks(q, i, used)
    BY <1>1, <1>9, OpenBlocks
  <1> QED BY <1>5, <1>9, <1>10

LEMMA OwnIsJoined ==
  ASSUME NEW q, Twice(q), NEW i \in 1 .. Len(q.zh), NEW m, \A p \in m : p[1] = p[2], NEW least \in Int
  PROVE  P!With(q, m, least, i, Rights(m)) \in {m, m \union {Own(i)}}
PROOF
  <1> DEFINE used == Rights(m)
             open == P!CandidateBlocks(q, i, used)
             Score(j) == P!ScoreAt(q, <<i, j>>)
             Place(j) == P!BlockRank(q, i, j)
             fit == {j \in open : Score(j) >= least}
             Best(j) == \A k \in fit : ~P!Above(Place(k), Place(j))
  <1>1. P!With(q, m, least, i, used) = IF i \in P!Lefts(m) \/ fit = {} THEN m ELSE m \union {<<i, CHOOSE j \in fit : Best(j)>>}
    BY DEF P!With
  <1>2. AreBlocks(q.zh) /\ AreBlocks(q.en) /\ q.en = q.zh
    BY DEF Twice
  <1>3. i \notin P!Lefts(m) => i \in open
    <2>1. i \notin P!Lefts(m) => i \notin used
      BY DEF P!Lefts, Rights
    <2> QED BY <2>1, OwnBlockIsOpen
  <1>4. open \subseteq 1 .. Len(q.zh)
    BY OwnBlockIsOpen
  <1>5. \A j \in 1 .. Len(q.zh) : Score(j) \in Int /\ Score(i) \in Int /\ Score(j) <= Score(i)
    BY <1>2, PairScoresAreNumbers DEF Twice
  <1>6. \A j \in 1 .. Len(q.zh) : j # i => ~Above(Place(j), Place(i)) /\ Above(Place(i), Place(j))
    BY OwnBlockRank
  <1>7. ~Above(Place(i), Place(i))
    <2> DEFINE x == Place(i)
    <2>1. 5 \in Nat /\ x \in Ints(5)
      BY <1>2, BlockRanks
    <2> DEFINE n == 5
    <2> HIDE DEF n, x
    <2>2. n \in Nat /\ x \in Ints(n)
      BY <2>1 DEF n
    <2>3. ~Above(x, x)
      BY <2>2, RanksCompare, Zenon
    <2> QED BY <2>3 DEF x
  <1> HIDE DEF open, Score, Place
  <1>8. i \notin P!Lefts(m) /\ fit # {} => i \in fit
    <2> SUFFICES ASSUME i \notin P!Lefts(m), NEW j \in fit PROVE i \in fit
      OBVIOUS
    <2>1. j \in 1 .. Len(q.zh) /\ Score(j) >= least
      BY <1>4
    <2>2. Score(i) >= least
      BY <1>5, <2>1
    <2> QED BY <1>3, <2>2
  <1>9. fit \subseteq 1 .. Len(q.zh)
    BY <1>4
  <1> HIDE DEF fit
  <1>10. i \in fit => Best(i)
    BY <1>6, <1>7, <1>9, SameOperators
  <1>11. ASSUME NEW j \in fit, Best(j), i \in fit PROVE j = i
    BY <1>6, <1>9, <1>11, SameOperators
  <1>12. i \in fit => (CHOOSE j \in fit : Best(j)) = i
    BY <1>10, <1>11
  <1> QED BY <1>1, <1>8, <1>12 DEF Own

LEMMA OwnPairsGrow ==
  ASSUME NEW q, Twice(q), NEW m0, \A p \in m0 : p[1] = p[2], NEW least \in Int
  PROVE  \A p \in P!GreedyPairs(q, m0, least) : p[1] = p[2]
PROOF
  <1> DEFINE n == Len(q.zh)
             Ok(m) == \A p \in m : p[1] = p[2]
  <1>1. n \in Nat
    BY DEF Twice, AreBlocks, IsList
  <1>2. PICK g : /\ g[0] = m0
                 /\ \A k \in 1 .. n : g[k] = P!Extended(q, g[k - 1], least, k)
                 /\ P!GreedyPairs(q, m0, least) = g[n]
    BY <1>1, BlocksFollow
  <1> DEFINE S == {k \in Nat : k <= n => Ok(g[k])}
  <1> HIDE DEF n
  <1>3. 0 \in S
    BY <1>2
  <1>4. ASSUME NEW k \in Nat, k \in S PROVE k + 1 \in S
    <2> SUFFICES ASSUME k + 1 <= n PROVE Ok(g[k + 1])
      OBVIOUS
    <2> DEFINE m == g[k]
               i == k + 1
    <2>1. i \in 1 .. n /\ i - 1 = k /\ k <= n
      BY <1>1
    <2>2. Ok(m) /\ g[i] = P!Extended(q, m, least, i)
      BY <1>2, <1>4, <2>1
    <2>3. g[i] = P!With(q, m, least, i, Rights(m))
      BY <2>2, SameOperators DEF P!Extended, P!Rights, Rights
    <2> HIDE DEF m, i
    <2>4. g[i] \in {m, m \union {Own(i)}}
      <3>1. P!With(q, m, least, i, Rights(m)) \in {m, m \union {Own(i)}}
        BY <2>1, <2>2, OwnIsJoined DEF n
      <3> QED BY <2>3, <3>1
    <2>5. Own(i)[1] = Own(i)[2]
      BY DEF Own
    <2> QED BY <2>2, <2>4, <2>5 DEF i
  <1> HIDE DEF S, Ok
  <1>5. n \in S
    BY <1>1, <1>3, <1>4, EveryNumber
  <1> QED BY <1>1, <1>2, <1>5 DEF S, Ok

LEMMA GlobalPairsAreOwn ==
  ASSUME NEW q, Twice(q)
  PROVE  \A p \in P!GlobalPairs(q) : p[1] = p[2]
PROOF
  <1> DEFINE pairs == P!BestCandidates(q)
             rank == [p \in pairs |-> <<P!ScoreAt(q, p)>>]
             n == Len(q.zh)
  <1>0. AreBlocks(q.zh) /\ AreBlocks(q.en) /\ q.en = q.zh /\ n \in Nat /\ DOMAIN q.zh = 1 .. n
    BY DEF Twice, AreBlocks, IsList
  <1>1. pairs \in SUBSET ((1 .. n) \X (1 .. n))
    BY <1>0 DEF P!BestCandidates
  <1>2. IsFiniteSet(pairs) /\ pairs \in SUBSET (Int \X Int)
    BY <1>0, <1>1, PairsOfPlaces, FS_Subset
  <1>3. P!GlobalPairs(q) = Greedy(Ranked(pairs, rank))
    BY SameOperators DEF P!GlobalPairs
  <1>4. \A p \in (1 .. n) \X (1 .. n) : p \in pairs <=> p[2] \in P!CandidateBlocks(q, p[1], {}) /\ P!ScoreAt(q, p) >= 6
    BY <1>0 DEF P!BestCandidates
  <1> HIDE DEF pairs
  <1>5. ASSUME NEW p \in pairs PROVE rank[p] \in Ints(1)
    <2>1. PICK i \in 1 .. Len(q.zh), j \in 1 .. Len(q.en) : p = <<i, j>>
      BY <1>0, <1>1
    <2> DEFINE score == P!ScoreAt(q, p)
    <2>2. score \in Int
      BY <1>0, <2>1, PairScoresAreNumbers
    <2>3. rank[p] = <<score>>
      OBVIOUS
    <2> HIDE DEF score, rank
    <2>4. <<score>> \in Ints(1)
      BY <2>2 DEF Ints
    <2> QED BY <2>3, <2>4
  <1>6. ASSUME NEW p \in pairs, NEW i \in {p[1], p[2]} PROVE Own(i) \in pairs /\ ~Above(rank[p], rank[Own(i)])
    <2> DEFINE x == P!ScoreAt(q, p)
               o == Own(i)
               y == P!ScoreAt(q, o)
    <2>1. PICK k \in 1 .. n, l \in 1 .. n : p = <<k, l>> /\ i \in {k, l}
      BY <1>1
    <2>2. i \in 1 .. n /\ o = <<i, i>>
      BY <2>1 DEF Own
    <2>3. x \in Int /\ y \in Int
      <3>1. P!ScoreAt(q, <<k, l>>) \in Int /\ P!ScoreAt(q, <<i, i>>) \in Int
        BY <1>0, <2>2, PairScoresAreNumbers
      <3> QED BY <2>1, <2>2, <3>1
    <2>4. x <= y
      BY <2>1, <2>2 DEF Twice
    <2>5. x >= 6
      BY <1>1, <1>4
    <2> HIDE DEF o, x, y
    <2>6. o \in pairs
      <3>1. o \in (1 .. n) \X (1 .. n) /\ o[1] = i /\ o[2] = i
        BY <2>2
      <3>2. i \in P!CandidateBlocks(q, i, {})
        BY <2>2, OwnBlockIsOpen
      <3>3. y >= 6
        BY <2>3, <2>4, <2>5
      <3> QED BY <1>4, <3>1, <3>2, <3>3 DEF y
    <2>7. rank[p] = <<x>> /\ rank[o] = <<y>>
      BY <2>6 DEF x, y
    <2> HIDE DEF rank
    <2>8. ~Above(rank[p], rank[o])
      <3>1. Len(rank[p]) = 1 /\ rank[p][1] = x /\ rank[o][1] = y
        BY <2>7
      <3> QED BY <2>3, <2>4, <3>1 DEF Above
    <2> QED BY <2>6, <2>8 DEF o
  <1> HIDE DEF rank
  <1>7. OwnComeFirst(pairs, rank)
    BY <1>6, Zenon DEF OwnComeFirst
  <1>8. OnlyOwn(pairs, Greedy(Ranked(pairs, rank)))
    BY <1>2, <1>5, <1>7, OwnAreTaken
  <1> QED BY <1>3, <1>8 DEF OnlyOwn

LEMMA OwnParagraphs ==
  ASSUME NEW q, Twice(q)
  PROVE  \A i \in P!MissingParagraphs(q) : P!ScoreAt(q, <<i, i>>) < 3
PROOF
  <1> DEFINE first == P!GlobalPairs(q)
             high == P!GreedyPairs(q, first, 6)
             m == P!GreedyPairs(q, high, 3)
  <1>1. AreBlocks(q.zh) /\ AreBlocks(q.en)
    BY DEF Twice
  <1>2. P!BlockPairs(q) = m
    BY DEF P!BlockPairs, P!HighPairs
  <1>3. OneToOne(first) /\ \A p \in first : p[1] = p[2]
    BY <1>1, GlobalPairsAreFair, GlobalPairsAreOwn
  <1> HIDE DEF first
  <1>4. OneToOne(high) /\ \A p \in high : p[1] = p[2]
    BY <1>1, <1>3, BlockPairsGrow, OwnPairsGrow
  <1> HIDE DEF high
  <1>5. \A p \in m : p[1] = p[2]
    BY <1>4, OwnPairsGrow
  <1>6. /\ OneToOne(m) /\ high \subseteq m
        /\ \A i \in 1 .. Len(q.zh) : \A j \in P!CandidateBlocks(q, i, {}) :
             i \in Lefts(m) \/ j \in Rights(m) \/ P!ScoreAt(q, <<i, j>>) < 3
    BY <1>1, <1>4, BlockPairsGrow
  <1> HIDE DEF m
  <1> SUFFICES ASSUME NEW i \in P!MissingParagraphs(q) PROVE P!ScoreAt(q, <<i, i>>) < 3
    OBVIOUS
  <1>7. i \in 1 .. Len(q.zh) /\ i \notin Lefts(m)
    BY <1>1, <1>2 DEF P!MissingParagraphs, P!Lefts, Lefts, AreBlocks, IsList
  <1>8. i \notin Rights(m)
    BY <1>5, <1>7 DEF Lefts, Rights
  <1> QED BY <1>6, <1>7, <1>8, OwnBlockIsOpen

LEMMA ParagraphIsClean ==
  ASSUME RunPairing
  PROVE  ParagraphSameIsClean'
PROOF
  <1> DEFINE q == input'
             n == Len(q.zh)
             score == [p \in (DOMAIN q.zh) \X (DOMAIN q.zh) |-> P!ScoreAt(q, p)]
  <1>1. AreBlocks(q.zh) /\ q.zhTotal = 60 /\ q.enTotal = 60
    <2>1. PICK zh, en, auditor :
            /\ zh \in BlockSides /\ en \in BlockSides
            /\ input' = [zh |-> zh, en |-> en, zhTotal |-> 60, enTotal |-> 60, auditor |-> auditor]
      BY Zenon DEF RunPairing
    <2>2. q.zh = zh /\ q.zhTotal = 60 /\ q.enTotal = 60
      BY <2>1
    <2>3. AreBlocks(zh)
      BY <2>1, BlocksAssumption DEF BlocksAssumption, AreBlocks, IsBlock, IsList
    <2> QED BY <2>2, <2>3
  <1>2. found'.sections = P!MissingSections(q) /\ found'.paragraphs = P!MissingParagraphs(q)
    BY DEF RunPairing
  <1>3. ParagraphSameIsClean' <=>
          (check' = "pairing" /\ q.zh = q.en =>
             /\ found'.sections = {}
             /\ OwnBest(score) => \A i \in found'.paragraphs : P!ScoreAt(q, <<i, i>>) < 3)
    BY DEF ParagraphSameIsClean
  <1>4. DOMAIN q.zh = 1 .. n
    BY <1>1 DEF AreBlocks, IsList
  <1> HIDE DEF q
  <1>5. q.zh = q.en => P!MissingSections(q) = {}
    BY DEF P!MissingSections
  <1>6. ASSUME q.zh = q.en, OwnBest(score) PROVE Twice(q)
    <2>1. ASSUME NEW i \in 1 .. n, NEW j \in 1 .. n
          PROVE  P!ScoreAt(q, <<i, j>>) <= P!ScoreAt(q, <<i, i>>) /\ P!ScoreAt(q, <<i, j>>) <= P!ScoreAt(q, <<j, j>>)
      <3> DEFINE o == <<i, j>>
                 oi == <<i, i>>
                 oj == <<j, j>>
                 D == (DOMAIN q.zh) \X (DOMAIN q.zh)
      <3>1. o \in D /\ oi \in D /\ oj \in D /\ o[1] = i /\ o[2] = j
        BY <1>4
      <3>2. score[o] = P!ScoreAt(q, o) /\ score[oi] = P!ScoreAt(q, oi) /\ score[oj] = P!ScoreAt(q, oj) /\ DOMAIN score = D
        BY <3>1
      <3> HIDE DEF o, D, score
      <3>3. score[o] <= score[<<o[1], o[1]>>] /\ score[o] <= score[<<o[2], o[2]>>]
        BY <1>6, <3>1, <3>2 DEF OwnBest
      <3> QED BY <3>1, <3>2, <3>3 DEF o
    <2> QED BY <1>1, <1>6, <2>1 DEF Twice
  <1> HIDE DEF score
  <1> QED BY <1>2, <1>3, <1>5, <1>6, OwnParagraphs

-----------------------------------------------------------------------------
(* RunFacts: facts are judged alike from both sides, and each that fits any   *)
(* other fits itself or is fitted by one that does.                           *)
IsFact(f) == f.value \in Nat /\ f.pos \in Int
OneRole(z, e) == z.kind = e.kind /\ z.role = e.role

LEMMA CrossValues ==
  ASSUME NEW z, IsFact(z), NEW e, IsFact(e)
  PROVE  /\ F!SameValue(z, e) /\ z.kind = e.kind => F!SameValue(e, z)
         /\ F!SameValue(z, z)
         /\ z.value = 0 /\ e.value = 0 => F!SameValue(z, e)
PROOF
  <1> DEFINE Fx == [CNY |-> 11, HKD |-> 10]
             Known == z.cur \in DOMAIN Fx /\ e.cur \in DOMAIN Fx
             x == z.value
             y == e.value
             u == Fx[z.cur]
             v == Fx[e.cur]
             a == x * u
             h == y * v
             k == F!Larger(a, h) \div 1000
             l == F!Larger(h, a) \div 1000
  <1>1. x \in Nat /\ y \in Nat
    BY DEF IsFact
  <1>2. Known => u \in {10, 11} /\ v \in {10, 11}
    OBVIOUS
  <1>3. F!SameValue(z, e) <=>
          IF z.kind = "date" THEN x = y
          ELSE IF F!CrossCurrency(z, e) /\ Known THEN F!Abs(a - h) <= 10 * k
          ELSE x = y \/ z.raw = e.raw
    BY Zenon DEF F!SameValue
  <1>4. F!SameValue(e, z) <=>
          IF e.kind = "date" THEN y = x
          ELSE IF F!CrossCurrency(e, z) /\ e.cur \in DOMAIN Fx /\ z.cur \in DOMAIN Fx THEN F!Abs(h - a) <= 10 * l
          ELSE y = x \/ e.raw = z.raw
    BY Zenon DEF F!SameValue
  <1>5. F!CrossCurrency(z, e) <=> F!CrossCurrency(e, z)
    BY DEF F!CrossCurrency
  <1>6. Known => a \in Nat /\ h \in Nat
    <2> SUFFICES ASSUME Known PROVE a \in Nat /\ h \in Nat
      OBVIOUS
    <2>1. u \in Nat /\ v \in Nat
      BY <1>2
    <2> HIDE DEF u, v, x, y
    <2> QED BY <1>1, <2>1
  <1>7. F!SameValue(z, z)
    BY DEF F!SameValue, F!CrossCurrency
  <1> HIDE DEF Known, x, y, u, v
  <1>8. x = 0 /\ y = 0 /\ Known => a = 0 /\ h = 0
    <2>1. Known => u \in Nat /\ v \in Nat
      BY <1>2
    <2> QED BY <2>1
  <1> HIDE DEF a, h
  <1>9. Known => k = l /\ F!Abs(a - h) = F!Abs(h - a)
    <2> SUFFICES ASSUME Known PROVE k = l /\ F!Abs(a - h) = F!Abs(h - a)
      OBVIOUS
    <2>1. F!Larger(a, h) = F!Larger(h, a)
      BY <1>6 DEF F!Larger
    <2>2. F!Abs(a - h) = F!Abs(h - a)
      BY <1>6 DEF F!Abs
    <2> QED BY <2>1, <2>2
  <1>10. x = 0 /\ y = 0 /\ Known => F!Abs(a - h) <= 10 * k
    <2> SUFFICES ASSUME a = 0, h = 0 PROVE F!Abs(a - h) <= 10 * k
      BY <1>8
    <2>1. F!Larger(a, h) = 0 /\ F!Abs(a - h) = 0
      BY DEF F!Larger, F!Abs
    <2>2. 0 \div 1000 = 0
      OBVIOUS
    <2> QED BY <2>1, <2>2
  <1> HIDE DEF k, l
  <1>11. F!SameValue(z, e) /\ z.kind = e.kind => F!SameValue(e, z)
    BY <1>3, <1>4, <1>5, <1>9 DEF Known
  <1>12. x = 0 /\ y = 0 => F!SameValue(z, e)
    BY <1>3, <1>10
  <1> QED BY <1>7, <1>11, <1>12 DEF x, y

LEMMA ScalesAreMutual ==
  ASSUME NEW a \in Nat, NEW h \in Nat
  PROVE  F!Scaled(a, h) <=> F!Scaled(h, a)
PROOF
  <1>1. ASSUME NEW f PROVE F!RatioIs(a, h, f) <=> F!RatioIs(h, a, f)
    <2>1. F!Larger(a, h) = F!Larger(h, a)
      BY DEF F!Larger
    <2>2. (IF a < h THEN a ELSE h) = (IF h < a THEN h ELSE a)
      OBVIOUS
    <2> QED BY <2>1, <2>2 DEF F!RatioIs
  <1> QED BY <1>1 DEF F!Scaled

(* The score of two facts does not depend on the side, and is 0 for the same. *)
LEMMA FactScoresAreMutual ==
  ASSUME NEW z, IsFact(z), NEW e, IsFact(e), z.kind = e.kind
  PROVE  /\ F!FactScore(z, e) = F!FactScore(e, z)
         /\ F!FactScore(z, e) \in Nat
         /\ F!FactScore(z, e) = 0 <=> F!SameValue(z, e)
PROOF
  <1> DEFINE x == z.value
             y == e.value
             lo == IF x < y THEN x ELSE y
             ol == IF y < x THEN y ELSE x
             hi == F!Larger(x, y)
             d == (hi * 10) \div lo
             much == F!Unlike
  <1>1. x \in Nat /\ y \in Nat
    BY DEF IsFact
  <1>2. F!SameValue(z, e) <=> F!SameValue(e, z)
    BY CrossValues
  <1>3. F!Scaled(x, y) <=> F!Scaled(y, x)
    BY <1>1, ScalesAreMutual
  <1>4. F!FactScore(z, e) = IF F!SameValue(z, e) THEN 0 ELSE IF z.kind = "date" THEN much
                            ELSE IF x = 0 \/ y = 0 THEN F!Abs(x - y) ELSE IF F!Scaled(x, y) THEN 1 ELSE d
    BY Zenon DEF F!FactScore
  <1>5. F!FactScore(e, z) = IF F!SameValue(e, z) THEN 0 ELSE IF e.kind = "date" THEN much
                            ELSE IF y = 0 \/ x = 0 THEN F!Abs(y - x) ELSE IF F!Scaled(y, x) THEN 1
                            ELSE (F!Larger(y, x) * 10) \div ol
    BY Zenon DEF F!FactScore
  <1>6. x = 0 /\ y = 0 => F!SameValue(z, e)
    BY CrossValues
  <1>7. much \in Nat /\ much # 0
    BY DEF F!Unlike
  <1> HIDE DEF x, y, much
  <1>8. ol = lo /\ F!Larger(y, x) = hi
    BY <1>1 DEF F!Larger
  <1>9. F!Abs(x - y) = F!Abs(y - x) /\ F!Abs(x - y) \in Nat /\ (F!Abs(x - y) = 0 => x = y)
    BY <1>1 DEF F!Abs
  <1>10. ~(x = 0 \/ y = 0) => d \in Nat /\ d # 0
    <2> SUFFICES ASSUME x # 0, y # 0 PROVE d \in Nat /\ d # 0
      OBVIOUS
    <2>1. lo \in Nat /\ lo >= 1 /\ hi \in Nat /\ hi >= lo
      BY <1>1 DEF F!Larger
    <2> HIDE DEF lo, hi
    <2> DEFINE n == hi * 10
    <2>2. n \in Nat /\ n >= lo
      BY <2>1
    <2> HIDE DEF n
    <2> DEFINE q == n \div lo
               r == n % lo
    <2>3. n = lo * q + r /\ r \in 0 .. lo - 1 /\ q \in Int
      BY <2>1, <2>2
    <2> HIDE DEF q, r
    <2>4. q >= 1
      <3> SUFFICES ASSUME q <= 0 PROVE FALSE
        BY <2>3
      <3>1. lo * q <= 0
        BY <2>1, <2>3
      <3> QED BY <2>1, <2>2, <2>3, <3>1
    <2>5. q \in Nat /\ q # 0
      BY <2>3, <2>4
    <2> QED BY <2>5 DEF q, n
  <1> HIDE DEF d, lo, ol, hi
  <1>11. F!FactScore(z, e) = F!FactScore(e, z)
    BY <1>2, <1>3, <1>4, <1>5, <1>8, <1>9 DEF d
  <1>12. F!FactScore(z, e) \in Nat
    BY <1>4, <1>7, <1>9, <1>10
  <1>13. F!FactScore(z, e) = 0 <=> F!SameValue(z, e)
    <2> SUFFICES ASSUME ~F!SameValue(z, e) PROVE F!FactScore(z, e) # 0
      BY <1>4
    <2>1. CASE z.kind = "date"
      BY <1>4, <1>7, <2>1
    <2>2. CASE z.kind # "date" /\ (x = 0 \/ y = 0)
      BY <1>4, <1>6, <1>9, <2>2
    <2>3. CASE z.kind # "date" /\ ~(x = 0 \/ y = 0)
      BY <1>4, <1>10, <2>3
    <2> QED BY <2>1, <2>2, <2>3
  <1> QED BY <1>11, <1>12, <1>13

LEMMA FittingIsMutual ==
  ASSUME NEW z, IsFact(z), NEW e, IsFact(e), OneRole(z, e), NEW several \in BOOLEAN
  PROVE  /\ F!Fits(z, e, several) => F!Fits(e, z, several)
         /\ F!Fits(z, e, several) => F!Fits(z, z, several) \/ F!Fits(e, e, several)
PROOF
  <1> DEFINE zs == z.words \intersect F!Terms
             es == e.words \intersect F!Terms
             Told(a, b) == IF a = {} \/ b = {} THEN TRUE
                           ELSE IF several /\ z.kind = "amount" THEN (a \intersect b) \ {"term"} # {}
                           ELSE a \intersect b # {}
             Agree(x, y) == F!ContextAgrees(x, y, several)
             positional == z.role \in {F!Positional[i] : i \in DOMAIN F!Positional}
             Class(x) == F!PctClass(x)
             PctTold(x, y) == IF positional THEN Class(x) # "" /\ Class(x) = Class(y) ELSE TRUE
  <1>1. z.kind = e.kind /\ z.role = e.role /\ z.pos \in Int /\ e.pos \in Int
    BY DEF OneRole, IsFact
  <1>2. /\ F!PctAgree(z, e) <=> PctTold(z, e)
        /\ F!PctAgree(e, z) <=> PctTold(e, z)
        /\ F!PctAgree(z, z) <=> PctTold(z, z)
        /\ F!PctAgree(e, e) <=> PctTold(e, e)
    BY <1>1 DEF F!PctAgree
  <1>3. F!Abs(z.pos - e.pos) = F!Abs(e.pos - z.pos) /\ F!Abs(z.pos - z.pos) = 0 /\ F!Abs(e.pos - e.pos) = 0
    <2> DEFINE x == z.pos
               y == e.pos
    <2>1. x \in Int /\ y \in Int
      BY <1>1
    <2> HIDE DEF x, y
    <2>2. F!Abs(x - y) = F!Abs(y - x) /\ F!Abs(x - x) = 0 /\ F!Abs(y - y) = 0
      BY <2>1 DEF F!Abs
    <2> QED BY <2>2 DEF x, y
  <1> DEFINE close == F!Abs(z.pos - e.pos) <= 40
  <1>4. /\ Agree(z, e) <=> /\ z.kind = "pct" => PctTold(z, e)
                           /\ z.kind = "amount" /\ several => close
                           /\ Told(zs, es)
        /\ Agree(e, z) <=> /\ z.kind = "pct" => PctTold(e, z)
                           /\ z.kind = "amount" /\ several => close
                           /\ Told(es, zs)
        /\ Agree(z, z) <=> /\ z.kind = "pct" => PctTold(z, z)
                           /\ Told(zs, zs)
        /\ Agree(e, e) <=> /\ z.kind = "pct" => PctTold(e, e)
                           /\ Told(es, es)
    <2>1. /\ Agree(z, e) <=> /\ z.kind = "pct" => F!PctAgree(z, e)
                             /\ z.kind = "amount" /\ several => F!Abs(z.pos - e.pos) <= 40
                             /\ Told(zs, es)
          /\ Agree(z, z) <=> /\ z.kind = "pct" => F!PctAgree(z, z)
                             /\ z.kind = "amount" /\ several => F!Abs(z.pos - z.pos) <= 40
                             /\ Told(zs, zs)
      BY Zenon DEF F!ContextAgrees
    <2>2. /\ Agree(e, z) <=> /\ e.kind = "pct" => F!PctAgree(e, z)
                             /\ e.kind = "amount" /\ several => F!Abs(e.pos - z.pos) <= 40
                             /\ IF es = {} \/ zs = {} THEN TRUE
                                ELSE IF several /\ e.kind = "amount" THEN (es \intersect zs) \ {"term"} # {}
                                ELSE es \intersect zs # {}
          /\ Agree(e, e) <=> /\ e.kind = "pct" => F!PctAgree(e, e)
                             /\ e.kind = "amount" /\ several => F!Abs(e.pos - e.pos) <= 40
                             /\ IF es = {} \/ es = {} THEN TRUE
                                ELSE IF several /\ e.kind = "amount" THEN (es \intersect es) \ {"term"} # {}
                                ELSE es \intersect es # {}
      BY Zenon DEF F!ContextAgrees
    <2>3. 0 <= 40
      OBVIOUS
    <2> HIDE DEF zs, es, Agree, PctTold
    <2> QED BY <1>1, <1>2, <1>3, <2>1, <2>2, <2>3
  <1>5. \A x, y \in {z, e} : F!Fits(x, y, several) <=> (z.kind \in {"date", "amount", "pct"} => Agree(x, y))
    BY <1>1 DEF F!Fits
  <1> HIDE DEF zs, es, Agree, close, positional, Class
  <1>6. Told(zs, es) => Told(es, zs)
    OBVIOUS
  <1>7. Told(zs, es) => Told(zs, zs) \/ Told(es, es)
    OBVIOUS
  <1>8. PctTold(z, e) => PctTold(e, z) /\ PctTold(z, z) /\ PctTold(e, e)
    OBVIOUS
  <1> HIDE DEF Told, PctTold
  <1>9. Agree(z, e) => Agree(e, z) /\ (Agree(z, z) \/ Agree(e, e))
    BY <1>4, <1>6, <1>7, <1>8
  <1> QED BY <1>5, <1>9

LEMMA FactsAreMatchedAlike ==
  /\ \A s : F!Greedy(s) = Greedy(s)
  /\ \A pairs, rank : F!Ranked(pairs, rank) = Ranked(pairs, rank)
PROOF
  <1>1. ASSUME NEW s PROVE F!Greedy(s) = Greedy(s)
    BY DEF F!Greedy, Greedy, F!Take, Take, F!Meets, Meets
  <1>2. ASSUME NEW pairs, NEW rank PROVE F!Ranked(pairs, rank) = Ranked(pairs, rank)
    BY DEF F!Ranked, Ranked, F!ByRank, ByRank, F!Above, Above, F!InListOrder, InListOrder,
           F!Listed, Listed, F!Cardinality, Cardinality
  <1> QED BY <1>1, <1>2

(* Two numbers as ranks of one place.                                         *)
LEMMA SingleRanks ==
  ASSUME NEW x \in Int, NEW y \in Int
  PROVE  /\ <<x>> \in Ints(1)
         /\ Above(<<x>>, <<y>>) <=> x > y
         /\ <<x>> = <<y>> => x = y
PROOF
  <1>1. <<x>> \in Ints(1)
    BY DEF Ints
  <1>2. Above(<<x>>, <<y>>) => x > y
    BY DEF Above
  <1>3. x > y => Above(<<x>>, <<y>>)
    <2> SUFFICES ASSUME x > y PROVE Above(<<x>>, <<y>>)
      OBVIOUS
    <2>1. 1 \in 1 .. Len(<<x>>) /\ <<x>>[1] > <<y>>[1]
      OBVIOUS
    <2>2. \A l \in 1 .. (1 - 1) : <<x>>[l] = <<y>>[l]
      OBVIOUS
    <2> QED BY <2>1, <2>2, Zenon DEF Above
  <1> QED BY <1>1, <1>2, <1>3

(* Facts of one role: what is matched with itself says the same.  Of two      *)
(* facts that say different things and are matched, one fits itself, comes    *)
(* first then, and was refused only for a pair that says the same; it is this *)
(* pair, or the same pair the other way round.                                *)
AreFactsOf(zs, r) == IsList(zs) /\ \A i \in 1 .. Len(zs) : IsFact(zs[i]) /\ <<zs[i].kind, zs[i].role>> = r

LEMMA OwnFactsMatch ==
  ASSUME NEW zs, NEW r, AreFactsOf(zs, r)
  PROVE  \A p \in F!FactPairs(zs, zs) : F!SameValue(zs[p[1]], zs[p[2]])
PROOF
  <1> DEFINE n == Len(zs)
             several == n >= 2 /\ n >= 2
             C == F!Candidates(zs, zs)
             rank == [p \in C |-> F!RankOf(zs, zs, p)]
             m == Greedy(Ranked(C, rank))
             Score(p) == F!FactScore(zs[p[1]], zs[p[2]])
             Same(p) == F!SameValue(zs[p[1]], zs[p[2]])
             Fit(i, j) == F!Fits(zs[i], zs[j], several)
  <1>1. n \in Nat /\ DOMAIN zs = 1 .. n /\ \A i \in 1 .. n : IsFact(zs[i]) /\ <<zs[i].kind, zs[i].role>> = r
    BY DEF AreFactsOf, IsList
  <1>2. several \in BOOLEAN
    OBVIOUS
  <1>3. C = {p \in (1 .. n) \X (1 .. n) : Fit(p[1], p[2])}
    BY <1>1 DEF F!Candidates
  <1>4. F!FactPairs(zs, zs) = m
    BY FactsAreMatchedAlike, Zenon DEF F!FactPairs
  <1>5. \A i, j \in 1 .. n : /\ OneRole(zs[i], zs[j])
                             /\ zs[i].kind = zs[j].kind
    BY <1>1 DEF OneRole
  <1>6. \A i, j \in 1 .. n : /\ F!FactScore(zs[i], zs[j]) = F!FactScore(zs[j], zs[i])
                             /\ F!FactScore(zs[i], zs[j]) \in Nat
                             /\ F!FactScore(zs[i], zs[j]) = 0 <=> F!SameValue(zs[i], zs[j])
    BY <1>1, <1>5, FactScoresAreMutual
  <1>7. \A i, j \in 1 .. n : Fit(i, j) => Fit(j, i) /\ (Fit(i, i) \/ Fit(j, j))
    <2> HIDE DEF several
    <2> SUFFICES ASSUME NEW i \in 1 .. n, NEW j \in 1 .. n, Fit(i, j) PROVE Fit(j, i) /\ (Fit(i, i) \/ Fit(j, j))
      OBVIOUS
    <2> QED BY <1>1, <1>2, <1>5, FittingIsMutual
  <1>8. \A i \in 1 .. n : F!SameValue(zs[i], zs[i])
    BY <1>1, CrossValues
  <1>9. \A i, j \in 1 .. n : F!SameValue(zs[i], zs[j]) => F!SameValue(zs[j], zs[i])
    BY <1>1, <1>5, CrossValues
  <1>10. \A p \in C : rank[p] = <<- Score(p)>>
    BY DEF F!RankOf
  <1> HIDE DEF n, several, C, rank, Fit, m
  <1>11. IsFiniteSet(C) /\ C \in SUBSET (Int \X Int)
    BY <1>1, <1>3, PairsOfPlaces, FS_Subset
  <1>12. \A p \in C : Score(p) \in Nat
    BY <1>3, <1>6
  <1> HIDE DEF Score
  <1>13. \A p \in C : rank[p] \in Ints(1)
    <2> SUFFICES ASSUME NEW p \in C PROVE rank[p] \in Ints(1)
      OBVIOUS
    <2> DEFINE x == - Score(p)
    <2>1. x \in Int
      BY <1>12
    <2> HIDE DEF x
    <2>2. <<x>> \in Ints(1)
      BY <2>1, SingleRanks
    <2> QED BY <1>10, <2>2 DEF x
  <1>14. \A p \in C : Swap(p) \in C /\ rank[Swap(p)] = rank[p]
    <2> SUFFICES ASSUME NEW p \in C PROVE Swap(p) \in C /\ rank[Swap(p)] = rank[p]
      OBVIOUS
    <2>1. PICK i \in 1 .. n, j \in 1 .. n : p = <<i, j>> /\ Fit(i, j)
      BY <1>3
    <2>2. Swap(p) = <<j, i>>
      BY <2>1 DEF Swap
    <2>3. Swap(p) \in C
      BY <1>3, <1>7, <2>1, <2>2
    <2>4. Score(Swap(p)) = Score(p)
      BY <1>6, <2>1, <2>2 DEF Score
    <2> QED BY <1>10, <2>3, <2>4
  <1>15. \A p \in m : Swap(p) \in m
    <2> DEFINE one == 1
    <2>1. one \in Nat /\ \A p \in C : rank[p] \in Ints(one)
      BY <1>13
    <2> HIDE DEF one
    <2> QED BY <1>11, <1>14, <2>1, MatchedBothWays, Zenon DEF m
  <1>16. m \subseteq C /\ OneToOne(m) /\ \A p \in C \ m : \E q \in m : Meets(p, q) /\ Before(rank, q, p)
    <2> DEFINE one == 1
    <2>1. one \in Nat /\ \A p \in C : rank[p] \in Ints(one)
      BY <1>13
    <2> HIDE DEF one
    <2>2. m \subseteq C /\ OneToOne(m)
      BY <1>11, <2>1, GreedyIsFair, Zenon DEF m
    <2>3. \A p \in C \ m : \E q \in m : Meets(p, q) /\ Before(rank, q, p)
      BY <1>11, <2>1, GreedyGoesInOrder, Zenon DEF m
    <2> QED BY <2>2, <2>3
  <1>17. ASSUME NEW p \in m, ~Same(p) PROVE FALSE
    <2>1. PICK i \in 1 .. n, j \in 1 .. n : p = <<i, j>> /\ Fit(i, j)
      BY <1>3, <1>16
    <2>2. i # j
      BY <1>8, <1>17, <2>1
    <2>3. PICK k \in {i, j} : Fit(k, k)
      BY <1>7, <2>1
    <2>4. Own(k) \in C /\ Own(k)[1] = k /\ Own(k)[2] = k
      BY <1>3, <2>3 DEF Own
    <2>5. Own(k) \notin m
      <3>1. Meets(Own(k), p) \/ Meets(Own(k), Swap(p))
        BY <2>1, <2>3, <2>4 DEF Meets, Swap
      <3>2. Own(k) # p /\ Own(k) # Swap(p)
        BY <2>1, <2>2, <2>4 DEF Swap
      <3> QED BY <1>15, <1>16, <3>1, <3>2 DEF OneToOne
    <2>6. PICK q \in m : Meets(Own(k), q) /\ Before(rank, q, Own(k))
      BY <1>16, <2>4, <2>5
    <2>7. Score(Own(k)) = 0
      BY <1>6, <1>8, <2>4 DEF Score
    <2>8. Score(q) = 0
      <3> DEFINE has == Score(q)
                 own == Score(Own(k))
                 x == - has
                 y == - own
      <3>1. q \in C /\ has \in Nat /\ own = 0
        BY <1>12, <1>16, <2>6, <2>7
      <3>2. rank[q] = <<x>> /\ rank[Own(k)] = <<y>>
        BY <1>10, <2>4, <3>1
      <3> HIDE DEF has, own
      <3>3. x \in Int /\ y \in Int
        BY <3>1
      <3>4. x >= y
        <4> HIDE DEF x, y
        <4>1. Above(rank[q], rank[Own(k)]) \/ rank[q] = rank[Own(k)]
          BY <2>6 DEF Before
        <4> QED BY <3>2, <3>3, <4>1, SingleRanks
      <3>5. has <= own
        BY <3>1, <3>4
      <3>6. has = 0
        BY <3>1, <3>5
      <3> QED BY <3>6 DEF has
    <2>9. q = p \/ q = Swap(p)
      <3>1. Meets(q, p) \/ Meets(q, Swap(p))
        BY <2>1, <2>3, <2>4, <2>6 DEF Meets, Swap
      <3> QED BY <1>15, <1>16, <3>1 DEF OneToOne
    <2>10. Same(q)
      BY <1>6, <1>3, <1>16, <2>8 DEF Score
    <2> QED BY <1>9, <1>17, <2>1, <2>9, <2>10 DEF Swap
  <1> QED BY <1>4, <1>17

(* What is read from a text are facts.                                        *)
IsSaid(x) == x.n \in Nat /\ x.pos \in Int
AreSaid(s) == IsList(s) /\ \A i \in 1 .. Len(s) : IsSaid(s[i])
FactList(fs) == Proper(fs) /\ \A i \in 1 .. Len(fs) : IsFact(fs[i])

LEMMA KeptAreSaid ==
  ASSUME NEW s, AreSaid(s), NEW places \in SUBSET (DOMAIN s)
  PROVE  DOMAIN F!Picked(s, places) = 1 .. Len(F!Picked(s, places)) /\ AreSaid(F!Picked(s, places))
PROOF
  <1> DEFINE t == F!Picked(s, places)
             n == Len(s)
  <1>1. n \in Nat /\ places \in SUBSET (1 .. n)
    BY DEF AreSaid, IsList
  <1>2. t = Picked(s, places)
    BY SameListings, Zenon
  <1> HIDE DEF t, n
  <1>3. IsList(t) /\ \A k \in 1 .. Len(t) : \E i \in places : t[k] = s[i]
    BY <1>1, <1>2, PickedIsAList, Zenon
  <1>4. \A i \in 1 .. n : IsSaid(s[i])
    BY DEF AreSaid, n
  <1>5. \A k \in 1 .. Len(t) : IsSaid(t[k])
    BY <1>1, <1>3, <1>4
  <1>6. DOMAIN t = 1 .. Len(t) /\ AreSaid(t)
    BY <1>3, <1>5 DEF AreSaid, IsList
  <1> QED BY <1>6 DEF t

LEMMA SaidAreFacts ==
  ASSUME NEW x, IsSaid(x), NEW kind, NEW role, NEW unit
  PROVE  /\ IsFact(F!Fact(x, kind, role, unit))
         /\ \A c : IsFact([F!Fact(x, kind, role, unit) EXCEPT !.cur = c])
PROOF
  <1> DEFINE f == F!Fact(x, kind, role, unit)
             v == x.n * F!UnitValue(unit)
             p == x.pos
             u == F!UnitValue(unit)
  <1>1. u \in Nat
    BY DEF F!UnitValue
  <1>2. v \in Nat /\ p \in Int
    <2> HIDE DEF u
    <2>1. x.n \in Nat /\ x.pos \in Int
      BY DEF IsSaid
    <2>2. x.n * u \in Nat
      BY <1>1, <2>1
    <2> QED BY <2>1, <2>2 DEF u
  <1> HIDE DEF v, p, u
  <1>3. f.value = v /\ f.pos = p
    BY DEF F!Fact, v, p
  <1>4. ASSUME NEW c PROVE [f EXCEPT !.cur = c].value = v /\ [f EXCEPT !.cur = c].pos = p
    BY DEF F!Fact, v, p
  <1> HIDE DEF f
  <1>5. IsFact(f)
    BY <1>2, <1>3 DEF IsFact
  <1>6. ASSUME NEW c PROVE IsFact([f EXCEPT !.cur = c])
    BY <1>2, <1>4 DEF IsFact
  <1> QED BY <1>5, <1>6 DEF f

LEMMA MadeFacts ==
  ASSUME NEW s, AreSaid(s), DOMAIN s = 1 .. Len(s), NEW f, f = [i \in DOMAIN s |-> f[i]],
         \A i \in DOMAIN s : IsFact(f[i])
  PROVE  FactList(f)
PROOF
  <1> DEFINE n == Len(s)
  <1>1. n \in Nat
    BY DEF AreSaid, IsList
  <1>2. f = [i \in 1 .. n |-> f[i]] /\ \A i \in 1 .. n : IsFact(f[i])
    OBVIOUS
  <1> HIDE DEF n
  <1>3. Len(f) = n
    BY <1>1, <1>2
  <1> QED BY <1>1, <1>2, <1>3 DEF FactList, Proper

LEMMA ReadFacts ==
  ASSUME NEW text, AreSaid(text)
  PROVE  FactList(F!Facts(text, ""))
PROOF
  <1>1. FactList(F!RateFacts(text))
    <2> DEFINE kept == F!Picked(text, {i \in DOMAIN text : text[i].kind = "amount" /\ text[i].rate})
               Made(x) == [F!Fact(x, "amount", "per_10_shares", "") EXCEPT !.cur = ""]
               f == [i \in DOMAIN kept |-> Made(kept[i])]
    <2>1. AreSaid(kept) /\ DOMAIN kept = 1 .. Len(kept)
      BY KeptAreSaid
    <2>2. F!RateFacts(text) = f
      BY Zenon DEF F!RateFacts
    <2>3. \A x : IsSaid(x) => IsFact(Made(x))
      BY SaidAreFacts
    <2> HIDE DEF kept, Made
    <2>4. \A i \in DOMAIN kept : IsFact(f[i])
      BY <2>1, <2>3 DEF AreSaid
    <2>5. f = [i \in DOMAIN kept |-> f[i]]
      OBVIOUS
    <2> HIDE DEF f
    <2> QED BY <2>1, <2>2, <2>4, <2>5, MadeFacts
  <1>2. FactList(F!CountFacts(text))
    <2> DEFINE kept == F!Picked(text, {i \in DOMAIN text : text[i].kind = "count"})
               Made(x) == F!Fact(x, "count", "count", x.unit)
               f == [i \in DOMAIN kept |-> Made(kept[i])]
    <2>1. AreSaid(kept) /\ DOMAIN kept = 1 .. Len(kept)
      BY KeptAreSaid
    <2>2. F!CountFacts(text) = f
      BY Zenon DEF F!CountFacts
    <2>3. \A x : IsSaid(x) => IsFact(Made(x))
      BY SaidAreFacts
    <2> HIDE DEF kept, Made
    <2>4. \A i \in DOMAIN kept : IsFact(f[i])
      BY <2>1, <2>3 DEF AreSaid
    <2>5. f = [i \in DOMAIN kept |-> f[i]]
      OBVIOUS
    <2> HIDE DEF f
    <2> QED BY <2>1, <2>2, <2>4, <2>5, MadeFacts
  <1>3. FactList(F!AmountFacts(text, ""))
    <2> DEFINE kept == F!Picked(text, {i \in DOMAIN text : text[i].kind = "amount" /\ ~text[i].rate
                                                  /\ (text[i].unit # "" \/ text[i].cur # "")})
               Read(x) == F!Fact(x, "amount", F!AmountRole(x.words), x.unit)
               Made(x) == [Read(x) EXCEPT !.cur = IF @ = "" THEN "" ELSE @]
               f == [i \in DOMAIN kept |-> Made(kept[i])]
    <2>1. AreSaid(kept) /\ DOMAIN kept = 1 .. Len(kept)
      BY KeptAreSaid
    <2>2. F!AmountFacts(text, "") = f
      BY Zenon DEF F!AmountFacts
    <2>3. \A x : IsSaid(x) => IsFact(Made(x))
      BY SaidAreFacts
    <2> HIDE DEF kept, Made
    <2>4. \A i \in DOMAIN kept : IsFact(f[i])
      BY <2>1, <2>3 DEF AreSaid
    <2>5. f = [i \in DOMAIN kept |-> f[i]]
      OBVIOUS
    <2> HIDE DEF f
    <2> QED BY <2>1, <2>2, <2>4, <2>5, MadeFacts
  <1>4. FactList(F!PctFacts(text))
    <2> DEFINE kept == F!Picked(text, {i \in DOMAIN text : text[i].kind = "pct"
                /\ (text[i].words \intersect F!PctRoles # {} \/ "excluded" \notin text[i].words)})
               Role(i) == IF kept[i].words \intersect F!PctRoles # {}
                          THEN CHOOSE r \in kept[i].words : r \in F!PctRoles ELSE F!Positional[i]
               f == [i \in DOMAIN kept |-> F!Fact(kept[i], "pct", Role(i), "")]
    <2>1. AreSaid(kept) /\ DOMAIN kept = 1 .. Len(kept)
      BY KeptAreSaid
    <2>2. F!PctFacts(text) = f
      BY Zenon DEF F!PctFacts
    <2>3. \A x, r : IsSaid(x) => IsFact(F!Fact(x, "pct", r, ""))
      BY SaidAreFacts
    <2> HIDE DEF kept, Role
    <2>4. \A i \in DOMAIN kept : IsFact(f[i])
      BY <2>1, <2>3 DEF AreSaid
    <2>5. f = [i \in DOMAIN kept |-> f[i]]
      OBVIOUS
    <2> HIDE DEF f
    <2> QED BY <2>1, <2>2, <2>4, <2>5, MadeFacts
  <1>5. FactList(F!DateFacts(text))
    <2> DEFINE kept == F!Picked(text, {i \in DOMAIN text : text[i].kind = "date" /\ "period" \notin text[i].words
                                                 /\ text[i].words \intersect F!Events # {}})
               Made(x) == F!Fact(x, "date", "date", "")
               f == [i \in DOMAIN kept |-> Made(kept[i])]
    <2>1. AreSaid(kept) /\ DOMAIN kept = 1 .. Len(kept)
      BY KeptAreSaid
    <2>2. F!DateFacts(text) = f
      BY Zenon DEF F!DateFacts
    <2>3. \A x : IsSaid(x) => IsFact(Made(x))
      BY SaidAreFacts
    <2> HIDE DEF kept, Made
    <2>4. \A i \in DOMAIN kept : IsFact(f[i])
      BY <2>1, <2>3 DEF AreSaid
    <2>5. f = [i \in DOMAIN kept |-> f[i]]
      OBVIOUS
    <2> HIDE DEF f
    <2> QED BY <2>1, <2>2, <2>4, <2>5, MadeFacts
  <1>6. ASSUME NEW s, NEW t, FactList(s), FactList(t) PROVE FactList(s \o t)
    <2>1. Proper(s) /\ Proper(t)
      BY <1>6 DEF FactList
    <2>2. /\ Proper(s \o t)
          /\ \A i \in 1 .. Len(s \o t) :
              \/ i <= Len(s) /\ (s \o t)[i] = s[i]
              \/ i - Len(s) \in 1 .. Len(t) /\ (s \o t)[i] = t[i - Len(s)]
      BY <2>1, JoinedLists
    <2> DEFINE r == s \o t
    <2>3. Proper(r) /\ \A i \in 1 .. Len(r) : 
            \/ i <= Len(s) /\ r[i] = s[i]
            \/ i - Len(s) \in 1 .. Len(t) /\ r[i] = t[i - Len(s)]
      BY <2>2
    <2> HIDE DEF r
    <2>4. Len(r) \in Nat /\ Len(s) \in Nat
      BY <2>1, <2>3 DEF Proper
    <2>5. \A i \in 1 .. Len(r) : IsFact(r[i])
      BY <1>6, <2>3, <2>4 DEF FactList
    <2>6. FactList(r)
      BY <2>3, <2>5 DEF FactList
    <2> QED BY <2>6 DEF r
  <1> DEFINE a == F!RateFacts(text)
             b == F!CountFacts(text)
             c == F!AmountFacts(text, "")
             d == F!PctFacts(text)
             e == F!DateFacts(text)
  <1>7. F!Facts(text, "") = a \o b \o c \o d \o e
    BY Zenon DEF F!Facts
  <1> HIDE DEF a, b, c, d, e
  <1>8. FactList(a \o b)
    BY <1>1, <1>2, <1>6, Zenon DEF a, b
  <1>9. FactList(a \o b \o c)
    BY <1>3, <1>8, <1>6, Zenon DEF c
  <1>10. FactList(a \o b \o c \o d)
    BY <1>4, <1>9, <1>6, Zenon DEF d
  <1>11. FactList(a \o b \o c \o d \o e)
    BY <1>5, <1>10, <1>6, Zenon DEF e
  <1> QED BY <1>7, <1>11, Zenon

(* The facts of one role are facts of this role.                              *)
LEMMA RoleFacts ==
  ASSUME NEW fs, FactList(fs), NEW r
  PROVE  AreFactsOf(F!OfRole(fs, r), r)
PROOF
  <1> DEFINE n == Len(fs)
             places == {i \in DOMAIN fs : <<fs[i].kind, fs[i].role>> = r}
             t == Picked(fs, places)
  <1>1. n \in Nat /\ DOMAIN fs = 1 .. n
    <2>1. n \in Nat /\ fs = [i \in 1 .. n |-> fs[i]]
      BY DEF FactList, Proper
    <2> HIDE DEF n
    <2> QED BY <2>1
  <1>2. F!OfRole(fs, r) = t
    BY SameListings, Zenon DEF F!OfRole
  <1>3. places \in SUBSET (1 .. n)
    BY <1>1
  <1>4. \A i \in places : IsFact(fs[i]) /\ <<fs[i].kind, fs[i].role>> = r
    BY <1>1 DEF FactList
  <1> HIDE DEF n, places, t
  <1>5. IsList(t) /\ \A k \in 1 .. Len(t) : \E i \in places : t[k] = fs[i]
    BY <1>1, <1>3, PickedIsAList, Zenon DEF t
  <1>6. AreFactsOf(t, r)
    BY <1>4, <1>5 DEF AreFactsOf
  <1> QED BY <1>2, <1>6

LEMMA OwnFactsAreNotTold ==
  ASSUME NEW pair, FactList(pair.zh), pair.en = pair.zh
  PROVE  F!FactFindings(pair) = {}
PROOF
  <1> DEFINE roles == {<<f.kind, f.role>> : f \in F!Range(pair.zh)} \intersect
                      {<<f.kind, f.role>> : f \in F!Range(pair.en)}
             zs(r) == F!OfRole(pair.zh, r)
             es(r) == F!OfRole(pair.en, r)
             Told(r) == {q \in F!FactPairs(zs(r), es(r)) : F!Told(pair, zs(r), es(r), q)}
             Tell(r, p) == F!Finding(pair, zs(r)[p[1]], es(r)[p[2]], F!Verdict(pair, r, zs(r), es(r), zs(r)[p[1]], es(r)[p[2]]))
  <1>1. F!FactFindings(pair) = IF ~F!Compared(pair) THEN {} ELSE UNION {{Tell(r, p) : p \in Told(r)} : r \in roles}
    BY Zenon DEF F!FactFindings
  <1>2. ASSUME NEW r PROVE Told(r) = {}
    <2> DEFINE s == zs(r)
    <2>1. es(r) = s
      OBVIOUS
    <2>2. AreFactsOf(s, r)
      BY RoleFacts
    <2>3. \A p \in F!FactPairs(s, s) : F!SameValue(s[p[1]], s[p[2]])
      BY <2>2, OwnFactsMatch
    <2> HIDE DEF s
    <2>4. \A p \in F!FactPairs(s, s) : ~F!Told(pair, s, s, p)
      BY <2>3 DEF F!Told
    <2>5. {q \in F!FactPairs(s, s) : F!Told(pair, s, s, q)} = {}
      BY <2>4
    <2>6. Told(r) = {q \in F!FactPairs(s, s) : F!Told(pair, s, s, q)}
      BY <2>1, Zenon DEF s
    <2> QED BY <2>5, <2>6, Zenon
  <1> HIDE DEF Told, Tell, roles
  <1>3. UNION {{Tell(r, p) : p \in Told(r)} : r \in roles} = {}
    <2>1. \A r : {Tell(r, p) : p \in Told(r)} = {}
      BY <1>2
    <2> DEFINE Of(r) == {Tell(r, p) : p \in Told(r)}
    <2>2. \A r : Of(r) = {}
      BY <2>1
    <2> HIDE DEF Of
    <2>3. UNION {Of(r) : r \in roles} = {}
      BY <2>2
    <2> QED BY <2>3 DEF Of
  <1> QED BY <1>1, <1>3, Zenon

LEMMA FactIsClean ==
  ASSUME RunFacts
  PROVE  FactSameIsClean'
PROOF
  <1>0. PICK text \in FactTexts, to \in Mentions, conf \in {70, 90} : \E at \in 0 .. Len(text) :
          input' = [zh |-> text, at |-> at, conf |-> conf,
                    en |-> [i \in DOMAIN text |-> IF i = at THEN Rewritten(text[i], to) ELSE text[i]]]
    BY Zenon DEF RunFacts
  <1>1. PICK at \in 0 .. Len(text) :
          input' = [zh |-> text, at |-> at, conf |-> conf,
                    en |-> [i \in DOMAIN text |-> IF i = at THEN Rewritten(text[i], to) ELSE text[i]]]
    BY <1>0
  <1>2. input'.zh = text
    BY <1>1
  <1>3. AreSaid(text)
    <2>1. IsList(text) /\ \A i \in DOMAIN text : text[i].n \in Nat /\ text[i].pos \in Int
      BY <1>0, FactsAssumption DEF FactsAssumption
    <2> QED BY <2>1 DEF AreSaid, IsSaid, IsList
  <1> DEFINE fs == F!Facts(text, "")
             gs == F!Facts(input'.en, "")
             conf1 == input'.conf
             pair == [zh |-> fs, en |-> gs, conf |-> conf1, shared |-> TRUE, dates |-> 0, zhPage |-> 1, enPage |-> 1]
  <1>4. FactList(fs)
    BY <1>3, ReadFacts
  <1>5. found' = F!FactFindings(pair)
    <2>1. found' = F!FactFindings([zh |-> F!Facts(input'.zh, ""), en |-> F!Facts(input'.en, ""), conf |-> input'.conf,
                             shared |-> TRUE, dates |-> 0, zhPage |-> 1, enPage |-> 1])
      BY Zenon DEF RunFacts
    <2> QED BY <1>2, <2>1, Zenon
  <1>6. input'.zh = input'.en => fs = gs
    BY <1>2, Zenon
  <1> HIDE DEF fs, gs, conf1
  <1>7. fs = gs => found' = {}
    <2> SUFFICES ASSUME fs = gs PROVE found' = {}
      OBVIOUS
    <2>1. pair.zh = fs /\ pair.en = gs
      OBVIOUS
    <2> HIDE DEF pair
    <2> QED BY <1>4, <1>5, <2>1, OwnFactsAreNotTold
  <1> QED BY <1>6, <1>7 DEF FactSameIsClean

-----------------------------------------------------------------------------
(* RunProfiles, equal reports: what is read of each key has amounts.          *)
HasAmount(x) == x.n \in Int /\ x.unit \in Int
HaveAmounts(s) == IsList(s) /\ \A i \in 1 .. Len(s) : HasAmount(s[i])

LEMMA ItemsHaveAmounts ==
  ASSUME NEW s, AreItems(s)
  PROVE  HaveAmounts(s)
PROOF
  <1>1. IsList(s) /\ \A i \in 1 .. Len(s) : IsItem(s[i])
    BY ProperIsAList DEF AreItems
  <1>2. \A i \in 1 .. Len(s) : HasAmount(s[i])
    BY <1>1 DEF IsItem, HasAmount
  <1> QED BY <1>1, <1>2 DEF HaveAmounts

(* The first of a list in some order.                                         *)
LEMMA PrimaryIsOne ==
  ASSUME NEW items, AreItems(items), Len(items) # 0
  PROVE  \E i \in DOMAIN items : R!Primary(items) = items[i]
PROOF
  <1> DEFINE n == Len(items)
             S == 1 .. n
             Ord == Firsts(items)
             Is(i) == \A j \in DOMAIN items \ {i} : R!Better(items, i, j)
  <1>1. n \in Nat /\ DOMAIN items = S
    BY ProperIsAList DEF AreItems, IsList
  <1>2. IsFiniteSet(S) /\ IsOrder(Ord, S) /\ IsTotal(Ord, S) /\ \A i, j \in S : <<i, j>> \in Ord <=> R!Better(items, i, j)
    BY FirstsAreOrdered
  <1>3. 1 \in S
    BY <1>1
  <1>4. R!Primary(items) = items[CHOOSE i \in DOMAIN items : Is(i)]
    BY DEF R!Primary
  <1> HIDE DEF Ord, S
  <1>5. PICK x \in S : \A y \in S : <<y, x>> \notin Ord
    BY <1>2, <1>3, SomeoneIsFirst
  <1>6. \A y \in S : y = x \/ <<x, y>> \in Ord
    BY <1>2, <1>5 DEF IsTotal
  <1>7. Is(x)
    BY <1>1, <1>2, <1>6
  <1> HIDE DEF Is
  <1>8. (CHOOSE i \in DOMAIN items : Is(i)) \in DOMAIN items
    BY <1>1, <1>7
  <1> QED BY <1>4, <1>8

LEMMA LargestIsOne ==
  ASSUME NEW s, HaveAmounts(s), Len(s) # 0
  PROVE  \E i \in DOMAIN s : R!Largest(s) = s[i]
PROOF
  <1> DEFINE n == Len(s)
             S == 1 .. n
             A(i) == R!Abs(s[i].n)
             Over(i, j) == A(j) < A(i) \/ (A(j) = A(i) /\ i < j)
             Ord == {o \in S \X S : Over(o[1], o[2])}
             Is(i) == \A j \in DOMAIN s : A(j) < A(i) \/ (A(j) = A(i) /\ i <= j)
  <1>1. n \in Nat /\ DOMAIN s = S /\ \A i \in S : HasAmount(s[i])
    BY DEF HaveAmounts, IsList
  <1>2. \A i \in S : A(i) \in Int
    BY <1>1 DEF HasAmount, R!Abs
  <1>3. R!Largest(s) = s[CHOOSE i \in DOMAIN s : Is(i)]
    BY DEF R!Largest
  <1>4. \A i, j \in S : <<i, j>> \in Ord <=> Over(i, j)
    OBVIOUS
  <1>5. IsFiniteSet(S) /\ S \subseteq Int /\ 1 \in S
    BY <1>1, Places
  <1> HIDE DEF Ord, S, A
  <1>6. IsOrder(Ord, S)
    <2>1. \A x \in S : <<x, x>> \notin Ord
      BY <1>2, <1>4, <1>5
    <2>2. \A x, y, z \in S : <<x, y>> \in Ord /\ <<y, z>> \in Ord => <<x, z>> \in Ord
      BY <1>2, <1>4, <1>5
    <2> QED BY <2>1, <2>2 DEF IsOrder
  <1>7. PICK x \in S : \A y \in S : <<y, x>> \notin Ord
    BY <1>5, <1>6, SomeoneIsFirst
  <1>8. Is(x)
    <2> SUFFICES ASSUME NEW j \in S PROVE A(j) < A(x) \/ (A(j) = A(x) /\ x <= j)
      BY <1>1
    <2>1. ~Over(j, x)
      BY <1>4, <1>7
    <2>2. A(j) \in Int /\ A(x) \in Int /\ j \in Int /\ x \in Int
      BY <1>2, <1>5
    <2> QED BY <2>1, <2>2
  <1> HIDE DEF Is
  <1>9. (CHOOSE i \in DOMAIN s : Is(i)) \in DOMAIN s
    BY <1>1, <1>8
  <1> QED BY <1>3, <1>9

(* Both sides of a conflict are occurrences of the key, and each of few       *)
(* contradictions is a conflict.                                              *)
LEMMA ConflictsAreThere ==
  ASSUME NEW items, IsList(items)
  PROVE  /\ \A p \in R!Conflicts(items) : (\E i \in DOMAIN items : p[1] = items[i]) /\ (\E i \in DOMAIN items : p[2] = items[i])
         /\ LET s == R!Reliable(items)
            IN  /\ Cardinality(Against(s)) \in Nat
                /\ Cardinality(Against(s)) <= 2 => \A q \in Against(s) : <<s[q[1]], s[q[2]]>> \in R!Conflicts(items)
PROOF
  <1> DEFINE s == R!Reliable(items)
             n == Len(s)
             pairs == Against(s)
             ranked == R!InPlace(pairs)
             Ord == {o \in pairs \X pairs : R!InListOrder(o[1], o[2])}
             conflicts == R!Conflicts(items)
  <1>1. conflicts = {<<s[ranked[k][1]], s[ranked[k][2]]>> : k \in {m \in DOMAIN ranked : m <= 2}}
    BY DEF R!Conflicts, Against
  <1>2. n \in Nat /\ DOMAIN s = 1 .. n /\ \A i \in 1 .. n : \E j \in DOMAIN items : s[i] = items[j]
    <2>1. PICK places : places \subseteq DOMAIN items /\ s = R!Picked(items, places)
      BY DEF R!Reliable
    <2>2. DOMAIN items = 1 .. Len(items) /\ Len(items) \in Nat
      BY DEF IsList
    <2>3. s = Picked(items, places)
      BY <2>1, SameListings
    <2> HIDE DEF s, n
    <2> DEFINE m == Len(items)
    <2>5. m \in Nat /\ places \in SUBSET (1 .. m)
      BY <2>1, <2>2
    <2> HIDE DEF m
    <2>4. IsList(s) /\ \A i \in 1 .. Len(s) : \E j \in places : s[i] = items[j]
      BY <2>3, <2>5, PickedIsAList, Zenon
    <2> QED BY <2>1, <2>4 DEF IsList, n
  <1>3. pairs \subseteq (1 .. n) \X (1 .. n)
    BY <1>2 DEF Against
  <1>4. ranked = Listed(pairs, Ord)
    BY SameListings DEF R!InPlace
  <1> HIDE DEF s, n, pairs, conflicts
  <1>5. IsFiniteSet(pairs) /\ pairs \subseteq Int \X Int
    BY <1>2, <1>3, PairsOfPlaces, FS_Subset
  <1>6. \A x, y \in pairs : <<x, y>> \in Ord <=> R!InListOrder(x, y)
    OBVIOUS
  <1> HIDE DEF Ord, ranked
  <1>7. IsOrder(Ord, pairs) /\ IsTotal(Ord, pairs)
    <2>0. \A x, y : R!InListOrder(x, y) <=> InListOrder(x, y)
      BY DEF R!InListOrder, InListOrder
    <2>4. \A x, y, z \in pairs : /\ ~InListOrder(x, x)
                                 /\ InListOrder(x, y) /\ InListOrder(y, z) => InListOrder(x, z)
                                 /\ x = y \/ InListOrder(x, y) \/ InListOrder(y, x)
      BY <1>5, PositionsCompare
    <2>1. \A x \in pairs : <<x, x>> \notin Ord
      BY <1>6, <2>0, <2>4
    <2>2. \A x, y, z \in pairs : <<x, y>> \in Ord /\ <<y, z>> \in Ord => <<x, z>> \in Ord
      BY <1>6, <2>0, <2>4
    <2>3. \A x, y \in pairs : x = y \/ <<x, y>> \in Ord \/ <<y, x>> \in Ord
      BY <1>6, <2>0, <2>4
    <2> QED BY <2>1, <2>2, <2>3 DEF IsOrder, IsTotal
  <1> DEFINE c == Cardinality(pairs)
  <1>8. /\ c \in Nat /\ DOMAIN ranked = 1 .. c
        /\ \A k \in 1 .. c : ranked[k] \in pairs
        /\ \A q \in pairs : \E k \in 1 .. c : ranked[k] = q
    <2> DEFINE l == Listed(pairs, Ord)
    <2>1. /\ c \in Nat /\ l = [j \in 1 .. c |-> l[j]]
          /\ \A j \in 1 .. c : l[j] \in pairs
          /\ \A q \in pairs : \E k \in 1 .. c : l[k] = q
      BY <1>5, <1>7, ListedInOrder
    <2> HIDE DEF l, c
    <2>2. DOMAIN l = 1 .. c
      BY <2>1
    <2> QED BY <1>4, <2>1, <2>2 DEF l
  <1> HIDE DEF c
  <1>9. ASSUME NEW p \in conflicts
        PROVE  (\E i \in DOMAIN items : p[1] = items[i]) /\ (\E i \in DOMAIN items : p[2] = items[i])
    <2>1. PICK k \in DOMAIN ranked : p = <<s[ranked[k][1]], s[ranked[k][2]]>>
      BY <1>1
    <2>2. ranked[k][1] \in 1 .. n /\ ranked[k][2] \in 1 .. n
      BY <1>3, <1>8, <2>1
    <2>3. p[1] = s[ranked[k][1]] /\ p[2] = s[ranked[k][2]]
      BY <2>1
    <2> QED BY <1>2, <2>2, <2>3
  <1>10. ASSUME c <= 2, NEW q \in pairs PROVE <<s[q[1]], s[q[2]]>> \in conflicts
    <2>1. PICK k \in 1 .. c : ranked[k] = q
      BY <1>8
    <2>2. k \in DOMAIN ranked /\ k <= 2
      BY <1>8, <1>10, <2>1
    <2> QED BY <1>1, <2>1, <2>2
  <1> QED BY <1>8, <1>9, <1>10 DEF c, s, pairs, conflicts

(* What does not come from a table is not among the reliable occurrences.     *)
LEMMA ReliableStay ==
  ASSUME NEW d, IsList(d), NEW t, IsList(t), Len(t) >= Len(d), \A i \in 1 .. Len(d) : t[i] = d[i],
         \A i \in 1 .. Len(t) : i > Len(d) => t[i].source # "table"
  PROVE  R!Conflicts(t) = R!Conflicts(d)
PROOF
  <1> DEFINE Ok(x) == x.conf >= 90 /\ x.source = "table" /\ "audit_matter" \notin x.marks
                      /\ ("crowded" \in x.marks /\ R!Abs(x.n) < 1000 => x.key \in {"eps"})
             n == Len(d)
             At(s) == {i \in DOMAIN s : Ok(s[i])}
  <1>1. \A s : R!Reliable(s) = R!Picked(s, At(s))
    BY DEF R!Reliable
  <1>2. n \in Nat /\ DOMAIN d = 1 .. n /\ Len(t) \in Nat /\ DOMAIN t = 1 .. Len(t)
    BY DEF IsList
  <1>3. \A x : Ok(x) => x.source = "table"
    OBVIOUS
  <1>4. At(t) = At(d)
    <2> HIDE DEF Ok
    <2> QED BY <1>2, <1>3
  <1> DEFINE places == At(d)
             at == Listed(places, {o \in places \X places : o[1] < o[2]})
  <1>5. places \in SUBSET (1 .. n)
    BY <1>2
  <1>6. \A i \in places : t[i] = d[i]
    BY <1>5
  <1> HIDE DEF At, places
  <1>7. Picked(t, places) = Picked(d, places)
    <2>1. IsFiniteSet(places) /\ places \subseteq Int
      <3> HIDE DEF n
      <3>1. IsFiniteSet(1 .. n) /\ 1 .. n \subseteq Int
        BY <1>2, Places
      <3> QED BY <1>5, <3>1, FS_Subset
    <2> DEFINE Ord == {o \in places \X places : o[1] < o[2]}
               c == Cardinality(places)
    <2>2. IsOrder(Ord, places) /\ IsTotal(Ord, places)
      BY <2>1 DEF IsOrder, IsTotal
    <2> HIDE DEF Ord
    <2>3. at = Listed(places, Ord)
      BY DEF Ord
    <2> HIDE DEF at
    <2>4. at = [k \in 1 .. c |-> at[k]] /\ \A k \in 1 .. c : at[k] \in places
      BY <2>1, <2>2, <2>3, ListedInOrder
    <2> HIDE DEF c
    <2>5. \A k \in DOMAIN at : t[at[k]] = d[at[k]]
      BY <1>6, <2>4
    <2>6. \A s : Picked(s, places) = [k \in DOMAIN at |-> s[at[k]]]
      BY DEF Picked, at
    <2> QED BY <2>5, <2>6
  <1>8. R!Reliable(t) = R!Reliable(d)
    BY <1>1, <1>4, <1>7, SameListings DEF places
  <1> DEFINE Of(s) == {<<s[R!InPlace(Against(s))[k][1]], s[R!InPlace(Against(s))[k][2]]>> :
                          k \in {m \in DOMAIN R!InPlace(Against(s)) : m <= 2}}
  <1>9. R!Conflicts(t) = Of(R!Reliable(t)) /\ R!Conflicts(d) = Of(R!Reliable(d))
    BY DEF R!Conflicts, Against
  <1> HIDE DEF Of
  <1> QED BY <1>8, <1>9

SoundMetric(m) ==
  /\ HaveAmounts(m.items)
  /\ \E i \in DOMAIN m.items : m.primary = m.items[i]
  /\ m.conflicts = R!Conflicts(m.items)
SoundMetrics(ms) == \A k \in DOMAIN ms : SoundMetric(ms[k])

(* What the limits leave of a key.                                            *)
LEMMA KeyedIsSound ==
  ASSUME NEW all, AreItems(all), NEW k \in KeysOf(all)
  PROVE  LET d == R!Diverse(R!OfKey(all, k), 3)
         IN  AreItems(d) /\ Len(d) # 0 /\ SoundMetric(R!Occurrences(d))
PROOF
  <1> DEFINE m == Len(all)
             own == {i \in DOMAIN all : all[i].key = k}
             items == R!OfKey(all, k)
             d == R!Diverse(items, 3)
  <1>1. m \in Nat /\ DOMAIN all = 1 .. m
    BY ProperIsAList DEF AreItems, IsList
  <1>2. own \in SUBSET (1 .. m) /\ own # {}
    BY <1>1 DEF KeysOf
  <1>3. items = Picked(all, own)
    <2>1. items = R!Picked(all, own)
      BY DEF R!OfKey
    <2> HIDE DEF items, own
    <2> QED BY <2>1, SameListings
  <1>4. \A i \in own : IsItem(all[i])
    BY <1>1, <1>2 DEF AreItems
  <1> HIDE DEF items, own, m
  <1>5. AreItems(items)
    BY <1>1, <1>2, <1>3, <1>4, PickedItems
  <1>6. Len(items) # 0
    <2>1. \A i \in own : \E j \in 1 .. Len(items) : items[j] = all[i]
      BY <1>1, <1>2, <1>3, PickedIsAList, Zenon
    <2>2. Len(items) \in Nat
      BY <1>5 DEF AreItems, Proper
    <2> QED BY <1>2, <2>1, <2>2
  <1>7. AreItems(d) /\ Len(d) = IF Len(items) > 3 THEN 3 ELSE Len(items)
    BY <1>5, <1>6, DiverseKeeps, Zenon
  <1>8. Len(d) # 0
    <2> DEFINE l == Len(d)
               n == Len(items)
    <2>1. l = (IF n > 3 THEN 3 ELSE n) /\ n # 0 /\ n \in Nat
      BY <1>5, <1>6, <1>7 DEF AreItems, Proper
    <2> HIDE DEF l, n
    <2>2. l # 0
      BY <2>1
    <2> QED BY <2>2 DEF l
  <1> HIDE DEF d
  <1>9. HaveAmounts(d) /\ \E i \in DOMAIN d : R!Primary(d) = d[i]
    BY <1>7, <1>8, PrimaryIsOne, ItemsHaveAmounts
  <1> DEFINE p == R!Primary(d)
             c == R!Conflicts(d)
             occ == R!Occurrences(d)
  <1>11. occ.items = d /\ occ.primary = p /\ occ.conflicts = c
    BY DEF R!Occurrences
  <1> HIDE DEF p, c, occ
  <1>12. SoundMetric(occ)
    BY <1>9, <1>11 DEF SoundMetric, p, c
  <1> QED BY <1>7, <1>8, <1>12 DEF occ, d, items

(* OCR adds occurrences, and may choose another primary one.                  *)
LEMMA MergedIsSound ==
  ASSUME NEW d, AreItems(d), NEW occ, SoundMetric(occ), occ = [items |-> d, primary |-> occ.primary, conflicts |-> occ.conflicts],
         NEW more, Proper(more), HaveAmounts(more), \A j \in 1 .. Len(more) : more[j].source # "table"
  PROVE  SoundMetric(R!Merged(occ, more))
PROOF
  <1> DEFINE p == occ.primary
             c == occ.conflicts
             one == <<p>>
             t == d \o more
             u == one \o more
             l == R!Largest(u)
             new == R!Merged(occ, more)
  <1>1. occ = [items |-> d, primary |-> p, conflicts |-> c]
    OBVIOUS
  <1>2. HaveAmounts(d) /\ HasAmount(p) /\ (\E i \in DOMAIN d : p = d[i]) /\ c = R!Conflicts(d)
    <2>1. occ.items = d
      BY <1>1
    <2> QED BY <2>1 DEF SoundMetric, HaveAmounts, IsList
  <1>3. ASSUME NEW s, Proper(s), HaveAmounts(s)
        PROVE  /\ Proper(s \o more) /\ HaveAmounts(s \o more) /\ Len(s \o more) = Len(s) + Len(more)
               /\ \A i \in 1 .. Len(s) : (s \o more)[i] = s[i]
    <2> DEFINE r == s \o more
    <2>1. /\ Proper(r) /\ Len(r) = Len(s) + Len(more)
          /\ \A i \in 1 .. Len(s) : r[i] = s[i]
          /\ \A i \in 1 .. Len(r) :
               \/ i <= Len(s) /\ r[i] = s[i]
               \/ i - Len(s) \in 1 .. Len(more) /\ r[i] = more[i - Len(s)]
      BY <1>3, JoinedLists
    <2> HIDE DEF r
    <2>2. Len(s) \in Nat /\ Len(r) \in Nat /\ IsList(r)
      BY <1>3, <2>1, ProperIsAList DEF Proper
    <2>3. \A i \in 1 .. Len(r) : HasAmount(r[i])
      BY <1>3, <2>1, <2>2 DEF HaveAmounts
    <2>4. HaveAmounts(r)
      BY <2>2, <2>3 DEF HaveAmounts
    <2> QED BY <2>1, <2>4 DEF r
  <1>4. Proper(one) /\ HaveAmounts(one) /\ Len(one) = 1
    <2>1. Len(one) = 1 /\ one = [i \in 1 .. 1 |-> one[i]] /\ one[1] = p
      OBVIOUS
    <2> HIDE DEF one
    <2>2. Proper(one)
      BY <2>1 DEF Proper
    <2>3. IsList(one)
      BY <2>2, ProperIsAList
    <2>4. \A i \in 1 .. Len(one) : HasAmount(one[i])
      BY <1>2, <2>1
    <2> QED BY <2>1, <2>2, <2>3, <2>4 DEF HaveAmounts
  <1> HIDE DEF p, c, one
  <1>5. Proper(d) /\ Len(d) \in Nat /\ Len(more) \in Nat
    BY DEF AreItems, Proper
  <1>6. /\ Proper(t) /\ HaveAmounts(t) /\ Len(t) = Len(d) + Len(more)
        /\ \A i \in 1 .. Len(d) : t[i] = d[i]
        /\ \A i \in 1 .. Len(more) : t[Len(d) + i] = more[i]
        /\ \A i \in 1 .. Len(t) : i > Len(d) => t[i].source # "table"
    <2>1. /\ Len(t) = Len(d) + Len(more)
          /\ \A i \in 1 .. Len(more) : t[Len(d) + i] = more[i]
          /\ \A i \in 1 .. Len(t) :
               \/ i <= Len(d) /\ t[i] = d[i]
               \/ i - Len(d) \in 1 .. Len(more) /\ t[i] = more[i - Len(d)]
      BY <1>5, JoinedLists
    <2>2. Proper(t) /\ HaveAmounts(t) /\ \A i \in 1 .. Len(d) : t[i] = d[i]
      BY <1>2, <1>3, <1>5
    <2> HIDE DEF t
    <2>3. \A i \in 1 .. Len(t) : i > Len(d) => t[i].source # "table"
      BY <1>5, <2>1
    <2> QED BY <2>1, <2>2, <2>3
  <1>7. /\ HaveAmounts(u) /\ Len(u) = 1 + Len(more) /\ u[1] = p
        /\ \A i \in 1 .. Len(u) : i # 1 => u[i] = more[i - 1]
    <2>1. /\ Len(u) = Len(one) + Len(more)
          /\ \A i \in 1 .. Len(one) : u[i] = one[i]
          /\ \A i \in 1 .. Len(u) :
               \/ i <= Len(one) /\ u[i] = one[i]
               \/ i - Len(one) \in 1 .. Len(more) /\ u[i] = more[i - Len(one)]
      BY <1>4, <1>5, JoinedLists
    <2> HIDE DEF u
    <2>2. HaveAmounts(u)
      BY <1>3, <1>4 DEF u
    <2>3. one[1] = p
      BY DEF one
    <2> QED BY <1>4, <1>5, <2>1, <2>2, <2>3
  <1>8. new = [occ EXCEPT !.items = t, !.primary = l]
    <2>1. occ.items = d /\ occ.primary = p
      BY <1>1
    <2> HIDE DEF p, c, one
    <2>2. R!Merged(occ, more) = [occ EXCEPT !.items = occ.items \o more, !.primary = R!Largest(<<occ.primary>> \o more)]
      BY Zenon DEF R!Merged
    <2> QED BY <2>1, <2>2, Zenon DEF one
  <1> HIDE DEF t, u, new
  <1>9. \E i \in DOMAIN u : l = u[i]
    BY <1>5, <1>7, LargestIsOne
  <1> HIDE DEF l
  <1>10. new.items = t /\ new.primary = l /\ new.conflicts = c
    BY <1>1, <1>8
  <1>11. DOMAIN d = 1 .. Len(d) /\ DOMAIN t = 1 .. Len(t) /\ DOMAIN u = 1 .. Len(u) /\ IsList(d) /\ IsList(t)
    BY <1>2, <1>6, <1>7 DEF HaveAmounts, IsList
  <1>12. \E i \in DOMAIN t : l = t[i]
    <2>1. PICK i \in 1 .. Len(u) : l = u[i]
      BY <1>9, <1>11
    <2>2. CASE i = 1
      <3>1. \A j \in DOMAIN d : j \in DOMAIN t /\ t[j] = d[j]
        BY <1>5, <1>6, <1>11
      <3> QED BY <1>2, <1>7, <2>1, <2>2, <3>1
    <2>3. CASE i # 1
      <3>1. l = more[i - 1] /\ i - 1 \in 1 .. Len(more)
        BY <1>5, <1>7, <2>1, <2>3
      <3>2. t[Len(d) + (i - 1)] = more[i - 1] /\ Len(d) + (i - 1) \in 1 .. Len(t)
        BY <1>5, <1>6, <3>1
      <3> QED BY <1>11, <3>1, <3>2
    <2> QED BY <2>2, <2>3
  <1>13. R!Conflicts(t) = R!Conflicts(d)
    BY <1>5, <1>6, <1>11, ReliableStay
  <1>14. SoundMetric(new)
    BY <1>2, <1>6, <1>10, <1>12, <1>13 DEF SoundMetric
  <1> QED BY <1>14 DEF new

LEMMA MetricsAreSound ==
  ASSUME NEW r, IsReport(r)
  PROVE  SoundMetrics(R!Metrics(r))
PROOF
  <1> DEFINE all == R!AllItems(r)
             keyed == R!ByKey(all)
             ocr == r.ocr
             ms == R!Metrics(r)
             others == {ocr[i].key : i \in DOMAIN ocr}
             D(k) == R!Diverse(R!OfKey(all, k), 3)
             More(k) == R!OfKey(ocr, k)
             Alone(k) == [items |-> More(k), primary |-> R!Largest(More(k)), conflicts |-> {}]
  <1>1. AreItems(all)
    BY ReportsGiveItems
  <1>2. DOMAIN keyed = KeysOf(all) /\ \A k \in KeysOf(all) : keyed[k] = R!Occurrences(D(k))
    BY DEF R!ByKey, KeysOf
  <1>3. ms = keyed \/ ms = R!WithOcr(keyed, ocr)
    BY DEF R!Metrics, R!Completed
  <1>4. IsList(ocr) /\ \A i \in DOMAIN ocr : ocr[i].n \in Int /\ ocr[i].unit \in Int /\ ocr[i].source # "table"
    BY DEF IsReport
  <1> HIDE DEF all, keyed, ocr, ms
  <1>5. ASSUME NEW k 
        PROVE  /\ Proper(More(k)) /\ HaveAmounts(More(k)) /\ (k \in others => Len(More(k)) # 0)
               /\ \A j \in 1 .. Len(More(k)) : More(k)[j].source # "table"
    <2> DEFINE n == Len(ocr)
               places == {i \in DOMAIN ocr : ocr[i].key = k}
               m == More(k)
    <2>1. n \in Nat /\ DOMAIN ocr = 1 .. n
      BY <1>4 DEF IsList
    <2>2. places \in SUBSET (1 .. n) /\ \A i \in places : HasAmount(ocr[i]) /\ ocr[i].source # "table"
      BY <1>4, <2>1 DEF HasAmount
    <2>3. m = Picked(ocr, places)
      BY SameListings, Zenon DEF R!OfKey
    <2>4. k \in others => places # {}
      OBVIOUS
    <2> HIDE DEF n, places, m
    <2>5. Proper(m)
      BY <2>1, <2>2, <2>3, PickedIsProper
    <2>6. /\ IsList(m)
          /\ \A j \in 1 .. Len(m) : \E i \in places : m[j] = ocr[i]
          /\ \A i \in places : \E j \in 1 .. Len(m) : m[j] = ocr[i]
      BY <2>1, <2>2, <2>3, PickedIsAList, Zenon
    <2>7. HaveAmounts(m) /\ \A j \in 1 .. Len(m) : m[j].source # "table"
      BY <2>2, <2>6 DEF HaveAmounts
    <2>8. places # {} => Len(m) # 0
      BY <2>6
    <2> QED BY <2>4, <2>5, <2>7, <2>8 DEF m
  <1>6. ASSUME NEW k \in KeysOf(all)
        PROVE  /\ SoundMetric(keyed[k])
               /\ SoundMetric(R!Merged(keyed[k], More(k)))
    <2> DEFINE d == D(k)
               occ == R!Occurrences(d)
               more == More(k)
    <2>1. AreItems(d) /\ SoundMetric(occ)
      BY <1>1, KeyedIsSound
    <2>2. occ = [items |-> d, primary |-> occ.primary, conflicts |-> occ.conflicts]
      BY DEF R!Occurrences
    <2>3. Proper(more) /\ HaveAmounts(more) /\ \A j \in 1 .. Len(more) : more[j].source # "table"
      BY <1>5
    <2>4. keyed[k] = occ
      BY <1>2
    <2> HIDE DEF d, occ, more
    <2>5. SoundMetric(R!Merged(occ, more))
      BY <2>1, <2>2, <2>3, MergedIsSound
    <2> QED BY <2>1, <2>4, <2>5 DEF more
  <1>7. ASSUME NEW k, k \in others PROVE SoundMetric(Alone(k))
    <2> DEFINE m == More(k)
               l == R!Largest(m)
               a == [items |-> m, primary |-> l, conflicts |-> {}]
    <2>1. HaveAmounts(m) /\ Len(m) # 0
      BY <1>5, <1>7
    <2> HIDE DEF m
    <2>2. \E i \in DOMAIN m : l = m[i]
      BY <2>1, LargestIsOne
    <2> HIDE DEF l
    <2>3. a.items = m /\ a.primary = l /\ a.conflicts = {}
      OBVIOUS
    <2> HIDE DEF a
    <2>4. R!Conflicts(m) = {}
      <3> DEFINE none == <<>>
      <3>1. Len(none) = 0 /\ IsList(none) /\ IsList(m) /\ Len(m) >= 0
        BY <2>1 DEF HaveAmounts, IsList
      <3> HIDE DEF none
      <3>2. R!Conflicts(m) = R!Conflicts(none)
        BY <1>5, <3>1, ReliableStay DEF m
      <3>3. DOMAIN none = {}
        BY <3>1 DEF IsList
      <3>4. R!Conflicts(none) = {}
        BY <3>1, <3>3, ConflictsAreThere
      <3> QED BY <3>2, <3>4
    <2>5. SoundMetric(a)
      BY <2>1, <2>2, <2>3, <2>4 DEF SoundMetric
    <2> QED BY <2>5 DEF a, l, m
  <1>8. SoundMetrics(keyed)
    BY <1>2, <1>6 DEF SoundMetrics
  <1>9. SoundMetrics(R!WithOcr(keyed, ocr))
    <2> DEFINE with == R!WithOcr(keyed, ocr)
    <2>1. with = [k \in DOMAIN keyed \union others |->
                    IF k \in DOMAIN keyed THEN R!Merged(keyed[k], More(k)) ELSE Alone(k)]
      BY Zenon DEF R!WithOcr
    <2> HIDE DEF with, others, More, Alone
    <2>2. \A k \in DOMAIN with : SoundMetric(with[k])
      <3> TAKE k \in DOMAIN with
      <3>1. k \in DOMAIN keyed \union others
        BY <2>1
      <3>2. with[k] = IF k \in DOMAIN keyed THEN R!Merged(keyed[k], More(k)) ELSE Alone(k)
        BY <2>1, <3>1
      <3> QED BY <1>2, <1>6, <1>7, <3>1, <3>2
    <2> QED BY <2>2 DEF SoundMetrics, with
  <1> QED BY <1>3, <1>8, <1>9 DEF ms

(* What holds of a metric then: its amounts and its conflicts.                *)
LEMMA SoundMetricsTell ==
  ASSUME NEW m, SoundMetric(m)
  PROVE  /\ HasAmount(m.primary) /\ \A i \in DOMAIN m.items : HasAmount(m.items[i])
         /\ \A p \in m.conflicts : (\E i \in DOMAIN m.items : p[1] = m.items[i]) /\ (\E i \in DOMAIN m.items : p[2] = m.items[i])
PROOF
  <1>1. IsList(m.items) /\ \A i \in DOMAIN m.items : HasAmount(m.items[i])
    BY DEF SoundMetric, HaveAmounts, IsList
  <1> QED BY <1>1, ConflictsAreThere DEF SoundMetric

-----------------------------------------------------------------------------
(* A sum over a finite set is taken one element at a time, so that it is a    *)
(* number when every element has one.                                         *)
IsSum(g, size, S) ==
  g = [s \in SUBSET S |-> IF s = {} THEN 0 ELSE size[CHOOSE x \in s : TRUE] + g[s \ {CHOOSE x \in s : TRUE}]]

LEMMA SumsAreTaken ==
  ASSUME NEW S, IsFiniteSet(S), NEW size, \A x \in S : size[x] \in Nat
  PROVE  \E g : IsSum(g, size, S)
PROOF
  <1> DEFINE One(s) == CHOOSE x \in s : TRUE
             Rest(s) == s \ {One(s)}
             Step(g, s) == IF s = {} THEN 0 ELSE size[One(s)] + g[Rest(s)]
             Is(g, m) == /\ g = [s \in SUBSET S |-> g[s]]
                         /\ \A s \in SUBSET S : Cardinality(s) <= m => g[s] = Step(g, s) /\ g[s] \in Nat
             L == {m \in Nat : \E g : Is(g, m)}
  <1>1. ASSUME NEW s \in SUBSET S, s # {}
        PROVE  One(s) \in S /\ Rest(s) \in SUBSET S /\ Cardinality(Rest(s)) = Cardinality(s) - 1
    <2>1. One(s) \in s
      BY <1>1
    <2> HIDE DEF One
    <2>2. IsFiniteSet(s)
      BY FS_Subset
    <2> QED BY <2>1, <2>2, FS_RemoveElement
  <1>2. ASSUME NEW s \in SUBSET S PROVE Cardinality(s) \in Nat /\ Cardinality(s) <= Cardinality(S) /\ (Cardinality(s) = 0 <=> s = {})
    BY FS_Subset, FS_CardinalityType, FS_EmptySet
  <1> HIDE DEF One, Rest
  <1>3. 0 \in L
    <2> DEFINE g == [s \in SUBSET S |-> 0]
    <2>1. Is(g, 0)
      BY <1>2
    <2> HIDE DEF g, Is
    <2> QED BY <2>1
  <1>4. ASSUME NEW m \in Nat, m \in L PROVE m + 1 \in L
    <2>1. PICK g : Is(g, m)
      BY <1>4
    <2> DEFINE h == [s \in SUBSET S |-> Step(g, s)]
    <2>2. h = [s \in SUBSET S |-> h[s]]
      OBVIOUS
    <2>3. \A s \in SUBSET S : h[s] = Step(g, s)
      OBVIOUS
    <2> HIDE DEF h
    <2>4. ASSUME NEW s \in SUBSET S, Cardinality(s) <= m + 1 PROVE h[s] = Step(h, s) /\ h[s] \in Nat
      <3>1. CASE s = {}
        BY <2>3, <3>1
      <3>2. CASE s # {}
        <4>1. One(s) \in S /\ Rest(s) \in SUBSET S /\ Cardinality(Rest(s)) <= m
          BY <1>1, <1>2, <2>4, <3>2
        <4>2. g[Rest(s)] = Step(g, Rest(s)) /\ g[Rest(s)] \in Nat
          BY <2>1, <4>1
        <4>3. h[Rest(s)] = g[Rest(s)] /\ h[s] = size[One(s)] + g[Rest(s)]
          BY <2>3, <3>2, <4>1, <4>2
        <4> QED BY <3>2, <4>1, <4>2, <4>3
      <3> QED BY <3>1, <3>2
    <2>5. Is(h, m + 1)
      <3> HIDE DEF Step
      <3> QED BY <2>2, <2>4
    <2> HIDE DEF Is
    <2> QED BY <2>5
  <1> HIDE DEF L
  <1>5. Cardinality(S) \in L
    <2>1. Cardinality(S) \in Nat
      BY FS_CardinalityType
    <2> QED BY <1>3, <1>4, <2>1, EveryNumber
  <1>6. PICK g : Is(g, Cardinality(S))
    BY <1>5 DEF L
  <1>7. \A s \in SUBSET S : g[s] = Step(g, s) /\ g[s] \in Nat
    BY <1>2, <1>6
  <1>8. g = [s \in SUBSET S |-> Step(g, s)]
    <2> HIDE DEF Step
    <2> QED BY <1>6, <1>7
  <1>9. IsSum(g, size, S)
    BY <1>8 DEF One, Rest, IsSum
  <1> QED BY <1>9

LEMMA SumsStayNumbers ==
  ASSUME NEW S, IsFiniteSet(S), NEW size, \A x \in S : size[x] \in Nat,
         NEW g, IsSum(g, size, S)
  PROVE  g[S] \in Nat
PROOF
  <1> DEFINE One(s) == CHOOSE x \in s : TRUE
             Rest(s) == s \ {One(s)}
             L == {m \in Nat : \A s \in SUBSET S : Cardinality(s) <= m => g[s] \in Nat}
  <1>1. ASSUME NEW s \in SUBSET S, s # {}
        PROVE  One(s) \in S /\ Rest(s) \in SUBSET S /\ Cardinality(Rest(s)) = Cardinality(s) - 1
    <2>1. One(s) \in s
      BY <1>1
    <2> HIDE DEF One
    <2>2. IsFiniteSet(s)
      BY FS_Subset
    <2> QED BY <2>1, <2>2, FS_RemoveElement
  <1>2. ASSUME NEW s \in SUBSET S PROVE Cardinality(s) \in Nat /\ Cardinality(s) <= Cardinality(S) /\ (Cardinality(s) = 0 <=> s = {})
    BY FS_Subset, FS_CardinalityType, FS_EmptySet
  <1>3. \A s \in SUBSET S : g[s] = IF s = {} THEN 0 ELSE size[One(s)] + g[Rest(s)]
    BY DEF IsSum
  <1> HIDE DEF One, Rest
  <1>4. 0 \in L
    BY <1>2, <1>3
  <1>5. ASSUME NEW m \in Nat, m \in L PROVE m + 1 \in L
    <2>1. ASSUME NEW s \in SUBSET S, Cardinality(s) <= m + 1 PROVE g[s] \in Nat
      <3>1. CASE s = {}
        BY <1>3, <3>1
      <3>2. CASE s # {}
        <4>1. One(s) \in S /\ Rest(s) \in SUBSET S /\ Cardinality(Rest(s)) <= m
          BY <1>1, <1>2, <2>1, <3>2
        <4>2. g[Rest(s)] \in Nat /\ g[s] = size[One(s)] + g[Rest(s)]
          BY <1>3, <1>5, <3>2, <4>1
        <4> QED BY <4>1, <4>2
      <3> QED BY <3>1, <3>2
    <2> QED BY <2>1
  <1> HIDE DEF L
  <1>6. Cardinality(S) \in L
    <2>1. Cardinality(S) \in Nat
      BY FS_CardinalityType
    <2> QED BY <1>4, <1>5, <2>1, EveryNumber
  <1> QED BY <1>2, <1>6 DEF L

LEMMA SumsAreNumbers ==
  ASSUME NEW S, IsFiniteSet(S), NEW r, \A j \in S : r.texts[j].size \in Nat
  PROVE  R!SizeOf(r, S) \in Nat
PROOF
  <1> DEFINE texts == r.texts
             size == [j \in S |-> texts[j].size]
             Is(g) == g = [s \in SUBSET S |-> IF s = {} THEN 0 ELSE texts[CHOOSE x \in s : TRUE].size + g[s \ {CHOOSE x \in s : TRUE}]]
             iter == CHOOSE g : Is(g)
  <1>1. R!SizeOf(r, S) = iter[S]
    BY Zenon DEF R!SizeOf, R!MapThenSumSet, R!MapThenFoldSet
  <1>2. \A j \in S : size[j] = texts[j].size /\ size[j] \in Nat
    OBVIOUS
  <1> HIDE DEF size
  <1>3. \A s \in SUBSET S : s # {} => texts[CHOOSE x \in s : TRUE].size = size[CHOOSE x \in s : TRUE]
    BY <1>2
  <1>4. ASSUME NEW g PROVE Is(g) <=> IsSum(g, size, S)
    BY <1>3 DEF IsSum
  <1>5. \E g : IsSum(g, size, S)
    BY <1>2, SumsAreTaken
  <1>6. \A g : IsSum(g, size, S) => g[S] \in Nat
    BY <1>2, SumsStayNumbers
  <1> HIDE DEF Is
  <1>7. Is(iter)
    BY <1>4, <1>5
  <1> HIDE DEF iter
  <1>8. iter[S] \in Nat
    BY <1>4, <1>6, <1>7
  <1> QED BY <1>1, <1>8

-----------------------------------------------------------------------------
(* Each topic has some size: the texts of its blocks are texts of the report. *)
LEMMA NarrativesAreNumbers ==
  ASSUME NEW r, IsReport(r)
  PROVE  \A t \in DOMAIN R!Narratives(r) : R!Narratives(r)[t] \in Nat
PROOF
  <1> DEFINE texts == r.texts
             n == Len(texts)
             told == R!Told(r)
             Topic(b) == R!TopicOf(texts[CHOOSE i \in b : TRUE])
             At(t) == UNION {b \in R!Blocks(r) : Topic(b) = t}
             topics == {Topic(b) : b \in R!Blocks(r)}
             told1 == R!Narratives(r)
  <1>1. n \in Nat /\ DOMAIN texts = 1 .. n /\ \A i \in DOMAIN texts : texts[i].size \in Nat
    BY DEF IsReport, IsList, IsText
  <1>2. told \in SUBSET (1 .. n)
    BY <1>1 DEF R!Told
  <1>3. told1 = [t \in topics |-> R!SizeOf(r, At(t))]
    BY Zenon DEF R!Narratives
  <1>4. \A b \in R!Blocks(r) : b \subseteq told
    BY DEF R!Blocks, R!BlockOf
  <1>5. ASSUME NEW t PROVE R!SizeOf(r, At(t)) \in Nat
    <2> DEFINE S == At(t)
    <2>1. S \subseteq told
      BY <1>4
    <2> HIDE DEF S, told
    <2>2. IsFiniteSet(S) /\ \A j \in S : texts[j].size \in Nat
      <3>1. S \subseteq 1 .. n
        BY <1>2, <2>1
      <3> HIDE DEF n, texts
      <3>2. IsFiniteSet(1 .. n)
        BY <1>1, FS_Interval
      <3>3. IsFiniteSet(S)
        BY <3>1, <3>2, FS_Subset, Zenon
      <3>4. \A j \in S : texts[j].size \in Nat
        BY <1>1, <3>1, Zenon
      <3> QED BY <3>3, <3>4
    <2>3. R!SizeOf(r, S) \in Nat
      BY <2>2, SumsAreNumbers
    <2> QED BY <2>3 DEF S
  <1> HIDE DEF topics, At, told1
  <1>6. DOMAIN told1 = topics /\ \A t \in topics : told1[t] = R!SizeOf(r, At(t))
    BY <1>3
  <1> QED BY <1>5, <1>6 DEF told1

(* A report compared with itself: nothing differs, nothing is missing.        *)
LEMMA OwnNarrativesAreAlike ==
  ASSUME NEW a, \A t \in DOMAIN a : a[t] \in Nat
  PROVE  R!NarrativeDiffs(a, a) = {}
PROOF
  <1> DEFINE Uneven(t) == R!Larger(a[t], a[t]) * 10 > (a[t] + a[t] - R!Larger(a[t], a[t])) * 18
  <1>1. \A t \in DOMAIN a : ~Uneven(t)
    <2> TAKE t \in DOMAIN a
    <2> DEFINE x == a[t]
    <2>1. x \in Nat
      OBVIOUS
    <2> HIDE DEF x
    <2>2. R!Larger(x, x) = x
      BY <2>1 DEF R!Larger
    <2>3. ~(R!Larger(x, x) * 10 > (x + x - R!Larger(x, x)) * 18)
      BY <2>1, <2>2
    <2> QED BY <2>3 DEF x
  <1>2. DOMAIN a \intersect DOMAIN a = DOMAIN a /\ DOMAIN a \ DOMAIN a = {}
    OBVIOUS
  <1>3. {t \in DOMAIN a : Uneven(t)} = {}
    BY <1>1
  <1> HIDE DEF Uneven
  <1> DEFINE none == {t \in DOMAIN a : Uneven(t)}
             both == DOMAIN a \intersect DOMAIN a
             gone == DOMAIN a \ DOMAIN a
  <1>4. {t \in both : Uneven(t)} = {} /\ gone = {}
    BY <1>2, <1>3
  <1> QED BY <1>4 DEF R!NarrativeDiffs, Uneven

LEMMA OwnChaptersAreThere ==
  ASSUME NEW a
  PROVE  R!StructureDiffs(a, a) = {}
PROOF
  <1> QED BY DEF R!StructureDiffs

LEMMA OwnMetricsAreAlike ==
  ASSUME NEW a, SoundMetrics(a)
  PROVE  R!MetricDiffs(a, a) = {}
PROOF
  <1>1. \A k \in DOMAIN a : R!Amount(a[k].primary) \in Int
    BY SoundMetricsTell DEF SoundMetrics, HasAmount, R!Amount
  <1>2. ASSUME NEW k, NEW x \in Int PROVE R!Tolerated(k, x, x)
    <2>1. x - x = 0 /\ R!Abs(0) = 0
      BY DEF R!Abs
    <2>2. R!Abs(x) \in Nat
      BY DEF R!Abs
    <2>3. R!Larger(R!Abs(x), R!Abs(x)) = R!Abs(x)
      BY DEF R!Larger
    <2>4. R!Larger(100, R!Abs(x)) \in Nat
      BY <2>2 DEF R!Larger
    <2>5. R!Abs(x - x) * 1000 <= 5 * R!Larger(R!Abs(x), R!Abs(x))
      BY <2>1, <2>2, <2>3
    <2>6. R!Abs(x - x) * 100 <= R!Larger(100, R!Larger(R!Abs(x), R!Abs(x)))
      BY <2>1, <2>3, <2>4
    <2> QED BY <2>5, <2>6 DEF R!Tolerated
  <1>3. \A k \in DOMAIN a : R!Tolerated(k, R!Amount(a[k].primary), R!Amount(a[k].primary))
    BY <1>1, <1>2
  <1> QED BY <1>3 DEF R!MetricDiffs

LEMMA OwnValuesAreCorroborated ==
  ASSUME NEW a, SoundMetrics(a)
  PROVE  R!InternalDiffs(a, a) = {}
PROOF
  <1>1. ASSUME NEW x, HasAmount(x) PROVE R!Within(R!Amount(x), R!Amount(x), 1, 1000)
    <2> DEFINE v == R!Amount(x)
    <2>1. v \in Int
      BY <1>1 DEF HasAmount, R!Amount
    <2> HIDE DEF v
    <2>2. v - v = 0 /\ R!Abs(0) = 0 /\ R!Abs(v) \in Nat
      BY <2>1 DEF R!Abs
    <2>3. R!Larger(R!Abs(v), R!Abs(v)) \in Nat
      BY <2>2 DEF R!Larger
    <2> QED BY <2>2, <2>3 DEF R!Within, v
  <1>2. ASSUME NEW k \in DOMAIN a, NEW x, \E i \in DOMAIN a[k].items : x = a[k].items[i]
        PROVE  R!Corroborated(x, k, a)
    <2> DEFINE s == a[k].items
    <2>1. PICK i \in DOMAIN s : x = s[i]
      BY <1>2
    <2>2. HasAmount(x)
      BY <2>1, SoundMetricsTell DEF SoundMetrics
    <2>3. R!Within(R!Amount(x), R!Amount(s[i]), 1, 1000)
      BY <1>1, <2>1, <2>2
    <2> QED BY <2>1, <2>3 DEF R!Corroborated
  <1>3. \A k \in DOMAIN a : \A p \in a[k].conflicts : R!Corroborated(p[1], k, a) /\ R!Corroborated(p[2], k, a)
    BY <1>2, SoundMetricsTell DEF SoundMetrics
  <1> QED BY <1>3 DEF R!InternalDiffs

LEMMA ProfileIsClean ==
  ASSUME RunProfiles
  PROVE  ProfileSameIsClean'
PROOF
  <1> DEFINE p == R!Profile(input'.as)
             q == R!Profile(input'.hs)
  <1>1. PICK as \in Reports : \E hs \in {as} \union Retouches(as) \union {r \in Reports : Len(r.tables) = 0} : input' = [as |-> as, hs |-> hs]
    BY Zenon DEF RunProfiles
  <1>2. input'.as = as
    BY <1>1
  <1>3. IsReport(as)
    BY <1>1, ReportsAssumption DEF ReportsAssumption
  <1>4. found' = Compared(p, q)
    BY Zenon DEF RunProfiles
  <1>5. found'.told = R!ProfileDiffs(p, q)
    <2> HIDE DEF p, q
    <2> QED BY <1>4 DEF Compared
  <1>6. SoundMetrics(R!Metrics(as))
    BY <1>3, MetricsAreSound
  <1>7. \A t \in DOMAIN R!Narratives(as) : R!Narratives(as)[t] \in Nat
    BY <1>3, NarrativesAreNumbers
  <1>8. p.metrics = R!Metrics(as) /\ p.narratives = R!Narratives(as)
    BY <1>2 DEF R!Profile
  <1>9. input'.as = input'.hs => p = q
    BY Zenon
  <1> HIDE DEF p, q
  <1>10. R!ProfileDiffs(p, p) = {}
    <2>1. R!MetricDiffs(p.metrics, p.metrics) = {} /\ R!InternalDiffs(p.metrics, p.metrics) = {}
      BY <1>6, <1>8, OwnMetricsAreAlike, OwnValuesAreCorroborated
    <2>2. R!NarrativeDiffs(p.narratives, p.narratives) = {}
      BY <1>7, <1>8, OwnNarrativesAreAlike
    <2>3. R!StructureDiffs(p.structure, p.structure) = {}
      BY OwnChaptersAreThere
    <2> QED BY <2>1, <2>2, <2>3 DEF R!ProfileDiffs
  <1> QED BY <1>5, <1>9, <1>10 DEF ProfileSameIsClean

-----------------------------------------------------------------------------
(* RunProfiles, altered reports: a report with one number altered is one.     *)
LEMMA ChangedIsAList ==
  ASSUME NEW s, IsList(s), NEW i \in DOMAIN s, NEW v
  PROVE  /\ IsList([s EXCEPT ![i] = v]) /\ DOMAIN [s EXCEPT ![i] = v] = DOMAIN s
         /\ \A j \in DOMAIN s : [s EXCEPT ![i] = v][j] = IF j = i THEN v ELSE s[j]
PROOF
  <1> DEFINE n == Len(s)
             t == [s EXCEPT ![i] = v]
             S == {t[j] : j \in 1 .. n}
  <1>1. n \in Nat /\ DOMAIN s = 1 .. n
    BY DEF IsList
  <1>2. /\ DOMAIN t = DOMAIN s
        /\ \A j \in DOMAIN s : t[j] = IF j = i THEN v ELSE s[j]
    OBVIOUS
  <1>3. t = [j \in 1 .. n |-> t[j]]
    <2>1. t = [j \in DOMAIN s |-> IF j = i THEN v ELSE s[j]]
      OBVIOUS
    <2> HIDE DEF t, n
    <2> QED BY <1>1, <1>2, <2>1
  <1> HIDE DEF t, n
  <1>4. t \in [1 .. n -> S]
    BY <1>3
  <1>5. t \in Seq(S) /\ Len(t) = n
    <2> HIDE DEF S
    <2> QED BY <1>1, <1>4
  <1>6. IsList(t)
    BY <1>1, <1>2, <1>5 DEF IsList
  <1> QED BY <1>2, <1>6 DEF t

LEMMA RetouchedIsRead ==
  ASSUME NEW r, IsReport(r), NEW t \in DOMAIN r.tables, NEW i \in DOMAIN r.tables[t].rows,
         NEW c \in DOMAIN r.tables[t].rows[i], NEW to \in Int
  PROVE  IsReport(Retouched(r, t, i, c, to))
PROOF
  <1> DEFINE new == Retouched(r, t, i, c, to)
             ts == r.tables
             table == ts[t]
             rows == table.rows
             row == rows[i]
             cell == row[c]
             cell1 == [cell EXCEPT !.n = IF cell.n = 0 THEN 0 ELSE to]
             row1 == [row EXCEPT ![c] = cell1]
             rows1 == [rows EXCEPT ![i] = row1]
             table1 == [table EXCEPT !.rows = rows1]
             ts1 == [ts EXCEPT ![t] = table1]
  <1>1. /\ {"tables", "texts", "ocr"} \subseteq DOMAIN r /\ IsList(ts) /\ IsTable(table)
        /\ \A s \in DOMAIN ts : IsTable(ts[s])
    BY DEF IsReport
  <1>2. /\ {"unit", "rows"} \subseteq DOMAIN table /\ table.unit \in Int /\ IsList(rows) /\ IsList(row) /\ "n" \in DOMAIN cell /\ cell.n \in Int
        /\ \A j \in DOMAIN rows : IsList(rows[j]) /\ \A d \in DOMAIN rows[j] : "n" \in DOMAIN rows[j][d] /\ rows[j][d].n \in Int
    BY <1>1 DEF IsTable
  <1>3. new.texts = r.texts /\ new.ocr = r.ocr /\ new.tables = ts1 /\ {"tables", "texts", "ocr"} \subseteq DOMAIN new
    <2>1. {"tables", "texts", "ocr"} \subseteq DOMAIN new /\ new.texts = r.texts /\ new.ocr = r.ocr
      BY <1>1 DEF Retouched
    <2>2. new.tables = ts1
      BY <1>1 DEF Retouched
    <2> QED BY <2>1, <2>2
  <1> HIDE DEF new, ts, table, rows, row, cell
  <1>4. "n" \in DOMAIN cell1 /\ cell1.n \in Int
    BY <1>2
  <1> HIDE DEF cell1
  <1>5. /\ IsList(row1) /\ DOMAIN row1 = DOMAIN row
        /\ \A d \in DOMAIN row1 : "n" \in DOMAIN row1[d] /\ row1[d].n \in Int
    <2>1. IsList(row1) /\ DOMAIN row1 = DOMAIN row /\ \A d \in DOMAIN row : row1[d] = IF d = c THEN cell1 ELSE row[d]
      BY <1>2, ChangedIsAList DEF row, rows, table, ts
    <2>2. \A d \in DOMAIN row : "n" \in DOMAIN row[d] /\ row[d].n \in Int
      BY <1>2 DEF row, rows, table, ts
    <2> HIDE DEF row1
    <2> QED BY <1>4, <2>1, <2>2
  <1> HIDE DEF row1
  <1>6. /\ IsList(rows1)
        /\ \A j \in DOMAIN rows1 : IsList(rows1[j]) /\ \A d \in DOMAIN rows1[j] : "n" \in DOMAIN rows1[j][d] /\ rows1[j][d].n \in Int
    <2>1. IsList(rows1) /\ DOMAIN rows1 = DOMAIN rows /\ \A d \in DOMAIN rows : rows1[d] = IF d = i THEN row1 ELSE rows[d]
      BY <1>2, ChangedIsAList DEF rows, table, ts
    <2> HIDE DEF rows1
    <2> QED BY <1>2, <1>5, <2>1
  <1> HIDE DEF rows1
  <1>7. IsTable(table1)
    <2>1. {"unit", "rows"} \subseteq DOMAIN table1 /\ table1.unit = table.unit /\ table1.rows = rows1
      BY <1>2
    <2> HIDE DEF table1
    <2> QED BY <1>2, <1>6, <2>1 DEF IsTable
  <1> HIDE DEF table1
  <1>8. IsList(ts1) /\ \A s \in DOMAIN ts1 : IsTable(ts1[s])
    <2>1. IsList(ts1) /\ DOMAIN ts1 = DOMAIN ts /\ \A d \in DOMAIN ts : ts1[d] = IF d = t THEN table1 ELSE ts[d]
      BY <1>1, ChangedIsAList DEF ts
    <2> HIDE DEF ts1
    <2> QED BY <1>1, <1>7, <2>1
  <1> HIDE DEF ts1
  <1>9. IsReport(new)
    BY <1>3, <1>8 DEF IsReport
  <1> QED BY <1>9 DEF new

LEMMA OneIsRetouched ==
  ASSUME NEW r, NEW new \in Retouches(r)
  PROVE  \E to \in NewNumbers : \E p \in {q \in (DOMAIN r.tables) \X (1 .. 3) \X (1 .. 4) :
           q[2] \in DOMAIN r.tables[q[1]].rows /\ q[3] \in DOMAIN r.tables[q[1]].rows[q[2]]} :
             new = Retouched(r, p[1], p[2], p[3], to)
PROOF
  BY DEF Retouches

LEMMA ReportsAreRead ==
  ASSUME RunProfiles
  PROVE  IsReport(input'.as) /\ IsReport(input'.hs)
PROOF
  <1>0. PICK as \in Reports : \E hs \in {as} \union Retouches(as) \union {r \in Reports : Len(r.tables) = 0} :
          input' = [as |-> as, hs |-> hs]
    BY Zenon DEF RunProfiles
  <1>1. PICK hs \in {as} \union Retouches(as) \union {r \in Reports : Len(r.tables) = 0} : input' = [as |-> as, hs |-> hs]
    BY <1>0
  <1>2. NewNumbers \subseteq Int /\ \A r \in Reports : IsReport(r)
    BY ReportsAssumption DEF ReportsAssumption
  <1>3. ASSUME hs \in Retouches(as) PROVE IsReport(hs)
    <2> DEFINE cells == {q \in (DOMAIN as.tables) \X (1 .. 3) \X (1 .. 4) :
                           q[2] \in DOMAIN as.tables[q[1]].rows /\ q[3] \in DOMAIN as.tables[q[1]].rows[q[2]]}
    <2>0. \E to \in NewNumbers : \E p \in cells : hs = Retouched(as, p[1], p[2], p[3], to)
      BY <1>3, OneIsRetouched
    <2> HIDE DEF cells
    <2>1. PICK to \in NewNumbers, p \in cells : hs = Retouched(as, p[1], p[2], p[3], to)
      BY <2>0
    <2>2. p[1] \in DOMAIN as.tables /\ p[2] \in DOMAIN as.tables[p[1]].rows /\ p[3] \in DOMAIN as.tables[p[1]].rows[p[2]]
      BY <2>1 DEF cells
    <2> QED BY <1>0, <1>2, <2>1, <2>2, RetouchedIsRead
  <1>4. IsReport(hs)
    BY <1>0, <1>1, <1>2, <1>3
  <1> QED BY <1>0, <1>1, <1>2, <1>4

-----------------------------------------------------------------------------
(* RunProfiles, altered reports: what is within 1 per mille of an amount is   *)
(* tolerated beside it, whichever of the two comes first.                     *)
LEMMA NearIsTolerated ==
  ASSUME NEW k, NEW x \in Int, NEW y \in Int
  PROVE  /\ R!Within(x, y, 1, 1000) => R!Tolerated(k, x, y)
         /\ R!Tolerated(k, x, y) <=> R!Tolerated(k, y, x)
PROOF
  <1> DEFINE d == R!Abs(x - y)
             a == R!Abs(x)
             h == R!Abs(y)
             l == R!Larger(a, h)
             m == R!Larger(100, l)
  <1>1. a \in Nat /\ h \in Nat /\ d \in Nat /\ R!Abs(y - x) = d
    BY DEF R!Abs
  <1>2. R!Larger(h, a) = l /\ l \in Nat
    BY <1>1 DEF R!Larger
  <1>3. m \in Nat /\ l <= m
    BY <1>2 DEF R!Larger
  <1>4. /\ R!Tolerated(k, x, y) <=> IF k \in {"eps"} THEN d * 1000 <= 5 * l ELSE d * 100 <= m
        /\ R!Tolerated(k, y, x) <=> IF k \in {"eps"} THEN d * 1000 <= 5 * l ELSE d * 100 <= m
    BY <1>1, <1>2 DEF R!Tolerated
  <1>5. R!Within(x, y, 1, 1000) <=> d * 1000 <= 1 * l
    BY DEF R!Within
  <1> HIDE DEF d, a, h, l, m
  <1>6. d * 1000 <= 1 * l => d * 1000 <= 5 * l /\ d * 100 <= m
    BY <1>1, <1>2, <1>3
  <1> QED BY <1>4, <1>5, <1>6

LEMMA ProfileIsTold ==
  ASSUME RunProfiles
  PROVE  ProfileAlterationIsTold'
PROOF
  <1> DEFINE p == R!Profile(input'.as)
             q == R!Profile(input'.hs)
             a == p.metrics
             h == q.metrics
             told == found'.told
  <1>1. SoundMetrics(a) /\ SoundMetrics(h)
    <2>1. IsReport(input'.as) /\ IsReport(input'.hs)
      BY ReportsAreRead
    <2> QED BY <2>1, MetricsAreSound DEF R!Profile
  <1>2. found' = Compared(p, q)
    BY Zenon DEF RunProfiles
  <1>3. found'.a = a /\ found'.h = h /\ told = R!ProfileDiffs(p, q)
    <2> HIDE DEF p, q
    <2> QED BY <1>2 DEF Compared
  <1>4. R!MetricDiffs(a, h) \subseteq told /\ R!InternalDiffs(h, a) \subseteq told
    <2> HIDE DEF p, q
    <2> QED BY <1>3 DEF R!ProfileDiffs
  <1> HIDE DEF a, h, told
  <1>5. ASSUME NEW k \in DOMAIN a \intersect DOMAIN h, NEW i \in DOMAIN h[k].items
        PROVE  LET x == h[k].items[i]
                   rest == R!Reliable(h[k].items)
               IN \/ \E j \in DOMAIN a[k].items : R!Tolerated(k, R!Amount(x), R!Amount(a[k].items[j]))
                  \/ x # h[k].primary
                     /\ (Cardinality(Against(rest)) > 2 \/ \A o \in Against(rest) : x \notin {rest[o[1]], rest[o[2]]})
                  \/ \E d \in IF x = h[k].primary THEN told ELSE R!Findings(told) : d.key = k
    <2> DEFINE as == a[k].items
               hs == h[k].items
               x == hs[i]
               rest == R!Reliable(hs)
               few == ~(Cardinality(Against(rest)) > 2)
    <2>1. /\ SoundMetric(a[k]) /\ SoundMetric(h[k])
      BY <1>1 DEF SoundMetrics
    <2>2. /\ \A j \in DOMAIN as : R!Amount(as[j]) \in Int
          /\ R!Amount(x) \in Int
      BY <2>1, SoundMetricsTell DEF HasAmount, R!Amount
    <2>3. PICK j \in DOMAIN as : a[k].primary = as[j]
      BY <2>1 DEF SoundMetric
    <2> SUFFICES ASSUME \A l \in DOMAIN as : ~R!Tolerated(k, R!Amount(x), R!Amount(as[l])),
                        x # h[k].primary => few /\ \E o \in Against(rest) : x \in {rest[o[1]], rest[o[2]]}
                 PROVE  \E d \in IF x = h[k].primary THEN told ELSE R!Findings(told) : d.key = k
      BY Zenon
    <2>6. IsList(hs)
      BY <2>1 DEF SoundMetric, HaveAmounts
    <2>7. few => Cardinality(Against(rest)) <= 2
      <3>1. Cardinality(Against(rest)) \in Nat
        BY <2>6, ConflictsAreThere
      <3> HIDE DEF rest
      <3> QED BY <3>1
    <2>4. CASE x = h[k].primary
      <3>1. ~R!Tolerated(k, R!Amount(a[k].primary), R!Amount(h[k].primary))
        BY <2>2, <2>3, <2>4, NearIsTolerated
      <3> DEFINE f == R!Found("metric_mismatch", k, R!Triage(FALSE, ~N!Compatible(R!ContextOf(a[k].primary), R!ContextOf(h[k].primary), FALSE)))
      <3>2. f \in R!MetricDiffs(a, h)
        BY <3>1 DEF R!MetricDiffs
      <3>3. f.key = k
        BY DEF R!Found
      <3> HIDE DEF f
      <3> QED BY <1>4, <2>4, <3>2, <3>3
    <2>5. CASE x # h[k].primary
      <3>1. PICK o \in Against(rest) : x \in {rest[o[1]], rest[o[2]]}
        BY <2>5
      <3> DEFINE c == <<rest[o[1]], rest[o[2]]>>
      <3>2. c \in h[k].conflicts
        BY <2>1, <2>5, <2>6, <2>7, <3>1, ConflictsAreThere DEF SoundMetric
      <3>3. ~R!Corroborated(x, k, a)
        <4>1. \A l \in DOMAIN as : ~R!Within(R!Amount(x), R!Amount(as[l]), 1, 1000)
          BY <2>2, NearIsTolerated
        <4> QED BY <4>1 DEF R!Corroborated
      <3>4. x = c[1] \/ x = c[2]
        BY <3>1
      <3> HIDE DEF c
      <3> DEFINE f == R!Found("internal_inconsistency", k, "unresolved")
      <3>5. f \in R!InternalDiffs(h, a)
        BY <3>2, <3>3, <3>4 DEF R!InternalDiffs
      <3>6. f.key = k /\ f.type = "internal_inconsistency"
        BY DEF R!Found
      <3> HIDE DEF f
      <3> QED BY <1>4, <2>5, <3>5, <3>6 DEF R!Findings
    <2> QED BY <2>4, <2>5
  <1> QED BY <1>3, <1>5, Zenon DEF ProfileAlterationIsTold, told

-----------------------------------------------------------------------------
(* Each check is run by its own action.                                       *)
LEMMA EachCheckAsItRuns ==
  ASSUME Next
  PROVE  /\ check' = "numeric" => RunNumeric
         /\ check' = "tamper" => RunTamper
         /\ check' = "visual" => RunVisual
         /\ check' = "pairing" => RunPairing
         /\ check' = "tables" => RunTables
         /\ check' = "facts" => RunFacts
         /\ check' = "events" => RunEvents
         /\ check' = "profiles" => RunProfiles
         /\ check' = "rows" => RunRows
         /\ check' = "branches" => RunBranches
         /\ check' = "positions" => RunPositions
PROOF
  <1>1. /\ RunNumeric => check' = "numeric"
        /\ RunTamper => check' = "tamper"
        /\ RunVisual => check' = "visual"
        /\ RunPairing => check' = "pairing"
        /\ RunTables => check' = "tables"
    BY Zenon DEF RunNumeric, RunTamper, RunVisual, RunPairing, RunTables, Run
  <1>2. /\ RunFacts => check' = "facts"
        /\ RunEvents => check' = "events"
        /\ RunProfiles => check' = "profiles"
        /\ RunFactor => check' = "factor"
        /\ RunPages => check' = "pages"
        /\ RunReview => check' = "review"
    BY Zenon DEF RunFacts, RunEvents, RunProfiles, RunFactor, RunPages, RunReview, Run
  <1>3. /\ RunRows => check' = "rows"
        /\ RunBranches => check' = "branches"
        /\ RunPositions => check' = "positions"
    BY Zenon DEF RunRows, RunBranches, RunPositions, Run
  <1> QED BY <1>1, <1>2, <1>3 DEF Next

(* Whatever two equal reports say, restated, in other contexts and sections,  *)
(* in slipped rows: pairing, thresholds, vetoes and reconciliation make no    *)
(* contradiction of it in any of the eleven checks, but low findings of       *)
(* key_metric_tamper.py.                                                      *)
THEOREM EqualReportsAreClean == Spec => []SameReportIsClean
PROOF
  <1>1. Init => SameReportIsClean
    BY DEF Init, SameReportIsClean, NumericSameIsClean, MetricSameIsClean, VisualSameIsClean, ParagraphSameIsClean,
           TableSameIsClean, FactSameIsClean, EventSameIsClean, ProfileSameIsClean, RowSameIsClean, BranchSameIsClean, PlaceSameIsClean
  <1>2. ASSUME Next PROVE SameReportIsClean'
    <2>1. NumericSameIsClean'
      BY <1>2, EachCheckAsItRuns, NumericIsClean DEF NumericSameIsClean
    <2>2. MetricSameIsClean'
      BY <1>2, EachCheckAsItRuns, MetricIsClean DEF MetricSameIsClean
    <2>3. VisualSameIsClean'
      BY <1>2, EachCheckAsItRuns, VisualIsCleanAndTold DEF VisualSameIsClean
    <2>4. ParagraphSameIsClean'
      BY <1>2, EachCheckAsItRuns, ParagraphIsClean DEF ParagraphSameIsClean
    <2>5. TableSameIsClean'
      BY <1>2, EachCheckAsItRuns, TableIsClean DEF TableSameIsClean
    <2>6. FactSameIsClean'
      BY <1>2, EachCheckAsItRuns, FactIsClean DEF FactSameIsClean
    <2>7. EventSameIsClean'
      BY <1>2, EachCheckAsItRuns, EventIsClean DEF EventSameIsClean
    <2>8. ProfileSameIsClean'
      BY <1>2, EachCheckAsItRuns, ProfileIsClean DEF ProfileSameIsClean
    <2>9. RowSameIsClean'
      BY <1>2, EachCheckAsItRuns, RowsAreClean DEF RowSameIsClean
    <2>10. BranchSameIsClean'
      BY <1>2, EachCheckAsItRuns, BranchesAreTold DEF BranchSameIsClean
    <2>11. PlaceSameIsClean'
      BY <1>2, EachCheckAsItRuns, PlaceIsClean DEF PlaceSameIsClean
    <2> QED BY <2>1, <2>2, <2>3, <2>4, <2>5, <2>6, <2>7, <2>8, <2>9, <2>10, <2>11 DEF SameReportIsClean
  <1>3. ASSUME SameReportIsClean, UNCHANGED vars PROVE SameReportIsClean'
    BY <1>3 DEF vars, SameReportIsClean, NumericSameIsClean, MetricSameIsClean, VisualSameIsClean, ParagraphSameIsClean,
                TableSameIsClean, FactSameIsClean, EventSameIsClean, ProfileSameIsClean, RowSameIsClean, BranchSameIsClean, PlaceSameIsClean
  <1> QED BY <1>1, <1>2, <1>3, PTL DEF Spec

(* An altered amount of a key metric, a number that is seen otherwise than    *)
(* the text layer has it, and what only one profile says of a metric are      *)
(* told, whatever the reports: by reconciliation, by the sharing of findings  *)
(* between both reports and by tolerances and capped conflicts no more gets   *)
(* lost than each part names.                                                 *)
THEOREM AlteredMetricsAreTold == Spec => [](MetricAlterationIsTold /\ VisibleAlterationIsTold /\ ProfileAlterationIsTold)
PROOF
  <1> DEFINE Inv == MetricAlterationIsTold /\ VisibleAlterationIsTold /\ ProfileAlterationIsTold
  <1>1. Init => Inv
    BY DEF Init, MetricAlterationIsTold, VisibleAlterationIsTold, ProfileAlterationIsTold
  <1>2. ASSUME Next PROVE Inv'
    <2>1. MetricAlterationIsTold'
      BY <1>2, EachCheckAsItRuns, MetricIsTold DEF MetricAlterationIsTold
    <2>2. VisibleAlterationIsTold'
      BY <1>2, EachCheckAsItRuns, VisualIsCleanAndTold DEF VisibleAlterationIsTold
    <2>3. ProfileAlterationIsTold'
      BY <1>2, EachCheckAsItRuns, ProfileIsTold DEF ProfileAlterationIsTold
    <2> QED BY <2>1, <2>2, <2>3
  <1>3. ASSUME Inv, UNCHANGED vars PROVE Inv'
    BY <1>3 DEF vars, MetricAlterationIsTold, VisibleAlterationIsTold, ProfileAlterationIsTold
  <1> QED BY <1>1, <1>2, <1>3, PTL DEF Spec

-----------------------------------------------------------------------------
(* RunPositions, altered pages: places that keep their numbers pair with      *)
(* themselves, and only those that differ are told.                           *)
IsCounted(w) == Len(w.text) >= 4 /\ ~T!IsYear(w.text)
LaidOver(as, hs) ==
  /\ HasPlaces(as) /\ HasPlaces(hs) /\ Len(hs) = Len(as)
  /\ \A k, l \in 1 .. Len(as) : T!Near(as[k], hs[l]) <=> k = l
  /\ \A k, l \in 1 .. Len(as) : T!Near(as[k], as[l]) <=> k = l
SamePlaces(a, h) ==
  /\ HasPlaces(a) /\ HasPlaces(h) /\ Len(h) = Len(a)
  /\ \A i \in 1 .. Len(a) : h[i].x = a[i].x /\ h[i].y = a[i].y /\ (IsCounted(h[i]) <=> IsCounted(a[i]))
  /\ \A i, j \in 1 .. Len(a) : i = j \/ ~T!Near(a[i], a[j])

LEMMA SamePlacesAreLaidOver ==
  ASSUME NEW a, NEW h, SamePlaces(a, h)
  PROVE  /\ LaidOver(T!Numeric(a), T!Numeric(h))
         /\ \E at : /\ IsPick(T!Numeric(a), a, {i \in DOMAIN a : IsCounted(a[i])}, at)
                    /\ IsPick(T!Numeric(h), h, {i \in DOMAIN a : IsCounted(a[i])}, at)
PROOF
  <1> DEFINE n == Len(a)
             places == {i \in DOMAIN a : IsCounted(a[i])}
             as == T!Numeric(a)
             hs == T!Numeric(h)
  <1>1. HasPlaces(a) /\ HasPlaces(h) /\ n \in Nat /\ DOMAIN a = 1 .. n /\ DOMAIN h = 1 .. n /\ Len(h) = n
    BY DEF SamePlaces, HasPlaces, Proper
  <1>2. {i \in DOMAIN h : IsCounted(h[i])} = places
    BY <1>1 DEF SamePlaces
  <1>3. /\ as = T!Picked(a, places)
        /\ hs = T!Picked(h, {i \in DOMAIN h : IsCounted(h[i])})
    BY DEF T!Numeric, IsCounted
  <1> HIDE DEF as, hs
  <1>4. places \in SUBSET (1 .. n)
    BY <1>1
  <1> HIDE DEF places
  <1>5. as = Picked(a, places) /\ hs = Picked(h, places)
    BY <1>2, <1>3, SameListings, Zenon
  <1> HIDE DEF n
  <1>6. PICK at : \A s : IsPick(Picked(s, places), s, places, at)
    BY <1>1, <1>4, PickedInPlace
  <1>7. IsPick(as, a, places, at) /\ IsPick(hs, h, places, at)
    BY <1>5, <1>6, Zenon
  <1>8. /\ Proper(as) /\ Proper(hs) /\ Len(hs) = Len(as)
        /\ \A k \in 1 .. Len(as) : at[k] \in places /\ as[k] = a[at[k]] /\ hs[k] = h[at[k]]
        /\ \A k, l \in 1 .. Len(as) : k < l => at[k] < at[l]
    BY <1>7 DEF IsPick
  <1>9. \A k \in 1 .. Len(as) : at[k] \in 1 .. n
    BY <1>4, <1>8
  <1>10. \A i \in 1 .. n : IsWord(a[i]) /\ IsWord(h[i]) /\ h[i].x = a[i].x /\ h[i].y = a[i].y
    BY <1>1 DEF SamePlaces, HasPlaces, n
  <1>11. HasPlaces(as) /\ HasPlaces(hs)
    BY <1>8, <1>9, <1>10 DEF HasPlaces
  <1>12. Len(as) \in Nat
    BY <1>8 DEF Proper
  <1>13. ASSUME NEW i \in 1 .. n, NEW j \in 1 .. n
         PROVE  /\ T!Near(a[i], a[j]) <=> i = j
                /\ T!Near(a[i], h[j]) <=> i = j
    <2>1. T!Near(a[i], h[j]) <=> T!Near(a[i], a[j])
      BY <1>10 DEF T!Near
    <2>2. i # j => ~T!Near(a[i], a[j])
      BY DEF SamePlaces, n
    <2>3. T!Near(a[i], a[i])
      <3> DEFINE x == a[i].x
                 y == a[i].y
      <3>1. x \in Int /\ y \in Int
        BY <1>10 DEF IsWord
      <3> HIDE DEF x, y
      <3>2. T!Abs(x - x) <= 2 /\ T!Abs(y - y) <= 2
        BY <3>1 DEF T!Abs
      <3> QED BY <3>2 DEF T!Near, x, y
    <2> QED BY <2>1, <2>2, <2>3
  <1>14. \A k, l \in 1 .. Len(as) : at[k] = at[l] <=> k = l
    <2> SUFFICES ASSUME NEW k \in 1 .. Len(as), NEW l \in 1 .. Len(as), k # l PROVE at[k] # at[l]
      OBVIOUS
    <2>1. k < l \/ l < k
      BY <1>12
    <2>5. n \in Nat
      BY <1>1
    <2>6. at[k] \in 1 .. n /\ at[l] \in 1 .. n
      BY <1>9
    <2>2. at[k] \in Int /\ at[l] \in Int
      BY <2>5, <2>6
    <2>3. at[k] < at[l] \/ at[l] < at[k]
      BY <1>8, <2>1, Zenon
    <2> DEFINE x == at[k]
               y == at[l]
    <2> HIDE DEF x, y
    <2>4. x # y
      BY <2>2, <2>3 DEF x, y
    <2> QED BY <2>4 DEF x, y
  <1>15. \A k, l \in 1 .. Len(as) : /\ T!Near(as[k], hs[l]) <=> k = l
                                    /\ T!Near(as[k], as[l]) <=> k = l
    <2> SUFFICES ASSUME NEW k \in 1 .. Len(as), NEW l \in 1 .. Len(as)
                 PROVE  /\ T!Near(as[k], hs[l]) <=> k = l
                        /\ T!Near(as[k], as[l]) <=> k = l
      OBVIOUS
    <2>1. as[k] = a[at[k]] /\ as[l] = a[at[l]] /\ hs[l] = h[at[l]]
      BY <1>8, Zenon
    <2>2. at[k] \in 1 .. n /\ at[l] \in 1 .. n
      BY <1>9
    <2>3. at[k] = at[l] <=> k = l
      BY <1>14
    <2> QED BY <1>13, <2>1, <2>2, <2>3
  <1>16. LaidOver(as, hs)
    BY <1>8, <1>11, <1>15 DEF LaidOver
  <1> QED BY <1>7, <1>16 DEF as, hs, places

LEMMA RankedOnce ==
  ASSUME NEW n \in Nat, NEW pairs \in SUBSET (Int \X Int), IsFiniteSet(pairs), NEW rank,
         \A p \in pairs : rank[p] \in Ints(n)
  PROVE  \A i, j \in DOMAIN Ranked(pairs, rank) : Ranked(pairs, rank)[i] = Ranked(pairs, rank)[j] => i = j
PROOF
  <1> DEFINE Y == Entries(pairs, rank)
             Ord == ByRank(Y)
             c == Cardinality(Y)
             t == Listed(Y, Ord)
             r == Ranked(pairs, rank)
  <1>1. IsOrder(Ord, Y) /\ IsTotal(Ord, Y)
    BY EntriesAreOrdered, Zenon
  <1>2. IsFiniteSet(Y)
    <2> DEFINE f == [p \in pairs |-> <<rank[p], p>>]
    <2>1. f \in Surjection(pairs, Y)
      BY DEF Surjection, Entries
    <2> HIDE DEF f, Y
    <2> QED BY <2>1, FS_Surjection
  <1>3. \A e \in Y : e = <<rank[e[2]], e[2]>>
    BY DEF Entries
  <1>4. r = [k \in DOMAIN t |-> t[k][2]]
    BY Zenon DEF Ranked, Entries
  <1> HIDE DEF Y, Ord, r
  <1>5. /\ c \in Nat /\ t = [k \in 1 .. c |-> t[k]] /\ \A k \in 1 .. c : t[k] \in Y
        /\ \A k, l \in 1 .. c : k < l => t[k] # t[l]
    BY <1>1, <1>2, ListedInOrder
  <1> HIDE DEF c, t
  <1>6. DOMAIN t = 1 .. c
    BY <1>5
  <1>7. ASSUME NEW i \in 1 .. c, NEW j \in 1 .. c, r[i] = r[j] PROVE i = j
    <2>1. t[i] \in Y /\ t[j] \in Y /\ t[i][2] = t[j][2]
      BY <1>4, <1>5, <1>6, <1>7
    <2>2. t[i] = t[j]
      BY <1>3, <2>1
    <2>3. ~(i < j) /\ ~(j < i)
      BY <1>5, <2>2
    <2> QED BY <1>5, <2>3
  <1>8. DOMAIN r = 1 .. c
    BY <1>4, <1>6
  <1> QED BY <1>7, <1>8 DEF r

(* All of them are paired, each with itself.                                  *)
LEMMA LaidOverPair ==
  ASSUME NEW as, NEW hs, LaidOver(as, hs)
  PROVE  LET pairs == T!Placed(as, hs)
         IN  /\ IsList(pairs) /\ Len(pairs) = Len(as)
             /\ \A m \in 1 .. Len(pairs) : \E k \in 1 .. Len(as) : pairs[m] = Own(k)
             /\ \A k \in 1 .. Len(as) : \E m \in 1 .. Len(pairs) : pairs[m] = Own(k)
             /\ \A l, m \in 1 .. Len(pairs) : pairs[l] = pairs[m] => l = m
PROOF
  <1> DEFINE n == Len(as)
             near == Nearby(as, hs)
             rank == Nearness(as, hs)
             r == Ranked(near, rank)
             m == Greedy(r)
             places == {k \in DOMAIN r : r[k] \in m}
             pairs == T!Placed(as, hs)
  <1>1. HasPlaces(as) /\ HasPlaces(hs) /\ n \in Nat /\ DOMAIN as = 1 .. n /\ DOMAIN hs = 1 .. n
    BY DEF LaidOver, HasPlaces, Proper
  <1>2. /\ near \in SUBSET (Int \X Int) /\ IsFiniteSet(near)
        /\ \A p \in near : rank[p] \in Ints(1)
        /\ pairs = Picked(r, places)
    BY <1>1, NearbyIsRanked, Zenon
  <1>3. near = {Own(k) : k \in 1 .. n}
    <2>1. near = {p \in (1 .. n) \X (1 .. n) : T!Near(as[p[1]], hs[p[2]])}
      BY <1>1 DEF Nearby
    <2> HIDE DEF near
    <2>2. ASSUME NEW p \in near PROVE p \in {Own(k) : k \in 1 .. n}
      <3>1. p \in (1 .. n) \X (1 .. n) /\ T!Near(as[p[1]], hs[p[2]])
        BY <2>1
      <3>2. p[1] \in 1 .. n /\ p[2] \in 1 .. n /\ p = <<p[1], p[2]>>
        <4>1. p \in (1 .. n) \X (1 .. n)
          BY <3>1
        <4> HIDE DEF n
        <4> QED BY <4>1
      <3>3. p[1] = p[2]
        BY <3>1, <3>2 DEF LaidOver
      <3> QED BY <3>2, <3>3 DEF Own
    <2>3. ASSUME NEW k \in 1 .. n PROVE Own(k) \in near
      <3>1. Own(k) \in (1 .. n) \X (1 .. n) /\ Own(k)[1] = k /\ Own(k)[2] = k
        BY DEF Own
      <3>2. T!Near(as[k], hs[k])
        BY DEF LaidOver
      <3> QED BY <2>1, <3>1, <3>2
    <2> QED BY <2>2, <2>3
  <1> HIDE DEF n, near, rank, pairs
  <1>4. \A k, l \in 1 .. n : Meets(Own(k), Own(l)) => k = l
    BY DEF Meets, Own
  <1> DEFINE one == 1
  <1>5. one \in Nat /\ \A p \in near : rank[p] \in Ints(one)
    BY <1>2
  <1> HIDE DEF one
  <1>6. m \subseteq near /\ \A p \in near \ m : \E q \in m : Meets(p, q) /\ Before(rank, q, p)
    <2>1. m \subseteq near
      BY <1>2, <1>5, GreedyIsFair, Zenon
    <2>2. \A p \in near \ m : \E q \in m : Meets(p, q) /\ Before(rank, q, p)
      BY <1>2, <1>5, GreedyGoesInOrder, Zenon
    <2> QED BY <2>1, <2>2
  <1>7. /\ Len(r) \in Nat /\ DOMAIN r = 1 .. Len(r)
        /\ \A k \in 1 .. Len(r) : r[k] \in near
        /\ \A p \in near : \E k \in 1 .. Len(r) : r[k] = p
        /\ \A k, l \in 1 .. Len(r) : k < l => ~Before(rank, r[l], r[k])
    BY <1>2, <1>5, RankedInOrder, Zenon
  <1> HIDE DEF m
  <1>8. m = near
    <2> SUFFICES ASSUME NEW p \in near \ m PROVE FALSE
      BY <1>6
    <2>1. PICK q \in m : Meets(p, q)
      BY <1>6
    <2>2. p = q
      BY <1>3, <1>4, <1>6, <2>1
    <2> QED BY <2>1, <2>2
  <1>9. places = 1 .. Len(r)
    BY <1>7, <1>8
  <1>30. \A i, j \in 1 .. Len(r) : r[i] = r[j] => i = j
    BY <1>2, <1>5, <1>7, RankedOnce, Zenon
  <1> HIDE DEF r
  <1>10. places \in SUBSET (1 .. Len(r))
    BY <1>9
  <1> HIDE DEF places
  <1>11. PICK at : IsPick(pairs, r, places, at)
    <2> DEFINE c == Len(r)
    <2>1. c \in Nat /\ places \in SUBSET (1 .. c)
      BY <1>7, <1>10
    <2> HIDE DEF c
    <2>2. \E at : \A s : IsPick(Picked(s, places), s, places, at)
      BY <2>1, PickedInPlace
    <2> QED BY <1>2, <2>2, Zenon
  <1> DEFINE l == Len(pairs)
  <1>12. /\ Proper(pairs)
         /\ \A k \in 1 .. l : at[k] \in places /\ pairs[k] = r[at[k]]
         /\ \A i \in places : \E k \in 1 .. l : at[k] = i
         /\ \A i, j \in 1 .. l : i < j => at[i] < at[j]
    BY <1>11 DEF IsPick
  <1>13. l \in Nat
    BY <1>12 DEF Proper
  <1>14. ASSUME NEW i \in 1 .. l, NEW j \in 1 .. l, pairs[i] = pairs[j] PROVE i = j
    <2> SUFFICES ASSUME i # j PROVE FALSE
      OBVIOUS
    <2>1. at[i] \in 1 .. Len(r) /\ at[j] \in 1 .. Len(r) /\ r[at[i]] = r[at[j]]
      BY <1>9, <1>12, <1>14
    <2>2. at[i] = at[j]
      BY <1>30, <2>1
    <2>3. at[i] \in Int
      BY <1>7, <2>1
    <2>4. i < j \/ j < i
      BY <1>13
    <2>5. at[i] < at[j] \/ at[j] < at[i]
      BY <1>12, <2>4, Zenon
    <2> DEFINE x == at[i]
    <2>6. x \in Int /\ x < x
      BY <2>2, <2>3, <2>5
    <2> HIDE DEF x
    <2> QED BY <2>6
  <1>15. \A m1 \in 1 .. l : \E k \in 1 .. n : pairs[m1] = Own(k)
    <2> SUFFICES ASSUME NEW m1 \in 1 .. l PROVE \E k \in 1 .. n : pairs[m1] = Own(k)
      OBVIOUS
    <2>1. at[m1] \in 1 .. Len(r) /\ pairs[m1] = r[at[m1]]
      BY <1>9, <1>12
    <2> QED BY <1>3, <1>7, <2>1
  <1>16. \A k \in 1 .. n : \E m1 \in 1 .. l : pairs[m1] = Own(k)
    <2> SUFFICES ASSUME NEW k \in 1 .. n PROVE \E m1 \in 1 .. l : pairs[m1] = Own(k)
      OBVIOUS
    <2>1. PICK i \in 1 .. Len(r) : r[i] = Own(k)
      BY <1>3, <1>7
    <2>2. PICK m1 \in 1 .. l : at[m1] = i
      BY <1>9, <1>12, <2>1
    <2> QED BY <1>12, <2>1, <2>2
  <1>17. l = n
    <2> DEFINE S == 1 .. n
               f == [k \in S |-> Own(k)]
               g == [k \in 1 .. l |-> pairs[k]]
    <2>1. IsFiniteSet(S) /\ Cardinality(S) = n
      BY <1>1, FS_Interval
    <2>2. IsFiniteSet(1 .. l) /\ Cardinality(1 .. l) = l
      BY <1>13, FS_Interval
    <2>3. \A i, j \in S : i # j => f[i] # f[j]
      BY DEF Own
    <2>4. \A i, j \in 1 .. l : i # j => g[i] # g[j]
      BY <1>14
    <2>5. {g[i] : i \in 1 .. l} = {f[i] : i \in S}
      BY <1>15, <1>16
    <2>6. DOMAIN f = S /\ f = [i \in S |-> f[i]] /\ DOMAIN g = 1 .. l /\ g = [i \in 1 .. l |-> g[i]]
      OBVIOUS
    <2> HIDE DEF S, f, g, l
    <2>7. Cardinality({f[i] : i \in S}) = n
      BY <1>1, <2>1, <2>3, <2>6, DistinctImages
    <2> DEFINE U == 1 .. l
    <2>8. IsFiniteSet(U) /\ Cardinality(U) = l /\ DOMAIN g = U /\ g = [i \in U |-> g[i]] /\ (\A i, j \in U : i # j => g[i] # g[j])
      BY <2>2, <2>4, <2>6
    <2> HIDE DEF U
    <2>9. Cardinality({g[i] : i \in U}) = l
      BY <1>13, <2>8, DistinctImages
    <2> QED BY <2>5, <2>7, <2>9 DEF U
  <1>18. IsList(pairs)
    BY <1>12, ProperIsAList
  <1> QED BY <1>14, <1>15, <1>16, <1>17, <1>18 DEF pairs, n

(* One difference, or two that mirror each other, is one finding.             *)
Differing(as, hs) == {k \in 1 .. Len(as) : as[k].text # hs[k].text}
OneDifference(as, hs) ==
  \E k, l \in 1 .. Len(as) :
    /\ Differing(as, hs) = {k, l}
    /\ k = l \/ (as[k].text = hs[l].text /\ hs[k].text = as[l].text)

LEMMA OneConflictStays ==
  ASSUME NEW as, NEW hs, NEW s, IsList(s),
         Len(s) = 1 \/ (Len(s) = 2 /\ T!Mirrored(as, hs, s[1], s[2]))
  PROVE  Len(T!Merge(as, hs, s)) = 1
PROOF
  <1> DEFINE n == Len(s)
             Next1(g, i) == T!Consumed(as, hs, s, g, i)
             Is(g) == g = [i \in 0 .. n |-> IF i = 0 THEN {} ELSE Next1(g[i - 1], i)]
             gone == CHOOSE g : Is(g)
             left == DOMAIN s \ gone[n]
  <1>1. n \in {1, 2} /\ DOMAIN s = 1 .. n
    BY DEF IsList
  <1>2. T!Merge(as, hs, s) = T!Picked(s, left)
    BY DEF T!Merge
  <1> DEFINE f1 == Next1({}, 1)
             f2 == Next1(f1, 2)
             w == [i \in 0 .. n |-> IF i = 0 THEN {} ELSE IF i = 1 THEN f1 ELSE f2]
  <1>3. f1 = IF n = 1 THEN {} ELSE {2}
    <2> DEFINE mirrors == {j \in (1 + 1) .. n : j \notin {} /\ T!Mirrored(as, hs, s[1], s[j])}
    <2>1. f1 = IF 1 \in {} \/ mirrors = {} THEN {} ELSE {} \union {CHOOSE j \in mirrors : \A k \in mirrors : j <= k}
      BY Zenon DEF T!Consumed
    <2>2. n = 1 => mirrors = {}
      OBVIOUS
    <2>3. n = 2 => mirrors = {2}
      <3> SUFFICES ASSUME n = 2 PROVE mirrors = {2}
        OBVIOUS
      <3>1. T!Mirrored(as, hs, s[1], s[2])
        <4>1. n # 1
          OBVIOUS
        <4> QED BY <4>1, Zenon
      <3> DEFINE two == 1 + 1
      <3>2. two = 2
        OBVIOUS
      <3>3. mirrors = {j \in two .. n : j \notin {} /\ T!Mirrored(as, hs, s[1], s[j])}
        OBVIOUS
      <3> HIDE DEF two, mirrors
      <3>4. two .. n = {2}
        BY <3>2
      <3> QED BY <3>1, <3>3, <3>4
    <2> HIDE DEF mirrors, f1
    <2>4. CASE n = 1
      BY <2>1, <2>2, <2>4
    <2>5. CASE n = 2
      <3>1. mirrors = {2}
        BY <2>3, <2>5
      <3>2. (CHOOSE j \in {2} : \A k \in {2} : j <= k) = 2
        OBVIOUS
      <3> QED BY <2>1, <2>5, <3>1, <3>2
    <2> QED BY <1>1, <2>4, <2>5
  <1>4. n = 2 => f2 = {2}
    <2> SUFFICES ASSUME n = 2 PROVE f2 = {2}
      OBVIOUS
    <2> HIDE DEF f1, n
    <2>0. n # 1
      OBVIOUS
    <2>1. f1 = {2}
      BY <1>3, <2>0, Zenon
    <2> QED BY <2>1, Zenon DEF T!Consumed
  <1> HIDE DEF n
  <1>5. Is(w)
    <2>1. w = [i \in 0 .. n |-> IF i = 0 THEN {} ELSE Next1(w[i - 1], i)]
      <3> SUFFICES ASSUME NEW i \in 0 .. n PROVE w[i] = IF i = 0 THEN {} ELSE Next1(w[i - 1], i)
        OBVIOUS
      <3>1. i \in {0, 1, 2} /\ 0 \in 0 .. n /\ 1 \in 0 .. n
        BY <1>1
      <3>2. w[0] = {} /\ w[1] = f1 /\ (i = 2 => w[2] = f2)
        <4> HIDE DEF f1, f2
        <4> QED BY <3>1
      <3> HIDE DEF w
      <3>6. 1 - 1 = 0 /\ 2 - 1 = 1
        OBVIOUS
      <3> HIDE DEF Next1
      <3>3. CASE i = 0
        BY <3>2, <3>3
      <3>4. CASE i = 1
        BY <3>2, <3>4, <3>6 DEF f1
      <3>5. CASE i = 2
        BY <3>2, <3>5, <3>6 DEF f2
      <3> QED BY <3>1, <3>3, <3>4, <3>5
    <2> HIDE DEF w, Next1
    <2> QED BY <2>1
  <1> HIDE DEF w, f1, f2
  <1>6. Is(gone)
    <2> HIDE DEF Is
    <2> QED BY <1>5
  <1> HIDE DEF gone
  <1>7. gone[0] = {} /\ gone[1] = f1 /\ (n = 2 => gone[2] = f2)
    <2>0. \A i \in 0 .. n : gone[i] = IF i = 0 THEN {} ELSE Next1(gone[i - 1], i)
      <3> HIDE DEF Next1
      <3> QED BY <1>6
    <2> HIDE DEF Is, Next1
    <2>1. 0 \in 0 .. n /\ 1 \in 0 .. n /\ (n = 2 => 2 \in 0 .. n)
      BY <1>1
    <2>2. gone[0] = {}
      BY <2>0, <2>1
    <2>3. gone[1] = Next1(gone[1 - 1], 1)
      BY <2>0, <2>1
    <2>4. n = 2 => gone[2] = Next1(gone[2 - 1], 2)
      BY <2>0, <2>1
    <2>5. 1 - 1 = 0 /\ 2 - 1 = 1
      OBVIOUS
    <2> QED BY <2>2, <2>3, <2>4, <2>5 DEF f1, f2
  <1>8. left = {1}
    <2>1. CASE n = 1
      <3>1. gone[n] = {} /\ DOMAIN s = 1 .. 1
        BY <1>1, <1>3, <1>7, <2>1
      <3> QED BY <3>1
    <2>2. CASE n = 2
      <3>1. gone[n] = {2} /\ DOMAIN s = 1 .. 2
        BY <1>1, <1>4, <1>7, <2>2
      <3> QED BY <3>1
    <2> QED BY <1>1, <2>1, <2>2
  <1> HIDE DEF left
  <1>9. T!Merge(as, hs, s) = Picked(s, {1})
    BY <1>2, <1>8, SameListings, Zenon
  <1>10. Len(Picked(s, {1})) = Cardinality({1})
    BY PickedIsAList, 1 \in Nat, {1} \in SUBSET (1 .. 1), Zenon
  <1>11. Cardinality({1}) = 1
    BY FS_Singleton
  <1> QED BY <1>9, <1>10, <1>11

LEMMA OneDifferenceIsTold ==
  ASSUME NEW a, NEW h, LaidOver(T!Numeric(a), T!Numeric(h)),
         Len(T!Numeric(a)) >= 4, OneDifference(T!Numeric(a), T!Numeric(h))
  PROVE  Len(T!PageTwins(a, h)) = 1
PROOF
  <1> DEFINE as == T!Numeric(a)
             hs == T!Numeric(h)
             n == Len(as)
             pairs == T!Placed(as, hs)
             places == {k \in DOMAIN pairs : InConflict(as, hs, pairs[k])}
             conflicts == T!Picked(pairs, places)
             merged == T!Merge(as, hs, conflicts)
  <1>1. T!PageTwins(a, h) = IF Len(pairs) < 4 \/ 10 * Len(pairs) < 9 * T!Larger(Len(as), Len(hs)) \/ Len(merged) > 2 THEN <<>>
                            ELSE [k \in DOMAIN merged |-> <<as[merged[k][1]].text, hs[merged[k][2]].text>>]
    BY DEF T!PageTwins, InConflict
  <1> HIDE DEF as, hs
  <1>2. LaidOver(as, hs) /\ n >= 4 /\ OneDifference(as, hs)
    BY DEF as, hs
  <1>3. n \in Nat /\ Len(hs) = n
    BY <1>2 DEF LaidOver, HasPlaces, Proper
  <1>4. /\ IsList(pairs) /\ Len(pairs) = n
        /\ \A m \in 1 .. n : \E k \in 1 .. n : pairs[m] = Own(k)
        /\ \A k \in 1 .. n : \E m \in 1 .. n : pairs[m] = Own(k)
        /\ \A l, m \in 1 .. n : pairs[l] = pairs[m] => l = m
    <2>1. /\ IsList(pairs) /\ Len(pairs) = Len(as)
          /\ \A m \in 1 .. Len(pairs) : \E k \in 1 .. Len(as) : pairs[m] = Own(k)
          /\ \A k \in 1 .. Len(as) : \E m \in 1 .. Len(pairs) : pairs[m] = Own(k)
          /\ \A l, m \in 1 .. Len(pairs) : pairs[l] = pairs[m] => l = m
      BY <1>2, LaidOverPair, Zenon
    <2> HIDE DEF pairs
    <2> QED BY <2>1
  <1> HIDE DEF pairs
  <1>5. PICK k1 \in 1 .. n, k2 \in 1 .. n :
          /\ Differing(as, hs) = {k1, k2}
          /\ k1 = k2 \/ (as[k1].text = hs[k2].text /\ hs[k1].text = as[k2].text)
    BY <1>2 DEF OneDifference
  <1>6. PICK m1 \in 1 .. n : pairs[m1] = Own(k1)
    BY <1>4
  <1>7. PICK m2 \in 1 .. n : pairs[m2] = Own(k2)
    BY <1>4
  <1>8. \A k \in 1 .. n : InConflict(as, hs, Own(k)) <=> k \in {k1, k2}
    <2> SUFFICES ASSUME NEW k \in 1 .. n PROVE InConflict(as, hs, Own(k)) <=> k \in {k1, k2}
      OBVIOUS
    <2>1. Own(k)[1] = k /\ Own(k)[2] = k
      BY DEF Own
    <2>2. DOMAIN as = 1 .. n
      BY <1>2 DEF LaidOver, HasPlaces, Proper
    <2>3. ~T!Shadowed(as, k, hs[k])
      <3>1. \A j \in (1 .. n) \ {k} : ~T!Near(as[k], as[j])
        BY <1>2 DEF LaidOver
      <3> QED BY <2>2, <3>1 DEF T!Shadowed
    <2>4. InConflict(as, hs, Own(k)) <=> as[k].text # hs[k].text
      BY <2>1, <2>3 DEF InConflict
    <2>5. k \in Differing(as, hs) <=> as[k].text # hs[k].text
      BY DEF Differing
    <2> QED BY <1>5, <2>4, <2>5, Zenon
  <1>9. places = {m1, m2}
    <2>1. places = {m \in 1 .. n : InConflict(as, hs, pairs[m])}
      BY <1>4 DEF IsList
    <2> HIDE DEF places
    <2>2. m1 \in places /\ m2 \in places
      BY <1>6, <1>7, <1>8, <2>1
    <2>3. ASSUME NEW m \in places PROVE m \in {m1, m2}
      <3>1. m \in 1 .. n /\ InConflict(as, hs, pairs[m])
        BY <2>1
      <3>2. PICK k \in 1 .. n : pairs[m] = Own(k)
        BY <1>4, <3>1
      <3>3. k = k1 \/ k = k2
        BY <1>8, <3>1, <3>2
      <3> QED BY <1>4, <1>6, <1>7, <3>1, <3>2, <3>3
    <2> QED BY <2>2, <2>3
  <1>10. m1 = m2 <=> k1 = k2
    <2>1. k1 = k2 => m1 = m2
      BY <1>4, <1>6, <1>7
    <2>2. Own(k1) = Own(k2) => k1 = k2
      BY DEF Own
    <2> QED BY <1>6, <1>7, <2>1, <2>2
  <1>11. places \in SUBSET (1 .. n)
    BY <1>9
  <1> HIDE DEF n, places
  <1>12. /\ IsList(conflicts) /\ Len(conflicts) = Cardinality(places)
         /\ \A k \in 1 .. Len(conflicts) : \E i \in places : conflicts[k] = pairs[i]
         /\ \A i \in places : \E k \in 1 .. Len(conflicts) : conflicts[k] = pairs[i]
    <2>1. conflicts = Picked(pairs, places)
      BY SameListings, Zenon
    <2> HIDE DEF conflicts
    <2> QED BY <1>3, <1>11, <2>1, PickedIsAList
  <1> HIDE DEF conflicts
  <1>13. Len(conflicts) = 1 \/ (Len(conflicts) = 2 /\ T!Mirrored(as, hs, conflicts[1], conflicts[2]))
    <2>1. CASE k1 = k2
      <3>1. places = {m1}
        BY <1>9, <1>10, <2>1
      <3> QED BY <1>12, <3>1, FS_Singleton
    <2>2. CASE k1 # k2
      <3>1. Cardinality(places) = 2
        <4>1. IsFiniteSet({m1}) /\ Cardinality({m1}) = 1 /\ m2 \notin {m1}
          BY <1>10, <2>2, FS_Singleton
        <4>2. Cardinality({m1} \union {m2}) = Cardinality({m1}) + 1
          BY <4>1, FS_AddElement
        <4>3. places = {m1} \union {m2}
          BY <1>9
        <4> DEFINE c == Cardinality({m1})
        <4>4. c = 1 /\ Cardinality(places) = c + 1
          BY <4>1, <4>2, <4>3
        <4> HIDE DEF c
        <4> QED BY <4>4
      <3>2. Len(conflicts) = 2 /\ 1 \in 1 .. 2 /\ 2 \in 1 .. 2 /\ \A k \in 1 .. 2 : k = 1 \/ k = 2
        BY <1>12, <3>1
      <3>3. conflicts[1] \in {Own(k1), Own(k2)} /\ conflicts[2] \in {Own(k1), Own(k2)}
        BY <1>6, <1>7, <1>9, <1>12, <3>2
      <3>4. \A p \in {Own(k1), Own(k2)} : conflicts[1] = p \/ conflicts[2] = p
        BY <1>6, <1>7, <1>9, <1>12, <3>2
      <3>5. Own(k1) # Own(k2) /\ Own(k1)[1] = k1 /\ Own(k1)[2] = k1 /\ Own(k2)[1] = k2 /\ Own(k2)[2] = k2
        BY <2>2 DEF Own
      <3>6. \/ conflicts[1] = Own(k1) /\ conflicts[2] = Own(k2)
            \/ conflicts[1] = Own(k2) /\ conflicts[2] = Own(k1)
        BY <3>3, <3>4, <3>5
      <3>7. as[k1].text = hs[k2].text /\ hs[k1].text = as[k2].text
        BY <1>5, <2>2
      <3> QED BY <3>2, <3>5, <3>6, <3>7 DEF T!Mirrored
    <2> QED BY <2>1, <2>2
  <1>14. Len(merged) = 1
    <2>1. IsList(conflicts)
      BY <1>12
    <2> QED BY <1>13, <2>1, OneConflictStays
  <1> HIDE DEF merged
  <1>15. T!PageTwins(a, h) = [k \in DOMAIN merged |-> <<as[merged[k][1]].text, hs[merged[k][2]].text>>]
    <2>1. Len(pairs) = n /\ Len(hs) = n /\ Len(as) = n /\ n \in Nat /\ n >= 4
      BY <1>2, <1>3, <1>4 DEF n
    <2>2. T!Larger(n, n) = n
      BY DEF T!Larger
    <2>3. ~(Len(pairs) < 4) /\ ~(10 * Len(pairs) < 9 * T!Larger(Len(as), Len(hs))) /\ ~(Len(merged) > 2)
      BY <1>14, <2>1, <2>2
    <2> QED BY <1>1, <2>3, Zenon
  <1>16. DOMAIN merged = 1 .. 1
    <2>1. PICK left : merged = T!Picked(conflicts, DOMAIN conflicts \ left)
      BY DEF T!Merge, merged
    <2> DEFINE rest == DOMAIN conflicts \ left
               c == Len(conflicts)
    <2>2. c \in Nat /\ rest \in SUBSET (1 .. c)
      BY <1>12 DEF IsList
    <2> HIDE DEF rest, c
    <2>3. merged = Picked(conflicts, rest)
      BY <2>1, SameListings, Zenon DEF rest
    <2>4. IsList(merged)
      BY <2>2, <2>3, PickedIsAList
    <2> QED BY <1>14, <2>4 DEF IsList
  <1> DEFINE f(k) == <<as[merged[k][1]].text, hs[merged[k][2]].text>>
  <1>17. T!PageTwins(a, h) = [k \in 1 .. 1 |-> f(k)]
    BY <1>15, <1>16, Zenon
  <1> HIDE DEF f
  <1> QED BY <1>17

(* Places of a page that alone have another number are told.                  *)
LEMMA ChangedPlacesAreTold ==
  ASSUME NEW a, NEW h, SamePlaces(a, h), Len(T!Numeric(a)) >= 4,
         NEW i \in 1 .. Len(a), NEW j \in 1 .. Len(a), IsCounted(a[i]), IsCounted(a[j]),
         \A k \in 1 .. Len(a) : a[k].text # h[k].text <=> k \in {i, j},
         i = j \/ (a[i].text = h[j].text /\ h[i].text = a[j].text)
  PROVE  Len(T!PositionTwins(<<a>>, <<h>>)) = 1
PROOF
  <1> DEFINE as == T!Numeric(a)
             hs == T!Numeric(h)
             places == {k \in DOMAIN a : IsCounted(a[k])}
             n == Len(as)
  <1>1. LaidOver(as, hs) /\ \E at : IsPick(as, a, places, at) /\ IsPick(hs, h, places, at)
    BY SamePlacesAreLaidOver, Zenon
  <1>2. PICK at : IsPick(as, a, places, at) /\ IsPick(hs, h, places, at)
    BY <1>1
  <1>3. DOMAIN a = 1 .. Len(a) /\ IsList(a) /\ IsList(h)
    BY ProperIsAList DEF SamePlaces, HasPlaces, Proper
  <1>4. i \in places /\ j \in places /\ places \subseteq 1 .. Len(a)
    BY <1>3
  <1> HIDE DEF as, hs, places
  <1>5. /\ \A k \in 1 .. n : at[k] \in places /\ as[k] = a[at[k]] /\ hs[k] = h[at[k]]
        /\ \A p \in places : \E k \in 1 .. n : at[k] = p
        /\ \A k, l \in 1 .. n : k < l => at[k] < at[l]
    BY <1>1, <1>2 DEF IsPick, LaidOver
  <1>6. n \in Nat
    BY <1>1 DEF LaidOver, HasPlaces, Proper
  <1>7. Len(a) \in Nat
    BY DEF SamePlaces, HasPlaces, Proper
  <1> HIDE DEF n
  <1>8. ASSUME NEW k \in 1 .. n, NEW l \in 1 .. n, at[k] = at[l] PROVE k = l
    <2> SUFFICES ASSUME k # l PROVE FALSE
      OBVIOUS
    <2>1. k < l \/ l < k
      BY <1>6
    <2>2. at[k] < at[l] \/ at[l] < at[k]
      BY <1>5, <2>1, Zenon
    <2>3. at[k] \in 1 .. Len(a)
      BY <1>4, <1>5
    <2> DEFINE x == at[k]
    <2>4. x \in Int /\ x < x
      BY <1>7, <1>8, <2>2, <2>3
    <2> HIDE DEF x
    <2> QED BY <2>4
  <1>9. PICK k1 \in 1 .. n : at[k1] = i
    BY <1>4, <1>5
  <1>10. PICK k2 \in 1 .. n : at[k2] = j
    BY <1>4, <1>5
  <1>11. Differing(as, hs) = {k1, k2}
    <2>1. Differing(as, hs) = {k \in 1 .. n : as[k].text # hs[k].text}
      BY DEF Differing, n
    <2>2. ASSUME NEW k \in 1 .. n PROVE as[k].text # hs[k].text <=> k \in {k1, k2}
      <3>1. as[k] = a[at[k]] /\ hs[k] = h[at[k]] /\ at[k] \in 1 .. Len(a)
        BY <1>4, <1>5
      <3>2. as[k].text # hs[k].text <=> at[k] \in {i, j}
        BY <3>1
      <3>3. at[k] = i <=> k = k1
        BY <1>8, <1>9
      <3>4. at[k] = j <=> k = k2
        BY <1>8, <1>10
      <3> QED BY <3>2, <3>3, <3>4
    <2>3. k1 \in 1 .. n /\ k2 \in 1 .. n
      BY <1>9, <1>10
    <2> QED BY <2>1, <2>2, <2>3
  <1>12. k1 = k2 \/ (as[k1].text = hs[k2].text /\ hs[k1].text = as[k2].text)
    <2>1. as[k1] = a[i] /\ hs[k1] = h[i] /\ as[k2] = a[j] /\ hs[k2] = h[j]
      BY <1>5, <1>9, <1>10
    <2>2. i = j => k1 = k2
      BY <1>8, <1>9, <1>10
    <2> QED BY <2>1, <2>2
  <1>13. OneDifference(as, hs)
    BY <1>9, <1>10, <1>11, <1>12 DEF OneDifference, n
  <1>14. Len(T!PageTwins(a, h)) = 1
    BY <1>1, <1>13, OneDifferenceIsTold DEF as, hs
  <1> QED BY <1>3, <1>14, TwinsOfOnePage

LEMMA TextIsReplaced ==
  ASSUME NEW w, IsWord(w), NEW t, IsList(t)
  PROVE  LET v == [w EXCEPT !.text = t]
         IN  IsWord(v) /\ v.x = w.x /\ v.y = w.y /\ v.order = w.order /\ v.text = t
PROOF
  <1> DEFINE v == [w EXCEPT !.text = t]
  <1>1. {"text", "x", "y", "order"} \subseteq DOMAIN w
    BY DEF IsWord
  <1>2. v.x = w.x /\ v.y = w.y /\ v.order = w.order /\ v.text = t /\ DOMAIN v = DOMAIN w
    BY <1>1
  <1> HIDE DEF v
  <1>3. IsWord(v)
    BY <1>1, <1>2 DEF IsWord
  <1> QED BY <1>2, <1>3 DEF v

SpreadPage(a) == \A i, j \in DOMAIN a : i = j \/ ~T!Near(a[i], a[j])

LEMMA RetypedIsTold ==
  ASSUME NEW a, HasPlaces(a), SpreadPage(a), NEW i \in DOMAIN a, NEW to, IsList(to),
         Len(T!Numeric(a)) >= 4, IsCounted(a[i]), Len(to) >= 4, ~T!IsYear(to), a[i].text # to
  PROVE  Len(T!PositionTwins(<<a>>, <<Retyped(a, i, to)>>)) = 1
PROOF
  <1> DEFINE n == Len(a)
             h == Retyped(a, i, to)
             w == a[i]
             v == [w EXCEPT !.text = to]
  <1>1. n \in Nat /\ DOMAIN a = 1 .. n /\ a = [k \in 1 .. n |-> a[k]] /\ \A k \in 1 .. n : IsWord(a[k])
    BY DEF HasPlaces, Proper
  <1>2. i \in 1 .. n
    BY <1>1
  <1>3. h = [k \in 1 .. n |-> IF k = i THEN v ELSE a[k]]
    BY <1>1, <1>2 DEF Retyped
  <1>4. IsWord(v) /\ v.x = w.x /\ v.y = w.y /\ v.text = to
    BY <1>1, <1>2, TextIsReplaced
  <1>5. IsCounted(v)
    BY <1>4 DEF IsCounted
  <1> HIDE DEF v, h, n
  <1>6. Proper(h) /\ Len(h) = n /\ h[i] = v /\ \A k \in 1 .. n : k # i => h[k] = a[k]
    BY <1>1, <1>2, <1>3 DEF Proper
  <1>7. HasPlaces(h)
    BY <1>1, <1>4, <1>6 DEF HasPlaces
  <1>8. \A k \in 1 .. n : h[k].x = a[k].x /\ h[k].y = a[k].y /\ (IsCounted(h[k]) <=> IsCounted(a[k]))
    BY <1>4, <1>5, <1>6
  <1>9. SamePlaces(a, h)
    BY <1>1, <1>6, <1>7, <1>8 DEF SamePlaces, SpreadPage, n
  <1>10. \A k \in 1 .. n : a[k].text # h[k].text <=> k \in {i, i}
    BY <1>4, <1>6
  <1> QED BY <1>2, <1>9, <1>10, ChangedPlacesAreTold DEF n, h

LEMMA ExchangedIsTold ==
  ASSUME NEW a, HasPlaces(a), SpreadPage(a), NEW i \in DOMAIN a, NEW j \in DOMAIN a,
         Len(T!Numeric(a)) >= 4, IsCounted(a[i]), IsCounted(a[j]), a[i].text # a[j].text
  PROVE  Len(T!PositionTwins(<<a>>, <<Exchanged(a, i, j)>>)) = 1
PROOF
  <1> DEFINE n == Len(a)
             h == Exchanged(a, i, j)
             v == a[i]
             w == a[j]
             v1 == [v EXCEPT !.text = w.text]
             w1 == [w EXCEPT !.text = v.text]
  <1>1. n \in Nat /\ DOMAIN a = 1 .. n /\ a = [k \in 1 .. n |-> a[k]] /\ \A k \in 1 .. n : IsWord(a[k])
    BY DEF HasPlaces, Proper
  <1>2. i \in 1 .. n /\ j \in 1 .. n /\ i # j
    BY <1>1
  <1>3. h = [k \in 1 .. n |-> IF k = i THEN v1 ELSE IF k = j THEN w1 ELSE a[k]]
    BY <1>1, <1>2 DEF Exchanged
  <1>4. IsWord(v) /\ IsWord(w) /\ IsList(v.text) /\ IsList(w.text)
    BY <1>1, <1>2 DEF IsWord
  <1>5. IsWord(v1) /\ v1.x = v.x /\ v1.y = v.y /\ v1.text = w.text
    BY <1>4, TextIsReplaced
  <1>6. IsWord(w1) /\ w1.x = w.x /\ w1.y = w.y /\ w1.text = v.text
    BY <1>4, TextIsReplaced
  <1>7. IsCounted(v1) /\ IsCounted(w1)
    BY <1>5, <1>6 DEF IsCounted
  <1> HIDE DEF v1, w1, h, n
  <1>8. Proper(h) /\ Len(h) = n /\ h[i] = v1 /\ h[j] = w1 /\ \A k \in 1 .. n : k # i /\ k # j => h[k] = a[k]
    BY <1>1, <1>2, <1>3 DEF Proper
  <1>9. HasPlaces(h)
    BY <1>1, <1>5, <1>6, <1>8 DEF HasPlaces
  <1>10. \A k \in 1 .. n : h[k].x = a[k].x /\ h[k].y = a[k].y /\ (IsCounted(h[k]) <=> IsCounted(a[k]))
    BY <1>5, <1>6, <1>7, <1>8
  <1>11. SamePlaces(a, h)
    BY <1>1, <1>8, <1>9, <1>10 DEF SamePlaces, SpreadPage, n
  <1>12. \A k \in 1 .. n : a[k].text # h[k].text <=> k \in {i, j}
    BY <1>5, <1>6, <1>8
  <1>13. a[i].text = h[j].text /\ h[i].text = a[j].text
    BY <1>5, <1>6, <1>8
  <1> QED BY <1>2, <1>11, <1>12, <1>13, ChangedPlacesAreTold DEF n, h

(* A number that lies on one of the same place: its page starts with it.      *)
LEMMA CoveredPage ==
  ASSUME NEW a, HasPlaces(a), NEW i \in DOMAIN a, NEW to, IsList(to)
  PROVE  LET c == Covered(a, i, to)
         IN  /\ HasPlaces(c) /\ Len(c) = Len(a) + 1
             /\ \A k \in 1 .. Len(a) : c[k + 1] = a[k]
             /\ c[1].x = a[i].x /\ c[1].y = a[i].y /\ c[1].text = to /\ c[1].order = 1000
PROOF
  <1> DEFINE n == Len(a)
             u == a[i]
             v == [u EXCEPT !.text = to, !.order = 1000]
             s == <<v>>
             c == Covered(a, i, to)
  <1>1. n \in Nat /\ DOMAIN a = 1 .. n /\ Proper(a) /\ \A k \in 1 .. n : IsWord(a[k])
    BY DEF HasPlaces, Proper
  <1>2. {"text", "x", "y", "order"} \subseteq DOMAIN u /\ u.x \in Int /\ u.y \in Int
    BY <1>1 DEF IsWord
  <1>3. v.x = u.x /\ v.y = u.y /\ v.order = 1000 /\ v.text = to /\ DOMAIN v = DOMAIN u
    BY <1>2
  <1>4. c = s \o a
    BY DEF Covered
  <1> HIDE DEF v, u
  <1>5. IsWord(v)
    BY <1>2, <1>3 DEF IsWord
  <1>6. Proper(s) /\ Len(s) = 1 /\ s[1] = v
    BY DEF Proper
  <1> HIDE DEF s, c
  <1>7. /\ Proper(s \o a) /\ Len(s \o a) = Len(s) + Len(a)
        /\ \A k \in 1 .. Len(s) : (s \o a)[k] = s[k]
        /\ \A k \in 1 .. Len(a) : (s \o a)[Len(s) + k] = a[k]
        /\ \A k \in 1 .. Len(s \o a) :
              \/ k <= Len(s) /\ (s \o a)[k] = s[k]
              \/ k - Len(s) \in 1 .. Len(a) /\ (s \o a)[k] = a[k - Len(s)]
    BY <1>1, <1>6, JoinedLists
  <1>8. /\ Proper(c) /\ Len(c) = 1 + n
        /\ c[1] = v
        /\ \A k \in 1 .. n : c[1 + k] = a[k]
    BY <1>4, <1>6, <1>7
  <1> HIDE DEF n
  <1>9. \A k \in 1 .. Len(c) : IsWord(c[k])
    <2> SUFFICES ASSUME NEW k \in 1 .. Len(c) PROVE IsWord(c[k])
      OBVIOUS
    <2>1. k = 1 \/ (k - 1 \in 1 .. n /\ k = 1 + (k - 1))
      BY <1>1, <1>8
    <2>2. k # 1 => c[k] = a[k - 1]
      BY <1>8, <2>1
    <2> QED BY <1>1, <1>5, <1>8, <2>1, <2>2
  <1>10. HasPlaces(c)
    BY <1>8, <1>9 DEF HasPlaces
  <1>11. \A k \in 1 .. n : c[k + 1] = a[k] /\ k + 1 = 1 + k
    BY <1>1, <1>8
  <1>12. Len(c) = n + 1
    BY <1>1, <1>8
  <1> QED BY <1>3, <1>8, <1>10, <1>11, <1>12 DEF c, n, u

(* The pages differ by it alone, and what is under it hides it from the       *)
(* positional check.                                                          *)
LEMMA OverlaidIsNotAConflict ==
  ASSUME NEW a, HasPlaces(a), NEW i \in DOMAIN a, NEW to, IsList(to)
  PROVE  T!PositionTwins(<<Covered(a, i, to)>>, <<a>>) = <<>>
PROOF
  <1> DEFINE c == Covered(a, i, to)
             as == T!Numeric(c)
             hs == T!Numeric(a)
  <1>1. HasPlaces(c) /\ Len(c) = Len(a) + 1 /\ \A k \in 1 .. Len(a) : c[k + 1] = a[k]
    BY CoveredPage
  <1> HIDE DEF c
  <1>2. PICK at : /\ HasPlaces(as)
                  /\ IsPick(as, c, {k \in DOMAIN c : Len(c[k].text) >= 4 /\ ~T!IsYear(c[k].text)}, at)
    BY <1>1, NumbersOfAPage
  <1>3. PICK bt : /\ HasPlaces(hs)
                  /\ IsPick(hs, a, {k \in DOMAIN a : Len(a[k].text) >= 4 /\ ~T!IsYear(a[k].text)}, bt)
    BY NumbersOfAPage
  <1>4. DOMAIN c = 1 .. Len(c) /\ DOMAIN a = 1 .. Len(a) /\ Len(a) \in Nat
    BY <1>1 DEF HasPlaces, Proper
  <1> HIDE DEF as, hs
  <1>5. DOMAIN as = 1 .. Len(as) /\ DOMAIN hs = 1 .. Len(hs)
    BY <1>2, <1>3 DEF HasPlaces, Proper
  <1>6. ASSUME NEW l \in 1 .. Len(hs) PROVE \E k \in 1 .. Len(as) : as[k] = hs[l]
    <2> DEFINE b == bt[l]
    <2>1. b \in DOMAIN a /\ Len(a[b].text) >= 4 /\ ~T!IsYear(a[b].text) /\ hs[l] = a[b]
      BY <1>3 DEF IsPick
    <2> HIDE DEF b
    <2>2. b + 1 \in DOMAIN c /\ c[b + 1] = a[b]
      BY <1>1, <1>4, <2>1
    <2> DEFINE d == b + 1
    <2>3. d \in {k \in DOMAIN c : Len(c[k].text) >= 4 /\ ~T!IsYear(c[k].text)} /\ c[d] = a[b]
      BY <2>1, <2>2
    <2> HIDE DEF d
    <2>4. PICK k \in 1 .. Len(as) : at[k] = d
      BY <1>2, <2>3 DEF IsPick
    <2>5. as[k] = c[d]
      BY <1>2, <2>4 DEF IsPick
    <2> QED BY <2>1, <2>3, <2>4, <2>5
  <1>7. ASSUME NEW p \in Nearby(as, hs) PROVE ~InConflict(as, hs, p)
    <2>1. p[1] \in DOMAIN as /\ p[2] \in DOMAIN hs /\ T!Near(as[p[1]], hs[p[2]])
      BY DEF Nearby
    <2>2. PICK k \in DOMAIN as : as[k] = hs[p[2]]
      BY <1>5, <1>6, <2>1
    <2> DEFINE v == as[p[1]]
               w == hs[p[2]]
    <2>3. k = p[1] => v.text = w.text
      BY <2>2
    <2>4. T!Near(v, as[k]) /\ as[k].text = w.text
      BY <2>1, <2>2
    <2>5. k # p[1] => T!Shadowed(as, p[1], w)
      BY <2>2, <2>4, Zenon DEF T!Shadowed
    <2> HIDE DEF v, w
    <2>6. ~(v.text # w.text /\ ~T!Shadowed(as, p[1], w))
      BY <2>3, <2>5
    <2> QED BY <2>6 DEF InConflict, v, w
  <1>8. \A p \in Nearby(T!Numeric(c), T!Numeric(a)) : ~InConflict(T!Numeric(c), T!Numeric(a), p)
    BY <1>7 DEF as, hs
  <1>9. T!PositionTwins(<<c>>, <<a>>) = <<>>
    BY <1>1, <1>8, NoConflictsAreTold, Zenon
  <1> QED BY <1>9 DEF c

(* The places of a page are numbered in reading order, below the thousandth.  *)
InReadingOrder(a) == \A k \in DOMAIN a : a[k].order \in 0 .. 999

(* A number read for another: as long, and not the same.                      *)
Misread(old, new) == T!Substituted([text |-> old], [text |-> new])

(* One number is told to lie on another.                                      *)
ToldAsLaidOver(c, new, old) == \E o \in T!Overlays(c) : o.visible = new /\ o.hidden = old

(* The scan of overlays tells it, first with the number it replaces.          *)
LEMMA OverlaidIsTold ==
  ASSUME NEW a, HasPlaces(a), NEW i \in DOMAIN a, NEW to, IsList(to), Len(a[i].text) >= 3,
         InReadingOrder(a), Misread(a[i].text, to)
  PROVE  ToldAsLaidOver(Covered(a, i, to), to, a[i].text)
PROOF
  <1> DEFINE c == Covered(a, i, to)
             old == a[i].text
             places == {k \in DOMAIN c : Len(c[k].text) >= 3}
             words == T!Picked(c, places)
             all == {p \in (DOMAIN words) \X (DOMAIN words) : p[1] < p[2] /\ T!Overlaid(words[p[1]], words[p[2]])}
             Texts(p) == {words[p[1]].text, words[p[2]].text}
             first == {p \in all : \A q \in all : Texts(q) = Texts(p) => q = p \/ T!InListOrder(p, q)}
             Sure(p) == words[p[1]].order # 0 /\ words[p[2]].order # 0 /\ words[p[1]].order # words[p[2]].order
             Hid(p) == Sure(p) /\ words[p[1]].order < words[p[2]].order
             Tell(p) == [visible |-> IF Hid(p) THEN words[p[2]].text ELSE words[p[1]].text,
                         hidden |-> IF Hid(p) THEN words[p[1]].text ELSE words[p[2]].text, sure |-> Sure(p)]
  <1>1. /\ HasPlaces(c) /\ Len(c) = Len(a) + 1 /\ \A k \in 1 .. Len(a) : c[k + 1] = a[k]
        /\ c[1].x = a[i].x /\ c[1].y = a[i].y /\ c[1].text = to /\ c[1].order = 1000
    BY CoveredPage
  <1>2. T!Overlays(c) = {Tell(p) : p \in first}
    BY Zenon DEF T!Overlays
  <1> HIDE DEF c
  <1>3. DOMAIN c = 1 .. Len(c) /\ Len(c) \in Nat /\ DOMAIN a = 1 .. Len(a) /\ Len(a) \in Nat
    BY <1>1 DEF HasPlaces, Proper
  <1>4. Len(old) = Len(to) /\ old # to
    BY DEF T!Substituted, Misread
  <1>5. 1 \in places /\ i + 1 \in places /\ c[i + 1] = a[i] /\ places \in SUBSET (1 .. Len(c))
    BY <1>1, <1>3, <1>4
  <1> HIDE DEF places, words
  <1>6. PICK at : IsPick(words, c, places, at)
    <2> DEFINE m == Len(c)
    <2>1. m \in Nat /\ places \in SUBSET (1 .. m)
      BY <1>3, <1>5
    <2> HIDE DEF m
    <2>2. PICK at : \A s : IsPick(Picked(s, places), s, places, at)
      BY <2>1, PickedInPlace
    <2>3. words = Picked(c, places)
      BY SameListings, Zenon DEF words
    <2> QED BY <2>2, <2>3, Zenon
  <1> DEFINE n == Len(words)
  <1>7. /\ n \in Nat /\ DOMAIN words = 1 .. n
        /\ \A k \in 1 .. n : at[k] \in 1 .. Len(c) /\ words[k] = c[at[k]]
        /\ \A p \in places : \E k \in 1 .. n : at[k] = p
        /\ \A k, l \in 1 .. n : k < l => at[k] < at[l]
    BY <1>5, <1>6 DEF IsPick, Proper
  <1> HIDE DEF n
  <1>8. 1 \in 1 .. n /\ at[1] = 1
    <2>1. PICK k \in 1 .. n : at[k] = 1
      BY <1>5, <1>7
    <2>2. 1 \in 1 .. n
      BY <1>7, <2>1
    <2>3. at[1] \in 1 .. Len(c)
      BY <1>7, <2>2
    <2>4. 1 < k => at[1] < at[k]
      BY <1>7, <2>2
    <2>5. k = 1
      BY <1>3, <1>7, <2>1, <2>3, <2>4
    <2> QED BY <2>1, <2>2, <2>5
  <1>9. words[1] = c[1]
    BY <1>7, <1>8
  <1> DEFINE Later == {k \in 1 .. n : 1 < k /\ T!Overlaid(words[1], words[k]) /\ words[k].text = old}
  <1>10. Later # {}
    <2>1. PICK k \in 1 .. n : at[k] = i + 1
      BY <1>5, <1>7
    <2>2. words[k] = a[i]
      BY <1>5, <1>7, <2>1
    <2>3. k # 1
      BY <1>3, <1>8, <2>1
    <2>4. T!Overlaid(words[1], words[k])
      <3> DEFINE v == words[1]
                 w == words[k]
      <3>1. /\ v.x = w.x /\ v.y = w.y /\ v.text = to /\ w.text = old
            /\ v.x \in Int /\ v.y \in Int /\ Len(to) \in Nat
        <4>1. IsWord(a[i])
          BY <1>3 DEF HasPlaces
        <4> QED BY <1>1, <1>9, <2>2, <4>1 DEF IsWord, IsList
      <3> HIDE DEF v, w
      <3>2. T!Substituted(v, w)
        <4> DEFINE Changed(x, y) == {d \in DOMAIN x : x[d] # y[d]}
                   r1 == [text |-> old]
                   r2 == [text |-> to]
        <4>1. Changed(to, old) = Changed(old, to)
          <5>1. DOMAIN to = DOMAIN old
            <6>1. IsList(old)
              BY <1>3 DEF HasPlaces, IsWord
            <6> QED BY <1>4, <6>1 DEF IsList
          <5> QED BY <5>1
        <4>2. T!Cardinality(Changed(r1.text, r2.text)) <= 2
          BY Zenon DEF T!Substituted, Misread
        <4>3. r1.text = old /\ r2.text = to
          OBVIOUS
        <4>4. T!Substituted(v, w) <=> /\ Len(v.text) = Len(w.text) /\ v.text # w.text
                                      /\ T!Cardinality(Changed(v.text, w.text)) <= 2
          BY Zenon DEF T!Substituted
        <4> HIDE DEF Changed, r1, r2
        <4> QED BY <1>4, <3>1, <4>1, <4>2, <4>3, <4>4
      <3>3. T!Overlap(v, w)
        <4> DEFINE x == v.x
                   y == v.y
                   m == Len(to)
        <4>1. x \in Int /\ y \in Int /\ m \in Nat /\ w.x = x /\ w.y = y /\ Len(v.text) = m /\ Len(w.text) = m
          BY <1>4, <3>1
        <4> HIDE DEF x, y, m
        <4>2. T!Overlap(v, w) <=>
                LET wide == 5 * m
                    right == IF x + wide < x + wide THEN x + wide ELSE x + wide
                    least == IF wide < wide THEN wide ELSE wide
                IN 2 * (right - T!Larger(x, x)) >= least /\ 10 * (10 - T!Abs(y - y)) >= 6 * 10
          BY <4>1 DEF T!Overlap, T!Wide, T!Tall, x, y
        <4>3. T!Larger(x, x) = x /\ T!Abs(y - y) = 0
          BY <4>1 DEF T!Larger, T!Abs
        <4> QED BY <4>1, <4>2, <4>3
      <3> QED BY <3>2, <3>3 DEF T!Overlaid, v, w
    <2> QED BY <1>7, <2>1, <2>2, <2>3, <2>4
  <1>11. PICK k \in Later : \A l \in Later : k <= l
    <2>1. Later \in SUBSET Nat
      BY <1>7
    <2> HIDE DEF Later
    <2> QED BY <1>10, <2>1, LeastElement
  <1>12. /\ k \in 1 .. n /\ 1 < k /\ T!Overlaid(words[1], words[k]) /\ words[k].text = old
         /\ words[1].text = to /\ words[1].order = 1000
    BY <1>1, <1>9, <1>11
  <1>13. words[k].order \in 0 .. 999
    <2> DEFINE b == at[k]
    <2>1. b \in 1 .. Len(c) /\ words[k] = c[b] /\ 1 < b
      BY <1>7, <1>8, <1>12
    <2> HIDE DEF b
    <2>2. b - 1 \in 1 .. Len(a) /\ (b - 1) + 1 = b
      BY <1>1, <1>3, <2>1
    <2>3. c[b] = a[b - 1]
      BY <1>1, <2>2
    <2> DEFINE d == b - 1
    <2>4. d \in DOMAIN a /\ words[k] = a[d]
      BY <1>3, <2>1, <2>2, <2>3
    <2> HIDE DEF d
    <2> QED BY <2>4 DEF InReadingOrder
  <1> DEFINE p == <<1, k>>
  <1>14. p[1] = 1 /\ p[2] = k /\ p \in (1 .. n) \X (1 .. n)
    BY <1>8, <1>12
  <1> HIDE DEF p
  <1>15. p \in all
    BY <1>7, <1>12, <1>14
  <1>16. ASSUME NEW q \in all, Texts(q) = Texts(p) PROVE q = p \/ T!InListOrder(p, q)
    <2> DEFINE x == q[1]
               y == q[2]
    <2>1. q \in (1 .. n) \X (1 .. n) /\ x < y /\ T!Overlaid(words[x], words[y])
      BY <1>7
    <2>2. q = <<x, y>> /\ x \in 1 .. n /\ y \in 1 .. n
      <3>1. q \in (1 .. n) \X (1 .. n)
        BY <2>1
      <3> QED BY <3>1
    <2>3. Texts(p) = {to, old}
      BY <1>12, <1>14
    <2>4. Texts(q) = {words[x].text, words[y].text}
      OBVIOUS
    <2> HIDE DEF x, y, Texts
    <2>5. CASE x = 1
      <3>1. words[x].text = to /\ words[x].text # words[y].text
        BY <1>12, <2>1, <2>5 DEF T!Overlaid, T!Substituted
      <3>2. words[y].text = old
        BY <1>16, <2>3, <2>4, <3>1
      <3>3. y \in Later
        BY <2>1, <2>2, <2>5, <3>2
      <3>4. k <= y
        BY <1>11, <3>3
      <3>5. q = p \/ k < y
        BY <1>7, <1>12, <2>2, <2>5, <3>4 DEF p
      <3> QED BY <1>14, <2>5, <3>5 DEF T!InListOrder, x, y
    <2>6. CASE x # 1
      <3>1. 1 < x
        BY <1>7, <2>2, <2>6
      <3> QED BY <1>14, <3>1 DEF T!InListOrder, x
    <2> QED BY <2>5, <2>6
  <1> HIDE DEF Texts
  <1>17. p \in first
    BY <1>15, <1>16
  <1>18. ~Hid(p)
    <2> DEFINE o == words[k].order
    <2>1. o \in 0 .. 999
      BY <1>13
    <2> HIDE DEF o
    <2>2. ~(1000 < o)
      BY <2>1
    <2> QED BY <1>12, <1>14, <2>2 DEF o
  <1> HIDE DEF Hid, Sure, first
  <1>19. Tell(p).visible = to /\ Tell(p).hidden = old
    BY <1>12, <1>14, <1>18
  <1> HIDE DEF Tell
  <1> QED BY <1>2, <1>17, <1>19 DEF c, ToldAsLaidOver

LEMMA PlaceIsTold ==
  ASSUME RunPositions
  PROVE  PlaceAlterationIsTold'
PROOF
  <1> DEFINE A(page, edit, at, to) == IF edit = "overlaid" THEN Covered(page, at, to) ELSE page
             H(page, edit, at, to) == CASE edit = "retyped" -> Retyped(page, at, to)
                                        [] edit = "exchanged" -> Exchanged(page, at, (at % Len(page)) + 1)
                                        [] OTHER -> page
             Edits1 == {"none", "retyped", "exchanged", "overlaid"}
  <1>1. PICK page \in Pages, edit \in Edits1, to \in NewTexts : \E at \in DOMAIN page :
          input' = [a |-> A(page, edit, at, to), at |-> at, to |-> to, edit |-> edit, h |-> H(page, edit, at, to)]
    BY Zenon DEF RunPositions
  <1>2. PICK at \in DOMAIN page :
          input' = [a |-> A(page, edit, at, to), at |-> at, to |-> to, edit |-> edit, h |-> H(page, edit, at, to)]
    BY <1>1
  <1>3. found'.told = T!PositionTwins(<<input'.a>>, <<input'.h>>) /\ found'.over = T!Overlays(input'.a)
    BY DEF RunPositions
  <1>4. /\ input'.a = A(page, edit, at, to) /\ input'.h = H(page, edit, at, to)
        /\ input'.at = at /\ input'.to = to /\ input'.edit = edit
    <2> HIDE DEF A, H
    <2> QED BY <1>2
  <1>5. HasPlaces(page) /\ IsList(to) /\ \A i \in DOMAIN page : page[i].order \in 0 .. 999
    <2>1. \A p \in Pages : \A i \in DOMAIN p : p[i].order \in 0 .. 999
      BY PagesAssumption, Zenon DEF PagesAssumption
    <2>2. \A text \in NewTexts : IsList(text)
      BY PagesAssumption, Zenon DEF PagesAssumption
    <2>3. page \in Pages /\ to \in NewTexts
      BY <1>1
    <2> QED BY <2>1, <2>2, <2>3, PagesHavePlaces
  <1>6. DOMAIN page = 1 .. Len(page) /\ Len(page) \in Nat
    BY <1>5 DEF HasPlaces, Proper
  <1> DEFINE j == (at % Len(page)) + 1
  <1>7. j \in DOMAIN page
    <2> DEFINE n == Len(page)
               r == at % n
    <2>1. n \in Nat /\ at \in 1 .. n
      BY <1>6
    <2> HIDE DEF n
    <2>2. r \in 0 .. (n - 1)
      BY <2>1
    <2> HIDE DEF r
    <2>3. r + 1 \in 1 .. n
      BY <2>1, <2>2
    <2> QED BY <1>6, <2>3 DEF r, n
  <1> HIDE DEF j
  <1> DEFINE Counts(text) == Len(text) >= 4 /\ ~T!IsYear(text)
             Spread(a) == \A i, k \in DOMAIN a : i = k \/ ~T!Near(a[i], a[k])
  <1>8. edit = "retyped" =>
          (Len(T!Numeric(input'.a)) >= 4 /\ Spread(input'.a) /\ input'.a[at].text # to /\ Counts(input'.a[at].text) /\ Counts(to)
           => Len(found'.told) = 1)
    <2> SUFFICES ASSUME edit = "retyped" PROVE
             Len(T!Numeric(page)) >= 4 /\ Spread(page) /\ page[at].text # to /\ Counts(page[at].text) /\ Counts(to)
               => Len(T!PositionTwins(<<page>>, <<Retyped(page, at, to)>>)) = 1
      BY <1>3, <1>4
    <2> QED BY <1>5, RetypedIsTold DEF SpreadPage, IsCounted
  <1>9. edit = "exchanged" =>
          (Len(T!Numeric(input'.a)) >= 4 /\ Spread(input'.a) /\ input'.a[at].text # input'.a[(at % Len(input'.a)) + 1].text
             /\ Counts(input'.a[at].text) /\ Counts(input'.a[(at % Len(input'.a)) + 1].text)
           => Len(found'.told) = 1)
    <2> SUFFICES ASSUME edit = "exchanged" PROVE
             Len(T!Numeric(page)) >= 4 /\ Spread(page) /\ page[at].text # page[j].text
             /\ Counts(page[at].text) /\ Counts(page[j].text)
               => Len(T!PositionTwins(<<page>>, <<Exchanged(page, at, j)>>)) = 1
      BY <1>3, <1>4 DEF j
    <2> QED BY <1>5, <1>7, ExchangedIsTold DEF SpreadPage, IsCounted
  <1>10. edit = "overlaid" =>
           (Len(input'.h[at].text) >= 3 /\ T!Substituted([text |-> input'.h[at].text], [text |-> to])
            => found'.told = <<>> /\ \E o \in found'.over : o.visible = to /\ o.hidden = input'.h[at].text)
    <2> SUFFICES ASSUME edit = "overlaid", Len(page[at].text) >= 3, T!Substituted([text |-> page[at].text], [text |-> to])
                 PROVE  /\ T!PositionTwins(<<Covered(page, at, to)>>, <<page>>) = <<>>
                        /\ \E o \in T!Overlays(Covered(page, at, to)) : o.visible = to /\ o.hidden = page[at].text
      BY <1>3, <1>4
    <2>1. T!PositionTwins(<<Covered(page, at, to)>>, <<page>>) = <<>>
      BY <1>5, OverlaidIsNotAConflict
    <2>2. \E o \in T!Overlays(Covered(page, at, to)) : o.visible = to /\ o.hidden = page[at].text
      <3>1. HasPlaces(page) /\ IsList(to) /\ InReadingOrder(page) /\ at \in DOMAIN page
        BY <1>5, <1>2 DEF InReadingOrder
      <3>2. Misread(page[at].text, to) /\ Len(page[at].text) >= 3
        BY Zenon DEF Misread
      <3>3. ToldAsLaidOver(Covered(page, at, to), to, page[at].text)
        BY <3>1, <3>2, OverlaidIsTold
      <3> QED BY <3>3 DEF ToldAsLaidOver
    <2> QED BY <2>1, <2>2
  <1> HIDE DEF A, H
  <1>11. PlaceAlterationIsTold' <=>
           (check' = "positions" =>
             LET as == T!Numeric(input'.a)
                 old == IF input'.edit = "overlaid" THEN input'.h[input'.at].text ELSE input'.a[input'.at].text
                 next == input'.a[(input'.at % Len(input'.a)) + 1].text
             IN Len(as) >= 4 =>
                  /\ input'.edit = "retyped" /\ Spread(input'.a) /\ old # input'.to /\ Counts(old) /\ Counts(input'.to) => Len(found'.told) = 1
                  /\ input'.edit = "exchanged" /\ Spread(input'.a) /\ old # next /\ Counts(old) /\ Counts(next) => Len(found'.told) = 1
                  /\ input'.edit = "overlaid" /\ Len(old) >= 3 /\ T!Substituted([text |-> old], [text |-> input'.to]) =>
                       found'.told = <<>> /\ \E o \in found'.over : o.visible = input'.to /\ o.hidden = old)
    BY Zenon DEF PlaceAlterationIsTold
  <1> HIDE DEF Counts, Spread
  <1> QED BY <1>4, <1>8, <1>9, <1>10, <1>11

(* A number retyped, exchanged with another or laid over another is told by   *)
(* the two checks that go by the places of the numbers on a page              *)
(* (positional_value_twin.py, text_overlay_tamper.py), for every page and     *)
(* every number typed instead.                                                *)
THEOREM AlteredPlacesAreTold == Spec => []PlaceAlterationIsTold
PROOF
  <1> DEFINE Ok == PlaceAlterationIsTold
  <1>1. Init => Ok
    BY DEF Init, PlaceAlterationIsTold
  <1>2. ASSUME Ok, [Next]_vars PROVE Ok'
    <2>1. CASE UNCHANGED vars
      BY <1>2, <2>1 DEF vars, PlaceAlterationIsTold
    <2>2. CASE Next
      <3>1. check' = "positions" => RunPositions
        BY <2>2, EachCheckAsItRuns
      <3>2. CASE check' = "positions"
        BY <3>1, <3>2, PlaceIsTold
      <3>3. CASE check' # "positions"
        BY <3>3 DEF PlaceAlterationIsTold
      <3> QED BY <3>2, <3>3
    <2> QED BY <1>2, <2>1, <2>2
  <1> QED BY <1>1, <1>2, PTL DEF Spec

-----------------------------------------------------------------------------
(* RunFacts, altered texts: of the facts of one role all are the same but one, *)
(* and it says what none of the others says, in either text.  Each of the     *)
(* others is matched with itself: the first that is not would be refused for  *)
(* an earlier one that says the same, which is matched with itself.  So the   *)
(* altered one stays for what it was.                                         *)
ButOne(zs, es, k) ==
  LET several == Len(zs) >= 2 /\ Len(es) >= 2
  IN  /\ Len(es) = Len(zs) /\ k \in 1 .. Len(zs) /\ F!Fits(zs[k], es[k], several)
      /\ \A j \in 1 .. Len(zs) : j # k =>
           /\ es[j] = zs[j] /\ F!Fits(zs[j], zs[j], several)
           /\ ~F!SameValue(zs[k], zs[j]) /\ ~F!SameValue(zs[j], es[k])

LEMMA TheAlteredIsMatched ==
  ASSUME NEW zs, NEW es, NEW r, AreFactsOf(zs, r), AreFactsOf(es, r), NEW k, ButOne(zs, es, k)
  PROVE  Own(k) \in F!FactPairs(zs, es)
PROOF
  <1> DEFINE n == Len(zs)
             several == n >= 2 /\ Len(es) >= 2
             C == F!Candidates(zs, es)
             rank == [p \in C |-> F!RankOf(zs, es, p)]
             m == Greedy(Ranked(C, rank))
             Score(p) == F!FactScore(zs[p[1]], es[p[2]])
             Fit(i, j) == F!Fits(zs[i], es[j], several)
             Same(i, j) == F!SameValue(zs[i], es[j])
  <1>1. /\ n \in Nat /\ DOMAIN zs = 1 .. n /\ DOMAIN es = 1 .. n /\ k \in 1 .. n
        /\ \A i \in 1 .. n : IsFact(zs[i]) /\ <<zs[i].kind, zs[i].role>> = r
        /\ \A i \in 1 .. n : IsFact(es[i]) /\ <<es[i].kind, es[i].role>> = r
    BY DEF AreFactsOf, IsList, ButOne
  <1>2. C = {p \in (1 .. n) \X (1 .. n) : Fit(p[1], p[2])}
    BY <1>1 DEF F!Candidates
  <1>3. F!FactPairs(zs, es) = m
    BY FactsAreMatchedAlike, Zenon DEF F!FactPairs
  <1>4. Fit(k, k) /\ \A j \in 1 .. n : j # k => Fit(j, j)
    BY DEF ButOne
  <1>5. \A j \in 1 .. n : j # k => es[j] = zs[j] /\ ~Same(k, j) /\ ~Same(j, k)
    BY DEF ButOne
  <1>6. \A i, j \in 1 .. n : F!FactScore(zs[i], es[j]) \in Nat /\ (F!FactScore(zs[i], es[j]) = 0 <=> Same(i, j))
    <2> SUFFICES ASSUME NEW i \in 1 .. n, NEW j \in 1 .. n
                 PROVE F!FactScore(zs[i], es[j]) \in Nat /\ (F!FactScore(zs[i], es[j]) = 0 <=> Same(i, j))
      OBVIOUS
    <2>1. IsFact(zs[i]) /\ IsFact(es[j]) /\ zs[i].kind = es[j].kind
      BY <1>1
    <2> QED BY <2>1, FactScoresAreMutual, Zenon
  <1>7. \A j \in 1 .. n : j # k => Same(j, j)
    BY <1>1, <1>5, CrossValues
  <1>8. \A p \in C : rank[p] = <<- Score(p)>>
    BY DEF F!RankOf
  <1> HIDE DEF n, several, C, rank, Fit, m, Same
  <1>9. IsFiniteSet(C) /\ C \in SUBSET (Int \X Int)
    BY <1>1, <1>2, PairsOfPlaces, FS_Subset
  <1>10. \A p \in C : p[1] \in 1 .. n /\ p[2] \in 1 .. n /\ p = <<p[1], p[2]>> /\ Score(p) \in Nat /\ (Score(p) = 0 <=> Same(p[1], p[2]))
    BY <1>2, <1>6
  <1> HIDE DEF Score
  <1>11. \A p \in C : rank[p] \in Ints(1)
    <2> SUFFICES ASSUME NEW p \in C PROVE rank[p] \in Ints(1)
      OBVIOUS
    <2> DEFINE x == - Score(p)
    <2>1. x \in Int
      BY <1>10
    <2> HIDE DEF x
    <2>2. <<x>> \in Ints(1)
      BY <2>1, SingleRanks
    <2> QED BY <1>8, <2>2 DEF x
  <1>12. m \subseteq C /\ OneToOne(m) /\ \A p \in C \ m : \E q \in m : Meets(p, q) /\ Before(rank, q, p)
    <2> DEFINE one == 1
    <2>1. one \in Nat /\ \A p \in C : rank[p] \in Ints(one)
      BY <1>11
    <2> HIDE DEF one
    <2>2. m \subseteq C /\ OneToOne(m)
      BY <1>9, <2>1, GreedyIsFair, Zenon DEF m
    <2>3. \A p \in C \ m : \E q \in m : Meets(p, q) /\ Before(rank, q, p)
      BY <1>9, <2>1, GreedyGoesInOrder, Zenon DEF m
    <2> QED BY <2>2, <2>3
  <1>13. \A j \in 1 .. n : Own(j) \in C /\ Own(j)[1] = j /\ Own(j)[2] = j
    BY <1>2, <1>4 DEF Own
  <1>14. ASSUME NEW p \in C, NEW q \in C, Before(rank, q, p), Score(p) = 0
         PROVE  Score(q) = 0 /\ InListOrder(q, p)
    <2> DEFINE has == Score(q)
               own == Score(p)
               x == - has
               y == - own
    <2>1. has \in Nat /\ own = 0
      BY <1>10, <1>14
    <2>2. rank[q] = <<x>> /\ rank[p] = <<y>>
      BY <1>8, <1>14
    <2> HIDE DEF has, own
    <2>3. x \in Int /\ y \in Int
      BY <2>1
    <2>4. x > y \/ (x = y /\ InListOrder(q, p))
      <3> HIDE DEF x, y
      <3>1. Above(rank[q], rank[p]) \/ (rank[q] = rank[p] /\ InListOrder(q, p))
        BY <1>14 DEF Before
      <3> QED BY <2>2, <2>3, <3>1, SingleRanks
    <2>5. ~(x > y)
      BY <2>1
    <2>6. has = 0
      BY <2>1, <2>4, <2>5
    <2> QED BY <2>4, <2>5, <2>6 DEF has
  <1> DEFINE Missed == {j \in 1 .. n : j # k /\ Own(j) \notin m}
  <1>15. Missed = {}
    <2> SUFFICES ASSUME Missed # {} PROVE FALSE
      OBVIOUS
    <2>1. Missed \in SUBSET Nat
      BY <1>1
    <2>2. PICK j \in Missed : \A i \in Missed : j <= i
      <3> HIDE DEF Missed
      <3> QED BY <2>1, LeastElement
    <2>3. j \in 1 .. n /\ j # k /\ Own(j) \in C \ m
      BY <1>13, <2>2
    <2>4. Score(Own(j)) = 0
      BY <1>7, <1>10, <1>13, <2>3
    <2>5. PICK q \in m : Meets(Own(j), q) /\ Before(rank, q, Own(j))
      BY <1>12, <2>3
    <2>6. q \in C /\ Score(q) = 0 /\ InListOrder(q, Own(j))
      BY <1>12, <1>14, <2>3, <2>4, <2>5
    <2> DEFINE a == q[1]
               b == q[2]
    <2>7. a \in 1 .. n /\ b \in 1 .. n /\ q = <<a, b>> /\ Same(a, b)
      BY <1>10, <2>6
    <2>8. (a = j \/ b = j) /\ (a < j \/ (a = j /\ b < j))
      BY <1>13, <2>3, <2>5, <2>6 DEF Meets, InListOrder
    <2> HIDE DEF a, b
    <2>9. PICK i \in {a, b} : i < j
      BY <1>1, <2>7, <2>8
    <2>10. i \in 1 .. n /\ i # j /\ (q = <<i, j>> \/ q = <<j, i>>)
      BY <1>1, <2>3, <2>7, <2>8, <2>9
    <2>11. i # k
      BY <1>5, <2>3, <2>7, <2>10
    <2>12. i \notin Missed
      <3> SUFFICES ASSUME i \in Missed PROVE FALSE
        OBVIOUS
      <3>1. j <= i
        BY <2>2
      <3> QED BY <1>1, <2>3, <2>9, <2>10, <3>1
    <2>13. Own(i) \in m
      BY <2>10, <2>11, <2>12
    <2>14. Meets(q, Own(i)) /\ q # Own(i)
      BY <1>13, <2>10 DEF Meets
    <2> QED BY <1>12, <2>5, <2>13, <2>14 DEF OneToOne
  <1>16. Own(k) \in m
    <2> SUFFICES ASSUME Own(k) \notin m PROVE FALSE
      OBVIOUS
    <2>1. PICK q \in m : Meets(Own(k), q)
      BY <1>1, <1>12, <1>13
    <2>2. q \in C /\ q[1] \in 1 .. n /\ q[2] \in 1 .. n /\ q = <<q[1], q[2]>>
      BY <1>10, <1>12
    <2>3. PICK j \in 1 .. n : j # k /\ (q = <<j, k>> \/ q = <<k, j>>)
      <3>1. q[1] = k \/ q[2] = k
        BY <1>1, <1>13, <2>1 DEF Meets
      <3>2. ~(q[1] = k /\ q[2] = k)
        BY <2>1, <2>2 DEF Own
      <3> QED BY <2>2, <3>1, <3>2
    <2>4. Own(j) \in m
      BY <1>15, <2>3
    <2>5. Meets(q, Own(j)) /\ q # Own(j)
      BY <1>13, <2>3 DEF Meets
    <2> QED BY <1>12, <2>1, <2>4, <2>5 DEF OneToOne
  <1> QED BY <1>3, <1>16

-----------------------------------------------------------------------------
(* Two texts that tell of the same matters in the same places: the facts of   *)
(* both are read from the same mentions, one from each.  A mention is of one  *)
(* of five groups, by what is read from it; 0 is nothing.                     *)
SameMatter(x, y) == x.kind = y.kind /\ x.words = y.words /\ x.pos = y.pos /\ x.rate = y.rate
HasPctRole(x) == x.words \intersect F!PctRoles # {}
GroupOf(x) ==
  CASE x.kind = "amount" /\ x.rate -> 1
    [] x.kind = "count" -> 2
    [] x.kind = "amount" /\ ~x.rate /\ (x.unit # "" \/ x.cur # "") -> 3
    [] x.kind = "pct" /\ (HasPctRole(x) \/ "excluded" \notin x.words) -> 4
    [] x.kind = "date" /\ "period" \notin x.words /\ x.words \intersect F!Events # {} -> 5
    [] OTHER -> 0
Positioned(x) == GroupOf(x) = 4 /\ ~HasPctRole(x)
AmountOf(x) == [F!Fact(x, "amount", F!AmountRole(x.words), x.unit) EXCEPT !.cur = IF @ = "" THEN "" ELSE @]
RateOf(x) == [F!Fact(x, "amount", "per_10_shares", "") EXCEPT !.cur = ""]
PctRole(x) == CHOOSE r \in x.words : r \in F!PctRoles
Reading(f, x) ==
  \/ GroupOf(x) = 1 /\ f = RateOf(x)
  \/ GroupOf(x) = 2 /\ f = F!Fact(x, "count", "count", x.unit)
  \/ GroupOf(x) = 3 /\ f = AmountOf(x)
  \/ GroupOf(x) = 4 /\ HasPctRole(x) /\ f = F!Fact(x, "pct", PctRole(x), "")
  \/ Positioned(x) /\ \E i \in Nat : f = F!Fact(x, "pct", F!Positional[i], "")
  \/ GroupOf(x) = 5 /\ f = F!Fact(x, "date", "date", "")

LEMMA GroupsAreKept ==
  ASSUME NEW x
  PROVE  /\ GroupOf(x) = 1 <=> x.kind = "amount" /\ x.rate
         /\ GroupOf(x) = 2 <=> x.kind = "count"
         /\ GroupOf(x) = 3 <=> x.kind = "amount" /\ ~x.rate /\ (x.unit # "" \/ x.cur # "")
         /\ GroupOf(x) = 4 <=> x.kind = "pct" /\ (HasPctRole(x) \/ "excluded" \notin x.words)
         /\ GroupOf(x) = 5 <=> x.kind = "date" /\ "period" \notin x.words /\ x.words \intersect F!Events # {}
         /\ GroupOf(x) \in 0 .. 5
PROOF
  <1>1. "amount" # "count" /\ "amount" # "pct" /\ "amount" # "date" /\ "count" # "pct" /\ "count" # "date" /\ "pct" # "date"
    OBVIOUS
  <1> DEFINE a == x.kind = "amount" /\ x.rate
             b == x.kind = "count"
             c == x.kind = "amount" /\ ~x.rate /\ (x.unit # "" \/ x.cur # "")
             d == x.kind = "pct" /\ (HasPctRole(x) \/ "excluded" \notin x.words)
             e == x.kind = "date" /\ "period" \notin x.words /\ x.words \intersect F!Events # {}
  <1>2. ~(a /\ b) /\ ~(a /\ c) /\ ~(a /\ d) /\ ~(a /\ e) /\ ~(b /\ c) /\ ~(b /\ d) /\ ~(b /\ e) /\ ~(c /\ d) /\ ~(c /\ e) /\ ~(d /\ e)
    BY <1>1
  <1>3. GroupOf(x) = CASE a -> 1 [] b -> 2 [] c -> 3 [] d -> 4 [] e -> 5 [] OTHER -> 0
    BY Zenon DEF GroupOf
  <1> HIDE DEF a, b, c, d, e
  <1>4. /\ GroupOf(x) = 1 <=> a
        /\ GroupOf(x) = 2 <=> b
        /\ GroupOf(x) = 3 <=> c
        /\ GroupOf(x) = 4 <=> d
        /\ GroupOf(x) = 5 <=> e
        /\ GroupOf(x) \in 0 .. 5
    BY <1>2, <1>3
  <1> QED BY <1>4, Zenon DEF a, b, c, d, e

Of(s, g) == {i \in DOMAIN s : GroupOf(s[i]) = g}
Twinned(s, t) ==
  /\ Len(s) \in Nat /\ DOMAIN s = 1 .. Len(s) /\ DOMAIN t = 1 .. Len(s)
  /\ \A i \in 1 .. Len(s) : SameMatter(s[i], t[i]) /\ GroupOf(s[i]) = GroupOf(t[i])
(* fs and gs are read from the mentions of some groups of s and t; from says  *)
(* from which.                                                                *)
ReadFrom(s, fs, from, groups) ==
  /\ Proper(fs)
  /\ \A j \in 1 .. Len(fs) : from[j] \in DOMAIN s /\ Reading(fs[j], s[from[j]]) /\ GroupOf(s[from[j]]) \in groups
  /\ \A j, l \in 1 .. Len(fs) : from[j] = from[l] => j = l
  /\ \A i \in DOMAIN s : GroupOf(s[i]) \in groups => \E j \in 1 .. Len(fs) : from[j] = i
PlaceNames == {F!Positional[i] : i \in 1 .. 4}
Apart(s, fs, from) ==
  Len(s) <= 4 => \A j, l \in 1 .. Len(fs) :
    Positioned(s[from[j]]) => fs[j].role \in PlaceNames /\ (Positioned(s[from[l]]) /\ fs[j].role = fs[l].role => j = l)
ReadAlike(s, t, fs, gs, from, groups) ==
  /\ ReadFrom(s, fs, from, groups) /\ ReadFrom(t, gs, from, groups) /\ Len(gs) = Len(fs)
  /\ \A j \in 1 .. Len(fs) : fs[j].role = gs[j].role
  /\ Apart(s, fs, from)

(* The mentions of one group, in both texts.                                  *)
LEMMA KeptAlike ==
  ASSUME NEW s, NEW t, Twinned(s, t), NEW g
  PROVE  \E from : /\ IsPick(F!Picked(s, Of(s, g)), s, Of(s, g), from)
                   /\ IsPick(F!Picked(t, Of(t, g)), t, Of(s, g), from)
PROOF
  <1> DEFINE n == Len(s)
             places == Of(s, g)
  <1>1. n \in Nat /\ places \in SUBSET (1 .. n)
    BY DEF Twinned, Of
  <1>2. Of(t, g) = places
    BY DEF Twinned, Of
  <1>3. F!Picked(s, places) = Picked(s, places) /\ F!Picked(t, places) = Picked(t, places)
    BY SameListings, Zenon
  <1> HIDE DEF n, places
  <1>4. PICK from : \A u : IsPick(Picked(u, places), u, places, from)
    BY <1>1, PickedInPlace, Zenon
  <1>5. /\ IsPick(F!Picked(s, places), s, places, from)
        /\ IsPick(F!Picked(t, Of(t, g)), t, places, from)
    BY <1>2, <1>3, <1>4, Zenon
  <1> QED BY <1>5, Zenon DEF places

LEMMA OneGroupIsRead ==
  ASSUME NEW s, NEW t, Twinned(s, t), NEW g, NEW ks, NEW kt, NEW from,
         IsPick(ks, s, Of(s, g), from), IsPick(kt, t, Of(s, g), from),
         NEW fs, fs = [j \in DOMAIN ks |-> fs[j]], NEW gs, gs = [j \in DOMAIN kt |-> gs[j]],
         \A j \in 1 .. Len(ks) : Reading(fs[j], ks[j]) /\ Reading(gs[j], kt[j]) /\ fs[j].role = gs[j].role,
         \A j, l \in 1 .. Len(ks) : Len(s) <= 4 /\ Len(ks) <= Len(s) /\ Positioned(ks[j]) =>
           fs[j].role \in PlaceNames /\ (Positioned(ks[l]) /\ fs[j].role = fs[l].role => j = l)
  PROVE  ReadAlike(s, t, fs, gs, from, {g})
PROOF
  <1> DEFINE n == Len(s)
             m == Len(ks)
             places == Of(s, g)
  <1>1. n \in Nat /\ places \in SUBSET (1 .. n) /\ DOMAIN s = 1 .. n /\ DOMAIN t = 1 .. n
        /\ \A i \in 1 .. n : GroupOf(s[i]) = GroupOf(t[i])
    BY DEF Twinned, Of
  <1>2. \A i \in 1 .. n : i \in places <=> GroupOf(s[i]) = g
    BY <1>1 DEF Of
  <1>3. Proper(ks) /\ Proper(kt) /\ m = Cardinality(places) /\ Len(kt) = m
    BY DEF IsPick
  <1>4. m \in Nat /\ DOMAIN ks = 1 .. m /\ DOMAIN kt = 1 .. m
    <2>1. m \in Nat /\ ks = [i \in 1 .. m |-> ks[i]] /\ kt = [i \in 1 .. m |-> kt[i]]
      BY <1>3 DEF Proper
    <2> HIDE DEF m
    <2> QED BY <2>1
  <1>5. m <= n
    <2> HIDE DEF n, places
    <2>1. IsFiniteSet(1 .. n) /\ Cardinality(1 .. n) = n
      BY <1>1, FS_Interval
    <2>2. Cardinality(places) <= Cardinality(1 .. n)
      BY <1>1, <2>1, FS_Subset
    <2> QED BY <1>3, <2>1, <2>2
  <1>6. /\ \A k \in 1 .. m : from[k] \in places /\ ks[k] = s[from[k]] /\ kt[k] = t[from[k]]
        /\ \A i \in places : \E k \in 1 .. m : from[k] = i
        /\ \A k, l \in 1 .. m : k < l => from[k] < from[l]
    <2>1. /\ \A k \in 1 .. Len(ks) : from[k] \in places /\ ks[k] = s[from[k]]
          /\ \A i \in places : \E k \in 1 .. Len(ks) : from[k] = i
          /\ \A k, l \in 1 .. Len(ks) : k < l => from[k] < from[l]
      BY Zenon DEF IsPick
    <2>2. \A k \in 1 .. Len(kt) : kt[k] = t[from[k]]
      BY Zenon DEF IsPick
    <2> QED BY <1>3, <2>1, <2>2
  <1> HIDE DEF n, m, places
  <1>7. fs = [j \in 1 .. m |-> fs[j]] /\ gs = [j \in 1 .. m |-> gs[j]]
    BY <1>4
  <1>8. Len(fs) = m /\ Len(gs) = m /\ Proper(fs) /\ Proper(gs)
    <2>1. Len(fs) = m /\ Len(gs) = m
      BY <1>4, <1>7
    <2> QED BY <1>4, <1>7, <2>1 DEF Proper
  <1>9. \A j \in 1 .. m : Reading(fs[j], s[from[j]]) /\ Reading(gs[j], t[from[j]]) /\ fs[j].role = gs[j].role
    BY <1>6 DEF m
  <1>10. \A j, l \in 1 .. m : from[j] = from[l] => j = l
    <2> SUFFICES ASSUME NEW j \in 1 .. m, NEW l \in 1 .. m, from[j] = from[l] PROVE j = l
      OBVIOUS
    <2> DEFINE x == from[j]
               y == from[l]
    <2>1. x \in 1 .. n /\ y = x /\ (j < l => x < y) /\ (l < j => y < x)
      BY <1>1, <1>6
    <2> HIDE DEF x, y
    <2> QED BY <1>1, <1>4, <2>1
  <1>11. ReadFrom(s, fs, from, {g})
    BY <1>1, <1>2, <1>6, <1>8, <1>9, <1>10 DEF ReadFrom
  <1>12. ReadFrom(t, gs, from, {g})
    BY <1>1, <1>2, <1>6, <1>8, <1>9, <1>10 DEF ReadFrom
  <1>13. Apart(s, fs, from)
    <2>1. \A j, l \in 1 .. m : n <= 4 /\ m <= n /\ Positioned(ks[j]) =>
            fs[j].role \in PlaceNames /\ (Positioned(ks[l]) /\ fs[j].role = fs[l].role => j = l)
      BY Zenon DEF n, m
    <2>2. n <= 4 => \A j, l \in 1 .. m : Positioned(s[from[j]]) =>
            fs[j].role \in PlaceNames /\ (Positioned(s[from[l]]) /\ fs[j].role = fs[l].role => j = l)
      BY <1>5, <1>6, <2>1
    <2> QED BY <1>8, <2>2, Zenon DEF Apart, n
  <1> QED BY <1>8, <1>9, <1>11, <1>12, <1>13 DEF ReadAlike

(* Of two groups, one after the other.                                        *)
LEMMA JoinedAlike ==
  ASSUME NEW s, NEW t, Twinned(s, t),
         NEW f1, NEW g1, NEW at1, NEW groups1, ReadAlike(s, t, f1, g1, at1, groups1),
         NEW f2, NEW g2, NEW at2, NEW groups2, ReadAlike(s, t, f2, g2, at2, groups2),
         groups1 \intersect groups2 = {}
  PROVE  \E at : ReadAlike(s, t, f1 \o f2, g1 \o g2, at, groups1 \union groups2)
PROOF
  <1> DEFINE n1 == Len(f1)
             n2 == Len(f2)
             m == n1 + n2
             at == [i \in 1 .. m |-> IF i <= n1 THEN at1[i] ELSE at2[i - n1]]
             f == f1 \o f2
             g == g1 \o g2
             groups == groups1 \union groups2
  <1>1. Proper(f1) /\ Proper(f2) /\ Proper(g1) /\ Proper(g2) /\ Len(g1) = n1 /\ Len(g2) = n2
    BY DEF ReadAlike, ReadFrom
  <1>2. n1 \in Nat /\ n2 \in Nat /\ m \in Nat
    BY <1>1 DEF Proper
  <1>3. Proper(f) /\ Len(f) = m /\ (\A i \in 1 .. n1 : f[i] = f1[i]) /\ (\A i \in 1 .. n2 : f[n1 + i] = f2[i])
    <2>1. /\ Proper(f1 \o f2) /\ Len(f1 \o f2) = Len(f1) + Len(f2)
          /\ \A i \in 1 .. Len(f1) : (f1 \o f2)[i] = f1[i]
          /\ \A i \in 1 .. Len(f2) : (f1 \o f2)[Len(f1) + i] = f2[i]
          /\ \A i \in 1 .. Len(f1 \o f2) :
               \/ i <= Len(f1) /\ (f1 \o f2)[i] = f1[i]
               \/ i - Len(f1) \in 1 .. Len(f2) /\ (f1 \o f2)[i] = f2[i - Len(f1)]
      BY <1>1, JoinedLists
    <2> QED BY <2>1, Zenon
  <1>4. Proper(g) /\ Len(g) = m /\ (\A i \in 1 .. n1 : g[i] = g1[i]) /\ (\A i \in 1 .. n2 : g[n1 + i] = g2[i])
    <2>1. /\ Proper(g1 \o g2) /\ Len(g1 \o g2) = Len(g1) + Len(g2)
          /\ \A i \in 1 .. Len(g1) : (g1 \o g2)[i] = g1[i]
          /\ \A i \in 1 .. Len(g2) : (g1 \o g2)[Len(g1) + i] = g2[i]
          /\ \A i \in 1 .. Len(g1 \o g2) :
               \/ i <= Len(g1) /\ (g1 \o g2)[i] = g1[i]
               \/ i - Len(g1) \in 1 .. Len(g2) /\ (g1 \o g2)[i] = g2[i - Len(g1)]
      BY <1>1, JoinedLists
    <2> QED BY <1>1, <2>1, Zenon
  <1> HIDE DEF f, g
  <1>5. (\A i \in 1 .. n1 : i \in 1 .. m /\ at[i] = at1[i]) /\ (\A i \in 1 .. n2 : n1 + i \in 1 .. m /\ at[n1 + i] = at2[i])
    <2> HIDE DEF n1, n2
    <2>1. ASSUME NEW i \in 1 .. n1 PROVE i \in 1 .. m /\ at[i] = at1[i]
      BY <1>2
    <2>2. ASSUME NEW i \in 1 .. n2 PROVE n1 + i \in 1 .. m /\ at[n1 + i] = at2[i]
      <3>1. n1 + i \in 1 .. m /\ ~(n1 + i <= n1) /\ (n1 + i) - n1 = i
        BY <1>2
      <3> QED BY <3>1
    <2> QED BY <2>1, <2>2
  <1>6. \A j \in 1 .. m : j \in 1 .. n1 \/ \E i \in 1 .. n2 : j = n1 + i
    <2> SUFFICES ASSUME NEW j \in 1 .. m, j \notin 1 .. n1 PROVE \E i \in 1 .. n2 : j = n1 + i
      OBVIOUS
    <2> HIDE DEF n1, n2
    <2>1. j - n1 \in 1 .. n2 /\ j = n1 + (j - n1)
      BY <1>2
    <2> QED BY <2>1
  <1>7. /\ \A j \in 1 .. n1 : at1[j] \in DOMAIN s /\ Reading(f1[j], s[at1[j]]) /\ GroupOf(s[at1[j]]) \in groups1
        /\ \A j, l \in 1 .. n1 : at1[j] = at1[l] => j = l
        /\ \A i \in DOMAIN s : GroupOf(s[i]) \in groups1 => \E j \in 1 .. n1 : at1[j] = i
        /\ \A j \in 1 .. n1 : at1[j] \in DOMAIN t /\ Reading(g1[j], t[at1[j]]) /\ GroupOf(t[at1[j]]) \in groups1
        /\ \A j \in 1 .. n1 : f1[j].role = g1[j].role
        /\ Apart(s, f1, at1)
    BY <1>1 DEF ReadAlike, ReadFrom
  <1>8. /\ \A j \in 1 .. n2 : at2[j] \in DOMAIN s /\ Reading(f2[j], s[at2[j]]) /\ GroupOf(s[at2[j]]) \in groups2
        /\ \A j, l \in 1 .. n2 : at2[j] = at2[l] => j = l
        /\ \A i \in DOMAIN s : GroupOf(s[i]) \in groups2 => \E j \in 1 .. n2 : at2[j] = i
        /\ \A j \in 1 .. n2 : at2[j] \in DOMAIN t /\ Reading(g2[j], t[at2[j]]) /\ GroupOf(t[at2[j]]) \in groups2
        /\ \A j \in 1 .. n2 : f2[j].role = g2[j].role
        /\ Apart(s, f2, at2)
    BY <1>1 DEF ReadAlike, ReadFrom
  <1>9. DOMAIN t = DOMAIN s /\ \A i \in DOMAIN s : GroupOf(t[i]) = GroupOf(s[i])
    BY DEF Twinned
  <1>10. Len(s) <= 4 => /\ \A j, l \in 1 .. n1 : Positioned(s[at1[j]]) =>
                            f1[j].role \in PlaceNames /\ (Positioned(s[at1[l]]) /\ f1[j].role = f1[l].role => j = l)
                        /\ \A j, l \in 1 .. n2 : Positioned(s[at2[j]]) =>
                            f2[j].role \in PlaceNames /\ (Positioned(s[at2[l]]) /\ f2[j].role = f2[l].role => j = l)
    BY <1>7, <1>8, Zenon DEF Apart
  <1> HIDE DEF n1, n2, m, at, groups
  <1>11. \A j \in 1 .. n1, i \in 1 .. n2 : at1[j] # at2[i] /\ ~(Positioned(s[at1[j]]) /\ Positioned(s[at2[i]]))
    <2> SUFFICES ASSUME NEW j \in 1 .. n1, NEW i \in 1 .. n2
                 PROVE  at1[j] # at2[i] /\ ~(Positioned(s[at1[j]]) /\ Positioned(s[at2[i]]))
      OBVIOUS
    <2>1. GroupOf(s[at1[j]]) \in groups1 /\ GroupOf(s[at2[i]]) \in groups2
      BY <1>7, <1>8
    <2>2. GroupOf(s[at1[j]]) # GroupOf(s[at2[i]])
      BY <2>1
    <2> QED BY <2>2 DEF Positioned
  <1>12. ASSUME NEW j \in 1 .. m
         PROVE  /\ at[j] \in DOMAIN s /\ Reading(f[j], s[at[j]]) /\ GroupOf(s[at[j]]) \in groups
                /\ at[j] \in DOMAIN t /\ Reading(g[j], t[at[j]]) /\ GroupOf(t[at[j]]) \in groups
                /\ f[j].role = g[j].role
    <2>1. CASE j \in 1 .. n1
      BY <1>3, <1>4, <1>5, <1>7, <2>1 DEF groups
    <2>2. CASE \E i \in 1 .. n2 : j = n1 + i
      <3>1. PICK i \in 1 .. n2 : j = n1 + i
        BY <2>2
      <3>2. f[j] = f2[i] /\ g[j] = g2[i] /\ at[j] = at2[i]
        BY <1>3, <1>4, <1>5, <3>1
      <3> QED BY <1>8, <3>2 DEF groups
    <2> QED BY <1>6, <2>1, <2>2
  <1>13. ASSUME NEW j \in 1 .. m, NEW l \in 1 .. m
         PROVE  /\ at[j] = at[l] => j = l
                /\ Len(s) <= 4 /\ Positioned(s[at[j]]) =>
                     f[j].role \in PlaceNames /\ (Positioned(s[at[l]]) /\ f[j].role = f[l].role => j = l)
    <2>1. CASE j \in 1 .. n1 /\ l \in 1 .. n1
      BY <1>3, <1>5, <1>7, <1>10, <2>1
    <2>2. CASE j \in 1 .. n1 /\ \E i \in 1 .. n2 : l = n1 + i
      <3>1. PICK i \in 1 .. n2 : l = n1 + i
        BY <2>2
      <3>2. at[l] = at2[i] /\ at[j] = at1[j] /\ f[j] = f1[j]
        BY <1>3, <1>5, <2>2, <3>1
      <3> QED BY <1>10, <1>11, <2>2, <3>2
    <2>3. CASE l \in 1 .. n1 /\ \E i \in 1 .. n2 : j = n1 + i
      <3>1. PICK i \in 1 .. n2 : j = n1 + i
        BY <2>3
      <3>2. at[j] = at2[i] /\ at[l] = at1[l] /\ f[j] = f2[i]
        BY <1>3, <1>5, <2>3, <3>1
      <3> QED BY <1>10, <1>11, <2>3, <3>2
    <2>4. CASE (\E i \in 1 .. n2 : j = n1 + i) /\ (\E i \in 1 .. n2 : l = n1 + i)
      <3>1. PICK a \in 1 .. n2 : j = n1 + a
        BY <2>4
      <3>2. PICK b \in 1 .. n2 : l = n1 + b
        BY <2>4
      <3>3. f[j] = f2[a] /\ f[l] = f2[b] /\ at[j] = at2[a] /\ at[l] = at2[b]
        BY <1>3, <1>5, <3>1, <3>2
      <3>4. a = b => j = l
        BY <3>1, <3>2
      <3> QED BY <1>8, <1>10, <3>3, <3>4
    <2> QED BY <1>6, <2>1, <2>2, <2>3, <2>4
  <1>14. ASSUME NEW i \in DOMAIN s, GroupOf(s[i]) \in groups PROVE \E j \in 1 .. m : at[j] = i
    <2>1. CASE GroupOf(s[i]) \in groups1
      BY <1>5, <1>7, <2>1
    <2>2. CASE GroupOf(s[i]) \in groups2
      <3>1. PICK j \in 1 .. n2 : at2[j] = i
        BY <1>8, <2>2
      <3> QED BY <1>5, <3>1
    <2> QED BY <1>14, <2>1, <2>2 DEF groups
  <1>15. ReadFrom(s, f, at, groups)
    BY <1>3, <1>12, <1>13, <1>14 DEF ReadFrom
  <1>16. ReadFrom(t, g, at, groups)
    BY <1>4, <1>9, <1>12, <1>13, <1>14 DEF ReadFrom
  <1>17. Apart(s, f, at)
    BY <1>3, <1>13 DEF Apart
  <1>18. ReadAlike(s, t, f, g, at, groups)
    BY <1>3, <1>4, <1>12, <1>15, <1>16, <1>17 DEF ReadAlike
  <1> QED BY <1>18, Zenon DEF f, g, groups

LEMMA PickedAlike ==
  ASSUME NEW s, NEW t, Twinned(s, t), NEW g, NEW ks, NEW kt, NEW at,
         IsPick(ks, s, Of(s, g), at), IsPick(kt, t, Of(s, g), at)
  PROVE  /\ DOMAIN ks = 1 .. Len(ks) /\ DOMAIN kt = 1 .. Len(ks) /\ Len(ks) \in Nat
         /\ \A j \in 1 .. Len(ks) : GroupOf(ks[j]) = g /\ GroupOf(kt[j]) = g /\ SameMatter(ks[j], kt[j])
PROOF
  <1> DEFINE m == Len(ks)
  <1>1. Proper(ks) /\ Proper(kt) /\ Len(kt) = m
    BY DEF IsPick
  <1>2. m \in Nat /\ ks = [i \in 1 .. m |-> ks[i]] /\ kt = [i \in 1 .. m |-> kt[i]]
    BY <1>1 DEF Proper
  <1>3. \A k \in 1 .. m : at[k] \in Of(s, g) /\ ks[k] = s[at[k]]
    BY Zenon DEF IsPick
  <1>4. \A k \in 1 .. Len(kt) : kt[k] = t[at[k]]
    BY Zenon DEF IsPick
  <1> HIDE DEF m
  <1>5. DOMAIN ks = 1 .. m /\ DOMAIN kt = 1 .. m
    BY <1>2
  <1>6. ASSUME NEW j \in 1 .. m PROVE GroupOf(ks[j]) = g /\ GroupOf(kt[j]) = g /\ SameMatter(ks[j], kt[j])
    <2>1. at[j] \in 1 .. Len(s) /\ GroupOf(s[at[j]]) = g
      BY <1>3 DEF Of, Twinned
    <2>2. SameMatter(s[at[j]], t[at[j]]) /\ GroupOf(s[at[j]]) = GroupOf(t[at[j]])
      BY <2>1 DEF Twinned
    <2> QED BY <1>1, <1>3, <1>4, <2>1, <2>2
  <1> QED BY <1>2, <1>5, <1>6 DEF m

LEMMA RolesOfFacts ==
  ASSUME NEW x
  PROVE  /\ \A k, r, u : F!Fact(x, k, r, u).kind = k /\ F!Fact(x, k, r, u).role = r
         /\ RateOf(x).kind = "amount" /\ RateOf(x).role = "per_10_shares"
         /\ AmountOf(x).kind = "amount" /\ AmountOf(x).role = F!AmountRole(x.words)
PROOF
  <1>1. ASSUME NEW k, NEW r, NEW u
        PROVE  /\ F!Fact(x, k, r, u).kind = k /\ F!Fact(x, k, r, u).role = r
               /\ \A c : [F!Fact(x, k, r, u) EXCEPT !.cur = c].kind = k /\ [F!Fact(x, k, r, u) EXCEPT !.cur = c].role = r
    BY DEF F!Fact
  <1>2. RateOf(x).kind = "amount" /\ RateOf(x).role = "per_10_shares"
    <2> DEFINE f == F!Fact(x, "amount", "per_10_shares", "")
    <2>1. [f EXCEPT !.cur = ""].kind = "amount" /\ [f EXCEPT !.cur = ""].role = "per_10_shares"
      BY DEF F!Fact
    <2> QED BY <2>1, Zenon DEF RateOf
  <1> DEFINE role == F!AmountRole(x.words)
             f == F!Fact(x, "amount", role, x.unit)
             c == IF f.cur = "" THEN "" ELSE f.cur
  <1>3. AmountOf(x) = [f EXCEPT !.cur = c]
    BY DEF AmountOf
  <1>4. [f EXCEPT !.cur = c].kind = "amount" /\ [f EXCEPT !.cur = c].role = role
    <2> HIDE DEF role, c
    <2> QED BY <1>1
  <1> HIDE DEF f, c
  <1> QED BY <1>1, <1>2, <1>3, <1>4

(* Each kind of fact is read from its group.                                  *)
LEMMA RatesAreRead ==
  ASSUME NEW s, NEW t, Twinned(s, t)
  PROVE  \E at : ReadAlike(s, t, F!RateFacts(s), F!RateFacts(t), at, {1})
PROOF
  <1> DEFINE Made(x) == RateOf(x)
             ks == F!Picked(s, Of(s, 1))
             kt == F!Picked(t, Of(t, 1))
             fs == [j \in DOMAIN ks |-> Made(ks[j])]
             gs == [j \in DOMAIN kt |-> Made(kt[j])]
             g == 1
  <1>1. PICK at : IsPick(ks, s, Of(s, g), at) /\ IsPick(kt, t, Of(s, g), at)
    BY KeptAlike, Zenon
  <1>2. \A u : {i \in DOMAIN u : u[i].kind = "amount" /\ u[i].rate} = Of(u, 1)
    BY GroupsAreKept DEF Of
  <1>3. F!RateFacts(s) = fs /\ F!RateFacts(t) = gs
    BY <1>2, Zenon DEF F!RateFacts, RateOf
  <1>4. \A x, y : GroupOf(x) = g /\ GroupOf(y) = g /\ SameMatter(x, y) =>
          Reading(Made(x), x) /\ Reading(Made(y), y) /\ Made(x).role = Made(y).role
    <2>1. \A x : GroupOf(x) = g => Reading(Made(x), x)
      BY Zenon DEF Reading
    <2>2. \A x, y : x.words = y.words => Made(x).role = Made(y).role
      <3> SUFFICES ASSUME NEW x, NEW y, x.words = y.words PROVE Made(x).role = Made(y).role
        OBVIOUS
      <3> QED BY RolesOfFacts DEF F!Fact
    <2> HIDE DEF Made
    <2> QED BY <2>1, <2>2 DEF SameMatter
  <1>5. \A x : GroupOf(x) = g => ~Positioned(x)
    BY DEF Positioned
  <1> HIDE DEF Made, ks, kt, g
  <1>6. /\ DOMAIN ks = 1 .. Len(ks) /\ DOMAIN kt = 1 .. Len(ks)
        /\ \A j \in 1 .. Len(ks) : GroupOf(ks[j]) = g /\ GroupOf(kt[j]) = g /\ SameMatter(ks[j], kt[j])
    BY <1>1, PickedAlike
  <1>7. \A j \in 1 .. Len(ks) : Reading(fs[j], ks[j]) /\ Reading(gs[j], kt[j]) /\ fs[j].role = gs[j].role
    BY <1>4, <1>6
  <1>8. \A j \in 1 .. Len(ks) : ~Positioned(ks[j])
    BY <1>5, <1>6
  <1>9. fs = [j \in DOMAIN ks |-> fs[j]] /\ gs = [j \in DOMAIN kt |-> gs[j]]
    OBVIOUS
  <1> HIDE DEF fs, gs
  <1>10. ReadAlike(s, t, fs, gs, at, {g})
    BY <1>1, <1>7, <1>8, <1>9, OneGroupIsRead
  <1> QED BY <1>3, <1>10, Zenon DEF g

LEMMA CountsAreRead ==
  ASSUME NEW s, NEW t, Twinned(s, t)
  PROVE  \E at : ReadAlike(s, t, F!CountFacts(s), F!CountFacts(t), at, {2})
PROOF
  <1> DEFINE Made(x) == F!Fact(x, "count", "count", x.unit)
             ks == F!Picked(s, Of(s, 2))
             kt == F!Picked(t, Of(t, 2))
             fs == [j \in DOMAIN ks |-> Made(ks[j])]
             gs == [j \in DOMAIN kt |-> Made(kt[j])]
             g == 2
  <1>1. PICK at : IsPick(ks, s, Of(s, g), at) /\ IsPick(kt, t, Of(s, g), at)
    BY KeptAlike, Zenon
  <1>2. \A u : {i \in DOMAIN u : u[i].kind = "count"} = Of(u, 2)
    BY GroupsAreKept DEF Of
  <1>3. F!CountFacts(s) = fs /\ F!CountFacts(t) = gs
    BY <1>2, Zenon DEF F!CountFacts
  <1>4. \A x, y : GroupOf(x) = g /\ GroupOf(y) = g /\ SameMatter(x, y) =>
          Reading(Made(x), x) /\ Reading(Made(y), y) /\ Made(x).role = Made(y).role
    <2>1. \A x : GroupOf(x) = g => Reading(Made(x), x)
      BY Zenon DEF Reading
    <2>2. \A x, y : x.words = y.words => Made(x).role = Made(y).role
      <3> SUFFICES ASSUME NEW x, NEW y, x.words = y.words PROVE Made(x).role = Made(y).role
        OBVIOUS
      <3> QED BY RolesOfFacts DEF F!Fact
    <2> HIDE DEF Made
    <2> QED BY <2>1, <2>2 DEF SameMatter
  <1>5. \A x : GroupOf(x) = g => ~Positioned(x)
    BY DEF Positioned
  <1> HIDE DEF Made, ks, kt, g
  <1>6. /\ DOMAIN ks = 1 .. Len(ks) /\ DOMAIN kt = 1 .. Len(ks)
        /\ \A j \in 1 .. Len(ks) : GroupOf(ks[j]) = g /\ GroupOf(kt[j]) = g /\ SameMatter(ks[j], kt[j])
    BY <1>1, PickedAlike
  <1>7. \A j \in 1 .. Len(ks) : Reading(fs[j], ks[j]) /\ Reading(gs[j], kt[j]) /\ fs[j].role = gs[j].role
    BY <1>4, <1>6
  <1>8. \A j \in 1 .. Len(ks) : ~Positioned(ks[j])
    BY <1>5, <1>6
  <1>9. fs = [j \in DOMAIN ks |-> fs[j]] /\ gs = [j \in DOMAIN kt |-> gs[j]]
    OBVIOUS
  <1> HIDE DEF fs, gs
  <1>10. ReadAlike(s, t, fs, gs, at, {g})
    BY <1>1, <1>7, <1>8, <1>9, OneGroupIsRead
  <1> QED BY <1>3, <1>10, Zenon DEF g

LEMMA AmountsAreRead ==
  ASSUME NEW s, NEW t, Twinned(s, t)
  PROVE  \E at : ReadAlike(s, t, F!AmountFacts(s, ""), F!AmountFacts(t, ""), at, {3})
PROOF
  <1> DEFINE Made(x) == AmountOf(x)
             ks == F!Picked(s, Of(s, 3))
             kt == F!Picked(t, Of(t, 3))
             fs == [j \in DOMAIN ks |-> Made(ks[j])]
             gs == [j \in DOMAIN kt |-> Made(kt[j])]
             g == 3
  <1>1. PICK at : IsPick(ks, s, Of(s, g), at) /\ IsPick(kt, t, Of(s, g), at)
    BY KeptAlike, Zenon
  <1>2. \A u : {i \in DOMAIN u : u[i].kind = "amount" /\ ~u[i].rate /\ (u[i].unit # "" \/ u[i].cur # "")} = Of(u, 3)
    BY GroupsAreKept DEF Of
  <1>3. F!AmountFacts(s, "") = fs /\ F!AmountFacts(t, "") = gs
    BY <1>2, Zenon DEF F!AmountFacts, AmountOf
  <1>4. \A x, y : GroupOf(x) = g /\ GroupOf(y) = g /\ SameMatter(x, y) =>
          Reading(Made(x), x) /\ Reading(Made(y), y) /\ Made(x).role = Made(y).role
    <2>1. \A x : GroupOf(x) = g => Reading(Made(x), x)
      BY Zenon DEF Reading
    <2>2. \A x, y : x.words = y.words => Made(x).role = Made(y).role
      <3> SUFFICES ASSUME NEW x, NEW y, x.words = y.words PROVE Made(x).role = Made(y).role
        OBVIOUS
      <3> QED BY RolesOfFacts DEF F!Fact
    <2> HIDE DEF Made
    <2> QED BY <2>1, <2>2 DEF SameMatter
  <1>5. \A x : GroupOf(x) = g => ~Positioned(x)
    BY DEF Positioned
  <1> HIDE DEF Made, ks, kt, g
  <1>6. /\ DOMAIN ks = 1 .. Len(ks) /\ DOMAIN kt = 1 .. Len(ks)
        /\ \A j \in 1 .. Len(ks) : GroupOf(ks[j]) = g /\ GroupOf(kt[j]) = g /\ SameMatter(ks[j], kt[j])
    BY <1>1, PickedAlike
  <1>7. \A j \in 1 .. Len(ks) : Reading(fs[j], ks[j]) /\ Reading(gs[j], kt[j]) /\ fs[j].role = gs[j].role
    BY <1>4, <1>6
  <1>8. \A j \in 1 .. Len(ks) : ~Positioned(ks[j])
    BY <1>5, <1>6
  <1>9. fs = [j \in DOMAIN ks |-> fs[j]] /\ gs = [j \in DOMAIN kt |-> gs[j]]
    OBVIOUS
  <1> HIDE DEF fs, gs
  <1>10. ReadAlike(s, t, fs, gs, at, {g})
    BY <1>1, <1>7, <1>8, <1>9, OneGroupIsRead
  <1> QED BY <1>3, <1>10, Zenon DEF g

LEMMA DatesAreRead ==
  ASSUME NEW s, NEW t, Twinned(s, t)
  PROVE  \E at : ReadAlike(s, t, F!DateFacts(s), F!DateFacts(t), at, {5})
PROOF
  <1> DEFINE Made(x) == F!Fact(x, "date", "date", "")
             ks == F!Picked(s, Of(s, 5))
             kt == F!Picked(t, Of(t, 5))
             fs == [j \in DOMAIN ks |-> Made(ks[j])]
             gs == [j \in DOMAIN kt |-> Made(kt[j])]
             g == 5
  <1>1. PICK at : IsPick(ks, s, Of(s, g), at) /\ IsPick(kt, t, Of(s, g), at)
    BY KeptAlike, Zenon
  <1>2. \A u : {i \in DOMAIN u : u[i].kind = "date" /\ "period" \notin u[i].words /\ u[i].words \intersect F!Events # {}} = Of(u, 5)
    BY GroupsAreKept DEF Of
  <1>3. F!DateFacts(s) = fs /\ F!DateFacts(t) = gs
    BY <1>2, Zenon DEF F!DateFacts
  <1>4. \A x, y : GroupOf(x) = g /\ GroupOf(y) = g /\ SameMatter(x, y) =>
          Reading(Made(x), x) /\ Reading(Made(y), y) /\ Made(x).role = Made(y).role
    <2>1. \A x : GroupOf(x) = g => Reading(Made(x), x)
      BY Zenon DEF Reading
    <2>2. \A x, y : x.words = y.words => Made(x).role = Made(y).role
      <3> SUFFICES ASSUME NEW x, NEW y, x.words = y.words PROVE Made(x).role = Made(y).role
        OBVIOUS
      <3> QED BY RolesOfFacts DEF F!Fact
    <2> HIDE DEF Made
    <2> QED BY <2>1, <2>2 DEF SameMatter
  <1>5. \A x : GroupOf(x) = g => ~Positioned(x)
    BY DEF Positioned
  <1> HIDE DEF Made, ks, kt, g
  <1>6. /\ DOMAIN ks = 1 .. Len(ks) /\ DOMAIN kt = 1 .. Len(ks)
        /\ \A j \in 1 .. Len(ks) : GroupOf(ks[j]) = g /\ GroupOf(kt[j]) = g /\ SameMatter(ks[j], kt[j])
    BY <1>1, PickedAlike
  <1>7. \A j \in 1 .. Len(ks) : Reading(fs[j], ks[j]) /\ Reading(gs[j], kt[j]) /\ fs[j].role = gs[j].role
    BY <1>4, <1>6
  <1>8. \A j \in 1 .. Len(ks) : ~Positioned(ks[j])
    BY <1>5, <1>6
  <1>9. fs = [j \in DOMAIN ks |-> fs[j]] /\ gs = [j \in DOMAIN kt |-> gs[j]]
    OBVIOUS
  <1> HIDE DEF fs, gs
  <1>10. ReadAlike(s, t, fs, gs, at, {g})
    BY <1>1, <1>7, <1>8, <1>9, OneGroupIsRead
  <1> QED BY <1>3, <1>10, Zenon DEF g

LEMMA NamesOfPlaces ==
  ASSUME NEW j \in 1 .. 4, NEW l \in 1 .. 4
  PROVE  /\ F!Positional[j] = F!Positional[l] => j = l
         /\ F!Positional[j] \notin F!PctRoles
         /\ DOMAIN F!Positional = 1 .. 4 /\ Len(F!Positional) = 4
PROOF
  <1> DEFINE p == F!Positional
  <1>1. p[1] = "pct0" /\ p[2] = "pct1" /\ p[3] = "pct2" /\ p[4] = "pct3" /\ DOMAIN p = 1 .. 4 /\ Len(p) = 4
    BY DEF F!Positional
  <1> HIDE DEF p
  <1>2. (j = 1 \/ j = 2 \/ j = 3 \/ j = 4) /\ (l = 1 \/ l = 2 \/ l = 3 \/ l = 4)
    OBVIOUS
  <1>3. \A r \in {"pct0", "pct1", "pct2", "pct3"} : r \notin F!PctRoles
    BY DEF F!PctRoles
  <1> QED BY <1>1, <1>2, <1>3 DEF p

LEMMA PctsAreRead ==
  ASSUME NEW s, NEW t, Twinned(s, t)
  PROVE  \E at : ReadAlike(s, t, F!PctFacts(s), F!PctFacts(t), at, {4})
PROOF
  <1> DEFINE Role(x, i) == IF HasPctRole(x) THEN PctRole(x) ELSE F!Positional[i]
             Made(x, i) == F!Fact(x, "pct", Role(x, i), "")
             ks == F!Picked(s, Of(s, 4))
             kt == F!Picked(t, Of(t, 4))
             fs == [j \in DOMAIN ks |-> Made(ks[j], j)]
             gs == [j \in DOMAIN kt |-> Made(kt[j], j)]
             g == 4
  <1>1. PICK at : IsPick(ks, s, Of(s, g), at) /\ IsPick(kt, t, Of(s, g), at)
    BY KeptAlike, Zenon
  <1>2. \A u : {i \in DOMAIN u : u[i].kind = "pct" /\ (u[i].words \intersect F!PctRoles # {} \/ "excluded" \notin u[i].words)} = Of(u, 4)
    BY GroupsAreKept DEF Of, HasPctRole
  <1>3. F!PctFacts(s) = fs /\ F!PctFacts(t) = gs
    <2> DEFINE Kept(w) == F!Picked(w, {i \in DOMAIN w : w[i].kind = "pct"
                             /\ (w[i].words \intersect F!PctRoles # {} \/ "excluded" \notin w[i].words)})
               Tell(w) == [j \in DOMAIN w |-> Made(w[j], j)]
    <2>1. F!PctFacts(s) = Tell(Kept(s)) /\ F!PctFacts(t) = Tell(Kept(t))
      BY DEF F!PctFacts, HasPctRole, PctRole
    <2>2. fs = Tell(ks) /\ gs = Tell(kt)
      OBVIOUS
    <2>3. Kept(s) = ks /\ Kept(t) = kt
      BY <1>2, Zenon
    <2> HIDE DEF Kept, Tell, ks, kt
    <2> QED BY <2>1, <2>2, <2>3, Zenon
  <1>4. \A x, i : Made(x, i).role = Role(x, i)
    BY DEF F!Fact
  <1>5. \A x, i : GroupOf(x) = g /\ i \in Nat => Reading(Made(x, i), x)
    BY Zenon DEF Reading, Positioned
  <1>6. \A x, y, i : SameMatter(x, y) => Role(x, i) = Role(y, i)
    <2> DEFINE Has(w) == w \intersect F!PctRoles # {}
               Which(w) == CHOOSE r \in w : r \in F!PctRoles
    <2>1. \A x, i : Role(x, i) = IF Has(x.words) THEN Which(x.words) ELSE F!Positional[i]
      BY Zenon DEF HasPctRole, PctRole
    <2> HIDE DEF Has, Which, Role
    <2> QED BY <2>1, Zenon DEF SameMatter
  <1>7. \A x, i : Positioned(x) => Role(x, i) = F!Positional[i]
    BY Zenon DEF Positioned
  <1> HIDE DEF Made, ks, kt, g, Role
  <1>8. /\ DOMAIN ks = 1 .. Len(ks) /\ DOMAIN kt = 1 .. Len(ks) /\ Len(ks) \in Nat
        /\ \A j \in 1 .. Len(ks) : GroupOf(ks[j]) = g /\ GroupOf(kt[j]) = g /\ SameMatter(ks[j], kt[j])
    BY <1>1, PickedAlike
  <1>9. \A j \in 1 .. Len(ks) : /\ Reading(fs[j], ks[j]) /\ Reading(gs[j], kt[j]) /\ fs[j].role = gs[j].role
                                /\ fs[j].role = Role(ks[j], j)
    <2> SUFFICES ASSUME NEW j \in 1 .. Len(ks)
                 PROVE  /\ Reading(fs[j], ks[j]) /\ Reading(gs[j], kt[j]) /\ fs[j].role = gs[j].role
                        /\ fs[j].role = Role(ks[j], j)
      OBVIOUS
    <2>1. fs[j] = Made(ks[j], j) /\ gs[j] = Made(kt[j], j) /\ j \in Nat
      BY <1>8
    <2> QED BY <1>4, <1>5, <1>6, <1>8, <2>1
  <1>10. fs = [j \in DOMAIN ks |-> fs[j]] /\ gs = [j \in DOMAIN kt |-> gs[j]]
    OBVIOUS
  <1> HIDE DEF fs, gs
  <1>11. ASSUME NEW j \in 1 .. Len(ks), NEW l \in 1 .. Len(ks), Len(s) <= 4, Len(ks) <= Len(s),
                Positioned(ks[j])
         PROVE  fs[j].role \in PlaceNames /\ (Positioned(ks[l]) /\ fs[j].role = fs[l].role => j = l)
    <2> DEFINE m == Len(ks)
               n == Len(s)
    <2>1. m \in Nat /\ n \in Nat /\ m <= n /\ n <= 4 /\ j \in 1 .. m /\ l \in 1 .. m
      BY <1>8, <1>11 DEF Twinned
    <2> HIDE DEF m, n
    <2>2. j \in 1 .. 4 /\ l \in 1 .. 4
      BY <2>1
    <2>3. fs[j].role = F!Positional[j] /\ (Positioned(ks[l]) => fs[l].role = F!Positional[l])
      BY <1>7, <1>9, <1>11
    <2>4. fs[j].role \in PlaceNames
      BY <2>2, <2>3 DEF PlaceNames
    <2> QED BY <2>2, <2>3, <2>4, NamesOfPlaces
  <1>12. ReadAlike(s, t, fs, gs, at, {g})
    BY <1>1, <1>9, <1>10, <1>11, OneGroupIsRead
  <1> QED BY <1>3, <1>12, Zenon DEF g

LEMMA TextsAreReadAlike ==
  ASSUME NEW s, NEW t, Twinned(s, t)
  PROVE  \E at : ReadAlike(s, t, F!Facts(s, ""), F!Facts(t, ""), at, 1 .. 5)
PROOF
  <1> DEFINE a == F!RateFacts(s)
             b == F!CountFacts(s)
             c == F!AmountFacts(s, "")
             d == F!PctFacts(s)
             e == F!DateFacts(s)
             p == F!RateFacts(t)
             q == F!CountFacts(t)
             r == F!AmountFacts(t, "")
             u == F!PctFacts(t)
             v == F!DateFacts(t)
  <1>1. F!Facts(s, "") = a \o b \o c \o d \o e /\ F!Facts(t, "") = p \o q \o r \o u \o v
    BY Zenon DEF F!Facts
  <1>2. /\ \E at : ReadAlike(s, t, a, p, at, {1})
        /\ \E at : ReadAlike(s, t, b, q, at, {2})
        /\ \E at : ReadAlike(s, t, c, r, at, {3})
        /\ \E at : ReadAlike(s, t, d, u, at, {4})
        /\ \E at : ReadAlike(s, t, e, v, at, {5})
    BY RatesAreRead, CountsAreRead, AmountsAreRead, PctsAreRead, DatesAreRead, Zenon
  <1> HIDE DEF a, b, c, d, e, p, q, r, u, v
  <1>3. {1} \intersect {2} = {} /\ ({1} \union {2}) \intersect {3} = {} /\ ({1} \union {2} \union {3}) \intersect {4} = {}
        /\ ({1} \union {2} \union {3} \union {4}) \intersect {5} = {}
        /\ {1} \union {2} \union {3} \union {4} \union {5} = 1 .. 5
    OBVIOUS
  <1>4. \E at : ReadAlike(s, t, a \o b, p \o q, at, {1} \union {2})
    BY <1>2, <1>3, JoinedAlike, Zenon
  <1>5. \E at : ReadAlike(s, t, a \o b \o c, p \o q \o r, at, {1} \union {2} \union {3})
    BY <1>2, <1>3, <1>4, JoinedAlike, Zenon
  <1>6. \E at : ReadAlike(s, t, a \o b \o c \o d, p \o q \o r \o u, at, {1} \union {2} \union {3} \union {4})
    BY <1>2, <1>3, <1>5, JoinedAlike, Zenon
  <1>7. \E at : ReadAlike(s, t, a \o b \o c \o d \o e, p \o q \o r \o u \o v, at, {1} \union {2} \union {3} \union {4} \union {5})
    BY <1>2, <1>3, <1>6, JoinedAlike, Zenon
  <1> QED BY <1>1, <1>3, <1>7, Zenon

(* What is read from one mention: always the same, but for the role of a      *)
(* percentage that goes by its place.                                         *)
SameButRole(f, g) ==
  /\ f.kind = g.kind /\ f.value = g.value /\ f.cur = g.cur /\ f.unit = g.unit
  /\ f.words = g.words /\ f.pos = g.pos /\ f.raw = g.raw
ReadOf(f, x) == f.kind = x.kind /\ f.words = x.words /\ f.pos = x.pos

LEMMA ReadingSays ==
  ASSUME NEW x, NEW f, Reading(f, x)
  PROVE  /\ GroupOf(x) \in 1 .. 5 /\ ReadOf(f, x)
         /\ GroupOf(x) = 4 /\ HasPctRole(x) => f.role \in F!PctRoles
PROOF
  <1>1. ASSUME NEW k, NEW r, NEW u, f = F!Fact(x, k, r, u) \/ \E c : f = [F!Fact(x, k, r, u) EXCEPT !.cur = c]
        PROVE  f.kind = k /\ f.words = x.words /\ f.pos = x.pos /\ f.role = r
    <2>1. CASE f = F!Fact(x, k, r, u)
      BY <2>1 DEF F!Fact
    <2>2. CASE \E c : f = [F!Fact(x, k, r, u) EXCEPT !.cur = c]
      <3>1. PICK c : f = [F!Fact(x, k, r, u) EXCEPT !.cur = c]
        BY <2>2
      <3> QED BY <3>1 DEF F!Fact
    <2> QED BY <1>1, <2>1, <2>2
  <1>2. CASE GroupOf(x) = 1 /\ f = RateOf(x)
    <2>1. x.kind = "amount" /\ f.kind = "amount" /\ f.words = x.words /\ f.pos = x.pos
      BY <1>1, <1>2, GroupsAreKept DEF RateOf
    <2> QED BY <1>2, <2>1 DEF ReadOf
  <1>3. CASE GroupOf(x) = 2 /\ f = F!Fact(x, "count", "count", x.unit)
    <2>1. x.kind = "count" /\ f.kind = "count" /\ f.words = x.words /\ f.pos = x.pos
      BY <1>1, <1>3, GroupsAreKept
    <2> QED BY <1>3, <2>1 DEF ReadOf
  <1>4. CASE GroupOf(x) = 3 /\ f = AmountOf(x)
    <2> DEFINE g == F!Fact(x, "amount", F!AmountRole(x.words), x.unit)
               c == IF g.cur = "" THEN "" ELSE g.cur
    <2>1. f = [g EXCEPT !.cur = c]
      BY <1>4 DEF AmountOf
    <2> HIDE DEF c
    <2>2. \E c1 : f = [F!Fact(x, "amount", F!AmountRole(x.words), x.unit) EXCEPT !.cur = c1]
      BY <2>1
    <2>3. f.kind = "amount" /\ f.words = x.words /\ f.pos = x.pos
      BY <1>1, <2>2
    <2>4. x.kind = "amount"
      BY <1>4, GroupsAreKept
    <2>5. ReadOf(f, x) /\ GroupOf(x) = 3
      BY <1>4, <2>3, <2>4 DEF ReadOf
    <2> QED BY <2>5
  <1>5. CASE GroupOf(x) = 4 /\ HasPctRole(x) /\ f = F!Fact(x, "pct", PctRole(x), "")
    <2>1. x.kind = "pct" /\ f.kind = "pct" /\ f.words = x.words /\ f.pos = x.pos /\ f.role = PctRole(x)
      BY <1>1, <1>5, GroupsAreKept
    <2>2. PctRole(x) \in F!PctRoles
      BY <1>5 DEF PctRole, HasPctRole
    <2>3. ReadOf(f, x) /\ GroupOf(x) = 4
      BY <1>5, <2>1 DEF ReadOf
    <2> QED BY <2>1, <2>2, <2>3
  <1>6. CASE Positioned(x) /\ \E i \in Nat : f = F!Fact(x, "pct", F!Positional[i], "")
    <2>1. GroupOf(x) = 4 /\ ~HasPctRole(x) /\ x.kind = "pct"
      BY <1>6, GroupsAreKept DEF Positioned
    <2>2. f.kind = "pct" /\ f.words = x.words /\ f.pos = x.pos
      BY <1>1, <1>6
    <2> QED BY <2>1, <2>2 DEF ReadOf
  <1>7. CASE GroupOf(x) = 5 /\ f = F!Fact(x, "date", "date", "")
    <2>1. x.kind = "date" /\ f.kind = "date" /\ f.words = x.words /\ f.pos = x.pos
      BY <1>1, <1>7, GroupsAreKept
    <2>2. ReadOf(f, x) /\ GroupOf(x) = 5
      BY <1>7, <2>1 DEF ReadOf
    <2> QED BY <2>2
  <1>8. \/ GroupOf(x) = 1 /\ f = RateOf(x)
        \/ GroupOf(x) = 2 /\ f = F!Fact(x, "count", "count", x.unit)
        \/ GroupOf(x) = 3 /\ f = AmountOf(x)
        \/ GroupOf(x) = 4 /\ HasPctRole(x) /\ f = F!Fact(x, "pct", PctRole(x), "")
        \/ Positioned(x) /\ \E i \in Nat : f = F!Fact(x, "pct", F!Positional[i], "")
        \/ GroupOf(x) = 5 /\ f = F!Fact(x, "date", "date", "")
    BY Zenon DEF Reading
  <1> QED BY <1>2, <1>3, <1>4, <1>5, <1>6, <1>7, <1>8

OnlyReading(x) ==
  CASE GroupOf(x) = 1 -> RateOf(x)
    [] GroupOf(x) = 2 -> F!Fact(x, "count", "count", x.unit)
    [] GroupOf(x) = 3 -> AmountOf(x)
    [] GroupOf(x) = 4 -> F!Fact(x, "pct", PctRole(x), "")
    [] OTHER -> F!Fact(x, "date", "date", "")

LEMMA ReadingByGroup ==
  ASSUME NEW x, NEW f, Reading(f, x)
  PROVE  IF Positioned(x) THEN \E i \in Nat : f = F!Fact(x, "pct", F!Positional[i], "")
         ELSE f = OnlyReading(x)
PROOF
  <1> DEFINE n == GroupOf(x)
             named == HasPctRole(x)
             a == RateOf(x)
             b == F!Fact(x, "count", "count", x.unit)
             c == AmountOf(x)
             d == F!Fact(x, "pct", PctRole(x), "")
             e == F!Fact(x, "date", "date", "")
             pos == \E i \in Nat : f = F!Fact(x, "pct", F!Positional[i], "")
  <1>1. \/ n = 1 /\ f = a
        \/ n = 2 /\ f = b
        \/ n = 3 /\ f = c
        \/ n = 4 /\ named /\ f = d
        \/ Positioned(x) /\ pos
        \/ n = 5 /\ f = e
    BY Zenon DEF Reading
  <1>2. Positioned(x) <=> n = 4 /\ ~named
    BY Zenon DEF Positioned
  <1> HIDE DEF n, named, a, b, c, d, e, pos
  <1>3. IF Positioned(x) THEN pos
        ELSE f = CASE n = 1 -> a [] n = 2 -> b [] n = 3 -> c [] n = 4 -> d [] OTHER -> e
    BY <1>1, <1>2
  <1> QED BY <1>3, Zenon DEF OnlyReading, n, a, b, c, d, e, pos

LEMMA ReadingIsOne ==
  ASSUME NEW x, NEW f, Reading(f, x), NEW g, Reading(g, x)
  PROVE  /\ SameButRole(f, g)
         /\ ~Positioned(x) => f = g
         /\ f.role = g.role => f = g
PROOF
  <1>4. CASE ~Positioned(x)
    <2>1. f = OnlyReading(x) /\ g = OnlyReading(x)
      BY <1>4, ReadingByGroup, Zenon
    <2>2. f = g
      BY <2>1
    <2> QED BY <2>2 DEF SameButRole
  <1>5. CASE Positioned(x)
    <2>1. \E i \in Nat : f = F!Fact(x, "pct", F!Positional[i], "")
      BY <1>5, ReadingByGroup, Zenon
    <2>2. PICK i \in Nat : f = F!Fact(x, "pct", F!Positional[i], "")
      BY <2>1
    <2>3. \E j \in Nat : g = F!Fact(x, "pct", F!Positional[j], "")
      BY <1>5, ReadingByGroup, Zenon
    <2>4. PICK j \in Nat : g = F!Fact(x, "pct", F!Positional[j], "")
      BY <2>3
    <2> DEFINE p == F!Positional[i]
               q == F!Positional[j]
    <2>5. f = F!Fact(x, "pct", p, "") /\ g = F!Fact(x, "pct", q, "")
      BY <2>2, <2>4
    <2> HIDE DEF p, q
    <2>6. SameButRole(f, g) /\ f.role = p /\ g.role = q
      BY <2>5 DEF SameButRole, F!Fact
    <2> QED BY <1>5, <2>5, <2>6
  <1> QED BY <1>4, <1>5

(* The role plays no part in what two facts of one role say.                  *)
LEMMA RolesDoNotMatter ==
  ASSUME NEW f, NEW g, SameButRole(f, g), NEW d, NEW e, SameButRole(d, e)
  PROVE  /\ F!SameValue(f, d) <=> F!SameValue(g, e)
         /\ F!UnitExplains(f, d) <=> F!UnitExplains(g, e)
         /\ F!DatesAlike(f, d) <=> F!DatesAlike(g, e)
PROOF
  <1>1. /\ f.kind = g.kind /\ f.value = g.value /\ f.cur = g.cur /\ f.unit = g.unit
        /\ f.words = g.words /\ f.pos = g.pos /\ f.raw = g.raw
        /\ d.kind = e.kind /\ d.value = e.value /\ d.cur = e.cur /\ d.unit = e.unit
        /\ d.words = e.words /\ d.pos = e.pos /\ d.raw = e.raw
    BY DEF SameButRole
  <1>2. F!CrossCurrency(f, d) <=> F!CrossCurrency(g, e)
    BY <1>1, Zenon DEF F!CrossCurrency
  <1>3. F!SameValue(f, d) <=> F!SameValue(g, e)
    BY <1>1, <1>2 DEF F!SameValue
  <1>4. F!UnitExplains(f, d) <=> F!UnitExplains(g, e)
    BY <1>1, Zenon DEF F!UnitExplains
  <1>5. F!DatesAlike(f, d) <=> F!DatesAlike(g, e)
    BY <1>1, Zenon DEF F!DatesAlike
  <1> QED BY <1>3, <1>4, <1>5

(* What is read from a mention that stands alone.                             *)
LEMMA OfOne ==
  ASSUME NEW x
  PROVE  Len(<<x>>) = 1 /\ DOMAIN <<x>> = 1 .. 1 /\ <<x>>[1] = x
PROOF
  <1>1. Len(<<x>>) = 1
    OBVIOUS
  <1>2. DOMAIN <<x>> = 1 .. 1
    OBVIOUS
  <1>3. <<x>>[1] = x
    OBVIOUS
  <1> QED BY <1>1, <1>2, <1>3

LEMMA SingleMention ==
  ASSUME NEW s, NEW x, Len(s) = 1, DOMAIN s = 1 .. 1, s[1] = x, NEW fs, NEW at, ReadAlike(s, s, fs, fs, at, 1 .. 5)
  PROVE  /\ fs # <<>> => Reading(fs[1], x) /\ (Positioned(x) => fs[1].role \in PlaceNames)
         /\ GroupOf(x) \in 1 .. 5 => fs # <<>>
PROOF
  <1>1. 1 \in Nat /\ 1 <= 4 /\ \A i \in 1 .. 1 : i = 1
    OBVIOUS
  <1>5. /\ Proper(fs)
        /\ \A j \in 1 .. Len(fs) : at[j] \in DOMAIN s /\ Reading(fs[j], s[at[j]])
        /\ \A i \in DOMAIN s : GroupOf(s[i]) \in 1 .. 5 => \E j \in 1 .. Len(fs) : at[j] = i
        /\ Apart(s, fs, at)
    BY DEF ReadAlike, ReadFrom
  <1> DEFINE m == Len(fs)
  <1>6. m \in Nat /\ fs = [j \in 1 .. m |-> fs[j]]
    BY <1>5 DEF Proper
  <1>7. fs = <<>> <=> m = 0
    BY <1>6
  <1> HIDE DEF m
  <1>8. ASSUME fs # <<>> PROVE Reading(fs[1], x) /\ (Positioned(x) => fs[1].role \in PlaceNames)
    <2>1. 1 \in 1 .. m
      BY <1>6, <1>7, <1>8
    <2>2. at[1] = 1
      BY <1>1, <1>5, <2>1 DEF m
    <2>3. Reading(fs[1], x) /\ s[at[1]] = x
      BY <1>5, <2>1, <2>2 DEF m
    <2> QED BY <1>1, <1>5, <2>1, <2>3 DEF Apart, m
  <1>9. ASSUME GroupOf(x) \in 1 .. 5 PROVE fs # <<>>
    <2>1. \E j \in 1 .. m : at[j] = 1
      BY <1>1, <1>5, <1>9 DEF m
    <2>2. m # 0
      BY <1>6, <2>1
    <2> QED BY <1>7, <2>2
  <1> QED BY <1>8, <1>9

LEMMA OneMention ==
  ASSUME NEW x
  PROVE  LET fs == F!Facts(<<x>>, "")
         IN  /\ fs # <<>> => Reading(fs[1], x) /\ (Positioned(x) => fs[1].role \in PlaceNames)
             /\ GroupOf(x) \in 1 .. 5 => fs # <<>>
PROOF
  <1> DEFINE s == <<x>>
             fs == F!Facts(s, "")
  <1>1. Len(s) = 1 /\ DOMAIN s = 1 .. 1 /\ s[1] = x
    BY OfOne
  <1> HIDE DEF s
  <1>2. Twinned(s, s)
    <2>1. \A i \in 1 .. Len(s) : SameMatter(s[i], s[i]) /\ GroupOf(s[i]) = GroupOf(s[i])
      BY DEF SameMatter
    <2> DEFINE m == Len(s)
    <2>2. m \in Nat /\ DOMAIN s = 1 .. m
      BY <1>1
    <2> HIDE DEF m
    <2> QED BY <2>1, <2>2, Zenon DEF Twinned, m
  <1>4. PICK at : ReadAlike(s, s, fs, fs, at, 1 .. 5)
    BY <1>2, TextsAreReadAlike, Zenon
  <1> HIDE DEF fs
  <1>3. /\ fs # <<>> => Reading(fs[1], x) /\ (Positioned(x) => fs[1].role \in PlaceNames)
        /\ GroupOf(x) \in 1 .. 5 => fs # <<>>
    BY <1>1, <1>4, SingleMention
  <1> QED BY <1>3, Zenon DEF fs, s

(* A text and the same text with one mention rewritten.                       *)
IsMention(x) == {"kind", "n", "unit", "cur", "words", "pos", "rate"} \subseteq DOMAIN x /\ IsSaid(x)

LEMMA RewrittenIsAlike ==
  ASSUME NEW x, IsMention(x), NEW to, to.n \in Nat
  PROVE  /\ SameMatter(x, Rewritten(x, to)) /\ IsSaid(Rewritten(x, to))
         /\ GroupOf(x) \in 1 .. 5 /\ GroupOf(Rewritten(x, to)) \in 1 .. 5 => GroupOf(Rewritten(x, to)) = GroupOf(x)
PROOF
  <1> DEFINE u == IF x.kind = "amount" THEN to.unit ELSE x.unit
             c == IF x.kind = "amount" THEN to.cur ELSE x.cur
             y == [x EXCEPT !.n = to.n, !.unit = u, !.cur = c]
  <1>1. Rewritten(x, to) = y
    BY DEF Rewritten
  <1>2. {"kind", "n", "unit", "cur", "words", "pos", "rate"} \subseteq DOMAIN x /\ x.pos \in Int
    BY DEF IsMention, IsSaid
  <1> HIDE DEF u, c
  <1>3. y.kind = x.kind /\ y.words = x.words /\ y.pos = x.pos /\ y.rate = x.rate /\ y.n = to.n
    BY <1>2
  <1> HIDE DEF y
  <1>4. SameMatter(x, y) /\ IsSaid(y)
    BY <1>2, <1>3 DEF SameMatter, IsSaid
  <1>5. GroupOf(x) \in 1 .. 5 /\ GroupOf(y) \in 1 .. 5 => GroupOf(y) = GroupOf(x)
    <2> SUFFICES ASSUME GroupOf(x) \in 1 .. 5, GroupOf(y) \in 1 .. 5 PROVE GroupOf(y) = GroupOf(x)
      OBVIOUS
    <2>1. HasPctRole(x) <=> HasPctRole(y)
      BY <1>3 DEF HasPctRole
    <2>2. CASE GroupOf(x) = 1
      BY <1>3, <2>2, GroupsAreKept
    <2>3. CASE GroupOf(x) = 2
      BY <1>3, <2>3, GroupsAreKept
    <2>4. CASE GroupOf(x) = 3
      <3>1. y.kind = "amount" /\ ~y.rate
        BY <1>3, <2>4, GroupsAreKept
      <3>2. GroupOf(y) # 1 /\ GroupOf(y) # 2 /\ GroupOf(y) # 4 /\ GroupOf(y) # 5
        BY <3>1, GroupsAreKept
      <3> QED BY <2>4, <3>2
    <2>5. CASE GroupOf(x) = 4
      BY <1>3, <2>1, <2>5, GroupsAreKept
    <2>6. CASE GroupOf(x) = 5
      BY <1>3, <2>6, GroupsAreKept
    <2> QED BY <2>2, <2>3, <2>4, <2>5, <2>6
  <1> QED BY <1>1, <1>4, <1>5

(* A percentage that goes by its place fits by what class its words name.     *)
LEMMA PlacesFit ==
  ASSUME NEW z, NEW e, NEW z1, NEW e1, z.kind = "pct", z1.kind = "pct", e.kind = "pct",
         z.words = z1.words, e.words = e1.words, z.role = e.role,
         z1.role \in PlaceNames, NEW b, NEW several, F!Fits(z1, e1, b)
  PROVE  F!Fits(z, e, several)
PROOF
  <1> DEFINE zs == z.words \intersect F!Terms
             es == e.words \intersect F!Terms
             Told == IF zs = {} \/ es = {} THEN TRUE ELSE zs \intersect es # {}
             names == {F!Positional[i] : i \in DOMAIN F!Positional}
             one == 1
  <1>1. F!ContextAgrees(z1, e1, b)
    BY DEF F!Fits
  <1>2. F!PctAgree(z1, e1) /\ Told
    <2>1. "pct" # "amount"
      OBVIOUS
    <2> QED BY <1>1, <2>1 DEF F!ContextAgrees
  <1>3. PlaceNames = names
    <2>1. one \in 1 .. 4
      OBVIOUS
    <2> HIDE DEF one
    <2>2. DOMAIN F!Positional = 1 .. 4
      BY <2>1, NamesOfPlaces
    <2> QED BY <2>2 DEF PlaceNames
  <1>4. F!PctClass(z) = F!PctClass(z1) /\ F!PctClass(e) = F!PctClass(e1)
    BY DEF F!PctClass
  <1> HIDE DEF names
  <1>5. F!PctClass(z1) # "" /\ F!PctClass(z1) = F!PctClass(e1)
    BY <1>2, <1>3, Zenon DEF F!PctAgree, names
  <1>6. F!PctAgree(z, e)
    BY <1>4, <1>5 DEF F!PctAgree
  <1> HIDE DEF zs, es
  <1>7. F!ContextAgrees(z, e, several)
    <2>1. z.kind # "amount"
      OBVIOUS
    <2> QED BY <1>2, <1>6, <2>1, Zenon DEF F!ContextAgrees, zs, es
  <1> QED BY <1>7 DEF F!Fits

(* What fits among several fits alone.                                        *)
LEMMA FitsAlone ==
  ASSUME NEW z, NEW e, NEW b \in BOOLEAN, F!Fits(z, e, b)
  PROVE  F!Fits(z, e, FALSE)
PROOF
  <1> DEFINE zs == z.words \intersect F!Terms
             es == e.words \intersect F!Terms
  <1>1. ASSUME F!ContextAgrees(z, e, b) PROVE F!ContextAgrees(z, e, FALSE)
    <2>1. /\ z.kind = "pct" => F!PctAgree(z, e)
          /\ IF zs = {} \/ es = {} THEN TRUE
             ELSE IF b /\ z.kind = "amount" THEN (zs \intersect es) \ {"term"} # {}
             ELSE zs \intersect es # {}
      BY <1>1, Zenon DEF F!ContextAgrees
    <2> HIDE DEF zs, es
    <2>2. zs = {} \/ es = {} \/ zs \intersect es # {}
      BY <2>1
    <2> QED BY <2>1, <2>2 DEF F!ContextAgrees, zs, es
  <1> QED BY <1>1 DEF F!Fits

SaysOther(z, e) ==
  /\ ~F!SameValue(z, e)
  /\ ~(z.kind = "amount" /\ F!Scaled(z.value, e.value) /\ F!UnitExplains(z, e))
  /\ z.kind = "date" => F!DatesAlike(z, e)
RolesOf(fs) == {<<f.kind, f.role>> : f \in F!Range(fs)}
ToldOfRole(fs, gs, r) ==
  /\ r \in RolesOf(fs) /\ r \in RolesOf(gs)
  /\ \E p \in F!FactPairs(F!OfRole(fs, r), F!OfRole(gs, r)) : SaysOther(F!OfRole(fs, r)[p[1]], F!OfRole(gs, r)[p[2]])

(* Facts of two texts, each read from its mention, all but one from the same: *)
(* this one is told of its role.                                              *)
Unmistaken(s, at, z, e, others, only) ==
  /\ \A i \in DOMAIN s \ {at} : GroupOf(s[i]) \in 1 .. 5 =>
       Reading(only[i], s[i]) /\ (only[i].kind = z.kind /\ only[i].role = z.role => i \in others)
  /\ F!Fits(z, e, others # {})
  /\ \A i \in others : F!Fits(only[i], only[i], TRUE) /\ ~F!SameValue(z, only[i]) /\ ~F!SameValue(only[i], e)
  /\ z.kind = "pct" => Len(s) <= 4

OneThing(f, g) == f = g
LEMMA ReadingOfOneThing ==
  ASSUME NEW x, NEW f, Reading(f, x), NEW g, Reading(g, x), ~Positioned(x) \/ f.role = g.role
  PROVE  OneThing(f, g)
PROOF
  <1> QED BY ReadingIsOne DEF OneThing

LEMMA OthersOfTheRole ==
  ASSUME NEW s, NEW t, Twinned(s, t), NEW at \in DOMAIN s, \A i \in DOMAIN s \ {at} : t[i] = s[i],
         NEW fs, NEW gs, NEW from, ReadAlike(s, t, fs, gs, from, 1 .. 5),
         NEW z, Reading(z, s[at]), NEW e, NEW others, NEW only, Unmistaken(s, at, z, e, others, only),
         NEW k \in 1 .. Len(fs), from[k] = at,
         NEW a \in 1 .. Len(fs), a # k, fs[a].kind = fs[k].kind, fs[a].role = fs[k].role
  PROVE  gs[a] = fs[a] /\ fs[a] = only[from[a]] /\ from[a] \in others /\ ~Positioned(s[at])
PROOF
  <1> DEFINE i == from[a]
             m == Len(fs)
  <1>1. /\ \A j \in 1 .. m : from[j] \in DOMAIN s /\ Reading(fs[j], s[from[j]]) /\ GroupOf(s[from[j]]) \in 1 .. 5
        /\ \A j, l \in 1 .. m : from[j] = from[l] => j = l
        /\ \A j \in 1 .. m : Reading(gs[j], t[from[j]]) /\ fs[j].role = gs[j].role
        /\ Apart(s, fs, from)
    BY DEF ReadAlike, ReadFrom
  <1>2. i \in DOMAIN s \ {at} /\ Reading(fs[a], s[i]) /\ GroupOf(s[i]) \in 1 .. 5 /\ Reading(fs[k], s[at]) /\ GroupOf(s[at]) \in 1 .. 5
    BY <1>1
  <1>3. Reading(gs[a], s[i]) /\ fs[a].role = gs[a].role
    BY <1>1, <1>2
  <1>4. gs[a] = fs[a]
    <2> DEFINE f == fs[a]
               g == gs[a]
    <2>1. Reading(f, s[i]) /\ Reading(g, s[i]) /\ (~Positioned(s[i]) \/ f.role = g.role)
      BY <1>2, <1>3
    <2> HIDE DEF f, g
    <2>2. OneThing(f, g)
      BY <2>1, ReadingOfOneThing, Zenon
    <2> QED BY <2>2 DEF OneThing, f, g
  <1>5. z.kind = s[at].kind /\ fs[k].kind = s[at].kind /\ fs[a].kind = s[i].kind
    BY <1>2, ReadingSays DEF ReadOf
  <1>6. Reading(only[i], s[i]) /\ (only[i].kind = z.kind /\ only[i].role = z.role => i \in others)
    BY <1>2, Zenon DEF Unmistaken
  <1>7. ~Positioned(s[at]) /\ ~Positioned(s[i])
    <2>1. CASE s[at].kind = "pct"
      <3>1. Len(s) <= 4
        BY <1>5, <2>1, Zenon DEF Unmistaken
      <3>2. GroupOf(s[at]) = 4 /\ GroupOf(s[i]) = 4
        <4>1. ASSUME NEW x, x.kind = "pct", GroupOf(x) \in 1 .. 5 PROVE GroupOf(x) = 4
          <5>1. GroupOf(x) # 1 /\ GroupOf(x) # 2 /\ GroupOf(x) # 3 /\ GroupOf(x) # 5
            BY <4>1, GroupsAreKept
          <5> QED BY <4>1, <5>1
        <4>2. s[i].kind = "pct"
          BY <1>5, <2>1
        <4> QED BY <1>2, <2>1, <4>1, <4>2
      <3>3. /\ Positioned(s[at]) => fs[k].role \in PlaceNames /\ (Positioned(s[i]) => a = k)
            /\ Positioned(s[i]) => fs[a].role \in PlaceNames
        BY <1>1, <3>1 DEF Apart
      <3>4. /\ ~Positioned(s[at]) => fs[k].role \in F!PctRoles
            /\ ~Positioned(s[i]) => fs[a].role \in F!PctRoles
        BY <1>2, <3>2, ReadingSays DEF Positioned
      <3>5. \A x \in PlaceNames : x \notin F!PctRoles
        BY NamesOfPlaces DEF PlaceNames
      <3> QED BY <3>3, <3>4, <3>5
    <2>2. CASE s[at].kind # "pct"
      <3>1. s[i].kind # "pct"
        BY <1>5, <2>2
      <3> QED BY <2>2, <3>1, GroupsAreKept DEF Positioned
    <2> QED BY <2>1, <2>2
  <1>8. fs[k] = z /\ fs[a] = only[i]
    <2> DEFINE f == fs[k]
               g == fs[a]
               o == only[i]
               x == s[at]
               y == s[i]
    <2>1. Reading(f, x) /\ Reading(z, x) /\ ~Positioned(x) /\ Reading(g, y) /\ Reading(o, y) /\ ~Positioned(y)
      BY <1>2, <1>6, <1>7
    <2> HIDE DEF f, g, o, x, y
    <2>2. OneThing(f, z) /\ OneThing(g, o)
      BY <2>1, ReadingOfOneThing, Zenon
    <2> QED BY <2>2 DEF OneThing, f, g, o
  <1> QED BY <1>4, <1>5, <1>6, <1>7, <1>8

LEMMA TheAlteredIsTold ==
  ASSUME NEW s, NEW t, Twinned(s, t), NEW at \in DOMAIN s, \A i \in DOMAIN s \ {at} : t[i] = s[i],
         NEW fs, NEW gs, NEW from, ReadAlike(s, t, fs, gs, from, 1 .. 5), FactList(fs), FactList(gs),
         NEW z, Reading(z, s[at]), Positioned(s[at]) => z.role \in PlaceNames, NEW e, Reading(e, t[at]),
         NEW others, NEW only, Unmistaken(s, at, z, e, others, only), SaysOther(z, e)
  PROVE  \E r : ToldOfRole(fs, gs, r)
PROOF
  <1> DEFINE m == Len(fs)
  <1>1. /\ m \in Nat /\ DOMAIN fs = 1 .. m /\ DOMAIN gs = 1 .. m
        /\ \A j \in 1 .. m : from[j] \in DOMAIN s /\ Reading(fs[j], s[from[j]]) /\ GroupOf(s[from[j]]) \in 1 .. 5
        /\ \A j \in 1 .. m : Reading(gs[j], t[from[j]]) /\ fs[j].role = gs[j].role
        /\ \A i \in DOMAIN s : GroupOf(s[i]) \in 1 .. 5 => \E j \in 1 .. m : from[j] = i
    <2>1. /\ Proper(fs) /\ Proper(gs) /\ Len(gs) = m
          /\ \A j \in 1 .. m : from[j] \in DOMAIN s /\ Reading(fs[j], s[from[j]]) /\ GroupOf(s[from[j]]) \in 1 .. 5
          /\ \A j \in 1 .. m : Reading(gs[j], t[from[j]]) /\ fs[j].role = gs[j].role
          /\ \A i \in DOMAIN s : GroupOf(s[i]) \in 1 .. 5 => \E j \in 1 .. m : from[j] = i
      BY DEF ReadAlike, ReadFrom
    <2>2. m \in Nat /\ fs = [j \in 1 .. m |-> fs[j]] /\ gs = [j \in 1 .. m |-> gs[j]]
      BY <2>1 DEF Proper
    <2> HIDE DEF m
    <2>3. DOMAIN fs = 1 .. m /\ DOMAIN gs = 1 .. m
      BY <2>2
    <2> QED BY <2>1, <2>2, <2>3
  <1>2. PICK k \in 1 .. m : from[k] = at
    BY <1>1, ReadingSays
  <1>3. \A i \in DOMAIN s : s[i].kind = t[i].kind /\ GroupOf(s[i]) = GroupOf(t[i]) /\ s[i].words = t[i].words
    BY DEF Twinned, SameMatter
  <1>4. \A j \in 1 .. m : fs[j].kind = s[from[j]].kind /\ gs[j].kind = fs[j].kind
    <2>1. \A j \in 1 .. m : fs[j].kind = s[from[j]].kind /\ gs[j].kind = t[from[j]].kind
      BY <1>1, ReadingSays DEF ReadOf
    <2> QED BY <1>1, <1>3, <2>1
  <1> DEFINE kind == fs[k].kind
             role == fs[k].role
             r == <<kind, role>>
             places == {j \in 1 .. m : <<fs[j].kind, fs[j].role>> = r}
             zs == Picked(fs, places)
             es == Picked(gs, places)
  <1>5. F!OfRole(fs, r) = zs /\ F!OfRole(gs, r) = es
    <2>1. {j \in DOMAIN fs : <<fs[j].kind, fs[j].role>> = r} = places
      BY <1>1
    <2>2. {j \in DOMAIN gs : <<gs[j].kind, gs[j].role>> = r} = places
      BY <1>1, <1>4
    <2> HIDE DEF places, r
    <2> QED BY <2>1, <2>2, SameListings, Zenon DEF F!OfRole
  <1>6. AreFactsOf(zs, r) /\ AreFactsOf(es, r)
    BY <1>5, RoleFacts, Zenon
  <1>7. /\ \A j \in places : j \in 1 .. m /\ fs[j].kind = kind /\ fs[j].role = role
        /\ k \in places /\ places \in SUBSET (1 .. m)
    BY <1>2
  <1> HIDE DEF places, m
  <1>8. PICK pick : \A u : IsPick(Picked(u, places), u, places, pick)
    BY <1>1, <1>7, PickedInPlace, Zenon
  <1> DEFINE n == Len(zs)
  <1>9. /\ n \in Nat /\ Len(es) = n
        /\ \A j \in 1 .. n : pick[j] \in places /\ zs[j] = fs[pick[j]] /\ es[j] = gs[pick[j]]
        /\ \A i \in places : \E j \in 1 .. n : pick[j] = i
        /\ \A j, l \in 1 .. n : j < l => pick[j] < pick[l]
    <2>1. IsPick(zs, fs, places, pick) /\ IsPick(es, gs, places, pick)
      BY <1>8, Zenon
    <2> HIDE DEF zs, es
    <2> QED BY <2>1 DEF IsPick, Proper
  <1>10. PICK k1 \in 1 .. n : pick[k1] = k
    BY <1>7, <1>9
  <1> DEFINE several == n >= 2 /\ Len(es) >= 2
  <1> HIDE DEF zs, es, n
  <1>11. \A j \in 1 .. n : j # k1 => pick[j] # k
    <2> SUFFICES ASSUME NEW j \in 1 .. n, j # k1 PROVE pick[j] # k
      OBVIOUS
    <2> DEFINE x == pick[j]
               y == pick[k1]
    <2>1. x \in places /\ y \in places /\ y = k
      BY <1>9, <1>10
    <2>3. (j < k1 => x < y) /\ (k1 < j => y < x)
      BY <1>9, <1>10
    <2> HIDE DEF x, y
    <2>6. k \in 1 .. m /\ x \in 1 .. m
      <3> HIDE DEF kind, role
      <3> QED BY <1>7, <2>1, Zenon
    <2>2. k \in Int /\ x \in Int
      BY <1>1, <2>6
    <2>4. n \in Nat /\ j \in 1 .. n /\ k1 \in 1 .. n /\ j # k1
      BY <1>9, <1>10
    <2>5. x # k
      BY <2>1, <2>2, <2>3, <2>4
    <2> QED BY <2>5 DEF x
  <1>12. ASSUME NEW j \in 1 .. n, j # k1
         PROVE  /\ gs[pick[j]] = fs[pick[j]] /\ zs[j] = only[from[pick[j]]] /\ from[pick[j]] \in others /\ ~Positioned(s[at])
    <2> DEFINE a == pick[j]
    <2>1. a \in places /\ a # k /\ zs[j] = fs[a]
      BY <1>9, <1>11, <1>12
    <2>2. a \in 1 .. m /\ fs[a].kind = fs[k].kind /\ fs[a].role = fs[k].role
      BY <1>7, <2>1 DEF kind, role
    <2> HIDE DEF a
    <2>3. a \in 1 .. Len(fs) /\ k \in 1 .. Len(fs)
      BY <1>2, <2>2 DEF m
    <2>4. gs[a] = fs[a] /\ fs[a] = only[from[a]] /\ from[a] \in others /\ ~Positioned(s[at])
      BY <1>2, <2>1, <2>2, <2>3, OthersOfTheRole
    <2> QED BY <2>1, <2>4 DEF a
  <1>13. zs[k1] = fs[k] /\ es[k1] = gs[k] /\ Reading(fs[k], s[at]) /\ Reading(gs[k], t[at]) /\ fs[k].role = gs[k].role
    BY <1>1, <1>2, <1>9, <1>10
  <1>14. SameButRole(zs[k1], z) /\ SameButRole(es[k1], e)
    BY <1>13, ReadingIsOne
  <1>15. \A x : SameButRole(x, x)
    BY DEF SameButRole
  <1>16. ASSUME NEW j \in 1 .. n, j # k1
         PROVE  /\ es[j] = zs[j] /\ F!Fits(zs[j], zs[j], several)
                /\ ~F!SameValue(zs[k1], zs[j]) /\ ~F!SameValue(zs[j], es[k1])
    <2> DEFINE o == zs[j]
    <2>1. es[j] = o
      BY <1>9, <1>12, <1>16
    <2>2. F!Fits(o, o, TRUE) /\ ~F!SameValue(z, o) /\ ~F!SameValue(o, e)
      BY <1>12, <1>16, Zenon DEF Unmistaken
    <2> HIDE DEF o
    <2>3. F!Fits(o, o, several)
      <3>1. several = TRUE \/ several = FALSE
        OBVIOUS
      <3>2. F!Fits(o, o, FALSE)
        BY <2>2, FitsAlone
      <3> HIDE DEF several
      <3> QED BY <2>2, <3>1, <3>2
    <2>4. ~F!SameValue(zs[k1], o) /\ ~F!SameValue(o, es[k1])
      BY <1>14, <1>15, <2>2, RolesDoNotMatter, Zenon
    <2> QED BY <2>1, <2>3, <2>4 DEF o
  <1>17. F!Fits(zs[k1], es[k1], several)
    <2>1. F!Fits(z, e, others # {})
      BY Zenon DEF Unmistaken
    <2>2. CASE Positioned(s[at])
      <3>1. s[at].kind = "pct" /\ t[at].kind = "pct" /\ s[at].words = t[at].words
        BY <1>3, <2>2, GroupsAreKept DEF Positioned
      <3>2. /\ zs[k1].kind = "pct" /\ es[k1].kind = "pct" /\ z.kind = "pct"
            /\ zs[k1].words = z.words /\ es[k1].words = e.words /\ zs[k1].role = es[k1].role /\ z.role \in PlaceNames
        <4>1. z.kind = "pct" /\ e.kind = "pct"
          BY <3>1, ReadingSays DEF ReadOf
        <4> QED BY <1>13, <1>14, <2>2, <4>1 DEF SameButRole
      <3> DEFINE b == others # {}
      <3>3. F!Fits(z, e, b)
        BY <2>1
      <3> HIDE DEF several, b
      <3> QED BY <3>2, <3>3, PlacesFit, Zenon
    <2>3. CASE ~Positioned(s[at])
      <3>1. ~Positioned(t[at])
        <4>1. HasPctRole(s[at]) <=> HasPctRole(t[at])
          BY <1>3 DEF HasPctRole
        <4> QED BY <1>3, <2>3, <4>1 DEF Positioned
      <3>2. zs[k1] = z /\ es[k1] = e
        <4> DEFINE f == zs[k1]
                   g == es[k1]
                   x == s[at]
                   y == t[at]
        <4>1. Reading(f, x) /\ Reading(z, x) /\ ~Positioned(x) /\ Reading(g, y) /\ Reading(e, y) /\ ~Positioned(y)
          BY <1>13, <2>3, <3>1
        <4> HIDE DEF f, g, x, y
        <4>2. OneThing(f, z) /\ OneThing(g, e)
          BY <4>1, ReadingOfOneThing, Zenon
        <4> QED BY <4>2 DEF OneThing, f, g
      <3>3. CASE several
        <4>1. PICK j \in 1 .. n : j # k1
          <5>1. n >= 2 /\ n \in Nat
            BY <1>9, <3>3
          <5>2. 1 \in 1 .. n /\ 2 \in 1 .. n
            BY <5>1
          <5> QED BY <5>2
        <4>2. (others # {}) = TRUE
          BY <1>12, <4>1
        <4>3. several = TRUE
          BY <3>3
        <4> HIDE DEF several
        <4> QED BY <2>1, <3>2, <4>2, <4>3
      <3>4. CASE ~several
        <4> DEFINE b == others # {}
        <4>1. b \in BOOLEAN /\ F!Fits(z, e, b)
          BY <2>1
        <4> HIDE DEF b
        <4>2. F!Fits(z, e, FALSE)
          BY <4>1, FitsAlone
        <4>3. several = FALSE
          BY <3>4
        <4> HIDE DEF several
        <4> QED BY <3>2, <4>2, <4>3
      <3> QED BY <3>3, <3>4
    <2> QED BY <2>2, <2>3
  <1>18. ButOne(zs, es, k1)
    BY <1>9, <1>16, <1>17 DEF ButOne, n
  <1>19. Own(k1) \in F!FactPairs(zs, es)
    BY <1>6, <1>18, TheAlteredIsMatched, Zenon
  <1>20. SaysOther(zs[k1], es[k1])
    <2>1. /\ F!SameValue(zs[k1], es[k1]) <=> F!SameValue(z, e)
          /\ F!UnitExplains(zs[k1], es[k1]) <=> F!UnitExplains(z, e)
          /\ F!DatesAlike(zs[k1], es[k1]) <=> F!DatesAlike(z, e)
      BY <1>14, RolesDoNotMatter, Zenon
    <2>2. zs[k1].kind = z.kind /\ zs[k1].value = z.value /\ es[k1].value = e.value
      BY <1>14 DEF SameButRole
    <2> QED BY <2>1, <2>2, Zenon DEF SaysOther
  <1>21. r \in RolesOf(fs) /\ r \in RolesOf(gs)
    <2>1. fs[k] \in F!Range(fs) /\ gs[k] \in F!Range(gs)
      BY <1>1, <1>2 DEF F!Range
    <2>2. r = <<gs[k].kind, gs[k].role>>
      BY <1>1, <1>2, <1>4
    <2> QED BY <2>1, <2>2 DEF RolesOf
  <1>22. \E p \in F!FactPairs(zs, es) : SaysOther(zs[p[1]], es[p[2]])
    <2> DEFINE p == Own(k1)
    <2>1. p[1] = k1 /\ p[2] = k1
      BY DEF Own
    <2>2. p \in F!FactPairs(zs, es)
      BY <1>19
    <2> HIDE DEF p
    <2>3. SaysOther(zs[p[1]], es[p[2]])
      BY <1>20, <2>1
    <2> QED BY <2>2, <2>3
  <1>23. ToldOfRole(fs, gs, r)
    BY <1>5, <1>21, <1>22, Zenon DEF ToldOfRole
  <1> QED BY <1>23

(* A pair with facts told of a role has findings.                             *)
LEMMA ToldIsFound ==
  ASSUME NEW pair, pair.shared, NEW r, ToldOfRole(pair.zh, pair.en, r)
  PROVE  F!FactFindings(pair) # {}
PROOF
  <1> DEFINE fs == pair.zh
             gs == pair.en
             roles == {<<f.kind, f.role>> : f \in F!Range(fs)} \intersect
                      {<<f.kind, f.role>> : f \in F!Range(gs)}
             zs(q) == F!OfRole(fs, q)
             es(q) == F!OfRole(gs, q)
             Told(q) == {p \in F!FactPairs(zs(q), es(q)) : F!Told(pair, zs(q), es(q), p)}
             Tell(q, p) == F!Finding(pair, zs(q)[p[1]], es(q)[p[2]], F!Verdict(pair, q, zs(q), es(q), zs(q)[p[1]], es(q)[p[2]]))
  <1>1. F!FactFindings(pair) = IF ~F!Compared(pair) THEN {} ELSE UNION {{Tell(q, p) : p \in Told(q)} : q \in roles}
    BY Zenon DEF F!FactFindings
  <1>2. r \in roles /\ r \in RolesOf(fs) /\ r \in RolesOf(gs)
    BY Zenon DEF ToldOfRole, RolesOf
  <1>3. fs # <<>> /\ gs # <<>>
    <2>1. ASSUME NEW s, r \in RolesOf(s) PROVE s # <<>>
      <3> SUFFICES ASSUME s = <<>> PROVE FALSE
        OBVIOUS
      <3>1. DOMAIN s = {}
        OBVIOUS
      <3>2. RolesOf(s) = {}
        BY <3>1 DEF RolesOf, F!Range
      <3> QED BY <2>1, <3>2
    <2> QED BY <1>2, <2>1
  <1>4. F!Compared(pair)
    BY <1>3 DEF F!Compared
  <1>5. PICK p \in F!FactPairs(zs(r), es(r)) : SaysOther(zs(r)[p[1]], es(r)[p[2]])
    BY Zenon DEF ToldOfRole
  <1> DEFINE z == zs(r)
             e == es(r)
  <1>6. F!Told(pair, z, e, p)
    <2>1. SaysOther(z[p[1]], e[p[2]])
      BY <1>5
    <2> HIDE DEF z, e
    <2> QED BY <2>1, Zenon DEF SaysOther, F!Told
  <1>7. p \in Told(r)
    BY <1>5, <1>6
  <1> HIDE DEF Told, Tell, roles
  <1>8. UNION {{Tell(q, o) : o \in Told(q)} : q \in roles} # {}
    <2> DEFINE Sum(q) == {Tell(q, o) : o \in Told(q)}
    <2>1. Tell(r, p) \in Sum(r)
      BY <1>7
    <2> HIDE DEF Sum
    <2>2. UNION {Sum(q) : q \in roles} # {}
      BY <1>2, <2>1
    <2> QED BY <2>2 DEF Sum
  <1> QED BY <1>1, <1>4, <1>8, Zenon

LEMMA DatesOfOneMatter ==
  ASSUME NEW x, NEW y, SameMatter(x, y), NEW z, Reading(z, x), NEW e, Reading(e, y)
  PROVE  z.kind = "date" => F!DatesAlike(z, e)
PROOF
  <1>1. ReadOf(z, x) /\ ReadOf(e, y) /\ GroupOf(x) \in 1 .. 5
    BY ReadingSays
  <1>2. z.words = e.words /\ z.kind = x.kind /\ z.words = x.words
    BY <1>1 DEF ReadOf, SameMatter
  <1> SUFFICES ASSUME z.kind = "date" PROVE F!DatesAlike(z, e)
    OBVIOUS
  <1>3. GroupOf(x) = 5
    <2>1. x.kind = "date"
      BY <1>2
    <2>2. GroupOf(x) # 1 /\ GroupOf(x) # 2 /\ GroupOf(x) # 3 /\ GroupOf(x) # 4
      BY <2>1, GroupsAreKept
    <2> QED BY <1>1, <2>2
  <1>4. x.words \intersect F!Events # {}
    BY <1>3, GroupsAreKept
  <1> QED BY <1>2, <1>4 DEF F!DatesAlike

(* A text and the same text with one mention rewritten tell of one matter.    *)
AreMentions(s) == IsList(s) /\ \A i \in DOMAIN s : IsMention(s[i])
WithOther(s, at, to) == [i \in DOMAIN s |-> IF i = at THEN Rewritten(s[i], to) ELSE s[i]]
IsOneOther(s, at, to, t) == at \in DOMAIN s /\ to.n \in Nat /\ t = WithOther(s, at, to)

LEMMA RewrittenTextIsAlike ==
  ASSUME NEW s, AreMentions(s), NEW at, NEW to, NEW t, IsOneOther(s, at, to, t),
         GroupOf(s[at]) \in 1 .. 5, GroupOf(t[at]) \in 1 .. 5
  PROVE  Twinned(s, t) /\ AreSaid(t) /\ \A i \in DOMAIN s \ {at} : t[i] = s[i]
PROOF
  <1> DEFINE n == Len(s)
  <1>1. n \in Nat /\ DOMAIN s = 1 .. n /\ \A i \in 1 .. n : IsMention(s[i])
    BY DEF AreMentions, IsList
  <1> HIDE DEF n
  <1>8. at \in DOMAIN s /\ to.n \in Nat /\ t = WithOther(s, at, to)
    BY DEF IsOneOther
  <1>2. /\ t = [i \in 1 .. n |-> t[i]] /\ DOMAIN t = 1 .. n
        /\ t[at] = Rewritten(s[at], to)
        /\ \A i \in 1 .. n : i # at => t[i] = s[i]
    BY <1>1, <1>8 DEF WithOther
  <1>3. SameMatter(s[at], t[at]) /\ IsSaid(t[at]) /\ GroupOf(t[at]) = GroupOf(s[at])
    <2> DEFINE x == s[at]
               y == t[at]
    <2>1. IsMention(x) /\ y = Rewritten(x, to) /\ GroupOf(x) \in 1 .. 5 /\ GroupOf(y) \in 1 .. 5 /\ to.n \in Nat
      BY <1>1, <1>2, <1>8
    <2> HIDE DEF x, y
    <2>2. SameMatter(x, y) /\ IsSaid(y) /\ GroupOf(y) = GroupOf(x)
      BY <2>1, RewrittenIsAlike
    <2> QED BY <2>2 DEF x, y
  <1>4. ASSUME NEW i \in 1 .. n PROVE SameMatter(s[i], t[i]) /\ IsSaid(t[i]) /\ GroupOf(s[i]) = GroupOf(t[i])
    <2>1. CASE i = at
      BY <1>3, <2>1
    <2>2. CASE i # at
      <3>1. t[i] = s[i] /\ IsSaid(s[i])
        BY <1>1, <1>2, <2>2 DEF IsMention
      <3> QED BY <3>1 DEF SameMatter
    <2> QED BY <2>1, <2>2
  <1>5. Twinned(s, t)
    BY <1>1, <1>2, <1>4, Zenon DEF Twinned, n
  <1>6. Len(t) = n
    BY <1>1, <1>2
  <1>7. AreSaid(t)
    <2>1. IsList(t)
      BY <1>1, <1>2, <1>6 DEF IsList
    <2>2. \A i \in 1 .. Len(t) : IsSaid(t[i])
      BY <1>4, <1>6
    <2> QED BY <2>1, <2>2 DEF AreSaid
  <1> QED BY <1>1, <1>2, <1>5, <1>7, <1>8

(* The parts of FactAlterationIsTold, with what is read named.                *)
AlteredFact(s, at, z, e, others, only) ==
  /\ ~F!SameValue(z, e)
  /\ ~(z.kind = "amount" /\ F!Scaled(z.value, e.value) /\ F!UnitExplains(z, e))
  /\ F!Fits(z, e, others # {})
  /\ \A i \in others : F!Fits(only[i], only[i], TRUE) /\ ~F!SameValue(z, only[i]) /\ ~F!SameValue(only[i], e)
  /\ z.kind = "pct" => Len(s) <= 4

OthersLike(s, at, read, z) ==
  {i \in DOMAIN s \ {at} : read[i] # <<>> /\ read[i][1].kind = z.kind /\ read[i][1].role = z.role}
FirstsOf(s, read) == [i \in DOMAIN s |-> read[i][1]]
IsReadOf(s, read) == \A i \in DOMAIN s : read[i] = F!Facts(<<s[i]>>, "")
ReadAlone(x, fs) == fs = F!Facts(<<x>>, "") /\ fs # <<>>
ReadOfThese(s, at, t, read, es, z, e, others, only) ==
  /\ IsReadOf(s, read) /\ read[at] # <<>> /\ ReadAlone(t[at], es)
  /\ z = read[at][1] /\ e = es[1] /\ others = OthersLike(s, at, read, z) /\ only = FirstsOf(s, read)

LEMMA RewrittenIsTold ==
  ASSUME NEW s, AreMentions(s), NEW at, NEW to, NEW t, IsOneOther(s, at, to, t),
         NEW read, NEW es, NEW z, NEW e, NEW others, NEW only, ReadOfThese(s, at, t, read, es, z, e, others, only),
         AlteredFact(s, at, z, e, others, only)
  PROVE  \E r : ToldOfRole(F!Facts(s, ""), F!Facts(t, ""), r)
PROOF
  <1>0. /\ IsReadOf(s, read) /\ read[at] # <<>> /\ ReadAlone(t[at], es) /\ at \in DOMAIN s
        /\ z = read[at][1] /\ e = es[1] /\ others = OthersLike(s, at, read, z) /\ only = FirstsOf(s, read)
    BY Zenon DEF ReadOfThese, IsOneOther
  <1>1. /\ Reading(z, s[at]) /\ (Positioned(s[at]) => z.role \in PlaceNames)
        /\ Reading(e, t[at])
        /\ \A i \in DOMAIN s : GroupOf(s[i]) \in 1 .. 5 => read[i] # <<>> /\ Reading(only[i], s[i])
    <2>1. ASSUME NEW x, NEW fs, fs = F!Facts(<<x>>, "")
          PROVE  /\ fs # <<>> => Reading(fs[1], x) /\ (Positioned(x) => fs[1].role \in PlaceNames)
                 /\ GroupOf(x) \in 1 .. 5 => fs # <<>>
      BY <2>1, OneMention, Zenon
    <2>2. /\ read[at] # <<>> => Reading(read[at][1], s[at]) /\ (Positioned(s[at]) => read[at][1].role \in PlaceNames)
      BY <1>0, <2>1, Zenon DEF IsReadOf
    <2>3. es # <<>> => Reading(es[1], t[at])
      BY <1>0, <2>1, Zenon DEF ReadAlone
    <2>4. ASSUME NEW i \in DOMAIN s, GroupOf(s[i]) \in 1 .. 5 PROVE read[i] # <<>> /\ Reading(read[i][1], s[i])
      BY <1>0, <2>1, <2>4, Zenon DEF IsReadOf
    <2>5. \A i \in DOMAIN s : only[i] = read[i][1]
      BY <1>0, Zenon DEF FirstsOf
    <2>6. es # <<>>
      BY <1>0, Zenon DEF ReadAlone
    <2> QED BY <1>0, <2>2, <2>3, <2>4, <2>5, <2>6, Zenon
  <1> DEFINE fs == F!Facts(s, "")
             gs == F!Facts(t, "")
  <1>2. GroupOf(s[at]) \in 1 .. 5 /\ GroupOf(t[at]) \in 1 .. 5
    BY <1>1, ReadingSays, Zenon
  <1>3. Twinned(s, t) /\ AreSaid(t) /\ \A i \in DOMAIN s \ {at} : t[i] = s[i]
    BY <1>2, RewrittenTextIsAlike
  <1>4. PICK from : ReadAlike(s, t, fs, gs, from, 1 .. 5)
    BY <1>3, TextsAreReadAlike, Zenon
  <1>5. AreSaid(s)
    <2>1. IsList(s) /\ \A i \in DOMAIN s : IsSaid(s[i])
      BY Zenon DEF AreMentions, IsMention
    <2> QED BY <2>1 DEF AreSaid, IsList
  <1>6. FactList(fs) /\ FactList(gs)
    BY <1>3, <1>5, ReadFacts, Zenon
  <1> HIDE DEF fs, gs
  <1>7. Unmistaken(s, at, z, e, others, only)
    <2>1. ASSUME NEW i \in DOMAIN s \ {at}, GroupOf(s[i]) \in 1 .. 5
          PROVE  Reading(only[i], s[i]) /\ (only[i].kind = z.kind /\ only[i].role = z.role => i \in others)
      <3>1. read[i] # <<>> /\ Reading(only[i], s[i])
        BY <1>1, <2>1, Zenon
      <3>2. only[i] = read[i][1]
        BY <1>0, Zenon DEF FirstsOf
      <3> QED BY <1>0, <3>1, <3>2, Zenon DEF OthersLike
    <2> QED BY <2>1, Zenon DEF Unmistaken, AlteredFact
  <1>8. SaysOther(z, e)
    <2>1. SameMatter(s[at], t[at])
      BY <1>0, <1>3 DEF Twinned
    <2>2. z.kind = "date" => F!DatesAlike(z, e)
      BY <1>1, <2>1, DatesOfOneMatter, Zenon
    <2> QED BY <2>2, Zenon DEF SaysOther, AlteredFact
  <1>9. \E r : ToldOfRole(fs, gs, r)
    BY <1>0, <1>1, <1>3, <1>4, <1>6, <1>7, <1>8, TheAlteredIsTold, Zenon
  <1> QED BY <1>9, Zenon DEF fs, gs

FactMissed(zh, en, at) ==
  LET Read(i) == F!Facts(<<zh[i]>>, "")
      zs == Read(at) es == F!Facts(<<en[at]>>, "")
      others == {i \in DOMAIN zh \ {at} :
                   Read(i) # <<>> /\ Read(i)[1].kind = zs[1].kind /\ Read(i)[1].role = zs[1].role}
  IN \/ zs = <<>> \/ es = <<>> \/ F!SameValue(zs[1], es[1])
     \/ zs[1].kind = "amount" /\ F!Scaled(zs[1].value, es[1].value) /\ F!UnitExplains(zs[1], es[1])
     \/ ~F!Fits(zs[1], es[1], others # {})
     \/ \E i \in others : LET o == Read(i)[1]
                          IN ~F!Fits(o, o, TRUE) \/ F!SameValue(zs[1], o) \/ F!SameValue(o, es[1])
     \/ zs[1].kind = "pct" /\ Len(zh) > Len(F!Positional)

LEMMA FactIsTold ==
  ASSUME RunFacts
  PROVE  FactAlterationIsTold'
PROOF
  <1>0. PICK text \in FactTexts, to \in Mentions, conf \in {70, 90} : \E at \in 0 .. Len(text) :
          input' = [zh |-> text, at |-> at, conf |-> conf,
                    en |-> [i \in DOMAIN text |-> IF i = at THEN Rewritten(text[i], to) ELSE text[i]]]
    BY Zenon DEF RunFacts
  <1>1. PICK at \in 0 .. Len(text) :
          input' = [zh |-> text, at |-> at, conf |-> conf,
                    en |-> [i \in DOMAIN text |-> IF i = at THEN Rewritten(text[i], to) ELSE text[i]]]
    BY <1>0
  <1> DEFINE other == WithOther(text, at, to)
  <1>2. input'.zh = text /\ input'.at = at /\ input'.en = other
    BY <1>1 DEF WithOther
  <1>3. AreMentions(text) /\ to.n \in Nat
    <2>1. /\ IsList(text) /\ to.n \in Nat
          /\ \A i \in DOMAIN text : {"kind", "n", "unit", "cur", "words", "pos", "rate"} \subseteq DOMAIN text[i]
                                    /\ text[i].n \in Nat /\ text[i].pos \in Int
      BY <1>0, FactsAssumption, Zenon DEF FactsAssumption
    <2> QED BY <2>1, Zenon DEF AreMentions, IsMention, IsSaid
  <1> DEFINE fs == F!Facts(text, "")
             gs == F!Facts(other, "")
             conf1 == input'.conf
             pair == [zh |-> fs, en |-> gs, conf |-> conf1, shared |-> TRUE, dates |-> 0, zhPage |-> 1, enPage |-> 1]
  <1>4. found' = F!FactFindings(pair)
    <2>1. found' = F!FactFindings([zh |-> F!Facts(input'.zh, ""), en |-> F!Facts(input'.en, ""), conf |-> input'.conf,
                             shared |-> TRUE, dates |-> 0, zhPage |-> 1, enPage |-> 1])
      BY Zenon DEF RunFacts
    <2> QED BY <1>2, <2>1, Zenon
  <1>5. pair.shared /\ pair.zh = fs /\ pair.en = gs
    <2> HIDE DEF fs, gs, conf1
    <2> QED OBVIOUS
  <1> HIDE DEF other
  <1> DEFINE Read(i) == F!Facts(<<text[i]>>, "")
             zs == Read(at)
             es == F!Facts(<<other[at]>>, "")
             others == {i \in DOMAIN text \ {at} : Read(i) # <<>> /\ Read(i)[1].kind = zs[1].kind /\ Read(i)[1].role = zs[1].role}
             Missed == FactMissed(text, other, at)
  <1>6. at = 0 \/ Missed \/ found' # {} => FactAlterationIsTold'
    <2>1. FactAlterationIsTold' <=> (check' = "facts" /\ input'.at # 0 =>
                                       FactMissed(input'.zh, input'.en, input'.at) \/ found' # {})
      BY Zenon DEF FactAlterationIsTold, FactMissed
    <2> QED BY <1>2, <2>1, Zenon
  <1>7. ASSUME at # 0, ~Missed PROVE found' # {}
    <2> DEFINE read == [i \in DOMAIN text |-> Read(i)]
               only == [i \in DOMAIN text |-> read[i][1]]
               z == zs[1]
               e == es[1]
    <2>1. at \in DOMAIN text
      <3> DEFINE n == Len(text)
      <3>1. n \in Nat /\ DOMAIN text = 1 .. n /\ at \in 0 .. n
        BY <1>3, <1>1, Zenon DEF AreMentions, IsList
      <3>2. at # 0
        BY <1>7
      <3> HIDE DEF n
      <3>3. at \in 1 .. n
        BY <3>1, <3>2
      <3> QED BY <3>1, <3>3
    <2>0. /\ zs # <<>> /\ es # <<>> /\ ~F!SameValue(zs[1], es[1])
          /\ ~(zs[1].kind = "amount" /\ F!Scaled(zs[1].value, es[1].value) /\ F!UnitExplains(zs[1], es[1]))
          /\ F!Fits(zs[1], es[1], others # {})
          /\ \A i \in others : F!Fits(Read(i)[1], Read(i)[1], TRUE) /\ ~F!SameValue(zs[1], Read(i)[1]) /\ ~F!SameValue(Read(i)[1], es[1])
          /\ ~(zs[1].kind = "pct" /\ Len(text) > Len(F!Positional))
      BY <1>7, Zenon DEF FactMissed
    <2> HIDE DEF Read, es
    <2>2. /\ \A i \in DOMAIN text : read[i] = Read(i) /\ only[i] = Read(i)[1]
          /\ read[at] = zs /\ zs # <<>> /\ es # <<>> /\ z = read[at][1]
      BY <2>0, <2>1, Zenon
    <2>3. others = {i \in DOMAIN text \ {at} : read[i] # <<>> /\ read[i][1].kind = z.kind /\ read[i][1].role = z.role}
      BY <2>2
    <2>4. AlteredFact(text, at, z, e, others, only)
      <3>1. Len(text) \in Nat /\ Len(F!Positional) = 4
        BY <1>3 DEF AreMentions, IsList, F!Positional
      <3>2. z.kind = "pct" => Len(text) <= 4
        <4> DEFINE n == Len(text)
                   m == Len(F!Positional)
        <4>1. n \in Nat /\ m = 4 /\ (z.kind = "pct" => ~(n > m))
          BY <2>0, <3>1
        <4> HIDE DEF n, m
        <4>2. z.kind = "pct" => n <= 4
          BY <4>1
        <4> QED BY <4>2 DEF n
      <3>3. \A i \in others : only[i] = Read(i)[1]
        BY <2>2
      <3> HIDE DEF others, only
      <3> QED BY <2>0, <3>2, <3>3, Zenon DEF AlteredFact
    <2> HIDE DEF read, only, others
    <2>5. \E r : ToldOfRole(fs, gs, r)
      <3>1. IsReadOf(text, read) /\ others = OthersLike(text, at, read, z) 
        BY <2>2, <2>3, Zenon DEF Read, IsReadOf, OthersLike
      <3>2. other = WithOther(text, at, to) /\ ReadAlone(other[at], es) /\ only = FirstsOf(text, read)
        BY <2>2, Zenon DEF other, es, only, ReadAlone, FirstsOf
      <3>3. read[at] # <<>> /\ es # <<>> /\ z = read[at][1] /\ e = es[1]
        BY <2>2, Zenon
      <3>4. IsOneOther(text, at, to, other)
        BY <1>3, <2>1, <3>2, Zenon DEF IsOneOther
      <3> HIDE DEF z, e
      <3>5. ReadOfThese(text, at, other, read, es, z, e, others, only)
        BY <3>1, <3>2, <3>3, Zenon DEF ReadOfThese
      <3> QED BY <1>3, <2>4, <3>4, <3>5, RewrittenIsTold, Zenon
    <2> HIDE DEF fs, gs, pair
    <2>6. \E r : ToldOfRole(pair.zh, pair.en, r)
      BY <1>5, <2>5, Zenon
    <2>7. F!FactFindings(pair) # {}
      BY <1>5, <2>6, ToldIsFound
    <2> QED BY <1>4, <2>7
  <1> QED BY <1>6, <1>7, Zenon

(* A fact that one of the texts says otherwise is told, if nothing else could *)
(* have been taken for it (_fact_diffs over _optimal_fact_pairs).             *)
THEOREM AlteredFactsAreTold == Spec => []FactAlterationIsTold
PROOF
  <1> DEFINE Ok == FactAlterationIsTold
  <1>1. Init => Ok
    BY DEF Init, FactAlterationIsTold
  <1>2. ASSUME Ok, [Next]_vars PROVE Ok'
    <2>1. CASE UNCHANGED vars
      BY <1>2, <2>1 DEF vars, FactAlterationIsTold
    <2>2. CASE Next
      <3>1. check' = "facts" => RunFacts
        BY <2>2, EachCheckAsItRuns
      <3>2. CASE check' = "facts"
        BY <3>1, <3>2, FactIsTold
      <3>3. CASE check' # "facts"
        BY <3>3 DEF FactAlterationIsTold
      <3> QED BY <3>2, <3>3
    <2> QED BY <1>2, <2>1, <2>2
  <1> QED BY <1>1, <1>2, PTL DEF Spec

-----------------------------------------------------------------------------
(* RunRows: one altered row is told.  Two amounts differ when one of them is  *)
(* more than a thousandth larger, which does not depend on their unit.        *)
Gap(x, y) == 999 * y > 1000 * x \/ 999 * x > 1000 * y

LEMMA DiffersIsAGap ==
  ASSUME NEW x \in Nat, NEW y \in Nat
  PROVE  T!Differs(x, y) <=> Gap(x, y)
PROOF
  <1>1. CASE x <= y
    <2>1. T!Abs(x - y) = y - x /\ T!Larger(T!Abs(x), T!Abs(y)) = y
      BY <1>1 DEF T!Abs, T!Larger
    <2> QED BY <1>1, <2>1, SMT DEF T!Differs, T!Within, Gap
  <1>2. CASE x > y
    <2>1. T!Abs(x - y) = x - y /\ T!Larger(T!Abs(x), T!Abs(y)) = x
      BY <1>2 DEF T!Abs, T!Larger
    <2> QED BY <1>2, <2>1, SMT DEF T!Differs, T!Within, Gap
  <1> QED BY <1>1, <1>2

LEMMA ProductsCompare ==
  ASSUME NEW c \in Nat, c # 0, NEW x \in Nat, NEW y \in Nat
  PROVE  /\ c * x \in Nat /\ x * c = c * x
         /\ c * x > c * y <=> x > y
         /\ c * x = c * y <=> x = y
PROOF
  <1>1. c * x \in Nat /\ x * c = c * x /\ c * y \in Nat
    BY SMT
  <1>2. ASSUME NEW v \in Nat, NEW w \in Nat, v > w PROVE c * v > c * w
    <2> DEFINE d == v - w
    <2>1. d \in Nat /\ d >= 1 /\ v = w + d
      BY <1>2
    <2> HIDE DEF d
    <2>2. c * (w + d) = c * w + c * d
      BY <2>1, SMT
    <2>3. c * d >= 1
      BY <2>1, SMT
    <2>4. c * w \in Nat /\ c * d \in Nat
      BY <2>1, SMT
    <2> QED BY <2>1, <2>2, <2>3, <2>4
  <1>3. x > y \/ x = y \/ y > x
    OBVIOUS
  <1> DEFINE u == c * x
             v == c * y
  <1>4. x > y => u > v
    BY <1>2
  <1>5. y > x => v > u
    BY <1>2
  <1>6. x = y => u = v
    OBVIOUS
  <1>7. u \in Nat /\ v \in Nat
    BY <1>1
  <1> HIDE DEF u, v
  <1>8. (u > v <=> x > y) /\ (u = v <=> x = y)
    BY <1>3, <1>4, <1>5, <1>6, <1>7
  <1> QED BY <1>1, <1>8 DEF u, v

LEMMA GapsKeepTheirScale ==
  ASSUME NEW c \in Nat, c # 0, NEW x \in Nat, NEW y \in Nat
  PROVE  Gap(c * x, c * y) <=> Gap(x, y)
PROOF
  <1> DEFINE u == c * x
             v == c * y
             x1 == 1000 * x
             y1 == 999 * y
             x2 == 999 * x
             y2 == 1000 * y
  <1>1. x1 \in Nat /\ x2 \in Nat /\ y1 \in Nat /\ y2 \in Nat
    OBVIOUS
  <1>2. 1000 * u = c * x1 /\ 999 * u = c * x2 /\ 1000 * v = c * y2 /\ 999 * v = c * y1
    BY SMT
  <1>3. Gap(x, y) <=> y1 > x1 \/ x2 > y2
    BY DEF Gap
  <1>4. Gap(u, v) <=> c * y1 > c * x1 \/ c * x2 > c * y2
    <2> HIDE DEF u, v, x1, x2, y1, y2
    <2> QED BY <1>2 DEF Gap
  <1> HIDE DEF u, v, x1, x2, y1, y2
  <1>5. (c * y1 > c * x1 <=> y1 > x1) /\ (c * x2 > c * y2 <=> x2 > y2)
    BY <1>1, ProductsCompare
  <1> QED BY <1>3, <1>4, <1>5 DEF u, v

(* Which rows are off under a factor <<p, q>>.                                *)
LEMMA OffIsAGap ==
  ASSUME NEW a, Whole(a), NEW h, Whole(h), NEW p \in Nat, NEW q \in Nat, NEW k
  PROVE  k \in T!Off(a, h, <<p, q>>) <=> k \in T!Shared(a, h) /\ Gap(a.rows[k] * q, h.rows[k] * p)
PROOF
  <1> DEFINE f == <<p, q>>
             x == T!Scaled(a, h, f, k)[1]
             y == T!Scaled(a, h, f, k)[2]
  <1>1. f[1] = p /\ f[2] = q
    OBVIOUS
  <1> HIDE DEF f
  <1>2. x = a.rows[k] * q /\ y = h.rows[k] * p
    BY <1>1 DEF T!Scaled
  <1>3. k \in T!Off(a, h, f) <=> k \in T!Shared(a, h) /\ T!Differs(x, y)
    BY DEF T!Off
  <1>4. k \in T!Shared(a, h) => x \in Nat /\ y \in Nat
    <2> HAVE k \in T!Shared(a, h)
    <2> DEFINE v == a.rows[k]
               w == h.rows[k]
    <2>1. v \in Nat /\ w \in Nat
      BY DEF T!Shared, Whole
    <2> HIDE DEF v, w
    <2>2. v * q \in Nat /\ w * p \in Nat
      BY <2>1, SMT
    <2> QED BY <1>2, <2>2 DEF v, w
  <1> HIDE DEF x, y
  <1>5. k \in T!Shared(a, h) => (T!Differs(x, y) <=> Gap(x, y))
    BY <1>4, DiffersIsAGap
  <1> QED BY <1>2, <1>3, <1>5 DEF f

(* The median ratio is that of a row, and there are rows on both sides of it. *)
IsRatio(u) == u[1] \in Nat /\ u[1] # 0 /\ u[2] \in Nat /\ u[2] # 0 /\ u[3] \in Int \X Int
Under(u, v) == u[1] * v[2] < v[1] * u[2]
Level(u, v) == u[1] * v[2] = v[1] * u[2]
RatioBefore(u, v) == Under(u, v) \/ (Level(u, v) /\ InListOrder(u[3], v[3]))

LEMMA RatiosCompare ==
  ASSUME NEW u, IsRatio(u), NEW v, IsRatio(v), NEW w, IsRatio(w)
  PROVE  /\ ~Under(u, u) /\ Level(u, u)
         /\ Under(u, v) \/ Level(u, v) \/ Under(v, u)
         /\ Level(u, v) => Level(v, u) /\ ~Under(u, v)
         /\ Under(u, v) /\ (Under(v, w) \/ Level(v, w)) => Under(u, w)
         /\ Level(u, v) /\ Under(v, w) => Under(u, w)
         /\ Level(u, v) /\ Level(v, w) => Level(u, w)
PROOF
  <1> DEFINE x1 == u[1]
             x2 == u[2]
             y1 == v[1]
             y2 == v[2]
             z1 == w[1]
             z2 == w[2]
  <1>1. /\ x1 \in Nat /\ x1 # 0 /\ x2 \in Nat /\ x2 # 0 /\ y1 \in Nat /\ y1 # 0
        /\ y2 \in Nat /\ y2 # 0 /\ z1 \in Nat /\ z1 # 0 /\ z2 \in Nat /\ z2 # 0
    BY DEF IsRatio
  <1>2. /\ Under(u, u) <=> x1 * x2 < x1 * x2
        /\ Level(u, u) <=> x1 * x2 = x1 * x2
        /\ Under(u, v) <=> x1 * y2 < y1 * x2
        /\ Level(u, v) <=> x1 * y2 = y1 * x2
        /\ Under(v, u) <=> y1 * x2 < x1 * y2
        /\ Level(v, u) <=> y1 * x2 = x1 * y2
        /\ Under(v, w) <=> y1 * z2 < z1 * y2
        /\ Level(v, w) <=> y1 * z2 = z1 * y2
        /\ Under(u, w) <=> x1 * z2 < z1 * x2
        /\ Level(u, w) <=> x1 * z2 = z1 * x2
    BY Zenon DEF Under, Level
  <1> HIDE DEF x1, x2, y1, y2, z1, z2
  <1> DEFINE o == x1 * x2
             p == x1 * y2
             q == y1 * x2
             r == y1 * z2
             s == z1 * y2
             m == x1 * z2
             l == z1 * x2
  <1>3. o \in Nat /\ p \in Nat /\ q \in Nat /\ r \in Nat /\ s \in Nat /\ m \in Nat /\ l \in Nat
    BY <1>1, SMT
  <1>4. z2 * p = y2 * m /\ z2 * q = x2 * r /\ x2 * s = y2 * l
    BY <1>1, SMT
  <1> HIDE DEF o, p, q, r, s, m, l
  <1>5. /\ (z2 * q > z2 * p <=> q > p) /\ (z2 * q = z2 * p <=> q = p)
        /\ (x2 * s > x2 * r <=> s > r) /\ (x2 * s = x2 * r <=> s = r)
        /\ (y2 * l > y2 * m <=> l > m) /\ (y2 * l = y2 * m <=> l = m)
        /\ z2 * p \in Nat /\ z2 * q \in Nat /\ x2 * s \in Nat /\ x2 * r \in Nat /\ y2 * l \in Nat /\ y2 * m \in Nat
    BY <1>1, <1>3, ProductsCompare
  <1> DEFINE d == z2 * p
             e == z2 * q
             f == x2 * s
             mm == y2 * m
             ll == y2 * l
             rr == x2 * r
  <1>6. /\ d = mm /\ e = rr /\ f = ll /\ d \in Nat /\ e \in Nat /\ f \in Nat
        /\ (e > d <=> q > p) /\ (e = d <=> q = p) /\ (f > rr <=> s > r) /\ (f = rr <=> s = r)
        /\ (ll > mm <=> l > m) /\ (ll = mm <=> l = m)
    BY <1>4, <1>5
  <1> HIDE DEF d, e, f, mm, ll, rr
  <1>7. /\ (q > p /\ (s > r \/ s = r) => l > m) /\ (q = p /\ s > r => l > m) /\ (q = p /\ s = r => l = m)
    BY <1>6
  <1> QED BY <1>2, <1>3, <1>7 DEF o, p, q, r, s, m, l

LEMMA RatiosAreOrdered ==
  ASSUME NEW S, \A u \in S : IsRatio(u), NEW Ord,
         \A u, v \in S : <<u, v>> \in Ord <=> RatioBefore(u, v),
         \A u, v \in S : u[3] = v[3] => u = v
  PROVE  IsOrder(Ord, S) /\ IsTotal(Ord, S)
PROOF
  <1>1. ASSUME NEW u \in S PROVE <<u, u>> \notin Ord
    <2>1. ~Under(u, u)
      BY RatiosCompare
    <2>2. ~InListOrder(u[3], u[3])
      BY PositionsCompare DEF IsRatio
    <2> QED BY <2>1, <2>2 DEF RatioBefore
  <1>2. ASSUME NEW u \in S, NEW v \in S, NEW w \in S, <<u, v>> \in Ord, <<v, w>> \in Ord
        PROVE  <<u, w>> \in Ord
    <2>1. RatioBefore(u, v) /\ RatioBefore(v, w) /\ IsRatio(u) /\ IsRatio(v) /\ IsRatio(w)
      BY <1>2
    <2>2. u[3] \in Int \X Int /\ v[3] \in Int \X Int /\ w[3] \in Int \X Int
      BY <2>1 DEF IsRatio
    <2>3. InListOrder(u[3], v[3]) /\ InListOrder(v[3], w[3]) => InListOrder(u[3], w[3])
      <3> DEFINE x == u[3]
                 y == v[3]
                 z == w[3]
      <3> HIDE DEF x, y, z
      <3>1. x \in Int \X Int /\ y \in Int \X Int /\ z \in Int \X Int
        BY <2>2 DEF x, y, z
      <3>2. InListOrder(x, y) /\ InListOrder(y, z) => InListOrder(x, z)
        BY <3>1, PositionsCompare
      <3> QED BY <3>2 DEF x, y, z
    <2>4. /\ Under(u, v) /\ (Under(v, w) \/ Level(v, w)) => Under(u, w)
          /\ Level(u, v) /\ Under(v, w) => Under(u, w)
          /\ Level(u, v) /\ Level(v, w) => Level(u, w)
      BY <2>1, RatiosCompare
    <2>5. RatioBefore(u, w)
      BY <2>1, <2>3, <2>4, Zenon DEF RatioBefore
    <2> QED BY <2>5
  <1>3. ASSUME NEW u \in S, NEW v \in S PROVE u = v \/ <<u, v>> \in Ord \/ <<v, u>> \in Ord
    <2> DEFINE x == u[3]
               y == v[3]
    <2>1. Under(u, v) \/ Level(u, v) \/ Under(v, u)
      BY RatiosCompare
    <2>2. Level(u, v) => Level(v, u)
      BY RatiosCompare
    <2>3. x \in Int \X Int /\ y \in Int \X Int
      BY DEF IsRatio
    <2> HIDE DEF x, y
    <2>4. x = y \/ InListOrder(x, y) \/ InListOrder(y, x)
      BY <2>3, PositionsCompare
    <2>5. x = y => u = v
      BY DEF x, y
    <2>6. u = v \/ RatioBefore(u, v) \/ RatioBefore(v, u)
      BY <2>1, <2>2, <2>4, <2>5, Zenon DEF RatioBefore, x, y
    <2> QED BY <2>6
  <1>4. IsOrder(Ord, S)
    BY <1>1, <1>2, Zenon DEF IsOrder
  <1>5. IsTotal(Ord, S)
    BY <1>3, Zenon DEF IsTotal
  <1> QED BY <1>4, <1>5

(* lo and hi are rows whose ratio is not above, and not below, that of m.     *)
Between(a, h, lo, m, hi) ==
  ~(a.rows[m] * h.rows[lo] < a.rows[lo] * h.rows[m]) /\ ~(a.rows[hi] * h.rows[m] < a.rows[m] * h.rows[hi])

(* The last factor tried is the ratio of row m.                               *)
Tried(a, h, m) == Append(<<<<1, 1>>, <<10, 1>>>>, <<a.rows[m], h.rows[m]>>)
Placed2(a, h) == \A k \in T!Shared(a, h) : k \in Int \X Int

LEMMA TheMiddleIsInside ==
  ASSUME NEW n \in Nat, n >= 4
  PROVE  LET i == (n \div 2) + 1 IN i \in 1 .. n /\ i - 1 \in 1 .. n /\ i + 1 \in 1 .. n /\ i \in Int
PROOF BY SMT

LEMMA TheMedianIsARow ==
  ASSUME NEW a, Whole(a), NEW h, Whole(h), Placed2(a, h),
         NEW n \in Nat, Cardinality(T!Shared(a, h)) = n, n >= 4
  PROVE  \E lo, m, hi \in T!Shared(a, h) :
           /\ lo # m /\ hi # m /\ Between(a, h, lo, m, hi)
           /\ T!BestFactor(a, h) = T!FewestOff(a, h, Tried(a, h, m))
PROOF
  <1> DEFINE keys == T!Shared(a, h)
             f == [k \in keys |-> <<a.rows[k], h.rows[k], k>>]
             rows == {<<a.rows[k], h.rows[k], k>> : k \in keys}
             Ord == {o \in rows \X rows :
                       \/ o[1][1] * o[2][2] < o[2][1] * o[1][2]
                       \/ o[1][1] * o[2][2] = o[2][1] * o[1][2] /\ T!InListOrder(o[1][3], o[2][3])}
             ratios == Listed(rows, Ord)
             i == (n \div 2) + 1
  <1>1. T!BestFactor(a, h) = T!FewestOff(a, h, Append(<<<<1, 1>>, <<10, 1>>>>, T!Median(ratios)))
    <2>1. T!Listed(rows, Ord) = ratios
      <3> HIDE DEF rows, Ord
      <3> QED BY SameListings
    <2> QED BY <2>1, Zenon DEF T!BestFactor
  <1>2. \A k \in keys : f[k] = <<a.rows[k], h.rows[k], k>> /\ IsRatio(f[k]) /\ f[k][3] = k
    <2> TAKE k \in keys
    <2> DEFINE x == a.rows[k]
               y == h.rows[k]
    <2>1. x \in Nat /\ x # 0 /\ y \in Nat /\ y # 0 /\ k \in Int \X Int
      BY DEF T!Shared, Whole, Placed2
    <2> HIDE DEF x, y
    <2>2. IsRatio(<<x, y, k>>) /\ <<x, y, k>>[3] = k
      BY <2>1 DEF IsRatio
    <2> QED BY <2>2 DEF x, y
  <1>3. rows = {f[k] : k \in keys} /\ f = [k \in keys |-> f[k]] /\ DOMAIN f = keys
    OBVIOUS
  <1>4. IsFiniteSet(keys)
    BY OffIsFinite
  <1>5. ASSUME NEW u \in rows, NEW v \in rows PROVE <<u, v>> \in Ord <=> RatioBefore(u, v)
    <2> DEFINE o == <<u, v>>
    <2>1. o \in rows \X rows /\ o[1] = u /\ o[2] = v
      OBVIOUS
    <2> HIDE DEF o, rows
    <2>2. o \in Ord <=> \/ u[1] * v[2] < v[1] * u[2]
                        \/ u[1] * v[2] = v[1] * u[2] /\ T!InListOrder(u[3], v[3])
      BY <2>1, Zenon
    <2>3. T!InListOrder(u[3], v[3]) <=> InListOrder(u[3], v[3])
      BY Zenon DEF T!InListOrder, InListOrder
    <2> QED BY <2>2, <2>3, Zenon DEF o, RatioBefore, Under, Level
  <1> HIDE DEF f, keys, rows, Ord
  <1>6. IsFiniteSet(rows) /\ Cardinality(rows) = n
    <2>1. \A k, l \in keys : k # l => f[k] # f[l]
      BY <1>2
    <2> QED BY <1>3, <1>4, <2>1, ImagesOfDistinct DEF keys
  <1>7. (\A u \in rows : IsRatio(u)) /\ \A u, v \in rows : u[3] = v[3] => u = v
    BY <1>2, <1>3
  <1>8. IsOrder(Ord, rows) /\ IsTotal(Ord, rows)
    BY <1>5, <1>7, RatiosAreOrdered
  <1>9. /\ ratios = [k \in 1 .. n |-> ratios[k]]
        /\ \A k \in 1 .. n : ratios[k] \in rows
        /\ \A k, l \in 1 .. n : k < l => <<ratios[l], ratios[k]>> \notin Ord
        /\ \A k, l \in 1 .. n : k < l => ratios[k] # ratios[l]
    <2>1. /\ ratios = [k \in 1 .. Cardinality(rows) |-> ratios[k]]
          /\ \A k \in 1 .. Cardinality(rows) : ratios[k] \in rows
          /\ \A k, l \in 1 .. Cardinality(rows) : k < l => <<ratios[l], ratios[k]>> \notin Ord
          /\ \A k, l \in 1 .. Cardinality(rows) : k < l => ratios[k] # ratios[l]
      BY <1>6, <1>8, ListedInOrder
    <2> QED BY <1>6, <2>1
  <1> HIDE DEF ratios
  <1>10. i \in 1 .. n /\ i - 1 \in 1 .. n /\ i + 1 \in 1 .. n /\ i \in Int
    BY TheMiddleIsInside
  <1>11. Len(ratios) = n
    BY <1>9
  <1> DEFINE d == i - 1
             e == i + 1
             u == ratios[d]
             v == ratios[i]
             w == ratios[e]
  <1>12. d \in 1 .. n /\ e \in 1 .. n /\ d < i /\ i < e
    BY <1>10
  <1>13. T!Median(ratios) = SubSeq(v, 1, 2)
    BY <1>11, Zenon DEF T!Median
  <1> HIDE DEF i
  <1>14. /\ u \in rows /\ v \in rows /\ w \in rows /\ u # v /\ v # w
         /\ <<v, u>> \notin Ord /\ <<w, v>> \notin Ord
    <2> HIDE DEF d, e
    <2> QED BY <1>9, <1>10, <1>12
  <1> HIDE DEF u, v, w
  <1>15. ~RatioBefore(v, u) /\ ~RatioBefore(w, v)
    BY <1>5, <1>14
  <1>16. PICK lo \in keys, m \in keys, hi \in keys : u = f[lo] /\ v = f[m] /\ w = f[hi]
    <2>1. \A x \in rows : \E k \in keys : x = f[k]
      BY <1>3
    <2> QED BY <1>14, <2>1, Zenon
  <1>17. lo # m /\ hi # m
    BY <1>14, <1>16
  <1>18. /\ u = <<a.rows[lo], h.rows[lo], lo>> /\ v = <<a.rows[m], h.rows[m], m>>
         /\ w = <<a.rows[hi], h.rows[hi], hi>>
    BY <1>2, <1>16
  <1>19. Between(a, h, lo, m, hi)
    <2>1. ~Under(v, u) /\ ~Under(w, v)
      BY <1>15, Zenon DEF RatioBefore
    <2>2. /\ u[1] = a.rows[lo] /\ u[2] = h.rows[lo] /\ v[1] = a.rows[m] /\ v[2] = h.rows[m]
          /\ w[1] = a.rows[hi] /\ w[2] = h.rows[hi]
      BY <1>18
    <2> QED BY <2>1, <2>2, Zenon DEF Under, Between
  <1>20. SubSeq(v, 1, 2) = <<a.rows[m], h.rows[m]>>
    <2> DEFINE x == a.rows[m]
               y == h.rows[m]
    <2>1. v = <<x, y, m>>
      BY <1>18
    <2> HIDE DEF x, y
    <2> DEFINE t == SubSeq(v, 1, 2)
               S == {x, y, m}
    <2>2. v \in Seq(S) /\ Len(v) = 3 /\ v[1] = x /\ v[2] = y
      BY <2>1
    <2>3. t = [k \in 1 .. 2 |-> v[k]]
      BY <2>2
    <2> HIDE DEF t
    <2>4. t = <<x, y>>
      BY <2>2, <2>3
    <2> QED BY <2>4 DEF x, y, t
  <1>21. T!BestFactor(a, h) = T!FewestOff(a, h, Tried(a, h, m))
    BY <1>1, <1>13, <1>20 DEF Tried
  <1> QED BY <1>16, <1>17, <1>19, <1>21 DEF keys

LEMMA OneTooFew ==
  ASSUME NEW n \in Nat, NEW S, IsFiniteSet(S), Cardinality(S) = n, n >= 4, NEW z, NEW U \in SUBSET S
  PROVE  /\ IsFiniteSet(U) /\ Cardinality(U) \in Nat
         /\ U \subseteq {z} => Cardinality(U) <= 1
         /\ S \ {z} \subseteq U => Cardinality(U) >= 3
         /\ Cardinality(U) <= 1 => \E y : U \subseteq {y}
PROOF
  <1>1. IsFiniteSet(U) /\ Cardinality(U) \in Nat
    BY FS_Subset, FS_CardinalityType
  <1>2. IsFiniteSet({z}) /\ Cardinality({z}) = 1
    BY FS_Singleton
  <1>3. ASSUME U \subseteq {z} PROVE Cardinality(U) <= 1
    BY <1>2, <1>3, FS_Subset
  <1>4. ASSUME S \ {z} \subseteq U PROVE Cardinality(U) >= 3
    <2> DEFINE V == S \ {z}
               W == S \cap {z}
    <2>1. IsFiniteSet(V) /\ Cardinality(V) = n - Cardinality(W)
      BY FS_Difference
    <2>2. W \in SUBSET {z}
      OBVIOUS
    <2>3. IsFiniteSet(W) /\ Cardinality(W) <= 1 /\ Cardinality(W) \in Nat
      BY <1>2, <2>2, FS_Subset, FS_CardinalityType
    <2>4. V \in SUBSET U
      BY <1>4
    <2> HIDE DEF V, W
    <2>5. Cardinality(V) <= Cardinality(U)
      BY <1>1, <2>4, FS_Subset
    <2> QED BY <1>1, <2>1, <2>3, <2>5
  <1>5. ASSUME Cardinality(U) <= 1 PROVE \E y : U \subseteq {y}
    <2>1. CASE Cardinality(U) = 0
      BY <1>1, <2>1, FS_EmptySet
    <2>2. CASE Cardinality(U) = 1
      BY <1>1, <2>2, FS_Singleton
    <2> QED BY <1>1, <1>5, <2>1, <2>2
  <1> QED BY <1>1, <1>3, <1>4, <1>5

(* A ratio between two rows of ratio c is c.                                  *)
Usual(a, h, c, k) == h.rows[k] = c * a.rows[k]
UsualBut(a, h, c, z) == \A k \in T!Shared(a, h) : k # z => Usual(a, h, c, k)

LEMMA TheMedianIsUsual ==
  ASSUME NEW a, Whole(a), NEW h, Whole(h), NEW c \in {1, 10}, NEW z,
         NEW lo \in T!Shared(a, h), NEW m \in T!Shared(a, h), NEW hi \in T!Shared(a, h),
         UsualBut(a, h, c, z), lo # m, hi # m, Between(a, h, lo, m, hi)
  PROVE  Usual(a, h, c, m)
PROOF
  <1> SUFFICES ASSUME z = m PROVE h.rows[m] = c * a.rows[m]
    BY DEF Usual, UsualBut
  <1>0. h.rows[lo] = c * a.rows[lo] /\ h.rows[hi] = c * a.rows[hi]
    BY DEF Usual, UsualBut
  <1> DEFINE x == a.rows[m]
             y == h.rows[m]
             v == a.rows[lo]
             w == a.rows[hi]
  <1>1. x \in Nat /\ y \in Nat /\ v \in Nat /\ w \in Nat /\ v # 0 /\ w # 0
    BY DEF T!Shared, Whole
  <1>2. ~(x * (c * v) < v * y) /\ ~(w * y < x * (c * w))
    BY <1>0 DEF Between
  <1> HIDE DEF x, y, v, w
  <1> DEFINE s == c * x
  <1>3. s \in Nat
    BY <1>1
  <1>4. x * (c * v) = v * s /\ x * (c * w) = w * s
    BY <1>1
  <1> HIDE DEF s
  <1>5. ~(v * y > v * s) /\ ~(w * s > w * y)
    <2>1. v * y \in Nat /\ v * s \in Nat /\ w * s \in Nat /\ w * y \in Nat
      BY <1>1, <1>3, ProductsCompare
    <2> QED BY <1>2, <1>4, <2>1
  <1>6. ~(y > s) /\ ~(s > y)
    BY <1>1, <1>3, <1>5, ProductsCompare
  <1>7. y = s
    BY <1>1, <1>3, <1>6
  <1> QED BY <1>7 DEF x, y, s

(* The factor of such a ratio sees the same rows off as <<1, c>>.             *)
LEMMA TheRatioIsTheUnit ==
  ASSUME NEW a, Whole(a), NEW h, Whole(h), NEW c \in {1, 10},
         NEW m \in T!Shared(a, h), Usual(a, h, c, m)
  PROVE  T!Off(a, h, <<a.rows[m], h.rows[m]>>) = T!Off(a, h, <<1, c>>)
PROOF
  <1> DEFINE p == a.rows[m]
             q == h.rows[m]
  <1>1. p \in Nat /\ p # 0 /\ q \in Nat /\ q = c * p /\ c \in Nat /\ 1 \in Nat
    BY DEF T!Shared, Whole, Usual
  <1> HIDE DEF p, q
  <1>2. ASSUME NEW k PROVE k \in T!Off(a, h, <<p, q>>) <=> k \in T!Off(a, h, <<1, c>>)
    <2> DEFINE x == a.rows[k]
               y == h.rows[k]
               one == 1
    <2>1. k \in T!Off(a, h, <<p, q>>) <=> k \in T!Shared(a, h) /\ Gap(x * q, y * p)
      BY <1>1, OffIsAGap
    <2>2. k \in T!Off(a, h, <<one, c>>) <=> k \in T!Shared(a, h) /\ Gap(x * c, y * one)
      <3>1. one \in Nat
        OBVIOUS
      <3> HIDE DEF one
      <3> QED BY <1>1, <3>1, OffIsAGap
    <2> SUFFICES ASSUME k \in T!Shared(a, h) PROVE Gap(x * q, y * p) <=> Gap(x * c, y * one)
      BY <2>1, <2>2
    <2>3. x \in Nat /\ y \in Nat
      BY DEF T!Shared, Whole
    <2> HIDE DEF x, y
    <2> DEFINE u == x * c
               v == y * one
    <2>4. u \in Nat /\ v \in Nat /\ x * q = p * u /\ y * p = p * v
      BY <1>1, <2>3
    <2> HIDE DEF u, v
    <2>5. Gap(p * u, p * v) <=> Gap(u, v)
      BY <1>1, <2>4, GapsKeepTheirScale
    <2> QED BY <2>4, <2>5 DEF u, v
  <1> QED BY <1>2 DEF p, q

(* Another unit sees every usual row off.                                     *)
LEMMA OtherUnitsAreOff ==
  ASSUME NEW a, Whole(a), NEW h, Whole(h), NEW c \in {1, 10},
         NEW k \in T!Shared(a, h), Usual(a, h, c, k)
  PROVE  /\ k \notin T!Off(a, h, <<1, c>>)
         /\ k \in T!Off(a, h, <<10, 1>>)
         /\ c = 10 => k \in T!Off(a, h, <<1, 1>>)
PROOF
  <1> DEFINE x == a.rows[k]
             y == h.rows[k]
             one == 1
             ten == 10
  <1>1. x \in Nat /\ x >= 1 /\ y = c * x
    BY DEF T!Shared, Whole, Usual
  <1>2. k \in T!Off(a, h, <<one, c>>) <=> Gap(x * c, y * one)
    <2>1. one \in Nat /\ c \in Nat
      OBVIOUS
    <2> HIDE DEF one, ten
    <2> QED BY <2>1, OffIsAGap
  <1>3. k \in T!Off(a, h, <<ten, one>>) <=> Gap(x * one, y * ten)
    <2>1. one \in Nat /\ ten \in Nat
      OBVIOUS
    <2> HIDE DEF one, ten
    <2> QED BY <2>1, OffIsAGap
  <1>4. k \in T!Off(a, h, <<one, one>>) <=> Gap(x * one, y * one)
    <2>1. one \in Nat
      OBVIOUS
    <2> HIDE DEF one, ten
    <2> QED BY <2>1, OffIsAGap
  <1> HIDE DEF x, y
  <1>5. c = 1 \/ c = 10
    OBVIOUS
  <1>6. ~Gap(x * c, y * one)
    <2>1. CASE c = 1
      BY <1>1, <2>1 DEF Gap
    <2>2. CASE c = 10
      BY <1>1, <2>2 DEF Gap
    <2> QED BY <1>5, <2>1, <2>2
  <1>7. Gap(x * one, y * ten)
    <2>1. CASE c = 1
      BY <1>1, <2>1 DEF Gap
    <2>2. CASE c = 10
      BY <1>1, <2>2 DEF Gap
    <2> QED BY <1>5, <2>1, <2>2
  <1>8. c = 10 => Gap(x * one, y * one)
    BY <1>1 DEF Gap
  <1> QED BY <1>2, <1>3, <1>4, <1>6, <1>7, <1>8

LEMMA OnlyTheOddIsOff ==
  ASSUME NEW a, Whole(a), NEW h, Whole(h), Placed2(a, h),
         NEW n \in Nat, Cardinality(T!Shared(a, h)) = n, n >= 4,
         NEW c \in {1, 10}, NEW z, UsualBut(a, h, c, z)
  PROVE  LET odd == T!Off(a, h, <<1, c>>)
         IN  /\ T!Off(a, h, T!BestFactor(a, h)) = odd
             /\ Cardinality(odd) <= 1
PROOF
  <1> DEFINE odd == T!Off(a, h, <<1, c>>)
             keys == T!Shared(a, h)
  <1>1. PICK lo, m, hi \in keys :
           /\ lo # m /\ hi # m /\ Between(a, h, lo, m, hi)
           /\ T!BestFactor(a, h) = T!FewestOff(a, h, Tried(a, h, m))
    BY TheMedianIsARow
  <1> DEFINE last == <<a.rows[m], h.rows[m]>>
             tried == Tried(a, h, m)
  <1>2. Usual(a, h, c, m)
    BY <1>1, TheMedianIsUsual
  <1>3. T!Off(a, h, last) = odd
    BY <1>1, <1>2, TheRatioIsTheUnit
  <1>4. \A k \in keys : k # z => k \notin odd /\ k \in T!Off(a, h, <<10, 1>>) /\ (c = 10 => k \in T!Off(a, h, <<1, 1>>))
    BY OtherUnitsAreOff DEF UsualBut
  <1>5. DOMAIN tried = 1 .. 3 /\ tried[1] = <<1, 1>> /\ tried[2] = <<10, 1>> /\ tried[3] = last
    <2> HIDE DEF last
    <2>1. tried = Append(<<<<1, 1>>, <<10, 1>>>>, last)
      BY DEF Tried, last
    <2> QED BY <2>1
  <1> HIDE DEF last, tried
  <1>6. \E i \in 1 .. 3 : HasFewestOff(a, h, tried, i, 3)
    <2> DEFINE l == 3
    <2>1. l \in Nat /\ l # 0 /\ DOMAIN tried = 1 .. l
      BY <1>5
    <2> HIDE DEF l
    <2>2. \E i \in 1 .. l : HasFewestOff(a, h, tried, i, l)
      BY <2>1, BestHasFewestOff
    <2> QED BY <2>2 DEF l
  <1>7. PICK i \in 1 .. 3 : HasFewestOff(a, h, tried, i, 3)
    BY <1>6
  <1> DEFINE best == T!Off(a, h, tried[i])
  <1>8. /\ odd \in SUBSET keys /\ best \in SUBSET keys /\ IsFiniteSet(keys)
        /\ odd \subseteq {z}
    <2>1. odd \in SUBSET keys /\ best \in SUBSET keys /\ IsFiniteSet(keys)
      BY OffIsFinite
    <2> HIDE DEF odd
    <2> QED BY <1>4, <2>1
  <1>9. Cardinality(best) <= Cardinality(odd)
    <2>1. 3 \in 1 .. 3
      OBVIOUS
    <2> QED BY <1>3, <1>5, <1>7, <2>1 DEF HasFewestOff
  <1>10. best = odd \/ keys \ {z} \subseteq best
    <2>1. CASE i = 1
      <3>1. c = 1 \/ c = 10
        OBVIOUS
      <3>2. best = T!Off(a, h, <<1, 1>>)
        BY <1>5, <2>1
      <3>3. c = 1 => best = odd
        BY <3>2
      <3> HIDE DEF best
      <3> QED BY <1>4, <3>1, <3>2, <3>3
    <2>2. CASE i = 2
      <3>1. best = T!Off(a, h, <<10, 1>>)
        BY <1>5, <2>2
      <3> HIDE DEF best
      <3> QED BY <1>4, <3>1
    <2>3. CASE i = 3
      BY <1>3, <1>5, <2>3
    <2> QED BY <2>1, <2>2, <2>3
  <1>11. T!Off(a, h, T!BestFactor(a, h)) = best
    BY <1>1, <1>7 DEF HasFewestOff, tried
  <1> HIDE DEF odd, best, keys
  <1>12. Cardinality(odd) <= 1 /\ Cardinality(odd) \in Nat
    <2>1. /\ IsFiniteSet(odd) /\ Cardinality(odd) \in Nat /\ (odd \subseteq {z} => Cardinality(odd) <= 1)
          /\ (keys \ {z} \subseteq odd => Cardinality(odd) >= 3)
      BY <1>8, OneTooFew DEF keys
    <2> QED BY <1>8, <2>1
  <1>13. Cardinality(best) \in Nat /\ (keys \ {z} \subseteq best => Cardinality(best) >= 3)
    BY <1>8, OneTooFew DEF keys
  <1>14. best = odd
    BY <1>9, <1>10, <1>12, <1>13
  <1> QED BY <1>11, <1>12, <1>14 DEF odd

(* The entries of a table, and the first one under a key, whose amount is     *)
(* that of the row.                                                           *)
Printed2(t) == /\ "entries" \in DOMAIN t /\ IsList(t.entries)
               /\ \A i \in DOMAIN t.entries : IsEntry(t.entries[i])
Ledger(t, i) == <<t.entries[i].label, t.entries[i].column>>
Good(t, i) == i \in DOMAIN t.entries /\ t.entries[i].label # 0 /\ t.entries[i].value >= 10
FirstOf(t, k, i) == /\ Good(t, i) /\ Ledger(t, i) = k /\ T!RowsOf(t).rows[k] = t.entries[i].value
                    /\ \A j : Good(t, j) /\ Ledger(t, j) = k => i <= j

LEMMA RowsHaveFirsts ==
  ASSUME NEW t, Printed2(t), NEW k \in DOMAIN T!RowsOf(t).rows
  PROVE  \E i \in DOMAIN t.entries : FirstOf(t, k, i)
PROOF
  <1> DEFINE e == t.entries
             n == Len(e)
             good == {i \in {j \in DOMAIN e : e[j].label # 0} : e[i].value >= 10}
             Key(i) == <<e[i].label, e[i].column>>
             Is(i) == Key(i) = k /\ \A j \in good : Key(j) = k => i <= j
             First(l) == CHOOSE i \in good : Key(i) = l /\ \A j \in good : Key(j) = l => i <= j
             keys == {Key(i) : i \in good}
             f == [l \in keys |-> e[First(l)].value]
  <1>1. T!RowsOf(t).rows = f
    BY DEF T!RowsOf
  <1>2. n \in Nat /\ DOMAIN e = 1 .. n
    BY DEF Printed2, IsList
  <1>3. good \in SUBSET Nat /\ \A i : i \in good <=> Good(t, i)
    BY <1>2 DEF Good
  <1>4. First(k) = CHOOSE i \in good : Is(i)
    BY Zenon
  <1>5. k \in keys /\ f[k] = e[First(k)].value
    <2>1. k \in keys
      BY <1>1
    <2> HIDE DEF keys, First
    <2> QED BY <2>1
  <1>6. \A i : Ledger(t, i) = Key(i)
    BY DEF Ledger
  <1> HIDE DEF good, n, Key, f, e
  <1>7. \E i \in good : Is(i)
    <2> DEFINE U == {i \in good : Key(i) = k}
    <2>1. U \in SUBSET Nat /\ U # {}
      BY <1>3, <1>5
    <2>2. PICK i \in U : \A j \in U : i <= j
      BY <2>1, LeastElement
    <2> QED BY <2>2
  <1> DEFINE i == First(k)
  <1>8. i \in good /\ Is(i)
    <2> HIDE DEF Is, First
    <2> QED BY <1>4, <1>7
  <1> HIDE DEF First
  <1>9. FirstOf(t, k, i)
    <2>1. Good(t, i) /\ Ledger(t, i) = k
      BY <1>3, <1>6, <1>8
    <2>2. T!RowsOf(t).rows[k] = t.entries[i].value
      BY <1>1, <1>5 DEF e
    <2>3. ASSUME NEW j, Good(t, j), Ledger(t, j) = k PROVE i <= j
      <3>1. j \in good /\ Key(j) = k
        BY <1>3, <1>6, <2>3
      <3> QED BY <1>8, <3>1
    <2> QED BY <2>1, <2>2, <2>3, Zenon DEF FirstOf
  <1>10. i \in DOMAIN t.entries
    BY <1>3, <1>8 DEF Good
  <1> QED BY <1>9, <1>10

(* An edit changes amounts, not names: the table has the same labels.         *)
EditOf(t, edit, at, u) ==
  /\ Printed2(u) /\ DOMAIN u.entries = DOMAIN t.entries
  /\ \A i \in DOMAIN t.entries :
       /\ u.entries[i].label = t.entries[i].label /\ u.entries[i].column = t.entries[i].column
       /\ u.entries[i].value = NewValue(t, edit, at, i)

LEMMA NextPlaces ==
  ASSUME NEW n \in Nat, NEW i \in 1 .. n
  PROVE  (i % n) + 1 \in 1 .. n
PROOF BY SMT

LEMMA NewValuesAreWhole ==
  ASSUME NEW t, Printed2(t), NEW edit, NEW at \in DOMAIN t.entries, NEW i \in DOMAIN t.entries
  PROVE  NewValue(t, edit, at, i) \in Int
PROOF
  <1> DEFINE n == Len(t.entries)
             After(k) == (k % n) + 1
             x == t.entries[i].value
             y == t.entries[After(i)].value
  <1>1. n \in Nat /\ DOMAIN t.entries = 1 .. n
    BY DEF Printed2, IsList
  <1> HIDE DEF n
  <1>2. After(i) \in DOMAIN t.entries
    BY <1>1, NextPlaces
  <1>3. x \in Int /\ y \in Int
    BY <1>2 DEF Printed2, IsEntry
  <1>4. NewValue(t, edit, at, i) \in {x, y, x + 7, x * 10}
    <2> DEFINE m == x + 7
               l == x * 10
               b == edit = "one" /\ i = at
               c == edit = "two" /\ i \in {at, After(at)}
               d == edit = "rotate"
               g == edit = "unit"
    <2>1. NewValue(t, edit, at, i) = CASE b -> m [] c -> m [] d -> y [] g -> (IF i = at THEN m ELSE l) [] OTHER -> x
      BY Zenon DEF NewValue, n
    <2>2. b => ~c /\ ~d /\ ~g
      OBVIOUS
    <2>3. c => ~d /\ ~g
      OBVIOUS
    <2>4. d => ~g
      OBVIOUS
    <2> HIDE DEF b, c, d, g, m, l, x, y
    <2>5. NewValue(t, edit, at, i) \in {x, y, m, l}
      BY <2>1, <2>2, <2>3, <2>4
    <2> QED BY <2>5 DEF m, l
  <1> HIDE DEF x, y
  <1> QED BY <1>3, <1>4

LEMMA EditsAreEdits ==
  ASSUME NEW t, Printed2(t), NEW edit, NEW at \in DOMAIN t.entries
  PROVE  EditOf(t, edit, at, Edited(t, edit, at))
PROOF
  <1> DEFINE e == t.entries
             f == [i \in DOMAIN e |-> [e[i] EXCEPT !.value = NewValue(t, edit, at, i)]]
             u == Edited(t, edit, at)
  <1>1. u = [t EXCEPT !.entries = f]
    BY DEF Edited
  <1>2. IsList(e)
    BY DEF Printed2
  <1>3. Len(f) = Len(e) /\ DOMAIN f = DOMAIN e
    BY <1>2 DEF IsList
  <1>4. IsList(f)
    <2> HIDE DEF f
    <2> QED BY <1>2, <1>3 DEF IsList
  <1>5. ASSUME NEW i \in DOMAIN e
        PROVE  IsEntry(f[i]) /\ f[i].label = e[i].label /\ f[i].column = e[i].column /\ f[i].value = NewValue(t, edit, at, i)
    <2> DEFINE x == e[i]
               v == NewValue(t, edit, at, i)
               y == [x EXCEPT !.value = v]
    <2>1. f[i] = y
      BY Zenon
    <2>2. v \in Int
      BY NewValuesAreWhole
    <2>3. IsEntry(x)
      BY DEF Printed2
    <2> HIDE DEF x, v, f
    <2>4. IsEntry(y) /\ y.label = x.label /\ y.column = x.column /\ y.value = v
      BY <2>2, <2>3 DEF IsEntry
    <2> QED BY <2>1, <2>4 DEF x, v
  <1> HIDE DEF f
  <1>6. "entries" \in DOMAIN u /\ u.entries = f
    BY <1>1 DEF Printed2
  <1> HIDE DEF u
  <1>7. Printed2(u)
    BY <1>3, <1>4, <1>5, <1>6 DEF Printed2
  <1> QED BY <1>3, <1>5, <1>6, <1>7 DEF EditOf, u

LEMMA EditsKeepLabels ==
  ASSUME NEW t, NEW edit, NEW at, NEW u, EditOf(t, edit, at, u)
  PROVE  T!RowsOf(u).labels = T!RowsOf(t).labels
PROOF
  <1> DEFINE named(x) == {i \in DOMAIN x.entries : x.entries[i].label # 0}
  <1>1. \A x : T!RowsOf(x).labels = {x.entries[i].label : i \in named(x)}
    BY DEF T!RowsOf
  <1>2. named(u) = named(t)
    BY DEF EditOf
  <1>3. \A i \in named(t) : u.entries[i].label = t.entries[i].label
    BY DEF EditOf
  <1> HIDE DEF named
  <1>4. T!RowsOf(u).labels = {u.entries[i].label : i \in named(t)}
    BY <1>1, <1>2
  <1>5. T!RowsOf(t).labels = {t.entries[i].label : i \in named(t)}
    BY <1>1
  <1>6. {u.entries[i].label : i \in named(t)} = {t.entries[i].label : i \in named(t)}
    BY <1>3
  <1> QED BY <1>4, <1>5, <1>6

LEMMA TheFirstsAre ==
  ASSUME NEW t, Printed2(t), NEW edit, NEW at \in DOMAIN t.entries, NEW u, EditOf(t, edit, at, u),
         NEW k \in DOMAIN T!RowsOf(t).rows, k \in DOMAIN T!RowsOf(u).rows
  PROVE  \E i, j \in DOMAIN t.entries :
           /\ FirstOf(t, k, i) /\ FirstOf(u, k, j) /\ Ledger(t, j) = k /\ Ledger(u, i) = k
           /\ t.entries[i].label # 0 /\ t.entries[j].label # 0
           /\ (u.entries[i].value >= 10 => j <= i) /\ (t.entries[j].value >= 10 => i <= j)
PROOF
  <1>1. Printed2(u) /\ DOMAIN u.entries = DOMAIN t.entries
    BY DEF EditOf
  <1>2. PICK i \in DOMAIN t.entries : FirstOf(t, k, i)
    BY RowsHaveFirsts
  <1>3. PICK j \in DOMAIN u.entries : FirstOf(u, k, j)
    BY <1>1, RowsHaveFirsts
  <1>4. \A l \in DOMAIN t.entries : u.entries[l].label = t.entries[l].label /\ Ledger(u, l) = Ledger(t, l)
    BY DEF EditOf, Ledger
  <1>5. /\ Good(t, i) /\ Ledger(t, i) = k /\ Good(u, j) /\ Ledger(u, j) = k
        /\ (Good(u, i) /\ Ledger(u, i) = k => j <= i) /\ (Good(t, j) /\ Ledger(t, j) = k => i <= j)
    BY <1>2, <1>3, Zenon DEF FirstOf
  <1>6. Ledger(t, j) = k /\ Ledger(u, i) = k /\ t.entries[i].label # 0 /\ t.entries[j].label # 0
    BY <1>1, <1>2, <1>3, <1>4, <1>5 DEF Good
  <1>7. (u.entries[i].value >= 10 => j <= i) /\ (t.entries[j].value >= 10 => i <= j)
    BY <1>1, <1>2, <1>3, <1>4, <1>5, <1>6 DEF Good
  <1> QED BY <1>1, <1>2, <1>3, <1>6, <1>7

(* One amount is another: every other row is as it was.                       *)
LEMMA OneIsAltered ==
  ASSUME NEW t, Printed2(t), NEW at \in DOMAIN t.entries, NEW u, EditOf(t, "one", at, u)
  PROVE  UsualBut(T!RowsOf(t), T!RowsOf(u), 1, Ledger(t, at))
PROOF
  <1> DEFINE a == T!RowsOf(t)
             h == T!RowsOf(u)
  <1> SUFFICES ASSUME NEW k, k \in DOMAIN a.rows, k \in DOMAIN h.rows, k # Ledger(t, at)
               PROVE  h.rows[k] = 1 * a.rows[k]
    BY DEF UsualBut, Usual, T!Shared
  <1>1. PICK i, j \in DOMAIN t.entries :
           /\ FirstOf(t, k, i) /\ FirstOf(u, k, j) /\ Ledger(t, j) = k
           /\ (u.entries[i].value >= 10 => j <= i) /\ (t.entries[j].value >= 10 => i <= j)
    BY TheFirstsAre
  <1>2. /\ Good(t, i) /\ Good(u, j) /\ Ledger(t, i) = k
        /\ a.rows[k] = t.entries[i].value /\ h.rows[k] = u.entries[j].value
    BY <1>1 DEF FirstOf
  <1>3. i # at /\ j # at
    BY <1>1, <1>2
  <1>4. \A l \in DOMAIN t.entries : l # at => u.entries[l].value = t.entries[l].value
    BY DEF EditOf, NewValue
  <1>5. u.entries[i].value = t.entries[i].value /\ u.entries[j].value = t.entries[j].value
    BY <1>3, <1>4
  <1>6. t.entries[i].value >= 10 /\ u.entries[j].value >= 10
    BY <1>2 DEF Good
  <1>7. i \in Nat /\ j \in Nat /\ t.entries[i].value \in Int
    BY DEF Printed2, IsList, IsEntry
  <1>8. i = j
    BY <1>1, <1>5, <1>6, <1>7
  <1> DEFINE x == a.rows[k]
             y == h.rows[k]
  <1>9. x = y /\ x \in Int
    BY <1>2, <1>5, <1>7, <1>8
  <1> HIDE DEF x, y
  <1> QED BY <1>9 DEF x, y

(* H is printed in tenths of the unit but for one amount: a row is ten times  *)
(* what it was, or off.                                                       *)
LEMMA UnitIsAltered ==
  ASSUME NEW t, Printed2(t), NEW at \in DOMAIN t.entries, NEW u, EditOf(t, "unit", at, u),
         NEW k, k \in DOMAIN T!RowsOf(t).rows, k \in DOMAIN T!RowsOf(u).rows
  PROVE  \/ T!RowsOf(u).rows[k] = 10 * T!RowsOf(t).rows[k]
         \/ Gap(T!RowsOf(t).rows[k] * 10, T!RowsOf(u).rows[k] * 1)
PROOF
  <1> DEFINE x == T!RowsOf(t).rows[k]
             y == T!RowsOf(u).rows[k]
  <1>1. PICK i, j \in DOMAIN t.entries :
           /\ FirstOf(t, k, i) /\ FirstOf(u, k, j)
           /\ (u.entries[i].value >= 10 => j <= i) /\ (t.entries[j].value >= 10 => i <= j)
    BY TheFirstsAre
  <1> DEFINE v == t.entries[i].value
             w == t.entries[j].value
  <1>2. Good(t, i) /\ Good(u, j) /\ x = v /\ y = u.entries[j].value
    BY <1>1 DEF FirstOf
  <1>3. \A l \in DOMAIN t.entries : u.entries[l].value = IF l = at THEN t.entries[l].value + 7 ELSE t.entries[l].value * 10
    BY DEF EditOf, NewValue
  <1>4. i \in Nat /\ j \in Nat /\ v \in Int /\ w \in Int /\ v >= 10 /\ u.entries[j].value >= 10
    BY <1>2 DEF Printed2, IsList, IsEntry, Good
  <1>5. y = (IF j = at THEN w + 7 ELSE w * 10) /\ u.entries[i].value = (IF i = at THEN v + 7 ELSE v * 10)
    BY <1>2, <1>3
  <1>6. y >= 10 /\ u.entries[i].value >= 10
    BY <1>2, <1>4, <1>5
  <1>7. j <= i /\ (w >= 10 => i <= j)
    BY <1>1, <1>6
  <1>8. i = j => v = w
    OBVIOUS
  <1> HIDE DEF x, y, v, w
  <1>9. CASE i = j
    <2>1. y = v + 7 \/ y = 10 * v
      BY <1>4, <1>5, <1>8, <1>9
    <2> QED BY <1>2, <1>4, <2>1 DEF Gap, x, y
  <1>10. CASE i # j
    <2>1. w < 10 /\ y <= 90
      BY <1>4, <1>5, <1>6, <1>7, <1>10
    <2>2. 999 * (x * 10) > 1000 * (y * 1)
      BY <1>2, <1>4, <1>5, <1>6, <2>1
    <2> QED BY <2>2, Zenon DEF Gap, x, y
  <1> QED BY <1>9, <1>10

(* The rows that are off are told, the first three of them.                   *)
FewOf(n) == IF n < 3 THEN n ELSE 3
AreTold(told, off, permuted) ==
  /\ DOMAIN told = 1 .. Len(told) /\ Len(told) = FewOf(Cardinality(off))
  /\ \A i \in DOMAIN told : told[i].key \in off /\ (told[i].detail <=> permuted /\ i > 1)
  /\ Cardinality(off) <= 3 => off = {told[i].key : i \in DOMAIN told}

LEMMA FirstThree ==
  ASSUME NEW s, Proper(s)
  PROVE  LET t == T!FirstFew(s, 3)
         IN  Len(t) = FewOf(Len(s)) /\ DOMAIN t = 1 .. Len(t) /\ \A i \in DOMAIN t : i \in 1 .. Len(s) /\ t[i] = s[i]
PROOF
  <1> DEFINE l == Len(s)
             m == FewOf(l)
             S == ElementsOf(s)
  <1>1. m \in Nat /\ m <= l /\ l \in Nat
    BY DEF Proper, FewOf
  <1>2. T!FirstFew(s, 3) = SubSeq(s, 1, m)
    BY DEF T!FirstFew, FewOf
  <1>3. s \in Seq(S) /\ Len(s) = l
    BY ProperListsAreSequences DEF ElementsOf
  <1> HIDE DEF m, S, l
  <1>4. SubSeq(s, 1, m) = [i \in 1 .. m |-> s[i]]
    BY <1>1, <1>3
  <1> DEFINE f == [i \in 1 .. m |-> s[i]]
  <1>5. Len(f) = m /\ DOMAIN f = 1 .. m /\ \A i \in 1 .. m : f[i] = s[i] /\ i \in 1 .. l
    BY <1>1
  <1> HIDE DEF f
  <1>6. T!FirstFew(s, 3) = f
    BY <1>2, <1>4 DEF f
  <1> QED BY <1>5, <1>6 DEF m, l

LEMMA TheOffAreTold ==
  ASSUME NEW a, NEW h, NEW off, IsFiniteSet(off), \A k \in off : k \in Int \X Int, NEW permuted, NEW at
  PROVE  AreTold(T!FirstFew(<<>> \o T!Telling(a, h, permuted, T!InPlace(off), at), 3), off, permuted)
PROOF
  <1> DEFINE Ord == {o \in off \X off : InListOrder(o[1], o[2])}
             keys == T!InPlace(off)
             n == Cardinality(off)
             s == T!Telling(a, h, permuted, keys, at)
             told == T!FirstFew(s, 3)
  <1>1. keys = Listed(off, Ord)
    BY SameListings, Zenon DEF InPlace
  <1>2. ASSUME NEW p \in off, NEW q \in off PROVE <<p, q>> \in Ord <=> InListOrder(p, q)
    <2> DEFINE o == <<p, q>>
    <2>1. o \in off \X off /\ o[1] = p /\ o[2] = q
      OBVIOUS
    <2> HIDE DEF o
    <2>2. o \in Ord <=> InListOrder(o[1], o[2])
      BY <2>1
    <2> QED BY <2>1, <2>2 DEF o
  <1> HIDE DEF Ord
  <1>3. IsOrder(Ord, off) /\ IsTotal(Ord, off)
    <2>1. \A p, q, r \in off : /\ ~InListOrder(p, p)
                               /\ InListOrder(p, q) /\ InListOrder(q, r) => InListOrder(p, r)
                               /\ p = q \/ InListOrder(p, q) \/ InListOrder(q, p)
      BY PositionsCompare
    <2>2. IsOrder(Ord, off)
      BY <1>2, <2>1 DEF IsOrder
    <2>3. IsTotal(Ord, off)
      BY <1>2, <2>1 DEF IsTotal
    <2> QED BY <2>2, <2>3
  <1>4. /\ n \in Nat /\ keys = [k \in 1 .. n |-> keys[k]] /\ \A k \in 1 .. n : keys[k] \in off
        /\ \A p \in off : \E k \in 1 .. n : keys[k] = p
    <2> HIDE DEF keys
    <2> DEFINE list == Listed(off, Ord)
    <2>1. /\ n \in Nat /\ list = [k \in 1 .. n |-> list[k]] /\ \A k \in 1 .. n : list[k] \in off
          /\ \A p \in off : \E k \in 1 .. n : list[k] = p
      BY <1>3, ListedInOrder
    <2> QED BY <1>1, <2>1
  <1> HIDE DEF keys, n
  <1>5. /\ DOMAIN s = 1 .. n /\ Proper(s) /\ Len(s) = n
        /\ \A k \in 1 .. n : s[k].key = keys[k] /\ s[k].detail = (permuted /\ k > 1)
    <2>1. DOMAIN keys = 1 .. n
      BY <1>4
    <2> DEFINE Sev(k) == IF T!Below(a.rows[keys[k]], h.rows[keys[k]], 5, 100) THEN "medium" ELSE "high"
               f == [k \in DOMAIN keys |-> [key |-> keys[k], tables |-> at, group |-> permuted,
                                            detail |-> permuted /\ k > 1, severity |-> Sev(k)]]
    <2>2. s = f
      BY Zenon DEF T!Telling
    <2> HIDE DEF Sev, s
    <2>3. DOMAIN f = 1 .. n /\ f = [k \in 1 .. n |-> f[k]]
      BY <2>1
    <2>4. \A k \in 1 .. n : f[k].key = keys[k] /\ f[k].detail = (permuted /\ k > 1)
      BY <2>1
    <2> HIDE DEF f
    <2>5. Len(f) = n
      BY <1>4, <2>3
    <2> QED BY <1>4, <2>2, <2>3, <2>4, <2>5 DEF Proper
  <1> HIDE DEF s
  <1>6. <<>> \o s = s
    BY <1>5, JoinedToNothing
  <1>7. Len(told) = FewOf(n) /\ DOMAIN told = 1 .. Len(told) /\ \A i \in DOMAIN told : i \in 1 .. n /\ told[i] = s[i]
    BY <1>5, FirstThree
  <1> HIDE DEF told
  <1>8. \A i \in DOMAIN told : told[i].key = keys[i] /\ told[i].key \in off /\ (told[i].detail <=> permuted /\ i > 1)
    <2> TAKE i \in DOMAIN told
    <2>1. i \in 1 .. n /\ told[i] = s[i]
      BY <1>7
    <2>2. s[i].key = keys[i] /\ s[i].detail = (permuted /\ i > 1) /\ keys[i] \in off
      BY <1>4, <1>5, <2>1
    <2>3. told[i].key = keys[i] /\ told[i].key \in off
      BY <2>1, <2>2
    <2>4. told[i].detail <=> permuted /\ i > 1
      BY <2>1, <2>2, Zenon
    <2> QED BY <2>3, <2>4
  <1>9. ASSUME n <= 3 PROVE off = {told[i].key : i \in DOMAIN told}
    <2>1. DOMAIN told = 1 .. n
      BY <1>4, <1>7, <1>9 DEF FewOf
    <2> QED BY <1>4, <1>8, <2>1
  <1>10. AreTold(told, off, permuted)
    BY <1>7, <1>8, <1>9 DEF AreTold, n
  <1> QED BY <1>6, <1>10 DEF told, s, keys

(* Two versions of one table that pair.                                       *)
Single(s, a) == IsList(s) /\ Len(s) = 1 /\ s[1] = a

LEMMA OneTableIsTold ==
  ASSUME NEW s, NEW a, Single(s, a), NEW r, NEW h, Single(r, h), Whole(a), Whole(h), Placed2(a, h),
         IsFiniteSet(a.labels), h.labels = a.labels, Cardinality(a.labels) >= 3,
         Cardinality(T!Shared(a, h)) >= 4, NEW up, T!Verdict(a, h).pairs,
         NEW off, T!Verdict(a, h).off = off, off \subseteq T!Shared(a, h)
  PROVE  AreTold(T!TwinTables(s, r, up).told, off, T!Verdict(a, h).permuted)
PROOF
  <1> DEFINE v == T!Verdict(a, h)
             fit == T!Fitting(a, r, {})
             j == T!Likest(a, r, fit, up)
             acc == T!NoTables
             one == 1
  <1>1. PICK g : /\ g[0] = T!NoTables
                 /\ \A k \in 1 .. Len(s) : g[k] = T!Turn(s, r, up, g[k - 1], k)
                 /\ T!TwinTables(s, r, up) = g[Len(s)]
    <2>1. Len(s) \in Nat
      BY DEF Single
    <2> QED BY <2>1, TwinsFollow
  <1>2. T!TwinTables(s, r, up) = T!Turn(s, r, up, acc, 1)
    <2>1. Len(s) = 1 /\ 1 \in 1 .. 1 /\ 1 - 1 = 0
      BY DEF Single
    <2> QED BY <1>1, <2>1
  <1>3. DOMAIN r = {1} /\ r[1] = h /\ s[1] = a
    BY DEF Single, IsList
  <1>4. T!Enough(a, h) /\ T!Alike(a, h) >= 3
    <2> DEFINE c == Cardinality(a.labels)
               n == Cardinality(T!Shared(a, h))
    <2>1. a.labels \intersect h.labels = a.labels /\ a.labels \union h.labels = a.labels
      OBVIOUS
    <2>2. c \in Nat /\ n \in Nat
      BY OffIsFinite, FS_CardinalityType
    <2>3. T!Alike(a, h) = c
      BY <2>1, SameOperators DEF T!Alike
    <2>4. T!Enough(a, h) <=> n >= 3 /\ 10 * c >= 6 * c
      BY <2>1, SameOperators DEF T!Enough
    <2> HIDE DEF c, n
    <2>5. 10 * c >= 6 * c /\ n >= 3 /\ c >= 3
      BY <2>2 DEF c, n
    <2> QED BY <2>3, <2>4, <2>5
  <1>5. fit = {1}
    <2> HIDE DEF v
    <2> QED BY <1>3, <1>4 DEF T!Fitting
  <1>6. j = 1
    <2> HIDE DEF fit
    <2>1. LabelsAreFew(r)
      BY <1>3 DEF LabelsAreFew, Single
    <2>2. fit \in SUBSET (1 .. Len(r)) /\ fit # {}
      BY <1>5 DEF Single
    <2>3. j \in fit
      BY <2>1, <2>2, LikestIsOneOfThem
    <2> QED BY <1>5, <2>3
  <1>7. acc.used = {} /\ acc.told = <<>>
    BY DEF T!NoTables
  <1> HIDE DEF acc, j, fit
  <1>8. ~(Len(acc.told) >= 3) /\ fit # {}
    BY <1>5, <1>7
  <1>9. T!Turn(s, r, up, acc, 1) = T!JoinLikest(acc, 1, a, r, 1)
    <2>1. T!Turn(s, r, up, acc, 1) = T!TakeTable(acc, 1, a, r, fit, up)
      BY <1>3, <1>7 DEF T!Turn, fit
    <2>2. T!TakeTable(acc, 1, a, r, fit, up) = T!JoinLikest(acc, 1, a, r, j)
      BY <1>8, Zenon DEF T!TakeTable, j
    <2> QED BY <1>6, <2>1, <2>2
  <1>10. T!JoinLikest(acc, 1, a, r, 1) = T!JoinTables(acc, 1, 1, a, h, v)
    BY <1>3 DEF T!JoinLikest
  <1> HIDE DEF v
  <1>11. T!JoinTables(acc, 1, 1, a, h, v).told = T!FirstFew(<<>> \o T!Telling(a, h, v.permuted, T!InPlace(off), <<1, 1>>), 3)
    BY <1>7 DEF T!JoinTables, v
  <1>12. IsFiniteSet(off) /\ \A k \in off : k \in Int \X Int
    <2>1. IsFiniteSet(T!Shared(a, h)) /\ off \in SUBSET T!Shared(a, h)
      BY OffIsFinite
    <2> QED BY <2>1, FS_Subset DEF Placed2
  <1> DEFINE p == v.permuted
             x == <<1, 1>>
  <1>13. AreTold(T!FirstFew(<<>> \o T!Telling(a, h, p, T!InPlace(off), x), 3), off, p)
    <2> HIDE DEF p, x
    <2> QED BY <1>12, TheOffAreTold
  <1> QED BY <1>2, <1>9, <1>10, <1>11, <1>13 DEF v

(* What the pair of tables is found to be.                                    *)
LEMMA FourCarry ==
  ASSUME NEW n \in Nat, n >= 4, NEW l \in Nat, l <= 1
  PROVE  (n - l) * 4 >= 3 * n
PROOF BY SMT

LEMMA TheOddIsPaired ==
  ASSUME NEW a, Whole(a), NEW h, Whole(h), Placed2(a, h),
         NEW n \in Nat, Cardinality(T!Shared(a, h)) = n, n >= 4,
         NEW c \in {1, 10}, NEW z, UsualBut(a, h, c, z)
  PROVE  LET v == T!Verdict(a, h)
         IN  v.pairs /\ ~v.permuted /\ v.off = T!Off(a, h, <<1, c>>) /\ Cardinality(v.off) <= 1
PROOF
  <1> DEFINE odd == T!Off(a, h, <<1, c>>)
             f == T!BestFactor(a, h)
             off == T!Off(a, h, f)
             l == Cardinality(odd)
  <1>1. off = odd /\ l <= 1
    BY OnlyTheOddIsOff
  <1>2. l \in Nat
    BY OffIsFinite, FS_CardinalityType
  <1>3. T!Verdict(a, h) = T!Judged(a, h, odd)
    BY <1>1 DEF T!Verdict
  <1> HIDE DEF odd, l, off
  <1>4. (n - l) * 4 >= 3 * n
    BY <1>1, <1>2, FourCarry
  <1>5. T!Anchored(T!Shared(a, h), odd)
    <2>1. T!Anchored(T!Shared(a, h), odd) <=> (n - l) * 4 >= 3 * n
      BY SameOperators DEF T!Anchored, l
    <2> QED BY <1>4, <2>1
  <1>6. T!Judged(a, h, odd) = [pairs |-> T!Cardinality(odd) <= 1, permuted |-> FALSE, off |-> odd]
    BY <1>5, Zenon DEF T!Judged
  <1>7. T!Cardinality(odd) = l
    BY SameOperators DEF l
  <1> DEFINE v == T!Verdict(a, h)
             b == T!Cardinality(odd) <= 1
  <1>8. v = [pairs |-> b, permuted |-> FALSE, off |-> odd]
    BY <1>3, <1>6
  <1>9. b
    BY <1>1, <1>7
  <1> HIDE DEF v, b
  <1>10. v.pairs /\ ~v.permuted /\ v.off = odd
    BY <1>8, <1>9
  <1> QED BY <1>1, <1>10 DEF odd, l, v

FactorsOf(a, h) == {<<1, 1>>, <<10, 1>>} \union {<<a.rows[k], h.rows[k]>> : k \in DOMAIN a.rows}

LEMMA TheMovedArePaired ==
  ASSUME NEW a, Whole(a), NEW h, Whole(h), Placed2(a, h),
         NEW n \in Nat, Cardinality(T!Shared(a, h)) = n, n >= 4, T!Permuted(a, h),
         \A f \in FactorsOf(a, h) : ~T!Anchored(T!Shared(a, h), T!Off(a, h, f))
  PROVE  LET v == T!Verdict(a, h)
         IN  v.pairs /\ v.permuted /\ v.off = T!Off(a, h, <<1, 1>>)
PROOF
  <1>1. PICK m \in T!Shared(a, h) : T!BestFactor(a, h) = T!FewestOff(a, h, Tried(a, h, m))
    BY TheMedianIsARow
  <1> DEFINE last == <<a.rows[m], h.rows[m]>>
             tried == Tried(a, h, m)
             best == T!BestFactor(a, h)
  <1>2. DOMAIN tried = 1 .. 3 /\ tried[1] = <<1, 1>> /\ tried[2] = <<10, 1>> /\ tried[3] = last
    <2> HIDE DEF last
    <2>1. tried = Append(<<<<1, 1>>, <<10, 1>>>>, last)
      BY DEF Tried, last
    <2> QED BY <2>1
  <1>3. last \in FactorsOf(a, h) /\ <<1, 1>> \in FactorsOf(a, h) /\ <<10, 1>> \in FactorsOf(a, h)
    BY <1>1 DEF FactorsOf, T!Shared
  <1> HIDE DEF last, tried
  <1>4. \E i \in 1 .. 3 : HasFewestOff(a, h, tried, i, 3)
    <2> DEFINE l == 3
    <2>1. l \in Nat /\ l # 0 /\ DOMAIN tried = 1 .. l
      BY <1>2
    <2> HIDE DEF l
    <2>2. \E i \in 1 .. l : HasFewestOff(a, h, tried, i, l)
      BY <2>1, BestHasFewestOff
    <2> QED BY <2>2 DEF l
  <1>5. PICK i \in 1 .. 3 : HasFewestOff(a, h, tried, i, 3)
    BY <1>4
  <1>6. best = tried[i]
    BY <1>1, <1>5 DEF HasFewestOff, tried
  <1>7. i = 1 \/ i = 2 \/ i = 3
    BY <1>5
  <1> HIDE DEF best
  <1>8. best \in FactorsOf(a, h)
    BY <1>2, <1>3, <1>6, <1>7, Zenon
  <1>9. ~T!Anchored(T!Shared(a, h), T!Off(a, h, best))
    BY <1>8
  <1>10. T!Verdict(a, h) = T!Judged(a, h, T!Off(a, h, best))
    BY DEF T!Verdict, best
  <1>11. T!Judged(a, h, T!Off(a, h, best)) = [pairs |-> T!Permuted(a, h), permuted |-> TRUE, off |-> T!Off(a, h, T!One)]
    BY <1>9, Zenon DEF T!Judged
  <1> QED BY <1>10, <1>11 DEF T!One

(* A document with one table.                                                 *)
LEMMA RowedAlone ==
  ASSUME NEW s, IsList(s), Len(s) = 1, T!RowsOf(s[1]).rows # <<>>
  PROVE  Single(T!Rowed(s), T!RowsOf(s[1]))
PROOF
  <1> DEFINE all == [i \in DOMAIN s |-> T!RowsOf(s[i])]
             places == {i \in DOMAIN all : all[i].rows # <<>>}
             t == Picked(all, places)
             n == 1
  <1>1. DOMAIN s = 1 .. n /\ n \in Nat /\ DOMAIN s = {1}
    BY DEF IsList
  <1>2. T!Rowed(s) = t
    BY SameOperators DEF T!Rowed
  <1>3. places \in SUBSET (1 .. n) /\ places = {1} /\ all[1] = T!RowsOf(s[1])
    BY <1>1
  <1> HIDE DEF all, places, n
  <1>4. PICK at : IsPick(t, all, places, at)
    BY <1>1, <1>3, PickedInPlace
  <1> HIDE DEF t
  <1>5. Len(t) = 1
    BY <1>3, <1>4, FS_Singleton DEF IsPick
  <1>6. t[1] = all[1]
    <2>1. 1 \in 1 .. Len(t)
      BY <1>5
    <2>2. at[1] \in places /\ t[1] = all[at[1]]
      BY <1>4, <2>1 DEF IsPick
    <2> QED BY <1>3, <2>2
  <1>7. IsList(t)
    BY <1>4, ProperIsAList DEF IsPick
  <1> QED BY <1>2, <1>3, <1>5, <1>6, <1>7 DEF Single

(* The property of one pair of tables.                                        *)
Told3(told, s) == Len(told) = Cardinality(s) /\ s = {told[i].key : i \in DOMAIN told}
ManyRows(a, h) == Cardinality(DOMAIN a.rows) >= 4 /\ DOMAIN h.rows = DOMAIN a.rows /\ Cardinality(a.labels) >= 3
RowsTold(told, a, h, edit) ==
  LET off == T!Off(a, h, <<1, 1>>)
      odd == T!Off(a, h, <<1, 10>>)
  IN /\ edit = "one" => Told3(told, off)
     /\ edit = "unit" /\ Cardinality(odd) <= 1 => Told3(told, odd)
     /\ edit = "rotate" /\ T!Permuted(a, h) /\ (\A f \in FactorsOf(a, h) : ~T!Anchored(DOMAIN a.rows, T!Off(a, h, f))) =>
          /\ Len(told) = FewOf(Cardinality(off))
          /\ \A i \in DOMAIN told : told[i].key \in off /\ (told[i].detail <=> i > 1)

LEMMA OneIsTold ==
  ASSUME NEW told, NEW off, IsFiniteSet(off), Cardinality(off) <= 1, NEW permuted, AreTold(told, off, permuted)
  PROVE  Told3(told, off)
PROOF
  <1> DEFINE n == Cardinality(off)
             l == Len(told)
  <1>1. n \in Nat /\ n <= 1
    BY FS_CardinalityType
  <1>2. l = FewOf(n) /\ (n <= 3 => off = {told[i].key : i \in DOMAIN told})
    BY Zenon DEF AreTold
  <1> HIDE DEF n, l
  <1>3. l = n /\ n <= 3
    BY <1>1, <1>2 DEF FewOf
  <1> QED BY <1>2, <1>3, Zenon DEF Told3, n, l

LEMMA PairOfTables ==
  ASSUME NEW s, IsList(s), Len(s) = 1, NEW r, IsList(r), Len(r) = 1, Printed2(s[1]), NEW edit, NEW at \in DOMAIN s[1].entries,
         EditOf(s[1], edit, at, r[1]), NEW up
  PROVE  LET a == T!RowsOf(s[1]) h == T!RowsOf(r[1])
         IN  ManyRows(a, h) => RowsTold(T!TwinTables(T!Rowed(s), T!Rowed(r), up).told, a, h, edit)
PROOF
  <1> DEFINE t == s[1]
             u == r[1]
             a == T!RowsOf(t)
             h == T!RowsOf(u)
             told == T!TwinTables(T!Rowed(s), T!Rowed(r), up).told
             n == Cardinality(DOMAIN a.rows)
             v == T!Verdict(a, h)
             keys == T!Shared(a, h)
  <1> SUFFICES ASSUME ManyRows(a, h) PROVE RowsTold(told, a, h, edit)
    OBVIOUS
  <1>1. Printed2(t) /\ Printed2(u)
    BY DEF EditOf
  <1>2. \A x : Printed2(x) => Counted(x) /\ HasEntries(x)
    BY DEF Printed2, Counted, HasEntries, IsEntry
  <1>3. Whole(a) /\ Whole(h) /\ IsFiniteSet(a.labels) /\ h.labels = a.labels
    <2>1. Whole(a) /\ Whole(h) /\ IsFiniteSet(a.labels)
      BY <1>1, <1>2, RowsAreWhole, LabelsOfRows
    <2>2. h.labels = a.labels
      BY EditsKeepLabels
    <2> QED BY <2>1, <2>2
  <1>4. keys = DOMAIN a.rows /\ DOMAIN h.rows = DOMAIN a.rows /\ n \in Nat /\ n >= 4 /\ Cardinality(a.labels) >= 3
    BY <1>3, FS_CardinalityType DEF ManyRows, T!Shared, Whole
  <1>5. a.rows # <<>> /\ h.rows # <<>>
    <2>1. DOMAIN <<>> = {}
      OBVIOUS
    <2>2. DOMAIN a.rows # {}
      BY <1>4, FS_EmptySet
    <2> QED BY <1>4, <2>1, <2>2
  <1>6. Single(T!Rowed(s), a) /\ Single(T!Rowed(r), h)
    BY <1>5, RowedAlone
  <1>7. Placed2(a, h)
    <2> SUFFICES ASSUME NEW k \in DOMAIN a.rows PROVE k \in Int \X Int
      BY <1>4 DEF Placed2
    <2>1. PICK i \in DOMAIN t.entries : FirstOf(t, k, i)
      BY <1>1, RowsHaveFirsts
    <2>2. Ledger(t, i) = k
      BY <2>1, Zenon DEF FirstOf
    <2>3. t.entries[i].label \in Int /\ t.entries[i].column \in Int
      BY <1>1 DEF Printed2, IsEntry
    <2> QED BY <2>2, <2>3 DEF Ledger
  <1> HIDE DEF a, h, keys, n, told
  <1>8. ASSUME v.pairs, NEW off, v.off = off, off \subseteq keys PROVE AreTold(told, off, v.permuted)
    <2>1. Cardinality(keys) >= 4
      BY <1>4 DEF n
    <2> QED BY <1>3, <1>4, <1>6, <1>7, <1>8, <2>1, OneTableIsTold DEF told, keys
  <1>9. \A f : IsFiniteSet(keys) /\ IsFiniteSet(T!Off(a, h, f)) /\ T!Off(a, h, f) \subseteq keys
    BY <1>3, OffIsFinite DEF keys
  <1>10. Cardinality(T!Shared(a, h)) = n
    BY <1>4 DEF n, keys
  <1> DEFINE off == T!Off(a, h, <<1, 1>>)
             odd == T!Off(a, h, <<1, 10>>)
  <1>11. ASSUME NEW c \in {1, 10}, NEW z, UsualBut(a, h, c, z) PROVE Told3(told, T!Off(a, h, <<1, c>>))
    <2> DEFINE x == T!Off(a, h, <<1, c>>)
    <2>1. v.pairs /\ ~v.permuted /\ v.off = x /\ Cardinality(x) <= 1
      BY <1>3, <1>4, <1>7, <1>10, <1>11, TheOddIsPaired
    <2>2. IsFiniteSet(x) /\ x \subseteq keys
      BY <1>9
    <2> HIDE DEF x, v
    <2>3. AreTold(told, x, v.permuted)
      BY <1>8, <2>1, <2>2
    <2>4. Told3(told, x)
      BY <2>1, <2>2, <2>3, OneIsTold
    <2> QED BY <2>4 DEF x
  <1>12. edit = "one" => Told3(told, off)
    <2> HAVE edit = "one"
    <2>1. EditOf(t, "one", at, u)
      OBVIOUS
    <2>2. UsualBut(a, h, 1, Ledger(t, at))
      BY <1>1, <2>1, OneIsAltered DEF a, h
    <2> QED BY <1>11, <2>2
  <1>13. edit = "unit" /\ Cardinality(odd) <= 1 => Told3(told, odd)
    <2> HAVE edit = "unit" /\ Cardinality(odd) <= 1
    <2>1. EditOf(t, "unit", at, u)
      OBVIOUS
    <2>2. PICK z : odd \subseteq {z}
      <3>1. odd \in SUBSET keys /\ IsFiniteSet(keys) /\ Cardinality(keys) = n /\ n \in Nat /\ n >= 4
        BY <1>4, <1>9, <1>10 DEF keys
      <3> HIDE DEF odd
      <3>2. Cardinality(odd) <= 1 => \E y : odd \subseteq {y}
        BY <3>1, OneTooFew
      <3> QED BY <3>2
    <2>3. ASSUME NEW k \in keys, k # z PROVE h.rows[k] = 10 * a.rows[k]
      <3>1. k \in DOMAIN T!RowsOf(t).rows /\ k \in DOMAIN T!RowsOf(u).rows
        BY <1>4 DEF a, h
      <3>2. h.rows[k] = 10 * a.rows[k] \/ Gap(a.rows[k] * 10, h.rows[k] * 1)
        BY <1>1, <2>1, <3>1, UnitIsAltered DEF a, h
      <3>3. k \notin odd
        BY <2>2, <2>3
      <3> DEFINE one == 1
                 ten == 10
      <3>4. one \in Nat /\ ten \in Nat
        OBVIOUS
      <3> HIDE DEF one, ten
      <3>5. k \in T!Off(a, h, <<one, ten>>) <=> k \in T!Shared(a, h) /\ Gap(a.rows[k] * ten, h.rows[k] * one)
        BY <1>3, <3>4, OffIsAGap
      <3> QED BY <3>2, <3>3, <3>5 DEF one, ten, keys
    <2>4. UsualBut(a, h, 10, z)
      BY <2>3 DEF UsualBut, Usual, keys
    <2> QED BY <1>11, <2>4
  <1>14. ASSUME edit = "rotate", T!Permuted(a, h), \A f \in FactorsOf(a, h) : ~T!Anchored(DOMAIN a.rows, T!Off(a, h, f))
         PROVE  /\ Len(told) = FewOf(Cardinality(off))
                /\ \A i \in DOMAIN told : told[i].key \in off /\ (told[i].detail <=> i > 1)
    <2>1. \A f \in FactorsOf(a, h) : ~T!Anchored(T!Shared(a, h), T!Off(a, h, f))
      BY <1>4, <1>14 DEF keys
    <2>2. v.pairs /\ v.permuted /\ v.off = off
      BY <1>3, <1>4, <1>7, <1>10, <1>14, <2>1, TheMovedArePaired
    <2>3. off \subseteq keys
      BY <1>9
    <2> HIDE DEF v, off
    <2>4. AreTold(told, off, v.permuted)
      BY <1>8, <2>2, <2>3
    <2> QED BY <2>2, <2>4, Zenon DEF AreTold
  <1> HIDE DEF off, odd
  <1> QED BY <1>12, <1>13, <1>14, Zenon DEF RowsTold, off, odd

LEMMA RowIsTold ==
  ASSUME RunRows
  PROVE  RowAlterationIsTold'
PROOF
  <1> DEFINE a == T!RowsOf(input'.as[1])
             h == T!RowsOf(input'.hs[1])
  <1>1. RowAlterationIsTold' <=>
          (check' = "rows" /\ Len(input'.as) = 1 => (ManyRows(a, h) => RowsTold(found'.told, a, h, input'.edit)))
    BY Zenon DEF RowAlterationIsTold, ManyRows, RowsTold, Told3, FactorsOf, FewOf
  <1> SUFFICES ASSUME Len(input'.as) = 1 PROVE ManyRows(a, h) => RowsTold(found'.told, a, h, input'.edit)
    BY <1>1
  <1>2. PICK as, edit, up, t, at :
          /\ as \in TableSides /\ t \in DOMAIN as /\ at \in DOMAIN as[t].entries
          /\ input' = [as |-> as, hs |-> [as EXCEPT ![t] = Edited(as[t], edit, at)], edit |-> edit,
                       table |-> t, at |-> at, up |-> up]
    BY Zenon DEF RunRows
  <1> DEFINE new == Edited(as[t], edit, at)
             hs == [as EXCEPT ![t] = new]
  <1>3. input'.as = as /\ input'.hs = hs /\ input'.up = up /\ input'.edit = edit
    <2> HIDE DEF hs
    <2> QED BY <1>2 DEF hs
  <1>4. IsList(as) /\ \A i \in DOMAIN as : Printed2(as[i])
    BY <1>2, RowsAssumption, Zenon DEF RowsAssumption, Printed2
  <1>5. Len(as) = 1
    BY <1>3
  <1>6. t = 1 /\ DOMAIN as = {1}
    BY <1>2, <1>4, <1>5 DEF IsList
  <1>7. Printed2(as[1]) /\ at \in DOMAIN as[1].entries
    BY <1>2, <1>4, <1>6
  <1>8. EditOf(as[1], edit, at, new)
    BY <1>6, <1>7, EditsAreEdits
  <1> HIDE DEF new
  <1>9. IsList(hs) /\ Len(hs) = 1 /\ hs[1] = new
    <2> DEFINE f == [i \in {1} |-> new]
    <2>1. hs = f
      BY <1>6
    <2>2. DOMAIN f = 1 .. 1 /\ f[1] = new
      OBVIOUS
    <2>3. Len(f) = 1
      BY <2>2
    <2> HIDE DEF f, hs
    <2> QED BY <2>1, <2>2, <2>3 DEF IsList
  <1> HIDE DEF hs
  <1>10. found' = T!TwinTables(T!Rowed(as), T!Rowed(hs), up)
    <2>1. found' = T!RowTwins(input'.as, input'.hs, input'.up)
      BY DEF RunRows
    <2> QED BY <1>3, <2>1 DEF T!RowTwins
  <1>11. EditOf(as[1], edit, at, hs[1])
    BY <1>8, <1>9
  <1>12. ManyRows(T!RowsOf(as[1]), T!RowsOf(hs[1])) =>
           RowsTold(T!TwinTables(T!Rowed(as), T!Rowed(hs), up).told, T!RowsOf(as[1]), T!RowsOf(hs[1]), edit)
    BY <1>4, <1>5, <1>7, <1>9, <1>11, PairOfTables
  <1> QED BY <1>3, <1>10, <1>12, Zenon

(* One altered row of a table with four rows and three labels, in whatever    *)
(* unit H is printed, and amounts that all went to other rows, are told.      *)
THEOREM AlteredRowsAreTold == Spec => []RowAlterationIsTold
PROOF
  <1> DEFINE Ok == RowAlterationIsTold
  <1>1. Init => Ok
    BY DEF Init, RowAlterationIsTold
  <1>2. ASSUME Ok, [Next]_vars PROVE Ok'
    <2>1. CASE UNCHANGED vars
      BY <1>2, <2>1 DEF vars, RowAlterationIsTold
    <2>2. CASE Next
      <3>1. check' = "rows" => RunRows
        BY <2>2, EachCheckAsItRuns
      <3>2. CASE check' = "rows"
        BY <3>1, <3>2, RowIsTold
      <3>3. CASE check' # "rows"
        BY <3>3 DEF RowAlterationIsTold
      <3> QED BY <3>2, <3>3
    <2> QED BY <1>2, <2>1, <2>2
  <1> QED BY <1>1, <1>2, PTL DEF Spec

(* One alteration of a report is told by the check it is in the reach of:     *)
(* no candidate that explains another, tolerance, reconciliation, capped list *)
(* or answer of the model swallows it.                                        *)
THEOREM AlterationsAreTold == Spec => []AlterationIsTold
PROOF
  <1>1. AlterationIsTold <=>
          /\ NumericAlterationIsTold /\ MetricAlterationIsTold /\ VisibleAlterationIsTold
          /\ FactAlterationIsTold /\ ProfileAlterationIsTold /\ ReviewKeepsFindings
          /\ RowAlterationIsTold /\ BranchAlterationIsTold /\ PlaceAlterationIsTold
    BY Zenon DEF AlterationIsTold
  <1> QED BY <1>1, AlteredAmountsAreTold, AlteredMetricsAreTold, AlteredFactsAreTold, FindingsSurviveTheModel,
             AlteredRowsAreTold, BranchTablesAreJudgedRight, AlteredPlacesAreTold, PTL
=============================================================================
