------------------------------ MODULE Checks_proofs ------------------------------
(* Theorems about Checks, for every set of inputs and every answer of the     *)
(* model; and at the end, for Alterations_proofs, what metrics, tables, pages *)
(* and what is seen of them say beside an equal report.                       *)
EXTENDS Checks, WellFoundedInduction, FiniteSetTheorems, SequenceTheorems, TLAPS

-----------------------------------------------------------------------------
(* Induction on the natural numbers, as a fact about sets: a set of them that *)
(* is not empty has a least element, and one that has 0 and the successor of  *)
(* each of its elements has them all.                                         *)
Less == {p \in Nat \X Nat : p[1] < p[2]}

LEMMA LessIsWellFounded == IsWellFoundedOn(Less, Nat)
PROOF
  <1>1. OpToRel(<, Nat) = Less
    BY Zenon DEF OpToRel, Less
  <1> QED BY <1>1, NatLessThanWellFounded, Zenon

LEMMA LeastElement ==
  ASSUME NEW U \in SUBSET Nat, U # {}
  PROVE  \E x \in U : \A y \in U : x <= y
PROOF
  <1>1. PICK x \in U : \A y \in U : ~(<<y, x>> \in Less)
    BY LessIsWellFounded, WFMin
  <1>2. ASSUME NEW y \in U, y < x PROVE <<y, x>> \in Less
    <2> DEFINE p == <<y, x>>
    <2>1. p[1] = y /\ p[2] = x /\ p \in Nat \X Nat
      OBVIOUS
    <2> HIDE DEF p
    <2>2. p \in Less
      BY <1>2, <2>1 DEF Less
    <2> QED BY <2>2 DEF p
  <1>3. \A y \in U : ~(y < x)
    BY <1>1, <1>2, Zenon
  <1> QED BY <1>3

LEMMA EveryNumber ==
  ASSUME NEW S, 0 \in S, \A n \in Nat : n \in S => n + 1 \in S
  PROVE  Nat \subseteq S
PROOF
  <1> SUFFICES ASSUME NEW k \in Nat \ S PROVE FALSE
    OBVIOUS
  <1>1. PICK x \in Nat \ S : \A y \in Nat \ S : x <= y
    BY LeastElement
  <1>2. x # 0 /\ x - 1 \in Nat /\ ~(x <= x - 1)
    BY <1>1
  <1>3. x - 1 \in S
    BY <1>1, <1>2
  <1> QED BY <1>1, <1>2, <1>3

-----------------------------------------------------------------------------
(* A finite set G with a strict order Ord: the rank of an element is how many   *)
(* stand before it.                                                           *)
IsOrder(Ord, G) ==
  /\ \A x \in G : <<x, x>> \notin Ord
  /\ \A x, y, z \in G : <<x, y>> \in Ord /\ <<y, z>> \in Ord => <<x, z>> \in Ord
Earlier(Ord, G, x) == {y \in G : <<y, x>> \in Ord}
Rank(Ord, G, x) == Cardinality(Earlier(Ord, G, x))

LEMMA RankGrows ==
  ASSUME NEW G, IsFiniteSet(G), NEW Ord, IsOrder(Ord, G)
  PROVE  /\ Cardinality(G) \in Nat
         /\ \A x \in G : Rank(Ord, G, x) \in Nat /\ Rank(Ord, G, x) < Cardinality(G)
         /\ \A x, y \in G : <<x, y>> \in Ord => Rank(Ord, G, x) < Rank(Ord, G, y)
PROOF
  <1>1. Cardinality(G) \in Nat
    BY FS_CardinalityType
  <1>2. ASSUME NEW x \in G
        PROVE  /\ IsFiniteSet(Earlier(Ord, G, x))
               /\ Rank(Ord, G, x) \in Nat /\ Rank(Ord, G, x) < Cardinality(G)
    <2>1. Earlier(Ord, G, x) \in SUBSET G /\ x \notin Earlier(Ord, G, x)
      BY DEF Earlier, IsOrder
    <2>2. IsFiniteSet(Earlier(Ord, G, x)) /\ Rank(Ord, G, x) \in Nat
      BY <2>1, FS_Subset, FS_CardinalityType DEF Rank
    <2>3. Rank(Ord, G, x) <= Cardinality(G) /\ Rank(Ord, G, x) # Cardinality(G)
      BY <2>1, FS_Subset DEF Rank
    <2> QED BY <1>1, <2>2, <2>3
  <1>3. ASSUME NEW x \in G, NEW y \in G, <<x, y>> \in Ord
        PROVE  Rank(Ord, G, x) < Rank(Ord, G, y)
    <2>1. Earlier(Ord, G, x) \in SUBSET Earlier(Ord, G, y)
      BY <1>3 DEF Earlier, IsOrder
    <2>2. x \in Earlier(Ord, G, y) /\ x \notin Earlier(Ord, G, x)
      BY <1>3 DEF Earlier, IsOrder
    <2>3. IsFiniteSet(Earlier(Ord, G, y))
      BY <1>2
    <2>4. Rank(Ord, G, x) <= Rank(Ord, G, y) /\ Rank(Ord, G, x) # Rank(Ord, G, y)
      BY <2>1, <2>2, <2>3, FS_Subset DEF Rank
    <2> QED BY <1>2, <2>4
  <1> QED BY <1>1, <1>2, <1>3

(* Some element has none before it.                                           *)
LEMMA SomeoneIsFirst ==
  ASSUME NEW G, IsFiniteSet(G), G # {}, NEW Ord, IsOrder(Ord, G)
  PROVE  \E x \in G : \A y \in G : <<y, x>> \notin Ord
PROOF
  <1> DEFINE U == {Rank(Ord, G, x) : x \in G}
  <1>1. U \in SUBSET Nat /\ U # {}
    BY RankGrows
  <1>2. PICK n \in U : \A m \in U : n <= m
    BY <1>1, LeastElement
  <1>3. PICK x \in G : n = Rank(Ord, G, x)
    BY <1>2
  <1>4. ASSUME NEW y \in G, <<y, x>> \in Ord PROVE FALSE
    <2>1. Rank(Ord, G, y) < Rank(Ord, G, x) /\ Rank(Ord, G, y) \in Nat /\ Rank(Ord, G, x) \in Nat
      BY <1>4, RankGrows
    <2>2. Rank(Ord, G, x) <= Rank(Ord, G, y)
      BY <1>2, <1>3
    <2> QED BY <2>1, <2>2
  <1> QED BY <1>4

LEMMA NumbersBelow ==
  ASSUME NEW n \in Nat
  PROVE  IsFiniteSet(0..(n - 1)) /\ Cardinality(0..(n - 1)) = n
PROOF
  <1>1. n - 1 \in Int /\ 0 \in Int
    OBVIOUS
  <1>2. IsFiniteSet(0..(n - 1)) /\ Cardinality(0..(n - 1)) = IF 0 > n - 1 THEN 0 ELSE n - 1 - 0 + 1
    BY <1>1, FS_Interval
  <1> QED BY <1>2

IsTotal(Ord, G) == \A x, y \in G : x = y \/ <<x, y>> \in Ord \/ <<y, x>> \in Ord

(* When the order is total, every number below the size of G is a rank.       *)
LEMMA EveryRankIsTaken ==
  ASSUME NEW G, IsFiniteSet(G), NEW Ord, IsOrder(Ord, G), IsTotal(Ord, G), NEW n \in Nat, n < Cardinality(G)
  PROVE  \E x \in G : Rank(Ord, G, x) = n
PROOF
  <1> DEFINE c == Cardinality(G)
             rank == [x \in G |-> Rank(Ord, G, x)]
  <1>1. c \in Nat
    BY RankGrows
  <1>2. \A x \in G : rank[x] \in 0..(c - 1)
    BY <1>1, RankGrows
  <1>3. \A x, y \in G : rank[x] = rank[y] => x = y
    <2> TAKE x \in G, y \in G
    <2>1. x = y \/ rank[x] < rank[y] \/ rank[y] < rank[x]
      BY RankGrows DEF IsTotal
    <2>2. rank[x] \in Nat /\ rank[y] \in Nat
      BY <1>1, <1>2
    <2> QED BY <2>1, <2>2
  <1>4. IsFiniteSet(0..(c - 1)) /\ Cardinality(0..(c - 1)) = c
    BY <1>1, NumbersBelow
  <1>5. rank \in Injection(G, 0..(c - 1))
    BY <1>2, <1>3 DEF Injection, IsInjective
  <1>6. rank \in Surjection(G, 0..(c - 1))
    <2> HIDE DEF rank
    <2> QED BY <1>4, <1>5, FS_Injection
  <1>7. n \in 0..(c - 1)
    BY <1>1
  <1> QED BY <1>6, <1>7 DEF Surjection

(* A list has every element of its set, in the given order.                   *)
LEMMA ListedInOrder ==
  ASSUME NEW S, IsFiniteSet(S), NEW Ord, IsOrder(Ord, S), IsTotal(Ord, S)
  PROVE  LET s == Listed(S, Ord)
         IN  /\ Cardinality(S) \in Nat
             /\ s = [k \in 1 .. Cardinality(S) |-> s[k]]
             /\ \A k \in 1 .. Cardinality(S) : s[k] \in S
             /\ \A p \in S : \E k \in 1 .. Cardinality(S) : s[k] = p
             /\ \A p \in S : Rank(Ord, S, p) + 1 \in 1 .. Cardinality(S) /\ s[Rank(Ord, S, p) + 1] = p
             /\ \A k, l \in 1 .. Cardinality(S) : k < l => <<s[l], s[k]>> \notin Ord
             /\ \A k, l \in 1 .. Cardinality(S) : k < l => s[k] # s[l]
PROOF
  <1> DEFINE c == Cardinality(S)
             places == {<<Cardinality({q \in S : <<q, p>> \in Ord}) + 1, p>> : p \in S}
             s == [k \in 1 .. c |-> (CHOOSE place \in places : place[1] = k)[2]]
  <1>1. c \in Nat
    BY RankGrows
  <1>2. s = Listed(S, Ord)
    BY DEF Listed
  <1>3. places = {<<Rank(Ord, S, p) + 1, p>> : p \in S}
    BY DEF Rank, Earlier
  <1> HIDE DEF places
  <1>4. ASSUME NEW k \in 1 .. c PROVE s[k] \in S /\ Rank(Ord, S, s[k]) = k - 1
    <2>1. k - 1 \in Nat /\ k - 1 < c
      BY <1>1
    <2>2. PICK p \in S : Rank(Ord, S, p) = k - 1
      BY <2>1, EveryRankIsTaken
    <2> DEFINE t == <<Rank(Ord, S, p) + 1, p>>
    <2>3. t \in places /\ t[1] = k
      BY <1>3, <2>1, <2>2
    <2> HIDE DEF t
    <2> DEFINE d == CHOOSE place \in places : place[1] = k
    <2>4. d \in places /\ d[1] = k
      BY <2>3
    <2>5. s[k] = d[2]
      OBVIOUS
    <2> HIDE DEF d, s
    <2>6. PICK x \in S : d = <<Rank(Ord, S, x) + 1, x>>
      BY <1>3, <2>4
    <2>7. d[1] = Rank(Ord, S, x) + 1 /\ d[2] = x /\ Rank(Ord, S, x) \in Nat
      BY <2>6, RankGrows
    <2>8. Rank(Ord, S, x) = k - 1
      BY <1>1, <2>4, <2>7
    <2> QED BY <2>5, <2>7, <2>8
  <1> HIDE DEF s
  <1>5. ASSUME NEW p \in S PROVE Rank(Ord, S, p) + 1 \in 1 .. c /\ s[Rank(Ord, S, p) + 1] = p
    <2> DEFINE k == Rank(Ord, S, p) + 1
    <2>1. Rank(Ord, S, p) \in Nat /\ Rank(Ord, S, p) < c /\ k \in 1 .. c
      BY <1>1, RankGrows
    <2>2. s[k] \in S /\ Rank(Ord, S, s[k]) = Rank(Ord, S, p)
      BY <1>4, <2>1
    <2>3. s[k] = p
      <3>1. s[k] = p \/ Rank(Ord, S, s[k]) < Rank(Ord, S, p) \/ Rank(Ord, S, p) < Rank(Ord, S, s[k])
        BY <2>2, RankGrows DEF IsTotal
      <3> QED BY <2>1, <2>2, <3>1
    <2> QED BY <2>1, <2>3
  <1>6. ASSUME NEW k \in 1 .. c, NEW l \in 1 .. c, k < l, <<s[l], s[k]>> \in Ord PROVE FALSE
    <2>1. Rank(Ord, S, s[l]) < Rank(Ord, S, s[k])
      BY <1>4, <1>6, RankGrows
    <2> QED BY <1>1, <1>4, <1>6, <2>1
  <1>7. s = [k \in 1 .. c |-> s[k]]
    BY DEF s
  <1>8. ASSUME NEW k \in 1 .. c, NEW l \in 1 .. c, k < l PROVE s[k] # s[l]
    BY <1>1, <1>4, <1>8
  <1> QED BY <1>1, <1>2, <1>4, <1>5, <1>6, <1>7, <1>8

-----------------------------------------------------------------------------
(* Ranks of n whole numbers, compared from the left, are ordered totally.     *)
Ints(n) == {r \in [1 .. n -> Int] : Len(r) = n}

LEMMA RanksCompare ==
  ASSUME NEW n \in Nat, NEW r \in Ints(n), NEW s \in Ints(n), NEW t \in Ints(n)
  PROVE  /\ Above(r, s) => r # s
         /\ Above(r, s) /\ Above(s, t) => Above(r, t)
         /\ r = s \/ Above(r, s) \/ Above(s, r)
PROOF
  <1>1. /\ \A k \in 1 .. n : r[k] \in Int /\ s[k] \in Int /\ t[k] \in Int
        /\ Len(r) = n /\ Len(s) = n /\ Len(t) = n
        /\ r = [k \in 1 .. n |-> r[k]] /\ s = [k \in 1 .. n |-> s[k]]
    BY DEF Ints
  <1>2. Above(r, s) => r # s
    BY <1>1 DEF Above
  <1>3. ASSUME Above(r, s), Above(s, t) PROVE Above(r, t)
    <2>1. PICK k \in 1 .. n : r[k] > s[k] /\ \A i \in 1 .. (k - 1) : r[i] = s[i]
      BY <1>1, <1>3 DEF Above
    <2>2. PICK l \in 1 .. n : s[l] > t[l] /\ \A i \in 1 .. (l - 1) : s[i] = t[i]
      BY <1>1, <1>3 DEF Above
    <2>3. CASE k <= l
      <3>1. \A i \in 1 .. (k - 1) : i \in 1 .. (l - 1) /\ i \in 1 .. n
        BY <2>3
      <3>2. \A i \in 1 .. (k - 1) : r[i] = t[i]
        BY <2>1, <2>2, <3>1
      <3>3. r[k] > t[k]
        <4>1. r[k] \in Int /\ s[k] \in Int /\ t[k] \in Int /\ r[k] > s[k]
          BY <1>1, <2>1
        <4>2. s[k] > t[k] \/ s[k] = t[k]
          <5>1. k = l \/ k \in 1 .. (l - 1)
            BY <2>3
          <5> QED BY <2>2, <5>1
        <4> QED BY <4>1, <4>2
      <3> QED BY <1>1, <3>2, <3>3 DEF Above
    <2>4. CASE l < k
      <3>1. /\ l \in 1 .. (k - 1)
            /\ \A i \in 1 .. (l - 1) : i \in 1 .. (k - 1)
        BY <2>4
      <3>2. r[l] = s[l] /\ r[l] > t[l]
        BY <1>1, <2>1, <2>2, <3>1
      <3>3. \A i \in 1 .. (l - 1) : r[i] = t[i]
        BY <2>1, <2>2, <3>1
      <3> QED BY <1>1, <3>2, <3>3 DEF Above
    <2> QED BY <2>3, <2>4
  <1>4. ASSUME r # s PROVE Above(r, s) \/ Above(s, r)
    <2> DEFINE D == {k \in 1 .. n : r[k] # s[k]}
    <2>1. D \in SUBSET Nat /\ D # {}
      BY <1>1, <1>4
    <2>2. PICK k \in D : \A l \in D : k <= l
      BY <2>1, LeastElement
    <2>3. \A i \in 1 .. (k - 1) : i \in 1 .. n /\ ~(k <= i)
      OBVIOUS
    <2>4. \A i \in 1 .. (k - 1) : r[i] = s[i]
      BY <2>2, <2>3
    <2>5. r[k] > s[k] \/ s[k] > r[k]
      BY <1>1
    <2> QED BY <1>1, <2>4, <2>5 DEF Above
  <1> QED BY <1>2, <1>3, <1>4

(* So are pairs of positions, in list order; and the two together order       *)
(* ranked pairs.                                                              *)
Entries(pairs, rank) == {<<rank[p], p>> : p \in pairs}

LEMMA PositionsCompare ==
  ASSUME NEW p \in Int \X Int, NEW q \in Int \X Int, NEW r \in Int \X Int
  PROVE  /\ ~InListOrder(p, p)
         /\ InListOrder(p, q) /\ InListOrder(q, r) => InListOrder(p, r)
         /\ p = q \/ InListOrder(p, q) \/ InListOrder(q, p)
PROOF BY DEF InListOrder

LEMMA EntriesAreOrdered ==
  ASSUME NEW n \in Nat, NEW pairs \in SUBSET (Int \X Int), NEW rank,
         \A p \in pairs : rank[p] \in Ints(n)
  PROVE  LET Y == Entries(pairs, rank) IN IsOrder(ByRank(Y), Y) /\ IsTotal(ByRank(Y), Y)
PROOF
  <1> DEFINE Y == Entries(pairs, rank)
             Ord == ByRank(Y)
  <1>1. ASSUME NEW e \in Y PROVE e[2] \in pairs /\ e[1] = rank[e[2]] /\ e = <<rank[e[2]], e[2]>>
    BY DEF Entries
  <1>2. ASSUME NEW d \in Y, NEW e \in Y
        PROVE  <<d, e>> \in Ord <=> \/ Above(d[1], e[1])
                                    \/ d[1] = e[1] /\ InListOrder(d[2], e[2])
    <2> DEFINE o == <<d, e>>
    <2>1. o \in Y \X Y /\ o[1] = d /\ o[2] = e
      OBVIOUS
    <2> HIDE DEF o, Y
    <2>2. o \in Ord <=> \/ Above(o[1][1], o[2][1])
                        \/ o[1][1] = o[2][1] /\ InListOrder(o[1][2], o[2][2])
      BY <2>1 DEF ByRank
    <2> QED BY <2>1, <2>2 DEF o
  <1> HIDE DEF Y, Ord
  <1>3. ASSUME NEW x \in Y PROVE <<x, x>> \notin Ord
    BY <1>1, <1>2, RanksCompare, PositionsCompare
  <1>4. ASSUME NEW x \in Y, NEW y \in Y, NEW z \in Y, <<x, y>> \in Ord, <<y, z>> \in Ord
        PROVE  <<x, z>> \in Ord
    <2>1. x[1] \in Ints(n) /\ y[1] \in Ints(n) /\ z[1] \in Ints(n)
          /\ x[2] \in Int \X Int /\ y[2] \in Int \X Int /\ z[2] \in Int \X Int
      BY <1>1
    <2>2. /\ Above(x[1], y[1]) \/ (x[1] = y[1] /\ InListOrder(x[2], y[2]))
          /\ Above(y[1], z[1]) \/ (y[1] = z[1] /\ InListOrder(y[2], z[2]))
      BY <1>2, <1>4
    <2>3. Above(x[1], z[1]) \/ (x[1] = z[1] /\ InListOrder(x[2], z[2]))
      BY <2>1, <2>2, RanksCompare, PositionsCompare
    <2> QED BY <1>2, <2>3
  <1>5. ASSUME NEW x \in Y, NEW y \in Y PROVE x = y \/ <<x, y>> \in Ord \/ <<y, x>> \in Ord
    <2>1. x[1] \in Ints(n) /\ y[1] \in Ints(n) /\ x[2] \in Int \X Int /\ y[2] \in Int \X Int
      BY <1>1
    <2>2. x[1] = y[1] \/ Above(x[1], y[1]) \/ Above(y[1], x[1])
      BY <2>1, RanksCompare
    <2>3. x[2] = y[2] \/ InListOrder(x[2], y[2]) \/ InListOrder(y[2], x[2])
      BY <2>1, PositionsCompare
    <2> QED BY <1>1, <1>2, <2>2, <2>3
  <1> QED BY <1>3, <1>4, <1>5 DEF IsOrder, IsTotal, Y, Ord

(* The ranked list has every candidate, and nobody stands behind one it comes *)
(* before: one it is above, or one of its rank that is later in the lists.    *)
Before(rank, p, q) == Above(rank[p], rank[q]) \/ (rank[p] = rank[q] /\ InListOrder(p, q))

LEMMA RankedInOrder ==
  ASSUME NEW n \in Nat, NEW pairs \in SUBSET (Int \X Int), IsFiniteSet(pairs), NEW rank,
         \A p \in pairs : rank[p] \in Ints(n)
  PROVE  LET s == Ranked(pairs, rank)
         IN  /\ Len(s) \in Nat /\ DOMAIN s = 1 .. Len(s)
             /\ \A k \in 1 .. Len(s) : s[k] \in pairs
             /\ \A p \in pairs : \E k \in 1 .. Len(s) : s[k] = p
             /\ \A k, l \in 1 .. Len(s) : k < l => ~Before(rank, s[l], s[k])
PROOF
  <1> DEFINE Y == Entries(pairs, rank)
             Ord == ByRank(Y)
             c == Cardinality(Y)
             t == Listed(Y, Ord)
             s == Ranked(pairs, rank)
  <1>1. IsFiniteSet(Y)
    <2> DEFINE f == [p \in pairs |-> <<rank[p], p>>]
    <2>1. Y = {f[p] : p \in pairs} /\ f \in Surjection(pairs, Y)
      BY DEF Entries, Surjection
    <2> HIDE DEF f, Y
    <2> QED BY <2>1, FS_Surjection
  <1>2. IsOrder(Ord, Y) /\ IsTotal(Ord, Y)
    BY EntriesAreOrdered
  <1>3. s = [k \in DOMAIN t |-> t[k][2]]
    BY DEF Ranked, Entries
  <1> HIDE DEF Ord, t, s
  <1>4. /\ c \in Nat /\ t = [k \in 1 .. c |-> t[k]]
        /\ \A k \in 1 .. c : t[k] \in Y
        /\ \A e \in Y : \E k \in 1 .. c : t[k] = e
        /\ \A k, l \in 1 .. c : k < l => <<t[l], t[k]>> \notin Ord
    <2> HIDE DEF Y
    <2> QED BY <1>1, <1>2, ListedInOrder DEF t
  <1>5. \A e \in Y : e[2] \in pairs /\ e[1] = rank[e[2]]
    BY DEF Entries
  <1>6. ASSUME NEW p \in pairs PROVE \E e \in Y : e[2] = p
    <2> DEFINE e == <<rank[p], p>>
    <2>1. e \in Y /\ e[2] = p
      BY DEF Entries
    <2> HIDE DEF e, Y
    <2> QED BY <2>1
  <1> HIDE DEF Y, c
  <1>7. DOMAIN t = 1 .. c /\ DOMAIN s = 1 .. c /\ \A k \in 1 .. c : s[k] = t[k][2]
    BY <1>3, <1>4
  <1>8. Len(s) = c
    BY <1>3, <1>4, <1>7
  <1>9. ASSUME NEW k \in 1 .. c, NEW l \in 1 .. c, k < l, Before(rank, s[l], s[k]) PROVE FALSE
    <2>1. /\ t[l] \in Y /\ t[k] \in Y
          /\ Above(t[l][1], t[k][1]) \/ (t[l][1] = t[k][1] /\ InListOrder(t[l][2], t[k][2]))
      BY <1>4, <1>5, <1>7, <1>9 DEF Before
    <2> DEFINE o == <<t[l], t[k]>>
    <2>2. o \in Y \X Y /\ o[1] = t[l] /\ o[2] = t[k]
      BY <2>1
    <2> HIDE DEF o
    <2>3. o \in Ord
      BY <2>1, <2>2 DEF ByRank, Ord
    <2> QED BY <1>4, <1>9, <2>3 DEF o
  <1>10. \A k \in 1 .. c : s[k] \in pairs
    BY <1>4, <1>5, <1>7
  <1>11. \A p \in pairs : \E k \in 1 .. c : s[k] = p
    BY <1>4, <1>6, <1>7
  <1>12. \A k, l \in 1 .. c : k < l => ~Before(rank, s[l], s[k])
    BY <1>9
  <1>13. Len(s) \in Nat /\ DOMAIN s = 1 .. Len(s)
    BY <1>4, <1>7, <1>8
  <1> QED BY <1>8, <1>10, <1>11, <1>12, <1>13 DEF s

-----------------------------------------------------------------------------
(* Greedy matchings.  Greedy is a function of the number of candidates seen.  *)
LEMMA GreedyFollows ==
  ASSUME NEW s, Len(s) \in Nat
  PROVE  \E g : /\ g[0] = {}
                /\ \A k \in 1 .. Len(s) : g[k] = Take(g[k - 1], s[k])
                /\ Greedy(s) = g[Len(s)]
PROOF
  <1> DEFINE n == Len(s)
             Is(g, m) == g = [k \in 0 .. m |-> IF k = 0 THEN {} ELSE Take(g[k - 1], s[k])]
             S == {m \in Nat : \E g : Is(g, m)}
  <1>1. 0 \in S
    <2>1. Is([k \in 0 .. 0 |-> {}], 0)
      OBVIOUS
    <2> QED BY <2>1
  <1>2. ASSUME NEW m \in Nat, m \in S PROVE m + 1 \in S
    <2>1. PICK g : Is(g, m)
      BY <1>2
    <2> DEFINE h == [k \in 0 .. (m + 1) |-> IF k = m + 1 THEN Take(g[m], s[k]) ELSE g[k]]
    <2>2. Is(h, m + 1)
      <3> SUFFICES ASSUME NEW k \in 0 .. (m + 1)
                   PROVE  h[k] = IF k = 0 THEN {} ELSE Take(h[k - 1], s[k])
        OBVIOUS
      <3>1. k = 0 \/ k - 1 \in 0 .. m
        OBVIOUS
      <3>2. CASE k = m + 1
        BY <2>1, <3>1, <3>2
      <3>3. CASE k \in 0 .. m
        <4>1. g[k] = IF k = 0 THEN {} ELSE Take(g[k - 1], s[k])
          BY <2>1, <3>3
        <4>2. h[k] = g[k] /\ (k # 0 => h[k - 1] = g[k - 1])
          BY <3>1, <3>3
        <4> HIDE DEF h
        <4> QED BY <4>1, <4>2
      <3> QED BY <3>2, <3>3
    <2> HIDE DEF h, Is
    <2>3. \E x : Is(x, m + 1)
      BY <2>2
    <2> QED BY <2>3
  <1> HIDE DEF S
  <1>3. n \in S
    BY <1>1, <1>2, EveryNumber
  <1> DEFINE after == CHOOSE g : Is(g, n)
  <1>4. Is(after, n)
    BY <1>3 DEF S
  <1>5. Greedy(s) = after[n]
    BY DEF Greedy
  <1> HIDE DEF after
  <1>6. \A k \in 0 .. n : after[k] = IF k = 0 THEN {} ELSE Take(after[k - 1], s[k])
    BY <1>4
  <1>7. after[0] = {} /\ \A k \in 1 .. n : after[k] = Take(after[k - 1], s[k])
    <2> HIDE DEF Is
    <2> QED BY <1>6
  <1> QED BY <1>5, <1>7

(* It takes nobody twice, and a candidate that was left out meets one that    *)
(* was taken and stands no further back.                                      *)
LEMMA GreedyTakes ==
  ASSUME NEW s, Len(s) \in Nat
  PROVE  LET m == Greedy(s)
         IN  /\ OneToOne(m)
             /\ \A p \in m : \E k \in 1 .. Len(s) : p = s[k]
             /\ \A k \in 1 .. Len(s) : \E l \in 1 .. k : s[l] \in m /\ Meets(s[k], s[l])
PROOF
  <1> DEFINE n == Len(s)
  <1>1. PICK g : /\ g[0] = {}
                 /\ \A k \in 1 .. n : g[k] = Take(g[k - 1], s[k])
                 /\ Greedy(s) = g[n]
    BY GreedyFollows
  <1> DEFINE Ok(m, k) == /\ OneToOne(m)
                         /\ \A p \in m : \E i \in 1 .. k : p = s[i]
                         /\ \A i \in 1 .. k : \E l \in 1 .. i : s[l] \in m /\ Meets(s[i], s[l])
             S == {k \in Nat : k <= n => Ok(g[k], k)}
  <1>2. 0 \in S
    BY <1>1 DEF OneToOne
  <1>3. ASSUME NEW k \in Nat, k \in S PROVE k + 1 \in S
    <2> SUFFICES ASSUME k + 1 <= n PROVE Ok(g[k + 1], k + 1)
      OBVIOUS
    <2> DEFINE m == g[k]
               p == s[k + 1]
    <2>1. k + 1 \in 1 .. n /\ (k + 1) - 1 = k
      OBVIOUS
    <2>2. Ok(m, k) /\ g[k + 1] = Take(m, p)
      BY <1>1, <1>3, <2>1
    <2>3. \A i \in 1 .. (k + 1) : i \in 1 .. k \/ i = k + 1
      OBVIOUS
    <2>4. 1 .. k \subseteq 1 .. (k + 1) /\ k + 1 \in 1 .. (k + 1)
      OBVIOUS
    <2> HIDE DEF m, p
    <2>5. CASE \E q \in m : Meets(p, q)
      <3>1. g[k + 1] = m
        BY <2>2, <2>5 DEF Take
      <3>2. PICK i \in 1 .. k : s[i] \in m /\ Meets(p, s[i])
        BY <2>2, <2>5
      <3>3. i \in 1 .. (k + 1) /\ s[i] \in m /\ Meets(s[k + 1], s[i])
        BY <2>4, <3>2 DEF p
      <3> QED BY <2>2, <2>3, <2>4, <3>1, <3>3
    <2>6. CASE ~\E q \in m : Meets(p, q)
      <3>1. g[k + 1] = m \union {p}
        BY <2>2, <2>6 DEF Take
      <3>2. OneToOne(m \union {p})
        BY <2>2, <2>6 DEF OneToOne, Meets
      <3>3. Meets(p, p)
        BY DEF Meets
      <3> QED BY <2>2, <2>3, <2>4, <3>1, <3>2, <3>3 DEF p
    <2> QED BY <2>5, <2>6
  <1> HIDE DEF S, Ok
  <1>4. n \in S
    BY <1>2, <1>3, EveryNumber
  <1>5. Ok(g[n], n)
    BY <1>4 DEF S
  <1> QED BY <1>1, <1>5 DEF Ok

(* What the checks need: the ranked greedy matching is fair.                  *)
LEMMA GreedyIsFair ==
  ASSUME NEW n \in Nat, NEW pairs \in SUBSET (Int \X Int), IsFiniteSet(pairs), NEW rank,
         \A p \in pairs : rank[p] \in Ints(n)
  PROVE  LET m == Greedy(Ranked(pairs, rank))
         IN  m \subseteq pairs /\ OneToOne(m) /\ Unblocked(m, pairs, rank)
PROOF
  <1> DEFINE s == Ranked(pairs, rank)
             m == Greedy(s)
  <1>1. /\ Len(s) \in Nat
        /\ \A k \in 1 .. Len(s) : s[k] \in pairs
        /\ \A p \in pairs : \E k \in 1 .. Len(s) : s[k] = p
        /\ \A k, l \in 1 .. Len(s) : k < l => ~Above(rank[s[l]], rank[s[k]])
    BY RankedInOrder DEF Before
  <1> HIDE DEF s
  <1>2. /\ OneToOne(m)
        /\ \A p \in m : \E k \in 1 .. Len(s) : p = s[k]
        /\ \A k \in 1 .. Len(s) : \E l \in 1 .. k : s[l] \in m /\ Meets(s[k], s[l])
    BY <1>1, GreedyTakes
  <1> HIDE DEF m
  <1>3. ASSUME NEW p \in pairs \ m PROVE \E q \in m : Meets(p, q) /\ ~Above(rank[p], rank[q])
    <2>1. PICK k \in 1 .. Len(s) : s[k] = p
      BY <1>1
    <2>2. PICK l \in 1 .. k : s[l] \in m /\ Meets(s[k], s[l])
      BY <1>2
    <2>3. l \in 1 .. Len(s) /\ l < k
      BY <1>1, <2>1, <2>2
    <2> QED BY <1>1, <2>1, <2>2, <2>3
  <1> QED BY <1>1, <1>2, <1>3 DEF Unblocked, s, m

(* In a greedy matching a candidate that is left out meets one that comes     *)
(* before it.                                                                 *)
LEMMA GreedyGoesInOrder ==
  ASSUME NEW n \in Nat, NEW pairs \in SUBSET (Int \X Int), IsFiniteSet(pairs), NEW rank,
         \A p \in pairs : rank[p] \in Ints(n)
  PROVE  LET m == Greedy(Ranked(pairs, rank))
         IN  \A p \in pairs \ m : \E q \in m : Meets(p, q) /\ Before(rank, q, p)
PROOF
  <1> DEFINE s == Ranked(pairs, rank)
             m == Greedy(s)
  <1>1. /\ Len(s) \in Nat
        /\ \A k \in 1 .. Len(s) : s[k] \in pairs
        /\ \A p \in pairs : \E k \in 1 .. Len(s) : s[k] = p
        /\ \A k, l \in 1 .. Len(s) : k < l => ~Before(rank, s[l], s[k])
    BY RankedInOrder
  <1> HIDE DEF s
  <1>2. \A k \in 1 .. Len(s) : \E l \in 1 .. k : s[l] \in m /\ Meets(s[k], s[l])
    BY <1>1, GreedyTakes
  <1> HIDE DEF m
  <1>3. ASSUME NEW p \in pairs \ m PROVE \E q \in m : Meets(p, q) /\ Before(rank, q, p)
    <2>1. PICK k \in 1 .. Len(s) : s[k] = p
      BY <1>1
    <2>2. PICK l \in 1 .. k : s[l] \in m /\ Meets(s[k], s[l])
      BY <1>2
    <2> DEFINE q == s[l]
    <2>3. l \in 1 .. Len(s) /\ l < k /\ q \in pairs /\ q \in m /\ q # p /\ Meets(p, q)
      BY <1>1, <2>1, <2>2
    <2>4. ~Before(rank, p, q)
      BY <1>1, <2>1, <2>3
    <2> HIDE DEF q
    <2>5. rank[p] = rank[q] \/ Above(rank[p], rank[q]) \/ Above(rank[q], rank[p])
      BY <2>3, RanksCompare
    <2>6. InListOrder(p, q) \/ InListOrder(q, p)
      BY <2>3, PositionsCompare
    <2>7. Before(rank, q, p)
      BY <2>4, <2>5, <2>6 DEF Before
    <2> QED BY <2>3, <2>7
  <1> QED BY <1>3 DEF s, m

(* When two lists are compared that rank each other alike, what is matched is *)
(* matched both ways: of the pairs that are not, the first is without reason. *)
Swap(p) == <<p[2], p[1]>>

LEMMA MatchedBothWays ==
  ASSUME NEW n \in Nat, NEW pairs \in SUBSET (Int \X Int), IsFiniteSet(pairs), NEW rank,
         \A p \in pairs : rank[p] \in Ints(n),
         \A p \in pairs : Swap(p) \in pairs /\ rank[Swap(p)] = rank[p]
  PROVE  LET m == Greedy(Ranked(pairs, rank))
         IN  \A p \in m : Swap(p) \in m
PROOF
  <1> DEFINE m == Greedy(Ranked(pairs, rank))
             OneWay == {p \in pairs : p[1] < p[2] /\ (p \in m \/ Swap(p) \in m) /\ ~(p \in m /\ Swap(p) \in m)}
  <1>1. /\ m \subseteq pairs /\ OneToOne(m)
        /\ \A p \in pairs \ m : \E q \in m : Meets(p, q) /\ Before(rank, q, p)
    <2>1. m \subseteq pairs /\ OneToOne(m)
      BY GreedyIsFair
    <2>2. \A p \in pairs \ m : \E q \in m : Meets(p, q) /\ Before(rank, q, p)
      BY GreedyGoesInOrder
    <2> QED BY <2>1, <2>2
  <1> HIDE DEF m
  <1>2. ASSUME NEW p \in pairs
        PROVE  /\ p = <<p[1], p[2]>> /\ p[1] \in Int /\ p[2] \in Int
               /\ Swap(p)[1] = p[2] /\ Swap(p)[2] = p[1] /\ Swap(Swap(p)) = p
    BY DEF Swap
  <1>3. ASSUME NEW q \in m, Swap(q) \notin m
        PROVE  \E d \in OneWay : /\ rank[d] = rank[q]
                                 /\ d[1] < d[2] /\ ((d[1] = q[1] /\ d[2] = q[2]) \/ (d[1] = q[2] /\ d[2] = q[1]))
    <2>1. q \in pairs /\ Swap(q) \in pairs
      BY <1>1
    <2>2. q[1] # q[2]
      BY <1>2, <1>3, <2>1 DEF Swap
    <2>3. CASE q[1] < q[2]
      <3>1. q \in OneWay
        BY <1>3, <2>1, <2>3
      <3> QED BY <2>3, <3>1
    <2>4. CASE q[2] < q[1]
      <3> DEFINE d == Swap(q)
      <3>1. d \in pairs /\ d[1] = q[2] /\ d[2] = q[1] /\ Swap(d) = q /\ d \notin m /\ rank[d] = rank[q]
        BY <1>2, <1>3, <2>1
      <3> HIDE DEF d
      <3>2. d \in OneWay
        BY <1>3, <2>4, <3>1
      <3> QED BY <2>4, <3>1, <3>2
    <2> QED BY <1>2, <2>1, <2>2, <2>3, <2>4
  <1>4. ASSUME OneWay # {} PROVE FALSE
    <2>1. OneWay \in SUBSET (Int \X Int) /\ IsFiniteSet(OneWay)
      BY FS_Subset
    <2>2. PICK p \in OneWay : \A d \in OneWay : ~Before(rank, d, p)
      <3> DEFINE s == Ranked(OneWay, rank)
      <3> HIDE DEF OneWay
      <3>1. \A p \in OneWay : rank[p] \in Ints(n)
        BY DEF OneWay
      <3>2. /\ Len(s) \in Nat
            /\ \A k \in 1 .. Len(s) : s[k] \in OneWay
            /\ \A p \in OneWay : \E k \in 1 .. Len(s) : s[k] = p
            /\ \A k, l \in 1 .. Len(s) : k < l => ~Before(rank, s[l], s[k])
        BY <2>1, <3>1, RankedInOrder
      <3> HIDE DEF s
      <3>3. 1 \in 1 .. Len(s) /\ s[1] \in OneWay
        BY <1>4, <3>2
      <3>4. ~Before(rank, s[1], s[1])
        <4> DEFINE p == s[1]
        <4>1. p \in Int \X Int /\ rank[p] \in Ints(n)
          BY <2>1, <3>1, <3>3
        <4> HIDE DEF p
        <4>2. ~Before(rank, p, p)
          BY <4>1, RanksCompare, PositionsCompare DEF Before
        <4> QED BY <4>2 DEF p
      <3>5. \A l \in 1 .. Len(s) : l = 1 \/ 1 < l
        BY <3>2
      <3>6. \A d \in OneWay : ~Before(rank, d, s[1])
        BY <3>2, <3>3, <3>4, <3>5
      <3> QED BY <3>3, <3>6
    <2> DEFINE t == Swap(p)
    <2>3. /\ p \in pairs /\ t \in pairs /\ t[1] = p[2] /\ t[2] = p[1] /\ rank[t] = rank[p] /\ p[1] < p[2]
          /\ (p \in m /\ t \notin m) \/ (t \in m /\ p \notin m)
          /\ p[1] \in Int /\ p[2] \in Int
      BY <1>2
    <2>4. ASSUME NEW x \in pairs, NEW y \in pairs, x \notin m, y \in m, x = Swap(y)
          PROVE  \E q \in m : Meets(x, q) /\ Before(rank, q, x) /\ Swap(q) \notin m
      <3>1. PICK q \in m : Meets(x, q) /\ Before(rank, q, x)
        BY <1>1, <2>4
      <3>2. ASSUME Swap(q) \in m PROVE FALSE
        <4>1. q \in pairs /\ x[1] = y[2] /\ x[2] = y[1] /\ Swap(q)[1] = q[2] /\ Swap(q)[2] = q[1]
          BY <1>1, <1>2, <2>4
        <4>2. Meets(y, Swap(q))
          BY <3>1, <4>1 DEF Meets
        <4>3. y = Swap(q)
          BY <1>1, <2>4, <3>2, <4>2 DEF OneToOne
        <4>4. x = q
          BY <1>2, <2>4, <4>1, <4>3
        <4> QED BY <2>4, <4>4
      <3> QED BY <3>1, <3>2
    <2>5. \E x \in {p, t} : \E q \in m : Meets(x, q) /\ Before(rank, q, x) /\ Swap(q) \notin m
      <3>1. p = Swap(t)
        BY <1>2, <2>3
      <3> HIDE DEF t
      <3>2. CASE p \in m /\ t \notin m
        BY <2>3, <2>4, <3>2 DEF t
      <3>3. CASE t \in m /\ p \notin m
        BY <2>3, <2>4, <3>1, <3>3
      <3> QED BY <2>3, <3>2, <3>3
    <2>6. PICK x \in {p, t}, q \in m : Meets(x, q) /\ Before(rank, q, x) /\ Swap(q) \notin m
      BY <2>5
    <2>7. PICK d \in OneWay : /\ rank[d] = rank[q]
                              /\ d[1] < d[2] /\ ((d[1] = q[1] /\ d[2] = q[2]) \/ (d[1] = q[2] /\ d[2] = q[1]))
      BY <1>3, <2>6
    <2>8. rank[x] = rank[p] /\ q[1] \in Int /\ q[2] \in Int
      BY <1>1, <1>2, <2>3, <2>6
    <2> HIDE DEF OneWay, t
    <2>9. Above(rank[q], rank[x]) => Before(rank, d, p)
      BY <2>7, <2>8 DEF Before
    <2>10. (x[1] = p[1] /\ x[2] = p[2]) \/ (x[1] = p[2] /\ x[2] = p[1])
      BY <2>3, <2>6
    <2>11. rank[q] = rank[x] /\ InListOrder(q, x) => InListOrder(d, p)
      BY <2>3, <2>6, <2>7, <2>8, <2>10 DEF InListOrder, Meets
    <2>12. Before(rank, d, p)
      BY <2>6, <2>7, <2>8, <2>9, <2>11 DEF Before
    <2> QED BY <2>2, <2>12
  <1>5. ASSUME NEW p \in m PROVE Swap(p) \in m
    BY <1>3, <1>4
  <1> QED BY <1>5 DEF m

-----------------------------------------------------------------------------
(* Each check has its own instance of the operators of Matching.              *)
LEMMA SameOperators ==
  /\ \A S : P!Cardinality(S) = Cardinality(S) /\ E!Cardinality(S) = Cardinality(S) /\ T!Cardinality(S) = Cardinality(S)
  /\ \A s, places : N!Picked(s, places) = Picked(s, places)
  /\ \A s, places : E!Picked(s, places) = Picked(s, places)
  /\ \A s, places : T!Picked(s, places) = Picked(s, places)
  /\ \A s : N!Greedy(s) = Greedy(s)
  /\ \A s : P!Greedy(s) = Greedy(s)
  /\ \A pairs, rank : N!Ranked(pairs, rank) = Ranked(pairs, rank)
  /\ \A pairs, rank : P!Ranked(pairs, rank) = Ranked(pairs, rank)
  /\ \A r, s : P!Above(r, s) = Above(r, s)
PROOF
  <1>1. \A S : P!Cardinality(S) = Cardinality(S) /\ E!Cardinality(S) = Cardinality(S) /\ T!Cardinality(S) = Cardinality(S)
    BY DEF P!Cardinality, E!Cardinality, T!Cardinality, Cardinality
  <1>2. ASSUME NEW s, NEW places
        PROVE  /\ N!Picked(s, places) = Picked(s, places)
               /\ E!Picked(s, places) = Picked(s, places)
               /\ T!Picked(s, places) = Picked(s, places)
    <2>1. N!Picked(s, places) = Picked(s, places)
      BY DEF N!Picked, Picked, N!Listed, Listed, N!Cardinality, Cardinality
    <2>2. E!Picked(s, places) = Picked(s, places)
      BY DEF E!Picked, Picked, E!Listed, Listed, E!Cardinality, Cardinality
    <2>3. T!Picked(s, places) = Picked(s, places)
      BY DEF T!Picked, Picked, T!Listed, Listed, T!Cardinality, Cardinality
    <2> QED BY <2>1, <2>2, <2>3
  <1>3. ASSUME NEW s PROVE N!Greedy(s) = Greedy(s) /\ P!Greedy(s) = Greedy(s)
    <2>1. N!Greedy(s) = Greedy(s)
      BY DEF N!Greedy, Greedy, N!Take, Take, N!Meets, Meets
    <2>2. P!Greedy(s) = Greedy(s)
      BY DEF P!Greedy, Greedy, P!Take, Take, P!Meets, Meets
    <2> QED BY <2>1, <2>2
  <1>4. ASSUME NEW pairs, NEW rank PROVE N!Ranked(pairs, rank) = Ranked(pairs, rank)
    BY DEF N!Ranked, Ranked, N!ByRank, ByRank, N!Above, Above, N!InListOrder, InListOrder,
           N!Listed, Listed, N!Cardinality, Cardinality
  <1>5. ASSUME NEW pairs, NEW rank PROVE P!Ranked(pairs, rank) = Ranked(pairs, rank)
    BY DEF P!Ranked, Ranked, P!ByRank, ByRank, P!Above, Above, P!InListOrder, InListOrder,
           P!Listed, Listed, P!Cardinality, Cardinality
  <1>6. \A r, s : P!Above(r, s) = Above(r, s)
    BY DEF P!Above, Above
  <1> QED BY <1>1, <1>2, <1>3, <1>4, <1>5, <1>6

LEMMA Places ==
  ASSUME NEW n \in Nat
  PROVE  IsFiniteSet(1 .. n) /\ 1 .. n \subseteq Int
PROOF
  <1>1. IsFiniteSet(1 .. n)
    BY FS_Interval
  <1> QED BY <1>1

LEMMA PairsOfPlaces ==
  ASSUME NEW m \in Nat, NEW n \in Nat
  PROVE  IsFiniteSet((1 .. m) \X (1 .. n)) /\ (1 .. m) \X (1 .. n) \subseteq Int \X Int
PROOF
  <1>1. IsFiniteSet((1 .. m) \X (1 .. n))
    BY Places, FS_Product
  <1> QED BY <1>1

LEMMA PickedIsAList ==
  ASSUME NEW s, NEW n \in Nat, NEW places \in SUBSET (1 .. n)
  PROVE  LET t == Picked(s, places)
         IN  /\ IsList(t) /\ Len(t) = Cardinality(places)
             /\ \A k \in 1 .. Len(t) : \E i \in places : t[k] = s[i]
             /\ \A i \in places : \E k \in 1 .. Len(t) : t[k] = s[i]
PROOF
  <1> DEFINE Ord == {o \in places \X places : o[1] < o[2]}
             at == Listed(places, Ord)
             t == Picked(s, places)
             c == Cardinality(places)
  <1>1. IsFiniteSet(places)
    BY Places, FS_Subset
  <1>2. ASSUME NEW i \in places, NEW j \in places PROVE <<i, j>> \in Ord <=> i < j
    <2> DEFINE o == <<i, j>>
    <2>1. o \in places \X places /\ o[1] = i /\ o[2] = j
      OBVIOUS
    <2> HIDE DEF o
    <2>2. o \in Ord <=> o[1] < o[2]
      BY <2>1
    <2> QED BY <2>1, <2>2 DEF o
  <1>3. t = [k \in DOMAIN at |-> s[at[k]]]
    BY DEF Picked
  <1> HIDE DEF Ord, t
  <1>4. IsOrder(Ord, places) /\ IsTotal(Ord, places)
    BY <1>2 DEF IsOrder, IsTotal
  <1>5. /\ c \in Nat /\ at = [k \in 1 .. c |-> at[k]]
        /\ \A k \in 1 .. c : at[k] \in places
        /\ \A i \in places : \E k \in 1 .. c : at[k] = i
    BY <1>1, <1>4, ListedInOrder
  <1> HIDE DEF at, c
  <1>6. Len(t) = c /\ DOMAIN t = 1 .. c /\ \A k \in 1 .. c : t[k] = s[at[k]]
    BY <1>3, <1>5
  <1> QED BY <1>5, <1>6 DEF IsList, t, c

-----------------------------------------------------------------------------
(* Occurrences of a metric.                                                   *)
Numbers(x) == x.value \in Int /\ x.unit \in Int /\ x.conf \in Int

LEMMA CandidatesAreNumbers ==
  ASSUME NEW as \in NumericSides
  PROVE  LET c == N!Candidates(as, FALSE)
         IN  IsList(c) /\ \A i \in 1 .. Len(c) : Numbers(c[i])
PROOF
  <1> DEFINE all == [i \in DOMAIN as |-> N!Bucketed(as[i])]
             places == {i \in DOMAIN as : ~N!Bad(all[i], FALSE)}
             c == N!Candidates(as, FALSE)
  <1>1. IsList(as) /\ \A i \in DOMAIN as :
          {"value", "unit", "conf"} \subseteq DOMAIN as[i] /\ Numbers(as[i])
    BY NumericAssumption DEF NumericAssumption, Numbers
  <1>2. c = Picked(all, places)
    BY SameOperators DEF N!Candidates
  <1>3. ASSUME NEW i \in DOMAIN as PROVE Numbers(all[i])
    <2> DEFINE x == as[i]
    <2>1. "value" \in DOMAIN x /\ "unit" \in DOMAIN x /\ "conf" \in DOMAIN x /\ Numbers(x)
      BY <1>1
    <2> HIDE DEF x
    <2>2. /\ N!Bucketed(x).value = x.value /\ N!Bucketed(x).unit = x.unit
          /\ N!Bucketed(x).conf = x.conf
      BY <2>1 DEF N!Bucketed
    <2>3. all[i] = N!Bucketed(x)
      BY DEF x
    <2> HIDE DEF all
    <2> QED BY <2>1, <2>2, <2>3 DEF Numbers
  <1> HIDE DEF all
  <1>4. /\ Len(as) \in Nat /\ places \in SUBSET (1 .. Len(as))
        /\ DOMAIN as = 1 .. Len(as)
    BY <1>1 DEF IsList
  <1> HIDE DEF places, c
  <1>5. IsList(c) /\ \A k \in 1 .. Len(c) : \E i \in places : c[k] = all[i]
    <2> DEFINE t == Picked(all, places)
    <2>1. IsList(t) /\ \A k \in 1 .. Len(t) : \E i \in places : t[k] = all[i]
      BY <1>4, PickedIsAList
    <2> QED BY <1>2, <2>1
  <1> QED BY <1>3, <1>4, <1>5 DEF c

LEMMA ScoresAreNumbers ==
  ASSUME NEW a, NEW h, Numbers(a), Numbers(h), NEW factor \in Int, NEW shareOk
  PROVE  /\ N!Norm(a) \in Int /\ N!Norm(h) \in Int
         /\ N!Ratio(N!Norm(a), N!Norm(h)) \in Int
         /\ N!Score(a, h, factor, shareOk) \in Int
PROOF
  <1>1. N!Norm(a) \in Int /\ N!Norm(h) \in Int
    BY DEF N!Norm, Numbers
  <1>2. ASSUME NEW x \in Int, NEW y \in Int PROVE N!Ratio(x, y) \in Int
    <2>1. /\ N!Abs(x) \in Int /\ N!Abs(y) \in Int /\ N!Abs(x - y) \in Int
          /\ x # y => N!Larger(N!Abs(x), N!Abs(y)) \in Int /\ N!Larger(N!Abs(x), N!Abs(y)) > 0
      BY DEF N!Abs, N!Larger
    <2>2. N!Abs(x - y) * 1000 \in Int
      BY <2>1
    <2>3. CASE x = y
      BY <2>3 DEF N!Ratio
    <2>4. CASE x # y
      <3> DEFINE d == N!Abs(x - y) * 1000
                 e == N!Larger(N!Abs(x), N!Abs(y))
      <3>1. d \in Int /\ e \in Int /\ e > 0 /\ N!Ratio(x, y) = d \div e
        BY <2>1, <2>2, <2>4 DEF N!Ratio
      <3> HIDE DEF d, e
      <3> QED BY <3>1
    <2> QED BY <2>3, <2>4
  <1>3. N!Norm(h) * factor \in Int
    BY <1>1
  <1>4. N!Closest(a, h, factor) \in Int
    BY <1>1, <1>2, <1>3 DEF N!Closest
  <1>5. /\ N!Label(a, h) \in Int /\ N!Period(a, h) \in Int /\ N!Source(a, h) \in Int
        /\ a.conf + h.conf \in Int
    BY DEF N!Label, N!Period, N!Source, Numbers
  <1>6. N!Score(a, h, factor, shareOk) \in Int
    BY <1>4, <1>5 DEF N!Score
  <1> QED BY <1>1, <1>2, <1>6

LEMMA NumericRanks ==
  ASSUME NEW q, IsList(q.as), IsList(q.hs), q.factor \in Int,
         \A i \in 1 .. Len(q.as) : Numbers(q.as[i]),
         \A i \in 1 .. Len(q.hs) : Numbers(q.hs[i])
  PROVE  /\ N!Explained(q) \in SUBSET (Int \X Int) /\ IsFiniteSet(N!Explained(q))
         /\ \A p \in N!Explained(q) : N!Ranks(q)[p] \in Ints(4)
PROOF
  <1>1. N!Explained(q) \in SUBSET ((1 .. Len(q.as)) \X (1 .. Len(q.hs)))
    BY DEF N!Explained, N!Pairs
  <1>2. IsFiniteSet(N!Explained(q)) /\ N!Explained(q) \in SUBSET (Int \X Int)
    BY <1>1, PairsOfPlaces, FS_Subset DEF IsList
  <1>3. ASSUME NEW p \in N!Explained(q) PROVE N!RankOf(q, p) \in Ints(4)
    <2> DEFINE a == q.as[p[1]]
               h == q.hs[p[2]]
               one == IF N!KindOf(q, p) = "currency" THEN 1 ELSE 0
               two == IF N!Compatible(a, h, q.shareOk) THEN 1 ELSE 0
               score == N!Score(a, h, q.factor, q.shareOk)
               ratio == - N!Ratio(N!Norm(a), N!Norm(h))
    <2>1. Numbers(a) /\ Numbers(h)
      BY <1>1
    <2>2. one \in Int /\ two \in Int
      OBVIOUS
    <2>3. score \in Int /\ ratio \in Int
      <3> HIDE DEF a, h
      <3>1. N!Score(a, h, q.factor, q.shareOk) \in Int /\ N!Ratio(N!Norm(a), N!Norm(h)) \in Int
        BY <2>1, ScoresAreNumbers, Zenon
      <3> QED BY <3>1
    <2>4. N!RankOf(q, p) = <<one, two, score, ratio>>
      BY DEF N!RankOf, N!ScoreOf
    <2> HIDE DEF one, two, score, ratio
    <2>5. <<one, two, score, ratio>> \in Ints(4)
      BY <2>2, <2>3 DEF Ints
    <2> QED BY <2>4, <2>5
  <1> QED BY <1>2, <1>3 DEF N!Ranks

(* What the numeric check compares: occurrences with their numbers, when the  *)
(* rule has no tolerance and the key is a core one.                           *)
IsCompared(q) ==
  /\ IsList(q.as) /\ \A i \in 1 .. Len(q.as) : Numbers(q.as[i])
  /\ IsList(q.hs) /\ \A i \in 1 .. Len(q.hs) : Numbers(q.hs[i])
  /\ q.factor \in Int /\ q.tol = 0 /\ q.core = TRUE

LEMMA WhatIsCompared ==
  ASSUME RunNumeric
  PROVE  /\ IsCompared(input')
         /\ found'.pairs = N!Assigned(input') /\ found'.told = N!Diffs(input')
PROOF
  <1>1. PICK as \in NumericSides, hs \in NumericSides, factor \in NumericFactors, comparable \in BOOLEAN :
          input' = [as |-> N!Candidates(as, FALSE), hs |-> N!Candidates(hs, FALSE), factor |-> factor, tol |-> 0,
                    shareOk |-> FALSE, core |-> TRUE, review |-> [comparable |-> comparable, conf |-> 90]]
    BY DEF RunNumeric
  <1>2. /\ IsList(input'.as) /\ \A i \in 1 .. Len(input'.as) : Numbers(input'.as[i])
        /\ IsList(input'.hs) /\ \A i \in 1 .. Len(input'.hs) : Numbers(input'.hs[i])
        /\ input'.factor \in Int
    BY <1>1, CandidatesAreNumbers, NumericAssumption DEF NumericAssumption
  <1>3. input'.tol = 0 /\ input'.core = TRUE
    BY <1>1
  <1>4. found'.pairs = N!Assigned(input') /\ found'.told = N!Diffs(input')
    BY DEF RunNumeric
  <1> QED BY <1>2, <1>3, <1>4 DEF IsCompared

(* The steps of Checks, one kind of comparison at a time.                     *)
LEMMA NumericIsFair ==
  ASSUME RunNumeric
  PROVE  NumericPairsAreFair'
PROOF
  <1>1. IsCompared(input') /\ found'.pairs = N!Assigned(input')
    BY WhatIsCompared
  <1> DEFINE pairs == N!Explained(input')
             rank == N!Ranks(input')
  <1>3. /\ pairs \in SUBSET (Int \X Int) /\ IsFiniteSet(pairs)
        /\ \A p \in pairs : rank[p] \in Ints(4)
    BY <1>1, NumericRanks DEF IsCompared
  <1>4. found'.pairs = Greedy(Ranked(pairs, rank))
    BY <1>1, SameOperators DEF N!Assigned, N!Order
  <1> HIDE DEF pairs, rank
  <1>5. OneToOne(found'.pairs) /\ Unblocked(found'.pairs, pairs, rank)
    BY <1>3, <1>4, GreedyIsFair
  <1> QED BY <1>5 DEF NumericPairsAreFair, pairs, rank

LEMMA AssignedIsFair ==
  ASSUME NEW q, IsCompared(q)
  PROVE  /\ N!Assigned(q) \subseteq N!Explained(q)
         /\ \A p \in N!Explained(q) \ N!Assigned(q) : \E r \in N!Assigned(q) : Meets(p, r)
PROOF
  <1> DEFINE pairs == N!Explained(q)
             rank == N!Ranks(q)
  <1>1. /\ pairs \in SUBSET (Int \X Int) /\ IsFiniteSet(pairs)
        /\ \A p \in pairs : rank[p] \in Ints(4)
    BY NumericRanks DEF IsCompared
  <1>2. N!Assigned(q) = Greedy(Ranked(pairs, rank))
    BY SameOperators DEF N!Assigned, N!Order
  <1> HIDE DEF pairs, rank
  <1>3. /\ N!Assigned(q) \subseteq pairs
        /\ Unblocked(N!Assigned(q), pairs, rank)
    BY <1>1, <1>2, GreedyIsFair
  <1> QED BY <1>3 DEF Unblocked, pairs

(* Amounts that agree are explained.                                          *)
LEMMA EqualAmountsAreExplained ==
  ASSUME NEW q, IsCompared(q), NEW p \in N!Pairs(q),
         LET a == q.as[p[1]] h == q.hs[p[2]] IN N!Norm(a) = N!Norm(h) /\ N!YearsAgree(a, h)
  PROVE  p \in N!Explained(q)
PROOF
  <1>1. N!KindOf(q, p) = "direct"
    BY DEF N!KindOf, N!Kind
  <1> QED BY <1>1 DEF N!Explained

(* The verdict on a pair that nothing explains is never silent.               *)
LEMMA NoVerdictIsSilent ==
  ASSUME NEW q, IsCompared(q), NEW p \in N!Left(q),
         ~(N!NonMonetary(q.as[p[1]].value) /\ N!NonMonetary(q.hs[p[2]].value))
  PROVE  \E word : N!Judge(q, p) = <<word>>
PROOF
  <1> DEFINE a == q.as[p[1]]
             h == q.hs[p[2]]
  <1>1. p \in N!Pairs(q) /\ p[1] \in 1 .. Len(q.as) /\ p[2] \in 1 .. Len(q.hs)
    BY DEF N!Left, N!Pairs
  <1>2. Numbers(a) /\ Numbers(h) /\ N!Norm(a) \in Int /\ N!Norm(h) \in Int
    BY <1>1, ScoresAreNumbers DEF IsCompared
  <1>3. p \notin N!Explained(q)
    <2>1. N!Lefts(N!Assigned(q)) = {r[1] : r \in N!Assigned(q)} /\ N!Rights(N!Assigned(q)) = {r[2] : r \in N!Assigned(q)}
      BY DEF N!Lefts, N!Rights
    <2>2. \A r \in N!Assigned(q) : r[1] # p[1] /\ r[2] # p[2]
      BY <2>1 DEF N!Left
    <2> QED BY <2>2, AssignedIsFair DEF Meets
  <1>4. ~(N!Norm(a) = N!Norm(h) /\ N!YearsAgree(a, h))
    BY <1>1, <1>3, EqualAmountsAreExplained
  <1> HIDE DEF a, h
  <1>5. ASSUME N!SameScope(a, h, q.factor, q.shareOk) PROVE N!CheckPair(a, h, q.tol) # ""
    <2>1. N!YearsAgree(a, h)
      BY <1>5 DEF N!SameScope, N!Period, N!YearsAgree
    <2>2. N!Norm(a) # N!Norm(h)
      BY <1>4, <2>1
    <2>3. ~(N!Abs(N!Norm(a) - N!Norm(h)) <= q.tol)
      BY <1>2, <2>2 DEF IsCompared, N!Abs
    <2>4. N!Graded(N!Norm(a), N!Norm(h)) # ""
      BY DEF N!Graded
    <2>5. ~(N!NonMonetary(a.value) /\ N!NonMonetary(h.value))
      BY DEF a, h
    <2> QED BY <2>3, <2>4, <2>5 DEF N!CheckPair
  <1>7. q.core = TRUE
    BY DEF IsCompared
  <1>8. N!Judge(q, p) =
          IF N!SameScope(a, h, q.factor, q.shareOk)
          THEN IF N!Downgraded(q, a, h) THEN <<"llm_semantic_review">>
               ELSE IF ~N!Within(N!Norm(a), N!Norm(h), 1, 10) THEN <<N!Unsure(q, a, h)>>
               ELSE IF N!CheckPair(a, h, q.tol) = "" THEN <<>>
               ELSE <<N!CheckPair(a, h, q.tol)>>
          ELSE IF ~N!Compatible(a, h, q.shareOk) /\ ~q.core THEN <<>> ELSE <<N!Unsure(q, a, h)>>
    BY DEF N!Judge, a, h
  <1> QED BY <1>5, <1>7, <1>8

(* A list of one word after any other is not empty.                           *)
LEMMA BestIsTold ==
  ASSUME NEW q, N!Told(q) \in {<<>>, <<"currency_converted_match">>, <<"expected">>}, NEW word
  PROVE  N!Told(q) \o <<word>> # <<>>
PROOF
  <1> DEFINE s == N!Told(q)
             t == <<word>>
             words == {"currency_converted_match", "expected", word}
  <1>1. s \in Seq(words) /\ t \in Seq(words) /\ Len(s) \in Nat /\ Len(t) = 1
    <2>1. t \in Seq(words) /\ Len(t) = 1
      OBVIOUS
    <2> HIDE DEF t
    <2>2. CASE s = <<>>
      BY <2>1, <2>2
    <2>3. CASE s = <<"currency_converted_match">>
      BY <2>1, <2>3
    <2>4. CASE s = <<"expected">>
      BY <2>1, <2>4
    <2> QED BY <2>2, <2>3, <2>4
  <1> HIDE DEF s, t, words
  <1>2. Len(s \o t) = Len(s) + Len(t)
    BY <1>1, ConcatProperties
  <1>3. Len(<<>>) = 0
    OBVIOUS
  <1>4. s \o t # <<>>
    BY <1>1, <1>2, <1>3
  <1> QED BY <1>4 DEF s, t

LEMMA ToldIsAWord ==
  ASSUME NEW q
  PROVE  N!Told(q) \in {<<>>, <<"currency_converted_match">>, <<"expected">>}
PROOF BY DEF N!Told

(* Numeric occurrences that stand beside each other and that no match         *)
(* explains are told of.                                                      *)
LEMMA NumericIsTold ==
  ASSUME RunNumeric
  PROVE  NumericAlterationIsTold'
PROOF
  <1> DEFINE q == input'
             left == N!Left(q)
             rank == [p \in left |-> <<N!ScoreOf(q, p)>>]
             s == Ranked(left, rank)
  <1>1. IsCompared(q) /\ found'.told = N!Diffs(q)
    BY WhatIsCompared
  <1> HIDE DEF q
  <1>2. SUFFICES ASSUME NEW p \in N!Pairs(q),
                        ~\E r \in N!Explained(q) : r[1] = p[1] \/ r[2] = p[2],
                        ~\E i \in DOMAIN q.as, j \in DOMAIN q.hs :
                           N!NonMonetary(q.as[i].value) /\ N!NonMonetary(q.hs[j].value)
                 PROVE  N!Diffs(q) # <<>>
    BY <1>1 DEF NumericAlterationIsTold, q
  <1>3. p \in left
    <2>1. \A r \in N!Assigned(q) : r[1] # p[1] /\ r[2] # p[2]
      BY <1>1, <1>2, AssignedIsFair
    <2> QED BY <2>1 DEF N!Left, N!Lefts, N!Rights
  <1>4. /\ left \in SUBSET (Int \X Int) /\ IsFiniteSet(left)
        /\ \A r \in left : r \in N!Pairs(q) /\ r[1] \in DOMAIN q.as /\ r[2] \in DOMAIN q.hs
    <2>1. left \in SUBSET ((1 .. Len(q.as)) \X (1 .. Len(q.hs))) /\ left \subseteq N!Pairs(q)
      BY DEF N!Left, N!Pairs
    <2>2. Len(q.as) \in Nat /\ Len(q.hs) \in Nat /\ DOMAIN q.as = 1 .. Len(q.as) /\ DOMAIN q.hs = 1 .. Len(q.hs)
      BY <1>1 DEF IsCompared, IsList
    <2>3. left \in SUBSET (Int \X Int) /\ IsFiniteSet(left)
      BY <2>1, <2>2, PairsOfPlaces, FS_Subset
    <2> QED BY <2>1, <2>2, <2>3
  <1>5. ASSUME NEW r \in left PROVE rank[r] \in Ints(1)
    <2> DEFINE score == N!ScoreOf(q, r)
    <2>1. Numbers(q.as[r[1]]) /\ Numbers(q.hs[r[2]]) /\ q.factor \in Int
      BY <1>1, <1>4 DEF IsCompared, IsList
    <2>2. score \in Int
      BY <2>1, ScoresAreNumbers DEF N!ScoreOf
    <2>3. rank[r] = <<score>>
      OBVIOUS
    <2> HIDE DEF score, rank
    <2>4. <<score>> \in Ints(1)
      BY <2>2 DEF Ints
    <2> QED BY <2>3, <2>4
  <1>6. N!Diffs(q) = N!Told(q) \o (IF left = {} THEN <<>> ELSE N!Judge(q, Head(s)))
    BY SameOperators DEF N!Diffs
  <1> HIDE DEF left, rank
  <1>7. /\ Len(s) \in Nat /\ DOMAIN s = 1 .. Len(s)
        /\ \A k \in 1 .. Len(s) : s[k] \in left
        /\ \A r \in left : \E k \in 1 .. Len(s) : s[k] = r
    BY <1>4, <1>5, RankedInOrder
  <1> HIDE DEF s
  <1>8. 1 \in 1 .. Len(s)
    BY <1>3, <1>7
  <1>9. Head(s) = s[1]
    OBVIOUS
  <1>10. PICK word : N!Judge(q, Head(s)) = <<word>>
    <2>1. s[1] \in left
      BY <1>7, <1>8
    <2>2. ~(N!NonMonetary(q.as[s[1][1]].value) /\ N!NonMonetary(q.hs[s[1][2]].value))
      BY <1>2, <1>4, <2>1
    <2> QED BY <1>1, <1>9, <2>1, <2>2, NoVerdictIsSilent DEF left
  <1>11. N!Diffs(q) = N!Told(q) \o <<word>>
    BY <1>3, <1>6, <1>10
  <1>12. N!Told(q) \o <<word>> # <<>>
    <2> DEFINE told == N!Told(q)
    <2>1. told \in {<<>>, <<"currency_converted_match">>, <<"expected">>}
      BY ToldIsAWord
    <2> QED BY <2>1, BestIsTold
  <1> QED BY <1>11, <1>12

(* Two occurrences are compared in the same way from either side, when no     *)
(* currency factor was inferred.                                              *)
LEMMA DistancesAreMutual ==
  ASSUME NEW x \in Int, NEW y \in Int
  PROVE  /\ N!Abs(x - y) = N!Abs(y - x)
         /\ N!Larger(N!Abs(x), N!Abs(y)) = N!Larger(N!Abs(y), N!Abs(x))
         /\ N!Ratio(x, y) = N!Ratio(y, x)
PROOF
  <1>1. N!Abs(x - y) = N!Abs(y - x)
    BY DEF N!Abs
  <1>2. N!Larger(N!Abs(x), N!Abs(y)) = N!Larger(N!Abs(y), N!Abs(x))
    <2>1. N!Abs(x) \in Int /\ N!Abs(y) \in Int
      BY DEF N!Abs
    <2> QED BY <2>1 DEF N!Larger
  <1>3. N!Ratio(x, y) = N!Ratio(y, x)
    <2>1. CASE x = y
      BY <2>1
    <2>2. CASE x # y
      <3>1. N!Ratio(x, y) = (N!Abs(x - y) * 1000) \div N!Larger(N!Abs(x), N!Abs(y))
        BY <2>2 DEF N!Ratio
      <3>2. N!Ratio(y, x) = (N!Abs(y - x) * 1000) \div N!Larger(N!Abs(y), N!Abs(x))
        BY <2>2 DEF N!Ratio
      <3> QED BY <1>1, <1>2, <3>1, <3>2
    <2> QED BY <2>1, <2>2
  <1> QED BY <1>1, <1>2, <1>3

LEMMA ContextsAreMutual ==
  ASSUME NEW a, NEW h, NEW shareOk
  PROVE  /\ N!Compatible(a, h, shareOk) <=> N!Compatible(h, a, shareOk)
         /\ N!Scored(a, h) <=> N!Scored(h, a)
         /\ N!YearsAgree(a, h) <=> N!YearsAgree(h, a)
         /\ N!Label(a, h) = N!Label(h, a)
         /\ N!Period(a, h) = N!Period(h, a)
         /\ N!Source(a, h) = N!Source(h, a)
PROOF
  <1>1. {a.bucket, h.bucket} = {h.bucket, a.bucket}
    OBVIOUS
  <1>2. N!Compatible(a, h, shareOk) <=> N!Compatible(h, a, shareOk)
    BY <1>1 DEF N!Compatible
  <1>3. N!Scored(a, h) <=> N!Scored(h, a)
    BY DEF N!Scored
  <1>4. N!YearsAgree(a, h) <=> N!YearsAgree(h, a)
    BY DEF N!YearsAgree
  <1>5. N!Label(a, h) = N!Label(h, a)
    BY DEF N!Label
  <1>6. N!Period(a, h) = N!Period(h, a)
    BY DEF N!Period
  <1>7. N!Source(a, h) = N!Source(h, a)
    BY DEF N!Source
  <1> QED BY <1>2, <1>3, <1>4, <1>5, <1>6, <1>7

(* A score before it is rounded down to thousandths.                          *)
Weighted(a, h, shareOk) ==
  280 * (IF N!Compatible(a, h, shareOk) THEN 1000 ELSE 0) + 240 * N!Label(a, h)
  + 100 * (a.conf + h.conf) * 10 + 120 * N!Period(a, h) + 80 * N!Source(a, h)
  + 80 * (1000 - N!Closest(a, h, 0))

LEMMA ComparisonIsMutual ==
  ASSUME NEW a, NEW h, Numbers(a), Numbers(h), NEW shareOk
  PROVE  /\ N!Score(a, h, 0, shareOk) = N!Score(h, a, 0, shareOk)
         /\ N!Kind(a, h, 0, 0, shareOk) = N!Kind(h, a, 0, 0, shareOk)
         /\ N!Ratio(N!Norm(a), N!Norm(h)) = N!Ratio(N!Norm(h), N!Norm(a))
PROOF
  <1> DEFINE x == N!Norm(a)
             y == N!Norm(h)
  <1>1. /\ x \in Int /\ y \in Int
        /\ a.value \in Int /\ h.value \in Int /\ a.conf \in Int /\ h.conf \in Int /\ a.unit \in Int /\ h.unit \in Int
    BY DEF N!Norm, Numbers
  <1>2. N!Ratio(x, y) = N!Ratio(y, x)
    BY <1>1, DistancesAreMutual
  <1>3. N!Score(a, h, 0, shareOk) = N!Score(h, a, 0, shareOk)
    <2>1. N!Closest(a, h, 0) = N!Closest(h, a, 0)
      BY <1>2 DEF N!Closest
    <2>2. a.conf + h.conf = h.conf + a.conf
      BY <1>1
    <2>3. /\ N!Label(a, h) = N!Label(h, a) /\ N!Period(a, h) = N!Period(h, a) /\ N!Source(a, h) = N!Source(h, a)
          /\ (IF N!Compatible(a, h, shareOk) THEN 1000 ELSE 0) = (IF N!Compatible(h, a, shareOk) THEN 1000 ELSE 0)
      BY ContextsAreMutual
    <2>4. Weighted(a, h, shareOk) = Weighted(h, a, shareOk)
      BY <2>1, <2>2, <2>3 DEF Weighted
    <2>5. N!Score(a, h, 0, shareOk) = Weighted(a, h, shareOk) \div 1000 /\ N!Score(h, a, 0, shareOk) = Weighted(h, a, shareOk) \div 1000
      BY DEF Weighted, N!Score
    <2> QED BY <2>4, <2>5
  <1>4. N!KindAgreed(a, h, 0, 0) = N!KindAgreed(h, a, 0, 0)
    <2>1. (N!Abs(x - y) <= 0 * a.unit) <=> (N!Abs(y - x) <= 0 * h.unit)
      BY <1>1 DEF N!Abs
    <2>2. /\ N!Within(x, y, 5, 1000) <=> N!Within(y, x, 5, 1000)
          /\ N!Within(x, y, 2, 100) <=> N!Within(y, x, 2, 100)
          /\ N!Within(x, y, 1, 100) <=> N!Within(y, x, 1, 100)
      <3> HIDE DEF x, y
      <3>1. N!Abs(x - y) = N!Abs(y - x) /\ N!Larger(N!Abs(x), N!Abs(y)) = N!Larger(N!Abs(y), N!Abs(x))
        BY <1>1, DistancesAreMutual
      <3> QED BY <3>1 DEF N!Within
    <2>3. N!UnitFixable(a, h) <=> N!UnitFixable(h, a)
      <3>1. ASSUME NEW m \in {1, 10}, NEW n \in {1, 10}
            PROVE  N!Within(a.value * m, h.value * n, 2, 100) <=> N!Within(h.value * n, a.value * m, 2, 100)
        <4>1. a.value * m \in Int /\ h.value * n \in Int
          BY <1>1
        <4> DEFINE u == a.value * m
                   v == h.value * n
        <4> HIDE DEF u, v
        <4>2. N!Abs(u - v) = N!Abs(v - u) /\ N!Larger(N!Abs(u), N!Abs(v)) = N!Larger(N!Abs(v), N!Abs(u))
          BY <4>1, DistancesAreMutual DEF u, v
        <4>3. N!Within(u, v, 2, 100) <=> N!Within(v, u, 2, 100)
          BY <4>2 DEF N!Within
        <4> QED BY <4>3 DEF u, v
      <3> QED BY <3>1, Zenon DEF N!UnitFixable
    <2> HIDE DEF x, y
    <2> QED BY <2>1, <2>2, <2>3, Zenon DEF N!KindAgreed, x, y
  <1> QED BY <1>2, <1>3, <1>4, ContextsAreMutual, Zenon DEF N!Kind

(* Amounts that are not within half a per cent have a distance.               *)
LEMMA DistanceIsSeen ==
  ASSUME NEW x \in Int, NEW y \in Int
  PROVE  /\ N!Ratio(x, y) \in Int /\ N!Ratio(x, y) >= 0
         /\ N!Ratio(x, x) = 0
         /\ ~N!Within(x, y, 5, 1000) => N!Ratio(x, y) >= 1
PROOF
  <1> DEFINE d == N!Abs(x - y) * 1000
             e == N!Larger(N!Abs(x), N!Abs(y))
  <1>1. CASE x = y
    BY <1>1 DEF N!Ratio, N!Within, N!Abs, N!Larger
  <1>2. CASE x # y
    <2>1. d \in Nat /\ e \in Nat /\ e > 0
      BY <1>2 DEF N!Abs, N!Larger
    <2>2. ~N!Within(x, y, 5, 1000) => d >= e
      <3>1. N!Within(x, y, 5, 1000) <=> d <= 5 * e
        BY DEF N!Within
      <3> HIDE DEF d, e
      <3> QED BY <2>1, <3>1
    <2>3. N!Ratio(x, y) = d \div e /\ N!Ratio(x, x) = 0
      BY <1>2 DEF N!Ratio
    <2> HIDE DEF d, e
    <2>4. d \div e \in Int /\ d \div e >= 0
      BY <2>1
    <2>5. d >= e => d \div e >= 1
      BY <2>1
    <2> QED BY <2>2, <2>3, <2>4, <2>5
  <1> QED BY <1>1, <1>2

(* An occurrence is as good a candidate for itself as another one of its      *)
(* context is, or that one is for itself.                                     *)
LEMMA NobodyIsCloserThanOneself ==
  ASSUME NEW a, NEW h, Numbers(a), Numbers(h), NEW shareOk, N!Compatible(a, h, shareOk)
  PROVE  /\ N!Compatible(a, a, shareOk) /\ N!Compatible(h, h, shareOk)
         /\ N!Score(a, a, 0, shareOk) >= N!Score(a, h, 0, shareOk) \/ N!Score(h, h, 0, shareOk) >= N!Score(a, h, 0, shareOk)
PROOF
  <1>1. N!Compatible(a, a, shareOk) /\ N!Compatible(h, h, shareOk) /\ a.quarter = h.quarter
    <2>1. a.quarter = h.quarter
      BY DEF N!Compatible
    <2>2. CASE a.bucket = h.bucket /\ a.bucket # "unknown" /\ (a.bucket = "shares" => shareOk)
      BY <2>1, <2>2 DEF N!Compatible
    <2>3. CASE {a.bucket, h.bucket} = {"main", "highlights"}
      <3>1. a.bucket \in {"main", "highlights"} /\ h.bucket \in {"main", "highlights"}
        BY <2>3
      <3> QED BY <2>1, <3>1 DEF N!Compatible
    <2> QED BY <2>1, <2>2, <2>3 DEF N!Compatible
  <1>2. /\ N!Norm(a) \in Int /\ N!Norm(h) \in Int
        /\ a.conf \in Int /\ h.conf \in Int
    BY DEF N!Norm, Numbers
  <1>3. /\ N!Closest(a, h, 0) \in Int /\ N!Closest(a, h, 0) >= 0
        /\ N!Closest(a, a, 0) = 0 /\ N!Closest(h, h, 0) = 0
    BY <1>2, DistanceIsSeen DEF N!Closest
  <1>4. /\ N!Label(a, h) \in Int /\ N!Label(a, a) \in Int /\ N!Label(h, h) \in Int
        /\ 2 * N!Label(a, h) <= N!Label(a, a) + N!Label(h, h)
    BY DEF N!Label
  <1>5. /\ N!Period(a, h) \in Int /\ N!Period(a, a) \in Int /\ N!Period(h, h) \in Int
        /\ 2 * N!Period(a, h) <= N!Period(a, a) + N!Period(h, h)
    BY <1>1 DEF N!Period
  <1>6. /\ N!Source(a, h) \in Int /\ N!Source(a, a) \in Int /\ N!Source(h, h) \in Int
        /\ 2 * N!Source(a, h) = N!Source(a, a) + N!Source(h, h)
    BY DEF N!Source
  <1> DEFINE both == Weighted(a, h, shareOk)
             left == Weighted(a, a, shareOk)
             right == Weighted(h, h, shareOk)
  <1>7. both \in Int /\ left \in Int /\ right \in Int /\ 2 * both <= left + right
    BY <1>1, <1>2, <1>3, <1>4, <1>5, <1>6 DEF Weighted
  <1>8. /\ N!Score(a, h, 0, shareOk) = both \div 1000
        /\ N!Score(a, a, 0, shareOk) = left \div 1000
        /\ N!Score(h, h, 0, shareOk) = right \div 1000
    BY DEF Weighted, N!Score
  <1> HIDE DEF both, left, right
  <1>9. left \div 1000 >= both \div 1000 \/ right \div 1000 >= both \div 1000
    BY <1>7
  <1> QED BY <1>1, <1>8, <1>9

(* A list compared with itself: each occurrence explains itself, and a pair is *)
(* explained and ranked in the same way from either side.                     *)
IsItself(q) == IsCompared(q) /\ q.as = q.hs /\ q.factor = 0

LEMMA EachExplainsItself ==
  ASSUME NEW q, IsItself(q), NEW i \in 1 .. Len(q.as)
  PROVE  <<i, i>> \in N!Explained(q) /\ N!KindOf(q, <<i, i>>) = "direct"
PROOF
  <1> DEFINE p == <<i, i>>
  <1>1. p[1] = i /\ p[2] = i /\ p \in (1 .. Len(q.as)) \X (1 .. Len(q.hs)) /\ q.as[i] = q.hs[i]
    BY DEF IsItself
  <1> HIDE DEF p
  <1>2. p \in N!Pairs(q)
    BY <1>1 DEF N!Pairs, N!Scored
  <1>3. N!KindOf(q, p) = "direct"
    BY <1>1 DEF N!KindOf, N!Kind, N!YearsAgree
  <1> QED BY <1>2, <1>3 DEF N!Explained, p

LEMMA ExplainedBothWays ==
  ASSUME NEW q, IsItself(q), NEW p \in N!Explained(q)
  PROVE  Swap(p) \in N!Explained(q) /\ N!Ranks(q)[Swap(p)] = N!Ranks(q)[p]
PROOF
  <1> DEFINE t == Swap(p)
             a == q.as[p[1]]
             h == q.as[p[2]]
  <1>1. /\ p \in N!Pairs(q) /\ N!KindOf(q, p) # "none"
        /\ p[1] \in 1 .. Len(q.as) /\ p[2] \in 1 .. Len(q.as)
    BY DEF N!Explained, N!Pairs, IsItself
  <1>2. t[1] = p[2] /\ t[2] = p[1] /\ t \in (1 .. Len(q.as)) \X (1 .. Len(q.as))
    BY <1>1 DEF Swap
  <1>3. q.as = q.hs /\ q.factor = 0 /\ q.tol = 0 /\ Numbers(a) /\ Numbers(h)
    BY <1>1 DEF IsItself, IsCompared
  <1> HIDE DEF t, a, h
  <1>4. N!Scored(h, a)
    BY <1>1, <1>3, ContextsAreMutual DEF N!Pairs, a, h
  <1>5. t \in N!Pairs(q)
    BY <1>2, <1>3, <1>4 DEF N!Pairs, a, h
  <1>6. N!KindOf(q, t) = N!Kind(h, a, 0, 0, q.shareOk) /\ N!KindOf(q, p) = N!Kind(a, h, 0, 0, q.shareOk)
    BY <1>2, <1>3 DEF N!KindOf, a, h
  <1>7. N!KindOf(q, t) = N!KindOf(q, p)
    BY <1>3, <1>6, ComparisonIsMutual
  <1>8. t \in N!Explained(q)
    BY <1>1, <1>5, <1>7 DEF N!Explained
  <1>9. /\ N!ScoreOf(q, t) = N!Score(h, a, 0, q.shareOk)
        /\ N!ScoreOf(q, p) = N!Score(a, h, 0, q.shareOk)
    BY <1>2, <1>3 DEF N!ScoreOf, a, h
  <1>10. N!ScoreOf(q, t) = N!ScoreOf(q, p)
    BY <1>3, <1>9, ComparisonIsMutual
  <1>11. (IF N!Compatible(h, a, q.shareOk) THEN 1 ELSE 0) = (IF N!Compatible(a, h, q.shareOk) THEN 1 ELSE 0)
    BY ContextsAreMutual
  <1>12. - N!Ratio(N!Norm(h), N!Norm(a)) = - N!Ratio(N!Norm(a), N!Norm(h))
    BY <1>3, ComparisonIsMutual
  <1>13. /\ N!RankOf(q, t) = <<IF N!KindOf(q, t) = "currency" THEN 1 ELSE 0, IF N!Compatible(h, a, q.shareOk) THEN 1 ELSE 0,
                               N!ScoreOf(q, t), - N!Ratio(N!Norm(h), N!Norm(a))>>
         /\ N!RankOf(q, p) = <<IF N!KindOf(q, p) = "currency" THEN 1 ELSE 0, IF N!Compatible(a, h, q.shareOk) THEN 1 ELSE 0,
                               N!ScoreOf(q, p), - N!Ratio(N!Norm(a), N!Norm(h))>>
    BY <1>2, <1>3 DEF N!RankOf, a, h
  <1>14. N!RankOf(q, t) = N!RankOf(q, p)
    BY <1>7, <1>10, <1>11, <1>12, <1>13
  <1> QED BY <1>8, <1>14 DEF N!Ranks, t

(* Nothing is left over.                                                      *)
LEMMA NothingIsLeft ==
  ASSUME NEW q, IsItself(q)
  PROVE  N!Left(q) = {}
PROOF
  <1> DEFINE pairs == N!Explained(q)
             rank == N!Ranks(q)
             m == N!Assigned(q)
  <1>1. /\ pairs \in SUBSET (Int \X Int) /\ IsFiniteSet(pairs)
        /\ \A p \in pairs : rank[p] \in Ints(4)
    BY NumericRanks DEF IsCompared, IsItself
  <1>2. \A p \in pairs : Swap(p) \in pairs /\ rank[Swap(p)] = rank[p]
    BY ExplainedBothWays
  <1>3. m = Greedy(Ranked(pairs, rank))
    BY SameOperators DEF N!Assigned, N!Order
  <1>4. \A i \in 1 .. Len(q.as) : <<i, i>> \in pairs
    BY EachExplainsItself
  <1> HIDE DEF pairs, rank, m
  <1>5. m \subseteq pairs /\ Unblocked(m, pairs, rank)
    BY <1>1, <1>3, GreedyIsFair
  <1>6. \A p \in m : Swap(p) \in m
    BY <1>1, <1>2, <1>3, MatchedBothWays
  <1>7. ASSUME NEW i \in 1 .. Len(q.as) PROVE \E r \in m : r[1] = i
    <2> DEFINE p == <<i, i>>
    <2>1. p \in pairs /\ p[1] = i /\ p[2] = i
      BY <1>4
    <2> HIDE DEF p
    <2>2. CASE p \in m
      BY <2>1, <2>2
    <2>3. CASE p \notin m
      <3>1. PICK r \in m : r[1] = i \/ r[2] = i
        BY <1>5, <2>1, <2>3 DEF Unblocked, Meets
      <3>2. Swap(r) \in m /\ Swap(r)[1] = r[2]
        BY <1>6 DEF Swap
      <3> QED BY <3>1, <3>2
    <2> QED BY <2>2, <2>3
  <1>8. ASSUME NEW p \in N!Left(q) PROVE FALSE
    <2>1. p[1] \in 1 .. Len(q.as) /\ p[1] \notin N!Lefts(m)
      BY DEF N!Left, N!Pairs, m
    <2>2. PICK r \in m : r[1] = p[1]
      BY <1>7, <2>1
    <2> QED BY <2>1, <2>2 DEF N!Lefts
  <1> QED BY <1>8

LEMMA LaterRanksDecide ==
  ASSUME NEW x \in Int, NEW y \in Int, NEW s \in Int, NEW t \in Int, NEW u \in Int, NEW v \in Int,
         s > t \/ (s = t /\ u > v)
  PROVE  Above(<<x, y, s, u>>, <<x, y, t, v>>)
PROOF
  <1> DEFINE r == <<x, y, s, u>>
             o == <<x, y, t, v>>
  <1>1. /\ Len(r) = 4 /\ r[1] = x /\ r[2] = y /\ r[3] = s /\ r[4] = u
        /\ o[1] = x /\ o[2] = y /\ o[3] = t /\ o[4] = v
    OBVIOUS
  <1> HIDE DEF r, o
  <1>2. CASE s > t
    <2>1. 3 \in 1 .. Len(r) /\ r[3] > o[3] /\ \A l \in 1 .. (3 - 1) : r[l] = o[l]
      <3>1. \A l \in 1 .. (3 - 1) : l = 1 \/ l = 2
        OBVIOUS
      <3> QED BY <1>1, <1>2, <3>1
    <2> QED BY <2>1 DEF Above, r, o
  <1>3. CASE s = t /\ u > v
    <2>1. 4 \in 1 .. Len(r) /\ r[4] > o[4] /\ \A l \in 1 .. (4 - 1) : r[l] = o[l]
      <3>1. \A l \in 1 .. (4 - 1) : l = 1 \/ l = 2 \/ l = 3
        OBVIOUS
      <3> QED BY <1>1, <1>3, <3>1
    <2> QED BY <2>1 DEF Above, r, o
  <1> QED BY <1>2, <1>3

(* An occurrence that explains another one of another amount comes after one   *)
(* of the two with itself.                                                    *)
LEMMA OneselfComesFirst ==
  ASSUME NEW q, IsItself(q), NEW p \in N!Explained(q), N!KindOf(q, p) # "direct"
  PROVE  \E r \in N!Explained(q) : Above(N!Ranks(q)[r], N!Ranks(q)[p])
PROOF
  <1> DEFINE a == q.as[p[1]]
             h == q.as[p[2]]
             x == N!Norm(a)
             y == N!Norm(h)
  <1>1. /\ N!KindOf(q, p) # "none"
        /\ p[1] \in 1 .. Len(q.as) /\ p[2] \in 1 .. Len(q.as)
    BY DEF N!Explained, N!Pairs, IsItself
  <1>2. q.as = q.hs /\ q.factor = 0 /\ q.tol = 0 /\ Numbers(a) /\ Numbers(h)
    BY <1>1 DEF IsItself, IsCompared
  <1>3. N!KindOf(q, p) = N!Kind(a, h, 0, 0, q.shareOk)
    BY <1>2 DEF N!KindOf
  <1> HIDE DEF a, h
  <1>4. x \in Int /\ y \in Int
    BY <1>2 DEF N!Norm, Numbers
  <1> HIDE DEF x, y
  <1>5. x # y /\ N!Compatible(a, h, q.shareOk) /\ N!KindOf(q, p) = N!KindAgreed(a, h, 0, 0)
    BY <1>1, <1>3 DEF N!Kind, x, y
  <1>6. N!KindOf(q, p) # "currency"
    BY <1>5 DEF N!KindAgreed
  <1>7. ~N!Within(x, y, 5, 1000)
    BY <1>5 DEF N!KindAgreed, x, y
  <1>8. N!Ratio(x, y) \in Int /\ N!Ratio(x, y) >= 1 /\ N!Ratio(x, x) = 0 /\ N!Ratio(y, y) = 0
    BY <1>4, <1>7, DistanceIsSeen
  <1> DEFINE both == N!Score(a, h, 0, q.shareOk)
             left == N!Score(a, a, 0, q.shareOk)
             right == N!Score(h, h, 0, q.shareOk)
             away == - N!Ratio(x, y)
  <1>9. both \in Int /\ left \in Int /\ right \in Int
    BY <1>2, ScoresAreNumbers
  <1>10. /\ N!Compatible(a, a, q.shareOk) /\ N!Compatible(h, h, q.shareOk)
         /\ left >= both \/ right >= both
    BY <1>2, <1>5, NobodyIsCloserThanOneself
  <1>11. N!Ranks(q)[p] = <<0, 1, both, away>>
    BY <1>2, <1>5, <1>6 DEF N!Ranks, N!RankOf, N!ScoreOf, a, h, x, y
  <1>12. away \in Int /\ 0 > away
    BY <1>8
  <1> HIDE DEF both, left, right, away
  <1>13. ASSUME NEW i \in 1 .. Len(q.as), NEW c, c = q.as[i], NEW score \in Int, score = N!Score(c, c, 0, q.shareOk),
                N!Compatible(c, c, q.shareOk), N!Ratio(N!Norm(c), N!Norm(c)) = 0, score >= both
         PROVE  \E r \in N!Explained(q) : Above(N!Ranks(q)[r], N!Ranks(q)[p])
    <2> DEFINE r == <<i, i>>
    <2>1. r \in N!Explained(q) /\ N!KindOf(q, r) = "direct" /\ r[1] = i /\ r[2] = i
      BY EachExplainsItself
    <2> HIDE DEF r
    <2>2. N!Ranks(q)[r] = <<0, 1, score, 0>>
      <3>1. - N!Ratio(N!Norm(c), N!Norm(c)) = 0
        <4> DEFINE none == N!Ratio(N!Norm(c), N!Norm(c))
        <4>1. none \in Int /\ none <= 0 /\ none >= 0
          BY <1>13
        <4> HIDE DEF none
        <4>2. - none = 0
          BY <4>1
        <4> QED BY <4>2 DEF none
      <3> QED BY <1>2, <1>13, <2>1, <3>1 DEF N!Ranks, N!RankOf, N!ScoreOf
    <2>3. Above(<<0, 1, score, 0>>, <<0, 1, both, away>>)
      <3>1. score > both \/ (score = both /\ 0 > away)
        BY <1>9, <1>12, <1>13
      <3> QED BY <1>9, <1>12, <3>1, LaterRanksDecide
    <2> QED BY <1>11, <2>1, <2>2, <2>3
  <1>14. CASE left >= both
    BY <1>1, <1>8, <1>9, <1>10, <1>13, <1>14 DEF a, x, left
  <1>15. CASE right >= both
    BY <1>1, <1>8, <1>9, <1>10, <1>13, <1>15 DEF h, y, right
  <1> QED BY <1>10, <1>14, <1>15

(* Nor is anything told.                                                      *)
LEMMA NothingIsToldOfItself ==
  ASSUME NEW q, IsItself(q)
  PROVE  N!Diffs(q) = <<>>
PROOF
  <1> DEFINE pairs == N!Explained(q)
             rank == N!Ranks(q)
             s == Ranked(pairs, rank)
  <1>1. N!Told(q) = <<>>
    <2>1. CASE pairs = {}
      BY <2>1 DEF N!Told
    <2>2. CASE pairs # {}
      <3>1. /\ pairs \in SUBSET (Int \X Int) /\ IsFiniteSet(pairs)
            /\ \A p \in pairs : rank[p] \in Ints(4)
        BY NumericRanks DEF IsCompared, IsItself
      <3>2. s = N!Order(q)
        BY SameOperators DEF N!Order
      <3> HIDE DEF pairs, rank
      <3>3. /\ Len(s) \in Nat
            /\ \A k \in 1 .. Len(s) : s[k] \in pairs
            /\ \A p \in pairs : \E k \in 1 .. Len(s) : s[k] = p
            /\ \A k, l \in 1 .. Len(s) : k < l => ~Before(rank, s[l], s[k])
        BY <3>1, RankedInOrder
      <3> HIDE DEF s
      <3> DEFINE p == Head(s)
      <3>4. 1 \in 1 .. Len(s) /\ p = s[1] /\ p \in pairs
        BY <2>2, <3>3
      <3> HIDE DEF p
      <3>5. ASSUME NEW r \in pairs, Above(rank[r], rank[p]) PROVE FALSE
        <4>1. PICK k \in 1 .. Len(s) : s[k] = r
          BY <3>3
        <4>2. k # 1
          BY <3>1, <3>4, <3>5, <4>1, RanksCompare
        <4>3. 1 < k
          BY <3>3, <4>2
        <4> QED BY <3>3, <3>4, <3>5, <4>1, <4>3 DEF Before
      <3>6. N!KindOf(q, p) = "direct"
        BY <3>4, <3>5, OneselfComesFirst DEF pairs, rank
      <3> QED BY <2>2, <3>2, <3>6 DEF N!Told, p, pairs
    <2> QED BY <2>1, <2>2
  <1>2. N!Diffs(q) = <<>> \o <<>>
    BY <1>1, NothingIsLeft DEF N!Diffs
  <1> QED BY <1>2

(* The numeric part of SameReportIsClean.                                     *)
LEMMA NumericIsClean ==
  ASSUME RunNumeric
  PROVE  NumericSameIsClean'
PROOF
  <1>1. IsCompared(input') /\ found'.told = N!Diffs(input')
    BY WhatIsCompared
  <1>2. input'.as = input'.hs /\ input'.factor = 0 => N!Diffs(input') = <<>>
    BY <1>1, NothingIsToldOfItself DEF IsItself
  <1> QED BY <1>1, <1>2 DEF NumericSameIsClean

-----------------------------------------------------------------------------
(* Events.                                                                    *)
LEMMA CommonIsANumber ==
  ASSUME NEW X, NEW Y, IsFiniteSet(X), IsFiniteSet(Y)
  PROVE  /\ Cardinality(X \intersect Y) \in Nat /\ Cardinality(X \union Y) \in Nat
         /\ X # {} => Cardinality(X \union Y) # 0
PROOF
  <1>1. IsFiniteSet(X \intersect Y) /\ IsFiniteSet(X \union Y)
    BY FS_Intersection, FS_Union
  <1> QED BY <1>1, FS_CardinalityType, FS_EmptySet

LEMMA EventScoresAreNumbers ==
  ASSUME NEW a, NEW h, IsFiniteSet(a.words), IsFiniteSet(h.words)
  PROVE  E!EventScore(a, h) \in Int
PROOF
  <1>1. E!Tokens(a, h) \in Int
    <2> DEFINE x == Cardinality(a.words \intersect h.words)
               y == Cardinality(a.words \union h.words)
    <2>1. x \in Nat /\ y \in Nat /\ (a.words # {} => y # 0)
      BY CommonIsANumber, Zenon
    <2>2. E!Tokens(a, h) = IF a.words = {} \/ h.words = {} THEN 0 ELSE (1000 * x) \div y
      BY SameOperators DEF E!Tokens
    <2> HIDE DEF x, y
    <2>3. a.words # {} => (1000 * x) \div y \in Int
      BY <2>1
    <2> QED BY <2>2, <2>3
  <1>2. E!Wording(a, h) \in Int
    BY <1>1 DEF E!Wording
  <1> DEFINE t == E!Tokens(a, h)
             w == E!Wording(a, h)
  <1>3. (t + w) \div 5 \in Int /\ (t + w) \div 4 \in Int /\ (24 * t + 26 * w) \div 100 \in Int
    BY <1>1, <1>2
  <1> HIDE DEF t, w
  <1>4. E!FactPoints(a, h) \in Int
    BY DEF E!FactPoints, E!Points
  <1>5. E!TopicPoints(a, h) \in Int
    BY DEF E!TopicPoints, E!Points
  <1> QED BY <1>3, <1>4, <1>5 DEF E!EventScore, E!AtMost, t, w

(* An event of A takes one of those that fit best, if one fits.               *)
LEMMA BestIsFree ==
  ASSUME NEW as, NEW hs, IsList(hs), NEW i, NEW taken,
         \A j \in 1 .. Len(hs) : E!EventScore(as[i], hs[j]) \in Int
  PROVE  LET j == E!BestFor(as, hs, i, taken)
         IN  \/ j = 0 /\ \A k \in 1 .. Len(hs) \ taken : E!EventScore(as[i], hs[k]) < 420
             \/ j # 0 /\ j \in 1 .. Len(hs) \ taken
PROOF
  <1> DEFINE Score(j) == E!EventScore(as[i], hs[j])
             fit == {j \in DOMAIN hs \ taken : Score(j) >= 420}
             Best(j) == \A k \in fit : Score(j) > Score(k) \/ (Score(j) = Score(k) /\ j <= k)
             Ord == {o \in fit \X fit : Score(o[1]) > Score(o[2]) \/ (Score(o[1]) = Score(o[2]) /\ o[1] < o[2])}
  <1>1. /\ fit \in SUBSET (1 .. Len(hs)) /\ IsFiniteSet(fit)
        /\ \A j \in fit : Score(j) \in Int /\ j \in Int
        /\ Len(hs) \in Nat /\ DOMAIN hs = 1 .. Len(hs)
    <2>1. fit \in SUBSET (1 .. Len(hs)) /\ Len(hs) \in Nat /\ DOMAIN hs = 1 .. Len(hs)
      BY DEF IsList
    <2>2. IsFiniteSet(fit)
      BY <2>1, Places, FS_Subset
    <2>3. \A j \in fit : j \in 1 .. Len(hs) /\ j \in Int
      BY <2>1
    <2> HIDE DEF fit
    <2> QED BY <2>1, <2>2, <2>3
  <1>2. E!BestFor(as, hs, i, taken) = IF fit = {} THEN 0 ELSE CHOOSE j \in fit : Best(j)
    BY DEF E!BestFor
  <1>3. ASSUME NEW x \in fit, NEW y \in fit
        PROVE  <<x, y>> \in Ord <=> Score(x) > Score(y) \/ (Score(x) = Score(y) /\ x < y)
    <2> DEFINE o == <<x, y>>
    <2>1. o \in fit \X fit /\ o[1] = x /\ o[2] = y
      OBVIOUS
    <2> HIDE DEF o, fit, Score
    <2> QED BY <2>1 DEF o
  <1> HIDE DEF fit, Ord, Score
  <1>4. IsOrder(Ord, fit)
    BY <1>1, <1>3 DEF IsOrder
  <1>5. fit # {} => \E j \in fit : Best(j)
    <2> SUFFICES ASSUME fit # {} PROVE \E j \in fit : Best(j)
      OBVIOUS
    <2>1. PICK j \in fit : \A k \in fit : <<k, j>> \notin Ord
      BY <1>1, <1>4, SomeoneIsFirst
    <2>2. ASSUME NEW k \in fit PROVE Score(j) > Score(k) \/ (Score(j) = Score(k) /\ j <= k)
      <3>1. ~(Score(k) > Score(j) \/ (Score(k) = Score(j) /\ k < j))
        BY <1>3, <2>1
      <3>2. Score(j) \in Int /\ Score(k) \in Int /\ j \in Int /\ k \in Int
        BY <1>1
      <3> QED BY <3>1, <3>2
    <2> QED BY <2>2
  <1>6. CASE fit = {}
    <2>1. ASSUME NEW k \in 1 .. Len(hs) \ taken PROVE Score(k) < 420
      <3>1. Score(k) \in Int /\ ~(Score(k) >= 420)
        BY <1>1, <1>6, <2>1 DEF fit, Score
      <3> QED BY <3>1
    <2> QED BY <1>2, <1>6, <2>1 DEF Score
  <1>7. CASE fit # {}
    <2> HIDE DEF Best
    <2>1. E!BestFor(as, hs, i, taken) \in fit
      BY <1>2, <1>5, <1>7
    <2>2. E!BestFor(as, hs, i, taken) \in 1 .. Len(hs)
      BY <1>1, <2>1
    <2>3. E!BestFor(as, hs, i, taken) \notin taken
      BY <2>1 DEF fit
    <2>4. \A k \in 1 .. Len(hs) : k # 0
      OBVIOUS
    <2> QED BY <2>2, <2>3, <2>4
  <1> QED BY <1>6, <1>7

LEMMA EventsFollow ==
  ASSUME NEW as, NEW hs, Len(as) \in Nat
  PROVE  \E g : /\ g[0] = {}
                /\ \A k \in 1 .. Len(as) : g[k] = E!Taken(as, hs, g[k - 1], k)
                /\ E!EventPairs(as, hs) = g[Len(as)]
PROOF
  <1> DEFINE n == Len(as)
             Is(g, m) == g = [k \in 0 .. m |-> IF k = 0 THEN {} ELSE E!Taken(as, hs, g[k - 1], k)]
             S == {m \in Nat : \E g : Is(g, m)}
  <1>1. 0 \in S
    <2>1. Is([k \in 0 .. 0 |-> {}], 0)
      OBVIOUS
    <2> QED BY <2>1
  <1>2. ASSUME NEW m \in Nat, m \in S PROVE m + 1 \in S
    <2>1. PICK g : Is(g, m)
      BY <1>2
    <2> DEFINE h == [k \in 0 .. (m + 1) |-> IF k = m + 1 THEN E!Taken(as, hs, g[m], k) ELSE g[k]]
    <2>2. Is(h, m + 1)
      <3> SUFFICES ASSUME NEW k \in 0 .. (m + 1)
                   PROVE  h[k] = IF k = 0 THEN {} ELSE E!Taken(as, hs, h[k - 1], k)
        OBVIOUS
      <3>1. k = 0 \/ k - 1 \in 0 .. m
        OBVIOUS
      <3>2. CASE k = m + 1
        BY <2>1, <3>1, <3>2
      <3>3. CASE k \in 0 .. m
        <4>1. g[k] = IF k = 0 THEN {} ELSE E!Taken(as, hs, g[k - 1], k)
          BY <2>1, <3>3
        <4>2. h[k] = g[k] /\ (k # 0 => h[k - 1] = g[k - 1])
          BY <3>1, <3>3
        <4> HIDE DEF h
        <4> QED BY <4>1, <4>2
      <3>4. k = m + 1 \/ k \in 0 .. m
        OBVIOUS
      <3> HIDE DEF h
      <3> QED BY <3>2, <3>3, <3>4
    <2> HIDE DEF h, Is
    <2>3. \E x : Is(x, m + 1)
      BY <2>2
    <2> QED BY <2>3
  <1> HIDE DEF S
  <1>3. n \in S
    BY <1>1, <1>2, EveryNumber
  <1> DEFINE after == CHOOSE g : Is(g, n)
  <1>4. Is(after, n)
    BY <1>3 DEF S
  <1>5. E!EventPairs(as, hs) = after[n]
    BY DEF E!EventPairs
  <1> HIDE DEF after
  <1>6. \A k \in 0 .. n : after[k] = IF k = 0 THEN {} ELSE E!Taken(as, hs, after[k - 1], k)
    BY <1>4
  <1>7. after[0] = {} /\ \A k \in 1 .. n : after[k] = E!Taken(as, hs, after[k - 1], k)
    <2>1. n \in Nat
      OBVIOUS
    <2> HIDE DEF Is, n
    <2>2. 0 \in 0 .. n /\ \A k \in 1 .. n : k \in 0 .. n /\ k # 0
      BY <2>1
    <2> QED BY <1>6, <2>2
  <1> QED BY <1>5, <1>7

LEMMA EventPairsAreOneToOne ==
  ASSUME NEW as, NEW hs, IsList(as), IsList(hs),
         \A i \in 1 .. Len(as) : IsFiniteSet(as[i].words),
         \A j \in 1 .. Len(hs) : IsFiniteSet(hs[j].words)
  PROVE  LET m == E!EventPairs(as, hs)
         IN  /\ OneToOne(m)
             /\ \A i \in DOMAIN as \ Lefts(m), j \in DOMAIN hs \ Rights(m) : E!EventScore(as[i], hs[j]) < 420
PROOF
  <1> DEFINE n == Len(as)
             Score(i, j) == E!EventScore(as[i], hs[j])
  <1>1. n \in Nat /\ DOMAIN as = 1 .. n /\ DOMAIN hs = 1 .. Len(hs)
    BY DEF IsList
  <1>2. PICK g : /\ g[0] = {}
                 /\ \A k \in 1 .. n : g[k] = E!Taken(as, hs, g[k - 1], k)
                 /\ E!EventPairs(as, hs) = g[n]
    BY <1>1, EventsFollow
  <1>3. \A i \in 1 .. n, j \in 1 .. Len(hs) : Score(i, j) \in Int
    BY EventScoresAreNumbers
  <1> DEFINE Ok(m, k) == /\ OneToOne(m) /\ \A p \in m : p[1] \in 1 .. k
                         /\ \A i \in 1 .. k, j \in 1 .. Len(hs) :
                              i \in Lefts(m) \/ j \in Rights(m) \/ Score(i, j) < 420
             S == {k \in Nat : k <= n => Ok(g[k], k)}
  <1> HIDE DEF n, Score
  <1>4. 0 \in S
    BY <1>2 DEF OneToOne
  <1>5. ASSUME NEW k \in Nat, k \in S PROVE k + 1 \in S
    <2> SUFFICES ASSUME k + 1 <= n PROVE Ok(g[k + 1], k + 1)
      OBVIOUS
    <2> DEFINE m == g[k]
               j == E!BestFor(as, hs, k + 1, Rights(m))
    <2>1. k + 1 \in 1 .. n /\ (k + 1) - 1 = k /\ k <= n
      BY <1>1
    <2>2. Ok(m, k) /\ g[k + 1] = E!Taken(as, hs, m, k + 1)
      BY <1>2, <1>5, <2>1
    <2>3. E!Rights(m) = Rights(m)
      BY DEF E!Rights, Rights
    <2>4. g[k + 1] = IF j = 0 THEN m ELSE m \union {<<k + 1, j>>}
      BY <2>2, <2>3 DEF E!Taken
    <2>5. \/ j = 0 /\ \A i \in 1 .. Len(hs) \ Rights(m) : Score(k + 1, i) < 420
          \/ j # 0 /\ j \in 1 .. Len(hs) \ Rights(m)
      <3>1. \A i \in 1 .. Len(hs) : E!EventScore(as[k + 1], hs[i]) \in Int
        BY <1>3, <2>1 DEF Score
      <3> QED BY <3>1, BestIsFree DEF Score
    <2> HIDE DEF m, j
    <2>6. \A i \in 1 .. (k + 1) : i \in 1 .. k \/ i = k + 1
      OBVIOUS
    <2>7. \A i \in 1 .. k : i \in 1 .. (k + 1) /\ i # k + 1
      OBVIOUS
    <2>8. CASE j = 0
      BY <2>2, <2>4, <2>5, <2>6, <2>7, <2>8
    <2>9. CASE j # 0
      <3> DEFINE p == <<k + 1, j>>
      <3>1. p[1] = k + 1 /\ p[2] = j /\ g[k + 1] = m \union {p}
        BY <2>4, <2>9
      <3> HIDE DEF p
      <3>2. \A q \in m : ~Meets(p, q) /\ ~Meets(q, p)
        BY <2>2, <2>5, <2>7, <2>9, <3>1 DEF Meets, Rights
      <3>3. OneToOne(m \union {p})
        BY <2>2, <3>2 DEF OneToOne
      <3>4. k + 1 \in Lefts(m \union {p}) /\ Lefts(m) \subseteq Lefts(m \union {p})
            /\ Rights(m) \subseteq Rights(m \union {p})
        BY <3>1 DEF Lefts, Rights
      <3>5. \A q \in m \union {p} : q[1] \in 1 .. (k + 1)
        BY <2>2, <2>7, <3>1
      <3> QED BY <2>2, <2>6, <3>1, <3>3, <3>4, <3>5
    <2> QED BY <2>8, <2>9
  <1> HIDE DEF S, Ok
  <1>6. n \in S
    BY <1>1, <1>4, <1>5, EveryNumber
  <1>7. Ok(E!EventPairs(as, hs), n)
    BY <1>1, <1>2, <1>6 DEF S
  <1> QED BY <1>1, <1>7 DEF Ok, Score

HasWords(e) == "words" \in DOMAIN e /\ IsFiniteSet(e.words)

LEMMA ExtractedIsAList ==
  ASSUME NEW s, IsList(s), \A i \in 1 .. Len(s) : HasWords(s[i])
  PROVE  LET t == E!Extracted(s) IN IsList(t) /\ \A i \in 1 .. Len(t) : HasWords(t[i])
PROOF
  <1>1. PICK places : /\ places \subseteq DOMAIN s
                      /\ LET kept == E!Picked(s, places)
                         IN E!Extracted(s) = [i \in DOMAIN kept |-> E!EventOf(kept[i])]
    BY DEF E!Extracted
  <1> DEFINE kept == Picked(s, places)
             t == [i \in DOMAIN kept |-> E!EventOf(kept[i])]
             n == Len(s)
  <1>2. /\ n \in Nat /\ places \in SUBSET (1 .. n)
        /\ E!Extracted(s) = t
    BY <1>1, SameOperators DEF IsList
  <1> HIDE DEF n
  <1>3. IsList(kept) /\ \A k \in 1 .. Len(kept) : \E i \in places : kept[k] = s[i]
    BY <1>2, PickedIsAList, Zenon
  <1>4. \A k \in 1 .. Len(kept) : HasWords(kept[k])
    BY <1>2, <1>3 DEF n
  <1> HIDE DEF kept
  <1>5. ASSUME NEW f, HasWords(f) PROVE HasWords(E!EventOf(f))
    <2> DEFINE amounts == {<<E!AmountRole(m), m.n>> : m \in E!AmountsOf(f)}
               pcts == {<<E!PctRole(m), m.n>> : m \in E!PctsOf(f)}
    <2>1. E!EventOf(f) = [x \in DOMAIN f \union {"amounts", "pcts"} |->
                            CASE x = "amounts" -> amounts [] x = "pcts" -> pcts [] OTHER -> f[x]]
      BY DEF E!EventOf
    <2> HIDE DEF amounts, pcts
    <2> QED BY <1>5, <2>1 DEF HasWords
  <1>6. Len(t) = Len(kept) /\ DOMAIN t = 1 .. Len(kept)
    BY <1>3 DEF IsList
  <1>7. IsList(t)
    BY <1>3, <1>6 DEF IsList
  <1>8. \A k \in 1 .. Len(t) : HasWords(t[k])
    BY <1>4, <1>5, <1>6
  <1> QED BY <1>2, <1>7, <1>8

LEMMA EventsAreFair ==
  ASSUME RunEvents
  PROVE  EventPairsAreFair'
PROOF
  <1>1. PICK as, to, same : /\ as \in EventSides
                            /\ \E hs \in Others(as, to) :
                                 input' = [as |-> E!Extracted(as), hs |-> E!Extracted(hs), same |-> same]
    BY Zenon DEF RunEvents
  <1>2. PICK hs \in Others(as, to) : input' = [as |-> E!Extracted(as), hs |-> E!Extracted(hs), same |-> same]
    BY <1>1
  <1>3. \E s, at : s \in EventSides /\ hs = Reworded(s, at, to)
    BY <1>1 DEF Others
  <1>4. PICK s, at : s \in EventSides /\ hs = Reworded(s, at, to)
    BY <1>3
  <1>5. \A e \in EventSides : IsList(e) /\ \A i \in 1 .. Len(e) : HasWords(e[i])
    BY EventsAssumption DEF EventsAssumption, HasWords, IsList
  <1>6. ASSUME NEW e, HasWords(e) PROVE HasWords(Restated(e, to))
    BY <1>6 DEF HasWords, Restated
  <1>7. IsList(hs) /\ \A i \in 1 .. Len(hs) : HasWords(hs[i])
    <2>1. DOMAIN s = 1 .. Len(s) /\ Len(s) \in Nat
      BY <1>4, <1>5 DEF IsList
    <2>2. Len(hs) = Len(s) /\ DOMAIN hs = 1 .. Len(s)
      BY <1>4, <2>1 DEF Reworded
    <2>3. ASSUME NEW i \in 1 .. Len(s) PROVE HasWords(hs[i])
      <3>1. hs[i] = Restated(s[i], to) \/ hs[i] = s[i]
        BY <1>4, <2>1 DEF Reworded
      <3> QED BY <1>4, <1>5, <1>6, <3>1
    <2> QED BY <2>1, <2>2, <2>3 DEF IsList
  <1> DEFINE a == E!Extracted(as)
             h == E!Extracted(hs)
  <1>8. IsList(a) /\ \A i \in 1 .. Len(a) : HasWords(a[i])
    BY <1>1, <1>5, ExtractedIsAList, Zenon
  <1>9. IsList(h) /\ \A i \in 1 .. Len(h) : HasWords(h[i])
    BY <1>7, ExtractedIsAList, Zenon
  <1>10. /\ input'.as = a /\ input'.hs = h
        /\ found'.pairs = E!EventPairs(input'.as, input'.hs)
    <2>1. found'.pairs = E!EventPairs(input'.as, input'.hs)
      BY DEF RunEvents
    <2> HIDE DEF a, h
    <2>2. input' = [as |-> a, hs |-> h, same |-> same]
      BY <1>2, Zenon DEF a, h
    <2>3. input'.as = a /\ input'.hs = h
      BY <2>2
    <2> QED BY <2>1, <2>3
  <1> HIDE DEF a, h
  <1>11. LET m == E!EventPairs(a, h)
        IN  /\ OneToOne(m)
            /\ \A i \in DOMAIN a \ Lefts(m), j \in DOMAIN h \ Rights(m) : E!EventScore(a[i], h[j]) < 420
    BY <1>8, <1>9, EventPairsAreOneToOne DEF HasWords
  <1> QED BY <1>10, <1>11 DEF EventPairsAreFair

-----------------------------------------------------------------------------
(* Paragraphs of two languages.                                               *)
IsBlock(b) == b.page \in Int /\ IsFiniteSet(b.topics) /\ IsFiniteSet(b.actions) /\ IsFiniteSet(b.keys)
AreBlocks(s) == IsList(s) /\ \A i \in 1 .. Len(s) : IsBlock(s[i])

LEMMA PairScoresAreNumbers ==
  ASSUME NEW q, AreBlocks(q.zh), AreBlocks(q.en), NEW i \in 1 .. Len(q.zh), NEW j \in 1 .. Len(q.en)
  PROVE  P!ScoreAt(q, <<i, j>>) \in Int
PROOF
  <1> DEFINE z == q.zh[i]
             e == q.en[j]
             topics == P!Common(z.topics, e.topics)
             actions == P!Common(z.actions, e.actions)
             keys == P!Common(z.keys, e.keys)
             place == P!PlaceScore(q.zh, q.en, i, j)
             same == IF P!SameSection(z, e) THEN 2 ELSE 0
             near == IF P!Abs(z.page - e.page) <= 2 THEN 2 ELSE IF P!Abs(z.page - e.page) <= 5 THEN 1 ELSE 0
             score == same + 3 * topics + 5 * actions + 2 * keys + near + place
             over(percent) == 100 * keys > percent * P!Cardinality(z.keys \union e.keys)
             more == IF score < 5 /\ over(75) THEN 3 ELSE IF score < 5 /\ over(60) THEN 1 ELSE 0
  <1>1. IsBlock(z) /\ IsBlock(e)
    BY DEF AreBlocks
  <1>2. topics \in Nat /\ actions \in Nat /\ keys \in Nat
    <2> HIDE DEF z, e
    <2> QED BY <1>1, CommonIsANumber, SameOperators DEF IsBlock, P!Common
  <1>3. place \in Int
    BY DEF P!PlaceScore
  <1>4. same \in Int /\ near \in Int /\ more \in Int
    OBVIOUS
  <1>5. P!ScoreAt(q, <<i, j>>) = score + more
    BY DEF P!ScoreAt, P!PairScore
  <1> HIDE DEF topics, actions, keys, place, same, near, more
  <1>6. score \in Int
    BY <1>2, <1>3, <1>4
  <1> HIDE DEF score
  <1> QED BY <1>4, <1>5, <1>6

(* How a block of the English report is ranked for one of the Chinese.        *)
LEMMA BlockRanks ==
  ASSUME NEW q, AreBlocks(q.zh), AreBlocks(q.en), NEW i \in 1 .. Len(q.zh), NEW j \in 1 .. Len(q.en)
  PROVE  P!BlockRank(q, i, j) \in Ints(5)
PROOF
  <1> DEFINE score == P!ScoreAt(q, <<i, j>>)
             same == IF P!SameSection(q.zh[i], q.en[j]) THEN 1 ELSE 0
             page == - P!Abs(q.en[j].page - q.zh[i].page)
             gap == - P!Abs(i - j)
             last == - j
  <1>1. score \in Int
    BY PairScoresAreNumbers
  <1>2. page \in Int
    <2>1. q.en[j].page \in Int /\ q.zh[i].page \in Int
      BY DEF AreBlocks, IsBlock
    <2> QED BY <2>1 DEF P!Abs
  <1>3. same \in Int /\ gap \in Int /\ last \in Int
    BY DEF P!Abs
  <1> DEFINE c == P!Closeness(q, i, j)
  <1>4. c = <<same, page, gap, last>>
    BY DEF P!Closeness
  <1>5. P!BlockRank(q, i, j) = <<score, c[1], c[2], c[3], c[4]>>
    BY DEF P!BlockRank
  <1> HIDE DEF score, same, page, gap, last, c
  <1>6. c[1] = same /\ c[2] = page /\ c[3] = gap /\ c[4] = last
    BY <1>4
  <1>7. <<score, same, page, gap, last>> \in Ints(5)
    BY <1>1, <1>2, <1>3 DEF Ints
  <1> QED BY <1>5, <1>6, <1>7

(* A block that is still alone takes an open one if one fits.                 *)
LEMMA BlockIsTaken ==
  ASSUME NEW q, AreBlocks(q.zh), AreBlocks(q.en), NEW i \in 1 .. Len(q.zh), NEW m, NEW least \in Int, NEW used
  PROVE  LET open == P!CandidateBlocks(q, i, used)
         IN  IF i \in Lefts(m) \/ \A j \in open : P!ScoreAt(q, <<i, j>>) < least
             THEN P!With(q, m, least, i, used) = m
             ELSE \E j \in open : P!With(q, m, least, i, used) = m \union {<<i, j>>}
PROOF
  <1> DEFINE open == P!CandidateBlocks(q, i, used)
             Score(j) == P!ScoreAt(q, <<i, j>>)
             Place(j) == P!BlockRank(q, i, j)
             fit == {j \in open : Score(j) >= least}
             Best(j) == \A k \in fit : ~P!Above(Place(k), Place(j))
             Ord == {o \in fit \X fit : Above(Place(o[1]), Place(o[2]))}
             d == CHOOSE j \in fit : Best(j)
  <1>1. /\ open \in SUBSET (1 .. Len(q.en)) /\ IsFiniteSet(open)
        /\ IsFiniteSet(fit) /\ fit \in SUBSET open
    <2>1. open \in SUBSET (1 .. Len(q.en)) /\ Len(q.en) \in Nat
      BY DEF P!CandidateBlocks, AreBlocks, IsList
    <2> HIDE DEF open
    <2>2. IsFiniteSet(open) /\ fit \in SUBSET open
      BY <2>1, Places, FS_Subset
    <2> QED BY <2>1, <2>2, FS_Subset
  <1>2. \A j \in open : Score(j) \in Int /\ Place(j) \in Ints(5)
    <2> HIDE DEF open
    <2> QED BY <1>1, PairScoresAreNumbers, BlockRanks
  <1>3. P!With(q, m, least, i, used) = IF i \in P!Lefts(m) \/ fit = {} THEN m ELSE m \union {<<i, d>>}
    BY DEF P!With
  <1>4. P!Lefts(m) = Lefts(m)
    BY DEF P!Lefts, Lefts
  <1> HIDE DEF open, Score, Place
  <1>5. fit = {} <=> \A j \in open : Score(j) < least
    BY <1>2
  <1>6. ASSUME NEW x \in fit, NEW y \in fit PROVE <<x, y>> \in Ord <=> Above(Place(x), Place(y))
    <2> DEFINE o == <<x, y>>
    <2>1. o \in fit \X fit /\ o[1] = x /\ o[2] = y
      OBVIOUS
    <2> HIDE DEF o, fit
    <2> QED BY <2>1 DEF o
  <1> HIDE DEF fit, Ord
  <1>7. IsOrder(Ord, fit)
    BY <1>1, <1>2, <1>6, RanksCompare DEF IsOrder
  <1>8. fit # {} => d \in fit
    <2> SUFFICES ASSUME fit # {} PROVE \E j \in fit : Best(j)
      OBVIOUS
    <2>1. PICK j \in fit : \A k \in fit : <<k, j>> \notin Ord
      BY <1>1, <1>7, SomeoneIsFirst
    <2> QED BY <1>6, <2>1, SameOperators
  <1> HIDE DEF d
  <1>9. fit # {} => d \in open
    BY <1>1, <1>8
  <1> QED BY <1>3, <1>4, <1>5, <1>9 DEF Score, open

(* A block that is open to another while some are used is open to it still    *)
(* when these are not looked at.                                              *)
LEMMA OpenBlocks ==
  ASSUME NEW q, AreBlocks(q.en), NEW i, NEW used
  PROVE  P!CandidateBlocks(q, i, {}) \ used \subseteq P!CandidateBlocks(q, i, used)
PROOF
  <1> DEFINE z == q.zh[i]
             Meet(j) == \/ P!InWindow(z, q.en[j], q.zhTotal, q.enTotal)
                        \/ P!SameSection(z, q.en[j])
                        \/ P!Signals(z) \intersect P!Signals(q.en[j]) # {}
             Over(k, j) == P!Above(P!Closeness(q, i, k), P!Closeness(q, i, j))
             all == {j \in DOMAIN q.en \ {} : Meet(j)}
             open == {j \in DOMAIN q.en \ used : Meet(j)}
             AllOver(j) == {k \in all : Over(k, j)}
             OpenOver(j) == {k \in open : Over(k, j)}
  <1>1. /\ P!CandidateBlocks(q, i, {}) = {j \in all : P!Cardinality(AllOver(j)) < 2}
        /\ P!CandidateBlocks(q, i, used) = {j \in open : P!Cardinality(OpenOver(j)) < 2}
    BY DEF P!CandidateBlocks
  <1> HIDE DEF Over, Meet
  <1>2. ASSUME NEW j PROVE Cardinality(OpenOver(j)) <= Cardinality(AllOver(j)) /\ Cardinality(OpenOver(j)) \in Nat
                           /\ Cardinality(AllOver(j)) \in Nat
    <2>1. OpenOver(j) \in SUBSET AllOver(j) /\ AllOver(j) \in SUBSET (DOMAIN q.en)
      OBVIOUS
    <2>2. DOMAIN q.en = 1 .. Len(q.en) /\ Len(q.en) \in Nat
      BY DEF AreBlocks, IsList
    <2> HIDE DEF OpenOver, AllOver
    <2>3. IsFiniteSet(DOMAIN q.en)
      BY <2>2, Places
    <2>4. IsFiniteSet(AllOver(j))
      BY <2>1, <2>3, FS_Subset
    <2> QED BY <2>1, <2>4, FS_Subset, FS_CardinalityType
  <1>3. all \ used \subseteq open
    OBVIOUS
  <1> HIDE DEF all, open, AllOver, OpenOver
  <1>4. \A j : P!Cardinality(AllOver(j)) = Cardinality(AllOver(j)) /\ P!Cardinality(OpenOver(j)) = Cardinality(OpenOver(j))
    BY SameOperators
  <1> QED BY <1>1, <1>2, <1>3, <1>4

LEMMA BlocksFollow ==
  ASSUME NEW q, NEW m0, NEW least, Len(q.zh) \in Nat
  PROVE  \E g : /\ g[0] = m0
                /\ \A k \in 1 .. Len(q.zh) : g[k] = P!Extended(q, g[k - 1], least, k)
                /\ P!GreedyPairs(q, m0, least) = g[Len(q.zh)]
PROOF
  <1> DEFINE n == Len(q.zh)
             Is(g, m) == g = [k \in 0 .. m |-> IF k = 0 THEN m0 ELSE P!Extended(q, g[k - 1], least, k)]
             S == {m \in Nat : \E g : Is(g, m)}
  <1>1. 0 \in S
    <2>1. Is([k \in 0 .. 0 |-> m0], 0)
      OBVIOUS
    <2> QED BY <2>1
  <1>2. ASSUME NEW m \in Nat, m \in S PROVE m + 1 \in S
    <2>1. PICK g : Is(g, m)
      BY <1>2
    <2> DEFINE h == [k \in 0 .. (m + 1) |-> IF k = m + 1 THEN P!Extended(q, g[m], least, k) ELSE g[k]]
    <2>2. Is(h, m + 1)
      <3> SUFFICES ASSUME NEW k \in 0 .. (m + 1)
                   PROVE  h[k] = IF k = 0 THEN m0 ELSE P!Extended(q, h[k - 1], least, k)
        OBVIOUS
      <3>1. k = 0 \/ k - 1 \in 0 .. m
        OBVIOUS
      <3>2. CASE k = m + 1
        BY <2>1, <3>1, <3>2
      <3>3. CASE k \in 0 .. m
        <4>1. g[k] = IF k = 0 THEN m0 ELSE P!Extended(q, g[k - 1], least, k)
          BY <2>1, <3>3
        <4>2. h[k] = g[k] /\ (k # 0 => h[k - 1] = g[k - 1])
          BY <3>1, <3>3
        <4> HIDE DEF h
        <4> QED BY <4>1, <4>2
      <3>4. k = m + 1 \/ k \in 0 .. m
        OBVIOUS
      <3> HIDE DEF h
      <3> QED BY <3>2, <3>3, <3>4
    <2> HIDE DEF h, Is
    <2>3. \E x : Is(x, m + 1)
      BY <2>2
    <2> QED BY <2>3
  <1> HIDE DEF S
  <1>3. n \in S
    BY <1>1, <1>2, EveryNumber
  <1> DEFINE after == CHOOSE g : Is(g, n)
  <1>4. Is(after, n)
    BY <1>3 DEF S
  <1>5. P!GreedyPairs(q, m0, least) = after[n]
    BY DEF P!GreedyPairs
  <1> HIDE DEF after
  <1>6. \A k \in 0 .. n : after[k] = IF k = 0 THEN m0 ELSE P!Extended(q, after[k - 1], least, k)
    BY <1>4
  <1>7. after[0] = m0 /\ \A k \in 1 .. n : after[k] = P!Extended(q, after[k - 1], least, k)
    <2>1. n \in Nat
      OBVIOUS
    <2> HIDE DEF Is, n
    <2>2. 0 \in 0 .. n /\ \A k \in 1 .. n : k \in 0 .. n /\ k # 0
      BY <2>1
    <2> QED BY <1>6, <2>2
  <1> QED BY <1>5, <1>7

LEMMA BlockPairsGrow ==
  ASSUME NEW q, AreBlocks(q.zh), AreBlocks(q.en), NEW m0, OneToOne(m0), NEW least \in Int
  PROVE  LET m == P!GreedyPairs(q, m0, least)
         IN  /\ OneToOne(m) /\ m0 \subseteq m
             /\ \A i \in 1 .. Len(q.zh) : \A j \in P!CandidateBlocks(q, i, {}) :
                  i \in Lefts(m) \/ j \in Rights(m) \/ P!ScoreAt(q, <<i, j>>) < least
PROOF
  <1> DEFINE n == Len(q.zh)
             Open(i, used) == P!CandidateBlocks(q, i, used)
             Score(i, j) == P!ScoreAt(q, <<i, j>>)
  <1>1. n \in Nat
    BY DEF AreBlocks, IsList
  <1>2. PICK g : /\ g[0] = m0
                 /\ \A k \in 1 .. n : g[k] = P!Extended(q, g[k - 1], least, k)
                 /\ P!GreedyPairs(q, m0, least) = g[n]
    BY <1>1, BlocksFollow
  <1> DEFINE Ok(m, k) == /\ OneToOne(m) /\ m0 \subseteq m
                         /\ \A i \in 1 .. k : \A j \in Open(i, {}) :
                              i \in Lefts(m) \/ j \in Rights(m) \/ Score(i, j) < least
             S == {k \in Nat : k <= n => Ok(g[k], k)}
  <1> HIDE DEF n, Open, Score
  <1>3. 0 \in S
    BY <1>2
  <1>4. ASSUME NEW k \in Nat, k \in S PROVE k + 1 \in S
    <2> SUFFICES ASSUME k + 1 <= n PROVE Ok(g[k + 1], k + 1)
      OBVIOUS
    <2> DEFINE m == g[k]
               i == k + 1
               new == g[k + 1]
               open == Open(i, Rights(m))
    <2>1. i \in 1 .. n /\ i - 1 = k /\ k <= n
      BY <1>1
    <2>2. Ok(m, k) /\ new = P!Extended(q, m, least, i)
      BY <1>2, <1>4, <2>1
    <2>3. P!Rights(m) = Rights(m)
      BY DEF P!Rights, Rights
    <2>4. new = P!With(q, m, least, i, Rights(m))
      BY <2>2, <2>3 DEF P!Extended
    <2>5. \A x \in 1 .. (k + 1) : x \in 1 .. k \/ x = i
      OBVIOUS
    <2> HIDE DEF m, i, new
    <2>6. IF i \in Lefts(m) \/ \A j \in open : Score(i, j) < least
          THEN new = m ELSE \E j \in open : new = m \union {<<i, j>>}
      <3>1. IF i \in Lefts(m) \/ \A j \in P!CandidateBlocks(q, i, Rights(m)) : P!ScoreAt(q, <<i, j>>) < least
            THEN P!With(q, m, least, i, Rights(m)) = m
            ELSE \E j \in P!CandidateBlocks(q, i, Rights(m)) : P!With(q, m, least, i, Rights(m)) = m \union {<<i, j>>}
        BY <2>1, BlockIsTaken DEF n
      <3> QED BY <2>4, <3>1 DEF Open, Score
    <2>7. Open(i, {}) \ Rights(m) \subseteq open /\ open \intersect Rights(m) = {}
      <3>1. open \intersect Rights(m) = {}
        BY DEF Open, P!CandidateBlocks
      <3> QED BY <3>1, OpenBlocks DEF Open
    <2> HIDE DEF open
    <2>8. CASE i \in Lefts(m) \/ \A j \in open : Score(i, j) < least
      <3>1. new = m
        BY <2>6, <2>8
      <3>2. \A j \in Open(i, {}) : i \in Lefts(m) \/ j \in Rights(m) \/ Score(i, j) < least
        BY <2>7, <2>8
      <3> QED BY <2>2, <2>5, <3>1, <3>2 DEF new
    <2>9. CASE ~(i \in Lefts(m) \/ \A j \in open : Score(i, j) < least)
      <3>1. PICK j \in open : new = m \union {<<i, j>>}
        BY <2>6, <2>9
      <3> DEFINE p == <<i, j>>
      <3>2. p[1] = i /\ p[2] = j /\ new = m \union {p}
        BY <3>1
      <3> HIDE DEF p
      <3>3. \A x \in m : ~Meets(p, x) /\ ~Meets(x, p)
        BY <2>7, <2>9, <3>1, <3>2 DEF Meets, Lefts, Rights
      <3>4. OneToOne(new)
        BY <2>2, <3>2, <3>3 DEF OneToOne
      <3>5. i \in Lefts(new) /\ Lefts(m) \subseteq Lefts(new) /\ Rights(m) \subseteq Rights(new) /\ m0 \subseteq new
        BY <2>2, <3>2 DEF Lefts, Rights
      <3> QED BY <2>2, <2>5, <3>4, <3>5 DEF new
    <2> QED BY <2>8, <2>9
  <1> HIDE DEF S, Ok
  <1>5. n \in S
    BY <1>1, <1>3, <1>4, EveryNumber
  <1>6. Ok(P!GreedyPairs(q, m0, least), n)
    BY <1>1, <1>2, <1>5 DEF S
  <1> QED BY <1>6 DEF Ok, n, Open, Score

LEMMA GlobalPairsAreFair ==
  ASSUME NEW q, AreBlocks(q.zh), AreBlocks(q.en)
  PROVE  LET m == P!GlobalPairs(q)
         IN  /\ OneToOne(m)
             /\ \A p \in P!BestCandidates(q) : p[1] \in Lefts(m) \/ p[2] \in Rights(m)
PROOF
  <1> DEFINE pairs == P!BestCandidates(q)
             rank == [p \in pairs |-> <<P!ScoreAt(q, p)>>]
             m == P!GlobalPairs(q)
  <1>1. pairs \in SUBSET ((1 .. Len(q.zh)) \X (1 .. Len(q.en)))
    BY DEF P!BestCandidates, AreBlocks, IsList
  <1>2. IsFiniteSet(pairs) /\ pairs \in SUBSET (Int \X Int)
    BY <1>1, PairsOfPlaces, FS_Subset DEF AreBlocks, IsList
  <1>3. m = Greedy(Ranked(pairs, rank))
    BY SameOperators DEF P!GlobalPairs
  <1> HIDE DEF pairs
  <1>4. ASSUME NEW p \in pairs PROVE rank[p] \in Ints(1)
    <2>1. PICK i \in 1 .. Len(q.zh), j \in 1 .. Len(q.en) : p = <<i, j>>
      BY <1>1
    <2> DEFINE score == P!ScoreAt(q, p)
    <2>2. score \in Int
      BY <2>1, PairScoresAreNumbers
    <2>3. rank[p] = <<score>>
      OBVIOUS
    <2> HIDE DEF score, rank
    <2>4. <<score>> \in Ints(1)
      BY <2>2 DEF Ints
    <2> QED BY <2>3, <2>4
  <1> HIDE DEF rank, m
  <1>5. OneToOne(m) /\ Unblocked(m, pairs, rank)
    BY <1>2, <1>3, <1>4, GreedyIsFair
  <1>6. ASSUME NEW p \in pairs PROVE p[1] \in Lefts(m) \/ p[2] \in Rights(m)
    BY <1>5 DEF Unblocked, Meets, Lefts, Rights
  <1> QED BY <1>5, <1>6 DEF m, pairs

LEMMA BlocksAreFair ==
  ASSUME RunPairing
  PROVE  BlockPairsAreFair'
PROOF
  <1>1. AreBlocks(input'.zh) /\ AreBlocks(input'.en)
    <2>1. PICK zh, en, auditor :
            /\ zh \in BlockSides /\ en \in BlockSides
            /\ input' = [zh |-> zh, en |-> en, zhTotal |-> 60, enTotal |-> 60, auditor |-> auditor]
      BY Zenon DEF RunPairing
    <2>2. input'.zh = zh /\ input'.en = en
      BY <2>1
    <2>3. AreBlocks(zh) /\ AreBlocks(en)
      BY <2>1, BlocksAssumption DEF BlocksAssumption, AreBlocks, IsBlock, IsList
    <2> QED BY <2>2, <2>3
  <1> DEFINE q == input'
             first == P!GlobalPairs(q)
             high == P!GreedyPairs(q, first, 6)
             m == P!GreedyPairs(q, high, 3)
  <1>2. found'.pairs = m
    BY DEF RunPairing, P!BlockPairs, P!HighPairs
  <1> HIDE DEF q
  <1>3. /\ OneToOne(first)
        /\ \A p \in P!BestCandidates(q) : p[1] \in Lefts(first) \/ p[2] \in Rights(first)
    BY <1>1, GlobalPairsAreFair DEF q
  <1> HIDE DEF first
  <1>4. OneToOne(high) /\ first \subseteq high
    BY <1>1, <1>3, BlockPairsGrow DEF q
  <1> HIDE DEF high
  <1>5. /\ OneToOne(m) /\ high \subseteq m
        /\ \A i \in 1 .. Len(q.zh) : \A j \in P!CandidateBlocks(q, i, {}) :
             i \in Lefts(m) \/ j \in Rights(m) \/ P!ScoreAt(q, <<i, j>>) < 3
    BY <1>1, <1>4, BlockPairsGrow DEF q
  <1> HIDE DEF m
  <1>6. Lefts(first) \subseteq Lefts(m) /\ Rights(first) \subseteq Rights(m)
    BY <1>4, <1>5 DEF Lefts, Rights
  <1>7. DOMAIN q.zh = 1 .. Len(q.zh)
    BY <1>1 DEF AreBlocks, IsList, q
  <1> QED BY <1>2, <1>3, <1>5, <1>6, <1>7 DEF BlockPairsAreFair, q

-----------------------------------------------------------------------------
(* Tables of two languages and their rows.                                    *)
AreTables(s) ==
  /\ IsList(s)
  /\ \A t \in 1 .. Len(s) : IsFiniteSet(s[t].keys) /\ IsList(s[t].rows)

LEMMA TablesAreFair ==
  ASSUME NEW q, AreTables(q.zhTables), AreTables(q.enTables)
  PROVE  /\ OneToOne(P!TablePairs(q))
         /\ P!TablePairs(q) \subseteq P!TableCandidates(q)
         /\ Unblocked(P!TablePairs(q), P!TableCandidates(q), P!TableRanks(q))
PROOF
  <1> DEFINE pairs == P!TableCandidates(q)
             rank == P!TableRanks(q)
             m == P!TablePairs(q)
  <1>1. pairs \in SUBSET ((1 .. Len(q.zhTables)) \X (1 .. Len(q.enTables)))
    BY DEF P!TableCandidates, AreTables, IsList
  <1>2. IsFiniteSet(pairs) /\ pairs \in SUBSET (Int \X Int)
    BY <1>1, PairsOfPlaces, FS_Subset DEF AreTables, IsList
  <1>3. m = Greedy(Ranked(pairs, rank))
    BY SameOperators DEF P!TablePairs
  <1>4. ASSUME NEW p \in pairs PROVE rank[p] \in Ints(1)
    <2> DEFINE z == q.zhTables[p[1]]
               e == q.enTables[p[2]]
               score == P!TableScore(z, e)
               keys == P!Common(z.keys, e.keys)
               near == IF P!Abs(z.page - e.page) <= 2 THEN 1 ELSE 0
    <2>1. rank[p] = <<score>>
      BY DEF P!TableRanks, P!TableRank
    <2>2. IsFiniteSet(z.keys) /\ IsFiniteSet(e.keys)
      BY <1>1 DEF AreTables
    <2>3. keys \in Nat
      <3> HIDE DEF z, e
      <3> QED BY <2>2, CommonIsANumber, SameOperators DEF P!Common
    <2>4. P!TitleScore(z, e) \in Int /\ near \in Int
      BY DEF P!TitleScore
    <2>5. score = P!TitleScore(z, e) + (IF keys >= 2 THEN 4 ELSE 2 * keys) + near
      BY DEF P!TableScore
    <2> HIDE DEF z, e, score, keys, near
    <2>6. score \in Int
      BY <2>3, <2>4, <2>5
    <2>7. <<score>> \in Ints(1)
      BY <2>6 DEF Ints
    <2> QED BY <2>1, <2>7
  <1> HIDE DEF pairs, rank, m
  <1>5. m \subseteq pairs /\ OneToOne(m) /\ Unblocked(m, pairs, rank)
    BY <1>2, <1>3, <1>4, GreedyIsFair
  <1> QED BY <1>5 DEF m, pairs, rank

(* Rows need no more than that there are finitely many of them.               *)
LEMMA RankedIsAList ==
  ASSUME NEW pairs, IsFiniteSet(pairs), NEW rank
  PROVE  Len(Ranked(pairs, rank)) \in Nat
PROOF
  <1> DEFINE entries == Entries(pairs, rank)
             sorted == Listed(entries, ByRank(entries))
             c == Cardinality(entries)
  <1>1. c \in Nat
    <2> DEFINE f == [p \in pairs |-> <<rank[p], p>>]
    <2>1. entries = {f[p] : p \in pairs} /\ f \in Surjection(pairs, entries)
      BY DEF Entries, Surjection
    <2> HIDE DEF f, entries
    <2>2. IsFiniteSet(entries)
      BY <2>1, FS_Surjection
    <2> QED BY <2>2, FS_CardinalityType
  <1>2. DOMAIN sorted = 1 .. c
    BY DEF Listed
  <1>3. Ranked(pairs, rank) = [k \in DOMAIN sorted |-> sorted[k][2]]
    BY DEF Ranked, Entries
  <1> HIDE DEF sorted, c
  <1>4. Ranked(pairs, rank) = [k \in 1 .. c |-> sorted[k][2]]
    BY <1>2, <1>3
  <1> QED BY <1>1, <1>4

LEMMA RowsAreOneToOne ==
  ASSUME NEW zt, NEW et, IsList(zt.rows), IsList(et.rows)
  PROVE  OneToOne(P!RowPairs(zt, et))
PROOF
  <1> DEFINE Score(p) == P!RowScore(zt, et, zt.rows[p[1]], et.rows[p[2]])
             alike == {p \in (DOMAIN zt.rows) \X (DOMAIN et.rows) : Score(p) >= 4}
             rank == [p \in alike |-> <<Score(p)>>]
  <1>1. alike \in SUBSET ((1 .. Len(zt.rows)) \X (1 .. Len(et.rows)))
    BY DEF IsList
  <1>2. P!RowPairs(zt, et) = Greedy(Ranked(alike, rank))
    BY SameOperators DEF P!RowPairs
  <1> HIDE DEF alike, rank
  <1>3. IsFiniteSet(alike)
    BY <1>1, PairsOfPlaces, FS_Subset DEF IsList
  <1>4. Len(Ranked(alike, rank)) \in Nat
    BY <1>3, RankedIsAList
  <1> QED BY <1>2, <1>4, GreedyTakes

LEMMA TableStepIsFair ==
  ASSUME RunTables
  PROVE  TablePairsAreFair'
PROOF
  <1>1. AreTables(input'.zhTables) /\ AreTables(input'.enTables)
    <2>1. PICK zh, en :
            /\ zh \in RowSides /\ en \in RowSides
            /\ input' = [zhTables |-> zh, enTables |-> en, zhTotal |-> 60, enTotal |-> 60]
      BY Zenon DEF RunTables
    <2>2. input'.zhTables = zh /\ input'.enTables = en
      BY <2>1
    <2>3. AreTables(zh) /\ AreTables(en)
      BY <2>1, TablesAssumption DEF TablesAssumption, AreTables, IsList
    <2> QED BY <2>2, <2>3
  <1> DEFINE q == input'
             tables == P!MatchedTables(q)
  <1>2. /\ found'.tables = tables
        /\ found'.rows = [p \in tables |-> P!RowPairs(q.zhTables[p[1]], q.enTables[p[2]])]
    BY DEF RunTables
  <1>3. tables \subseteq P!TablePairs(q)
    BY DEF P!MatchedTables
  <1> HIDE DEF q, tables
  <1>4. /\ OneToOne(P!TablePairs(q)) /\ P!TablePairs(q) \subseteq P!TableCandidates(q)
        /\ Unblocked(P!TablePairs(q), P!TableCandidates(q), P!TableRanks(q))
    BY <1>1, TablesAreFair DEF q
  <1>5. OneToOne(tables)
    BY <1>3, <1>4 DEF OneToOne
  <1>6. ASSUME NEW p \in tables PROVE OneToOne(found'.rows[p])
    <2>1. p[1] \in 1 .. Len(q.zhTables) /\ p[2] \in 1 .. Len(q.enTables)
      BY <1>1, <1>3, <1>4 DEF P!TableCandidates, AreTables, IsList, q
    <2>2. IsList(q.zhTables[p[1]].rows) /\ IsList(q.enTables[p[2]].rows)
      BY <1>1, <2>1 DEF AreTables, q
    <2>3. found'.rows[p] = P!RowPairs(q.zhTables[p[1]], q.enTables[p[2]])
      BY <1>2
    <2> QED BY <2>2, <2>3, RowsAreOneToOne
  <1> QED BY <1>2, <1>4, <1>5, <1>6 DEF TablePairsAreFair, q

-----------------------------------------------------------------------------
(* Tables of two versions by their rows.                                      *)
LabelsAreFew(s) == IsList(s) /\ \A i \in 1 .. Len(s) : IsFiniteSet(s[i].labels)
HasEntries(t) == "entries" \in DOMAIN t /\ IsList(t.entries)

LEMMA LabelsOfRows ==
  ASSUME NEW t, HasEntries(t)
  PROVE  IsFiniteSet(T!RowsOf(t).labels)
PROOF
  <1> DEFINE named == {i \in DOMAIN t.entries : t.entries[i].label # 0}
             label == [i \in named |-> t.entries[i].label]
             labels == {t.entries[i].label : i \in named}
  <1>1. T!RowsOf(t).labels = labels
    BY DEF T!RowsOf
  <1>2. named \in SUBSET (1 .. Len(t.entries)) /\ Len(t.entries) \in Nat
    BY DEF HasEntries, IsList
  <1> HIDE DEF named
  <1>3. IsFiniteSet(named)
    BY <1>2, Places, FS_Subset
  <1>4. label \in Surjection(named, labels)
    BY DEF Surjection
  <1> HIDE DEF label, labels
  <1>5. IsFiniteSet(labels)
    BY <1>3, <1>4, FS_Surjection
  <1> QED BY <1>1, <1>5

LEMMA RowedIsAList ==
  ASSUME NEW s, IsList(s), \A i \in 1 .. Len(s) : HasEntries(s[i])
  PROVE  LabelsAreFew(T!Rowed(s))
PROOF
  <1> DEFINE all == [i \in DOMAIN s |-> T!RowsOf(s[i])]
             places == {i \in DOMAIN all : all[i].rows # <<>>}
             n == Len(s)
             t == Picked(all, places)
  <1>1. n \in Nat /\ DOMAIN s = 1 .. n
    BY DEF IsList
  <1>2. T!Rowed(s) = t
    BY SameOperators DEF T!Rowed
  <1>3. places \in SUBSET (1 .. n)
    BY <1>1
  <1>4. \A i \in 1 .. n : IsFiniteSet(all[i].labels)
    <2>1. \A i \in 1 .. n : all[i] = T!RowsOf(s[i])
      BY <1>1
    <2> HIDE DEF all
    <2> QED BY <2>1, LabelsOfRows
  <1> HIDE DEF all, places, n
  <1>5. IsList(t) /\ \A k \in 1 .. Len(t) : \E i \in places : t[k] = all[i]
    BY <1>1, <1>3, PickedIsAList, Zenon
  <1> HIDE DEF t
  <1> QED BY <1>2, <1>3, <1>4, <1>5 DEF LabelsAreFew

LEMMA LikestIsOneOfThem ==
  ASSUME NEW a, IsFiniteSet(a.labels), NEW hs, LabelsAreFew(hs),
         NEW fit \in SUBSET (1 .. Len(hs)), fit # {}, NEW up
  PROVE  T!Likest(a, hs, fit, up) \in fit
PROOF
  <1> DEFINE Score(j) == T!Alike(a, hs[j])
             Best(j) == \A k \in fit \ {j} : \/ Score(j) > Score(k)
                                             \/ Score(j) = Score(k) /\ (IF up THEN j < k ELSE j > k)
             Ord == {o \in fit \X fit : \/ Score(o[1]) > Score(o[2])
                                        \/ Score(o[1]) = Score(o[2]) /\ (IF up THEN o[1] < o[2] ELSE o[1] > o[2])}
  <1>1. T!Likest(a, hs, fit, up) = CHOOSE j \in fit : Best(j)
    BY DEF T!Likest
  <1>2. ASSUME NEW j \in fit PROVE Score(j) \in Int /\ j \in Int
    <2> DEFINE h == hs[j]
    <2>1. IsFiniteSet(h.labels)
      BY DEF LabelsAreFew
    <2> HIDE DEF h
    <2>2. T!Alike(a, h) \in Nat
      BY <2>1, CommonIsANumber, SameOperators DEF T!Alike
    <2>3. j \in Int
      OBVIOUS
    <2> QED BY <2>2, <2>3 DEF h
  <1>3. IsFiniteSet(fit)
    BY Places, FS_Subset DEF LabelsAreFew, IsList
  <1>4. ASSUME NEW x \in fit, NEW y \in fit
        PROVE  <<x, y>> \in Ord <=> \/ Score(x) > Score(y)
                                    \/ Score(x) = Score(y) /\ (IF up THEN x < y ELSE x > y)
    <2> DEFINE o == <<x, y>>
    <2>1. o \in fit \X fit /\ o[1] = x /\ o[2] = y
      OBVIOUS
    <2> HIDE DEF o, Score
    <2> QED BY <2>1 DEF o
  <1> HIDE DEF Ord, Score
  <1>5. IsOrder(Ord, fit)
    BY <1>2, <1>4 DEF IsOrder
  <1>6. PICK j \in fit : \A k \in fit : <<k, j>> \notin Ord
    BY <1>3, <1>5, SomeoneIsFirst
  <1>7. ASSUME NEW k \in fit \ {j}
        PROVE  \/ Score(j) > Score(k)
               \/ Score(j) = Score(k) /\ (IF up THEN j < k ELSE j > k)
    <2>1. k \in fit /\ k # j /\ <<k, j>> \notin Ord
      BY <1>6
    <2>2. ~(\/ Score(k) > Score(j)
            \/ Score(k) = Score(j) /\ (IF up THEN k < j ELSE k > j))
      BY <1>4, <2>1
    <2>3. Score(j) \in Int /\ Score(k) \in Int /\ j \in Int /\ k \in Int
      BY <1>2, <2>1
    <2>4. Score(j) > Score(k) \/ Score(j) = Score(k)
      BY <2>2, <2>3
    <2>5. j < k \/ j > k
      BY <2>1, <2>3
    <2> QED BY <2>2, <2>3, <2>4, <2>5
  <1>8. Best(j)
    BY <1>7
  <1> HIDE DEF Best
  <1> QED BY <1>1, <1>8

LEMMA TwinsFollow ==
  ASSUME NEW as, NEW hs, NEW up, Len(as) \in Nat
  PROVE  \E g : /\ g[0] = T!NoTables
                /\ \A k \in 1 .. Len(as) : g[k] = T!Turn(as, hs, up, g[k - 1], k)
                /\ T!TwinTables(as, hs, up) = g[Len(as)]
PROOF
  <1> DEFINE n == Len(as)
             Is(g, m) == g = [k \in 0 .. m |-> IF k = 0 THEN T!NoTables ELSE T!Turn(as, hs, up, g[k - 1], k)]
             S == {m \in Nat : \E g : Is(g, m)}
  <1>1. 0 \in S
    <2>1. Is([k \in 0 .. 0 |-> T!NoTables], 0)
      OBVIOUS
    <2> QED BY <2>1
  <1>2. ASSUME NEW m \in Nat, m \in S PROVE m + 1 \in S
    <2>1. PICK g : Is(g, m)
      BY <1>2
    <2> DEFINE h == [k \in 0 .. (m + 1) |-> IF k = m + 1 THEN T!Turn(as, hs, up, g[m], k) ELSE g[k]]
    <2>2. Is(h, m + 1)
      <3> SUFFICES ASSUME NEW k \in 0 .. (m + 1)
                   PROVE  h[k] = IF k = 0 THEN T!NoTables ELSE T!Turn(as, hs, up, h[k - 1], k)
        OBVIOUS
      <3>1. k = 0 \/ k - 1 \in 0 .. m
        OBVIOUS
      <3>2. CASE k = m + 1
        BY <2>1, <3>1, <3>2
      <3>3. CASE k \in 0 .. m
        <4>1. g[k] = IF k = 0 THEN T!NoTables ELSE T!Turn(as, hs, up, g[k - 1], k)
          BY <2>1, <3>3
        <4>2. k \in 0 .. (m + 1) /\ k # m + 1 /\ (k # 0 => k - 1 \in 0 .. (m + 1) /\ k - 1 # m + 1)
          BY <3>1, <3>3
        <4>3. h[k] = g[k] /\ (k # 0 => h[k - 1] = g[k - 1])
          BY <4>2
        <4> HIDE DEF h
        <4> QED BY <4>1, <4>3
      <3>4. k = m + 1 \/ k \in 0 .. m
        OBVIOUS
      <3> HIDE DEF h
      <3> QED BY <3>2, <3>3, <3>4
    <2> HIDE DEF h, Is
    <2>3. \E x : Is(x, m + 1)
      BY <2>2
    <2> QED BY <2>3
  <1> HIDE DEF S
  <1>3. n \in S
    BY <1>1, <1>2, EveryNumber
  <1> DEFINE after == CHOOSE g : Is(g, n)
  <1>4. Is(after, n)
    BY <1>3 DEF S
  <1>5. T!TwinTables(as, hs, up) = after[n]
    BY DEF T!TwinTables
  <1> HIDE DEF after
  <1>6. \A k \in 0 .. n : after[k] = IF k = 0 THEN T!NoTables ELSE T!Turn(as, hs, up, after[k - 1], k)
    BY <1>4
  <1>7. after[0] = T!NoTables /\ \A k \in 1 .. n : after[k] = T!Turn(as, hs, up, after[k - 1], k)
    <2>1. n \in Nat
      OBVIOUS
    <2> HIDE DEF Is, n
    <2>2. 0 \in 0 .. n /\ \A k \in 1 .. n : k \in 0 .. n /\ k # 0
      BY <2>1
    <2> QED BY <1>6, <2>2
  <1> QED BY <1>5, <1>7

LEMMA TwinsAreOneToOne ==
  ASSUME NEW as, NEW hs, NEW up, LabelsAreFew(as), LabelsAreFew(hs)
  PROVE  OneToOne(T!TwinTables(as, hs, up).pairs)
PROOF
  <1> DEFINE n == Len(as)
  <1>1. n \in Nat
    BY DEF LabelsAreFew, IsList
  <1>2. PICK g : /\ g[0] = T!NoTables
                 /\ \A k \in 1 .. n : g[k] = T!Turn(as, hs, up, g[k - 1], k)
                 /\ T!TwinTables(as, hs, up) = g[n]
    BY <1>1, TwinsFollow
  <1> DEFINE Ok(acc, k) == OneToOne(acc.pairs) /\ \A p \in acc.pairs : p[1] \in 1 .. k /\ p[2] \in acc.used
             S == {k \in Nat : k <= n => Ok(g[k], k)}
  <1> HIDE DEF n
  <1>3. 0 \in S
    <2>1. g[0].pairs = {}
      BY <1>2 DEF T!NoTables
    <2> QED BY <2>1 DEF OneToOne
  <1>4. ASSUME NEW k \in Nat, k \in S PROVE k + 1 \in S
    <2> SUFFICES ASSUME k + 1 <= n PROVE Ok(g[k + 1], k + 1)
      OBVIOUS
    <2> DEFINE acc == g[k]
               i == k + 1
               new == g[k + 1]
               fit == T!Fitting(as[i], hs, acc.used)
               j == T!Likest(as[i], hs, fit, up)
    <2>1. i \in 1 .. n /\ i - 1 = k /\ k <= n
      BY <1>1
    <2>2. 1 .. k \subseteq 1 .. (k + 1) /\ i \notin 1 .. k /\ i \in 1 .. (k + 1)
      OBVIOUS
    <2>3. Ok(acc, k) /\ new = T!Turn(as, hs, up, acc, i)
      BY <1>2, <1>4, <2>1
    <2> HIDE DEF acc, i, new
    <2>4. new = acc \/ (fit # {} /\ new = T!JoinLikest(acc, i, as[i], hs, j))
      BY <2>3 DEF T!Turn, T!TakeTable
    <2>5. fit \in SUBSET (1 .. Len(hs)) /\ fit \intersect acc.used = {}
      BY DEF T!Fitting, LabelsAreFew, IsList
    <2>6. IsFiniteSet(as[i].labels)
      BY <2>1 DEF LabelsAreFew, n
    <2> HIDE DEF fit
    <2>7. fit # {} => j \in fit
      BY <2>5, <2>6, LikestIsOneOfThem
    <2> HIDE DEF j
    <2>8. CASE new = acc
      BY <2>2, <2>3, <2>8 DEF new
    <2>9. CASE fit # {} /\ new = T!JoinLikest(acc, i, as[i], hs, j)
      <3> DEFINE p == <<i, j>>
      <3>1. new.used = acc.used \union {j} /\ new.pairs = acc.pairs \union {p} /\ p[1] = i /\ p[2] = j
        BY <2>9 DEF T!JoinLikest, T!JoinTables
      <3>2. j \notin acc.used
        BY <2>5, <2>7, <2>9
      <3> HIDE DEF p
      <3>3. \A x \in acc.pairs : ~Meets(p, x) /\ ~Meets(x, p)
        BY <2>2, <2>3, <3>1, <3>2 DEF Meets
      <3>4. OneToOne(new.pairs)
        BY <2>3, <3>1, <3>3 DEF OneToOne
      <3>5. \A x \in new.pairs : x[1] \in 1 .. (k + 1) /\ x[2] \in new.used
        BY <2>2, <2>3, <3>1
      <3> QED BY <3>4, <3>5 DEF new
    <2> QED BY <2>4, <2>8, <2>9
  <1> HIDE DEF S, Ok
  <1>5. n \in S
    BY <1>1, <1>3, <1>4, EveryNumber
  <1>6. Ok(T!TwinTables(as, hs, up), n)
    BY <1>1, <1>2, <1>5 DEF S
  <1> QED BY <1>6 DEF Ok

LEMMA RowStep ==
  ASSUME RunRows
  PROVE  \E as, hs, up : /\ IsList(as) /\ \A i \in 1 .. Len(as) : HasEntries(as[i])
                         /\ IsList(hs) /\ \A i \in 1 .. Len(hs) : HasEntries(hs[i])
                         /\ found' = T!TwinTables(T!Rowed(as), T!Rowed(hs), up)
PROOF
  <1>1. PICK as, edit, up, t, at :
          /\ as \in TableSides /\ t \in DOMAIN as
          /\ input' = [as |-> as, hs |-> [as EXCEPT ![t] = Edited(as[t], edit, at)], edit |-> edit,
                       table |-> t, at |-> at, up |-> up]
    BY Zenon DEF RunRows
  <1> DEFINE new == Edited(as[t], edit, at)
             hs == [as EXCEPT ![t] = new]
  <1>2. input'.as = as /\ input'.hs = hs /\ input'.up = up
    <2> HIDE DEF hs
    <2> QED BY <1>1 DEF hs
  <1>3. IsList(as) /\ \A i \in 1 .. Len(as) : HasEntries(as[i])
    <2>1. IsList(as) /\ \A i \in DOMAIN as : "entries" \in DOMAIN as[i] /\ IsList(as[i].entries)
      BY <1>1, RowsAssumption, Zenon DEF RowsAssumption
    <2> QED BY <2>1 DEF HasEntries, IsList
  <1>4. HasEntries(new)
    <2> DEFINE x == as[t]
    <2>1. HasEntries(x)
      BY <1>1, <1>3 DEF IsList
    <2> HIDE DEF x
    <2> DEFINE f == [i \in DOMAIN x.entries |-> [x.entries[i] EXCEPT !.value = NewValue(x, edit, at, i)]]
    <2>2. Edited(x, edit, at) = [x EXCEPT !.entries = f]
      BY DEF Edited
    <2>3. IsList(x.entries)
      BY <2>1 DEF HasEntries
    <2>4. Len(f) = Len(x.entries) /\ DOMAIN f = 1 .. Len(x.entries)
      BY <2>3 DEF IsList
    <2>5. IsList(f)
      <3> HIDE DEF f
      <3> QED BY <2>3, <2>4 DEF IsList
    <2> HIDE DEF f
    <2>6. "entries" \in DOMAIN Edited(x, edit, at) /\ Edited(x, edit, at).entries = f
      BY <2>1, <2>2 DEF HasEntries
    <2> QED BY <2>5, <2>6 DEF HasEntries, x
  <1> HIDE DEF new
  <1>5. IsList(hs) /\ \A i \in 1 .. Len(hs) : HasEntries(hs[i])
    <2> DEFINE n == Len(as)
               f == [i \in 1 .. n |-> IF i = t THEN new ELSE as[i]]
    <2>1. n \in Nat /\ DOMAIN as = 1 .. n
      BY <1>3 DEF IsList
    <2>2. hs = f
      BY <2>1
    <2> HIDE DEF n, hs
    <2>3. DOMAIN f = 1 .. n
      OBVIOUS
    <2>4. Len(f) = n
      BY <2>1
    <2>5. \A i \in 1 .. n : hs[i] = as[i] \/ hs[i] = new
      BY <2>2
    <2> HIDE DEF f
    <2>6. DOMAIN hs = 1 .. n /\ Len(hs) = n
      BY <2>2, <2>3, <2>4
    <2> QED BY <1>3, <1>4, <2>1, <2>5, <2>6 DEF IsList, n
  <1> HIDE DEF hs
  <1>6. found' = T!TwinTables(T!Rowed(as), T!Rowed(hs), up)
    <2>1. found' = T!RowTwins(input'.as, input'.hs, input'.up)
      BY DEF RunRows
    <2> QED BY <1>2, <2>1 DEF T!RowTwins
  <1> QED BY <1>3, <1>5, <1>6

LEMMA RowStepIsOneToOne ==
  ASSUME RunRows
  PROVE  OneToOne(found'.pairs)
PROOF
  <1>1. PICK as, hs, up : /\ IsList(as) /\ \A i \in 1 .. Len(as) : HasEntries(as[i])
                          /\ IsList(hs) /\ \A i \in 1 .. Len(hs) : HasEntries(hs[i])
                          /\ found' = T!TwinTables(T!Rowed(as), T!Rowed(hs), up)
    BY RowStep
  <1>2. LabelsAreFew(T!Rowed(as)) /\ LabelsAreFew(T!Rowed(hs))
    BY <1>1, RowedIsAList
  <1> QED BY <1>1, <1>2, TwinsAreOneToOne

-----------------------------------------------------------------------------
(* Branches: the rows of a table, by name.                                    *)

LEMMA ImagesOfDistinct ==
  ASSUME NEW n \in Nat, NEW S, IsFiniteSet(S), Cardinality(S) = n, NEW f, DOMAIN f = S, f = [i \in S |-> f[i]]
  PROVE  /\ IsFiniteSet({f[i] : i \in S}) /\ Cardinality({f[i] : i \in S}) <= n
         /\ (\A i, j \in S : i # j => f[i] # f[j]) => Cardinality({f[i] : i \in S}) = n
PROOF
  <1> DEFINE U == {f[i] : i \in S}
  <1>1. f \in Surjection(S, U)
    BY DEF Surjection
  <1>2. (\A i, j \in S : i # j => f[i] # f[j]) => f \in Injection(S, U)
    BY DEF Injection, IsInjective
  <1> HIDE DEF U
  <1>3. /\ IsFiniteSet(U) /\ Cardinality(U) <= Cardinality(S)
        /\ Cardinality(U) = Cardinality(S) <=> f \in Injection(S, U)
    BY <1>1, FS_Surjection
  <1> QED BY <1>2, <1>3 DEF U

LEMMA DistinctImages ==
  ASSUME NEW n \in Nat, NEW S, IsFiniteSet(S), Cardinality(S) = n, NEW f, DOMAIN f = S, f = [i \in S |-> f[i]],
         \A i, j \in S : i # j => f[i] # f[j]
  PROVE  Cardinality({f[i] : i \in S}) = n
PROOF BY ImagesOfDistinct

(* The table of branches that a document amounts to.                          *)
IsDoc(d) == IsList(d) /\ \A i \in DOMAIN d : {"name", "count", "address", "asset", "plain", "at"} \subseteq DOMAIN d[i]
NamesOf(d) == {d[i].name : i \in DOMAIN d}
FirstRow(d, n) == CHOOSE j \in DOMAIN d : d[j].name = n /\ \A k \in DOMAIN d : d[k].name = n => j <= k

LEMMA BranchesHaveRows ==
  ASSUME NEW d, IsDoc(d)
  PROVE  /\ DOMAIN T!BranchesOf(d) = NamesOf(d) /\ IsFiniteSet(NamesOf(d))
         /\ \A n \in NamesOf(d) :
              LET b == T!BranchesOf(d)[n] i == FirstRow(d, n)
              IN  /\ i \in DOMAIN d /\ d[i].name = n /\ \A k \in DOMAIN d : d[k].name = n => i <= k
                  /\ b.count = d[i].count /\ b.address = d[i].address /\ b.asset = d[i].asset
                  /\ b.plain = d[i].plain /\ b.at = i
PROOF
  <1>1. DOMAIN T!BranchesOf(d) = NamesOf(d)
    BY DEF T!BranchesOf, NamesOf
  <1>2. IsFiniteSet(NamesOf(d))
    <2> DEFINE f == [i \in DOMAIN d |-> d[i].name]
    <2>1. IsFiniteSet(DOMAIN d) /\ Cardinality(DOMAIN d) \in Nat
      BY Places, FS_CardinalityType DEF IsDoc, IsList
    <2>2. IsFiniteSet({f[i] : i \in DOMAIN d})
      <3>1. DOMAIN f = DOMAIN d /\ f = [i \in DOMAIN d |-> f[i]]
        OBVIOUS
      <3> HIDE DEF f
      <3> QED BY <2>1, <3>1, ImagesOfDistinct
    <2> QED BY <2>2 DEF NamesOf
  <1>3. ASSUME NEW n \in NamesOf(d)
        PROVE  LET i == FirstRow(d, n)
               IN  i \in DOMAIN d /\ d[i].name = n /\ \A k \in DOMAIN d : d[k].name = n => i <= k
    <2> DEFINE U == {k \in DOMAIN d : d[k].name = n}
    <2>1. U \in SUBSET Nat /\ U # {}
      BY DEF NamesOf, IsDoc, IsList
    <2>2. \E x \in U : \A y \in U : x <= y
      BY <2>1, LeastElement
    <2> QED BY <2>2 DEF FirstRow
  <1>4. ASSUME NEW n \in NamesOf(d)
        PROVE  LET b == T!BranchesOf(d)[n] i == FirstRow(d, n)
               IN  /\ b.count = d[i].count /\ b.address = d[i].address /\ b.asset = d[i].asset
                   /\ b.plain = d[i].plain /\ b.at = i
    <2> DEFINE i == FirstRow(d, n)
    <2>1. T!BranchesOf(d)[n] = [d[i] EXCEPT !.at = i]
      BY DEF T!BranchesOf, NamesOf, FirstRow
    <2>2. {"name", "count", "address", "asset", "plain", "at"} \subseteq DOMAIN d[i]
      BY <1>3 DEF IsDoc
    <2> HIDE DEF i
    <2> QED BY <2>1, <2>2 DEF i
  <1> QED BY <1>1, <1>2, <1>3, <1>4

(* H has the names of A, each in the rows where A has it.                     *)
LEMMA NamesStay ==
  ASSUME NEW d, IsDoc(d), NEW edit \in {"none", "value", "column", "row"}
  PROVE  /\ IsDoc(Shifted(d, edit)) /\ DOMAIN Shifted(d, edit) = DOMAIN d
         /\ \A i \in DOMAIN d : Shifted(d, edit)[i].name = d[i].name
         /\ edit = "none" => \A i \in DOMAIN d : Shifted(d, edit)[i] = d[i]
         /\ edit = "column" => \A i \in DOMAIN d : /\ Shifted(d, edit)[i].count = d[i].count
                                                   /\ Shifted(d, edit)[i].address = d[i].address
         /\ edit = "row" => \A i \in DOMAIN d : LET next == d[(i % Len(d)) + 1]
                                                IN  /\ Shifted(d, edit)[i].count = next.count
                                                    /\ Shifted(d, edit)[i].address = next.address
                                                    /\ Shifted(d, edit)[i].asset = next.asset
PROOF
  <1> DEFINE h == Shifted(d, edit)
  <1>1. Len(d) \in Nat /\ DOMAIN d = 1 .. Len(d)
    BY DEF IsDoc, IsList
  <1>2. ASSUME NEW i \in DOMAIN d PROVE (i % Len(d)) + 1 \in DOMAIN d
    BY <1>1
  <1>3. DOMAIN h = DOMAIN d
    BY DEF Shifted
  <1>4. Len(h) = Len(d)
    BY <1>1, <1>3 DEF Shifted
  <1>5. ASSUME NEW i \in DOMAIN d
        PROVE  LET next == d[(i % Len(d)) + 1]
               IN  h[i] = CASE edit = "column" -> [d[i] EXCEPT !.asset = next.asset]
                            [] edit = "row" -> [next EXCEPT !.name = d[i].name]
                            [] edit = "value" /\ i = 1 -> [d[i] EXCEPT !.asset = @ * 3]
                            [] OTHER -> d[i]
    BY <1>2 DEF Shifted
  <1>6. ASSUME NEW i \in DOMAIN d
        PROVE  LET next == d[(i % Len(d)) + 1]
               IN  /\ h[i].name = d[i].name /\ {"name", "count", "address", "asset", "plain", "at"} \subseteq DOMAIN h[i]
                   /\ edit = "none" => h[i] = d[i]
                   /\ edit = "column" => h[i].count = d[i].count /\ h[i].address = d[i].address
                   /\ edit = "row" => h[i].count = next.count /\ h[i].address = next.address /\ h[i].asset = next.asset
    <2> DEFINE next == d[(i % Len(d)) + 1]
               own == d[i]
    <2>1. /\ {"name", "count", "address", "asset", "plain", "at"} \subseteq DOMAIN next
          /\ {"name", "count", "address", "asset", "plain", "at"} \subseteq DOMAIN own
      BY <1>2 DEF IsDoc
    <2>2. h[i] = CASE edit = "column" -> [own EXCEPT !.asset = next.asset]
                   [] edit = "row" -> [next EXCEPT !.name = own.name]
                   [] edit = "value" /\ i = 1 -> [own EXCEPT !.asset = @ * 3]
                   [] OTHER -> own
      BY <1>5
    <2> HIDE DEF next, own, h
    <2>3. CASE edit = "column"
      BY <2>1, <2>2, <2>3 DEF own
    <2>4. CASE edit = "row"
      BY <2>1, <2>2, <2>4 DEF own, next
    <2>5. CASE edit = "value" /\ i = 1
      BY <2>1, <2>2, <2>5 DEF own
    <2>6. CASE edit = "none" \/ (edit = "value" /\ i # 1)
      BY <2>1, <2>2, <2>6 DEF own
    <2> QED BY <2>3, <2>4, <2>5, <2>6
  <1> HIDE DEF h
  <1>7. IsDoc(h)
    BY <1>1, <1>3, <1>4, <1>6 DEF IsDoc, IsList
  <1> QED BY <1>3, <1>6, <1>7 DEF h

(* The parts of T!Alignment: the names that both have, the owners in A of the *)
(* value that a name has in H, the names whose value has another owner, and   *)
(* those of them whose row went with it.                                      *)
Common(a, h) == DOMAIN a \intersect DOMAIN h
Owners(a, h, n) == {m \in DOMAIN a \ {n} : a[m].asset = h[n].asset}
Crossed(a, h) == {n \in Common(a, h) : a[n].asset # h[n].asset /\ T!Distinctive(h[n].asset) /\ Owners(a, h, n) # {}}
FirstOwner(a, h, n) == CHOOSE m \in Owners(a, h, n) : \A l \in Owners(a, h, n) : a[m].at <= a[l].at
Stable(a, h) == {n \in Crossed(a, h) : T!AnchorAt(h, n) = T!AnchorAt(a, n)}
Moved(a, h) == {n \in Crossed(a, h) \ Stable(a, h) : T!AnchorAt(h, n) = T!AnchorAt(a, FirstOwner(a, h, n))}
AnchorsOf(a, names) == {T!AnchorAt(a, n) : n \in names}
Telling(a, h) ==
  Cardinality(Common(a, h)) >= 3
  /\ Cardinality(AnchorsOf(a, Common(a, h))) >= T!Larger(2, Cardinality(Common(a, h)) \div 2)

LEMMA WhenRowsSlipped ==
  ASSUME NEW a, NEW h
  PROVE  T!Alignment(a, h).slipped <=>
           /\ Cardinality(Common(a, h)) >= 3
           /\ IF Telling(a, h) THEN 10 * Cardinality(Moved(a, h)) >= 3 * Cardinality(Common(a, h))
              ELSE 10 * Cardinality(Crossed(a, h)) >= 3 * Cardinality(Common(a, h))
PROOF
  <1>1. \A S : T!Cardinality(S) = Cardinality(S)
    BY SameOperators
  <1> QED BY <1>1 DEF T!Alignment, Common, Owners, Crossed, FirstOwner, Stable, Moved, AnchorsOf, Telling

(* The two tables have the same names, in the same rows.                      *)
IsEdited(d, edit, a, h) ==
  /\ IsDoc(d) /\ edit \in {"none", "value", "column", "row"}
  /\ a = T!BranchesOf(d) /\ h = T!BranchesOf(Shifted(d, edit))

LEMMA NamesMeet ==
  ASSUME NEW d, NEW edit, NEW a, NEW h, IsEdited(d, edit, a, h)
  PROVE  /\ DOMAIN a = NamesOf(d) /\ DOMAIN h = NamesOf(d) /\ IsFiniteSet(NamesOf(d))
         /\ \A n \in NamesOf(d) : FirstRow(Shifted(d, edit), n) = FirstRow(d, n)
PROOF
  <1> DEFINE e == Shifted(d, edit)
  <1>1. IsDoc(d) /\ IsDoc(e) /\ DOMAIN e = DOMAIN d /\ \A i \in DOMAIN d : e[i].name = d[i].name
    BY NamesStay DEF IsEdited
  <1> HIDE DEF e
  <1>2. NamesOf(e) = NamesOf(d)
    BY <1>1 DEF NamesOf
  <1>3. DOMAIN a = NamesOf(d) /\ DOMAIN h = NamesOf(d) /\ IsFiniteSet(NamesOf(d))
    BY <1>1, <1>2, BranchesHaveRows DEF IsEdited, e
  <1>4. ASSUME NEW n \in NamesOf(d) PROVE FirstRow(e, n) = FirstRow(d, n)
    <2> DEFINE i == FirstRow(d, n)
               j == FirstRow(e, n)
    <2>1. /\ i \in DOMAIN d /\ d[i].name = n /\ \A k \in DOMAIN d : d[k].name = n => i <= k
          /\ j \in DOMAIN e /\ e[j].name = n /\ \A k \in DOMAIN e : e[k].name = n => j <= k
      BY <1>1, <1>2, BranchesHaveRows
    <2> HIDE DEF i, j
    <2>2. i <= j /\ j <= i /\ i \in Nat /\ j \in Nat
      BY <1>1, <2>1 DEF IsDoc, IsList
    <2>3. i = j
      BY <2>2
    <2> QED BY <2>3 DEF i, j
  <1> QED BY <1>3, <1>4 DEF e

(* So they are compared, if they have any rows.                               *)
LEMMA NamesAreEnough ==
  ASSUME NEW d, NEW edit, NEW a, NEW h, IsEdited(d, edit, a, h), NamesOf(d) # {}
  PROVE  T!Confident(a, h)
PROOF
  <1>1. DOMAIN a = NamesOf(d) /\ DOMAIN h = NamesOf(d) /\ Cardinality(NamesOf(d)) \in Nat
    BY NamesMeet, FS_CardinalityType
  <1>2. DOMAIN a \intersect DOMAIN h = NamesOf(d)
    BY <1>1
  <1>3. 10 * Cardinality(NamesOf(d)) >= 6 * Cardinality(NamesOf(d))
    BY <1>1
  <1> QED BY <1>1, <1>2, <1>3, SameOperators DEF T!Confident

LEMMA ToldBranches ==
  ASSUME NEW a, NEW h
  PROVE  LET off == {n \in T!Compared(a, h) : a[n].asset # h[n].asset}
         IN  /\ T!Confident(a, h) /\ ~T!Alignment(a, h).slipped => {d.name : d \in T!BranchDiffs(a, h)} = off
             /\ off = {} => T!BranchDiffs(a, h) = {}
             /\ ~T!Confident(a, h) \/ T!Alignment(a, h).slipped => T!BranchDiffs(a, h) = {}
PROOF
  <1> DEFINE off == {n \in T!Compared(a, h) : a[n].asset # h[n].asset}
             head == CHOOSE n \in off : \A m \in off : n <= m
             Diff(n) == [name |-> n, severity |-> T!BranchSeverity(a[n].asset, h[n].asset),
                         detail |-> T!Alignment(a, h).permuted /\ n # head]
  <1>1. T!BranchDiffs(a, h) = IF ~T!Confident(a, h) \/ T!Alignment(a, h).slipped THEN {} ELSE {Diff(n) : n \in off}
    BY DEF T!BranchDiffs
  <1>2. \A n \in off : Diff(n).name = n
    OBVIOUS
  <1> HIDE DEF off, Diff
  <1>3. {d.name : d \in {Diff(n) : n \in off}} = off
    BY <1>2
  <1> QED BY <1>1, <1>3 DEF off

(* When the amounts alone went to other names, no row moved with them.        *)
LEMMA AmountsAloneAreNoSlip ==
  ASSUME NEW d, NEW a, NEW h, IsEdited(d, "column", a, h),
         Cardinality(AnchorsOf(a, DOMAIN a)) = Cardinality(DOMAIN a)
  PROVE  ~T!Alignment(a, h).slipped
PROOF
  <1> DEFINE names == NamesOf(d)
             e == Shifted(d, "column")
  <1>1. /\ DOMAIN a = names /\ DOMAIN h = names /\ Common(a, h) = names
        /\ Cardinality(names) \in Nat
    BY NamesMeet, FS_CardinalityType DEF Common
  <1>2. ASSUME NEW n \in names PROVE T!AnchorAt(h, n) = T!AnchorAt(a, n)
    <2> DEFINE i == FirstRow(d, n)
    <2>1. /\ IsDoc(e) /\ n \in NamesOf(e)
          /\ \A k \in DOMAIN d : e[k].count = d[k].count /\ e[k].address = d[k].address
      <3>1. \A k \in DOMAIN d : e[k].name = d[k].name
        BY NamesStay DEF IsEdited
      <3> QED BY <3>1, NamesStay DEF IsEdited, NamesOf
    <2>2. FirstRow(e, n) = i
      BY NamesMeet
    <2> HIDE DEF e, i
    <2>3. i \in DOMAIN d /\ a[n].count = d[i].count /\ a[n].address = d[i].address
      BY BranchesHaveRows DEF IsEdited, i
    <2>4. h[n].count = e[i].count /\ h[n].address = e[i].address
      BY <2>1, <2>2, BranchesHaveRows DEF IsEdited, e
    <2> QED BY <2>1, <2>3, <2>4 DEF T!AnchorAt
  <1> HIDE DEF names
  <1>3. Moved(a, h) = {}
    BY <1>1, <1>2 DEF Moved, Stable, Crossed
  <1>4. Cardinality(names) >= 3 => Telling(a, h)
    <2> DEFINE c == Cardinality(names)
    <2>1. Cardinality(AnchorsOf(a, Common(a, h))) = c
      BY <1>1
    <2> HIDE DEF c
    <2>2. c \in Nat
      BY <1>1 DEF c
    <2>3. c >= 3 => c >= T!Larger(2, c \div 2)
      BY <2>2 DEF T!Larger
    <2> QED BY <1>1, <2>1, <2>3 DEF Telling, c
  <1>5. Cardinality(Moved(a, h)) = 0
    BY <1>3, FS_EmptySet
  <1> QED BY <1>1, <1>4, <1>5, WhenRowsSlipped

(* When the rows went to other names as they are, they moved.                 *)
LEMMA RowsThatMovedAreASlip ==
  ASSUME NEW d, NEW a, NEW h, IsEdited(d, "row", a, h), Len(d) >= 3,
         \A i \in DOMAIN d : T!Distinctive(d[i].asset),
         \A i, j \in DOMAIN d : i # j =>
           /\ d[i].name # d[j].name /\ d[i].asset # d[j].asset
           /\ <<d[i].count, d[i].address>> # <<d[j].count, d[j].address>>
  PROVE  T!Alignment(a, h).slipped
PROOF
  <1> DEFINE names == NamesOf(d)
             e == Shifted(d, "row")
             Next1(i) == (i % Len(d)) + 1
  <1>1. /\ DOMAIN a = names /\ DOMAIN h = names /\ Common(a, h) = names
        /\ IsFiniteSet(names) /\ Cardinality(names) \in Nat
    BY NamesMeet, FS_CardinalityType DEF Common
  <1>2. IsDoc(d) /\ Len(d) \in Nat /\ DOMAIN d = 1 .. Len(d)
    BY DEF IsEdited, IsDoc, IsList
  <1>3. /\ IsDoc(e) /\ NamesOf(e) = names
        /\ \A i \in DOMAIN d : e[i].count = d[Next1(i)].count /\ e[i].address = d[Next1(i)].address
                               /\ e[i].asset = d[Next1(i)].asset
    <2>1. \A k \in DOMAIN d : e[k].name = d[k].name
      BY NamesStay DEF IsEdited
    <2>2. IsDoc(e) /\ NamesOf(e) = names
      <3>1. IsDoc(e) /\ DOMAIN e = DOMAIN d
        BY NamesStay DEF IsEdited
      <3> HIDE DEF e
      <3> QED BY <2>1, <3>1 DEF NamesOf
    <2>3. \A i \in DOMAIN d : e[i].count = d[Next1(i)].count /\ e[i].address = d[Next1(i)].address
                               /\ e[i].asset = d[Next1(i)].asset
      <3> TAKE i \in DOMAIN d
      <3>1. e[i].count = d[(i % Len(d)) + 1].count /\ e[i].address = d[(i % Len(d)) + 1].address
            /\ e[i].asset = d[(i % Len(d)) + 1].asset
        <4>1. "row" \in {"none", "value", "column", "row"}
          OBVIOUS
        <4> QED BY <1>2, <4>1, NamesStay, Zenon
      <3> QED BY <3>1
    <2> QED BY <2>2, <2>3
  <1>4. ASSUME NEW i \in DOMAIN d PROVE Next1(i) \in DOMAIN d /\ Next1(i) # i
    BY <1>2
  <1> HIDE DEF Next1, e
  <1>5. ASSUME NEW i \in DOMAIN d
        PROVE  /\ d[i].name \in names /\ FirstRow(d, d[i].name) = i
               /\ a[d[i].name].asset = d[i].asset /\ T!AnchorAt(a, d[i].name) = <<d[i].count, d[i].address>>
               /\ h[d[i].name].asset = d[Next1(i)].asset
               /\ T!AnchorAt(h, d[i].name) = <<d[Next1(i)].count, d[Next1(i)].address>>
    <2> DEFINE n == d[i].name
               f == FirstRow(d, n)
    <2>1. n \in names
      BY DEF NamesOf
    <2>2. f \in DOMAIN d /\ d[f].name = n
      BY <1>2, <2>1, BranchesHaveRows
    <2>3. f = i
      BY <2>2
    <2> HIDE DEF f, n, names
    <2>4. a[n].count = d[i].count /\ a[n].address = d[i].address /\ a[n].asset = d[i].asset
      BY <1>2, <2>1, <2>3, BranchesHaveRows DEF IsEdited, names, f
    <2>5. h[n].count = e[i].count /\ h[n].address = e[i].address /\ h[n].asset = e[i].asset
      <3>1. FirstRow(e, n) = i
        BY <2>1, <2>3, NamesMeet DEF names, f, e
      <3> QED BY <1>3, <2>1, <3>1, BranchesHaveRows DEF IsEdited, e
    <2> QED BY <1>3, <2>1, <2>3, <2>4, <2>5 DEF T!AnchorAt, f, n
  <1>6. \A n \in names : \E i \in DOMAIN d : d[i].name = n
    BY DEF NamesOf
  <1> HIDE DEF names
  <1>7. ASSUME NEW n \in names PROVE n \in Moved(a, h)
    <2>1. PICK i \in DOMAIN d : d[i].name = n
      BY <1>6
    <2> DEFINE j == Next1(i)
               m == d[j].name
    <2>2. j \in DOMAIN d /\ j # i /\ m \in names /\ m # n
      BY <1>4, <1>5, <2>1
    <2> HIDE DEF j
    <2>3. /\ a[n].asset = d[i].asset /\ h[n].asset = d[j].asset /\ a[m].asset = d[j].asset
          /\ T!AnchorAt(a, n) = <<d[i].count, d[i].address>>
          /\ T!AnchorAt(h, n) = <<d[j].count, d[j].address>>
          /\ T!AnchorAt(a, m) = <<d[j].count, d[j].address>>
      BY <1>5, <2>1, <2>2 DEF j
    <2> HIDE DEF m
    <2>4. Owners(a, h, n) = {m}
      <3>1. ASSUME NEW o \in names, a[o].asset = d[j].asset PROVE o = m
        <4>1. PICK k \in DOMAIN d : d[k].name = o
          BY <1>6
        <4>2. k = j
          BY <1>5, <2>2, <3>1, <4>1
        <4> QED BY <4>1, <4>2 DEF m
      <3> QED BY <1>1, <2>2, <2>3, <3>1 DEF Owners
    <2>5. a[n].asset # h[n].asset /\ T!AnchorAt(h, n) # T!AnchorAt(a, n) /\ T!Distinctive(h[n].asset)
      BY <2>2, <2>3
    <2>6. FirstOwner(a, h, n) = m
      <3>1. FirstOwner(a, h, n) \in {m}
        <4>1. \E o \in {m} : \A l \in {m} : a[o].at <= a[l].at
          <5>1. a[m].at \in Nat
            <6>1. a[m].at = FirstRow(d, m) /\ FirstRow(d, m) \in DOMAIN d
              BY <1>2, <2>2, BranchesHaveRows DEF IsEdited, names
            <6> QED BY <1>2, <6>1
          <5> QED BY <5>1
        <4> QED BY <2>4, <4>1 DEF FirstOwner
      <3> QED BY <3>1
    <2> QED BY <1>1, <2>3, <2>4, <2>5, <2>6 DEF Moved, Stable, Crossed
  <1>8. Moved(a, h) = names
    BY <1>1, <1>7 DEF Moved, Crossed
  <1>9. /\ Cardinality(names) = Len(d)
        /\ Cardinality(AnchorsOf(a, names)) = Len(d)
    <2> DEFINE f == [i \in DOMAIN d |-> d[i].name]
               g == [i \in DOMAIN d |-> <<d[i].count, d[i].address>>]
    <2>1. IsFiniteSet(DOMAIN d) /\ Cardinality(DOMAIN d) = Len(d)
      BY <1>2, FS_Interval
    <2>2. {f[i] : i \in DOMAIN d} = names
      BY DEF names, NamesOf
    <2>3. {g[i] : i \in DOMAIN d} = AnchorsOf(a, names)
      <3>1. \A n \in names : \E i \in DOMAIN d : T!AnchorAt(a, n) = g[i]
        BY <1>5, <1>6
      <3>2. \A i \in DOMAIN d : d[i].name \in names /\ g[i] = T!AnchorAt(a, d[i].name)
        BY <1>5
      <3> HIDE DEF g
      <3> QED BY <3>1, <3>2 DEF AnchorsOf
    <2>4. /\ DOMAIN f = DOMAIN d /\ f = [i \in DOMAIN d |-> f[i]] /\ \A i, j \in DOMAIN d : i # j => f[i] # f[j]
          /\ DOMAIN g = DOMAIN d /\ g = [i \in DOMAIN d |-> g[i]] /\ \A i, j \in DOMAIN d : i # j => g[i] # g[j]
      OBVIOUS
    <2> HIDE DEF f, g
    <2>5. Cardinality({f[i] : i \in DOMAIN d}) = Len(d) /\ Cardinality({g[i] : i \in DOMAIN d}) = Len(d)
      <3> DEFINE S == DOMAIN d
                 n == Len(d)
      <3>1. n \in Nat /\ IsFiniteSet(S) /\ Cardinality(S) = n
        BY <1>2, <2>1
      <3>2. /\ DOMAIN f = S /\ f = [i \in S |-> f[i]] /\ \A i, j \in S : i # j => f[i] # f[j]
            /\ DOMAIN g = S /\ g = [i \in S |-> g[i]] /\ \A i, j \in S : i # j => g[i] # g[j]
        BY <2>4
      <3> HIDE DEF S, n
      <3>3. Cardinality({f[i] : i \in S}) = n
        BY <3>1, <3>2, DistinctImages
      <3>4. Cardinality({g[i] : i \in S}) = n
        BY <3>1, <3>2, DistinctImages
      <3> QED BY <3>3, <3>4 DEF S, n
    <2> QED BY <2>2, <2>3, <2>5
  <1> DEFINE c == Len(d)
  <1> HIDE DEF c
  <1>10. c \in Nat /\ c >= 3 /\ 10 * c >= 3 * c /\ c >= T!Larger(2, c \div 2)
    <2>1. c \in Nat /\ c >= 3
      BY <1>2 DEF c
    <2> QED BY <2>1 DEF T!Larger
  <1> QED BY <1>1, <1>8, <1>9, <1>10, WhenRowsSlipped DEF Telling, c

LEMMA BranchesAreTold ==
  ASSUME RunBranches
  PROVE  BranchAlterationIsTold' /\ BranchSameIsClean'
PROOF
  <1>1. PICK d \in BranchDocs, edit \in {"none", "value", "column", "row"} :
          input' = [doc |-> d, a |-> T!BranchesOf(d), h |-> T!BranchesOf(Shifted(d, edit)), edit |-> edit]
    BY DEF RunBranches
  <1> DEFINE a == T!BranchesOf(d)
             h == T!BranchesOf(Shifted(d, edit))
             changed == {n \in T!Compared(a, h) : a[n].asset # h[n].asset}
  <1>2. input'.doc = d /\ input'.a = a /\ input'.h = h /\ input'.edit = edit
    BY <1>1
  <1>3. found'.told = T!BranchDiffs(a, h) /\ found'.warned = T!BranchWarning(a, h)
    BY <1>2 DEF RunBranches
  <1>4. IsEdited(d, edit, a, h)
    BY BranchesAssumption DEF BranchesAssumption, IsEdited, IsDoc
  <1>5. DOMAIN a = NamesOf(d) /\ DOMAIN h = NamesOf(d)
    BY <1>4, NamesMeet
  <1>6. /\ T!Confident(a, h) /\ ~T!Alignment(a, h).slipped => {t.name : t \in found'.told} = changed
        /\ changed = {} => found'.told = {}
        /\ T!Alignment(a, h).slipped => found'.told = {}
        /\ NamesOf(d) # {} => T!Confident(a, h)
    BY <1>3, <1>4, ToldBranches, NamesAreEnough
  <1>7. NamesOf(d) = {} => changed = {}
    BY <1>5 DEF T!Compared
  <1>8. NamesOf(d) # {} /\ T!Alignment(a, h).slipped => found'.warned
    BY <1>3, <1>5 DEF T!BranchWarning
  <1>9. edit = "column" /\ Cardinality(AnchorsOf(a, DOMAIN a)) = Cardinality(DOMAIN a) => ~T!Alignment(a, h).slipped
    BY <1>4, AmountsAloneAreNoSlip
  <1>10. edit = "none" => changed = {}
    <2> SUFFICES ASSUME edit = "none", NEW n \in changed PROVE FALSE
      OBVIOUS
    <2> DEFINE e == Shifted(d, edit)
               i == FirstRow(d, n)
    <2>1. n \in NamesOf(d) /\ a[n].asset # h[n].asset
      BY <1>5 DEF T!Compared
    <2>2. IsDoc(d) /\ IsDoc(e) /\ n \in NamesOf(e) /\ FirstRow(e, n) = i /\ \A k \in DOMAIN d : e[k] = d[k]
      <3>1. IsDoc(d) /\ IsDoc(e) /\ DOMAIN e = DOMAIN d /\ \A k \in DOMAIN d : e[k] = d[k] /\ e[k].name = d[k].name
        BY <1>4, NamesStay DEF IsEdited
      <3>2. FirstRow(e, n) = i
        BY <1>4, <2>1, NamesMeet
      <3> HIDE DEF e
      <3> QED BY <2>1, <3>1, <3>2 DEF NamesOf
    <2> HIDE DEF e, i
    <2>3. i \in DOMAIN d /\ a[n].asset = d[i].asset
      BY <2>1, <2>2, BranchesHaveRows DEF i
    <2>4. h[n].asset = e[i].asset
      BY <2>1, <2>2, BranchesHaveRows DEF e
    <2> QED BY <2>1, <2>2, <2>3, <2>4
  <1> HIDE DEF a, h, changed
  <1>11. Slipped(input') => T!Alignment(a, h).slipped
    <2> SUFFICES ASSUME Slipped(input') PROVE T!Alignment(a, h).slipped
      OBVIOUS
    <2>1. /\ edit = "row" /\ Len(d) >= 3 /\ \A i \in DOMAIN d : T!Distinctive(d[i].asset)
          /\ \A i, j \in DOMAIN d : i # j =>
               /\ d[i].name # d[j].name /\ d[i].asset # d[j].asset
               /\ <<d[i].count, d[i].address>> # <<d[j].count, d[j].address>>
      BY <1>2 DEF Slipped
    <2> QED BY <1>4, <2>1, RowsThatMovedAreASlip
  <1>12. BranchSameIsClean'
    <2>1. edit = "none" \/ Slipped(input') => found'.told = {}
      BY <1>6, <1>10, <1>11
    <2> QED BY <1>2, <2>1 DEF BranchSameIsClean
  <1>13. BranchAlterationIsTold'
    <2>1. /\ edit \in {"value", "column"} => {t.name : t \in found'.told} = changed \/ found'.warned
          /\ edit = "column" /\ Cardinality(AnchorsOf(a, DOMAIN a)) = Cardinality(DOMAIN a) =>
               {t.name : t \in found'.told} = changed
      BY <1>6, <1>7, <1>8, <1>9
    <2> QED BY <1>2, <2>1 DEF BranchAlterationIsTold, AnchorsOf, changed
  <1> QED BY <1>12, <1>13

-----------------------------------------------------------------------------
(* What the model says of paragraphs, and what the patterns say.              *)

LEMMA SamePicking ==
  /\ \A s, places : F!Picked(s, places) = Picked(s, places)
PROOF
  <1> QED BY DEF F!Picked, Picked, F!Listed, Listed, F!Cardinality, Cardinality

(* The pairs of paragraphs that are sure enough, confidence halved where they *)
(* share no entity.                                                           *)
HalvedPair(p) == IF p.shared THEN p ELSE [p EXCEPT !.conf = p.conf \div 2]
SureOnes(pairs, least) == {k \in DOMAIN pairs : pairs[k].conf >= least /\ HalvedPair(pairs[k]).conf >= least}

LEMMA PairedOnes ==
  ASSUME NEW pairs, IsList(pairs), NEW least \in Int
  PROVE  LET t == F!Paired(pairs, least)
         IN  /\ \A k \in DOMAIN t : \E i \in SureOnes(pairs, least) : t[k] = HalvedPair(pairs[i])
             /\ \A i \in SureOnes(pairs, least) : \E k \in DOMAIN t : t[k] = HalvedPair(pairs[i])
PROOF
  <1> DEFINE s == [k \in DOMAIN pairs |-> HalvedPair(pairs[k])]
             places == SureOnes(pairs, least)
             n == Len(pairs)
             t == Picked(s, places)
  <1>1. F!Paired(pairs, least) = t
    BY SamePicking DEF F!Paired, HalvedPair, SureOnes
  <1>2. n \in Nat /\ places \in SUBSET (1 .. n) /\ \A i \in places : s[i] = HalvedPair(pairs[i])
    BY DEF IsList, SureOnes
  <1> HIDE DEF s, places, n, t
  <1>3. /\ IsList(t)
        /\ \A k \in 1 .. Len(t) : \E i \in places : t[k] = s[i]
        /\ \A i \in places : \E k \in 1 .. Len(t) : t[k] = s[i]
    BY <1>2, PickedIsAList DEF t
  <1>4. DOMAIN t = 1 .. Len(t)
    BY <1>3 DEF IsList
  <1>5. /\ \A k \in DOMAIN t : \E i \in places : t[k] = HalvedPair(pairs[i])
        /\ \A i \in places : \E k \in DOMAIN t : t[k] = HalvedPair(pairs[i])
    BY <1>2, <1>3, <1>4
  <1> QED BY <1>1, <1>5 DEF places

LEMMA SureIsSureEnough ==
  ASSUME NEW pairs, IsList(pairs), \A i \in DOMAIN pairs : "conf" \in DOMAIN pairs[i] /\ pairs[i].conf \in Int
  PROVE  F!Regular(F!Paired(pairs, 75)) \subseteq F!Regular(F!Paired(pairs, 65))
PROOF
  <1>1. SureOnes(pairs, 75) \subseteq SureOnes(pairs, 65)
    <2>1. ASSUME NEW i \in DOMAIN pairs PROVE pairs[i].conf \in Int /\ HalvedPair(pairs[i]).conf \in Int
      BY DEF HalvedPair
    <2> QED BY <2>1 DEF SureOnes
  <1> DEFINE s == F!Paired(pairs, 75)
             t == F!Paired(pairs, 65)
  <1>2. \A k \in DOMAIN s : \E l \in DOMAIN t : s[k] = t[l]
    BY <1>1, PairedOnes
  <1> HIDE DEF s, t
  <1>3. F!Regular(s) = UNION {F!FactFindings(s[k]) : k \in DOMAIN s} /\ F!Regular(t) = UNION {F!FactFindings(t[k]) : k \in DOMAIN t}
    BY DEF F!Regular
  <1> QED BY <1>2, <1>3 DEF s, t

(* A high finding of the patterns is there once the model's are merged in.    *)
LEMMA MergingKeeps ==
  ASSUME NEW regular, NEW told, NEW r \in regular, F!Quoted(r).severity = "high"
  PROVE  \E d \in F!Merged(regular, told) : F!Signature(d) = F!Signature(F!Quoted(r))
PROOF
  <1> DEFINE seen == {F!Signature(t) : t \in told}
             fill == {d \in {F!Quoted(x) : x \in regular} : d.severity = "high" /\ F!Signature(d) \notin seen}
             sign == F!Signature(F!Quoted(r))
  <1>1. F!Merged(regular, told) = told \union {CHOOSE d \in fill : F!Signature(d) = s : s \in {F!Signature(d) : d \in fill}}
    BY DEF F!Merged
  <1>2. CASE sign \in seen
    BY <1>1, <1>2
  <1>3. CASE sign \notin seen
    <2> DEFINE q == F!Quoted(r)
               d == CHOOSE x \in fill : F!Signature(x) = sign
    <2>1. q \in fill /\ F!Signature(q) = sign
      BY <1>3
    <2> HIDE DEF fill, q
    <2>2. d \in fill /\ F!Signature(d) = sign
      BY <2>1
    <2>3. d \in F!Merged(regular, told)
      <3>1. sign \in {F!Signature(x) : x \in fill}
        BY <2>1
      <3> QED BY <1>1, <3>1
    <2> QED BY <2>2, <2>3
  <1> QED BY <1>2, <1>3

(* A finding of the patterns says how severe it is, quoted or not.            *)
LEMMA PatternsSayHowSevere ==
  ASSUME NEW pairs, NEW r \in F!Regular(pairs)
  PROVE  r.severity = "high" => F!Quoted(r).severity = "high"
PROOF
  <1>1. PICK k \in DOMAIN pairs : r \in F!FactFindings(pairs[k])
    BY DEF F!Regular
  <1>2. PICK z, e, v : r = F!Finding(pairs[k], z, e, v)
    BY <1>1 DEF F!FactFindings
  <1>3. DOMAIN r = {"zhPage", "enPage", "zh", "en", "severity", "triage"}
    BY <1>2 DEF F!Finding
  <1> QED BY <1>3 DEF F!Quoted

LEMMA ReviewIsNoLoss ==
  ASSUME RunReview
  PROVE  ReviewKeepsFindings'
PROOF
  <1>1. PICK pairs \in ReviewPairs, answers \in [1 .. 2 -> Answers] : input' = [pairs |-> pairs, answers |-> answers]
    BY DEF RunReview
  <1>2. input'.pairs = pairs /\ found' = F!Review(pairs, answers)
    BY <1>1 DEF RunReview
  <1>3. IsList(pairs) /\ \A i \in DOMAIN pairs : "conf" \in DOMAIN pairs[i] /\ pairs[i].conf \in Int
    BY ReviewAssumption DEF ReviewAssumption
  <1> DEFINE all == F!Paired(pairs, 75)
  <1>4. ASSUME NEW r \in F!Regular(all), r.severity = "high"
        PROVE  \E d \in found'.findings : F!Signature(d) = F!Signature(F!Quoted(r))
    <2>1. F!Quoted(r).severity = "high"
      BY <1>4, PatternsSayHowSevere
    <2>2. all # <<>>
      <3>1. DOMAIN all # {}
        BY <1>4 DEF F!Regular
      <3> HIDE DEF all
      <3> QED BY <3>1
    <2>3. \/ found'.findings = {F!Quoted(x) : x \in F!Regular(F!Paired(pairs, 65))}
          \/ \E told : found'.findings = F!Merged(F!Regular(all), told)
      <3> HIDE DEF all
      <3> QED BY <1>2, <2>2 DEF F!Review, all
    <2>4. CASE found'.findings = {F!Quoted(x) : x \in F!Regular(F!Paired(pairs, 65))}
      <3>1. r \in F!Regular(F!Paired(pairs, 65))
        BY <1>3, <1>4, SureIsSureEnough
      <3> QED BY <2>4, <3>1
    <2>5. CASE \E told : found'.findings = F!Merged(F!Regular(all), told)
      <3>1. PICK told : found'.findings = F!Merged(F!Regular(all), told)
        BY <2>5
      <3> HIDE DEF all
      <3> QED BY <1>4, <2>1, <3>1, MergingKeeps
    <2> QED BY <2>3, <2>4, <2>5
  <1> HIDE DEF all
  <1> QED BY <1>2, <1>4 DEF ReviewKeepsFindings, all

-----------------------------------------------------------------------------
(* Nothing is paired twice, and what stays alone met a partner at least as    *)
(* good, whichever check runs on whichever reports.                           *)
LEMMA OneCheckAtATime ==
  ASSUME Next
  PROVE  \/ RunNumeric /\ check' = "numeric"
         \/ RunPairing /\ check' = "pairing"
         \/ RunTables /\ check' = "tables"
         \/ RunEvents /\ check' = "events"
         \/ RunRows /\ check' = "rows"
         \/ check' \notin {"numeric", "pairing", "tables", "events", "rows"}
PROOF
  <1>1. /\ RunNumeric => check' = "numeric"
        /\ RunPairing => check' = "pairing"
        /\ RunTables => check' = "tables"
        /\ RunEvents => check' = "events"
        /\ RunRows => check' = "rows"
    BY Zenon DEF RunNumeric, RunPairing, RunTables, RunEvents, RunRows, Run
  <1>2. RunFactor \/ RunTamper \/ RunPages \/ RunVisual => check' \in {"factor", "tamper", "pages", "visual"}
    BY Zenon DEF RunFactor, RunTamper, RunPages, RunVisual, Run
  <1>3. RunFacts \/ RunReview \/ RunProfiles => check' \in {"facts", "review", "profiles"}
    BY Zenon DEF RunFacts, RunReview, RunProfiles, Run
  <1>4. RunBranches \/ RunPositions => check' \in {"branches", "positions"}
    BY Zenon DEF RunBranches, RunPositions, Run
  <1> QED BY <1>1, <1>2, <1>3, <1>4 DEF Next

(* The pairing loops of numeric.py, bilingual.py, coverage.py and             *)
(* table_row_twin.py consume both partners; those of the first two go by      *)
(* their ranking, and paragraphs and events are paired until no two that fit  *)
(* are left, for every pair of reports.                                       *)
THEOREM PairingIsFair == Spec => []PairsAreFair
PROOF
  <1>1. Init => PairsAreFair
    BY DEF Init, PairsAreFair, EventPairsAreFair, NumericPairsAreFair, BlockPairsAreFair, TablePairsAreFair
  <1>2. ASSUME PairsAreFair, Next PROVE PairsAreFair'
    <2>1. RunNumeric => NumericPairsAreFair'
      BY NumericIsFair
    <2>2. RunPairing => BlockPairsAreFair'
      BY BlocksAreFair
    <2>3. RunTables => TablePairsAreFair'
      BY TableStepIsFair
    <2>4. RunEvents => EventPairsAreFair'
      BY EventsAreFair
    <2>5. RunRows => OneToOne(found'.pairs)
      BY RowStepIsOneToOne
    <2>6. /\ check' # "numeric" => NumericPairsAreFair'
          /\ check' # "pairing" => BlockPairsAreFair'
          /\ check' # "tables" => TablePairsAreFair'
          /\ check' # "events" => EventPairsAreFair'
      BY DEF NumericPairsAreFair, BlockPairsAreFair, TablePairsAreFair, EventPairsAreFair
    <2>7. /\ NumericPairsAreFair' /\ BlockPairsAreFair' /\ TablePairsAreFair' /\ EventPairsAreFair'
          /\ check' = "rows" => OneToOne(found'.pairs)
      BY <1>2, <2>1, <2>2, <2>3, <2>4, <2>5, <2>6, OneCheckAtATime
    <2> QED BY <2>7 DEF PairsAreFair
  <1>3. ASSUME PairsAreFair, UNCHANGED vars PROVE PairsAreFair'
    BY <1>3 DEF vars, PairsAreFair, EventPairsAreFair, NumericPairsAreFair, BlockPairsAreFair, TablePairsAreFair
  <1> QED BY <1>1, <1>2, <1>3, PTL DEF Spec

-----------------------------------------------------------------------------
LEMMA OneKindAtATime ==
  ASSUME Next
  PROVE  /\ check' = "branches" => RunBranches
         /\ check' = "review" => RunReview
PROOF
  <1>1. /\ RunNumeric \/ RunPairing \/ RunTables \/ RunEvents \/ RunRows => check' \in {"numeric", "pairing", "tables", "events", "rows"}
        /\ RunFactor \/ RunTamper \/ RunPages \/ RunVisual => check' \in {"factor", "tamper", "pages", "visual"}
        /\ RunFacts \/ RunProfiles \/ RunPositions => check' \in {"facts", "profiles", "positions"}
    BY Zenon DEF RunNumeric, RunPairing, RunTables, RunEvents, RunRows, RunFactor, RunTamper, RunPages, RunVisual,
                 RunFacts, RunProfiles, RunPositions, Run
  <1>2. RunBranches => check' = "branches"
    BY DEF RunBranches, Run
  <1>3. RunReview => check' = "review"
    BY DEF RunReview, Run
  <1> QED BY <1>1, <1>2, <1>3 DEF Next

(* Whatever occurrences of a metric two reports have: if one of A may stand   *)
(* beside one of H and no match explains either, run_numeric_checks_on_       *)
(* profiles tells of something, unless amounts may be years.                  *)
THEOREM AlteredAmountsAreTold == Spec => []NumericAlterationIsTold
PROOF
  <1>1. Init => NumericAlterationIsTold
    BY DEF Init, NumericAlterationIsTold
  <1>2. ASSUME NumericAlterationIsTold, Next PROVE NumericAlterationIsTold'
    <2>1. CASE check' # "numeric"
      BY <2>1 DEF NumericAlterationIsTold
    <2>2. CASE check' = "numeric"
      BY <1>2, <2>2, OneCheckAtATime, NumericIsTold
    <2> QED BY <2>1, <2>2
  <1>3. ASSUME NumericAlterationIsTold, UNCHANGED vars PROVE NumericAlterationIsTold'
    BY <1>3 DEF vars, NumericAlterationIsTold
  <1> QED BY <1>1, <1>2, <1>3, PTL DEF Spec

(* Whatever occurrences a metric has, restated, in several units or contexts: *)
(* run_numeric_checks_on_profiles tells nothing of a report and itself.       *)
THEOREM EqualAmountsAreClean == Spec => []NumericSameIsClean
PROOF
  <1>1. Init => NumericSameIsClean
    BY DEF Init, NumericSameIsClean
  <1>2. ASSUME NumericSameIsClean, Next PROVE NumericSameIsClean'
    <2>1. CASE check' # "numeric"
      BY <2>1 DEF NumericSameIsClean
    <2>2. CASE check' = "numeric"
      BY <1>2, <2>2, OneCheckAtATime, NumericIsClean
    <2> QED BY <2>1, <2>2
  <1>3. ASSUME NumericSameIsClean, UNCHANGED vars PROVE NumericSameIsClean'
    BY <1>3 DEF vars, NumericSameIsClean
  <1> QED BY <1>1, <1>2, <1>3, PTL DEF Spec

(* Whatever table of branches two reports have: run_branch_checks tells of    *)
(* exactly the branches whose assets changed, or says that the table is not   *)
(* compared; a column of assets that went to other names is told entirely,    *)
(* and rows that slipped as a whole are told nothing of.                      *)
THEOREM BranchTablesAreJudgedRight == Spec => [](BranchAlterationIsTold /\ BranchSameIsClean)
PROOF
  <1> DEFINE Inv == BranchAlterationIsTold /\ BranchSameIsClean
  <1>1. Init => Inv
    BY DEF Init, BranchAlterationIsTold, BranchSameIsClean
  <1>2. ASSUME Inv, Next PROVE Inv'
    <2>1. CASE check' # "branches"
      BY <2>1 DEF BranchAlterationIsTold, BranchSameIsClean
    <2>2. CASE check' = "branches"
      BY <1>2, <2>2, OneKindAtATime, BranchesAreTold
    <2> QED BY <2>1, <2>2
  <1>3. ASSUME Inv, UNCHANGED vars PROVE Inv'
    BY <1>3 DEF vars, BranchAlterationIsTold, BranchSameIsClean
  <1> QED BY <1>1, <1>2, <1>3, PTL DEF Spec

(* Whatever paragraphs are paired and whatever the model answers, fails to    *)
(* answer or makes up: a high finding of the patterns is among the findings.  *)
THEOREM FindingsSurviveTheModel == Spec => []ReviewKeepsFindings
PROOF
  <1>1. Init => ReviewKeepsFindings
    BY DEF Init, ReviewKeepsFindings
  <1>2. ASSUME ReviewKeepsFindings, Next PROVE ReviewKeepsFindings'
    <2>1. CASE check' # "review"
      BY <2>1 DEF ReviewKeepsFindings
    <2>2. CASE check' = "review"
      BY <1>2, <2>2, OneKindAtATime, ReviewIsNoLoss
    <2> QED BY <2>1, <2>2
  <1>3. ASSUME ReviewKeepsFindings, UNCHANGED vars PROVE ReviewKeepsFindings'
    BY <1>3 DEF vars, ReviewKeepsFindings
  <1> QED BY <1>1, <1>2, <1>3, PTL DEF Spec

-----------------------------------------------------------------------------
(* What is told of two events has gone through the gate of their identity.    *)
LEMMA BondsComeBeforeTheRest ==
  ASSUME NEW e, "bond" \in e.domains, "dividend" \notin e.domains
  PROVE  E!TopicOf(e) = "bond"
PROOF
  <1> DEFINE S == e.domains
             at == {i \in DOMAIN E!Domains : E!Domains[i] \in S}
             d == CHOOSE i \in at : \A j \in at : i <= j
  <1>1. /\ DOMAIN E!Domains = 1 .. 6
        /\ E!Domains[1] = "dividend" /\ E!Domains[2] = "bond"
    BY DEF E!Domains
  <1>2. 2 \in at /\ 1 \notin at /\ at \subseteq 1 .. 6
    BY <1>1
  <1>3. E!FirstIn(E!Domains, S) = IF at = {} THEN "" ELSE E!Domains[d]
    BY DEF E!FirstIn
  <1> HIDE DEF at
  <1>4. \A j \in at : 2 <= j
    BY <1>2
  <1>5. d \in at /\ \A j \in at : d <= j
    BY <1>2, <1>4
  <1> HIDE DEF d
  <1>6. d = 2
    <2>1. d <= 2 /\ d \in 1 .. 6 /\ d # 1
      BY <1>2, <1>5
    <2> QED BY <2>1
  <1>7. E!TopicOf(e) = E!FirstIn(E!Domains, S)
    BY DEF E!TopicOf
  <1> QED BY <1>1, <1>2, <1>3, <1>6, <1>7

LEMMA ToldPairsAreProven ==
  ASSUME NEW as, NEW hs, NEW m, NEW same, NEW d \in E!EventDiffs(as, hs, m, same)
  PROVE  \E labels : E!Proven(as[d.pair[1]], hs[d.pair[2]], labels)
PROOF
  <1> DEFINE Told(p) == [pair |-> p, labels |-> E!RealMismatches(as[p[1]], hs[p[2]]),
                         triage |-> IF same THEN "real" ELSE "unresolved"]
  <1>1. PICK p \in m : d = Told(p) /\ E!RealMismatches(as[p[1]], hs[p[2]]) # {}
    <2>1. d.labels # {} /\ \E p \in m : d = Told(p)
      BY Zenon DEF E!EventDiffs
    <2>2. \A p : Told(p).labels = E!RealMismatches(as[p[1]], hs[p[2]])
      OBVIOUS
    <2> QED BY <2>1, <2>2
  <1>2. d.pair = p
    BY <1>1
  <1>3. ASSUME NEW a, NEW h, E!RealMismatches(a, h) # {} PROVE \E labels : E!Proven(a, h, labels)
    BY <1>3 DEF E!RealMismatches
  <1> QED BY <1>1, <1>2, <1>3

(* What may identify an event, besides the date and the rate of a dividend.   *)
Named(e) == \E m \in e.marks : m[1] \in {"name", "phase"}
Marks(e) == e.marks \union {<<"entity", n>> : n \in e.entities}

LEMMA IdentityIsMadeOfMarks ==
  ASSUME NEW e
  PROVE  /\ \A m \in E!Identity(e) : m \in Marks(e) \/ ("dividend" \in e.domains /\ m[1] \in {"date", "rate10"})
         /\ \A m \in E!Identity(e) : "dividend" \notin e.domains => m[1] \notin {"date", "rate10"}
         /\ "bond" \in e.domains /\ Named(e) => E!Identity(e) # {}
PROOF
  <1> DEFINE own == {m \in e.marks : \E d \in e.domains : m[1] \in E!MarksOf(d)}
             parties == {<<"entity", n>> : n \in e.entities}
             days == IF "dividend" \in e.domains /\ E!SpecificDays(e) # {}
                     THEN {<<"date", E!Least(E!SpecificDays(e))>>} ELSE {}
             rates == E!ValuesOf(e.amounts, "dividend_rate_per_10_shares")
             paid == IF "dividend" \in e.domains /\ E!Cardinality(rates) = 1 THEN {<<"rate10", r>> : r \in rates} ELSE {}
  <1>1. E!Identity(e) = ((own \union parties) \union days) \union paid
    BY DEF E!Identity
  <1>2. \A m \in days : "dividend" \in e.domains /\ m[1] = "date"
    OBVIOUS
  <1>3. \A m \in paid : "dividend" \in e.domains /\ m[1] = "rate10"
    <2> HIDE DEF rates
    <2> QED OBVIOUS
  <1>4. \A m \in parties : m[1] = "entity"
    OBVIOUS
  <1>5. \A d : "date" \notin E!MarksOf(d) /\ "rate10" \notin E!MarksOf(d)
    BY DEF E!MarksOf
  <1>6. \A m \in own : m \in e.marks /\ m[1] # "date" /\ m[1] # "rate10"
    <2> TAKE m \in own
    <2>1. m \in e.marks /\ \E d \in e.domains : m[1] \in E!MarksOf(d)
      OBVIOUS
    <2> QED BY <1>5, <2>1
  <1>7. "bond" \in e.domains /\ Named(e) => own # {}
    BY DEF Named, E!MarksOf
  <1>8. Marks(e) = e.marks \union parties
    BY DEF Marks
  <1> HIDE DEF own, parties, days, paid
  <1> QED BY <1>1, <1>2, <1>3, <1>4, <1>6, <1>7, <1>8

LEMMA ProvenBondsShareAMark ==
  ASSUME NEW a, NEW h, NEW labels, E!Proven(a, h, labels),
         "bond" \in a.domains, "bond" \in h.domains, ~("dividend" \in a.domains /\ "dividend" \in h.domains),
         Named(a) \/ Named(h)
  PROVE  \E m \in Marks(a) \intersect Marks(h) : m[1] # "year"
PROOF
  <1>1. E!TopicOf(a) = "bond" \/ E!TopicOf(h) = "bond"
    BY BondsComeBeforeTheRest
  <1>2. E!Identity(a) # {} \/ E!Identity(h) # {}
    BY IdentityIsMadeOfMarks
  <1>3. E!SameMatter(a, h)
    BY <1>1, <1>2 DEF E!Proven, E!Strict
  <1>4. \E m \in E!Identity(a) \intersect E!Identity(h) : m[1] # "year"
    BY <1>1, <1>2, <1>3 DEF E!SameMatter
  <1>5. PICK m \in E!Identity(a) \intersect E!Identity(h) : m[1] # "year"
    BY <1>4
  <1>6. m[1] \notin {"date", "rate10"}
    BY <1>5, IdentityIsMadeOfMarks
  <1>7. m \in Marks(a) /\ m \in Marks(h)
    BY <1>5, <1>6, IdentityIsMadeOfMarks
  <1> QED BY <1>5, <1>7

(* No event is told to differ from one that is plainly another: two events    *)
(* about a bond, one of them with its name or phase, have a mark in common    *)
(* that is not the year, whatever the reports say.                            *)
THEOREM OnlyLikeIsCompared == Spec => []LikeIsComparedWithLike
PROOF
  <1>1. Init => LikeIsComparedWithLike
    BY DEF Init, LikeIsComparedWithLike
  <1>2. ASSUME LikeIsComparedWithLike, Next PROVE LikeIsComparedWithLike'
    <2>1. CASE check' # "events"
      BY <2>1 DEF LikeIsComparedWithLike
    <2>2. CASE check' = "events"
      <3>1. RunEvents
        BY <1>2, <2>2, OneCheckAtATime
      <3> DEFINE as == input'.as
                 hs == input'.hs
      <3>2. \E m, same : found'.told = E!EventDiffs(as, hs, m, same)
        BY <3>1 DEF RunEvents
      <3> HIDE DEF as, hs
      <3>3. ASSUME NEW d \in found'.told,
                   "bond" \in as[d.pair[1]].domains, "bond" \in hs[d.pair[2]].domains,
                   ~("dividend" \in as[d.pair[1]].domains /\ "dividend" \in hs[d.pair[2]].domains),
                   Named(as[d.pair[1]]) \/ Named(hs[d.pair[2]])
            PROVE  \E m \in Marks(as[d.pair[1]]) \intersect Marks(hs[d.pair[2]]) : m[1] # "year"
        <4>1. PICK labels : E!Proven(as[d.pair[1]], hs[d.pair[2]], labels)
          BY <3>2, ToldPairsAreProven
        <4> QED BY <3>3, <4>1, ProvenBondsShareAMark
      <3> QED BY <3>3 DEF LikeIsComparedWithLike, Named, Marks, as, hs
    <2> QED BY <2>1, <2>2
  <1>3. ASSUME LikeIsComparedWithLike, UNCHANGED vars PROVE LikeIsComparedWithLike'
    BY <1>3 DEF vars, LikeIsComparedWithLike
  <1> QED BY <1>1, <1>2, <1>3, PTL DEF Spec

-----------------------------------------------------------------------------
(* A list that is no more than its elements, as the operators on sequences    *)
(* ask for.                                                                   *)
Proper(s) == Len(s) \in Nat /\ s = [i \in 1 .. Len(s) |-> s[i]]
ElementsOf(s) == {s[i] : i \in 1 .. Len(s)}

LEMMA ProperListsAreSequences ==
  ASSUME NEW s, Proper(s), NEW S, \A i \in 1 .. Len(s) : s[i] \in S
  PROVE  s \in Seq(S) /\ IsList(s)
PROOF
  <1> DEFINE n == Len(s)
  <1>1. n \in Nat /\ s = [i \in 1 .. n |-> s[i]]
    BY DEF Proper
  <1>2. DOMAIN s = 1 .. n
    BY <1>1
  <1>3. s \in [1 .. n -> S]
    <2> HIDE DEF n
    <2> QED BY <1>1 DEF n
  <1> QED BY <1>1, <1>2, <1>3 DEF IsList

LEMMA SequencesAreProper ==
  ASSUME NEW S, NEW s \in Seq(S)
  PROVE  Proper(s) /\ \A i \in 1 .. Len(s) : s[i] \in S
PROOF
  <1>1. Len(s) \in Nat /\ s \in [1 .. Len(s) -> S]
    OBVIOUS
  <1> QED BY <1>1 DEF Proper

LEMMA JoinedLists ==
  ASSUME NEW s, Proper(s), NEW t, Proper(t)
  PROVE  /\ Proper(s \o t) /\ Len(s \o t) = Len(s) + Len(t)
         /\ \A i \in 1 .. Len(s) : (s \o t)[i] = s[i]
         /\ \A i \in 1 .. Len(t) : (s \o t)[Len(s) + i] = t[i]
         /\ \A i \in 1 .. Len(s \o t) :
              \/ i <= Len(s) /\ (s \o t)[i] = s[i]
              \/ i - Len(s) \in 1 .. Len(t) /\ (s \o t)[i] = t[i - Len(s)]
PROOF
  <1> DEFINE S == ElementsOf(s) \union ElementsOf(t)
             r == s \o t
  <1>1. s \in Seq(S) /\ t \in Seq(S)
    <2>1. \A i \in 1 .. Len(s) : s[i] \in S
      BY DEF ElementsOf
    <2>2. \A i \in 1 .. Len(t) : t[i] \in S
      BY DEF ElementsOf
    <2> HIDE DEF S
    <2> QED BY <2>1, <2>2, ProperListsAreSequences
  <1> HIDE DEF S
  <1>2. /\ r \in Seq(S) /\ Len(r) = Len(s) + Len(t)
        /\ \A i \in 1 .. Len(s) + Len(t) : r[i] = IF i <= Len(s) THEN s[i] ELSE t[i - Len(s)]
    BY <1>1, ConcatProperties
  <1> HIDE DEF r
  <1>3. Proper(r)
    BY <1>2, SequencesAreProper
  <1>4. Len(s) \in Nat /\ Len(t) \in Nat
    BY DEF Proper
  <1>5. \A i \in 1 .. Len(s) : i \in 1 .. Len(s) + Len(t) /\ i <= Len(s)
    BY <1>4
  <1>6. \A i \in 1 .. Len(t) : /\ Len(s) + i \in 1 .. Len(s) + Len(t) /\ ~(Len(s) + i <= Len(s))
                               /\ Len(s) + i - Len(s) = i
    BY <1>4
  <1>7. \A i \in 1 .. Len(s) + Len(t) : i <= Len(s) \/ (~(i <= Len(s)) /\ i - Len(s) \in 1 .. Len(t))
    BY <1>4
  <1>8. \A i \in 1 .. Len(s) : r[i] = s[i]
    BY <1>2, <1>5
  <1>9. \A i \in 1 .. Len(t) : r[Len(s) + i] = t[i]
    BY <1>2, <1>6
  <1>10. \A i \in 1 .. Len(r) : \/ i <= Len(s) /\ r[i] = s[i]
                                \/ i - Len(s) \in 1 .. Len(t) /\ r[i] = t[i - Len(s)]
    BY <1>2, <1>7
  <1> QED BY <1>2, <1>3, <1>8, <1>9, <1>10 DEF r

LEMMA FewAreLeft ==
  ASSUME NEW s, Proper(s), NEW n \in Nat
  PROVE  Proper(T!FirstFew(s, n)) /\ Len(T!FirstFew(s, n)) <= n
PROOF
  <1> DEFINE m == IF Len(s) < n THEN Len(s) ELSE n
             S == ElementsOf(s)
  <1>1. m \in Nat /\ m <= n /\ m <= Len(s) /\ Len(s) \in Nat
    BY DEF Proper
  <1>2. T!FirstFew(s, n) = SubSeq(s, 1, m)
    BY DEF T!FirstFew
  <1>3. s \in Seq(S)
    BY ProperListsAreSequences DEF ElementsOf
  <1> HIDE DEF m, S
  <1>4. SubSeq(s, 1, m) = [i \in 1 .. m |-> s[i]]
    BY <1>1, <1>3
  <1> DEFINE f == [i \in 1 .. m |-> s[i]]
  <1>5. Len(f) = m /\ f = [i \in 1 .. m |-> f[i]]
    BY <1>1
  <1> QED BY <1>1, <1>2, <1>4, <1>5 DEF Proper

LEMMA PickedIsProper ==
  ASSUME NEW s, NEW n \in Nat, NEW places \in SUBSET (1 .. n)
  PROVE  Proper(Picked(s, places))
PROOF
  <1> DEFINE t == Picked(s, places)
             at == Listed(places, {o \in places \X places : o[1] < o[2]})
  <1>1. t = [k \in DOMAIN at |-> s[at[k]]]
    BY DEF Picked
  <1>2. IsList(t)
    BY PickedIsAList, Zenon
  <1> HIDE DEF at
  <1>3. DOMAIN t = DOMAIN at
    BY <1>1
  <1>4. t = [k \in 1 .. Len(t) |-> t[k]]
    <2>1. \A k \in DOMAIN at : t[k] = s[at[k]]
      BY <1>1
    <2>2. t = [k \in DOMAIN at |-> t[k]]
      BY <1>1, <2>1
    <2> HIDE DEF t
    <2> QED BY <1>2, <1>3, <2>2 DEF IsList
  <1> QED BY <1>2, <1>4 DEF Proper, IsList

-----------------------------------------------------------------------------
LEMMA SameListings ==
  /\ \A S : /\ K!Cardinality(S) = Cardinality(S) /\ F!Cardinality(S) = Cardinality(S)
            /\ R!Cardinality(S) = Cardinality(S) /\ T!Cardinality(S) = Cardinality(S)
  /\ \A S, Ord : /\ F!Listed(S, Ord) = Listed(S, Ord)
                 /\ R!Listed(S, Ord) = Listed(S, Ord) /\ T!Listed(S, Ord) = Listed(S, Ord)
  /\ \A s, places : /\ K!Picked(s, places) = Picked(s, places) /\ F!Picked(s, places) = Picked(s, places)
                    /\ R!Picked(s, places) = Picked(s, places) /\ T!Picked(s, places) = Picked(s, places)
  /\ \A pairs, rank : K!Ranked(pairs, rank) = Ranked(pairs, rank)
  /\ \A pairs, rank : T!Ranked(pairs, rank) = Ranked(pairs, rank)
  /\ \A pairs : T!InPlace(pairs) = InPlace(pairs) /\ R!InPlace(pairs) = InPlace(pairs)
  /\ \A r, s : R!Above(r, s) = Above(r, s)
  /\ \A s : T!Joined(s) = Joined(s) /\ R!Joined(s) = Joined(s)
PROOF
  <1>1. \A S : /\ K!Cardinality(S) = Cardinality(S) /\ F!Cardinality(S) = Cardinality(S)
               /\ R!Cardinality(S) = Cardinality(S) /\ T!Cardinality(S) = Cardinality(S)
    BY DEF K!Cardinality, F!Cardinality, R!Cardinality, T!Cardinality, Cardinality
  <1>2. ASSUME NEW S, NEW Ord
        PROVE  /\ F!Listed(S, Ord) = Listed(S, Ord)
               /\ R!Listed(S, Ord) = Listed(S, Ord) /\ T!Listed(S, Ord) = Listed(S, Ord)
    <2>1. F!Listed(S, Ord) = Listed(S, Ord)
      BY DEF F!Listed, Listed, F!Cardinality, Cardinality
    <2>2. R!Listed(S, Ord) = Listed(S, Ord)
      BY DEF R!Listed, Listed, R!Cardinality, Cardinality
    <2>3. T!Listed(S, Ord) = Listed(S, Ord)
      BY DEF T!Listed, Listed, T!Cardinality, Cardinality
    <2> QED BY <2>1, <2>2, <2>3
  <1>3. ASSUME NEW s, NEW places
        PROVE  /\ K!Picked(s, places) = Picked(s, places) /\ F!Picked(s, places) = Picked(s, places)
               /\ R!Picked(s, places) = Picked(s, places) /\ T!Picked(s, places) = Picked(s, places)
    <2>1. K!Picked(s, places) = Picked(s, places)
      BY DEF K!Picked, Picked, K!Listed, Listed, K!Cardinality, Cardinality
    <2>2. F!Picked(s, places) = Picked(s, places)
      BY DEF F!Picked, Picked, F!Listed, Listed, F!Cardinality, Cardinality
    <2>3. R!Picked(s, places) = Picked(s, places)
      BY DEF R!Picked, Picked, R!Listed, Listed, R!Cardinality, Cardinality
    <2>4. T!Picked(s, places) = Picked(s, places)
      BY DEF T!Picked, Picked, T!Listed, Listed, T!Cardinality, Cardinality
    <2> QED BY <2>1, <2>2, <2>3, <2>4
  <1>4. ASSUME NEW pairs, NEW rank PROVE K!Ranked(pairs, rank) = Ranked(pairs, rank)
    BY DEF K!Ranked, Ranked, K!ByRank, ByRank, K!Above, Above, K!InListOrder, InListOrder,
           K!Listed, Listed, K!Cardinality, Cardinality
  <1>5. ASSUME NEW pairs, NEW rank PROVE T!Ranked(pairs, rank) = Ranked(pairs, rank)
    BY DEF T!Ranked, Ranked, T!ByRank, ByRank, T!Above, Above, T!InListOrder, InListOrder,
           T!Listed, Listed, T!Cardinality, Cardinality
  <1>6. ASSUME NEW pairs PROVE T!InPlace(pairs) = InPlace(pairs) /\ R!InPlace(pairs) = InPlace(pairs)
    <2>1. T!InPlace(pairs) = InPlace(pairs)
      BY DEF T!InPlace, InPlace, T!InListOrder, InListOrder, T!Listed, Listed, T!Cardinality, Cardinality
    <2>2. R!InPlace(pairs) = InPlace(pairs)
      BY DEF R!InPlace, InPlace, R!InListOrder, InListOrder, R!Listed, Listed, R!Cardinality, Cardinality
    <2> QED BY <2>1, <2>2
  <1>7. \A r, s : R!Above(r, s) = Above(r, s)
    BY DEF R!Above, Above
  <1>8. ASSUME NEW s PROVE T!Joined(s) = Joined(s) /\ R!Joined(s) = Joined(s)
    <2>1. T!Joined(s) = Joined(s)
      BY DEF T!Joined, Joined
    <2>2. R!Joined(s) = Joined(s)
      BY DEF R!Joined, Joined
    <2> QED BY <2>1, <2>2
  <1> QED BY <1>1, <1>2, <1>3, <1>4, <1>5, <1>6, <1>7, <1>8

LEMMA ListedIsProper ==
  ASSUME NEW S, IsFiniteSet(S), NEW Ord
  PROVE  Proper(Listed(S, Ord)) /\ Len(Listed(S, Ord)) = Cardinality(S)
PROOF
  <1> DEFINE n == Cardinality(S)
             places == {<<Cardinality({q \in S : <<q, p>> \in Ord}) + 1, p>> : p \in S}
             f == [k \in 1 .. n |-> (CHOOSE place \in places : place[1] = k)[2]]
  <1>1. n \in Nat
    BY FS_CardinalityType
  <1>2. Listed(S, Ord) = f
    BY DEF Listed
  <1> HIDE DEF n, places
  <1>3. Len(f) = n /\ f = [k \in 1 .. n |-> f[k]]
    BY <1>1
  <1> QED BY <1>1, <1>2, <1>3 DEF Proper, n

LEMMA RankedIsProper ==
  ASSUME NEW pairs, IsFiniteSet(pairs), NEW rank
  PROVE  Proper(Ranked(pairs, rank))
PROOF
  <1> DEFINE entries == {<<rank[p], p>> : p \in pairs}
             sorted == Listed(entries, ByRank(entries))
             s == Ranked(pairs, rank)
  <1>1. IsFiniteSet(entries)
    <2> DEFINE f == [p \in pairs |-> <<rank[p], p>>]
    <2>1. f \in Surjection(pairs, entries)
      BY DEF Surjection
    <2> HIDE DEF f, entries
    <2> QED BY <2>1, FS_Surjection
  <1>2. s = [k \in DOMAIN sorted |-> sorted[k][2]]
    BY DEF Ranked
  <1> HIDE DEF entries
  <1>3. Proper(sorted)
    BY <1>1, ListedIsProper
  <1> HIDE DEF sorted
  <1> DEFINE n == Len(sorted)
  <1>4. n \in Nat /\ DOMAIN sorted = 1 .. n
    BY <1>3 DEF Proper
  <1> HIDE DEF n
  <1>5. s = [k \in 1 .. n |-> sorted[k][2]]
    BY <1>2, <1>4
  <1>6. Len(s) = n /\ s = [k \in 1 .. n |-> s[k]]
    <2> HIDE DEF s
    <2> QED BY <1>4, <1>5
  <1> QED BY <1>4, <1>6 DEF Proper

(* Lists one after another: Joined follows its equation.                      *)
LEMMA JoiningFollows ==
  ASSUME NEW seqs, NEW n \in Nat, Len(seqs) = n
  PROVE  \E g : /\ g[0] = <<>>
                /\ \A k \in 1 .. n : g[k] = g[k - 1] \o seqs[k]
                /\ Joined(seqs) = g[n]
PROOF
  <1> DEFINE Is(g, m) == g = [k \in 0 .. m |-> IF k = 0 THEN <<>> ELSE g[k - 1] \o seqs[k]]
             S == {m \in Nat : \E g : Is(g, m)}
  <1>1. 0 \in S
    <2>1. Is([k \in 0 .. 0 |-> <<>>], 0)
      OBVIOUS
    <2> QED BY <2>1
  <1>2. ASSUME NEW m \in Nat, m \in S PROVE m + 1 \in S
    <2>1. PICK g : Is(g, m)
      BY <1>2
    <2> DEFINE h == [k \in 0 .. (m + 1) |-> IF k = m + 1 THEN g[m] \o seqs[k] ELSE g[k]]
    <2>2. Is(h, m + 1)
      <3> SUFFICES ASSUME NEW k \in 0 .. (m + 1)
                   PROVE  h[k] = IF k = 0 THEN <<>> ELSE h[k - 1] \o seqs[k]
        OBVIOUS
      <3>1. \A l \in 0 .. m : h[l] = g[l]
        <4> TAKE l \in 0 .. m
        <4>1. l \in 0 .. (m + 1) /\ l # m + 1
          OBVIOUS
        <4> QED BY <4>1
      <3>2. CASE k = m + 1
        <4>1. m \in 0 .. m /\ k - 1 = m /\ k # 0
          BY <3>2
        <4>2. h[m] = g[m]
          BY <3>1, <4>1
        <4>3. h[k] = g[m] \o seqs[k]
          BY <3>2
        <4> HIDE DEF h
        <4> QED BY <4>1, <4>2, <4>3
      <3>3. CASE k \in 0 .. m
        <4>1. g[k] = IF k = 0 THEN <<>> ELSE g[k - 1] \o seqs[k]
          BY <2>1, <3>3
        <4>2. h[k] = g[k] /\ (k # 0 => h[k - 1] = g[k - 1])
          <5>1. k # 0 => k - 1 \in 0 .. m
            BY <3>3
          <5> HIDE DEF h
          <5> QED BY <3>1, <3>3, <5>1
        <4> HIDE DEF h
        <4> QED BY <4>1, <4>2
      <3>4. k = m + 1 \/ k \in 0 .. m
        OBVIOUS
      <3> HIDE DEF h
      <3> QED BY <3>2, <3>3, <3>4
    <2> HIDE DEF h, Is
    <2>3. \E x : Is(x, m + 1)
      BY <2>2
    <2> QED BY <2>3
  <1> HIDE DEF S
  <1>3. n \in S
    BY <1>1, <1>2, EveryNumber
  <1> DEFINE upTo == CHOOSE g : Is(g, n)
  <1>4. Is(upTo, n)
    BY <1>3 DEF S
  <1>5. Joined(seqs) = upTo[n]
    BY DEF Joined
  <1> HIDE DEF upTo
  <1>6. \A k \in 0 .. n : upTo[k] = IF k = 0 THEN <<>> ELSE upTo[k - 1] \o seqs[k]
    BY <1>4
  <1>7. upTo[0] = <<>> /\ \A k \in 1 .. n : upTo[k] = upTo[k - 1] \o seqs[k]
    <2>1. 0 \in 0 .. n /\ \A k \in 1 .. n : k \in 0 .. n /\ k # 0
      OBVIOUS
    <2> HIDE DEF Is
    <2> QED BY <1>6, <2>1
  <1> QED BY <1>5, <1>7

LEMMA JoinedToNothing ==
  ASSUME NEW t, Proper(t)
  PROVE  Proper(<<>>) /\ <<>> \o t = t
PROOF
  <1> DEFINE S == ElementsOf(t)
  <1>1. t \in Seq(S)
    BY ProperListsAreSequences DEF ElementsOf
  <1>2. <<>> \in Seq(S) /\ Proper(<<>>)
    BY DEF Proper
  <1> HIDE DEF S
  <1>3. <<>> \o t = t
    BY <1>1, ConcatEmptySeq
  <1> QED BY <1>2, <1>3

LEMMA FlattenedLists ==
  ASSUME NEW seqs, Proper(seqs), \A k \in 1 .. Len(seqs) : Proper(seqs[k])
  PROVE  LET flat == Joined(seqs)
         IN  /\ Proper(flat)
             /\ \A i \in 1 .. Len(flat) : \E k \in 1 .. Len(seqs) : \E j \in 1 .. Len(seqs[k]) : flat[i] = seqs[k][j]
             /\ Len(seqs) = 1 => flat = seqs[1]
PROOF
  <1> DEFINE n == Len(seqs)
             From(s, m) == \A i \in 1 .. Len(s) : \E k \in 1 .. m : \E j \in 1 .. Len(seqs[k]) : s[i] = seqs[k][j]
  <1>1. n \in Nat
    BY DEF Proper
  <1>2. PICK g : /\ g[0] = <<>>
                 /\ \A k \in 1 .. n : g[k] = g[k - 1] \o seqs[k]
                 /\ Joined(seqs) = g[n]
    BY <1>1, JoiningFollows
  <1> DEFINE S == {m \in Nat : m <= n => Proper(g[m]) /\ From(g[m], m)}
  <1> HIDE DEF n
  <1>3. 0 \in S
    <2>1. Proper(<<>>) /\ Len(<<>>) = 0
      BY DEF Proper
    <2> QED BY <1>2, <2>1
  <1>4. ASSUME NEW m \in Nat, m \in S PROVE m + 1 \in S
    <2> SUFFICES ASSUME m + 1 <= n PROVE Proper(g[m + 1]) /\ From(g[m + 1], m + 1)
      <3> HIDE DEF From
      <3> QED OBVIOUS
    <2> DEFINE s == g[m]
               t == seqs[m + 1]
    <2>1. Proper(s) /\ From(s, m)
      <3>1. m <= n
        BY <1>1
      <3> HIDE DEF From
      <3> QED BY <1>4, <3>1
    <2>2. m + 1 \in 1 .. n /\ m + 1 - 1 = m
      BY <1>1
    <2>3. Proper(t)
      BY <2>2 DEF n
    <2>4. g[m + 1] = s \o t
      <3> DEFINE k == m + 1
      <3>1. k \in 1 .. n /\ k - 1 = m
        BY <2>2
      <3> HIDE DEF k, s
      <3>2. g[k] = g[k - 1] \o seqs[k]
        BY <1>2, <3>1
      <3>3. g[k] = g[m] \o seqs[k]
        BY <3>1, <3>2
      <3> QED BY <3>3 DEF k, s
    <2> HIDE DEF s
    <2>5. /\ Proper(s \o t)
          /\ \A i \in 1 .. Len(s \o t) :
               \/ i <= Len(s) /\ (s \o t)[i] = s[i]
               \/ i - Len(s) \in 1 .. Len(t) /\ (s \o t)[i] = t[i - Len(s)]
      <3> HIDE DEF t
      <3> QED BY <2>1, <2>3, JoinedLists
    <2> DEFINE r == s \o t
    <2> HIDE DEF r
    <2>6. ASSUME NEW i \in 1 .. Len(r)
          PROVE  \E k \in 1 .. (m + 1) : \E j \in 1 .. Len(seqs[k]) : r[i] = seqs[k][j]
      <3>1. CASE i <= Len(s) /\ r[i] = s[i]
        <4>1. i \in 1 .. Len(s)
          BY <2>1, <3>1 DEF Proper
        <4>2. PICK k \in 1 .. m : \E j \in 1 .. Len(seqs[k]) : s[i] = seqs[k][j]
          BY <2>1, <4>1
        <4> QED BY <3>1, <4>2
      <3>2. CASE i - Len(s) \in 1 .. Len(t) /\ r[i] = t[i - Len(s)]
        <4>1. m + 1 \in 1 .. (m + 1)
          OBVIOUS
        <4> QED BY <3>2, <4>1
      <3> QED BY <2>5, <3>1, <3>2 DEF r
    <2>7. g[m + 1] = r /\ Proper(r)
      BY <2>4, <2>5 DEF r
    <2> HIDE DEF t
    <2> QED BY <2>6, <2>7
  <1> HIDE DEF S, From
  <1>5. n \in S
    BY <1>1, <1>3, <1>4, EveryNumber
  <1>6. Proper(g[n]) /\ From(g[n], n)
    BY <1>1, <1>5 DEF S
  <1>7. n = 1 => Joined(seqs) = seqs[1]
    <2> SUFFICES ASSUME n = 1 PROVE Joined(seqs) = seqs[1]
      OBVIOUS
    <2>1. 1 \in 1 .. n /\ 1 - 1 = 0
      OBVIOUS
    <2>2. g[1] = g[1 - 1] \o seqs[1]
      BY <1>2, <2>1
    <2>3. g[1] = <<>> \o seqs[1] /\ Proper(seqs[1])
      BY <1>2, <2>1, <2>2 DEF n
    <2> QED BY <1>2, <2>3, JoinedToNothing
  <1> QED BY <1>2, <1>6, <1>7 DEF From, n

-----------------------------------------------------------------------------
(* Of a finite set of numbers, no more than k have fewer than k before them.  *)
LEMMA FirstPagesAreFew ==
  ASSUME NEW S, IsFiniteSet(S), S \subseteq Int, NEW k \in Nat
  PROVE  IsFiniteSet(K!FirstPages(k, S)) /\ Cardinality(K!FirstPages(k, S)) <= k /\ Cardinality(K!FirstPages(k, S)) \in Nat
PROOF
  <1> DEFINE few == K!FirstPages(k, S)
             Ord == {o \in S \X S : o[1] < o[2]}
  <1>1. ASSUME NEW x \in S, NEW y \in S PROVE <<x, y>> \in Ord <=> x < y
    <2> DEFINE o == <<x, y>>
    <2>1. o \in S \X S /\ o[1] = x /\ o[2] = y
      OBVIOUS
    <2> HIDE DEF o
    <2>2. o \in Ord <=> o[1] < o[2]
      BY <2>1
    <2> QED BY <2>1, <2>2 DEF o
  <1> HIDE DEF Ord
  <1>2. IsOrder(Ord, S) /\ IsTotal(Ord, S)
    BY <1>1 DEF IsOrder, IsTotal
  <1>3. \A p \in S : {q \in S : q < p} = Earlier(Ord, S, p)
    BY <1>1 DEF Earlier
  <1>4. \A p \in S : Cardinality({q \in S : q < p}) = Rank(Ord, S, p)
    BY <1>3 DEF Rank
  <1>5. few = {p \in S : Rank(Ord, S, p) < k}
    <2>1. few = {p \in S : Cardinality({q \in S : q < p}) < k}
      BY SameListings DEF K!FirstPages
    <2> QED BY <1>4, <2>1
  <1> HIDE DEF few
  <1>6. \A p \in few : Rank(Ord, S, p) \in 0 .. (k - 1)
    BY <1>2, <1>5, RankGrows
  <1>7. \A p, q \in few : Rank(Ord, S, p) = Rank(Ord, S, q) => p = q
    <2> TAKE p, q \in few
    <2>1. p \in S /\ q \in S
      BY <1>5
    <2>2. p = q \/ Rank(Ord, S, p) < Rank(Ord, S, q) \/ Rank(Ord, S, q) < Rank(Ord, S, p)
      BY <1>2, <2>1, RankGrows DEF IsTotal
    <2>3. Rank(Ord, S, p) \in Nat
      BY <1>2, <2>1, RankGrows
    <2> QED BY <2>2, <2>3
  <1> DEFINE rank == [p \in few |-> Rank(Ord, S, p)]
  <1>8. rank \in Injection(few, 0 .. (k - 1))
    BY <1>6, <1>7 DEF Injection, IsInjective
  <1> HIDE DEF rank
  <1>9. IsFiniteSet(few) /\ Cardinality(few) <= Cardinality(0 .. (k - 1))
    BY <1>8, NumbersBelow, FS_Injection
  <1> QED BY <1>9, NumbersBelow, FS_CardinalityType DEF few

LEMMA BudgetedPagesAreFew ==
  ASSUME NEW pages, IsFiniteSet(pages), pages \subseteq Int, NEW mode
  PROVE  Cardinality(K!Budgeted(pages, mode)) <= (IF mode = "strict" THEN 3 ELSE 2)
PROOF
  <1> DEFINE S == {p \in pages : p > 0}
             k == CASE mode = "strict" -> 3 [] mode = "smart" -> 2 [] OTHER -> 0
  <1>1. IsFiniteSet(S) /\ S \subseteq Int
    BY FS_Subset
  <1>2. k \in Nat /\ k <= (IF mode = "strict" THEN 3 ELSE 2)
    OBVIOUS
  <1>3. K!Budgeted(pages, mode) = K!FirstPages(k, S)
    BY DEF K!Budgeted
  <1> HIDE DEF S, k
  <1>4. Cardinality(K!FirstPages(k, S)) <= k /\ Cardinality(K!FirstPages(k, S)) \in Nat
    BY <1>1, <1>2, FirstPagesAreFew
  <1> QED BY <1>2, <1>3, <1>4

LEMMA CandidatesAreFinite ==
  ASSUME NEW items, NEW risky, IsFiniteSet(risky), risky \subseteq Int, NEW total \in Int, NEW mode
  PROVE  IsFiniteSet(K!CandidatePages(items, risky, total, mode)) /\ K!CandidatePages(items, risky, total, mode) \subseteq Int
PROOF
  <1> DEFINE own == {items[i].page : i \in {j \in DOMAIN items : items[j].page \in 1 .. total}}
             pages == own \union risky
             all == (1 .. total) \union risky
             candidates == K!CandidatePages(items, risky, total, mode)
  <1>1. IsFiniteSet(all) /\ all \subseteq Int
    <2>1. IsFiniteSet(1 .. total)
      BY FS_Interval
    <2>2. IsFiniteSet(all)
      BY <2>1, FS_Union, Zenon
    <2>3. 1 .. total \subseteq Int
      OBVIOUS
    <2> QED BY <2>2, <2>3
  <1>2. pages \subseteq all
    OBVIOUS
  <1>3. candidates \subseteq all
    <2>1. CASE mode = "strict"
      BY <2>1, <1>2 DEF K!CandidatePages
    <2>2. CASE mode # "strict"
      <3>1. candidates = K!SmartPages(items, risky, pages, total)
        BY <2>2 DEF K!CandidatePages
      <3> HIDE DEF pages, candidates
      <3>2. K!SmartPages(items, risky, pages, total) \subseteq pages
        <4> DEFINE valid == {p \in pages : 1 <= p /\ p <= total}
                   first == K!FirstPages(3, K!LatePages(items, total) \intersect valid)
        <4>1. first \subseteq valid
          BY DEF K!FirstPages
        <4> HIDE DEF first
        <4>2. K!SmartPages(items, risky, pages, total) \subseteq valid \union first
          <5> DEFINE smart == K!SmartPages(items, risky, pages, total)
          <5>1. \A p \in smart : p \in valid \/ p \in first
            BY DEF K!SmartPages, first
          <5> HIDE DEF smart
          <5>2. smart \subseteq valid \union first
            BY <5>1
          <5> QED BY <5>2 DEF smart
        <4> QED BY <4>1, <4>2
      <3> QED BY <1>2, <3>1, <3>2
    <2> QED BY <2>1, <2>2
  <1> HIDE DEF candidates, all
  <1>4. IsFiniteSet(candidates)
    BY <1>1, <1>3, FS_Subset
  <1> QED BY <1>1, <1>3, <1>4 DEF candidates

LEMMA PagesAreBudgeted ==
  ASSUME NEW s, PageSide(s)
  PROVE  Cardinality(K!OcrPages(s).pages) <= (IF s.mode = "strict" THEN 3 ELSE 2)
PROOF
  <1> DEFINE candidates == K!CandidatePages(s.text \o s.embedded, s.risky, s.total, s.mode)
             read == K!OcrPages(s).pages
  <1>1. IsFiniteSet(candidates) /\ candidates \subseteq Int
    <2> DEFINE items == s.text \o s.embedded
    <2> HIDE DEF items
    <2> QED BY CandidatesAreFinite DEF PageSide, items
  <1>2. ASSUME NEW embedded
        PROVE  IsFiniteSet(K!Uncovered(s.text, embedded)) /\ K!Uncovered(s.text, embedded) \subseteq Int
    <2> DEFINE places == {j \in DOMAIN s.text : \A l \in DOMAIN embedded :
                            <<embedded[l].key, embedded[l].page>> # <<s.text[j].key, s.text[j].page>>}
               page == [i \in places |-> s.text[i].page]
               pages == {s.text[i].page : i \in places}
    <2>1. K!Uncovered(s.text, embedded) = pages
      BY DEF K!Uncovered
    <2>2. IsFiniteSet(places)
      <3>1. IsFiniteSet(DOMAIN s.text)
        BY Places DEF PageSide, IsList
      <3> QED BY <3>1, FS_Subset
    <2>3. pages \subseteq Int
      BY DEF PageSide
    <2> HIDE DEF places
    <2>4. page \in Surjection(places, pages)
      BY DEF Surjection
    <2> HIDE DEF page, pages
    <2>5. IsFiniteSet(pages)
      BY <2>2, <2>4, FS_Surjection
    <2> QED BY <2>1, <2>3, <2>5
  <1>3. \/ read = {}
        \/ \E pages : IsFiniteSet(pages) /\ pages \subseteq Int /\ read = K!Budgeted(pages, s.mode)
    <2> DEFINE embedded == IF s.mode = "smart" /\ s.h /\ s.enough THEN <<>> ELSE s.embedded
               open == K!Uncovered(s.text, embedded)
               uncovered == IF candidates = {} THEN open ELSE open \intersect candidates
    <2>1. IsFiniteSet(open) /\ open \subseteq Int
      BY <1>2
    <2> HIDE DEF open, candidates
    <2>2. IsFiniteSet(uncovered) /\ uncovered \subseteq Int
      BY <2>1, FS_Subset
    <2>3. read = {} \/ read = K!Budgeted(uncovered, s.mode) \/ read = K!Budgeted(candidates, s.mode)
      BY DEF K!OcrPages, open, candidates
    <2> HIDE DEF read, uncovered
    <2> QED BY <1>1, <2>2, <2>3 DEF candidates
  <1> HIDE DEF read
  <1>4. CASE read = {}
    BY <1>4, FS_EmptySet DEF read
  <1>5. CASE read # {}
    <2> QED BY <1>3, <1>5, BudgetedPagesAreFew DEF read
  <1> QED BY <1>4, <1>5

LEMMA PageBudget ==
  ASSUME RunPages, \A s \in PageSides : PageSide(s)
  PROVE  Cardinality(found'.pages) <= (IF input'.mode = "strict" THEN 3 ELSE 2)
PROOF
  <1>1. input' \in PageSides /\ found' = K!OcrPages(input')
    BY DEF RunPages
  <1> QED BY <1>1, PagesAreBudgeted

-----------------------------------------------------------------------------
(* What goes on step by step within a set: the values after each step.        *)
IsStep(step, n, U) == step \in [(1 .. n) \X U -> U]
IsWalk(g, n, U, start, step) ==
  g \in [0 .. n -> U] /\ g[0] = start /\ \A k \in 1 .. n : g[k] = step[<<k, g[k - 1]>>]

LEMMA StepsAreTaken ==
  ASSUME NEW n \in Nat, NEW U, NEW start \in U, NEW step, IsStep(step, n, U)
  PROVE  \E g : IsWalk(g, n, U, start, step)
PROOF
  <1>0. step \in [(1 .. n) \X U -> U]
    BY DEF IsStep
  <1> DEFINE Is(g, m) == g \in [0 .. m -> U] /\ g[0] = start /\ \A k \in 1 .. m : g[k] = step[<<k, g[k - 1]>>]
             S == {m \in Nat : m <= n => \E g : Is(g, m)}
  <1>1. 0 \in S
    <2>1. Is([k \in 0 .. 0 |-> start], 0)
      OBVIOUS
    <2> QED BY <2>1
  <1>2. ASSUME NEW m \in Nat, m \in S PROVE m + 1 \in S
    <2> SUFFICES ASSUME m + 1 <= n PROVE \E g : Is(g, m + 1)
      OBVIOUS
    <2>1. PICK g : Is(g, m)
      BY <1>2
    <2> DEFINE x == step[<<m + 1, g[m]>>]
               h == [k \in 0 .. (m + 1) |-> IF k = m + 1 THEN x ELSE g[k]]
    <2>2. x \in U
      <3>1. m + 1 \in 1 .. n /\ g[m] \in U
        BY <2>1
      <3> QED BY <1>0, <3>1
    <2>3. /\ h[m + 1] = x /\ \A k \in 0 .. m : h[k] = g[k] /\ g[k] \in U
      <3> HIDE DEF x
      <3> QED BY <2>1
    <2>4. h \in [0 .. (m + 1) -> U]
      <3>1. \A k \in 0 .. (m + 1) : k = m + 1 \/ k \in 0 .. m
        OBVIOUS
      <3> HIDE DEF x
      <3> QED BY <2>2, <2>3, <3>1
    <2> HIDE DEF h
    <2>5. ASSUME NEW k \in 1 .. (m + 1) PROVE h[k] = step[<<k, h[k - 1]>>]
      <3>1. CASE k = m + 1
        <4>1. m \in 0 .. m /\ k - 1 = m
          BY <3>1
        <4> QED BY <2>3, <3>1, <4>1
      <3>2. CASE k # m + 1
        <4>1. k \in 1 .. m /\ k \in 0 .. m /\ k - 1 \in 0 .. m
          BY <3>2
        <4> QED BY <2>1, <2>3, <4>1
      <3> QED BY <3>1, <3>2
    <2>6. h[0] = start
      <3>1. 0 \in 0 .. m
        OBVIOUS
      <3> QED BY <2>1, <2>3, <3>1
    <2>7. Is(h, m + 1)
      BY <2>4, <2>5, <2>6
    <2> HIDE DEF Is
    <2> QED BY <2>7
  <1> HIDE DEF S
  <1>3. n \in S
    BY <1>1, <1>2, EveryNumber
  <1> QED BY <1>3 DEF S, IsWalk

-----------------------------------------------------------------------------
(* The model is not heard about more pairs than it was sent.                  *)
LEMMA UnheardFollows ==
  ASSUME NEW sent, NEW heard, Len(sent) \in Nat, \A k \in 1 .. Len(sent) : Len(sent[k]) \in Nat
  PROVE  \E g : /\ g[0] = 0
                /\ \A k \in 1 .. Len(sent) : g[k] = g[k - 1] + (IF k \in heard THEN 0 ELSE Len(sent[k]))
                /\ F!Unheard(sent, heard) = g[Len(sent)]
PROOF
  <1> DEFINE n == Len(sent)
             Step(x, k) == x + (IF k \in heard THEN 0 ELSE Len(sent[k]))
             step == [p \in (1 .. n) \X Nat |-> Step(p[2], p[1])]
             Is(g) == g = [k \in 0 .. n |-> IF k = 0 THEN 0 ELSE Step(g[k - 1], k)]
  <1>1. n \in Nat /\ \A k \in 1 .. n, x \in Nat : Step(x, k) \in Nat
    OBVIOUS
  <1> HIDE DEF n
  <1>2. IsStep(step, n, Nat)
    <2> HIDE DEF Step
    <2> QED BY <1>1 DEF IsStep
  <1>3. PICK g : IsWalk(g, n, Nat, 0, step)
    <2> HIDE DEF step
    <2> QED BY <1>1, <1>2, StepsAreTaken
  <1>4. Is(g)
    <2>1. \A k \in 1 .. n : g[k] = Step(g[k - 1], k)
      <3>1. \A k \in 1 .. n : k - 1 \in 0 .. n
        BY <1>1
      <3> HIDE DEF Step
      <3> QED BY <1>3, <3>1 DEF IsWalk
    <2> HIDE DEF Step, step
    <2>2. \A k \in 0 .. n : k = 0 \/ k \in 1 .. n
      BY <1>1
    <2> QED BY <1>3, <2>1, <2>2 DEF IsWalk
  <1> DEFINE after == CHOOSE x : Is(x)
  <1>5. Is(after)
    <2> HIDE DEF Is
    <2> QED BY <1>4
  <1>6. F!Unheard(sent, heard) = after[n]
    BY DEF F!Unheard, n
  <1> HIDE DEF after, Step
  <1>7. after[0] = 0 /\ \A k \in 1 .. n : after[k] = Step(after[k - 1], k)
    <2>1. 0 \in 0 .. n /\ \A k \in 1 .. n : k \in 0 .. n /\ k # 0
      BY <1>1
    <2> QED BY <1>5, <2>1
  <1> QED BY <1>6, <1>7 DEF n, Step

LEMMA UnheardAreFew ==
  ASSUME NEW sent, NEW heard, Len(sent) \in Nat, \A k \in 1 .. Len(sent) : Len(sent[k]) \in 0 .. 1
  PROVE  F!Unheard(sent, heard) \in 0 .. Len(sent)
PROOF
  <1> DEFINE n == Len(sent)
  <1>1. n \in Nat
    OBVIOUS
  <1>2. PICK g : /\ g[0] = 0
                 /\ \A k \in 1 .. n : g[k] = g[k - 1] + (IF k \in heard THEN 0 ELSE Len(sent[k]))
                 /\ F!Unheard(sent, heard) = g[n]
    BY UnheardFollows
  <1> DEFINE S == {k \in Nat : k <= n => g[k] \in 0 .. k}
  <1>3. 0 \in S
    BY <1>2
  <1>4. ASSUME NEW k \in Nat, k \in S PROVE k + 1 \in S
    <2> SUFFICES ASSUME k + 1 <= n PROVE g[k + 1] \in 0 .. (k + 1)
      BY <1>1
    <2> DEFINE l == k + 1
    <2>1. l \in 1 .. n /\ l - 1 = k /\ g[k] \in 0 .. k
      BY <1>1, <1>4
    <2> HIDE DEF l
    <2>2. g[l] = g[k] + (IF l \in heard THEN 0 ELSE Len(sent[l])) /\ Len(sent[l]) \in 0 .. 1
      BY <1>2, <2>1
    <2> DEFINE d == IF l \in heard THEN 0 ELSE Len(sent[l])
    <2>4. d \in 0 .. 1
      BY <2>2
    <2> HIDE DEF d
    <2>3. g[l] \in 0 .. (k + 1)
      <3>1. g[l] = g[k] + d
        BY <2>2 DEF d
      <3> QED BY <2>1, <2>4, <3>1
    <2> QED BY <2>3 DEF l
  <1> HIDE DEF S
  <1>5. n \in S
    BY <1>1, <1>3, <1>4, EveryNumber
  <1>6. g[n] \in 0 .. n
    BY <1>1, <1>5 DEF S
  <1> QED BY <1>1, <1>2, <1>6

(* Two pairs at most are sent, each in a batch of its own.                    *)
LEMMA TwoBatches ==
  ASSUME NEW pairs, Proper(pairs)
  PROVE  LET sent == F!Batches(F!Selected(pairs))
         IN  Len(sent) \in 0 .. 2 /\ \A k \in 1 .. Len(sent) : Len(sent[k]) \in 0 .. 1
PROOF
  <1> DEFINE chosen == F!Selected(pairs)
             n == Len(chosen)
             sent == F!Batches(chosen)
  <1>1. Proper(chosen) /\ n <= 2
    <2>1. CASE Len(pairs) <= 2
      BY <2>1 DEF F!Selected
    <2>2. CASE ~(Len(pairs) <= 2)
      <3> DEFINE s(order) == [i \in 1 .. 2 |-> pairs[order[i]]]
      <3>1. PICK order : chosen = s(order)
        BY <2>2 DEF F!Selected
      <3>2. Len(s(order)) = 2 /\ s(order) = [i \in 1 .. Len(s(order)) |-> s(order)[i]]
        OBVIOUS
      <3> HIDE DEF s, chosen
      <3>3. Proper(s(order)) /\ Len(s(order)) = 2
        BY <3>2 DEF Proper
      <3> QED BY <3>1, <3>3
    <2> QED BY <2>1, <2>2
  <1> HIDE DEF chosen
  <1>2. n \in 0 .. 2
    BY <1>1 DEF Proper
  <1>3. PICK S : chosen \in Seq(S)
    <2>1. chosen \in Seq(ElementsOf(chosen))
      BY <1>1, ProperListsAreSequences DEF ElementsOf
    <2> QED BY <2>1
  <1>4. sent = [b \in 1 .. n |-> SubSeq(chosen, b, b)]
    <2>1. (n + 1 - 1) \div 1 = n
      BY <1>2
    <2>2. \A b \in 1 .. n : (b - 1) * 1 + 1 = b /\ F!Lesser(b * 1, n) = b
      BY <1>2 DEF F!Lesser
    <2>3. sent = [b \in 1 .. ((n + 1 - 1) \div 1) |-> SubSeq(chosen, (b - 1) * 1 + 1, F!Lesser(b * 1, n))]
      BY DEF F!Batches
    <2> HIDE DEF n, sent
    <2> QED BY <2>1, <2>2, <2>3
  <1>5. \A b \in 1 .. n : Len(SubSeq(chosen, b, b)) = 1
    BY <1>2, <1>3
  <1> HIDE DEF n, sent
  <1>6. Len(sent) = n /\ \A b \in 1 .. n : sent[b] = SubSeq(chosen, b, b)
    BY <1>2, <1>4
  <1>7. \A b \in 1 .. n : Len(sent[b]) \in 0 .. 1
    <2>1. \A b \in 1 .. n : Len(sent[b]) = 1
      BY <1>5, <1>6, Zenon
    <2> QED BY <2>1
  <1> QED BY <1>2, <1>6, <1>7 DEF sent, chosen

LEMMA PairedIsProper ==
  ASSUME NEW pairs, IsList(pairs), NEW least
  PROVE  Proper(F!Paired(pairs, least))
PROOF
  <1> DEFINE s == [k \in DOMAIN pairs |-> HalvedPair(pairs[k])]
             places == SureOnes(pairs, least)
  <1>1. F!Paired(pairs, least) = Picked(s, places)
    BY SamePicking DEF F!Paired, HalvedPair, SureOnes
  <1>2. Len(pairs) \in Nat /\ places \in SUBSET (1 .. Len(pairs))
    BY DEF IsList, SureOnes
  <1> HIDE DEF s, places
  <1> QED BY <1>1, <1>2, PickedIsProper

LEMMA ReviewBudget ==
  ASSUME RunReview, \A s \in ReviewPairs : IsList(s)
  PROVE  found'.unchecked <= 2
PROOF
  <1>1. PICK pairs \in ReviewPairs, answers \in [1 .. 2 -> Answers] : input' = [pairs |-> pairs, answers |-> answers]
    BY DEF RunReview
  <1>2. found' = F!Review(pairs, answers)
    BY <1>1 DEF RunReview
  <1> DEFINE all == F!Paired(pairs, 75)
             sent == F!Batches(F!Selected(all))
  <1>3. Proper(all)
    BY <1>1, PairedIsProper
  <1> HIDE DEF all
  <1>4. Len(sent) \in 0 .. 2 /\ \A k \in 1 .. Len(sent) : Len(sent[k]) \in 0 .. 1
    BY <1>3, TwoBatches
  <1> HIDE DEF sent
  <1>5. found'.unchecked = 0 \/ \E heard : found'.unchecked = F!Unheard(sent, heard)
    BY <1>2 DEF F!Review, all, sent
  <1>6. ASSUME NEW heard PROVE F!Unheard(sent, heard) \in 0 .. 2
    <2>1. Len(sent) \in Nat
      BY <1>4
    <2>2. F!Unheard(sent, heard) \in 0 .. Len(sent)
      BY <1>4, <2>1, UnheardAreFew, Zenon
    <2> QED BY <1>4, <2>2
  <1> QED BY <1>5, <1>6

-----------------------------------------------------------------------------
(* The keys of each table are finitely many.                                  *)
KeysAreFew(s) == \A i \in 1 .. Len(s) : IsFiniteSet(DOMAIN s[i].rows)

LEMMA KeysOfRows ==
  ASSUME NEW t, HasEntries(t)
  PROVE  IsFiniteSet(DOMAIN T!RowsOf(t).rows)
PROOF
  <1> DEFINE good == {i \in {j \in DOMAIN t.entries : t.entries[j].label # 0} : t.entries[i].value >= 10}
             key == [i \in good |-> <<t.entries[i].label, t.entries[i].column>>]
             keys == {<<t.entries[i].label, t.entries[i].column>> : i \in good}
  <1>1. DOMAIN T!RowsOf(t).rows = keys
    BY DEF T!RowsOf
  <1>2. good \in SUBSET (1 .. Len(t.entries)) /\ Len(t.entries) \in Nat
    BY DEF HasEntries, IsList
  <1> HIDE DEF good
  <1>3. IsFiniteSet(good)
    BY <1>2, Places, FS_Subset
  <1>4. key \in Surjection(good, keys)
    BY DEF Surjection
  <1> HIDE DEF key, keys
  <1>5. IsFiniteSet(keys)
    BY <1>3, <1>4, FS_Surjection
  <1> QED BY <1>1, <1>5

LEMMA RowedHaveFewKeys ==
  ASSUME NEW s, IsList(s), \A i \in 1 .. Len(s) : HasEntries(s[i])
  PROVE  IsList(T!Rowed(s)) /\ KeysAreFew(T!Rowed(s))
PROOF
  <1> DEFINE all == [i \in DOMAIN s |-> T!RowsOf(s[i])]
             places == {i \in DOMAIN all : all[i].rows # <<>>}
             n == Len(s)
             t == Picked(all, places)
  <1>1. n \in Nat /\ DOMAIN s = 1 .. n
    BY DEF IsList
  <1>2. T!Rowed(s) = t
    BY SameOperators DEF T!Rowed
  <1>3. places \in SUBSET (1 .. n)
    BY <1>1
  <1>4. \A i \in 1 .. n : IsFiniteSet(DOMAIN all[i].rows)
    <2>1. \A i \in 1 .. n : all[i] = T!RowsOf(s[i])
      BY <1>1
    <2> HIDE DEF all
    <2> QED BY <2>1, KeysOfRows
  <1> HIDE DEF all, places, n
  <1>5. IsList(t) /\ \A k \in 1 .. Len(t) : \E i \in places : t[k] = all[i]
    BY <1>1, <1>3, PickedIsAList, Zenon
  <1> HIDE DEF t
  <1> QED BY <1>2, <1>3, <1>4, <1>5 DEF KeysAreFew

(* No table of A or pair of tables tells more than a job may.                 *)
LEMMA JoiningTellsFew ==
  ASSUME NEW acc, Proper(acc.told), NEW i, NEW j, NEW a, IsFiniteSet(DOMAIN a.rows), NEW h
  PROVE  LET told == T!JoinTables(acc, i, j, a, h, T!Verdict(a, h)).told
         IN  Proper(told) /\ Len(told) <= 3
PROOF
  <1> DEFINE v == T!Verdict(a, h)
             keys == T!InPlace(v.off)
             telling == T!Telling(a, h, v.permuted, keys, <<i, j>>)
  <1>1. v.off \subseteq DOMAIN a.rows
    <2> DEFINE off == T!Off(a, h, T!BestFactor(a, h))
    <2>1. off \subseteq DOMAIN a.rows /\ T!Off(a, h, T!One) \subseteq DOMAIN a.rows
      BY DEF T!Off, T!Shared
    <2> HIDE DEF off
    <2>2. v.off = off \/ v.off = T!Off(a, h, T!One)
      BY DEF T!Verdict, T!Judged, off
    <2> QED BY <2>1, <2>2
  <1> HIDE DEF v
  <1>2. IsFiniteSet(v.off)
    BY <1>1, FS_Subset
  <1>3. Proper(keys)
    <2>1. keys = Listed(v.off, {o \in v.off \X v.off : InListOrder(o[1], o[2])})
      BY SameListings DEF InPlace
    <2> QED BY <1>2, <2>1, ListedIsProper
  <1> HIDE DEF keys
  <1>4. Proper(telling)
    <2> DEFINE n == Len(keys)
               f(k) == [key |-> keys[k], tables |-> <<i, j>>, group |-> v.permuted, detail |-> v.permuted /\ k > 1,
                        severity |-> IF T!Below(a.rows[keys[k]], h.rows[keys[k]], 5, 100) THEN "medium" ELSE "high"]
    <2>1. n \in Nat /\ DOMAIN keys = 1 .. n
      BY <1>3 DEF Proper
    <2>2. telling = [k \in DOMAIN keys |-> f(k)]
      BY DEF T!Telling
    <2> HIDE DEF n, f, telling
    <2>3. telling = [k \in 1 .. n |-> f(k)]
      BY <2>1, <2>2
    <2>4. Len(telling) = n /\ telling = [k \in 1 .. n |-> telling[k]]
      BY <2>1, <2>3
    <2> QED BY <2>1, <2>4 DEF Proper
  <1> HIDE DEF telling
  <1> DEFINE s == acc.told \o telling
  <1>5. Proper(s)
    BY <1>4, JoinedLists
  <1>6. T!JoinTables(acc, i, j, a, h, v).told = T!FirstFew(s, 3)
    BY DEF T!JoinTables, telling, keys
  <1> HIDE DEF s
  <1>7. Proper(T!FirstFew(s, 3)) /\ Len(T!FirstFew(s, 3)) <= 3
    BY <1>5, FewAreLeft
  <1> QED BY <1>6, <1>7 DEF v

LEMMA TwinsTellFew ==
  ASSUME NEW as, NEW hs, NEW up, IsList(as), KeysAreFew(as)
  PROVE  Len(T!TwinTables(as, hs, up).told) <= 3
PROOF
  <1> DEFINE n == Len(as)
  <1>1. n \in Nat
    BY DEF IsList
  <1>2. PICK g : /\ g[0] = T!NoTables
                 /\ \A k \in 1 .. n : g[k] = T!Turn(as, hs, up, g[k - 1], k)
                 /\ T!TwinTables(as, hs, up) = g[n]
    BY <1>1, TwinsFollow
  <1> DEFINE Ok(acc) == Proper(acc.told) /\ Len(acc.told) <= 3
             S == {k \in Nat : k <= n => Ok(g[k])}
  <1> HIDE DEF n
  <1>3. 0 \in S
    <2>1. g[0].told = <<>>
      BY <1>2 DEF T!NoTables
    <2> QED BY <2>1 DEF Proper
  <1>4. ASSUME NEW k \in Nat, k \in S PROVE k + 1 \in S
    <2> SUFFICES ASSUME k + 1 <= n PROVE Ok(g[k + 1])
      OBVIOUS
    <2> DEFINE acc == g[k]
               i == k + 1
               new == g[k + 1]
               j == T!Likest(as[i], hs, T!Fitting(as[i], hs, acc.used), up)
    <2>1. i \in 1 .. n /\ i - 1 = k /\ k <= n
      BY <1>1
    <2>2. Ok(acc) /\ new = T!Turn(as, hs, up, acc, i)
      BY <1>2, <1>4, <2>1
    <2> HIDE DEF acc, i, new
    <2>3. new = acc \/ new = T!JoinTables(acc, i, j, as[i], hs[j], T!Verdict(as[i], hs[j]))
      BY <2>2 DEF T!Turn, T!TakeTable, T!JoinLikest
    <2>4. IsFiniteSet(DOMAIN as[i].rows)
      BY <2>1 DEF KeysAreFew, n
    <2> HIDE DEF j
    <2> QED BY <2>2, <2>3, <2>4, JoiningTellsFew DEF new
  <1> HIDE DEF S, Ok
  <1>5. n \in S
    BY <1>1, <1>3, <1>4, EveryNumber
  <1>6. Ok(T!TwinTables(as, hs, up))
    BY <1>1, <1>2, <1>5 DEF S
  <1> QED BY <1>6 DEF Ok

LEMMA RowBudget ==
  ASSUME RunRows
  PROVE  Len(found'.told) <= 3
PROOF
  <1>1. PICK as, hs, up : /\ IsList(as) /\ \A i \in 1 .. Len(as) : HasEntries(as[i])
                          /\ found' = T!TwinTables(T!Rowed(as), T!Rowed(hs), up)
    BY RowStep
  <1>2. IsList(T!Rowed(as)) /\ KeysAreFew(T!Rowed(as))
    BY <1>1, RowedHaveFewKeys
  <1> QED BY <1>1, <1>2, TwinsTellFew

-----------------------------------------------------------------------------
LEMMA ProperIsAList ==
  ASSUME NEW s, Proper(s)
  PROVE  IsList(s)
PROOF
  <1> DEFINE n == Len(s)
  <1>1. n \in Nat /\ s = [i \in 1 .. n |-> s[i]]
    BY DEF Proper
  <1>2. DOMAIN s = 1 .. n
    BY <1>1
  <1> QED BY <1>1, <1>2 DEF IsList

LEMMA PagesTellFew ==
  ASSUME NEW a, IsList(a), NEW h, IsList(h)
  PROVE  Proper(T!PageTwins(a, h)) /\ Len(T!PageTwins(a, h)) <= 2
PROOF
  <1> DEFINE as == T!Numeric(a)
             hs == T!Numeric(h)
             pairs == T!Placed(as, hs)
             Conflict(p) == as[p[1]].text # hs[p[2]].text /\ ~T!Shadowed(as, p[1], hs[p[2]])
             conflicts == T!Picked(pairs, {k \in DOMAIN pairs : Conflict(pairs[k])})
             merged == T!Merge(as, hs, conflicts)
             told == [n \in DOMAIN merged |-> <<as[merged[n][1]].text, hs[merged[n][2]].text>>]
  <1>1. ASSUME NEW page, IsList(page) PROVE IsList(T!Numeric(page))
    <2> DEFINE places == {i \in DOMAIN page : Len(page[i].text) >= 4 /\ ~T!IsYear(page[i].text)}
    <2>1. T!Numeric(page) = Picked(page, places)
      BY SameListings DEF T!Numeric
    <2>2. Len(page) \in Nat /\ places \in SUBSET (1 .. Len(page))
      BY <1>1 DEF IsList
    <2> HIDE DEF places
    <2> QED BY <2>1, <2>2, PickedIsAList
  <1>2. IsList(as) /\ IsList(hs)
    BY <1>1
  <1> HIDE DEF as, hs
  <1>3. Proper(pairs)
    <2> DEFINE near == {p \in (DOMAIN as) \X (DOMAIN hs) : T!Near(as[p[1]], hs[p[2]])}
               rank == [p \in near |-> <<- T!Abs(as[p[1]].x - hs[p[2]].x) - T!Abs(as[p[1]].y - hs[p[2]].y)>>]
               ranked == T!Ranked(near, rank)
               taken == T!Greedy(ranked)
               places == {k \in DOMAIN ranked : ranked[k] \in taken}
    <2>1. IsFiniteSet(near)
      <3>1. IsFiniteSet((DOMAIN as) \X (DOMAIN hs))
        BY <1>2, PairsOfPlaces DEF IsList
      <3> QED BY <3>1, FS_Subset
    <2> HIDE DEF near, rank
    <2>2. ranked = Ranked(near, rank)
      BY SameListings
    <2>3. Proper(ranked)
      BY <2>1, <2>2, RankedIsProper
    <2>4. pairs = T!Picked(ranked, places)
      BY DEF T!Placed, near, rank
    <2> HIDE DEF ranked, taken
    <2>5. DOMAIN ranked = 1 .. Len(ranked) /\ Len(ranked) \in Nat
      BY <2>3 DEF Proper
    <2>6. places \in SUBSET (1 .. Len(ranked))
      BY <2>5
    <2> HIDE DEF places, pairs
    <2>7. pairs = Picked(ranked, places)
      BY <2>4, SameListings
    <2> QED BY <2>5, <2>6, <2>7, PickedIsProper
  <1>4. Proper(conflicts)
    <2> DEFINE places == {k \in DOMAIN pairs : Conflict(pairs[k])}
    <2> HIDE DEF pairs, Conflict
    <2>1. places \in SUBSET (1 .. Len(pairs)) /\ Len(pairs) \in Nat
      BY <1>3 DEF Proper
    <2> HIDE DEF places
    <2>2. T!Picked(pairs, places) = Picked(pairs, places)
      BY SameListings
    <2>3. Proper(Picked(pairs, places))
      BY <2>1, PickedIsProper
    <2> QED BY <2>2, <2>3 DEF places
  <1> HIDE DEF conflicts
  <1>5. Proper(merged)
    <2>1. PICK gone : merged = T!Picked(conflicts, DOMAIN conflicts \ gone)
      BY DEF T!Merge
    <2>2. DOMAIN conflicts \ gone \in SUBSET (1 .. Len(conflicts)) /\ Len(conflicts) \in Nat
      BY <1>4 DEF Proper
    <2> DEFINE places == DOMAIN conflicts \ gone
    <2> HIDE DEF places
    <2>3. T!Picked(conflicts, places) = Picked(conflicts, places)
      BY SameListings
    <2>4. Proper(Picked(conflicts, places))
      BY <2>2, PickedIsProper DEF places
    <2> QED BY <2>1, <2>3, <2>4 DEF places
  <1>6. T!PageTwins(a, h) = <<>> \/ (T!PageTwins(a, h) = told /\ ~(Len(merged) > 2))
    <2> HIDE DEF merged, pairs, told
    <2> QED BY DEF T!PageTwins, as, hs, pairs, conflicts, merged, told
  <1> HIDE DEF merged
  <1>7. Proper(told) /\ Len(told) = Len(merged)
    <2> DEFINE n == Len(merged)
               f(k) == <<as[merged[k][1]].text, hs[merged[k][2]].text>>
    <2>1. n \in Nat /\ DOMAIN merged = 1 .. n
      BY <1>5 DEF Proper
    <2>2. told = [k \in DOMAIN merged |-> f(k)]
      OBVIOUS
    <2> HIDE DEF n, f, told
    <2>3. told = [k \in 1 .. n |-> f(k)]
      BY <2>1, <2>2
    <2>4. Len(told) = n /\ told = [k \in 1 .. n |-> told[k]]
      BY <2>1, <2>3
    <2> QED BY <2>1, <2>4 DEF Proper, n
  <1>8. Proper(<<>>) /\ Len(<<>>) = 0
    BY DEF Proper
  <1>9. Len(merged) \in Nat
    BY <1>5 DEF Proper
  <1> HIDE DEF told
  <1> QED BY <1>6, <1>7, <1>8, <1>9

(* Each report has one page.                                                  *)
LEMMA TwinsOfOnePage ==
  ASSUME NEW a, IsList(a), NEW h, IsList(h)
  PROVE  LET told == T!PageTwins(a, h)
         IN  /\ T!PositionTwins(<<a>>, <<h>>) = SubSeq(told, 1, Len(told))
             /\ Len(T!PositionTwins(<<a>>, <<h>>)) = Len(told) /\ Len(told) <= 2
PROOF
  <1> DEFINE told == T!PageTwins(a, h)
             pages == <<told>>
             all == [p \in DOMAIN <<a>> |-> T!PageTwins(<<a>>[p], <<h>>[p])]
  <1>1. Proper(told) /\ Len(told) <= 2
    BY PagesTellFew
  <1>2. all = pages
    <2>1. DOMAIN <<a>> = 1 .. 1 /\ \A p \in 1 .. 1 : T!PageTwins(<<a>>[p], <<h>>[p]) = told
      OBVIOUS
    <2>2. all = [p \in 1 .. 1 |-> told]
      BY <2>1
    <2> HIDE DEF told
    <2>3. pages = [p \in 1 .. 1 |-> told]
      OBVIOUS
    <2> QED BY <2>2, <2>3
  <1>3. T!PositionTwins(<<a>>, <<h>>) = T!FirstFew(T!Joined(all), 3)
    BY DEF T!PositionTwins
  <1> HIDE DEF all, told
  <1>4. T!Joined(pages) = told
    <2>1. Len(pages) = 1 /\ Proper(pages) /\ pages[1] = told /\ \A k \in 1 .. Len(pages) : Proper(pages[k])
      BY <1>1 DEF Proper
    <2> HIDE DEF pages
    <2>2. Joined(pages) = told
      BY <2>1, FlattenedLists
    <2> QED BY <2>2, SameListings
  <1>5. T!FirstFew(told, 3) = SubSeq(told, 1, Len(told))
    BY <1>1 DEF T!FirstFew, Proper
  <1>6. Len(SubSeq(told, 1, Len(told))) = Len(told)
    <2>1. told \in Seq(ElementsOf(told))
      BY <1>1, ProperListsAreSequences DEF ElementsOf
    <2> QED BY <1>1, <2>1
  <1> QED BY <1>1, <1>2, <1>3, <1>4, <1>5, <1>6 DEF told

LEMMA PositionsTellFew ==
  ASSUME NEW a, IsList(a), NEW h, IsList(h)
  PROVE  Len(T!PositionTwins(<<a>>, <<h>>)) <= 2
PROOF
  <1>1. Len(T!PositionTwins(<<a>>, <<h>>)) = Len(T!PageTwins(a, h)) /\ Len(T!PageTwins(a, h)) <= 2
    BY TwinsOfOnePage, Zenon
  <1> QED BY <1>1, Zenon

LEMMA PositionBudget ==
  ASSUME RunPositions, \A p \in Pages : Proper(p)
  PROVE  Len(found'.told) <= 2
PROOF
  <1> DEFINE A(page, edit, at, to) == IF edit = "overlaid" THEN Covered(page, at, to) ELSE page
             H(page, edit, at, to) == CASE edit = "retyped" -> Retyped(page, at, to)
                                        [] edit = "exchanged" -> Exchanged(page, at, (at % Len(page)) + 1)
                                        [] OTHER -> page
  <1>1. PICK page, edit, to, at : 
          /\ page \in Pages
          /\ input' = [a |-> A(page, edit, at, to), at |-> at, to |-> to, edit |-> edit, h |-> H(page, edit, at, to)]
    BY Zenon DEF RunPositions
  <1>2. found'.told = T!PositionTwins(<<input'.a>>, <<input'.h>>)
    BY DEF RunPositions
  <1>3. Proper(page) /\ IsList(page)
    BY <1>1, ProperIsAList
  <1> DEFINE a == A(page, edit, at, to)
             h == H(page, edit, at, to)
  <1>4. input'.a = a /\ input'.h = h
    <2> HIDE DEF A, H
    <2> QED BY <1>1
  <1>5. IsList(a)
    <2> DEFINE over == <<[page[at] EXCEPT !.text = to, !.order = 1000]>>
    <2>1. Proper(over)
      BY DEF Proper
    <2>2. Covered(page, at, to) = over \o page
      BY DEF Covered
    <2> HIDE DEF over
    <2>3. Proper(over \o page)
      BY <1>3, <2>1, JoinedLists
    <2>4. IsList(Covered(page, at, to))
      BY <2>2, <2>3, ProperIsAList
    <2> QED BY <1>3, <2>4
  <1>6. IsList(h)
    <2>1. DOMAIN Retyped(page, at, to) = DOMAIN page /\ \A i, j : DOMAIN Exchanged(page, i, j) = DOMAIN page
      BY DEF Retyped, Exchanged
    <2>2. DOMAIN h = DOMAIN page
      BY <2>1
    <2> DEFINE n == Len(page)
    <2>3. n \in Nat /\ DOMAIN h = 1 .. n
      BY <1>3, <2>2 DEF IsList
    <2> HIDE DEF n, h
    <2>4. Len(h) = n
      BY <2>3
    <2> QED BY <2>3, <2>4 DEF IsList
  <1> HIDE DEF a, h
  <1> QED BY <1>2, <1>4, <1>5, <1>6, PositionsTellFew

-----------------------------------------------------------------------------
(* What the tamper check keeps while it goes through the keys.                *)
Severities == {"low", "medium", "high", "review"}
Tellings == [told : Seq(Severities), calls : {0, 1}]

LEMMA TellsOne ==
  ASSUME NEW acc \in Tellings, NEW a, NEW h, NEW exact, NEW answer
  PROVE  K!Tell(acc, a, h, exact, answer) \in Tellings /\ Len(K!Tell(acc, a, h, exact, answer).told) = Len(acc.told) + 1
PROOF
  <1> DEFINE new == K!Tell(acc, a, h, exact, answer)
  <1>1. acc.told \in Seq(Severities) /\ acc.calls \in {0, 1} /\ acc = [told |-> acc.told, calls |-> acc.calls]
    BY DEF Tellings
  <1>2. PICK word \in Severities, calls \in {0, 1} : new = [told |-> Append(acc.told, word), calls |-> calls]
    <2> DEFINE forced == K!Forced(a, h, acc.calls)
               word == IF (forced \/ a.marked \/ h.marked) /\ answer THEN "review" ELSE K!Severity(a, h)
               calls == acc.calls + (IF forced THEN 1 ELSE 0)
    <2>1. CASE exact
      <3>1. new = [acc EXCEPT !.told = Append(@, "low")]
        BY <2>1 DEF K!Tell
      <3>2. new = [told |-> Append(acc.told, "low"), calls |-> acc.calls]
        BY <1>1, <3>1
      <3> QED BY <1>1, <3>2 DEF Severities
    <2>2. CASE ~exact
      <3>1. new = [told |-> Append(acc.told, word), calls |-> calls]
        BY <2>2 DEF K!Tell
      <3>2. word \in Severities
        BY DEF K!Severity, Severities
      <3>3. calls \in {0, 1}
        <4>1. forced => acc.calls < 1
          BY DEF K!Forced
        <4> HIDE DEF forced
        <4> QED BY <1>1, <4>1
      <3> HIDE DEF word, calls
      <3> QED BY <3>1, <3>2, <3>3
    <2> QED BY <2>1, <2>2
  <1> HIDE DEF new
  <1>3. Append(acc.told, word) \in Seq(Severities) /\ Len(Append(acc.told, word)) = Len(acc.told) + 1
    BY <1>1
  <1> QED BY <1>2, <1>3 DEF Tellings, new

ToldInTurn(g, acc, a, h, pairs, exact, answer) ==
  /\ g[0] = acc
  /\ \A k \in 1 .. Len(pairs) : g[k] = K!Tell(g[k - 1], a[pairs[k][1]], h[pairs[k][2]], exact, answer)
  /\ K!TellAll(acc, a, h, pairs, exact, answer) = g[Len(pairs)]
LEMMA TellAllFollows ==
  ASSUME NEW acc \in Tellings, NEW a, NEW h, NEW pairs, Len(pairs) \in Nat, NEW exact, NEW answer
  PROVE  \E g : ToldInTurn(g, acc, a, h, pairs, exact, answer)
PROOF
  <1> DEFINE n == Len(pairs)
             Step(x, k) == K!Tell(x, a[pairs[k][1]], h[pairs[k][2]], exact, answer)
             step == [p \in (1 .. n) \X Tellings |-> Step(p[2], p[1])]
             Is(g) == g = [k \in 0 .. n |-> IF k = 0 THEN acc ELSE Step(g[k - 1], k)]
  <1>1. n \in Nat /\ \A k \in 1 .. n, x \in Tellings : Step(x, k) \in Tellings /\ Len(Step(x, k).told) = Len(x.told) + 1
    BY TellsOne
  <1> HIDE DEF n
  <1>2. IsStep(step, n, Tellings)
    <2> HIDE DEF Step
    <2> QED BY <1>1 DEF IsStep
  <1>3. PICK g : IsWalk(g, n, Tellings, acc, step)
    <2> HIDE DEF step
    <2> QED BY <1>1, <1>2, StepsAreTaken
  <1>4. Is(g)
    <2>1. \A k \in 1 .. n : g[k] = Step(g[k - 1], k)
      <3>1. \A k \in 1 .. n : k - 1 \in 0 .. n
        BY <1>1
      <3> HIDE DEF Step
      <3> QED BY <1>3, <3>1 DEF IsWalk
    <2> HIDE DEF Step, step
    <2>2. \A k \in 0 .. n : k = 0 \/ k \in 1 .. n
      BY <1>1
    <2> QED BY <1>3, <2>1, <2>2 DEF IsWalk
  <1> DEFINE after == CHOOSE x : Is(x)
  <1>5. Is(after)
    <2> HIDE DEF Is
    <2> QED BY <1>4
  <1>6. K!TellAll(acc, a, h, pairs, exact, answer) = after[n]
    BY DEF K!TellAll, n
  <1> HIDE DEF after, Step
  <1>7. after[0] = acc /\ \A k \in 1 .. n : after[k] = Step(after[k - 1], k)
    <2>1. 0 \in 0 .. n /\ \A k \in 1 .. n : k \in 0 .. n /\ k # 0
      BY <1>1
    <2> QED BY <1>5, <2>1
  <1> QED BY <1>6, <1>7 DEF Step, n, ToldInTurn

(* One key tells two differences at most.                                     *)
LEMMA AllAreTold ==
  ASSUME NEW acc \in Tellings, NEW a, NEW h, NEW pairs, Len(pairs) \in Nat, NEW exact, NEW answer
  PROVE  LET new == K!TellAll(acc, a, h, pairs, exact, answer)
         IN  new \in Tellings /\ Len(new.told) = Len(acc.told) + Len(pairs)
PROOF
  <1> DEFINE n == Len(pairs)
             Step(x, k) == K!Tell(x, a[pairs[k][1]], h[pairs[k][2]], exact, answer)
  <1>1. n \in Nat /\ \A k \in 1 .. n, x \in Tellings : Step(x, k) \in Tellings /\ Len(Step(x, k).told) = Len(x.told) + 1
    BY TellsOne
  <1>2. PICK after : ToldInTurn(after, acc, a, h, pairs, exact, answer)
    BY TellAllFollows
  <1>6. K!TellAll(acc, a, h, pairs, exact, answer) = after[n]
    BY <1>2 DEF ToldInTurn
  <1>7. after[0] = acc /\ \A k \in 1 .. n : after[k] = Step(after[k - 1], k)
    BY <1>2 DEF ToldInTurn
  <1> HIDE DEF n, Step
  <1> DEFINE At(k) == after[k] \in Tellings /\ Len(after[k].told) = Len(acc.told) + k
             S == {k \in Nat : k <= n => At(k)}
  <1>8. Len(acc.told) \in Nat
    BY DEF Tellings
  <1>9. 0 \in S
    BY <1>7, <1>8
  <1>10. ASSUME NEW k \in Nat, k \in S PROVE k + 1 \in S
    <2> SUFFICES ASSUME k + 1 <= n PROVE At(k + 1)
      <3> HIDE DEF At
      <3> QED OBVIOUS
    <2>1. k + 1 \in 1 .. n /\ k + 1 - 1 = k /\ k <= n
      BY <1>1
    <2>2. At(k)
      <3> HIDE DEF At
      <3> QED BY <1>10, <2>1
    <2> DEFINE l == k + 1
    <2>3. l \in 1 .. n /\ l - 1 = k
      BY <2>1
    <2> HIDE DEF l
    <2>4. after[l] = Step(after[k], l)
      BY <1>7, <2>3
    <2>5. after[l] \in Tellings /\ Len(after[l].told) = Len(after[k].told) + 1
      BY <1>1, <2>2, <2>3, <2>4
    <2> DEFINE x == Len(after[l].told)
               y == Len(after[k].told)
               z == Len(acc.told)
    <2>6. x = y + 1 /\ y = z + k /\ z \in Nat
      BY <1>8, <2>2, <2>5
    <2> HIDE DEF x, y, z
    <2>7. x = z + l
      BY <2>6 DEF l
    <2>8. At(l)
      BY <2>5, <2>7 DEF x, z
    <2> HIDE DEF At
    <2> QED BY <2>8 DEF l
  <1> HIDE DEF S, At
  <1>11. n \in S
    BY <1>1, <1>9, <1>10, EveryNumber
  <1>12. At(n)
    BY <1>1, <1>11 DEF S
  <1> QED BY <1>6, <1>12 DEF n, At

LEMMA MismatchesAreFew ==
  ASSUME NEW a, IsList(a), NEW h, IsList(h)
  PROVE  Len(K!Mismatches(a, h)) \in 0 .. 2
PROOF
  <1> DEFINE all == {p \in (DOMAIN a) \X (DOMAIN h) : K!Mismatch(a[p[1]], h[p[2]])}
             rank == [p \in all |-> <<- K!Share(a[p[1]], h[p[2]]), - a[p[1]].page, - h[p[2]].page>>]
             ranked == K!Ranked(all, rank)
             m == IF Len(ranked) < 2 THEN Len(ranked) ELSE 2
  <1>1. IsFiniteSet(all)
    <2>1. IsFiniteSet((DOMAIN a) \X (DOMAIN h))
      BY PairsOfPlaces DEF IsList
    <2> QED BY <2>1, FS_Subset
  <1>2. K!Mismatches(a, h) = SubSeq(ranked, 1, m)
    BY DEF K!Mismatches
  <1> HIDE DEF all, rank
  <1>3. Proper(ranked)
    <2>1. ranked = Ranked(all, rank)
      BY SameListings
    <2> QED BY <1>1, <2>1, RankedIsProper
  <1> HIDE DEF ranked
  <1>4. ranked \in Seq(ElementsOf(ranked))
    BY <1>3, ProperListsAreSequences DEF ElementsOf
  <1>5. m \in 0 .. 2 /\ m <= Len(ranked)
    BY <1>3 DEF Proper
  <1> HIDE DEF m
  <1>6. Len(SubSeq(ranked, 1, m)) = m
    BY <1>4, <1>5
  <1> QED BY <1>2, <1>5, <1>6

LEMMA KeysTellFew ==
  ASSUME NEW acc \in Tellings, NEW as, IsList(as), NEW hs, IsList(hs), NEW k, NEW answer
  PROVE  LET new == K!TellKey(acc, K!OfKey(as, k), K!OfKey(hs, k), answer)
         IN  new \in Tellings /\ Len(new.told) <= Len(acc.told) + 2
PROOF
  <1> DEFINE a == K!OfKey(as, k)
             h == K!OfKey(hs, k)
  <1>1. ASSUME NEW s, IsList(s) PROVE IsList(K!OfKey(s, k))
    <2> DEFINE places == {i \in DOMAIN s : s[i].key = k}
    <2>1. K!OfKey(s, k) = Picked(s, places)
      BY SameListings DEF K!OfKey
    <2>2. Len(s) \in Nat /\ places \in SUBSET (1 .. Len(s))
      BY <1>1 DEF IsList
    <2> HIDE DEF places
    <2> QED BY <2>1, <2>2, PickedIsAList
  <1>2. IsList(a) /\ IsList(h)
    BY <1>1
  <1> HIDE DEF a, h
  <1> DEFINE pairs == K!Mismatches(a, h)
             new == K!TellKey(acc, a, h, answer)
  <1>3. Len(pairs) \in 0 .. 2
    BY <1>2, MismatchesAreFew
  <1> HIDE DEF pairs
  <1>4. Len(acc.told) \in Nat
    BY DEF Tellings
  <1>5. new = acc \/ new = K!TellAll(acc, a, h, pairs, K!ExactPair(a, h), answer)
    BY DEF K!TellKey, pairs
  <1> HIDE DEF new
  <1>6. Len(pairs) \in Nat
    BY <1>3
  <1>7. CASE new = acc
    BY <1>4, <1>7 DEF new, a, h
  <1>8. CASE new = K!TellAll(acc, a, h, pairs, K!ExactPair(a, h), answer)
    <2>1. new \in Tellings /\ Len(new.told) = Len(acc.told) + Len(pairs)
      BY <1>6, <1>8, AllAreTold
    <2> DEFINE x == Len(new.told)
               y == Len(acc.told)
               z == Len(pairs)
    <2>2. x <= y + 2
      <3>1. x = y + z /\ y \in Nat /\ z \in 0 .. 2
        BY <1>3, <1>4, <2>1
      <3> HIDE DEF x, y, z
      <3> QED BY <3>1
    <2> QED BY <2>1, <2>2 DEF new, a, h
  <1> QED BY <1>5, <1>7, <1>8

TellKeyOf(acc, as, hs, k, answer) == K!TellKey(acc, K!OfKey(as, k), K!OfKey(hs, k), answer)
LEMMA KeysFollow ==
  ASSUME NEW as, IsList(as), NEW hs, IsList(hs), NEW answer
  PROVE  K!ExactDiffs(as, hs, <<"assets", "eps">>, answer)
           = TellKeyOf(TellKeyOf(K!NothingTold, as, hs, "assets", answer), as, hs, "eps", answer)
PROOF
  <1> DEFINE keys == <<"assets", "eps">>
             Step(x, k) == K!TellKey(x, K!OfKey(as, keys[k]), K!OfKey(hs, keys[k]), answer)
             step == [p \in (1 .. 2) \X Tellings |-> Step(p[2], p[1])]
             Is(g) == g = [k \in 0 .. 2 |-> IF k = 0 THEN K!NothingTold ELSE Step(g[k - 1], k)]
  <1>1. \A k \in 1 .. 2, x \in Tellings : Step(x, k) \in Tellings /\ Len(Step(x, k).told) <= Len(x.told) + 2
    BY KeysTellFew
  <1>2. Len(keys) = 2
    OBVIOUS
  <1> HIDE DEF keys
  <1>3. K!NothingTold \in Tellings /\ K!NothingTold.told = <<>>
    BY DEF K!NothingTold, Tellings
  <1>4. IsStep(step, 2, Tellings)
    <2> HIDE DEF Step
    <2> QED BY <1>1 DEF IsStep
  <1>5. PICK g : IsWalk(g, 2, Tellings, K!NothingTold, step)
    <2> HIDE DEF step
    <2>1. 2 \in Nat
      OBVIOUS
    <2> QED BY <1>3, <1>4, <2>1, StepsAreTaken
  <1>6. Is(g)
    <2>1. \A k \in 1 .. 2 : g[k] = Step(g[k - 1], k)
      <3>1. \A k \in 1 .. 2 : k - 1 \in 0 .. 2
        OBVIOUS
      <3> HIDE DEF Step
      <3> QED BY <1>5, <3>1 DEF IsWalk
    <2> HIDE DEF Step, step
    <2>2. \A k \in 0 .. 2 : k = 0 \/ k \in 1 .. 2
      OBVIOUS
    <2> QED BY <1>5, <2>1, <2>2 DEF IsWalk
  <1> DEFINE after == CHOOSE x : Is(x)
  <1>7. Is(after)
    <2> HIDE DEF Is
    <2> QED BY <1>6
  <1>8. K!ExactDiffs(as, hs, keys, answer) = after[2]
    BY <1>2 DEF K!ExactDiffs
  <1> HIDE DEF after, Step
  <1>9. after[0] = K!NothingTold /\ after[1] = Step(after[0], 1) /\ after[2] = Step(after[1], 2)
    BY <1>7
  <1>10. keys[1] = "assets" /\ keys[2] = "eps"
    BY DEF keys
  <1> QED BY <1>8, <1>9, <1>10 DEF Step, keys, TellKeyOf

LEMMA TamperTellsFew ==
  ASSUME NEW as, IsList(as), NEW hs, IsList(hs), NEW answer
  PROVE  LET found1 == K!ExactDiffs(as, hs, <<"assets", "eps">>, answer)
         IN  found1 \in Tellings /\ Len(found1.told) <= 4
PROOF
  <1> DEFINE x0 == K!NothingTold
             x1 == TellKeyOf(x0, as, hs, "assets", answer)
             x2 == TellKeyOf(x1, as, hs, "eps", answer)
  <1>9. \A x \in Tellings : \A k : TellKeyOf(x, as, hs, k, answer) \in Tellings /\ Len(TellKeyOf(x, as, hs, k, answer).told) <= Len(x.told) + 2
    BY KeysTellFew DEF TellKeyOf
  <1>8. K!ExactDiffs(as, hs, <<"assets", "eps">>, answer) = x2
    BY KeysFollow
  <1>10. x0 \in Tellings /\ Len(x0.told) = 0
    BY DEF K!NothingTold, Tellings
  <1> HIDE DEF x0
  <1>11. x1 \in Tellings /\ Len(x1.told) <= Len(x0.told) + 2
    BY <1>9, <1>10
  <1> HIDE DEF x1
  <1>12. x2 \in Tellings /\ Len(x2.told) <= Len(x1.told) + 2
    BY <1>9, <1>11
  <1> HIDE DEF x2
  <1>13. Len(x1.told) \in Nat /\ Len(x2.told) \in Nat
    BY <1>11, <1>12 DEF Tellings
  <1>14. Len(x2.told) <= 4
    BY <1>10, <1>11, <1>12, <1>13
  <1> QED BY <1>8, <1>12, <1>14

LEMMA TamperBudget ==
  ASSUME RunTamper, \A s \in MetricSides : IsList(s)
  PROVE  found'.calls <= 1 /\ Len(found'.told) <= 4
PROOF
  <1>1. PICK as, to, answer, at :
          /\ as \in MetricSides
          /\ input' = [as |-> as, hs |-> Altered(as, at, to), at |-> at, answer |-> answer]
    BY Zenon DEF RunTamper
  <1> DEFINE hs == Altered(as, at, to)
  <1>2. found' = K!ExactDiffs(as, hs, <<"assets", "eps">>, answer)
    <2> HIDE DEF hs
    <2>1. input'.as = as /\ input'.hs = hs /\ input'.answer = answer
      BY <1>1 DEF hs
    <2> QED BY <2>1 DEF RunTamper
  <1>3. IsList(hs)
    <2> DEFINE n == Len(as)
    <2>1. n \in Nat /\ DOMAIN as = 1 .. n
      BY <1>1 DEF IsList
    <2>2. DOMAIN hs = DOMAIN as
      BY DEF Altered
    <2> HIDE DEF n, hs
    <2>3. DOMAIN hs = 1 .. n /\ Len(hs) = n
      BY <2>1, <2>2
    <2> QED BY <2>1, <2>3 DEF IsList
  <1> HIDE DEF hs
  <1>4. found' \in Tellings /\ Len(found'.told) <= 4
    BY <1>1, <1>2, <1>3, TamperTellsFew
  <1> QED BY <1>4 DEF Tellings

-----------------------------------------------------------------------------
(* Occurrences of metrics, as far as their ranks and places are concerned.    *)
IsItem(x) ==
  /\ {"n", "conf", "strength", "unit"} \subseteq DOMAIN x
  /\ x.n \in Int /\ x.conf \in Int /\ x.strength \in Int /\ x.unit \in Int
AreItems(s) == Proper(s) /\ \A i \in 1 .. Len(s) : IsItem(s[i])

LEMMA MadeItems ==
  ASSUME NEW n \in Nat, NEW f, f = [k \in 1 .. n |-> f[k]], \A k \in 1 .. n : IsItem(f[k])
  PROVE  AreItems(f) /\ Len(f) = n
PROOF
  <1>1. DOMAIN f = 1 .. n
    OBVIOUS
  <1>2. Len(f) = n
    BY <1>1
  <1>3. Proper(f)
    BY <1>2 DEF Proper
  <1> QED BY <1>2, <1>3 DEF AreItems

LEMMA NoItems == AreItems(<<>>)
PROOF
  <1> QED BY DEF AreItems, Proper

LEMMA OneItem ==
  ASSUME NEW x, IsItem(x)
  PROVE  AreItems(<<x>>)
PROOF
  <1> DEFINE s == <<x>>
  <1>1. Len(s) = 1 /\ s = [i \in 1 .. 1 |-> s[i]] /\ s[1] = x
    OBVIOUS
  <1> HIDE DEF s
  <1>2. Proper(s)
    BY <1>1 DEF Proper
  <1>3. AreItems(s)
    BY <1>1, <1>2 DEF AreItems
  <1> QED BY <1>3 DEF s

LEMMA JoinedItems ==
  ASSUME NEW s, AreItems(s), NEW t, AreItems(t)
  PROVE  AreItems(s \o t)
PROOF
  <1> DEFINE r == s \o t
  <1>1. /\ Proper(r) /\ Len(r) = Len(s) + Len(t)
        /\ \A i \in 1 .. Len(r) :
              \/ i <= Len(s) /\ r[i] = s[i]
              \/ i - Len(s) \in 1 .. Len(t) /\ r[i] = t[i - Len(s)]
    BY JoinedLists DEF AreItems
  <1> HIDE DEF r
  <1>2. \A i \in 1 .. Len(r) : IsItem(r[i])
    <2> TAKE i \in 1 .. Len(r)
    <2>1. CASE i <= Len(s) /\ r[i] = s[i]
      <3>1. i \in 1 .. Len(s)
        BY <2>1 DEF AreItems, Proper
      <3> QED BY <2>1, <3>1 DEF AreItems
    <2>2. CASE i - Len(s) \in 1 .. Len(t) /\ r[i] = t[i - Len(s)]
      BY <2>2 DEF AreItems
    <2> QED BY <1>1, <2>1, <2>2
  <1> QED BY <1>1, <1>2 DEF AreItems, r

LEMMA FlattenedItems ==
  ASSUME NEW seqs, IsList(seqs), seqs = [k \in DOMAIN seqs |-> seqs[k]], \A k \in 1 .. Len(seqs) : AreItems(seqs[k])
  PROVE  AreItems(Joined(seqs))
PROOF
  <1> DEFINE flat == Joined(seqs)
  <1>1. Proper(seqs) /\ \A k \in 1 .. Len(seqs) : Proper(seqs[k])
    BY DEF IsList, Proper, AreItems
  <1>2. /\ Proper(flat)
        /\ \A i \in 1 .. Len(flat) : \E k \in 1 .. Len(seqs) : \E j \in 1 .. Len(seqs[k]) : flat[i] = seqs[k][j]
    BY <1>1, FlattenedLists
  <1> HIDE DEF flat
  <1>3. \A i \in 1 .. Len(flat) : IsItem(flat[i])
    BY <1>2 DEF AreItems
  <1> QED BY <1>2, <1>3 DEF AreItems, flat

LEMMA PickedItems ==
  ASSUME NEW s, NEW n \in Nat, NEW places \in SUBSET (1 .. n), \A i \in places : IsItem(s[i])
  PROVE  AreItems(Picked(s, places))
PROOF
  <1> DEFINE t == Picked(s, places)
  <1>1. Proper(t)
    BY PickedIsProper
  <1>2. \A k \in 1 .. Len(t) : \E i \in places : t[k] = s[i]
    BY PickedIsAList, Zenon
  <1> HIDE DEF t
  <1> QED BY <1>1, <1>2 DEF AreItems, t

LEMMA ItemsAreItems ==
  ASSUME NEW key, NEW label, NEW n \in Int, NEW at, at.unit \in Int,
         NEW conf \in Int, NEW strength \in Int, NEW source
  PROVE  LET x == R!Item(key, label, n, at, conf, strength, source)
         IN  /\ IsItem(x)
             /\ \A ck : IsItem([x EXCEPT !.ck = ck])
             /\ \A ck, period : IsItem([x EXCEPT !.ck = ck, !.period = period])
PROOF
  <1> DEFINE x == R!Item(key, label, n, at, conf, strength, source)
  <1>1. IsItem(x)
    BY DEF R!Item, IsItem
  <1> HIDE DEF x
  <1>2. \A ck : IsItem([x EXCEPT !.ck = ck])
    BY <1>1 DEF IsItem
  <1>3. \A ck, period : IsItem([x EXCEPT !.ck = ck, !.period = period])
    BY <1>1 DEF IsItem
  <1> QED BY <1>1, <1>2, <1>3, Zenon DEF x

-----------------------------------------------------------------------------
(* The cells of a table under their columns and labels.                       *)
LEMMA TablesGiveItems ==
  ASSUME NEW t, IsTable(t)
  PROVE  AreItems(R!TableItems(t))
PROOF
  <1>1. PICK keys :
          LET RowItems(r) ==
                LET row == t.rows[r]
                    read == [c \in DOMAIN row |-> R!CellItem(t, r, c, R!CellKey(keys, row[c], c))]
                IN IF R!Labelled(t, r) = {} THEN <<>>
                   ELSE R!Picked(read, {c \in DOMAIN row : c > R!LabelAt(row) /\ row[c].n # 0 /\ read[c].key # "unmapped"})
          IN  R!TableItems(t) = R!Joined([r \in DOMAIN t.rows |-> RowItems(r)])
    BY DEF R!TableItems
  <1> DEFINE Read(r) == [c \in DOMAIN t.rows[r] |-> R!CellItem(t, r, c, R!CellKey(keys, t.rows[r][c], c))]
             Cells(r) == {c \in DOMAIN t.rows[r] : c > R!LabelAt(t.rows[r]) /\ t.rows[r][c].n # 0 /\ Read(r)[c].key # "unmapped"}
             RowItems(r) == IF R!Labelled(t, r) = {} THEN <<>> ELSE R!Picked(Read(r), Cells(r))
             all == [r \in DOMAIN t.rows |-> RowItems(r)]
  <1>2. R!TableItems(t) = R!Joined(all)
    BY <1>1
  <1>3. \A r \in DOMAIN t.rows : AreItems(RowItems(r))
    <2> TAKE r \in DOMAIN t.rows
    <2> DEFINE row == t.rows[r]
               n == Len(row)
    <2>1. n \in Nat /\ DOMAIN row = 1 .. n /\ \A c \in 1 .. n : row[c].n \in Int
      BY DEF IsTable, IsList
    <2>2. Cells(r) \in SUBSET (1 .. n)
      BY <2>1
    <2>3. \A c \in 1 .. n : IsItem(Read(r)[c])
      <3> TAKE c \in 1 .. n
      <3> DEFINE ck == R!CellKey(keys, row[c], c)
                 label == R!LabelOf(t, r)
      <3>1. Read(r)[c] = R!CellItem(t, r, c, ck)
        BY <2>1
      <3>2. 90 \in Int /\ 100 \in Int /\ row[c].n \in Int /\ t.unit \in Int
        BY <2>1 DEF IsTable
      <3> HIDE DEF ck, label
      <3> DEFINE x == R!Item(label.key, label.label, row[c].n, t, 90, 100, "table")
                 period == IF ck.period # R!NONE THEN ck.period ELSE t.period
      <3>3. R!CellItem(t, r, c, ck) = [x EXCEPT !.ck = ck, !.period = period]
        BY DEF R!CellItem, label
      <3> HIDE DEF period
      <3>4. \A ck1, period1 : IsItem([x EXCEPT !.ck = ck1, !.period = period1])
        <4> HIDE DEF n, row
        <4> QED BY <3>2, ItemsAreItems, Zenon
      <3>5. IsItem([x EXCEPT !.ck = ck, !.period = period])
        <4> HIDE DEF x, row, n
        <4> QED BY <3>4, Zenon
      <3> HIDE DEF x, row, n, Read
      <3> QED BY <3>1, <3>3, <3>5
    <2> HIDE DEF Read, n
    <2>4. AreItems(Picked(Read(r), Cells(r)))
      <3> DEFINE places == Cells(r)
      <3>1. places \in SUBSET (1 .. n) /\ \A c \in places : IsItem(Read(r)[c])
        BY <2>2, <2>3
      <3> HIDE DEF places
      <3>2. AreItems(Picked(Read(r), places))
        BY <2>1, <3>1, PickedItems
      <3> QED BY <3>2 DEF places
    <2> HIDE DEF Cells
    <2>5. R!Picked(Read(r), Cells(r)) = Picked(Read(r), Cells(r))
      BY SameListings
    <2> QED BY <2>4, <2>5, NoItems
  <1> HIDE DEF RowItems
  <1>4. IsList(all) /\ all = [r \in DOMAIN all |-> all[r]] /\ \A r \in 1 .. Len(all) : AreItems(all[r])
    <2> DEFINE n == Len(t.rows)
    <2>1. n \in Nat /\ DOMAIN t.rows = 1 .. n
      BY DEF IsTable, IsList
    <2>2. DOMAIN all = DOMAIN t.rows /\ all = [r \in DOMAIN all |-> all[r]] /\ \A r \in DOMAIN t.rows : all[r] = RowItems(r)
      OBVIOUS
    <2> HIDE DEF n, all
    <2>3. Len(all) = n
      BY <2>1, <2>2
    <2> QED BY <1>3, <2>1, <2>2, <2>3 DEF IsList
  <1> HIDE DEF all
  <1>5. AreItems(Joined(all))
    BY <1>4, FlattenedItems
  <1> QED BY <1>2, <1>5, SameListings

-----------------------------------------------------------------------------
(* _resolve_binding_conflicts keeps items it was given.                       *)
LEMMA BestAreItems ==
  ASSUME NEW items, AreItems(items), NEW marker, NEW rank
  PROVE  AreItems(R!KeepBest(items, marker, rank))
PROOF
  <1> DEFINE n == Len(items)
             U == Seq(1 .. n)
             Step(x, k) == R!Keep(x, k, marker, rank)
             step == [p \in (1 .. n) \X U |-> Step(p[2], p[1])]
             Is(g) == g = [k \in 0 .. n |-> IF k = 0 THEN <<>> ELSE Step(g[k - 1], k)]
  <1>1. n \in Nat
    BY DEF AreItems, Proper
  <1>2. ASSUME NEW k \in 1 .. n, NEW x \in U PROVE Step(x, k) \in U
    <2> DEFINE same == {p \in DOMAIN x : marker[x[p]] = marker[k]}
               new == [p \in DOMAIN x |-> IF p \in same /\ R!Above(rank[k], rank[x[p]]) THEN k ELSE x[p]]
    <2>1. Append(x, k) \in Seq(1 .. n)
      <3> HIDE DEF n
      <3> QED BY AppendProperties
    <2>2. new \in Seq(1 .. n)
      <3> DEFINE m == Len(x)
      <3>1. m \in Nat /\ DOMAIN x = 1 .. m /\ \A p \in 1 .. m : x[p] \in 1 .. n
        OBVIOUS
      <3> HIDE DEF n, m, same
      <3>2. new \in [1 .. m -> 1 .. n]
        BY <3>1
      <3> HIDE DEF new
      <3>3. Proper(new) /\ \A p \in 1 .. Len(new) : new[p] \in 1 .. n
        BY <3>1, <3>2 DEF Proper
      <3> QED BY <3>3, ProperListsAreSequences
    <2>3. Step(x, k) = Append(x, k) \/ Step(x, k) = new
      <3> HIDE DEF n, same
      <3> QED BY DEF R!Keep, same
    <2> QED BY <2>1, <2>2, <2>3
  <1>3. <<>> \in U
    OBVIOUS
  <1> HIDE DEF n, U
  <1>4. IsStep(step, n, U)
    <2> HIDE DEF Step
    <2> QED BY <1>2 DEF IsStep
  <1>5. PICK g : IsWalk(g, n, U, <<>>, step)
    <2> HIDE DEF step
    <2> QED BY <1>1, <1>3, <1>4, StepsAreTaken
  <1>6. Is(g)
    <2>1. \A k \in 1 .. n : g[k] = Step(g[k - 1], k)
      <3>1. \A k \in 1 .. n : k - 1 \in 0 .. n
        BY <1>1
      <3> HIDE DEF Step
      <3> QED BY <1>5, <3>1 DEF IsWalk
    <2> HIDE DEF Step, step
    <2>2. \A k \in 0 .. n : k = 0 \/ k \in 1 .. n
      BY <1>1
    <2> QED BY <1>5, <2>1, <2>2 DEF IsWalk
  <1> DEFINE kept == CHOOSE x : Is(x)
             best == kept[n]
  <1>7. Is(kept)
    <2> HIDE DEF Is
    <2> QED BY <1>6
  <1>8. R!KeepBest(items, marker, rank) = [p \in DOMAIN best |-> items[best[p]]]
    BY DEF R!KeepBest, n
  <1> HIDE DEF kept, Step
  <1>9. best \in U
    <2> DEFINE S == {k \in Nat : k <= n => kept[k] \in U}
    <2>1. kept[0] = <<>> /\ \A k \in 1 .. n : kept[k] = Step(kept[k - 1], k)
      <3>1. 0 \in 0 .. n /\ \A k \in 1 .. n : k \in 0 .. n /\ k # 0
        BY <1>1
      <3> QED BY <1>7, <3>1
    <2>2. 0 \in S
      BY <1>3, <2>1
    <2>3. ASSUME NEW k \in Nat, k \in S PROVE k + 1 \in S
      <3> SUFFICES ASSUME k + 1 <= n PROVE kept[k + 1] \in U
        OBVIOUS
      <3> DEFINE l == k + 1
      <3>1. l \in 1 .. n /\ l - 1 = k /\ kept[k] \in U
        BY <1>1, <2>3
      <3> HIDE DEF l
      <3>2. kept[l] \in U
        BY <1>2, <2>1, <3>1
      <3> QED BY <3>2 DEF l
    <2> HIDE DEF S
    <2>4. n \in S
      BY <1>1, <2>2, <2>3, EveryNumber
    <2> QED BY <1>1, <2>4 DEF S
  <1> HIDE DEF best
  <1> DEFINE m == Len(best)
             f == [p \in DOMAIN best |-> items[best[p]]]
  <1>10. m \in Nat /\ DOMAIN best = 1 .. m /\ \A p \in 1 .. m : best[p] \in 1 .. n
    <2>1. Proper(best) /\ \A p \in 1 .. Len(best) : best[p] \in 1 .. n
      BY <1>9, SequencesAreProper DEF U
    <2> HIDE DEF n
    <2> QED BY <2>1, ProperListsAreSequences DEF IsList
  <1>11. \A p \in 1 .. m : IsItem(items[best[p]])
    BY <1>10 DEF AreItems, n
  <1> HIDE DEF m
  <1>12. f = [p \in 1 .. m |-> f[p]] /\ \A p \in 1 .. m : IsItem(f[p])
    <2>1. \A p \in 1 .. m : f[p] = items[best[p]]
      BY <1>10
    <2>2. f = [p \in 1 .. m |-> f[p]]
      BY <1>10, <2>1
    <2> HIDE DEF f
    <2> QED BY <1>11, <2>1, <2>2
  <1> HIDE DEF f
  <1>13. AreItems(f)
    BY <1>10, <1>12, MadeItems
  <1> QED BY <1>8, <1>13 DEF f

LEMMA ResolvedAreItems ==
  ASSUME NEW items, AreItems(items)
  PROVE  AreItems(R!Deduped(R!Resolved(items))) /\ AreItems(R!Resolved(items))
PROOF
  <1>1. AreItems(R!Resolved(items))
    BY BestAreItems DEF R!Resolved
  <1> DEFINE s == R!Resolved(items)
  <1> HIDE DEF s
  <1>2. AreItems(s) => AreItems(R!Deduped(s))
    BY BestAreItems DEF R!Deduped
  <1> QED BY <1>1, <1>2 DEF s

-----------------------------------------------------------------------------
(* Numbers right after a label.                                               *)
LEMMA InlineGivesItems ==
  ASSUME NEW seg, IsText(seg)
  PROVE  AreItems(R!Inline(seg))
PROOF
  <1> DEFINE s == seg.tokens
             n == Len(s)
             places == {i \in DOMAIN s : R!Mapped(s[i]) /\ i < Len(s) /\ s[i + 1].n >= R!Sizeable}
             own == [i \in DOMAIN s |-> i]
             at == Picked(own, places)
             Label(i) == R!Item(s[i].key, s[i].label, s[i + 1].n, seg, 75, 60, "text")
             Read(i) == R!InlineItem(seg, i)
             m == Len(at)
             f == [k \in DOMAIN at |-> Read(at[k])]
  <1>1. n \in Nat /\ DOMAIN s = 1 .. n /\ \A i \in 1 .. n : s[i].n \in Int
    BY DEF IsText, IsList
  <1>2. places \in SUBSET (1 .. n) /\ \A i \in places : i + 1 \in 1 .. n
    BY <1>1
  <1>3. R!Inline(seg) = f
    <2>1. \A t : R!Picked(t, places) = Picked(t, places)
      BY SameListings
    <2> QED BY <2>1 DEF R!Inline
  <1>4. /\ Proper(at)
        /\ \A k \in 1 .. Len(at) : \E i \in places : at[k] = own[i]
    <2> HIDE DEF n, places, own
    <2> QED BY <1>1, <1>2, PickedIsProper, PickedIsAList, Zenon
  <1>5. \A k \in 1 .. Len(at) : at[k] \in places
    <2>1. \A i \in places : own[i] = i
      OBVIOUS
    <2> HIDE DEF places, own, at
    <2> QED BY <1>4, <2>1
  <1>6. \A i \in places : IsItem(Read(i))
    <2> TAKE i \in places
    <2>1. s[i + 1].n \in Int /\ 75 \in Int /\ 60 \in Int /\ seg.unit \in Int
      BY <1>1, <1>2 DEF IsText
    <2> HIDE DEF s, places
    <2> DEFINE ck == R!CellKey(<<R!NoKey>>, s[i + 1], 1)
               x == Label(i)
    <2> HIDE DEF ck
    <2>2. \A ck1 : IsItem([x EXCEPT !.ck = ck1])
      BY <2>1, ItemsAreItems, Zenon
    <2> HIDE DEF x
    <2>3. IsItem([x EXCEPT !.ck = ck])
      BY <2>2
    <2> QED BY <2>3 DEF x, ck, R!InlineItem, s
  <1> HIDE DEF places, own, at, Read
  <1>7. m \in Nat /\ DOMAIN at = 1 .. m
    BY <1>4 DEF Proper
  <1> HIDE DEF m
  <1>8. f = [k \in 1 .. m |-> f[k]] /\ \A k \in 1 .. m : f[k] = Read(at[k])
    BY <1>7
  <1> HIDE DEF f
  <1>9. \A k \in 1 .. m : IsItem(f[k])
    BY <1>5, <1>6, <1>8 DEF m
  <1> QED BY <1>3, <1>7, <1>8, <1>9, MadeItems

-----------------------------------------------------------------------------
LEMMA EarliestIsOne ==
  ASSUME NEW S \in SUBSET Nat, S # {}
  PROVE  R!Min(S) \in S
PROOF
  <1>1. PICK x \in S : \A y \in S : x <= y
    BY LeastElement
  <1> QED BY <1>1 DEF R!Min

(* The number a label is read with in running text.                           *)
LEMMA WindowedGivesItems ==
  ASSUME NEW seg, IsText(seg), NEW k
  PROVE  AreItems(R!Windowed(seg, k))
PROOF
  <1> DEFINE s == seg.tokens
             named == {i \in DOMAIN s : s[i].key = k}
             i == R!Min(named)
             after == {j \in (i + 1) .. Len(s) : j <= i + 3 /\ s[j].n # 0 /\ \A l \in i .. j : s[l].key # "stop"}
             j == R!Min(after)
             x == R!Item(k, s[i].label, s[j].n, seg, 75, 30, "text")
  <1>1. Len(s) \in Nat /\ DOMAIN s = 1 .. Len(s) /\ \A p \in 1 .. Len(s) : s[p].n \in Int
    BY DEF IsText, IsList
  <1>2. R!Windowed(seg, k) = <<>> \/ (R!Windowed(seg, k) = <<x>> /\ named # {} /\ after # {})
    BY DEF R!Windowed
  <1>3. ASSUME named # {}, after # {} PROVE IsItem(x)
    <2>1. i \in 1 .. Len(s)
      <3>1. named \in SUBSET Nat /\ named \subseteq 1 .. Len(s)
        BY <1>1
      <3> HIDE DEF named
      <3> QED BY <1>3, <3>1, EarliestIsOne
    <2> HIDE DEF i, s
    <2>2. j \in 1 .. Len(s)
      <3>1. after \in SUBSET Nat /\ after \subseteq 1 .. Len(s)
        BY <1>1, <2>1
      <3> HIDE DEF after
      <3> QED BY <1>3, <3>1, EarliestIsOne
    <2> HIDE DEF j
    <2>3. s[j].n \in Int /\ 75 \in Int /\ 30 \in Int /\ seg.unit \in Int
      BY <1>1, <2>2 DEF IsText
    <2> QED BY <2>3, ItemsAreItems, Zenon
  <1> HIDE DEF x, named, after
  <1>4. IsItem(x) => AreItems(<<x>>)
    BY OneItem
  <1> QED BY <1>2, <1>3, <1>4, NoItems

LEMMA RowValuesAreThere ==
  ASSUME NEW s, IsList(s), NEW i \in 1 .. Len(s)
  PROVE  LET at == R!RowValues(s, i)
         IN  Proper(at) /\ \A m \in 1 .. Len(at) : at[m] \in 1 .. Len(s)
PROOF
  <1> DEFINE n == Len(s)
             places == R!RowPlaces(s, i)
             all == [j \in DOMAIN s |-> j]
             at == Picked(all, places)
  <1>1. n \in Nat /\ DOMAIN s = 1 .. n
    BY DEF IsList
  <1>2. R!RowValues(s, i) = R!Picked(all, places)
    BY DEF R!RowValues
  <1>3. places \in SUBSET (1 .. n)
    <2> DEFINE U == (i + 1) .. Len(s)
    <2>1. \A u : u \in places => u \in U
      <3> HIDE DEF U
      <3> QED BY Zenon DEF R!RowPlaces, U
    <2>2. U \subseteq 1 .. n
      BY <1>1
    <2> HIDE DEF U, places
    <2> QED BY <2>1, <2>2
  <1>4. \A j \in 1 .. n : all[j] = j
    BY <1>1
  <1> HIDE DEF places, all, n
  <1>5. R!Picked(all, places) = at
    BY SameListings
  <1>6. Proper(at)
    BY <1>1, <1>3, PickedIsProper
  <1>7. \A m \in 1 .. Len(at) : \E j \in places : at[m] = all[j]
    BY <1>1, <1>3, PickedIsAList, Zenon
  <1> HIDE DEF at
  <1>8. \A m \in 1 .. Len(at) : at[m] \in 1 .. n
    BY <1>3, <1>4, <1>7
  <1> QED BY <1>2, <1>5, <1>6, <1>8 DEF n

LEMMA RawRowGivesItems ==
  ASSUME NEW seg, IsText(seg), NEW i \in 1 .. Len(seg.tokens)
  PROVE  AreItems(R!RawRow(seg, i))
PROOF
  <1> DEFINE s == seg.tokens
             n == Len(s)
             key == R!RawKey(seg, s[i])
             at == R!RowValues(s, i)
             Read(m) == R!Item(key, s[i].label, s[at[m]].n, seg, 82, 80, "text")
             f == [m \in DOMAIN at |-> Read(m)]
             l == Len(at)
  <1>1. n \in Nat /\ DOMAIN s = 1 .. n /\ IsList(s) /\ \A j \in 1 .. n : s[j].n \in Int
    BY DEF IsText, IsList
  <1>2. R!RawRow(seg, i) = <<>> \/ R!RawRow(seg, i) = f
    BY DEF R!RawRow
  <1> HIDE DEF s, key
  <1>3. Proper(at) /\ \A m \in 1 .. l : at[m] \in 1 .. n
    <2>1. i \in 1 .. Len(s)
      BY DEF s
    <2> HIDE DEF s
    <2> QED BY <1>1, <2>1, RowValuesAreThere
  <1> HIDE DEF at
  <1>4. l \in Nat /\ DOMAIN at = 1 .. l
    BY <1>3 DEF Proper
  <1>5. \A m \in 1 .. l : IsItem(Read(m))
    <2> TAKE m \in 1 .. l
    <2>1. s[at[m]].n \in Int /\ 82 \in Int /\ 80 \in Int /\ seg.unit \in Int
      BY <1>1, <1>3 DEF IsText
    <2> HIDE DEF l
    <2> QED BY <2>1, ItemsAreItems, Zenon
  <1> HIDE DEF l, Read
  <1>6. f = [m \in 1 .. l |-> f[m]] /\ \A m \in 1 .. l : f[m] = Read(m)
    BY <1>4
  <1> HIDE DEF f
  <1>7. AreItems(f)
    BY <1>4, <1>5, <1>6, MadeItems
  <1> QED BY <1>2, <1>7, NoItems

(* Lists of items, one of each of the places of a list.                       *)
LEMMA GatheredItems ==
  ASSUME NEW n \in Nat, NEW f, f = [k \in 1 .. n |-> f[k]], \A k \in 1 .. n : AreItems(f[k])
  PROVE  AreItems(R!Joined(f))
PROOF
  <1>1. DOMAIN f = 1 .. n
    OBVIOUS
  <1>2. Len(f) = n
    BY <1>1
  <1>3. IsList(f) /\ f = [k \in DOMAIN f |-> f[k]]
    BY <1>1, <1>2 DEF IsList
  <1>4. AreItems(Joined(f))
    BY <1>2, <1>3, FlattenedItems
  <1> QED BY <1>4, SameListings

LEMMA RawTextGivesItems ==
  ASSUME NEW seg, IsText(seg)
  PROVE  AreItems(R!RawItems(seg))
PROOF
  <1> DEFINE n == Len(seg.tokens)
             f == [i \in DOMAIN seg.tokens |-> R!RawRow(seg, i)]
  <1>1. n \in Nat /\ DOMAIN seg.tokens = 1 .. n
    BY DEF IsText, IsList
  <1>2. R!RawItems(seg) = <<>> \/ R!RawItems(seg) = R!Joined(f)
    BY DEF R!RawItems
  <1>3. f = [i \in 1 .. n |-> f[i]] /\ \A i \in 1 .. n : f[i] = R!RawRow(seg, i)
    BY <1>1
  <1>4. \A i \in 1 .. n : AreItems(R!RawRow(seg, i))
    BY RawRowGivesItems
  <1> HIDE DEF f, n
  <1>5. AreItems(R!Joined(f))
    BY <1>1, <1>3, <1>4, GatheredItems
  <1> QED BY <1>2, <1>5, NoItems

LEMMA TailsAreNumbers ==
  ASSUME NEW seg, IsText(seg)
  PROVE  LET t == R!TailNumbers(seg) IN Proper(t) /\ \A m \in 1 .. Len(t) : t[m] \in Int
PROOF
  <1> DEFINE s == seg.tail
             n == Len(s)
             counts == {i \in DOMAIN s : ~R!IsYear(s[i])}
             places == {i \in counts : R!Cardinality({j \in counts : j < i}) < R!MaxTail}
             t == Picked(s, places)
  <1>1. n \in Nat /\ DOMAIN s = 1 .. n /\ \A i \in 1 .. n : s[i] \in Int
    BY DEF IsText, IsList
  <1>2. R!TailNumbers(seg) = <<>> \/ R!TailNumbers(seg) = R!Picked(s, places)
    BY DEF R!TailNumbers
  <1>3. places \in SUBSET (1 .. n)
    BY <1>1
  <1> HIDE DEF places, s, n
  <1>4. R!Picked(s, places) = t
    BY SameListings
  <1>5. Proper(t)
    BY <1>1, <1>3, PickedIsProper
  <1>6. \A m \in 1 .. Len(t) : \E j \in places : t[m] = s[j]
    BY <1>1, <1>3, PickedIsAList, Zenon
  <1> HIDE DEF t
  <1>7. Proper(<<>>) /\ Len(<<>>) = 0
    BY DEF Proper
  <1>8. \A m \in 1 .. Len(t) : t[m] \in Int
    BY <1>1, <1>3, <1>6
  <1> QED BY <1>2, <1>4, <1>5, <1>7, <1>8

-----------------------------------------------------------------------------
(* Of a few things with different ranks, one is above all the others.         *)
LEMMA SomeoneIsAbove ==
  ASSUME NEW S, IsFiniteSet(S), S # {}, NEW d \in Nat, NEW rank,
         \A i \in S : rank[i] \in Ints(d),
         \A i, j \in S : i # j => rank[i] # rank[j]
  PROVE  \E i \in S : \A j \in S \ {i} : Above(rank[i], rank[j])
PROOF
  <1> DEFINE Ord == {o \in S \X S : Above(rank[o[1]], rank[o[2]])}
  <1>1. ASSUME NEW x \in S, NEW y \in S PROVE <<x, y>> \in Ord <=> Above(rank[x], rank[y])
    OBVIOUS
  <1> HIDE DEF Ord
  <1>2. IsOrder(Ord, S)
    <2>1. ASSUME NEW x \in S PROVE <<x, x>> \notin Ord
      BY <1>1, RanksCompare
    <2>2. ASSUME NEW x \in S, NEW y \in S, NEW z \in S, <<x, y>> \in Ord, <<y, z>> \in Ord PROVE <<x, z>> \in Ord
      BY <1>1, <2>2, RanksCompare
    <2> QED BY <2>1, <2>2 DEF IsOrder
  <1>3. PICK i \in S : \A j \in S : <<j, i>> \notin Ord
    BY <1>2, SomeoneIsFirst
  <1>4. ASSUME NEW j \in S \ {i} PROVE Above(rank[i], rank[j])
    BY <1>1, <1>3, RanksCompare
  <1> QED BY <1>4

LEMMA SameRanking == \A r, s : R!Above(r, s) = Above(r, s)
PROOF BY DEF R!Above, Above

(* The number laid over an item, and how well it fits, are numbers.           *)
LEMMA CoverRanks ==
  ASSUME NEW n \in Int, NEW x, IsItem(x), NEW i \in Int
  PROVE  /\ R!Laid(n, x) \in Int
         /\ R!CoverRank(n, x, i) \in Ints(4)
         /\ R!CoverRank(n, x, i)[4] = - i
PROOF
  <1> DEFINE laid == R!Laid(n, x)
             alike == R!Alike(n, x.n)
             kind == R!Specificity(x)
             all == R!Larger(R!Larger(R!Abs(laid), R!Abs(x.n)), 1)
             off == R!Abs(laid - x.n) * 1000
             far == - (off \div all)
             last == - i
  <1>1. laid \in Int /\ x.n \in Int
    BY DEF R!Laid, IsItem
  <1>2. alike \in Int
    <2> DEFINE D == {d \in 1 .. 5 : R!DigitsOf(n)[d] = R!DigitsOf(x.n)[d]}
    <2>1. alike = R!Cardinality(D)
      BY DEF R!Alike
    <2>2. D \subseteq 1 .. 5
      OBVIOUS
    <2> HIDE DEF D
    <2>3. IsFiniteSet(D)
      BY <2>2, Places, FS_Subset
    <2> QED BY <2>1, <2>3, FS_CardinalityType, SameListings
  <1>3. kind \in Int
    BY DEF R!Specificity
  <1>4. far \in Int
    <2>1. off \in Int
      BY <1>1 DEF R!Abs
    <2>2. all \in Nat /\ all > 0
      BY <1>1 DEF R!Larger, R!Abs
    <2> HIDE DEF off, all
    <2> QED BY <2>1, <2>2
  <1>5. last \in Int
    OBVIOUS
  <1>6. R!CoverRank(n, x, i) = <<alike, kind, far, last>>
    BY DEF R!CoverRank
  <1> HIDE DEF alike, kind, far, last
  <1>7. <<alike, kind, far, last>> \in Ints(4)
    BY <1>2, <1>3, <1>4, <1>5 DEF Ints
  <1> QED BY <1>1, <1>6, <1>7 DEF last

LEMMA CoverIsFree ==
  ASSUME NEW items, AreItems(items), NEW n \in Int, NEW free \in SUBSET (1 .. Len(items)), free # {}
  PROVE  R!BestCover(items, n, free) \in free
PROOF
  <1> DEFINE rank == [i \in free |-> R!CoverRank(n, items[i], i)]
             Is(i) == \A j \in free \ {i} : R!Above(R!CoverRank(n, items[i], i), R!CoverRank(n, items[j], j))
  <1>1. Len(items) \in Nat /\ \A i \in free : i \in Int /\ IsItem(items[i])
    BY DEF AreItems, Proper
  <1>2. IsFiniteSet(free)
    BY <1>1, Places, FS_Subset
  <1>3. \A i \in free : rank[i] \in Ints(4) /\ rank[i][4] = - i /\ rank[i] = R!CoverRank(n, items[i], i)
    BY <1>1, CoverRanks
  <1> HIDE DEF rank
  <1>4. \A i, j \in free : i # j => rank[i] # rank[j]
    BY <1>1, <1>3
  <1>5. PICK i \in free : \A j \in free \ {i} : Above(rank[i], rank[j])
    <2>1. 4 \in Nat
      OBVIOUS
    <2> QED BY <1>2, <1>3, <1>4, <2>1, SomeoneIsAbove, Zenon
  <1>6. Is(i)
    BY <1>3, <1>5, SameRanking
  <1>7. R!BestCover(items, n, free) = CHOOSE k \in free : Is(k)
    BY DEF R!BestCover
  <1> HIDE DEF Is
  <1> QED BY <1>6, <1>7

-----------------------------------------------------------------------------
LEMMA OverlayIsAnItem ==
  ASSUME NEW x, IsItem(x), NEW n \in Int, NEW seg
  PROVE  IsItem(R!Overlay(x, n, seg))
PROOF
  <1> DEFINE y == R!Overlay(x, n, seg)
             laid == R!Laid(n, x)
  <1>1. laid \in Int
    BY CoverRanks
  <1> HIDE DEF laid
  <1>2. 86 \in Int /\ 30 \in Int
    OBVIOUS
  <1>3. DOMAIN y = DOMAIN x /\ y.n = laid /\ y.conf = 86 /\ y.strength = 30 /\ y.unit = x.unit
    <2>1. {"n", "conf", "strength", "unit"} \subseteq DOMAIN x
      BY DEF IsItem
    <2>2. DOMAIN y = DOMAIN x
      BY Zenon DEF R!Overlay
    <2>4. y.n = laid
      BY <2>1 DEF R!Overlay, laid
    <2>5. y.conf = 86
      BY <2>1 DEF R!Overlay
    <2>6. y.strength = 30
      BY <2>1 DEF R!Overlay
    <2>3. y.unit = x.unit
      BY <2>1 DEF R!Overlay
    <2> QED BY <2>2, <2>3, <2>4, <2>5, <2>6
  <1> HIDE DEF y
  <1> QED BY <1>1, <1>2, <1>3 DEF IsItem, y

(* Numbers laid over a page add items.                                        *)
LEMMA OverlaidAreItems ==
  ASSUME NEW items, AreItems(items), NEW seg, NEW numbers, Proper(numbers), \A m \in 1 .. Len(numbers) : numbers[m] \in Int
  PROVE  AreItems(R!Overlaid(items, seg, numbers))
PROOF
  <1> DEFINE l == Len(items)
             n == Len(numbers)
             V == (1 .. l) \X (1 .. n)
             U == Seq(V)
             Step(x, k) == R!Cover(items, numbers, x, n + 1 - k)
             step == [p \in (1 .. n) \X U |-> Step(p[2], p[1])]
             Is(g) == g = [k \in 0 .. n |-> IF k = 0 THEN <<>> ELSE Step(g[k - 1], k)]
  <1>1. n \in Nat /\ l \in Nat /\ DOMAIN items = 1 .. l
    <2>1. IsList(items)
      BY ProperIsAList DEF AreItems
    <2> QED BY <2>1 DEF Proper, IsList
  <1>2. ASSUME NEW k \in 1 .. n, NEW x \in U PROVE Step(x, k) \in U
    <2> DEFINE m == n + 1 - k
               free == R!Free(items, numbers[m], x)
               best == R!BestCover(items, numbers[m], free)
    <2>1. m \in 1 .. n
      BY <1>1
    <2> HIDE DEF m
    <2>2. numbers[m] \in Int
      BY <2>1
    <2>3. free \in SUBSET (1 .. l)
      BY <1>1 DEF R!Free
    <2> HIDE DEF free
    <2>4. free # {} => best \in 1 .. l
      <3> HIDE DEF best
      <3>1. free # {} => best \in free
        BY <2>2, <2>3, CoverIsFree DEF l, best
      <3> QED BY <2>3, <3>1
    <2> HIDE DEF best
    <2>5. Step(x, k) = IF free = {} THEN x ELSE Append(x, <<best, m>>)
      BY DEF R!Cover, free, best, m
    <2>6. free # {} => <<best, m>> \in V
      BY <2>1, <2>4
    <2> HIDE DEF V
    <2>7. free # {} => Append(x, <<best, m>>) \in Seq(V)
      BY <2>6, AppendProperties
    <2> HIDE DEF Step
    <2> QED BY <2>5, <2>7
  <1>3. <<>> \in U
    OBVIOUS
  <1> HIDE DEF n, U, V
  <1>4. IsStep(step, n, U)
    <2> HIDE DEF Step
    <2> QED BY <1>2 DEF IsStep
  <1>5. PICK g : IsWalk(g, n, U, <<>>, step)
    <2> HIDE DEF step
    <2> QED BY <1>1, <1>3, <1>4, StepsAreTaken
  <1>6. Is(g)
    <2>1. \A k \in 1 .. n : g[k] = Step(g[k - 1], k)
      <3>1. \A k \in 1 .. n : k - 1 \in 0 .. n
        BY <1>1
      <3> HIDE DEF Step
      <3> QED BY <1>5, <3>1 DEF IsWalk
    <2> HIDE DEF Step, step
    <2>2. \A k \in 0 .. n : k = 0 \/ k \in 1 .. n
      BY <1>1
    <2> QED BY <1>5, <2>1, <2>2 DEF IsWalk
  <1> DEFINE after == CHOOSE x : Is(x)
             covers == after[n]
             f == [k \in DOMAIN covers |-> R!Overlay(items[covers[k][1]], numbers[covers[k][2]], seg)]
  <1>7. Is(after)
    <2> HIDE DEF Is
    <2> QED BY <1>6
  <1>8. R!Overlaid(items, seg, numbers) = items \o f
    BY DEF R!Overlaid, n
  <1> HIDE DEF after, Step
  <1>9. covers \in U
    <2> DEFINE S == {k \in Nat : k <= n => after[k] \in U}
    <2>1. after[0] = <<>> /\ \A k \in 1 .. n : after[k] = Step(after[k - 1], k)
      <3>1. 0 \in 0 .. n /\ \A k \in 1 .. n : k \in 0 .. n /\ k # 0
        BY <1>1
      <3> QED BY <1>7, <3>1
    <2>2. 0 \in S
      BY <1>3, <2>1
    <2>3. ASSUME NEW k \in Nat, k \in S PROVE k + 1 \in S
      <3> SUFFICES ASSUME k + 1 <= n PROVE after[k + 1] \in U
        OBVIOUS
      <3> DEFINE j == k + 1
      <3>1. j \in 1 .. n /\ j - 1 = k /\ after[k] \in U
        BY <1>1, <2>3
      <3> HIDE DEF j
      <3>2. after[j] \in U
        BY <1>2, <2>1, <3>1
      <3> QED BY <3>2 DEF j
    <2> HIDE DEF S
    <2>4. n \in S
      BY <1>1, <2>2, <2>3, EveryNumber
    <2> QED BY <1>1, <2>4 DEF S
  <1> HIDE DEF covers
  <1> DEFINE m == Len(covers)
  <1>10. m \in Nat /\ DOMAIN covers = 1 .. m /\ \A k \in 1 .. m : covers[k] \in V
    <2>1. Proper(covers) /\ \A k \in 1 .. Len(covers) : covers[k] \in V
      BY <1>9, SequencesAreProper DEF U
    <2> QED BY <2>1, ProperListsAreSequences DEF IsList
  <1>11. \A k \in 1 .. m : IsItem(R!Overlay(items[covers[k][1]], numbers[covers[k][2]], seg))
    <2> TAKE k \in 1 .. m
    <2>1. covers[k][1] \in 1 .. l /\ covers[k][2] \in 1 .. n
      BY <1>10 DEF V
    <2>2. IsItem(items[covers[k][1]]) /\ numbers[covers[k][2]] \in Int
      BY <2>1 DEF AreItems, n, l
    <2> QED BY <2>2, OverlayIsAnItem
  <1> HIDE DEF m
  <1>12. f = [k \in 1 .. m |-> f[k]] /\ \A k \in 1 .. m : IsItem(f[k])
    <2>1. \A k \in 1 .. m : f[k] = R!Overlay(items[covers[k][1]], numbers[covers[k][2]], seg)
      BY <1>10
    <2>2. f = [k \in 1 .. m |-> f[k]]
      BY <1>10, <2>1
    <2> HIDE DEF f
    <2> QED BY <1>11, <2>1, <2>2
  <1> HIDE DEF f
  <1>13. AreItems(f)
    BY <1>10, <1>12, MadeItems
  <1> QED BY <1>8, <1>13, JoinedItems

LEMMA TextsGiveItems ==
  ASSUME NEW seg, IsText(seg)
  PROVE  AreItems(R!TextItems(seg))
PROOF
  <1> DEFINE keys == <<"assets", "revenue", "eps">>
             inline == R!Inline(seg)
             Also(k) == IF \E i \in DOMAIN inline : inline[i].key = k THEN <<>> ELSE R!Windowed(seg, k)
             also == [m \in DOMAIN keys |-> Also(keys[m])]
             tail == R!TailNumbers(seg)
             read == inline \o R!Joined(also)
             all == IF tail = <<>> THEN read ELSE read \o R!RawItems(seg)
  <1>1. R!TextItems(seg) = IF seg.apart THEN <<>> ELSE R!Overlaid(R!Resolved(all), seg, tail)
    BY DEF R!TextItems
  <1>2. AreItems(inline)
    BY InlineGivesItems
  <1>3. \A k : AreItems(Also(k))
    BY WindowedGivesItems, NoItems
  <1> HIDE DEF inline, Also
  <1>4. DOMAIN keys = 1 .. 3
    OBVIOUS
  <1> HIDE DEF keys
  <1>5. also = [m \in 1 .. 3 |-> also[m]] /\ \A m \in 1 .. 3 : AreItems(also[m])
    BY <1>3, <1>4
  <1> HIDE DEF also
  <1>6. AreItems(R!Joined(also))
    <2>1. 3 \in Nat
      OBVIOUS
    <2> QED BY <1>5, <2>1, GatheredItems
  <1>7. AreItems(read)
    BY <1>2, <1>6, JoinedItems
  <1> HIDE DEF read
  <1>8. AreItems(all)
    BY <1>7, RawTextGivesItems, JoinedItems
  <1> HIDE DEF all
  <1>9. AreItems(R!Resolved(all))
    BY <1>8, ResolvedAreItems
  <1>10. Proper(tail) /\ \A m \in 1 .. Len(tail) : tail[m] \in Int
    BY TailsAreNumbers
  <1> HIDE DEF tail
  <1>11. AreItems(R!Overlaid(R!Resolved(all), seg, tail))
    <2> DEFINE resolved == R!Resolved(all)
    <2> HIDE DEF resolved
    <2>1. AreItems(resolved) => AreItems(R!Overlaid(resolved, seg, tail))
      BY <1>10, OverlaidAreItems
    <2> QED BY <1>9, <2>1 DEF resolved
  <1> QED BY <1>1, <1>11, NoItems

(* extract_metrics starts from a list of items.                               *)
LEMMA ReportsGiveItems ==
  ASSUME NEW r, IsReport(r)
  PROVE  AreItems(R!AllItems(r))
PROOF
  <1> DEFINE m == Len(r.tables)
             n == Len(r.texts)
             f == [t \in DOMAIN r.tables |-> R!TableItems(r.tables[t])]
             g == [s \in DOMAIN r.texts |-> R!TextItems(r.texts[s])]
             all == R!Joined(f) \o R!Joined(g)
  <1>1. m \in Nat /\ DOMAIN r.tables = 1 .. m /\ n \in Nat /\ DOMAIN r.texts = 1 .. n
    BY DEF IsReport, IsList
  <1>2. f = [t \in 1 .. m |-> f[t]] /\ \A t \in 1 .. m : f[t] = R!TableItems(r.tables[t])
    BY <1>1
  <1>3. g = [s \in 1 .. n |-> g[s]] /\ \A s \in 1 .. n : g[s] = R!TextItems(r.texts[s])
    BY <1>1
  <1>4. \A t \in 1 .. m : AreItems(R!TableItems(r.tables[t]))
    BY <1>1, TablesGiveItems DEF IsReport
  <1>5. \A s \in 1 .. n : AreItems(R!TextItems(r.texts[s]))
    BY <1>1, TextsGiveItems DEF IsReport
  <1>6. R!AllItems(r) = R!Deduped(R!Resolved(all))
    BY DEF R!AllItems
  <1> HIDE DEF f, g, m, n
  <1>7. AreItems(R!Joined(f)) /\ AreItems(R!Joined(g))
    BY <1>1, <1>2, <1>3, <1>4, <1>5, GatheredItems
  <1>8. AreItems(all)
    <2> DEFINE x == R!Joined(f)
               y == R!Joined(g)
    <2>1. AreItems(x) /\ AreItems(y)
      BY <1>7
    <2> HIDE DEF x, y
    <2>2. AreItems(x \o y)
      BY <2>1, JoinedItems
    <2> QED BY <2>2 DEF x, y
  <1> HIDE DEF all
  <1> QED BY <1>6, <1>8, ResolvedAreItems

-----------------------------------------------------------------------------
(* _occurrence_rank orders the items of a list, ties in the list's order.     *)
LEMMA OccurrenceRanks ==
  ASSUME NEW x, IsItem(x)
  PROVE  R!OccRank(x) \in Ints(5)
PROOF
  <1> DEFINE a == x.strength
             b == R!Structural(x)
             c == R!SectionWeight(x)
             d == x.conf
             e == R!Abs(x.n)
  <1>1. a \in Int /\ d \in Int /\ e \in Int
    BY DEF IsItem, R!Abs
  <1>2. b \in Int
    BY DEF R!Structural
  <1>3. c \in Int
    BY DEF R!SectionWeight
  <1>4. R!OccRank(x) = <<a, b, c, d, e>>
    BY DEF R!OccRank
  <1> HIDE DEF a, b, c, d, e
  <1>5. <<a, b, c, d, e>> \in Ints(5)
    BY <1>1, <1>2, <1>3 DEF Ints
  <1> QED BY <1>4, <1>5

LEMMA BetterIsTotal ==
  ASSUME NEW items, AreItems(items), NEW i \in 1 .. Len(items), NEW j \in 1 .. Len(items), NEW k \in 1 .. Len(items)
  PROVE  /\ ~R!Better(items, i, i)
         /\ R!Better(items, i, j) /\ R!Better(items, j, k) => R!Better(items, i, k)
         /\ i = j \/ R!Better(items, i, j) \/ R!Better(items, j, i)
         /\ R!Better(items, i, j) => ~Above(R!OccRank(items[j]), R!OccRank(items[i]))
PROOF
  <1> DEFINE r == R!OccRank(items[i])
             s == R!OccRank(items[j])
             t == R!OccRank(items[k])
  <1>1. r \in Ints(5) /\ s \in Ints(5) /\ t \in Ints(5) /\ 5 \in Nat
    BY OccurrenceRanks DEF AreItems
  <1>2. i \in Int /\ j \in Int /\ k \in Int
    BY DEF AreItems, Proper
  <1>3. /\ R!Better(items, i, i) <=> Above(r, r) \/ (r = r /\ i < i)
        /\ R!Better(items, i, j) <=> Above(r, s) \/ (r = s /\ i < j)
        /\ R!Better(items, j, i) <=> Above(s, r) \/ (s = r /\ j < i)
        /\ R!Better(items, j, k) <=> Above(s, t) \/ (s = t /\ j < k)
        /\ R!Better(items, i, k) <=> Above(r, t) \/ (r = t /\ i < k)
    BY SameRanking DEF R!Better
  <1> HIDE DEF r, s, t
  <1>4. ~R!Better(items, i, i)
    BY <1>1, <1>2, <1>3, RanksCompare
  <1>5. R!Better(items, i, j) /\ R!Better(items, j, k) => R!Better(items, i, k)
    <2>1. Above(r, s) /\ Above(s, t) => Above(r, t)
      BY <1>1, RanksCompare
    <2>2. i < j /\ j < k => i < k
      BY <1>2
    <2> QED BY <1>3, <2>1, <2>2
  <1>6. i = j \/ R!Better(items, i, j) \/ R!Better(items, j, i)
    <2>1. r = s \/ Above(r, s) \/ Above(s, r)
      BY <1>1, RanksCompare
    <2>2. i = j \/ i < j \/ j < i
      BY <1>2
    <2> QED BY <1>3, <2>1, <2>2
  <1>7. R!Better(items, i, j) => ~Above(s, r)
    <2>1. /\ Above(r, s) /\ Above(s, r) => Above(r, r)
          /\ ~Above(r, r)
          /\ Above(s, r) => s # r
      <3>1. \A x, y, z \in Ints(5) : (Above(x, y) => x # y) /\ (Above(x, y) /\ Above(y, z) => Above(x, z))
        BY <1>1, RanksCompare
      <3> QED BY <1>1, <3>1
    <2> QED BY <1>3, <2>1
  <1> QED BY <1>4, <1>5, <1>6, <1>7 DEF r, s

-----------------------------------------------------------------------------
(* The items of a page, the best first.                                       *)
Firsts(items) == {o \in (1 .. Len(items)) \X (1 .. Len(items)) : R!Better(items, o[1], o[2])}

LEMMA FirstsAreOrdered ==
  ASSUME NEW items, AreItems(items), NEW S \in SUBSET (1 .. Len(items))
  PROVE  /\ IsFiniteSet(S) /\ IsOrder(Firsts(items), S) /\ IsTotal(Firsts(items), S)
         /\ \A i, j \in S : <<i, j>> \in Firsts(items) <=> R!Better(items, i, j)
PROOF
  <1> DEFINE n == Len(items)
             Ord == Firsts(items)
  <1>1. IsFiniteSet(S)
    BY Places, FS_Subset DEF AreItems, Proper
  <1>2. \A i, j \in 1 .. n : <<i, j>> \in Ord <=> R!Better(items, i, j)
    BY DEF Firsts
  <1>3. \A i, j \in S : <<i, j>> \in Ord <=> R!Better(items, i, j)
    BY <1>2, Zenon
  <1> HIDE DEF Ord
  <1>4. IsOrder(Ord, S)
    <2>1. ASSUME NEW x \in S PROVE <<x, x>> \notin Ord
      BY <1>3, BetterIsTotal
    <2>2. ASSUME NEW x \in S, NEW y \in S, NEW z \in S, <<x, y>> \in Ord, <<y, z>> \in Ord PROVE <<x, z>> \in Ord
      <3>1. R!Better(items, x, y) /\ R!Better(items, y, z)
        BY <1>3, <2>2
      <3>2. R!Better(items, x, z)
        BY <3>1, BetterIsTotal
      <3> QED BY <1>3, <3>2
    <2> QED BY <2>1, <2>2 DEF IsOrder
  <1>5. IsTotal(Ord, S)
    <2>1. ASSUME NEW x \in S, NEW y \in S PROVE x = y \/ <<x, y>> \in Ord \/ <<y, x>> \in Ord
      BY <1>3, BetterIsTotal
    <2> QED BY <2>1, Zenon DEF IsTotal
  <1> QED BY <1>1, <1>3, <1>4, <1>5 DEF Ord

(* An item's round says how many of its page come before it; the head of the  *)
(* page has round 0.                                                          *)
LEMMA RoundsOfAPage ==
  ASSUME NEW items, AreItems(items), NEW i \in 1 .. Len(items)
  PROVE  /\ R!Peers(items, i) = {j \in 1 .. Len(items) : items[j].page = items[i].page}
         /\ R!Round(items, i) \in Nat
         /\ \A j \in R!Peers(items, i) : /\ R!Better(items, j, i) => R!Round(items, j) < R!Round(items, i)
                                         /\ R!Round(items, j) = R!Round(items, i) => i = j
         /\ R!Head1(items, i) \in R!Peers(items, i) /\ R!Round(items, R!Head1(items, i)) = 0
         /\ R!Round(items, i) = 0 => \A j \in R!Peers(items, i) : ~R!Better(items, j, i)
PROOF
  <1> DEFINE n == Len(items)
             G(k) == {j \in 1 .. n : items[j].page = items[k].page}
             Ord == Firsts(items)
  <1>1. n \in Nat /\ DOMAIN items = 1 .. n
    <2>1. IsList(items)
      BY ProperIsAList DEF AreItems
    <2> QED BY <2>1 DEF IsList
  <1>2. \A k : R!Peers(items, k) = G(k)
    BY <1>1 DEF R!Peers
  <1>3. ASSUME NEW k \in 1 .. n
        PROVE  /\ R!Round(items, k) = Rank(Ord, G(k), k)
               /\ k \in G(k) /\ IsFiniteSet(G(k)) /\ IsOrder(Ord, G(k)) /\ IsTotal(Ord, G(k))
               /\ \A x, y \in G(k) : <<x, y>> \in Ord <=> R!Better(items, x, y)
    <2> DEFINE S == G(k)
    <2>1. S \in SUBSET (1 .. n) /\ k \in S
      OBVIOUS
    <2>2. R!Round(items, k) = Cardinality({j \in S : R!Better(items, j, k)})
      <3>1. R!Round(items, k) = R!Cardinality({j \in R!Peers(items, k) : R!Better(items, j, k)})
        BY DEF R!Round
      <3>2. R!Peers(items, k) = S
        BY <1>2
      <3> HIDE DEF S
      <3> QED BY <3>1, <3>2, SameListings
    <2> HIDE DEF S, Ord
    <2>3. IsFiniteSet(S) /\ IsOrder(Ord, S) /\ IsTotal(Ord, S) /\ \A x, y \in S : <<x, y>> \in Ord <=> R!Better(items, x, y)
      BY <2>1, FirstsAreOrdered DEF n, Ord
    <2>4. {j \in S : R!Better(items, j, k)} = Earlier(Ord, S, k)
      BY <2>1, <2>3 DEF Earlier
    <2> QED BY <2>1, <2>2, <2>3, <2>4 DEF Rank, S
  <1> HIDE DEF Ord, n
  <1>4. i \in 1 .. n
    BY DEF n
  <1>5. ASSUME NEW j \in G(i) PROVE G(j) = G(i) /\ j \in 1 .. n
    OBVIOUS
  <1> DEFINE S == G(i)
  <1>6. /\ i \in S /\ IsFiniteSet(S) /\ IsOrder(Ord, S) /\ IsTotal(Ord, S)
        /\ \A x, y \in S : <<x, y>> \in Ord <=> R!Better(items, x, y)
        /\ \A j \in S : R!Round(items, j) = Rank(Ord, S, j)
    <2>1. \A j \in S : R!Round(items, j) = Rank(Ord, G(j), j) /\ G(j) = S
      BY <1>3, <1>5
    <2> HIDE DEF S
    <2>2. \A j \in S : R!Round(items, j) = Rank(Ord, S, j)
      <3> HIDE DEF G
      <3> QED BY <2>1
    <2> QED BY <1>3, <1>4, <2>2 DEF S
  <1>7. R!Peers(items, i) = S
    BY <1>2
  <1> HIDE DEF S
  <1>8. R!Round(items, i) \in Nat
    BY <1>6, RankGrows
  <1>9. \A j \in S : R!Better(items, j, i) => R!Round(items, j) < R!Round(items, i)
    BY <1>6, RankGrows
  <1>10. ASSUME NEW j \in S, R!Round(items, j) = R!Round(items, i) PROVE i = j
    <2>1. i = j \/ Rank(Ord, S, i) < Rank(Ord, S, j) \/ Rank(Ord, S, j) < Rank(Ord, S, i)
      BY <1>6, RankGrows DEF IsTotal
    <2> QED BY <1>6, <1>8, <1>10, <2>1
  <1>11. \E j \in S : R!Round(items, j) = 0
    <2>1. PICK j \in S : \A x \in S : <<x, j>> \notin Ord
      BY <1>6, SomeoneIsFirst
    <2>2. Earlier(Ord, S, j) = {}
      BY <2>1 DEF Earlier
    <2> QED BY <1>6, <2>2, FS_EmptySet DEF Rank
  <1>12. R!Head1(items, i) \in S /\ R!Round(items, R!Head1(items, i)) = 0
    BY <1>7, <1>11 DEF R!Head1
  <1>13. ASSUME R!Round(items, i) = 0, NEW j \in S PROVE ~R!Better(items, j, i)
    <2>1. R!Round(items, j) \in Nat
      BY <1>6, RankGrows
    <2> QED BY <1>9, <1>13, <2>1
  <1>14. S = {j \in 1 .. Len(items) : items[j].page = items[i].page}
    BY DEF S, n
  <1> QED BY <1>7, <1>8, <1>9, <1>10, <1>12, <1>13, <1>14

-----------------------------------------------------------------------------
Turns(items) == {o \in (1 .. Len(items)) \X (1 .. Len(items)) : R!Turn(items, o[1], o[2])}
Heads(items) == {i \in 1 .. Len(items) : R!Round(items, i) = 0}
PagesOf(items) == {items[i].page : i \in 1 .. Len(items)}

(* _select_diverse_occurrences goes round by round, and in a round by the     *)
(* heads of the pages.                                                        *)
LEMMA TurnsAreOrdered ==
  ASSUME NEW items, AreItems(items)
  PROVE  /\ IsFiniteSet(1 .. Len(items)) /\ IsOrder(Turns(items), 1 .. Len(items)) /\ IsTotal(Turns(items), 1 .. Len(items))
         /\ \A i, j \in 1 .. Len(items) :
              <<i, j>> \in Turns(items) <=>
                \/ R!Round(items, i) < R!Round(items, j)
                \/ R!Round(items, i) = R!Round(items, j) /\ R!Better(items, R!Head1(items, i), R!Head1(items, j))
PROOF
  <1> DEFINE n == Len(items)
             Ord == Turns(items)
             round == [i \in 1 .. n |-> R!Round(items, i)]
             head == [i \in 1 .. n |-> R!Head1(items, i)]
             best == Firsts(items)
  <1>1. IsFiniteSet(1 .. n)
    BY Places DEF AreItems, Proper
  <1>2. \A i, j \in 1 .. n : <<i, j>> \in Ord <=> R!Turn(items, i, j)
    BY DEF Turns
  <1>3. \A i \in 1 .. n : round[i] \in Nat /\ head[i] \in 1 .. n
    <2> TAKE i \in 1 .. n
    <2>1. /\ R!Peers(items, i) = {j \in 1 .. Len(items) : items[j].page = items[i].page}
          /\ R!Round(items, i) \in Nat /\ R!Head1(items, i) \in R!Peers(items, i)
      BY RoundsOfAPage
    <2> QED BY <2>1
  <1>4. /\ IsOrder(best, 1 .. n) /\ IsTotal(best, 1 .. n)
        /\ \A i, j \in 1 .. n : <<i, j>> \in best <=> R!Better(items, i, j)
    <2>1. 1 .. Len(items) \in SUBSET (1 .. Len(items))
      OBVIOUS
    <2> QED BY <2>1, FirstsAreOrdered
  <1>5. ASSUME NEW i \in 1 .. n, NEW j \in 1 .. n, round[i] = round[j], head[i] = head[j] PROVE i = j
    <2>1. /\ R!Peers(items, i) = {k \in 1 .. Len(items) : items[k].page = items[i].page}
          /\ R!Head1(items, i) \in R!Peers(items, i)
          /\ \A k \in R!Peers(items, i) : R!Round(items, k) = R!Round(items, i) => i = k
      BY RoundsOfAPage
    <2>2. /\ R!Peers(items, j) = {k \in 1 .. Len(items) : items[k].page = items[j].page}
          /\ R!Head1(items, j) \in R!Peers(items, j)
      BY RoundsOfAPage
    <2>3. j \in R!Peers(items, i)
      BY <1>5, <2>1, <2>2
    <2> QED BY <1>5, <2>1, <2>3
  <1>6. \A i, j \in 1 .. n :
          <<i, j>> \in Ord <=> round[i] < round[j] \/ (round[i] = round[j] /\ <<head[i], head[j]>> \in best)
    <2> TAKE i \in 1 .. n, j \in 1 .. n
    <2>1. R!Turn(items, i, j) <=>
            \/ R!Round(items, i) < R!Round(items, j)
            \/ R!Round(items, i) = R!Round(items, j) /\ R!Better(items, R!Head1(items, i), R!Head1(items, j))
      BY DEF R!Turn
    <2>2. <<head[i], head[j]>> \in best <=> R!Better(items, head[i], head[j])
      BY <1>3, <1>4
    <2> QED BY <1>2, <2>1, <2>2
  <1>7. \A i, j \in 1 .. n :
          <<i, j>> \in Ord <=>
                \/ R!Round(items, i) < R!Round(items, j)
                \/ R!Round(items, i) = R!Round(items, j) /\ R!Better(items, R!Head1(items, i), R!Head1(items, j))
    BY <1>2 DEF R!Turn
  <1> HIDE DEF Ord, round, head, best, n
  <1>8. IsOrder(Ord, 1 .. n)
    <2>1. ASSUME NEW x \in 1 .. n PROVE <<x, x>> \notin Ord
      <3>1. ~(round[x] < round[x])
        BY <1>3
      <3>2. <<head[x], head[x]>> \notin best
        BY <1>3, <1>4 DEF IsOrder
      <3> QED BY <1>6, <3>1, <3>2
    <2>2. ASSUME NEW x \in 1 .. n, NEW y \in 1 .. n, NEW z \in 1 .. n, <<x, y>> \in Ord, <<y, z>> \in Ord
          PROVE  <<x, z>> \in Ord
      <3>1. round[x] \in Nat /\ round[y] \in Nat /\ round[z] \in Nat
        BY <1>3
      <3>2. /\ round[x] < round[y] \/ (round[x] = round[y] /\ <<head[x], head[y]>> \in best)
            /\ round[y] < round[z] \/ (round[y] = round[z] /\ <<head[y], head[z]>> \in best)
        BY <1>6, <2>2
      <3>3. <<head[x], head[y]>> \in best /\ <<head[y], head[z]>> \in best => <<head[x], head[z]>> \in best
        BY <1>3, <1>4 DEF IsOrder
      <3>4. round[x] < round[z] \/ (round[x] = round[z] /\ <<head[x], head[z]>> \in best)
        BY <3>1, <3>2, <3>3
      <3> QED BY <1>6, <3>4
    <2> QED BY <2>1, <2>2 DEF IsOrder
  <1>9. IsTotal(Ord, 1 .. n)
    <2>1. ASSUME NEW x \in 1 .. n, NEW y \in 1 .. n PROVE x = y \/ <<x, y>> \in Ord \/ <<y, x>> \in Ord
      <3>1. round[x] < round[y] \/ round[y] < round[x] \/ round[x] = round[y]
        BY <1>3
      <3>2. head[x] = head[y] \/ <<head[x], head[y]>> \in best \/ <<head[y], head[x]>> \in best
        BY <1>3, <1>4 DEF IsTotal
      <3> QED BY <1>5, <1>6, <3>1, <3>2
    <2> QED BY <2>1 DEF IsTotal
  <1> QED BY <1>1, <1>7, <1>8, <1>9 DEF Ord, n

(* No more heads than pages, and the heads have the first turns.              *)
LEMMA HeadsAreFew ==
  ASSUME NEW items, AreItems(items), NEW i \in Heads(items)
  PROVE  /\ IsFiniteSet(PagesOf(items)) /\ Cardinality(PagesOf(items)) \in Nat
         /\ Rank(Turns(items), 1 .. Len(items), i) \in Nat
         /\ Rank(Turns(items), 1 .. Len(items), i) < Cardinality(PagesOf(items))
PROOF
  <1> DEFINE n == Len(items)
             S == Heads(items)
             f == [j \in S |-> items[j].page]
             c == Cardinality(S)
             earlier == Earlier(Turns(items), 1 .. n, i)
  <1>1. IsFiniteSet(1 .. n) /\ IsOrder(Turns(items), 1 .. n)
    BY TurnsAreOrdered
  <1>2. S \subseteq 1 .. n /\ i \in 1 .. n /\ R!Round(items, i) = 0
    BY DEF Heads
  <1>3. IsFiniteSet(S) /\ c \in Nat
    BY <1>1, <1>2, FS_Subset, FS_CardinalityType
  <1>4. \A j, k \in S : j # k => f[j] # f[k]
    <2> SUFFICES ASSUME NEW j \in S, NEW k \in S, f[j] = f[k] PROVE j = k
      OBVIOUS
    <2>1. j \in 1 .. n /\ k \in 1 .. n /\ items[j].page = items[k].page /\ R!Round(items, j) = 0 /\ R!Round(items, k) = 0
      BY DEF Heads
    <2>2. /\ R!Peers(items, j) = {l \in 1 .. Len(items) : items[l].page = items[j].page}
          /\ \A l \in R!Peers(items, j) : R!Round(items, l) = R!Round(items, j) => j = l
      BY <2>1, RoundsOfAPage
    <2> QED BY <2>1, <2>2
  <1>5. IsFiniteSet({f[j] : j \in S}) /\ Cardinality({f[j] : j \in S}) = c
    <2>1. DOMAIN f = S /\ f = [j \in S |-> f[j]]
      OBVIOUS
    <2> HIDE DEF f, S
    <2> QED BY <1>3, <1>4, <2>1, ImagesOfDistinct
  <1>6. IsFiniteSet(PagesOf(items)) /\ Cardinality(PagesOf(items)) \in Nat
    <2> DEFINE g == [j \in 1 .. n |-> items[j].page]
    <2>1. PagesOf(items) = {g[j] : j \in 1 .. n}
      BY DEF PagesOf
    <2>2. DOMAIN g = 1 .. n /\ g = [j \in 1 .. n |-> g[j]]
      OBVIOUS
    <2> HIDE DEF g
    <2>3. IsFiniteSet(1 .. n) /\ Cardinality(1 .. n) \in Nat
      BY <1>1, FS_CardinalityType
    <2>4. IsFiniteSet({g[j] : j \in 1 .. n})
      BY <2>2, <2>3, ImagesOfDistinct
    <2> QED BY <2>1, <2>4, FS_CardinalityType
  <1>7. {f[j] : j \in S} \subseteq PagesOf(items)
    BY <1>2 DEF PagesOf
  <1>8. c <= Cardinality(PagesOf(items))
    BY <1>5, <1>6, <1>7, FS_Subset
  <1>9. earlier \subseteq S \ {i}
    <2> SUFFICES ASSUME NEW y \in earlier PROVE y \in S /\ y # i
      OBVIOUS
    <2>1. y \in 1 .. n /\ <<y, i>> \in Turns(items)
      BY DEF Earlier
    <2>2. y # i
      BY <1>1, <1>2, <2>1 DEF IsOrder
    <2>3. R!Round(items, y) \in Nat
      BY <2>1, RoundsOfAPage
    <2>4. R!Round(items, y) = 0
      BY <1>2, <2>1, <2>3, TurnsAreOrdered
    <2> QED BY <2>1, <2>2, <2>4 DEF Heads
  <1>10. IsFiniteSet(S \ {i}) /\ Cardinality(S \ {i}) = c - 1
    BY <1>3, FS_RemoveElement
  <1> HIDE DEF S, earlier
  <1>11. Cardinality(earlier) \in Nat /\ Cardinality(earlier) <= c - 1
    BY <1>9, <1>10, FS_Subset, FS_CardinalityType
  <1>12. Rank(Turns(items), 1 .. n, i) = Cardinality(earlier)
    BY DEF Rank, earlier
  <1> DEFINE p == Cardinality(PagesOf(items))
             q == Cardinality(earlier)
  <1>13. p \in Nat /\ c <= p /\ q \in Nat /\ q <= c - 1
    BY <1>6, <1>8, <1>11
  <1> HIDE DEF p, q, c
  <1>14. q < p
    BY <1>3, <1>13
  <1> QED BY <1>6, <1>12, <1>13, <1>14 DEF p, q

(* The best of all has the first turn.                                        *)
LEMMA TheBestIsFirst ==
  ASSUME NEW items, AreItems(items), Len(items) # 0
  PROVE  \E b \in 1 .. Len(items) :
           /\ Rank(Turns(items), 1 .. Len(items), b) = 0
           /\ \A i \in 1 .. Len(items) : ~Above(R!OccRank(items[i]), R!OccRank(items[b]))
PROOF
  <1> DEFINE n == Len(items)
  <1>1. n \in Nat /\ 1 .. n # {}
    BY DEF AreItems, Proper
  <1>2. /\ IsFiniteSet(1 .. n) /\ IsOrder(Firsts(items), 1 .. n) /\ IsTotal(Firsts(items), 1 .. n)
        /\ \A i, j \in 1 .. n : <<i, j>> \in Firsts(items) <=> R!Better(items, i, j)
    <2>1. 1 .. Len(items) \in SUBSET (1 .. Len(items))
      OBVIOUS
    <2> QED BY <2>1, FirstsAreOrdered
  <1>3. PICK b \in 1 .. n : \A i \in 1 .. n : <<i, b>> \notin Firsts(items)
    <2> HIDE DEF n
    <2> QED BY <1>1, <1>2, SomeoneIsFirst
  <1>4. \A i \in 1 .. n : ~R!Better(items, i, b)
    BY <1>2, <1>3
  <1>5. /\ R!Peers(items, b) = {j \in 1 .. Len(items) : items[j].page = items[b].page}
        /\ \A j \in R!Peers(items, b) : R!Round(items, j) = R!Round(items, b) => b = j
        /\ R!Head1(items, b) \in R!Peers(items, b) /\ R!Round(items, R!Head1(items, b)) = 0
        /\ R!Round(items, b) \in Nat
    BY RoundsOfAPage
  <1>6. R!Head1(items, b) = b
    <2> DEFINE h == R!Head1(items, b)
    <2>1. h \in 1 .. n /\ items[h].page = items[b].page
      BY <1>5
    <2>2. b = h \/ R!Better(items, b, h)
      BY <1>4, <2>1, BetterIsTotal
    <2>3. /\ R!Peers(items, h) = {j \in 1 .. Len(items) : items[j].page = items[h].page}
          /\ R!Round(items, h) = 0 => \A j \in R!Peers(items, h) : ~R!Better(items, j, h)
      BY <2>1, RoundsOfAPage
    <2>4. b \in R!Peers(items, h)
      BY <2>1, <2>3
    <2> QED BY <1>5, <2>2, <2>3, <2>4
  <1>7. R!Round(items, b) = 0
    BY <1>5, <1>6
  <1>8. Earlier(Turns(items), 1 .. n, b) = {}
    <2> SUFFICES ASSUME NEW y \in 1 .. n, <<y, b>> \in Turns(items) PROVE FALSE
      BY DEF Earlier
    <2>1. R!Round(items, y) \in Nat /\ R!Head1(items, y) \in 1 .. n
      <3>1. /\ R!Peers(items, y) = {j \in 1 .. Len(items) : items[j].page = items[y].page}
            /\ R!Round(items, y) \in Nat /\ R!Head1(items, y) \in R!Peers(items, y)
        BY RoundsOfAPage
      <3> QED BY <3>1
    <2>2. \/ R!Round(items, y) < R!Round(items, b)
          \/ R!Better(items, R!Head1(items, y), R!Head1(items, b))
      BY TurnsAreOrdered
    <2> QED BY <1>4, <1>6, <1>7, <2>1, <2>2
  <1>9. Rank(Turns(items), 1 .. n, b) = 0
    BY <1>8, FS_EmptySet DEF Rank
  <1>10. \A i \in 1 .. n : ~Above(R!OccRank(items[i]), R!OccRank(items[b]))
    <2> TAKE i \in 1 .. n
    <2>1. i = b \/ R!Better(items, b, i)
      BY <1>4, BetterIsTotal
    <2>2. i = b => ~Above(R!OccRank(items[i]), R!OccRank(items[b]))
      <3>1. R!OccRank(items[b]) \in Ints(5) /\ 5 \in Nat
        BY OccurrenceRanks DEF AreItems
      <3> DEFINE r == R!OccRank(items[b])
      <3> HIDE DEF r
      <3>2. r \in Ints(5) => ~Above(r, r)
        BY <3>1, RanksCompare
      <3> QED BY <3>1, <3>2 DEF r
    <2>3. R!Better(items, b, i) => ~Above(R!OccRank(items[i]), R!OccRank(items[b]))
      BY BetterIsTotal
    <2> QED BY <2>1, <2>2, <2>3
  <1> QED BY <1>9, <1>10

-----------------------------------------------------------------------------
(* What the limit of occurrences keeps of a list: as many as it may, the best *)
(* one, and every page if there are no more pages than places.                *)
LEMMA DiverseKeeps ==
  ASSUME NEW items, AreItems(items), Len(items) # 0
  PROVE  LET d == R!Diverse(items, 3)
         IN  /\ AreItems(d) /\ Len(d) = IF Len(items) > 3 THEN 3 ELSE Len(items)
             /\ \A k \in 1 .. Len(d) : \E i \in 1 .. Len(items) : d[k] = items[i]
             /\ Cardinality(PagesOf(items)) <= 3 => PagesOf(items) \subseteq {d[k].page : k \in 1 .. Len(d)}
             /\ \E k \in 1 .. Len(d) : \A i \in 1 .. Len(items) : ~Above(R!OccRank(items[i]), R!OccRank(d[k]))
PROOF
  <1> DEFINE n == Len(items)
             d == R!Diverse(items, 3)
             order == Listed(1 .. n, Turns(items))
             f == [k \in 1 .. 3 |-> items[order[k]]]
  <1>1. n \in Nat /\ DOMAIN items = 1 .. n
    <2>1. IsList(items)
      BY ProperIsAList DEF AreItems
    <2> QED BY <2>1 DEF IsList
  <1>2. d = IF n <= 3 THEN items ELSE f
    <2> DEFINE o == R!Listed(DOMAIN items, {p \in (DOMAIN items) \X (DOMAIN items) : R!Turn(items, p[1], p[2])})
    <2>1. R!Diverse(items, 3) = IF Len(items) <= 3 THEN items ELSE [k \in 1 .. 3 |-> items[o[k]]]
      BY DEF R!Diverse
    <2>2. o = order
      <3>1. o = R!Listed(1 .. n, Turns(items))
        BY <1>1 DEF Turns
      <3> HIDE DEF o, n
      <3> QED BY <3>1, SameListings
    <2> HIDE DEF o, order
    <2> QED BY <2>1, <2>2
  <1>3. PICK b \in 1 .. n : /\ Rank(Turns(items), 1 .. n, b) = 0
                            /\ \A i \in 1 .. n : ~Above(R!OccRank(items[i]), R!OccRank(items[b]))
    BY TheBestIsFirst
  <1>4. ASSUME NEW page \in PagesOf(items) PROVE \E i \in Heads(items) : i \in 1 .. n /\ items[i].page = page
    <2>1. PICK j \in 1 .. n : items[j].page = page
      BY DEF PagesOf
    <2>2. /\ R!Peers(items, j) = {l \in 1 .. Len(items) : items[l].page = items[j].page}
          /\ R!Head1(items, j) \in R!Peers(items, j) /\ R!Round(items, R!Head1(items, j)) = 0
      BY RoundsOfAPage
    <2> QED BY <2>1, <2>2 DEF Heads
  <1>5. CASE n <= 3
    <2>1. d = items
      BY <1>2, <1>5
    <2> HIDE DEF d
    <2>2. \A i \in 1 .. n : d[i] = items[i]
      BY <2>1
    <2>3. PagesOf(items) \subseteq {d[k].page : k \in 1 .. n}
      BY <2>2 DEF PagesOf
    <2>4. \E k \in 1 .. n : \A i \in 1 .. n : ~Above(R!OccRank(items[i]), R!OccRank(d[k]))
      BY <1>3, <2>2
    <2>5. Len(d) = n /\ n = IF n > 3 THEN 3 ELSE n
      BY <1>1, <1>5, <2>1
    <2> QED BY <2>1, <2>2, <2>3, <2>4, <2>5 DEF d
  <1>6. CASE ~(n <= 3)
    <2>1. d = f /\ n > 3
      BY <1>1, <1>2, <1>6
    <2> HIDE DEF d
    <2>2. IsFiniteSet(1 .. n) /\ IsOrder(Turns(items), 1 .. n) /\ IsTotal(Turns(items), 1 .. n)
      BY TurnsAreOrdered
    <2>3. Cardinality(1 .. n) = n
      BY <1>1, FS_Interval
    <2>4. /\ \A k \in 1 .. n : order[k] \in 1 .. n
          /\ \A p \in 1 .. n : Rank(Turns(items), 1 .. n, p) + 1 \in 1 .. n /\ order[Rank(Turns(items), 1 .. n, p) + 1] = p
      <3> DEFINE S == 1 .. n
                 Ord == Turns(items)
      <3>1. IsFiniteSet(S) /\ IsOrder(Ord, S) /\ IsTotal(Ord, S) /\ Cardinality(S) = n /\ order = Listed(S, Ord)
        BY <2>2, <2>3
      <3> HIDE DEF S, Ord, n, order
      <3>2. /\ \A k \in 1 .. n : order[k] \in S
            /\ \A p \in S : Rank(Ord, S, p) + 1 \in 1 .. n /\ order[Rank(Ord, S, p) + 1] = p
        BY <3>1, ListedInOrder
      <3> QED BY <3>2 DEF S, Ord
    <2> HIDE DEF order
    <2>5. \A k \in 1 .. 3 : d[k] = items[order[k]] /\ order[k] \in 1 .. n
      <3>1. \A k \in 1 .. 3 : k \in 1 .. n
        BY <1>1, <2>1
      <3>2. \A k \in 1 .. 3 : f[k] = items[order[k]]
        OBVIOUS
      <3> HIDE DEF f, n
      <3> QED BY <2>1, <2>4, <3>1, <3>2
    <2>6. AreItems(d) /\ Len(d) = 3
      <3>1. d = [k \in 1 .. 3 |-> d[k]]
        BY <2>1
      <3>2. \A k \in 1 .. 3 : IsItem(d[k])
        BY <2>5 DEF AreItems
      <3>3. 3 \in Nat
        OBVIOUS
      <3> HIDE DEF f
      <3> QED BY <3>1, <3>2, <3>3, MadeItems
    <2>7. \E k \in 1 .. 3 : \A i \in 1 .. n : ~Above(R!OccRank(items[i]), R!OccRank(d[k]))
      <3>1. order[1] = b /\ 1 \in 1 .. 3
        <4>1. order[Rank(Turns(items), 1 .. n, b) + 1] = b
          BY <2>4
        <4> QED BY <1>3, <4>1
      <3>2. d[1] = items[b]
        BY <2>5, <3>1
      <3> QED BY <1>3, <3>1, <3>2
    <2>8. ASSUME Cardinality(PagesOf(items)) <= 3, NEW page \in PagesOf(items)
          PROVE  \E k \in 1 .. 3 : d[k].page = page
      <3>1. PICK i \in Heads(items) : i \in 1 .. n /\ items[i].page = page
        BY <1>4
      <3> DEFINE r == Rank(Turns(items), 1 .. n, i)
                 c == Cardinality(PagesOf(items))
      <3>2. c \in Nat /\ r \in Nat /\ r < c /\ c <= 3
        BY <2>8, HeadsAreFew
      <3>3. order[r + 1] = i
        BY <2>4, <3>1
      <3> HIDE DEF r, c
      <3>4. r + 1 \in 1 .. 3
        BY <3>2
      <3>5. d[r + 1] = items[i]
        BY <2>5, <3>3, <3>4
      <3> QED BY <3>1, <3>4, <3>5
    <2>9. Cardinality(PagesOf(items)) <= 3 => PagesOf(items) \subseteq {d[k].page : k \in 1 .. 3}
      BY <2>8
    <2>10. \A k \in 1 .. 3 : \E i \in 1 .. n : d[k] = items[i]
      BY <2>5
    <2>11. 3 = IF n > 3 THEN 3 ELSE n
      BY <2>1
    <2> QED BY <2>6, <2>7, <2>9, <2>10, <2>11 DEF d
  <1> QED BY <1>5, <1>6

(* A key keeps few conflicts.                                                 *)
LEMMA ConflictsAreFew ==
  ASSUME NEW items, AreItems(items)
  PROVE  Cardinality(R!Conflicts(items)) <= 2
PROOF
  <1> DEFINE s == R!Reliable(items)
             n == Len(s)
             Told(i, j) == /\ R!PairComparable(s[i], s[j]) /\ s[i].n # s[j].n
                           /\ s[i].page = s[j].page \/ ~R!Below(s[i].n, s[j].n, 5, 100)
             pairs == {p \in (DOMAIN s) \X (DOMAIN s) : p[1] < p[2] /\ Told(p[1], p[2])}
             ranked == R!InPlace(pairs)
             D == {m \in DOMAIN ranked : m <= 2}
             g == [k \in D |-> <<s[ranked[k][1]], s[ranked[k][2]]>>]
  <1>1. R!Conflicts(items) = {<<s[ranked[k][1]], s[ranked[k][2]]>> : k \in D}
    BY DEF R!Conflicts
  <1>2. n \in Nat /\ DOMAIN s = 1 .. n
    <2>1. PICK places : places \subseteq DOMAIN items /\ s = R!Picked(items, places)
      BY DEF R!Reliable
    <2>2. DOMAIN items = 1 .. Len(items) /\ Len(items) \in Nat
      BY ProperIsAList DEF AreItems, IsList
    <2>3. Proper(Picked(items, places))
      BY <2>1, <2>2, PickedIsProper
    <2>4. Proper(s)
      BY <2>1, <2>3, SameListings
    <2> QED BY <2>4, ProperIsAList DEF IsList
  <1>3. IsFiniteSet(pairs)
    <2>1. pairs \subseteq (1 .. n) \X (1 .. n)
      BY <1>2
    <2> HIDE DEF pairs
    <2>2. IsFiniteSet((1 .. n) \X (1 .. n))
      BY <1>2, PairsOfPlaces
    <2> QED BY <2>1, <2>2, FS_Subset
  <1> HIDE DEF pairs
  <1>4. DOMAIN ranked = 1 .. Len(ranked) /\ Len(ranked) \in Nat
    <2>1. PICK Ord : ranked = R!Listed(pairs, Ord)
      BY DEF R!InPlace
    <2>2. Proper(Listed(pairs, Ord))
      BY <1>3, ListedIsProper
    <2>3. Proper(ranked)
      BY <2>1, <2>2, SameListings
    <2> QED BY <2>3, ProperIsAList DEF IsList
  <1> HIDE DEF ranked
  <1>5. IsFiniteSet(D) /\ Cardinality(D) \in Nat /\ Cardinality(D) <= 2
    <2>1. D \subseteq 1 .. 2
      BY <1>4
    <2>2. IsFiniteSet(1 .. 2) /\ Cardinality(1 .. 2) = 2
      <3> DEFINE two == 2
      <3>1. two \in Int /\ two >= 1
        OBVIOUS
      <3> HIDE DEF two
      <3>2. IsFiniteSet(1 .. two) /\ Cardinality(1 .. two) = two
        BY <3>1, FS_Interval
      <3> QED BY <3>2 DEF two
    <2> HIDE DEF D
    <2> QED BY <2>1, <2>2, FS_Subset, FS_CardinalityType
  <1>6. R!Conflicts(items) = {g[k] : k \in D}
    BY <1>1
  <1>7. DOMAIN g = D /\ g = [k \in D |-> g[k]]
    OBVIOUS
  <1> HIDE DEF g, D
  <1> DEFINE c == Cardinality(D)
             e == Cardinality({g[k] : k \in D})
  <1>8. IsFiniteSet({g[k] : k \in D}) /\ e <= c
    <2>1. c \in Nat /\ Cardinality(D) = c
      BY <1>5
    <2> HIDE DEF c
    <2> QED BY <1>5, <1>7, <2>1, ImagesOfDistinct
  <1>9. e \in Nat /\ c \in Nat /\ c <= 2
    BY <1>5, <1>8, FS_CardinalityType
  <1> HIDE DEF c, e
  <1>10. e <= 2
    BY <1>8, <1>9
  <1> QED BY <1>6, <1>10 DEF e

-----------------------------------------------------------------------------
KeysOf(all) == {all[i].key : i \in DOMAIN all}
(* A list that goes on from d with what is in S.                              *)
GoesOn(s, d, S) ==
  /\ IsList(s) /\ Len(s) >= Len(d)
  /\ \A i \in 1 .. Len(d) : s[i] = d[i]
  /\ \A i \in 1 .. Len(s) : i > Len(d) => s[i] \in S

LEMMA ItGoesOn ==
  ASSUME NEW d, Proper(d), NEW S
  PROVE  /\ GoesOn(d, d, S)
         /\ \A more : IsList(more) /\ Proper(more) /\ (\A j \in 1 .. Len(more) : more[j] \in S) => GoesOn(d \o more, d, S)
PROOF
  <1>1. Len(d) \in Nat /\ IsList(d)
    BY ProperIsAList DEF IsList
  <1>2. GoesOn(d, d, S)
    BY <1>1 DEF GoesOn
  <1>3. ASSUME NEW more, Proper(more), \A j \in 1 .. Len(more) : more[j] \in S PROVE GoesOn(d \o more, d, S)
    <2> DEFINE s == d \o more
               m == Len(d)
               n == Len(more)
               l == Len(s)
    <2>1. /\ Proper(s) /\ l = m + n /\ \A i \in 1 .. m : s[i] = d[i]
          /\ \A i \in 1 .. l : i <= m \/ (i - m \in 1 .. n /\ s[i] = more[i - m])
      <3>1. /\ Proper(d \o more) /\ Len(d \o more) = Len(d) + Len(more)
            /\ \A i \in 1 .. Len(d) : (d \o more)[i] = d[i]
            /\ \A i \in 1 .. Len(d \o more) :
                 \/ i <= Len(d) /\ (d \o more)[i] = d[i]
                 \/ i - Len(d) \in 1 .. Len(more) /\ (d \o more)[i] = more[i - Len(d)]
        BY <1>3, JoinedLists
      <3> HIDE DEF s
      <3> QED BY <3>1 DEF s
    <2>2. IsList(s)
      <3> HIDE DEF s
      <3> QED BY <2>1, ProperIsAList
    <2>3. m \in Nat /\ n \in Nat
      BY <1>1, <1>3 DEF Proper
    <2>4. \A j \in 1 .. n : more[j] \in S
      BY <1>3
    <2> HIDE DEF s
    <2>5. GoesOn(s, d, S) <=> /\ IsList(s) /\ l >= m
                              /\ \A i \in 1 .. m : s[i] = d[i]
                              /\ \A i \in 1 .. l : i > m => s[i] \in S
      BY DEF GoesOn
    <2> HIDE DEF l, m, n
    <2>6. l >= m
      BY <2>1, <2>3
    <2>7. \A i \in 1 .. l : i > m => s[i] \in S
      <3> TAKE i \in 1 .. l
      <3>1. i > m => ~(i <= m)
        BY <2>3
      <3> QED BY <2>1, <2>4, <3>1
    <2> QED BY <2>1, <2>2, <2>5, <2>6, <2>7 DEF s
  <1> QED BY <1>2, <1>3

LEMMA OthersAreAdded ==
  ASSUME NEW ocr, IsList(ocr), NEW k
  PROVE  LET more == R!OfKey(ocr, k)
         IN  IsList(more) /\ Proper(more) /\ \A j \in 1 .. Len(more) : more[j] \in Range(ocr)
PROOF
  <1> DEFINE n == Len(ocr)
             places == {i \in DOMAIN ocr : ocr[i].key = k}
             more == Picked(ocr, places)
  <1>1. n \in Nat /\ DOMAIN ocr = 1 .. n
    BY DEF IsList
  <1>2. places \in SUBSET (1 .. n)
    BY <1>1
  <1>3. R!OfKey(ocr, k) = R!Picked(ocr, places)
    BY DEF R!OfKey
  <1> HIDE DEF places
  <1>4. R!Picked(ocr, places) = more
    BY SameListings
  <1>5. Proper(more)
    BY <1>1, <1>2, PickedIsProper
  <1>6. \A j \in 1 .. Len(more) : \E i \in places : more[j] = ocr[i]
    BY <1>1, <1>2, PickedIsAList, Zenon
  <1> HIDE DEF more
  <1>7. \A j \in 1 .. Len(more) : more[j] \in Range(ocr)
    BY <1>1, <1>2, <1>6 DEF Range
  <1>8. IsList(more)
    BY <1>5, ProperIsAList
  <1> QED BY <1>3, <1>4, <1>5, <1>7, <1>8

(* What extract_metrics says of a key: what the limits left, and OCR adds.    *)
LEMMA MetricsKeep ==
  ASSUME NEW r, IsReport(r), NEW k \in KeysOf(R!AllItems(r)),
         NEW d, d = R!Diverse(R!OfKey(R!AllItems(r), k), 3), Proper(d)
  PROVE  /\ R!Metrics(r)[k].conflicts = R!Conflicts(d)
         /\ GoesOn(R!Metrics(r)[k].items, d, Range(r.ocr))
PROOF
  <1> DEFINE all == R!AllItems(r)
             keyed == R!ByKey(all)
             occ == R!Occurrences(d)
             more == R!OfKey(r.ocr, k)
  <1>1. k \in DOMAIN keyed /\ keyed[k] = occ
    BY DEF R!ByKey, KeysOf
  <1>2. R!Metrics(r) = keyed \/ R!Metrics(r) = R!WithOcr(keyed, r.ocr)
    BY DEF R!Metrics, R!Completed
  <1> HIDE DEF keyed
  <1>3. R!WithOcr(keyed, r.ocr)[k] = R!Merged(occ, more)
    BY <1>1 DEF R!WithOcr
  <1>4. occ.items = d /\ occ.conflicts = R!Conflicts(d)
    BY DEF R!Occurrences
  <1>5. R!Merged(occ, more).items = d \o more /\ R!Merged(occ, more).conflicts = R!Conflicts(d)
    <2> DEFINE c == R!Conflicts(d)
               p == R!Primary(d)
    <2>1. occ = [items |-> d, primary |-> p, conflicts |-> c]
      BY DEF R!Occurrences
    <2> HIDE DEF c, p, occ, more
    <2> DEFINE l == R!Largest(<<p>> \o more)
    <2>2. R!Merged(occ, more) = [occ EXCEPT !.items = d \o more, !.primary = l]
      BY <2>1 DEF R!Merged
    <2> HIDE DEF l
    <2> DEFINE t == d \o more
    <2> HIDE DEF t
    <2>3. [occ EXCEPT !.items = t, !.primary = l].items = t /\ [occ EXCEPT !.items = t, !.primary = l].conflicts = c
      BY <2>1
    <2> QED BY <2>2, <2>3 DEF t, c
  <1>6. IsList(more) /\ Proper(more) /\ \A j \in 1 .. Len(more) : more[j] \in Range(r.ocr)
    BY OthersAreAdded DEF IsReport
  <1> HIDE DEF more, occ
  <1>7. GoesOn(d, d, Range(r.ocr)) /\ GoesOn(d \o more, d, Range(r.ocr))
    BY <1>6, ItGoesOn
  <1> QED BY <1>1, <1>2, <1>3, <1>4, <1>5, <1>7

-----------------------------------------------------------------------------
LEMMA ReportsKeepItems ==
  ASSUME NEW r, IsReport(r), NEW k \in KeysOf(R!AllItems(r))
  PROVE  ItemsKept(k, R!AllItems(r), R!Metrics(r)[k], r.ocr)
PROOF
  <1> DEFINE all == R!AllItems(r)
             metric == R!Metrics(r)[k]
             m == Len(all)
             own == {i \in DOMAIN all : all[i].key = k}
             items == R!OfKey(all, k)
             n == Len(items)
             d == R!Diverse(items, 3)
             full == IF Cardinality(own) > 3 THEN 3 ELSE Cardinality(own)
             kept == {metric.items[i] : i \in DOMAIN metric.items}
             pages == {all[i].page : i \in own}
  <1>1. AreItems(all)
    BY ReportsGiveItems
  <1> HIDE DEF all
  <1>2. m \in Nat /\ DOMAIN all = 1 .. m
    BY <1>1, ProperIsAList DEF AreItems, IsList
  <1>3. own \in SUBSET (1 .. m) /\ own # {}
    <2>1. \E i \in DOMAIN all : all[i].key = k
      BY DEF KeysOf, all
    <2> QED BY <1>2, <2>1
  <1>4. items = Picked(all, own)
    <2>1. items = R!Picked(all, own)
      BY DEF R!OfKey
    <2> HIDE DEF items, own
    <2> QED BY <2>1, SameListings
  <1>5. AreItems(items)
    <2>1. \A i \in own : IsItem(all[i])
      BY <1>1, <1>3 DEF AreItems
    <2> HIDE DEF items, own, m
    <2> QED BY <1>2, <1>3, <1>4, <2>1, PickedItems
  <1>6. /\ n = Cardinality(own)
        /\ \A j \in 1 .. n : \E i \in own : items[j] = all[i]
        /\ \A i \in own : \E j \in 1 .. n : items[j] = all[i]
    <2> DEFINE t == Picked(all, own)
    <2>1. /\ Len(t) = Cardinality(own)
          /\ \A j \in 1 .. Len(t) : \E i \in own : t[j] = all[i]
          /\ \A i \in own : \E j \in 1 .. Len(t) : t[j] = all[i]
      <3> HIDE DEF own, m
      <3>1. IsList(Picked(all, own)) /\ Len(Picked(all, own)) = Cardinality(own)
            /\ (\A j \in 1 .. Len(Picked(all, own)) : \E i \in own : Picked(all, own)[j] = all[i])
            /\ (\A i \in own : \E j \in 1 .. Len(Picked(all, own)) : Picked(all, own)[j] = all[i])
        BY <1>2, <1>3, PickedIsAList, Zenon
      <3> QED BY <3>1
    <2> HIDE DEF t, items, own
    <2>2. items = t
      BY <1>4 DEF t
    <2> QED BY <2>1, <2>2
  <1> HIDE DEF items
  <1>7. n # 0 /\ n \in Nat
    <2>1. PICK j \in 1 .. n : TRUE
      BY <1>3, <1>6
    <2> QED BY <1>5, <2>1 DEF AreItems, Proper
  <1>8. PagesOf(items) = pages
    <2>1. \A x : x \in PagesOf(items) <=> \E j \in 1 .. n : x = items[j].page
      BY DEF PagesOf
    <2>2. \A x : x \in pages <=> \E i \in own : x = all[i].page
      OBVIOUS
    <2> HIDE DEF pages, own, n
    <2>3. ASSUME NEW x \in PagesOf(items) PROVE x \in pages
      <3>1. PICK j \in 1 .. n : x = items[j].page
        BY <2>1
      <3>2. PICK i \in own : items[j] = all[i]
        BY <1>6
      <3> QED BY <2>2, <3>1, <3>2
    <2>4. ASSUME NEW x \in pages PROVE x \in PagesOf(items)
      <3>1. PICK i \in own : x = all[i].page
        BY <2>2
      <3>2. PICK j \in 1 .. n : items[j] = all[i]
        BY <1>6
      <3> QED BY <2>1, <3>1, <3>2
    <2> QED BY <2>3, <2>4
  <1>9. /\ AreItems(d) /\ Len(d) = full
        /\ \A i \in 1 .. Len(d) : \E j \in 1 .. n : d[i] = items[j]
        /\ Cardinality(pages) <= 3 => pages \subseteq {d[i].page : i \in 1 .. Len(d)}
        /\ \E i \in 1 .. Len(d) : \A j \in 1 .. n : ~Above(R!OccRank(items[j]), R!OccRank(d[i]))
    <2>1. /\ AreItems(d) /\ Len(d) = IF n > 3 THEN 3 ELSE n
          /\ \A i \in 1 .. Len(d) : \E j \in 1 .. n : d[i] = items[j]
          /\ Cardinality(PagesOf(items)) <= 3 => PagesOf(items) \subseteq {d[i].page : i \in 1 .. Len(d)}
          /\ \E i \in 1 .. Len(d) : \A j \in 1 .. n : ~Above(R!OccRank(items[j]), R!OccRank(d[i]))
      <3>1. Len(items) # 0
        BY <1>7
      <3> QED BY <1>5, <3>1, DiverseKeeps, Zenon
    <2> HIDE DEF d, pages
    <2>2. full = IF n > 3 THEN 3 ELSE n
      BY <1>6
    <2> HIDE DEF full, n
    <2> QED BY <1>8, <2>1, <2>2
  <1>10. metric.conflicts = R!Conflicts(d) /\ GoesOn(metric.items, d, Range(r.ocr))
    <2>1. d = R!Diverse(R!OfKey(R!AllItems(r), k), 3) /\ Proper(d)
      BY <1>9 DEF items, all, AreItems
    <2> HIDE DEF d
    <2> QED BY <2>1, MetricsKeep
  <1>11. Cardinality(metric.conflicts) <= 2
    <2> HIDE DEF d
    <2>1. Cardinality(R!Conflicts(d)) <= 2
      BY <1>9, ConflictsAreFew
    <2> QED BY <1>10, <2>1
  <1> HIDE DEF metric, d, pages, own
  <1>12. DOMAIN metric.items = 1 .. Len(metric.items) /\ Len(metric.items) \in Nat /\ Len(d) \in Nat
    BY <1>9, <1>10 DEF GoesOn, IsList, AreItems, Proper
  <1>13. /\ Len(d) <= Len(metric.items)
         /\ \A i \in 1 .. Len(d) : metric.items[i] = d[i] /\ i \in DOMAIN metric.items
         /\ \A i \in DOMAIN metric.items : i > Len(d) => metric.items[i] \in Range(r.ocr)
    BY <1>10, <1>12 DEF GoesOn
  <1>14. /\ full <= Len(metric.items)
         /\ \A i \in DOMAIN metric.items : i > full => metric.items[i] \in Range(r.ocr)
    BY <1>9, <1>13
  <1> HIDE DEF full
  <1>15. \A i \in 1 .. Len(d) : d[i] \in kept
    BY <1>13
  <1>16. Cardinality(pages) <= 3 => pages \subseteq {x.page : x \in kept}
    <2> HIDE DEF kept
    <2> QED BY <1>9, <1>15
  <1>17. \E x \in kept : \A i \in own : ~Above(R!OccRank(all[i]), R!OccRank(x))
    <2>1. PICK i \in 1 .. Len(d) : \A j \in 1 .. n : ~Above(R!OccRank(items[j]), R!OccRank(d[i]))
      BY <1>9
    <2>2. d[i] \in kept
      BY <1>15
    <2> HIDE DEF kept
    <2>3. \A p \in own : ~Above(R!OccRank(all[p]), R!OccRank(d[i]))
      BY <1>6, <2>1
    <2> QED BY <2>2, <2>3
  <1> HIDE DEF kept
  <1>18. ItemsKept(k, all, metric, r.ocr) <=>
           /\ Cardinality(metric.conflicts) <= 2
           /\ full <= Len(metric.items)
           /\ \A i \in DOMAIN metric.items : i > full => metric.items[i] \in Range(r.ocr)
           /\ Cardinality(pages) <= 3 => pages \subseteq {x.page : x \in kept}
           /\ \E x \in kept : \A i \in own : ~Above(R!OccRank(all[i]), R!OccRank(x))
    BY DEF ItemsKept, full, own, pages, kept
  <1>19. ItemsKept(k, all, metric, r.ocr)
    BY <1>11, <1>14, <1>16, <1>17, <1>18
  <1> QED BY <1>19 DEF all, metric

LEMMA ProfileBudget ==
  ASSUME RunProfiles, \A r \in Reports : IsReport(r)
  PROVE  LET all == R!AllItems(input'.as)
         IN  \A k \in {all[i].key : i \in DOMAIN all} : ItemsKept(k, all, found'.a[k], input'.as.ocr)
PROOF
  <1>1. PICK as, hs : as \in Reports /\ input' = [as |-> as, hs |-> hs]
    BY DEF RunProfiles
  <1>2. found' = Compared(R!Profile(input'.as), R!Profile(input'.hs))
    BY DEF RunProfiles
  <1>3. found'.a = R!Metrics(input'.as)
    BY <1>2 DEF Compared, R!Profile
  <1>4. input'.as = as /\ IsReport(as)
    BY <1>1
  <1>5. \A k \in KeysOf(R!AllItems(as)) : ItemsKept(k, R!AllItems(as), R!Metrics(as)[k], as.ocr)
    BY <1>4, ReportsKeepItems
  <1> QED BY <1>3, <1>4, <1>5 DEF KeysOf

-----------------------------------------------------------------------------
LEMMA EachCheckHasItsLimit ==
  ASSUME Next
  PROVE  /\ check' = "pages" => RunPages
         /\ check' = "tamper" => RunTamper
         /\ check' = "review" => RunReview
         /\ check' = "profiles" => RunProfiles
         /\ check' = "rows" => RunRows
         /\ check' = "positions" => RunPositions
PROOF
  <1>1. RunNumeric \/ RunPairing \/ RunTables \/ RunEvents => check' \in {"numeric", "pairing", "tables", "events"}
    BY Zenon DEF RunNumeric, RunPairing, RunTables, RunEvents, Run
  <1>2. RunFactor \/ RunVisual \/ RunFacts \/ RunBranches => check' \in {"factor", "visual", "facts", "branches"}
    BY Zenon DEF RunFactor, RunVisual, RunFacts, RunBranches, Run
  <1>3. /\ RunPages => check' = "pages"
        /\ RunTamper => check' = "tamper"
        /\ RunReview => check' = "review"
        /\ RunProfiles => check' = "profiles"
        /\ RunRows => check' = "rows"
        /\ RunPositions => check' = "positions"
    BY Zenon DEF RunPages, RunTamper, RunReview, RunProfiles, RunRows, RunPositions, Run
  <1> QED BY <1>1, <1>2, <1>3 DEF Next

(* Whatever the reports are, and whatever the model answers: no more pages go *)
(* to OCR than the mode allows, no more reviews of a metric are forced and no *)
(* more findings told of a key, a table or a page than the limits say, no     *)
(* more pairs go unanswered than were sent, and the limit of occurrences      *)
(* keeps the best one, fills its places and leaves no page out that fits.     *)
THEOREM BudgetsHold == Spec => []BudgetsAreKept
PROOF
  <1> DEFINE PagesKept == check = "pages" => Cardinality(found.pages) <= (IF input.mode = "strict" THEN 3 ELSE 2)
             CallsKept == check = "tamper" => found.calls <= 1 /\ Len(found.told) <= 4
             ReviewKept == check = "review" => found.unchecked <= 2
             ItemsAreKept == check = "profiles" =>
                               LET all == R!AllItems(input.as)
                               IN \A k \in {all[i].key : i \in DOMAIN all} : ItemsKept(k, all, found.a[k], input.as.ocr)
             RowsKept == check = "rows" => Len(found.told) <= 3
             PlacesKept == check = "positions" => Len(found.told) <= 2
             Kept == PagesKept /\ CallsKept /\ ReviewKept /\ ItemsAreKept /\ RowsKept /\ PlacesKept
  <1>1. BudgetsAreKept <=> Kept
    BY Zenon DEF BudgetsAreKept
  <1>2. Init => Kept
    BY DEF Init
  <1>3. ASSUME Next PROVE Kept'
    <2>1. PagesKept'
      <3> SUFFICES ASSUME RunPages PROVE Cardinality(found'.pages) <= (IF input'.mode = "strict" THEN 3 ELSE 2)
        BY <1>3, EachCheckHasItsLimit
      <3> QED BY PageBudget, OcrAssumption DEF OcrAssumption
    <2>2. CallsKept'
      <3> SUFFICES ASSUME RunTamper PROVE found'.calls <= 1 /\ Len(found'.told) <= 4
        BY <1>3, EachCheckHasItsLimit
      <3> QED BY TamperBudget, MetricsAssumption DEF MetricsAssumption
    <2>3. ReviewKept'
      <3> SUFFICES ASSUME RunReview PROVE found'.unchecked <= 2
        BY <1>3, EachCheckHasItsLimit
      <3> QED BY ReviewBudget, ReviewAssumption DEF ReviewAssumption
    <2>4. ItemsAreKept'
      <3>1. RunProfiles =>
              LET all == R!AllItems(input'.as)
              IN \A k \in {all[i].key : i \in DOMAIN all} : ItemsKept(k, all, found'.a[k], input'.as.ocr)
        BY ProfileBudget, ReportsAssumption, Zenon DEF ReportsAssumption
      <3>2. check' = "profiles" => RunProfiles
        BY <1>3, EachCheckHasItsLimit
      <3> QED BY <3>1, <3>2, Zenon DEF ItemsKept
    <2>5. RowsKept'
      <3> SUFFICES ASSUME RunRows PROVE Len(found'.told) <= 3
        BY <1>3, EachCheckHasItsLimit
      <3> QED BY RowBudget
    <2>6. PlacesKept'
      <3> SUFFICES ASSUME RunPositions PROVE Len(found'.told) <= 2
        BY <1>3, EachCheckHasItsLimit
      <3>1. ASSUME NEW s \in Pages PROVE Proper(s)
        BY PagesAssumption DEF PagesAssumption, IsList, Proper
      <3> QED BY <3>1, PositionBudget
    <2> QED BY <2>1, <2>2, <2>3, <2>4, <2>5, <2>6
  <1>4. ASSUME Kept, UNCHANGED vars PROVE Kept'
    BY <1>4 DEF vars
  <1>5. Init => BudgetsAreKept
    BY <1>1, <1>2
  <1>6. ASSUME BudgetsAreKept, [Next]_vars PROVE BudgetsAreKept'
    <2>1. Kept'
      BY <1>1, <1>3, <1>4, <1>6
    <2>2. BudgetsAreKept' <=> Kept'
      BY Zenon DEF BudgetsAreKept
    <2> QED BY <2>1, <2>2
  <1> QED BY <1>5, <1>6, PTL DEF Spec

-----------------------------------------------------------------------------
(* RunVisual: a number that is seen as the text layer has it is not told, and *)
(* one that is seen otherwise in the same row is, whatever is told twice.     *)
LEMMA SeenAsWrittenIsSilent ==
  ASSUME NEW v, v.value \in Int, NEW texts, \A t \in texts : t.value \in Int, SeenAsWritten(v, texts), NEW side
  PROVE  K!VisualDiff(side, v, texts) = <<>>
PROOF
  <1>1. ASSUME NEW t \in texts PROVE ~K!Legible(v, t)
    <2> DEFINE x == K!Signed(v, t)
               y == t.value
               gap == K!Abs(x - y)
               size == K!Larger(K!Larger(K!Abs(x), K!Abs(y)), 1)
    <2>1. x \in Int /\ y \in Int
      BY DEF K!Signed
    <2>2. gap \in Nat /\ size \in Nat /\ size >= 1 /\ Abs(x - y) = gap
      <3> HIDE DEF x, y
      <3> QED BY <2>1 DEF K!Abs, K!Larger, Abs
    <2>3. x = y \/ (~K!Close(x, y, 10, 100) /\ ~(v.small /\ gap <= 5))
      BY <2>2 DEF SeenAsWritten
    <2>4. \A num, den \in Int : K!Close(x, y, num, den) <=> gap * den <= num * size
      BY DEF K!Close
    <2>5. K!Legible(v, t) => /\ x # y
                             /\ \/ K!Close(x, y, 1, 100) \/ (v.small /\ gap <= 5)
                                \/ K!Close(x, y, 3, 100) \/ K!Close(x, y, 10, 100)
      <3> HIDE DEF gap
      <3>1. K!Abs(x - y) = gap
        BY DEF gap
      <3> QED BY <3>1 DEF K!Legible, K!SmallScale
    <2> HIDE DEF x, y, gap, size
    <2>6. K!Close(x, y, 1, 100) \/ K!Close(x, y, 3, 100) => K!Close(x, y, 10, 100)
      <3>1. /\ K!Close(x, y, 1, 100) <=> gap * 100 <= 1 * size
            /\ K!Close(x, y, 3, 100) <=> gap * 100 <= 3 * size
            /\ K!Close(x, y, 10, 100) <=> gap * 100 <= 10 * size
        BY <2>4
      <3> QED BY <2>2, <3>1
    <2> QED BY <2>3, <2>5, <2>6
  <1>2. K!Contradicted(v, texts) = {}
    BY <1>1 DEF K!Contradicted
  <1> QED BY <1>2 DEF K!VisualDiff

LEMMA WorstIsContradicted ==
  ASSUME NEW v, NEW texts, IsFiniteSet(texts),
         \A t \in texts : t.conf \in Int /\ v.sim[t.id] \in Int /\ v.rows[t.id] \in Int,
         NEW t0 \in texts, t0.page = v.page, t0.family = v.family, K!SameRow(v, t0), K!Legible(v, t0)
  PROVE  K!Contradicted(v, texts) # {}
PROOF
  <1> DEFINE near == {t \in texts : t.page = v.page /\ t.family = v.family /\ K!SameRow(v, t) /\ K!Legible(v, t)}
             rank(t) == <<v.sim[t.id], v.rows[t.id], t.conf>>
             order == {o \in near \X near : Above(rank(o[1]), rank(o[2]))}
  <1>1. IsFiniteSet(near) /\ near # {}
    BY FS_Subset
  <1>2. \A t \in near : rank(t) \in Ints(3)
    BY DEF Ints
  <1>3. K!Contradicted(v, texts) = {t \in near : \A u \in near : ~Above(rank(u), rank(t))}
    BY DEF K!Contradicted, K!Above, Above
  <1> HIDE DEF near, rank
  <1>4. IsOrder(order, near)
    <2>1. \A x, y \in near : <<x, y>> \in order <=> Above(rank(x), rank(y))
      OBVIOUS
    <2>2. \A x, y, z \in near : /\ ~Above(rank(x), rank(x))
                                /\ Above(rank(x), rank(y)) /\ Above(rank(y), rank(z)) => Above(rank(x), rank(z))
      BY <1>2, RanksCompare
    <2>3. \A x, y : <<x, y>> \in order => x \in near /\ y \in near
      OBVIOUS
    <2> HIDE DEF order
    <2> QED BY <2>1, <2>2, <2>3 DEF IsOrder
  <1>5. PICK x \in near : \A y \in near : <<y, x>> \notin order
    BY <1>1, <1>4, SomeoneIsFirst
  <1> QED BY <1>3, <1>5

(* A finding is kept, or one of its rule, metric and pages is.                *)
LEMMA DedupedFollows ==
  ASSUME NEW l, Len(l) \in Nat
  PROVE  \E g : /\ g[0] = <<>>
                /\ \A k \in 1 .. Len(l) : g[k] = K!KeepFirst(g[k - 1], l[k])
                /\ K!Deduped(l) = g[Len(l)]
PROOF
  <1> DEFINE n == Len(l)
             U == Seq({l[i] : i \in 1 .. n})
             Step(x, k) == K!KeepFirst(x, l[k])
             step == [p \in (1 .. n) \X U |-> Step(p[2], p[1])]
             Is(g) == g = [k \in 0 .. n |-> IF k = 0 THEN <<>> ELSE Step(g[k - 1], k)]
  <1>1. n \in Nat /\ <<>> \in U /\ \A k \in 1 .. n, x \in U : Step(x, k) \in U
    <2>1. \A k \in 1 .. n, x \in U : Append(x, l[k]) \in U
      OBVIOUS
    <2> QED BY <2>1 DEF K!KeepFirst
  <1> HIDE DEF n, U
  <1>2. IsStep(step, n, U)
    <2> HIDE DEF Step
    <2> QED BY <1>1 DEF IsStep
  <1>3. PICK g : IsWalk(g, n, U, <<>>, step)
    <2> HIDE DEF step
    <2> QED BY <1>1, <1>2, StepsAreTaken
  <1>4. Is(g)
    <2>1. \A k \in 1 .. n : g[k] = Step(g[k - 1], k)
      <3>1. \A k \in 1 .. n : k - 1 \in 0 .. n
        BY <1>1
      <3> HIDE DEF Step
      <3> QED BY <1>3, <3>1 DEF IsWalk
    <2> HIDE DEF Step, step
    <2>2. \A k \in 0 .. n : k = 0 \/ k \in 1 .. n
      BY <1>1
    <2> QED BY <1>3, <2>1, <2>2 DEF IsWalk
  <1> DEFINE after == CHOOSE x : Is(x)
  <1>5. Is(after)
    <2> HIDE DEF Is
    <2> QED BY <1>4
  <1>6. K!Deduped(l) = after[n]
    BY DEF K!Deduped, n
  <1> HIDE DEF after, Step
  <1>7. after[0] = <<>> /\ \A k \in 1 .. n : after[k] = Step(after[k - 1], k)
    <2>1. 0 \in 0 .. n /\ \A k \in 1 .. n : k \in 0 .. n /\ k # 0
      BY <1>1
    <2> QED BY <1>5, <2>1
  <1> QED BY <1>6, <1>7 DEF Step, n

LEMMA KeepingKeeps ==
  ASSUME NEW U, NEW x \in Seq(U), NEW d \in U
  PROVE  /\ K!KeepFirst(x, d) \in Seq(U)
         /\ \E i \in DOMAIN K!KeepFirst(x, d) : K!KeepFirst(x, d)[i].pages = d.pages
         /\ \A i \in DOMAIN x : i \in DOMAIN K!KeepFirst(x, d) /\ K!KeepFirst(x, d)[i] = x[i]
PROOF
  <1>1. CASE \E i \in DOMAIN x : K!SameFinding(x[i], d)
    BY <1>1 DEF K!KeepFirst, K!SameFinding
  <1>2. CASE ~\E i \in DOMAIN x : K!SameFinding(x[i], d)
    <2> DEFINE y == Append(x, d)
    <2>1. K!KeepFirst(x, d) = y
      BY <1>2 DEF K!KeepFirst
    <2>2. y \in Seq(U) /\ Len(x) + 1 \in DOMAIN y /\ y[Len(x) + 1] = d /\ \A i \in DOMAIN x : i \in DOMAIN y /\ y[i] = x[i]
      OBVIOUS
    <2> HIDE DEF y
    <2> QED BY <2>1, <2>2
  <1> QED BY <1>1, <1>2

LEMMA DedupedKeepsPages ==
  ASSUME NEW U, NEW l \in Seq(U), NEW i \in 1 .. Len(l)
  PROVE  \E j \in DOMAIN K!Deduped(l) : K!Deduped(l)[j].pages = l[i].pages
PROOF
  <1> DEFINE n == Len(l)
  <1>1. PICK g : /\ g[0] = <<>>
                 /\ \A k \in 1 .. n : g[k] = K!KeepFirst(g[k - 1], l[k])
                 /\ K!Deduped(l) = g[n]
    BY DedupedFollows
  <1> DEFINE Has(k) == g[k] \in Seq(U) /\ (i <= k => \E j \in DOMAIN g[k] : g[k][j].pages = l[i].pages)
             S == {k \in Nat : k <= n => Has(k)}
  <1>2. n \in Nat /\ i \in 1 .. n /\ \A k \in 1 .. n : l[k] \in U
    OBVIOUS
  <1> HIDE DEF n
  <1>3. 0 \in S
    <2>1. g[0] \in Seq(U) /\ ~(i <= 0)
      BY <1>1, <1>2
    <2>2. Has(0)
      BY <2>1
    <2> HIDE DEF Has
    <2> QED BY <2>2
  <1>4. ASSUME NEW k \in Nat, k \in S PROVE k + 1 \in S
    <2> SUFFICES ASSUME k + 1 <= n PROVE Has(k + 1)
      <3> HIDE DEF Has
      <3> QED OBVIOUS
    <2> DEFINE m == k + 1
    <2>1. m \in 1 .. n /\ m - 1 = k /\ k <= n /\ (i <= m => i = m \/ i <= k)
      BY <1>2
    <2> HIDE DEF m
    <2>2. Has(k)
      <3> HIDE DEF Has
      <3> QED BY <1>4, <2>1
    <2>3. g[m] = K!KeepFirst(g[k], l[m])
      BY <1>1, <2>1
    <2> DEFINE y == g[m]
    <2>4. /\ y \in Seq(U)
          /\ \E j \in DOMAIN y : y[j].pages = l[m].pages
          /\ \A j \in DOMAIN g[k] : j \in DOMAIN y /\ y[j] = g[k][j]
      <3>1. g[k] \in Seq(U) /\ l[m] \in U
        BY <1>2, <2>1, <2>2
      <3> DEFINE x == g[k]
                 d == l[m]
                 z == K!KeepFirst(x, d)
      <3> HIDE DEF Has, x, d
      <3>2. /\ z \in Seq(U)
            /\ \E j \in DOMAIN z : z[j].pages = d.pages
            /\ \A j \in DOMAIN x : j \in DOMAIN z /\ z[j] = x[j]
        <4>1. x \in Seq(U) /\ d \in U
          BY <3>1 DEF x, d
        <4>2. K!KeepFirst(x, d) \in Seq(U)
          BY <4>1, KeepingKeeps
        <4>3. \E j \in DOMAIN K!KeepFirst(x, d) : K!KeepFirst(x, d)[j].pages = d.pages
          BY <4>1, KeepingKeeps
        <4>4. \A j \in DOMAIN x : j \in DOMAIN K!KeepFirst(x, d)
          BY <4>1, KeepingKeeps
        <4>5. \A j \in DOMAIN x : K!KeepFirst(x, d)[j] = x[j]
          BY <4>1, KeepingKeeps
        <4> QED BY <4>2, <4>3, <4>4, <4>5
      <3>3. y = z
        BY <2>3 DEF x, d
      <3> HIDE DEF y, z
      <3> QED BY <3>2, <3>3 DEF x, d
    <2> HIDE DEF y
    <2>5. Has(m)
      BY <2>1, <2>2, <2>4 DEF y
    <2> HIDE DEF Has
    <2> QED BY <2>5 DEF m
  <1> HIDE DEF S, Has
  <1>5. n \in S
    BY <1>2, <1>3, <1>4, EveryNumber
  <1>6. Has(n)
    BY <1>2, <1>5 DEF S
  <1> QED BY <1>1, <1>2, <1>6 DEF Has

LEMMA VisualIsCleanAndTold ==
  ASSUME RunVisual
  PROVE  VisualSameIsClean' /\ VisibleAlterationIsTold'
PROOF
  <1>1. PICK texts \in LayerItems, a \in SeenItems, h \in SeenItems : input' = [texts |-> texts, a |-> a, h |-> h]
    BY Zenon DEF RunVisual
  <1> DEFINE da == K!VisualDiff("A", a, texts)
             dh == K!VisualDiff("H", h, texts)
  <1>2. input'.texts = texts /\ input'.a = a /\ input'.h = h /\ found' = K!Deduped(da \o dh)
    BY <1>1 DEF RunVisual
  <1>3. /\ \A s \in LayerItems : IsFiniteSet(s) /\ \A t \in s : /\ t.value \in Int /\ t.conf \in Int
                                                       /\ \A v \in SeenItems : v.sim[t.id] \in Int /\ v.rows[t.id] \in Int
        /\ \A v \in SeenItems : v.value \in Int
    BY LayersAssumption, Zenon DEF LayersAssumption
  <1>4. VisualSameIsClean'
    <2> SUFFICES ASSUME \A v \in {a, h} : SeenAsWritten(v, texts) PROVE found' = <<>>
      BY <1>2 DEF VisualSameIsClean
    <2>1. da = <<>> /\ dh = <<>>
      BY <1>3, SeenAsWrittenIsSilent
    <2> HIDE DEF da, dh
    <2>2. da \o dh = <<>>
      BY <2>1
    <2>3. K!Deduped(<<>>) = <<>>
      <3> DEFINE none == <<>>
      <3>1. Len(none) = 0
        OBVIOUS
      <3> HIDE DEF none
      <3>2. PICK g : g[0] = <<>> /\ K!Deduped(none) = g[Len(none)]
        BY <3>1, DedupedFollows
      <3> QED BY <3>1, <3>2 DEF none
    <2> QED BY <1>2, <2>2, <2>3
  <1>5. VisibleAlterationIsTold'
    <2> SUFFICES ASSUME NEW v \in {a, h}, NEW t \in texts, t.page = v.page, t.family = v.family,
                        K!SameRow(v, t), K!Legible(v, t)
                 PROVE  \E i \in DOMAIN found' : found'[i].pages = <<v.page, v.page>>
      BY <1>2 DEF VisibleAlterationIsTold
    <2>1. K!Contradicted(v, texts) # {}
      BY <1>3, WorstIsContradicted
    <2>2. \A side, w : K!VisualDiff(side, w, texts) = <<>> \/ \E d : K!VisualDiff(side, w, texts) = <<d>>
      BY DEF K!VisualDiff
    <2>3. ASSUME NEW side PROVE \E d : K!VisualDiff(side, v, texts) = <<d>> /\ d.pages = <<v.page, v.page>>
      <3> DEFINE key == (CHOOSE w \in K!Contradicted(v, texts) : TRUE).key
                 triage == IF v.embedded THEN "unresolved" ELSE "real"
                 pages == <<v.page, v.page>>
                 d == [rule |-> "visual", key |-> key, side |-> side, pages |-> pages, triage |-> triage]
      <3>1. K!VisualDiff(side, v, texts) = <<d>>
        BY <2>1 DEF K!VisualDiff
      <3> HIDE DEF key, triage, pages
      <3>2. d.pages = pages
        OBVIOUS
      <3> HIDE DEF d
      <3> QED BY <3>1, <3>2 DEF pages
    <2> DEFINE l == da \o dh
               U == {d \in {da[1], dh[1]} : TRUE}
    <2>4. l \in Seq(U) /\ \E i \in 1 .. Len(l) : l[i].pages = <<v.page, v.page>>
      <3>1. da = <<>> \/ da = <<da[1]>>
        BY <2>2
      <3>2. dh = <<>> \/ dh = <<dh[1]>>
        BY <2>2
      <3>3. \/ da = <<da[1]>> /\ da[1].pages = <<v.page, v.page>>
            \/ dh = <<dh[1]>> /\ dh[1].pages = <<v.page, v.page>>
        BY <2>3
      <3> HIDE DEF da, dh
      <3> DEFINE x == da[1]
                 y == dh[1]
      <3> HIDE DEF x, y
      <3>0. (da = <<>> \/ da = <<x>>) /\ (dh = <<>> \/ dh = <<y>>)
        BY <3>1, <3>2 DEF x, y
      <3>4. da \in Seq({x, y}) /\ dh \in Seq({x, y})
        <4>1. <<>> \in Seq({x, y}) /\ <<x>> \in Seq({x, y}) /\ <<y>> \in Seq({x, y})
          OBVIOUS
        <4> QED BY <3>0, <4>1
      <3>5. l \in Seq({x, y})
        BY <3>4
      <3>6. \E i \in 1 .. Len(l) : l[i].pages = <<v.page, v.page>>
        <4>1. CASE da = <<x>> /\ x.pages = <<v.page, v.page>>
          <5>1. 1 \in 1 .. Len(l) /\ l[1] = x
            BY <3>4, <4>1
          <5> QED BY <4>1, <5>1
        <4>2. CASE dh = <<y>> /\ y.pages = <<v.page, v.page>>
          <5>1. Len(l) \in 1 .. Len(l) /\ l[Len(l)] = y
            BY <3>4, <4>2
          <5> QED BY <4>2, <5>1
        <4> QED BY <3>3, <4>1, <4>2 DEF x, y
      <3> QED BY <3>5, <3>6 DEF x, y
    <2> HIDE DEF l, U
    <2>5. PICK i \in 1 .. Len(l) : l[i].pages = <<v.page, v.page>>
      BY <2>4
    <2>6. \E j \in DOMAIN K!Deduped(l) : K!Deduped(l)[j].pages = l[i].pages
      BY <2>4, DedupedKeepsPages
    <2> QED BY <1>2, <2>5, <2>6 DEF l
  <1> QED BY <1>4, <1>5

-----------------------------------------------------------------------------
(* RunTamper: what a key has in the same place on both sides is exact and     *)
(* told as low at most; a close mismatch that nothing explains is told.       *)
LEMMA RankedIsEmpty ==
  ASSUME NEW pairs, IsFiniteSet(pairs), NEW rank
  PROVE  Len(Ranked(pairs, rank)) = 0 <=> pairs = {}
PROOF
  <1> DEFINE entries == Entries(pairs, rank)
             sorted == Listed(entries, ByRank(entries))
             c == Cardinality(entries)
  <1>1. c \in Nat /\ (c = 0 <=> pairs = {})
    <2> DEFINE f == [p \in pairs |-> <<rank[p], p>>]
    <2>1. entries = {f[p] : p \in pairs} /\ f \in Surjection(pairs, entries)
      BY DEF Entries, Surjection
    <2> HIDE DEF f, entries
    <2>2. IsFiniteSet(entries)
      BY <2>1, FS_Surjection
    <2>3. entries = {} <=> pairs = {}
      BY <2>1
    <2> QED BY <2>2, <2>3, FS_CardinalityType, FS_EmptySet
  <1>2. DOMAIN sorted = 1 .. c
    BY DEF Listed
  <1>3. Ranked(pairs, rank) = [k \in DOMAIN sorted |-> sorted[k][2]]
    BY DEF Ranked, Entries
  <1> HIDE DEF sorted, c
  <1>4. Ranked(pairs, rank) = [k \in 1 .. c |-> sorted[k][2]]
    BY <1>2, <1>3
  <1> QED BY <1>1, <1>4

Lows == [told : Seq({"low"}), calls : {0, 1}]

LEMMA LowsAreTellings == \A x \in Lows : x \in Tellings
PROOF
  <1>1. \A s \in Seq({"low"}) : s \in Seq(Severities)
    BY DEF Severities
  <1> QED BY <1>1 DEF Lows, Tellings

LEMMA ExactIsLow ==
  ASSUME NEW acc \in Lows, NEW a, NEW h, NEW pairs, Len(pairs) \in Nat, NEW exact, exact, NEW answer
  PROVE  K!TellAll(acc, a, h, pairs, exact, answer) \in Lows
PROOF
  <1> DEFINE n == Len(pairs)
  <1>1. acc \in Tellings
    BY LowsAreTellings
  <1>2. PICK g : ToldInTurn(g, acc, a, h, pairs, exact, answer)
    BY <1>1, TellAllFollows
  <1>3. ASSUME NEW x \in Lows, NEW y, NEW z PROVE K!Tell(x, y, z, exact, answer) \in Lows
    <2>1. x.told \in Seq({"low"}) /\ x.calls \in {0, 1} /\ x = [told |-> x.told, calls |-> x.calls]
      BY DEF Lows
    <2>2. K!Tell(x, y, z, exact, answer) = [x EXCEPT !.told = Append(@, "low")]
      BY DEF K!Tell
    <2>3. K!Tell(x, y, z, exact, answer) = [told |-> Append(x.told, "low"), calls |-> x.calls]
      BY <2>1, <2>2
    <2>4. Append(x.told, "low") \in Seq({"low"})
      BY <2>1
    <2> DEFINE new == K!Tell(x, y, z, exact, answer)
               told == Append(x.told, "low")
               calls == x.calls
    <2>5. new = [told |-> told, calls |-> calls] /\ told \in Seq({"low"}) /\ calls \in {0, 1}
      BY <2>1, <2>3, <2>4
    <2> HIDE DEF new, told, calls
    <2>6. new \in Lows
      BY <2>5 DEF Lows
    <2> QED BY <2>6 DEF new
  <1>4. n \in Nat /\ g[0] \in Lows /\ \A k \in 1 .. n : g[k - 1] \in Lows => g[k] \in Lows
    BY <1>2, <1>3 DEF ToldInTurn
  <1>5. K!TellAll(acc, a, h, pairs, exact, answer) = g[n]
    BY <1>2 DEF ToldInTurn
  <1> DEFINE S == {k \in Nat : k <= n => g[k] \in Lows}
  <1> HIDE DEF n
  <1>6. 0 \in S
    BY <1>4
  <1>7. ASSUME NEW k \in Nat, k \in S PROVE k + 1 \in S
    <2> SUFFICES ASSUME k + 1 <= n PROVE g[k + 1] \in Lows
      OBVIOUS
    <2>1. k + 1 \in 1 .. n /\ k + 1 - 1 = k /\ g[k] \in Lows
      BY <1>4, <1>7
    <2> QED BY <1>4, <2>1
  <1>8. n \in S
    <2> HIDE DEF S
    <2> QED BY <1>4, <1>6, <1>7, EveryNumber
  <1>9. g[n] \in Lows
    <2>1. n <= n
      BY <1>4
    <2> QED BY <1>8, <2>1
  <1> HIDE DEF S
  <1> QED BY <1>5, <1>9

LEMMA AnItemIsComparable ==
  ASSUME NEW x, K!RoleOf(x) = "main_value"
  PROVE  K!Comparable(x, x) /\ K!Pairable(x.ck, x.ck)
PROOF
  BY DEF K!Comparable, K!SameScope, K!Agree, K!PeriodsCompatible, K!PeriodsPairable, K!Pairable

LEMMA OfKeyIsAList ==
  ASSUME NEW s, IsList(s), NEW k
  PROVE  /\ IsList(K!OfKey(s, k))
         /\ \A j \in DOMAIN K!OfKey(s, k) : \E i \in DOMAIN s : s[i].key = k /\ K!OfKey(s, k)[j] = s[i]
         /\ \A i \in DOMAIN s : s[i].key = k => \E j \in DOMAIN K!OfKey(s, k) : K!OfKey(s, k)[j] = s[i]
PROOF
  <1> DEFINE places == {i \in DOMAIN s : s[i].key = k}
             t == Picked(s, places)
  <1>1. K!OfKey(s, k) = t
    BY SameListings DEF K!OfKey
  <1>2. Len(s) \in Nat /\ places \in SUBSET (1 .. Len(s))
    BY DEF IsList
  <1>3. /\ IsList(t)
        /\ \A j \in 1 .. Len(t) : \E i \in places : t[j] = s[i]
        /\ \A i \in places : \E j \in 1 .. Len(t) : t[j] = s[i]
    <2> HIDE DEF places
    <2> QED BY <1>2, PickedIsAList
  <1>4. DOMAIN t = 1 .. Len(t)
    BY <1>3 DEF IsList
  <1> HIDE DEF t
  <1> QED BY <1>1, <1>3, <1>4

LEMMA SameKeyIsLow ==
  ASSUME NEW acc \in Lows, NEW as, IsList(as), NEW k, NEW answer
  PROVE  TellKeyOf(acc, as, as, k, answer) \in Lows
PROOF
  <1> DEFINE a == K!OfKey(as, k)
             pairs == K!Mismatches(a, a)
             exact == K!ExactPair(a, a)
  <1>1. IsList(a)
    BY OfKeyIsAList
  <1>2. TellKeyOf(acc, as, as, k, answer) = acc \/ TellKeyOf(acc, as, as, k, answer) = K!TellAll(acc, a, a, pairs, exact, answer)
    BY DEF TellKeyOf, K!TellKey
  <1>3. Len(pairs) \in Nat
    <2>1. Len(pairs) \in 0 .. 2
      <3> HIDE DEF a
      <3> QED BY <1>1, MismatchesAreFew
    <2> HIDE DEF pairs
    <2> QED BY <2>1
  <1>4. CASE exact
    <2> HIDE DEF a, pairs, exact
    <2>1. K!TellAll(acc, a, a, pairs, exact, answer) \in Lows
      BY <1>3, <1>4, ExactIsLow
    <2> QED BY <1>2, <2>1
  <1>5. CASE ~exact
    <2> DEFINE all == {p \in (DOMAIN a) \X (DOMAIN a) : K!Mismatch(a[p[1]], a[p[2]])}
               rank == [p \in all |-> <<- K!Share(a[p[1]], a[p[2]]), - a[p[1]].page, - a[p[2]].page>>]
               ranked == Ranked(all, rank)
    <2> HIDE DEF a
    <2>1. all = {}
      <3> SUFFICES ASSUME NEW i \in DOMAIN a, NEW j \in DOMAIN a, K!Mismatch(a[i], a[j]) PROVE FALSE
        OBVIOUS
      <3>1. K!RoleOf(a[i]) = "main_value"
        BY DEF K!Mismatch, K!Comparable
      <3>2. K!Comparable(a[i], a[i]) /\ K!Pairable(a[i].ck, a[i].ck)
        BY <3>1, AnItemIsComparable
      <3> QED BY <1>5, <3>2 DEF K!ExactPair
    <2>2. pairs = SubSeq(ranked, 1, IF Len(ranked) < 2 THEN Len(ranked) ELSE 2)
      BY SameListings DEF K!Mismatches
    <2> HIDE DEF all, rank
    <2>3. Len(ranked) = 0 /\ Proper(ranked)
      <3>1. IsFiniteSet(all)
        BY <2>1, FS_EmptySet
      <3> QED BY <2>1, <3>1, RankedIsEmpty, RankedIsProper
    <2> HIDE DEF ranked
    <2>4. Len(pairs) = 0
      <3>1. pairs = SubSeq(ranked, 1, 0)
        BY <2>2, <2>3
      <3>2. ranked = <<>>
        BY <2>3 DEF Proper
      <3> QED BY <3>1, <3>2
    <2> HIDE DEF pairs, exact
    <2>5. acc \in Tellings
      BY LowsAreTellings
    <2>6. PICK g : ToldInTurn(g, acc, a, a, pairs, exact, answer)
      BY <1>3, <2>5, TellAllFollows
    <2>7. K!TellAll(acc, a, a, pairs, exact, answer) = acc
      BY <2>4, <2>6 DEF ToldInTurn
    <2> QED BY <1>2, <2>7
  <1> QED BY <1>4, <1>5

ToldOfKeys(as, hs, answer) == TellKeyOf(TellKeyOf(K!NothingTold, as, hs, "assets", answer), as, hs, "eps", answer)

LEMMA TamperStep ==
  ASSUME RunTamper
  PROVE  \E as \in MetricSides, to \in AlteredTo, answer \in BOOLEAN : \E at \in 0 .. Len(as) :
           /\ input' = [as |-> as, hs |-> Altered(as, at, to), at |-> at, answer |-> answer]
           /\ IsList(as) /\ IsList(Altered(as, at, to))
           /\ found' = ToldOfKeys(as, Altered(as, at, to), answer)
PROOF
  <1>1. PICK as \in MetricSides, to \in AlteredTo, answer \in BOOLEAN : \E at \in 0 .. Len(as) :
          input' = [as |-> as, hs |-> Altered(as, at, to), at |-> at, answer |-> answer]
    BY Zenon DEF RunTamper
  <1>2. PICK at \in 0 .. Len(as) :
          input' = [as |-> as, hs |-> Altered(as, at, to), at |-> at, answer |-> answer]
    BY <1>1
  <1> DEFINE hs == Altered(as, at, to)
  <1>3. found' = K!ExactDiffs(as, hs, <<"assets", "eps">>, answer)
    <2> HIDE DEF hs
    <2>1. input'.as = as /\ input'.hs = hs /\ input'.answer = answer
      BY <1>2 DEF hs
    <2> QED BY <2>1 DEF RunTamper
  <1>4. IsList(as)
    <2>1. \A s \in MetricSides : IsList(s)
      BY MetricsAssumption, Zenon DEF MetricsAssumption
    <2> QED BY <2>1
  <1>5. IsList(hs)
    <2> DEFINE n == Len(as)
    <2>1. n \in Nat /\ DOMAIN as = 1 .. n
      BY <1>4 DEF IsList
    <2>2. DOMAIN hs = DOMAIN as
      BY DEF Altered
    <2> HIDE DEF n, hs
    <2>3. DOMAIN hs = 1 .. n /\ Len(hs) = n
      BY <2>1, <2>2
    <2> QED BY <2>1, <2>3 DEF IsList
  <1>6. found' = ToldOfKeys(as, hs, answer)
    <2> HIDE DEF hs
    <2> QED BY <1>3, <1>4, <1>5, KeysFollow DEF ToldOfKeys
  <1> QED BY <1>2, <1>4, <1>5, <1>6

LEMMA MetricIsClean ==
  ASSUME RunTamper
  PROVE  MetricSameIsClean'
PROOF
  <1>1. PICK as \in MetricSides, to \in AlteredTo, answer \in BOOLEAN : \E at \in 0 .. Len(as) :
           /\ input' = [as |-> as, hs |-> Altered(as, at, to), at |-> at, answer |-> answer]
           /\ IsList(as) /\ IsList(Altered(as, at, to))
           /\ found' = ToldOfKeys(as, Altered(as, at, to), answer)
    BY TamperStep
  <1>2. PICK at : /\ input' = [as |-> as, hs |-> Altered(as, at, to), at |-> at, answer |-> answer]
                  /\ IsList(as) /\ found' = ToldOfKeys(as, Altered(as, at, to), answer)
    BY <1>1
  <1> SUFFICES ASSUME input'.as = input'.hs PROVE \A i \in DOMAIN found'.told : found'.told[i] = "low"
    BY DEF MetricSameIsClean
  <1>3. Altered(as, at, to) = as
    <2> DEFINE hs == Altered(as, at, to)
    <2> HIDE DEF hs
    <2>1. input'.as = as /\ input'.hs = hs
      BY <1>2 DEF hs
    <2> QED BY <2>1 DEF hs
  <1>4. K!NothingTold \in Lows
    BY DEF K!NothingTold, Lows
  <1>5. found' \in Lows
    BY <1>2, <1>3, <1>4, SameKeyIsLow DEF ToldOfKeys
  <1>6. found'.told \in Seq({"low"})
    BY <1>5 DEF Lows
  <1> QED BY <1>6

(* A mismatch that no other item explains or repeats is told.                 *)
LEMMA UnexplainedIsTold ==
  ASSUME NEW acc \in Tellings, NEW as, IsList(as), NEW hs, IsList(hs), NEW at \in DOMAIN as, at \in DOMAIN hs,
         NEW k, as[at].key = k, hs[at].key = k, NEW answer,
         K!Mismatch(as[at], hs[at]),
         \A i \in DOMAIN as : as[i].key = k => ~K!Explains(as[i], hs[at]),
         \A i \in DOMAIN hs : i # at => ~(hs[i].value = hs[at].value /\ K!PeriodOf(hs[i]) = K!PeriodOf(hs[at]))
  PROVE  Len(TellKeyOf(acc, as, hs, k, answer).told) >= 1
PROOF
  <1> DEFINE a == K!OfKey(as, k)
             h == K!OfKey(hs, k)
             pairs == K!Mismatches(a, h)
  <1>1. /\ IsList(a) /\ IsList(h)
        /\ \A j \in DOMAIN a : \E i \in DOMAIN as : as[i].key = k /\ a[j] = as[i]
        /\ \A j \in DOMAIN h : \E i \in DOMAIN hs : hs[i].key = k /\ h[j] = hs[i]
    <2>1. IsList(a) /\ \A j \in DOMAIN a : \E i \in DOMAIN as : as[i].key = k /\ a[j] = as[i]
      <3>1. IsList(a)
        BY OfKeyIsAList
      <3>2. \A j \in DOMAIN a : \E i \in DOMAIN as : as[i].key = k /\ a[j] = as[i]
        BY OfKeyIsAList
      <3> QED BY <3>1, <3>2
    <2>2. IsList(h) /\ \A j \in DOMAIN h : \E i \in DOMAIN hs : hs[i].key = k /\ h[j] = hs[i]
      <3>1. IsList(h)
        BY OfKeyIsAList
      <3>2. \A j \in DOMAIN h : \E i \in DOMAIN hs : hs[i].key = k /\ h[j] = hs[i]
        BY OfKeyIsAList
      <3> QED BY <3>1, <3>2
    <2> HIDE DEF a, h
    <2> QED BY <2>1, <2>2
  <1>2. PICK ia \in DOMAIN a : a[ia] = as[at]
    <2>1. \A i \in DOMAIN as : as[i].key = k => \E j \in DOMAIN a : a[j] = as[i]
      BY OfKeyIsAList
    <2> HIDE DEF a
    <2> QED BY <2>1
  <1>3. PICK ih \in DOMAIN h : h[ih] = hs[at]
    <2>1. \A i \in DOMAIN hs : hs[i].key = k => \E j \in DOMAIN h : h[j] = hs[i]
      BY OfKeyIsAList
    <2> HIDE DEF h
    <2> QED BY <2>1
  <1>4. TellKeyOf(acc, as, hs, k, answer) = K!TellKey(acc, a, h, answer)
    BY DEF TellKeyOf
  <1> HIDE DEF a, h
  <1>5. a # <<>> /\ h # <<>>
    <2>1. DOMAIN a # {} /\ DOMAIN h # {}
      BY <1>2, <1>3
    <2> QED BY <2>1
  <1>6. ~K!Reconciled(a, h)
    <2> DEFINE Like(j) == h[j].value = hs[at].value /\ K!PeriodOf(h[j]) = K!PeriodOf(hs[at])
               U == {j \in DOMAIN h : Like(j)}
    <2>1. U \in SUBSET Nat /\ U # {}
      BY <1>1, <1>3 DEF IsList
    <2>2. PICK j \in U : \A l \in U : j <= l
      <3> HIDE DEF U
      <3> QED BY <2>1, LeastElement
    <2>3. j \in K!Points(h)
      <3>1. ASSUME NEW l \in 1 .. (j - 1), h[l].value = h[j].value, K!PeriodOf(h[l]) = K!PeriodOf(h[j]) PROVE FALSE
        <4>1. l \in DOMAIN h /\ ~(j <= l)
          BY <1>1, <2>1, <2>2 DEF IsList
        <4>2. l \in U
          BY <3>1, <4>1
        <4> QED BY <2>2, <4>1, <4>2
      <3> QED BY <3>1 DEF K!Points
    <2>4. h[j] = hs[at]
      <3>1. PICK i \in DOMAIN hs : h[j] = hs[i]
        BY <1>1
      <3>2. hs[i].value = hs[at].value /\ K!PeriodOf(hs[i]) = K!PeriodOf(hs[at])
        BY <2>2, <3>1
      <3> QED BY <3>1, <3>2
    <2>5. ~\E i \in K!Points(a) : K!Explains(a[i], h[j])
      <3> SUFFICES ASSUME NEW i \in K!Points(a), K!Explains(a[i], h[j]) PROVE FALSE
        OBVIOUS
      <3>1. i \in DOMAIN a
        BY DEF K!Points
      <3> QED BY <1>1, <2>4, <3>1
    <2> QED BY <2>3, <2>5 DEF K!Reconciled
  <1>7. K!TellKey(acc, a, h, answer) = K!TellAll(acc, a, h, pairs, K!ExactPair(a, h), answer)
    BY <1>5, <1>6 DEF K!TellKey
  <1>8. Len(pairs) \in Nat /\ Len(pairs) >= 1
    <2> DEFINE all == {p \in (DOMAIN a) \X (DOMAIN h) : K!Mismatch(a[p[1]], h[p[2]])}
               rank == [p \in all |-> <<- K!Share(a[p[1]], h[p[2]]), - a[p[1]].page, - h[p[2]].page>>]
               ranked == Ranked(all, rank)
               m == IF Len(ranked) < 2 THEN Len(ranked) ELSE 2
    <2>1. pairs = SubSeq(ranked, 1, m)
      BY SameListings DEF K!Mismatches
    <2>2. IsFiniteSet(all)
      <3>1. IsFiniteSet((DOMAIN a) \X (DOMAIN h))
        BY <1>1, PairsOfPlaces DEF IsList
      <3> QED BY <3>1, FS_Subset
    <2>3. <<ia, ih>> \in all
      BY <1>2, <1>3
    <2> HIDE DEF all, rank
    <2>4. Proper(ranked) /\ Len(ranked) # 0
      BY <2>2, <2>3, RankedIsEmpty, RankedIsProper
    <2> HIDE DEF ranked
    <2>5. ranked \in Seq(ElementsOf(ranked))
      BY <2>4, ProperListsAreSequences DEF ElementsOf
    <2>6. m \in 1 .. 2 /\ m <= Len(ranked)
      BY <2>4 DEF Proper
    <2> HIDE DEF m
    <2>7. Len(SubSeq(ranked, 1, m)) = m
      BY <2>5, <2>6
    <2> QED BY <2>1, <2>6, <2>7
  <1> HIDE DEF pairs
  <1> DEFINE exact == K!ExactPair(a, h)
             new == K!TellAll(acc, a, h, pairs, exact, answer)
  <1>9. Len(new.told) = Len(acc.told) + Len(pairs)
    <2> HIDE DEF exact
    <2> QED BY <1>8, AllAreTold
  <1>10. Len(acc.told) \in Nat
    BY DEF Tellings
  <1> HIDE DEF new
  <1>11. TellKeyOf(acc, as, hs, k, answer) = new
    BY <1>4, <1>7 DEF new
  <1> DEFINE x == Len(new.told)
             y == Len(acc.told)
             z == Len(pairs)
  <1>12. x = y + z /\ y \in Nat /\ z \in Nat /\ z >= 1
    BY <1>8, <1>9, <1>10
  <1> HIDE DEF x, y, z
  <1>13. x >= 1
    BY <1>12
  <1> QED BY <1>11, <1>13 DEF x

LEMMA KeysTellMore ==
  ASSUME NEW acc \in Tellings, NEW as, IsList(as), NEW hs, IsList(hs), NEW k, NEW answer
  PROVE  Len(TellKeyOf(acc, as, hs, k, answer).told) >= Len(acc.told)
PROOF
  <1> DEFINE a == K!OfKey(as, k)
             h == K!OfKey(hs, k)
             pairs == K!Mismatches(a, h)
             exact == K!ExactPair(a, h)
             new == K!TellAll(acc, a, h, pairs, exact, answer)
  <1>1. IsList(a) /\ IsList(h)
    BY OfKeyIsAList
  <1>2. TellKeyOf(acc, as, hs, k, answer) = acc \/ TellKeyOf(acc, as, hs, k, answer) = new
    BY DEF TellKeyOf, K!TellKey
  <1> HIDE DEF a, h
  <1>3. Len(pairs) \in 0 .. 2
    BY <1>1, MismatchesAreFew
  <1> HIDE DEF pairs
  <1>4. Len(pairs) \in Nat
    BY <1>3
  <1> HIDE DEF exact
  <1>5. Len(new.told) = Len(acc.told) + Len(pairs)
    BY <1>4, AllAreTold
  <1>6. Len(acc.told) \in Nat
    BY DEF Tellings
  <1> HIDE DEF new
  <1> DEFINE x == Len(new.told)
             y == Len(acc.told)
             z == Len(pairs)
  <1>7. x = y + z /\ y \in Nat /\ z \in Nat
    BY <1>4, <1>5, <1>6
  <1> HIDE DEF x, y, z
  <1>8. x >= y /\ y >= y
    BY <1>7
  <1> QED BY <1>2, <1>8 DEF x, y

LEMMA MetricIsTold ==
  ASSUME RunTamper
  PROVE  MetricAlterationIsTold'
PROOF
  <1>1. PICK as \in MetricSides, to \in AlteredTo, answer \in BOOLEAN : \E at \in 0 .. Len(as) :
           /\ input' = [as |-> as, hs |-> Altered(as, at, to), at |-> at, answer |-> answer]
           /\ IsList(as) /\ IsList(Altered(as, at, to))
           /\ found' = ToldOfKeys(as, Altered(as, at, to), answer)
    BY TamperStep
  <1>2. PICK at \in 0 .. Len(as) :
                  /\ input' = [as |-> as, hs |-> Altered(as, at, to), at |-> at, answer |-> answer]
                  /\ IsList(as) /\ IsList(Altered(as, at, to)) /\ found' = ToldOfKeys(as, Altered(as, at, to), answer)
    BY <1>1
  <1> DEFINE hs == Altered(as, at, to)
             a == as[at]
             h == hs[at]
  <1>3. input'.as = as /\ input'.hs = hs /\ input'.at = at
    <2> HIDE DEF hs
    <2>1. input' = [as |-> as, hs |-> hs, at |-> at, answer |-> answer]
      BY <1>2 DEF hs
    <2> QED BY <2>1
  <1> SUFFICES ASSUME as # hs, K!RoleOf(a) = "main_value", K!Close(a.value, h.value, 1, 100),
                      \A i \in DOMAIN as : as[i].key = a.key => ~K!Explains(as[i], h),
                      \A i \in DOMAIN hs : i # at => ~(hs[i].value = h.value /\ K!PeriodOf(hs[i]) = K!PeriodOf(h))
               PROVE  found'.told # <<>>
    <2> HIDE DEF hs
    <2> QED BY <1>3 DEF MetricAlterationIsTold
  <1>4. \A s \in MetricSides : IsList(s) /\ s = [i \in DOMAIN s |-> s[i]] /\ \A i \in DOMAIN s :
          /\ {"key", "value", "small", "period", "ck", "role", "scope", "page", "marked"} \subseteq DOMAIN s[i]
          /\ s[i].key \in {"assets", "eps"}
    BY MetricsAssumption, Zenon DEF MetricsAssumption
  <1>5. at \in DOMAIN as
    <2>1. Len(as) \in Nat /\ DOMAIN as = 1 .. Len(as)
      BY <1>2 DEF IsList
    <2>2. CASE at = 0
      <3>1. \A i \in DOMAIN as : i # at
        BY <2>1, <2>2
      <3>2. hs = [i \in DOMAIN as |-> as[i]]
        BY <3>1 DEF Altered
      <3> QED BY <1>4, <3>2
    <2>3. CASE at # 0
      <3> DEFINE n == Len(as)
      <3>1. n \in Nat /\ at \in 0 .. n
        BY <2>1
      <3> HIDE DEF n
      <3>2. at \in 1 .. n
        BY <2>3, <3>1
      <3> QED BY <2>1, <3>2 DEF n
    <2> QED BY <2>2, <2>3
  <1>6. DOMAIN hs = DOMAIN as /\ h = [a EXCEPT !.value = to]
    BY <1>5 DEF Altered
  <1>7. /\ h.key = a.key /\ h.small = a.small /\ h.period = a.period /\ h.ck = a.ck
        /\ h.role = a.role /\ h.scope = a.scope
    BY <1>4, <1>5, <1>6
  <1>8. a.key \in {"assets", "eps"}
    BY <1>4, <1>5
  <1> HIDE DEF hs, a, h
  <1>9. K!Comparable(a, a) /\ K!Pairable(a.ck, a.ck)
    BY AnItemIsComparable
  <1>10. K!Comparable(a, h) /\ K!Pairable(a.ck, h.ck)
    BY <1>7, <1>9 DEF K!Comparable, K!RoleOf, K!SameScope, K!PeriodsCompatible, K!PeriodOf
  <1>11. a.value # h.value
    <2> SUFFICES ASSUME a.value = h.value PROVE FALSE
      OBVIOUS
    <2>1. K!Explains(a, h)
      BY <1>10 DEF K!Explains
    <2> QED BY <1>5, <2>1 DEF a
  <1>12. K!Mismatch(a, h)
    BY <1>10, <1>11 DEF K!Mismatch
  <1> DEFINE x0 == K!NothingTold
             x1 == TellKeyOf(x0, as, hs, "assets", answer)
             x2 == TellKeyOf(x1, as, hs, "eps", answer)
  <1>13. found' = x2 /\ IsList(as) /\ IsList(hs)
    BY <1>2 DEF ToldOfKeys, hs
  <1>14. x0 \in Tellings
    BY DEF K!NothingTold, Tellings
  <1>15. \A x \in Tellings : \A k : TellKeyOf(x, as, hs, k, answer) \in Tellings
    BY <1>13, KeysTellFew DEF TellKeyOf
  <1>16. \A x \in Tellings : Len(TellKeyOf(x, as, hs, a.key, answer).told) >= 1
    BY <1>5, <1>6, <1>7, <1>12, <1>13, UnexplainedIsTold DEF a, h
  <1> HIDE DEF x0
  <1>17. x1 \in Tellings
    BY <1>14, <1>15
  <1>18. a.key = "assets" => Len(x1.told) >= 1
    BY <1>14, <1>16
  <1> HIDE DEF x1
  <1>19. Len(x2.told) >= Len(x1.told) /\ (a.key = "eps" => Len(x2.told) >= 1)
    BY <1>13, <1>16, <1>17, KeysTellMore
  <1>20. x2 \in Tellings
    BY <1>15, <1>17
  <1> HIDE DEF x2
  <1>21. Len(x1.told) \in Nat /\ Len(x2.told) \in Nat
    BY <1>17, <1>20 DEF Tellings
  <1>22. Len(x2.told) >= 1
    BY <1>8, <1>18, <1>19, <1>21
  <1> QED BY <1>13, <1>22

-----------------------------------------------------------------------------
(* What is picked from a list keeps its order, and at has the places.         *)
IsPick(t, s, places, at) ==
  /\ Proper(t) /\ Len(t) = Cardinality(places)
  /\ \A k \in 1 .. Len(t) : at[k] \in places /\ t[k] = s[at[k]]
  /\ \A i \in places : \E k \in 1 .. Len(t) : at[k] = i
  /\ \A k, l \in 1 .. Len(t) : k < l => at[k] < at[l]

LEMMA PickedInPlace ==
  ASSUME NEW n \in Nat, NEW places \in SUBSET (1 .. n)
  PROVE  \E at : \A s : IsPick(Picked(s, places), s, places, at)
PROOF
  <1> DEFINE Ord == {o \in places \X places : o[1] < o[2]}
             at == Listed(places, Ord)
             c == Cardinality(places)
  <1>1. IsFiniteSet(places)
    BY Places, FS_Subset
  <1>2. ASSUME NEW i \in places, NEW j \in places PROVE <<i, j>> \in Ord <=> i < j
    <2> DEFINE o == <<i, j>>
    <2>1. o \in places \X places /\ o[1] = i /\ o[2] = j
      OBVIOUS
    <2> HIDE DEF o
    <2>2. o \in Ord <=> o[1] < o[2]
      BY <2>1
    <2> QED BY <2>1, <2>2 DEF o
  <1>3. \A s : Picked(s, places) = [k \in DOMAIN at |-> s[at[k]]]
    BY DEF Picked
  <1> HIDE DEF Ord
  <1>4. IsOrder(Ord, places) /\ IsTotal(Ord, places)
    BY <1>2 DEF IsOrder, IsTotal
  <1>5. /\ c \in Nat /\ at = [k \in 1 .. c |-> at[k]]
        /\ \A k \in 1 .. c : at[k] \in places
        /\ \A i \in places : \E k \in 1 .. c : at[k] = i
        /\ \A k, l \in 1 .. c : k < l => <<at[l], at[k]>> \notin Ord
        /\ \A k, l \in 1 .. c : k < l => at[k] # at[l]
    BY <1>1, <1>4, ListedInOrder
  <1>6. \A k, l \in 1 .. c : k < l => at[k] < at[l]
    <2> TAKE k, l \in 1 .. c
    <2> HAVE k < l
    <2>1. at[k] \in places /\ at[l] \in places /\ at[k] # at[l] /\ ~(at[l] < at[k])
      BY <1>2, <1>5
    <2>2. at[k] \in Int /\ at[l] \in Int
      BY <2>1, Places
    <2> QED BY <2>1, <2>2
  <1> HIDE DEF at, c
  <1>7. ASSUME NEW s PROVE IsPick(Picked(s, places), s, places, at)
    <2> DEFINE t == Picked(s, places)
    <2>1. t = [k \in DOMAIN at |-> s[at[k]]]
      BY <1>3
    <2> HIDE DEF t
    <2>2. Len(t) = c /\ DOMAIN t = 1 .. c /\ \A k \in 1 .. c : t[k] = s[at[k]]
      BY <1>5, <2>1
    <2>3. Proper(t)
      BY <1>5, <2>1, <2>2 DEF Proper
    <2>4. IsPick(t, s, places, at)
      BY <1>5, <1>6, <2>2, <2>3 DEF IsPick, c
    <2> QED BY <2>4 DEF t
  <1> QED BY <1>7

-----------------------------------------------------------------------------
(* RunRows: the rows of a table are numbers under finitely many keys, a table *)
(* agrees with itself under the first factor, and pairs with no other one.    *)
Counted(t) == HasEntries(t) /\ \A i \in DOMAIN t.entries : t.entries[i].value \in Int
Whole(a) == IsFiniteSet(DOMAIN a.rows) /\ \A k \in DOMAIN a.rows : a.rows[k] \in Int /\ 10 <= a.rows[k]

LEMMA RowsAreWhole ==
  ASSUME NEW t, Counted(t)
  PROVE  Whole(T!RowsOf(t))
PROOF
  <1> DEFINE e == t.entries
             n == Len(e)
             good == {i \in {j \in DOMAIN e : e[j].label # 0} : e[i].value >= 10}
             Key(i) == <<e[i].label, e[i].column>>
             Is(i, k) == Key(i) = k /\ \A j \in good : Key(j) = k => i <= j
             First(k) == CHOOSE i \in good : Is(i, k)
             keys == {Key(i) : i \in good}
             f == [k \in keys |-> e[First(k)].value]
  <1>1. T!RowsOf(t).rows = f
    BY DEF T!RowsOf
  <1>2. n \in Nat /\ DOMAIN e = 1 .. n
    BY DEF Counted, HasEntries, IsList
  <1>3. good \in SUBSET (1 .. n) /\ good \in SUBSET Nat /\ \A i \in good : e[i].value \in Int /\ 10 <= e[i].value
    BY <1>2 DEF Counted
  <1>4. IsFiniteSet(good)
    BY <1>2, <1>3, Places, FS_Subset
  <1> HIDE DEF good, e, n, Key
  <1>5. IsFiniteSet(keys)
    <2> DEFINE g == [i \in good |-> Key(i)]
    <2>1. g \in Surjection(good, keys)
      BY DEF Surjection
    <2> HIDE DEF g, keys
    <2> QED BY <1>4, <2>1, FS_Surjection
  <1>6. ASSUME NEW k \in keys PROVE First(k) \in good
    <2> DEFINE U == {i \in good : Key(i) = k}
    <2>1. U \in SUBSET Nat /\ U # {}
      BY <1>3
    <2>2. PICK i \in U : \A j \in U : i <= j
      BY <2>1, LeastElement
    <2>3. i \in good /\ Is(i, k)
      BY <2>2
    <2> HIDE DEF Is
    <2> QED BY <2>3
  <1>7. DOMAIN f = keys /\ \A k \in keys : f[k] \in Int /\ 10 <= f[k]
    <2> HIDE DEF First
    <2> QED BY <1>3, <1>6
  <1> HIDE DEF f, keys
  <1> QED BY <1>1, <1>5, <1>7 DEF Whole

LEMMA OffIsFinite ==
  ASSUME NEW a, Whole(a), NEW h, NEW f
  PROVE  IsFiniteSet(T!Shared(a, h)) /\ IsFiniteSet(T!Off(a, h, f)) /\ T!Off(a, h, f) \subseteq T!Shared(a, h)
PROOF
  <1>1. T!Shared(a, h) \in SUBSET (DOMAIN a.rows) /\ T!Off(a, h, f) \in SUBSET (DOMAIN a.rows)
    BY DEF T!Shared, T!Off
  <1>2. IsFiniteSet(T!Shared(a, h)) /\ IsFiniteSet(T!Off(a, h, f))
    BY <1>1, FS_Subset DEF Whole
  <1> QED BY <1>2 DEF T!Off

LEMMA NothingIsOff ==
  ASSUME NEW a, Whole(a)
  PROVE  T!Off(a, a, <<1, 1>>) = {}
PROOF
  <1> SUFFICES ASSUME NEW k \in T!Off(a, a, <<1, 1>>) PROVE FALSE
    OBVIOUS
  <1> DEFINE v == a.rows[k]
             w == v * 1
  <1>1. k \in T!Shared(a, a) /\ T!Differs(T!Scaled(a, a, <<1, 1>>, k)[1], T!Scaled(a, a, <<1, 1>>, k)[2])
    BY DEF T!Off
  <1>2. v \in Int
    BY <1>1 DEF T!Shared, Whole
  <1>3. T!Scaled(a, a, <<1, 1>>, k)[1] = w /\ T!Scaled(a, a, <<1, 1>>, k)[2] = w
    BY DEF T!Scaled
  <1>4. w \in Int
    BY <1>2
  <1> HIDE DEF w, v
  <1>5. T!Within(w, w, 1, 1000)
    BY <1>4 DEF T!Within, T!Abs, T!Larger
  <1> QED BY <1>1, <1>3, <1>5 DEF T!Differs

(* The best factor is one of those tried, and no other has fewer rows off.    *)
HasFewestOff(a, h, tried, i, n) ==
  /\ T!FewestOff(a, h, tried) = tried[i]
  /\ \A j \in 1 .. n : Cardinality(T!Off(a, h, tried[i])) <= Cardinality(T!Off(a, h, tried[j]))

LEMMA BestHasFewestOff ==
  ASSUME NEW a, Whole(a), NEW h, NEW tried, NEW n \in Nat, DOMAIN tried = 1 .. n, n # 0
  PROVE  \E i \in 1 .. n : HasFewestOff(a, h, tried, i, n)
PROOF
  <1> DEFINE missed == [i \in DOMAIN tried |-> T!Cardinality(T!Off(a, h, tried[i]))]
             Is(i) == \A j \in DOMAIN tried : missed[i] < missed[j] \/ (missed[i] = missed[j] /\ i <= j)
             best == CHOOSE i \in DOMAIN tried : Is(i)
  <1>1. T!FewestOff(a, h, tried) = tried[best]
    BY DEF T!FewestOff
  <1>2. ASSUME NEW i \in 1 .. n
        PROVE  missed[i] = Cardinality(T!Off(a, h, tried[i])) /\ Cardinality(T!Off(a, h, tried[i])) \in Nat
    BY OffIsFinite, FS_CardinalityType, SameOperators
  <1> HIDE DEF missed
  <1>3. PICK i \in 1 .. n : Is(i)
    <2> DEFINE U == {missed[j] : j \in 1 .. n}
    <2>1. U \in SUBSET Nat /\ U # {}
      BY <1>2
    <2>2. PICK x \in U : \A y \in U : x <= y
      BY <2>1, LeastElement
    <2> DEFINE V == {j \in 1 .. n : missed[j] = x}
    <2>3. V \in SUBSET Nat /\ V # {}
      BY <2>2
    <2>4. PICK i \in V : \A j \in V : i <= j
      BY <2>3, LeastElement
    <2>5. ASSUME NEW j \in 1 .. n PROVE missed[i] < missed[j] \/ (missed[i] = missed[j] /\ i <= j)
      <3>1. missed[i] = x /\ missed[i] \in Nat /\ missed[j] \in Nat /\ missed[j] \in U
        BY <1>2, <2>4
      <3>2. x <= missed[j]
        BY <2>2, <3>1
      <3>3. missed[j] = x => i <= j
        BY <2>4
      <3> QED BY <3>1, <3>2, <3>3
    <2> QED BY <2>4, <2>5
  <1>4. best \in 1 .. n /\ Is(best)
    <2> HIDE DEF Is
    <2> QED BY <1>3
  <1> HIDE DEF best
  <1>5. ASSUME NEW j \in 1 .. n PROVE missed[best] <= missed[j]
    BY <1>2, <1>4
  <1>6. HasFewestOff(a, h, tried, best, n)
    BY <1>1, <1>2, <1>4, <1>5 DEF HasFewestOff
  <1> QED BY <1>4, <1>6

LEMMA SomeFactorIsBest ==
  ASSUME NEW a, Whole(a), NEW h
  PROVE  \E f : /\ T!BestFactor(a, h) = f
                /\ Cardinality(T!Off(a, h, f)) <= Cardinality(T!Off(a, h, <<1, 1>>))
                /\ Cardinality(T!Off(a, h, f)) <= Cardinality(T!Off(a, h, <<10, 1>>))
PROOF
  <1>1. PICK m : T!BestFactor(a, h) = T!FewestOff(a, h, Append(<<<<1, 1>>, <<10, 1>>>>, m))
    BY Zenon DEF T!BestFactor
  <1> DEFINE tried == Append(<<<<1, 1>>, <<10, 1>>>>, m)
  <1>2. DOMAIN tried = 1 .. 3 /\ tried[1] = <<1, 1>> /\ tried[2] = <<10, 1>>
    OBVIOUS
  <1> HIDE DEF tried
  <1>3. \E i \in 1 .. 3 : HasFewestOff(a, h, tried, i, 3)
    <2> DEFINE n == 3
    <2>1. n \in Nat /\ n # 0 /\ DOMAIN tried = 1 .. n
      BY <1>2
    <2> HIDE DEF n
    <2>2. \E i \in 1 .. n : HasFewestOff(a, h, tried, i, n)
      BY <2>1, BestHasFewestOff
    <2> QED BY <2>2 DEF n
  <1>4. 1 \in 1 .. 3 /\ 2 \in 1 .. 3
    OBVIOUS
  <1>5. PICK i \in 1 .. 3 : HasFewestOff(a, h, tried, i, 3)
    BY <1>3
  <1> QED BY <1>1, <1>2, <1>4, <1>5 DEF HasFewestOff, tried

LEMMA OwnVerdict ==
  ASSUME NEW a, Whole(a)
  PROVE  T!Verdict(a, a).off = {}
PROOF
  <1>1. PICK f : T!BestFactor(a, a) = f /\ Cardinality(T!Off(a, a, f)) <= Cardinality(T!Off(a, a, <<1, 1>>))
    BY SomeFactorIsBest
  <1> DEFINE off == T!Off(a, a, f)
  <1>2. Cardinality(T!Off(a, a, <<1, 1>>)) = 0
    BY NothingIsOff, FS_EmptySet
  <1>3. IsFiniteSet(off) /\ Cardinality(off) \in Nat
    BY OffIsFinite, FS_CardinalityType
  <1>4. off = {}
    <2> HIDE DEF off
    <2>1. Cardinality(off) = 0
      BY <1>1, <1>2, <1>3 DEF off
    <2> QED BY <1>3, <2>1, FS_EmptySet
  <1>5. T!Verdict(a, a) = T!Judged(a, a, {})
    BY <1>1, <1>4 DEF T!Verdict
  <1> QED BY <1>5, NothingIsOff DEF T!Judged, T!One

LEMMA TellingNothing ==
  ASSUME NEW a, NEW h, NEW p, NEW x
  PROVE  T!FirstFew(<<>> \o T!Telling(a, h, p, T!InPlace({}), x), 3) = <<>>
PROOF
  <1> DEFINE keys == T!InPlace({})
             told == T!Telling(a, h, p, keys, x)
  <1>1. keys = Listed({}, {o \in {} \X {} : InListOrder(o[1], o[2])})
    BY SameListings, Zenon DEF InPlace
  <1>2. Proper(keys) /\ Len(keys) = 0
    BY <1>1, ListedIsProper, FS_EmptySet
  <1>3. DOMAIN keys = {}
    BY <1>2 DEF Proper
  <1> HIDE DEF keys
  <1>4. told = <<>>
    BY <1>3 DEF T!Telling
  <1> HIDE DEF told
  <1>5. <<>> \o <<>> = <<>> /\ Len(<<>>) = 0 /\ SubSeq(<<>>, 1, 0) = <<>>
    OBVIOUS
  <1>6. T!FirstFew(<<>>, 3) = <<>>
    BY <1>5 DEF T!FirstFew
  <1> QED BY <1>4, <1>5, <1>6 DEF told, keys

LEMMA OwnTwinsTellNothing ==
  ASSUME NEW s, IsList(s), \A i \in 1 .. Len(s) : Whole(s[i]) /\ IsFiniteSet(s[i].labels), NEW up,
         \A i, j \in 1 .. Len(s) : i # j => ~T!Verdict(s[i], s[j]).pairs
  PROVE  T!TwinTables(s, s, up).told = <<>>
PROOF
  <1> DEFINE n == Len(s)
  <1>1. n \in Nat /\ DOMAIN s = 1 .. n
    BY DEF IsList
  <1>2. PICK g : /\ g[0] = T!NoTables
                 /\ \A k \in 1 .. n : g[k] = T!Turn(s, s, up, g[k - 1], k)
                 /\ T!TwinTables(s, s, up) = g[n]
    BY <1>1, TwinsFollow
  <1> DEFINE S == {k \in Nat : k <= n => g[k].told = <<>>}
  <1> HIDE DEF n
  <1>3. 0 \in S
    BY <1>2 DEF T!NoTables
  <1>4. ASSUME NEW k \in Nat, k \in S PROVE k + 1 \in S
    <2> SUFFICES ASSUME k + 1 <= n PROVE g[k + 1].told = <<>>
      OBVIOUS
    <2> DEFINE acc == g[k]
               i == k + 1
               new == g[k + 1]
               a == s[i]
               fit == T!Fitting(a, s, acc.used)
               j == T!Likest(a, s, fit, up)
    <2>1. i \in 1 .. n /\ i - 1 = k /\ k <= n
      BY <1>1
    <2>2. acc.told = <<>> /\ new = T!Turn(s, s, up, acc, i) /\ Whole(a) /\ IsFiniteSet(a.labels)
      BY <1>2, <1>4, <2>1 DEF n
    <2>3. fit \in SUBSET (1 .. Len(s)) /\ \A x \in fit : T!Verdict(a, s[x]).pairs
      BY <1>1 DEF T!Fitting, n
    <2> HIDE DEF acc, new
    <2>4. new = acc \/ (fit # {} /\ new = T!JoinLikest(acc, i, a, s, j))
      BY <2>2 DEF T!Turn, T!TakeTable
    <2> HIDE DEF fit
    <2>5. LabelsAreFew(s)
      BY <1>1 DEF LabelsAreFew, n
    <2>6. fit # {} => j \in fit
      BY <2>2, <2>3, <2>5, LikestIsOneOfThem
    <2> HIDE DEF j
    <2>7. CASE new = acc
      BY <2>2, <2>7 DEF new
    <2>8. CASE fit # {} /\ new = T!JoinLikest(acc, i, a, s, j)
      <3>1. j = i
        BY <2>1, <2>3, <2>6, <2>8 DEF n
      <3> DEFINE v == T!Verdict(a, a)
      <3>2. v.off = {}
        BY <2>2, OwnVerdict
      <3>3. new = T!JoinTables(acc, i, i, a, a, v)
        BY <2>8, <3>1 DEF T!JoinLikest
      <3> HIDE DEF v, a
      <3>4. new.told = T!FirstFew(<<>> \o T!Telling(a, a, v.permuted, T!InPlace({}), <<i, i>>), 3)
        BY <2>2, <3>2, <3>3 DEF T!JoinTables
      <3> QED BY <3>4, TellingNothing DEF new
    <2> QED BY <2>4, <2>7, <2>8
  <1> HIDE DEF S
  <1>5. n \in S
    BY <1>1, <1>3, <1>4, EveryNumber
  <1> QED BY <1>1, <1>2, <1>5 DEF S

(* The tables that have rows, each once.                                      *)
LEMMA RowedTables ==
  ASSUME NEW s, IsList(s), \A i \in 1 .. Len(s) : Counted(s[i])
  PROVE  LET t == T!Rowed(s)
         IN  /\ IsList(t)
             /\ \E at : \A k \in 1 .. Len(t) : at[k] \in 1 .. Len(s) /\ t[k] = T!RowsOf(s[at[k]])
                                               /\ \A l \in 1 .. Len(t) : k # l => at[k] # at[l]
PROOF
  <1> DEFINE all == [i \in DOMAIN s |-> T!RowsOf(s[i])]
             places == {i \in DOMAIN all : all[i].rows # <<>>}
             n == Len(s)
             t == Picked(all, places)
  <1>1. n \in Nat /\ DOMAIN s = 1 .. n
    BY DEF IsList
  <1>2. T!Rowed(s) = t
    BY SameOperators DEF T!Rowed
  <1>3. places \in SUBSET (1 .. n) /\ \A i \in 1 .. n : all[i] = T!RowsOf(s[i])
    BY <1>1
  <1> HIDE DEF all, places, n
  <1>4. PICK at : IsPick(t, all, places, at)
    BY <1>1, <1>3, PickedInPlace
  <1> HIDE DEF t
  <1>5. IsList(t)
    BY <1>4, ProperIsAList DEF IsPick
  <1>6. \A k \in 1 .. Len(t) : at[k] \in 1 .. n /\ t[k] = T!RowsOf(s[at[k]])
    BY <1>3, <1>4 DEF IsPick
  <1>7. ASSUME NEW k \in 1 .. Len(t), NEW l \in 1 .. Len(t), k # l PROVE at[k] # at[l]
    <2>1. k < l \/ l < k
      BY <1>5, <1>7 DEF IsList
    <2>2. at[k] < at[l] \/ at[l] < at[k]
      BY <1>4, <2>1 DEF IsPick
    <2>3. at[k] \in Int /\ at[l] \in Int
      BY <1>1, <1>6, Places
    <2> QED BY <2>2, <2>3
  <1> QED BY <1>2, <1>5, <1>6, <1>7 DEF n

LEMMA RowsAreClean ==
  ASSUME RunRows
  PROVE  RowSameIsClean'
PROOF
  <1> SUFFICES ASSUME input'.as = input'.hs, ~Alike(input'.as) PROVE found'.told = <<>>
    BY DEF RowSameIsClean
  <1>1. PICK as, up, edit, t, at : as \in TableSides /\ input' = [as |-> as, hs |-> [as EXCEPT ![t] = Edited(as[t], edit, at)],
                           edit |-> edit, table |-> t, at |-> at, up |-> up]
    BY Zenon DEF RunRows
  <1> DEFINE hs == [as EXCEPT ![t] = Edited(as[t], edit, at)]
  <1> HIDE DEF hs
  <1>2. input'.as = as /\ input'.up = up
    BY <1>1 DEF hs
  <1>3. found' = T!TwinTables(T!Rowed(as), T!Rowed(as), up)
    <2>1. found' = T!RowTwins(input'.as, input'.hs, input'.up)
      BY DEF RunRows
    <2> QED BY <1>2, <2>1 DEF T!RowTwins
  <1>4. IsList(as) /\ \A i \in 1 .. Len(as) : Counted(as[i])
    <2>1. IsList(as) /\ \A i \in DOMAIN as : /\ "entries" \in DOMAIN as[i] /\ IsList(as[i].entries)
                                             /\ \A j \in DOMAIN as[i].entries : as[i].entries[j].value \in Int
      BY <1>1, RowsAssumption, Zenon DEF RowsAssumption, IsEntry
    <2> QED BY <2>1 DEF HasEntries, IsList, Counted
  <1> DEFINE s == T!Rowed(as)
  <1>5. IsList(s)
    BY <1>4, RowedTables
  <1>6. PICK of : \A k \in 1 .. Len(s) : of[k] \in 1 .. Len(as) /\ s[k] = T!RowsOf(as[of[k]])
                                         /\ \A l \in 1 .. Len(s) : k # l => of[k] # of[l]
    BY <1>4, RowedTables
  <1> HIDE DEF s
  <1>7. \A i \in 1 .. Len(s) : Whole(s[i]) /\ IsFiniteSet(s[i].labels)
    BY <1>4, <1>6, RowsAreWhole, LabelsOfRows DEF Counted
  <1>8. \A i, j \in 1 .. Len(s) : i # j => ~T!Verdict(s[i], s[j]).pairs
    <2>1. ASSUME NEW x \in 1 .. Len(as), NEW y \in 1 .. Len(as), x # y
          PROVE  ~T!Verdict(T!RowsOf(as[x]), T!RowsOf(as[y])).pairs
      BY <1>2, <1>4, <2>1 DEF Alike, IsList
    <2> QED BY <1>6, <2>1
  <1> QED BY <1>3, <1>5, <1>7, <1>8, OwnTwinsTellNothing DEF s

-----------------------------------------------------------------------------
(* RunPositions: the words of a page, and which of them are paired.           *)
IsWord(w) == /\ {"text", "x", "y", "order"} \subseteq DOMAIN w /\ IsList(w.text)
             /\ w.x \in Int /\ w.y \in Int /\ w.order \in Int
HasPlaces(s) == Proper(s) /\ \A i \in 1 .. Len(s) : IsWord(s[i])

LEMMA NumbersOfAPage ==
  ASSUME NEW s, HasPlaces(s)
  PROVE  \E at : /\ HasPlaces(T!Numeric(s))
                 /\ IsPick(T!Numeric(s), s, {i \in DOMAIN s : Len(s[i].text) >= 4 /\ ~T!IsYear(s[i].text)}, at)
PROOF
  <1> DEFINE places == {i \in DOMAIN s : Len(s[i].text) >= 4 /\ ~T!IsYear(s[i].text)}
             n == Len(s)
             t == Picked(s, places)
  <1>1. n \in Nat /\ DOMAIN s = 1 .. n
    BY DEF HasPlaces, Proper
  <1>2. T!Numeric(s) = t
    BY SameListings, Zenon DEF T!Numeric
  <1>3. places \in SUBSET (1 .. n)
    BY <1>1
  <1> HIDE DEF places
  <1>4. PICK at : IsPick(t, s, places, at)
    BY <1>1, <1>3, PickedInPlace DEF n
  <1> HIDE DEF t, n
  <1>5. HasPlaces(t)
    BY <1>1, <1>3, <1>4 DEF HasPlaces, IsPick, n
  <1> QED BY <1>2, <1>4, <1>5 DEF places

(* The pairs of _pair_words, as a set and as a list.                          *)
Nearby(as, hs) == {p \in (DOMAIN as) \X (DOMAIN hs) : T!Near(as[p[1]], hs[p[2]])}
Nearness(as, hs) ==
  [p \in Nearby(as, hs) |-> <<- T!Abs(as[p[1]].x - hs[p[2]].x) - T!Abs(as[p[1]].y - hs[p[2]].y)>>]

LEMMA NearbyIsRanked ==
  ASSUME NEW as, HasPlaces(as), NEW hs, HasPlaces(hs)
  PROVE  /\ Nearby(as, hs) \in SUBSET (Int \X Int) /\ IsFiniteSet(Nearby(as, hs))
         /\ \A p \in Nearby(as, hs) : Nearness(as, hs)[p] \in Ints(1)
         /\ T!Placed(as, hs) = LET r == Ranked(Nearby(as, hs), Nearness(as, hs))
                               IN Picked(r, {k \in DOMAIN r : r[k] \in Greedy(r)})
PROOF
  <1> DEFINE m == Len(as)
             n == Len(hs)
  <1>1. m \in Nat /\ DOMAIN as = 1 .. m /\ n \in Nat /\ DOMAIN hs = 1 .. n
    BY DEF HasPlaces, Proper
  <1>2. Nearby(as, hs) \in SUBSET ((1 .. m) \X (1 .. n))
    BY <1>1 DEF Nearby
  <1> HIDE DEF m, n
  <1>3. IsFiniteSet((1 .. m) \X (1 .. n)) /\ (1 .. m) \X (1 .. n) \subseteq Int \X Int
    BY <1>1, PairsOfPlaces
  <1>4. Nearby(as, hs) \in SUBSET (Int \X Int) /\ IsFiniteSet(Nearby(as, hs))
    <2> DEFINE U == (1 .. m) \X (1 .. n)
    <2> HIDE DEF U
    <2> QED BY <1>2, <1>3, FS_Subset DEF U
  <1>5. ASSUME NEW p \in Nearby(as, hs) PROVE Nearness(as, hs)[p] \in Ints(1)
    <2> DEFINE v == as[p[1]]
               w == hs[p[2]]
               d == - T!Abs(v.x - w.x) - T!Abs(v.y - w.y)
    <2>1. p[1] \in 1 .. m /\ p[2] \in 1 .. n
      BY <1>1 DEF Nearby
    <2>2. v.x \in Int /\ v.y \in Int /\ w.x \in Int /\ w.y \in Int
      BY <2>1 DEF HasPlaces, IsWord, m, n
    <2>3. Nearness(as, hs)[p] = <<d>>
      BY DEF Nearness
    <2> HIDE DEF v, w
    <2>4. d \in Int
      BY <2>2 DEF T!Abs
    <2> HIDE DEF d
    <2> QED BY <2>3, <2>4 DEF Ints
  <1>6. T!Placed(as, hs) = LET r == T!Ranked(Nearby(as, hs), Nearness(as, hs))
                           IN T!Picked(r, {k \in DOMAIN r : r[k] \in T!Greedy(r)})
    BY DEF T!Placed, Nearby, Nearness
  <1>7. \A s : T!Greedy(s) = Greedy(s)
    BY DEF T!Greedy, Greedy, T!Take, Take, T!Meets, Meets
  <1> QED BY <1>4, <1>5, <1>6, <1>7, SameListings, Zenon

LEMMA PlacedAreNearby ==
  ASSUME NEW as, HasPlaces(as), NEW hs, HasPlaces(hs)
  PROVE  /\ IsList(T!Placed(as, hs))
         /\ \A k \in 1 .. Len(T!Placed(as, hs)) : T!Placed(as, hs)[k] \in Nearby(as, hs)
PROOF
  <1> DEFINE near == Nearby(as, hs)
             rank == Nearness(as, hs)
             r == Ranked(near, rank)
             n == Len(r)
             places == {k \in DOMAIN r : r[k] \in Greedy(r)}
             t == T!Placed(as, hs)
  <1>1. near \in SUBSET (Int \X Int) /\ IsFiniteSet(near) /\ (\A p \in near : rank[p] \in Ints(1)) /\ t = Picked(r, places)
    BY NearbyIsRanked, Zenon
  <1> HIDE DEF near, rank, t
  <1>2. n \in Nat /\ DOMAIN r = 1 .. n /\ \A k \in 1 .. n : r[k] \in near
    BY <1>1, RankedInOrder
  <1> HIDE DEF r
  <1>3. places \in SUBSET (1 .. n)
    BY <1>2
  <1> HIDE DEF places, n
  <1>4. IsList(t) /\ \A k \in 1 .. Len(t) : \E i \in places : t[k] = r[i]
    BY <1>1, <1>2, <1>3, PickedIsAList
  <1>5. \A i \in places : r[i] \in near
    BY <1>2, <1>3
  <1> QED BY <1>4, <1>5 DEF t, near

(* No pair of a page is a conflict: nothing is told of it.                    *)
InConflict(as, hs, p) == as[p[1]].text # hs[p[2]].text /\ ~T!Shadowed(as, p[1], hs[p[2]])

LEMMA NoConflictsAreTold ==
  ASSUME NEW a, HasPlaces(a), NEW h, HasPlaces(h),
         \A p \in Nearby(T!Numeric(a), T!Numeric(h)) : ~InConflict(T!Numeric(a), T!Numeric(h), p)
  PROVE  T!PositionTwins(<<a>>, <<h>>) = <<>>
PROOF
  <1> DEFINE as == T!Numeric(a)
             hs == T!Numeric(h)
             pairs == T!Placed(as, hs)
             places == {k \in DOMAIN pairs : InConflict(as, hs, pairs[k])}
             conflicts == T!Picked(pairs, places)
             merged == T!Merge(as, hs, conflicts)
  <1>1. HasPlaces(as) /\ HasPlaces(hs)
    BY NumbersOfAPage
  <1>2. T!PageTwins(a, h) = IF Len(pairs) < 4 \/ 10 * Len(pairs) < 9 * T!Larger(Len(as), Len(hs)) \/ Len(merged) > 2 THEN <<>>
                            ELSE [n \in DOMAIN merged |-> <<as[merged[n][1]].text, hs[merged[n][2]].text>>]
    BY DEF T!PageTwins, InConflict
  <1> HIDE DEF as, hs
  <1>3. IsList(pairs) /\ \A k \in 1 .. Len(pairs) : pairs[k] \in Nearby(as, hs)
    BY <1>1, PlacedAreNearby
  <1> HIDE DEF pairs
  <1>4. places = {}
    BY <1>3 DEF IsList, as, hs
  <1>5. conflicts = Picked(pairs, {})
    BY <1>4, SameListings, Zenon
  <1>6. Proper(Picked(pairs, {})) /\ Len(Picked(pairs, {})) = Cardinality({})
    BY PickedIsProper, PickedIsAList, 0 \in Nat, {} \in SUBSET (1 .. 0), Zenon
  <1>7. Len(conflicts) = 0
    BY <1>5, <1>6, FS_EmptySet
  <1>8. conflicts = <<>>
    BY <1>5, <1>6, <1>7 DEF Proper
  <1> HIDE DEF conflicts
  <1> DEFINE Is(g) == g = [i \in 0 .. Len(conflicts) |-> IF i = 0 THEN {} ELSE T!Consumed(as, hs, conflicts, g[i - 1], i)]
             gone == CHOOSE g : Is(g)
             left == DOMAIN conflicts \ gone[Len(conflicts)]
  <1>9. merged = T!Picked(conflicts, left)
    BY DEF T!Merge
  <1>10. left = {}
    BY <1>8
  <1> HIDE DEF left, merged
  <1>11. merged = Picked(conflicts, {})
    BY <1>9, <1>10, SameListings, Zenon
  <1>12. Proper(merged) /\ Len(merged) = 0
    BY <1>11, PickedIsProper, PickedIsAList, FS_EmptySet, 0 \in Nat, {} \in SUBSET (1 .. 0), Zenon
  <1>13. T!PageTwins(a, h) = <<>>
    <2>1. DOMAIN merged = {}
      BY <1>12 DEF Proper
    <2> QED BY <1>2, <2>1
  <1>14. IsList(a) /\ IsList(h)
    BY ProperIsAList DEF HasPlaces
  <1>15. T!PositionTwins(<<a>>, <<h>>) = SubSeq(<<>>, 1, Len(<<>>))
    BY <1>13, <1>14, TwinsOfOnePage
  <1> QED BY <1>15

LEMMA PagesHavePlaces ==
  ASSUME NEW s \in Pages
  PROVE  HasPlaces(s)
PROOF
  <1>1. IsList(s) /\ s = [i \in DOMAIN s |-> s[i]] /\ \A i \in DOMAIN s :
          /\ {"text", "x", "y", "order"} \subseteq DOMAIN s[i] /\ IsList(s[i].text)
          /\ s[i].x \in Int /\ s[i].y \in Int /\ s[i].order \in 0 .. 999
    BY PagesAssumption, Zenon DEF PagesAssumption
  <1>2. Proper(s)
    BY <1>1 DEF IsList, Proper
  <1>3. ASSUME NEW i \in 1 .. Len(s) PROVE IsWord(s[i])
    <2> DEFINE w == s[i]
    <2>1. {"text", "x", "y", "order"} \subseteq DOMAIN w /\ IsList(w.text) /\ w.x \in Int /\ w.y \in Int /\ w.order \in 0 .. 999
      BY <1>1 DEF IsList
    <2> HIDE DEF w
    <2>2. w.order \in Int
      <3> DEFINE o == w.order
      <3>1. o \in 0 .. 999
        BY <2>1
      <3> HIDE DEF o
      <3>2. o \in Int
        BY <3>1
      <3> QED BY <3>2 DEF o
    <2>3. IsWord(w)
      BY <2>1, <2>2, Zenon DEF IsWord
    <2> QED BY <2>3 DEF w
  <1> QED BY <1>2, <1>3 DEF HasPlaces

(* A word that differs from its partner is beside its own copy.               *)
LEMMA PlaceIsClean ==
  ASSUME RunPositions
  PROVE  PlaceSameIsClean'
PROOF
  <1> SUFFICES ASSUME input'.edit = "none" PROVE found'.told = <<>>
    BY DEF PlaceSameIsClean
  <1> DEFINE A(page, edit, at, to) == IF edit = "overlaid" THEN Covered(page, at, to) ELSE page
             H(page, edit, at, to) == CASE edit = "retyped" -> Retyped(page, at, to)
                                        [] edit = "exchanged" -> Exchanged(page, at, (at % Len(page)) + 1)
                                        [] OTHER -> page
  <1>1. PICK page, edit, to, at :
          /\ page \in Pages
          /\ input' = [a |-> A(page, edit, at, to), at |-> at, to |-> to, edit |-> edit, h |-> H(page, edit, at, to)]
    BY Zenon DEF RunPositions
  <1>2. found'.told = T!PositionTwins(<<input'.a>>, <<input'.h>>)
    BY DEF RunPositions
  <1>3. edit = "none" /\ input'.a = A(page, edit, at, to) /\ input'.h = H(page, edit, at, to)
    <2> HIDE DEF A, H
    <2> QED BY <1>1
  <1>4. input'.a = page /\ input'.h = page
    BY <1>3
  <1>5. HasPlaces(page)
    BY <1>1, PagesHavePlaces
  <1> DEFINE as == T!Numeric(page)
  <1>6. HasPlaces(as)
    BY <1>5, NumbersOfAPage
  <1> HIDE DEF as
  <1>7. ASSUME NEW p \in Nearby(as, as) PROVE ~InConflict(as, as, p)
    <2>1. p[1] \in DOMAIN as /\ p[2] \in DOMAIN as /\ T!Near(as[p[1]], as[p[2]])
      BY DEF Nearby
    <2>2. p[1] = p[2] => as[p[1]].text = as[p[2]].text
      OBVIOUS
    <2> QED BY <2>1, <2>2 DEF InConflict, T!Shadowed
  <1> QED BY <1>2, <1>4, <1>5, <1>7, NoConflictsAreTold DEF as

-----------------------------------------------------------------------------
(* A list laid beside an equal one: if no candidate is better than the two    *)
(* places of it with themselves, all that have a candidate find themselves.   *)
Own(i) == <<i, i>>
OwnComeFirst(pairs, rank) ==
  \A p \in pairs : \A i \in {p[1], p[2]} : Own(i) \in pairs /\ ~Above(rank[p], rank[Own(i)])
OnlyOwn(pairs, m) == (\A p \in m : p[1] = p[2]) /\ (\A p \in pairs : Own(p[1]) \in m /\ Own(p[2]) \in m)

LEMMA BeforeIsAnOrder ==
  ASSUME NEW n \in Nat, NEW pairs \in SUBSET (Int \X Int), NEW rank,
         \A p \in pairs : rank[p] \in Ints(n)
  PROVE  \A p, q, r \in pairs :
           /\ ~Before(rank, p, p)
           /\ Before(rank, p, q) /\ Before(rank, q, r) => Before(rank, p, r)
           /\ p = q \/ Before(rank, p, q) \/ Before(rank, q, p)
PROOF
  <1> SUFFICES ASSUME NEW p \in pairs, NEW q \in pairs, NEW r \in pairs
               PROVE  /\ ~Before(rank, p, p)
                      /\ Before(rank, p, q) /\ Before(rank, q, r) => Before(rank, p, r)
                      /\ p = q \/ Before(rank, p, q) \/ Before(rank, q, p)
    OBVIOUS
  <1>1. p \in Int \X Int /\ q \in Int \X Int /\ r \in Int \X Int
    OBVIOUS
  <1>2. rank[p] \in Ints(n) /\ rank[q] \in Ints(n) /\ rank[r] \in Ints(n)
    OBVIOUS
  <1>3. /\ ~InListOrder(p, p)
        /\ InListOrder(p, q) /\ InListOrder(q, r) => InListOrder(p, r)
        /\ p = q \/ InListOrder(p, q) \/ InListOrder(q, p)
    BY <1>1, PositionsCompare, Zenon
  <1> DEFINE a == rank[p]
             b == rank[q]
             c == rank[r]
  <1> HIDE DEF a, b, c
  <1>4. /\ Above(a, b) /\ Above(b, c) => Above(a, c)
        /\ a = b \/ Above(a, b) \/ Above(b, a)
    BY <1>2, RanksCompare, Zenon DEF a, b, c
  <1>5. ~Above(a, a)
    BY <1>2, RanksCompare, Zenon DEF a
  <1> QED BY <1>3, <1>4, <1>5, Zenon DEF Before, a, b, c

LEMMA OwnAreTaken ==
  ASSUME NEW n \in Nat, NEW pairs \in SUBSET (Int \X Int), IsFiniteSet(pairs), NEW rank,
         \A p \in pairs : rank[p] \in Ints(n), OwnComeFirst(pairs, rank)
  PROVE  OnlyOwn(pairs, Greedy(Ranked(pairs, rank)))
PROOF
  <1> DEFINE m == Greedy(Ranked(pairs, rank))
             off == {p \in m : p[1] # p[2]}
             Ord == {o \in off \X off : Before(rank, o[1], o[2])}
  <1>1. m \subseteq pairs /\ OneToOne(m)
    BY GreedyIsFair, Zenon
  <1>2. \A p \in pairs \ m : \E q \in m : Meets(p, q) /\ Before(rank, q, p)
    BY GreedyGoesInOrder, Zenon
  <1>3. \A p, q, r \in pairs :
           /\ ~Before(rank, p, p)
           /\ Before(rank, p, q) /\ Before(rank, q, r) => Before(rank, p, r)
           /\ p = q \/ Before(rank, p, q) \/ Before(rank, q, p)
    BY BeforeIsAnOrder, Zenon
  <1> HIDE DEF m
  <1>4. ASSUME NEW p \in pairs, NEW i \in {p[1], p[2]}, p[1] # p[2], p[1] < p[2] => i = p[1], p[2] < p[1] => i = p[2]
        PROVE  Own(i) \in pairs /\ Before(rank, Own(i), p)
    <2>1. Own(i) \in pairs /\ ~Above(rank[p], rank[Own(i)])
      BY DEF OwnComeFirst
    <2>2. p[1] \in Int /\ p[2] \in Int /\ Own(i)[1] = i /\ Own(i)[2] = i
      BY DEF Own
    <2>3. p[1] < p[2] \/ p[2] < p[1]
      BY <1>4, <2>2
    <2>4. ~InListOrder(p, Own(i)) /\ p # Own(i)
      BY <1>4, <2>2, <2>3 DEF InListOrder
    <2>5. ~Before(rank, p, Own(i))
      BY <2>1, <2>4 DEF Before
    <2> QED BY <1>3, <2>1, <2>4, <2>5
  <1>5. off = {}
    <2> SUFFICES ASSUME off # {} PROVE FALSE
      OBVIOUS
    <2>1. off \subseteq pairs /\ IsFiniteSet(off)
      <3>1. off \in SUBSET pairs
        BY <1>1
      <3> HIDE DEF off
      <3> QED BY <3>1, FS_Subset
    <2>2. \A x, y \in off : <<x, y>> \in Ord <=> Before(rank, x, y)
      <3> TAKE x, y \in off
      <3> DEFINE o == <<x, y>>
      <3>1. o \in off \X off /\ o[1] = x /\ o[2] = y
        OBVIOUS
      <3> HIDE DEF o, off
      <3> QED BY <3>1 DEF o
    <2> HIDE DEF Ord
    <2>3. IsOrder(Ord, off)
      BY <1>3, <2>1, <2>2 DEF IsOrder
    <2>4. PICK p \in off : \A q \in off : <<q, p>> \notin Ord
      BY <2>1, <2>3, SomeoneIsFirst
    <2>5. p \in m /\ p[1] # p[2] /\ p \in pairs
      BY <1>1, <2>4
    <2>6. \E i \in {p[1], p[2]} : Own(i) \in pairs /\ Before(rank, Own(i), p)
      <3>1. p[1] \in Int /\ p[2] \in Int
        BY <2>5
      <3>2. p[1] < p[2] \/ p[2] < p[1]
        BY <2>5, <3>1
      <3> QED BY <1>4, <2>5, <3>1, <3>2
    <2>7. PICK i \in {p[1], p[2]} : Own(i) \in pairs /\ Before(rank, Own(i), p)
      BY <2>6
    <2>8. Own(i)[1] = i /\ Own(i)[2] = i
      BY DEF Own
    <2>9. Own(i) \notin m
      <3>1. Meets(p, Own(i)) /\ p # Own(i)
        BY <2>5, <2>8 DEF Meets
      <3> QED BY <1>1, <2>5, <3>1 DEF OneToOne
    <2>10. PICK q \in m : Meets(Own(i), q) /\ Before(rank, q, Own(i))
      BY <1>2, <2>7, <2>9
    <2>11. Before(rank, q, p) /\ q \in pairs
      BY <1>1, <1>3, <2>5, <2>7, <2>10
    <2>12. q[1] = q[2] => q = Own(i)
      <3>1. q \in Int \X Int
        BY <2>11
      <3> QED BY <2>8, <2>10, <3>1 DEF Meets, Own
    <2>13. q \in off
      BY <2>9, <2>10, <2>12
    <2> QED BY <2>2, <2>4, <2>11, <2>13
  <1>6. ASSUME NEW p \in pairs, NEW i \in {p[1], p[2]} PROVE Own(i) \in m
    <2> SUFFICES ASSUME Own(i) \notin m PROVE FALSE
      OBVIOUS
    <2>1. Own(i) \in pairs
      BY DEF OwnComeFirst
    <2>2. PICK q \in m : Meets(Own(i), q)
      BY <1>2, <2>1
    <2>3. q[1] = q[2] /\ q \in Int \X Int
      BY <1>1, <1>5, <2>2
    <2>4. q = Own(i)
      BY <2>2, <2>3 DEF Meets, Own
    <2> QED BY <2>2, <2>4
  <1>7. OnlyOwn(pairs, m)
    BY <1>5, <1>6 DEF OnlyOwn
  <1> QED BY <1>7 DEF m

LEMMA CommonWithOther ==
  ASSUME NEW X, NEW Y, IsFiniteSet(X), IsFiniteSet(Y)
  PROVE  /\ P!Common(X, Y) \in Nat /\ P!Common(X, X) \in Nat
         /\ P!Common(X, Y) <= P!Common(X, X) /\ P!Common(X, Y) <= P!Common(Y, Y)
         /\ X # {} => P!Common(X, X) >= 1
PROOF
  <1> DEFINE Z == X \intersect Y
  <1>1. Z \subseteq X /\ Z \subseteq Y /\ X \intersect X = X /\ Y \intersect Y = Y
    OBVIOUS
  <1>2. P!Common(X, Y) = Cardinality(Z) /\ P!Common(X, X) = Cardinality(X) /\ P!Common(Y, Y) = Cardinality(Y)
    BY <1>1, SameOperators DEF P!Common
  <1> HIDE DEF Z
  <1>3. Cardinality(Z) <= Cardinality(X) /\ Cardinality(Z) <= Cardinality(Y)
    BY <1>1, FS_Subset
  <1>4. IsFiniteSet(Z)
    BY <1>1, FS_Subset
  <1>5. Cardinality(X) \in Nat /\ Cardinality(Z) \in Nat /\ (X # {} => Cardinality(X) # 0)
    BY <1>4, FS_CardinalityType, FS_EmptySet
  <1> QED BY <1>2, <1>3, <1>5

(* Tables beside the same tables.                                             *)
HasRows(t) ==
  t.page \in Int /\ IsFiniteSet(t.keys) /\ IsList(t.rows) /\ \A r \in DOMAIN t.rows : IsRow(t.rows[r])

LEMMA OwnTableScore ==
  ASSUME NEW z, HasRows(z), NEW e, HasRows(e)
  PROVE  /\ P!TableScore(z, e) \in Int /\ P!TableScore(z, z) \in Int
         /\ P!TableScore(z, e) <= P!TableScore(z, z) /\ P!TableScore(z, e) <= P!TableScore(e, e)
         /\ z.title # {} => P!TableScore(z, z) >= 6
         /\ P!TableScore(z, z) >= 6 => P!TitleScore(z, z) = 5
PROOF
  <1> DEFINE near(a, b) == IF P!Abs(a.page - b.page) <= 2 THEN 1 ELSE 0
             keys(a, b) == P!Common(a.keys, b.keys)
             few(k) == IF k >= 2 THEN 4 ELSE 2 * k
  <1>1. \A a, b : P!TableScore(a, b) = P!TitleScore(a, b) + few(keys(a, b)) + near(a, b)
    BY DEF P!TableScore
  <1>2. \A a, b : P!TitleScore(a, b) = IF a.title \intersect b.title # {} THEN 5 ELSE 0
    BY DEF P!TitleScore
  <1>3. /\ P!TitleScore(z, e) <= P!TitleScore(z, z) /\ P!TitleScore(z, e) <= P!TitleScore(e, e)
        /\ P!TitleScore(z, e) \in Int /\ P!TitleScore(z, z) \in {0, 5} /\ P!TitleScore(e, e) \in {0, 5}
        /\ z.title # {} => P!TitleScore(z, z) = 5
    BY <1>2
  <1>4. keys(z, e) \in Nat /\ keys(z, z) \in Nat /\ keys(e, e) \in Nat /\ keys(z, e) <= keys(z, z) /\ keys(z, e) <= keys(e, e)
    BY CommonWithOther DEF HasRows
  <1>5. near(z, z) = 1 /\ near(e, e) = 1 /\ near(z, e) \in {0, 1}
    BY DEF HasRows, P!Abs
  <1> DEFINE a == P!TitleScore(z, e)
             b == P!TitleScore(z, z)
             c == P!TitleScore(e, e)
             j == keys(z, e)
             k == keys(z, z)
             l == keys(e, e)
             x == near(z, e)
  <1>6. /\ P!TableScore(z, e) = a + few(j) + x /\ P!TableScore(z, z) = b + few(k) + 1 /\ P!TableScore(e, e) = c + few(l) + 1
    BY <1>1, <1>5
  <1>7. /\ a <= b /\ a <= c /\ a \in Int /\ b \in {0, 5} /\ c \in {0, 5} /\ (z.title # {} => b = 5)
        /\ j \in Nat /\ k \in Nat /\ l \in Nat /\ j <= k /\ j <= l /\ x \in {0, 1}
    BY <1>3, <1>4, <1>5
  <1> HIDE DEF a, b, c, j, k, l, x
  <1>8. few(j) \in 0 .. 4 /\ few(k) \in 0 .. 4 /\ few(l) \in 0 .. 4 /\ few(j) <= few(k) /\ few(j) <= few(l)
    BY <1>7
  <1> HIDE DEF few
  <1> QED BY <1>6, <1>7, <1>8 DEF b

LEMMA OwnPageIsNear ==
  ASSUME NEW z, z.page \in Int
  PROVE  P!InWindow(z, z, 60, 60)
PROOF
  <1> DEFINE page == z.page
  <1>1. page \in Int
    OBVIOUS
  <1>2. P!InWindow(z, z, 60, 60) <=> P!Abs(page - page) <= P!Window(page, 60, 60)
    BY DEF P!InWindow
  <1> HIDE DEF page
  <1> DEFINE more == IF page > 50 THEN (page - 50) \div 15 ELSE 0
  <1>3. P!Window(page, 60, 60) = IF 8 + more < 30 THEN 8 + more ELSE 30
    <2>1. (5 * 60) \div 60 = 5
      OBVIOUS
    <2>2. P!Larger(8, 5) = 8
      BY DEF P!Larger
    <2> QED BY <2>1, <2>2 DEF P!Window
  <1>4. more \in Int /\ more >= 0
    BY <1>1
  <1> HIDE DEF more
  <1>5. P!Window(page, 60, 60) >= 0
    BY <1>3, <1>4
  <1>6. P!Abs(page - page) = 0
    BY <1>1 DEF P!Abs
  <1> QED BY <1>2, <1>5, <1>6

LEMMA OwnTables ==
  ASSUME NEW q, q.zhTotal = 60, q.enTotal = 60, q.enTables = q.zhTables,
         IsList(q.zhTables), \A t \in 1 .. Len(q.zhTables) : HasRows(q.zhTables[t])
  PROVE  OnlyOwn(P!TableCandidates(q), P!TablePairs(q))
PROOF
  <1> DEFINE s == q.zhTables
             n == Len(s)
             pairs == P!TableCandidates(q)
             rank == P!TableRanks(q)
  <1>1. n \in Nat /\ DOMAIN s = 1 .. n
    BY DEF IsList
  <1>2. \A p : p \in pairs <=> /\ p \in (1 .. n) \X (1 .. n)
                               /\ P!TableSure(s[p[1]]) >= 70 /\ P!TableSure(s[p[2]]) >= 70
                               /\ P!InWindow(s[p[1]], s[p[2]], 60, 60) /\ P!TableScore(s[p[1]], s[p[2]]) >= 4
    BY <1>1 DEF P!TableCandidates
  <1>3. P!TablePairs(q) = Greedy(Ranked(pairs, rank))
    BY SameOperators DEF P!TablePairs
  <1>4. \A p \in pairs : rank[p] = <<P!TableScore(s[p[1]], s[p[2]])>>
    BY DEF P!TableRanks, P!TableRank
  <1> HIDE DEF pairs, rank
  <1>5. pairs \in SUBSET ((1 .. n) \X (1 .. n))
    BY <1>2
  <1>6. IsFiniteSet(pairs) /\ pairs \in SUBSET (Int \X Int)
    <2> DEFINE U == (1 .. n) \X (1 .. n)
    <2>1. IsFiniteSet(U) /\ U \subseteq Int \X Int
      BY <1>1, PairsOfPlaces
    <2> HIDE DEF U
    <2> QED BY <1>5, <2>1, FS_Subset DEF U
  <1>7. ASSUME NEW p \in pairs PROVE rank[p] \in Ints(1)
    <2> DEFINE x == P!TableScore(s[p[1]], s[p[2]])
    <2>1. x \in Int
      BY <1>5, OwnTableScore
    <2> HIDE DEF x
    <2>2. rank[p] = <<x>>
      BY <1>4 DEF x
    <2> QED BY <2>1, <2>2 DEF Ints
  <1>8. ASSUME NEW i \in 1 .. n PROVE P!InWindow(s[i], s[i], 60, 60)
    BY OwnPageIsNear DEF HasRows
  <1>9. ASSUME NEW p \in pairs, NEW i \in {p[1], p[2]} PROVE Own(i) \in pairs /\ ~Above(rank[p], rank[Own(i)])
    <2> DEFINE x == P!TableScore(s[p[1]], s[p[2]])
               y == P!TableScore(s[i], s[i])
               o == <<i, i>>
    <2>1. i \in 1 .. n /\ P!TableSure(s[i]) >= 70 /\ x >= 4
      BY <1>2, <1>5
    <2>2. x \in Int /\ y \in Int /\ x <= y
      <3>1. p[1] \in 1 .. n /\ p[2] \in 1 .. n
        BY <1>5
      <3> QED BY <3>1, OwnTableScore
    <2>3. o \in (1 .. n) \X (1 .. n) /\ o[1] = i /\ o[2] = i
      BY <2>1
    <2> HIDE DEF x, o
    <2>4. o \in pairs
      BY <1>2, <1>8, <2>1, <2>2, <2>3
    <2>5. rank[p] = <<x>> /\ rank[o] = <<y>>
      BY <1>4, <2>3, <2>4 DEF x
    <2> HIDE DEF y
    <2>6. ~Above(<<x>>, <<y>>)
      BY <2>2 DEF Above
    <2> QED BY <2>4, <2>5, <2>6 DEF o, Own
  <1>10. OnlyOwn(pairs, Greedy(Ranked(pairs, rank)))
    BY <1>6, <1>7, <1>9, OwnAreTaken DEF OwnComeFirst
  <1> QED BY <1>3, <1>10 DEF pairs

(* The facts of a row are those of the same row.                              *)
LEMMA OwnFacts ==
  ASSUME NEW z, IsList(z.facts), z.facts = [i \in DOMAIN z.facts |-> z.facts[i]], z.facts # <<>>
  PROVE  P!SameFacts(z, z) >= 1 /\ P!Common(P!RolesOf(z.facts), P!RolesOf(z.facts)) >= 1
PROOF
  <1> DEFINE fs == z.facts
             n == Len(fs)
             same == {i \in DOMAIN fs : \E j \in DOMAIN fs :
                        fs[i].kind = fs[j].kind /\ fs[i].role = fs[j].role /\ F!SameValue(fs[i], fs[j])}
             roles == {<<fs[k].kind, fs[k].role>> : k \in DOMAIN fs}
  <1>1. n \in Nat /\ DOMAIN fs = 1 .. n
    BY DEF IsList
  <1>2. DOMAIN fs # {}
    <2> SUFFICES ASSUME DOMAIN fs = {} PROVE FALSE
      OBVIOUS
    <2>0. fs = [i \in {} |-> fs[i]]
      BY Zenon
    <2>1. fs = <<>>
      BY <2>0
    <2> QED BY <2>1
  <1>3. same = 1 .. n
    <2>1. \A f : F!SameValue(f, f)
      BY DEF F!SameValue, F!CrossCurrency
    <2> QED BY <1>1, <2>1
  <1>4. P!SameFacts(z, z) = Cardinality(same)
    BY SameOperators DEF P!SameFacts
  <1>5. P!RolesOf(fs) = roles
    BY DEF P!RolesOf
  <1> HIDE DEF same
  <1>6. Cardinality(same) = n /\ n >= 1
    BY <1>1, <1>2, <1>3, FS_Interval
  <1>7. IsFiniteSet(roles) /\ roles # {}
    <2> DEFINE g == [k \in 1 .. n |-> <<fs[k].kind, fs[k].role>>]
    <2>1. g \in Surjection(1 .. n, roles)
      BY <1>1 DEF Surjection
    <2>2. roles # {}
      BY <1>2
    <2> HIDE DEF g, roles, fs, n
    <2> QED BY <1>1, <2>1, <2>2, Places, FS_Surjection
  <1> HIDE DEF roles
  <1>8. P!Common(roles, roles) >= 1
    BY <1>7, CommonWithOther
  <1> QED BY <1>4, <1>5, <1>6, <1>8

LEMMA RolesAreFew ==
  ASSUME NEW fs, IsList(fs)
  PROVE  IsFiniteSet(P!RolesOf(fs))
PROOF
  <1> DEFINE n == Len(fs)
             roles == {<<fs[k].kind, fs[k].role>> : k \in DOMAIN fs}
             g == [k \in 1 .. n |-> <<fs[k].kind, fs[k].role>>]
  <1>1. n \in Nat /\ DOMAIN fs = 1 .. n
    BY DEF IsList
  <1>2. g \in Surjection(1 .. n, roles)
    BY <1>1 DEF Surjection
  <1>3. P!RolesOf(fs) = roles
    BY DEF P!RolesOf
  <1> HIDE DEF g, roles, n
  <1> QED BY <1>1, <1>2, <1>3, Places, FS_Surjection

(* Rows beside the rows of the same table, whose title has a term.            *)
LEMMA OwnRowScore ==
  ASSUME NEW t, P!TitleScore(t, t) = 5, NEW z, IsRow(z), NEW e, IsRow(e)
  PROVE  /\ P!RowScore(t, t, z, e) \in Int
         /\ z.facts # <<>> \/ z.long => P!RowScore(t, t, z, z) >= 4
PROOF
  <1> DEFINE same == IF P!SameSection(t, t) THEN 2 ELSE 0
             periods == IF t.periods = {} THEN 0 ELSE 1
             topics(b) == P!Common(z.topics, b.topics)
             actions(b) == P!Common(z.actions, b.actions)
             keys(b) == P!Common(z.keys, b.keys)
             roles(b) == P!Common(P!RolesOf(z.facts), P!RolesOf(b.facts))
             facts(b) == P!SameFacts(z, b)
             unit(b) == IF z.unit # 0 /\ b.unit # 0 /\ z.unit # b.unit THEN 2 ELSE 0
  <1>1. ASSUME NEW b, b \in {z, e}
        PROVE  P!RowScore(t, t, z, b) = same + 3 * topics(b) + 5 * actions(b) + 2 * keys(b) + 2 * roles(b) + 4 * facts(b)
                                        + 2 - unit(b) + periods
    BY DEF P!RowScore
  <1>2. ASSUME NEW b, b \in {z, e} PROVE topics(b) \in Nat /\ actions(b) \in Nat /\ keys(b) \in Nat /\ roles(b) \in Nat /\ facts(b) \in Nat
    <2>1. IsRow(b)
      BY <1>2
    <2>2. topics(b) \in Nat /\ actions(b) \in Nat /\ keys(b) \in Nat
      BY <2>1, CommonWithOther DEF IsRow
    <2>3. ASSUME NEW r, IsRow(r) PROVE IsFiniteSet(P!RolesOf(r.facts))
      BY <2>3, RolesAreFew DEF IsRow
    <2>4. roles(b) \in Nat
      BY <2>1, <2>3, CommonWithOther
    <2>5. facts(b) \in Nat
      <3> DEFINE U == {i \in DOMAIN z.facts : \E j \in DOMAIN b.facts :
                         /\ z.facts[i].kind = b.facts[j].kind /\ z.facts[i].role = b.facts[j].role
                         /\ F!SameValue(z.facts[i], b.facts[j])}
                 n == Len(z.facts)
      <3>1. n \in Nat /\ U \in SUBSET (1 .. n)
        BY DEF IsRow, IsList
      <3>2. facts(b) = Cardinality(U)
        BY SameOperators DEF P!SameFacts
      <3> HIDE DEF U, n
      <3> QED BY <3>1, <3>2, Places, FS_Subset, FS_CardinalityType
    <2> QED BY <2>2, <2>4, <2>5
  <1>3. unit(z) = 0 /\ unit(e) \in {0, 2} /\ same \in {0, 2} /\ periods \in {0, 1}
    OBVIOUS
  <1>4. z.facts # <<>> => roles(z) >= 1 /\ facts(z) >= 1
    BY OwnFacts DEF IsRow
  <1>5. z.long => keys(z) >= 1
    BY CommonWithOther DEF IsRow
  <1> HIDE DEF same, periods, topics, actions, keys, roles, facts, unit
  <1>6. P!RowScore(t, t, z, e) \in Int
    <2> DEFINE a == topics(e)
               b == actions(e)
               c == keys(e)
               d == roles(e)
               f == facts(e)
               g == unit(e)
    <2>1. a \in Nat /\ b \in Nat /\ c \in Nat /\ d \in Nat /\ f \in Nat /\ g \in {0, 2}
      BY <1>2, <1>3
    <2>2. P!RowScore(t, t, z, e) = same + 3 * a + 5 * b + 2 * c + 2 * d + 4 * f + 2 - g + periods
      BY <1>1
    <2> HIDE DEF a, b, c, d, f, g
    <2> QED BY <1>3, <2>1, <2>2
  <1>7. ASSUME z.facts # <<>> \/ z.long PROVE P!RowScore(t, t, z, z) >= 4
    <2> DEFINE a == topics(z)
               b == actions(z)
               c == keys(z)
               d == roles(z)
               f == facts(z)
    <2>1. a \in Nat /\ b \in Nat /\ c \in Nat /\ d \in Nat /\ f \in Nat
      BY <1>2
    <2>2. P!RowScore(t, t, z, z) = same + 3 * a + 5 * b + 2 * c + 2 * d + 4 * f + 2 - 0 + periods
      BY <1>1, <1>3
    <2>3. c >= 1 \/ (d >= 1 /\ f >= 1)
      BY <1>4, <1>5, <1>7
    <2> HIDE DEF a, b, c, d, f
    <2> QED BY <1>3, <2>1, <2>2, <2>3
  <1> QED BY <1>6, <1>7

LEMMA NoRowIsMissing ==
  ASSUME NEW t, HasRows(t), P!TitleScore(t, t) = 5, OwnRows(t)
  PROVE  P!MissingRows(t, t) = {}
PROOF
  <1> DEFINE rows == t.rows
             n == Len(rows)
             Score(p) == P!RowScore(t, t, rows[p[1]], rows[p[2]])
             alike == {p \in (DOMAIN rows) \X (DOMAIN rows) : Score(p) >= 4}
             rank == [p \in alike |-> <<Score(p)>>]
             all == [p \in (DOMAIN rows) \X (DOMAIN rows) |-> Score(p)]
  <1>1. n \in Nat /\ DOMAIN rows = 1 .. n /\ \A r \in 1 .. n : IsRow(rows[r])
    BY DEF HasRows, IsList
  <1>2. P!RowPairs(t, t) = Greedy(Ranked(alike, rank))
    BY SameOperators DEF P!RowPairs
  <1>3. \A p \in (1 .. n) \X (1 .. n) : all[p] = Score(p) /\ Score(p) \in Int
    <2> SUFFICES ASSUME NEW p \in (1 .. n) \X (1 .. n) PROVE all[p] = Score(p) /\ Score(p) \in Int
      OBVIOUS
    <2>1. p[1] \in 1 .. n /\ p[2] \in 1 .. n /\ IsRow(rows[p[1]]) /\ IsRow(rows[p[2]])
      BY <1>1
    <2>2. Score(p) \in Int
      BY <2>1, OwnRowScore
    <2> HIDE DEF Score
    <2> QED BY <1>1, <2>2
  <1>4. \A p \in (1 .. n) \X (1 .. n) : all[p] <= all[<<p[1], p[1]>>] /\ all[p] <= all[<<p[2], p[2]>>]
    <2>1. OwnBest(all)
      BY Zenon DEF OwnRows
    <2>2. DOMAIN all = (1 .. n) \X (1 .. n)
      BY <1>1
    <2> HIDE DEF all
    <2> QED BY <2>1, <2>2 DEF OwnBest
  <1>5. \A p : p \in alike <=> p \in (1 .. n) \X (1 .. n) /\ Score(p) >= 4
    BY <1>1
  <1>6. \A p \in alike : rank[p] = <<Score(p)>>
    OBVIOUS
  <1> HIDE DEF Score, alike, rank, all
  <1>7. alike \in SUBSET ((1 .. n) \X (1 .. n))
    BY <1>5
  <1>8. IsFiniteSet(alike) /\ alike \in SUBSET (Int \X Int)
    <2> DEFINE U == (1 .. n) \X (1 .. n)
    <2>1. IsFiniteSet(U) /\ U \subseteq Int \X Int
      BY <1>1, PairsOfPlaces
    <2> HIDE DEF U
    <2> QED BY <1>7, <2>1, FS_Subset DEF U
  <1>9. \A p \in alike : rank[p] \in Ints(1)
    <2> TAKE p \in alike
    <2> DEFINE x == Score(p)
    <2>1. x \in Int
      BY <1>3, <1>7
    <2> HIDE DEF x
    <2>2. rank[p] = <<x>>
      BY <1>6 DEF x
    <2> QED BY <2>1, <2>2 DEF Ints
  <1>10. OwnComeFirst(alike, rank)
    <2> SUFFICES ASSUME NEW p \in alike, NEW i \in {p[1], p[2]} PROVE Own(i) \in alike /\ ~Above(rank[p], rank[Own(i)])
      BY DEF OwnComeFirst
    <2> DEFINE o == <<i, i>>
               x == Score(p)
               y == Score(o)
    <2>1. i \in 1 .. n /\ o \in (1 .. n) \X (1 .. n) /\ p \in (1 .. n) \X (1 .. n) /\ x >= 4
      BY <1>5
    <2>2. all[p] <= all[o]
      BY <1>4, <2>1
    <2>3. x \in Int /\ y \in Int /\ x <= y
      <3> HIDE DEF o
      <3> QED BY <1>3, <2>1, <2>2
    <2> HIDE DEF x, y
    <2>4. o \in alike
      <3> HIDE DEF o
      <3>1. y >= 4
        BY <2>1, <2>3
      <3> QED BY <1>5, <2>1, <3>1 DEF y
    <2>5. rank[p] = <<x>> /\ rank[o] = <<y>>
      BY <1>6, <2>4 DEF x, y
    <2>6. ~Above(<<x>>, <<y>>)
      BY <2>3 DEF Above
    <2> QED BY <2>4, <2>5, <2>6 DEF Own
  <1>11. OnlyOwn(alike, P!RowPairs(t, t))
    BY <1>2, <1>8, <1>9, <1>10, OwnAreTaken
  <1>12. ASSUME NEW r \in 1 .. n, rows[r].facts # <<>> \/ rows[r].long PROVE r \in P!Lefts(P!RowPairs(t, t))
    <2> DEFINE o == <<r, r>>
    <2>1. o \in (1 .. n) \X (1 .. n) /\ o[1] = r /\ o[2] = r
      OBVIOUS
    <2>2. P!RowScore(t, t, rows[r], rows[r]) >= 4
      BY <1>1, <1>12, OwnRowScore
    <2>3. Score(o) >= 4
      BY <2>2 DEF Score
    <2> HIDE DEF o
    <2>4. o \in alike
      BY <1>5, <2>1, <2>3
    <2>5. o \in P!RowPairs(t, t)
      BY <1>11, <2>1, <2>4 DEF OnlyOwn, Own, o
    <2> QED BY <2>1, <2>5 DEF P!Lefts
  <1> QED BY <1>1, <1>12 DEF P!MissingRows

LEMMA TableIsClean ==
  ASSUME RunTables
  PROVE  TableSameIsClean'
PROOF
  <1> SUFFICES ASSUME input'.zhTables = input'.enTables
               PROVE  /\ \A t \in found'.missing : input'.zhTables[t].title = {}
                      /\ \A p \in found'.tables : found'.told[p] = {} /\ (OwnRows(input'.zhTables[p[1]]) => found'.lost[p] = {})
    BY DEF TableSameIsClean
  <1> DEFINE q == input'
             s == input'.zhTables
             n == Len(s)
             tables == P!MatchedTables(q)
  <1>1. PICK zh, en : /\ zh \in RowSides /\ en \in RowSides
                      /\ input' = [zhTables |-> zh, enTables |-> en, zhTotal |-> 60, enTotal |-> 60]
    BY Zenon DEF RunTables
  <1>2. s = zh /\ q.zhTables = s /\ q.enTables = s /\ q.zhTotal = 60 /\ q.enTotal = 60
    BY <1>1
  <1>3. IsList(s) /\ \A t \in 1 .. n : HasRows(s[t])
    <2>1. IsList(zh) /\ \A t \in DOMAIN zh : /\ zh[t].page \in Int /\ IsFiniteSet(zh[t].keys) /\ IsList(zh[t].rows)
                                             /\ \A r \in DOMAIN zh[t].rows : IsRow(zh[t].rows[r])
      BY <1>1, TablesAssumption, Zenon DEF TablesAssumption
    <2> HIDE DEF s
    <2> QED BY <1>2, <2>1 DEF HasRows, IsList
  <1>4. /\ found'.tables = tables /\ found'.missing = P!MissingTables(q)
        /\ \A p \in tables : /\ found'.lost[p] = P!MissingRows(q.zhTables[p[1]], q.enTables[p[2]])
                             /\ found'.told[p] = UNION {F!RowFindings(q.zhTables[p[1]].rows[r[1]], q.enTables[p[2]].rows[r[2]]) :
                                                          r \in P!RowPairs(q.zhTables[p[1]], q.enTables[p[2]])}
    BY DEF RunTables
  <1> HIDE DEF s, q
  <1>5. OnlyOwn(P!TableCandidates(q), P!TablePairs(q))
    BY <1>2, <1>3, OwnTables
  <1>6. n \in Nat /\ DOMAIN s = 1 .. n
    BY <1>3 DEF IsList
  <1>7. \A z, e : F!RowFindings(z, e) = {}
    BY DEF F!RowFindings, F!FactFindings, F!Compared
  <1>8. ASSUME NEW t \in found'.missing PROVE s[t].title = {}
    <2> SUFFICES ASSUME s[t].title # {} PROVE FALSE
      OBVIOUS
    <2> DEFINE o == <<t, t>>
    <2>1. t \in 1 .. n /\ P!TableSure(s[t]) >= 70 /\ t \notin P!Lefts(tables)
      BY <1>2, <1>4, <1>6 DEF P!MissingTables
    <2>2. P!TableScore(s[t], s[t]) \in Int /\ P!TableScore(s[t], s[t]) >= 6
      BY <1>3, <2>1, OwnTableScore
    <2>3. o \in (1 .. n) \X (1 .. n) /\ o[1] = t /\ o[2] = t
      BY <2>1
    <2>4. P!InWindow(s[t], s[t], 60, 60)
      BY <1>3, <2>1, OwnPageIsNear DEF HasRows
    <2>5. P!TableScore(s[t], s[t]) >= 4
      <3> DEFINE x == P!TableScore(s[t], s[t])
      <3> HIDE DEF x
      <3>1. x \in Int /\ x >= 6
        BY <2>2 DEF x
      <3>2. x >= 4
        BY <3>1
      <3> QED BY <3>2 DEF x
    <2> HIDE DEF o, tables
    <2>6. o \in P!TableCandidates(q)
      BY <1>2, <1>6, <2>1, <2>3, <2>4, <2>5 DEF P!TableCandidates
    <2>7. o \in P!TablePairs(q)
      BY <1>5, <2>3, <2>6 DEF OnlyOwn, Own, o
    <2>8. P!TableRank(q, o)[1] >= 6
      BY <1>2, <2>2, <2>3 DEF P!TableRank
    <2>9. o \in tables
      BY <2>7, <2>8 DEF tables, P!MatchedTables
    <2> QED BY <2>1, <2>3, <2>9 DEF P!Lefts
  <1>9. ASSUME NEW p \in found'.tables
        PROVE  found'.told[p] = {} /\ (OwnRows(s[p[1]]) => found'.lost[p] = {})
    <2> DEFINE t == s[p[1]]
    <2>1. p \in P!TablePairs(q) /\ P!TableRank(q, p)[1] >= 6
      BY <1>4 DEF P!MatchedTables
    <2>2. p[1] = p[2]
      BY <1>5, <2>1 DEF OnlyOwn
    <2>3. p[1] \in 1 .. n
      <3>1. P!TablePairs(q) \subseteq P!TableCandidates(q)
        BY <1>2, <1>3, TablesAreFair DEF AreTables, HasRows
      <3>2. p \in (DOMAIN s) \X (DOMAIN s)
        BY <1>2, <2>1, <3>1 DEF P!TableCandidates
      <3> QED BY <1>6, <3>2
    <2>4. P!TableScore(t, t) >= 6 /\ HasRows(t)
      BY <1>2, <1>3, <2>1, <2>2, <2>3 DEF P!TableRank
    <2> HIDE DEF t
    <2>5. P!TitleScore(t, t) = 5
      BY <2>4, OwnTableScore
    <2>6. OwnRows(t) => P!MissingRows(t, t) = {}
      BY <2>4, <2>5, NoRowIsMissing
    <2>7. found'.lost[p] = P!MissingRows(t, t)
      BY <1>2, <1>4, <2>2 DEF t
    <2>8. found'.told[p] = {}
      BY <1>4, <1>7
    <2> QED BY <2>6, <2>7, <2>8 DEF t
  <1> QED BY <1>8, <1>9 DEF s
=============================================================================
