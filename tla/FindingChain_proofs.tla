--------------------------- MODULE FindingChain_proofs ---------------------------
(* Theorems about FindingChain, for every set of lists of findings, of any    *)
(* length, and every budget.                                                  *)
EXTENDS FindingChain, WellFoundedInduction, FiniteSetTheorems, TLAPS

-----------------------------------------------------------------------------
(* Induction on the natural numbers, as a fact about sets: a set of them that *)
(* is not empty has a least element, and one that has 0 and the successor of  *)
(* each of its elements has them all.                                         *)
Less == {p \in Nat \X Nat : p[1] < p[2]}

LEMMA LessIsWellFounded == IsWellFoundedOn(Less, Nat)
PROOF
  <1>1. OpToRel(<, Nat) = Less
    BY Zenon DEF OpToRel, Less
  <1> QED BY <1>1, NatLessThanWellFounded, Zenon

LEMMA LeastElement ==
  ASSUME NEW T \in SUBSET Nat, T # {}
  PROVE  \E x \in T : \A y \in T : x <= y
PROOF
  <1>1. PICK x \in T : \A y \in T : ~(<<y, x>> \in Less)
    BY LessIsWellFounded, WFMin
  <1>2. ASSUME NEW y \in T, y < x PROVE <<y, x>> \in Less
    <2> DEFINE p == <<y, x>>
    <2>1. p[1] = y /\ p[2] = x /\ p \in Nat \X Nat
      OBVIOUS
    <2> HIDE DEF p
    <2>2. p \in Less
      BY <1>2, <2>1 DEF Less
    <2> QED BY <2>2 DEF p
  <1>3. \A y \in T : ~(y < x)
    BY <1>1, <1>2, Zenon
  <1> QED BY <1>3

LEMMA EveryNumber ==
  ASSUME NEW S, 0 \in S, \A n \in Nat : n \in S => n + 1 \in S
  PROVE  Nat \subseteq S
PROOF
  <1> SUFFICES ASSUME NEW k \in Nat \ S PROVE FALSE
    OBVIOUS
  <1>1. PICK x \in Nat \ S : \A y \in Nat \ S : x <= y
    BY LeastElement
  <1>2. x # 0 /\ x - 1 \in Nat /\ ~(x <= x - 1)
    BY <1>1
  <1>3. x - 1 \in S
    BY <1>1, <1>2
  <1> QED BY <1>1, <1>2, <1>3

-----------------------------------------------------------------------------
(* A finite set G with a strict order R: the rank of an element is how many   *)
(* stand before it.                                                           *)
IsOrder(R, G) ==
  /\ \A x \in G : <<x, x>> \notin R
  /\ \A x, y, z \in G : <<x, y>> \in R /\ <<y, z>> \in R => <<x, z>> \in R
Before(R, G, x) == {y \in G : <<y, x>> \in R}
Rank(R, G, x) == Cardinality(Before(R, G, x))

LEMMA RankGrows ==
  ASSUME NEW G, IsFiniteSet(G), NEW R, IsOrder(R, G)
  PROVE  /\ Cardinality(G) \in Nat
         /\ \A x \in G : Rank(R, G, x) \in Nat /\ Rank(R, G, x) < Cardinality(G)
         /\ \A x, y \in G : <<x, y>> \in R => Rank(R, G, x) < Rank(R, G, y)
PROOF
  <1>1. Cardinality(G) \in Nat
    BY FS_CardinalityType
  <1>2. ASSUME NEW x \in G
        PROVE  /\ IsFiniteSet(Before(R, G, x))
               /\ Rank(R, G, x) \in Nat /\ Rank(R, G, x) < Cardinality(G)
    <2>1. Before(R, G, x) \in SUBSET G /\ x \notin Before(R, G, x)
      BY DEF Before, IsOrder
    <2>2. IsFiniteSet(Before(R, G, x)) /\ Rank(R, G, x) \in Nat
      BY <2>1, FS_Subset, FS_CardinalityType DEF Rank
    <2>3. Rank(R, G, x) <= Cardinality(G) /\ Rank(R, G, x) # Cardinality(G)
      BY <2>1, FS_Subset DEF Rank
    <2> QED BY <1>1, <2>2, <2>3
  <1>3. ASSUME NEW x \in G, NEW y \in G, <<x, y>> \in R
        PROVE  Rank(R, G, x) < Rank(R, G, y)
    <2>1. Before(R, G, x) \in SUBSET Before(R, G, y)
      BY <1>3 DEF Before, IsOrder
    <2>2. x \in Before(R, G, y) /\ x \notin Before(R, G, x)
      BY <1>3 DEF Before, IsOrder
    <2>3. IsFiniteSet(Before(R, G, y))
      BY <1>2
    <2>4. Rank(R, G, x) <= Rank(R, G, y) /\ Rank(R, G, x) # Rank(R, G, y)
      BY <2>1, <2>2, <2>3, FS_Subset DEF Rank
    <2> QED BY <1>2, <2>4
  <1> QED BY <1>1, <1>2, <1>3

(* Some element has none before it.                                           *)
LEMMA SomeoneIsFirst ==
  ASSUME NEW G, IsFiniteSet(G), G # {}, NEW R, IsOrder(R, G)
  PROVE  \E x \in G : \A y \in G : <<y, x>> \notin R
PROOF
  <1> DEFINE T == {Rank(R, G, x) : x \in G}
  <1>1. T \in SUBSET Nat /\ T # {}
    BY RankGrows
  <1>2. PICK n \in T : \A m \in T : n <= m
    BY <1>1, LeastElement
  <1>3. PICK x \in G : n = Rank(R, G, x)
    BY <1>2
  <1>4. ASSUME NEW y \in G, <<y, x>> \in R PROVE FALSE
    <2>1. Rank(R, G, y) < Rank(R, G, x) /\ Rank(R, G, y) \in Nat /\ Rank(R, G, x) \in Nat
      BY <1>4, RankGrows
    <2>2. Rank(R, G, x) <= Rank(R, G, y)
      BY <1>2, <1>3
    <2> QED BY <2>1, <2>2
  <1> QED BY <1>4

LEMMA NumbersBelow ==
  ASSUME NEW n \in Nat
  PROVE  IsFiniteSet(0..(n - 1)) /\ Cardinality(0..(n - 1)) = n
PROOF
  <1>1. n - 1 \in Int /\ 0 \in Int
    OBVIOUS
  <1>2. IsFiniteSet(0..(n - 1)) /\ Cardinality(0..(n - 1)) = IF 0 > n - 1 THEN 0 ELSE n - 1 - 0 + 1
    BY <1>1, FS_Interval
  <1> QED BY <1>2

(* When the order is total, exactly n elements have a rank below n, and all   *)
(* of them when there are no more than n.                                     *)
LEMMA RanksAreCounted ==
  ASSUME NEW G, IsFiniteSet(G), NEW R, IsOrder(R, G), NEW n \in Nat,
         \A x, y \in G : x = y \/ <<x, y>> \in R \/ <<y, x>> \in R
  PROVE  LET K == {x \in G : Rank(R, G, x) < n}
         IN  /\ IsFiniteSet(K)
             /\ Cardinality(K) = IF n <= Cardinality(G) THEN n ELSE Cardinality(G)
PROOF
  <1> DEFINE K == {x \in G : Rank(R, G, x) < n}
             c == Cardinality(G)
             m == IF n <= c THEN n ELSE c
             rank == [x \in G |-> Rank(R, G, x)]
  <1>1. c \in Nat /\ m \in Nat /\ m <= c /\ m <= n
    BY RankGrows
  <1>2. \A x \in G : rank[x] \in 0..(c - 1)
    BY <1>1, RankGrows
  <1>3. \A x, y \in G : rank[x] = rank[y] => x = y
    <2> TAKE x \in G, y \in G
    <2>1. x = y \/ rank[x] < rank[y] \/ rank[y] < rank[x]
      BY RankGrows
    <2>2. rank[x] \in Nat /\ rank[y] \in Nat
      BY <1>1, <1>2
    <2> QED BY <2>1, <2>2
  <1>4. IsFiniteSet(0..(c - 1)) /\ Cardinality(0..(c - 1)) = c
    BY <1>1, NumbersBelow
  <1>5. rank \in Injection(G, 0..(c - 1))
    BY <1>2, <1>3 DEF Injection, IsInjective
  <1>6. rank \in Surjection(G, 0..(c - 1))
    <2> HIDE DEF rank
    <2> QED BY <1>4, <1>5, FS_Injection
  <1>7. \A t \in 0..(c - 1) : \E x \in G : rank[x] = t
    BY <1>6 DEF Surjection
  <1> DEFINE part == [x \in K |-> rank[x]]
  <1>8. \A x \in K : part[x] \in 0..(m - 1)
    BY <1>1, <1>2
  <1>9. \A x, y \in K : part[x] = part[y] => x = y
    BY <1>3
  <1>10. \A t \in 0..(m - 1) : \E x \in K : part[x] = t
    <2> TAKE t \in 0..(m - 1)
    <2>1. t \in 0..(c - 1) /\ t < n
      BY <1>1
    <2>2. PICK x \in G : rank[x] = t
      BY <1>7, <2>1
    <2>3. x \in K
      BY <2>1, <2>2
    <2> QED BY <2>2, <2>3
  <1>11. IsFiniteSet(K)
    BY FS_Subset
  <1>12. IsFiniteSet(0..(m - 1)) /\ Cardinality(0..(m - 1)) = m
    BY <1>1, NumbersBelow
  <1>13. part \in Injection(K, 0..(m - 1)) /\ part \in Surjection(K, 0..(m - 1))
    BY <1>8, <1>9, <1>10 DEF Injection, IsInjective, Surjection
  <1>14. Cardinality(K) = Cardinality(0..(m - 1))
    <2> HIDE DEF part, K
    <2> QED BY <1>12, <1>13, FS_Injection
  <1> QED BY <1>11, <1>12, <1>14

(* The greedy choice exists: whoever stands against none of the chosen before *)
(* it.  By induction on the rank up to which it is made.                      *)
LEMMA ChoiceExists ==
  ASSUME NEW G, IsFiniteSet(G), NEW R, IsOrder(R, G), NEW D \in SUBSET (G \X G)
  PROVE  \E K \in SUBSET G :
           \A i \in G : i \in K <=> \A j \in K : <<j, i>> \in R => <<i, j>> \notin D
PROOF
  <1> DEFINE Ok(K, i) == i \in K <=> \A j \in K : <<j, i>> \in R => <<i, j>> \notin D
             Upto(n) == {i \in G : Rank(R, G, i) < n}
             S == {n \in Nat : \E K \in SUBSET Upto(n) : \A i \in Upto(n) : Ok(K, i)}
  <1>1. 0 \in S
    <2>1. Upto(0) = {}
      BY RankGrows
    <2> QED BY <2>1
  <1>2. ASSUME NEW n \in Nat, n \in S PROVE n + 1 \in S
    <2>1. PICK K \in SUBSET Upto(n) : \A i \in Upto(n) : Ok(K, i)
      BY <1>2
    <2> DEFINE More == {i \in Upto(n + 1) \ Upto(n) :
                          \A j \in K : <<j, i>> \in R => <<i, j>> \notin D}
               M == K \union More
    <2>2. Upto(n) \subseteq Upto(n + 1) /\ M \in SUBSET Upto(n + 1)
      BY RankGrows
    <2>3. ASSUME NEW i \in Upto(n + 1), NEW j \in More PROVE <<j, i>> \notin R
      <3>1. i \in G /\ j \in G /\ Rank(R, G, i) \in Nat /\ Rank(R, G, j) \in Nat
        BY RankGrows
      <3>2. Rank(R, G, i) < n + 1 /\ ~(Rank(R, G, j) < n)
        OBVIOUS
      <3>3. ~(Rank(R, G, j) < Rank(R, G, i))
        BY <3>1, <3>2
      <3> QED BY <3>1, <3>3, RankGrows
    <2>4. ASSUME NEW i \in Upto(n + 1) PROVE Ok(M, i)
      <3>1. CASE i \in Upto(n)
        BY <2>1, <2>3, <2>4, <3>1
      <3>2. CASE i \notin Upto(n)
        BY <2>1, <2>3, <2>4, <3>2
      <3> QED BY <3>1, <3>2
    <2>5. \E Q \in SUBSET Upto(n + 1) : \A i \in Upto(n + 1) : Ok(Q, i)
      <3> HIDE DEF M, Ok
      <3> QED BY <2>2, <2>4
    <2> QED BY <2>5
  <1> HIDE DEF S
  <1>3. Cardinality(G) \in S
    BY <1>1, <1>2, EveryNumber, RankGrows
  <1>4. Upto(Cardinality(G)) = G
    BY RankGrows
  <1> QED BY <1>3, <1>4 DEF S

-----------------------------------------------------------------------------
(* The findings and the list. *)
ListInv == input \in Inputs /\ TypeOK

LEMMA FindingTypes ==
  ASSUME ListInv
  PROVE  /\ Len(input) \in Nat /\ DOMAIN input = 1..Len(input)
         /\ \A i \in DOMAIN input :
              /\ input[i] \in Findings
              /\ input[i].severity \in Int
              /\ Len(input[i].evidence) \in Nat
              /\ RuleRank(i) \in Int
PROOF
  <1>1. input \in Seq(Findings)
    BY ChainAssumption DEF ListInv
  <1>2. Len(input) \in Nat /\ DOMAIN input = 1..Len(input)
    BY <1>1
  <1>3. ASSUME NEW i \in DOMAIN input
        PROVE  /\ input[i] \in Findings
               /\ input[i].severity \in Int
               /\ input[i].evidence \in Seq([side : {"A", "H"}, page : Nat])
    <2>1. input[i] \in Findings
      BY <1>1, <1>2
    <2> QED BY <2>1 DEF Findings
  <1>4. ASSUME NEW i \in DOMAIN input PROVE RuleRank(i) \in Int
    BY DEF RuleRank
  <1> QED BY <1>2, <1>3, <1>4

LEMMA ListFacts ==
  ASSUME ListInv
  PROVE  /\ IsFiniteSet(DOMAIN input) /\ Cardinality(DOMAIN input) = Len(input)
         /\ Left \subseteq DOMAIN input /\ IsFiniteSet(Left)
         /\ \A i \in Left : diffs[i] \in Nat
         /\ \A i, j \in Left : diffs[i] = diffs[j] => i = j
PROOF
  <1>1. Len(input) \in Nat /\ DOMAIN input = 1..Len(input)
    BY FindingTypes
  <1>2. IsFiniteSet(DOMAIN input) /\ Cardinality(DOMAIN input) = Len(input)
    <2> DEFINE l == Len(input)
    <2>1. l \in Int /\ 1 \in Int
      BY <1>1
    <2> HIDE DEF l
    <2>2. IsFiniteSet(1..l) /\ Cardinality(1..l) = IF 1 > l THEN 0 ELSE l - 1 + 1
      BY <2>1, FS_Interval
    <2>3. l \in Nat /\ DOMAIN input = 1..l
      BY <1>1 DEF l
    <2> QED BY <2>1, <2>2, <2>3 DEF l
  <1>3. Left \in SUBSET DOMAIN input
    BY DEF ListInv, TypeOK
  <1>4. IsFiniteSet(Left)
    BY <1>2, <1>3, FS_Subset
  <1> QED BY <1>1, <1>2, <1>3, <1>4 DEF ListInv, TypeOK, Left

(* The stages follow each other.                                              *)
LEMMA StageOrder ==
  ASSUME NEW list
  PROVE  /\ Pass("overlay", list) => stage' = "identical"
         /\ Pass("identical", list) => stage' = "twin"
         /\ Pass("twin", list) => stage' = "cross"
         /\ Pass("cross", list) => stage' = "again"
         /\ Pass("again", list) => stage' = "budget"
         /\ Pass("budget", list) => stage' = "file"
         /\ Pass("file", list) => stage' = "end"
PROOF
  <1>1. /\ DOMAIN Passes = 1..8
        /\ Passes[1] = "overlay" /\ Passes[2] = "identical" /\ Passes[3] = "twin"
        /\ Passes[4] = "cross" /\ Passes[5] = "again" /\ Passes[6] = "budget"
        /\ Passes[7] = "file" /\ Passes[8] = "end"
    BY DEF Passes
  <1>2. ASSUME NEW n \in 1..7
        PROVE  1 + (CHOOSE k \in DOMAIN Passes : Passes[k] = Passes[n]) = n + 1
    BY <1>1, <1>2
  <1> QED BY <1>1, <1>2 DEF Pass

-----------------------------------------------------------------------------
(* Who duplicates whom. *)
LEMMA MarkersAreShared ==
  /\ \A i, j : SameMarker(i, j) => SameMarker(j, i)
  /\ \A i, j, k : SameMarker(i, j) /\ SameMarker(j, k) => SameMarker(i, k)
PROOF BY DEF SameMarker, Claimed

LEMMA ClaimsAreNumbers ==
  ASSUME ListInv, NEW i \in DOMAIN input
  PROVE  Claimed(i) \subseteq Int
PROOF BY FindingTypes DEF Claimed, Findings

LEMMA DuplicatesAreMutual ==
  ASSUME ListInv, NEW i \in DOMAIN input, NEW j \in DOMAIN input, CrossDuplicate(i, j)
  PROVE  CrossDuplicate(j, i)
PROOF
  <1>1. ASSUME NEW x \in Int, NEW y \in Int, ValueMatch(x, y) PROVE ValueMatch(y, x)
    <2>1. AbsValue(x - y) = AbsValue(y - x)
      BY DEF AbsValue
    <2>2. Larger(AbsValue(x), AbsValue(y)) = Larger(AbsValue(y), AbsValue(x))
      BY DEF AbsValue, Larger
    <2> QED BY <1>1, <2>1, <2>2 DEF ValueMatch
  <1>2. Near(j, i)
    <2>1. PICK e \in ToSet(input[i].evidence), f \in ToSet(input[j].evidence) :
            /\ e.page # 0 /\ f.page # 0
            /\ e.side = f.side /\ AbsValue(e.page - f.page) <= 1
      BY DEF CrossDuplicate, Near
    <2>2. e.page \in Int /\ f.page \in Int
      <3>1. \A k \in DOMAIN input : \A g \in ToSet(input[k].evidence) : g.page \in Int
        <4> TAKE k \in DOMAIN input
        <4> DEFINE E == [side : {"A", "H"}, page : Nat]
                   s == input[k].evidence
        <4>1. s \in Seq(E)
          BY FindingTypes DEF Findings
        <4>2. \A g \in E : g.page \in Int
          OBVIOUS
        <4> HIDE DEF E, s
        <4>3. \A n \in DOMAIN s : s[n] \in E
          BY <4>1
        <4>4. \A g \in ToSet(s) : g.page \in Int
          BY <4>2, <4>3 DEF ToSet
        <4> QED BY <4>4 DEF s
      <3> QED BY <3>1
    <2>3. AbsValue(f.page - e.page) = AbsValue(e.page - f.page)
      BY <2>2 DEF AbsValue
    <2> QED BY <2>1, <2>3 DEF Near
  <1>3. PICK x \in Claimed(i), y \in Claimed(j) : ValueMatch(x, y)
    BY DEF CrossDuplicate
  <1>4. ValueMatch(y, x)
    BY <1>1, <1>3, ClaimsAreNumbers
  <1> QED BY <1>2, <1>3, <1>4 DEF CrossDuplicate

-----------------------------------------------------------------------------
(* The three orders in which findings are compared. *)
LEMMA EvidenceOrder ==
  ASSUME ListInv, NEW G \in SUBSET Left
  PROVE  \E R : /\ IsOrder(R, G)
                /\ \A i, j \in G : <<i, j>> \in R <=> MoreEvidence(i, j)
PROOF
  <1> DEFINE R == {p \in G \X G : MoreEvidence(p[1], p[2])}
  <1>1. \A i, j \in G : <<i, j>> \in R <=> MoreEvidence(i, j)
    OBVIOUS
  <1> HIDE DEF R
  <1>2. \A i \in G : Len(input[i].evidence) \in Nat /\ diffs[i] \in Nat
    BY FindingTypes, ListFacts
  <1>3. IsOrder(R, G)
    BY <1>1, <1>2 DEF IsOrder, MoreEvidence, Earlier
  <1> QED BY <1>1, <1>3

LEMMA PriorityOrder ==
  ASSUME ListInv, NEW G \in SUBSET Left
  PROVE  \E R : /\ IsOrder(R, G)
                /\ \A i, j \in G : <<i, j>> \in R <=> Precedes(i, j)
                /\ \A i, j \in G : i = j \/ Precedes(i, j) \/ Precedes(j, i)
PROOF
  <1> DEFINE R == {p \in G \X G : Precedes(p[1], p[2])}
  <1>1. \A i, j \in G : <<i, j>> \in R <=> Precedes(i, j)
    OBVIOUS
  <1> HIDE DEF R
  <1>2. /\ \A i \in G : /\ input[i].severity \in Int /\ RuleRank(i) \in Int
                        /\ Len(input[i].evidence) \in Nat /\ diffs[i] \in Nat
        /\ \A i, j \in G : diffs[i] = diffs[j] => i = j
    BY FindingTypes, ListFacts
  <1> DEFINE sev(i) == input[i].severity
             size(i) == Len(input[i].evidence)
  <1>3. \A i, j \in G : Precedes(i, j) <=>
          \/ sev(i) < sev(j)
          \/ sev(i) = sev(j) /\ RuleRank(i) < RuleRank(j)
          \/ sev(i) = sev(j) /\ RuleRank(i) = RuleRank(j) /\ size(i) > size(j)
          \/ /\ sev(i) = sev(j) /\ RuleRank(i) = RuleRank(j) /\ size(i) = size(j)
             /\ diffs[i] < diffs[j]
    BY DEF Precedes, MoreEvidence, Earlier
  <1>4. \A i \in G : sev(i) \in Int /\ RuleRank(i) \in Int /\ size(i) \in Int /\ diffs[i] \in Int
    BY <1>2
  <1> HIDE DEF sev, size
  <1>5. \A i \in G : <<i, i>> \notin R
    BY <1>1, <1>3, <1>4
  <1>6. ASSUME NEW i \in G, NEW j \in G, NEW k \in G, Precedes(i, j), Precedes(j, k)
        PROVE  Precedes(i, k)
    BY <1>3, <1>4, <1>6
  <1>7. IsOrder(R, G)
    BY <1>1, <1>5, <1>6 DEF IsOrder
  <1>8. \A i, j \in G : i = j \/ Precedes(i, j) \/ Precedes(j, i)
    BY <1>2, <1>3, <1>4
  <1> QED BY <1>1, <1>7, <1>8

(* Relative differences x/a, y/b, z/c are compared by cross-multiplication.   *)
LEMMA SharesAreOrdered ==
  ASSUME NEW x \in Nat, NEW y \in Nat, NEW z \in Nat,
         NEW a \in Nat \ {0}, NEW b \in Nat \ {0}, NEW c \in Nat \ {0}
  PROVE  /\ x * b > y * a /\ y * c > z * b => x * c > z * a
         /\ ~(x * b > y * a) /\ ~(y * c > z * b) => ~(x * c > z * a)
PROOF
  <1>1. /\ (x * b) * c = (x * c) * b /\ (y * a) * c = (y * c) * a /\ (z * b) * a = (z * a) * b
        /\ x * b \in Nat /\ y * a \in Nat /\ y * c \in Nat /\ z * b \in Nat
        /\ x * c \in Nat /\ z * a \in Nat
    OBVIOUS
  <1>2. \A m, n \in Nat, k \in Nat \ {0} : (m > n <=> m * k > n * k)
    OBVIOUS
  <1>3. \A m, n \in Nat : m * a \in Nat /\ m * b \in Nat /\ m * c \in Nat
    OBVIOUS
  <1> DEFINE xb == x * b
             ya == y * a
             yc == y * c
             zb == z * b
             xc == x * c
             za == z * a
  <1>4. /\ xb > ya <=> xb * c > ya * c
        /\ yc > zb <=> yc * a > zb * a
        /\ xc > za <=> xc * b > za * b
    BY <1>1, <1>2
  <1>5. xb * c \in Nat /\ ya * c \in Nat /\ zb * a \in Nat
    BY <1>1, <1>3
  <1> QED BY <1>1, <1>4, <1>5

LEMMA ImportanceIsOrdered ==
  ASSUME ListInv, NEW i \in Left, NEW j \in Left, NEW k \in Left
  PROVE  /\ ~MoreImportant(i, i)
         /\ MoreImportant(i, j) /\ MoreImportant(j, k) => MoreImportant(i, k)
         /\ ~MoreImportant(i, j) /\ ~MoreImportant(j, k) => ~MoreImportant(i, k)
PROOF
  <1> DEFINE sev(m) == input[m].severity
             core(m) == IF input[m].key \in CoreKeys THEN 0 ELSE 1
             wider(m, n) == Gap(m) * Scale(n) > Gap(n) * Scale(m)
  <1>1. \A m \in Left : sev(m) \in Int /\ core(m) \in Int
    BY FindingTypes, ListFacts
  <1>2. \A m \in Left : Gap(m) \in Nat /\ Scale(m) \in Nat \ {0}
    <2> TAKE m \in Left
    <2>1. HasBoth(m) => input[m].a \in Int /\ input[m].h \in Int
      BY FindingTypes, ListFacts DEF HasBoth, Findings
    <2> QED BY <2>1 DEF Gap, Scale, AbsValue, Larger
  <1>3. /\ ~wider(i, i)
        /\ wider(i, j) /\ wider(j, k) => wider(i, k)
        /\ ~wider(i, j) /\ ~wider(j, k) => ~wider(i, k)
    <2>1. Gap(i) * Scale(i) \in Nat
      BY <1>2
    <2> QED BY <1>2, <2>1, SharesAreOrdered
  <1>4. \A m, n \in Left : MoreImportant(m, n) <=>
          \/ sev(m) < sev(n)
          \/ sev(m) = sev(n) /\ core(m) < core(n)
          \/ sev(m) = sev(n) /\ core(m) = core(n) /\ wider(m, n)
    BY DEF MoreImportant
  <1> HIDE DEF sev, core, wider
  <1> QED BY <1>1, <1>3, <1>4

LEMMA CutOrder ==
  ASSUME ListInv, NEW G \in SUBSET Left
  PROVE  \E R : /\ IsOrder(R, G)
                /\ \A i, j \in G : <<i, j>> \in R <=> ComesBefore(i, j)
                /\ \A i, j \in G : i = j \/ ComesBefore(i, j) \/ ComesBefore(j, i)
PROOF
  <1> DEFINE R == {p \in G \X G : ComesBefore(p[1], p[2])}
  <1>1. \A i, j \in G : <<i, j>> \in R <=> ComesBefore(i, j)
    OBVIOUS
  <1> HIDE DEF R
  <1>2. /\ \A i \in G : diffs[i] \in Nat
        /\ \A i, j \in G : diffs[i] = diffs[j] => i = j
    BY ListFacts
  <1>3. \A i, j \in G : ComesBefore(i, j) <=>
          MoreImportant(i, j) \/ (~MoreImportant(j, i) /\ diffs[i] < diffs[j])
    BY DEF ComesBefore, Earlier
  <1>4. \A i \in G : ~ComesBefore(i, i)
    BY <1>2, <1>3, ImportanceIsOrdered
  <1>5. ASSUME NEW i \in G, NEW j \in G, NEW k \in G, ComesBefore(i, j), ComesBefore(j, k)
        PROVE  ComesBefore(i, k)
    <2>1. /\ MoreImportant(i, j) /\ MoreImportant(j, k) => MoreImportant(i, k)
          /\ ~MoreImportant(i, k) /\ ~MoreImportant(k, j) => ~MoreImportant(i, j)
          /\ ~MoreImportant(j, i) /\ ~MoreImportant(i, k) => ~MoreImportant(j, k)
          /\ MoreImportant(k, i) /\ MoreImportant(i, j) => MoreImportant(k, j)
          /\ MoreImportant(j, k) /\ MoreImportant(k, i) => MoreImportant(j, i)
          /\ ~MoreImportant(k, j) /\ ~MoreImportant(j, i) => ~MoreImportant(k, i)
      BY ImportanceIsOrdered
    <2>2. diffs[i] < diffs[j] /\ diffs[j] < diffs[k] => diffs[i] < diffs[k]
      BY <1>2
    <2> QED BY <1>3, <1>5, <2>1, <2>2, Zenon
  <1>6. IsOrder(R, G)
    BY <1>1, <1>4, <1>5 DEF IsOrder
  <1>7. ASSUME NEW i \in G, NEW j \in G, i # j PROVE ComesBefore(i, j) \/ ComesBefore(j, i)
    BY <1>2, <1>3, <1>7
  <1> QED BY <1>1, <1>6, <1>7

-----------------------------------------------------------------------------
(* What a pass leaves.  A filter leaves what it selects, in the old places.   *)
LEMMA FilterLeaves ==
  ASSUME ListInv, NEW S \in SUBSET Left, NEW name, Pass(name, Those(S))
  PROVE  /\ Left' = S /\ input' = input /\ sameFile' = sameFile
         /\ diffs' \in [S -> DOMAIN input]
         /\ \A i, j \in S : diffs'[i] = diffs'[j] => i = j
PROOF
  <1>1. diffs' = [i \in S |-> diffs[i]] /\ input' = input /\ sameFile' = sameFile
    BY DEF Pass, Those, Restrict
  <1>2. diffs \in [Left -> DOMAIN input] /\ \A i, j \in Left : diffs[i] = diffs[j] => i = j
    BY DEF ListInv, TypeOK
  <1> QED BY <1>1, <1>2 DEF Left

(* Of those with one marker one is the best, and only one.                    *)
LEMMA SomeoneIsBest ==
  ASSUME ListInv, NEW i \in Left
  PROVE  \E j \in Left : Best(j) /\ (j = i \/ SameMarker(i, j))
PROOF
  <1> DEFINE G == {k \in Left : k = i \/ SameMarker(i, k)}
  <1>1. G \in SUBSET Left /\ i \in G
    OBVIOUS
  <1>2. IsFiniteSet(G)
    BY <1>1, ListFacts, FS_Subset
  <1>3. PICK R : IsOrder(R, G) /\ \A k, l \in G : <<k, l>> \in R <=> MoreEvidence(k, l)
    BY <1>1, EvidenceOrder
  <1>4. PICK j \in G : \A k \in G : ~MoreEvidence(k, j)
    <2> HIDE DEF G
    <2>1. G # {}
      BY <1>1
    <2>2. \E j \in G : \A k \in G : <<k, j>> \notin R
      BY <1>2, <1>3, <2>1, SomeoneIsFirst
    <2> QED BY <1>3, <2>2
  <1>5. ASSUME NEW k \in Left, k # j, SameMarker(j, k) PROVE MoreEvidence(j, k)
    <2>1. k \in G
      BY <1>5, MarkersAreShared
    <2>2. ~MoreEvidence(k, j)
      BY <1>4, <2>1
    <2>3. /\ Len(input[j].evidence) \in Nat /\ diffs[j] \in Nat
          /\ Len(input[k].evidence) \in Nat /\ diffs[k] \in Nat
          /\ diffs[j] # diffs[k]
      BY <1>5, FindingTypes, ListFacts
    <2> QED BY <2>2, <2>3 DEF MoreEvidence, Earlier
  <1> QED BY <1>5 DEF Best

LEMMA OnlyOneIsBest ==
  ASSUME ListInv, NEW i \in Left, NEW j \in Left, i # j, SameMarker(i, j), Best(i)
  PROVE  ~Best(j)
PROOF
  <1>1. SameMarker(j, i)
    BY MarkersAreShared
  <1>2. Best(j) => MoreEvidence(i, j) /\ MoreEvidence(j, i)
    BY <1>1 DEF Best
  <1>3. /\ Len(input[j].evidence) \in Nat /\ diffs[j] \in Nat
        /\ Len(input[i].evidence) \in Nat /\ diffs[i] \in Nat
    BY FindingTypes, ListFacts
  <1> QED BY <1>2, <1>3 DEF MoreEvidence, Earlier

(* The place of the best is a place of its marker.                            *)
LEMMA FirstIsAPlace ==
  ASSUME ListInv, NEW i \in Left
  PROVE  \E k \in Left : (k = i \/ SameMarker(i, k)) /\ First(i) = diffs[k]
PROOF
  <1> DEFINE G == {k \in Left : k = i \/ SameMarker(i, k)}
             T == {diffs[k] : k \in G}
  <1>1. T \in SUBSET Nat /\ T # {}
    BY ListFacts
  <1>2. PICK x \in T : \A y \in T : x <= y
    BY <1>1, LeastElement
  <1>3. Min(T) \in T
    BY <1>2 DEF Min
  <1>4. First(i) = Min(T)
    BY DEF First
  <1> QED BY <1>3, <1>4

LEMMA MergingLeaves ==
  ASSUME ListInv, NEW name, Pass(name, MergedList)
  PROVE  /\ Left' = {i \in Left : Best(i)} /\ input' = input /\ sameFile' = sameFile
         /\ diffs' \in [Left' -> DOMAIN input]
         /\ \A i, j \in Left' : diffs'[i] = diffs'[j] => i = j
PROOF
  <1> DEFINE B == {i \in Left : Best(i)}
  <1>1. diffs' = [i \in B |-> First(i)] /\ input' = input /\ sameFile' = sameFile
    BY DEF Pass, MergedList
  <1>2. Left' = B
    BY <1>1 DEF Left
  <1>3. \A i \in B : First(i) \in DOMAIN input
    BY FirstIsAPlace DEF ListInv, TypeOK
  <1>4. ASSUME NEW i \in B, NEW j \in B, First(i) = First(j), i # j PROVE FALSE
    <2>1. PICK k \in Left : (k = i \/ SameMarker(i, k)) /\ First(i) = diffs[k]
      BY FirstIsAPlace
    <2>2. PICK l \in Left : (l = j \/ SameMarker(j, l)) /\ First(j) = diffs[l]
      BY FirstIsAPlace
    <2>3. k = l
      BY <1>4, <2>1, <2>2, ListFacts
    <2>4. SameMarker(i, j)
      BY <1>4, <2>1, <2>2, <2>3, MarkersAreShared
    <2> QED BY <1>4, <2>4, OnlyOneIsBest
  <1>5. \A i \in B : diffs'[i] = First(i)
    BY <1>1
  <1>6. \A i, j \in Left' : diffs'[i] = diffs'[j] => i = j
    BY <1>2, <1>4, <1>5
  <1>7. diffs' \in [Left' -> DOMAIN input]
    BY <1>1, <1>2, <1>3
  <1> QED BY <1>1, <1>2, <1>6, <1>7

(* The choice among the real ones is the greedy one.                          *)
LEMMA KeptIsGreedy ==
  ASSUME ListInv, NEW S \in SUBSET Left
  PROVE  Kept(S) \in SUBSET S /\ GreedyChoice(S, Kept(S))
PROOF
  <1>1. PICK R : IsOrder(R, S) /\ \A i, j \in S : <<i, j>> \in R <=> Precedes(i, j)
    BY PriorityOrder
  <1> DEFINE D == {p \in S \X S : CrossDuplicate(p[1], p[2])}
  <1>2. D \in SUBSET (S \X S) /\ \A i, j \in S : <<i, j>> \in D <=> CrossDuplicate(i, j)
    OBVIOUS
  <1>3. IsFiniteSet(S)
    BY ListFacts, FS_Subset
  <1> HIDE DEF D
  <1>4. \E K \in SUBSET S : \A i \in S : i \in K <=> \A j \in K : <<j, i>> \in R => <<i, j>> \notin D
    <2>1. IsOrder(R, S)
      BY <1>1
    <2> QED BY <1>2, <1>3, <2>1, ChoiceExists
  <1>5. PICK K \in SUBSET S : \A i \in S : i \in K <=> \A j \in K : <<j, i>> \in R => <<i, j>> \notin D
    BY <1>4
  <1>6. GreedyChoice(S, K)
    BY <1>1, <1>2, <1>5 DEF GreedyChoice
  <1> HIDE DEF GreedyChoice
  <1> QED BY <1>5, <1>6 DEF Kept

(* What the budget cuts. *)
Candidates == {i \in Left : Unresolved(i)}
InBudget ==
  {i \in Candidates : Cardinality({j \in Candidates : ComesBefore(j, i)}) < Budget}

LEMMA CutIsCounted ==
  ASSUME ListInv
  PROVE  /\ IsFiniteSet(Candidates) /\ Cardinality(Candidates) \in 0..Len(input)
         /\ IsFiniteSet(InBudget)
         /\ Cardinality(InBudget) = IF Budget <= Cardinality(Candidates)
                                    THEN Budget ELSE Cardinality(Candidates)
         /\ Cardinality(Candidates \ InBudget) = Larger(0, Cardinality(Candidates) - Budget)
PROOF
  <1> DEFINE C == Candidates
  <1>1. C \in SUBSET Left /\ C \in SUBSET DOMAIN input
    BY ListFacts DEF Candidates
  <1>2. IsFiniteSet(C) /\ Cardinality(C) \in Nat /\ Cardinality(C) <= Len(input)
    BY <1>1, ListFacts, FS_Subset, FS_CardinalityType
  <1>3. PICK R : /\ IsOrder(R, C) /\ \A i, j \in C : <<i, j>> \in R <=> ComesBefore(i, j)
                 /\ \A i, j \in C : i = j \/ ComesBefore(i, j) \/ ComesBefore(j, i)
    BY <1>1, CutOrder
  <1>4. \A i, j \in C : i = j \/ <<i, j>> \in R \/ <<j, i>> \in R
    BY <1>3
  <1>5. Budget \in Nat
    BY ChainAssumption
  <1> DEFINE K == {i \in C : Rank(R, C, i) < Budget}
  <1>6. InBudget = K
    <2>1. \A i \in C : {j \in C : ComesBefore(j, i)} = Before(R, C, i)
      BY <1>3 DEF Before
    <2> QED BY <2>1 DEF InBudget, Rank
  <1>7. /\ IsFiniteSet(K)
        /\ Cardinality(K) = IF Budget <= Cardinality(C) THEN Budget ELSE Cardinality(C)
    <2> HIDE DEF C
    <2> QED BY <1>2, <1>3, <1>4, <1>5, RanksAreCounted
  <1>8. Cardinality(C \ K) = Cardinality(C) - Cardinality(K)
    <2>1. C \cap K = K
      OBVIOUS
    <2> HIDE DEF C, K
    <2> QED BY <1>2, <2>1, FS_Difference
  <1>9. Cardinality(C \ K) = Larger(0, Cardinality(C) - Budget)
    <2> HIDE DEF C, K
    <2> QED BY <1>2, <1>5, <1>7, <1>8 DEF Larger
  <1>10. Len(input) \in Nat
    BY FindingTypes
  <1> QED BY <1>2, <1>6, <1>7, <1>9, <1>10

-----------------------------------------------------------------------------
(* The type invariant, and that passes only drop. *)
LEMMA ListInit == Init => ListInv
PROOF
  <1> SUFFICES ASSUME Init PROVE ListInv
    OBVIOUS
  <1>1. input \in Seq(Findings) /\ Len(input) \in Nat /\ DOMAIN input = 1..Len(input)
    BY ChainAssumption DEF Init
  <1>2. stage \in {Passes[n] : n \in 1..8}
    BY DEF Init
  <1> QED BY <1>1, <1>2 DEF Init, ListInv, TypeOK, Left

LEMMA ListNext ==
  ASSUME ListInv, [Next]_vars
  PROVE  ListInv' /\ Left' \subseteq Left /\ input' = input
PROOF
  <1>1. /\ "identical" \in {Passes[n] : n \in 1..8} /\ "twin" \in {Passes[n] : n \in 1..8}
        /\ "cross" \in {Passes[n] : n \in 1..8} /\ "again" \in {Passes[n] : n \in 1..8}
        /\ "budget" \in {Passes[n] : n \in 1..8} /\ "file" \in {Passes[n] : n \in 1..8}
        /\ "end" \in {Passes[n] : n \in 1..8}
    BY DEF Passes
  <1>2. /\ Left \subseteq DOMAIN input /\ suppressed \in 0..Len(input)
        /\ input \in Inputs /\ sameFile \in BOOLEAN
    BY DEF ListInv, TypeOK
  <1> DEFINE Kind == {"overlay", "identical", "twin", "cross", "again", "budget", "file"}
  <1>3. ASSUME NEW S \in SUBSET Left, NEW name \in Kind, Pass(name, Those(S)),
               suppressed' \in 0..Len(input)
        PROVE  ListInv' /\ Left' \subseteq Left /\ input' = input
    <2>1. stage' \in {Passes[n] : n \in 1..8}
      BY <1>1, <1>3, StageOrder
    <2>2. /\ Left' = S /\ input' = input /\ sameFile' = sameFile
          /\ diffs' \in [S -> DOMAIN input]
          /\ \A i, j \in S : diffs'[i] = diffs'[j] => i = j
      BY <1>3, FilterLeaves
    <2> HIDE DEF Passes
    <2> QED BY <1>2, <1>3, <2>1, <2>2 DEF ListInv, TypeOK, Left
  <1>4. CASE OverlayShadows
    BY <1>2, <1>3, <1>4 DEF OverlayShadows
  <1>5. CASE IdenticalDiffs
    <2>1. PICK name \in {"identical", "again"} : Pass(name, MergedList)
      BY <1>5 DEF IdenticalDiffs
    <2>2. stage' \in {Passes[n] : n \in 1..8}
      BY <1>1, <2>1, StageOrder
    <2>3. /\ Left' = {i \in Left : Best(i)} /\ input' = input /\ sameFile' = sameFile
          /\ diffs' \in [Left' -> DOMAIN input]
          /\ \A i, j \in Left' : diffs'[i] = diffs'[j] => i = j
      BY <2>1, MergingLeaves
    <2>4. suppressed' = suppressed
      BY <1>5 DEF IdenticalDiffs
    <2> QED BY <1>2, <2>2, <2>3, <2>4 DEF ListInv, TypeOK
  <1>6. CASE TwinConflicts
    BY <1>2, <1>3, <1>6 DEF TwinConflicts
  <1>7. CASE CrossRuleReal
    BY <1>2, <1>3, <1>7 DEF CrossRuleReal
  <1>8. CASE UnresolvedBudget
    <2>1. /\ Pass("budget", Those({i \in Left : Unresolved(i) => i \in InBudget}))
          /\ suppressed' = Larger(0, Cardinality(Candidates) - Budget)
      BY <1>8 DEF UnresolvedBudget, Candidates, InBudget
    <2>2. suppressed' \in 0..Len(input)
      BY <2>1, CutIsCounted, FindingTypes, ChainAssumption DEF Larger
    <2> QED BY <1>3, <2>1, <2>2
  <1>9. CASE SameFile
    BY <1>2, <1>3, <1>9 DEF SameFile
  <1>10. CASE UNCHANGED vars
    BY <1>10 DEF vars, ListInv, TypeOK, Left
  <1> QED BY <1>4, <1>5, <1>6, <1>7, <1>8, <1>9, <1>10 DEF Next

(* Every list that a pass returns names findings of the input, each in a      *)
(* place of its own.                                                          *)
THEOREM TypeCorrect == Spec => []TypeOK
PROOF
  <1>1. ListInv /\ [Next]_vars => ListInv'
    BY ListNext
  <1>2. ListInv => TypeOK
    BY DEF ListInv
  <1> QED BY ListInit, <1>1, <1>2, PTL DEF Spec

-----------------------------------------------------------------------------
(* What each pass achieves, later passes keep: they only drop.                *)
Achieved ==
  \A i, j \in Left : i # j =>
    /\ stage # "overlay" => ~OverlayShadow(i, j)
    /\ stage \notin {"overlay", "identical"} => ~SameMarker(i, j)
    /\ stage \notin {"overlay", "identical", "twin"} => ~TwinShadow(i, j)
    /\ stage \notin {"overlay", "identical", "twin", "cross"} =>
         (Real(i) /\ Real(j) => ~CrossDuplicate(i, j))

(* Each pass, by the name of the stage.                                       *)
LEMMA PassOfStage ==
  ASSUME [Next]_vars
  PROVE  /\ UNCHANGED vars \/ stage' # "overlay"
         /\ stage' = "identical" => stage = "overlay" \/ UNCHANGED vars
         /\ stage' = "twin" => stage = "identical" \/ UNCHANGED vars
         /\ stage' = "cross" => stage = "twin" \/ UNCHANGED vars
         /\ stage = "overlay" => OverlayShadows \/ UNCHANGED vars
         /\ stage = "identical" => Pass("identical", MergedList) \/ UNCHANGED vars
         /\ stage = "twin" => TwinConflicts \/ UNCHANGED vars
         /\ stage = "cross" => CrossRuleReal \/ UNCHANGED vars
         /\ stage = "again" => Pass("again", MergedList) \/ UNCHANGED vars
         /\ stage = "budget" => UnresolvedBudget \/ UNCHANGED vars
         /\ stage = "file" => SameFile \/ UNCHANGED vars
         /\ stage = "end" => UNCHANGED vars
         /\ stage # "overlay" /\ stage' = "identical" => UNCHANGED vars
PROOF
  <1>1. ASSUME NEW name, NEW list, Pass(name, list) PROVE stage = name
    BY <1>1 DEF Pass
  <1>2. OverlayShadows => stage = "overlay" /\ stage' = "identical"
    BY <1>1, StageOrder DEF OverlayShadows
  <1>3. IdenticalDiffs =>
          \/ Pass("identical", MergedList) /\ stage = "identical" /\ stage' = "twin"
          \/ Pass("again", MergedList) /\ stage = "again" /\ stage' = "budget"
    BY <1>1, StageOrder DEF IdenticalDiffs
  <1>4. TwinConflicts => stage = "twin" /\ stage' = "cross"
    BY <1>1, StageOrder DEF TwinConflicts
  <1>5. CrossRuleReal => stage = "cross" /\ stage' = "again"
    BY <1>1, StageOrder DEF CrossRuleReal
  <1>6. UnresolvedBudget => stage = "budget" /\ stage' = "file"
    BY <1>1, StageOrder DEF UnresolvedBudget
  <1>7. SameFile => stage = "file" /\ stage' = "end"
    BY <1>1, StageOrder DEF SameFile
  <1>8. UNCHANGED vars => stage' = stage
    BY DEF vars
  <1> QED BY <1>2, <1>3, <1>4, <1>5, <1>6, <1>7, <1>8 DEF Next

LEMMA PassesKeep ==
  ASSUME ListInv, Achieved, [Next]_vars
  PROVE  Achieved'
PROOF
  <1>1. Left' \subseteq Left /\ input' = input
    BY ListNext
  <1>2. /\ \A i, j : OverlayShadow(i, j)' <=> OverlayShadow(i, j)
        /\ \A i, j : SameMarker(i, j)' <=> SameMarker(i, j)
        /\ \A i, j : TwinShadow(i, j)' <=> TwinShadow(i, j)
        /\ \A i, j : CrossDuplicate(i, j)' <=> CrossDuplicate(i, j)
        /\ \A i : Real(i)' <=> Real(i)
    <2>1. \A i, j : OverlayShadow(i, j)' <=> OverlayShadow(i, j)
      BY <1>1 DEF OverlayShadow, HasBoth
    <2>2. \A i, j : SameMarker(i, j)' <=> SameMarker(i, j)
      BY <1>1 DEF SameMarker, Claimed
    <2>3. \A i : APage(i)' = APage(i)
      BY <1>1 DEF APage
    <2>4. \A i, j : TwinShadow(i, j)' <=> TwinShadow(i, j)
      BY <1>1, <2>3 DEF TwinShadow, HasBoth
    <2>5. \A i, j : CrossDuplicate(i, j)' <=> CrossDuplicate(i, j)
      BY <1>1 DEF CrossDuplicate, Near, Claimed
    <2> QED BY <1>1, <2>1, <2>2, <2>4, <2>5 DEF Real
  <1> SUFFICES ASSUME NEW i \in Left', NEW j \in Left', i # j
               PROVE  /\ stage' # "overlay" => ~OverlayShadow(i, j)
                      /\ stage' \notin {"overlay", "identical"} => ~SameMarker(i, j)
                      /\ stage' \notin {"overlay", "identical", "twin"} => ~TwinShadow(i, j)
                      /\ stage' \notin {"overlay", "identical", "twin", "cross"} =>
                           (Real(i) /\ Real(j) => ~CrossDuplicate(i, j))
    BY <1>2 DEF Achieved
  <1>3. i \in Left /\ j \in Left
    BY <1>1
  <1>4. CASE UNCHANGED vars
    BY <1>3, <1>4 DEF Achieved, vars
  <1>5. CASE stage = "overlay" /\ ~UNCHANGED vars
    <2>1. Pass("overlay", Those({k \in Left : \A l \in Left : ~OverlayShadow(k, l)}))
      BY <1>5, PassOfStage DEF OverlayShadows
    <2>2. stage' = "identical" /\ Left' = {k \in Left : \A l \in Left : ~OverlayShadow(k, l)}
      BY <2>1, StageOrder, FilterLeaves
    <2> QED BY <1>3, <2>2
  <1>6. CASE stage = "identical" /\ ~UNCHANGED vars
    <2>1. Pass("identical", MergedList)
      BY <1>6, PassOfStage
    <2>2. stage' = "twin" /\ Left' = {k \in Left : Best(k)}
      BY <2>1, StageOrder, MergingLeaves
    <2>3. ~SameMarker(i, j)
      BY <1>3, <2>2, OnlyOneIsBest
    <2> QED BY <1>3, <1>6, <2>2, <2>3 DEF Achieved
  <1>7. CASE stage = "twin" /\ ~UNCHANGED vars
    <2>1. Pass("twin", Those({k \in Left : \A l \in Left : ~TwinShadow(k, l)}))
      BY <1>7, PassOfStage DEF TwinConflicts
    <2>2. stage' = "cross" /\ Left' = {k \in Left : \A l \in Left : ~TwinShadow(k, l)}
      BY <2>1, StageOrder, FilterLeaves
    <2> QED BY <1>3, <1>7, <2>2 DEF Achieved
  <1>8. CASE stage = "cross" /\ ~UNCHANGED vars
    <2> DEFINE S == {k \in Left : Real(k)}
    <2>1. Pass("cross", Those({k \in Left : Real(k) => k \in Kept(S)}))
      BY <1>8, PassOfStage DEF CrossRuleReal
    <2>2. Left' = {k \in Left : Real(k) => k \in Kept(S)}
      BY <2>1, FilterLeaves
    <2>3. S \in SUBSET Left
      OBVIOUS
    <2>4. Kept(S) \in SUBSET S /\ GreedyChoice(S, Kept(S))
      BY <2>3, KeptIsGreedy
    <2>5. ASSUME Real(i), Real(j), CrossDuplicate(i, j) PROVE FALSE
      <3>1. i \in Kept(S) /\ j \in Kept(S)
        BY <2>2, <2>5
      <3>2. CrossDuplicate(j, i)
        BY <1>3, <2>5, DuplicatesAreMutual, ListFacts
      <3>3. Precedes(i, j) \/ Precedes(j, i)
        BY <1>3, <2>3, PriorityOrder
      <3>4. ~Precedes(i, j) /\ ~Precedes(j, i)
        BY <2>4, <2>5, <3>1, <3>2 DEF GreedyChoice
      <3> QED BY <3>3, <3>4
    <2> QED BY <1>3, <1>8, <2>5 DEF Achieved
  <1>9. CASE stage \notin {"overlay", "identical", "twin", "cross"}
    BY <1>3, <1>9 DEF Achieved
  <1> QED BY <1>4, <1>5, <1>6, <1>7, <1>8, <1>9

(* What the report lists names no place twice, whatever the checks returned   *)
(* and however many: the passes undo nothing of each other, and the greedy    *)
(* choice leaves no pair.                                                     *)
THEOREM NothingIsListedTwice == Spec => []NothingTwice
PROOF
  <1>1. Init => ListInv /\ Achieved
    BY ListInit DEF Init, Achieved, Passes
  <1>2. ListInv /\ Achieved /\ [Next]_vars => (ListInv /\ Achieved)'
    BY ListNext, PassesKeep
  <1>3. ListInv /\ Achieved => NothingTwice
    BY DEF Achieved, NothingTwice
  <1> QED BY <1>1, <1>2, <1>3, PTL DEF Spec

-----------------------------------------------------------------------------
(* Whoever is dropped before the budget has one to stand for it.              *)
Stands(i, j) ==
  /\ OverlayShadow(i, j) \/ SameMarker(i, j) \/ TwinShadow(i, j) \/ CrossDuplicate(i, j)
  /\ Real(i) => Real(j) \/ Mixed(i)

LEMMA TheseRulesAreReal ==
  ASSUME ListInv, NEW j \in Left,
         input[j].rule \in {"text_overlay_tamper", "table_row_value_conflict"}
  PROVE  Real(j)
PROOF BY ListFacts, ChainAssumption DEF ListInv, Real

LEMMA MergingStands ==
  ASSUME ListInv, NEW name, Pass(name, MergedList), NEW i \in Left \ Left'
  PROVE  \E j \in Left' : Stands(i, j)
PROOF
  <1>1. Left' = {k \in Left : Best(k)}
    BY MergingLeaves
  <1>2. PICK j \in Left : Best(j) /\ (j = i \/ SameMarker(i, j))
    BY SomeoneIsBest
  <1>3. j \in Left' /\ SameMarker(i, j)
    BY <1>1, <1>2
  <1>4. Real(i) => Real(j) \/ Mixed(i)
    BY <1>3, ListFacts DEF Real, Mixed
  <1> QED BY <1>3, <1>4 DEF Stands

LEMMA DroppedHasOne ==
  ASSUME ListInv, [Next]_vars, stage \notin {"budget", "file"}, NEW i \in Left \ Left'
  PROVE  \E j \in Left' : Stands(i, j)
PROOF
  <1>1. ~UNCHANGED vars
    BY DEF vars, Left
  <1>2. CASE stage = "overlay"
    <2>1. Pass("overlay", Those({k \in Left : \A l \in Left : ~OverlayShadow(k, l)}))
      BY <1>1, <1>2, PassOfStage DEF OverlayShadows
    <2>2. Left' = {k \in Left : \A l \in Left : ~OverlayShadow(k, l)}
      BY <2>1, FilterLeaves
    <2>3. PICK j \in Left : OverlayShadow(i, j)
      BY <2>2
    <2>4. input[j].rule = "text_overlay_tamper"
      BY <2>3 DEF OverlayShadow
    <2>5. j \in Left'
      BY <2>2, <2>4 DEF OverlayShadow
    <2> QED BY <2>3, <2>4, <2>5, TheseRulesAreReal DEF Stands
  <1>3. CASE stage \in {"identical", "again"}
    <2>1. PICK name \in {"identical", "again"} : Pass(name, MergedList)
      BY <1>1, <1>3, PassOfStage
    <2> QED BY <2>1, MergingStands
  <1>4. CASE stage = "twin"
    <2>1. Pass("twin", Those({k \in Left : \A l \in Left : ~TwinShadow(k, l)}))
      BY <1>1, <1>4, PassOfStage DEF TwinConflicts
    <2>2. Left' = {k \in Left : \A l \in Left : ~TwinShadow(k, l)}
      BY <2>1, FilterLeaves
    <2>3. PICK j \in Left : TwinShadow(i, j)
      BY <2>2
    <2>4. input[j].rule = "table_row_value_conflict"
      BY <2>3 DEF TwinShadow
    <2>5. j \in Left'
      BY <2>2, <2>4 DEF TwinShadow
    <2> QED BY <2>3, <2>4, <2>5, TheseRulesAreReal DEF Stands
  <1>5. CASE stage = "cross"
    <2> DEFINE S == {k \in Left : Real(k)}
    <2>1. Pass("cross", Those({k \in Left : Real(k) => k \in Kept(S)}))
      BY <1>1, <1>5, PassOfStage DEF CrossRuleReal
    <2>2. Left' = {k \in Left : Real(k) => k \in Kept(S)}
      BY <2>1, FilterLeaves
    <2>3. Kept(S) \in SUBSET S /\ GreedyChoice(S, Kept(S))
      BY KeptIsGreedy
    <2>4. i \in S /\ i \notin Kept(S)
      BY <2>2
    <2>5. PICK j \in Kept(S) : CrossDuplicate(i, j)
      BY <2>3, <2>4 DEF GreedyChoice
    <2>6. j \in Left' /\ Real(j)
      BY <2>2, <2>3, <2>5
    <2> QED BY <2>5, <2>6 DEF Stands
  <1>6. stage \in {"overlay", "identical", "again", "twin", "cross", "budget", "file", "end"}
    BY DEF ListInv, TypeOK, Passes
  <1>7. stage # "end"
    BY <1>1, PassOfStage
  <1> QED BY <1>2, <1>3, <1>4, <1>5, <1>6, <1>7

(* A duplicate goes only for a finding about the same place that stays, a     *)
(* real one for a real one: for every input, no place is lost.                *)
THEOREM NoPlaceIsLost == Spec => DroppedForOneThatStays
PROOF
  <1>1. ListInv /\ [Next]_vars =>
          [stage \notin {"budget", "file"} =>
             \A i \in Left \ Left' : \E j \in Left' :
               /\ OverlayShadow(i, j) \/ SameMarker(i, j) \/ TwinShadow(i, j) \/ CrossDuplicate(i, j)
               /\ Real(i) => Real(j) \/ Mixed(i)]_vars
    BY DroppedHasOne DEF Stands
  <1>2. ListInv /\ [Next]_vars => ListInv'
    BY ListNext
  <1> QED BY ListInit, <1>1, <1>2, PTL DEF Spec, DroppedForOneThatStays

(* The budget cuts the least important, and counts what it cuts.              *)
LEMMA CutIsFair ==
  ASSUME ListInv, [Next]_vars, stage = "budget", ~UNCHANGED vars
  PROVE  /\ \A i \in Left \ Left' :
              Unresolved(i) /\ \A j \in Left' : Unresolved(j) => ~MoreImportant(i, j)
         /\ suppressed' = Cardinality(Left \ Left')
         /\ suppressed' > 0 => Cardinality({j \in Left' : Unresolved(j)}) = Budget
PROOF
  <1>1. /\ Pass("budget", Those({i \in Left : Unresolved(i) => i \in InBudget}))
        /\ suppressed' = Larger(0, Cardinality(Candidates) - Budget)
    BY PassOfStage DEF UnresolvedBudget, Candidates, InBudget
  <1>2. Left' = {i \in Left : Unresolved(i) => i \in InBudget}
    BY <1>1, FilterLeaves
  <1>3. InBudget \in SUBSET Candidates /\ Candidates \in SUBSET Left
    BY DEF InBudget, Candidates
  <1>4. Left \ Left' = Candidates \ InBudget /\ {j \in Left' : Unresolved(j)} = InBudget
    BY <1>2, <1>3 DEF Candidates
  <1>5. ASSUME NEW i \in Candidates \ InBudget, NEW j \in InBudget, MoreImportant(i, j)
        PROVE  FALSE
    <2> DEFINE pred(k) == {l \in Candidates : ComesBefore(l, k)}
    <2>1. i \in Left /\ j \in Left /\ j \in Candidates
      BY <1>3
    <2>2. ComesBefore(i, j)
      BY <1>5 DEF ComesBefore
    <2>3. PICK R : /\ IsOrder(R, Candidates)
                   /\ \A k, l \in Candidates : <<k, l>> \in R <=> ComesBefore(k, l)
      BY <1>3, CutOrder
    <2>4. pred(i) \in SUBSET pred(j)
      BY <2>1, <2>2, <2>3 DEF IsOrder
    <2>5. IsFiniteSet(pred(i)) /\ IsFiniteSet(pred(j))
      BY CutIsCounted, FS_Subset
    <2>6. /\ Cardinality(pred(i)) <= Cardinality(pred(j))
          /\ Cardinality(pred(i)) \in Nat /\ Cardinality(pred(j)) \in Nat
      <3> HIDE DEF pred
      <3> QED BY <2>4, <2>5, FS_Subset, FS_CardinalityType
    <2>7. Cardinality(pred(j)) < Budget /\ ~(Cardinality(pred(i)) < Budget)
      BY DEF InBudget
    <2> QED BY <2>6, <2>7, ChainAssumption
  <1>6. suppressed' = Cardinality(Candidates \ InBudget)
    BY <1>1, CutIsCounted
  <1>7. suppressed' > 0 => Cardinality(InBudget) = Budget
    BY <1>1, CutIsCounted, ChainAssumption DEF Larger
  <1>8. \A i \in Candidates : Unresolved(i)
    BY DEF Candidates
  <1>9. \A i \in Left \ Left' :
          Unresolved(i) /\ \A j \in Left' : Unresolved(j) => ~MoreImportant(i, j)
    BY <1>4, <1>5, <1>8
  <1> QED BY <1>4, <1>6, <1>7, <1>9

THEOREM TheBudgetIsFair == Spec => BudgetIsFair
PROOF
  <1>1. ListInv /\ [Next]_vars =>
          [stage = "budget" =>
             /\ \A i \in Left \ Left' :
                  Unresolved(i) /\ \A j \in Left' : Unresolved(j) => ~MoreImportant(i, j)
             /\ suppressed' = Cardinality(Left \ Left')
             /\ suppressed' > 0 => Cardinality({j \in Left' : Unresolved(j)}) = Budget]_vars
    BY CutIsFair
  <1>2. ListInv /\ [Next]_vars => ListInv'
    BY ListNext
  <1> QED BY ListInit, <1>1, <1>2, PTL DEF Spec, BudgetIsFair

=============================================================================
