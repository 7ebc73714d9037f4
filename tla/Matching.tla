------------------------------ MODULE Matching ------------------------------
(* Matchings between two lists, as several checks make them: candidates are  *)
(* ranked and taken one after another while both partners are free.  A pair  *)
(* is <<i, j>>, positions in the two lists.                                  *)
EXTENDS Integers, Sequences, FiniteSets

Meets(p, q)  == p[1] = q[1] \/ p[2] = q[2]
Take(m, p)   == IF \E q \in m : Meets(p, q) THEN m ELSE m \union {p}
Greedy(ranked) ==
  LET after[k \in 0 .. Len(ranked)] ==
        IF k = 0 THEN {} ELSE Take(after[k - 1], ranked[k])
  IN  after[Len(ranked)]

(* A set as a list: order is the set of the pairs <<p, q>> of its elements   *)
(* of which p comes first, and an element's place says how many come before. *)
Listed(S, order) ==
  LET places == {<<Cardinality({q \in S : <<q, p>> \in order}) + 1, p>> : p \in S}
  IN  [k \in 1 .. Cardinality(S) |-> (CHOOSE place \in places : place[1] = k)[2]]

(* The elements of s at the given places, in the order of s.                 *)
Picked(s, places) ==
  LET at == Listed(places, {o \in places \X places : o[1] < o[2]})
  IN  [k \in DOMAIN at |-> s[at[k]]]

(* Lists one after another.  (Here and below the few operators that are      *)
(* needed, instead of all of SequencesExt: Checks has seven instances.)      *)
Joined(lists) ==
  LET upTo[n \in 0 .. Len(lists)] == IF n = 0 THEN <<>> ELSE upTo[n - 1] \o lists[n]
  IN  upTo[Len(lists)]

(* Candidates in the order of a rank, a sequence of numbers that is compared *)
(* from the left, larger first; a stable sort keeps ties in list order.      *)
Above(r, s) ==
  \E k \in 1 .. Len(r) : r[k] > s[k] /\ \A l \in 1 .. (k - 1) : r[l] = s[l]
InListOrder(p, q) == p[1] < q[1] \/ (p[1] = q[1] /\ p[2] < q[2])
InPlace(pairs) == Listed(pairs, {o \in pairs \X pairs : InListOrder(o[1], o[2])})
ByRank(entries) ==                       \* of <<rank, pair>>
  {o \in entries \X entries : \/ Above(o[1][1], o[2][1])
                              \/ o[1][1] = o[2][1] /\ InListOrder(o[1][2], o[2][2])}
Ranked(pairs, rank) ==
  LET entries == {<<rank[p], p>> : p \in pairs}
      sorted  == Listed(entries, ByRank(entries))
  IN  [k \in DOMAIN sorted |-> sorted[k][2]]

Lefts(m)  == {p[1] : p \in m}
Rights(m) == {p[2] : p \in m}

(* What a fair matching is: nobody is taken twice, and a candidate that was  *)
(* left out meets a pair of at least its rank.                               *)
OneToOne(m) == \A p, q \in m : Meets(p, q) => p = q
Unblocked(m, pairs, rank) ==
  \A p \in pairs \ m : \E q \in m : Meets(p, q) /\ ~Above(rank[p], rank[q])

Abs(n)       == IF n < 0 THEN -n ELSE n
Larger(a, b) == IF a > b THEN a ELSE b
(* |a - b| is at most, or less than, num / den of the larger of the two.     *)
Within(a, b, num, den) == Abs(a - b) * den <= num * Larger(Abs(a), Abs(b))
Below(a, b, num, den)  == Abs(a - b) * den < num * Larger(Abs(a), Abs(b))
=============================================================================
