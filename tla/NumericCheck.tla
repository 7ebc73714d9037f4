---------------------------- MODULE NumericCheck ----------------------------
(* The numeric comparison of two profiles, for one metric: candidates of the *)
(* two sides are scored, explainable pairs matched one to one, and the best  *)
(* of what is left is judged.                                                *)
(*                                                                           *)
(* An occurrence of the metric is                                            *)
(*   value, unit     the amount and the multiplier of its unit               *)
(*   section, words  where it was found, and the kinds of context words there *)
(*   bucket          added by Candidates: what section and words amount to   *)
(*   quarter, year   period context; year 0 when no year is recognised       *)
(*   col             column key, "none" when there is none                   *)
(*   conf, hit       confidence in per cent; a canonical term is in the text *)
(*   source          "table", "text" or "pattern"                            *)
(* Amounts are integers, scores are in thousandths.                          *)
EXTENDS Matching, Functions, TLC

CONSTANT Multipliers   \* of the units: 1, thousand, 10 thousand, million, 100 million

Norm(x)  == x.value * x.unit

(* _context_bucket: statements by their section, else the first kind of      *)
(* context whose words are there.                                            *)
BucketOrder == <<"parent", "instruments", "risk", "shares", "segment", "highlights", "main">>
Bucket(x) ==
  LET hits == SelectSeq(BucketOrder, LAMBDA b : b \in x.words \/ (b = "shares" /\ x.section = "share_changes"))
  IN IF x.section = "statement" THEN "main" ELSE IF hits = <<>> THEN "unknown" ELSE Head(hits)

(* _filter_profile_candidates, for a key of the statements; shareOk: the key *)
(* may be read from tables of shareholders.                                  *)
NonMonetary(v) == (1990 <= v /\ v <= 2035) \/ (0 < Abs(v) /\ Abs(v) < 50)
Bad(x, shareOk) ==
  \/ x.conf < 65
  \/ x.bucket = "shares" /\ ~shareOk
  \/ "holder" \in x.words
  \/ NonMonetary(x.value) /\ x.source = "pattern"
Bucketed(x) == [f \in DOMAIN x \union {"bucket"} |-> IF f = "bucket" THEN Bucket(x) ELSE x[f]]
Candidates(items, shareOk) ==
  LET all == [i \in DOMAIN items |-> Bucketed(items[i])]
  IN  Picked(all, {i \in DOMAIN items : ~Bad(all[i], shareOk)})

(* _contexts_compatible                                                      *)
Compatible(a, h, shareOk) ==
  /\ a.quarter = h.quarter
  /\ \/ a.bucket = h.bucket /\ a.bucket # "unknown" /\ (a.bucket = "shares" => shareOk)
     \/ {a.bucket, h.bucket} = {"main", "highlights"}

Label(a, h)  == IF a.hit /\ h.hit THEN 920 ELSE IF a.hit \/ h.hit THEN 720 ELSE 620
Period(a, h) == IF a.quarter # h.quarter THEN 0
                ELSE IF a.year = 0 \/ h.year = 0 THEN 800
                ELSE IF a.year = h.year THEN 1000 ELSE 0
Source(a, h) == (IF a.source = "table" THEN 500 ELSE 250) + (IF h.source = "table" THEN 500 ELSE 250)
Ratio(a, h)  == IF a = h THEN 0 ELSE (Abs(a - h) * 1000) \div Larger(Abs(a), Abs(h))

(* _score_candidate_pair: column keys that are both known must agree; factor *)
(* is 0 when no currency factor was inferred.                                *)
Scored(a, h) == a.col = "none" \/ h.col = "none" \/ a.col = h.col
Closest(a, h, factor) ==
  LET direct == Ratio(Norm(a), Norm(h))
      converted == Ratio(Norm(a), Norm(h) * factor)
  IN IF factor # 0 /\ converted < direct THEN converted ELSE direct
Score(a, h, factor, shareOk) ==
  (280 * (IF Compatible(a, h, shareOk) THEN 1000 ELSE 0) + 240 * Label(a, h)
   + 100 * (a.conf + h.conf) * 10 + 120 * Period(a, h) + 80 * Source(a, h)
   + 80 * (1000 - Closest(a, h, factor))) \div 1000

(* _is_high_conf_same_scope                                                  *)
SameScope(a, h, factor, shareOk) ==
  /\ Compatible(a, h, shareOk) /\ a.conf + h.conf >= 176
  /\ Period(a, h) >= 500 /\ Source(a, h) >= 500
  /\ Score(a, h, factor, shareOk) >= 720

(* _try_unit_fix: some pair of multipliers brings the values within 2 %.     *)
UnitFixable(a, h) == \E m, n \in Multipliers : Within(a.value * m, h.value * n, 2, 100)

(* _pair_match_kind                                                          *)
YearsAgree(a, h) == a.year = 0 \/ h.year = 0 \/ a.year = h.year
KindAgreed(a, h, factor, tol) ==        \* what the values say in compatible contexts
  IF \/ Abs(Norm(a) - Norm(h)) <= tol * a.unit
     \/ Within(Norm(a), Norm(h), 5, 1000) THEN "direct"
  ELSE IF a.unit # h.unit /\ Within(Norm(a), Norm(h), 2, 100) THEN "unit_conversion"
  ELSE IF UnitFixable(a, h) THEN "unit_fix"
  ELSE IF Within(Norm(a), Norm(h), 1, 100) THEN "rounding"
  ELSE IF factor # 0 /\ Within(Norm(a), Norm(h) * factor, 5, 100) THEN "currency"
  ELSE "none"
KindInContext(a, h, factor, tol, shareOk) ==   \* Mutant: contexts matter for equal values too.
  IF ~Compatible(a, h, shareOk) \/ ~YearsAgree(a, h) THEN "none" ELSE KindAgreed(a, h, factor, tol)
Kind(a, h, factor, tol, shareOk) ==
  IF Norm(a) = Norm(h) THEN IF YearsAgree(a, h) THEN "direct" ELSE "none"
  ELSE IF ~Compatible(a, h, shareOk) THEN "none" ELSE KindAgreed(a, h, factor, tol)

(* _check_pair on a pair: what it reports, "" for nothing.                   *)
Graded(a, h) ==
  IF Below(a, h, 1, 100) THEN "low"
  ELSE IF Below(a, h, 5, 100) THEN "medium"
  ELSE IF Below(a, h, 20, 100) THEN "high" ELSE "critical"
CheckPair(a, h, tol) ==
  IF NonMonetary(a.value) /\ NonMonetary(h.value) THEN ""
  ELSE IF Abs(Norm(a) - Norm(h)) <= tol THEN ""
  ELSE IF ~Within(Norm(a), Norm(h), 1, 2) /\ UnitFixable(a, h) THEN "expected"
  ELSE IF a.unit # h.unit /\ Within(Norm(a), Norm(h), 2, 100) THEN "expected"
  ELSE IF a.unit = h.unit /\ Within(Norm(a), Norm(h), 1, 100) THEN "expected"
  ELSE Graded(Norm(a), Norm(h))

(* One key of run_numeric_checks_on_profiles, a comparison q of              *)
(*   as, hs      the candidates of the two sides, sequences                  *)
(*   factor      the inferred currency factor, tol the tolerance of the rule *)
(*   shareOk     the key may be read from tables of shareholders             *)
(*   core        the key is one of _CORE_KEYS                                *)
(*   review      the model's answer: comparable, and its confidence          *)
Pairs(q) == {p \in (1 .. Len(q.as)) \X (1 .. Len(q.hs)) : Scored(q.as[p[1]], q.hs[p[2]])}
ScoreOf(q, p) == Score(q.as[p[1]], q.hs[p[2]], q.factor, q.shareOk)
KindOf(q, p)  == Kind(q.as[p[1]], q.hs[p[2]], q.factor, q.tol, q.shareOk)
Explained(q)  == {p \in Pairs(q) : KindOf(q, p) # "none"}
RankOf(q, p) ==
  LET a == q.as[p[1]] h == q.hs[p[2]]
  IN <<IF KindOf(q, p) = "currency" THEN 1 ELSE 0, IF Compatible(a, h, q.shareOk) THEN 1 ELSE 0,
       ScoreOf(q, p), - Ratio(Norm(a), Norm(h))>>
Ranks(q)  == [p \in Explained(q) |-> RankOf(q, p)]
Order(q)  == Ranked(Explained(q), Ranks(q))
RightsTwice(q) ==                        \* Mutant: only the left partner is consumed.
  LET order == Order(q)
      after[n \in 0 .. Len(order)] ==
        IF n = 0 THEN {}
        ELSE IF \E r \in after[n - 1] : r[1] = order[n][1] THEN after[n - 1] ELSE after[n - 1] \union {order[n]}
  IN  after[Len(order)]
Assigned(q) == Greedy(Order(q))

(* What the best explained pair is told as; matches in silence are <<>>.     *)
Told(q) ==
  IF Explained(q) = {} THEN <<>>
  ELSE LET p == Head(Order(q))
       IN IF KindOf(q, p) = "currency" THEN <<"currency_converted_match">>
          ELSE IF KindOf(q, p) # "direct" /\ CheckPair(q.as[p[1]], q.hs[p[2]], q.tol) = "expected"
          THEN <<"expected">> ELSE <<>>

(* The pairs with both partners free, and the verdict on the best of them.   *)
Left(q) == {p \in Pairs(q) : p[1] \notin Lefts(Assigned(q)) /\ p[2] \notin Rights(Assigned(q))}
(* The model is asked when rules often miss the scope, and may only say that *)
(* the two are not comparable.                                               *)
NeedsReview(a, h) ==
  \/ a.quarter \/ h.quarter
  \/ (a.words \union h.words) \intersect {"highlights", "indicator"} # {}
  \/ a.bucket # h.bucket
  \/ Period(a, h) < 1000
Downgraded(q, a, h) == NeedsReview(a, h) /\ ~q.review.comparable /\ q.review.conf >= 80
Unsure(q, a, h) == IF Compatible(a, h, q.shareOk) THEN "low_confidence_candidate" ELSE "context_mismatch"
Judge(q, p) ==
  LET a == q.as[p[1]] h == q.hs[p[2]]
  IN IF SameScope(a, h, q.factor, q.shareOk)
     THEN IF Downgraded(q, a, h) THEN <<"llm_semantic_review">>
          ELSE IF ~Within(Norm(a), Norm(h), 1, 10) THEN <<Unsure(q, a, h)>>
          ELSE IF CheckPair(a, h, q.tol) = "" THEN <<>>
          ELSE <<CheckPair(a, h, q.tol)>>
     ELSE IF ~Compatible(a, h, q.shareOk) /\ ~q.core THEN <<>> ELSE <<Unsure(q, a, h)>>
Diffs(q) ==
  LET left == Left(q)
  IN Told(q) \o (IF left = {} THEN <<>>
                 ELSE Judge(q, Head(Ranked(left, [p \in left |-> <<ScoreOf(q, p)>>]))))

(* _infer_currency_factor, in hundredths: ratios is what the keys' best      *)
(* pairs give, as a sorted sequence; 0 for no factor.                        *)
Folded(r)   == IF 400 <= r /\ r <= 1000 THEN r
               ELSE IF 10 <= r /\ r <= 25 THEN 10000 \div r ELSE 0
Factor(ratios) ==
  LET rs == SortSeq(SelectSeq([i \in DOMAIN ratios |-> Folded(ratios[i])],
                              LAMBDA r : r # 0), <)
      median == rs[(Len(rs) \div 2) + 1]
      close == SelectSeq(rs, LAMBDA r : Abs(r - median) * 10 <= median)
  IN IF Len(rs) < 2 THEN 0
     ELSE IF \/ Len(close) >= 3
             \/ Len(close) >= 2 /\ close[Len(close)] * 100 <= 104 * Head(close)
     THEN FoldFunction(+, 0, close) \div Len(close)
     ELSE 0
=============================================================================
