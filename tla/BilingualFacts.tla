---------------------------- MODULE BilingualFacts ----------------------------
(* The facts of paired paragraphs of the Chinese and the English report: how *)
(* they are read from the text, matched, and told as findings; and what is   *)
(* made of the issues that the model reports for the same pairs.             *)
(*                                                                           *)
(* A mention of a number in a text is                                        *)
(*   kind       "amount", "count", "pct" or "date"                           *)
(*   n, unit    the digits and the unit after them, "" for none              *)
(*   cur        the currency written, "" for none                            *)
(*   words      what the patterns find around it                             *)
(*   pos        where it is, in per cent of the text                         *)
(*   rate       it is a dividend per ten shares                              *)
(* and a fact is what _extract_* makes of it.                                *)
EXTENDS Matching, Columns, Functions

CONSTANTS Fx,                \* of a currency, to HKD, in tenths
          Tolerance,         \* bilingual_cross_currency_tolerance, in per mille
          Scales             \* the ratios that look like a unit, 1000 and more

UnitValue(u) == CASE u = "thousand" -> 1000 [] u = "wan" -> 10000 [] u = "million" -> 1000000
                  [] u = "baiwan" -> 1000000 [] OTHER -> 1

(* ---- Reading facts --------------------------------------------------------- *)
AmountRoles == <<"eps", "dividend", "equity", "litigation">>   \* by words, then by category of term
Categories  == <<"assets", "liabilities", "revenue", "expenses", "share">>
Terms       == {Categories[i] : i \in DOMAIN Categories} \union {"term"}
PctRoles    == {"coupon_rate", "gross_margin", "roe"}
Events      == {"corporate", "governance", "disclosure"}
Hints       == {"board", "listing"}

(* _infer_amount_role *)
AmountRole(words) ==
  IF FirstOf(AmountRoles, words) # "" THEN FirstOf(AmountRoles, words)
  ELSE IF FirstOf(Categories, words) # "" THEN FirstOf(Categories, words)
  ELSE IF words \intersect Terms # {} THEN "other" ELSE "amount"

(* What stands in the text; declared is the currency of the unit that the    *)
(* text declares for its amounts, "" for none.  The declared unit itself      *)
(* changes no amount: every pattern asks for a unit or a currency.           *)
Fact(x, kind, role, unit) ==
  [kind |-> kind, role |-> role, value |-> x.n * UnitValue(unit), cur |-> x.cur, unit |-> unit,
   words |-> x.words, pos |-> x.pos, raw |-> <<x.n, x.unit, IF x.cur = "CNY" THEN "" ELSE x.cur>>]
AmountFacts(text, declared) ==
  LET kept == Picked(text, {i \in DOMAIN text : text[i].kind = "amount" /\ ~text[i].rate
                                                  /\ (text[i].unit # "" \/ text[i].cur # "")})
      Read(x) == Fact(x, "amount", AmountRole(x.words), x.unit)
  IN [i \in DOMAIN kept |-> [Read(kept[i]) EXCEPT !.cur = IF @ = "" THEN declared ELSE @]]
RateFacts(text) ==
  LET kept == Picked(text, {i \in DOMAIN text : text[i].kind = "amount" /\ text[i].rate})
  IN [i \in DOMAIN kept |-> [Fact(kept[i], "amount", "per_10_shares", "") EXCEPT !.cur = ""]]
CountFacts(text) ==
  LET kept == Picked(text, {i \in DOMAIN text : text[i].kind = "count"})
  IN [i \in DOMAIN kept |-> Fact(kept[i], "count", "count", kept[i].unit)]
(* A percentage of no known role is named after its place among those kept.  *)
Positional == <<"pct0", "pct1", "pct2", "pct3">>
PctFacts(text) ==
  LET kept == Picked(text, {i \in DOMAIN text : text[i].kind = "pct"
                /\ (text[i].words \intersect PctRoles # {} \/ "excluded" \notin text[i].words)})
      Role(i) == IF kept[i].words \intersect PctRoles # {}
                 THEN CHOOSE r \in kept[i].words : r \in PctRoles ELSE Positional[i]
  IN [i \in DOMAIN kept |-> Fact(kept[i], "pct", Role(i), "")]
DateFacts(text) ==
  LET kept == Picked(text, {i \in DOMAIN text : text[i].kind = "date" /\ "period" \notin text[i].words
                                                 /\ text[i].words \intersect Events # {}})
  IN [i \in DOMAIN kept |-> Fact(kept[i], "date", "date", "")]
Facts(text, declared) ==
  RateFacts(text) \o CountFacts(text) \o AmountFacts(text, declared) \o PctFacts(text) \o DateFacts(text)

(* ---- Matching facts -------------------------------------------------------- *)
CrossCurrency(z, e) == z.cur # "" /\ e.cur # "" /\ z.cur # e.cur
(* _single_value_match *)
SameValue(z, e) ==
  IF z.kind = "date" THEN z.value = e.value
  ELSE IF CrossCurrency(z, e) /\ z.cur \in DOMAIN Fx /\ e.cur \in DOMAIN Fx
  THEN LET a == z.value * Fx[z.cur] h == e.value * Fx[e.cur]
       IN Abs(a - h) <= Tolerance * (Larger(a, h) \div 1000)
  ELSE z.value = e.value \/ z.raw = e.raw

(* _classify_percentage_context, _percentage_role_keywords_compatible        *)
PctClass(f) == FirstOf(<<"proportion", "rate", "growth">>, f.words)
PctAgree(z, e) ==
  /\ z.role = e.role
  /\ IF z.role \in {Positional[i] : i \in DOMAIN Positional}
     THEN PctClass(z) # "" /\ PctClass(z) = PctClass(e)
     ELSE TRUE                                  \* specific roles agree by name
(* _fact_context_compatible; several: both sides have facts of this role to  *)
(* choose from.  Every term of Terms but "term" tells matters apart.         *)
ContextAgrees(z, e, several) ==
  LET zs == z.words \intersect Terms es == e.words \intersect Terms
  IN /\ z.kind = "pct" => PctAgree(z, e)
     /\ z.kind = "amount" /\ several => Abs(z.pos - e.pos) <= 40
     /\ IF zs = {} \/ es = {} THEN TRUE
        ELSE IF several /\ z.kind = "amount" THEN (zs \intersect es) \ {"term"} # {}
        ELSE zs \intersect es # {}
(* _date_context_similar *)
DatesAlike(z, e) ==
  /\ z.words \intersect e.words \intersect Events # {}
  /\ LET zh == z.words \intersect Hints eh == e.words \intersect Hints
     IN zh = {} \/ eh = {} \/ zh \intersect eh # {}

(* _fact_match_score: infinite for what does not fit, else small is good;     *)
(* what looks like a change of unit is better than any other difference.      *)
Fits(z, e, several) ==
  /\ <<z.kind, z.role>> = <<e.kind, e.role>>
  /\ z.kind \in {"date", "amount", "pct"} => ContextAgrees(z, e, several)
RatioIs(a, h, f) == LET lo == IF a < h THEN a ELSE h hi == Larger(a, h)
                    IN Abs((20 * hi) \div lo - 20 * f) <= f
Scaled(a, h) == a # 0 /\ h # 0 /\ \E f \in Scales : RatioIs(a, h, f)
Unlike == 10000 * 1000                     \* of two dates, in tenths as all
FactScore(z, e) ==
  IF SameValue(z, e) THEN 0
  ELSE IF z.kind = "date" THEN Unlike
  ELSE IF z.value = 0 \/ e.value = 0 THEN Abs(z.value - e.value)
  ELSE IF Scaled(z.value, e.value) THEN 1
  ELSE (Larger(z.value, e.value) * 10) \div (IF z.value < e.value THEN z.value ELSE e.value)
OfRole(fs, r) == Picked(fs, {i \in DOMAIN fs : <<fs[i].kind, fs[i].role>> = r})
(* _optimal_fact_pairs                                                        *)
Candidates(zs, es) ==
  LET several == Len(zs) >= 2 /\ Len(es) >= 2
  IN {p \in (DOMAIN zs) \X (DOMAIN es) : Fits(zs[p[1]], es[p[2]], several)}
RankOf(zs, es, p) == <<- FactScore(zs[p[1]], es[p[2]])>>
FactPairs(zs, es) == Greedy(Ranked(Candidates(zs, es), [p \in Candidates(zs, es) |-> RankOf(zs, es, p)]))

(* ---- Findings of the regular path: _fact_diffs ------------------------------ *)
(* A pair of paragraphs is zh, en (facts), conf (in per cent), shared (they   *)
(* share an entity), zhPage and enPage.                                      *)
UnitExplains(z, e) ==
  LET zu == UnitValue(z.unit) eu == UnitValue(e.unit)
  IN \/ zu # eu /\ zu > 1 /\ eu > 1 /\ RatioIs(z.value, e.value, Larger(zu, eu) \div (IF zu < eu THEN zu ELSE eu))
     \/ z.unit # "" /\ e.unit = "" /\ zu > 1 /\ RatioIs(z.value, e.value, zu)
     \/ e.unit # "" /\ z.unit = "" /\ eu > 1 /\ RatioIs(z.value, e.value, eu)
Compared(pair) ==
  /\ ~(Len(pair.zh) >= 3 /\ pair.en = <<>>) /\ ~(Len(pair.en) >= 3 /\ pair.zh = <<>>)
  /\ pair.conf >= 85 \/ pair.shared
Amounts(fs) == Len(SelectSeq(fs, LAMBDA f : f.kind = "amount"))
Crowded(pair) ==
  \/ Amounts(pair.zh) >= 2 /\ Amounts(pair.en) >= 2
  \/ Len(pair.zh) >= 3 /\ Len(pair.en) >= 2
  \/ Len(pair.en) >= 3 /\ Len(pair.zh) >= 2
(* The date is one of several that the texts mention.                        *)
DateUnsure(pair, zs, es) == Len(zs) > 1 \/ Len(es) > 1 \/ pair.dates > Len(zs) \/ pair.dates > Len(es)
Verdict(pair, r, zs, es, z, e) ==
  LET crowd == r[1] # "date" /\ Len(zs) >= 2 /\ Len(es) >= 2
      info  == Crowded(pair) \/ crowd \/ (r[1] = "date" /\ DateUnsure(pair, zs, es))
      plain == IF r[1] = "amount" THEN "high" ELSE "medium"
      sure  == r[1] # "date" /\ Len(zs) = 1 /\ Len(es) = 1 /\ pair.shared /\ pair.conf >= 80
  IN IF info THEN [severity |-> "info", triage |-> "unresolved"]
     ELSE IF CrossCurrency(z, e)
     THEN [severity |-> IF plain = "high" THEN "medium" ELSE "low", triage |-> "unresolved"]
     ELSE [severity |-> plain, triage |-> IF sure THEN "real" ELSE "unresolved"]
Told(pair, zs, es, p) ==
  LET z == zs[p[1]] e == es[p[2]]
  IN /\ ~SameValue(z, e)
     /\ ~(z.kind = "amount" /\ Scaled(z.value, e.value) /\ UnitExplains(z, e))
     /\ z.kind = "date" => DatesAlike(z, e)
Finding(pair, z, e, verdict) ==
  [zhPage |-> pair.zhPage, enPage |-> pair.enPage, zh |-> z, en |-> e,
   severity |-> verdict.severity, triage |-> verdict.triage]
FactFindings(pair) ==
  IF ~Compared(pair) THEN {}
  ELSE UNION {LET zs == OfRole(pair.zh, r) es == OfRole(pair.en, r)
              IN {Finding(pair, zs[p[1]], es[p[2]], Verdict(pair, r, zs, es, zs[p[1]], es[p[2]])) :
                    p \in {q \in FactPairs(zs, es) : Told(pair, zs, es, q)}} :
              r \in {<<f.kind, f.role>> : f \in Range(pair.zh)} \intersect
                    {<<f.kind, f.role>> : f \in Range(pair.en)}}
(* _compare_row_facts: a pair of rows says neither how sure its alignment is, *)
(* for which 0.5 is taken, nor whether an entity is shared.                   *)
RowFindings(zh, en) ==
  FactFindings([zh |-> zh.facts, en |-> en.facts, conf |-> 50, shared |-> FALSE, dates |-> 0, zhPage |-> 1, enPage |-> 1])
=============================================================================
