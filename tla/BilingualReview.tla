--------------------------- MODULE BilingualReview ---------------------------
(* What the model says of paired paragraphs: pairs are chosen and sent in     *)
(* batches, each issue that comes back passes the layers of                   *)
(* _make_llm_fact_diff, and the findings of the regular path fill the gaps.   *)
(*                                                                            *)
(* An issue is                                                                *)
(*   at          pair_index, a place in its batch or any other number         *)
(*   type        "amount", "pct", "date", "missing" or "disclosure"           *)
(*   zh, en      the values it quotes, each <<digits, unit>>, as they stand   *)
(*   severity    "high", "medium" or "low"; conf in per cent                  *)
(*   coherent    the numbers of its text are among its values                 *)
(*   found       both values stand in their texts                             *)
(*   roles       how the roles of the two values compare: "same",             *)
(*               "different", "likely" (different) or "unknown"               *)
(*   named       the model names two different roles                          *)
(*   misused     the English value is that of another field of the paragraph  *)
EXTENDS BilingualFacts

CONSTANTS MaxPairs, BatchSize   \* bilingual_fact_max_pairs, bilingual_fact_batch_size

(* _parse_numeric_value looks for "wan" before "baiwan", which contains it.   *)
ParsedUnit(u) == IF u = "baiwan" THEN UnitValue("wan") ELSE UnitValue(u)
Parsed(v)     == v[1] * ParsedUnit(v[2])
ParsedSame(i) == Abs(Parsed(i.zh) - Parsed(i.en)) * 10000 <= Larger(Larger(Parsed(i.zh), Parsed(i.en)), 1)
Numeric       == {"amount", "pct", "numeric", "date", "missing"}

(* Layers 1, 1.5 and 2 discard.                                               *)
Discarded(i) ==
  \/ ParsedSame(i) /\ i.type \in Numeric
  \/ ~i.coherent
  \/ i.type \in {"amount", "pct", "date"} /\ ~i.found
(* Layer 3: facts of the two texts near the values, matched again, are equal. *)
About(fs, v) == SelectSeq(fs, LAMBDA f : f.kind = "amount" /\ Abs(f.value - v) * 20 < Larger(v, 1))
Refuted(i, pair) ==
  /\ i.type = "amount"
  /\ LET zs == About(pair.zh, Parsed(i.zh)) es == About(pair.en, Parsed(i.en))
     IN \E p \in FactPairs(zs, es) : SameValue(zs[p[1]], es[p[2]])
(* Layer 4: roles, when they differ, cap the confidence.  min(severity,       *)
(* MEDIUM) compares names, and every name is at most "medium".                *)
Capped(i) == IF i.type \in {"amount", "pct"} /\ i.roles = "different" THEN 60
             ELSE IF i.type \in {"amount", "pct"} /\ i.roles = "likely" THEN 55 ELSE 100
Lesser(a, b) == IF a < b THEN a ELSE b
Confidence(i, pair) ==
  Lesser(Lesser(i.conf, Capped(i)),
         IF Refuted(i, pair) THEN 50 ELSE IF ParsedSame(i) THEN 70 ELSE 100)
Severity(i, pair) == IF Refuted(i, pair) THEN "info" ELSE i.severity
Sure == 85                                      \* bilingual_llm_triage_confidence
IssueFinding(i, pair) ==
  LET hard == i.misused \/ i.named
      level == IF hard THEN "high" ELSE Severity(i, pair)
  IN [zhPage |-> pair.zhPage, enPage |-> pair.enPage, zh |-> i.zh, en |-> i.en, severity |-> level,
      triage |-> IF hard \/ (level = "high" /\ Confidence(i, pair) >= Sure) THEN "real" ELSE "unresolved"]

(* _select_fact_compare_pairs: amounts first, then confidence.                *)
FactKinds(pair) == {f.kind : f \in Range(pair.zh) \union Range(pair.en)}
Priority(pair) ==
  <<IF "amount" \in FactKinds(pair) THEN 4 ELSE IF "pct" \in FactKinds(pair) THEN 3
    ELSE IF "date" \in FactKinds(pair) THEN 2 ELSE 1, pair.conf>>
Selected(pairs) ==
  IF Len(pairs) <= MaxPairs THEN pairs
  ELSE LET order == Listed(DOMAIN pairs, {o \in (DOMAIN pairs) \X (DOMAIN pairs) :
                      \/ Above(Priority(pairs[o[1]]), Priority(pairs[o[2]]))
                      \/ Priority(pairs[o[1]]) = Priority(pairs[o[2]]) /\ o[1] < o[2]})
       IN [i \in 1 .. MaxPairs |-> pairs[order[i]]]
Batches(pairs) ==
  [b \in 1 .. ((Len(pairs) + BatchSize - 1) \div BatchSize) |->
     SubSeq(pairs, (b - 1) * BatchSize + 1, Lesser(b * BatchSize, Len(pairs)))]

(* _merge_regex_and_llm_fact_diffs: a finding is known by its pages and the   *)
(* numbers quoted; regular findings of high severity come in once for each.   *)
Digits(v) == v[1]
Signature(d) == <<d.zhPage, d.enPage, Digits(d.zh), Digits(d.en)>>
Quoted(d) == [d EXCEPT !.zh = d.zh.raw, !.en = d.en.raw]
Merged(regular, told) ==
  LET seen == {Signature(t) : t \in told}
      fill == {d \in {Quoted(r) : r \in regular} : d.severity = "high" /\ Signature(d) \notin seen}
  IN told \union {CHOOSE d \in fill : Signature(d) = s : s \in {Signature(d) : d \in fill}}

(* _llm_fact_diffs: answers is what each batch is answered, a sequence of     *)
(* issues, or NoAnswer when the call fails or its reply cannot be read.       *)
Answer(issues) == [heard |-> TRUE, issues |-> issues]
NoAnswer == [heard |-> FALSE, issues |-> <<>>]
(* _legacy_pairs_from_alignments: without a shared entity confidence halves.  *)
Paired(pairs, least) ==
  LET Halved(p) == IF p.shared THEN p ELSE [p EXCEPT !.conf = p.conf \div 2]
      sure == {k \in DOMAIN pairs : pairs[k].conf >= least /\ Halved(pairs[k]).conf >= least}
  IN Picked([k \in DOMAIN pairs |-> Halved(pairs[k])], sure)
Regular(pairs) == UNION {FactFindings(pairs[k]) : k \in DOMAIN pairs}
Unheard(sent, heard) ==                         \* pairs of the batches without an answer
  LET after[b \in 0 .. Len(sent)] ==
        IF b = 0 THEN 0 ELSE after[b - 1] + (IF b \in heard THEN 0 ELSE Len(sent[b]))
  IN  after[Len(sent)]
Review(pairs, answers) ==
  LET all == Paired(pairs, 75)
      sent == Batches(Selected(all))
      heard == {b \in DOMAIN sent : answers[b].heard}
      Told1(b) == {IssueFinding(i, sent[b][i.at + 1]) :
                     i \in {j \in Range(answers[b].issues) : j.at + 1 \in DOMAIN sent[b] /\ ~Discarded(j)}}
      told == UNION {Told1(b) : b \in heard}
  IN IF all = <<>> THEN [findings |-> {}, unchecked |-> 0, fallback |-> FALSE]
     ELSE IF heard = {}
     THEN [findings |-> {Quoted(r) : r \in Regular(Paired(pairs, 65))}, unchecked |-> Unheard(sent, heard), fallback |-> TRUE]
     ELSE [findings |-> Merged(Regular(all), told), unchecked |-> Unheard(sent, heard), fallback |-> FALSE]
=============================================================================
