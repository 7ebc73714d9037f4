--------------------------- MODULE KeyMetricTamper ---------------------------
(* The check of key metrics for tampering: which pages are read by OCR, how  *)
(* what is seen is compared with the text layer, and exact comparison of     *)
(* the two reports within 1 %.                                               *)
(*                                                                           *)
(* An item is                                                                *)
(*   key, value    metric and normalised amount; small: of small scale       *)
(*   period, ck    period text and column key (Columns)                      *)
(*   role, scope   _metric_value_role of the header, _detail_scope           *)
(*   page          page; marked: words of _needs_llm_scope_review are in it  *)
(* and, where it comes to pages, table, late (one of the priority keys),     *)
(* anchor (_is_late_visual_topic_anchor), notes and total (words scored).    *)
EXTENDS Matching, Columns, Functions

CONSTANTS FrontLimit, StrictLimit,      \* FRONT_MATTER_PAGE_LIMIT, STRICT_VISUAL_PAGE_LIMIT
          SmartMax, SmartBudget, StrictBudget,  \* pages chosen, and read in either mode
          DiffsPerKey, ReviewBudget,    \* MAX_EXACT_DIFFS_PER_KEY, forced reviews of a job
          Scales                        \* powers of ten that a unit explains

(* ---- Pages --------------------------------------------------------------- *)
Position(p) == IF p <= FrontLimit THEN 34 ELSE IF p <= StrictLimit THEN 16 ELSE 4
ItemScore(x) ==
  20 + (IF x.table THEN 8 ELSE 0) + (IF x.page > StrictLimit /\ x.late THEN 74 ELSE 0)
     + (IF x.notes THEN 36 ELSE 0) + (IF x.total THEN 34 ELSE 0)
     + (IF x.page <= FrontLimit THEN 18 ELSE 0)
PageScore(items, risky, p) ==
  Position(p) + (IF p \in risky THEN 55 ELSE 0)
  + FoldFunctionOnSet(+, 0, [i \in DOMAIN items |-> ItemScore(items[i])], {i \in DOMAIN items : items[i].page = p})

(* The first k of a set of pages.                                            *)
FirstPages(k, pages) == {p \in pages : Cardinality({q \in pages : q < p}) < k}

(* _late_visual_topic_anchor_pages: the first late page of each topic.       *)
LatePages(items, total) ==
  LET late == {i \in DOMAIN items : /\ items[i].page > StrictLimit /\ items[i].page <= total
                                    /\ items[i].late /\ items[i].anchor}
  IN {items[i].page : i \in {j \in late :
        \A l \in late : items[l].key = items[j].key => items[j].page <= items[l].page}}

(* _select_smart_visual_pages *)
SmartPages(items, risky, pages, total) ==
  LET valid == {p \in pages : 1 <= p /\ p <= total}
      first == FirstPages(SmartMax, LatePages(items, total) \intersect valid)
      score == [p \in valid |-> PageScore(items, risky, p)]
      Before(p, q) == score[p] > score[q] \/ (score[p] = score[q] /\ p < q)
      rest  == valid \ first
  IN IF Cardinality(valid) <= SmartMax THEN valid
     ELSE first \union {p \in rest : Cardinality({q \in rest : Before(q, p)})
                                       < SmartMax - Cardinality(first)}
(* _candidate_ocr_pages *)
CandidatePages(items, risky, total, mode) ==
  LET pages == {items[i].page : i \in {j \in DOMAIN items : items[j].page \in 1 .. total}}
               \union risky
  IN IF mode = "strict" THEN (pages \union 1 .. StrictLimit) \intersect 1 .. total
     ELSE SmartPages(items, risky, pages, total)
(* _budgeted_visual_pages *)
Unbudgeted(pages, mode) == {p \in pages : p > 0}          \* Mutant: no budget.
Budgeted(pages, mode) ==
  FirstPages(CASE mode = "strict" -> StrictBudget [] mode = "smart" -> SmartBudget [] OTHER -> 0,
             {p \in pages : p > 0})

(* _ocr_items_for_profile: why a side is not read, or "" and the pages read. *)
(* s is a side: mode, h (the H report), enough (text metrics on four keys),  *)
(* large (a large PDF for a slow engine), embedded and text (items, those    *)
(* with a visual overlay and those without), dense, risky, total.            *)
Uncovered(text, embedded) ==
  {text[i].page : i \in {j \in DOMAIN text : \A l \in DOMAIN embedded :
     <<embedded[l].key, embedded[l].page>> # <<text[j].key, text[j].page>>}}
OcrPages(s) ==
  LET embedded == IF s.mode = "smart" /\ s.h /\ s.enough THEN <<>> ELSE s.embedded
      candidates == CandidatePages(s.text \o s.embedded, s.risky, s.total, s.mode)
      open == Uncovered(s.text, embedded)
      uncovered == IF candidates = {} THEN open ELSE open \intersect candidates
      Skip(why) == [why |-> why, pages |-> {}]
      Read(pages) == [why |-> "", pages |-> Budgeted(pages, s.mode)]
  IN IF s.mode = "off" THEN Skip("off")
     ELSE IF s.mode = "smart" /\ s.h /\ embedded = <<>> /\ s.enough THEN Skip("h_text_layer")
     ELSE IF s.mode = "smart" /\ s.large THEN Skip("easyocr_large_pdf")
     ELSE IF s.mode = "smart" /\ embedded # <<>>
     THEN IF s.dense THEN Skip("embedded_coverage")
          ELSE IF uncovered = {} THEN Skip("no_uncovered_pages") ELSE Read(uncovered)
     ELSE IF candidates = {} THEN Skip("no_candidate_pages") ELSE Read(candidates)

(* ---- The two reports ------------------------------------------------------ *)
RoleOf(x) == IF LegacyRole(x.ck) # NONE THEN LegacyRole(x.ck) ELSE x.role
PeriodOf(x) == IF x.ck.period # NONE THEN x.ck.period ELSE x.period
SameScope(a, h) == a.scope = h.scope /\ Agree(a.period, h.period)
PeriodsCompatible(a, h) == PeriodsPairable(PeriodOf(a), PeriodOf(h)) /\ Agree(a.ck.role, h.ck.role)
Comparable(a, h) ==
  /\ RoleOf(a) = "main_value" /\ RoleOf(h) = "main_value"
  /\ SameScope(a, h) /\ PeriodsCompatible(a, h)
Close(a, h, num, den) == Abs(a - h) * den <= num * Larger(Larger(Abs(a), Abs(h)), 1)

(* _exact_mismatch_candidate, _exact_reconciled_pair                         *)
SmallScale == 5
Mismatch(a, h) ==
  /\ Comparable(a, h) /\ Pairable(a.ck, h.ck) /\ a.value # h.value
  /\ \/ Close(a.value, h.value, 1, 100)
     \/ a.small /\ Abs(a.value - h.value) <= SmallScale
ExactPair(as, hs) ==
  \E i \in DOMAIN as, j \in DOMAIN hs :
    Comparable(as[i], hs[j]) /\ Pairable(as[i].ck, hs[j].ck) /\ as[i].value = hs[j].value

(* _key_fully_reconciled: one point per value and period.                    *)
Points(xs) ==
  {i \in DOMAIN xs : \A j \in 1 .. (i - 1) :
     xs[j].value # xs[i].value \/ PeriodOf(xs[j]) # PeriodOf(xs[i])}
Explains(a, h) ==
  /\ Comparable(a, h)
  /\ \/ a.value = h.value
     \/ \E s \in Scales : Close(a.value, h.value * s, 1, 1000) \/ Close(a.value * s, h.value, 1, 1000)
ReconciledOneWay(as, hs) ==              \* Mutant: only one side is looked at.
  /\ Points(as) # {} /\ Points(hs) # {}
  /\ \A i \in Points(as) : \E j \in Points(hs) : Explains(as[i], hs[j])
Reconciled(as, hs) ==
  /\ Points(as) # {} /\ Points(hs) # {}
  /\ \A i \in Points(as) : \E j \in Points(hs) : Explains(as[i], hs[j])
  /\ \A j \in Points(hs) : \E i \in Points(as) : Explains(as[i], hs[j])

(* The mismatches of one key, closest first, no more than DiffsPerKey.       *)
Share(a, h) == (Abs(a.value - h.value) * 100000) \div Larger(Larger(Abs(a.value), Abs(h.value)), 1)
Mismatches(as, hs) ==
  LET all == {p \in (DOMAIN as) \X (DOMAIN hs) : Mismatch(as[p[1]], hs[p[2]])}
      ranked == Ranked(all, [p \in all |-> <<- Share(as[p[1]], hs[p[2]]), - as[p[1]].page, - hs[p[2]].page>>])
  IN SubSeq(ranked, 1, IF Len(ranked) < DiffsPerKey THEN Len(ranked) ELSE DiffsPerKey)

(* _llm_exact_downgrade_reason and what the mismatch is told as.  A high     *)
(* mismatch without telling column keys is reviewed while the budget lasts,  *)
(* others when words ask for it; answer: the model finds the two not         *)
(* comparable.  acc is what was told and how many forced calls were made.    *)
Severity(a, h) == IF Close(a.value, h.value, 5, 1000) THEN "medium" ELSE "high"
Forced(a, h, calls) ==
  /\ Severity(a, h) = "high" /\ calls < ReviewBudget
  /\ ~(Informative(a.ck) /\ Informative(h.ck))
Tell(acc, a, h, exact, answer) ==
  IF exact THEN [acc EXCEPT !.told = Append(@, "low")]
  ELSE LET forced == Forced(a, h, acc.calls)
           asked  == forced \/ a.marked \/ h.marked
       IN [told  |-> Append(acc.told, IF asked /\ answer THEN "review" ELSE Severity(a, h)),
           calls |-> acc.calls + (IF forced THEN 1 ELSE 0)]
TellAll(acc, a, h, pairs, exact, answer) ==
  LET after[n \in 0 .. Len(pairs)] ==
        IF n = 0 THEN acc ELSE Tell(after[n - 1], a[pairs[n][1]], h[pairs[n][2]], exact, answer)
  IN  after[Len(pairs)]
TellKey(acc, a, h, answer) ==
  IF a = <<>> \/ h = <<>> \/ Reconciled(a, h) THEN acc
  ELSE TellAll(acc, a, h, Mismatches(a, h), ExactPair(a, h), answer)
OfKey(xs, k) == Picked(xs, {i \in DOMAIN xs : xs[i].key = k})
NothingTold == [told |-> <<>>, calls |-> 0]
ExactDiffs(as, hs, keys, answer) ==
  LET after[n \in 0 .. Len(keys)] ==
        IF n = 0 THEN NothingTold ELSE TellKey(after[n - 1], OfKey(as, keys[n]), OfKey(hs, keys[n]), answer)
  IN  after[Len(keys)]

(* ---- What is seen, and the text layer ------------------------------------- *)
(* A seen item v has, for each text item t, sim[t.id] and rows[t.id]: how     *)
(* similar digits and row labels are, in per cent.                           *)
Signed(v, t) ==
  IF v.abs /\ v.key = t.key /\ v.value < 0 /\ 0 < t.value /\ v.sim[t.id] >= 78
  THEN -v.value ELSE v.value
(* _visual_text_values_are_comparable; _raw_visual_text_delta repeats the     *)
(* small-scale test for amounts before normalisation.                         *)
Legible(v, t) ==
  LET x == Signed(v, t)
  IN /\ x # t.value
     /\ t.section \in {"notes", "related_party"} => v.sim[t.id] >= 82
     /\ IF Close(x, t.value, 1, 100) THEN TRUE
        ELSE IF v.small /\ Abs(x - t.value) <= SmallScale THEN v.sim[t.id] >= 50
        ELSE IF t.section = "notes" THEN Close(x, t.value, 3, 100)
        ELSE /\ Close(x, t.value, 10, 100)
             /\ t.section \in {"mda", "revenue"} => v.sim[t.id] >= 82
(* _visual_row_labels_are_compatible; a total is a total by any name.        *)
SameRow(v, t) ==
  \/ v.rows[t.id] >= 45
  \/ v.key # t.key /\ Close(v.value, t.value, 1, 100)
  \/ /\ t.section = "notes" /\ v.late /\ t.total
     /\ Close(v.value, t.value, 1, 100) \/ v.sim[t.id] >= 82
(* _best_text_layer_match: the text items a seen one contradicts, best first. *)
Contradicted(v, texts) ==
  LET near == {t \in texts : /\ t.page = v.page /\ t.family = v.family
                             /\ SameRow(v, t) /\ Legible(v, t)}
      Better(t, u) == Above(<<v.sim[t.id], v.rows[t.id], t.conf>>, <<v.sim[u.id], v.rows[u.id], u.conf>>)
  IN {t \in near : \A u \in near : ~Better(u, t)}
(* _visual_layer_mismatches: an overlay of the same text layer is no         *)
(* evidence of its own.                                                      *)
VisualDiff(side, v, texts) ==
  IF Contradicted(v, texts) = {} THEN <<>>
  ELSE <<[rule |-> "visual", key |-> (CHOOSE t \in Contradicted(v, texts) : TRUE).key, side |-> side,
          pages |-> <<v.page, v.page>>, triage |-> IF v.embedded THEN "unresolved" ELSE "real"]>>
(* _dedupe_diffs: one finding per rule, metric and pages, of either side.    *)
SameFinding(c, d) == <<c.rule, c.key, c.pages>> = <<d.rule, d.key, d.pages>>
KeepFirst(kept, d) == IF \E i \in DOMAIN kept : SameFinding(kept[i], d) THEN kept ELSE Append(kept, d)
Deduped(diffs) ==
  LET after[n \in 0 .. Len(diffs)] == IF n = 0 THEN <<>> ELSE KeepFirst(after[n - 1], diffs[n])
  IN  after[Len(diffs)]
=============================================================================
