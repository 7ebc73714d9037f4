------------------------------ MODULE Profiles ------------------------------
(* The profile of a report and the comparison of two: its metrics, what it   *)
(* tells about each topic, the sections it has.  A text has a size, and for  *)
(* each of Topics the score of the keywords it has.                          *)
EXTENDS Extraction

CONSTANTS Topics, SectionTopic,
          ExpectedMetrics, ExpectedTopics,  \* pairs of a key or topic and the side that has it
          Compatible(_, _, _)               \* of two contexts, see NumericCheck

OtherSide(side) == IF side = "A" THEN "H" ELSE "A"

(* _choose_primary_topic; extract_narratives: texts of a topic and section   *)
(* on pages close to each other make a block, which needs some size.         *)
MinText   == 10
MinBlock  == 20
MaxGap    == 3
TopicOf(seg) ==
  LET scored == {i \in DOMAIN Topics : seg.scores[i] > 0}
      best   == CHOOSE i \in scored : \A j \in scored \ {i} : seg.scores[i] > seg.scores[j] \/ (seg.scores[i] = seg.scores[j] /\ i < j)
  IN IF scored # {} THEN Topics[best]
     ELSE IF seg.section \in DOMAIN SectionTopic THEN SectionTopic[seg.section] ELSE "uncategorized"
Told(report) == {i \in DOMAIN report.texts : report.texts[i].size >= MinText}
BlockOf(report, i) ==
  LET seg   == report.texts[i]
      peers == {j \in Told(report) : TopicOf(report.texts[j]) = TopicOf(seg) /\ report.texts[j].section = seg.section}
      pages == {report.texts[j].page : j \in peers}
      Starts(p) == \A q \in pages : q < p => p - q > MaxGap
      first(p) == Max({q \in pages : q <= p /\ Starts(q)})
  IN {j \in peers : first(report.texts[j].page) = first(seg.page)}
SizeOf(report, block) == MapThenSumSet(LAMBDA j : report.texts[j].size, block)
Blocks(report) == {b \in {BlockOf(report, i) : i \in Told(report)} : SizeOf(report, b) >= MinBlock}
(* _aggregate_narratives *)
Narratives(report) ==
  LET Topic(b) == TopicOf(report.texts[CHOOSE i \in b : TRUE])
  IN [t \in {Topic(b) : b \in Blocks(report)} |->
        SizeOf(report, UNION {b \in Blocks(report) : Topic(b) = t})]

(* extract_structure, _flatten_structure: a chapter for every section, under *)
(* roots that the comparison leaves out.                                     *)
Alias(code) == CASE code = "governance" -> "corporate_governance" [] code = "segment" -> "segment_report"
                 [] code \in {"cfo", "cfi", "cff"} -> "cf" [] OTHER -> code
SectionPages(report, code) == {report.texts[i].page : i \in {j \in DOMAIN report.texts : Alias(report.texts[j].section) = code}}
Chapters(report) ==
  LET codes == {Alias(report.texts[i].section) : i \in DOMAIN report.texts} \ {""}
  IN [c \in codes |-> [first |-> Min(SectionPages(report, c)), last |-> Max(SectionPages(report, c))]]

Profile(report) == [metrics |-> Metrics(report), narratives |-> Narratives(report), structure |-> Chapters(report)]

-----------------------------------------------------------------------------
Found(type, key, triage) == [type |-> type, key |-> key, triage |-> triage]
Triage(expected, unresolved) == IF expected THEN "expected" ELSE IF unresolved THEN "unresolved" ELSE "real"
Amount(x) == x.n * x.unit

(* compare_metrics *)
Tolerated(k, x, y) ==
  IF k \in SmallKeys THEN Abs(x - y) * 1000 <= 5 * Larger(Abs(x), Abs(y))
  ELSE Abs(x - y) * 100 <= Larger(100, Larger(Abs(x), Abs(y)))
ContextOf(x) == [bucket |-> IF x.section \in {"bs", "pl", "cf"} THEN "main" ELSE IF x.section = "mda" THEN "highlights" ELSE "unknown",
                 quarter |-> "quarterly" \in x.marks]
MetricDiffs(a, h) ==
  LET Both == DOMAIN a \intersect DOMAIN h
      Differ(k) == ~Tolerated(k, Amount(a[k].primary), Amount(h[k].primary))
      Unsure(k) == ~Compatible(ContextOf(a[k].primary), ContextOf(h[k].primary), FALSE)
      Missing(k, side) == Found("metric_missing", k,
                                Triage(<<k, OtherSide(side)>> \in ExpectedMetrics, k \notin CoreKeys))
  IN {Found("metric_mismatch", k, Triage(FALSE, Unsure(k))) : k \in {b \in Both : Differ(b)}}
     \union {Missing(k, "H") : k \in DOMAIN a \ DOMAIN h}
     \union {Missing(k, "A") : k \in DOMAIN h \ DOMAIN a}

(* compare_narratives, compare_structures *)
NarrativeDiffs(a, h) ==
  LET Less(t) == IF a[t] < h[t] THEN "A" ELSE "H"
      Uneven(t) == Larger(a[t], h[t]) * 10 > (a[t] + h[t] - Larger(a[t], h[t])) * 18
      Slight(t) == Larger(a[t], h[t]) <= (a[t] + h[t] - Larger(a[t], h[t])) * 3
      Missing(t, side) == Found("topic_missing", t,
                                Triage(<<t, OtherSide(side)>> \in ExpectedTopics, t = "uncategorized"))
  IN {Found("narrative_depth", t, Triage(<<t, OtherSide(Less(t))>> \in ExpectedTopics, Slight(t))) :
        t \in {u \in DOMAIN a \intersect DOMAIN h : Uneven(u)}}
     \union {Missing(t, "H") : t \in DOMAIN a \ DOMAIN h}
     \union {Missing(t, "A") : t \in DOMAIN h \ DOMAIN a}
Principal == {"bs", "pl", "cf", "equity", "notes", "mda", "financial_statements"}
StructureDiffs(a, h) ==
  LET Missing(c, side) == Found("structure_missing", c,
                                Triage(<<c, OtherSide(side)>> \in ExpectedTopics, c \notin Principal))
  IN {Missing(c, "H") : c \in DOMAIN a \ DOMAIN h} \union {Missing(c, "A") : c \in DOMAIN h \ DOMAIN a}

(* check_internal_consistency: two values of one report, both of which the   *)
(* other report has too, are no contradiction.                               *)
Corroborated(x, k, other) ==
  k \in DOMAIN other /\ \E i \in DOMAIN other[k].items : Within(Amount(x), Amount(other[k].items[i]), 1, 1000)

InternalDiffs(own, other) ==
  {Found("internal_inconsistency", k, "unresolved") :
     k \in {l \in DOMAIN own : \E p \in own[l].conflicts : ~(Corroborated(p[1], l, other) /\ Corroborated(p[2], l, other))}}
ProfileDiffs(a, h) ==
  MetricDiffs(a.metrics, h.metrics) \union NarrativeDiffs(a.narratives, h.narratives)
  \union StructureDiffs(a.structure, h.structure)
  \union InternalDiffs(a.metrics, h.metrics) \union InternalDiffs(h.metrics, a.metrics)
(* run_disclosure_checks_on_profiles: contradictions of a report with itself *)
(* are findings; the rest is coverage, or what numeric.py compares.          *)
Findings(found) == {d \in found : d.type = "internal_inconsistency"}
=============================================================================
