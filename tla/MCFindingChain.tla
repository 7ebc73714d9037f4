---- MODULE MCFindingChain ----
(* Lists of the findings that the checks return for two amounts, in the    *)
(* order in which run() collects them: pages next to each other and far    *)
(* away, amounts that differ by less than a hundred, and the same amounts  *)
(* in another unit.                                                        *)
EXTENDS FindingChain

CONSTANT MaxFindings

X == 1000
Y == 1200
On(side, page) == [side |-> side, page |-> page]

Finding(from, rule, triage, scope, severity, key, a, h, evidence) ==
  [from |-> from,
   of |-> [rule |-> rule, triage |-> triage, internal |-> scope = "internal",
           cross |-> scope = "cross", severity |-> severity, key |-> key,
           a |-> a, h |-> h, evidence |-> evidence]]

(* "from" is the place of the check in the list.                           *)
Shapes == {
  Finding(1, "low_confidence_candidate", "unresolved", "cross", 4, "tax", X, Y, <<On("A", 1), On("H", 1)>>),
  Finding(2, "visual_text_layer_mismatch", "unresolved", "internal", 4, "cash", 10 * X, 10 * Y, <<On("A", 2), On("A", 2)>>),
  Finding(3, "visual_text_layer_mismatch", "real", "internal", 1, "cash", 10 * X, 10 * Y, <<On("H", 1), On("H", 1)>>),
  Finding(4, "key_metric_exact_mismatch", "unresolved", "cross", 1, "cash", X, Y, <<On("A", 1), On("H", 1)>>),
  Finding(4, "key_metric_exact_mismatch", "unresolved", "cross", 1, "cash", X, 3 * Y, <<On("A", 2), On("H", 2)>>),
  Finding(5, "", "unresolved", "internal", 2, "tax", Y, X, <<On("H", 1), On("H", 9)>>),
  Finding(5, "", "expected", "cross", 4, "note", NoValue, NoValue, <<On("A", 1)>>),
  Finding(6, "event_internal_fact_match", "real", "internal", 2, "event", NoValue, NoValue, <<On("H", 1), On("H", 2)>>),
  Finding(7, "text_overlay_tamper", "real", "internal", 1, "", X, Y, <<On("H", 1)>>),
  Finding(7, "text_overlay_tamper", "real", "internal", 1, "", X, Y, <<On("A", 9), On("A", 9)>>),
  Finding(8, "table_row_value_conflict", "real", "cross", 1, "", X, Y, <<On("A", 2), On("H", 2)>>),
  Finding(8, "table_row_value_conflict", "real", "cross", 2, "", Y, Y + 40, <<On("A", 3), On("H", 9)>>),
  Finding(9, "positional_value_conflict", "real", "cross", 1, "", X + 40, Y, <<On("A", 2), On("H", 2)>>),
  Finding(9, "positional_value_conflict", "real", "cross", 2, "", Y, Y + 40, <<On("A", 4), On("H", 9)>>) }

Collected(s) == \A m, n \in DOMAIN s : m < n => s[m].from <= s[n].from
AllInputs ==
  {[n \in DOMAIN s |-> s[n].of] :
     s \in {t \in UNION {[1..n -> Shapes] : n \in 0..MaxFindings} : Collected(t)}}
====
