----------------------------- MODULE Extraction -----------------------------
(* How the numbers of one parsed report become occurrences of metrics: rows  *)
(* of tables, labels in running text, rows of tables that survive only as    *)
(* text, and numbers laid over the page.                                     *)
(*                                                                           *)
(* Rows of tables and texts are sequences of tokens.  A token has a number n *)
(* (0: none) or a label: label is the set of its words, key what the         *)
(* glossary makes of it, "" for no label, "unmapped" or, at the end of a     *)
(* sentence, "stop"; part: it ends a longer label that means another key.    *)
EXTENDS Columns, Matching, FiniteSetsExt

CONSTANTS MetricKeys,      \* the glossary, in its order
          Cap,             \* extraction_max_occurrences_per_key
          PerRow,          \* extraction_max_values_per_row
          MaxConflicts,    \* inconsistencies kept per key
          Reach,           \* how far from its label a number may be, in tokens
          SmallKeys,       \* per share amounts and ratios
          SignedKeys,      \* cash flows and losses, printed without their sign
          CoreKeys, CoreNeeded, KeysNeeded

(* A number below the first is no amount in a sentence, one up to the second *)
(* is a day or a note; years are skipped where rows are text.                *)
Sizeable == 100
DayMax   == 31
IsYear(n) == n \in 1990 .. 2035

Item(k, label, n, at, conf, strength, source) ==
  [key |-> k, label |-> label, n |-> n, page |-> at.page, section |-> at.section, unit |-> at.unit, marks |-> at.marks,
   period |-> at.period, ck |-> NoKey, conf |-> conf, strength |-> strength, source |-> source, overlay |-> FALSE]

-----------------------------------------------------------------------------
(* _extract_from_table: a row without a label goes on with the label of the  *)
(* row above, unless that one is not in the glossary.                        *)
LabelAt(row)  == LET here == {c \in DOMAIN row : row[c].key # ""} IN IF here = {} THEN 0 ELSE Min(here)
Labelled(t, r) == {s \in 1 .. r : LabelAt(t.rows[s]) # 0}
LabelOf(t, r) == LET s == Max(Labelled(t, r)) IN t.rows[s][LabelAt(t.rows[s])]
Rendered(t) ==
  t.heads \o [r \in DOMAIN t.rows |-> [c \in DOMAIN t.rows[r] |->
                IF t.rows[r][c].n # 0 THEN "number" ELSE IF t.rows[r][c].key # "" THEN "text" ELSE "empty"]]
CellKey(keys, cell, col) ==        \* _cell_value_column_key
  IF ~cell.points THEN keys[col]
  ELSE IF keys[col] = NoKey THEN [NoKey EXCEPT !.kind = "points"]
  ELSE IF keys[col].kind = "main" THEN [keys[col] EXCEPT !.kind = "points"] ELSE keys[col]
CellItem(t, r, c, ck) ==
  LET label == LabelOf(t, r)
  IN [Item(label.key, label.label, t.rows[r][c].n, t, 90, 100, "table")
        EXCEPT !.ck = ck, !.period = IF ck.period # NONE THEN ck.period ELSE t.period]
TableItems(t) ==
  LET rendered == Rendered(t)
      keys == Keys(rendered, [r \in DOMAIN rendered |-> FALSE], t.period, NONE)
      RowItems(r) ==
        LET row == t.rows[r]
            read == [c \in DOMAIN row |-> CellItem(t, r, c, CellKey(keys, row[c], c))]
        IN IF Labelled(t, r) = {} THEN <<>>
           ELSE Picked(read, {c \in DOMAIN row : c > LabelAt(row) /\ row[c].n # 0 /\ read[c].key # "unmapped"})
  IN Joined([r \in DOMAIN t.rows |-> RowItems(r)])

-----------------------------------------------------------------------------
(* _resolve_binding_conflicts: one metric per page and value, the one that   *)
(* is bound best; values laid over the page stand apart.                     *)
BindingRank(x) == <<x.strength, x.conf, Cardinality(x.label)>>
Keep(kept, i, marker, rank) ==                  \* kept: places of items
  LET same == {p \in DOMAIN kept : marker[kept[p]] = marker[i]}
  IN IF same = {} THEN Append(kept, i)
     ELSE [p \in DOMAIN kept |-> IF p \in same /\ Above(rank[i], rank[kept[p]]) THEN i ELSE kept[p]]
KeepBest(items, marker, rank) ==
  LET kept[i \in 0 .. Len(items)] == IF i = 0 THEN <<>> ELSE Keep(kept[i - 1], i, marker, rank)
      best == kept[Len(items)]
  IN  [p \in DOMAIN best |-> items[best[p]]]
Resolved(items) ==
  KeepBest(items, [i \in DOMAIN items |-> <<items[i].page, items[i].n, items[i].overlay>>],
           [i \in DOMAIN items |-> BindingRank(items[i])])
Deduped(items) ==
  KeepBest(items, [i \in DOMAIN items |-> <<items[i].key, items[i].page, items[i].period, items[i].n>>],
           [i \in DOMAIN items |-> <<items[i].conf>>])

-----------------------------------------------------------------------------
(* _extract_from_text: numbers right after a label, then for every other key *)
(* the first number after its label in the same sentence.                    *)
Mapped(token) == token.key \notin {"", "unmapped", "stop"}
InlineItem(seg, i) ==
  LET s == seg.tokens
  IN [Item(s[i].key, s[i].label, s[i + 1].n, seg, 75, 60, "text") EXCEPT !.ck = CellKey(<<NoKey>>, s[i + 1], 1)]
Inline(seg) ==
  LET s == seg.tokens
      at == Picked([i \in DOMAIN s |-> i], {i \in DOMAIN s : Mapped(s[i]) /\ i < Len(s) /\ s[i + 1].n >= Sizeable})
  IN [k \in DOMAIN at |-> InlineItem(seg, at[k])]
Windowed(seg, k) ==
  LET s     == seg.tokens
      named == {i \in DOMAIN s : s[i].key = k}
      i     == Min(named)
      after == {j \in (i + 1) .. Len(s) : j <= i + Reach /\ s[j].n # 0 /\ \A l \in i .. j : s[l].key # "stop"}
  IN IF named = {} THEN <<>>
     ELSE IF s[i].part \/ after = {} THEN <<>>
     ELSE IF s[Min(after)].n <= DayMax THEN <<>>
     ELSE <<Item(k, s[i].label, s[Min(after)].n, seg, 75, 30, "text")>>

(* _extract_from_raw_table_text: the numbers from a label to the next label. *)
RowPlaces(s, i) ==
  LET numbers == {j \in (i + 1) .. Len(s) : s[j].n > DayMax /\ ~IsYear(s[j].n)}
      ends == {j \in (i + 1) .. Len(s) : s[j].key \notin {"", "stop"} /\ \E l \in numbers : l < j}
      own == {j \in numbers : \A e \in ends : j < e}
  IN {j \in own : Cardinality({l \in own : l < j}) < PerRow}
RowValues(s, i) == Picked([j \in DOMAIN s |-> j], RowPlaces(s, i))
RawKey(seg, token) == IF token.key = "unmapped" /\ token.label = {"sum"} /\ seg.topic # "" THEN seg.topic ELSE token.key
RawRow(seg, i) ==
  LET s == seg.tokens
      ns == RowValues(s, i)
  IN IF RawKey(seg, s[i]) \in {"", "unmapped", "stop"} THEN <<>>
     ELSE [m \in DOMAIN ns |-> Item(RawKey(seg, s[i]), s[i].label, s[ns[m]].n, seg, 82, 80, "text")]
RawItems(seg) ==
  IF Len(seg.tokens) < 4 THEN <<>> ELSE Joined([i \in DOMAIN seg.tokens |-> RawRow(seg, i)])

(* _append_visual_overlay_items: the numbers at the end of a page's text, the *)
(* last first, each go to the metric they look most like.                    *)
DigitsOf(n)   == [d \in 1 .. 5 |-> (Abs(n) \div 10 ^ (5 - d)) % 10]
Alike(m, n)   == Cardinality({d \in 1 .. 5 : DigitsOf(m)[d] = DigitsOf(n)[d]})
Laid(n, x)    == IF x.key \in SignedKeys /\ n < 0 /\ x.n > 0 THEN -n ELSE n
Near(n, x, pct) == Within(Laid(n, x), x.n, pct, 100)
CouldCover(n, x) ==
  /\ x.conf >= 70 /\ Laid(n, x) # x.n
  /\ Near(n, x, 3) \/ (x.section # "notes" /\ Near(n, x, 10)) \/ (x.key \in SmallKeys /\ Abs(Laid(n, x) - x.n) <= 5)
  /\ x.section \in {"mda", "revenue"} => Near(n, x, 3) \/ Alike(n, x.n) >= 4 \/ x.key \in SmallKeys
Specificity(x) ==
  CASE x.key = "npl_ratio" -> 4 [] x.key = "roe" -> 3 [] x.key = "parent_equity" -> 2 [] OTHER -> 0
CoverRank(n, x, i) ==
  <<Alike(n, x.n), Specificity(x), -((Abs(Laid(n, x) - x.n) * 1000) \div Larger(Larger(Abs(Laid(n, x)), Abs(x.n)), 1)), -i>>
Free(items, n, covers) ==           \* covers: pairs <<item, number>>, places in their lists
  {i \in DOMAIN items : CouldCover(n, items[i]) /\ \A j \in DOMAIN covers : items[covers[j][1]].key # items[i].key}
BestCover(items, n, free) ==
  CHOOSE i \in free : \A j \in free \ {i} : Above(CoverRank(n, items[i], i), CoverRank(n, items[j], j))
Cover(items, numbers, covers, m) ==
  LET free == Free(items, numbers[m], covers)
  IN IF free = {} THEN covers ELSE Append(covers, <<BestCover(items, numbers[m], free), m>>)
Overlay(x, n, seg) ==
  [x EXCEPT !.n = Laid(n, x), !.page = seg.page, !.section = seg.section, !.ck = NoKey,
            !.conf = 86, !.strength = 30, !.source = "pattern", !.overlay = TRUE]
Overlaid(items, seg, numbers) ==
  LET last == Len(numbers)
      after[k \in 0 .. last] == IF k = 0 THEN <<>> ELSE Cover(items, numbers, after[k - 1], last + 1 - k)
      covers == after[last]
  IN items \o [k \in DOMAIN covers |-> Overlay(items[covers[k][1]], numbers[covers[k][2]], seg)]

(* _visual_overlay_tail_numbers: numbers and nothing else after the count of *)
(* pages, or at the end of a page of statements.                             *)
MaxTail == 12
TailNumbers(seg) ==
  LET counts == {i \in DOMAIN seg.tail : ~IsYear(seg.tail[i])}
  IN IF ~seg.stands THEN <<>>
     ELSE Picked(seg.tail, {i \in counts : Cardinality({j \in counts : j < i}) < MaxTail})

TextItems(seg) ==
  IF seg.apart THEN <<>>
  ELSE LET inline == Inline(seg)
           Also(k) == IF \E i \in DOMAIN inline : inline[i].key = k THEN <<>> ELSE Windowed(seg, k)
           read == inline \o Joined([m \in DOMAIN MetricKeys |-> Also(MetricKeys[m])])
       IN Overlaid(Resolved(IF TailNumbers(seg) = <<>> THEN read ELSE read \o RawItems(seg)), seg, TailNumbers(seg))

-----------------------------------------------------------------------------
(* _occurrence_rank, _select_diverse_occurrences: the best of every page     *)
(* first, then the second best of every page, and so on.                     *)
SectionWeight(x) == CASE x.section \in {"bs", "pl", "cf", "equity"} -> 3 [] x.section = "notes" -> 2 [] OTHER -> 1
Structural(x)    == CASE x.source = "table" -> 2 [] x.source = "text" -> 1 [] OTHER -> 0
OccRank(x) == <<x.strength, Structural(x), SectionWeight(x), x.conf, Abs(x.n)>>
Better(items, i, j) == Above(OccRank(items[i]), OccRank(items[j])) \/ (OccRank(items[i]) = OccRank(items[j]) /\ i < j)
Peers(items, i) == {j \in DOMAIN items : items[j].page = items[i].page}
Round(items, i) == Cardinality({j \in Peers(items, i) : Better(items, j, i)})
Head1(items, i) == CHOOSE j \in Peers(items, i) : Round(items, j) = 0
Turn(items, i, j) ==
  \/ Round(items, i) < Round(items, j)
  \/ Round(items, i) = Round(items, j) /\ Better(items, Head1(items, i), Head1(items, j))
Diverse(items, cap) ==
  LET order == Listed(DOMAIN items, {o \in (DOMAIN items) \X (DOMAIN items) : Turn(items, o[1], o[2])})
  IN IF Len(items) <= cap THEN items ELSE [k \in 1 .. cap |-> items[order[k]]]
Primary(items) == items[CHOOSE i \in DOMAIN items : \A j \in DOMAIN items \ {i} : Better(items, i, j)]

(* _internal_value_role, _internal_reporting_scope: the first mark that is   *)
(* found decides; _internal_metric_pair_comparable.                          *)
PeriodRoles    == <<"note_reference", "prior_period_balance", "parent", "opening_balance", "equity_component">>
ComponentRoles == <<"dividend", "impairment", "movement">>
ColumnRoles    == <<"ratio", "change_amount", "transfer", "maturity", "average">>
InternalRoles  == PeriodRoles \o ComponentRoles \o ColumnRoles
InternalScopes == <<"quarterly", "entity_detail", "segment", "valuation_detail", "embedded_value", "summary", "pro_forma">>
Inside(l, m) == l # {} /\ m # {} /\ l # m /\ (l \subseteq m \/ m \subseteq l)
PairComparable(x, y) ==
  /\ Pairable(x.ck, y.ck) /\ (x.period # NONE /\ y.period # NONE => PeriodsPairable(x.period, y.period))
  /\ ~Inside(x.label, y.label)
  /\ FirstOf(InternalRoles, x.marks) = NONE /\ FirstOf(InternalRoles, y.marks) = NONE
  /\ x.unit = y.unit
  /\ FirstOf(InternalScopes, x.marks) = NONE /\ FirstOf(InternalScopes, y.marks) = NONE
Reliable(items) ==
  Picked(items, {i \in DOMAIN items :
    LET x == items[i]
    IN x.conf >= 90 /\ x.source = "table" /\ "audit_matter" \notin x.marks
       /\ ("crowded" \in x.marks /\ Abs(x.n) < 1000 => x.key \in SmallKeys)})
Conflicts(items) ==
  LET s == Reliable(items)
      Told(i, j) == /\ PairComparable(s[i], s[j]) /\ s[i].n # s[j].n
                    /\ s[i].page = s[j].page \/ ~Below(s[i].n, s[j].n, 5, 100)
      pairs == {p \in (DOMAIN s) \X (DOMAIN s) : p[1] < p[2] /\ Told(p[1], p[2])}
      ranked == InPlace(pairs)
  IN {<<s[ranked[k][1]], s[ranked[k][2]]>> : k \in {m \in DOMAIN ranked : m <= MaxConflicts}}

(* extract_metrics: a function from the keys that were found.  When few of   *)
(* the core keys were, what OCR reads is merged in.                          *)
AllItems(report) ==
  Deduped(Resolved(Joined([t \in DOMAIN report.tables |-> TableItems(report.tables[t])])
                   \o Joined([s \in DOMAIN report.texts |-> TextItems(report.texts[s])])))
Occurrences(items) == [items |-> items, primary |-> Primary(items), conflicts |-> Conflicts(items)]
OfKey(items, k) == Picked(items, {i \in DOMAIN items : items[i].key = k})
Largest(items) ==                               \* the first of the largest
  items[CHOOSE i \in DOMAIN items : \A j \in DOMAIN items :
          Abs(items[j].n) < Abs(items[i].n) \/ (Abs(items[j].n) = Abs(items[i].n) /\ i <= j)]
Merged(occ, more) == [occ EXCEPT !.items = @ \o more, !.primary = Largest(<<@>> \o more)]
WithOcr(found, ocr) ==
  [k \in DOMAIN found \union {ocr[i].key : i \in DOMAIN ocr} |->
     LET more == OfKey(ocr, k)
     IN IF k \in DOMAIN found THEN Merged(found[k], more)
        ELSE [items |-> more, primary |-> Largest(more), conflicts |-> {}]]
ByKey(all) == [k \in {all[i].key : i \in DOMAIN all} |-> Occurrences(Diverse(OfKey(all, k), Cap))]
Completed(found, ocr) ==
  IF \/ Cardinality(DOMAIN found \intersect CoreKeys) < CoreNeeded
     \/ Cardinality(DOMAIN found) < KeysNeeded
  THEN WithOcr(found, ocr) ELSE found
Metrics(report) == Completed(ByKey(AllItems(report)), report.ocr)
=============================================================================
