------------------------------- MODULE Columns -------------------------------
(* The coordinates of a table's columns: which rows are headers, what the    *)
(* header of a column says, and when two columns may be compared.            *)
(*                                                                           *)
(* A cell is absent, empty, a number, or a word: what the patterns of        *)
(* headers.py and semantics.py find in its text.  A header is the set of     *)
(* words of its cells, one per level.                                        *)
EXTENDS Integers, Sequences, FiniteSets

Roles    == {"current", "prior"}
Scopes   == {"parent", "group"}
Kinds    == <<"note_reference", "exchange_rate", "change_pct", "change_amount", "ratio", "points">>

(* headers.py: period cells are a bare year or quarter; signal words are     *)
(* what header rows have and amounts in words have not.                      *)
Bare     == {"2024", "2025", "q2"}
Signals  == Roles \union Scopes \union {"note_reference", "change_pct", "change_amount", "ratio"}
Filled(row)  == {c \in DOMAIN row : row[c] \notin {"absent", "empty"}}
Numbers(row) == {c \in DOMAIN row : row[c] = "number"}

(* _is_header_like; marked: the parser took every cell for a header.         *)
HeaderLike(row, marked) ==
  /\ Filled(row) # {}
  /\ \/ \A c \in Filled(row) : row[c] \in Bare
     \/ /\ 10 * Cardinality(Numbers(row)) <= 3 * Cardinality(Filled(row))
        /\ marked \/ \E c \in Filled(row) : row[c] \in Signals

(* detect_header_rows: the block on top, three rows at most.                 *)
MaxHeaderRows == 3
HeaderRows(rows, marked) ==
  {r \in DOMAIN rows : r <= MaxHeaderRows /\ \A s \in 1 .. r : HeaderLike(rows[s], marked[s])}

(* _merged_header_text: an empty cell takes the text on its left, an absent  *)
(* one does not.                                                             *)
LeftOf(row, col) == {c \in Filled(row) : c < col}
TextAt(row, col) ==
  IF col \in Filled(row) THEN {row[col]}
  ELSE IF row[col] = "empty" /\ LeftOf(row, col) # {}
  THEN {row[CHOOSE c \in LeftOf(row, col) : \A d \in LeftOf(row, col) : d <= c]}
  ELSE {}
Header(rows, marked, col) == UNION {TextAt(rows[r], col) : r \in HeaderRows(rows, marked)}

(* parse_period: a full date before a quarter before a year; only a quarter  *)
(* takes the anchor year of the table ("" for none).                         *)
NONE == ""
YearOf(p) == CASE p \in {"2025", "2025-06-30", "2025-12-31"} -> "2025"
               [] p \in {"2024", "2024-06-30"} -> "2024" [] OTHER -> NONE
Fine(p)   == p \in {"2024-06-30", "2025-06-30", "2025-12-31"}
QuarterIn(year) == CASE year = "2025" -> "2025-06-30" [] year = "2024" -> "2024-06-30" [] OTHER -> "q2"
OwnYear(words) == IF "2025" \in words \/ \E w \in words : Fine(w) THEN "2025"
                  ELSE IF "2024" \in words THEN "2024" ELSE NONE
Period(words, anchor) ==
  IF \E w \in words : Fine(w) THEN CHOOSE w \in words : Fine(w)
  ELSE IF "q2" \in words
  THEN QuarterIn(IF OwnYear(words) # NONE THEN OwnYear(words) ELSE anchor)
  ELSE OwnYear(words)

FirstOf(order, words) ==
  LET here == {i \in DOMAIN order : order[i] \in words}
  IN IF here = {} THEN NONE ELSE order[CHOOSE i \in here : \A j \in here : i <= j]
KindOf(words) == IF FirstOf(Kinds, words) = NONE THEN "main" ELSE FirstOf(Kinds, words)

(* parse_column_key: the scope may come from the title of the table.         *)
ColumnKey(words, anchor, context) ==
  [period |-> Period(words, anchor),
   role   |-> FirstOf(<<"current", "prior">>, words),
   scope  |-> LET own == FirstOf(<<"parent", "group">>, words) IN IF own # NONE THEN own ELSE context,
   kind   |-> KindOf(words)]

(* build_grid: the key of each column, NoKey without a header.               *)
NoKey == [period |-> NONE, role |-> NONE, scope |-> NONE, kind |-> "none"]
Keys(rows, marked, anchor, context) ==
  [c \in DOMAIN rows[1] |->
     LET words == Header(rows, marked, c)
     IN IF words = {} THEN NoKey ELSE ColumnKey(words, anchor, context)]

(* compat.py.                                                                *)
PeriodsPairable(p, q) ==
  \/ YearOf(p) = NONE \/ YearOf(q) = NONE
  \/ YearOf(p) = YearOf(q) /\ (Fine(p) /\ Fine(q) => p = q)
Agree(x, y) == x = NONE \/ y = NONE \/ x = y
Pairable(k, l) ==
  \/ k = NoKey \/ l = NoKey
  \/ /\ k.kind = l.kind /\ Agree(k.role, l.role)
     /\ PeriodsPairable(k.period, l.period) /\ Agree(k.scope, l.scope)
Informative(k) == k # NoKey /\ (k.period # NONE \/ k.role # NONE \/ k.scope # NONE \/ k.kind # "main")
(* legacy_role_name *)
LegacyRole(k) ==
  IF k = NoKey THEN NONE
  ELSE CASE k.kind \in {"change_pct", "points"} -> "ratio" [] k.kind = "main" -> NONE
         [] k.kind = "exchange_rate" -> "foreign_currency_translation" [] OTHER -> k.kind
=============================================================================
