-------------------------------- MODULE Twins --------------------------------
(* The checks that lay two versions of one document over each other: rows of *)
(* tables by label and column (table_row_twin), numbers by their place on    *)
(* the page (positional_value_twin), numbers that lie on others in one file  *)
(* (text_overlay_tamper), and the table of branches, whose rows are compared *)
(* only when names and values did not slip (branch_disclosure with           *)
(* table_row_align).  Labels and columns are numbers in the order of their   *)
(* text; amounts are positive integers.                                      *)
EXTENDS Matching

CONSTANTS MinKeys, AnchorOf,          \* _MIN_MATCHED_KEYS, _MIN_ANCHOR_RATIO as <<n, d>>
          PerTable, PerJob,           \* _MAX_DIFFS_PER_TABLE, _MAX_DIFFS_PER_JOB
          Factors, MinValue, Round,   \* factors as <<n, d>>; the least amount with enough digits; % 1000
          MinRows,                    \* MIN_ROWS_FOR_CONCLUSION
          PerPage, PositionsPerJob    \* of positional_value_twin

Differs(a, h) == ~Within(a, h, 1, 1000)
Distinctive(v) == v % Round # 0
SameBag(f, g) ==
  \A v \in {f[k] : k \in DOMAIN f} \union {g[k] : k \in DOMAIN g} :
    Cardinality({k \in DOMAIN f : f[k] = v}) = Cardinality({k \in DOMAIN g : g[k] = v})

(* ---- Rows of tables: _build_table_rows ----------------------------------- *)
(* An entry is an amount under a label (0: too short, or one of              *)
(* _GENERIC_LABELS) in a column; the first entry of a key stays.             *)
RowsOf(t) ==
  LET named == {i \in DOMAIN t.entries : t.entries[i].label # 0}
      good  == {i \in named : t.entries[i].value >= MinValue}
      Key(i) == <<t.entries[i].label, t.entries[i].column>>
      First(k) == CHOOSE i \in good : Key(i) = k /\ \A j \in good : Key(j) = k => i <= j
  IN [page |-> t.page, labels |-> {t.entries[i].label : i \in named},
      rows |-> [k \in {Key(i) : i \in good} |-> t.entries[First(k)].value]]

(* _best_factor: under which factor most keys agree; the last one tried is   *)
(* the median ratio.                                                         *)
Shared(a, h) == DOMAIN a.rows \intersect DOMAIN h.rows
Scaled(a, h, f, k) == <<a.rows[k] * f[2], h.rows[k] * f[1]>>
Off(a, h, f) == {k \in Shared(a, h) : Differs(Scaled(a, h, f, k)[1], Scaled(a, h, f, k)[2])}
Median(ratios) == SubSeq(ratios[(Len(ratios) \div 2) + 1], 1, 2)
FewestOff(a, h, tried) ==
  LET missed == [i \in DOMAIN tried |-> Cardinality(Off(a, h, tried[i]))]
  IN tried[CHOOSE i \in DOMAIN tried : \A j \in DOMAIN tried : missed[i] < missed[j] \/ (missed[i] = missed[j] /\ i <= j)]
BestFactor(a, h) ==
  LET rows   == {<<a.rows[k], h.rows[k], k>> : k \in Shared(a, h)}
      ratios == Listed(rows, {o \in rows \X rows :
                                \/ o[1][1] * o[2][2] < o[2][1] * o[1][2]
                                \/ o[1][1] * o[2][2] = o[2][1] * o[1][2] /\ InListOrder(o[1][3], o[2][3])})
  IN FewestOff(a, h, Append(Factors, Median(ratios)))

(* _is_column_permutation: the values of one column under other names.       *)
Permuted(a, h) ==
  LET keys == Shared(a, h)
      as == [k \in keys |-> a.rows[k]]
      hs == [k \in keys |-> h.rows[k]]
  IN /\ 10 * Cardinality({k \in keys : Distinctive(as[k])}) >= 6 * Cardinality(keys)
     /\ SameBag(as, hs)
     /\ Cardinality({k \in keys : Differs(as[k], hs[k])}) >= 2

(* One candidate pair of tables: do they pair, and which keys are off.       *)
One == <<1, 1>>
Enough(a, h) ==
  /\ Cardinality(Shared(a, h)) >= MinKeys
  /\ 10 * Cardinality(a.labels \intersect h.labels) >= 6 * Cardinality(a.labels \union h.labels)
Anchored(keys, off) == (Cardinality(keys) - Cardinality(off)) * AnchorOf[2] >= AnchorOf[1] * Cardinality(keys)
Judged(a, h, off) ==                            \* off: under the best factor
  IF Anchored(Shared(a, h), off) THEN [pairs |-> Cardinality(off) <= PerTable, permuted |-> FALSE, off |-> off]
  ELSE [pairs |-> Permuted(a, h), permuted |-> TRUE, off |-> Off(a, h, One)]
Verdict(a, h) == Judged(a, h, Off(a, h, BestFactor(a, h)))

(* run_table_row_twin_checks: tables of A take the unused table of H with    *)
(* most labels in common that pairs with them.  Ties are broken by the order *)
(* of a set of strings, which is not that of the tables: up.  The code tries *)
(* the first ten tables at most, this model all of them: it is that code for *)
(* reports with ten tables or fewer that share labels with one of A.         *)
FirstFew(s, n) == SubSeq(s, 1, IF Len(s) < n THEN Len(s) ELSE n)
Alike(a, h) == Cardinality(a.labels \intersect h.labels)
Fitting(a, hs, used) ==
  {j \in DOMAIN hs \ used : Alike(a, hs[j]) >= MinKeys /\ Enough(a, hs[j]) /\ Verdict(a, hs[j]).pairs}
Likest(a, hs, fit, up) ==
  CHOOSE j \in fit : \A k \in fit \ {j} : \/ Alike(a, hs[j]) > Alike(a, hs[k])
                                          \/ Alike(a, hs[j]) = Alike(a, hs[k]) /\ (IF up THEN j < k ELSE j > k)
Telling(a, h, permuted, keys, tables) ==
  [n \in DOMAIN keys |-> [key |-> keys[n], tables |-> tables, group |-> permuted, detail |-> permuted /\ n > 1,
     severity |-> IF Below(a.rows[keys[n]], h.rows[keys[n]], 5, 100) THEN "medium" ELSE "high"]]
JoinTables(acc, i, j, a, h, v) ==
  [used |-> acc.used \union {j}, pairs |-> acc.pairs \union {<<i, j>>},
   told |-> FirstFew(acc.told \o Telling(a, h, v.permuted, InPlace(v.off), <<i, j>>), PerJob)]
JoinLikest(acc, i, a, hs, j) == JoinTables(acc, i, j, a, hs[j], Verdict(a, hs[j]))
TakeTable(acc, i, a, hs, fit, up) ==
  IF Len(acc.told) >= PerJob \/ fit = {} THEN acc ELSE JoinLikest(acc, i, a, hs, Likest(a, hs, fit, up))
Turn(as, hs, up, acc, i) == TakeTable(acc, i, as[i], hs, Fitting(as[i], hs, acc.used), up)
NoTables == [used |-> {}, pairs |-> {}, told |-> <<>>]
TwinTables(as, hs, up) ==
  LET after[i \in 0 .. Len(as)] == IF i = 0 THEN NoTables ELSE Turn(as, hs, up, after[i - 1], i)
  IN  after[Len(as)]
Rowed(tables) ==
  LET all == [i \in DOMAIN tables |-> RowsOf(tables[i])]
  IN  Picked(all, {i \in DOMAIN all : all[i].rows # <<>>})
RowTwins(tablesA, tablesH, up) == TwinTables(Rowed(tablesA), Rowed(tablesH), up)

(* ---- Branches ------------------------------------------------------------ *)
(* A row has a name, count, address ("" for none), asset, and plain: the     *)
(* text of the row shows count and asset as they were read.  The first row   *)
(* of a name stays (extract_branch_table).                                   *)
BranchesOf(doc) ==
  [n \in {doc[i].name : i \in DOMAIN doc} |->
     LET i == CHOOSE j \in DOMAIN doc : doc[j].name = n /\ \A k \in DOMAIN doc : doc[k].name = n => j <= k
     IN [doc[i] EXCEPT !.at = i]]
AnchorAt(b, n) == <<b[n].count, b[n].address>>

(* check_row_alignment: names whose value in H is that of another name in A, *)
(* and whether the rest of the row went with it.                             *)
Alignment(a, h) ==
  LET names == DOMAIN a \intersect DOMAIN h
      Owners(n) == {m \in DOMAIN a \ {n} : a[m].asset = h[n].asset}
      crossed == {n \in names : a[n].asset # h[n].asset /\ Distinctive(h[n].asset) /\ Owners(n) # {}}
      anchored == Cardinality(names) >= MinRows
                  /\ Cardinality({AnchorAt(a, n) : n \in names}) >= Larger(2, Cardinality(names) \div 2)
      First(n) == CHOOSE m \in Owners(n) : \A l \in Owners(n) : a[m].at <= a[l].at
      stable == {n \in crossed : AnchorAt(h, n) = AnchorAt(a, n)}
      moved  == {n \in crossed \ stable : AnchorAt(h, n) = AnchorAt(a, First(n))}
      Dense(s) == 10 * Cardinality(s) >= 3 * Cardinality(names)
      slipped == Cardinality(names) >= MinRows /\ (IF anchored THEN Dense(moved) ELSE Dense(crossed))
  IN [slipped |-> slipped, permuted |-> /\ Cardinality(names) >= MinRows /\ anchored /\ ~slipped /\ Dense(crossed) /\ stable # {}]

(* _branch_alignment_confident, compare_branch_tables *)
Confident(a, h) ==
  LET names == DOMAIN a \intersect DOMAIN h
      least == Cardinality(IF Cardinality(DOMAIN a) < Cardinality(DOMAIN h) THEN DOMAIN a ELSE DOMAIN h)
  IN names # {} /\ (least < 5 \/ 10 * Cardinality(names) >= 6 * least)
Compared(a, h) ==
  {n \in DOMAIN a \intersect DOMAIN h : a[n].count = h[n].count /\ a[n].plain /\ h[n].plain}
BranchSeverity(a, h) ==
  LET share(p) == a # 0 /\ Abs(h - a) * 100 > p * a
  IN IF share(50) THEN "high" ELSE IF share(20) THEN "medium" ELSE IF share(5) THEN "low" ELSE "info"
BranchDiffs(a, h) ==
  IF ~Confident(a, h) \/ Alignment(a, h).slipped THEN {}
  ELSE LET off == {n \in Compared(a, h) : a[n].asset # h[n].asset}
           head == CHOOSE n \in off : \A m \in off : n <= m
       IN {[name |-> n, severity |-> BranchSeverity(a[n].asset, h[n].asset),
            detail |-> Alignment(a, h).permuted /\ n # head] : n \in off}
(* branch_table_diagnostics: the warning for a table that is not compared.   *)
BranchWarning(a, h) == DOMAIN a \intersect DOMAIN h # {} /\ Alignment(a, h).slipped

(* ---- Places on a page ------------------------------------------------------ *)
(* A word is a number: its digits, x0 and centre, and order, its place in    *)
(* the content stream (0: not found there).                                  *)
ValueOf(text) ==
  LET upTo[n \in 0 .. Len(text)] == IF n = 0 THEN 0 ELSE 10 * upTo[n - 1] + text[n]
  IN  upTo[Len(text)]
IsYear(text)  == Len(text) = 4 /\ ValueOf(text) \in 1900 .. 2099
Numeric(page) == Picked(page, {i \in DOMAIN page : Len(page[i].text) >= 4 /\ ~IsYear(page[i].text)})
Near(v, w)    == Abs(v.x - w.x) <= 2 /\ Abs(v.y - w.y) <= 2
(* _pair_words, in the order they were paired *)
Placed(as, hs) ==
  LET near == {p \in (DOMAIN as) \X (DOMAIN hs) : Near(as[p[1]], hs[p[2]])}
      ranked == Ranked(near, [p \in near |-> <<- Abs(as[p[1]].x - hs[p[2]].x) - Abs(as[p[1]].y - hs[p[2]].y)>>])
      taken == Greedy(ranked)
  IN Picked(ranked, {k \in DOMAIN ranked : ranked[k] \in taken})
(* A pair whose H value is next to the A word too belongs to the overlays.   *)
Shadowed(as, i, w) == \E j \in DOMAIN as \ {i} : Near(as[i], as[j]) /\ as[j].text = w.text
(* Two places that exchanged their values are one finding.                   *)
Mirrored(as, hs, p, q) == as[q[1]].text = hs[p[2]].text /\ hs[q[2]].text = as[p[1]].text
Consumed(as, hs, conflicts, gone, i) ==
  LET mirrors == {j \in (i + 1) .. Len(conflicts) : j \notin gone /\ Mirrored(as, hs, conflicts[i], conflicts[j])}
  IN IF i \in gone \/ mirrors = {} THEN gone ELSE gone \union {CHOOSE j \in mirrors : \A k \in mirrors : j <= k}
Merge(as, hs, conflicts) ==
  LET gone[i \in 0 .. Len(conflicts)] == IF i = 0 THEN {} ELSE Consumed(as, hs, conflicts, gone[i - 1], i)
  IN  Picked(conflicts, DOMAIN conflicts \ gone[Len(conflicts)])
PageTwins(pageA, pageH) ==
  LET as == Numeric(pageA)
      hs == Numeric(pageH)
      pairs == Placed(as, hs)
      Conflict(p) == as[p[1]].text # hs[p[2]].text /\ ~Shadowed(as, p[1], hs[p[2]])
      conflicts == Picked(pairs, {k \in DOMAIN pairs : Conflict(pairs[k])})
      merged == Merge(as, hs, conflicts)
  IN IF Len(pairs) < 4 \/ 10 * Len(pairs) < 9 * Larger(Len(as), Len(hs)) \/ Len(merged) > PerPage THEN <<>>
     ELSE [n \in DOMAIN merged |-> <<as[merged[n][1]].text, hs[merged[n][2]].text>>]
PositionTwins(pagesA, pagesH) ==
  IF Len(pagesA) # Len(pagesH) THEN <<>>
  ELSE FirstFew(Joined([p \in DOMAIN pagesA |-> PageTwins(pagesA[p], pagesH[p])]), PositionsPerJob)

(* ---- Numbers that lie on others: scan_pdf_overlays ------------------------- *)
Wide == 5    \* width of a digit, and height of a line
Tall == 10
Overlap(v, w) ==
  LET wide(u) == Wide * Len(u.text)
      right == IF v.x + wide(v) < w.x + wide(w) THEN v.x + wide(v) ELSE w.x + wide(w)
      least == IF wide(v) < wide(w) THEN wide(v) ELSE wide(w)
  IN /\ 2 * (right - Larger(v.x, w.x)) >= least
     /\ 10 * (Tall - Abs(v.y - w.y)) >= 6 * Tall
Substituted(v, w) ==
  /\ Len(v.text) = Len(w.text) /\ v.text # w.text
  /\ Cardinality({d \in DOMAIN v.text : v.text[d] # w.text[d]}) <= 2
Overlaid(v, w) == Substituted(v, w) /\ Overlap(v, w)
Overlays(page) ==
  LET words == Picked(page, {i \in DOMAIN page : Len(page[i].text) >= 3})
      all == {p \in (DOMAIN words) \X (DOMAIN words) : p[1] < p[2] /\ Overlaid(words[p[1]], words[p[2]])}
      Texts(p) == {words[p[1]].text, words[p[2]].text}
      first == {p \in all : \A q \in all : Texts(q) = Texts(p) => q = p \/ InListOrder(p, q)}
  IN {LET v == words[p[1]] w == words[p[2]]
          sure == v.order # 0 /\ w.order # 0 /\ v.order # w.order
      IN [visible |-> IF sure /\ v.order < w.order THEN w.text ELSE v.text,
          hidden  |-> IF sure /\ v.order < w.order THEN v.text ELSE w.text, sure |-> sure] : p \in first}
=============================================================================
