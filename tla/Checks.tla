------------------------------- MODULE Checks -------------------------------
(* The checks as the orchestrator calls them: each is a function of parsed   *)
(* reports, and one step runs one check on one input.  The inputs are the    *)
(* CONSTANTS, sets that MCChecks makes small.  found is what the check finds *)
(* and, where it pairs things, the pairs.                                    *)
EXTENDS Matching, Functions

CONSTANTS NumericSides, NumericFactors, Ratios,
          MetricSides, AlteredTo, PageSides,
          BlockSides, RowSides, FactTexts, Mentions, ReviewPairs, Answers,
          EventSides, Reports, NewNumbers, TableSides, BranchDocs, Pages, NewTexts, SeenItems, LayerItems

VARIABLES check, input, found
vars == <<check, input, found>>

(* What the parsers hand over: lists, whole numbers, and finite sets of words, *)
(* keys and topics.                                                          *)
IsList(s) == Len(s) \in Nat /\ DOMAIN s = 1 .. Len(s)
PageSide(s) ==
  /\ IsList(s.text) /\ \A i \in DOMAIN s.text : s.text[i].page \in Int
  /\ IsFiniteSet(s.risky) /\ s.risky \subseteq Int /\ s.total \in Int
IsTable(t) ==
  /\ {"unit", "rows"} \subseteq DOMAIN t /\ t.unit \in Int
  /\ IsList(t.rows) /\ \A r \in DOMAIN t.rows :
       IsList(t.rows[r]) /\ \A c \in DOMAIN t.rows[r] : "n" \in DOMAIN t.rows[r][c] /\ t.rows[r][c].n \in Int
IsText(seg) ==
  /\ seg.unit \in Int /\ seg.size \in Nat
  /\ IsList(seg.tokens) /\ \A i \in DOMAIN seg.tokens : seg.tokens[i].n \in Int
  /\ IsList(seg.tail) /\ \A i \in DOMAIN seg.tail : seg.tail[i] \in Int
IsReport(r) ==
  /\ {"tables", "texts", "ocr"} \subseteq DOMAIN r
  /\ IsList(r.tables) /\ \A t \in DOMAIN r.tables : IsTable(r.tables[t])
  /\ IsList(r.texts) /\ \A s \in DOMAIN r.texts : IsText(r.texts[s])
  /\ IsList(r.ocr) /\ \A i \in DOMAIN r.ocr :
       r.ocr[i].n \in Int /\ r.ocr[i].unit \in Int /\ r.ocr[i].source # "table"
IsRow(r) ==
  /\ IsFiniteSet(r.topics) /\ IsFiniteSet(r.actions) /\ IsFiniteSet(r.keys)
  /\ IsList(r.facts) /\ r.facts = [i \in DOMAIN r.facts |-> r.facts[i]]
  /\ r.long => r.keys # {}
IsEntry(e) ==
  {"value", "label", "column"} \subseteq DOMAIN e /\ e.value \in Int /\ e.label \in Nat /\ e.column \in Nat
ASSUME NumericAssumption ==
  /\ NumericFactors \subseteq Int
  /\ \A s \in NumericSides : IsList(s) /\ \A i \in DOMAIN s :
       {"value", "unit", "conf"} \subseteq DOMAIN s[i] /\ s[i].value \in Int /\ s[i].unit \in Int /\ s[i].conf \in Int
ASSUME EventsAssumption ==
  \A s \in EventSides : IsList(s) /\ \A i \in DOMAIN s :
    "words" \in DOMAIN s[i] /\ IsFiniteSet(s[i].words) /\ \A x \in s[i].mentions : x.n \in Int
ASSUME FactsAssumption ==
  /\ \A s \in FactTexts : IsList(s) /\ \A i \in DOMAIN s :
       {"kind", "n", "unit", "cur", "words", "pos", "rate"} \subseteq DOMAIN s[i] /\ s[i].n \in Nat /\ s[i].pos \in Int
  /\ \A x \in Mentions : x.n \in Nat
ASSUME BlocksAssumption ==
  \A s \in BlockSides : IsList(s) /\ \A i \in DOMAIN s :
    s[i].page \in Int /\ IsFiniteSet(s[i].topics) /\ IsFiniteSet(s[i].actions) /\ IsFiniteSet(s[i].keys)
ASSUME TablesAssumption ==
  \A s \in RowSides : IsList(s) /\ \A t \in DOMAIN s :
    s[t].page \in Int /\ IsFiniteSet(s[t].keys) /\ IsList(s[t].rows) /\ \A r \in DOMAIN s[t].rows : IsRow(s[t].rows[r])
ASSUME RowsAssumption ==
  \A s \in TableSides : IsList(s) /\ \A t \in DOMAIN s :
    /\ "entries" \in DOMAIN s[t] /\ IsList(s[t].entries)
    /\ \A i \in DOMAIN s[t].entries : IsEntry(s[t].entries[i])
ASSUME ReviewAssumption ==
  \A s \in ReviewPairs : IsList(s) /\ \A i \in DOMAIN s : "conf" \in DOMAIN s[i] /\ s[i].conf \in Int
ASSUME OcrAssumption ==
  \A s \in PageSides : PageSide(s)
ASSUME MetricsAssumption ==
  \A s \in MetricSides : IsList(s) /\ s = [i \in DOMAIN s |-> s[i]] /\ \A i \in DOMAIN s :
    /\ {"key", "value", "small", "period", "ck", "role", "scope", "page", "marked"} \subseteq DOMAIN s[i]
    /\ s[i].key \in {"assets", "eps"}
ASSUME LayersAssumption ==
  /\ \A s \in LayerItems : IsFiniteSet(s) /\ \A t \in s : /\ t.value \in Int /\ t.conf \in Int
                                                       /\ \A v \in SeenItems : v.sim[t.id] \in Int /\ v.rows[t.id] \in Int
  /\ \A v \in SeenItems : v.value \in Int
ASSUME ReportsAssumption ==
  NewNumbers \subseteq Int /\ \A r \in Reports : IsReport(r)
ASSUME PagesAssumption ==
  /\ \A p \in Pages : IsList(p) /\ p = [i \in DOMAIN p |-> p[i]] /\ \A i \in DOMAIN p :
       /\ {"text", "x", "y", "order"} \subseteq DOMAIN p[i] /\ IsList(p[i].text)
       /\ p[i].x \in Int /\ p[i].y \in Int /\ p[i].order \in 0 .. 999
  /\ \A text \in NewTexts : IsList(text)
ASSUME BranchesAssumption ==
  \A d \in BranchDocs : IsList(d) /\ \A i \in DOMAIN d : {"name", "count", "address", "asset", "plain", "at"} \subseteq DOMAIN d[i]

N == INSTANCE NumericCheck WITH Multipliers <- {1, 10}
K == INSTANCE KeyMetricTamper WITH
       FrontLimit <- 2, StrictLimit <- 4, SmartMax <- 3, SmartBudget <- 2, StrictBudget <- 3,
       DiffsPerKey <- 2, ReviewBudget <- 1, Scales <- {10}

F == INSTANCE BilingualReview WITH
       Fx <- [CNY |-> 11, HKD |-> 10], Tolerance <- 10, Scales <- {1000, 10000},
       MaxPairs <- 2, BatchSize <- 1
P == INSTANCE BilingualPairing WITH MinHigh <- 6, MinLow <- 3, MaxCandidates <- 2, SameValue <- F!SameValue

E == INSTANCE EventCoverage WITH
       MatchAt <- 420, DiffAt <- 650, Margin <- 120, GenericDays <- {1231}, RealCount <- 1000, LargeSum <- 1000

R == INSTANCE Profiles WITH
       MetricKeys <- <<"assets", "revenue", "eps">>, Cap <- 3, PerRow <- 2, MaxConflicts <- 2, Reach <- 3,
       SmallKeys <- {"eps"}, SignedKeys <- {"revenue"}, CoreKeys <- {"assets", "revenue"}, CoreNeeded <- 1, KeysNeeded <- 1,
       Topics <- <<"mda", "risk">>, SectionTopic <- [bs |-> "equity"],
       ExpectedMetrics <- {<<"eps", "A">>}, ExpectedTopics <- {<<"risk", "H">>}, Compatible <- N!Compatible

T == INSTANCE Twins WITH
       MinKeys <- 3, AnchorOf <- <<3, 4>>, PerTable <- 1, PerJob <- 3, Factors <- <<<<1, 1>>, <<10, 1>>>>,
       MinValue <- 10, Round <- 10, MinRows <- 3, PerPage <- 2, PositionsPerJob <- 3

Init == check = "none" /\ input = <<>> /\ found = <<>>
Run(name) == check = "none" /\ check' = name

RunNumeric ==
  /\ Run("numeric")
  /\ \E as, hs \in NumericSides, factor \in NumericFactors, comparable \in BOOLEAN :
       input' = [as |-> N!Candidates(as, FALSE), hs |-> N!Candidates(hs, FALSE), factor |-> factor, tol |-> 0,
                 shareOk |-> FALSE, core |-> TRUE, review |-> [comparable |-> comparable, conf |-> 90]]
  /\ found' = [pairs |-> N!Assigned(input'), told |-> N!Diffs(input')]
RunFactor ==
  /\ Run("factor")
  /\ input' \in Ratios
  /\ found' = N!Factor(input')

(* H is A with one occurrence altered, or unaltered (at = 0).                *)
Altered(as, at, to) == [i \in DOMAIN as |-> IF i = at THEN [as[i] EXCEPT !.value = to] ELSE as[i]]
RunTamper ==
  /\ Run("tamper")
  /\ \E as \in MetricSides, to \in AlteredTo, answer \in BOOLEAN : \E at \in 0 .. Len(as) :
       input' = [as |-> as, hs |-> Altered(as, at, to), at |-> at, answer |-> answer]
  /\ found' = K!ExactDiffs(input'.as, input'.hs, <<"assets", "eps">>, input'.answer)
RunPages ==
  /\ Run("pages")
  /\ input' \in PageSides
  /\ found' = K!OcrPages(input')

(* Both reports have the same text layer; what is seen may differ.           *)
RunVisual ==
  /\ Run("visual")
  /\ \E texts \in LayerItems, a, h \in SeenItems : input' = [texts |-> texts, a |-> a, h |-> h]
  /\ found' = K!Deduped(K!VisualDiff("A", input'.a, input'.texts) \o K!VisualDiff("H", input'.h, input'.texts))

RunPairing ==
  /\ Run("pairing")
  /\ \E zh, en \in BlockSides, auditor \in BOOLEAN :
       input' = [zh |-> zh, en |-> en, zhTotal |-> 60, enTotal |-> 60, auditor |-> auditor]
  /\ found' = [pairs |-> P!BlockPairs(input'), sections |-> P!MissingSections(input'),
                paragraphs |-> P!MissingParagraphs(input')]
RunTables ==
  /\ Run("tables")
  /\ \E zh, en \in RowSides : input' = [zhTables |-> zh, enTables |-> en, zhTotal |-> 60, enTotal |-> 60]
  /\ found' = LET tables == P!MatchedTables(input')
                  Rows(p) == P!RowPairs(input'.zhTables[p[1]], input'.enTables[p[2]])
                  Lost(p) == P!MissingRows(input'.zhTables[p[1]], input'.enTables[p[2]])
                  Told(p, r) == F!RowFindings(input'.zhTables[p[1]].rows[r[1]], input'.enTables[p[2]].rows[r[2]])
              IN [tables |-> tables, missing |-> P!MissingTables(input'), rows |-> [p \in tables |-> Rows(p)],
                  lost |-> [p \in tables |-> Lost(p)], told |-> [p \in tables |-> UNION {Told(p, r) : r \in Rows(p)}]]

(* The English text is the Chinese one, with one mention altered or none.    *)
Rewritten(x, to) == [x EXCEPT !.n = to.n, !.unit = IF x.kind = "amount" THEN to.unit ELSE @,
                              !.cur = IF x.kind = "amount" THEN to.cur ELSE @]
RunFacts ==
  /\ Run("facts")
  /\ \E text \in FactTexts, to \in Mentions, conf \in {70, 90} : \E at \in 0 .. Len(text) :
       input' = [zh |-> text, at |-> at, conf |-> conf,
                 en |-> [i \in DOMAIN text |-> IF i = at THEN Rewritten(text[i], to) ELSE text[i]]]
  /\ found' = F!FactFindings([zh |-> F!Facts(input'.zh, ""), en |-> F!Facts(input'.en, ""), conf |-> input'.conf,
                             shared |-> TRUE, dates |-> 0, zhPage |-> 1, enPage |-> 1])
RunReview ==
  /\ Run("review")
  /\ \E pairs \in ReviewPairs, answers \in [1 .. 2 -> Answers] : input' = [pairs |-> pairs, answers |-> answers]
  /\ found' = F!Review(input'.pairs, input'.answers)

(* H is A with the amounts of one event altered or of none, or one event.    *)
Restated(e, to) == [e EXCEPT !.mentions = {[m EXCEPT !.n = IF m.kind = "amount" THEN to ELSE @] : m \in e.mentions}]
Reworded(s, at, to) == [i \in DOMAIN s |-> IF i = at THEN Restated(s[i], to) ELSE s[i]]
Others(as, to) ==
  {Reworded(as, at, to) : at \in 0 .. Len(as)} \union {Reworded(s, 1, to) : s \in {t \in EventSides : Len(t) = 1}}
OtherAmounts == {110, 1500}
RunEvents ==
  /\ Run("events")
  /\ \E as \in EventSides, to \in OtherAmounts, same \in BOOLEAN : \E hs \in Others(as, to) :
       input' = [as |-> E!Extracted(as), hs |-> E!Extracted(hs), same |-> same]
  /\ found' = LET pairs == E!EventPairs(input'.as, input'.hs)
              IN [pairs |-> pairs, told |-> E!EventDiffs(input'.as, input'.hs, pairs, input'.same),
                  inside |-> E!InternalDiffs(input'.as)]

(* H is A with one number of a table altered or none, or another report.     *)
Retouched(report, t, r, c, to) == [report EXCEPT !.tables[t].rows[r][c].n = IF @ = 0 THEN 0 ELSE to]
Retouches(report) ==
  {Retouched(report, p[1], p[2], p[3], to) : to \in NewNumbers,
     p \in {q \in (DOMAIN report.tables) \X (1 .. 3) \X (1 .. 4) :
              q[2] \in DOMAIN report.tables[q[1]].rows /\ q[3] \in DOMAIN report.tables[q[1]].rows[q[2]]}}
Compared(a, h) == [a |-> a.metrics, h |-> h.metrics, told |-> R!ProfileDiffs(a, h)]
RunProfiles ==
  /\ Run("profiles")
  /\ \E as \in Reports : \E hs \in {as} \union Retouches(as) \union {r \in Reports : Len(r.tables) = 0} : input' = [as |-> as, hs |-> hs]
  /\ found' = Compared(R!Profile(input'.as), R!Profile(input'.hs))

(* H is A with the rows of one table changed: one amount, two, all of them   *)
(* under the next label, or printed in another unit.                         *)
Edits == {"none", "one", "two", "rotate", "unit"}
NewValue(t, edit, at, i) ==
  LET n == Len(t.entries)
      After(k) == (k % n) + 1
  IN CASE edit = "one" /\ i = at -> t.entries[i].value + 7
       [] edit = "two" /\ i \in {at, After(at)} -> t.entries[i].value + 7
       [] edit = "rotate" -> t.entries[After(i)].value
       [] edit = "unit" -> IF i = at THEN t.entries[i].value + 7 ELSE t.entries[i].value * 10
       [] OTHER -> t.entries[i].value
Edited(t, edit, at) ==
  [t EXCEPT !.entries = [i \in DOMAIN t.entries |-> [t.entries[i] EXCEPT !.value = NewValue(t, edit, at, i)]]]
RunRows ==
  /\ Run("rows")
  /\ \E as \in TableSides, edit \in Edits, up \in BOOLEAN : \E t \in DOMAIN as : \E at \in DOMAIN as[t].entries :
       input' = [as |-> as, hs |-> [as EXCEPT ![t] = Edited(as[t], edit, at)], edit |-> edit, table |-> t, at |-> at, up |-> up]
  /\ found' = T!RowTwins(input'.as, input'.hs, input'.up)
(* In H the assets, or all but the names, are those of the next row.         *)
Shifted(doc, edit) ==
  LET next == [i \in DOMAIN doc |-> doc[(i % Len(doc)) + 1]]
  IN [i \in DOMAIN doc |-> CASE edit = "column" -> [doc[i] EXCEPT !.asset = next[i].asset]
                             [] edit = "row" -> [next[i] EXCEPT !.name = doc[i].name]
                             [] edit = "value" /\ i = 1 -> [doc[i] EXCEPT !.asset = @ * 3]
                             [] OTHER -> doc[i]]
RunBranches ==
  /\ Run("branches")
  /\ \E doc \in BranchDocs, edit \in {"none", "value", "column", "row"} :
       input' = [doc |-> doc, a |-> T!BranchesOf(doc), h |-> T!BranchesOf(Shifted(doc, edit)), edit |-> edit]
  /\ found' = [told |-> T!BranchDiffs(input'.a, input'.h), warned |-> T!BranchWarning(input'.a, input'.h)]
(* A number of the page is retyped in H, exchanged with the next one, or in  *)
(* A another number lies on it.                                              *)
Retyped(page, at, to) == [page EXCEPT ![at].text = to]
Exchanged(page, i, j) == [page EXCEPT ![i].text = page[j].text, ![j].text = page[i].text]
Covered(page, at, to) == <<[page[at] EXCEPT !.text = to, !.order = 1000]>> \o page
RunPositions ==
  /\ Run("positions")
  /\ \E page \in Pages, edit \in {"none", "retyped", "exchanged", "overlaid"}, to \in NewTexts : \E at \in DOMAIN page :
       input' = [a |-> IF edit = "overlaid" THEN Covered(page, at, to) ELSE page, at |-> at, to |-> to, edit |-> edit,
                 h |-> CASE edit = "retyped" -> Retyped(page, at, to)
                         [] edit = "exchanged" -> Exchanged(page, at, (at % Len(page)) + 1)
                         [] OTHER -> page]
  /\ found' = [told |-> T!PositionTwins(<<input'.a>>, <<input'.h>>), over |-> T!Overlays(input'.a)]

Next ==
  \/ RunTables \/ RunEvents \/ RunNumeric \/ RunFactor \/ RunTamper \/ RunPages \/ RunVisual
  \/ RunPairing \/ RunFacts \/ RunReview \/ RunProfiles
  \/ RunRows \/ RunBranches \/ RunPositions
Spec == Init /\ [][Next]_vars

-----------------------------------------------------------------------------
NumericPairsAreFair ==
  check = "numeric" =>
    OneToOne(found.pairs)
    /\ Unblocked(found.pairs, N!Explained(input), N!Ranks(input))
BlockPairsAreFair ==
  check = "pairing" =>
    /\ OneToOne(found.pairs)
    /\ \A p \in P!BestCandidates(input) : p[1] \in Lefts(found.pairs) \/ p[2] \in Rights(found.pairs)
    /\ \A i \in DOMAIN input.zh \ Lefts(found.pairs) :
         \A j \in P!CandidateBlocks(input, i, {}) \ Rights(found.pairs) : P!ScoreAt(input, <<i, j>>) < 3
TablePairsAreFair ==
  check = "tables" =>
    /\ OneToOne(found.tables)
    /\ Unblocked(P!TablePairs(input), P!TableCandidates(input), P!TableRanks(input))
    /\ \A p \in found.tables : OneToOne(found.rows[p])
EventPairsAreFair ==
  check = "events" =>
    /\ OneToOne(found.pairs)
    /\ \A i \in DOMAIN input.as \ Lefts(found.pairs), j \in DOMAIN input.hs \ Rights(found.pairs) :
         E!EventScore(input.as[i], input.hs[j]) < 420
(* Whatever two lists a check pairs up (occurrences of a metric, paragraphs, *)
(* tables and their rows, events, tables by their labels), nothing is paired *)
(* twice: the greedy loops of numeric.py, bilingual.py, coverage.py and      *)
(* table_row_twin.py consume both partners.  Where a loop goes by one ranking *)
(* (occurrences, tables of two languages), a candidate that stays alone met  *)
(* a partner at least as good.  Events and paragraphs are paired until no    *)
(* two that fit are left.  Of rows and of row twins no more is said.         *)
PairsAreFair ==
  /\ EventPairsAreFair /\ NumericPairsAreFair /\ BlockPairsAreFair /\ TablePairsAreFair
  /\ check = "rows" => OneToOne(found.pairs)

-----------------------------------------------------------------------------
(* Tables of one report that could be taken for each other.                  *)
Alike(tables) ==
  \E s, t \in DOMAIN tables : s # t /\ T!Verdict(T!RowsOf(tables[s]), T!RowsOf(tables[t])).pairs
(* Rows of the branch table that slipped as a whole, names excepted: no      *)
(* amount was altered, the extraction went wrong.  No two rows of it have a  *)
(* name, an amount or the rest in common.                                    *)
Slipped(q) ==
  /\ q.edit = "row" /\ Len(q.doc) >= 3 /\ \A i \in DOMAIN q.doc : T!Distinctive(q.doc[i].asset)
  /\ \A i, j \in DOMAIN q.doc : i # j =>
       /\ q.doc[i].name # q.doc[j].name /\ q.doc[i].asset # q.doc[j].asset
       /\ <<q.doc[i].count, q.doc[i].address>> # <<q.doc[j].count, q.doc[j].address>>
(* Nothing of a list has more in common with another thing of it than with    *)
(* itself; scores are given for all pairs of places.                         *)
OwnBest(score) ==
  \A p \in DOMAIN score : score[p] <= score[<<p[1], p[1]>>] /\ score[p] <= score[<<p[2], p[2]>>]
(* Parts of SameReportIsClean.  Amounts, metrics: what a key has is told only *)
(* as low, for it has equal values of one scope.                             *)
NumericSameIsClean ==
  check = "numeric" /\ input.as = input.hs /\ input.factor = 0 => found.told = <<>>
MetricSameIsClean ==
  check = "tamper" /\ input.as = input.hs => \A i \in DOMAIN found.told : found.told[i] = "low"
(* Paragraphs: one that is telling finds itself, unless it has an amount and *)
(* no term, which is less than any pair needs.                               *)
ParagraphSameIsClean ==
  check = "pairing" /\ input.zh = input.en =>
    /\ found.sections = {}
    /\ OwnBest([p \in (DOMAIN input.zh) \X (DOMAIN input.zh) |-> P!ScoreAt(input, p)]) =>
         \A i \in found.paragraphs : P!ScoreAt(input, <<i, i>>) < 3
(* Tables: those with a term in their title find themselves, and then all    *)
(* rows do, if none of them tells more of another one than of itself.        *)
OwnRows(t) == OwnBest([p \in (DOMAIN t.rows) \X (DOMAIN t.rows) |-> P!RowScore(t, t, t.rows[p[1]], t.rows[p[2]])])
TableSameIsClean ==
  check = "tables" /\ input.zhTables = input.enTables =>
    /\ \A t \in found.missing : input.zhTables[t].title = {}
    /\ \A p \in found.tables : found.told[p] = {} /\ (OwnRows(input.zhTables[p[1]]) => found.lost[p] = {})
FactSameIsClean ==
  check = "facts" /\ input.zh = input.en => found = {}
(* Events: a statement on governance without an amount, day or name is never *)
(* paired with itself.                                                       *)
EventSameIsClean ==
  check = "events" /\ input.as = input.hs
  /\ (\A i \in DOMAIN input.as : LET e == input.as[i] IN e.words # {} /\ (E!SoftPair(e, e) => E!HardAnchor(e, e)))
  => found.told = {}
ProfileSameIsClean ==
  check = "profiles" /\ input.as = input.hs => found.told = {}
RowSameIsClean ==
  check = "rows" /\ input.as = input.hs /\ ~Alike(input.as) => found.told = <<>>
BranchSameIsClean ==
  check = "branches" /\ (input.edit = "none" \/ Slipped(input)) => found.told = {}
PlaceSameIsClean ==
  check = "positions" /\ input.edit = "none" => found.told = <<>>
(* Seen what the text layer says, and no other number close to it is on the  *)
(* page; a sign that OCR alone has does not count.                           *)
SeenAsWritten(v, texts) ==
  \A t \in texts :
    LET x == K!Signed(v, t)
    IN x = t.value \/ ~(K!Close(x, t.value, 10, 100) \/ (v.small /\ Abs(x - t.value) <= 5))
VisualSameIsClean ==
  check = "visual" /\ (\A v \in {input.a, input.h} : SeenAsWritten(v, input.texts)) => found = <<>>
(* A report compared with an equal one has no findings that assert a         *)
(* difference: pairing, thresholds, vetoes and the reconciliation of a key   *)
(* must not turn what a report says twice (restated, in another context, in  *)
(* another section, in slipped rows) into a contradiction with itself.       *)
(* key_metric_tamper.py may add low ones, which ask for nothing.             *)
SameReportIsClean ==
  /\ NumericSameIsClean /\ MetricSameIsClean /\ VisualSameIsClean
  /\ ParagraphSameIsClean /\ TableSameIsClean /\ FactSameIsClean
  /\ EventSameIsClean /\ ProfileSameIsClean
  /\ RowSameIsClean /\ BranchSameIsClean /\ PlaceSameIsClean

-----------------------------------------------------------------------------
(* If an amount of A may stand beside one of H and no match explains either, *)
(* something is told, unless the two sides have amounts that may be years.   *)
NumericAlterationIsTold ==
  check = "numeric" =>
    \A p \in N!Pairs(input) :
      \/ \E q \in N!Explained(input) : q[1] = p[1] \/ q[2] = p[2]
      \/ \E i \in DOMAIN input.as, j \in DOMAIN input.hs :
           N!NonMonetary(input.as[i].value) /\ N!NonMonetary(input.hs[j].value)
      \/ found.told # <<>>
(* An altered amount within 1 % is told unless the rest of the key explains  *)
(* it, or an equal amount of another scope hides it.                         *)
MetricAlterationIsTold ==
  check = "tamper" /\ input.as # input.hs =>
    LET a == input.as[input.at] h == input.hs[input.at]
    IN \/ K!RoleOf(a) # "main_value" \/ ~K!Close(a.value, h.value, 1, 100)
       \/ \E i \in DOMAIN input.as : input.as[i].key = a.key /\ K!Explains(input.as[i], h)
       \/ \E i \in DOMAIN input.hs : i # input.at /\ input.hs[i].value = h.value /\ K!PeriodOf(input.hs[i]) = K!PeriodOf(h)
       \/ found.told # <<>>
(* What is seen otherwise than the text layer has it in the same row is told, *)
(* for one side at least: equal places of both reports count as one finding. *)
VisibleAlterationIsTold ==
  check = "visual" =>
    \A v \in {input.a, input.h}, t \in input.texts :
      t.page = v.page /\ t.family = v.family /\ K!SameRow(v, t) /\ K!Legible(v, t) =>
        \E i \in DOMAIN found : found[i].pages = <<v.page, v.page>>
(* An altered mention is told unless it is no fact, says the same as before   *)
(* or in its unit, or its words do not tell its matter (or, of several, those *)
(* of another mention of its role), or another one says what it says in one  *)
(* of the texts: that one may be paired in its place.  Only of a percentage   *)
(* behind more than Positional has names for it is not known what it is.      *)
FactAlterationIsTold ==
  check = "facts" /\ input.at # 0 =>
    LET Read(i) == F!Facts(<<input.zh[i]>>, "")
        zs == Read(input.at) es == F!Facts(<<input.en[input.at]>>, "")
        others == {i \in DOMAIN input.zh \ {input.at} :
                     Read(i) # <<>> /\ Read(i)[1].kind = zs[1].kind /\ Read(i)[1].role = zs[1].role}
    IN \/ zs = <<>> \/ es = <<>> \/ F!SameValue(zs[1], es[1])
       \/ zs[1].kind = "amount" /\ F!Scaled(zs[1].value, es[1].value) /\ F!UnitExplains(zs[1], es[1])
       \/ ~F!Fits(zs[1], es[1], others # {})
       \/ \E i \in others : LET o == Read(i)[1]
                            IN ~F!Fits(o, o, TRUE) \/ F!SameValue(zs[1], o) \/ F!SameValue(o, es[1])
       \/ zs[1].kind = "pct" /\ Len(input.zh) > Len(F!Positional)
       \/ found # {}
(* What only one profile says of a metric is told, if the item is primary or *)
(* contradicts another one of its own report, as far as conflicts are kept.  *)
Against(rest) ==
  {p \in (DOMAIN rest) \X (DOMAIN rest) :
     /\ p[1] < p[2] /\ R!PairComparable(rest[p[1]], rest[p[2]]) /\ rest[p[1]].n # rest[p[2]].n
     /\ rest[p[1]].page = rest[p[2]].page \/ ~R!Below(rest[p[1]].n, rest[p[2]].n, 5, 100)}
ProfileAlterationIsTold ==
  check = "profiles" =>
    \A k \in DOMAIN found.a \intersect DOMAIN found.h : \A i \in DOMAIN found.h[k].items :
      LET x == found.h[k].items[i]
          rest == R!Reliable(found.h[k].items)
      IN \/ \E j \in DOMAIN found.a[k].items : R!Tolerated(k, R!Amount(x), R!Amount(found.a[k].items[j]))
         \/ x # found.h[k].primary
            /\ (Cardinality(Against(rest)) > 2 \/ \A p \in Against(rest) : x \notin {rest[p[1]], rest[p[2]]})
         \/ \E d \in IF x = found.h[k].primary THEN found.told ELSE R!Findings(found.told) : d.key = k
(* A high finding of the patterns survives whatever the model answers.       *)
ReviewKeepsFindings ==
  check = "review" =>
    \A r \in F!Regular(F!Paired(input.pairs, 75)) :
      r.severity = "high" => \E d \in found.findings : F!Signature(d) = F!Signature(F!Quoted(r))
(* One altered row of a table with enough rows and labels is told, and only  *)
(* that one, in whatever unit H is printed; where no factor makes the tables *)
(* agree and all amounts went to other rows, those are told as one finding,  *)
(* up to the limit of a job.                                                 *)
RowAlterationIsTold ==
  check = "rows" /\ Len(input.as) = 1 =>
    LET a == T!RowsOf(input.as[1]) h == T!RowsOf(input.hs[1])
        keys == DOMAIN a.rows
        off == T!Off(a, h, <<1, 1>>)
        odd == T!Off(a, h, <<1, 10>>)
        factors == {<<1, 1>>, <<10, 1>>} \union {<<a.rows[k], h.rows[k]>> : k \in keys}
        Tells(s) == Len(found.told) = Cardinality(s) /\ s = {found.told[i].key : i \in DOMAIN found.told}
    IN Cardinality(keys) >= 4 /\ DOMAIN h.rows = keys /\ Cardinality(a.labels) >= 3 =>
         /\ input.edit = "one" => Tells(off)
         /\ input.edit = "unit" /\ Cardinality(odd) <= 1 => Tells(odd)
         /\ input.edit = "rotate" /\ T!Permuted(a, h) /\ (\A f \in factors : ~T!Anchored(keys, T!Off(a, h, f))) =>
              /\ Len(found.told) = IF Cardinality(off) < 3 THEN Cardinality(off) ELSE 3
              /\ \A i \in DOMAIN found.told : found.told[i].key \in off /\ (found.told[i].detail <=> i > 1)
(* A branch whose asset alone changed is told, or the table is not compared  *)
(* with a warning; a column of assets under other names is told entirely.    *)
BranchAlterationIsTold ==
  check = "branches" =>
    LET changed == {n \in T!Compared(input.a, input.h) : input.a[n].asset # input.h[n].asset}
        telling == Cardinality({T!AnchorAt(input.a, n) : n \in DOMAIN input.a}) = Cardinality(DOMAIN input.a)
    IN /\ input.edit \in {"value", "column"} => {d.name : d \in found.told} = changed \/ found.warned
       /\ input.edit = "column" /\ telling => {d.name : d \in found.told} = changed
(* A number retyped in place, or exchanged with another (once, not twice),   *)
(* or with another of as many digits on it, is told by one of the two checks *)
(* on a page with enough numbers, if what was and is there are numbers to    *)
(* compare.  (Two digits on two others are nobody's: the scan asks for 3.)   *)
PlaceAlterationIsTold ==
  check = "positions" =>
    LET as == T!Numeric(input.a)
        old == IF input.edit = "overlaid" THEN input.h[input.at].text ELSE input.a[input.at].text
        Spread == \A i, j \in DOMAIN input.a : i = j \/ ~T!Near(input.a[i], input.a[j])
        Counts(text) == Len(text) >= 4 /\ ~T!IsYear(text)
        next == input.a[(input.at % Len(input.a)) + 1].text
    IN Len(as) >= 4 =>
         /\ input.edit = "retyped" /\ Spread /\ old # input.to /\ Counts(old) /\ Counts(input.to) => Len(found.told) = 1
         /\ input.edit = "exchanged" /\ Spread /\ old # next /\ Counts(old) /\ Counts(next) => Len(found.told) = 1
         /\ input.edit = "overlaid" /\ Len(old) >= 3 /\ T!Substituted([text |-> old], [text |-> input.to]) =>
              found.told = <<>> /\ \E o \in found.over : o.visible = input.to /\ o.hidden = old
(* One alteration of a report is told by the check it is in the reach of:    *)
(* candidates that explain each other, tolerances, reconciliation, capped    *)
(* lists and discarded answers of the model must not swallow it.  What each  *)
(* check cannot see is named in its part.                                    *)
AlterationIsTold ==
  /\ NumericAlterationIsTold /\ MetricAlterationIsTold /\ VisibleAlterationIsTold
  /\ FactAlterationIsTold /\ ProfileAlterationIsTold /\ ReviewKeepsFindings
  /\ RowAlterationIsTold /\ BranchAlterationIsTold /\ PlaceAlterationIsTold

(* bilingual.py compares the numbers of rows it has paired: "对已配对的表格行 *)
(* 提取数字事实并比对" (_compare_row_facts).  It does not: see checks_rows.    *)
PairedRowsAreCompared ==
  check = "tables" =>
    \A p \in found.tables : \A r \in found.rows[p] :
      LET z == input.zhTables[p[1]].rows[r[1]].facts[1] e == input.enTables[p[2]].rows[r[2]].facts[1]
      IN <<z.kind, z.role>> = <<e.kind, e.role>> /\ ~F!SameValue(z, e) => found.told[p] # {}

-----------------------------------------------------------------------------
(* No event is told to differ from one that is plainly another: two events   *)
(* about a bond, one of them with its name or phase, have a name, a phase or *)
(* a party in common; the year, the wording and the amounts do not make them *)
(* one bond (the gates of coverage.py before a mismatch counts).             *)
LikeIsComparedWithLike ==
  check = "events" =>
    \A d \in found.told :
      LET a == input.as[d.pair[1]] h == input.hs[d.pair[2]]
          Named(e) == \E m \in e.marks : m[1] \in {"name", "phase"}
          Marks(e) == e.marks \union {<<"entity", n>> : n \in e.entities}
      IN /\ "bond" \in a.domains \intersect h.domains /\ "dividend" \notin a.domains \intersect h.domains
         /\ Named(a) \/ Named(h)
         => \E m \in Marks(a) \intersect Marks(h) : m[1] # "year"

-----------------------------------------------------------------------------
(* What a limit keeps of a metric: a full list, to which only OCR adds, the  *)
(* best item, every page if there are no more pages than places.             *)
ItemsKept(k, all, metric, ocr) ==
  LET own == {i \in DOMAIN all : all[i].key = k}
      full == IF Cardinality(own) > 3 THEN 3 ELSE Cardinality(own)
      kept == {metric.items[i] : i \in DOMAIN metric.items}
      pages == {all[i].page : i \in own}
  IN /\ Cardinality(metric.conflicts) <= 2
     /\ full <= Len(metric.items)
     /\ \A i \in DOMAIN metric.items : i > full => metric.items[i] \in Range(ocr)
     /\ Cardinality(pages) <= 3 => pages \subseteq {x.page : x \in kept}
     /\ \E x \in kept : \A i \in own : ~Above(R!OccRank(all[i]), R!OccRank(x))
(* Limits hold along every path and keep what matters most: pages read by    *)
(* OCR, forced reviews, findings of a key, a table or a job, batches that    *)
(* the model did not answer, occurrences of a metric.                        *)
BudgetsAreKept ==
  /\ check = "pages" => Cardinality(found.pages) <= (IF input.mode = "strict" THEN 3 ELSE 2)
  /\ check = "tamper" => found.calls <= 1 /\ Len(found.told) <= 4
  /\ check = "review" => found.unchecked <= 2
  /\ check = "profiles" =>
       LET all == R!AllItems(input.as)
       IN \A k \in {all[i].key : i \in DOMAIN all} : ItemsKept(k, all, found.a[k], input.as.ocr)
  /\ check = "rows" => Len(found.told) <= 3
  /\ check = "positions" => Len(found.told) <= 2
=============================================================================
