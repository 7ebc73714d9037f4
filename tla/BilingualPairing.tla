--------------------------- MODULE BilingualPairing ---------------------------
(* Which paragraph of the Chinese report is which of the English one, and     *)
(* which table; what has no counterpart.                                      *)
(*                                                                            *)
(* A block is                                                                 *)
(*   page, section    section is the key of _section_key, "" for none         *)
(*   topics, actions  rows of _TOPIC_TERMS and _ACTION_TERMS in its text      *)
(*   keys             keys of the glossary in its text                        *)
(*   facts            the (kind, role) of its facts, a sequence               *)
(*   marks            case numbers, leading digits and dates in its text      *)
(*   weight           "material" (_is_material_bilingual_block), "long" when  *)
(*                    it has 100 characters too, or "slight"                  *)
(* and its place in the sequence is its index.  A table is page, title (keys  *)
(* and topics), keys, section, id, low (a table of definitions) and rows.     *)
EXTENDS Matching, Functions

CONSTANTS MinHigh, MinLow,   \* bilingual_pair_min_score_high, _low
          MaxCandidates,     \* _MAX_PAIR_CANDIDATES
          SameValue(_, _)    \* of two facts, see BilingualFacts

(* _page_window *)
Window(page, zhTotal, enTotal) ==
  IF zhTotal <= 0 THEN 12
  ELSE LET base == Larger(8, (5 * enTotal) \div zhTotal) + (IF page > 50 THEN (page - 50) \div 15 ELSE 0)
       IN IF base < 30 THEN base ELSE 30
InWindow(z, e, zhTotal, enTotal) == Abs(z.page - e.page) <= Window(z.page, zhTotal, enTotal)

(* ---- Paragraphs ------------------------------------------------------------ *)
(* _fast_pair_score: places in the section count when both sections have more *)
(* than one block.                                                            *)
Nth(blocks, i)   == Cardinality({j \in 1 .. (i - 1) : blocks[j].section = blocks[i].section})
Size(blocks, i)  == Cardinality({j \in DOMAIN blocks : blocks[j].section = blocks[i].section})
Place(blocks, i) == (Nth(blocks, i) * 100) \div Size(blocks, i)
SameSection(z, e) == z.section # "" /\ z.section = e.section
PlaceScore(zs, es, i, j) ==
  LET gap == Abs(Place(zs, i) - Place(es, j))
  IN IF ~SameSection(zs[i], es[j]) \/ Size(zs, i) = 1 \/ Size(es, j) = 1 THEN 0
     ELSE IF gap <= 15 THEN 4 ELSE IF gap <= 30 THEN 2 ELSE IF gap >= 70 THEN -2 ELSE 0
Common(S, T) == Cardinality(S \intersect T)
PairScore(zs, es, i, j) ==
  LET z == zs[i] e == es[j]
      near == Abs(z.page - e.page)
      score == (IF SameSection(z, e) THEN 2 ELSE 0) + 3 * Common(z.topics, e.topics)
               + 5 * Common(z.actions, e.actions) + 2 * Common(z.keys, e.keys)
               + (IF near <= 2 THEN 2 ELSE IF near <= 5 THEN 1 ELSE 0) + PlaceScore(zs, es, i, j)
      SharedOver(percent) == 100 * Common(z.keys, e.keys) > percent * Cardinality(z.keys \union e.keys)
  IN score + (IF score < 5 /\ SharedOver(75) THEN 3 ELSE IF score < 5 /\ SharedOver(60) THEN 1 ELSE 0)

(* _candidate_en_blocks: near, of the same section or with a signal in common *)
(* and not used; the best MaxCandidates of them.                              *)
Signals(b) == {<<"topic", t>> : t \in b.topics} \union {<<"action", t>> : t \in b.actions}
              \union {<<"key", k>> : k \in b.keys} \union {<<"fact", f>> : f \in Range(b.facts)}
Closeness(q, i, j) == <<IF SameSection(q.zh[i], q.en[j]) THEN 1 ELSE 0,
                        - Abs(q.en[j].page - q.zh[i].page), - Abs(i - j), - j>>
CandidateBlocks(q, i, used) ==
  LET z == q.zh[i]
      open == {j \in DOMAIN q.en \ used : \/ InWindow(z, q.en[j], q.zhTotal, q.enTotal)
                                          \/ SameSection(z, q.en[j])
                                          \/ Signals(z) \intersect Signals(q.en[j]) # {}}
  IN {j \in open : Cardinality({k \in open : Above(Closeness(q, i, k), Closeness(q, i, j))}) < MaxCandidates}
ScoreAt(q, p) == PairScore(q.zh, q.en, p[1], p[2])

(* _global_best_pairs, then _greedy_pairs for what is left, in the order of   *)
(* the Chinese blocks and with two thresholds.                                *)
BestCandidates(q) ==
  {p \in (DOMAIN q.zh) \X (DOMAIN q.en) : p[2] \in CandidateBlocks(q, p[1], {}) /\ ScoreAt(q, p) >= MinHigh}
GlobalPairs(q) == Greedy(Ranked(BestCandidates(q), [p \in BestCandidates(q) |-> <<ScoreAt(q, p)>>]))
BlockRank(q, i, j) == LET c == Closeness(q, i, j) IN <<ScoreAt(q, <<i, j>>), c[1], c[2], c[3], c[4]>>
With(q, m, least, i, used) ==                   \* the best open block joins i
  LET fit == {j \in CandidateBlocks(q, i, used) : ScoreAt(q, <<i, j>>) >= least}
      Rank(j) == BlockRank(q, i, j)
  IN IF i \in Lefts(m) \/ fit = {} THEN m
     ELSE m \union {<<i, CHOOSE j \in fit : \A k \in fit : ~Above(Rank(k), Rank(j))>>}
Extended(q, m, least, i) == With(q, m, least, i, Rights(m))
GreedyPairs(q, m, least) ==
  LET after[i \in 0 .. Len(q.zh)] == IF i = 0 THEN m ELSE Extended(q, after[i - 1], least, i)
  IN  after[Len(q.zh)]
HighPairs(q)  == GreedyPairs(q, GlobalPairs(q), MinHigh)
BlockPairs(q) == GreedyPairs(q, HighPairs(q), MinLow)
(* The score of a late pair stays below MinHigh.                              *)
FinalScore(q, p, high) ==
  IF p \in high \/ ScoreAt(q, p) < MinHigh THEN ScoreAt(q, p) ELSE MinHigh - 1

(* _text_unit_alignments; confidence in per cent.                             *)
FactTypes(b) == [f \in Range(b.facts) |-> Cardinality({k \in DOMAIN b.facts : b.facts[k] = f})]
Similar(z, e) == z.keys # {} /\ 10 * Common(z.keys, e.keys) >= 6 * Cardinality(z.keys \union e.keys)
AlignedBy(score, z, e) ==
  LET base == IF score > 9 THEN 95 ELSE IF score > 0 THEN 10 * score ELSE 0
      same == IF SameSection(z, e) THEN Larger(base, 75) ELSE base
      told == IF z.facts = <<>> \/ e.facts = <<>> THEN same
              ELSE IF FactTypes(z) = FactTypes(e) THEN Larger(same, 85) ELSE Larger(0, same - 15)
  IN IF z.facts = <<>> /\ e.facts = <<>> /\ Similar(z, e) THEN Larger(told, 70) ELSE told
Confident(q, p, high) == AlignedBy(FinalScore(q, p, high), q.zh[p[1]], q.en[p[2]])
MatchedPairs(q) == LET high == HighPairs(q)
                   IN {p \in GreedyPairs(q, high, MinLow) : Confident(q, p, high) >= 65}

(* ---- Sections and paragraphs without a counterpart ------------------------- *)
LowSections   == {"definitions", "contents"}
CoreSections  == {"balance_sheet", "income_statement", "cash_flow", "equity_statement"}
MergeSections == {"audit", "governance", "directors"}
OtherSections == {"risk", "financial_statements", "notes"} \union MergeSections
SectionsOf(bs) == {bs[i].section : i \in DOMAIN bs} \ {""}
OfSection(q, s) == {i \in DOMAIN q.zh : q.zh[i].section = s}
Extreme(q) == q.zhTotal > 0 /\ q.enTotal > 0 /\ (10 * q.enTotal > 18 * q.zhTotal \/ 10 * q.enTotal < 6 * q.zhTotal)
(* _is_section_expected_to_differ *)
Expected(q, s, matched) ==
  \/ s = "audit" /\ q.auditor
  \/ /\ s \in MergeSections
     /\ 2 * Cardinality(Lefts(matched) \intersect OfSection(q, s)) >= Cardinality(OfSection(q, s))
(* _is_material_section_gap *)
Material(b) == b.weight \in {"material", "long"}
Gap(q, s) == \/ \E i \in OfSection(q, s) : Material(q.zh[i])
             \/ s \in CoreSections
             \/ ~Extreme(q) /\ s \in OtherSections
MissingSections(q) ==
  LET matched == MatchedPairs(q)
  IN {s \in SectionsOf(q.zh) \ (SectionsOf(q.en) \union {q.zh[p[1]].section : p \in matched}) :
        s \notin LowSections /\ ~Expected(q, s, matched) /\ Gap(q, s)}
(* _unpaired_text_unit_diffs *)
MissingParagraphs(q) == {i \in DOMAIN q.zh \ Lefts(BlockPairs(q)) : q.zh[i].weight = "long"}

(* ---- Tables ----------------------------------------------------------------- *)
(* A row is topics, actions, keys, facts (whole facts), period (the periods   *)
(* of the header), unit (its value, 0 for none) and long (a text of terms).    *)
TableSure(t) == IF t.low THEN 20 ELSE IF Len(t.rows) >= 2 THEN 90
                ELSE IF t.rows[1].facts # <<>> THEN 75 ELSE 45
TitleScore(z, e) == IF z.title \intersect e.title # {} THEN 5 ELSE 0
TableScore(z, e) ==
  TitleScore(z, e) + (IF Common(z.keys, e.keys) >= 2 THEN 4 ELSE 2 * Common(z.keys, e.keys))
  + (IF Abs(z.page - e.page) <= 2 THEN 1 ELSE 0)
TableCandidates(q) ==
  {p \in (DOMAIN q.zhTables) \X (DOMAIN q.enTables) :
     LET z == q.zhTables[p[1]] e == q.enTables[p[2]]
     IN TableSure(z) >= 70 /\ TableSure(e) >= 70 /\ InWindow(z, e, q.zhTotal, q.enTotal) /\ TableScore(z, e) >= 4}
TableRank(q, p) == <<TableScore(q.zhTables[p[1]], q.enTables[p[2]])>>
TableRanks(q)   == [p \in TableCandidates(q) |-> TableRank(q, p)]
TablePairs(q)   == Greedy(Ranked(TableCandidates(q), TableRanks(q)))
MatchedTables(q) == {p \in TablePairs(q) : TableRank(q, p)[1] >= 6}    \* score / 8 >= 0.7

(* _row_match_score (_content_match_score and the columns); two rows of one   *)
(* table share the title.                                                     *)
SameFacts(z, e) ==
  Cardinality({i \in DOMAIN z.facts : \E j \in DOMAIN e.facts :
     /\ z.facts[i].kind = e.facts[j].kind /\ z.facts[i].role = e.facts[j].role
     /\ SameValue(z.facts[i], e.facts[j])})
RolesOf(fs) == {<<fs[k].kind, fs[k].role>> : k \in DOMAIN fs}
RowScore(zt, et, z, e) ==
  (IF SameSection(zt, et) THEN 2 ELSE 0) + 3 * Common(z.topics, e.topics) + 5 * Common(z.actions, e.actions)
  + 2 * Common(z.keys, e.keys) + 2 * Common(RolesOf(z.facts), RolesOf(e.facts)) + 4 * SameFacts(z, e)
  + (IF TitleScore(zt, et) > 0 THEN 2 ELSE 0)
  - (IF z.unit # 0 /\ e.unit # 0 /\ z.unit # e.unit THEN 2 ELSE 0)
  + (IF zt.periods = {} \/ et.periods = {} THEN 0 ELSE IF zt.periods = et.periods THEN 1 ELSE -2)
RowPairs(zt, et) ==
  LET Score(p) == RowScore(zt, et, zt.rows[p[1]], et.rows[p[2]])
      alike    == {p \in (DOMAIN zt.rows) \X (DOMAIN et.rows) : Score(p) >= 4}
  IN Greedy(Ranked(alike, [p \in alike |-> <<Score(p)>>]))

(* _table_diffs_from_units: tables of the statements without a counterpart,   *)
(* and rows without one when fewer than four in five have one.                *)
MissingTables(q) ==
  {t \in DOMAIN q.zhTables : /\ TableSure(q.zhTables[t]) >= 70 /\ t \notin Lefts(MatchedTables(q))
                             /\ q.zhTables[t].section \in CoreSections}
MissingRows(zt, et) ==
  LET found == Lefts(RowPairs(zt, et))
  IN IF 5 * Cardinality(found) >= 4 * Len(zt.rows) THEN {}
     ELSE {r \in DOMAIN zt.rows \ found : zt.rows[r].facts # <<>> \/ zt.rows[r].long}
=============================================================================
