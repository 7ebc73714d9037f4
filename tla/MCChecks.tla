------------------------------ MODULE MCChecks ------------------------------
EXTENDS Checks, TLC

SeqsUpTo(n, S) == UNION {[1 .. k -> S] : k \in 1 .. n}

Number(v, section, y, c) ==
  [value |-> v, unit |-> 1, section |-> section, words |-> {}, quarter |-> FALSE, year |-> y, col |-> "none",
   conf |-> c, hit |-> TRUE, source |-> "table"]
MCNumbers ==
  {Number(1000, "statement", 0, 90), Number(1004, "statement", 25, 90), Number(1000, "notes", 25, 90),
   Number(1000, "statement", 24, 90), Number(1060, "statement", 25, 90),
   [Number(1004, "mda", 25, 70) EXCEPT !.words = {"highlights", "main"}],
   [Number(100, "statement", 25, 90) EXCEPT !.unit = 10], Number(30, "statement", 25, 90), Number(32, "statement", 25, 90),
   [Number(5000, "mda", 25, 90) EXCEPT !.source = "text", !.hit = FALSE, !.words = {"main"}],
   [Number(1300, "notes", 25, 90) EXCEPT !.words = {"segment", "main"}, !.col = "prior"]}
MCNumericSides == SeqsUpTo(2, MCNumbers) \union {<<n, Number(1300, "share_changes", 25, 90)>> : n \in MCNumbers}
MCRatios == SeqsUpTo(4, {12, 405, 430, 800})

Key(p, r, k) == [period |-> p, role |-> r, scope |-> "", kind |-> k]
Metric(k, v, p, ck, page) ==
  [key |-> k, value |-> v, small |-> k = "eps", period |-> p, ck |-> ck, role |-> "main_value",
   scope |-> "annual", page |-> page, marked |-> FALSE]
MCMetrics ==
  {Metric("assets", v, p, Key("", "", "none"), 1) : v \in {1000, 1004, 1008}, p \in {"", "2025"}}
  \union {Metric("assets", 1000, "2024", Key("", "", "none"), 2), Metric("assets", 100, "", Key("", "", "none"), 2),
          Metric("assets", 1000, "", Key("2025-12-31", "current", "main"), 2),
          Metric("assets", 1004, "", Key("2025-06-30", "", "main"), 2),
          Metric("assets", 1004, "", Key("2025", "prior", "main"), 2),
          Metric("assets", 1000, "", Key("", "", "ratio"), 2),
          [Metric("assets", 1004, "", Key("", "", "none"), 2) EXCEPT !.scope = "segment"],
          [Metric("assets", 1008, "", Key("", "", "none"), 2) EXCEPT !.marked = TRUE],
          Metric("eps", 12, "", Key("", "", "none"), 1), Metric("eps", 15, "", Key("", "", "none"), 2)}
MCMetricSides == SeqsUpTo(2, MCMetrics)
                 \union [1 .. 3 -> {m \in MCMetrics : m.page = 2 /\ m.value # 15}]

Seen(k, page, late, anchor, words) ==
  [key |-> k, page |-> page, table |-> words, late |-> late, anchor |-> anchor, notes |-> words, total |-> words]
MCSeen == {Seen("k1", p, FALSE, FALSE, w) : p \in {1, 3}, w \in BOOLEAN}
          \union {Seen(k, p, TRUE, a, FALSE) : k \in {"k1", "k2"}, p \in {5, 6}, a \in BOOLEAN}
MCPageSides ==
  {[mode |-> m, h |-> h, enough |-> h, large |-> l, dense |-> FALSE, text |-> t, embedded |-> e, risky |-> r, total |-> 6] :
     m \in {"off", "smart", "strict"}, h \in BOOLEAN, l \in BOOLEAN, r \in {{}, {2, 4, 7}},
     t \in SeqsUpTo(2, MCSeen), e \in {<<>>, <<Seen("k1", 3, FALSE, FALSE, TRUE)>>}}

Text(id, k, v, section) ==
  [id |-> id, key |-> k, family |-> "cash", page |-> 1, value |-> v, section |-> section, total |-> id = 2, conf |-> 90 - id]
Visible(k, v, sims, rows) ==
  [key |-> k, family |-> "cash", page |-> 1, value |-> v, abs |-> v < 0, small |-> v < 10, late |-> k = "cash", embedded |-> v = 990,
   sim |-> sims, rows |-> rows]
MCTextItems == {{Text(1, "cash", 1000, "bs")}, {Text(1, "cash", 1000, "bs"), Text(2, "cash", 930, "bs")},
                {Text(1, "end", 1000, "notes"), Text(2, "end", 930, "notes")}, {Text(1, "cash", 9, "mda"), Text(2, "end", 1000, "related_party")}}
MCSeenItems == {Visible(k, v, s, r) : k \in {"cash", "end"}, v \in {1000, 990, 930, -1000, 8}, s \in {<<100, 60>>, <<85, 85>>, <<40, 40>>},
                                      r \in {<<100, 30>>, <<60, 60>>, <<10, 10>>}}

Block(page, section, topics, keys, facts, weight) ==
  [page |-> page, section |-> section, topics |-> topics, actions |-> {}, keys |-> keys, facts |-> facts,
   marks |-> {}, weight |-> weight]
MCBlocks ==
  {Block(1, "mda", {}, {"bond"}, <<"amount">>, "long"), Block(2, "mda", {1}, {}, <<>>, "slight"),
   Block(30, "audit", {1}, {"bond"}, <<>>, "material"), Block(3, "", {1, 2}, {"bond"}, <<"amount">>, "long"),
   [Block(30, "mda", {1}, {"bond"}, <<"date">>, "long") EXCEPT !.actions = {1}]}
MCBlockSides == SeqsUpTo(2, MCBlocks) \union {[i \in 1 .. 3 |-> IF i = k THEN b ELSE c] : k \in {1, 3}, b, c \in {x \in MCBlocks : x.page \in {1, 3}}}

Mention(kind, n, unit, cur, words) ==
  [kind |-> kind, n |-> n, unit |-> unit, cur |-> cur, words |-> words, pos |-> 10, rate |-> FALSE]
MCMentions == {Mention("amount", 5, "thousand", "CNY", {}), Mention("amount", 5, "million", "", {}),
               Mention("amount", 5500, "", "HKD", {}), Mention("amount", 6, "thousand", "CNY", {}),
               Mention("amount", 5000, "yuan", "", {})}
MCLongTexts ==
  {[i \in 1 .. 3 |-> Mention("amount", ns[i], "thousand", "CNY", {"assets"})] : ns \in [1 .. 3 -> 5 .. 7]}
MCTexts ==
  MCLongTexts \union SeqsUpTo(2, {Mention("amount", 5, "thousand", "CNY", {"assets"}), Mention("amount", 7, "thousand", "CNY", {"assets"}),
               Mention("amount", 5, "million", "CNY", {"revenue"}), Mention("amount", 9, "thousand", "", {}),
               [Mention("amount", 3, "yuan", "CNY", {"eps"}) EXCEPT !.rate = TRUE],
               [Mention("amount", 6, "thousand", "CNY", {"assets", "term"}) EXCEPT !.pos = 60],
               Mention("pct", 5, "", "", {"roe"}), Mention("pct", 6, "", "", {"excluded"}),
               Mention("pct", 7, "", "", {"growth"}),
               Mention("date", 1, "", "", {"governance", "board"}), Mention("date", 2, "", "", {"governance"}),
               Mention("count", 8, "thousand", "", {})})

Row(keys, fact) == [topics |-> {}, actions |-> {}, keys |-> keys, facts |-> F!Facts(<<fact>>, ""), unit |-> 0, long |-> FALSE]
Table1(page, title, periods, rows) ==
  [page |-> page, title |-> title, keys |-> title, section |-> "balance_sheet", low |-> FALSE, periods |-> periods, rows |-> rows]
MCRows == {Row({"assets"}, Mention("amount", 5, "thousand", "CNY", {"assets"})),
           Row({"assets"}, Mention("amount", 6, "thousand", "CNY", {"assets"})),
           Row({"debts"}, Mention("amount", 5, "thousand", "CNY", {}))}
MCTables == {Table1(1, {"bs"}, {"2025"}, <<r, s>>) : r, s \in MCRows}
            \union {Table1(20, {"bs", "pl"}, {"2024"}, <<r>>) : r \in MCRows}
            \union {[Table1(1, {"pl"}, {}, <<r>>) EXCEPT !.low = TRUE] : r \in MCRows}
MCRowSides == {s \in SeqsUpTo(2, MCTables) : Len(s) = 1 \/ s[1].page # s[2].page}

ReviewPair(zh, en, conf, shared, page) ==
  [zh |-> F!Facts(zh, ""), en |-> F!Facts(en, ""), conf |-> conf, shared |-> shared, dates |-> 0, zhPage |-> page, enPage |-> page]
FiveK == Mention("amount", 5, "thousand", "CNY", {"assets"})
SixK  == Mention("amount", 6, "thousand", "CNY", {"assets"})
MCPairs == {ReviewPair(<<FiveK>>, <<SixK>>, 90, TRUE, 1), ReviewPair(<<FiveK>>, <<FiveK>>, 90, TRUE, 2),
            ReviewPair(<<>>, <<SixK>>, 80, TRUE, 3), ReviewPair(<<FiveK>>, <<SixK>>, 70, TRUE, 4)}
MCReviewPairs == {s \in SeqsUpTo(3, MCPairs) : Len(s) < 3 \/ s[1] # s[2]}
Issue(zh, en, named, roles) ==
  [at |-> 0, type |-> "amount", zh |-> zh, en |-> en, severity |-> "high", conf |-> 90, coherent |-> TRUE, found |-> TRUE,
   roles |-> roles, named |-> named, misused |-> FALSE]
MCIssues == {Issue(<<5, "thousand">>, <<6, "thousand">>, n, r) : n \in BOOLEAN, r \in {"same", "different"}}
            \union {Issue(<<5, "thousand">>, <<5000, "yuan">>, TRUE, "same"),
                     [Issue(<<5, "thousand">>, <<6, "thousand">>, TRUE, "same") EXCEPT !.found = FALSE],
                     [Issue(<<5, "thousand">>, <<6, "thousand">>, TRUE, "same") EXCEPT !.at = 4]}
Amount(n, near) == [kind |-> "amount", n |-> n, wide |-> {near}, near |-> {}, share |-> FALSE, big |-> FALSE]
Rate(n, near)   == [Amount(n, near) EXCEPT !.kind = "pct"]
Fragment(page, text, domains, mentions, marks, entities) ==
  [page |-> page, text |-> text, words |-> {text, "issue"}, domains |-> domains, mentions |-> mentions, marks |-> marks,
   entities |-> entities, actions |-> domains, dates |-> {}, statuses |-> {}, section |-> "", topic |-> "other",
   overview |-> FALSE, odd |-> FALSE, soft |-> FALSE, bank |-> FALSE]
MCFragments ==
  {Fragment(p, "bond", {"bond"}, {Amount(100, "bond_issue_amount"), Rate(3, "coupon_rate")}, {<<"year", "25">>, <<"name", b>>}, {}) :
     b \in {"1st", "2nd"}, p \in {1, 2}}
  \union {Fragment(1, "bond", {"bond"}, {Amount(120, "bond_issue_amount")}, {<<"year", "25">>, <<"name", b>>}, {"agent"}) : b \in {"1st", "2nd"}}
  \union {Fragment(3, "suit", {"litigation"}, {Amount(100, "claim_term")}, {<<"case", "lease">>}, {"plaintiff"}),
          [Fragment(3, "suit", {"litigation"}, {Amount(100, "claim_term")}, {}, {}) EXCEPT !.statuses = {"settled"},
             !.dates = {[role |-> "meeting", day |-> 601], [role |-> "general", day |-> 1231]}],
          [Fragment(4, "loan", {"guarantee", "related_party"}, {Amount(100, "guarantee"), Amount(200, "guarantee")},
                    {<<"counterparty", "x">>}, {}) EXCEPT !.section = "bs"],
          [Fragment(5, "plan", {"dividend"}, {Amount(10, "rate"), [Amount(2000, "base") EXCEPT !.share = TRUE], Amount(100, "total")},
                    {<<"year", "25">>}, {}) EXCEPT !.dates = {[role |-> "meeting", day |-> 501]}],
          [Fragment(6, "board", {}, {}, {}, {"chair"}) EXCEPT !.actions = {"appoint"}, !.section = "governance", !.soft = TRUE]}
MCEventSides == SeqsUpTo(2, MCFragments)
                \union {[i \in 1 .. 3 |-> IF i = k THEN f ELSE g] : k \in 1 .. 3, f, g \in {x \in MCFragments : x.page = 1}}
MCAnswers == {F!NoAnswer, F!Answer(<<>>)} \union {F!Answer(<<i>>) : i \in MCIssues}
             \union {F!Answer(<<CHOOSE j \in MCIssues : j.found /\ j.at = 0, i>>) : i \in MCIssues}
Token(k, words, n) == [key |-> k, label |-> words, n |-> n, part |-> FALSE, points |-> FALSE]
Name(k, words) == Token(k, words, 0)
Num(n)   == Token("", {}, n)
Grid(page, section, heads, rows, marks) ==
  [page |-> page, section |-> section, unit |-> 1, marks |-> marks, period |-> "2025", heads |-> heads, rows |-> rows]
Passage(page, section, tokens, tail, size, scores) ==
  [page |-> page, section |-> section, unit |-> 1, marks |-> {}, period |-> "", apart |-> FALSE, tokens |-> tokens,
   tail |-> tail, stands |-> size # 30, topic |-> "", size |-> size, scores |-> scores]
Assets == Name("assets", {"total", "assets"})
Eps    == Name("eps", {"earnings"})
MCGrids ==
  {Grid(1, "bs", <<<<"text", "2025", "2024">>>>, <<<<Assets, Num(5000), Num(4000)>>, <<Name("", {}), Num(5000), Num(7000)>>>>, {}),
   Grid(1, "bs", <<>>, <<<<Name("unmapped", {"sum"}), Num(5000)>>, <<Name("", {}), Num(6000)>>, <<Eps, Num(120)>>>>, {}),
   Grid(2, "notes", <<<<"text", "current", "change_pct">>>>, <<<<Assets, Num(5000), [Num(5) EXCEPT !.points = TRUE]>>>>, {}),
   Grid(2, "notes", <<>>, <<<<Assets, Num(5000)>>, <<Name("revenue", {"total"}), Num(5000)>>, <<Assets, Num(5200)>>>>, {"summary"}),
   Grid(3, "bs", <<>>, <<<<Assets, Num(5000)>>, <<Name("assets", {"assets"}), Num(9000)>>, <<Assets, Num(9000)>>>>, {})}
MCPassages ==
  {Passage(2, "mda", <<Assets, Num(5000), Eps, Name("revenue", {"sales"}), Num(700)>>, <<5100>>, 30, <<2, 1>>),
   Passage(3, "governance", <<Name("revenue", {"sales"}), Name("unmapped", {"of"}), Num(20), Name("stop", {}), Num(800)>>, <<>>, 15, <<0, 2>>),
   Passage(6, "governance", <<Assets, Num(5000), Name("revenue", {"sales"}), Num(800)>>, <<810, 2025, 5100>>, 15, <<0, 2>>),
   Passage(9, "", <<>>, <<>>, 90, <<0, 0>>)}
OcrItem(n) == [key |-> "assets", label |-> {"assets"}, n |-> n, page |-> 8, section |-> "bs", unit |-> 1, marks |-> {}, period |-> "",
               ck |-> R!NoKey, conf |-> 80, strength |-> 30, source |-> "text", overlay |-> FALSE]
LongPassage == CHOOSE p \in MCPassages : p.stands /\ p.tail # <<>>
MCReports == {[tables |-> t, texts |-> s, ocr |-> <<OcrItem(4000), OcrItem(6000)>>] :
                t \in {<<>>} \union {u \in SeqsUpTo(2, MCGrids) : Len(u) = 1 \/ u[1].page < u[2].page}, s \in {<<>>, <<LongPassage>>}}
             \union {[tables |-> <<>>, texts |-> s, ocr |-> <<>>] : s \in [1 .. 2 -> MCPassages]}
Entry(l, c, v) == [label |-> l, column |-> c, value |-> v]
Printed(page, entries) == [page |-> page, entries |-> entries]
Small3 == <<Entry(1, 1, 11), Entry(2, 1, 23), Entry(3, 1, 37)>>
Small4 == Append(Small3, Entry(4, 1, 52))
Wide8  == Small4 \o <<Entry(1, 2, 13), Entry(2, 2, 29), Entry(3, 2, 41), Entry(4, 2, 64)>>
Noisy  == <<Entry(0, 1, 77), Entry(1, 1, 9)>> \o Small4 \o <<Entry(1, 1, 88)>>
Rounds == <<Entry(5, 1, 10), Entry(6, 1, 20), Entry(7, 1, 30), Entry(8, 1, 40)>>
MCTableSides ==
  {<<Printed(1, e)>> : e \in {Small3, Small4, Wide8, Noisy, Rounds}}
  \union {<<Printed(1, Small4), Printed(2, e)>> : e \in {Rounds, Wide8, Small3}}

Branch(n, c, adr, v) == [name |-> n, count |-> c, address |-> adr, asset |-> v, plain |-> TRUE, at |-> 0]
MCBranchDocs ==
  {[i \in 1 .. n |-> Branch(i, IF apart THEN i ELSE 5, IF named THEN ToString(i) ELSE "", IF round THEN 10 * i ELSE 10 * i + 3)] :
     n \in {2, 3, 5}, apart, named, round \in BOOLEAN}
  \union {<<Branch(1, 1, "", 13), Branch(2, 2, "", 23), Branch(1, 3, "", 33), [Branch(3, 4, "", 43) EXCEPT !.plain = FALSE]>>}

Word(text, x, y) == [text |-> text, x |-> x, y |-> y, order |-> y]
MCPages ==
  {<<Word(<<4, 1, 2, 7>>, 0, 10), Word(<<5, 1, 2, 7>>, 100, 10), Word(<<6, 5, 0, 3, 1>>, 0, 30), Word(s, 100, y)>> :
     s \in {<<4, 1, 2, 8>>, <<2, 0, 2, 5>>, <<7, 7, 7>>, <<4, 1, 2, 7>>}, y \in {30, 11}}
  \union {<<Word(<<4, 1, 2, 7>>, 0, 10), Word(<<5, 1, 2, 7>>, 1, 11), Word(<<6, 5, 0, 3, 1>>, 0, 30), Word(<<8, 8, 0, 3>>, 100, 30)>>}
  \union {[i \in 1 .. 10 |-> Word(<<4, 1, 2 + (i \div 6), (i % 5) + (i \div 6)>>, 0, 20 * i)]}
MCNewTexts == {<<4, 1, 2, 9>>, <<4, 1, 2, 7, 0>>, <<9, 8, 7, 6>>, <<2, 0, 2, 4>>}
=============================================================================
