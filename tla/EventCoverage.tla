---------------------------- MODULE EventCoverage ----------------------------
(* Events that both reports disclose: dividends, bonds, suits, guarantees.    *)
(* Fragments of text become events with facts, the events of A are paired     *)
(* with those of H, and what disagrees within a pair is told when the pair is *)
(* about one and the same matter.                                             *)
(*                                                                            *)
(* A fragment is                                                              *)
(*   page, text   where it stands and its wording without the numbers         *)
(*   words        its tokens; domains and actions the terms found in it       *)
(*   mentions     its numbers, [kind, n, wide, near, share, big]: "amount" or *)
(*                "pct", the value, the terms around it and right next to it, *)
(*                a unit of shares, and such a unit in thousands or more      *)
(*   dates        [role, day]; statuses, entities; marks, <<kind, name>>,     *)
(*                what may identify it: a name, a phase, a year, a party      *)
(*   section, topic   "" for none; the topic when no domain tells it          *)
(*   overview, odd, soft, bank   it reads like a layout; like a template, a   *)
(*                table or the composition of a board; like a statement on    *)
(*                governance; its percentages are those of bank balances      *)
(* Scores are in thousandths.  The ratio of difflib is abstracted to 1 for    *)
(* the same text and the share of common tokens for others.                   *)
EXTENDS Matching

CONSTANTS MatchAt, DiffAt,   \* _EVENT_MATCH_THRESHOLD, _EVENT_DIFF_THRESHOLD
          Margin,            \* of _match_is_ambiguous
          GenericDays,       \* _GENERIC_REPORT_DATES
          RealCount, LargeSum   \* a count of shares is at least this large; a gap between sums

FirstIn(order, S) == LET at == {i \in DOMAIN order : order[i] \in S}
                     IN IF at = {} THEN "" ELSE order[CHOOSE i \in at : \A j \in at : i <= j]

(* ---- From fragments to events ----------------------------------------------- *)
Domains == <<"dividend", "bond", "litigation", "guarantee", "related_party", "share_change">>
TopicOf(e) == IF e.domains = {} THEN e.topic ELSE FirstIn(Domains, e.domains)   \* _event_topic_key

(* _amount_role: terms next to the number go before terms around it.          *)
TermRoles == <<"bond_issue_amount", "bond_repayment_amount", "claim_term", "guarantee_term", "transaction_term",
               "proceeds", "underwriting_scale", "share_count", "transaction_amount", "guarantee", "penalty",
               "claim_amount", "amount">>
AmountRole(m) ==
  LET real == m.big \/ m.n >= RealCount
      base == "base" \in m.wide /\ real /\ (m.share \/ "note" \notin m.wide \/ m.n >= RealCount)
      terms == m.wide \union (IF m.share THEN {"share_count"} ELSE {})
      told == FirstIn(TermRoles, IF real THEN terms ELSE terms \ {"share_count"})
      counted == IF "dividend" \in m.wide THEN "dividend_base_share_count" ELSE "share_count"
  IN IF m.share /\ base THEN counted
     ELSE IF "rate" \in m.near THEN "dividend_rate_per_10_shares"
     ELSE IF "total" \in m.near \/ "total" \in m.wide THEN "dividend_total"
     ELSE IF base THEN counted
     ELSE CASE told = "claim_term" -> "claim_amount" [] told = "guarantee_term" -> "guarantee"
            [] told = "transaction_term" -> "transaction_amount" [] told = "" -> "unknown" [] OTHER -> told
PctRole(m) ==
  LET told == FirstIn(<<"coupon_rate", "shareholding_ratio", "guarantee_ratio", "asset_ratio", "interest_rate",
                        "ratio">>, m.wide)
  IN IF told = "" THEN "unknown" ELSE told
AmountsOf(e) == {m \in e.mentions : m.kind = "amount" /\ ~(m.n = 10 /\ "rate" \in m.near)}
PctsOf(e)    == {m \in e.mentions : m.kind = "pct"}
(* An event is a fragment with what its numbers stand for: amounts and pcts,  *)
(* sets of <<role, value>>.                                                   *)
EventOf(f) ==                                   \* _extract_facts
  [x \in DOMAIN f \union {"amounts", "pcts"} |->
     CASE x = "amounts" -> {<<AmountRole(m), m.n>> : m \in AmountsOf(f)}
       [] x = "pcts"    -> {<<PctRole(m), m.n>> : m \in PctsOf(f)}
       [] OTHER         -> f[x]]
Extracted(fragments) ==                         \* _extract_events
  LET Kept(i) == /\ fragments[i].domains # {} \/ fragments[i].actions # {}
                 /\ ~fragments[i].overview
                 /\ \A j \in 1 .. (i - 1) : fragments[j] # fragments[i]
      kept == Picked(fragments, {i \in DOMAIN fragments : Kept(i)})
  IN  [i \in DOMAIN kept |-> EventOf(kept[i])]

RolesIn(facts) == {f[1] : f \in facts} \ {"unknown", "ratio"}
ValuesOf(facts, role) == {f[2] : f \in {g \in facts : g[1] = role}}
ValuesIn(facts)       == {f[2] : f \in facts}

SharedAmounts(a, h) == RolesIn(a.amounts) \intersect RolesIn(h.amounts)
SharedPcts(a, h)    == RolesIn(a.pcts) \intersect RolesIn(h.pcts)
DaysOf(e)           == {d.day : d \in e.dates}
SpecificDays(e)     == DaysOf(e) \ GenericDays
(* _extract_event_identity_terms: each domain names its matter in its way.    *)
MarksOf(domain) ==
  CASE domain = "bond" -> {"name", "year", "phase"} [] domain = "dividend" -> {"year", "timing"}
    [] domain = "litigation" -> {"case", "entity"} [] domain = "guarantee" -> {"counterparty"}
    [] domain = "related_party" -> {"counterparty", "role"} [] OTHER -> {"year"}
Least(S) == CHOOSE x \in S : \A y \in S : x <= y
Identity(e) ==
  {m \in e.marks : \E d \in e.domains : m[1] \in MarksOf(d)}
  \union {<<"entity", n>> : n \in e.entities}
  \union (IF "dividend" \in e.domains /\ SpecificDays(e) # {} THEN {<<"date", Least(SpecificDays(e))>>} ELSE {})
  \union LET rates == ValuesOf(e.amounts, "dividend_rate_per_10_shares")
         IN IF "dividend" \in e.domains /\ Cardinality(rates) = 1 THEN {<<"rate10", r>> : r \in rates} ELSE {}

(* ---- How alike two events are: _event_score --------------------------------- *)
Tokens(a, h) == IF a.words = {} \/ h.words = {} THEN 0
                ELSE (1000 * Cardinality(a.words \intersect h.words)) \div Cardinality(a.words \union h.words)
Wording(a, h) == IF a.text = h.text THEN 1000 ELSE Tokens(a, h)
Near(x, y, exact) == IF exact THEN x = y ELSE Within(x, y, 1, 100)
Overlap(xs, ys, exact) == \E x \in xs, y \in ys : Near(x, y, exact)
Exact(role)  == role \in {"share_count", "dividend_base_share_count"}
HardAnchor(a, h) ==
  \/ SpecificDays(a) \intersect SpecificDays(h) # {}
  \/ Overlap(ValuesIn(a.amounts), ValuesIn(h.amounts), FALSE)
  \/ a.entities \intersect h.entities # {}
Structured(a, h) ==                             \* _is_structured_fact_pair
  /\ a.domains \intersect h.domains # {}
  /\ \/ SharedAmounts(a, h) # {}
     \/ a.actions \intersect h.actions # {} /\ SpecificDays(a) \union SpecificDays(h) # {}
Anchored(a, h) ==                               \* _has_shared_event_anchor
  \/ HardAnchor(a, h) \/ Structured(a, h)
  \/ a.actions \intersect h.actions # {} /\ Tokens(a, h) >= 120
  \/ Wording(a, h) >= 820 /\ Tokens(a, h) >= 180
SoftPair(a, h) == a.section = "governance" /\ h.section = "governance" /\ (a.soft \/ h.soft)
RealAmounts == {"dividend_total", "bond_issue_amount", "bond_repayment_amount", "guarantee", "claim_amount",
                "transaction_amount", "penalty", "proceeds", "underwriting_scale", "share_count"}
RealPcts    == {"coupon_rate", "shareholding_ratio", "guarantee_ratio", "asset_ratio", "interest_rate"}
AtMost(n, top) == IF n < top THEN n ELSE top
Points(n, condition) == IF condition THEN n ELSE 0
Excluded  == {"bs", "pl", "cf", "equity", "financial_statements"}
Bucket(e) == IF e.section \in Excluded THEN "statement" ELSE IF e.section # "" THEN e.section ELSE TopicOf(e)
FactPoints(a, h) ==
  Points(120, Overlap(ValuesIn(a.amounts), ValuesIn(h.amounts), FALSE))
  + Points(120, Overlap(ValuesIn(a.pcts), ValuesIn(h.pcts), FALSE))
  + Points(120, a.statuses \intersect h.statuses # {})
  + Points(120, SpecificDays(a) \intersect SpecificDays(h) # {})
  + Points(120, a.entities \intersect h.entities # {})
TopicPoints(a, h) ==
  LET domain == a.domains \intersect h.domains # {}
  IN Points(120, TopicOf(a) = TopicOf(h)) + Points(60, Bucket(a) = Bucket(h))
     + Points(100, a.actions \intersect h.actions # {}) + Points(180, domain)
     + Points(120, SharedAmounts(a, h) # {})
     + Points(140, domain /\ SharedAmounts(a, h) \intersect RealAmounts # {})
EventScore(a, h) ==
  LET t == Tokens(a, h) w == Wording(a, h)
  IN IF ~Anchored(a, h) THEN AtMost((t + w) \div 5, 350)
     ELSE IF SoftPair(a, h) /\ ~HardAnchor(a, h) THEN AtMost((t + w) \div 4, 410)
     ELSE AtMost(TopicPoints(a, h) + FactPoints(a, h) + (24 * t + 26 * w) \div 100, 1000)

(* ---- What disagrees, and whether that is a real difference ------------------- *)
ConflictIn(as, hs, shared) ==
  {r \in shared : ~Overlap(ValuesOf(as, r), ValuesOf(hs, r), Exact(r))}
Conflict(as, hs, shared) ==                     \* _amount_values_conflict, _percentage_values_conflict
  /\ as # {} /\ hs # {}
  /\ IF shared = {} THEN ~Overlap(ValuesIn(as), ValuesIn(hs), FALSE) ELSE ConflictIn(as, hs, shared) # {}
DateConflict(a, h) ==
  /\ a.dates # {} /\ h.dates # {} /\ DaysOf(a) \intersect DaysOf(h) = {}
  /\ {d.role : d \in a.dates} \intersect {d.role : d \in h.dates} # {}
Mismatches(a, h) ==                             \* _fact_mismatches, those of _STRONG_FACT_LABELS
  (IF DateConflict(a, h) THEN {"date"} ELSE {})
  \union (IF Conflict(a.amounts, h.amounts, SharedAmounts(a, h)) THEN {"amount"} ELSE {})
  \union (IF Conflict(a.pcts, h.pcts, SharedPcts(a, h)) THEN {"pct"} ELSE {})
  \union (IF a.statuses # {} /\ h.statuses # {} /\ a.statuses \intersect h.statuses = {} THEN {"status"} ELSE {})

Doubtful(a, h) ==                               \* _is_low_confidence_event_pair
  \/ {a.section, h.section} \intersect Excluded # {} /\ ~Structured(a, h)
  \/ a.odd \/ h.odd
  \/ ~HardAnchor(a, h) /\ (SoftPair(a, h) \/ a.actions \intersect h.actions = {})
(* Both sides' least values of a role are of one magnitude.                   *)
Comparable(a, h, role, part) ==
  LET x == Least(ValuesOf(a.amounts, role)) y == Least(ValuesOf(h.amounts, role))
  IN part * (IF x < y THEN x ELSE y) >= Larger(x, y)
Part(role) == IF Exact(role) THEN 10 ELSE 20
Gap(role)  == IF Exact(role) THEN RealCount ELSE LargeSum
Gauged == {"share_count", "dividend_base_share_count", "transaction_amount", "bond_issue_amount", "bond_repayment_amount"}
Incomparable(a, h) ==                           \* _amount_magnitude_mismatch
  \E r \in SharedAmounts(a, h) \intersect Gauged :
    /\ ~Comparable(a, h, r, Part(r))
    /\ Abs(Least(ValuesOf(a.amounts, r)) - Least(ValuesOf(h.amounts, r))) > Gap(r)
StructuredAnchor(a, h, labels) ==               \* _has_structured_identity_anchor
  LET real == SharedAmounts(a, h) \intersect RealAmounts
  IN \/ "amount" \in labels /\ \E r \in real : Comparable(a, h, r, Part(r))
     \/ /\ "pct" \in labels /\ ("amount" \in labels => real # {})
        /\ SharedPcts(a, h) \intersect RealPcts # {}
RealAnchor(a, h, labels) ==                     \* _has_real_diff_identity_anchor
  \/ HardAnchor(a, h) \/ StructuredAnchor(a, h, labels)
  \/ /\ labels \intersect {"amount", "pct"} # {} /\ a.actions \intersect h.actions # {}
     /\ Tokens(a, h) >= 300 /\ Wording(a, h) >= 800
Anchors(a, h) ==                                \* _identity_anchor_count
  Points(1, SpecificDays(a) \intersect SpecificDays(h) # {})
  + Points(1, Overlap(ValuesIn(a.amounts), ValuesIn(h.amounts), FALSE))
  + Points(1, a.entities \intersect h.entities # {})
AnyYear(a, h) == Identity(a) \intersect Identity(h) # {}   \* Mutant: bonds of one year are one bond.
SameMatter(a, h) ==                             \* _event_identity_compatible
  LET as == Identity(a) hs == Identity(h)
  IN IF as = {} /\ hs = {} THEN Wording(a, h) >= 800 /\ Tokens(a, h) >= 300 /\ HardAnchor(a, h)
     ELSE IF "bond" \in {TopicOf(a), TopicOf(h)} THEN \E m \in as \intersect hs : m[1] # "year"
     ELSE as \intersect hs # {}
One(facts, r) == Cardinality(ValuesOf(facts, r)) = 1
Single(a, h, r) == One(a.amounts, r) /\ One(h.amounts, r)
RealAmount(a, h) ==                             \* _amount_mismatch_is_real
  LET bad == ConflictIn(a.amounts, h.amounts, SharedAmounts(a, h) \ {"amount"})
  IN /\ bad # {} /\ bad \subseteq RealAmounts /\ ~Incomparable(a, h)
     /\ Structured(a, h) \/ Anchors(a, h) >= 2
     /\ \E r \in bad : Single(a, h, r)
Blurred(e) == e.bank \/ Cardinality(PctsOf(e)) >= 5
RealPct(a, h) ==                                \* _percentage_mismatch_is_real
  LET bad == ConflictIn(a.pcts, h.pcts, SharedPcts(a, h))
  IN /\ bad # {} /\ bad \subseteq RealPcts /\ ~Blurred(a) /\ ~Blurred(h)
     /\ \/ SameMatter(a, h) \/ HardAnchor(a, h)
        \/ a.domains \intersect h.domains # {}
     /\ \E r \in bad : One(a.pcts, r) /\ One(h.pcts, r)
Strict == {"bond", "dividend"}
Proven(a, h, labels) ==
  \/ SameMatter(a, h)
  \/ ~({TopicOf(a), TopicOf(h)} \intersect Strict # {} /\ Identity(a) \union Identity(h) # {})
     /\ RealAnchor(a, h, labels)
RealMismatches(a, h) ==                         \* _real_event_mismatches
  LET strong == Mismatches(a, h)
      dated == strong \ (IF a.text # h.text /\ Anchors(a, h) >= 2 THEN {} ELSE {"date"})
      left == (IF dated = {"status"} THEN {} ELSE dated)
              \ ((IF RealAmount(a, h) THEN {} ELSE {"amount"}) \union (IF RealPct(a, h) THEN {} ELSE {"pct"}))
  IN IF EventScore(a, h) < DiffAt \/ Doubtful(a, h) \/ ~RealAnchor(a, h, strong) \/ ~Proven(a, h, left)
     THEN {} ELSE left

(* ---- Pairing: run_event_checks_on_profiles ----------------------------------- *)
(* One after another the events of A take the best free event of H.           *)
BestFor(as, hs, i, taken) ==
  LET S(j) == EventScore(as[i], hs[j])
      fit == {j \in DOMAIN hs \ taken : S(j) >= MatchAt}
  IN IF fit = {} THEN 0
     ELSE CHOOSE j \in fit : \A k \in fit : S(j) > S(k) \/ (S(j) = S(k) /\ j <= k)
Taken(as, hs, m, i) ==
  LET j == BestFor(as, hs, i, Rights(m)) IN IF j = 0 THEN m ELSE m \union {<<i, j>>}
EventPairs(as, hs) ==
  LET after[i \in 0 .. Len(as)] == IF i = 0 THEN {} ELSE Taken(as, hs, after[i - 1], i)
  IN  after[Len(as)]
(* _match_is_ambiguous: a free event of H, or any other event of A, comes as  *)
(* close.                                                                     *)
Ambiguous(as, hs, m, p) ==
  LET S(i, j) == EventScore(as[i], hs[j])
      before == {q[2] : q \in {r \in m : r[1] < p[1]}}
      rivals == {S(p[1], j) : j \in DOMAIN hs \ (before \union {p[2]})}
                \union {S(i, p[2]) : i \in DOMAIN as \ {p[1]}}
  IN \E s \in rivals \union {0} : S(p[1], p[2]) - s < Margin
(* Told when the model, asked about it, does not find two matters.            *)
EventDiffs(as, hs, m, same) ==
  LET Told(p) == [pair |-> p, labels |-> RealMismatches(as[p[1]], hs[p[2]]),
                  triage |-> IF same THEN "real" ELSE "unresolved"]
      plain == {p \in m : HardAnchor(as[p[1]], hs[p[2]]) \/ ~Ambiguous(as, hs, m, p)}
  IN {d \in {Told(p) : p \in plain} : d.labels # {}}
(* _same_report_event_diffs, the first twenty of which are told               *)
InternalDiffs(es) ==
  {p \in (DOMAIN es) \X (DOMAIN es) :
     /\ p[1] < p[2] /\ TopicOf(es[p[1]]) = TopicOf(es[p[2]])
     /\ RealMismatches(es[p[1]], es[p[2]]) # {} /\ SameMatter(es[p[1]], es[p[2]])}
=============================================================================
