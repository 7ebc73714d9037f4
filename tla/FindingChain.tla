------------------------------ MODULE FindingChain ------------------------------
(***************************************************************************)
(* What Orchestrator.run does to the findings of the checks before it      *)
(* settles the summary: several checks report the same place, so six       *)
(* passes drop duplicates, cut the unresolved ones to a budget, and remove *)
(* cross-report findings when both reports are one file.                   *)
(*                                                                         *)
(* A finding is its position in the input: two with equal fields are still *)
(* two objects.  Of the list that a pass returns only the order matters,   *)
(* so each finding that is left has a place, and places may have gaps.     *)
(* Amounts are integers, so that what the code compares within 1e-6 or     *)
(* after rounding to 4 digits is compared exactly.                         *)
(***************************************************************************)
EXTENDS Integers, FiniteSets, SequencesExt

CONSTANTS
  Inputs,    \* lists of findings the checks may return
  NoValue,   \* a_value or h_value is None
  CoreKeys,  \* numeric._CORE_KEYS
  Budget,    \* settings.report_max_unresolved
  MaxPower   \* bound: largest power of ten between two amounts of Inputs

(* A finding: its rule and triage, whether diff_type is "internal" and     *)
(* diff_scope is the cross-report one, a rank of severity (0 is CRITICAL), *)
(* and the evidence in its order.                                          *)
Findings ==
  [rule : STRING, key : STRING, triage : {"real", "expected", "unresolved"},
   internal : BOOLEAN, cross : BOOLEAN, severity : 0..4,
   a : Int \cup {NoValue}, h : Int \cup {NoValue},
   evidence : Seq([side : {"A", "H"}, page : Nat])]

(* The findings of these two rules are always real. *)
ASSUME ChainAssumption ==
  /\ Budget \in Nat /\ MaxPower \in Nat /\ NoValue \notin Int
  /\ Inputs \subseteq Seq(Findings)
  /\ \A s \in Inputs : \A n \in DOMAIN s :
       s[n].rule \in {"text_overlay_tamper", "table_row_value_conflict"} => s[n].triage = "real"

VARIABLES
  input,      \* the findings as the checks returned them
  sameFile,   \* both reports are one file
  stage,      \* the pass to come
  diffs,      \* job.diffs: the place of each finding that is left
  suppressed  \* unresolved_suppressed_count

vars == <<input, sameFile, stage, diffs, suppressed>>

Passes == <<"overlay", "identical", "twin", "cross", "again", "budget", "file", "end">>

Left == DOMAIN diffs

TypeOK ==
  /\ stage \in {Passes[n] : n \in 1..8} /\ sameFile \in BOOLEAN
  /\ Left \subseteq DOMAIN input /\ diffs \in [Left -> DOMAIN input]
  /\ \A i, j \in Left : diffs[i] = diffs[j] => i = j
  /\ suppressed \in 0..Len(input)

Init ==
  /\ input \in Inputs /\ sameFile \in BOOLEAN
  /\ stage = Passes[1]
  /\ diffs = [n \in DOMAIN input |-> n]
  /\ suppressed = 0

Real(i) == input[i].triage = "real"
Unresolved(i) == input[i].triage = "unresolved"
Claimed(i) == {input[i].a, input[i].h} \ {NoValue}
HasBoth(i) == input[i].a # NoValue /\ input[i].h # NoValue
Earlier(i, j) == diffs[i] < diffs[j]

AbsValue(x) == IF x < 0 THEN -x ELSE x
Larger(x, y) == IF x < y THEN y ELSE x

-----------------------------------------------------------------------------
(* When two findings are about the same place. *)

(* x is u times this power of ten, or divided by it; signs are ignored. *)
ScaledBy(x, u, n, up) ==
  /\ x # 0 /\ u # 0
  /\ IF up THEN AbsValue(x) = AbsValue(u) * 10^n ELSE AbsValue(u) = AbsValue(x) * 10^n

(* The finding i repeats what the overlay finding j says: same side and    *)
(* page of the first evidence, same two amounts up to one power of ten.    *)
OverlayShadow(i, j) ==
  /\ input[j].rule = "text_overlay_tamper" /\ input[i].rule # "text_overlay_tamper"
  /\ input[i].internal
  /\ HasBoth(i) /\ HasBoth(j)
  /\ Len(input[i].evidence) > 0 /\ Len(input[j].evidence) > 0
  /\ input[i].evidence[1] = input[j].evidence[1]
  /\ \E n \in 0..MaxPower, up \in BOOLEAN :
       \/ ScaledBy(input[i].a, input[j].a, n, up) /\ ScaledBy(input[i].h, input[j].h, n, up)
       \/ ScaledBy(input[i].a, input[j].h, n, up) /\ ScaledBy(input[i].h, input[j].a, n, up)

(* The same rule, key and amounts, wherever they stand in the reports. *)
SameMarker(i, j) ==
  /\ Claimed(i) # {}
  /\ input[i].rule = input[j].rule /\ input[i].key = input[j].key
  /\ input[i].a = input[j].a /\ input[i].h = input[j].h

(* round(v, -2) of Python: halves go to the even hundred. *)
Hundreds(v) ==
  LET q == v \div 100
      r == v % 100
  IN  IF r > 50 \/ (r = 50 /\ q % 2 = 1) THEN q + 1 ELSE q

(* The page of the first evidence on the A side, 0 without one. *)
APage(i) ==
  LET ev == input[i].evidence
      onA == {n \in DOMAIN ev : ev[n].side = "A"}
  IN  IF onA = {} THEN 0 ELSE ev[Min(onA)].page

TwinShadow(i, j) ==
  /\ input[j].rule = "table_row_value_conflict" /\ input[i].rule # "table_row_value_conflict"
  /\ HasBoth(i) /\ HasBoth(j)
  /\ APage(i) = APage(j)
  /\ Hundreds(input[i].a) = Hundreds(input[j].a)
  /\ Hundreds(input[i].h) = Hundreds(input[j].h)

(* Equal within 1e-4, or up to a power of ten. *)
ValueMatch(x, y) ==
  /\ x # 0 /\ y # 0
  /\ \/ AbsValue(x - y) <= Larger(AbsValue(x), AbsValue(y)) \div 10000
     \/ \E n \in 1..MaxPower : x = y * 10^n \/ y = x * 10^n

Near(i, j) ==
  \E e \in ToSet(input[i].evidence), f \in ToSet(input[j].evidence) :
    /\ e.page # 0 /\ f.page # 0
    /\ e.side = f.side /\ AbsValue(e.page - f.page) <= 1

(* Findings of different rules near each other that share an amount. *)
CrossDuplicate(i, j) ==
  /\ input[i].rule # input[j].rule
  /\ Near(i, j)
  /\ \E x \in Claimed(i), y \in Claimed(j) : ValueMatch(x, y)

-----------------------------------------------------------------------------
(* The passes. *)

Pass(name, list) ==
  /\ stage = name
  /\ diffs' = list
  /\ stage' = Passes[1 + CHOOSE n \in DOMAIN Passes : Passes[n] = name]
  /\ UNCHANGED <<input, sameFile>>

(* The findings of the list that are in S, in its order.                   *)
Those(S) == Restrict(diffs, S)

OverlayShadows ==
  /\ Pass("overlay", Those({i \in Left : \A j \in Left : ~OverlayShadow(i, j)}))
  /\ UNCHANGED suppressed

(* More evidence, or as much and earlier.                                  *)
MoreEvidence(i, j) ==
  LET m == Len(input[i].evidence)
      n == Len(input[j].evidence)
  IN  m > n \/ (m = n /\ Earlier(i, j))

(* Of those with one marker, the first with most evidence takes the place  *)
(* of the first.                                                           *)
Best(i) ==
  \A k \in Left : k # i /\ SameMarker(i, k) =>
    MoreEvidence(i, k)

First(i) == Min({diffs[k] : k \in {k \in Left : k = i \/ SameMarker(i, k)}})

MergedList == [i \in {j \in Left : Best(j)} |-> First(i)]

IdenticalDiffs ==
  /\ \/ Pass("identical", MergedList)
     \/ Pass("again", MergedList)
  /\ UNCHANGED suppressed

TwinConflicts ==
  /\ Pass("twin", Those({i \in Left : \A j \in Left : ~TwinShadow(i, j)}))
  /\ UNCHANGED suppressed

RuleRank(i) ==
  LET ranked == <<"text_overlay_tamper", "visual_text_layer_mismatch",
                  "positional_value_conflict", "table_row_value_conflict",
                  "text_line_value_conflict", "internal_value_conflict",
                  "numeric_occurrence_conflict", "numeric_leftover_conflict">>
      at == {n \in DOMAIN ranked : ranked[n] = input[i].rule}
  IN  IF at = {} THEN 9 ELSE (CHOOSE n \in at : TRUE) - 1

(* Severity, then rule, then amount of evidence, then the place. *)
Precedes(i, j) ==
  \/ input[i].severity < input[j].severity
  \/ /\ input[i].severity = input[j].severity
     /\ \/ RuleRank(i) < RuleRank(j)
        \/ RuleRank(i) = RuleRank(j) /\ MoreEvidence(i, j)

(* Mutant: a finding also gives way to one that is dropped. *)
KeptUnlessAnyBefore(S) ==
  {i \in S : \A j \in S : Precedes(j, i) => ~CrossDuplicate(i, j)}

(* Mutant: compared with the best one only. *)
KeptUnlessBest(S) ==
  {i \in S : \A j \in S :
     Precedes(j, i) /\ CrossDuplicate(i, j) => \E k \in S : Precedes(k, j)}

(* One by one in this order, whatever duplicates none that is kept. *)
GreedyChoice(S, kept) ==
  \A i \in S : i \in kept <=> \A j \in kept : Precedes(j, i) => ~CrossDuplicate(i, j)
Kept(S) == CHOOSE kept \in SUBSET S : GreedyChoice(S, kept)

CrossRuleReal ==
  /\ LET kept == Kept({i \in Left : Real(i)})
     IN  Pass("cross", Those({i \in Left : Real(i) => i \in kept}))
  /\ UNCHANGED suppressed

(* Severity, then core metrics, then the larger relative difference. *)
Gap(i) == IF HasBoth(i) THEN AbsValue(input[i].a - input[i].h) ELSE 0
Scale(i) ==
  IF HasBoth(i) THEN Larger(1, Larger(AbsValue(input[i].a), AbsValue(input[i].h))) ELSE 1
MoreImportant(i, j) ==
  LET core(k) == IF input[k].key \in CoreKeys THEN 0 ELSE 1
  IN  \/ input[i].severity < input[j].severity
      \/ /\ input[i].severity = input[j].severity
         /\ \/ core(i) < core(j)
            \/ core(i) = core(j) /\ Gap(i) * Scale(j) > Gap(j) * Scale(i)

(* Mutant: cut in the order of the list. *)
ComesBeforeInList(i, j) == Earlier(i, j)

ComesBefore(i, j) ==
  MoreImportant(i, j) \/ (~MoreImportant(j, i) /\ Earlier(i, j))

UnresolvedBudget ==
  LET candidates == {i \in Left : Unresolved(i)}
      keep == {i \in candidates : Cardinality({j \in candidates : ComesBefore(j, i)}) < Budget}
  IN  /\ Pass("budget", Those({i \in Left : Unresolved(i) => i \in keep}))
      /\ suppressed' = Larger(0, Cardinality(candidates) - Budget)

(* Cross-report findings of a file with itself cannot exist. *)
SameFile ==
  /\ Pass("file", Those({i \in Left : sameFile => ~input[i].cross}))
  /\ UNCHANGED suppressed

Next ==
  \/ OverlayShadows \/ IdenticalDiffs \/ TwinConflicts \/ CrossRuleReal
  \/ UnresolvedBudget \/ SameFile

Spec == Init /\ [][Next]_vars

-----------------------------------------------------------------------------
(* Properties. *)

(* What the report lists names no place twice: no pass undoes what an      *)
(* earlier one achieved, and the greedy choice leaves no pair.             *)
NothingTwice ==
  stage = "end" =>
    \A i, j \in Left : i # j =>
      /\ ~OverlayShadow(i, j) /\ ~SameMarker(i, j) /\ ~TwinShadow(i, j)
      /\ Real(i) /\ Real(j) => ~CrossDuplicate(i, j)

(* Findings with one marker and two triages: an OCR value and a value of   *)
(* the embedded visual layer that say the same.  Merging ignores triages,  *)
(* so that the real one may give way to one that the budget cuts.          *)
Mixed(i) == \E j \in DOMAIN input : SameMarker(i, j) /\ input[j].triage # input[i].triage

(* A duplicate goes only for a finding about the same place that stays in  *)
(* the list, and a real one only for a real one, unless the two triages    *)
(* share a marker: dropping duplicates never loses a place.                *)
DroppedForOneThatStays ==
  [][stage \notin {"budget", "file"} =>
       \A i \in Left \ Left' : \E j \in Left' :
         /\ OverlayShadow(i, j) \/ SameMarker(i, j) \/ TwinShadow(i, j) \/ CrossDuplicate(i, j)
         /\ Real(i) => Real(j) \/ Mixed(i)]_vars

(* The budget cuts only unresolved findings, none that is more important   *)
(* than one it leaves, and the report tells how many: what was found is    *)
(* the kept, the duplicates and the suppressed.                            *)
BudgetIsFair ==
  [][stage = "budget" =>
       /\ \A i \in Left \ Left' :
            Unresolved(i) /\ \A j \in Left' : Unresolved(j) => ~MoreImportant(i, j)
       /\ suppressed' = Cardinality(Left \ Left')
       /\ suppressed' > 0 => Cardinality({j \in Left' : Unresolved(j)}) = Budget]_vars
===============================================================================
