--------------------------- MODULE ResultStore_proofs ---------------------------
(***************************************************************************)
(* What becomes of stored differences, for every set of jobs, of fixed ids *)
(* and of repairing threads.                                               *)
(***************************************************************************)
EXTENDS ResultStore, TLAPS

(* A job is in the hands of one repair at most. *)
Locks ==
  \A t, u \in Threads :
    thread[t] # Idle /\ thread[u] # Idle /\ thread[t].job = thread[u].job => t = u

(* A repaired job has branch differences, and no repair at work on a job   *)
(* found it repaired.                                                      *)
Once ==
  /\ \A j \in Jobs : /\ repaired[j] \in {0, 1}
                     /\ repaired[j] = 1 => DOMAIN diffs[j] \cap FixedIds # {}
  /\ \A t \in Threads :
       thread[t].at = "parsing" => repaired[thread[t].job] = 0

(* Only finished jobs have differences, only old ones have old rows, and   *)
(* what reading computes anew is not stored while it is computed anew.     *)
Rows ==
  \A j \in Jobs :
    /\ job[j].status # "done" => j \notin OldJobs /\ DOMAIN diffs[j] = {}
    /\ job[j].status = "done" /\ job[j].version = "legacy" => j \in OldJobs
    /\ job[j].version = "legacy" => \A d \in DOMAIN diffs[j] : Kind(d) # "recomputed"

(* What a repair read of an old result has its recomputed differences. *)
Snapshot ==
  \A t \in Threads :
    thread[t].at = "parsing" /\ job[thread[t].job].version = "legacy"
      => DOMAIN Recomputed(thread[t].job, starts) \subseteq DOMAIN thread[t].rows

(* What was reviewed is shown, and stored. *)
SaidIsShown == \A j \in Jobs : DOMAIN said[j] \subseteq DOMAIN Shown(j) \cap DOMAIN diffs[j]

IInv == TypeOK /\ Locks /\ Once /\ Rows /\ Snapshot /\ SaidIsShown

(* The ids of what is shown in the n-th process. *)
ShownIds(j, n) ==
  IF job[j].version = "legacy"
  THEN {d \in DOMAIN diffs[j] : Kind(d) \notin {"numeric", "noise"}} \cup DOMAIN Recomputed(j, n)
  ELSE DOMAIN diffs[j]

-----------------------------------------------------------------------------
(* Functions put over functions, and fresh rows. *)

LEMMA OverFacts ==
  ASSUME NEW f, NEW g
  PROVE  /\ DOMAIN Over(f, g) = DOMAIN f \cup DOMAIN g
         /\ \A d \in DOMAIN f : Over(f, g)[d] = f[d]
         /\ \A d \in DOMAIN g \ DOMAIN f : Over(f, g)[d] = g[d]
BY DEF Over

LEMMA NewFacts ==
  ASSUME NEW j \in Jobs, NEW e \in {"old", "current"}, NEW ids
  PROVE  /\ DOMAIN New(j, e, ids) = ids
         /\ \A d \in ids : New(j, e, ids)[d] \in Payload
BY DEF New, Fresh, Payload

(* Process numbers stay within their bound. *)
LEMMA StartFacts ==
  /\ 1 \in 1 .. MaxStarts
  /\ \A n \in 1 .. MaxStarts : n < MaxStarts => n + 1 \in 1 .. MaxStarts
BY StoreAssumption

LEMMA IdFacts ==
  ASSUME NEW j \in Jobs
  PROVE  /\ \A d \in FixedIds : d \in Ids(j) /\ Kind(d) = "branch"
         /\ \A d \in Ids(j) \ FixedIds :
              /\ Kind(d) \in Kinds
              /\ \A k \in Jobs : d \in Ids(k) => k = j
         /\ \A x \in Found : <<j, x, 0>> \notin FixedIds /\ <<j, x, 0>> \in Ids(j)
         /\ \A x \in SUBSET Found : \A d \in Drawn(j, x) :
              d \in Ids(j) \ FixedIds /\ Kind(d) \in x
         /\ \A n \in 1 .. MaxStarts :
              LET d == <<j, "recomputed", n>> IN
              d \in Ids(j) \ FixedIds /\ Kind(d) = "recomputed" /\ Finding(d) = <<j, "recomputed">>
<1>1. \A x \in Kinds, n \in 0 .. MaxStarts : <<j, x, n>> \notin FixedIds
  BY StoreAssumption
<1>2. 0 \in 0 .. MaxStarts /\ 1 .. MaxStarts \subseteq 0 .. MaxStarts
  BY StoreAssumption
<1>3. \A d \in FixedIds : d \in Ids(j) /\ Kind(d) = "branch"
  BY DEF Ids, Kind
<1>4. \A k \in Jobs : \A d \in Ids(k) \ FixedIds :
        \E x \in Kinds, n \in 0 .. MaxStarts : d = <<k, x, n>> /\ Kind(d) = x
  BY <1>2 DEF Ids, Drawn, Kinds, Found, Kind
<1>5. \A d \in Ids(j) \ FixedIds :
        Kind(d) \in Kinds /\ \A k \in Jobs : d \in Ids(k) => k = j
  BY <1>4
<1>6. \A x \in SUBSET Found : \A d \in Drawn(j, x) :
        d \in Ids(j) \ FixedIds /\ Kind(d) \in x
  BY <1>1, <1>2 DEF Ids, Drawn, Kinds, Kind
<1>7. \A x \in Found : <<j, x, 0>> \notin FixedIds /\ <<j, x, 0>> \in Ids(j)
  BY <1>1, <1>2 DEF Ids, Drawn, Kinds
<1>8. \A n \in 1 .. MaxStarts :
        LET d == <<j, "recomputed", n>> IN
        d \in Ids(j) \ FixedIds /\ Kind(d) = "recomputed" /\ Finding(d) = <<j, "recomputed">>
  BY <1>1, <1>2 DEF Ids, Kinds, Kind, Finding
<1> QED
  BY <1>3, <1>5, <1>6, <1>7, <1>8

LEMMA RecomputedFacts ==
  ASSUME NEW j \in Jobs, NEW n \in 1 .. MaxStarts
  PROVE  /\ DOMAIN Recomputed(j, n) = IF j \in OldJobs THEN {<<j, "recomputed", n>>} ELSE {}
         /\ \A d \in DOMAIN Recomputed(j, n) : d \in Ids(j) \ FixedIds /\ Kind(d) = "recomputed"
         /\ \A d \in DOMAIN Recomputed(j, n) : Recomputed(j, n)[d] = Fresh(j, "current")
         /\ \A d \in DOMAIN Recomputed(j, n) : Recomputed(j, n)[d] \in Payload
<1>1. /\ DOMAIN Recomputed(j, n) = IF j \in OldJobs THEN {<<j, "recomputed", n>>} ELSE {}
      /\ \A d \in DOMAIN Recomputed(j, n) : Recomputed(j, n)[d] = Fresh(j, "current")
  BY DEF Recomputed, New
<1>2. Fresh(j, "current") \in Payload
  BY DEF Fresh, Payload
<1> QED
  BY <1>1, <1>2, IdFacts

(* What is shown of a job, by any process: every row a fixed id names, and *)
(* every row it shows as it is stored.                                     *)
LEMMA ShownFacts ==
  ASSUME TypeOK, NEW j \in Jobs, NEW n \in 1 .. MaxStarts
  PROVE  /\ DOMAIN ShownBy(j, n) = ShownIds(j, n)
         /\ DOMAIN ShownBy(j, n) \subseteq Ids(j)
         /\ \A d \in DOMAIN ShownBy(j, n) : ShownBy(j, n)[d] \in Payload
         /\ DOMAIN diffs[j] \cap FixedIds = DOMAIN ShownBy(j, n) \cap FixedIds
         /\ \A d \in DOMAIN ShownBy(j, n) \cap DOMAIN diffs[j] : ShownBy(j, n)[d] = diffs[j][d]
         /\ \A d \in DOMAIN ShownBy(j, n) \ DOMAIN diffs[j] :
              /\ job[j].version = "legacy"
              /\ d \in DOMAIN Recomputed(j, n)
              /\ ShownBy(j, n)[d] = Fresh(j, "current")
<1>1. DOMAIN diffs[j] \subseteq Ids(j) /\ \A d \in DOMAIN diffs[j] : diffs[j][d] \in Payload
  BY DEF TypeOK
<1>2. CASE job[j].version # "legacy"
  BY <1>1, <1>2 DEF ShownBy, ShownIds
<1>3. CASE job[j].version = "legacy"
  <2> DEFINE kept == {d \in DOMAIN diffs[j] : Kind(d) \notin {"numeric", "noise"}}
             old  == [d \in kept |-> diffs[j][d]]
             new  == Recomputed(j, n)
  <2>1. ShownBy(j, n) = Over(old, new)
    BY <1>3 DEF ShownBy, Upgraded
  <2>2. DOMAIN old = kept /\ \A d \in kept : old[d] = diffs[j][d]
    OBVIOUS
  <2>a. /\ \A d \in DOMAIN new : d \in Ids(j) \ FixedIds /\ Kind(d) = "recomputed"
        /\ \A d \in DOMAIN new : new[d] = Fresh(j, "current") /\ new[d] \in Payload
    BY RecomputedFacts
  <2>b. ShownIds(j, n) = kept \cup DOMAIN new
    BY <1>3 DEF ShownIds
  <2> HIDE DEF old, new
  <2>3. /\ DOMAIN ShownBy(j, n) = kept \cup DOMAIN new
        /\ \A d \in kept : ShownBy(j, n)[d] = diffs[j][d]
        /\ \A d \in DOMAIN new \ kept : ShownBy(j, n)[d] = new[d]
    <3>1. /\ DOMAIN Over(old, new) = DOMAIN old \cup DOMAIN new
          /\ \A d \in DOMAIN old : Over(old, new)[d] = old[d]
          /\ \A d \in DOMAIN new \ DOMAIN old : Over(old, new)[d] = new[d]
      BY OverFacts
    <3> QED
      BY <2>1, <2>2, <3>1
  <2>4. DOMAIN diffs[j] \cap DOMAIN new \subseteq kept
    BY <2>a
  <2>5. DOMAIN diffs[j] \cap FixedIds = kept \cap FixedIds
    BY IdFacts
  <2>6. DOMAIN ShownBy(j, n) \subseteq Ids(j)
    BY <1>1, <2>3, <2>a
  <2>7. \A d \in DOMAIN ShownBy(j, n) : ShownBy(j, n)[d] \in Payload
    BY <1>1, <2>3, <2>a
  <2>8. DOMAIN ShownBy(j, n) \cap FixedIds = kept \cap FixedIds
    BY <2>3, <2>a
  <2>9. \A d \in DOMAIN ShownBy(j, n) \ DOMAIN diffs[j] :
          d \in DOMAIN new /\ ShownBy(j, n)[d] = Fresh(j, "current")
    BY <2>3, <2>a
  <2>10. \A d \in DOMAIN ShownBy(j, n) \cap DOMAIN diffs[j] : ShownBy(j, n)[d] = diffs[j][d]
    BY <2>3, <2>4
  <2>11. \A d \in DOMAIN new : d \in DOMAIN Recomputed(j, n)
    BY DEF new
  <2> QED
    BY <1>3, <2>b, <2>3, <2>5, <2>6, <2>7, <2>8, <2>9, <2>10, <2>11
<1> QED
  BY <1>2, <1>3

(* The same of the process that runs. *)
LEMMA ShownNow ==
  ASSUME TypeOK, NEW j \in Jobs
  PROVE  /\ DOMAIN Shown(j) = ShownIds(j, starts)
         /\ DOMAIN Shown(j) \subseteq Ids(j)
         /\ \A d \in DOMAIN Shown(j) : Shown(j)[d] \in Payload
         /\ DOMAIN diffs[j] \cap FixedIds = DOMAIN Shown(j) \cap FixedIds
         /\ \A d \in DOMAIN Shown(j) \cap DOMAIN diffs[j] : Shown(j)[d] = diffs[j][d]
         /\ \A d \in DOMAIN Shown(j) \ DOMAIN diffs[j] :
              /\ job[j].version = "legacy"
              /\ d \in DOMAIN Recomputed(j, starts)
              /\ Shown(j)[d] = Fresh(j, "current")
<1>1. starts \in 1 .. MaxStarts
  BY DEF TypeOK
<1> QED
  BY <1>1, ShownFacts DEF Shown

(* Who shows what, after a step: a definition of domains alone. *)
LEMMA ShownNext ==
  ASSUME NEW j \in Jobs
  PROVE  DOMAIN Shown(j)' = ShownIds(j, starts)'
<1>1. CASE job'[j].version # "legacy"
  BY <1>1 DEF Shown, ShownBy, ShownIds
<1>2. CASE job'[j].version = "legacy"
  BY <1>2 DEF Shown, ShownBy, ShownIds, Upgraded, Over, Recomputed
<1> QED
  BY <1>1, <1>2

-----------------------------------------------------------------------------
(* Nothing shown goes. *)

(* What ShownStays says of one job. *)
Stays(j) ==
  /\ Findings(Shown(j)) \subseteq Findings(Shown(j)')
  /\ DOMAIN Shown(j) \ Unstored(j) \subseteq DOMAIN Shown(j)'
  /\ starts' = starts => DOMAIN Shown(j) \subseteq DOMAIN Shown(j)'

LEMMA UnfinishedShowNothing ==
  ASSUME TypeOK, Rows, NEW j \in Jobs, NEW n \in 1 .. MaxStarts, job[j].status # "done"
  PROVE  DOMAIN ShownBy(j, n) = {}
BY ShownFacts, RecomputedFacts DEF Rows, ShownIds

LEMMA MoreIsShown ==
  ASSUME NEW j \in Jobs, DOMAIN Shown(j) \subseteq DOMAIN Shown(j)'
  PROVE  Stays(j)
BY DEF Stays, Findings, Unstored, Finding

(* A step that leaves the process and the version of a job, and takes no   *)
(* row from it.                                                            *)
LEMMA GrowingShowsMore ==
  ASSUME TypeOK, NEW j \in Jobs, job'[j].version = job[j].version, starts' = starts,
         DOMAIN diffs[j] \subseteq DOMAIN diffs'[j]
  PROVE  DOMAIN Shown(j) \subseteq DOMAIN Shown(j)'
<1>1. ShownIds(j, starts) \subseteq ShownIds(j, starts)'
  BY DEF ShownIds, Recomputed, New
<1> QED
  BY <1>1, ShownNow, ShownNext

(* The next process shows what is stored under the same ids, and what it   *)
(* computes anew under others.                                             *)
LEMMA NextProcess ==
  ASSUME TypeOK, NEW j \in Jobs, NEW rows,
         starts' = starts + 1, starts' \in 1 .. MaxStarts,
         DOMAIN rows = ShownIds(j, starts')
  PROVE  /\ Findings(Shown(j)) \subseteq Findings(rows)
         /\ Findings(rows) \subseteq Findings(Shown(j))
         /\ DOMAIN Shown(j) \ Unstored(j) \subseteq DOMAIN rows
<1>1. starts \in 1 .. MaxStarts
  BY DEF TypeOK
<1>2. CASE job[j].version # "legacy"
  BY <1>2, ShownNow DEF ShownIds, Findings, Unstored
<1>3. CASE job[j].version = "legacy"
  <2> DEFINE kept == {d \in DOMAIN diffs[j] : Kind(d) \notin {"numeric", "noise"}}
  <2>1. /\ DOMAIN Shown(j) = kept \cup DOMAIN Recomputed(j, starts)
        /\ DOMAIN rows = kept \cup DOMAIN Recomputed(j, starts')
    BY <1>3, ShownNow DEF ShownIds
  <2>2. CASE j \notin OldJobs
    <3>1. DOMAIN Recomputed(j, starts) = {} /\ DOMAIN Recomputed(j, starts') = {}
      BY <1>1, <2>2, RecomputedFacts
    <3> QED
      BY <2>1, <3>1 DEF Findings, Unstored
  <2>3. CASE j \in OldJobs
    <3> DEFINE d1 == <<j, "recomputed", starts>>
               d2 == <<j, "recomputed", starts'>>
    <3>1. DOMAIN Recomputed(j, starts) = {d1} /\ DOMAIN Recomputed(j, starts') = {d2}
      BY <1>1, <2>3, RecomputedFacts
    <3>2. Finding(d1) = <<j, "recomputed">> /\ Finding(d2) = <<j, "recomputed">>
      BY <1>1, IdFacts
    <3>3. kept \subseteq DOMAIN diffs[j] /\ Kind(d1) = "recomputed"
      BY <1>1, IdFacts
    <3>4. DOMAIN Shown(j) = kept \cup {d1} /\ DOMAIN rows = kept \cup {d2}
      BY <2>1, <3>1
    <3>5. d1 \in DOMAIN diffs[j] => d1 \in kept
      BY <3>3
    <3> HIDE DEF d1, d2, kept
    <3>6. DOMAIN Shown(j) \ Unstored(j) \subseteq kept
      BY <3>4, <3>5 DEF Unstored
    <3> QED
      BY <3>2, <3>4, <3>6 DEF Findings
  <2> QED
    BY <2>2, <2>3
<1> QED
  BY <1>2, <1>3

(* Nothing that is shown of any job disappears. *)
LEMMA NothingShownGoes ==
  ASSUME IInv, [Next]_vars
  PROVE  \A j \in Jobs : Stays(j)
<1> USE DEF IInv
<1> SUFFICES ASSUME NEW j \in Jobs
             PROVE  Stays(j)
  OBVIOUS
<1> DEFINE Grows == /\ job'[j].version = job[j].version /\ starts' = starts
                    /\ DOMAIN diffs[j] \subseteq DOMAIN diffs'[j]
<1>a. job \in [Jobs -> JobRow] /\ DOMAIN diffs = Jobs /\ starts \in 1 .. MaxStarts
  BY DEF TypeOK
<1>1. ASSUME NEW k \in Jobs, Create(k) PROVE Grows
  BY <1>1, <1>a DEF Create, JobRow
<1>2. ASSUME NEW k \in Jobs, Progress(k) PROVE Grows \/ job[j].status # "done"
  BY <1>2, <1>a DEF Progress
<1>3. ASSUME NEW k \in Jobs, SaveResult(k) PROVE Grows
  BY <1>3, <1>a DEF SaveResult, Upsert, Over, JobRow
<1>4. ASSUME NEW k \in Jobs, Migrate(k) PROVE Stays(j)
  <2>1. starts' = starts + 1 /\ starts' \in 1 .. MaxStarts
    BY <1>4, <1>a, StartFacts DEF Migrate
  <2>2. DOMAIN Shown(j)' = ShownIds(j, starts')
    <3>1. CASE j = k
      <4>1. job'[j].version = "current" /\ diffs'[j] = ShownBy(j, starts')
        BY <1>4, <1>a, <3>1 DEF Migrate, JobRow
      <4>2. DOMAIN Shown(j)' = DOMAIN diffs'[j]
        BY <4>1, ShownNext DEF ShownIds
      <4> QED
        BY <2>1, <4>1, <4>2, ShownFacts
    <3>2. CASE j # k
      <4>1. job'[j] = job[j] /\ diffs'[j] = diffs[j]
        BY <1>4, <1>a, <3>2 DEF Migrate
      <4> QED
        BY <4>1, ShownNext DEF ShownIds, Recomputed, New, Fresh
    <3> QED
      BY <3>1, <3>2
  <2> QED
    BY <1>a, <2>1, <2>2, NextProcess DEF Stays
<1>5. ASSUME NEW k \in Jobs, NEW d \in Ids(k), NEW s \in Statuses, Review(k, d, s) PROVE Grows
  BY <1>5, <1>a DEF Review
<1>6. ASSUME NEW t \in Threads, RepairSave(t) PROVE DOMAIN Shown(j) \subseteq DOMAIN Shown(j)'
  <2> DEFINE k == thread[t].job
  <2>1. CASE j # k
    BY <1>6, <1>a, <2>1, GrowingShowsMore DEF RepairSave, Upsert
  <2>2. CASE j = k
    <3>1. job'[j].version = "current"
      BY <1>6, <1>a, <2>2 DEF RepairSave
    <3>2. DOMAIN diffs[j] \cup DOMAIN thread[t].rows \subseteq DOMAIN diffs'[j]
      BY <1>6, <1>a, <2>2 DEF RepairSave, Upsert, Over
    <3>3. job[j].version = "legacy" => DOMAIN Recomputed(j, starts) \subseteq DOMAIN thread[t].rows
      BY <1>6, <2>2 DEF RepairSave, Snapshot
    <3> QED
      BY <3>1, <3>2, <3>3, ShownNow, ShownNext DEF ShownIds
  <2> QED
    BY <2>1, <2>2
<1>7. ASSUME NEW t \in Threads,
             \/ \E k \in Jobs : RepairEnter(t, k)
             \/ RepairReadJob(t) \/ RepairReadDiffs(t) \/ RepairGivesUp(t)
      PROVE  Grows
  BY <1>7 DEF RepairEnter, RepairReadJob, RepairReadDiffs, RepairGivesUp
<1>8. CASE Restart
  <2>1. starts' = starts + 1 /\ starts' \in 1 .. MaxStarts
    BY <1>8, <1>a, StartFacts DEF Restart
  <2>2. DOMAIN Shown(j)' = ShownIds(j, starts')
    BY <1>8, ShownNext DEF Restart, ShownIds, Recomputed, New, Fresh
  <2> QED
    BY <1>a, <2>1, <2>2, NextProcess DEF Stays
<1>9. ASSUME UNCHANGED vars PROVE Grows
  BY <1>9 DEF vars
<1>10. Grows => Stays(j)
  BY GrowingShowsMore, MoreIsShown
<1>11. job[j].status # "done" => Stays(j)
  <2>1. job[j].status # "done" => DOMAIN Shown(j) = {}
    BY <1>a, UnfinishedShowNothing DEF Shown
  <2> QED
    BY <2>1, MoreIsShown
<1>12. \A t \in Threads : RepairSave(t) => Stays(j)
  BY <1>6, MoreIsShown
<1> QED
  BY <1>1, <1>2, <1>3, <1>4, <1>5, <1>7, <1>8, <1>9, <1>10, <1>11, <1>12 DEF Next, RepairStep

-----------------------------------------------------------------------------
(* The invariant. *)

LEMMA InitIsRight == Init => IInv
<1> SUFFICES ASSUME Init PROVE IInv
  OBVIOUS
<1> USE DEF Init
<1>1. PICK branches \in [OldJobs -> SUBSET FixedIds], kinds \in [OldJobs -> SUBSET Found] :
        diffs = [j \in Jobs |->
          New(j, "old", IF j \in OldJobs THEN branches[j] \cup Drawn(j, kinds[j]) ELSE {})]
  OBVIOUS
<1>2. \A j \in Jobs : /\ DOMAIN diffs[j] \subseteq Ids(j)
                      /\ \A d \in DOMAIN diffs[j] : diffs[j][d] \in Payload
                      /\ \A d \in DOMAIN diffs[j] : Kind(d) # "recomputed"
                      /\ j \notin OldJobs => DOMAIN diffs[j] = {}
  <2> SUFFICES ASSUME NEW j \in Jobs
               PROVE  /\ DOMAIN diffs[j] \subseteq Ids(j)
                      /\ \A d \in DOMAIN diffs[j] : diffs[j][d] \in Payload
                      /\ \A d \in DOMAIN diffs[j] : Kind(d) # "recomputed"
                      /\ j \notin OldJobs => DOMAIN diffs[j] = {}
    OBVIOUS
  <2> DEFINE ids == IF j \in OldJobs THEN branches[j] \cup Drawn(j, kinds[j]) ELSE {}
  <2>1. diffs[j] = New(j, "old", ids)
    BY <1>1
  <2>2. DOMAIN diffs[j] = ids /\ \A d \in ids : diffs[j][d] \in Payload
    <3> HIDE DEF ids
    <3> QED
      BY <2>1, NewFacts
  <2>3. CASE j \in OldJobs
    <3>1. branches[j] \subseteq FixedIds /\ kinds[j] \in SUBSET Found /\ ids = branches[j] \cup Drawn(j, kinds[j])
      BY <2>3
    <3>2. \A d \in Drawn(j, kinds[j]) : d \in Ids(j) /\ Kind(d) \in Found
      BY <3>1, IdFacts
    <3>3. \A d \in FixedIds : d \in Ids(j) /\ Kind(d) = "branch"
      BY IdFacts
    <3> QED
      BY <2>2, <2>3, <3>1, <3>2, <3>3 DEF Found
  <2>4. CASE j \notin OldJobs
    BY <2>2, <2>4
  <2> QED
    BY <2>3, <2>4
<1>3. \A j \in Jobs : DOMAIN said[j] = {}
  OBVIOUS
<1>4. \A t \in Threads : thread[t] = Idle /\ thread[t].at = "idle"
  BY DEF Idle
<1>5. TypeOK
  BY <1>1, <1>2, <1>3, <1>4, StartFacts DEF TypeOK, Repair
<1>6. Locks /\ Snapshot
  BY <1>4 DEF Locks, Snapshot
<1>7. Once
  BY <1>4 DEF Once
<1>8. Rows
  <2>1. \A j \in Jobs : IF j \in OldJobs THEN job[j].status = "done"
                        ELSE job[j].status = "absent"
    OBVIOUS
  <2> QED
    BY <1>2, <2>1 DEF Rows
<1>9. SaidIsShown
  BY <1>3 DEF SaidIsShown
<1> QED
  BY <1>5, <1>6, <1>7, <1>8, <1>9 DEF IInv

(* A step of no repair: the threads stay as they are. *)
LEMMA ThreadsStay ==
  ASSUME IInv, UNCHANGED <<inProgress, thread, repaired>>,
         starts' = starts \/ inProgress = {},
         DOMAIN diffs' = Jobs,
         \A j \in Jobs : DOMAIN diffs[j] \cap FixedIds \subseteq DOMAIN diffs'[j],
         \A j \in Jobs : job'[j].version = "legacy" => job[j].version = "legacy"
  PROVE  /\ \A t \in Threads : Repair(thread[t], inProgress)'
         /\ Locks' /\ Once' /\ Snapshot'
<1> USE DEF IInv
<1>1. \A t \in Threads : Repair(thread[t], inProgress)'
  BY DEF TypeOK, Repair
<1>2. Locks'
  BY DEF Locks
<1>3. Once'
  BY DEF Once
<1>4. Snapshot'
  <2> SUFFICES ASSUME NEW t \in Threads, thread[t].at = "parsing",
                      job'[thread[t].job].version = "legacy"
               PROVE  DOMAIN Recomputed(thread[t].job, starts') \subseteq DOMAIN thread[t].rows
    BY DEF Snapshot, Recomputed, New, Fresh
  <2>1. thread[t].job \in Jobs /\ thread[t].job \in inProgress
    BY DEF TypeOK, Repair, Idle
  <2>2. starts' = starts
    BY <2>1
  <2> QED
    BY <2>1, <2>2 DEF Snapshot
<1> QED
  BY <1>1, <1>2, <1>3, <1>4

LEMMA CreateKeeps ==
  ASSUME IInv, NEW k \in Jobs, Create(k)
  PROVE  TypeOK' /\ Locks' /\ Once' /\ Rows' /\ Snapshot'
<1> USE DEF IInv, Create
<1>1. /\ job' \in [Jobs -> JobRow]
      /\ \A j \in Jobs : /\ job'[j].version = job[j].version
                         /\ j # k => job'[j] = job[j]
  BY DEF TypeOK, JobRow
<1>2. (\A t \in Threads : Repair(thread[t], inProgress)') /\ Locks' /\ Once' /\ Snapshot'
  BY <1>1, ThreadsStay DEF TypeOK
<1>3. TypeOK'
  BY <1>1, <1>2 DEF TypeOK
<1>4. Rows'
  BY <1>1 DEF Rows, TypeOK
<1> QED
  BY <1>2, <1>3, <1>4

LEMMA ProgressKeeps ==
  ASSUME IInv, NEW k \in Jobs, Progress(k)
  PROVE  TypeOK' /\ Locks' /\ Once' /\ Rows' /\ Snapshot'
<1> USE DEF IInv, Progress
<1>1. /\ job' \in [Jobs -> JobRow]
      /\ \A j \in Jobs : j # k => job'[j] = job[j]
      /\ job'[k].version = "current"
  BY DEF TypeOK, JobRow
<1>2. (\A t \in Threads : Repair(thread[t], inProgress)') /\ Locks' /\ Once' /\ Snapshot'
  BY <1>1, ThreadsStay DEF TypeOK
<1>3. TypeOK'
  BY <1>1, <1>2 DEF TypeOK
<1>4. Rows'
  BY <1>1 DEF Rows, TypeOK
<1> QED
  BY <1>2, <1>3, <1>4

LEMMA SaveResultKeeps ==
  ASSUME IInv, NEW k \in Jobs, SaveResult(k)
  PROVE  TypeOK' /\ Locks' /\ Once' /\ Rows' /\ Snapshot'
<1> USE DEF IInv
<1>1. PICK ids \in SUBSET (FixedIds \cup Drawn(k, {"numeric", "event"})) :
        diffs' = Upsert(k, New(k, "current", ids))
  BY DEF SaveResult
<1>2. /\ job' \in [Jobs -> JobRow]
      /\ \A j \in Jobs : /\ job'[j].version = job[j].version
                         /\ job'[j].status = job[j].status
  <2> DEFINE b == job[k].doubt \/ DOMAIN diffs[k] # {}
  <2>1. b \in BOOLEAN /\ job \in [Jobs -> JobRow]
    BY DEF TypeOK
  <2>2. job' = [job EXCEPT ![k].doubt = b]
    BY DEF SaveResult
  <2> HIDE DEF b
  <2> QED
    BY <2>1, <2>2 DEF JobRow
<1>3. DOMAIN diffs' = Jobs /\ \A j \in Jobs : j # k => diffs'[j] = diffs[j]
  BY <1>1 DEF Upsert, TypeOK
<1>4. diffs'[k] = Over(New(k, "current", ids), diffs[k])
  BY <1>1 DEF Upsert, TypeOK
<1>5. /\ DOMAIN diffs'[k] = ids \cup DOMAIN diffs[k]
      /\ \A d \in DOMAIN diffs'[k] : diffs'[k][d] \in Payload
  <2>1. DOMAIN New(k, "current", ids) = ids /\ \A d \in ids : New(k, "current", ids)[d] \in Payload
    BY NewFacts
  <2>2. \A d \in DOMAIN diffs[k] : diffs[k][d] \in Payload
    BY DEF TypeOK
  <2> QED
    BY <1>4, <2>1, <2>2 DEF Over
<1>6. DOMAIN diffs'[k] \subseteq Ids(k)
  <2>1. {"numeric", "event"} \in SUBSET Found
    BY DEF Found
  <2> QED
    BY <1>5, <2>1, IdFacts DEF TypeOK
<1>7. UNCHANGED <<inProgress, thread, starts, said, repaired>>
  BY DEF SaveResult
<1>8. (\A t \in Threads : Repair(thread[t], inProgress)') /\ Locks' /\ Once' /\ Snapshot'
  BY <1>2, <1>3, <1>5, <1>7, ThreadsStay
<1>9. TypeOK'
  BY <1>2, <1>3, <1>5, <1>6, <1>7, <1>8 DEF TypeOK
<1>10. Rows'
  <2>1. job[k].status = "done" /\ k \notin OldJobs
    BY DEF SaveResult
  <2>2. job[k].version # "legacy"
    BY <2>1 DEF Rows
  <2> QED
    BY <1>2, <1>3, <2>1, <2>2 DEF Rows
<1> QED
  BY <1>8, <1>9, <1>10

LEMMA ReviewKeeps ==
  ASSUME IInv, NEW k \in Jobs, NEW d \in Ids(k), NEW s \in Statuses, Review(k, d, s)
  PROVE  TypeOK' /\ Locks' /\ Once' /\ Rows' /\ Snapshot'
<1> USE DEF IInv
<1>1. PICK i \in Jobs :
        /\ d \in DOMAIN diffs[i]
        /\ diffs' = [j \in Jobs |->
             IF d \in DOMAIN diffs[j]
             THEN [diffs[j] EXCEPT ![d] = [diffs[i][d] EXCEPT !.review = s]]
             ELSE diffs[j]]
  BY DEF Review
<1>2. UNCHANGED <<job, inProgress, thread, starts, repaired>>
  BY DEF Review
<1>3. [diffs[i][d] EXCEPT !.review = s] \in Payload
  BY <1>1 DEF TypeOK, Payload
<1>4. DOMAIN diffs' = Jobs /\ \A j \in Jobs : DOMAIN diffs'[j] = DOMAIN diffs[j]
  BY <1>1
<1>5. \A j \in Jobs : \A e \in DOMAIN diffs'[j] : diffs'[j][e] \in Payload
  <2> SUFFICES ASSUME NEW j \in Jobs, NEW e \in DOMAIN diffs'[j]
               PROVE  diffs'[j][e] \in Payload
    OBVIOUS
  <2>1. e \in DOMAIN diffs[j] /\ diffs[j][e] \in Payload
    BY <1>4 DEF TypeOK
  <2>2. diffs'[j] = IF d \in DOMAIN diffs[j]
                    THEN [diffs[j] EXCEPT ![d] = [diffs[i][d] EXCEPT !.review = s]]
                    ELSE diffs[j]
    BY <1>1
  <2> QED
    BY <1>3, <2>1, <2>2
<1>6. DOMAIN said' = Jobs /\ \A j \in Jobs : DOMAIN said'[j] \subseteq DOMAIN diffs'[j]
  <2>1. /\ DOMAIN said' = Jobs
        /\ \A j \in Jobs : j # k => said'[j] = said[j]
        /\ said'[k] = Over([e \in {d} |-> s], said[k])
    BY DEF Review, TypeOK
  <2>2. DOMAIN said'[k] = {d} \cup DOMAIN said[k]
    BY <2>1 DEF Over
  <2>3. d \in DOMAIN diffs[k]
    <3>1. d \in DOMAIN Shown(k)
      BY DEF Review
    <3>2. CASE d \in FixedIds
      BY <3>1, <3>2, ShownNow
    <3>3. CASE d \notin FixedIds
      BY <1>1, <3>3, IdFacts DEF TypeOK
    <3> QED
      BY <3>2, <3>3
  <2> QED
    BY <1>4, <2>1, <2>2, <2>3 DEF TypeOK
<1>7. (\A t \in Threads : Repair(thread[t], inProgress)') /\ Locks' /\ Once' /\ Snapshot'
  BY <1>2, <1>4, ThreadsStay
<1>8. TypeOK'
  BY <1>2, <1>4, <1>5, <1>6, <1>7 DEF TypeOK
<1>9. Rows'
  BY <1>2, <1>4 DEF Rows
<1> QED
  BY <1>7, <1>8, <1>9

LEMMA MigrateKeeps ==
  ASSUME IInv, NEW k \in Jobs, Migrate(k)
  PROVE  TypeOK' /\ Locks' /\ Once' /\ Rows' /\ Snapshot'
<1> USE DEF IInv
<1>0. starts' \in 1 .. MaxStarts /\ starts \in 1 .. MaxStarts
  BY StartFacts DEF Migrate, TypeOK
<1>1. /\ job' \in [Jobs -> JobRow]
      /\ \A j \in Jobs : /\ job'[j].status = job[j].status
                         /\ j # k => job'[j] = job[j]
      /\ job'[k].version = "current" /\ job[k].version = "legacy"
  BY DEF Migrate, TypeOK, JobRow
<1>2. /\ DOMAIN diffs' = Jobs /\ diffs'[k] = ShownBy(k, starts')
      /\ \A j \in Jobs : j # k => diffs'[j] = diffs[j]
  BY DEF Migrate, TypeOK
<1>3. UNCHANGED <<inProgress, thread, said, repaired>> /\ inProgress = {}
  BY DEF Migrate
<1>4. /\ DOMAIN diffs'[k] \subseteq Ids(k)
      /\ \A d \in DOMAIN diffs'[k] : diffs'[k][d] \in Payload
      /\ DOMAIN diffs[k] \cap FixedIds = DOMAIN diffs'[k] \cap FixedIds
  BY <1>0, <1>2, ShownFacts
<1>5. (\A t \in Threads : Repair(thread[t], inProgress)') /\ Locks' /\ Once' /\ Snapshot'
  BY <1>1, <1>2, <1>3, <1>4, ThreadsStay
<1>6. DOMAIN said[k] \subseteq DOMAIN diffs'[k]
  <2> SUFFICES ASSUME NEW d \in DOMAIN said[k]
               PROVE  d \in DOMAIN diffs'[k]
    OBVIOUS
  <2>1. d \in DOMAIN diffs[k] /\ d \in ShownIds(k, starts)
    BY ShownNow DEF SaidIsShown
  <2>2. Kind(d) \notin {"numeric", "noise"}
    BY <1>0, <1>1, <2>1, RecomputedFacts DEF ShownIds
  <2>3. d \in ShownIds(k, starts')
    BY <1>1, <2>1, <2>2 DEF ShownIds
  <2> QED
    BY <1>0, <1>2, <2>3, ShownFacts
<1>7. TypeOK'
  BY <1>0, <1>1, <1>2, <1>3, <1>4, <1>5, <1>6 DEF TypeOK
<1>8. Rows'
  BY <1>0, <1>1, <1>2, UnfinishedShowNothing DEF Rows
<1> QED
  BY <1>5, <1>7, <1>8

(* One thread moves on, in its own job or in one nobody repairs. *)
LEMMA ThreadMoves ==
  ASSUME IInv, NEW t \in Threads, NEW r, NEW ip \in SUBSET Jobs,
         thread' = [thread EXCEPT ![t] = r], inProgress' = ip,
         UNCHANGED <<job, diffs, starts, said, repaired>>,
         r # Idle => /\ r.job \in Jobs
                     /\ \A u \in Threads : thread[u] # Idle /\ thread[u].job = r.job => u = t,
         \A u \in Threads : u # t /\ thread[u] # Idle => thread[u].job \in inProgress',
         Repair(r, inProgress'),
         r.at = "parsing" =>
           /\ repaired[r.job] = 0
           /\ job[r.job].version = "legacy" => DOMAIN Recomputed(r.job, starts) \subseteq DOMAIN r.rows
  PROVE  TypeOK' /\ Locks' /\ Once' /\ Rows' /\ Snapshot'
<1> USE DEF IInv
<1>1. \A u \in Threads : thread'[u] = IF u = t THEN r ELSE thread[u]
  BY DEF TypeOK
<1>2. DOMAIN thread' = Threads /\ \A u \in Threads : Repair(thread[u], inProgress)'
  BY <1>1 DEF TypeOK, Repair
<1>3. TypeOK'
  BY <1>2 DEF TypeOK
<1>4. Locks'
  BY <1>1 DEF Locks
<1>5. Once'
  BY <1>1 DEF Once
<1>6. Rows'
  BY DEF Rows
<1>7. Snapshot'
  BY <1>1 DEF Snapshot, Recomputed, New, Fresh
<1> QED
  BY <1>3, <1>4, <1>5, <1>6, <1>7

LEMMA Leaving ==
  ASSUME IInv, NEW t \in Threads, thread[t] # Idle, RepairLeave(t),
         UNCHANGED <<job, diffs, starts, said, repaired>>
  PROVE  TypeOK' /\ Locks' /\ Once' /\ Rows' /\ Snapshot'
<1> USE DEF IInv
<1>1. inProgress \subseteq Jobs /\ DOMAIN thread = Threads
  BY DEF TypeOK
<1>2. \A u \in Threads : thread[u] # Idle => thread[u].job \in inProgress
  BY DEF TypeOK, Repair
<1>3. \A u \in Threads : u # t /\ thread[u] # Idle => thread[u].job # thread[t].job
  BY DEF Locks
<1>4. inProgress' = inProgress \ {thread[t].job} /\ thread' = [thread EXCEPT ![t] = Idle]
  BY DEF RepairLeave
<1>5. Repair(Idle, inProgress') /\ Idle.at # "parsing"
  BY DEF Repair, Idle
<1>6. \A u \in Threads : u # t /\ thread[u] # Idle => thread[u].job \in inProgress'
  BY <1>2, <1>3, <1>4
<1>7. inProgress' \in SUBSET Jobs
  BY <1>1, <1>4
<1> QED
  BY <1>4, <1>5, <1>6, <1>7, ThreadMoves

LEMMA EnterKeeps ==
  ASSUME IInv, NEW t \in Threads, NEW k \in Jobs, RepairEnter(t, k)
  PROVE  TypeOK' /\ Locks' /\ Once' /\ Rows' /\ Snapshot'
<1> USE DEF IInv
<1> DEFINE r == [at |-> "entered", job |-> k]
<1>1. inProgress \subseteq Jobs
  BY DEF TypeOK
<1>2. \A u \in Threads : thread[u] # Idle => thread[u].job \in inProgress
  BY DEF TypeOK, Repair
<1>3. /\ k \notin inProgress /\ inProgress' = inProgress \cup {k}
      /\ thread' = [thread EXCEPT ![t] = r]
      /\ UNCHANGED <<job, diffs, starts, said, repaired>>
  BY DEF RepairEnter
<1>4. r.at = "entered" /\ r.job = k
  OBVIOUS
<1>5. Repair(r, inProgress')
  BY <1>3, <1>4 DEF Repair
<1>6. inProgress' \in SUBSET Jobs
  BY <1>1, <1>3
<1> HIDE DEF r
<1> QED
  BY <1>2, <1>3, <1>4, <1>5, <1>6, ThreadMoves

LEMMA ReadJobKeeps ==
  ASSUME IInv, NEW t \in Threads, RepairReadJob(t)
  PROVE  TypeOK' /\ Locks' /\ Once' /\ Rows' /\ Snapshot'
<1> USE DEF IInv
<1> DEFINE k == thread[t].job
           r == [at |-> "read", job |-> k, meta |-> job[k]]
<1>1. UNCHANGED <<job, diffs, starts, said, repaired>> /\ thread[t] # Idle
  BY DEF RepairReadJob, Idle
<1>2. CASE job[k].status = "absent"
  BY <1>1, <1>2, Leaving DEF RepairReadJob
<1>3. CASE job[k].status # "absent"
  <2>1. thread' = [thread EXCEPT ![t] = r] /\ inProgress' = inProgress
    BY <1>3 DEF RepairReadJob
  <2>2. r.at = "read" /\ r.job = k /\ r.meta = job[k]
    OBVIOUS
  <2>3. k \in inProgress /\ inProgress \in SUBSET Jobs /\ job[k] \in JobRow
    BY <1>1 DEF TypeOK, Repair
  <2>4. Repair(r, inProgress')
    BY <2>1, <2>2, <2>3 DEF Repair
  <2>5. \A u \in Threads : thread[u] # Idle /\ thread[u].job = k => u = t
    BY <1>1 DEF Locks
  <2>6. \A u \in Threads : thread[u] # Idle => thread[u].job \in inProgress'
    BY <2>1 DEF TypeOK, Repair
  <2> HIDE DEF r
  <2> QED
    BY <1>1, <2>1, <2>2, <2>3, <2>4, <2>5, <2>6, ThreadMoves
<1> QED
  BY <1>2, <1>3

LEMMA ReadDiffsKeeps ==
  ASSUME IInv, NEW t \in Threads, RepairReadDiffs(t)
  PROVE  TypeOK' /\ Locks' /\ Once' /\ Rows' /\ Snapshot'
<1> USE DEF IInv
<1> DEFINE k == thread[t].job
           r == [at |-> "parsing", job |-> k, meta |-> thread[t].meta, rows |-> Shown(k)]
<1>1. UNCHANGED <<job, diffs, starts, said, repaired>> /\ thread[t] # Idle /\ thread[t].at = "read"
  BY DEF RepairReadDiffs, Idle
<1>2. CASE ~Needed(thread[t].meta, DOMAIN Shown(k))
  BY <1>1, <1>2, Leaving DEF RepairReadDiffs
<1>3. CASE Needed(thread[t].meta, DOMAIN Shown(k))
  <2>1. thread' = [thread EXCEPT ![t] = r] /\ inProgress' = inProgress
    BY <1>3 DEF RepairReadDiffs
  <2>2. r.at = "parsing" /\ r.job = k /\ r.meta = thread[t].meta /\ r.rows = Shown(k)
    OBVIOUS
  <2>3. k \in inProgress /\ inProgress \in SUBSET Jobs /\ thread[t].meta \in JobRow
    BY <1>1 DEF TypeOK, Repair
  <2>4. Repair(r, inProgress')
    BY <2>1, <2>2, <2>3, ShownNow DEF Repair
  <2>5. \A u \in Threads : thread[u] # Idle /\ thread[u].job = k => u = t
    BY <1>1 DEF Locks
  <2>6. \A u \in Threads : thread[u] # Idle => thread[u].job \in inProgress'
    BY <2>1 DEF TypeOK, Repair
  <2>7. repaired[k] = 0
    <3>1. DOMAIN Shown(k) \cap FixedIds = {}
      BY <1>3, IdFacts, <2>3 DEF Needed, BranchRowsOf
    <3> QED
      BY <2>3, <3>1, ShownNow DEF Once
  <2>8. job[k].version = "legacy" => DOMAIN Recomputed(k, starts) \subseteq DOMAIN r.rows
    BY <2>2, <2>3, ShownNow DEF ShownIds
  <2> HIDE DEF r
  <2> QED
    BY <1>1, <2>1, <2>2, <2>3, <2>4, <2>5, <2>6, <2>7, <2>8, ThreadMoves
<1> QED
  BY <1>2, <1>3

LEMMA GivesUpKeeps ==
  ASSUME IInv, NEW t \in Threads, RepairGivesUp(t)
  PROVE  TypeOK' /\ Locks' /\ Once' /\ Rows' /\ Snapshot'
BY Leaving DEF RepairGivesUp, Idle

LEMMA RestartKeeps ==
  ASSUME IInv, Restart
  PROVE  TypeOK' /\ Locks' /\ Once' /\ Rows' /\ Snapshot'
<1> USE DEF IInv, Restart
<1>1. \A t \in Threads : thread'[t] = Idle /\ thread'[t].at = "idle"
  BY DEF Idle
<1>2. TypeOK'
  BY <1>1, StartFacts DEF TypeOK, Repair
<1>3. Locks' /\ Once' /\ Snapshot'
  BY <1>1 DEF Locks, Once, Snapshot
<1>4. Rows'
  BY DEF Rows
<1> QED
  BY <1>2, <1>3, <1>4

(* What a repair stores: what it was shown, what it found, what is there. *)
LEMMA SaveFacts ==
  ASSUME IInv, NEW t \in Threads, RepairSave(t), NEW k \in Jobs, k = thread[t].job
  PROVE  /\ thread[t].at = "parsing" /\ thread[t] # Idle
         /\ DOMAIN diffs' = Jobs /\ \A j \in Jobs : j # k => diffs'[j] = diffs[j]
         /\ DOMAIN diffs[k] \subseteq DOMAIN diffs'[k] /\ DOMAIN diffs'[k] \subseteq Ids(k)
         /\ \A d \in DOMAIN diffs'[k] : diffs'[k][d] \in Payload
         /\ DOMAIN diffs'[k] \cap FixedIds # {}
<1> USE DEF IInv
<1>1. thread[t].at = "parsing" /\ thread[t] # Idle
  BY DEF RepairSave, Idle
<1>2. PICK found \in (SUBSET FixedIds) \ {{}} :
        diffs' = Upsert(k, Over(thread[t].rows, New(k, "current", found)))
  BY DEF RepairSave
<1> DEFINE new == Over(thread[t].rows, New(k, "current", found))
<1>3. /\ DOMAIN thread[t].rows \subseteq Ids(k)
      /\ \A d \in DOMAIN thread[t].rows : thread[t].rows[d] \in Payload
  BY <1>1 DEF TypeOK, Repair
<1>4. DOMAIN New(k, "current", found) = found /\ \A d \in found : New(k, "current", found)[d] \in Payload
  BY NewFacts
<1>5. /\ DOMAIN new = DOMAIN thread[t].rows \cup found
      /\ \A d \in DOMAIN new : new[d] \in Payload
  BY <1>3, <1>4 DEF Over
<1>6. /\ DOMAIN diffs' = Jobs /\ \A j \in Jobs : j # k => diffs'[j] = diffs[j]
      /\ diffs'[k] = Over(new, diffs[k])
  BY <1>2 DEF Upsert, TypeOK
<1>7. DOMAIN diffs[k] \subseteq Ids(k) /\ \A d \in DOMAIN diffs[k] : diffs[k][d] \in Payload
  BY DEF TypeOK
<1> HIDE DEF new
<1>8. /\ DOMAIN diffs'[k] = DOMAIN new \cup DOMAIN diffs[k]
      /\ \A d \in DOMAIN diffs'[k] : diffs'[k][d] \in Payload
  BY <1>5, <1>6, <1>7 DEF Over
<1>9. found \subseteq Ids(k) /\ found \cap FixedIds # {}
  <2>1. PICK d \in FixedIds : d \in found
    OBVIOUS
  <2> QED
    BY <2>1 DEF Ids
<1> QED
  BY <1>1, <1>3, <1>5, <1>6, <1>7, <1>8, <1>9

LEMMA RepairSaveKeeps ==
  ASSUME IInv, NEW t \in Threads, RepairSave(t)
  PROVE  TypeOK' /\ Locks' /\ Once' /\ Rows' /\ Snapshot'
<1> USE DEF IInv
<1> DEFINE k == thread[t].job
<1>1. thread[t].at = "parsing" /\ thread[t] # Idle
  BY DEF RepairSave, Idle
<1>2. k \in Jobs /\ k \in inProgress
  BY <1>1 DEF TypeOK, Repair
<1>3. \A u \in Threads : thread[u] # Idle => thread[u].job \in inProgress
  BY DEF TypeOK, Repair
<1>4. \A u \in Threads : u # t /\ thread[u] # Idle => thread[u].job # k
  BY <1>1 DEF Locks
<1>5. /\ inProgress' = inProgress \ {k}
      /\ \A u \in Threads : thread'[u] = IF u = t THEN Idle ELSE thread[u]
      /\ DOMAIN thread' = Threads
  BY DEF RepairSave, RepairLeave, TypeOK
<1>6. /\ job' \in [Jobs -> JobRow]
      /\ \A j \in Jobs : j # k => job'[j] = job[j]
      /\ job'[k].version = "current" /\ job'[k].status = "done"
  BY <1>2 DEF RepairSave, TypeOK, JobRow
<1>7. /\ repaired' \in [Jobs -> Nat] /\ repaired'[k] = 1
      /\ \A j \in Jobs : j # k => repaired'[j] = repaired[j]
  BY <1>1, <1>2 DEF RepairSave, TypeOK, Once
<1>8. /\ DOMAIN diffs' = Jobs /\ \A j \in Jobs : j # k => diffs'[j] = diffs[j]
      /\ DOMAIN diffs[k] \subseteq DOMAIN diffs'[k] /\ DOMAIN diffs'[k] \subseteq Ids(k)
      /\ \A d \in DOMAIN diffs'[k] : diffs'[k][d] \in Payload
      /\ DOMAIN diffs'[k] \cap FixedIds # {}
  BY <1>2, SaveFacts
<1>9. said' = said /\ starts' = starts
  BY DEF RepairSave
<1>10. \A u \in Threads : Repair(thread'[u], inProgress')
  <2> SUFFICES ASSUME NEW u \in Threads, u # t, thread[u] # Idle
               PROVE  Repair(thread[u], inProgress')
    BY <1>5 DEF Repair
  <2>1. thread[u].job \in inProgress'
    BY <1>3, <1>4, <1>5
  <2> QED
    BY <2>1 DEF TypeOK, Repair
<1> HIDE DEF k
<1>11. TypeOK'
  BY <1>2, <1>5, <1>6, <1>7, <1>8, <1>9, <1>10 DEF TypeOK
<1>12. Locks'
  BY <1>5 DEF Locks
<1>13. Idle.at # "parsing"
  BY DEF Idle
<1>14. Once'
  <2>1. \A j \in Jobs : /\ repaired'[j] \in {0, 1}
                        /\ repaired'[j] = 1 => DOMAIN diffs'[j] \cap FixedIds # {}
    BY <1>2, <1>7, <1>8 DEF Once
  <2>2. ASSUME NEW u \in Threads, thread'[u].at = "parsing"
        PROVE  repaired'[thread'[u].job] = 0
    <3>1. u # t /\ thread'[u] = thread[u] /\ thread[u].at = "parsing" /\ thread[u] # Idle
      BY <1>5, <1>13, <2>2
    <3>2. thread[u].job # k /\ thread[u].job \in Jobs
      BY <1>3, <1>4, <3>1 DEF TypeOK
    <3> QED
      BY <1>7, <3>1, <3>2 DEF Once
  <2> QED
    BY <2>1, <2>2 DEF Once
<1>15. Rows'
  BY <1>2, <1>6, <1>8 DEF Rows
<1>16. Snapshot'
  <2> SUFFICES ASSUME NEW u \in Threads, thread'[u].at = "parsing",
                      job'[thread'[u].job].version = "legacy"
               PROVE  DOMAIN Recomputed(thread'[u].job, starts') \subseteq DOMAIN thread'[u].rows
    BY DEF Snapshot, Recomputed, New, Fresh
  <2>1. u # t /\ thread'[u] = thread[u] /\ thread[u].at = "parsing" /\ thread[u] # Idle
    BY <1>5, <1>13
  <2>2. thread[u].job # k /\ thread[u].job \in Jobs
    BY <1>3, <1>4, <2>1 DEF TypeOK
  <2> QED
    BY <1>6, <1>9, <2>1, <2>2 DEF Snapshot
<1> QED
  BY <1>11, <1>12, <1>14, <1>15, <1>16

LEMMA StutterKeeps ==
  ASSUME IInv, UNCHANGED vars
  PROVE  TypeOK' /\ Locks' /\ Once' /\ Rows' /\ Snapshot'
<1> USE DEF IInv, vars
<1>1. TypeOK'
  BY DEF TypeOK
<1>2. Locks' /\ Once' /\ Rows' /\ Snapshot'
  BY DEF Locks, Once, Rows, Snapshot, Recomputed, New, Fresh
<1> QED
  BY <1>1, <1>2

LEMMA NextKeeps ==
  ASSUME IInv, [Next]_vars
  PROVE  IInv'
<1>1. TypeOK' /\ Locks' /\ Once' /\ Rows' /\ Snapshot'
  BY CreateKeeps, ProgressKeeps, SaveResultKeeps, MigrateKeeps, ReviewKeeps, EnterKeeps,
     ReadJobKeeps, ReadDiffsKeeps, GivesUpKeeps, RepairSaveKeeps, RestartKeeps, StutterKeeps
     DEF Next, RepairStep
<1>2. SaidIsShown'
  <2> SUFFICES ASSUME NEW j \in Jobs
               PROVE  DOMAIN said'[j] \subseteq DOMAIN Shown(j)'
    BY <1>1 DEF SaidIsShown, TypeOK
  <2> DEFINE both == DOMAIN Shown(j) \cap DOMAIN diffs[j]
  <2>1. both \subseteq DOMAIN Shown(j)'
    BY NothingShownGoes DEF Stays, Unstored
  <2>2. DOMAIN said[j] \subseteq both
    BY DEF IInv, SaidIsShown
  <2>3. ASSUME NEW k \in Jobs, NEW d \in Ids(k), NEW s \in Statuses, Review(k, d, s)
        PROVE  DOMAIN said'[j] \subseteq DOMAIN Shown(j)'
    <3>1. /\ d \in DOMAIN Shown(k) /\ starts' = starts
          /\ said' = [said EXCEPT ![k] = Over([e \in {d} |-> s], said[k])]
      BY <2>3 DEF Review
    <3>2. DOMAIN Over([e \in {d} |-> s], said[k]) = {d} \cup DOMAIN said[k]
      BY DEF Over
    <3>3. DOMAIN Shown(k) \subseteq DOMAIN Shown(k)'
      BY <3>1, NothingShownGoes DEF Stays
    <3> QED
      BY <2>1, <2>2, <3>1, <3>2, <3>3 DEF IInv, TypeOK
  <2>4. (\A k \in Jobs : \A d \in Ids(k), s \in Statuses : ~Review(k, d, s)) => said' = said
    BY DEF Next, RepairStep, Create, Progress, SaveResult, Migrate, RepairEnter, RepairReadJob,
           RepairReadDiffs, RepairGivesUp, RepairSave, Restart, vars
  <2> QED
    BY <2>1, <2>2, <2>3, <2>4
<1> QED
  BY <1>1, <1>2 DEF IInv

-----------------------------------------------------------------------------
(* What the steps do not take away. *)

(* Only the migration gives an old result its new version without storing  *)
(* a repair, and it stores what was shown.                                 *)
LEMMA MigrationIsFaithful ==
  ASSUME IInv, [Next]_vars, NEW j \in Jobs, job[j].status = "done", job[j].version = "legacy",
         job'[j].version = "current", repaired' = repaired
  PROVE  /\ {<<Finding(d), Shown(j)[d]>> : d \in DOMAIN Shown(j)}
              = {<<Finding(d), Shown(j)'[d]>> : d \in DOMAIN Shown(j)'}
         /\ DOMAIN Shown(j) \ Unstored(j) \subseteq DOMAIN Shown(j)'
<1> USE DEF IInv
<1>1. job \in [Jobs -> JobRow] /\ DOMAIN diffs = Jobs /\ starts \in 1 .. MaxStarts
  BY DEF TypeOK
<1>2. ASSUME NEW k \in Jobs, Migrate(k)
      PROVE  starts' \in 1 .. MaxStarts /\ Shown(j)' = ShownBy(j, starts')
  <2>1. j = k
    BY <1>1, <1>2 DEF Migrate
  <2>2. diffs'[j] = ShownBy(j, starts')
    BY <1>1, <1>2, <2>1 DEF Migrate
  <2>3. Shown(j)' = diffs'[j]
    BY DEF Shown, ShownBy
  <2> QED
    BY <1>1, <1>2, <2>2, <2>3, StartFacts DEF Migrate
<1>3. ASSUME NEW k \in Jobs, Create(k) \/ Progress(k) \/ SaveResult(k) PROVE FALSE
  BY <1>1, <1>3 DEF Create, Progress, SaveResult, JobRow
<1>4. ASSUME NEW t \in Threads, RepairSave(t) PROVE FALSE
  <2>1. thread[t].job \in Jobs
    BY <1>4 DEF RepairSave, TypeOK, Repair, Idle
  <2>2. repaired'[thread[t].job] = repaired[thread[t].job] + 1
    BY <1>4, <2>1 DEF RepairSave, TypeOK
  <2> QED
    BY <2>1, <2>2 DEF TypeOK
<1>5. job' # job
  OBVIOUS
<1>6. starts' \in 1 .. MaxStarts /\ Shown(j)' = ShownBy(j, starts')
  BY <1>2, <1>3, <1>4, <1>5 DEF Next, RepairStep, Review, RepairEnter, RepairReadJob,
     RepairReadDiffs, RepairGivesUp, Restart, vars
<1>7. Shown(j) = ShownBy(j, starts)
  BY DEF Shown
<1> DEFINE kept == {d \in DOMAIN diffs[j] : Kind(d) \notin {"numeric", "noise"}}
           d1 == <<j, "recomputed", starts>>
           d2 == <<j, "recomputed", starts'>>
           c == Fresh(j, "current")
           a == ShownBy(j, starts)
           b == ShownBy(j, starts')
<1>8. j \in OldJobs /\ \A d \in DOMAIN diffs[j] : Kind(d) # "recomputed"
  BY DEF Rows
<1>9. /\ Finding(d1) = <<j, "recomputed">> /\ Finding(d2) = <<j, "recomputed">>
      /\ Kind(d1) = "recomputed" /\ Kind(d2) = "recomputed"
  BY <1>1, <1>6, IdFacts
<1>10. DOMAIN Recomputed(j, starts) = {d1} /\ DOMAIN Recomputed(j, starts') = {d2}
  BY <1>1, <1>6, <1>8, RecomputedFacts
<1>11. DOMAIN a = kept \cup {d1} /\ DOMAIN b = kept \cup {d2}
  BY <1>1, <1>6, <1>10, ShownFacts DEF ShownIds
<1>12. d1 \notin DOMAIN diffs[j] /\ d2 \notin DOMAIN diffs[j] /\ kept \subseteq DOMAIN diffs[j]
  BY <1>8, <1>9
<1>13. a[d1] = c /\ b[d2] = c
  BY <1>1, <1>6, <1>11, <1>12, ShownFacts
<1>14. \A d \in kept : a[d] = diffs[j][d] /\ b[d] = diffs[j][d]
  BY <1>1, <1>6, <1>11, <1>12, ShownFacts
<1> HIDE DEF kept, d1, d2, c, a, b
<1>15. {<<Finding(d), a[d]>> : d \in DOMAIN a} = {<<Finding(d), b[d]>> : d \in DOMAIN b}
  BY <1>9, <1>11, <1>13, <1>14
<1>16. Shown(j) = a /\ Shown(j)' = b
  BY <1>6, <1>7 DEF a, b
<1>17. DOMAIN Shown(j) \ Unstored(j) \subseteq kept
  BY <1>11, <1>12, <1>16 DEF Unstored
<1> QED
  BY <1>11, <1>15, <1>16, <1>17

(* A review of an id of its job's own is only overwritten by a review of   *)
(* it or by a repair of its job.                                           *)
LEMMA ReviewStands ==
  ASSUME IInv, [Next]_vars, NEW j \in Jobs, NEW d \in DOMAIN said[j] \ FixedIds,
         diffs[j][d].review = said[j][d], repaired'[j] = repaired[j]
  PROVE  d \in DOMAIN diffs'[j] /\ diffs'[j][d].review = said'[j][d]
<1> USE DEF IInv
<1>1. d \in DOMAIN diffs[j] /\ d \in Ids(j) /\ d \in DOMAIN Shown(j) /\ diffs[j][d] \in Payload
  BY DEF TypeOK, SaidIsShown
<1>a. starts \in 1 .. MaxStarts
  BY DEF TypeOK
<1>2. DOMAIN diffs = Jobs /\ DOMAIN said = Jobs
  BY DEF TypeOK
<1>3. ASSUME diffs'[j] = diffs[j], said'[j] = said[j]
      PROVE  d \in DOMAIN diffs'[j] /\ diffs'[j][d].review = said'[j][d]
  BY <1>1, <1>3
<1>4. ASSUME NEW k \in Jobs, SaveResult(k)
      PROVE  diffs'[j] = diffs[j] /\ said'[j] = said[j]
  <2>1. Kind(d) # "branch"
    BY <1>1, IdFacts DEF Kinds, Found
  <2>2. j # k
    BY <1>1, <1>4, <2>1 DEF SaveResult
  <2> QED
    BY <1>2, <1>4, <2>2 DEF SaveResult, Upsert
<1>5. ASSUME NEW k \in Jobs, Migrate(k)
      PROVE  d \in DOMAIN diffs'[j] /\ diffs'[j][d].review = said'[j][d]
  <2>1. CASE j = k
    <3>1. diffs'[j] = ShownBy(j, starts') /\ said' = said
      BY <1>2, <1>5, <2>1 DEF Migrate
    <3>2. starts' \in 1 .. MaxStarts
      BY <1>a, <1>5, StartFacts DEF Migrate
    <3>3. d \in DOMAIN diffs'[j]
      BY <1>5, <3>1, MigrateKeeps DEF TypeOK
    <3>4. ShownBy(j, starts')[d] = diffs[j][d]
      BY <1>1, <3>1, <3>2, <3>3, ShownFacts
    <3> QED
      BY <3>1, <3>3, <3>4
  <2>2. CASE j # k
    BY <1>2, <1>3, <1>5, <2>2 DEF Migrate
  <2> QED
    BY <2>1, <2>2
<1>6. ASSUME NEW k \in Jobs, NEW e \in Ids(k), NEW s \in Statuses, Review(k, e, s)
      PROVE  d \in DOMAIN diffs'[j] /\ diffs'[j][d].review = said'[j][d]
  <2>1. PICK i \in Jobs :
          /\ e \in DOMAIN diffs[i]
          /\ diffs' = [x \in Jobs |->
               IF e \in DOMAIN diffs[x]
               THEN [diffs[x] EXCEPT ![e] = [diffs[i][e] EXCEPT !.review = s]]
               ELSE diffs[x]]
    BY <1>6 DEF Review
  <2>2. /\ \A x \in Jobs : x # k => said'[x] = said[x]
        /\ said'[k] = Over([x \in {e} |-> s], said[k])
    BY <1>2, <1>6 DEF Review
  <2>3. CASE e = d
    <3>1. k = j
      BY <1>1, <2>3, IdFacts
    <3>2. said'[j][d] = s
      BY <2>2, <2>3, <3>1 DEF Over
    <3>3. diffs[i][e] \in Payload
      BY <2>1 DEF TypeOK
    <3>4. diffs'[j] = [diffs[j] EXCEPT ![d] = [diffs[i][e] EXCEPT !.review = s]]
      BY <1>1, <2>1, <2>3
    <3>5. [diffs[i][e] EXCEPT !.review = s].review = s
      BY <3>3 DEF Payload
    <3> QED
      BY <1>1, <3>2, <3>4, <3>5
  <2>4. CASE e # d
    <3>1. d \in DOMAIN diffs'[j] /\ diffs'[j][d] = diffs[j][d]
      BY <1>1, <2>1, <2>4
    <3>2. said'[j][d] = said[j][d]
      BY <2>2, <2>4 DEF Over
    <3> QED
      BY <3>1, <3>2
  <2> QED
    BY <2>3, <2>4
<1>7. ASSUME NEW t \in Threads, RepairSave(t)
      PROVE  diffs'[j] = diffs[j] /\ said'[j] = said[j]
  <2>1. thread[t].job \in Jobs
    BY <1>7 DEF RepairSave, TypeOK, Repair, Idle
  <2>2. repaired'[thread[t].job] = repaired[thread[t].job] + 1
    BY <1>7, <2>1 DEF RepairSave, TypeOK
  <2>3. j # thread[t].job
    BY <2>2 DEF TypeOK
  <2> QED
    BY <1>7, <2>1, <2>3, SaveFacts DEF RepairSave
<1>8. ASSUME UNCHANGED <<diffs, said>> PROVE diffs'[j] = diffs[j] /\ said'[j] = said[j]
  BY <1>8
<1> QED
  BY <1>3, <1>4, <1>5, <1>6, <1>7, <1>8 DEF Next, RepairStep, Create, Progress, RepairEnter,
     RepairReadJob, RepairReadDiffs, RepairGivesUp, Restart, vars

-----------------------------------------------------------------------------
(* The theorems. *)

(* Types: rows of a job under its ids, payloads, what a repair holds. *)
THEOREM TypeCorrect == Spec => []TypeOK
<1>1. Init => IInv
  BY InitIsRight
<1>2. IInv /\ [Next]_vars => IInv'
  BY NextKeeps
<1>3. IInv => TypeOK
  BY DEF IInv
<1> QED
  BY <1>1, <1>2, <1>3, PTL DEF Spec

(* A job is repaired once, however many pages are polled and services      *)
(* restarted: _REPAIR_IN_PROGRESS, and the branch rows that a repair       *)
(* leaves and nothing takes away.                                          *)
THEOREM JobsAreRepairedOnce == Spec => []RepairedOnce
<1>1. Init => IInv
  BY InitIsRight
<1>2. IInv /\ [Next]_vars => IInv'
  BY NextKeeps
<1>3. IInv => RepairedOnce
  BY DEF IInv, Once, RepairedOnce
<1> QED
  BY <1>1, <1>2, <1>3, PTL DEF Spec

(* No step takes a difference of a finished job from what get_diffs shows; *)
(* ids of stored ones are for good, ids drawn for reading last as long as  *)
(* the process that drew them.                                             *)
THEOREM ShownIsKept == Spec => ShownStays
<1>1. Init => IInv
  BY InitIsRight
<1>2. IInv /\ [Next]_vars => IInv'
  BY NextKeeps
<1>3. IInv /\ [Next]_vars =>
        [\A j \in Jobs : job[j].status = "done" =>
           /\ Findings(Shown(j)) \subseteq Findings(Shown(j)')
           /\ DOMAIN Shown(j) \ Unstored(j) \subseteq DOMAIN Shown(j)'
           /\ starts' = starts => DOMAIN Shown(j) \subseteq DOMAIN Shown(j)']_vars
  BY NothingShownGoes DEF Stays
<1> QED
  BY <1>1, <1>2, <1>3, PTL DEF Spec, ShownStays

(* migrate_legacy_results.py makes permanent what reading showed, under    *)
(* new ids where reading had drawn them.                                   *)
THEOREM MigrationIsExact == Spec => MigrationShowsTheSame
<1>1. Init => IInv
  BY InitIsRight
<1>2. IInv /\ [Next]_vars => IInv'
  BY NextKeeps
<1>3. IInv /\ [Next]_vars =>
        [\A j \in Jobs : job[j].status = "done" /\ job[j].version = "legacy"
                         /\ job'[j].version = "current" /\ repaired' = repaired
           => /\ {<<Finding(d), Shown(j)[d]>> : d \in DOMAIN Shown(j)}
                  = {<<Finding(d), Shown(j)'[d]>> : d \in DOMAIN Shown(j)'}
              /\ DOMAIN Shown(j) \ Unstored(j) \subseteq DOMAIN Shown(j)']_vars
  BY MigrationIsFaithful
<1> QED
  BY <1>1, <1>2, <1>3, PTL DEF Spec, MigrationShowsTheSame

(* Reviews of ids that only one job has outlive results, restarts, the     *)
(* migration, and what happens to other jobs.                              *)
THEOREM ReviewsAreKept == Spec => ReviewsStand
<1>1. Init => IInv
  BY InitIsRight
<1>2. IInv /\ [Next]_vars => IInv'
  BY NextKeeps
<1>3. IInv /\ [Next]_vars =>
        [\A j \in Jobs : \A d \in DOMAIN said[j] \ FixedIds :
           diffs[j][d].review = said[j][d] /\ repaired'[j] = repaired[j] =>
             d \in DOMAIN diffs'[j] /\ diffs'[j][d].review = said'[j][d]]_vars
  BY ReviewStands
<1> QED
  BY <1>1, <1>2, <1>3, PTL DEF Spec, ReviewsStand

=============================================================================
