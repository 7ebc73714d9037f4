------------------------------ MODULE ResultStore ------------------------------
(***************************************************************************)
(* What becomes of a job's differences once the worker has delivered them: *)
(* save_job stores them under the key (job_id, diff_id), get_diffs shows   *)
(* them (and shows results of older releases upgraded, without storing the *)
(* upgrade), reviewers annotate them by diff_id alone, a detail page may   *)
(* repair the branch differences of its job, and an offline script makes   *)
(* the upgrade permanent.                                                  *)
(*                                                                         *)
(* One SQLite transaction is one step.  A repair is three: get_job,        *)
(* get_diffs, and after seconds of parsing PDF files, save_job.            *)
(***************************************************************************)
EXTENDS Naturals, FiniteSets

CONSTANTS
  Jobs,      \* job ids
  OldJobs,   \* the ones an older release finished
  FixedIds,  \* diff ids named after a branch office, the same in every job
  Statuses,  \* what a reviewer can set
  Threads,   \* request threads that may repair
  Group,     \* project group of a job
  MaxStarts  \* bound: processes that read results, one after the other

(* Every other difference has an id of its own, drawn at random by the     *)
(* process that computed it: the worker, 0, or for numeric ones that       *)
(* reading computes anew, "recomputed", the process of that number.        *)
(* "noise" stands for the event and branch differences that the upgrade    *)
(* filters out.                                                            *)
Found == {"numeric", "event", "noise"}
Kinds == Found \cup {"recomputed"}

ASSUME StoreAssumption == /\ OldJobs \subseteq Jobs
                          /\ "pending" \notin Statuses
                          /\ MaxStarts \in Nat \ {0}
                          /\ FixedIds \cap (Jobs \X Kinds \X (0 .. MaxStarts)) = {}

VARIABLES
  job,        \* jobs table
  diffs,      \* diffs table: per job a function from diff ids to payloads
  inProgress, \* _REPAIR_IN_PROGRESS
  thread,     \* what a repairing thread has read so far
  starts,     \* number of the process whose memory reading uses
  said,       \* history: what the reviewers of a job said last about an id
  repaired    \* history: repairs stored for a job

vars == <<job, diffs, inProgress, thread, starts, said, repaired>>

Drawn(j, kinds) == {j} \X kinds \X {0}
Ids(j) == FixedIds \cup Drawn(j, Found) \cup ({j} \X {"recomputed"} \X (1 .. MaxStarts))
Kind(d) == IF d \in FixedIds THEN "branch" ELSE d[2]
BranchRowsOf(ids) == {d \in ids : Kind(d) = "branch"}

(* The rows f, and those of g that f does not have. *)
Over(f, g) == [d \in DOMAIN f \cup DOMAIN g |-> IF d \in DOMAIN f THEN f[d] ELSE g[d]]

(* The Diff in payload_json: the job whose reports it describes, the       *)
(* release that computed it, its review.                                   *)
Payload == [of : Jobs, engine : {"old", "current"}, review : Statuses \cup {"pending"}]
Fresh(j, e) == [of |-> j, engine |-> e, review |-> "pending"]
New(j, e, ids) == [d \in ids |-> Fresh(j, e)]

(* status, result_version below the rebuild floor / below the current one  *)
(* / current, extraction_engine_version, and doubt: the summary has branch *)
(* tables on both sides that hardly align and no branch difference.        *)
JobRow == [status : {"absent", "pending", "done"},
           version : {"legacy", "kept", "current"},
           engine : {"old", "current"}, doubt : BOOLEAN]

(* What a repairing thread holds: nothing, the job it entered, its row,    *)
(* and the differences it was shown.                                       *)
Idle == [at |-> "idle"]
Repair(r, locked) ==
  \/ r = Idle
  \/ /\ r.at \in {"entered", "read", "parsing"} /\ r.job \in locked
     /\ r.at # "entered" => r.meta \in JobRow
     /\ r.at = "parsing" => /\ DOMAIN r.rows \subseteq Ids(r.job)
                            /\ \A d \in DOMAIN r.rows : r.rows[d] \in Payload

TypeOK ==
  /\ job \in [Jobs -> JobRow]
  /\ DOMAIN diffs = Jobs /\ DOMAIN said = Jobs
  /\ \A j \in Jobs : /\ DOMAIN diffs[j] \subseteq Ids(j)
                     /\ \A d \in DOMAIN diffs[j] : diffs[j][d] \in Payload
                     /\ DOMAIN said[j] \subseteq DOMAIN diffs[j]
  /\ inProgress \subseteq Jobs
  /\ DOMAIN thread = Threads /\ \A t \in Threads : Repair(thread[t], inProgress)
  /\ starts \in 1 .. MaxStarts
  /\ repaired \in [Jobs -> Nat]

Init ==
  /\ job \in {f \in [Jobs -> JobRow] :
       \A j \in Jobs : IF j \in OldJobs
                       THEN f[j].status = "done" /\ f[j].version # "current"
                            /\ f[j].engine = "old"
                       ELSE f[j] = [status |-> "absent", version |-> "legacy",
                                    engine |-> "old", doubt |-> FALSE]}
  /\ \E branches \in [OldJobs -> SUBSET FixedIds], kinds \in [OldJobs -> SUBSET Found] :
       /\ \A j \in OldJobs : job[j].doubt => branches[j] = {}
       /\ diffs = [j \in Jobs |->
            New(j, "old", IF j \in OldJobs THEN branches[j] \cup Drawn(j, kinds[j]) ELSE {})]
  /\ inProgress = {}
  /\ thread = [t \in Threads |-> Idle]
  /\ starts = 1
  /\ said = [j \in Jobs |-> [d \in {} |-> "pending"]]
  /\ repaired = [j \in Jobs |-> 0]

-----------------------------------------------------------------------------
(* Reading. *)

(* Numeric differences computed anew from the profile snapshots, which     *)
(* only a finished job has; once per process, which keeps them in memory   *)
(* with the ids it drew for them.                                          *)
Recomputed(j, n) ==
  New(j, "current", IF j \in OldJobs THEN {<<j, "recomputed", n>>} ELSE {})

(* _upgrade_legacy_job: old numeric differences and false positives go. *)
Upgraded(j, n) ==
  LET kept == {d \in DOMAIN diffs[j] : Kind(d) \notin {"numeric", "noise"}}
  IN Over([d \in kept |-> diffs[j][d]], Recomputed(j, n))

(* get_diffs, in the n-th process and in the one that runs. *)
ShownBy(j, n) == IF job[j].version = "legacy" THEN Upgraded(j, n) ELSE diffs[j]
Shown(j) == ShownBy(j, starts)

-----------------------------------------------------------------------------
(* The runner. *)

(* create_job: a pending row with an empty summary, that is version 0. *)
Create(j) ==
  /\ job[j].status = "absent"
  /\ job' = [job EXCEPT ![j].status = "pending"]
  /\ UNCHANGED <<diffs, inProgress, thread, starts, said, repaired>>

(* The emissions of the worker reach the row before its result does; the   *)
(* last one carries the whole summary and the status done.                 *)
Progress(j) ==
  /\ job[j].status = "pending" /\ j \notin OldJobs
  /\ \E s \in {"pending", "done"}, b \in BOOLEAN :
       /\ s = "pending" => ~b
       /\ job' = [job EXCEPT ![j] = [status |-> s, version |-> "current",
                                     engine |-> "current", doubt |-> b]]
  /\ UNCHANGED <<diffs, inProgress, thread, starts, said, repaired>>

(* Mutant: under the key diff_id alone, the row moves to its last writer. *)
UpsertTakesOver(j, rows) ==
  [k \in Jobs |-> IF k = j THEN Over(rows, diffs[j])
                  ELSE [d \in DOMAIN diffs[k] \ DOMAIN rows |-> diffs[k][d]]]

(* INSERT OR REPLACE of rows under the key (job_id, diff_id). *)
Upsert(j, rows) == [diffs EXCEPT ![j] = Over(rows, diffs[j])]

(* save_job of the finished job. *)
SaveResult(j) ==
  /\ job[j].status = "done" /\ j \notin OldJobs
  /\ \A d \in DOMAIN diffs[j] : Kind(d) = "branch"        \* not saved yet
  /\ \E ids \in SUBSET (FixedIds \cup Drawn(j, {"numeric", "event"})) :
       /\ ids \cap Drawn(j, {"numeric", "event"}) # {}
       /\ job[j].doubt \/ DOMAIN diffs[j] # {} => ids \cap FixedIds = {}
       /\ diffs' = Upsert(j, New(j, "current", ids))
  /\ job' = [job EXCEPT ![j].doubt = job[j].doubt \/ DOMAIN diffs[j] # {}]
  /\ UNCHANGED <<inProgress, thread, starts, said, repaired>>

-----------------------------------------------------------------------------
(* submit_review: somebody who looks at job j, of his group, reviews d.    *)
(* The group is checked on one row with that diff_id, one row is read, and *)
(* every row with that diff_id is written; without such a row it is a 404. *)
Review(j, d, s) ==
  /\ job[j].status # "absent" /\ d \in DOMAIN Shown(j)
  /\ \E k \in Jobs : d \in DOMAIN diffs[k] /\ Group[k] = Group[j]
  /\ \E k \in Jobs :
       /\ d \in DOMAIN diffs[k]
       /\ diffs' = [i \in Jobs |->
            IF d \in DOMAIN diffs[i]
            THEN [diffs[i] EXCEPT ![d] = [diffs[k][d] EXCEPT !.review = s]]
            ELSE diffs[i]]
  /\ said' = [said EXCEPT ![j] = Over([e \in {d} |-> s], @)]
  /\ UNCHANGED <<job, inProgress, thread, starts, repaired>>

-----------------------------------------------------------------------------
(* The branch repair, in a request thread. *)

(* Mutant: the marker is not looked at. *)
RepairEnterAnyway(t, j) ==
  /\ thread[t] = Idle
  /\ inProgress' = inProgress \cup {j}
  /\ thread' = [thread EXCEPT ![t] = [at |-> "entered", job |-> j]]
  /\ UNCHANGED <<job, diffs, starts, said, repaired>>

(* _repair_branch_diffs_if_needed: at most one thread per job goes on. *)
RepairEnter(t, j) ==
  /\ thread[t] = Idle
  /\ j \notin inProgress
  /\ inProgress' = inProgress \cup {j}
  /\ thread' = [thread EXCEPT ![t] = [at |-> "entered", job |-> j]]
  /\ UNCHANGED <<job, diffs, starts, said, repaired>>

RepairLeave(t) ==
  /\ thread' = [thread EXCEPT ![t] = Idle]
  /\ inProgress' = inProgress \ {thread[t].job}

(* get_job: the row with its summary upgraded. *)
RepairReadJob(t) ==
  /\ thread[t].at = "entered"
  /\ LET j == thread[t].job IN
     IF job[j].status = "absent" THEN RepairLeave(t)
     ELSE /\ thread' = [thread EXCEPT ![t] = [at |-> "read", job |-> j, meta |-> job[j]]]
          /\ UNCHANGED inProgress
  /\ UNCHANGED <<job, diffs, starts, said, repaired>>

(* _branch_repair_needed. *)
Needed(meta, ids) == meta.status = "done" /\ meta.doubt /\ BranchRowsOf(ids) = {}

(* get_diffs, and the decision. *)
RepairReadDiffs(t) ==
  /\ thread[t].at = "read"
  /\ LET j == thread[t].job IN
     IF Needed(thread[t].meta, DOMAIN Shown(j))
     THEN /\ thread' = [thread EXCEPT ![t] = [at |-> "parsing", job |-> j,
                                              meta |-> thread[t].meta, rows |-> Shown(j)]]
          /\ UNCHANGED inProgress
     ELSE RepairLeave(t)
  /\ UNCHANGED <<job, diffs, starts, said, repaired>>

(* The parsing found nothing, the files are gone, or something raised. *)
RepairGivesUp(t) ==
  /\ thread[t].at = "parsing"
  /\ RepairLeave(t)
  /\ UNCHANGED <<job, diffs, starts, said, repaired>>

(* save_job of what was read before the parsing, and of what was found. *)
RepairSave(t) ==
  /\ thread[t].at = "parsing"
  /\ LET j == thread[t].job IN
     /\ \E found \in (SUBSET FixedIds) \ {{}} :
          diffs' = Upsert(j, Over(thread[t].rows, New(j, "current", found)))
     /\ job' = [job EXCEPT ![j] = [status |-> "done", version |-> "current",
                                   engine |-> "current", doubt |-> FALSE]]
     /\ repaired' = [repaired EXCEPT ![j] = @ + 1]
  /\ RepairLeave(t)
  /\ UNCHANGED <<starts, said>>

(* The service stops and starts: a repair leaves nothing behind, and what  *)
(* was computed for reading is gone from memory.                           *)
Restart ==
  /\ starts < MaxStarts /\ starts' = starts + 1
  /\ inProgress' = {}
  /\ thread' = [t \in Threads |-> Idle]
  /\ UNCHANGED <<job, diffs, said, repaired>>

-----------------------------------------------------------------------------
(* Mutant: the upgraded rows are written over the old ones. *)
MigrateUpserts(j) ==
  /\ inProgress = {}
  /\ job[j].status # "absent" /\ job[j].version = "legacy"
  /\ starts < MaxStarts /\ starts' = starts + 1
  /\ diffs' = [diffs EXCEPT ![j] = Over(ShownBy(j, starts'), diffs[j])]
  /\ job' = [job EXCEPT ![j].version = "current"]
  /\ UNCHANGED <<inProgress, thread, said, repaired>>

(* Mutant: the upgraded rows replace the old ones unreviewed. *)
MigrateForgets(j) ==
  /\ inProgress = {}
  /\ job[j].status # "absent" /\ job[j].version = "legacy"
  /\ starts < MaxStarts /\ starts' = starts + 1
  /\ diffs' = [diffs EXCEPT ![j] = New(j, "old", DOMAIN ShownBy(j, starts'))]
  /\ job' = [job EXCEPT ![j].version = "current"]
  /\ UNCHANGED <<inProgress, thread, said, repaired>>

(* migrate_legacy_results.py, a process of its own that runs while the     *)
(* service is stopped: what reading shows it replaces what is stored.      *)
Migrate(j) ==
  /\ inProgress = {}
  /\ job[j].status # "absent" /\ job[j].version = "legacy"
  /\ starts < MaxStarts /\ starts' = starts + 1
  /\ diffs' = [diffs EXCEPT ![j] = ShownBy(j, starts')]
  /\ job' = [job EXCEPT ![j].version = "current"]
  /\ UNCHANGED <<inProgress, thread, said, repaired>>

-----------------------------------------------------------------------------
RepairStep(t) ==
  \/ \E j \in Jobs : RepairEnter(t, j)
  \/ RepairReadJob(t) \/ RepairReadDiffs(t) \/ RepairGivesUp(t) \/ RepairSave(t)

Next ==
  \/ \E j \in Jobs : Create(j) \/ Progress(j) \/ SaveResult(j) \/ Migrate(j)
  \/ \E j \in Jobs : \E d \in Ids(j), s \in Statuses : Review(j, d, s)
  \/ \E t \in Threads : RepairStep(t)
  \/ Restart

Spec == Init /\ [][Next]_vars

-----------------------------------------------------------------------------
(* Properties. *)

(* A difference whatever id it was given, and the ones on show that are    *)
(* not stored: their ids are those of the process that shows them.         *)
Finding(d) == IF d \in FixedIds THEN d ELSE <<d[1], d[2]>>
Findings(rows) == {Finding(d) : d \in DOMAIN rows}
Unstored(j) == DOMAIN Shown(j) \ DOMAIN diffs[j]

(* A difference that a finished job shows is shown for good: no other      *)
(* job's result, no repair, no restart, no migration takes it away. It     *)
(* keeps its id too, for good once it is stored, and otherwise as long as  *)
(* the process lasts.                                                      *)
ShownStays ==
  [][\A j \in Jobs : job[j].status = "done" =>
       /\ Findings(Shown(j)) \subseteq Findings(Shown(j)')
       /\ DOMAIN Shown(j) \ Unstored(j) \subseteq DOMAIN Shown(j)'
       /\ starts' = starts => DOMAIN Shown(j) \subseteq DOMAIN Shown(j)']_vars

(* However many detail pages are polled while a repair parses, and however *)
(* often the service is restarted meanwhile, a job is repaired once.       *)
RepairedOnce == \A j \in Jobs : repaired[j] <= 1

(* The migration stores exactly what reading showed before, reviews        *)
(* included, under the ids it had, except that numeric differences which   *)
(* reading had computed anew get other ids.                                *)
MigrationShowsTheSame ==
  [][\A j \in Jobs : job[j].status = "done" /\ job[j].version = "legacy"
                     /\ job'[j].version = "current" /\ repaired' = repaired
       => /\ {<<Finding(d), Shown(j)[d]>> : d \in DOMAIN Shown(j)}
              = {<<Finding(d), Shown(j)'[d]>> : d \in DOMAIN Shown(j)'}
          /\ DOMAIN Shown(j) \ Unstored(j) \subseteq DOMAIN Shown(j)']_vars

(* A review of a difference whose id is its job's own stands, through the  *)
(* result of its job, other jobs' results, reviews and repairs, restarts   *)
(* and the migration, until the next review of it or a repair of its job.  *)
ReviewsStand ==
  [][\A j \in Jobs : \A d \in DOMAIN said[j] \ FixedIds :
       diffs[j][d].review = said[j][d] /\ repaired'[j] = repaired[j] =>
         d \in DOMAIN diffs'[j] /\ diffs'[j][d].review = said'[j][d]]_vars

(* A job's rows describe that job, and only its own reviewers write there. *)
RowsAreOwn ==
  \A j \in Jobs : \A d \in DOMAIN diffs[j] :
    /\ diffs[j][d].of = j
    /\ diffs[j][d].review # "pending" => d \in DOMAIN said[j]

=============================================================================
