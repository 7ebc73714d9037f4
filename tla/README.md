# A model of the A+H Consistency Checker (AHCC)

AHCC compares the A-share and the H-share annual report of a company (or the
Chinese and the English version of an H-share report) and lists the places
where they disagree. A FastAPI service accepts two PDF files, runs one worker
process per job, keeps jobs, differences and reviews in SQLite, and serves a
React interface and generated reports. This directory holds TLA+ models of the
service, its storage and its checks, the TLC runs that check them on small
instances, and the TLAPS proofs of the theorems that matter most.

## 1. Inventory of the system

| Component | State it keeps | Operations | Talks to |
|---|---|---|---|
| Job runner `api/job_runner.py` | one asyncio semaphore per event loop, `_running_job_id`, `_queued_job_ids`, one `run_job` task per job | queue, spawn, poll every 2 s, kill on timeout or lost heartbeat, persist progress and result | worker (files, process), repository |
| Worker `worker.py` | `progress.json`, `result.json`, `heartbeat.json` in the job's directory | heartbeat thread, progress callback, result | orchestrator, job runner |
| API start, stop, sweep `api/main.py` | the sweep task | lifespan, `_cleanup_orphan_workers`, sweep every 60 s | repository, worker processes |
| Repository `storage/repository.py` | tables jobs, diffs, reviews, users, groups, sessions; the upgrade of old results on load; a cache of recomputed numeric differences | save, load, review, mark failed, register, log in, switch group | SQLite |
| Schema `storage/models.py` | `_ensured_paths`, the schema itself | create, migrate, seed demo accounts, rename them | SQLite |
| Job routes `api/routes_job.py` | uploads, report files, per-job repair locks | create, detail, differences, report download, branch repair | runner, repository, reports |
| Account routes `api/routes_{auth,user,groups}.py`, `auth.py`, `api/deps.py` | cookies | register, login, logout, switch and join groups | repository |
| Orchestrator `orchestrator.py` | the Job being filled | parse, profile, check, deduplicate, report; `_safe_check`; progress emissions | parsers, checks, reports |
| LLM client `llm/client.py` | cache directory, failures and calls per job | cached_call, retries | external services |
| Checks `check/*`, profiles `profile/*`, tables `table/*` | none | compare two parsed reports | orchestrator |
| Parsers `parser/*` | parse caches, OCR budgets | PDF and HTML to text and tables | PyMuPDF, pdfplumber, OCR |
| Reports `report/*` | report files | Excel, PDF, HTML | |
| Interface `ui-new/src` | poll timers | submit, poll, review, download | API |

What is hard in it: `run_job` tasks interleave at every `await` and share the
semaphore, the queue list and one slot variable; the worker is another process
that communicates through files and may hang or die at any instant; the service
itself stops and starts, and its memory (semaphore, queue, tasks, caches) is lost
while rows, files and workers survive; the supervisor, the heartbeat, the job
timeout and the minute sweep are four clocks that must not contradict each other;
rows are written as a whole by several writers; requests of several browsers are
sequences of transactions that interleave; the migrations commit statement by
statement; and the checks are chains of greedy matchings, thresholds, vetoes and
budgets, where an altered amount is easily swallowed and a number that a report
repeats is easily taken for a contradiction. `PROJECT.json` lists each of these
hazards at its line.

What makes each component correct:

- runner: permits are conserved, admission is first come first served, what is
  shown as the queue is the queue, every job ends, a failed job stays failed, a
  stored result stays stored;
- worker and orchestrator: a check that raises costs nobody else's findings and
  is told in the summary, the report shows the job that is returned, the files
  follow the order that the runner relies on, duplicates are dropped only for
  something that stays;
- startup and sweep: only jobs that nobody supervises are failed, and all of them;
- repository, reviews, repair, migration: a review is never lost or attached to
  another job's difference, a difference that is shown is not taken away, a
  migration that is killed leaves the rows somewhere;
- accounts: a request acts only in groups its user belongs to, a group name is
  one group, renames leave a person one account;
- caches and files: a failed call is not remembered as an answer, nobody works
  with half a file, expensive work is done once;
- checks: two equal reports have no contradictions, one alteration is told by the
  check it is in the reach of, like is compared with like, no budget drops what
  matters most.

## 2. Modules, and how they correspond to the code

```
            BoundedExecutor            WorkerContract
                   ^ implements              ^ implements
  Supervision ...> JobRunner  <... Orchestrator <... FindingChain
   (its times)        |  runs one per job   |         (its Settle step)
                      v save_job            v the findings of its steps
                 ResultStore              Checks
   Accounts   (who may ask)                 |- NumericCheck  KeyMetricTamper  Twins
   Caches     (files and caches             |- BilingualFacts - BilingualReview
               next to all of them)         |- BilingualPairing  EventCoverage
                                            '- Extraction - Profiles
                                               all over Matching and Columns
```

| Module | Models | Code |
|---|---|---|
| `JobRunner` | queue, supervision, workers, rows, stop and start of the service | `job_runner.py`, `worker.py`, `main.py`, the writers of `jobs` |
| `BoundedExecutor` | what the runner promises | abstract |
| `Supervision` | the clocks around one job | `job_runner.py`, `worker.py`, `main.py`, the sweep |
| `Orchestrator` | one run of the pipeline in a worker | `orchestrator.py` |
| `WorkerContract` | what the runner relies on in a worker's files | abstract |
| `FindingChain` | the six passes over the findings | `orchestrator.py` |
| `ResultStore` | differences, reviews, repair, upgrade, migration | `repository.py`, `routes_review.py`, `routes_job.py`, `migrate_legacy_results.py` |
| `Accounts` | users, groups, sessions; the schema at start | `repository.py`, `models.py`, `auth.py`, account routes |
| `Caches` | answers, parses, numeric differences, reports, uploads | `client.py`, `pdf_h_html.py`, `repository.py`, `routes_job.py` |
| `Checks` | one call of one check on a pair of small reports | how `orchestrator.py` calls them |
| `Matching` | ranked greedy matchings | the loops of `numeric.py`, `bilingual.py`, `coverage.py`, `positional_value_twin.py` |
| `NumericCheck` | candidates, scores, currency factor, findings of a metric | `check/numeric.py` |
| `KeyMetricTamper` | compatibility and reconciliation of a key, page budget, what vision sees | `check/key_metric_tamper.py` |
| `BilingualFacts`, `BilingualReview`, `BilingualPairing` | facts and their findings; what is made of the model's answers; which block is which | `check/bilingual.py` |
| `EventCoverage` | events of the two reports and their differences | `check/coverage.py` |
| `Twins` | row twins, branch table and its alignment, numbers by their place, overlays | `table_row_twin.py`, `branch_disclosure.py`, `table_row_align.py`, `positional_value_twin.py`, `text_overlay_tamper.py` |
| `Columns` | header rows, periods and kinds of columns | `table/*` |
| `Extraction`, `Profiles` | metrics, narratives, structure; the comparison of two profiles | `profile/*` |
| `*_proofs` | theorems; those of `Supervision` stand in `JobRunner_proofs`, those of `Checks` in `Checks_proofs` and `Alterations_proofs` | |
| `MC*` | instances for TLC | |

### JobRunner

An action runs from one `await` of the event loop to the next, so that whatever
may interleave does. `permits`, `waiters` and `woken` are the fields of
`asyncio.Semaphore` as the library implements it: `release` hands a permit to the
first waiter that has none (`Leave`), the waiter takes it later (`Resume`) and
hands on what was freed meanwhile, and `locked()` is also true when somebody
waits. `queued` is `_queued_job_ids`, `slot` is `_running_job_id`, `ready` the
tasks the loop has not started. `task[j]` is where `run_job` stands, `worker[j]`
where the process stands, `progress`, `unread`, `result`, `heartbeat` its files,
`row[j]` the jobs row: its status (the five running statuses are two here) and
whether it holds the finished Job rather than a progress record.

`run_job` is `StartNow` or `StartQueued` and `Resume`, then `Spawned` or
`SpawnFailed`, rounds of `Poll`, and one of `WorkerGone`, `PollKill` + `Reaped`.
Each access to the database may fail, at most `MaxFaults` times in all; the writes that close
a job and the handlers that follow one another when they raise are `Settle`. The
worker is `Boot`, `Beat`, `Emit`, `Conclude`/`ConcludeUnseen`, `WriteResult`,
`Exit`, and `Die` anywhere; it hangs by taking no step. `Stop` loses what is memory,
`Restart` is `lifespan` with `_cleanup_orphan_workers`, with or without psutil. Its
reading of the interrupted rows may fail too: `_mark_running_jobs_failed` takes a locked
table for one without such rows (`repository.py:899`), so that the service comes up with
every row as it was; any other error leaves `lifespan`, and the service stays down until it
is started again.

`Executor` maps the line (waiters without a permit, then unstarted tasks) and the
active jobs (inside the semaphore, or handed a permit) to `BoundedExecutor`.

### Supervision

JobRunner lets a timeout strike whenever it likes and assumes that the sweep never
meets a row whose supervisor is at work. Supervision has the times: ages of the
process, the heartbeat file, the last emission, the row's `last_progress_at`, and
the pauses of poll and sweep. `Tick` lets time pass except when a step is due, so
each delay is the one of its constant. A round of the sweep reads the table (`SweepRow`)
or is lost (`LoseRound`): to a locked table, which counts as one without rows, or to an
exception, which the loop swallows (`main.py:93`); `lost` counts the rounds lost in a row,
and the wait for a lock (30 s, `models.py:117`) is part of the pause. `SweepSparesSupervised` is the assumption
JobRunner makes.

### Orchestrator and WorkerContract

`at` is where `run()` stands, `side` the two threads that parse and profile, `step`
what became of each check. The checks of the gather are busy together and end, raise
or lose LLM calls in any order; `StepRaises` is `_safe_check` with its emission and
warning; every other exception is `Fail`. A call is lost in one of two ways: it comes back
blank and is recorded (`CallFails`), or `cached_call` itself raises, because a stored answer
cannot be read or written. Then it ends its step, or the step is one of `Swallowing` (accounting
standards, the Chinese and English comparison, charts), which log a line and go on
(`CallRaises`). `asked` and `broken` are the history of both. `off` are the steps a setting switches
off, `mode` the two pipelines. A finding is the name of the check that found it.
`Settle` collects them, turns failed calls into a warning and fills the summary,
`WriteReport` writes what the job is at that moment. `KeepsContract` maps progress
file and returned status to `WorkerContract`, whose three actions are the
`Emit`, `Conclude` and `ConcludeUnseen` of JobRunner's workers: what JobRunner
assumes of a worker is what Orchestrator does.

### FindingChain

Orchestrator's `Settle` in detail: overlay shadows, identical markers, row twins, cross-rule
duplicates, identical markers again, the budget of unresolved findings, and the
filter for one file compared with itself. A finding keeps rule, triage, scope,
severity, key, amounts and the pages of its evidence. The list holds positions of
the input, since the code compares objects by identity. Amounts are integers, so
what the code compares within 1e-6, or after rounding to four digits, is compared
exactly; the 1e-4 of the cross-rule pass is kept.

### ResultStore

`diffs[j]` is the table's rows of a job under the key `(job_id, diff_id)`. Most ids
belong to one job; branch differences are named after the branch office (`FixedIds`)
and so shared between jobs. Every other id is drawn at random where the
difference is computed, so an id is a triple: job, kind, and who drew it, the worker (0) or,
for a recomputed difference, the n-th process that reads results. `Upgraded` is the upgrade
of old results at reading: it drops old numeric differences and false positives, adds
recomputed ones under the ids the process drew (`Recomputed`; it keeps them in
`_NUMERIC_DIFF_CACHE` as long as it lasts), stores nothing. `starts` numbers the process:
`Restart` begins the next one at any time, and `Migrate` is one of its own, which stores
what it shows under the ids it drew itself. `Review` follows the statements of `save_review`: the group of any row with
that id, one row read, all rows with that id written. The repair of branch differences is
one action per transaction, with the PDF parsing between reading and saving. `Repair` is what
a thread holds on the way (`entered`, `read`, `parsing`), `inProgress` is
`_REPAIR_IN_PROGRESS`. `said` and `repaired` are history for the properties.

### Accounts

`groups`, `last`, `members`, `session` and `owner` are the rows of the account
tables and of `jobs.owner`; `last[u]` is the last active group of an account and
`None` where there is none. A request is `req[b]`: the look-up of the group, its
insertion (with the second look that `IntegrityError` forces), the user with the
membership, the session are transactions of their own, and two browsers' requests
interleave between them. `Slug` and `Fold` are slugify and NOCASE as functions on
the typed names; a slug that another name took gets a random id from `FreshIds`.
A start is `StartSchema`, the four statements that rebuild `diffs` under its
composite key (`CreateCopy`, `FillCopy`, `DropOld`, `RenameCopy`, each committed on
its own), and `UpdateAccounts`: the rename chain folded over the tables, the demo
accounts seeded, the rest backfilled. `Stop` kills the service anywhere, in a start
too. `Resolve` is the group a request ends up acting in.

### Caches

One key of each cache, and callers that may be threads or processes. A file written
in place is `half` between open and close. `Ask` .. `FillAnswer` is `cached_call` with
its retries, where a failed call is put on record (`Recorded`) for the callers in `InJob`
only: `_current_job_id` is set by `Orchestrator.run` in a worker and nowhere else, so that the
service, which recomputes numeric differences, records nothing; `LoadParse` .. `FillParse` the parse cache of H-share PDFs;
`LookNumeric` .. `ComputeNumeric` the doubly checked cache of numeric differences with
its lock per job; `LoadJob` .. `Stream` the regeneration of a report into a file of its
own and the rename over the old one; `StartUpload` .. `UploadBreaks` the two files of
`create_job` with its refusals and errors. `Again` lets a caller be killed in mid
write, `Restart` kills the threads of the service together.

### Checks and its parts

Each check is a function from two parsed reports to findings, and `Checks` runs one
of them once: the action `Run...` picks an input, `found` is what the code returns,
the properties relate the two. The `Run` actions build their inputs the way the
hazards need them: two lists of occurrences; a report and its copy with one amount
altered; a page with numbers retyped, exchanged, or laid over others; two texts that
mention the same facts in other units and currencies.

The patterns of the checks (hundreds of regular expressions over Chinese and English
text) are data here: a cell, a token or a text is the set of words the patterns find
in it, a section or a role is a name. What is kept is what the code does with that:
every guard, veto, threshold, order and budget. Scores and confidences are integers
(per cent or thousandths), amounts are integers, and a comparison `|a-b| <= p*max` is
multiplied out. Where the code sorts and takes greedily, `Matching!Ranked` and
`Matching!Greedy` do. A loop that carries something along a list is a recursive function; one
that keeps some of the elements is a selection of their places (`Matching!Picked`).

- `NumericCheck`: buckets and filters of occurrences (`Candidates`), `Score` and its
  parts, the inferred currency `Factor`, one to one assignment (`Assigned`), the best
  leftover pair per key and its verdict (`Diffs`).
- `KeyMetricTamper`: roles, scopes and periods of an occurrence, `Explains`, the
  reconciliation of a whole key, which pages vision gets to see under which mode and
  budget, and the visual checks against the text layer.
- `BilingualFacts`: how mentions become facts, which two may be one (`Fits`), `FactScore`, `FactPairs`, and which
  pairs become findings of which severity. `BilingualReview`: what is kept, merged or
  replaced when the model answers for a batch, answers badly, or fails.
  `BilingualPairing`: scores of paragraphs and tables, the global matching and the
  greedy rounds after it, missing sections, paragraphs, tables and rows.
- `EventCoverage`: the gates before two events may be one, the score, what then differs.
- `Twins`: tables of the same rows (`RowTwins`, with the search for a unit factor and
  for a permuted column), branches (`BranchDiffs`, with the alignment that withholds
  them), numbers at one place on a page (`PositionTwins`), numbers on top of numbers
  (`Overlays`).
- `Columns`: `HeaderRows`, `ColumnKey`, `Pairable`. `Extraction` builds on it: items of
  table rows, of sentences, of rows of tables that survive as text, overlays; then
  arbitration (`Resolved`, `Deduped`), the cap with its rounds over the pages
  (`Diverse`), contradictions of a report with itself (`Conflicts`). `Profiles` adds
  narratives and structure and compares two profiles.

## 3. Runs

All runs say `CHECK_DEADLOCK FALSE`: every job may be over, a finite run of
submissions or requests ends, a check ends, and that is where the system stops.
What must not stop early is said by the liveness properties.

| Run | Shows | Bounds, and why they are enough |
|---|---|---|
| `jobs_safety` | seven properties of semaphore, queue, rows, processes | 3 jobs, 2 permits: one inside, one woken, one arriving. `OneMishap`: one failing access or one stop; beyond that, as in a start on a locked table, no job is admitted any more. Jobs are symmetric. |
| `jobs_queue` | JobRunner implements BoundedExecutor | 5 jobs, 2 permits: two inside, one woken, one queued, one arriving. `MuteWorkers`: workers write no file, which the queue never looks at. |
| `jobs_live` | every job settles, every permit comes back; exact slot | 2 jobs, 1 permit, 2 failing accesses, 1 stop, no psutil: both closing writes of one job may raise, or one of each, or a write and the start after a stop, or two starts. |
| `clocks` | the sweep spares supervised jobs and gets the others in time, permits return in time, no beating worker is lost | poll 1, kill 1, boot 2, beat 1, stale heartbeat 3, timeout 5, margin 2, sweep 2: the order of the real values (2 s, 10 s, -, 5 s, 300 s, 1800 s, 120 s, 60 s) where the assumptions need it, and the margin as tight as the assumption allows. Up to 2 rounds of the sweep are lost in a row. `WithinHorizon` ends the clock after every deadline was passed. |
| `store` | one repair, shown stays shown, migration, reviews stand | 2 jobs of one group, one old, one shared id, 2 symmetric threads, 3 processes (`MaxStarts`): a service, the one after a restart, and the migration, so that ids are drawn three times. `OneJobRepaired`: repairs race for one job at a time; `MigrationIsLast`: the third process is the migration, or finds old results current. |
| `store_crossjob` | violated: rows are a job's own | 2 jobs in 2 groups |
| `pipeline` | failures told, findings survive, report is the result, contract | four checks of the gather and every later one, both modes, settings on and off: several raise together while others are busy. `SomeAsk`: two steps that end when a call raises, two that swallow it. |
| `chain` | no place twice, nothing lost, fair budget | every list of up to 5 of 14 finding shapes, budget 1: chains of duplicates in which the middle one goes. |
| `accounts` | own groups only, one group per name, one account per person, no rows lost | 2 symmetric browsers, 3 changing requests, a person with two retired names and today's one, 4 group names of which two fold together and three share a slug, 2 random ids: a registration races another of the same name, a start is killed anywhere. |
| `caches` | no failure becomes an answer, no half file is used, one computation | 3 callers, 2 attempts, 1 empty answer: one writes, one reads, one comes late. One of them has no key, one of those with a key works outside a job. |
| `checks` | fair pairs, no self-contradiction, alterations told, like with like, budgets | see below |
| `checks_rows` | violated: the numbers of paired rows are compared | the tables of `checks` |

Fairness (`FairSpec` of JobRunner, in `jobs_live` only): a task the event loop can
run is run (`LoopStep`), a worker that does not end is overdue one day (`PollKill`,
since timeout and stale heartbeat are both finite), the sweep runs every minute
while the service is up and not all of its rounds are lost, and a service that stopped is
started again until it comes up. Nothing is assumed of workers or submissions, and of the
database only that it does not fail for ever (`MaxFaults`). `EveryJobSettles` has one
exception, `PassedOver`: a pending row which nobody works on, where the write or the start
that should have closed it failed. The sweep skips pending rows (`repository.py:868`), so
it stays until a later start reads the table.

**The bounds of `checks`.** Inputs are lists of one or two items (three or four where a
majority or a median counts), over ten or fewer shapes each, chosen so that every veto
and both sides of every threshold occur. Limits that the code sets in tens or hundreds
are scaled down so that such lists reach them:

| Module | Scaled constant: model value (code) |
|---|---|
| `KeyMetricTamper` | front pages 2, pages of strict mode 4, smart pages 3, budgets 2 and 3, differences per key 2, forced reviews 1 |
| `BilingualPairing` | thresholds of the pair score 6 and 3, candidates 2 |
| `BilingualReview` | pairs 2, batch 1 |
| `EventCoverage` | scores in thousandths: match 420, difference 650, margin 120 (those of the code) |
| `Extraction`, `Profiles` | occurrences per key 3, values per row 2, conflicts 2, reach of a label 3 tokens |
| `Twins` | common keys 3, anchors 3 of 4, differences per table 1 and per job 3, least amount 10, round amounts are tens, rows 3, per page 2 |

A limit is a constant of the module, so nothing else changes with it.

### Disagreements the runs show

- `store_crossjob`: reviews go by `diff_id` alone (`repository.py:1671`), while the
  schema says that ids are unique within a job only (`models.py:56`).
- `checks_rows`: `_compare_row_facts` (`bilingual.py:2643`) builds its pair without
  `alignment_confidence` and `_has_shared_entities`; `_fact_diffs` takes 0.5 and no shared
  entity for it and skips it (`bilingual.py:3030`). So the numbers of paired rows are
  never compared, which the docstring says they are.

### Disagreements met without a run

Service:

- The worker's DONE progress becomes the row's status before its result is read; a
  service that stops in between leaves a done row without a result, which the next
  start does not look at (`repository.py:916`; `repository.py:844` speaks of every lost job).
- With more than one permit the job that leaves clears the slot of one that runs
  (`job_runner.py:162`); the default of `job_max_concurrency` is 3. The property
  `RunningSlotHonest` is checked with one permit.
- The sweep skips pending rows (`repository.py:868`), so that the pending row of a
  supervisor that died, or of a start that found the table locked (`repository.py:899`), stays
  until the next start, although `mark_interrupted_running_jobs_failed` speaks of every lost
  job. `EveryJobSettles` names it (`PassedOver`).
- Without psutil the cleanup returns at the first heartbeat file and orphans go
  on (`main.py:121`). A `kill` that takes longer than ten seconds is given up
  (`job_runner.py:318`); the models assume that it works. The age of a heartbeat is
  wall clock minus mtime (`job_runner.py:309`): after the machine slept every worker
  looks stale. A progress write that fails counts as seen (`job_runner.py:297`).
- A report builder that raises (`orchestrator.py:999`) is warned about after the summary
  was settled (`orchestrator.py:211` says that failed steps are told), so the warning
  reaches nobody. When one side fails, the job is failed while the thread of the other
  side goes on (`orchestrator.py:85`).

Storage:

- A repair saves what it read seconds before and undoes a review made meanwhile
  (`routes_job.py:431`, `repository.py:1662`). A repair of an old result upserts, and the
  rows that reading hid are shown from then on; `migrate_legacy_results.py:120` explains why it
  must not upsert. It marks a result as the current engine's (`routes_job.py:463`) and
  stores the profiles and coverage it read before.
- Recomputed numeric differences of an old result are shown but stored nowhere, so
  that reviewing one answers 404 (`repository.py:672`). Each process draws new ids for them
  (`numeric.py:171` and five more places, `repository.py:45`): the ids on show change at every
  restart and once more at the migration, whose docstring says that what it writes back must
  be what the interface shows today (`migrate_legacy_results.py:87`). `ShownStays` and
  `MigrationShowsTheSame` hold of the differences, and of the ids of those that are stored.
- A crash between creating `diffs_v2` and dropping `diffs` makes every later start fail;
  one between dropping and renaming leaves the rows in `diffs_v2` only
  (`models.py:447`). `RowsAreSomewhere` holds all the same: nothing is lost.
- A retired account name that is registered anew is deleted at the next start, its jobs
  keep an owner that is gone. `register` leaves a group without members when the user
  name turns out to be taken. `switch_active_group` also moves the user's other sessions
  that have no active group.
- A half-written answer in the LLM cache makes `cached_call` raise from then on
  (`client.py:289`), and so does an answer that cannot be written; `client.py:206` says that
  failures are recorded per job so that none is silent any more. Such a call is on no record; the
  steps that swallow it (`standard.py:64`, `qwen_vl.py:78`, `bilingual.py:906` and 1705)
  leave a line in the log, and the fact comparison the number of pairs it did not check.
  A failed call outside a job, as in the recomputation of numeric differences by the service
  (`repository.py:706`), is on no record either (`client.py:238`). An empty answer `{}` is cached
  (`client.py:310`). Two downloads that regenerate a report may stream an older version
  than the newest. Uploads are removed on `HTTPException` only (`routes_job.py:155`).

Passes over the findings:

- `orchestrator.py:381` says that the row twin with more evidence is kept; the twin is
  kept always. It also speaks of rounding to the integer; the code rounds to hundreds.
- The filter for one file (`orchestrator.py:182`) comes after the budget, so that
  findings it removes may have displaced others; merging identical markers ignores
  triage, side and page (`orchestrator.py:590`), which `Mixed` names.

Checks (the properties name what is out of their reach because of these):

- `key_metric_tamper.py`: a seen value that equals its text is rejected as not comparable
  (858-895), and then matched with another item within 10 %: a high finding about a value
  that is right. Markers of visual findings have no side. Late priority pages are kept and
  then dropped by the budget (520-525). A key that is fully reconciled can still give low items.
- `table_row_twin.py`: with 8 or 9 common keys one altered amount makes the anchor ratio
  fall below 0.9, and the table is not compared; `AlterationIsTold` says nothing of tables that short. Candidates with equally many labels go by
  the order of a set of strings. At most ten tables are tried for one of A (360), a
  limit that the model leaves out. Groups are named by page. Rows whose count differs and
  branch tables with fewer than 60 % of names in common are skipped without a word.
- `positional_value_twin.py`: the docstring says 8 pairs a page and 40 a job, the code 4 and
  90. A page with less than nine tenths of its numbers paired is not compared.
- `extract_metrics.py`: one binding per page and value regardless of the label;
  `_raw_table_value_tokens` stops at the next label only after a value was read; conflicts are
  capped at three before they are arbitrated. `compare.py` compares primaries whatever their
  period or column; the primary is the best by rank, not "最大绝对值" as `MetricOccurrences` says.
- `bilingual.py`: the downgrade to INFO is undone a few lines later (3086, 3099);
  `min(severity, MEDIUM)` compares names (1162); 万元 is tested before 百万元 (3927); batches
  that failed in part lose the medium findings of the patterns; pairs between .65 and .75
  are compared only when some pair reaches .75; `float(issue["confidence"])` stands outside
  the `try` (1728); several functions are never called (`_layout_diffs`, `_fix_crossing_pairs`,
  `_pair_score`, `_semantic_diffs`, ...).
- `eval/matcher.py:22` says that optimal matching makes the metrics independent of the order
  of rows; among optima of equal weight, and in the greedy way without scipy, order decides.
- `coverage.py:1680`: the docstring asks two bonds to coincide in name or phase; the code is
  content with any effective term that is not a year, a party for example.
- `numeric.py`: the rounding branch of `_try_unit_fix` is unreachable; currency conversions
  are ranked before exact matches; only the best leftover pair of a key is told.
  `annotate_table` is not idempotent, though it says so: the second call takes the period it
  wrote as anchor.

## 4. Theorems

`JobRunner_proofs`, for every set of jobs, concurrency, number of faults and of
restarts (assumptions: `JobsAssumption`, `LimitAssumption`, `BoundAssumption`):
`TypeCorrect`, `PermitsAreConserved`, `NoIdlePermit`, `QueueIsExact`, `RowsAreTrue`,
`FailedStaysFailed`, `ResultStays`. The invariant is the type, the files (what
exists of a job's files at each place of its task and worker), and the queue:
`QueueInv`, which joins four of the properties because none is inductive alone. A
permit is conserved when a waiter resumes only if the waiter is not a holder
already and stands in the line once, which `LinesMatchTasks` says; that `RemoveFirst` of the
shown queue removes the same job as the semaphore's line needs `QueueIsLine`; and
`woken` stays within the line through arrivals and departures. Cardinality facts about holders
are lemmas; each action is a step.

In the same module, from the same invariant: `RunnerImplementsExecutor`, JobRunner
implements BoundedExecutor. The mapped line is the waiters without a permit followed by
the unstarted tasks, so the lemmas are about two sequences put together: what remains
when a waiter is woken, taken out, or when an unstarted task is dropped (`JoinedGrows`,
`JoinedMoves`, `JoinedAdvances`, `JoinedTail`, `FrontCount`). That the active jobs never
exceed the limit follows from `PermitsConserved`. There is one lemma per step that moves
the line or the active jobs (`MapSubmit` ... `MapStop`), and `MapRest` for all that leave
both alone. And `NoWorkerLeaks`, `JobsAreSettled`, `SlotIsHonest`: the first two are
statements about one job each, and `RowFollowsWorker` says what a task may find when it
ends; `SlotIsHonest` assumes one permit, since the statement is false with more, and
needs that one permit has one holder, a fact about cardinalities.

The second part of `JobRunner_proofs` is about Supervision, for every choice of delays
(`ClockAssumption`, `MarginAssumption`, `BeatAssumption`): `TimesAreKept`,
`ClocksTypeCorrect`, `SweepIsSafe`, `PermitsReturnInTime`, `SweepIsInTime`,
`HeartbeatsCount`. The invariant (`ClocksInv`) adds to the
type which stages of supervisor, process and row go together (`Stages`), how far each clock can
have run before the step it waits for is due (`Clocks`), and that what a supervised
row shows is never older than its process (`Progress`); the last is why the timeout
always comes before the sweep. Without psutil or after a crash `Progress` bounds the
age of an abandoned row by the rounds of the sweep that were lost and the pause since the
last of them; `MaxLost` is any number, and every lost round adds one pause (`Behind`).

`Orchestrator_proofs`, for every choice of checks in the gather, optional steps
and asking steps (`OrchestratorAssumption`): `TypeCorrect`, `NoFailureIsSilent`,
`NoCallFailsInSilence`, `FindingsStay`, `ReportsAreCurrent`, `ChecksNeverFailTheJob`
and `ImplementsContract`, the refinement of WorkerContract. The invariant says that
the warnings are exactly the steps that raised, that a step is busy only in its
stage, that blank answers wait in `failures` until `Settle` moves them, that a step which
does not swallow ends with the call that raised in it, and what the
summary holds from then on. `NoCallFailsInSilence` claims nothing of what `Swallowing` steps
swallow. The proof goes by four kinds of steps: silent ones, the
first emission, emissions of a stage, and the last one.

`ResultStore_proofs`, for every set of jobs, shared ids, statuses and threads
(`StoreAssumption`): `TypeCorrect`, `JobsAreRepairedOnce`, `ShownIsKept`,
`MigrationIsExact`, `ReviewsAreKept`, for any number of processes that read and draw ids
(`MaxStarts`). The lemma all of it turns on is `NothingShownGoes`:
no step takes a difference from what reading shows, nor the id of a stored one, nor any id
within one process; `NextProcess` says what the next process shows instead. The invariant adds that a job is in the
hands of one repair (`Locks`), that a repaired job has branch rows and that no repair at work
found it repaired (`Once`, which is why looking at the rows again under the marker is
enough), that only finished jobs have rows and nothing recomputed is stored while it is still
recomputed (`Rows`), that what a repair read of an old
result has its recomputed rows (`Snapshot`), and that what was reviewed is shown and stored (`SaidIsShown`).

`Caches_proofs`, for any callers, inside and outside a job, attempts and empty answers
(`CachesAssumption`): `TypeCorrect`, `NoFailureIsCached`, `NumericIsComputedOnce`,
`NobodyUsesHalf`. The invariant says what a caller carries at each place of each of
the five procedures (`Carries`), and what the shared files and the lock say (`Shared`);
one lemma (`OneMoves`) serves all steps of a caller that leave numeric differences alone.

`Accounts_proofs`, for any browsers, names, spellings and random ids
(`AccountsAssumption`): `NamesAreGroups`, `RowsAreKept`, `TypeCorrect`, `NobodyFallsBack`,
`ChoicesAreTheirOwn`, and with `RenamesAssumption` also `PeopleKeepTheirAccount`.
`OneGroupPerName` alone is not inductive: the insertion that finds a slug taken relies on
the group that took it being there still (`SlugsAreTaken`). `ActsInOwnGroups` needs
`AccountsFit`: how the four tables fit together at every moment, what a request knows
between two of its transactions (`RequestFits`), and that while the service serves every
account is a member somewhere; that a start establishes the last goes hop by hop along
the rename chain (`HopFits`, `RenamedFits`) and then over the seeding (`SeededFits`) and
the backfill. `PeopleKeepTheirAccount` is a second induction along the hops: what stands
under the names of one person is carried on (`HopCarries`), and no retired name is left
once its hop is done (`NobodyRetiredIsLeft`), because a name given up is not given again.
That is `RenamesAssumption`, the order in which `_RENAMED_DEMO_ACCOUNTS` is written.

`FindingChain_proofs`, for lists of findings of any length and any budget
(`ChainAssumption`): `TypeCorrect`, `NothingIsListedTwice`, `NoPlaceIsLost`,
`TheBudgetIsFair`. The passes only drop, so what one has achieved the later ones keep
(`Achieved`, one conjunct per pass). Each pass compares by an order, and the proofs rest
on these being total and strict on what is left (`EvidenceOrder`, `PriorityOrder`, `CutOrder`;
the relative difference by which the budget ranks is a quotient, and `SharesAreOrdered`
multiplies it out). `Kept` is the set that one walk through the order leaves: that there is
such a set is an induction on the rank (`ChoiceExists`, `KeptIsGreedy`), and so is that a
budget of n leaves n (`RanksAreCounted`, `CutIsCounted`). Who is dropped has one that
stays by going back to the earliest one of the chain (`DroppedHasOne`).

`Checks_proofs`, for every set of reports that the parsers may hand over (one assumption
per kind of input, from `NumericAssumption` to `BranchesAssumption`: lists, whole numbers, finite sets of
words, the fields an item has, a label and a column for each row of a table): `PairingIsFair`,
`OnlyLikeIsCompared`, `AlteredAmountsAreTold`, `EqualAmountsAreClean`,
`BranchTablesAreJudgedRight`, `FindingsSurviveTheModel`, `BudgetsHold`. The first is about
all the greedy loops. One chain of lemmas is about `Matching`, over any candidates: ranks compare as a strict total order (`RanksCompare`,
`EntriesAreOrdered`), a finite set with such an order is listed in it
(`ListedInOrder`, `RankedInOrder`), and a greedy walk along a list takes nothing twice and
leaves a pair only for one before it (`GreedyTakes`, `GreedyIsFair`). Numeric occurrences and
tables follow from it once their ranks are numbers (`NumericRanks`, `TablesAreFair`).
Events, paragraphs and row twins choose the best that is free for one left side after
another; each has its own step lemma (`BestIsFree`, `BlockIsTaken`, `LikestIsOneOfThem`)
and its own induction (`EventPairsAreOneToOne`, `BlockPairsGrow`, `TwinsAreOneToOne`).
`OnlyLikeIsCompared` goes backwards from a finding: whatever is told was proven
(`ToldPairsAreProven`), proof of a bond asks for a common identity, and an identity that is
more than a year is made of marks (`IdentityIsMadeOfMarks`, `ProvenBondsShareAMark`).

The next four are parts of `AlterationIsTold` and `SameReportIsClean`, for lists of any
length. Numeric occurrences that no match explains stay candidates, and a candidate of best
rank is taken and told (`BestIsTold`). That equal lists are clean is more: every
comparison is mutual (`DistancesAreMutual`, `ContextsAreMutual`, `ComparisonIsMutual`), an
occurrence explains itself (`EachExplainsItself`), nothing ranks before it
(`NobodyIsCloserThanOneself`, `OneselfComesFirst`), and so no candidate is left
(`NothingIsLeft`). In branch tables the rows of H follow those of A (`NamesMeet`); an amount
that went alone moves no anchor (`AmountsAloneAreNoSlip`), and rows that moved as a whole
move at least three tenths of them (`RowsThatMovedAreASlip`), which is what
`Alignment` tells apart. A finding of the patterns survives because the pairs that are
sure at 75 are sure at 65 (`SureIsSureEnough`), where no batch was answered, and because
merging drops only what has the same numbers (`MergingKeeps`), where one was.

`BudgetsHold` is `BudgetsAreKept`, for lists of any length, one lemma per check
(`PageBudget`, `TamperBudget`, `ReviewBudget`, `ProfileBudget`, `RowBudget`,
`PositionBudget`). A limit inside a loop is a count that the loop carries: what is told of
a key (`TellsOne`, `AllAreTold`, `KeysTellFew`), of a table (`JoiningTellsFew`,
`TwinsTellFew`) or of a page (`PagesTellFew`), and the reviews that were forced, which
the same walk counts. At the limits of the run two
batches of one pair each leave at most two pairs unanswered
(`TwoBatches`, `UnheardAreFew`); what `_budgeted_visual_pages` returns is the first few of
an order without repetition (`FirstPagesAreFew`). The occurrences of a metric are the long
one. First, every way of reading a report gives items that can be ranked, from tables
(`TablesGiveItems`), lines (`InlineGivesItems`, `WindowedGivesItems`), rows of raw text
(`RawTextGivesItems`) and numbers laid over others (`OverlaidAreItems`), and the two
removals of duplicates keep them so (`BestAreItems`): `ReportsGiveItems`. Then taking turns
over pages is a strict total order (`TurnsAreOrdered`, from `BetterIsTotal` and
`FirstsAreOrdered`), in which the head of every page comes before anything else of a page,
so that the heads of at most three pages are among the first three (`HeadsAreFew`) and the best item of all is the first (`TheBestIsFirst`); a list cut
after three keeps both (`DiverseKeeps`). OCR only adds behind it (`OthersAreAdded`).

`Alterations_proofs`, with the same assumptions: `EqualReportsAreClean`,
`AlteredMetricsAreTold`, `AlteredPlacesAreTold`, `AlteredFactsAreTold`, `AlteredRowsAreTold`,
and from these and `Checks_proofs` `AlterationsAreTold`. One step runs one check on one
input, so no invariant has to be strengthened; what makes the proofs long is what a check
computes. Each part goes its own way (the lemmas about metrics, tables, pages and what is
seen stand at the end of `Checks_proofs`):

- Equal lists, laid side by side (`OwnAreTaken`): if no candidate ranks before the pairs of
  a place with itself, these are the pairs. Tables, rows, events and paragraphs are this
  lemma, once scores are shown to be highest with oneself (`OwnTableScore`, `OwnRowScore`,
  `OwnEventScore`, `OwnBlockRank`). Where scores are not, `OwnBest` is a hypothesis.
- Equal facts (`OwnFactsMatch`): of two facts that are paired and say different things one
  fits itself, so that its own pair came before, and was refused only for a pair that says
  the same. Judgements are the same from both sides (`FittingIsMutual`).
- An altered fact (`TheAlteredIsMatched`): every other fact of its role is paired with a
  fact that says the same, so it is left for what it was. That both texts are read in
  step, mention by mention and matter by matter, is `TextsAreReadAlike`.
- Equal and altered profiles: what the limits leave of a key are items with amounts
  (`MetricsAreSound`); of an altered item the primary is compared, and any other one has its
  conflict (`ConflictsAreThere`) as long as conflicts are kept (`ProfileIsTold`).
- A key's low findings are exact pairs (`ExactIsLow`), and a mismatch that nothing explains
  is told or reviewed (`UnexplainedIsTold`). Duplicates leave one finding of each pair of pages
  (`DedupedKeepsPages`).
- An altered page pairs each place with itself (`LaidOverPair`), and conflicts that mirror each
  other are one (`OneConflictStays`); what the overlay hides from the positional check is
  what the overlay scan tells (`OverlaidIsNotAConflict`, `OverlaidIsTold`).
- An altered row: two amounts differ if one is more than a thousandth larger, whatever the
  unit (`GapsKeepTheirScale`). At most one row has not the usual ratio, and a median lies
  between two other rows, so its ratio is the usual one too (`TheMedianIsUsual`). So no
  factor tried leaves fewer rows off than the unit, and the tables pair (`TheOddIsPaired`).
  Amounts that went to other rows are paired without any factor (`TheMovedArePaired`).

What the proofs found in the properties, which the run's inputs had not met, is now named in
them: a number typed as a year or with few digits is nobody's; a fact whose words do not tell its
matter, or another of its role that fits neither itself, may take its place; of more
contradictions than are kept one is not told; a table whose rows all went elsewhere is told
only where no factor makes it agree. Of the inputs they needed to know that items have
whole amounts, and rows a label and a column.

Induction. The induction theorems of the library take an operator, which the provers
cannot instantiate. `EveryNumber` states induction for a set of numbers instead, from
`NatLessThanWellFounded` and `WFMin`, and a recursive function is first shown to exist and to
follow its equation (`GreedyFollows`, `EventsFollow`, `BlocksFollow`, `TwinsFollow`,
`HopsFollow`, `UnheardFollows`; `StepsAreTaken` for any walk that carries something along a
list). Lists put together out of lists are read place by place (`FlatteningFollows`,
`FlattenedLists`). The folds of the community modules are not proved about; the loops that
the theorems need are recursive functions or selections of places (`Picked`).

Only model-checked: liveness (`EveryJobSettles`, `PermitsComeBack`), which is outside of
TLAPS's reach, and with it every use of fairness and ENABLED. Every other property of a run
that passes is a theorem. (`RowsAreOwn` and
`PairedRowsAreCompared`, of the runs that expect a violation, are false of the code.)

## 5. What is not modelled, and why

- Extraction of text and tables from PDF and HTML, OCR, vision and retrieval: third-party
  libraries and services behind thin wrappers; layout heuristics whose correctness is a
  matter of documents, not of states. Their parse cache is in `Caches`.
- The regular expressions and term lists of checks and extraction: words in the model.
- Charts, accounting standard rules, the rule runner, explanations, disclosure checks on
  whole documents: one pass over the input without state, ranking or matching.
- `align_documents` and the glossary: the pipeline does not call the former
  (`orchestrator.py:102`); the latter is the key of a token.
- Excel, PDF and HTML layout, charts, static files, the public gate: formatting and
  request plumbing.
- The in-process runner (`job_runner=inline`), which tests and the evaluation use.
- The counts of the summary, the wording of warnings, log lines, password hashing, the
  login limiter, profile fields, avatars, listing and filtering queries.
- The React interface: it polls and shows what the modelled routes return.

## 6. Plan

1. The facts about `Columns` (`Pairable` is symmetric, header rows are a prefix).
2. Models that could follow: polling and timers of the interface; the budgets of OCR in
   `ocr_fallback.py`; the disclosure checks of `disclosure.py` as a further check of `Checks`.
