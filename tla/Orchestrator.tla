----------------------------- MODULE Orchestrator -----------------------------
(***************************************************************************)
(* Orchestrator.run, which a worker process runs once for its job: two     *)
(* reports are parsed and profiled, the checks run concurrently in an      *)
(* asyncio.gather, two more follow, then the summary is settled and the    *)
(* reports are written.  A check may raise without failing the job; every  *)
(* exception elsewhere fails it.  A call of a language model that fails    *)
(* comes back blank and is only counted; one that raises, because the file *)
(* of a stored answer cannot be read or written, ends its step or is       *)
(* swallowed by it.                                                        *)
(*                                                                         *)
(* A step is what runs between two awaits of the event loop, or the end of *)
(* what a thread of the pool works on.                                     *)
(***************************************************************************)
EXTENDS Naturals

CONSTANTS
  Checks,    \* the checks of this instance that run in the gather
  Optional,  \* the steps that a setting switches off
  Asking     \* the steps that ask a language model

Sides == {"A", "H"}

(* The percent that _safe_check emits when the step raises. *)
FailPercent ==
  [numeric |-> 60, standard |-> 65, disclosure |-> 70, overlay |-> 72,
   branch |-> 73, rowtwin |-> 74, postwin |-> 74, tamper |-> 75,
   bilingual |-> 75, coverage |-> 85, chart |-> 92, report |-> 98]
Steps == DOMAIN FailPercent

(* The asking steps that go on when a call raises; the others end. *)
Swallowing == Asking \cap {"standard", "bilingual", "chart"}

ASSUME OrchestratorAssumption ==
  /\ Checks \subseteq Steps \ {"bilingual", "coverage", "chart", "report"}
  /\ Optional \subseteq {"standard", "overlay", "coverage", "chart"}
  /\ Asking \subseteq Steps \ {"report"}

VARIABLES
  mode,      \* check_mode
  off,       \* steps switched off by the settings
  at,        \* where run() is
  side,      \* parsing and profiling of the two reports
  step,      \* what became of every check
  found,     \* checks that returned findings
  warnings,  \* module_warnings: the failed steps, and "llm"
  failures,  \* _llm_failures of the job: the steps whose calls failed
  job,       \* the Job: status, finding sources, summary, finished_at
  percent,   \* of the last emission
  shown,     \* status in progress.json
  report,    \* what the written report contains
  asked,     \* history: steps with a call that came back blank
  broken     \* history: steps with a call that raised

vars == <<mode, off, at, side, step, found, warnings, failures, job, percent,
          shown, report, asked, broken>>

Stages == {"none", "pending", "parsing", "profiling", "checking", "reporting",
           "done", "failed"}
NoSummary == [settled |-> FALSE, told |-> {}]

(* What a reader sees of the job in a report: its findings, the warnings   *)
(* of its summary, and whether its time is settled.                        *)
Summaries == [settled : BOOLEAN, told : SUBSET (Steps \cup {"llm"})]
Contents == [diffs : SUBSET Steps, summary : Summaries]
JobRecords == [status : Stages, diffs : SUBSET Steps, summary : Summaries]

TypeOK ==
  /\ mode \in {"ah", "h_bilingual"} /\ off \subseteq Optional
  /\ at \in {"start", "created", "parse", "profile", "checks", "coverage", "chart",
             "settle", "report", "over"}
  /\ side \in [Sides -> {"idle", "busy", "ok", "raised"}]
  /\ step \in [Steps -> {"idle", "busy", "ok", "raised"}]
  /\ found \subseteq {l \in Steps : step[l] = "ok"}
  /\ warnings \subseteq Steps \cup {"llm"}
  /\ failures \subseteq asked /\ asked \subseteq Asking /\ broken \subseteq Asking
  /\ job \in JobRecords
  /\ percent \in 0..100
  /\ shown \in Stages
  /\ report \subseteq Contents /\ \A c, d \in report : c = d

Init ==
  /\ mode \in {"ah", "h_bilingual"} /\ off \in SUBSET Optional
  /\ at = "start"
  /\ side = [s \in Sides |-> "idle"]
  /\ step = [l \in Steps |-> "idle"]
  /\ found = {} /\ warnings = {} /\ failures = {} /\ asked = {} /\ broken = {}
  /\ job = [status |-> "none", diffs |-> {}, summary |-> NoSummary]
  /\ percent = 0 /\ shown = "none" /\ report = {}

-----------------------------------------------------------------------------
(* _emit: the job takes the status of the stage, and the callback writes   *)
(* it to progress.json, which may fail.                                    *)
Emit(stage, pct, newJob) ==
  /\ job' = [newJob EXCEPT !.status = stage]
  /\ percent' = pct
  /\ shown' \in {stage, shown}

Fail ==
  /\ at' = "over"
  /\ Emit("failed", 0, job)

Create ==
  /\ at = "start" /\ at' = "created"
  /\ Emit("pending", 0, job)
  /\ UNCHANGED <<mode, off, side, step, found, warnings, failures, report, asked, broken>>

(* Both reports are parsed at once, or the Chinese one before the English. *)
StartParsing ==
  /\ at = "created" /\ at' = "parse"
  /\ side' = IF mode = "ah" THEN [s \in Sides |-> "busy"] ELSE [side EXCEPT !["A"] = "busy"]
  /\ Emit("parsing", 10, job)
  /\ UNCHANGED <<mode, off, step, found, warnings, failures, report, asked, broken>>

(* A thread ends; its exception leaves the gather at once, while the other *)
(* side goes on in its thread.                                             *)
SideEnds(s) ==
  /\ side[s] = "busy"
  /\ side' = [side EXCEPT ![s] = "ok"]
  /\ UNCHANGED <<mode, off, at, step, found, warnings, failures, job, percent,
                 shown, report, asked, broken>>

SideRaises(s) ==
  /\ side[s] = "busy"
  /\ side' = [side EXCEPT ![s] = "raised"]
  /\ IF at \in {"parse", "profile"} THEN Fail ELSE UNCHANGED <<at, job, percent, shown>>
  /\ UNCHANGED <<mode, off, step, found, warnings, failures, report, asked, broken>>

SecondReport ==
  /\ at = "parse" /\ mode = "h_bilingual" /\ side["A"] = "ok" /\ side["H"] = "idle"
  /\ side' = [side EXCEPT !["H"] = "busy"]
  /\ Emit("parsing", 35, job)
  /\ UNCHANGED <<mode, off, at, step, found, warnings, failures, report, asked, broken>>

Parsed ==
  /\ at = "parse" /\ \A s \in Sides : side[s] = "ok"
  /\ IF mode = "ah"
     THEN /\ at' = "profile" /\ side' = [s \in Sides |-> "busy"]
          /\ Emit("profiling", 40, job)
          /\ UNCHANGED step
     ELSE /\ at' = "checks" /\ step' = [step EXCEPT !["bilingual"] = "busy"]
          /\ Emit("checking", 70, job)
          /\ UNCHANGED side
  /\ UNCHANGED <<mode, off, found, warnings, failures, report, asked, broken>>

Profiled ==
  /\ at = "profile" /\ \A s \in Sides : side[s] = "ok"
  /\ at' = "checks"
  /\ step' = [l \in Steps |-> IF l \in Checks \ off THEN "busy" ELSE step[l]]
  /\ Emit("checking", 55, job)
  /\ UNCHANGED <<mode, off, side, found, warnings, failures, report, asked, broken>>

-----------------------------------------------------------------------------
(* cached_call fails: the caller gets a blank answer and goes on.          *)
CallFails(l) ==
  /\ step[l] = "busy" /\ l \in Asking
  /\ failures' = failures \cup {l}
  /\ asked' = asked \cup {l}
  /\ UNCHANGED <<mode, off, at, side, step, found, warnings, job, percent,
                 shown, report, broken>>

StepEnds(l) ==
  /\ step[l] = "busy" /\ l # "report"
  /\ step' = [step EXCEPT ![l] = "ok"]
  /\ found' \in {found, found \cup {l}}
  /\ UNCHANGED <<mode, off, at, side, warnings, failures, job, percent,
                 shown, report, asked, broken>>

(* Mutant: the warning goes to the log alone. *)
StepRaisesQuietly(l) ==
  /\ step[l] = "busy"
  /\ broken' \in {broken, broken \cup ({l} \cap (Asking \ Swallowing))}
  /\ step' = [step EXCEPT ![l] = "raised"]
  /\ Emit("checking", FailPercent[l], job)
  /\ UNCHANGED <<mode, off, at, side, found, warnings, failures, report, asked>>

(* A call raises in a step that catches it: the answer is missing, a line  *)
(* goes to the log, and the step goes on.                                  *)
CallRaises(l) ==
  /\ step[l] = "busy" /\ l \in Swallowing
  /\ broken' = broken \cup {l}
  /\ UNCHANGED <<mode, off, at, side, step, found, warnings, failures, job, percent,
                 shown, report, asked>>

(* _safe_check, and the except branch of the bilingual check: the default  *)
(* result, an emission and a warning.  What raises may be a call that the  *)
(* step does not catch.                                                    *)
StepRaises(l) ==
  /\ step[l] = "busy"
  /\ broken' \in {broken, broken \cup ({l} \cap (Asking \ Swallowing))}
  /\ step' = [step EXCEPT ![l] = "raised"]
  /\ warnings' = warnings \cup {l}
  /\ Emit("checking", FailPercent[l], job)
  /\ UNCHANGED <<mode, off, at, side, found, failures, report, asked>>

Quiet == \A l \in Steps : step[l] # "busy"

(* The next step that the settings leave on, after the gather or a check.  *)
After(p) ==
  IF mode = "ah" /\ p = "checks" /\ "coverage" \notin off THEN "coverage"
  ELSE IF mode = "ah" /\ p \in {"checks", "coverage"} /\ "chart" \notin off THEN "chart"
  ELSE "settle"

(* All checks returned: run() goes on to the next one. *)
GoOn ==
  /\ at \in {"checks", "coverage", "chart"} /\ Quiet
  /\ at' = After(at)
  /\ IF at' = "settle" THEN UNCHANGED <<step, job, percent, shown>>
     ELSE /\ step' = [step EXCEPT ![at'] = "busy"]
          /\ Emit("checking", IF at' = "coverage" THEN 80 ELSE 90, job)
  /\ UNCHANGED <<mode, off, side, found, warnings, failures, report, asked, broken>>

-----------------------------------------------------------------------------
(* Mutant: the failed calls are counted after the summary was built. *)
SettleFirst ==
  /\ at = "settle" /\ at' = "report"
  /\ warnings' = warnings \cup (IF failures = {} THEN {} ELSE {"llm"})
  /\ failures' = {}
  /\ step' = [step EXCEPT !["report"] = "busy"]
  /\ Emit("reporting", 95, [job EXCEPT !.diffs = found,
                                       !.summary = [settled |-> TRUE, told |-> warnings]])
  /\ UNCHANGED <<mode, off, side, found, report, asked, broken>>

(* Mutant: one failed check empties the results of the gather. *)
SettleAllOrNothing ==
  /\ at = "settle" /\ at' = "report"
  /\ warnings' = warnings \cup (IF failures = {} THEN {} ELSE {"llm"})
  /\ failures' = {}
  /\ step' = [step EXCEPT !["report"] = "busy"]
  /\ Emit("reporting", 95,
          [job EXCEPT !.diffs = IF warnings = {} THEN found ELSE {},
                      !.summary = [settled |-> TRUE, told |-> warnings']])
  /\ UNCHANGED <<mode, off, side, found, report, asked, broken>>

(* The findings are collected, the failed calls become a warning, summary  *)
(* and time are settled, and the report builder starts.                    *)
Settle ==
  /\ at = "settle" /\ at' = "report"
  /\ warnings' = warnings \cup (IF failures = {} THEN {} ELSE {"llm"})
  /\ failures' = {}
  /\ step' = [step EXCEPT !["report"] = "busy"]
  /\ Emit("reporting", 95, [job EXCEPT !.diffs = found,
                                       !.summary = [settled |-> TRUE, told |-> warnings']])
  /\ UNCHANGED <<mode, off, side, found, report, asked, broken>>

(* The dedupe chain or the summary raises, outside of any _safe_check. *)
SettleRaises ==
  /\ at = "settle"
  /\ Fail
  /\ UNCHANGED <<mode, off, side, step, found, warnings, failures, report, asked, broken>>

(* Mutant: the report is built before the summary. *)
WriteReportEarly ==
  /\ at = "settle" \/ (at = "report" /\ step["report"] = "busy")
  /\ step' = IF at = "report" THEN [step EXCEPT !["report"] = "ok"] ELSE step
  /\ report' = IF report = {} THEN {[diffs |-> job.diffs, summary |-> job.summary]} ELSE report
  /\ UNCHANGED <<mode, off, at, side, found, warnings, failures, job, percent,
                 shown, asked, broken>>

(* _build_report: Excel, PDF and HTML files from the job as it is. *)
WriteReport ==
  /\ at = "report" /\ step["report"] = "busy"
  /\ step' = [step EXCEPT !["report"] = "ok"]
  /\ report' = {[diffs |-> job.diffs, summary |-> job.summary]}
  /\ UNCHANGED <<mode, off, at, side, found, warnings, failures, job, percent,
                 shown, asked, broken>>

(* Mutant: DONE is emitted before the report is written. *)
FinishEarly ==
  /\ at = "report"
  /\ at' = IF Quiet THEN "over" ELSE at
  /\ Emit("done", 100, job)
  /\ UNCHANGED <<mode, off, side, step, found, warnings, failures, report, asked, broken>>

Finish ==
  /\ at = "report" /\ Quiet
  /\ at' = "over"
  /\ Emit("done", 100, job)
  /\ UNCHANGED <<mode, off, side, step, found, warnings, failures, report, asked, broken>>

-----------------------------------------------------------------------------
Next ==
  \/ Create \/ StartParsing \/ SecondReport \/ Parsed \/ Profiled \/ GoOn
  \/ \E s \in Sides : SideEnds(s) \/ SideRaises(s)
  \/ \E l \in Steps : CallFails(l) \/ CallRaises(l) \/ StepEnds(l) \/ StepRaises(l)
  \/ Settle \/ SettleRaises \/ WriteReport \/ Finish

Spec == Init /\ [][Next]_vars

-----------------------------------------------------------------------------
(* Properties. *)

Done == at = "over" /\ job.status = "done"
Raised == {l \in Steps : step[l] = "raised"}

(* A job that is done names every check that failed in the warnings of its *)
(* summary: no order of failures among the concurrent checks loses one,    *)
(* and "no findings" is never shown for a check that did not run.          *)
FailedChecksAreTold == Done => Raised \ {"report"} \subseteq job.summary.told

(* A job that is done tells that calls of the language model came back     *)
(* blank, whichever step made them, and of no others; one that raised is   *)
(* told as the step it ended.  What a step swallowed is told nowhere:      *)
(* nothing is claimed of the steps in Swallowing.                          *)
FailedCallsAreTold ==
  Done => /\ "llm" \in job.summary.told <=> asked # {}
          /\ broken \ Swallowing \subseteq job.summary.told

(* Failing checks take nothing away from the others: a job that is done    *)
(* has the findings of every check that returned some.                     *)
FindingsSurvive == Done => job.diffs = found

(* The written report shows the findings, warnings and times of the job    *)
(* that is returned: nothing is settled after it.                          *)
ReportIsTheResult ==
  Done => \A c \in report : c.diffs = job.diffs /\ c.summary = job.summary

(* No check fails a job: only parsing, profiling, or the summary.          *)
ChecksAreNotFatal ==
  [][job.status # "failed" /\ job'.status = "failed" =>
       at = "settle" \/ \E s \in Sides : side[s] = "busy" /\ side'[s] = "raised"]_vars

(* What the runner sees of the worker. *)
Seen == IF shown \in {"none", "pending", "done", "failed"} THEN shown ELSE "running"
Contract == INSTANCE WorkerContract WITH
  progress <- Seen, outcome <- IF at = "over" THEN job.status ELSE "none"

(* The progress file and the returned job are as the runner expects.       *)
KeepsContract == Contract!Spec
===============================================================================
