---------------------------- MODULE Orchestrator_proofs ----------------------------
(* Theorems about Orchestrator, for every choice of the concurrent checks,   *)
(* of the steps a setting switches off and of those that ask a model.        *)
EXTENDS Orchestrator, TLAPS

(* The steps are strings, none is the warning about failed calls, and their  *)
(* percentages are percentages.                                              *)
LEMMA StepFacts ==
  /\ \A l \in Steps : FailPercent[l] \in 0..100
  /\ {"coverage", "chart", "bilingual", "report"} \subseteq Steps
  /\ "llm" \notin Steps
  /\ \A l \in {"coverage", "chart", "bilingual", "report"} : l \notin Checks
  /\ "report" \notin Asking
  /\ Checks \subseteq Steps
PROOF BY OrchestratorAssumption DEF Steps, FailPercent

(* What holds between two steps: every failure of a check is a warning, the  *)
(* blank calls wait in _llm_failures until the summary takes them, only     *)
(* the stages of the checks have a check at work, and from the summary on    *)
(* nothing changes what the job tells.                                       *)
Working == at \in {"checks", "coverage", "chart"}
Summarised == at = "report" \/ Done

WarningsAreComplete == Raised \subseteq warnings /\ broken \ Swallowing \subseteq warnings
ChecksRunInTheirStages ==
  /\ ~Working => \A l \in Steps \ {"report"} : step[l] # "busy"
  /\ step["report"] = "busy" => at = "report"
NotYetRun ==
  /\ at \in {"start", "created", "parse", "profile"} => \A l \in Steps : step[l] = "idle"
  /\ at = "checks" => step["coverage"] = "idle"
  /\ at \in {"checks", "coverage"} => step["chart"] = "idle"
  /\ at \notin {"report", "over"} => step["report"] = "idle"
FailuresWait ==
  at \notin {"report", "over"} => failures = asked /\ "llm" \notin warnings /\ report = {}
SummaryIsRight ==
  Summarised =>
    /\ Raised \ {"report"} \subseteq job.summary.told
    /\ "llm" \in job.summary.told <=> asked # {}
    /\ broken \ Swallowing \subseteq job.summary.told
    /\ job.diffs = found
    /\ \A c \in report : c.diffs = job.diffs /\ c.summary = job.summary

IInv ==
  /\ TypeOK
  /\ WarningsAreComplete
  /\ ChecksRunInTheirStages
  /\ NotYetRun
  /\ FailuresWait
  /\ SummaryIsRight

-----------------------------------------------------------------------------
LEMMA InitInv == Init => IInv
PROOF
  <1> SUFFICES ASSUME Init PROVE IInv
    OBVIOUS
  <1> USE StepFacts
  <1>1. TypeOK
    BY DEF Init, TypeOK, Stages, Summaries, Contents, JobRecords, NoSummary, Sides
  <1>2. \A l \in Steps : step[l] = "idle"
    BY DEF Init
  <1>3. WarningsAreComplete
    <2>1. broken = {}
      BY DEF Init
    <2> QED BY <1>2, <2>1 DEF WarningsAreComplete, Raised
  <1>4. ChecksRunInTheirStages
    BY <1>2 DEF ChecksRunInTheirStages
  <1>6. NotYetRun
    BY <1>2, StepFacts DEF NotYetRun
  <1>5. FailuresWait /\ SummaryIsRight
    BY DEF Init, FailuresWait, SummaryIsRight, Summarised, Done
  <1> QED BY <1>1, <1>3, <1>4, <1>5, <1>6 DEF IInv

(* An emission changes of the job only its status. *)
LEMMA EmitFacts ==
  ASSUME TypeOK, NEW stage \in Stages, NEW pct \in 0..100,
         NEW newJob \in JobRecords,
         Emit(stage, pct, newJob)
  PROVE  /\ job' \in JobRecords
         /\ job'.status = stage /\ job'.diffs = newJob.diffs /\ job'.summary = newJob.summary
         /\ percent' \in 0..100 /\ shown' \in Stages
PROOF BY DEF Emit, TypeOK, JobRecords

LEMMA FailFacts ==
  ASSUME TypeOK, Fail
  PROVE  /\ at' = "over"
         /\ job' \in JobRecords
         /\ job'.status = "failed"
         /\ percent' \in 0..100 /\ shown' \in Stages
PROOF
  <1>1. "failed" \in Stages /\ 0 \in 0..100
    BY DEF Stages
  <1>2. job \in JobRecords
    BY DEF TypeOK
  <1>3. at' = "over" /\ Emit("failed", 0, job)
    BY DEF Fail
  <1> QED BY <1>1, <1>2, <1>3, EmitFacts

-----------------------------------------------------------------------------
(* Every action preserves the invariant. *)

(* The first emission. *)
LEMMA CreateInv ==
  ASSUME IInv, Create
  PROVE  IInv'
PROOF
  <1> USE StepFacts DEF IInv, JobRecords
  <1>1. /\ job' \in JobRecords
        /\ job'.status = "pending"
        /\ job'.diffs = job.diffs /\ job'.summary = job.summary
        /\ percent' \in 0..100 /\ shown' \in Stages
    <2>1. "pending" \in Stages /\ 0 \in 0..100
      BY DEF Stages
    <2>2. job \in JobRecords
      BY DEF TypeOK
    <2>3. Emit("pending", 0, job)
      BY DEF Create
    <2> QED BY <2>1, <2>2, <2>3, EmitFacts
  <1>2. TypeOK'
    BY <1>1 DEF TypeOK, Create, Sides
  <1>3. WarningsAreComplete'
    BY DEF TypeOK, WarningsAreComplete, Raised, Create
  <1>4. ChecksRunInTheirStages'
    BY DEF TypeOK, ChecksRunInTheirStages, Working, Create
  <1>5. NotYetRun'
    BY DEF TypeOK, NotYetRun, Create
  <1>6. FailuresWait'
    BY DEF TypeOK, FailuresWait, Create
  <1>7. SummaryIsRight'
    BY <1>1 DEF TypeOK, SummaryIsRight, Summarised, Done, Create
  <1> QED BY <1>2, <1>3, <1>4, <1>5, <1>6, <1>7

(* Parsing starts. *)
LEMMA StartParsingInv ==
  ASSUME IInv, StartParsing
  PROVE  IInv'
PROOF
  <1> USE StepFacts DEF IInv, JobRecords
  <1>1. /\ job' \in JobRecords
        /\ job'.status = "parsing"
        /\ job'.diffs = job.diffs /\ job'.summary = job.summary
        /\ percent' \in 0..100 /\ shown' \in Stages
    <2>1. "parsing" \in Stages /\ 10 \in 0..100
      BY DEF Stages
    <2>2. job \in JobRecords
      BY DEF TypeOK
    <2>3. Emit("parsing", 10, job)
      BY DEF StartParsing
    <2> QED BY <2>1, <2>2, <2>3, EmitFacts
  <1>2. TypeOK'
    BY <1>1 DEF TypeOK, StartParsing, Sides
  <1>3. WarningsAreComplete'
    BY DEF TypeOK, WarningsAreComplete, Raised, StartParsing
  <1>4. ChecksRunInTheirStages'
    BY DEF TypeOK, ChecksRunInTheirStages, Working, StartParsing
  <1>5. NotYetRun'
    BY DEF TypeOK, NotYetRun, StartParsing
  <1>6. FailuresWait'
    BY DEF TypeOK, FailuresWait, StartParsing
  <1>7. SummaryIsRight'
    BY <1>1 DEF TypeOK, SummaryIsRight, Summarised, Done, StartParsing
  <1> QED BY <1>2, <1>3, <1>4, <1>5, <1>6, <1>7

(* The second report of a bilingual job. *)
LEMMA SecondReportInv ==
  ASSUME IInv, SecondReport
  PROVE  IInv'
PROOF
  <1> USE StepFacts DEF IInv, JobRecords
  <1>1. /\ job' \in JobRecords
        /\ job'.status = "parsing"
        /\ job'.diffs = job.diffs /\ job'.summary = job.summary
        /\ percent' \in 0..100 /\ shown' \in Stages
    <2>1. "parsing" \in Stages /\ 35 \in 0..100
      BY DEF Stages
    <2>2. job \in JobRecords
      BY DEF TypeOK
    <2>3. Emit("parsing", 35, job)
      BY DEF SecondReport
    <2> QED BY <2>1, <2>2, <2>3, EmitFacts
  <1>2. TypeOK'
    BY <1>1 DEF TypeOK, SecondReport, Sides
  <1>3. WarningsAreComplete'
    BY DEF TypeOK, WarningsAreComplete, Raised, SecondReport
  <1>4. ChecksRunInTheirStages'
    BY DEF TypeOK, ChecksRunInTheirStages, Working, SecondReport
  <1>5. NotYetRun'
    BY DEF TypeOK, NotYetRun, SecondReport
  <1>6. FailuresWait'
    BY DEF TypeOK, FailuresWait, SecondReport
  <1>7. SummaryIsRight'
    BY <1>1 DEF TypeOK, SummaryIsRight, Summarised, Done, SecondReport
  <1> QED BY <1>2, <1>3, <1>4, <1>5, <1>6, <1>7

(* The checks of the gather start. *)
LEMMA ProfiledInv ==
  ASSUME IInv, Profiled
  PROVE  IInv'
PROOF
  <1> USE StepFacts DEF IInv, JobRecords
  <1>1. /\ job' \in JobRecords
        /\ job'.status = "checking"
        /\ job'.diffs = job.diffs /\ job'.summary = job.summary
        /\ percent' \in 0..100 /\ shown' \in Stages
    <2>1. "checking" \in Stages /\ 55 \in 0..100
      BY DEF Stages
    <2>2. job \in JobRecords
      BY DEF TypeOK
    <2>3. Emit("checking", 55, job)
      BY DEF Profiled
    <2> QED BY <2>1, <2>2, <2>3, EmitFacts
  <1>2. TypeOK'
    BY <1>1 DEF TypeOK, Profiled, Sides, NotYetRun
  <1>3. WarningsAreComplete'
    BY DEF TypeOK, WarningsAreComplete, Raised, Profiled
  <1>4. ChecksRunInTheirStages'
    BY DEF TypeOK, ChecksRunInTheirStages, Working, Profiled
  <1>5. NotYetRun'
    BY DEF TypeOK, NotYetRun, Profiled, ChecksRunInTheirStages
  <1>6. FailuresWait'
    BY DEF TypeOK, FailuresWait, Profiled
  <1>7. SummaryIsRight'
    BY <1>1 DEF TypeOK, SummaryIsRight, Summarised, Done, Profiled
  <1> QED BY <1>2, <1>3, <1>4, <1>5, <1>6, <1>7

(* A side is done. *)
LEMMA SideEndsInv ==
  ASSUME IInv, NEW s \in Sides, SideEnds(s)
  PROVE  IInv'
PROOF
  <1> USE StepFacts DEF IInv, JobRecords
  <1>1. TypeOK'
    BY DEF TypeOK, SideEnds
  <1>2. WarningsAreComplete'
    BY DEF TypeOK, WarningsAreComplete, Raised, SideEnds
  <1>3. ChecksRunInTheirStages'
    BY DEF TypeOK, ChecksRunInTheirStages, Working, SideEnds
  <1>4. NotYetRun'
    BY DEF TypeOK, NotYetRun, SideEnds
  <1>5. FailuresWait'
    BY DEF TypeOK, FailuresWait, SideEnds
  <1>6. SummaryIsRight'
    BY DEF SummaryIsRight, Summarised, Done, Raised, SideEnds
  <1> QED BY <1>1, <1>2, <1>3, <1>4, <1>5, <1>6

(* A call of the language model fails, before the summary. *)
LEMMA CallFailsInv ==
  ASSUME IInv, NEW l \in Steps, CallFails(l)
  PROVE  IInv'
PROOF
  <1> USE StepFacts DEF IInv, JobRecords
  <1>1. at \notin {"report", "over"}
    BY DEF CallFails, ChecksRunInTheirStages, Working
  <1>2. TypeOK'
    BY DEF TypeOK, CallFails
  <1>3. WarningsAreComplete'
    BY DEF TypeOK, WarningsAreComplete, Raised, CallFails
  <1>4. ChecksRunInTheirStages'
    BY DEF TypeOK, ChecksRunInTheirStages, Working, CallFails
  <1>5. NotYetRun'
    BY DEF TypeOK, NotYetRun, CallFails
  <1>6. FailuresWait'
    BY DEF TypeOK, FailuresWait, CallFails
  <1>7. SummaryIsRight'
    BY <1>1 DEF SummaryIsRight, Summarised, Done, CallFails
  <1> QED BY <1>2, <1>3, <1>4, <1>5, <1>6, <1>7

(* A call raises in a step that goes on. *)
LEMMA CallRaisesInv ==
  ASSUME IInv, NEW l \in Steps, CallRaises(l)
  PROVE  IInv'
PROOF
  <1> USE StepFacts DEF IInv, JobRecords
  <1>1. at \notin {"report", "over"} /\ l \in Swallowing
    BY DEF CallRaises, ChecksRunInTheirStages, Working, Swallowing
  <1>2. TypeOK'
    BY DEF TypeOK, CallRaises, Swallowing
  <1>3. WarningsAreComplete'
    BY <1>1 DEF TypeOK, WarningsAreComplete, Raised, CallRaises
  <1>4. ChecksRunInTheirStages'
    BY DEF TypeOK, ChecksRunInTheirStages, Working, CallRaises
  <1>5. NotYetRun'
    BY DEF TypeOK, NotYetRun, CallRaises
  <1>6. FailuresWait'
    BY DEF TypeOK, FailuresWait, CallRaises
  <1>7. SummaryIsRight'
    BY <1>1 DEF SummaryIsRight, Summarised, Done, CallRaises
  <1> QED BY <1>2, <1>3, <1>4, <1>5, <1>6, <1>7

(* A check returns, before the summary. *)
LEMMA StepEndsInv ==
  ASSUME IInv, NEW l \in Steps, StepEnds(l)
  PROVE  IInv'
PROOF
  <1> USE StepFacts DEF IInv, JobRecords
  <1>1. Working
    BY DEF StepEnds, ChecksRunInTheirStages
  <1>2. TypeOK'
    BY DEF TypeOK, StepEnds
  <1>3. WarningsAreComplete'
    BY DEF TypeOK, WarningsAreComplete, Raised, StepEnds
  <1>4. ChecksRunInTheirStages'
    BY DEF TypeOK, ChecksRunInTheirStages, Working, StepEnds
  <1>5. NotYetRun'
    BY <1>1 DEF TypeOK, NotYetRun, Working, StepEnds
  <1>6. FailuresWait'
    BY DEF TypeOK, FailuresWait, StepEnds
  <1>7. SummaryIsRight'
    BY <1>1 DEF SummaryIsRight, Summarised, Done, Working, StepEnds
  <1> QED BY <1>2, <1>3, <1>4, <1>5, <1>6, <1>7

(* The summary raises. *)
LEMMA SettleRaisesInv ==
  ASSUME IInv, SettleRaises
  PROVE  IInv'
PROOF
  <1> USE StepFacts DEF IInv, JobRecords
  <1>1. /\ at' = "over"
        /\ job' \in JobRecords /\ job'.status = "failed"
        /\ percent' \in 0..100 /\ shown' \in Stages
    BY FailFacts DEF SettleRaises
  <1>2. TypeOK'
    BY <1>1 DEF TypeOK, SettleRaises, Sides
  <1>3. WarningsAreComplete'
    BY DEF TypeOK, WarningsAreComplete, Raised, SettleRaises
  <1>4. ChecksRunInTheirStages'
    BY <1>1 DEF ChecksRunInTheirStages, NotYetRun, Working, SettleRaises
  <1>5. NotYetRun'
    BY DEF TypeOK, NotYetRun, SettleRaises, Fail
  <1>6. FailuresWait'
    BY DEF TypeOK, FailuresWait, SettleRaises
  <1>7. SummaryIsRight'
    BY <1>1 DEF SummaryIsRight, Summarised, Done
  <1> QED BY <1>2, <1>3, <1>4, <1>5, <1>6, <1>7

(* The job is done. *)
LEMMA FinishInv ==
  ASSUME IInv, Finish
  PROVE  IInv'
PROOF
  <1> USE StepFacts DEF IInv, JobRecords
  <1>1. /\ job' \in JobRecords
        /\ job'.status = "done"
        /\ job'.diffs = job.diffs /\ job'.summary = job.summary
        /\ percent' \in 0..100 /\ shown' \in Stages
    <2>1. "done" \in Stages /\ 100 \in 0..100
      BY DEF Stages
    <2>2. job \in JobRecords
      BY DEF TypeOK
    <2>3. Emit("done", 100, job)
      BY DEF Finish
    <2> QED BY <2>1, <2>2, <2>3, EmitFacts
  <1>2. TypeOK'
    BY <1>1 DEF TypeOK, Finish, Sides
  <1>3. WarningsAreComplete'
    BY DEF TypeOK, WarningsAreComplete, Raised, Finish
  <1>4. ChecksRunInTheirStages'
    BY DEF ChecksRunInTheirStages, Quiet, Finish
  <1>5. NotYetRun'
    BY DEF TypeOK, NotYetRun, Finish
  <1>6. FailuresWait'
    BY DEF TypeOK, FailuresWait, Finish
  <1>7. SummaryIsRight'
    BY <1>1 DEF SummaryIsRight, Summarised, Done, Raised, Finish
  <1> QED BY <1>2, <1>3, <1>4, <1>5, <1>6, <1>7

(* The report is written. *)
LEMMA WriteReportInv ==
  ASSUME IInv, WriteReport
  PROVE  IInv'
PROOF
  <1> USE StepFacts DEF IInv, JobRecords
  <1>1. TypeOK'
    BY DEF TypeOK, Contents, WriteReport
  <1>2. WarningsAreComplete'
    BY DEF TypeOK, WarningsAreComplete, Raised, WriteReport
  <1>3. ChecksRunInTheirStages'
    BY DEF TypeOK, ChecksRunInTheirStages, Working, WriteReport
  <1>4. NotYetRun'
    BY DEF TypeOK, NotYetRun, WriteReport
  <1>5. FailuresWait'
    BY DEF TypeOK, FailuresWait, WriteReport
  <1>6. SummaryIsRight'
    BY DEF TypeOK, SummaryIsRight, Summarised, Done, Raised, WriteReport
  <1> QED BY <1>1, <1>2, <1>3, <1>4, <1>5, <1>6

(* Both reports are parsed: profiles are extracted, or the translation checked. *)
LEMMA ParsedInv ==
  ASSUME IInv, Parsed
  PROVE  IInv'
PROOF
  <1> USE StepFacts DEF IInv, JobRecords
  <1>1. /\ job' \in JobRecords
        /\ job'.diffs = job.diffs /\ job'.summary = job.summary
        /\ percent' \in 0..100 /\ shown' \in Stages
    <2>1. {"profiling", "checking"} \subseteq Stages /\ 40 \in 0..100 /\ 70 \in 0..100
      BY DEF Stages
    <2>2. job \in JobRecords
      BY DEF TypeOK
    <2>3. Emit("profiling", 40, job) \/ Emit("checking", 70, job)
      BY DEF Parsed
    <2> QED BY <2>1, <2>2, <2>3, EmitFacts
  <1>2. TypeOK'
    BY <1>1 DEF TypeOK, Parsed, Sides, NotYetRun
  <1>3. WarningsAreComplete'
    BY DEF TypeOK, WarningsAreComplete, Raised, Parsed
  <1>4. ChecksRunInTheirStages'
    BY DEF TypeOK, ChecksRunInTheirStages, Working, Parsed
  <1>5. NotYetRun'
    BY DEF TypeOK, NotYetRun, Parsed
  <1>6. FailuresWait'
    BY DEF TypeOK, FailuresWait, Parsed
  <1>7. SummaryIsRight'
    BY <1>1 DEF TypeOK, SummaryIsRight, Summarised, Done, Parsed
  <1> QED BY <1>2, <1>3, <1>4, <1>5, <1>6, <1>7

(* A side raises: it fails the job, or run() has already failed. *)
LEMMA SideRaisesInv ==
  ASSUME IInv, NEW s \in Sides, SideRaises(s)
  PROVE  IInv'
PROOF
  <1> USE StepFacts DEF IInv, JobRecords
  <1>1. \/ at \in {"parse", "profile"} /\ at' = "over" /\ job'.status = "failed"
           /\ job' \in JobRecords
           /\ percent' \in 0..100 /\ shown' \in Stages
        \/ UNCHANGED <<at, job, percent, shown>>
    BY FailFacts DEF SideRaises
  <1>2. TypeOK'
    BY <1>1 DEF TypeOK, SideRaises
  <1>3. WarningsAreComplete'
    BY DEF TypeOK, WarningsAreComplete, Raised, SideRaises
  <1>4. ChecksRunInTheirStages'
    BY <1>1 DEF ChecksRunInTheirStages, NotYetRun, Working, SideRaises
  <1>5. NotYetRun'
    BY <1>1 DEF NotYetRun, SideRaises
  <1>6. FailuresWait'
    BY <1>1 DEF FailuresWait, SideRaises
  <1>7. SummaryIsRight'
    BY <1>1 DEF SummaryIsRight, Summarised, Done, Raised, SideRaises
  <1> QED BY <1>2, <1>3, <1>4, <1>5, <1>6, <1>7

(* A check raises, or the report builder. *)
LEMMA StepRaisesInv ==
  ASSUME IInv, NEW l \in Steps, StepRaises(l)
  PROVE  IInv'
PROOF
  <1> USE StepFacts DEF IInv, JobRecords
  <1>1. /\ job' \in JobRecords
        /\ job'.status = "checking"
        /\ job'.diffs = job.diffs /\ job'.summary = job.summary
        /\ percent' \in 0..100 /\ shown' \in Stages
    <2>1. "checking" \in Stages /\ FailPercent[l] \in 0..100
      BY DEF Stages
    <2>2. job \in JobRecords
      BY DEF TypeOK
    <2>3. Emit("checking", FailPercent[l], job)
      BY DEF StepRaises
    <2> QED BY <2>1, <2>2, <2>3, EmitFacts
  <1>2. Working \/ (l = "report" /\ at = "report")
    BY DEF StepRaises, ChecksRunInTheirStages
  <1>3. TypeOK'
    BY <1>1 DEF TypeOK, StepRaises
  <1>4. WarningsAreComplete'
    BY DEF TypeOK, WarningsAreComplete, Raised, StepRaises
  <1>5. ChecksRunInTheirStages'
    BY DEF TypeOK, ChecksRunInTheirStages, Working, StepRaises
  <1>6. NotYetRun'
    BY <1>2 DEF TypeOK, NotYetRun, Working, StepRaises
  <1>7. FailuresWait'
    BY <1>2 DEF TypeOK, FailuresWait, Working, StepRaises
  <1>8. SummaryIsRight'
    BY <1>1, <1>2 DEF TypeOK, SummaryIsRight, Summarised, Done, Working, Raised, StepRaises
  <1> QED BY <1>3, <1>4, <1>5, <1>6, <1>7, <1>8

(* The next check that the settings leave on, or the summary. *)
LEMMA GoOnInv ==
  ASSUME IInv, GoOn
  PROVE  IInv'
PROOF
  <1> USE StepFacts DEF IInv, JobRecords
  <1>1. at' \in {"coverage", "chart", "settle"} /\ (at = "chart" => at' = "settle")
        /\ (at = "coverage" => at' # "coverage")
    BY DEF GoOn, After
  <1>2. \/ at' = "settle" /\ UNCHANGED <<step, job, percent, shown>>
        \/ /\ at' # "settle" /\ step' = [step EXCEPT ![at'] = "busy"]
           /\ job' \in JobRecords /\ job'.status = "checking"
           /\ percent' \in 0..100 /\ shown' \in Stages
    <2>1. "checking" \in Stages /\ 80 \in 0..100 /\ 90 \in 0..100
      BY DEF Stages
    <2>2. job \in JobRecords
      BY DEF TypeOK
    <2>3. CASE at' = "settle"
      BY <2>3 DEF GoOn
    <2>4. CASE at' # "settle"
      <3>1. Emit("checking", 80, job) \/ Emit("checking", 90, job)
        BY <2>4 DEF GoOn
      <3> QED BY <3>1, <2>1, <2>2, <2>4, EmitFacts DEF GoOn
    <2> QED BY <2>3, <2>4
  <1>3. TypeOK'
    BY <1>1, <1>2 DEF TypeOK, GoOn, NotYetRun
  <1>4. WarningsAreComplete'
    BY <1>1, <1>2 DEF TypeOK, WarningsAreComplete, Raised, GoOn
  <1>5. ChecksRunInTheirStages'
    BY <1>1, <1>2 DEF TypeOK, ChecksRunInTheirStages, Working, Quiet, GoOn
  <1>6. NotYetRun'
    BY <1>1, <1>2 DEF TypeOK, NotYetRun, GoOn
  <1>7. FailuresWait'
    BY <1>1 DEF FailuresWait, GoOn
  <1>8. SummaryIsRight'
    BY <1>1, <1>2 DEF SummaryIsRight, Summarised, Done, GoOn
  <1> QED BY <1>3, <1>4, <1>5, <1>6, <1>7, <1>8

(* The summary is settled, and the report builder starts. *)
LEMMA SettleInv ==
  ASSUME IInv, Settle
  PROVE  IInv'
PROOF
  <1> USE StepFacts DEF IInv, JobRecords
  <1>1. /\ found \in SUBSET Steps
        /\ [settled |-> TRUE, told |-> warnings'] \in Summaries
        /\ warnings' \subseteq Steps \cup {"llm"} /\ warnings \subseteq warnings'
    BY DEF Settle, Summaries, TypeOK
  <1>2. /\ job' \in JobRecords
        /\ job'.status = "reporting"
        /\ job'.diffs = found /\ job'.summary = [settled |-> TRUE, told |-> warnings']
        /\ percent' \in 0..100 /\ shown' \in Stages
    <2> DEFINE new == [job EXCEPT !.diffs = found, !.summary = [settled |-> TRUE, told |-> warnings']]
    <2>1. "reporting" \in Stages /\ 95 \in 0..100
      BY DEF Stages
    <2>2. /\ new \in JobRecords
          /\ new.diffs = found /\ new.summary = [settled |-> TRUE, told |-> warnings']
      BY <1>1 DEF TypeOK
    <2>3. Emit("reporting", 95, new)
      BY DEF Settle
    <2> HIDE DEF new
    <2> QED BY <2>1, <2>2, <2>3, EmitFacts
  <1>3. TypeOK'
    BY <1>1, <1>2 DEF TypeOK, Settle, NotYetRun
  <1>4. WarningsAreComplete'
    BY <1>1 DEF TypeOK, WarningsAreComplete, Raised, Settle
  <1>5. ChecksRunInTheirStages'
    BY DEF TypeOK, ChecksRunInTheirStages, Working, Settle
  <1>6. NotYetRun'
    BY DEF TypeOK, NotYetRun, Settle
  <1>7. FailuresWait'
    BY DEF FailuresWait, Settle
  <1>8. SummaryIsRight'
    BY <1>1, <1>2 DEF TypeOK, SummaryIsRight, WarningsAreComplete, FailuresWait, Raised, Settle
  <1> QED BY <1>3, <1>4, <1>5, <1>6, <1>7, <1>8

LEMMA NextInv == IInv /\ [Next]_vars => IInv'
PROOF
  <1> SUFFICES ASSUME IInv, [Next]_vars PROVE IInv'
    OBVIOUS
  <1>1. CASE UNCHANGED vars
    BY <1>1 DEF vars, IInv, TypeOK, WarningsAreComplete, ChecksRunInTheirStages, NotYetRun,
                FailuresWait, SummaryIsRight, Summarised, Done, Working, Raised
  <1>2. CASE Create \/ StartParsing \/ SecondReport \/ Parsed \/ Profiled \/ GoOn
    BY <1>2, CreateInv, StartParsingInv, SecondReportInv, ParsedInv, ProfiledInv, GoOnInv
  <1>3. CASE \E s \in Sides : SideEnds(s) \/ SideRaises(s)
    BY <1>3, SideEndsInv, SideRaisesInv
  <1>4. ASSUME NEW l \in Steps, CallFails(l) \/ CallRaises(l) \/ StepEnds(l) \/ StepRaises(l)
        PROVE  IInv'
    BY <1>4, CallFailsInv, CallRaisesInv, StepEndsInv, StepRaisesInv
  <1>5. CASE Settle \/ SettleRaises \/ WriteReport \/ Finish
    BY <1>5, SettleInv, SettleRaisesInv, WriteReportInv, FinishInv
  <1> QED BY <1>1, <1>2, <1>3, <1>4, <1>5 DEF Next

LEMMA Invariance == Spec => []IInv
PROOF BY InitInv, NextInv, PTL DEF Spec

-----------------------------------------------------------------------------
(* What a job that is done tells. *)

(* The type invariant, whatever checks run together and whatever they do. *)
THEOREM TypeCorrect == Spec => []TypeOK
PROOF
  <1>1. IInv => TypeOK
    BY DEF IInv
  <1> QED BY <1>1, Invariance, PTL

(* No failure of a check is silent: in whatever order the checks of the    *)
(* gather fail and end, the summary of a job that is done names them all.  *)
THEOREM NoFailureIsSilent == Spec => []FailedChecksAreTold
PROOF
  <1>1. IInv => FailedChecksAreTold
    BY DEF IInv, SummaryIsRight, Summarised, FailedChecksAreTold
  <1> QED BY <1>1, Invariance, PTL

(* Calls of the language model that came back blank are told exactly when  *)
(* there were some, although cached_call hides each of them from its       *)
(* caller; one that raised is told as the step it ended, and nothing is    *)
(* said of the steps that swallow it.                                      *)
THEOREM NoCallFailsInSilence == Spec => []FailedCallsAreTold
PROOF
  <1>1. IInv => FailedCallsAreTold
    BY DEF IInv, SummaryIsRight, Summarised, FailedCallsAreTold
  <1> QED BY <1>1, Invariance, PTL

(* No check that fails takes the findings of another one with it.          *)
THEOREM FindingsStay == Spec => []FindingsSurvive
PROOF
  <1>1. IInv => FindingsSurvive
    BY DEF IInv, SummaryIsRight, Summarised, FindingsSurvive
  <1> QED BY <1>1, Invariance, PTL

(* The report that is written says what the returned job says.             *)
THEOREM ReportsAreCurrent == Spec => []ReportIsTheResult
PROOF
  <1>1. IInv => ReportIsTheResult
    BY DEF IInv, SummaryIsRight, Summarised, ReportIsTheResult
  <1> QED BY <1>1, Invariance, PTL

-----------------------------------------------------------------------------
(* The outcome, and what the runner sees of it. *)

RunningStages == {"parsing", "profiling", "checking", "reporting"}

(* The four kinds of steps: nothing is emitted, the first emission, one of *)
(* a running stage, and the last one, which settles the outcome.           *)
SilentStep == UNCHANGED <<job, shown>> /\ (at' = "over" <=> at = "over") /\ (at' = "start" <=> at = "start")
FirstStep == at = "start" /\ at' \notin {"start", "over"} /\ job'.status = "pending" /\ shown' \in {"pending", shown}
StageStep ==
  /\ at \notin {"start", "over"} /\ at' \notin {"start", "over"}
  /\ job'.status \in RunningStages /\ shown' \in {job'.status, shown}
LastStep ==
  /\ at # "over" /\ at' = "over"
  /\ job'.status \in {"done", "failed"} /\ shown' \in {job'.status, shown}
  /\ job'.status = "failed" => at = "settle" \/ \E s \in Sides : side[s] = "busy" /\ side'[s] = "raised"

(* What an emission writes. *)
LEMMA EmitShows ==
  ASSUME NEW stage, NEW pct, NEW newJob \in JobRecords, Emit(stage, pct, newJob)
  PROVE  job'.status = stage /\ shown' \in {stage, shown}
PROOF BY DEF Emit, JobRecords

LEMMA StepKinds ==
  ASSUME IInv, [Next]_vars
  PROVE  SilentStep \/ FirstStep \/ StageStep \/ LastStep
PROOF
  <1>0. job \in JobRecords
    BY DEF IInv, TypeOK
  <1>1. CASE UNCHANGED vars
    BY <1>1 DEF vars, SilentStep
  <1>2. CASE Create
    BY <1>0, <1>2, EmitShows DEF Create, FirstStep
  <1>3. CASE StartParsing \/ SecondReport \/ Parsed \/ Profiled
    <2>1. at \notin {"start", "over"} /\ at' \notin {"start", "over"}
      BY <1>3 DEF StartParsing, SecondReport, Parsed, Profiled
    <2>2. \E stage \in RunningStages, pct \in 0..100 : Emit(stage, pct, job)
      BY <1>3 DEF StartParsing, SecondReport, Parsed, Profiled, RunningStages
    <2> QED BY <1>0, <2>1, <2>2, EmitShows DEF StageStep
  <1>4. CASE GoOn
    <2>1. at \notin {"start", "over"} /\ at' \notin {"start", "over"}
      BY <1>4 DEF GoOn, After
    <2>2. UNCHANGED <<job, shown>> \/ \E pct \in 0..100 : Emit("checking", pct, job)
      BY <1>4 DEF GoOn
    <2> QED BY <1>0, <2>1, <2>2, EmitShows DEF StageStep, SilentStep, RunningStages
  <1>5. ASSUME NEW s \in Sides, SideEnds(s)
        PROVE  SilentStep
    BY <1>5 DEF SideEnds, SilentStep
  <1>6. ASSUME NEW s \in Sides, SideRaises(s)
        PROVE  SilentStep \/ LastStep
    <2>1. side[s] = "busy" /\ side'[s] = "raised"
      BY <1>6 DEF SideRaises, IInv, TypeOK
    <2>2. CASE at \in {"parse", "profile"}
      <3>1. at' = "over" /\ Emit("failed", 0, job)
        BY <1>6, <2>2 DEF SideRaises, Fail
      <3> QED BY <1>0, <2>1, <2>2, <3>1, EmitShows DEF LastStep
    <2>3. CASE at \notin {"parse", "profile"}
      BY <1>6, <2>3 DEF SideRaises, SilentStep
    <2> QED BY <2>2, <2>3
  <1>7. ASSUME NEW l \in Steps, CallFails(l) \/ CallRaises(l) \/ StepEnds(l)
        PROVE  SilentStep
    BY <1>7 DEF CallFails, CallRaises, StepEnds, SilentStep
  <1>8. ASSUME NEW l \in Steps, StepRaises(l)
        PROVE  StageStep
    <2>1. at \notin {"start", "over"} /\ at' = at
      BY <1>8 DEF StepRaises, IInv, ChecksRunInTheirStages, Working
    <2>2. Emit("checking", FailPercent[l], job)
      BY <1>8 DEF StepRaises
    <2> QED BY <1>0, <2>1, <2>2, EmitShows DEF StageStep, RunningStages
  <1>9. CASE Settle
    <2> DEFINE new == [job EXCEPT !.diffs = found, !.summary = [settled |-> TRUE, told |-> warnings']]
    <2>1. new \in JobRecords
      BY <1>9 DEF Settle, IInv, TypeOK, JobRecords, Summaries
    <2>2. at = "settle" /\ at' = "report" /\ Emit("reporting", 95, new)
      BY <1>9 DEF Settle
    <2> HIDE DEF new
    <2> QED BY <2>1, <2>2, EmitShows DEF StageStep, RunningStages
  <1>10. CASE SettleRaises
    <2>1. at = "settle" /\ at' = "over" /\ Emit("failed", 0, job)
      BY <1>10 DEF SettleRaises, Fail
    <2> QED BY <1>0, <2>1, EmitShows DEF LastStep
  <1>11. CASE WriteReport
    BY <1>11 DEF WriteReport, SilentStep
  <1>12. CASE Finish
    <2>1. at = "report" /\ at' = "over" /\ Emit("done", 100, job)
      BY <1>12 DEF Finish
    <2> QED BY <1>0, <2>1, EmitShows DEF LastStep
  <1> QED BY <1>1, <1>2, <1>3, <1>4, <1>5, <1>6, <1>7, <1>8, <1>9, <1>10, <1>11, <1>12 DEF Next

(* The outcome is open until run() is over, and is not shown before. *)
OutcomeInv ==
  /\ at = "start" => shown = "none"
  /\ at # "over" => job.status \notin {"done", "failed"} /\ shown \notin {"done", "failed"}
  /\ at = "over" => job.status \in {"done", "failed"}

LEMMA OutcomeIsOpen == Spec => []OutcomeInv
PROOF
  <1>1. Init => OutcomeInv
    BY DEF Init, OutcomeInv
  <1>2. IInv /\ OutcomeInv /\ [Next]_vars => OutcomeInv'
    BY StepKinds DEF OutcomeInv, SilentStep, FirstStep, StageStep, LastStep, RunningStages
  <1> QED BY <1>1, <1>2, Invariance, PTL DEF Spec

(* No check fails the job: what makes it fail is a report that cannot be   *)
(* parsed or profiled, or a summary that cannot be built.                  *)
THEOREM ChecksNeverFailTheJob == Spec => ChecksAreNotFatal
PROOF
  <1>1. IInv /\ [Next]_vars =>
          [job.status # "failed" /\ job'.status = "failed" =>
             at = "settle" \/ \E s \in Sides : side[s] = "busy" /\ side'[s] = "raised"]_vars
    BY StepKinds DEF SilentStep, FirstStep, StageStep, LastStep, RunningStages
  <1> QED BY <1>1, Invariance, PTL DEF Spec, ChecksAreNotFatal

(* Orchestrator implements the contract that the runner reads the files of *)
(* a worker with.                                                          *)
THEOREM ImplementsContract == Spec => KeepsContract
PROOF
  <1> USE DEF Seen, Contract!vars, Contract!Outcomes
  <1>1. Init => Contract!Init
    BY DEF Init, Contract!Init
  <1>2. ASSUME IInv, OutcomeInv, [Next]_vars
        PROVE  [Contract!Emit \/ Contract!Conclude \/ Contract!ConcludeUnseen]_Contract!vars
    <2>1. CASE SilentStep
      BY <2>1 DEF SilentStep
    <2>2. CASE FirstStep
      BY <1>2, <2>2 DEF FirstStep, OutcomeInv, Contract!Emit
    <2>3. CASE StageStep
      BY <1>2, <2>3 DEF StageStep, OutcomeInv, RunningStages, Contract!Emit
    <2>4. CASE LastStep
      BY <1>2, <2>4 DEF LastStep, OutcomeInv, Contract!Conclude, Contract!ConcludeUnseen
    <2> QED BY <1>2, <2>1, <2>2, <2>3, <2>4, StepKinds
  <1> QED BY <1>1, <1>2, Invariance, OutcomeIsOpen, PTL DEF Spec, KeepsContract, Contract!Spec

=============================================================================
