------------------------------ MODULE Supervision ------------------------------
(***************************************************************************)
(* The clocks around one job: the two-second poll of its supervisor, the   *)
(* job timeout, the worker's heartbeat, and the minute sweep that fails    *)
(* rows whose last_progress_at is too old.  JobRunner leaves open when a   *)
(* timeout strikes and assumes that the sweep never meets a row whose      *)
(* supervisor is at work; here the times are explicit.                     *)
(*                                                                         *)
(* Time passes in Tick; a step that is due holds it back, so that delays   *)
(* beyond the ones named in the constants are not modelled.  Sweep looks   *)
(* at every row on its own, so one job is enough.                          *)
(***************************************************************************)
EXTENDS Naturals

CONSTANTS
  PollEvery,       \* _POLL_INTERVAL_SECONDS
  KillWait,        \* how long _kill waits for the process, at most
  BootTime,        \* spawn to first heartbeat, at most
  BeatEvery,       \* _HEARTBEAT_INTERVAL_SECONDS
  HeartbeatStale,  \* settings.job_heartbeat_stale_seconds
  JobTimeout,      \* settings.job_timeout_seconds
  Margin,          \* the 120 seconds the sweep adds to JobTimeout
  SweepEvery,      \* pause between two sweeps, the wait for a lock included
  MaxLost          \* bound: rounds of the sweep lost in a row

ASSUME ClockAssumption ==
  /\ PollEvery \in Nat \ {0} /\ KillWait \in Nat /\ BootTime \in Nat
  /\ BeatEvery \in Nat \ {0} /\ SweepEvery \in Nat \ {0}
  /\ HeartbeatStale \in Nat /\ JobTimeout \in Nat /\ Margin \in Nat /\ MaxLost \in Nat

(* The poll and the kill fit into the margin; a heartbeat in time is not   *)
(* a stale one.                                                            *)
ASSUME MarginAssumption == PollEvery + KillWait <= Margin
ASSUME BeatAssumption == BootTime <= HeartbeatStale /\ BeatEvery <= HeartbeatStale

VARIABLES
  supervisor,   \* the run_job task
  process,      \* its worker
  status,       \* status in the jobs table
  failedBy,     \* who decided that the job failed (history)
  unseen,       \* an emission the supervisor did not see yet
  elapsed,      \* since the spawn
  sincePoll,    \* since the supervisor began to wait
  killing,      \* since proc.kill()
  beatAge,      \* age of heartbeat.json, of the spawn while there is none
  emitAge,      \* age of the last emission in progress.json
  progressAge,  \* age of last_progress_at in the row
  sinceSweep,   \* since the last round of the sweep
  lost          \* rounds lost since the last one that read the table

ages == <<elapsed, sincePoll, killing, beatAge, emitAge, progressAge, sinceSweep>>
clockVars == <<supervisor, process, status, failedBy, unseen, lost, ages>>

NoMargin == JobTimeout                      \* a mutant of StaleAfter
StaleAfter == JobTimeout + Margin

ClocksTypeOK ==
  /\ supervisor \in {"queued", "watching", "killing", "over", "crashed"}
  /\ process \in {"none", "booting", "healthy", "hung", "gone"}
  /\ status \in {"pending", "running", "done", "failed"}
  /\ failedBy \in {"nobody", "timeout", "heartbeat", "worker", "sweep"}
  /\ unseen \in BOOLEAN
  /\ elapsed \in Nat /\ sincePoll \in Nat /\ killing \in Nat /\ beatAge \in Nat
  /\ emitAge \in Nat /\ progressAge \in Nat /\ sinceSweep \in Nat
  /\ lost \in 0..MaxLost

ClocksInit ==
  /\ supervisor = "queued" /\ process = "none" /\ status = "pending"
  /\ failedBy = "nobody" /\ unseen = FALSE
  /\ elapsed = 0 /\ sincePoll = 0 /\ killing = 0 /\ beatAge = 0
  /\ emitAge = 0 /\ progressAge = 0 /\ sinceSweep = 0 /\ lost = 0

(* Whatever has to happen at this very moment. *)
Due ==
  \/ supervisor = "watching" /\ (sincePoll >= PollEvery \/ process = "gone")
  \/ supervisor = "killing" /\ killing >= KillWait
  \/ process = "booting" /\ beatAge >= BootTime
  \/ process = "healthy" /\ beatAge >= BeatEvery
  \/ sinceSweep >= SweepEvery

Tick ==
  /\ ~Due
  /\ elapsed' = elapsed + 1 /\ sincePoll' = sincePoll + 1 /\ killing' = killing + 1
  /\ beatAge' = beatAge + 1 /\ emitAge' = emitAge + 1
  /\ progressAge' = progressAge + 1 /\ sinceSweep' = sinceSweep + 1
  /\ UNCHANGED <<supervisor, process, status, failedBy, unseen, lost>>

(* The semaphore admits the job and its worker is spawned. *)
Spawn ==
  /\ supervisor = "queued"
  /\ supervisor' = "watching" /\ process' = "booting"
  /\ elapsed' = 0 /\ sincePoll' = 0 /\ beatAge' = 0
  /\ UNCHANGED <<status, failedBy, unseen, lost, killing, emitAge, progressAge, sinceSweep>>

Heartbeat ==
  /\ process \in {"booting", "healthy"}
  /\ process' = "healthy" /\ beatAge' = 0
  /\ UNCHANGED <<supervisor, status, failedBy, unseen, lost, elapsed, sincePoll, killing,
                 emitAge, progressAge, sinceSweep>>

EmitsProgress ==
  /\ process = "healthy"
  /\ unseen' = TRUE /\ emitAge' = 0
  /\ UNCHANGED <<supervisor, process, status, failedBy, lost, elapsed, sincePoll, killing,
                 beatAge, progressAge, sinceSweep>>

(* A C extension keeps the GIL: no heartbeat, no emission, no exit. *)
Hang ==
  /\ process \in {"booting", "healthy"}
  /\ process' = "hung"
  /\ UNCHANGED <<supervisor, status, failedBy, unseen, lost, ages>>

WorkerExits ==
  /\ process \in {"booting", "healthy"}
  /\ process' = "gone"
  /\ UNCHANGED <<supervisor, status, failedBy, unseen, lost, ages>>

(* _persist_progress_if_changed: last_progress_at was set at the emission. *)
(* A write that raises is logged, and the emission counts as seen.         *)
Persist ==
  \/ unseen /\ status' = "running" /\ progressAge' = emitAge
  \/ UNCHANGED <<status, progressAge>>

(* Mutants: no job timeout; the heartbeat given up one poll too early. *)
PollWithoutTimeout ==
  /\ supervisor = "watching" /\ process # "gone" /\ sincePoll >= PollEvery
  /\ Persist
  /\ unseen' = FALSE
  /\ IF beatAge > HeartbeatStale
     THEN supervisor' = "killing" /\ failedBy' = "heartbeat" /\ killing' = 0 /\ UNCHANGED sincePoll
     ELSE sincePoll' = 0 /\ UNCHANGED <<supervisor, failedBy, killing>>
  /\ UNCHANGED <<process, lost, elapsed, beatAge, emitAge, sinceSweep>>

PollImpatient ==
  /\ supervisor = "watching" /\ process # "gone" /\ sincePoll >= PollEvery
  /\ Persist
  /\ unseen' = FALSE
  /\ IF beatAge >= HeartbeatStale - PollEvery
     THEN supervisor' = "killing" /\ failedBy' = "heartbeat" /\ killing' = 0 /\ UNCHANGED sincePoll
     ELSE sincePoll' = 0 /\ UNCHANGED <<supervisor, failedBy, killing>>
  /\ UNCHANGED <<process, lost, elapsed, beatAge, emitAge, sinceSweep>>

(* One round of the poll loop. *)
PollRound ==
  /\ supervisor = "watching" /\ process # "gone" /\ sincePoll >= PollEvery
  /\ Persist
  /\ unseen' = FALSE
  /\ \/ /\ elapsed > JobTimeout
        /\ supervisor' = "killing" /\ failedBy' = "timeout"
        /\ killing' = 0
        /\ UNCHANGED sincePoll
     \/ /\ elapsed <= JobTimeout /\ beatAge > HeartbeatStale
        /\ supervisor' = "killing" /\ failedBy' = "heartbeat"
        /\ killing' = 0
        /\ UNCHANGED sincePoll
     \/ /\ elapsed <= JobTimeout /\ beatAge <= HeartbeatStale
        /\ sincePoll' = 0
        /\ UNCHANGED <<supervisor, failedBy, killing>>
  /\ UNCHANGED <<process, lost, elapsed, beatAge, emitAge, sinceSweep>>

(* The killed worker is reaped; when the failure cannot be stored the      *)
(* supervisor ends with an exception.                                      *)
KillIsReaped ==
  /\ supervisor = "killing"
  /\ process' = "gone"
  /\ \/ supervisor' = "over" /\ status' = "failed"
     \/ supervisor' = "crashed" /\ UNCHANGED status
  /\ UNCHANGED <<failedBy, unseen, lost, ages>>

(* proc.wait() returned. *)
ProcessGone ==
  /\ supervisor = "watching" /\ process = "gone"
  /\ unseen' = FALSE
  /\ \/ supervisor' = "over" /\ status' = "done" /\ UNCHANGED <<failedBy, progressAge>>
     \/ supervisor' = "over" /\ status' = "failed" /\ failedBy' = "worker" /\ UNCHANGED progressAge
     \/ supervisor' = "crashed" /\ Persist /\ UNCHANGED failedBy
  /\ UNCHANGED <<process, lost, elapsed, sincePoll, killing, beatAge, emitAge, sinceSweep>>

(* Mutant: the margin is counted twice. *)
SweepLate ==
  /\ sinceSweep >= SweepEvery
  /\ sinceSweep' = 0 /\ lost' = 0
  /\ IF status = "running" /\ progressAge > StaleAfter + Margin
     THEN status' = "failed" /\ failedBy' = "sweep"
     ELSE UNCHANGED <<status, failedBy>>
  /\ UNCHANGED <<supervisor, process, unseen, elapsed, sincePoll, killing, beatAge, emitAge,
                 progressAge>>

(* mark_stale_running_jobs_failed; pending rows are skipped. *)
SweepRow ==
  /\ sinceSweep >= SweepEvery
  /\ sinceSweep' = 0 /\ lost' = 0
  /\ IF status = "running" /\ progressAge > StaleAfter
     THEN status' = "failed" /\ failedBy' = "sweep"
     ELSE UNCHANGED <<status, failedBy>>
  /\ UNCHANGED <<supervisor, process, unseen, elapsed, sincePoll, killing, beatAge, emitAge,
                 progressAge>>

(* A round that is lost: a table that is locked when the rows are read     *)
(* counts as one without such rows, and any other exception, which rolls   *)
(* the round's writes back, is swallowed by the loop around it.            *)
LoseRound ==
  /\ sinceSweep >= SweepEvery /\ lost < MaxLost
  /\ sinceSweep' = 0 /\ lost' = lost + 1
  /\ UNCHANGED <<supervisor, process, status, failedBy, unseen, elapsed, sincePoll, killing,
                 beatAge, emitAge, progressAge>>

ClocksNext ==
  \/ Tick \/ Spawn \/ Heartbeat \/ EmitsProgress \/ Hang \/ WorkerExits
  \/ PollRound \/ KillIsReaped \/ ProcessGone \/ SweepRow \/ LoseRound

ClocksSpec == ClocksInit /\ [][ClocksNext]_clockVars

-----------------------------------------------------------------------------
(* The sweep only fails jobs whose supervisor is gone: while run_job is at *)
(* work, however slow the worker emits, the timeout strikes first.         *)
SweepSparesSupervised == failedBy = "sweep" => supervisor = "crashed"

(* A worker that still beats is not killed for a lost heartbeat. *)
BeatingIsNotLost ==
  [][failedBy # "heartbeat" /\ failedBy' = "heartbeat" => process = "hung"]_clockVars

(* A job gives its permit back in time: at the latest when the timeout,    *)
(* one poll and the kill are over, and a hung worker not later than its    *)
(* heartbeat goes stale, however little time it used.                      *)
PermitIsReturned ==
  supervisor \in {"watching", "killing"} =>
    /\ elapsed <= JobTimeout + PollEvery + KillWait
    /\ process = "hung" => beatAge <= HeartbeatStale + PollEvery + KillWait

(* A running row nobody looks after is failed within one sweep of the      *)
(* moment it became stale, and one more for every round that was lost: the *)
(* lost rounds delay the sweep and do nothing else to it.                  *)
AbandonedIsSwept ==
  supervisor = "crashed" /\ status = "running" => progressAge <= StaleAfter + (lost + 1) * SweepEvery

=============================================================================
