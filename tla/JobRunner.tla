------------------------------- MODULE JobRunner -------------------------------
(***************************************************************************)
(* The life of a job inside the API process: create_job schedules run_job  *)
(* on the event loop, run_job queues on the asyncio semaphore, spawns one  *)
(* worker process and supervises it through the files of the job's         *)
(* directory, and writes what it learns into the jobs table.  The API      *)
(* process may stop at any moment and be started again; its workers then   *)
(* live on as orphans.                                                     *)
(*                                                                         *)
(* An action runs from one await of the event loop to the next.  The jobs  *)
(* row is {status, result}: the five running statuses of JobStatus are     *)
(* "pending" and "running" (parsing .. reporting), result says that the    *)
(* row holds the finished Job and not just a progress record.              *)
(***************************************************************************)
EXTENDS Naturals, SequencesExt

CONSTANTS
  Jobs,            \* job ids
  NoJob,           \* the None of _running_job_id
  MaxConcurrency,  \* settings.job_max_concurrency
  HasPsutil,       \* is psutil importable
  MaxFaults,       \* bound: database accesses that raise or find the table locked
  MaxRestarts      \* bound: stops of the API process

ASSUME JobsAssumption == IsFiniteSet(Jobs) /\ NoJob \notin Jobs
ASSUME LimitAssumption == MaxConcurrency \in Nat \ {0}
ASSUME BoundAssumption == /\ HasPsutil \in BOOLEAN
                          /\ MaxFaults \in Nat
                          /\ MaxRestarts \in Nat

VARIABLES
  apiUp,     \* the API process is running
  ready,     \* run_job tasks the event loop has not started yet
  permits,   \* asyncio.Semaphore: _value
  waiters,   \* asyncio.Semaphore: _waiters
  woken,     \* how many waiters at the front were handed a permit
  queued,    \* _queued_job_ids
  slot,      \* _running_job_id
  task,      \* where the run_job task of a job is
  worker,    \* the worker process of a job
  progress,  \* progress.json: the status in it
  unread,    \* progress.json differs from last_progress_text
  result,    \* result.json: the status in it
  heartbeat, \* heartbeat.json exists
  row,       \* the row of the jobs table
  faults,    \* database accesses that failed so far
  restarts   \* stops of the API process so far

loopVars  == <<ready, permits, waiters, woken, queued, slot>>
fileVars  == <<progress, unread, result, heartbeat>>
countVars == <<faults, restarts>>
vars == <<apiUp, loopVars, task, worker, fileVars, row, countVars>>

Admitted   == {"spawning", "watching", "killing"}    \* inside `async with sem`
TaskStates == Admitted \cup {"none", "ready", "waiting", "over", "lost"}

(* "done"/"failed": the orchestrator returned that outcome and emitted it, *)
(* result.json is not written yet; "wrote": it is.                         *)
Beating == {"running", "done", "failed", "wrote"}
Alive   == Beating \cup {"booting"}
WorkerStates == Alive \cup {"none", "exited", "dead"}

RunningOrDone == {"pending", "running", "done"}      \* a mutant of Running
Running  == {"pending", "running"}                   \* _RUNNING_JOB_STATUSES
Terminal == {"done", "failed"}
Rows     == [status : Running \cup Terminal \cup {"absent"}, result : BOOLEAN]
FailedRow == [status |-> "failed", result |-> FALSE]

TypeOK ==
  /\ apiUp \in BOOLEAN
  /\ ready \in Seq(Jobs) /\ waiters \in Seq(Jobs) /\ queued \in Seq(Jobs)
  /\ permits \in Nat /\ woken \in 0..Len(waiters)
  /\ slot \in Jobs \cup {NoJob}
  /\ task \in [Jobs -> TaskStates]
  /\ worker \in [Jobs -> WorkerStates]
  /\ progress \in [Jobs -> Running \cup Terminal \cup {"none"}]
  /\ unread \in [Jobs -> BOOLEAN]
  /\ result \in [Jobs -> Terminal \cup {"none"}]
  /\ heartbeat \in [Jobs -> BOOLEAN]
  /\ row \in [Jobs -> Rows]
  /\ faults \in Nat /\ restarts \in Nat

Init ==
  /\ apiUp = TRUE
  /\ ready = <<>> /\ waiters = <<>> /\ woken = 0 /\ queued = <<>>
  /\ permits = MaxConcurrency
  /\ slot = NoJob
  /\ task = [j \in Jobs |-> "none"]
  /\ worker = [j \in Jobs |-> "none"]
  /\ progress = [j \in Jobs |-> "none"]
  /\ unread = [j \in Jobs |-> FALSE]
  /\ result = [j \in Jobs |-> "none"]
  /\ heartbeat = [j \in Jobs |-> FALSE]
  /\ row = [j \in Jobs |-> [status |-> "absent", result |-> FALSE]]
  /\ faults = 0 /\ restarts = 0

-----------------------------------------------------------------------------
(* create_job: the pending row is saved, then run_job is scheduled. *)
Submit(j) ==
  /\ apiUp
  /\ row[j].status = "absent"
  /\ row' = [row EXCEPT ![j] = [status |-> "pending", result |-> FALSE]]
  /\ ready' = Append(ready, j)
  /\ task' = [task EXCEPT ![j] = "ready"]
  /\ UNCHANGED <<apiUp, permits, waiters, woken, queued, slot, worker,
                 fileVars, countVars>>

(* Semaphore.locked(): no permit, or somebody is waiting in front. *)
Locked == permits = 0 \/ waiters # <<>>

(* The body of `async with sem` up to its first await: the old files of    *)
(* the job directory are unlinked and the spawn is requested.              *)
Enter(j) ==
  /\ slot' = j
  /\ task' = [task EXCEPT ![j] = "spawning"]
  /\ progress' = [progress EXCEPT ![j] = "none"]
  /\ unread' = [unread EXCEPT ![j] = FALSE]
  /\ result' = [result EXCEPT ![j] = "none"]
  /\ heartbeat' = [heartbeat EXCEPT ![j] = FALSE]

(* run_job starts and finds a free permit. *)
StartNow(j) ==
  /\ ready # <<>> /\ j = Head(ready)
  /\ ~Locked
  /\ ready' = Tail(ready)
  /\ permits' = permits - 1
  /\ queued' = RemoveFirst(queued, j)
  /\ Enter(j)
  /\ UNCHANGED <<apiUp, waiters, woken, worker, row, countVars>>

(* Mutant: the job takes its place in front of the line. *)
StartQueuedInFront(j) ==
  /\ ready # <<>> /\ j = Head(ready)
  /\ Locked
  /\ ready' = Tail(ready)
  /\ queued' = Append(queued, j)
  /\ waiters' = <<j>> \o waiters
  /\ task' = [task EXCEPT ![j] = "waiting"]
  /\ row' = [row EXCEPT ![j].status = "pending"]
  /\ UNCHANGED <<apiUp, permits, woken, slot, worker, fileVars, countVars>>

(* run_job starts and has to wait: it is marked queued and the queued      *)
(* progress record is written over the pending row; an exception of that   *)
(* write is swallowed and leaves the same row.                             *)
StartQueued(j) ==
  /\ ready # <<>> /\ j = Head(ready)
  /\ Locked
  /\ ready' = Tail(ready)
  /\ queued' = IF j \in ToSet(queued) THEN queued ELSE Append(queued, j)
  /\ waiters' = Append(waiters, j)
  /\ task' = [task EXCEPT ![j] = "waiting"]
  /\ row' = [row EXCEPT ![j].status = "pending"]
  /\ UNCHANGED <<apiUp, permits, woken, slot, worker, fileVars, countVars>>

(* Mutant: the resumed waiter stays marked as queued. *)
ResumeStillQueued(j) ==
  /\ woken > 0 /\ j = Head(waiters)
  /\ waiters' = Tail(waiters)
  /\ LET n == Min({permits, Len(waiters) - woken})
     IN /\ permits' = permits - n
        /\ woken' = (woken - 1) + n
  /\ Enter(j)
  /\ UNCHANGED <<apiUp, ready, queued, worker, row, countVars>>

(* A woken waiter resumes inside acquire(): it leaves the deque, and its   *)
(* `finally` hands on permits that were freed while it was on its way.     *)
Resume(j) ==
  /\ woken > 0 /\ j = Head(waiters)
  /\ waiters' = Tail(waiters)
  /\ LET n == Min({permits, Len(waiters) - woken})
     IN /\ permits' = permits - n
        /\ woken' = (woken - 1) + n
  /\ queued' = RemoveFirst(queued, j)
  /\ Enter(j)
  /\ UNCHANGED <<apiUp, ready, worker, row, countVars>>

(* Mutants: release() wakes nobody, wakes and keeps the permit as well, or *)
(* the slot is not cleared.                                                *)
LeaveWakesNobody(j) ==
  /\ slot' = NoJob
  /\ task' = [task EXCEPT ![j] = "over"]
  /\ queued' = RemoveFirst(queued, j)
  /\ permits' = permits + 1
  /\ UNCHANGED <<ready, waiters, woken>>

LeaveTwice(j) ==
  /\ slot' = NoJob
  /\ task' = [task EXCEPT ![j] = "over"]
  /\ queued' = RemoveFirst(queued, j)
  /\ permits' = permits + 1
  /\ woken' = IF woken < Len(waiters) THEN woken + 1 ELSE woken
  /\ UNCHANGED <<ready, waiters>>

LeaveKeepsSlot(j) ==
  /\ task' = [task EXCEPT ![j] = "over"]
  /\ queued' = RemoveFirst(queued, j)
  /\ IF woken < Len(waiters)
     THEN woken' = woken + 1 /\ UNCHANGED permits
     ELSE permits' = permits + 1 /\ UNCHANGED woken
  /\ UNCHANGED <<ready, waiters, slot>>

(* Leaving `async with sem`: the slot is cleared, the permit goes to the   *)
(* first waiter that has none yet or back to the semaphore.                *)
Leave(j) ==
  /\ slot' = NoJob
  /\ task' = [task EXCEPT ![j] = "over"]
  /\ queued' = RemoveFirst(queued, j)
  /\ IF woken < Len(waiters)
     THEN woken' = woken + 1 /\ UNCHANGED permits
     ELSE permits' = permits + 1 /\ UNCHANGED woken
  /\ UNCHANGED <<ready, waiters>>

(* The closing writes of a job.  base is the row before them, best what    *)
(* the first write stores; each write that raises is followed by an        *)
(* attempt to store the failure, `attempts` in all, the last one in        *)
(* run_job's own handler.  If that raises too the row keeps base.          *)
Settle(j, base, best, attempts) ==
  \E k \in 0..attempts :
    /\ faults + k <= MaxFaults
    /\ faults' = faults + k
    /\ row' = [row EXCEPT ![j] = IF k = 0 THEN best
                                 ELSE IF k < attempts THEN FailedRow
                                 ELSE base]
    /\ heartbeat' = IF k + 1 < attempts THEN [heartbeat EXCEPT ![j] = FALSE]
                    ELSE heartbeat

Spawned(j) ==
  /\ task[j] = "spawning"
  /\ worker' = [worker EXCEPT ![j] = "booting"]
  /\ task' = [task EXCEPT ![j] = "watching"]
  /\ UNCHANGED <<apiUp, loopVars, fileVars, row, countVars>>

(* mkdir, job.json or create_subprocess_exec raised. *)
SpawnFailed(j) ==
  /\ task[j] = "spawning"
  /\ Settle(j, row[j], FailedRow, 1)
  /\ Leave(j)
  /\ UNCHANGED <<apiUp, worker, progress, unread, result, restarts>>

(* The row after _persist_progress_if_changed.  A write that raises is     *)
(* logged and the text counts as seen all the same.                        *)
AfterProgress(j) ==
  IF unread[j] THEN {[row[j] EXCEPT !.status = progress[j]], row[j]} ELSE {row[j]}

ProgressFaults(j, r) ==
  IF unread[j] /\ r # [row[j] EXCEPT !.status = progress[j]] THEN 1 ELSE 0

(* proc.wait() timed out after two seconds, nothing is overdue. *)
Poll(j) ==
  /\ task[j] = "watching" /\ worker[j] \in Alive
  /\ \E r \in AfterProgress(j) :
       /\ faults + ProgressFaults(j, r) <= MaxFaults
       /\ faults' = faults + ProgressFaults(j, r)
       /\ row' = [row EXCEPT ![j] = r]
  /\ unread' = [unread EXCEPT ![j] = FALSE]
  /\ UNCHANGED <<apiUp, loopVars, task, worker, progress, result, heartbeat,
                 restarts>>

(* Mutant: the overdue process is not killed. *)
PollSpares(j) ==
  /\ task[j] = "watching" /\ worker[j] \in Alive
  /\ unread' = [unread EXCEPT ![j] = FALSE]
  /\ task' = [task EXCEPT ![j] = "killing"]
  /\ UNCHANGED <<apiUp, loopVars, worker, progress, result, heartbeat, row,
                 countVars>>

(* proc.wait() timed out and the job timeout or the heartbeat is overdue:  *)
(* the progress is persisted as in Poll, then the process is killed.       *)
PollKill(j) ==
  /\ task[j] = "watching" /\ worker[j] \in Alive
  /\ \E r \in AfterProgress(j) :
       /\ faults + ProgressFaults(j, r) <= MaxFaults
       /\ faults' = faults + ProgressFaults(j, r)
       /\ row' = [row EXCEPT ![j] = r]
  /\ unread' = [unread EXCEPT ![j] = FALSE]
  /\ worker' = [worker EXCEPT ![j] = "dead"]
  /\ task' = [task EXCEPT ![j] = "killing"]
  /\ UNCHANGED <<apiUp, loopVars, progress, result, heartbeat, restarts>>

(* The killed process was reaped. *)
Reaped(j) ==
  /\ task[j] = "killing"
  /\ Settle(j, row[j], FailedRow, 2)
  /\ Leave(j)
  /\ UNCHANGED <<apiUp, worker, progress, unread, result, restarts>>

(* Mutant: the last progress is persisted after the result. *)
WorkerGoneProgressLast(j) ==
  /\ task[j] = "watching" /\ worker[j] \in {"exited", "dead"}
  /\ LET best == IF result[j] # "none" THEN [status |-> result[j], result |-> TRUE]
                 ELSE FailedRow
         last == IF unread[j] THEN [status |-> progress[j], result |-> FALSE] ELSE best
     IN Settle(j, row[j], last, 2)
  /\ unread' = [unread EXCEPT ![j] = FALSE]
  /\ Leave(j)
  /\ UNCHANGED <<apiUp, worker, progress, result, restarts>>

(* proc.wait() returned: the last progress is persisted, then result.json, *)
(* when there is one, whatever the exit code.                              *)
WorkerGone(j) ==
  /\ task[j] = "watching" /\ worker[j] \in {"exited", "dead"}
  /\ \E r \in AfterProgress(j) :
       IF result[j] # "none"
       THEN Settle(j, r, [status |-> result[j], result |-> TRUE], 3)
       ELSE Settle(j, r, FailedRow, 2)
  /\ unread' = [unread EXCEPT ![j] = FALSE]
  /\ Leave(j)
  /\ UNCHANGED <<apiUp, worker, progress, result, restarts>>

(* Mutants: no margin, the sweep overtakes the supervisor; only rows that  *)
(* a stop left behind are looked at.                                       *)
AbandonedByStop(j) == row[j].status = "running" /\ task[j] = "lost"
AbandonedOrSlow(j) == row[j].status = "running"

(* The periodic sweep fails rows that look abandoned.  It skips pending    *)
(* rows.  That a row whose task is still running never looks abandoned is  *)
(* the subject of module Supervision, and assumed here.  A round that is   *)
(* lost, to a locked table or an exception, changes nothing: it is a       *)
(* stuttering step here, and counted in Supervision.                       *)
Abandoned(j) == row[j].status = "running" /\ task[j] \in {"over", "lost"}

Sweep ==
  /\ apiUp
  /\ \E stale \in SUBSET {j \in Jobs : Abandoned(j)} :
       /\ stale # {}
       /\ row' = [j \in Jobs |-> IF j \in stale
                                 THEN [row[j] EXCEPT !.status = "failed"]
                                 ELSE row[j]]
  /\ UNCHANGED <<apiUp, loopVars, task, worker, fileVars, countVars>>

-----------------------------------------------------------------------------
(* The worker process (ahcc.worker). *)

Boot(j) ==
  /\ worker[j] = "booting"
  /\ worker' = [worker EXCEPT ![j] = "running"]
  /\ heartbeat' = [heartbeat EXCEPT ![j] = TRUE]
  /\ UNCHANGED <<apiUp, loopVars, task, progress, unread, result, row, countVars>>

(* The heartbeat thread, which rewrites the file when somebody removed it. *)
Beat(j) ==
  /\ worker[j] \in Beating
  /\ ~heartbeat[j]
  /\ heartbeat' = [heartbeat EXCEPT ![j] = TRUE]
  /\ UNCHANGED <<apiUp, loopVars, task, worker, progress, unread, result, row,
                 countVars>>

(* _progress_callback while the orchestrator runs: PENDING comes first,    *)
(* unless its write failed, which the callback swallows.                   *)
Emit(j) ==
  /\ worker[j] = "running"
  /\ \E s \in {"pending", "running"} :
       /\ s = "pending" => progress[j] = "none"
       /\ progress' = [progress EXCEPT ![j] = s]
  /\ unread' = [unread EXCEPT ![j] = TRUE]
  /\ UNCHANGED <<apiUp, loopVars, task, worker, result, heartbeat, row, countVars>>

(* Mutant: the last emission is not the outcome. *)
ConcludeOtherwise(j) ==
  /\ worker[j] = "running"
  /\ \E s, t \in Terminal :
       /\ worker' = [worker EXCEPT ![j] = s]
       /\ progress' = [progress EXCEPT ![j] = t]
  /\ unread' = [unread EXCEPT ![j] = TRUE]
  /\ UNCHANGED <<apiUp, loopVars, task, result, heartbeat, row, countVars>>

(* The orchestrator returns; its last emission was DONE or FAILED. *)
Conclude(j) ==
  /\ worker[j] = "running"
  /\ \E s \in Terminal :
       /\ worker' = [worker EXCEPT ![j] = s]
       /\ progress' = [progress EXCEPT ![j] = s]
  /\ unread' = [unread EXCEPT ![j] = TRUE]
  /\ UNCHANGED <<apiUp, loopVars, task, result, heartbeat, row, countVars>>

(* The last emission was not written, which the callback swallows, or an   *)
(* exception left the orchestrator and makes a failed Job.                 *)
ConcludeUnseen(j) ==
  /\ worker[j] = "running"
  /\ \E s \in Terminal : worker' = [worker EXCEPT ![j] = s]
  /\ UNCHANGED <<apiUp, loopVars, task, fileVars, row, countVars>>

WriteResult(j) ==
  /\ worker[j] \in Terminal
  /\ result' = [result EXCEPT ![j] = worker[j]]
  /\ worker' = [worker EXCEPT ![j] = "wrote"]
  /\ UNCHANGED <<apiUp, loopVars, task, progress, unread, heartbeat, row, countVars>>

Exit(j) ==
  /\ worker[j] = "wrote"
  /\ worker' = [worker EXCEPT ![j] = "exited"]
  /\ UNCHANGED <<apiUp, loopVars, task, fileVars, row, countVars>>

(* A native crash, or an exit that skipped result.json. *)
Die(j) ==
  /\ worker[j] \in Alive
  /\ worker' = [worker EXCEPT ![j] = "dead"]
  /\ UNCHANGED <<apiUp, loopVars, task, fileVars, row, countVars>>

-----------------------------------------------------------------------------
(* The API process stops: tasks, semaphore and queue state are memory. *)
Stop ==
  /\ apiUp /\ restarts < MaxRestarts
  /\ apiUp' = FALSE
  /\ restarts' = restarts + 1
  /\ ready' = <<>> /\ waiters' = <<>> /\ woken' = 0 /\ queued' = <<>>
  /\ permits' = MaxConcurrency
  /\ slot' = NoJob
  /\ task' = [j \in Jobs |-> IF task[j] \in {"none", "over"} THEN task[j] ELSE "lost"]
  /\ UNCHANGED <<worker, fileVars, row, faults>>

(* _cleanup_orphan_workers.  Without psutil the loop returns at the first  *)
(* heartbeat file, and removes that one on the way out.                    *)
CleanupOrphans ==
  IF HasPsutil
  THEN /\ worker' = [j \in Jobs |-> IF heartbeat[j] /\ worker[j] \in Alive
                                    THEN "dead" ELSE worker[j]]
       /\ heartbeat' = [j \in Jobs |-> FALSE]
  ELSE /\ UNCHANGED worker
       /\ IF \E j \in Jobs : heartbeat[j]
          THEN \E j \in Jobs : /\ heartbeat[j]
                               /\ heartbeat' = [heartbeat EXCEPT ![j] = FALSE]
          ELSE UNCHANGED heartbeat

(* _mark_running_jobs_failed over every row left in a running status, one  *)
(* transaction.                                                            *)
InterruptedFailed ==
  row' = [j \in Jobs |-> IF row[j].status \in Running
                         THEN [row[j] EXCEPT !.status = "failed"] ELSE row[j]]

(* lifespan: orphans first, then the rows.  A table that is locked when    *)
(* they are read counts as one without such rows, and the service comes up *)
(* with every row as it was; any other error of the database leaves        *)
(* lifespan, and the service does not come up.                             *)
Restart ==
  /\ ~apiUp
  /\ CleanupOrphans
  /\ \/ apiUp' = TRUE /\ InterruptedFailed /\ UNCHANGED faults
     \/ /\ faults < MaxFaults /\ faults' = faults + 1
        /\ apiUp' \in BOOLEAN
        /\ UNCHANGED row
  /\ UNCHANGED <<loopVars, task, progress, unread, result, restarts>>

-----------------------------------------------------------------------------
LoopStep(j) ==
  \/ StartNow(j) \/ StartQueued(j) \/ Resume(j)
  \/ Spawned(j) \/ SpawnFailed(j) \/ Reaped(j) \/ WorkerGone(j)

WorkerStep(j) ==
  \/ Boot(j) \/ Beat(j) \/ Emit(j) \/ Conclude(j) \/ ConcludeUnseen(j)
  \/ WriteResult(j) \/ Exit(j) \/ Die(j)

Next ==
  \/ \E j \in Jobs : Submit(j) \/ LoopStep(j) \/ Poll(j) \/ PollKill(j) \/ WorkerStep(j)
  \/ Sweep \/ Stop \/ Restart

Spec == Init /\ [][Next]_vars

(* The event loop runs what is ready, a service that stopped is started    *)
(* again, the sweep runs every minute and not all its rounds are lost, and *)
(* a worker that does not end on its own is overdue one day.  Nothing is   *)
(* assumed of the worker: it may hang anywhere.                            *)
Fairness ==
  /\ \A j \in Jobs : WF_vars(LoopStep(j)) /\ WF_vars(PollKill(j))
  /\ WF_vars(Sweep) /\ WF_vars(Restart)

FairSpec == Spec /\ Fairness

-----------------------------------------------------------------------------
(* Properties. *)

Holders == {j \in Jobs : task[j] \in Admitted}

(* Every permit of the semaphore is in exactly one place: free, on its way *)
(* to a waiter, or held by a job inside `async with sem`.  Losing or       *)
(* duplicating one over releases, wake-ups and late arrivals would starve  *)
(* the queue or run more workers than job_max_concurrency.                 *)
PermitsConserved == permits + woken + Cardinality(Holders) = MaxConcurrency

(* A free permit never stays free beside a waiting job: either nobody      *)
(* waits for one or a woken waiter is about to hand it on (Resume).        *)
WorkConserving == permits > 0 /\ woken < Len(waiters) => woken > 0

(* What /health and the job page show as the queue, _queued_job_ids, is    *)
(* exactly the semaphore's own line: same jobs, same order, so that        *)
(* queue_position is the number of the job's turn.                         *)
QueueIsLine == queued = waiters

(* A job stands at one place at a time: not twice in a line, and in the    *)
(* line or among the unstarted tasks exactly when its task says so.        *)
Injective(s) == \A i, k \in 1..Len(s) : s[i] = s[k] => i = k
LinesMatchTasks ==
  /\ Injective(ready) /\ Injective(waiters)
  /\ \A j \in Jobs : /\ task[j] = "ready" <=> j \in ToSet(ready)
                     /\ task[j] = "waiting" <=> j \in ToSet(waiters)

(* No worker process runs without somebody who will kill or reap it, other *)
(* than the orphans of a service that stopped: run_job never returns, not  *)
(* even by an exception, while its process lives.                          *)
NoLeakedWorker ==
  \A j \in Jobs : worker[j] \in Alive => task[j] \in {"watching", "lost"}

(* When no database write raised, a job whose run_job returned is settled: *)
(* its row is terminal, and "done" comes with the result of the worker.    *)
OverIsSettled ==
  faults = 0 => \A j \in Jobs : task[j] = "over" =>
    /\ row[j].status \in Terminal
    /\ row[j].status = "done" => row[j].result /\ result[j] = "done"

(* What a row says can be told from the rest: nothing was written about a  *)
(* job before its worker was watched, a row that says failed while the     *)
(* worker is still looked after was written by that worker, whose result   *)
(* can then only be a failure too, a result is only in the row of a job    *)
(* that is over, and no task survives the service.                         *)
RowFollowsWorker ==
  /\ \A j \in Jobs :
       /\ task[j] \in {"none", "ready", "waiting", "spawning"} =>
            /\ worker[j] = "none" /\ progress[j] = "none" /\ result[j] = "none"
            /\ row[j].status \in {"absent", "pending"}
       /\ task[j] = "none" => row[j].status = "absent"
       /\ worker[j] \notin {"wrote", "exited", "dead"} => result[j] = "none"
       /\ task[j] \in {"watching", "killing"} /\ row[j].status = "failed" =>
            progress[j] = "failed"
       /\ progress[j] = "failed" =>
            /\ worker[j] \notin {"none", "booting", "running", "done"}
            /\ result[j] \in {"none", "failed"}
       /\ row[j].result => row[j].status \in Terminal /\ task[j] = "over"
  /\ ~apiUp => \A j \in Jobs : task[j] \in {"none", "over", "lost"}

(* current_running_job_id is None exactly when no job holds the semaphore: *)
(* so with one permit.  With more, the job that leaves clears the slot of  *)
(* another that still runs, and /health shows an idle service.             *)
RunningSlotHonest == (slot = NoJob) <=> (Holders = {})

(* A failed row is never taken back: neither a late progress record, nor a *)
(* late result, nor the sweep revives it.                                  *)
FailedIsFinal ==
  [][\A j \in Jobs : row[j].status = "failed" => row'[j].status = "failed"]_vars

(* A row that holds the worker's result is never written again, by the     *)
(* supervisor, the sweep or the next start of the service.                 *)
ResultIsFinal == [][\A j \in Jobs : row[j].result => row'[j] = row[j]]_vars

(* Every submitted job reaches a terminal row, even when its worker hangs  *)
(* for good, the service is stopped and started in between, and accesses   *)
(* to the database fail: what a supervisor that died left running, the     *)
(* sweep fails, and what a stop left open, the next start does.  The one   *)
(* exception takes a failed access: the row was still pending when its     *)
(* supervisor died with an exception, or a start on a locked table passed  *)
(* over a pending row.  The sweep skips it, and it stays pending beside a  *)
(* running service that has no task for it, until the start after.         *)
PassedOver(j) ==
  apiUp /\ task[j] \in {"over", "lost"} /\ row[j].status = "pending" /\ faults > 0

EveryJobSettles ==
  \A j \in Jobs : row[j].status # "absent" ~>
    row[j].status \in Terminal \/ PassedOver(j)

(* Nothing a submitted job needs is ever held for good: from any state the *)
(* semaphore ends up with all its permits and nobody in line.              *)
PermitsComeBack == (Holders # {} \/ waiters # <<>>) ~> (Holders = {} /\ waiters = <<>>)

(* The mapping to BoundedExecutor: a job is in line until it owns a permit *)
(* and active from the moment one was handed to it.                        *)
Line   == SubSeq(waiters, woken + 1, Len(waiters)) \o ready
Active == Holders \cup {waiters[i] : i \in 1..woken}

Executor == INSTANCE BoundedExecutor WITH line <- Line, active <- Active

(* Submission order is admission order, and never more than MaxConcurrency *)
(* jobs are active.                                                        *)
ImplementsExecutor == Executor!Spec

=============================================================================
