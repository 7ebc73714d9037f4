---------------------------- MODULE WorkerContract ----------------------------
(***************************************************************************)
(* What the job runner relies on when it reads progress.json and           *)
(* result.json of a worker: the progress says pending, then a running      *)
(* stage, and last, if the write succeeds, the outcome that the result     *)
(* holds; nothing is written after that.                                   *)
(*                                                                         *)
(* Orchestrator implements this.  Emit, Conclude and ConcludeUnseen are    *)
(* how the worker processes of JobRunner behave.                           *)
(***************************************************************************)
VARIABLES
  progress,  \* what progress.json says
  outcome    \* status of the Job that Orchestrator.run returned

vars == <<progress, outcome>>

Outcomes == {"done", "failed"}

Init == progress = "none" /\ outcome = "none"

Emit ==
  /\ outcome = "none"
  /\ \E s \in {"pending", "running"} :
       /\ s = "pending" => progress = "none"
       /\ progress' = s
  /\ UNCHANGED outcome

Conclude ==
  /\ outcome = "none"
  /\ \E s \in Outcomes : outcome' = s /\ progress' = s

ConcludeUnseen ==
  /\ outcome = "none"
  /\ outcome' \in Outcomes
  /\ UNCHANGED progress

Spec == Init /\ [][Emit \/ Conclude \/ ConcludeUnseen]_vars
===============================================================================
