------------------------------ MODULE MCJobRunner ------------------------------
(* Instances of JobRunner for TLC. *)
EXTENDS JobRunner

(* The jobs are interchangeable. *)
JobSymmetry == Permutations(Jobs)

(* One failing access to the database or one stop of the service; when     *)
(* both happen, as in a start on a locked table, no job is admitted after  *)
(* them.  The runs with two jobs have both without this limit.             *)
OneMishap == faults + restarts <= 1 \/ Holders = {}

(* For the runs about the queue, which need many jobs: workers that die    *)
(* before they report anything.                                            *)
MuteWorkers == \A j \in Jobs : worker[j] # "running"

=============================================================================
