---- MODULE MCResultStore ----
(* Instances of ResultStore: one project group, or one group per job; the  *)
(* threads of the pool are interchangeable.                                *)
EXTENDS ResultStore, TLC

OneGroup       == [j \in Jobs |-> "g"]
GroupPerJob    == [j \in Jobs |-> j]
ThreadSymmetry == Permutations(Threads)

(* Bound: repairs of one job at a time. *)
OneJobRepaired == Cardinality(inProgress) <= 1

(* Bound: after one start of the service, the next process is the          *)
(* migration or finds old results current.                                 *)
MigrationIsLast == starts = MaxStarts => \A j \in OldJobs : job[j].version = "current"
====
