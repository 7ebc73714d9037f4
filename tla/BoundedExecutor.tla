---------------------------- MODULE BoundedExecutor ----------------------------
(***************************************************************************)
(* What job_runner promises to whoever submits jobs, without saying how:   *)
(* jobs stand in one line in the order they were submitted, at most        *)
(* MaxConcurrency of them are active, only the front of the line is ever   *)
(* admitted, and a stop of the service loses the line and the active jobs  *)
(* together.  JobRunner implements it (JobRunner!Executor).                *)
(***************************************************************************)
EXTENDS Naturals, Sequences, FiniteSets

CONSTANTS Jobs, MaxConcurrency      \* as in JobRunner

VARIABLES line,    \* submitted jobs that were not admitted yet, in order
          active   \* admitted jobs that did not leave yet

vars == <<line, active>>

TypeOK ==
  /\ line \in Seq(Jobs)
  /\ active \subseteq Jobs

Init ==
  /\ line = <<>>
  /\ active = {}

Arrive(j) ==
  /\ line' = Append(line, j)
  /\ UNCHANGED active

(* The n jobs at the front of the line, as a set. *)
Front(n) == {line[i] : i \in 1..n}

(* Jobs of gone leave and the first n of the line take the free places. *)
Advance(gone, n) ==
  /\ active' = (active \ gone) \cup Front(n)
  /\ line' = SubSeq(line, n + 1, Len(line))
  /\ Cardinality(active') <= MaxConcurrency

Stop ==
  /\ line' = <<>>
  /\ active' = {}

Next ==
  \/ \E j \in Jobs : Arrive(j)
  \/ \E gone \in SUBSET active : \E n \in 0..Len(line) : Advance(gone, n)
  \/ Stop

Spec == Init /\ [][Next]_vars

=============================================================================
