----------------------------- MODULE MCSupervision -----------------------------
(* Instances of Supervision for TLC: the ages stop at a horizon. *)
EXTENDS Supervision

Horizon == StaleAfter + (MaxLost + 1) * SweepEvery + 2

WithinHorizon == progressAge <= Horizon /\ emitAge <= Horizon /\ elapsed <= Horizon

=============================================================================
