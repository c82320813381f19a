----------------------------- MODULE MCScheduler -----------------------------
(* Instances of Scheduler small enough for TLC. *)
EXTENDS Scheduler

CONSTANTS e1, e2, e3

ThreeEvents == {e1, e2, e3}
=============================================================================
