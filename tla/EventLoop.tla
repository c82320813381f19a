------------------------------ MODULE EventLoop ------------------------------
(***************************************************************************)
(* What the ECS scheduler promises to whoever enqueues an event: every     *)
(* event accepted while the loop is open is delivered to the systems once, *)
(* together with everything else that was pending, and an orderly close    *)
(* happens only when nothing is pending.  A loop that is abandoned in the  *)
(* middle of its work may still deliver a batch but promises nothing.      *)
(***************************************************************************)
CONSTANT Event

VARIABLES pending, delivered, open, abandoned

loopVars == <<pending, delivered, open, abandoned>>

LoopInit == pending = {} /\ delivered = {} /\ open = TRUE /\ abandoned = FALSE

Accept ==
  /\ \E S \in SUBSET (Event \ (pending \cup delivered)) : pending' = pending \cup S
  /\ UNCHANGED <<delivered, open, abandoned>>

DeliverBatch ==
  /\ pending # {}
  /\ delivered' = delivered \cup pending
  /\ pending' = {}
  /\ UNCHANGED <<open, abandoned>>

Deliver == open /\ DeliverBatch

DeliverLate == abandoned /\ DeliverBatch

Close ==
  /\ open
  /\ pending = {}
  /\ open' = FALSE
  /\ UNCHANGED <<pending, delivered, abandoned>>

Abandon ==
  /\ open' = FALSE
  /\ abandoned' = TRUE
  /\ UNCHANGED <<pending, delivered>>

LoopNext == Accept \/ Deliver \/ DeliverLate \/ Close \/ Abandon

LoopSafety == LoopInit /\ [][LoopNext]_loopVars

LoopSpec == LoopSafety /\ WF_loopVars(Deliver)
=============================================================================
