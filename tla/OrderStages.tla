---------------------------- MODULE OrderStages ----------------------------
(***************************************************************************)
(* What the order workflow promises about an order's stage, whichever of   *)
(* the many handlers runs: a stage is entered only from the stages below,  *)
(* production starts only with a SKU, and an order that is resumed after a *)
(* cancellation resumes exactly where it was.  OrderLifecycle implements   *)
(* it for every order that was not imported from a spreadsheet.            *)
(***************************************************************************)
EXTENDS Naturals

CONSTANTS Nowhere,     \* no stage to resume
          FinishEarly  \* a Boolean: may the order be completed from any stage?

VARIABLES
  stage,   \* where the order is
  issued,  \* it has a SKU
  resume   \* the stage it resumes when reactivated

stages == <<stage, issued, resume>>

\* SHIPPED is missing: no transition of the code leads there.
Stage ==
  {"NEW", "CAD_IN_PROGRESS", "VPO_ISSUED", "MANUFACTURED", "REPAIR", "COMPLETED", "CANCELLED"}

Init == stage = "NEW" /\ issued = FALSE /\ resume = Nowhere

\* The design is worked on, for the first time or again.
Design ==
  /\ stage' = "CAD_IN_PROGRESS"
  /\ UNCHANGED <<issued, resume>>

\* A SKU is stored without the order moving.
Number ==
  /\ issued' = TRUE
  /\ UNCHANGED <<stage, resume>>

\* A design was approved, or production is to be repeated.
Issue ==
  /\ stage' = "VPO_ISSUED"
  /\ issued' = TRUE
  /\ UNCHANGED resume

Manufacture ==
  /\ stage = "VPO_ISSUED" /\ issued
  /\ stage' = "MANUFACTURED"
  /\ UNCHANGED <<issued, resume>>

Repair ==
  /\ stage = "MANUFACTURED"
  /\ stage' = "REPAIR"
  /\ UNCHANGED <<issued, resume>>

Finish ==
  /\ stage \in {"MANUFACTURED", "REPAIR"} \/ FinishEarly
  /\ stage' = "COMPLETED"
  /\ UNCHANGED <<issued, resume>>

Cancel ==
  /\ stage # "CANCELLED"
  /\ stage' = "CANCELLED"
  /\ resume' = stage
  /\ UNCHANGED issued

Resume ==
  /\ stage = "CANCELLED"
  /\ stage' = resume
  /\ UNCHANGED <<issued, resume>>

Next ==
  \/ Design \/ Number \/ Issue \/ Manufacture
  \/ Repair \/ Finish \/ Cancel \/ Resume

Spec == Init /\ [][Next]_stages
=============================================================================
