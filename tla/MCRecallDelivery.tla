--------------------------- MODULE MCRecallDelivery ---------------------------
(***************************************************************************)
(* The recall window for TLC: which faults a run allows.                   *)
(***************************************************************************)
EXTENDS RecallDelivery

Once(kinds) == [k \in FaultKinds |-> IF k \in kinds THEN 1 ELSE 0]

AnyFault == Once(FaultKinds)
StatementFault == Once({"d1"})
=============================================================================
