-------------------------- MODULE MCMessageDelivery --------------------------
(***************************************************************************)
(* deliver() for TLC: which faults a run allows.                           *)
(***************************************************************************)
EXTENDS MessageDelivery, TLC

AnyFault == [k \in FaultKinds |-> IF k \in {"d1", "line", "orphan"} THEN 1 ELSE 0]

=============================================================================
