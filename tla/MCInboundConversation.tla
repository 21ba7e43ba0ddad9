------------------------ MODULE MCInboundConversation ------------------------
(***************************************************************************)
(* Inbound events for TLC: a new customer's first message, which LINE      *)
(* delivers twice, and a follow event.  The lease lasts twice as long as a *)
(* call of acquireLock waits, as in the code.                              *)
(***************************************************************************)
EXTENDS InboundConversation, TLC

CONSTANTS e1, e2, f1, m1

MCEvent == e1 :> m1 @@ e2 :> m1 @@ f1 :> Follow
MCLockIds == {e1, e2} \X (0 .. Retries)

\* e1 and e2 carry the same message, so nothing tells them apart.
MCSymmetry == Permutations({e1, e2})

AnyFault == {"put", "call", "reset", "restore", "d1", "crash"}
NoFault == {}
=============================================================================
