-------------------------- MODULE MCBroadcastSender --------------------------
(***************************************************************************)
(* Broadcasts for TLC: two tags that share a customer, one of whom is not  *)
(* on LINE; together they exceed the daily cap and the channel's room.     *)
(***************************************************************************)
EXTENDS BroadcastSender, TLC

CONSTANTS b1, b2, c1, c2, c3, A

MCRoute == c1 :> A @@ c2 :> A @@ c3 :> OtherPlatform
MCAudience == b1 :> {c1, c2, c3} @@ b2 :> {c1}
MCRoom == A :> 2

AnyFault == FaultKinds

SendSymmetry == Permutations(Sends)
=============================================================================
