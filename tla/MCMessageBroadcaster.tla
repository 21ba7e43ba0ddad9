------------------------ MODULE MCMessageBroadcaster ------------------------
(***************************************************************************)
(* The broadcaster for TLC: an event for a user and a room, which refuses  *)
(* it, and one for everybody.                                              *)
(***************************************************************************)
EXTENDS MessageBroadcaster, TLC

CONSTANTS u, r, e1, e2

MCTo == e1 :> {u, r} @@ e2 :> {All}
=============================================================================
