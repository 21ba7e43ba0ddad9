------------------------- MODULE MCConversationRoom -------------------------
(***************************************************************************)
(* A room for TLC: two connections of one user, one with a token that      *)
(* expires.                                                                *)
(***************************************************************************)
EXTENDS ConversationRoom, TLC

CONSTANTS a, a1, a2

MCUserOf == a1 :> a @@ a2 :> a
MCTokenLife == a1 :> 1 @@ a2 :> None
=============================================================================
