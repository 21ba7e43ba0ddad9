---------------------------- MODULE RecallWindow ----------------------------
(***************************************************************************)
(* What the recall window promises its callers, whatever holds the         *)
(* messages: a message is held until it is cancelled or let go; only a     *)
(* held message is delivered, and never one that was cancelled; one whose  *)
(* holding was promised is let go only after a delivery was tried or its   *)
(* failure recorded.  Delivery may be tried more than once.                *)
(*                                                                         *)
(* This module translates no code.  DelayedMessageScheduler and            *)
(* RecallDelivery are shown to implement it.                               *)
(***************************************************************************)
CONSTANT Msgs

VARIABLES
    held,       \* messages waiting for their send time or being sent
    promised,   \* messages whose sender was told that they are held
    tried,      \* messages that were handed to the platform
    cancelled,  \* messages taken back
    recorded    \* messages with a failure on record

vars == <<held, promised, tried, cancelled, recorded>>

Init ==
    /\ held = {} /\ promised = {} /\ tried = {} /\ cancelled = {} /\ recorded = {}

\* The promise may come with the holding or later.
Hold(m) ==
    /\ m \notin held \cup tried \cup cancelled \cup recorded
    /\ held' = held \cup {m}
    /\ promised' \in {promised, promised \cup {m}}
    /\ UNCHANGED <<tried, cancelled, recorded>>

Promise(S) ==
    /\ S \subseteq held
    /\ promised' = promised \cup S
    /\ UNCHANGED <<held, tried, cancelled, recorded>>

Try(m) ==
    /\ m \in held
    /\ tried' = tried \cup {m}
    /\ UNCHANGED <<held, promised, cancelled, recorded>>

Cancel(m) ==
    /\ m \in held
    /\ held' = held \ {m}
    /\ cancelled' = cancelled \cup {m}
    /\ UNCHANGED <<promised, tried, recorded>>

\* Failures F are put on record while the messages in S are let go.
Leave(S, F) ==
    /\ S \subseteq held /\ F \cap cancelled = {}
    /\ S \cap promised \subseteq tried \cup recorded \cup F
    /\ held' = held \ S
    /\ recorded' = recorded \cup F
    /\ UNCHANGED <<promised, tried, cancelled>>

Next ==
    \/ \E m \in Msgs : Hold(m) \/ Try(m) \/ Cancel(m)
    \/ \E S \in SUBSET Msgs : Promise(S)
    \/ \E S, F \in SUBSET Msgs : Leave(S, F)

Spec == Init /\ [][Next]_vars
=============================================================================
