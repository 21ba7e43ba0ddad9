------------------------------- MODULE Intake -------------------------------
(***************************************************************************)
(* What the path of a customer's inbound events promises the rest of the   *)
(* system, however the events are queued, retried and locked: an entry is  *)
(* pending until it is acknowledged or, its retries used up, dead, and     *)
(* stays what it is then.  A message is placed once, in a conversation     *)
(* that was opened, and acknowledged only when it is placed; a follow      *)
(* event only when there is a conversation or it missed its team.  A       *)
(* message opens one only when no message has, unless that is excused.     *)
(*                                                                         *)
(* This module translates no code.  InboundConversation is shown to        *)
(* implement it.                                                           *)
(***************************************************************************)
EXTENDS Naturals

CONSTANTS Entries, Messages, Event, Follow, Retries

VARIABLES
    fate,    \* of each entry: pending, acked or dead
    tries,   \* how often it was tried again
    opened,  \* the entries that opened a conversation
    placed,  \* the conversation of each message, if it has one
    missed,  \* the follow events whose team was not found, as a lookup failed
    excused  \* whether a second conversation may be

vars == <<fate, tries, opened, placed, missed, excused>>

Follows == {e \in Entries : Event[e] = Follow}

Init ==
    /\ fate = [e \in Entries |-> "pending"] /\ tries = [e \in Entries |-> 0]
    /\ opened = {} /\ placed = [m \in Messages |-> {}]
    /\ missed = {}
    /\ excused = FALSE

Opens(e) ==
    /\ e \in Follows \/ opened \subseteq Follows \/ excused'
    /\ opened' = opened \cup {e}

Places(e) ==
    /\ e \notin Follows /\ placed[Event[e]] = {}
    /\ \E c \in opened : placed' = [placed EXCEPT ![Event[e]] = {c}]

Misses(e) == e \in Follows /\ missed' = missed \cup {e}

Served(e) ==
    IF e \in Follows THEN opened' # {} \/ e \in missed' ELSE placed'[Event[e]] # {}

Acknowledge(e) == Served(e) /\ fate' = [fate EXCEPT ![e] = "acked"] /\ tries' = tries

TryAgain(e) == tries[e] < Retries /\ tries' = [tries EXCEPT ![e] = @ + 1] /\ fate' = fate

GiveUp(e) == tries[e] = Retries /\ fate' = [fate EXCEPT ![e] = "dead"] /\ tries' = tries

\* One step for a pending entry; a failed step may have done its work.
Handle(e) ==
    /\ fate[e] = "pending"
    /\ Opens(e) \/ opened' = opened
    /\ Places(e) \/ placed' = placed
    /\ Misses(e) \/ missed' = missed
    /\ \/ Acknowledge(e) \/ TryAgain(e) \/ GiveUp(e)
       \/ UNCHANGED <<fate, tries>>
    /\ excused => excused'

Excuse == excused' /\ UNCHANGED <<fate, tries, opened, placed, missed>>

Next == Excuse \/ \E e \in Entries : Handle(e)

Spec == Init /\ [][Next]_vars
=============================================================================
