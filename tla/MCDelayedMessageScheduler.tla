---------------------- MODULE MCDelayedMessageScheduler ----------------------
(***************************************************************************)
(* The scheduler for TLC: the messages are model values of the .cfg files, *)
(* the delays short enough for the alarms of two messages to overlap, to   *)
(* coincide and to replace one another.                                    *)
(***************************************************************************)
EXTENDS DelayedMessageScheduler

ShortDelays == {1, 2}
=============================================================================
