---------------------------- MODULE MCRateLimiter ----------------------------
(***************************************************************************)
(* The rate limiter for TLC: one more client than the object may keep, and *)
(* a client with a full counter in the snapshot, or no snapshot.           *)
(***************************************************************************)
EXTENDS RateLimiter

CONSTANTS c1, c2

Full == [count |-> Max, start |-> 1, prev |-> 0, last |-> 1]
MCSnapshots == {[Empty EXCEPT ![c1] = Full]}
MCMayCount == [c \in Clients |-> IF c = c1 THEN 6 ELSE 1]
=============================================================================
