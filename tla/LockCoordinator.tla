--------------------------- MODULE LockCoordinator ---------------------------
(***************************************************************************)
(* Distributed locks: the LockCoordinator Durable Object, which keeps the  *)
(* leases, and the calls DistributedLockService makes to it.  One resource *)
(* is modelled; the locks of two resources meet only in the cleanup, which *)
(* treats each by itself.                                                  *)
(*                                                                         *)
(* The object answers one request at a time, and its input gate stays      *)
(* closed while a handler awaits storage, so a handler is one step up to   *)
(* its next sleep.  A request that waits for a lock sleeps inside the      *)
(* object, and other requests run meanwhile.                               *)
(***************************************************************************)
EXTENDS Naturals

CONSTANTS
    LockIds,       \* generateLockId(): each call of acquireLock has its own
    NoLock,        \* resourceLocks has no entry for the resource
    Ttl,           \* ttl
    Timeout,       \* timeout
    RetryInterval, \* retryInterval
    MaxRetries,    \* maxRetries
    MaxTime,       \* bound: the clock stops
    MayFail,       \* bound: the kinds of faults that may happen
    MaxFaults      \* bound: how many may happen in all

ASSUME LockAssumption ==
    /\ NoLock \notin LockIds
    /\ Ttl \in Nat \ {0} /\ RetryInterval \in Nat \ {0}
    /\ Timeout \in Nat /\ MaxRetries \in Nat \ {0}
    /\ MaxTime \in Nat \ {0} /\ MaxFaults \in Nat

VARIABLES
    now,    \* Date.now()
    mem,    \* activeLocks (expiresAt, or 0) and resourceLocks of the object
    disk,   \* both as the object's storage has them
    call,   \* what the caller and the object are doing about each lock id
    lease,  \* until when the caller may rely on the lock, 0 when it may not
    faults  \* how many faults have happened, and of which kinds

lockVars == <<now, mem, disk, call, lease, faults>>

Idle == [stage |-> "idle", start |-> 0, wake |-> 0, attempt |-> 0]

Fault(kind) ==
    /\ kind \in MayFail /\ faults.count < MaxFaults
    /\ faults' = [count |-> faults.count + 1, kinds |-> faults.kinds \cup {kind}]

NoLocks == [active |-> [l \in LockIds |-> 0], held |-> NoLock]

LockInit ==
    /\ now = 1
    /\ mem = NoLocks /\ disk = NoLocks
    /\ call = [l \in LockIds |-> Idle]
    /\ lease = [l \in LockIds |-> 0]
    /\ faults = [count |-> 0, kinds |-> {}]

(***************************************************************************)
(* The two Maps m of the object.                                           *)
(***************************************************************************)
Expired(m) == {l \in LockIds : m.active[l] # 0 /\ m.active[l] < now}

\* The end of the lock that resourceLocks names; 0 when there is none.
End(m) == IF m.held = NoLock THEN 0 ELSE m.active[m.held]

\* A variant of Free with a mistake: a lock is taken one tick too early.
FreeEarly(m) == End(m) <= now + 1

\* No lock of the resource, or one whose time is up.
Free(m) == End(m) < now

Taken(m, l) ==
    [active |-> [k \in LockIds |-> IF k = l THEN now + Ttl
                                   ELSE IF k = m.held THEN 0 ELSE m.active[k]],
     held |-> l]

Dropped(m, l) == [active |-> [m.active EXCEPT ![l] = 0], held |-> NoLock]

\* cleanupExpiredLocks removes the expired locks and their resource's entry,
\* whichever lock that names.
Cleaned(m) ==
    [active |-> [l \in LockIds |-> IF l \in Expired(m) THEN 0 ELSE m.active[l]],
     held |-> IF Expired(m) = {} THEN m.held ELSE NoLock]

\* persistLockState writes the Maps under two keys and swallows a failure: of
\* both, or of the larger one, which outgrows a storage value first.
Persist(m) ==
    /\ mem' = m
    /\ \/ disk' = m /\ faults' = faults
       \/ Fault("put") /\ disk' \in {disk, [disk EXCEPT !.held = m.held]}

\* Every request cleans up first when the last cleanup is a minute ago.
Served == {mem, Cleaned(mem)}

(***************************************************************************)
(* acquireLock.                                                            *)
(***************************************************************************)
CallTo(l, stage) == call' = [call EXCEPT ![l] = [Idle EXCEPT !.stage = stage]]

\* The request arrives at the object.
Ask(l) ==
    /\ call[l].stage = "idle"
    /\ call' = [call EXCEPT ![l] = [stage |-> "waiting", start |-> now,
                                    wake |-> now, attempt |-> 0]]
    /\ \E m \in Served :
          IF m = mem THEN UNCHANGED <<mem, disk, faults>> ELSE Persist(m)
    /\ UNCHANGED <<now, lease>>

Awake(l) == call[l].stage = "waiting" /\ call[l].wake <= now

\* A turn of the loop finds the resource free; the answer reaches the caller or is
\* lost.  Replacing an expired lock writes twice, which is one step here.
Grant(l) ==
    /\ Awake(l) /\ call[l].attempt < MaxRetries
    /\ Free(mem)
    /\ Persist(Taken(mem, l))
    /\ CallTo(l, "holding")
    /\ lease' = [lease EXCEPT ![l] = now + Ttl]
    /\ UNCHANGED now

\* The same, and the caller never hears of it.
GrantLost(l) ==
    /\ Awake(l) /\ call[l].attempt < MaxRetries
    /\ Free(mem)
    /\ Fault("call")
    /\ mem' = Taken(mem, l) /\ disk' = Taken(mem, l)
    /\ CallTo(l, "refused")
    /\ UNCHANGED <<now, lease>>

\* The resource is locked: sleep and try again.
Sleep(l) ==
    /\ Awake(l) /\ call[l].attempt < MaxRetries
    /\ ~Free(mem)
    /\ now - call[l].start <= Timeout
    /\ call' = [call EXCEPT ![l].wake = now + RetryInterval, ![l].attempt = @ + 1]
    /\ UNCHANGED <<now, mem, disk, lease, faults>>

\* Out of time or out of attempts: acquireLock throws.
Refuse(l) ==
    /\ Awake(l)
    /\ \/ call[l].attempt = MaxRetries
       \/ ~Free(mem) /\ now - call[l].start > Timeout
    /\ CallTo(l, "refused")
    /\ UNCHANGED <<now, mem, disk, lease, faults>>

Acquiring(l) == Grant(l) \/ GrantLost(l) \/ Sleep(l) \/ Refuse(l)

(***************************************************************************)
(* releaseLock, which throws nothing.                                      *)
(***************************************************************************)
\* getRequesterId draws a new id for every call, so the requester of a release is
\* never the owner that acquireLock has named.
SameRequester(l) == FALSE

Release(l) ==
    /\ call[l].stage = "holding"
    /\ CallTo(l, "released")
    /\ lease' = [lease EXCEPT ![l] = 0]
    /\ \E m \in Served :
          IF m.active[l] # 0 /\ SameRequester(l) THEN Persist(Dropped(m, l))
          ELSE IF m = mem THEN UNCHANGED <<mem, disk, faults>> ELSE Persist(m)
    /\ UNCHANGED now

(***************************************************************************)
(* The object is evicted or reset: waiting requests fail, the Maps are     *)
(* read again, and a read that throws leaves them, or the second, empty.   *)
(***************************************************************************)
Restart ==
    /\ call' = [l \in LockIds |-> IF call[l].stage = "waiting"
                                  THEN [Idle EXCEPT !.stage = "refused"] ELSE call[l]]
    /\ \/ (\A l \in LockIds : call[l].stage # "waiting") /\ faults' = faults /\ mem' = disk
       \/ (\E l \in LockIds : call[l].stage = "waiting") /\ Fault("reset") /\ mem' = disk
       \/ Fault("restore") /\ mem' \in {NoLocks, [disk EXCEPT !.held = NoLock]}
    /\ UNCHANGED <<now, disk, lease>>

Tick ==
    /\ now < MaxTime
    /\ now' = now + 1
    /\ UNCHANGED <<mem, disk, call, lease, faults>>

(***************************************************************************)
(* Callers that do anything at any time.                                   *)
(***************************************************************************)
\* A fault of theirs, which does not touch the lock.
CallerFails ==
    /\ \E kind \in MayFail : Fault(kind)
    /\ UNCHANGED <<now, mem, disk, call, lease>>

LockNext ==
    \/ \E l \in LockIds : Ask(l) \/ Acquiring(l) \/ Release(l)
    \/ Restart \/ Tick \/ CallerFails

LockSpec == LockInit /\ [][LockNext]_lockVars

(***************************************************************************)
(* Properties                                                              *)
(***************************************************************************)
Maps == [active : [LockIds -> 0 .. MaxTime + Ttl], held : LockIds \cup {NoLock}]

LockTypeOK ==
    /\ now \in 1 .. MaxTime
    /\ mem \in Maps /\ disk \in Maps
    /\ call \in [LockIds -> [stage : {"idle", "waiting", "holding", "refused", "released"},
                             start : 0 .. MaxTime, wake : 0 .. MaxTime + RetryInterval,
                             attempt : 0 .. MaxRetries]]
    /\ lease \in [LockIds -> 0 .. MaxTime + Ttl]
    /\ faults \in [count : 0 .. MaxFaults, kinds : SUBSET MayFail]

None(kinds) == faults.kinds \cap kinds = {}

\* No two callers rely on the lock at the same time, across refusals, cleanups,
\* evictions and resets of the object, unless one of its writes or reads failed.
LeaseExclusive ==
    None({"put", "restore"}) =>
        \A k, l \in LockIds : now <= lease[k] /\ now <= lease[l] => k = l

\* The two Maps of the object name the same lock, in storage too, whichever of
\* the grants, releases, cleanups and cold starts came last.
MapsAgree ==
    None({"put", "restore"}) =>
        \A m \in {mem, disk} : \A l \in LockIds : m.active[l] # 0 <=> m.held = l

(***************************************************************************)
(* The inductive invariant behind the two.                                 *)
(***************************************************************************)
\* Who may rely on the lock is named by both Maps, with the end it was told.
LeaseHeld ==
    \A l \in LockIds : lease[l] # 0 /\ now <= lease[l] =>
        mem.held = l /\ mem.active[l] = lease[l]

LockInv ==
    None({"put", "restore"}) => mem = disk /\ MapsAgree /\ LeaseHeld
=============================================================================
