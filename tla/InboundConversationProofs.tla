---------------------- MODULE InboundConversationProofs ----------------------
(***************************************************************************)
(* Proofs about LockCoordinator, for any number of callers, any lease and  *)
(* waiting times and any bound; and about InboundConversation: it uses the *)
(* lock as LockCoordinator lets its callers, so what is proved there holds *)
(* here, and messages create one conversation.                             *)
(***************************************************************************)
EXTENDS InboundConversation, FiniteSetTheorems, TLAPS

(***************************************************************************)
(* The lock, for callers that do anything                                  *)
(***************************************************************************)
Sound == None({"put", "restore"})

(***************************************************************************)
(* Type correctness.                                                       *)
(***************************************************************************)
\* The Maps keep their types under every change the object makes to them.
LEMMA MapsType ==
    ASSUME NEW m \in Maps, now \in 1 .. MaxTime
    PROVE  /\ Cleaned(m) \in Maps
           /\ \A l \in LockIds : Taken(m, l) \in Maps /\ Dropped(m, l) \in Maps
BY LockAssumption DEF Maps, Cleaned, Taken, Dropped

LEMMA FaultType ==
    ASSUME faults \in [count : 0 .. MaxFaults, kinds : SUBSET MayFail], NEW kind, Fault(kind)
    PROVE  faults' \in [count : 0 .. MaxFaults, kinds : SUBSET MayFail]
BY LockAssumption DEF Fault

LEMMA PersistType ==
    ASSUME LockTypeOK, NEW m \in Maps, Persist(m)
    PROVE  /\ mem' \in Maps /\ disk' \in Maps
           /\ faults' \in [count : 0 .. MaxFaults, kinds : SUBSET MayFail]
<1>1. mem' \in Maps
  BY DEF Persist
<1>2. faults' \in [count : 0 .. MaxFaults, kinds : SUBSET MayFail]
  BY FaultType DEF Persist, LockTypeOK
<1>3. disk' \in Maps
  BY DEF Persist, LockTypeOK, Maps
<1>4. QED
  BY <1>1, <1>2, <1>3

LEMMA ServedType == LockTypeOK => Served \subseteq Maps
BY MapsType DEF Served, LockTypeOK

LEMMA CallToType ==
    ASSUME LockTypeOK, NEW l \in LockIds, CallTo(l, "holding") \/ CallTo(l, "refused") \/ CallTo(l, "released")
    PROVE  call' \in [LockIds -> [stage : {"idle", "waiting", "holding", "refused", "released"},
                                  start : 0 .. MaxTime, wake : 0 .. MaxTime + RetryInterval,
                                  attempt : 0 .. MaxRetries]]
BY LockAssumption DEF LockTypeOK, CallTo, Idle

LEMMA LockInitType == LockInit => LockTypeOK
BY LockAssumption DEF LockInit, LockTypeOK, NoLocks, Maps, Idle

LEMMA LockNextType == LockTypeOK /\ [LockNext]_lockVars => LockTypeOK'
<1> SUFFICES ASSUME LockTypeOK, [LockNext]_lockVars PROVE LockTypeOK'
  OBVIOUS
<1>1. ASSUME NEW l \in LockIds, Ask(l) PROVE LockTypeOK'
  <2>1. call' \in [LockIds -> [stage : {"idle", "waiting", "holding", "refused", "released"},
                               start : 0 .. MaxTime, wake : 0 .. MaxTime + RetryInterval,
                               attempt : 0 .. MaxRetries]]
    BY <1>1, LockAssumption DEF Ask, LockTypeOK
  <2>2. /\ mem' \in Maps /\ disk' \in Maps
        /\ faults' \in [count : 0 .. MaxFaults, kinds : SUBSET MayFail]
    BY <1>1, ServedType, PersistType DEF Ask, LockTypeOK
  <2>3. QED
    BY <1>1, <2>1, <2>2 DEF Ask, LockTypeOK
<1>2. ASSUME NEW l \in LockIds, Grant(l) PROVE LockTypeOK'
  <2>1. Taken(mem, l) \in Maps
    BY MapsType DEF LockTypeOK
  <2>2. lease' \in [LockIds -> 0 .. MaxTime + Ttl]
    BY <1>2, LockAssumption DEF Grant, LockTypeOK
  <2>3. QED
    BY <1>2, <2>1, <2>2, PersistType, CallToType DEF Grant, LockTypeOK
<1>3. ASSUME NEW l \in LockIds, GrantLost(l) PROVE LockTypeOK'
  <2>1. Taken(mem, l) \in Maps
    BY MapsType DEF LockTypeOK
  <2>2. QED
    BY <1>3, <2>1, FaultType, CallToType DEF GrantLost, LockTypeOK
<1>4. ASSUME NEW l \in LockIds, Sleep(l) PROVE LockTypeOK'
  <2>1. call' \in [LockIds -> [stage : {"idle", "waiting", "holding", "refused", "released"},
                               start : 0 .. MaxTime, wake : 0 .. MaxTime + RetryInterval,
                               attempt : 0 .. MaxRetries]]
    BY <1>4, LockAssumption DEF Sleep, LockTypeOK
  <2>2. QED
    BY <1>4, <2>1 DEF Sleep, LockTypeOK
<1>5. ASSUME NEW l \in LockIds, Refuse(l) PROVE LockTypeOK'
  BY <1>5, CallToType DEF Refuse, LockTypeOK
<1>6. ASSUME NEW l \in LockIds, Release(l) PROVE LockTypeOK'
  <2>1. /\ mem' \in Maps /\ disk' \in Maps
        /\ faults' \in [count : 0 .. MaxFaults, kinds : SUBSET MayFail]
    BY <1>6, ServedType, PersistType DEF Release, SameRequester, LockTypeOK
  <2>2. lease' \in [LockIds -> 0 .. MaxTime + Ttl]
    BY <1>6, LockAssumption DEF Release, LockTypeOK
  <2>3. QED
    BY <1>6, <2>1, <2>2, CallToType DEF Release, LockTypeOK
<1>7. CASE Restart
  <2>1. mem' \in Maps
    BY <1>7, LockAssumption DEF Restart, LockTypeOK, Maps, NoLocks
  <2>2. faults' \in [count : 0 .. MaxFaults, kinds : SUBSET MayFail]
    BY <1>7, FaultType DEF Restart, LockTypeOK
  <2>3. call' \in [LockIds -> [stage : {"idle", "waiting", "holding", "refused", "released"},
                               start : 0 .. MaxTime, wake : 0 .. MaxTime + RetryInterval,
                               attempt : 0 .. MaxRetries]]
    BY <1>7, LockAssumption DEF Restart, LockTypeOK, Idle
  <2>4. QED
    BY <1>7, <2>1, <2>2, <2>3 DEF Restart, LockTypeOK
<1>8. CASE Tick
  BY <1>8, LockAssumption DEF Tick, LockTypeOK
<1>9. CASE CallerFails
  BY <1>9, FaultType DEF CallerFails, LockTypeOK
<1>10. CASE UNCHANGED lockVars
  BY <1>10 DEF lockVars, LockTypeOK
<1>11. QED
  BY <1>1, <1>2, <1>3, <1>4, <1>5, <1>6, <1>7, <1>8, <1>9, <1>10 DEF LockNext, Acquiring

\* The lock's state keeps its types: distributed-lock-service.ts, acquireLock,
\* releaseLock and the object behind them.
THEOREM LockTypeCorrect == LockSpec => []LockTypeOK
BY LockInitType, LockNextType, PTL DEF LockSpec

(***************************************************************************)
(* The lease.                                                              *)
(***************************************************************************)
\* What LockInv says once the faults that void it are set aside.
Agreed == mem = disk /\ MapsAgree /\ LeaseHeld

\* Faults are never taken back.
LEMMA SoundBefore ==
    ASSUME LockTypeOK, faults' = faults \/ \E kind : Fault(kind), Sound'
    PROVE  Sound
BY DEF Sound, None, Fault

\* A write that failed is counted.
LEMMA PersistSound ==
    ASSUME LockTypeOK, NEW m \in Maps, Persist(m), Sound'
    PROVE  mem' = m /\ disk' = m /\ faults' = faults
BY DEF Persist, Sound, None, Fault, LockTypeOK

\* A cleanup drops the lock only when nobody relies on it any more.
LEMMA CleanedAgrees ==
    ASSUME LockTypeOK, Sound, Agreed, now' = now,
           \A l \in LockIds : lease'[l] \in {0, lease[l]},
           mem' = Cleaned(mem), disk' = mem', faults' = faults
    PROVE  Agreed'
<1>1. \A l \in Expired(mem) : mem.held = l /\ ~(lease[l] # 0 /\ now <= lease[l])
  BY DEF Expired, Agreed, MapsAgree, LeaseHeld, Sound, LockTypeOK, Maps
<1>2. ASSUME NEW l \in LockIds
      PROVE  mem'.active[l] = IF l \in Expired(mem) THEN 0 ELSE mem.active[l]
  BY DEF Cleaned
<1>3. CASE Expired(mem) = {}
  <2>1. mem'.held = mem.held
    BY <1>3 DEF Cleaned
  <2>2. \A l \in LockIds : mem'.active[l] = mem.active[l]
    BY <1>2, <1>3
  <2>3. QED
    BY <2>1, <2>2 DEF Agreed, MapsAgree, LeaseHeld, None
<1>4. CASE Expired(mem) # {}
  <2>1. mem'.held = NoLock
    BY <1>4 DEF Cleaned
  <2>2. \A l \in LockIds : mem'.active[l] = 0
    BY <1>1, <1>2, <1>4 DEF Expired, Agreed, MapsAgree, Sound
  <2>3. \A l \in LockIds : ~(lease[l] # 0 /\ now <= lease[l])
    BY <1>1, <1>4 DEF Expired, Agreed, LeaseHeld
  <2>4. QED
    BY <2>1, <2>2, <2>3, LockAssumption DEF Agreed, MapsAgree, LeaseHeld, None
<1>5. QED
  BY <1>3, <1>4

\* What a request does first.
LEMMA ServedAgrees ==
    ASSUME LockTypeOK, Sound, Sound', Agreed, now' = now, lease' = lease, NEW m \in Served,
           IF m = mem THEN UNCHANGED <<mem, disk, faults>> ELSE Persist(m)
    PROVE  Agreed'
<1>1. CASE m = mem
  BY <1>1 DEF Agreed, MapsAgree, LeaseHeld, None
<1>2. CASE m # mem
  <2>1. m = Cleaned(mem) /\ m \in Maps
    BY <1>2, ServedType DEF Served
  <2>2. mem' = Cleaned(mem) /\ disk' = mem' /\ faults' = faults
    BY <1>2, <2>1, PersistSound
  <2>3. QED
    BY <2>2, CleanedAgrees
<1>3. QED
  BY <1>1, <1>2

\* The lock is given only when nobody relies on it.
LEMMA TakenAgrees ==
    ASSUME LockTypeOK, Sound, Agreed, NEW l \in LockIds, Free(mem), now' = now,
           mem' = Taken(mem, l), disk' = mem',
           lease' = lease \/ lease' = [lease EXCEPT ![l] = now + Ttl]
    PROVE  Agreed'
<1>1. \A k \in LockIds : ~(lease[k] # 0 /\ now <= lease[k])
  BY LockAssumption DEF Free, End, Agreed, LeaseHeld, LockTypeOK, Maps
<1>2. mem'.held = l /\ mem'.active[l] = now + Ttl
  BY DEF Taken
<1>3. \A k \in LockIds \ {l} : mem'.active[k] = 0
  BY DEF Taken, Agreed, MapsAgree, Sound
<1>4. now + Ttl # 0
  BY LockAssumption DEF LockTypeOK
<1>5. MapsAgree'
  BY <1>2, <1>3, <1>4 DEF MapsAgree
<1>6. LeaseHeld'
  BY <1>1, <1>2 DEF LeaseHeld, LockTypeOK
<1>7. QED
  BY <1>5, <1>6 DEF Agreed

LEMMA LockNextKeeps == LockTypeOK /\ LockInv /\ [LockNext]_lockVars => LockInv'
<1> SUFFICES ASSUME LockTypeOK, LockInv, [LockNext]_lockVars, Sound' PROVE Agreed'
  BY DEF LockInv, Agreed, Sound
<1>0. ASSUME Sound PROVE Agreed
  BY <1>0 DEF LockInv, Agreed, Sound
<1>1. ASSUME NEW l \in LockIds, Ask(l) PROVE Agreed'
  <2>1. Sound
    BY <1>1, SoundBefore DEF Ask, Persist
  <2>2. QED
    BY <1>0, <1>1, <2>1, ServedAgrees DEF Ask
<1>2. ASSUME NEW l \in LockIds, Grant(l) PROVE Agreed'
  <2>1. Sound
    BY <1>2, SoundBefore DEF Grant, Persist
  <2>2. mem' = Taken(mem, l) /\ disk' = mem'
    BY <1>2, PersistSound, MapsType DEF Grant, LockTypeOK
  <2>3. QED
    BY <1>0, <1>2, <2>1, <2>2, TakenAgrees DEF Grant
<1>3. ASSUME NEW l \in LockIds, GrantLost(l) PROVE Agreed'
  <2>1. Sound
    BY <1>3, SoundBefore DEF GrantLost
  <2>2. QED
    BY <1>0, <1>3, <2>1, TakenAgrees DEF GrantLost
<1>4. ASSUME NEW l \in LockIds, Sleep(l) \/ Refuse(l) PROVE Agreed'
  <2>1. UNCHANGED <<now, mem, disk, lease, faults>>
    BY <1>4 DEF Sleep, Refuse
  <2>2. Agreed
    BY <1>0, <2>1 DEF Sound, None
  <2>3. QED
    BY <2>1, <2>2 DEF Agreed, MapsAgree, LeaseHeld, None
<1>5. ASSUME NEW l \in LockIds, Release(l) PROVE Agreed'
  <2>1. PICK m \in Served : IF m = mem THEN UNCHANGED <<mem, disk, faults>> ELSE Persist(m)
    BY <1>5 DEF Release, SameRequester
  <2>2. Sound
    BY <2>1, SoundBefore DEF Persist
  <2>3. /\ Agreed /\ now' = now
        /\ lease' = [lease EXCEPT ![l] = 0]
    BY <1>0, <1>5, <2>2 DEF Release
  <2>4. CASE m = mem
    BY <2>1, <2>3, <2>4 DEF Agreed, MapsAgree, LeaseHeld, None, LockTypeOK
  <2>5. CASE m # mem
    <3>1. m = Cleaned(mem) /\ m \in Maps
      BY <2>5, ServedType DEF Served
    <3>2. mem' = Cleaned(mem) /\ disk' = mem' /\ faults' = faults
      BY <2>1, <2>5, <3>1, PersistSound
    <3>3. QED
      BY <2>2, <2>3, <3>2, CleanedAgrees DEF LockTypeOK
  <2>6. QED
    BY <2>4, <2>5
<1>6. CASE Restart
  <2>1. Sound
    BY <1>6, SoundBefore DEF Restart
  <2>2. ~Fault("restore")
    BY DEF Sound, None, Fault
  <2>3. mem' = disk /\ disk' = disk /\ now' = now /\ lease' = lease
    BY <1>6, <2>2 DEF Restart
  <2>4. QED
    BY <1>0, <2>1, <2>3 DEF Agreed, MapsAgree, LeaseHeld, None, Sound
<1>7. CASE Tick
  <2>1. Agreed /\ Sound
    BY <1>0, <1>7 DEF Tick, Sound, None
  <2>2. now < now'
    BY <1>7 DEF Tick, LockTypeOK
  <2>3. QED
    BY <1>7, <2>1, <2>2 DEF Tick, Agreed, MapsAgree, LeaseHeld, None, LockTypeOK
<1>8. CASE CallerFails
  <2>1. Sound
    BY <1>8, SoundBefore DEF CallerFails
  <2>2. QED
    BY <1>0, <1>8, <2>1 DEF CallerFails, Agreed, MapsAgree, LeaseHeld, None, Sound
<1>9. CASE UNCHANGED lockVars
  <2>1. Agreed
    BY <1>0, <1>9 DEF lockVars, Sound, None
  <2>2. QED
    BY <1>9, <2>1 DEF lockVars, Agreed, MapsAgree, LeaseHeld, None
<1>10. QED
  BY <1>1, <1>2, <1>3, <1>4, <1>5, <1>6, <1>7, <1>8, <1>9 DEF LockNext, Acquiring

LEMMA LockInductive == LockSpec => []LockInv
<1>1. LockInit => LockInv
  BY LockAssumption DEF LockInit, LockInv, MapsAgree, LeaseHeld, NoLocks
<1>2. QED
  BY <1>1, LockNextKeeps, LockTypeCorrect, PTL DEF LockSpec

\* The two Maps name the same lock: acquireLockInternal, releaseLockInternal,
\* cleanupExpiredLocks and initializeFromStorage keep them in step.
THEOREM MapsAgreeAlways == LockSpec => []MapsAgree
<1>1. LockInv => MapsAgree
  BY DEF LockInv, MapsAgree
<1>2. QED
  BY <1>1, LockInductive, PTL

\* No two callers rely on the lock at once, for any number of callers, leases,
\* evictions, lost answers and cleanups.
THEOREM LeaseExclusiveAlways == LockSpec => []LeaseExclusive
<1>1. LockTypeOK /\ LockInv => LeaseExclusive
  BY DEF LockInv, LeaseHeld, LeaseExclusive, LockTypeOK
<1>2. QED
  BY <1>1, LockInductive, LockTypeCorrect, PTL

(***************************************************************************)
(* The lock is used as it is meant.                                        *)
(***************************************************************************)
\* An entry that is not a follow event has a lock id for each of its tries.
LEMMA LockRange ==
    ASSUME TypeOK, NEW e \in Entries, Event[e] # Follow
    PROVE  Lock(e) \in LockIds
BY InboundAssumption DEF TypeOK, Lock

LEMMA LockDiffers ==
    ASSUME NEW d \in Entries, NEW e \in Entries, Lock(d) = Lock(e)
    PROVE  d = e
BY DEF Lock

\* What one event of a consumer does to the lock: nothing, a request, a release
\* or a fault of its own.
LEMMA StepUsesLock ==
    ASSUME TypeOK, StepInv, NEW e \in Entries,
           Working(e)
    PROVE  [LockNext]_lockVars
<1>1. CASE AsksForLock(e)
  <2>1. Lock(e) \in LockIds
    BY <1>1, LockRange DEF AsksForLock, StepInv
  <2>2. QED
    BY <1>1, <2>1 DEF AsksForLock, LockNext
<1>2. CASE Releases(e)
  <2>1. Lock(e) \in LockIds
    BY <1>2, LockRange DEF Releases, StepInv
  <2>2. QED
    BY <1>2, <2>1 DEF Releases, LockNext
<1>3. CASE UnderLockThrows(e) \/ Throws(e) \/ Dies(e) \/ FollowLosesTeam(e)
  <2>1. \E kind \in MayFail : Fault(kind)
    BY <1>3 DEF UnderLockThrows, Throws, Dies, FollowLosesTeam, Fault
  <2>2. UNCHANGED <<now, mem, disk, call, lease>>
    BY <1>3 DEF UnderLockThrows, Throws, Dies, FollowLosesTeam
  <2>3. QED
    BY <2>1, <2>2 DEF LockNext, CallerFails
<1>4. CASE \/ Consume(e) \/ Duplicate(e) \/ NotDuplicate(e) \/ Found(e) \/ Locked(e)
           \/ NotLocked(e) \/ NotFound(e) \/ Create(e) \/ Save(e)
           \/ FollowFinds(e) \/ FollowInserts(e)
  BY <1>4 DEF Consume, Duplicate, NotDuplicate, Found, Locked, NotLocked, NotFound,
              Create, Save, FollowFinds, FollowInserts
<1>5. QED
  BY <1>1, <1>2, <1>3, <1>4 DEF Working, Handles

LEMMA NextUsesLock == TypeOK /\ StepInv /\ [Next]_vars => [LockNext]_lockVars
<1> SUFFICES ASSUME TypeOK, StepInv, [Next]_vars PROVE [LockNext]_lockVars
  OBVIOUS
<1>1. CASE Lockwork
  BY <1>1 DEF Lockwork, LockNext
<1>2. CASE UNCHANGED vars
  BY <1>2 DEF vars
<1>3. QED
  BY <1>1, <1>2, StepUsesLock DEF Next

(***************************************************************************)
(* Type correctness.                                                       *)
(***************************************************************************)
\* The consumer's own variables.
InboundType ==
    /\ queue \in [Entries -> {"waiting", "running", "acked", "dead"}]
    /\ tries \in [Entries -> 0 .. Retries]
    /\ step \in [Entries -> Steps]
    /\ conv \in [Entries -> SUBSET rows]
    /\ rows \in SUBSET Entries
    /\ stored \in [Messages -> SUBSET rows]
    /\ over \in SUBSET Entries
    /\ lost \in SUBSET Entries

LEMMA AckedType ==
    ASSUME InboundType, NEW e \in Entries, Acked(e), rows' = rows, over' = over,
           lost' \in SUBSET Entries,
           stored' \in [Messages -> SUBSET rows]
    PROVE  InboundType'
BY DEF InboundType, Acked, To, Steps, Nothing

LEMMA AgainType ==
    ASSUME InboundType, NEW e \in Entries, Again(e), rows \subseteq rows', rows' \subseteq Entries,
           over' = over, stored' \in [Messages -> SUBSET rows'], lost' = lost
    PROVE  InboundType'
BY InboundAssumption DEF InboundType, Again, To, Steps, Nothing

LEMMA InboundNextType == InboundType /\ StepInv /\ [Next]_vars => InboundType'
<1> SUFFICES ASSUME InboundType, StepInv, [Next]_vars PROVE InboundType'
  OBVIOUS
<1> USE DEF Nothing
<1>1. ASSUME NEW e \in Entries, Handles(e), lost' = lost PROVE InboundType'
  <2>1. CASE Consume(e)
    BY <1>1, <2>1 DEF Consume, InboundType, To, Steps
  <2>2. CASE Duplicate(e)
    BY <1>1, <2>2, AckedType DEF Duplicate, InboundType
  <2>3. CASE NotDuplicate(e) \/ AsksForLock(e) \/ Locked(e) \/ NotFound(e)
    BY <1>1, <2>3 DEF NotDuplicate, AsksForLock, Locked, NotFound, InboundType, To, Steps
  <2>4. CASE Found(e)
    BY <1>1, <2>4 DEF Found, InboundType, To, Steps
  <2>5. CASE NotLocked(e)
    BY <1>1, <2>5, AgainType DEF NotLocked, InboundType
  <2>6. CASE Create(e)
    BY <1>1, <2>6 DEF Create, Created, InboundType, To, Steps
  <2>7. CASE Releases(e)
    <3>1. CASE conv[e] = Nothing
      BY <1>1, <2>7, <3>1, AgainType DEF Releases, InboundType
    <3>2. CASE conv[e] # Nothing
      BY <1>1, <2>7, <3>2 DEF Releases, InboundType, To, Steps
    <3>3. QED
      BY <3>1, <3>2
  <2>8. CASE Save(e)
    <3>1. stored' \in [Messages -> SUBSET rows]
      BY <1>1, <2>8 DEF Save, InboundType
    <3>2. QED
      BY <1>1, <2>8, <3>1, AckedType DEF Save, InboundType
  <2>9. CASE FollowFinds(e)
    <3>1. CASE rows # {}
      BY <1>1, <2>9, <3>1, AckedType DEF FollowFinds, InboundType
    <3>2. CASE rows = {}
      BY <1>1, <2>9, <3>2 DEF FollowFinds, InboundType, To, Steps
    <3>3. QED
      BY <3>1, <3>2
  <2>10. CASE FollowInserts(e)
    BY <1>1, <2>10 DEF FollowInserts, InboundType, Acked, To, Steps
  <2>11. QED
    BY <1>1, <2>1, <2>2, <2>3, <2>4, <2>5, <2>6, <2>7, <2>8, <2>9, <2>10 DEF Handles
<1>2. ASSUME NEW e \in Entries, UnderLockThrows(e), lost' = lost PROVE InboundType'
  BY <1>2 DEF UnderLockThrows, Created, InboundType, To, Steps
<1>3. ASSUME NEW e \in Entries, Throws(e), lost' = lost PROVE InboundType'
  <2>1. rows \subseteq rows' /\ rows' \subseteq Entries /\ over' = over
    BY <1>3 DEF Throws, InboundType
  <2>2. stored' \in [Messages -> SUBSET rows']
    BY <1>3 DEF Throws, InboundType
  <2>3. QED
    BY <1>3, <2>1, <2>2, AgainType DEF Throws
<1>4. ASSUME NEW e \in Entries, Dies(e), lost' = lost PROVE InboundType'
  BY <1>4, AgainType DEF Dies, InboundType
<1>5. CASE UNCHANGED inboundVars
  BY <1>5 DEF inboundVars, InboundType
<1>6. ASSUME NEW e \in Entries, FollowLosesTeam(e) PROVE InboundType'
  BY <1>6, AckedType DEF FollowLosesTeam, InboundType
<1>7. QED
  BY <1>1, <1>2, <1>3, <1>4, <1>5, <1>6 DEF Next, Working, vars

(***************************************************************************)
(* Who is past the lock has it.                                            *)
(***************************************************************************)
\* What happens in the lock object does not touch a call that holds the lock.
LEMMA HoldingStays ==
    ASSUME TypeOK, Lockwork, NEW l \in LockIds, call[l].stage = "holding"
    PROVE  call'[l].stage = "holding"
<1>1. ASSUME NEW k \in LockIds, Acquiring(k) PROVE call'[l].stage = "holding"
  BY <1>1 DEF Acquiring, Grant, GrantLost, Sleep, Refuse, Awake, CallTo, TypeOK, LockTypeOK
<1>2. CASE Restart
  BY <1>2 DEF Restart
<1>3. CASE Tick
  BY <1>3 DEF Tick
<1>4. QED
  BY <1>1, <1>2, <1>3 DEF Lockwork

\* A step of one consumer leaves the calls of the others alone.
LEMMA OtherCalls ==
    ASSUME TypeOK, StepInv, NEW e \in Entries, NEW d \in Entries, d # e, Event[d] # Follow,
           Working(e)
    PROVE  /\ step'[d] = step[d] /\ tries'[d] = tries[d]
           /\ call'[Lock(d)] = call[Lock(d)] /\ lease'[Lock(d)] = lease[Lock(d)]
<1>1. step'[d] = step[d] /\ tries'[d] = tries[d]
  BY DEF Working, Handles, Consume, Duplicate, NotDuplicate, Found, AsksForLock, Locked, NotLocked,
         NotFound, Create, Releases, Save, FollowFinds, FollowInserts, UnderLockThrows,
         Throws, Dies, FollowLosesTeam, To, Acked, Again, TypeOK
<1>2. Lock(d) # Lock(e) /\ Lock(d) \in LockIds
  BY LockDiffers, LockRange
<1>3. CASE AsksForLock(e)
  BY <1>1, <1>2, <1>3 DEF AsksForLock, Ask, TypeOK, LockTypeOK
<1>4. CASE Releases(e)
  BY <1>1, <1>2, <1>4 DEF Releases, Release, CallTo, TypeOK, LockTypeOK
<1>5. CASE ~AsksForLock(e) /\ ~Releases(e)
  <2>1. UNCHANGED <<call, lease>>
    BY <1>5 DEF Working, Handles, Consume, Duplicate, NotDuplicate, Found, Locked, NotLocked,
                NotFound, Create, Save, FollowFinds, FollowInserts, UnderLockThrows,
                Throws, Dies, FollowLosesTeam, lockVars
  <2>2. QED
    BY <1>1, <2>1
<1>6. QED
  BY <1>3, <1>4, <1>5

\* The part of StepInv that is about one entry.
Fits(e) ==
    /\ step[e] \in {"follow", "insert"} => Event[e] = Follow
    /\ step[e] \notin {"idle", "follow", "insert"} => Event[e] # Follow
    /\ step[e] \in {"recheck", "create", "release"} => call[Lock(e)].stage = "holding"

LEMMA StepKeeps == TypeOK /\ StepInv /\ [Next]_vars => StepInv'
<1> SUFFICES ASSUME TypeOK, StepInv, [Next]_vars PROVE StepInv'
  OBVIOUS
<1>1. ASSUME NEW e \in Entries, Working(e)
      PROVE  StepInv'
  <2>1. Fits(e)'
    <3>1. CASE Consume(e)
      BY <3>1 DEF Consume, To, Fits, TypeOK
    <3>2. CASE Duplicate(e) \/ Save(e) \/ FollowInserts(e) \/ FollowLosesTeam(e)
      BY <3>2 DEF Duplicate, Save, FollowInserts, FollowLosesTeam, Acked, To, Fits, TypeOK
    <3>3. CASE NotDuplicate(e) \/ AsksForLock(e)
      BY <3>3 DEF NotDuplicate, AsksForLock, To, Fits, StepInv, TypeOK
    <3>4. CASE Found(e) \/ Locked(e) \/ NotFound(e) \/ Create(e)
      BY <3>4 DEF Found, Locked, NotFound, Create, To, Fits, StepInv, TypeOK, lockVars, Lock
    <3>5. CASE UnderLockThrows(e)
      BY <3>5 DEF UnderLockThrows, To, Fits, StepInv, TypeOK, Lock
    <3>6. CASE NotLocked(e) \/ Throws(e) \/ Dies(e)
      BY <3>6 DEF NotLocked, Throws, Dies, Again, To, Fits, TypeOK
    <3>7. CASE Releases(e)
      BY <3>7 DEF Releases, Again, To, Fits, StepInv, TypeOK
    <3>8. CASE FollowFinds(e)
      BY <3>8 DEF FollowFinds, Acked, To, Fits, StepInv, TypeOK
    <3>9. QED
      BY <1>1, <3>1, <3>2, <3>3, <3>4, <3>5, <3>6, <3>7, <3>8 DEF Working, Handles
  <2>2. ASSUME NEW d \in Entries, d # e PROVE Fits(d)'
    <3>1. step'[d] = step[d]
      BY <1>1, <2>2 DEF Working, Handles, Consume, Duplicate, NotDuplicate, Found, AsksForLock,
             Locked, NotLocked, NotFound, Create, Releases, Save, FollowFinds, FollowInserts,
             UnderLockThrows, Throws, Dies, FollowLosesTeam, To, Acked, Again, TypeOK
    <3>2. CASE Event[d] = Follow
      BY <3>1, <3>2 DEF Fits, StepInv
    <3>3. CASE Event[d] # Follow
      BY <1>1, <2>2, <3>1, <3>3, OtherCalls DEF Fits, StepInv, Lock
    <3>4. QED
      BY <3>2, <3>3
  <2>3. QED
    BY <2>1, <2>2 DEF StepInv, Fits
<1>2. CASE Lockwork /\ UNCHANGED inboundVars
  BY <1>2, HoldingStays, LockRange DEF inboundVars, StepInv, Lock
<1>3. CASE UNCHANGED vars
  BY <1>3 DEF vars, lockVars, inboundVars, StepInv, Lock
<1>4. QED
  BY <1>1, <1>2, <1>3 DEF Next

LEMMA InboundInductive == Spec => [](TypeOK /\ StepInv)
<1>1. Init => TypeOK /\ StepInv
  BY LockInitType, InboundAssumption DEF Init, TypeOK, StepInv, Nothing, Steps
<1>2. TypeOK /\ StepInv /\ [Next]_vars => (TypeOK /\ StepInv)'
  <2>1. TypeOK <=> LockTypeOK /\ InboundType
    BY DEF TypeOK, InboundType
  <2>2. (TypeOK <=> LockTypeOK /\ InboundType)'
    BY DEF TypeOK, InboundType
  <2>3. QED
    BY <2>1, <2>2, NextUsesLock, LockNextType, InboundNextType, StepKeeps
<1>3. QED
  BY <1>1, <1>2, PTL DEF Spec

\* The state of the inbound path keeps its types; the retries stay within
\* max_retries and every conversation a message was stored in exists.
THEOREM InboundTypeCorrect == Spec => []TypeOK
BY InboundInductive, PTL

\* The webhook handlers use DistributedLockService the way the lock was proved
\* for: every behaviour of the inbound path is one of LockCoordinator.
THEOREM UsesLock == Spec => LockSpec
<1>1. Init => LockInit
  BY DEF Init
<1>2. TypeOK /\ StepInv /\ [Next]_vars => [LockNext]_lockVars
  BY NextUsesLock
<1>3. QED
  BY <1>1, <1>2, InboundInductive, PTL DEF Spec, LockSpec

\* So no two workers of the inbound path rely on the lock of a customer at once.
THEOREM InboundLeaseExclusive == Spec => []LeaseExclusive
BY UsesLock, LeaseExclusiveAlways, PTL
(***************************************************************************)
(* One conversation.                                                       *)
(***************************************************************************)
\* What creators rely on, without the exceptions.
Alone ==
    /\ \A d, e \in rows \ Follows : d = e
    /\ \A e \in Entries :
          step[e] = "create" /\ now <= lease[Lock(e)] => rows \ Follows = {}

LEMMA ExcusedStays == TypeOK /\ [Next]_vars /\ Excused => Excused'
<1> SUFFICES ASSUME TypeOK, [Next]_vars, Excused PROVE Excused'
  OBVIOUS
<1>1. over \subseteq over'
  BY DEF Next, Working, Handles, Consume, Duplicate, NotDuplicate, Found, AsksForLock, Locked,
         NotLocked, NotFound, Create, Created, Releases, Save, FollowFinds, FollowInserts,
         UnderLockThrows, Throws, Dies, FollowLosesTeam, Lockwork, vars, inboundVars
<1>2. ASSUME NEW m, Persist(m) PROVE faults.kinds \subseteq faults'.kinds
  BY <1>2 DEF Persist, Fault
<1>3. faults.kinds \subseteq faults'.kinds
  <2>1. ASSUME NEW l \in LockIds, Ask(l) \/ Release(l)
        PROVE  faults.kinds \subseteq faults'.kinds
    BY <1>2, <2>1 DEF Ask, Release
  <2>2. ASSUME NEW l \in LockIds, Acquiring(l)
        PROVE  faults.kinds \subseteq faults'.kinds
    BY <1>2, <2>2 DEF Acquiring, Grant, GrantLost, Sleep, Refuse, Fault
  <2>3. CASE Restart
    BY <2>3 DEF Restart, Fault
  <2>4. CASE Tick
    BY <2>4 DEF Tick
  <2>5. ASSUME NEW e \in Entries,
               UnderLockThrows(e) \/ Throws(e) \/ Dies(e) \/ FollowLosesTeam(e)
        PROVE  faults.kinds \subseteq faults'.kinds
    BY <2>5 DEF UnderLockThrows, Throws, Dies, FollowLosesTeam, Fault
  <2>6. ASSUME NEW e \in Entries, Handles(e)
        PROVE  faults.kinds \subseteq faults'.kinds
    <3>1. CASE AsksForLock(e)
      BY <1>2, <3>1 DEF AsksForLock, Ask
    <3>2. CASE Releases(e)
      BY <1>2, <3>2 DEF Releases, Release
    <3>3. CASE ~AsksForLock(e) /\ ~Releases(e)
      BY <2>6, <3>3 DEF Handles, Consume, Duplicate, NotDuplicate, Found, Locked, NotLocked,
                        NotFound, Create, Save, FollowFinds, FollowInserts, lockVars
    <3>4. QED
      BY <3>1, <3>2, <3>3
  <2>7. QED
    BY <2>2, <2>3, <2>4, <2>5, <2>6 DEF Next, Working, Lockwork, vars, lockVars
<1>4. QED
  BY <1>1, <1>3 DEF Excused, None

\* The lock object touches neither the lease of a holder nor turns the clock back.
LEMMA LeaseStays ==
    ASSUME TypeOK, Lockwork, NEW l \in LockIds, call[l].stage = "holding"
    PROVE  lease'[l] = lease[l] /\ now' >= now
<1>1. ASSUME NEW k \in LockIds, Acquiring(k) PROVE lease'[l] = lease[l] /\ now' >= now
  BY <1>1 DEF Acquiring, Grant, GrantLost, Sleep, Refuse, Awake, TypeOK, LockTypeOK
<1>2. CASE Restart
  BY <1>2 DEF Restart, TypeOK, LockTypeOK
<1>3. CASE Tick
  BY <1>3 DEF Tick, TypeOK, LockTypeOK
<1>4. QED
  BY <1>1, <1>2, <1>3 DEF Lockwork

\* A message's insert: the first, or late.
LEMMA CreatedAlone ==
    ASSUME TypeOK, StepInv, LeaseExclusive, Alone, ~Excused', NEW e \in Entries,
           Create(e) \/ UnderLockThrows(e)
    PROVE  Alone'
<1> USE DEF Alone
<1>1. None({"put", "restore"})
  BY DEF Excused, None, Create, UnderLockThrows, Fault, lockVars
<1>2. now' = now /\ lease' = lease /\ tries' = tries /\ step' = [step EXCEPT ![e] = "release"]
  BY DEF Create, UnderLockThrows, To, lockVars
<1>3. step[e] \in {"recheck", "create"} /\ Event[e] # Follow /\ Lock(e) \in LockIds
  BY LockRange DEF Create, UnderLockThrows, StepInv
<1>4. CASE rows' = rows
  BY <1>2, <1>4 DEF Lock, TypeOK, Steps
<1>5. CASE step[e] = "create" /\ Created(e)
  <2>1. now <= lease[Lock(e)]
    <3>1. now \in Nat /\ lease[Lock(e)] \in Nat
      BY <1>3, LockAssumption DEF TypeOK, LockTypeOK
    <3>2. ~(now > lease[Lock(e)])
      BY <1>5 DEF Excused, Created
    <3>3. QED
      BY <3>1, <3>2
  <2>2. rows \ Follows = {} /\ rows' \ Follows = {e}
    BY <1>3, <1>5, <2>1 DEF Created, Follows
  <2>3. ASSUME NEW d \in Entries, d # e, step[d] = "create", now <= lease[Lock(d)]
        PROVE  FALSE
    <3>1. Lock(d) \in LockIds /\ Lock(d) # Lock(e)
      BY <2>3, LockRange, LockDiffers DEF StepInv
    <3>2. QED
      BY <1>1, <1>3, <2>1, <2>3, <3>1 DEF LeaseExclusive
  <2>4. \A d \in Entries : step'[d] = "create" => d # e /\ step[d] = "create"
    BY <1>2 DEF TypeOK
  <2>5. \A d \in Entries : Lock(d)' = Lock(d)
    BY <1>2 DEF Lock
  <2>6. QED
    BY <1>2, <2>2, <2>3, <2>4, <2>5
<1>6. QED
  BY <1>4, <1>5 DEF Create, UnderLockThrows

LEMMA CreatorKeeps ==
    TypeOK /\ StepInv /\ LeaseExclusive /\ CreatorInv /\ [Next]_vars => CreatorInv'
<1> SUFFICES ASSUME TypeOK, StepInv, LeaseExclusive, Alone, [Next]_vars, ~Excused'
             PROVE  Alone'
  BY ExcusedStays DEF CreatorInv, Excused, Alone
<1>1. ASSUME NEW e \in Entries, Working(e)
      PROVE  Alone'
  <2>1. CASE Create(e) \/ UnderLockThrows(e)
    BY <2>1, CreatedAlone
  <2>2. CASE ~Create(e) /\ ~UnderLockThrows(e)
    <3>1. now' = now
      BY <1>1, <2>2 DEF Working, Handles, Consume, Duplicate, NotDuplicate, Found, AsksForLock, Ask,
             Locked, NotLocked, NotFound, Releases, Release, Save, FollowFinds,
             FollowInserts, Throws, Dies, FollowLosesTeam, lockVars
    <3>2. rows' \ Follows = rows \ Follows
      BY <1>1, <2>2 DEF Working, Handles, Consume, Duplicate, NotDuplicate, Found, AsksForLock,
             Locked, NotLocked, NotFound, Releases, Save, FollowFinds,
             FollowInserts, Throws, Dies, FollowLosesTeam, StepInv, Follows
    <3>3. step'[e] = "create" => rows = {}
      BY <1>1, <2>2 DEF Working, Handles, Consume, Duplicate, NotDuplicate, Found, AsksForLock,
             Locked, NotLocked, NotFound, Releases, Save, FollowFinds,
             FollowInserts, Throws, Dies, FollowLosesTeam, Acked, Again, To, TypeOK
    <3>4. ASSUME NEW d \in Entries, d # e, step'[d] = "create"
          PROVE  step[d] = "create" /\ Lock(d)' = Lock(d) /\ lease'[Lock(d)] = lease[Lock(d)]
      <4>1. step'[d] = step[d]
        BY <1>1, <2>2, <3>4 DEF Working, Handles, Consume, Duplicate, NotDuplicate, Found,
               AsksForLock, Locked, NotLocked, NotFound, Releases, Save, FollowFinds,
               FollowInserts, Throws, Dies, FollowLosesTeam, Acked, Again, To, TypeOK
      <4>2. QED
        BY <1>1, <3>4, <4>1, OtherCalls DEF StepInv, Lock
    <3>5. QED
      BY <3>1, <3>2, <3>3, <3>4 DEF Alone
  <2>3. QED
    BY <2>1, <2>2
<1>2. CASE Lockwork /\ UNCHANGED inboundVars
  <2>1. ASSUME NEW e \in Entries, step[e] = "create"
        PROVE  lease'[Lock(e)] = lease[Lock(e)] /\ now' >= now
    BY <1>2, <2>1, LeaseStays, LockRange DEF StepInv
  <2>2. ASSUME NEW e \in Entries, step[e] = "create", now' <= lease'[Lock(e)]
        PROVE  rows \ Follows = {}
    <3>1. Lock(e) \in LockIds
      BY <2>2, LockRange DEF StepInv
    <3>2. now \in Nat /\ now' \in Nat /\ lease[Lock(e)] \in Nat
      BY <1>2, <3>1, LockNextType, NextUsesLock, LockAssumption DEF TypeOK, LockTypeOK
    <3>3. now <= lease[Lock(e)]
      BY <2>1, <2>2, <3>2
    <3>4. QED
      BY <2>2, <3>3 DEF Alone
  <2>3. QED
    BY <1>2, <2>2 DEF Alone, inboundVars, Lock
<1>3. CASE UNCHANGED vars
  BY <1>3 DEF vars, lockVars, inboundVars, Alone, Lock
<1>4. QED
  BY <1>1, <1>2, <1>3 DEF Next

LEMMA InitCreator == Init => CreatorInv
BY DEF Init, CreatorInv

LEMMA CreatorGivesOne == CreatorInv => OneCreator
<1> SUFFICES ASSUME CreatorInv, None({"put", "restore"}), over = {}
             PROVE  Cardinality(rows \ Follows) <= 1
  BY DEF OneCreator
<1>1. CASE rows \ Follows = {}
  BY <1>1, FS_EmptySet
<1>2. CASE rows \ Follows # {}
  <2>1. PICK e \in rows \ Follows : TRUE
    BY <1>2
  <2>2. rows \ Follows = {e}
    BY <2>1 DEF CreatorInv
  <2>3. Cardinality(rows \ Follows) = 1
    BY <2>2, FS_Singleton
  <2>4. QED
    BY <2>3
<1>3. QED
  BY <1>1, <1>2

LEMMA CreatorAlways == Spec => []CreatorInv
BY InboundInductive, InboundLeaseExclusive, InitCreator, CreatorKeeps, PTL DEF Spec

\* The inductive invariant of the inbound path: the lock's, who is past the lock has
\* it, and while a creator's lease lasts nobody has created.
THEOREM InboundInvAlways == Spec => []InboundInv
<1>1. Spec => []LockInv
  BY UsesLock, LockInductive, PTL
<1>2. QED
  BY <1>1, InboundInductive, CreatorAlways, PTL DEF InboundInv

\* What the lock is for: two messages of a new customer never create two
\* conversations, for any number of messages, copies, retries and faults, unless a
\* lease ran out before the insert or the object's storage failed.
THEOREM OneCreatorAlways == Spec => []OneCreator
BY CreatorAlways, CreatorGivesOne, PTL
(***************************************************************************)
(* Every message is stored, once.                                          *)
(***************************************************************************)
LEMMA StoredStays ==
    TypeOK /\ [Next]_vars => \A m \in Messages : stored[m] # Nothing => stored'[m] = stored[m]
<1> SUFFICES ASSUME TypeOK, [Next]_vars, NEW m \in Messages, stored[m] # Nothing
             PROVE  stored'[m] = stored[m]
  OBVIOUS
<1>1. ASSUME NEW e \in Entries, Save(e) \/ Throws(e) PROVE stored'[m] = stored[m]
  BY <1>1 DEF Save, Throws, TypeOK
<1>2. ASSUME NEW e \in Entries, Working(e), ~Save(e), ~Throws(e)
      PROVE  stored' = stored
  BY <1>2 DEF Working, Handles, Consume, Duplicate, NotDuplicate, Found, AsksForLock, Locked,
         NotLocked, NotFound, Create, Releases, FollowFinds, FollowInserts,
         UnderLockThrows, Dies, FollowLosesTeam
<1>3. CASE UNCHANGED inboundVars
  BY <1>3 DEF inboundVars
<1>4. QED
  BY <1>1, <1>2, <1>3 DEF Next, vars

\* saveMessage: the unique id of a message keeps every later copy out.
THEOREM StoredOnceAlways == Spec => StoredOnce
<1>1. TypeOK /\ [Next]_vars =>
          [\A m \in Messages : stored[m] # Nothing => stored'[m] = stored[m]]_vars
  BY StoredStays
<1>2. QED
  BY <1>1, InboundTypeCorrect, PTL DEF Spec, StoredOnce

\* Who is about to store a message has a conversation to store it in.
SaveInv == \A e \in Entries : step[e] = "save" => conv[e] # Nothing

LEMMA SaveKeeps == TypeOK /\ SaveInv /\ [Next]_vars => SaveInv'
<1> SUFFICES ASSUME TypeOK, SaveInv, [Next]_vars PROVE SaveInv'
  OBVIOUS
<1> USE DEF SaveInv, Nothing
<1>1. ASSUME NEW e \in Entries, Consume(e) \/ NotDuplicate(e) \/ AsksForLock(e) \/ Locked(e)
                                  \/ NotFound(e) \/ Found(e) \/ Create(e) \/ UnderLockThrows(e)
      PROVE  SaveInv'
  BY <1>1 DEF Consume, NotDuplicate, AsksForLock, Locked, NotFound, Found, Create,
              UnderLockThrows, To, TypeOK
<1>2. ASSUME NEW e \in Entries, Duplicate(e) \/ Save(e) \/ NotLocked(e) \/ FollowInserts(e)
                                  \/ Throws(e) \/ Dies(e) \/ FollowLosesTeam(e)
      PROVE  SaveInv'
  BY <1>2 DEF Duplicate, Save, NotLocked, FollowInserts, Throws, Dies, FollowLosesTeam,
              Acked, Again, To, TypeOK
<1>3. ASSUME NEW e \in Entries, Releases(e) \/ FollowFinds(e) PROVE SaveInv'
  BY <1>3 DEF Releases, FollowFinds, Acked, Again, To, TypeOK
<1>4. CASE UNCHANGED inboundVars
  BY <1>4 DEF inboundVars
<1>5. QED
  BY <1>1, <1>2, <1>3, <1>4 DEF Next, Working, Handles, vars

LEMMA AckedKeeps ==
    TypeOK /\ StepInv /\ SaveInv /\ AckedIsStored /\ [Next]_vars => AckedIsStored'
<1> SUFFICES ASSUME TypeOK, StepInv, SaveInv, AckedIsStored, [Next]_vars,
                    NEW d \in Entries \ Follows, queue'[d] = "acked"
             PROVE  stored'[Event[d]] # Nothing
  BY DEF AckedIsStored, Follows
<1>1. Event[d] \in Messages
  BY InboundAssumption DEF Follows
<1>2. CASE queue[d] = "acked"
  BY <1>1, <1>2, StoredStays DEF AckedIsStored
<1>3. CASE queue[d] # "acked"
  <2>1. PICK e \in Entries : Working(e)
    BY <1>3 DEF Next, vars, inboundVars
  <2>2. /\ e = d
        /\ \/ Duplicate(d) \/ Save(d) \/ FollowFinds(d) \/ FollowInserts(d)
           \/ FollowLosesTeam(d)
    BY <1>3, <2>1 DEF Working, Handles, Consume, Duplicate, NotDuplicate, Found, AsksForLock, Locked,
           NotLocked, NotFound, Create, Releases, Save, FollowFinds, FollowInserts,
           UnderLockThrows, Throws, Dies, FollowLosesTeam, Acked, Again, TypeOK
  <2>3. ~FollowFinds(d) /\ ~FollowInserts(d) /\ ~FollowLosesTeam(d)
    BY DEF FollowFinds, FollowInserts, FollowLosesTeam, StepInv, Follows
  <2>4. QED
    BY <1>1, <2>2, <2>3 DEF Duplicate, Save, SaveInv, TypeOK
<1>4. QED
  BY <1>2, <1>3

\* An acknowledged message is in D1, for any number of copies, retries and faults.
THEOREM AckedIsStoredAlways == Spec => []AckedIsStored
<1>1. Init => SaveInv /\ AckedIsStored
  BY DEF Init, SaveInv, AckedIsStored
<1>2. QED
  BY <1>1, InboundInductive, SaveKeeps, AckedKeeps, PTL DEF Spec

(***************************************************************************)
(* The inbound path implements Intake.                                     *)
(***************************************************************************)
\* What a consumer works on is running, and it has found at most one conversation.
RunInv ==
    \A e \in Entries :
        /\ step[e] # "idle" => queue[e] = "running"
        /\ conv[e] = Nothing \/ \E c \in rows : conv[e] = {c}

PathInv == TypeOK /\ StepInv /\ CreatorInv /\ SaveInv /\ RunInv

LEMMA RowsGrow ==
    ASSUME [Next]_vars
    PROVE  rows \subseteq rows'
BY DEF Next, Working, Handles, Consume, Duplicate, NotDuplicate, Found, AsksForLock, Locked,
       NotLocked, NotFound, Create, Created, Releases, Save, FollowFinds, FollowInserts,
       UnderLockThrows, Throws, Dies, FollowLosesTeam, Lockwork, vars, inboundVars

\* Consumers work on entries of their own.
LEMMA OtherEntries ==
    ASSUME InboundType, NEW e \in Entries, Working(e), NEW d \in Entries, d # e
    PROVE  step'[d] = step[d] /\ queue'[d] = queue[d] /\ conv'[d] = conv[d]
BY DEF InboundType, Working, Handles, Consume, Duplicate, NotDuplicate, Found, AsksForLock,
       Locked, NotLocked, NotFound, Create, Releases, Save, FollowFinds, FollowInserts,
       UnderLockThrows, Throws, Dies, FollowLosesTeam, To, Acked, Again

LEMMA RunKeeps == TypeOK /\ RunInv /\ [Next]_vars => RunInv'
<1> SUFFICES ASSUME TypeOK, RunInv, [Next]_vars PROVE RunInv'
  OBVIOUS
<1> USE DEF Nothing
<1>1. InboundType /\ rows \subseteq rows'
  BY RowsGrow DEF TypeOK, InboundType
<1>2. ASSUME NEW e \in Entries, Working(e)
      PROVE  RunInv'
  <2>1. step'[e] # "idle" => queue'[e] = "running"
    BY <1>2 DEF RunInv, TypeOK, Working, Handles, Consume, Duplicate, NotDuplicate, Found,
           AsksForLock, Locked, NotLocked, NotFound, Create, Releases, Save, FollowFinds,
           FollowInserts, UnderLockThrows, Throws, Dies, FollowLosesTeam, To, Acked, Again
  <2>2. conv'[e] = Nothing \/ \E c \in rows' : conv'[e] = {c}
    <3>1. CASE Found(e)
      BY <3>1 DEF Found, TypeOK
    <3>2. CASE Create(e)
      BY <3>2 DEF Create, Created, TypeOK
    <3>3. CASE ~Found(e) /\ ~Create(e)
      <4>1. conv'[e] \in {conv[e], Nothing}
        BY <1>2, <3>3 DEF TypeOK, Working, Handles, Consume, Duplicate, NotDuplicate,
               AsksForLock, Locked, NotLocked, NotFound, Releases, Save, FollowFinds,
               FollowInserts, UnderLockThrows, Throws, Dies, FollowLosesTeam, Acked, Again
      <4> QED BY <1>1, <4>1 DEF RunInv
    <3> QED BY <3>1, <3>2, <3>3
  <2>3. ASSUME NEW d \in Entries, d # e
        PROVE  /\ step'[d] # "idle" => queue'[d] = "running"
               /\ conv'[d] = Nothing \/ \E c \in rows' : conv'[d] = {c}
    BY <1>1, <1>2, <2>3, OtherEntries DEF RunInv
  <2> QED BY <2>1, <2>2, <2>3 DEF RunInv
<1>3. CASE UNCHANGED inboundVars
  BY <1>3 DEF inboundVars, RunInv
<1> QED BY <1>2, <1>3 DEF Next, vars, Working

LEMMA PathAlways == Spec => []PathInv
<1>1. Init => SaveInv /\ RunInv
  BY DEF Init, SaveInv, RunInv
<1> QED BY <1>1, InboundInductive, CreatorAlways, SaveKeeps, RunKeeps, PTL DEF Spec, PathInv

Fate == [e \in Entries |-> IF queue[e] \in {"acked", "dead"} THEN queue[e] ELSE "pending"]

\* What Intake sees of the end of a consumer's work.
LEMMA FateFacts ==
    ASSUME InboundType, NEW e \in Entries
    PROVE  /\ queue' = [queue EXCEPT ![e] = "acked"] => Fate' = [Fate EXCEPT ![e] = "acked"]
           /\ queue' = [queue EXCEPT ![e] = "dead"] => Fate' = [Fate EXCEPT ![e] = "dead"]
           /\ \A q \in {"waiting", "running"} :
                 /\ queue[e] = q => Fate[e] = "pending"
                 /\ queue' = [queue EXCEPT ![e] = q] /\ Fate[e] = "pending" => Fate' = Fate
           /\ queue' = queue => Fate' = Fate
<1>1. ASSUME queue' = [queue EXCEPT ![e] = "acked"] PROVE Fate' = [Fate EXCEPT ![e] = "acked"]
  BY <1>1 DEF InboundType, Fate
<1>2. ASSUME queue' = [queue EXCEPT ![e] = "dead"] PROVE Fate' = [Fate EXCEPT ![e] = "dead"]
  BY <1>2 DEF InboundType, Fate
<1>3. ASSUME NEW q \in {"waiting", "running"}, queue[e] = q PROVE Fate[e] = "pending"
  BY <1>3 DEF Fate
<1>4. ASSUME NEW q \in {"waiting", "running"}, Fate[e] = "pending",
             queue' = [queue EXCEPT ![e] = q]
      PROVE  Fate' = Fate
  BY <1>4 DEF InboundType, Fate
<1> QED BY <1>1, <1>2, <1>3, <1>4 DEF Fate

\* The parts of a step of Intake, in the variables of the inbound path.
MayOpen(e) == e \in Follows \/ rows \subseteq Follows \/ Excused'

Opening(e) == rows' = rows \/ (MayOpen(e) /\ rows' = rows \cup {e})

Placing(e) ==
    \/ stored' = stored
    \/ /\ e \notin Follows /\ stored[Event[e]] = {}
       /\ \E c \in rows : stored' = [stored EXCEPT ![Event[e]] = {c}]

IsServed(e) ==
    IF e \in Follows THEN rows' # {} \/ e \in lost' ELSE stored'[Event[e]] # {}

Missing(e) == lost' = lost \/ (e \in Follows /\ lost' = lost \cup {e})

Ending(e) ==
    \/ IsServed(e) /\ Fate' = [Fate EXCEPT ![e] = "acked"] /\ tries' = tries
    \/ tries[e] < Retries /\ tries' = [tries EXCEPT ![e] = @ + 1] /\ Fate' = Fate
    \/ tries[e] = Retries /\ Fate' = [Fate EXCEPT ![e] = "dead"] /\ tries' = tries
    \/ Fate' = Fate /\ tries' = tries

LEMMA IntakeStep ==
    ASSUME NEW e \in Entries, Fate[e] = "pending", Opening(e), Placing(e), Missing(e),
           Ending(e), Excused => Excused'
    PROVE  Promise!Next
BY DEF Promise!Next, Promise!Handle, Promise!Opens, Promise!Places, Promise!Acknowledge,
       Promise!TryAgain, Promise!GiveUp, Promise!Served, Promise!Follows, Fate, Follows,
       Promise!Misses, MayOpen, Opening, Placing, Missing, IsServed, Ending

LEMMA AckedEnds ==
    ASSUME InboundType, NEW e \in Entries, Acked(e), IsServed(e)
    PROVE  Ending(e)
BY FateFacts DEF Acked, Ending

LEMMA AgainEnds ==
    ASSUME InboundType, NEW e \in Entries, Again(e), queue[e] = "running"
    PROVE  Ending(e)
<1>1. tries[e] \in 0 .. Retries /\ Retries \in Nat
  BY InboundAssumption DEF InboundType
<1>2. Fate[e] = "pending"
  BY FateFacts
<1>3. CASE tries[e] < Retries
  BY <1>2, <1>3, FateFacts DEF Again, Ending
<1>4. CASE ~(tries[e] < Retries)
  <2>1. tries[e] = Retries
    BY <1>1, <1>4
  <2> QED BY <1>4, <2>1, FateFacts DEF Again, Ending
<1> QED BY <1>3, <1>4

\* A message that inserts a conversation is the first to do so, or excused.
LEMMA CreatesAlone ==
    ASSUME PathInv, NEW e \in Entries, step[e] = "create", Created(e), UNCHANGED now,
           Excused => Excused'
    PROVE  Opening(e)
<1>1. rows' = rows \cup {e} /\ Event[e] # Follow /\ Lock(e) \in LockIds
  BY LockRange DEF Created, PathInv, StepInv
<1>2. ASSUME ~Excused'
      PROVE  rows \subseteq Follows
  <2>1. None({"put", "restore"}) /\ over = {}
    BY <1>2 DEF Excused
  <2>2. now \in Nat /\ lease[Lock(e)] \in Nat
    BY <1>1, LockAssumption DEF PathInv, TypeOK, LockTypeOK
  <2>3. ~(now > lease[Lock(e)])
    BY <1>2 DEF Excused, Created
  <2>4. now <= lease[Lock(e)]
    BY <2>2, <2>3
  <2>5. rows \ Follows = {}
    BY <2>1, <2>4 DEF PathInv, CreatorInv
  <2> QED BY <2>5
<1> QED BY <1>1, <1>2 DEF Opening, MayOpen

LEMMA HandlesImplements ==
    ASSUME PathInv, NEW e \in Entries, Working(e), Excused => Excused'
    PROVE  Promise!Next
<1> USE DEF Nothing
<1>1. InboundType /\ StepInv /\ SaveInv /\ RunInv
  BY DEF PathInv, TypeOK, InboundType
<1>2. queue[e] = "waiting" \/ queue[e] = "running"
  BY <1>1 DEF RunInv, Working, Handles, Consume, Duplicate, NotDuplicate, Found,
         AsksForLock, Locked, NotLocked, NotFound, Create, Releases, Save, FollowFinds,
         FollowInserts, UnderLockThrows, Throws, Dies, FollowLosesTeam
<1>3. Fate[e] = "pending"
  BY <1>1, <1>2, FateFacts
<1>0. Missing(e)
  BY <1>1 DEF Working, FollowLosesTeam, StepInv, Follows, Missing
<1> SUFFICES Opening(e) /\ Placing(e) /\ Ending(e)
  BY <1>3, <1>0, IntakeStep
<1>4. step[e] \in {"dedupe", "find", "lock", "recheck", "create", "release", "save"}
         => e \notin Follows /\ Event[e] \in Messages
  BY <1>1, InboundAssumption DEF StepInv, Follows
<1>5. step[e] \in {"follow", "insert"} => e \in Follows
  BY <1>1 DEF StepInv, Follows
<1>6. queue' = queue /\ tries' = tries => Ending(e)
  BY <1>1, FateFacts DEF Ending
<1>7. step[e] # "idle" /\ Again(e) => Ending(e)
  BY <1>1, AgainEnds DEF RunInv
<1>8. rows' = rows => Opening(e)
  BY DEF Opening
<1>9. stored' = stored => Placing(e)
  BY DEF Placing
<1>10. CASE Consume(e)
  <2>1. queue' = [queue EXCEPT ![e] = "running"] /\ UNCHANGED <<tries, rows, stored>>
    BY <1>10 DEF Consume
  <2>2. Fate' = Fate
    BY <1>1, <1>3, <2>1, FateFacts
  <2>3. Ending(e)
    BY <2>1, <2>2 DEF Ending
  <2> QED BY <1>8, <1>9, <2>1, <2>3
<1>11. CASE Duplicate(e)
  <2>1. Acked(e) /\ UNCHANGED <<rows, stored>> /\ e \notin Follows
    BY <1>4, <1>11 DEF Duplicate
  <2>2. IsServed(e)
    BY <1>11, <2>1 DEF Duplicate, IsServed
  <2>3. Ending(e)
    BY <1>1, <2>1, <2>2, AckedEnds
  <2> QED BY <1>8, <1>9, <2>1, <2>3
<1>12. CASE NotDuplicate(e) \/ Found(e) \/ AsksForLock(e) \/ Locked(e) \/ NotFound(e)
  <2>1. UNCHANGED <<queue, tries, rows, stored>>
    BY <1>12 DEF NotDuplicate, Found, AsksForLock, Locked, NotFound
  <2> QED BY <1>6, <1>8, <1>9, <2>1
<1>13. CASE NotLocked(e)
  <2>1. step[e] # "idle" /\ Again(e) /\ UNCHANGED <<rows, stored>>
    BY <1>13 DEF NotLocked
  <2> QED BY <1>7, <1>8, <1>9, <2>1
<1>14. CASE Create(e)
  <2>1. Opening(e)
    BY <1>14, CreatesAlone DEF Create, lockVars
  <2>2. UNCHANGED <<queue, tries, stored>>
    BY <1>14 DEF Create
  <2> QED BY <1>6, <1>9, <2>1, <2>2
<1>15. CASE UnderLockThrows(e)
  <2>1. UNCHANGED <<queue, tries, stored, now>>
    BY <1>15 DEF UnderLockThrows
  <2>2. Opening(e)
    <3>1. CASE rows' = rows
      BY <1>8, <3>1
    <3>2. CASE step[e] = "create" /\ Created(e)
      BY <2>1, <3>2, CreatesAlone
    <3> QED BY <1>15, <3>1, <3>2 DEF UnderLockThrows
  <2> QED BY <1>6, <1>9, <2>1, <2>2
<1>16. CASE Releases(e)
  <2>1. UNCHANGED <<rows, stored>> /\ step[e] # "idle"
    BY <1>16 DEF Releases
  <2>2. Again(e) \/ UNCHANGED <<queue, tries>>
    BY <1>16 DEF Releases, To
  <2> QED BY <1>6, <1>7, <1>8, <1>9, <2>1, <2>2
<1>17. ASSUME step[e] = "save",
              stored' = [stored EXCEPT ![Event[e]] = IF @ = Nothing THEN conv[e] ELSE @]
       PROVE  Placing(e) /\ stored'[Event[e]] # {}
  <2>1. PICK c \in rows : conv[e] = {c}
    BY <1>1, <1>17 DEF SaveInv, RunInv
  <2>2. stored \in [Messages -> SUBSET rows] /\ Event[e] \in Messages /\ e \notin Follows
    BY <1>1, <1>4, <1>17 DEF InboundType
  <2>3. CASE stored[Event[e]] = {}
    BY <1>17, <2>1, <2>2, <2>3 DEF Placing
  <2>4. CASE stored[Event[e]] # {}
    BY <1>17, <2>2, <2>4 DEF Placing
  <2> QED BY <2>3, <2>4
<1>18. CASE Save(e)
  <2>1. Acked(e) /\ rows' = rows
    BY <1>18 DEF Save
  <2>2. Placing(e) /\ stored'[Event[e]] # {} /\ e \notin Follows
    BY <1>4, <1>17, <1>18 DEF Save
  <2>3. IsServed(e)
    BY <2>2 DEF IsServed
  <2> QED BY <1>1, <1>8, <2>1, <2>2, <2>3, AckedEnds
<1>19. CASE FollowFinds(e)
  <2>1. UNCHANGED <<rows, stored>> /\ e \in Follows
    BY <1>5, <1>19 DEF FollowFinds
  <2>2. (rows # {} /\ Acked(e)) \/ UNCHANGED <<queue, tries>>
    BY <1>19 DEF FollowFinds
  <2>3. rows # {} => IsServed(e)
    BY <2>1 DEF IsServed
  <2>4. Ending(e)
    BY <1>1, <1>6, <2>2, <2>3, AckedEnds
  <2> QED BY <1>8, <1>9, <2>1, <2>4
<1>20. CASE FollowInserts(e)
  <2>1. Acked(e) /\ rows' = rows \cup {e} /\ stored' = stored /\ e \in Follows
    BY <1>5, <1>20 DEF FollowInserts
  <2>2. IsServed(e) /\ Opening(e)
    BY <2>1 DEF IsServed, Opening, MayOpen
  <2>3. Ending(e)
    BY <1>1, <2>1, <2>2, AckedEnds
  <2> QED BY <1>9, <2>1, <2>2, <2>3
<1>21. CASE Throws(e)
  <2>1. step[e] # "idle" /\ Again(e)
    BY <1>21 DEF Throws
  <2>2. CASE UNCHANGED <<rows, stored>>
    BY <1>7, <1>8, <1>9, <2>1, <2>2
  <2>3. CASE /\ step[e] = "save"
             /\ stored' = [stored EXCEPT ![Event[e]] = IF @ = Nothing THEN conv[e] ELSE @]
             /\ rows' = rows
    BY <1>7, <1>8, <1>17, <2>1, <2>3
  <2>4. CASE step[e] = "insert" /\ rows' = rows \cup {e} /\ stored' = stored
    BY <1>5, <1>7, <1>9, <2>1, <2>4 DEF Opening, MayOpen
  <2> QED BY <1>21, <2>2, <2>3, <2>4 DEF Throws
<1>22. CASE Dies(e)
  <2>1. Again(e) /\ queue[e] = "running" /\ UNCHANGED <<rows, stored>>
    BY <1>22 DEF Dies
  <2> QED BY <1>1, <1>8, <1>9, <2>1, AgainEnds
<1>23. CASE FollowLosesTeam(e)
  <2>1. Acked(e) /\ UNCHANGED <<rows, stored>> /\ e \in Follows /\ lost' = lost \cup {e}
    BY <1>5, <1>23 DEF FollowLosesTeam
  <2>2. IsServed(e)
    BY <2>1 DEF IsServed
  <2> QED BY <1>1, <1>8, <1>9, <2>1, <2>2, AckedEnds
<1> QED
  BY <1>10, <1>11, <1>12, <1>13, <1>14, <1>15, <1>16, <1>18, <1>19, <1>20, <1>21, <1>22,
     <1>23 DEF Working, Handles

LEMMA PathImplements == PathInv /\ [Next]_vars => [Promise!Next]_(Promise!vars)
<1> SUFFICES ASSUME PathInv, [Next]_vars PROVE [Promise!Next]_(Promise!vars)
  OBVIOUS
<1>1. Excused => Excused'
  BY ExcusedStays DEF PathInv
<1>2. ASSUME NEW e \in Entries, Working(e) PROVE [Promise!Next]_(Promise!vars)
  BY <1>1, <1>2, HandlesImplements
<1>3. CASE UNCHANGED inboundVars
  <2>1. UNCHANGED <<Fate, tries, rows, stored, lost>>
    BY <1>3 DEF inboundVars, Fate
  <2>2. CASE Excused'
    BY <2>1, <2>2 DEF Promise!Next, Promise!Excuse, Fate
  <2>3. CASE ~Excused'
    <3>1. Excused' = Excused
      BY <1>1, <2>3 DEF Excused
    <3> QED BY <2>1, <3>1 DEF Promise!vars, Fate
  <2> QED BY <2>2, <2>3
<1> QED BY <1>2, <1>3 DEF Next, vars, Working

\* Consumers, lock and retries together keep what Intake promises, for any entries,
\* messages, retries and faults: nothing settled is touched again, nothing acknowledged
\* is without its message or conversation, unless it is a follow event of which a lookup
\* failed (line-follow-handler.ts:121, 150), and only retries that are used up give up.
THEOREM ImplementsIntakeAlways == Spec => ImplementsIntake
<1>1. Init => Promise!Init
  BY DEF Init, LockInit, Promise!Init, Excused, None, Nothing
<1> QED
  BY <1>1, PathAlways, PathImplements, PTL DEF Spec, ImplementsIntake, Promise!Spec
=============================================================================
