-------------------- MODULE DelayedMessageSchedulerProofs --------------------
(***************************************************************************)
(* Proofs about DelayedMessageScheduler, for every set of messages, every  *)
(* bound and every number of crashes and failing writes.                   *)
(***************************************************************************)
EXTENDS DelayedMessageScheduler, TLAPS

LEMMA HorizonRange ==
    ASSUME NEW t \in Nat
    PROVE  /\ Horizon(t) \in 0 .. MaxTime
           /\ t >= 1 => Horizon(t) >= 1
  BY SchedulerAssumption DEF Horizon

LEMMA EntryKinds ==
    ASSUME now \in 1 .. MaxTime
    PROVE  /\ Absent \in Entry
           /\ \A t \in 0 .. MaxTime : Fresh(t) \in Entry
           /\ \A e \in Entry : Failed(e) \in Entry
  <1>1. 0 \in 0 .. MaxTime /\ now \in 0 .. MaxTime
    BY SchedulerAssumption
  <1>2. Absent \in Entry
    BY <1>1 DEF Absent, Entry
  <1>3. \A t \in 0 .. MaxTime : Fresh(t) \in Entry
    BY <1>1 DEF Fresh, Entry
  <1>4. \A e \in Entry : Failed(e) \in Entry
    BY <1>1 DEF Failed, Entry
  <1> QED BY <1>2, <1>3, <1>4

LEMMA UpdateAlarmType ==
    ASSUME TypeOK, UpdateAlarm(mem)
    PROVE  alarm' \in 0 .. MaxTime /\ nextAlarm' \in 0 .. MaxTime
  BY SchedulerAssumption DEF UpdateAlarm, TypeOK, Due, Pending, Entry

LEMMA RestoreType ==
    ASSUME TypeOK, alarm' \in 0 .. MaxTime, Restore
    PROVE  /\ mem' \in [Msgs -> Entry] /\ row' \in [Msgs -> Entry]
           /\ dlq' \in [Msgs -> 0 .. MaxTime]
           /\ nextAlarm' \in 0 .. MaxTime
           /\ purged' \in SUBSET Msgs
  BY EntryKinds, SchedulerAssumption DEF Restore, TypeOK

LEMMA InitType == Init => TypeOK
  BY EntryKinds, SchedulerAssumption DEF Init, TypeOK

LEMMA RequestType == TypeOK /\ Request => TypeOK'
  <1> SUFFICES ASSUME TypeOK, Request PROVE TypeOK'
    OBVIOUS
  <1>1. ASSUME NEW m \in Msgs, NEW d \in Delays, ScheduleStore(m, d)
        PROVE  TypeOK'
    <2>1. Fresh(Horizon(now + d)) \in Entry
      BY HorizonRange, EntryKinds, SchedulerAssumption DEF TypeOK
    <2> QED BY <1>1, <2>1 DEF ScheduleStore, TypeOK
  <1>2. ASSUME NEW m \in Msgs, NEW d \in Delays, SchedulePutFails(m, d)
        PROVE  TypeOK'
    <2>1. Fresh(Horizon(now + d)) \in Entry
      BY HorizonRange, EntryKinds, SchedulerAssumption DEF TypeOK
    <2> QED BY <1>2, <2>1, SchedulerAssumption DEF SchedulePutFails, TypeOK
  <1>3. ASSUME NEW m \in Msgs, CancelDelete(m)
        PROVE  TypeOK'
    BY <1>3, EntryKinds DEF CancelDelete, TypeOK
  <1> QED BY <1>1, <1>2, <1>3 DEF Request

LEMMA JobType == ASSUME TypeOK, NEW m \in Msgs, Job(m) PROVE TypeOK'
  <1> USE EntryKinds, SchedulerAssumption DEF TypeOK, To, RefStage, InlineStage
  <1>1. CASE DeliverRuns(m)  BY <1>1 DEF DeliverRuns
  <1>2. CASE DeliverRejects(m)  BY <1>2 DEF DeliverRejects
  <1>3. CASE DeliverDone(m)  BY <1>3 DEF DeliverDone
  <1>4. CASE CheckSent(m)  BY <1>4 DEF CheckSent
  <1>5. CASE PlatformAccepts(m)  BY <1>5 DEF PlatformAccepts
  <1>6. CASE PlatformRefuses(m)  BY <1>6 DEF PlatformRefuses
  <1>7. CASE SendSucceeds(m)  BY <1>7 DEF SendSucceeds
  <1>8. CASE SendRetries(m)
    <2>1. mem[m] \in Entry /\ attempt[m] + 1 \in Nat
      OBVIOUS
    <2>2. [mem[m] EXCEPT !.retry = attempt[m] + 1] \in Entry
      BY <2>1 DEF Entry
    <2>3. mem' = [mem EXCEPT ![m] = [mem[m] EXCEPT !.retry = attempt[m] + 1]]
      BY <1>8 DEF SendRetries
    <2>4. mem' \in [Msgs -> Entry]
      BY <2>2, <2>3
    <2> QED BY <1>8, <2>4 DEF SendRetries
  <1>9. CASE BackoffEnds(m)  BY <1>9 DEF BackoffEnds
  <1>10. CASE SendGivesUp(m)  BY <1>10 DEF SendGivesUp
  <1>11. CASE StoreCommits(m)  BY <1>11 DEF StoreCommits
  <1>12. CASE StoreThrows(m)  BY <1>12 DEF StoreThrows
  <1>13. ASSUME NEW ok \in BOOLEAN, DeadLetter(m, ok) PROVE TypeOK'
    <2>1. dlq' \in [Msgs -> 0 .. MaxTime]
      BY <1>13 DEF DeadLetter
    <2>2. (IF ok THEN Absent ELSE Failed(row[m])) \in Entry
      OBVIOUS
    <2>3. row' \in [Msgs -> Entry]
      BY <1>13, <2>2 DEF DeadLetter
    <2> QED BY <1>13, <2>1, <2>3 DEF DeadLetter
  <1>14. ASSUME NEW ok \in BOOLEAN, RecordRejected(m, ok) PROVE TypeOK'
    BY <1>14 DEF RecordRejected
  <1>15. CASE Settle(m)
    <2> DEFINE e == [mem[m] EXCEPT !.retry = @ + 1]
               later == [e EXCEPT !.at = Horizon(now + RetryDelay * e.retry)]
    <2>1. mem[m] \in Entry
      OBVIOUS
    <2>2. e \in Entry /\ e.retry \in Nat
      BY <2>1, SMTT(30) DEF Entry
    <2>3. RetryDelay * e.retry \in Nat
      BY <2>2
    <2>4. Horizon(now + RetryDelay * e.retry) \in 0 .. MaxTime
      BY <2>3, HorizonRange
    <2>5. later \in Entry
      BY <2>2, <2>4 DEF Entry
    <2>6. Failed(e) \in Entry
      BY <2>2
    <2> HIDE DEF e, later
    <2>7. /\ mem' = [mem EXCEPT ![m] = IF e.retry <= MaxRetry THEN later ELSE Absent]
          /\ row' = [row EXCEPT ![m] = IF e.retry <= MaxRetry THEN later
                                       ELSE IF job[m] = "recorded" THEN Absent
                                       ELSE Failed(e)]
      BY <1>15 DEF Settle, e, later
    <2>8. mem' \in [Msgs -> Entry] /\ row' \in [Msgs -> Entry]
      BY <2>5, <2>6, <2>7
    <2> QED BY <1>15, <2>8 DEF Settle
  <1> QED BY <1>1, <1>2, <1>3, <1>4, <1>5, <1>6, <1>7, <1>8, <1>9, <1>10,
             <1>11, <1>12, <1>13, <1>14, <1>15 DEF Job

LEMMA HandlerType == TypeOK /\ Handler => TypeOK'
  <1> SUFFICES ASSUME TypeOK, Handler PROVE TypeOK'
    OBVIOUS
  <1>1. CASE ScheduleArm
    BY <1>1, UpdateAlarmType DEF ScheduleArm, TypeOK
  <1>2. CASE CancelArm
    BY <1>2, UpdateAlarmType DEF CancelArm, TypeOK
  <1>3. CASE AlarmIdle
    <2>1. Due(mem) \subseteq 0 .. MaxTime
      BY DEF TypeOK, Due, Pending, Entry
    <2>2. alarm' \in 0 .. MaxTime /\ nextAlarm' \in 0 .. MaxTime
      BY <1>3, <2>1, SchedulerAssumption DEF AlarmIdle
    <2> QED BY <1>3, <2>2 DEF AlarmIdle, TypeOK
  <1>4. CASE AlarmFire
    BY <1>4, SchedulerAssumption DEF AlarmFire, TypeOK, RefStage, InlineStage
  <1>5. CASE SettleBegins
    BY <1>5 DEF SettleBegins, TypeOK
  <1>6. CASE AlarmEnds
    BY <1>6, UpdateAlarmType DEF AlarmEnds, TypeOK
  <1>7. ASSUME NEW m \in Msgs, Job(m) PROVE TypeOK'
    BY <1>7, JobType
  <1> QED BY <1>1, <1>2, <1>3, <1>4, <1>5, <1>6, <1>7 DEF Handler

LEMMA NextType == TypeOK /\ [Next]_vars => TypeOK'
  <1> SUFFICES ASSUME TypeOK, [Next]_vars PROVE TypeOK'
    OBVIOUS
  <1>1. CASE Restart
    <2>1. alarm' \in 0 .. MaxTime
      BY <1>1 DEF Restart, TypeOK
    <2>2. CASE Restore /\ faults' = faults
      BY <1>1, <2>1, <2>2, RestoreType DEF Restart, TypeOK
    <2>3. CASE RestoreFails /\ faults' = [faults EXCEPT !.restore = @ + 1]
      <3>1. mem' \in [Msgs -> Entry]
        BY <2>3, EntryKinds DEF RestoreFails, TypeOK
      <3> QED BY <1>1, <2>1, <2>3, <3>1, SchedulerAssumption
              DEF Restart, RestoreFails, TypeOK
    <2> QED BY <1>1, <2>2, <2>3 DEF Restart
  <1>2. CASE Abort
    <2>1. alarm' \in 0 .. MaxTime
      BY <1>2, SchedulerAssumption DEF Abort, TypeOK
    <2> QED BY <1>2, <2>1, RestoreType, SchedulerAssumption DEF Abort, TypeOK
  <1>3. CASE Tick
    BY <1>3, SchedulerAssumption DEF Tick, TypeOK
  <1>4. CASE UNCHANGED vars
    BY <1>4 DEF vars, TypeOK
  <1> QED BY <1>1, <1>2, <1>3, <1>4, RequestType, HandlerType DEF Next

\* Every value stays in its declared range: the Map, the rows, the dead-letter
\* rows, both copies of the alarm time and the stage of every job.
THEOREM TypeCorrect == Spec => []TypeOK
  BY InitType, NextType, PTL DEF Spec

LEMMA JobKeeps == ASSUME TypeOK, IInv, NEW m \in Msgs, Job(m) PROVE IInv'
  <1> USE DEF TypeOK, Entry, To, RefStage, InlineStage, Active, Running, Dead, Absent
  <1> USE DEF IInv, JobInv, CopyInv, GateInv, CachedAlarm, CancelInv, PushInv,
              Accounted, NeverStranded, CancelledNeverPushed
  <1>1. CASE DeliverRuns(m)  BY <1>1 DEF DeliverRuns
  <1>2. CASE DeliverRejects(m)  BY <1>2 DEF DeliverRejects
  <1>3. CASE DeliverDone(m)  BY <1>3 DEF DeliverDone
  <1>4. CASE CheckSent(m)
    <2>1. PICK found \in {FALSE, (m \in stored)} :
            /\ mem' = IF found THEN [mem EXCEPT ![m] = Absent] ELSE mem
            /\ row' = IF found THEN [row EXCEPT ![m] = Absent] ELSE row
            /\ To(m, IF found THEN "done" ELSE "push")
      BY <1>4 DEF CheckSent
    <2>2. found => m \in pushed
      BY <2>1
    <2>3. CASE found
      BY <1>4, <2>1, <2>2, <2>3 DEF CheckSent
    <2>4. CASE ~found
      BY <1>4, <2>1, <2>4 DEF CheckSent
    <2> QED BY <2>1, <2>3, <2>4
  <1>5. CASE PlatformAccepts(m)
    <2>1. m \in InlineMsgs /\ mem[m].status = "pending" /\ mem[m].at <= now
      BY <1>5 DEF PlatformAccepts
    <2>2. row[m].status = "pending" => row[m].at <= now
      BY <2>1
    <2>3. m \notin cancelled /\ m \notin RefMsgs
      BY <2>1, SchedulerAssumption
    <2>4. JobInv' /\ CopyInv' /\ GateInv' /\ CachedAlarm' /\ CancelInv'
      BY <1>5, <2>3 DEF PlatformAccepts
    <2>5. PushInv'
      BY <1>5, <2>1, <2>2, <2>3 DEF PlatformAccepts
    <2>6. Accounted' /\ NeverStranded' /\ CancelledNeverPushed'
      BY <1>5, <2>3 DEF PlatformAccepts
    <2> QED BY <2>4, <2>5, <2>6
  <1>6. CASE PlatformRefuses(m)  BY <1>6 DEF PlatformRefuses
  <1>7. CASE SendSucceeds(m)  BY <1>7 DEF SendSucceeds
  <1>8. CASE SendRetries(m)  BY <1>8 DEF SendRetries
  <1>9. CASE BackoffEnds(m)  BY <1>9 DEF BackoffEnds
  <1>10. CASE SendGivesUp(m)  BY <1>10 DEF SendGivesUp
  <1>11. CASE StoreCommits(m)  BY <1>11 DEF StoreCommits
  <1>12. CASE StoreThrows(m)  BY <1>12 DEF StoreThrows
  <1>13. ASSUME NEW ok \in BOOLEAN, DeadLetter(m, ok) PROVE IInv'
    BY <1>13 DEF DeadLetter, Failed
  <1>14. ASSUME NEW ok \in BOOLEAN, RecordRejected(m, ok) PROVE IInv'
    BY <1>14 DEF RecordRejected
  <1>15. CASE Settle(m)
    <2> DEFINE e == [mem[m] EXCEPT !.retry = @ + 1]
               t == Horizon(now + RetryDelay * e.retry)
    <2>1. /\ m \in RefMsgs /\ m \notin InlineMsgs
          /\ mem[m].status = "pending" /\ mem[m].at <= now
          /\ m \notin cancelled
      BY <1>15, SchedulerAssumption DEF Settle
    <2>2. e.retry \in Nat /\ RetryDelay * e.retry \in Nat
      BY SchedulerAssumption
    <2>3. t \in 0 .. MaxTime /\ t >= 1
      <3>1. now + RetryDelay * e.retry \in Nat /\ now + RetryDelay * e.retry >= 1
        BY <2>2
      <3> QED BY <3>1, HorizonRange
    <2>4. m \in pushed => faults.abort # 0
      BY <1>15, <2>1 DEF Settle
    <2>5. /\ UNCHANGED <<now, dlq, alarm, nextAlarm, gate, asking, attempt,
                        acked, cancelled, pushed, stored, purged, faults>>
          /\ job' = [job EXCEPT ![m] = "done"]
          /\ gate = "settle" /\ job[m] \in {"recorded", "unrecorded"}
      BY <1>15 DEF Settle
    <2>6. CASE e.retry <= MaxRetry
      <3>1. /\ mem' = [mem EXCEPT ![m] = [e EXCEPT !.at = t]]
            /\ row' = [row EXCEPT ![m] = [e EXCEPT !.at = t]]
        BY <1>15, <2>6 DEF Settle
      <3>2. [e EXCEPT !.at = t].at = t /\ [e EXCEPT !.at = t].status = "pending"
        BY <2>1
      <3> HIDE DEF e, t
      <3> QED BY <2>1, <2>3, <2>4, <2>5, <3>1, <3>2
    <2>7. CASE ~(e.retry <= MaxRetry)
      <3>1. /\ mem' = [mem EXCEPT ![m] = Absent]
            /\ row' = [row EXCEPT ![m] = IF job[m] = "recorded" THEN Absent
                                         ELSE Failed(e)]
        BY <1>15, <2>7 DEF Settle
      <3>2. Failed(e).status = "failed"
        BY DEF Failed
      <3> HIDE DEF e, t
      <3> QED BY <2>1, <2>5, <3>1, <3>2
    <2> QED BY <2>6, <2>7
  <1> QED BY <1>1, <1>2, <1>3, <1>4, <1>5, <1>6, <1>7, <1>8, <1>9, <1>10,
             <1>11, <1>12, <1>13, <1>14, <1>15 DEF Job

LEMMA RequestKeeps == ASSUME TypeOK, IInv, Request PROVE IInv'
  <1> USE DEF TypeOK, Entry, RefStage, InlineStage, Active, Running, Dead, Absent, Fresh
  <1> USE DEF IInv, JobInv, CopyInv, GateInv, CachedAlarm, CancelInv, PushInv,
              Accounted, NeverStranded, CancelledNeverPushed
  <1>1. ASSUME NEW m \in Msgs, NEW d \in Delays, ScheduleStore(m, d)
        PROVE  IInv'
    <2>1. Horizon(now + d) \in 0 .. MaxTime /\ Horizon(now + d) >= 1
      BY HorizonRange, SchedulerAssumption
    <2>2. /\ mem[m].status = "absent" /\ row[m].status = "absent"
          /\ m \notin acked /\ m \notin cancelled /\ m \notin pushed
      BY <1>1 DEF ScheduleStore, Unused
    <2>3. job[m] = "idle"
      BY <1>1 DEF ScheduleStore, Unused
    <2> DEFINE new == Fresh(Horizon(now + d))
    <2>4. /\ new.status = "pending" /\ new.at >= 1
          /\ mem' = [mem EXCEPT ![m] = new] /\ row' = [row EXCEPT ![m] = new]
          /\ gate = "open" /\ gate' = "schedule" /\ asking' = {m}
          /\ UNCHANGED <<now, dlq, alarm, nextAlarm, job, attempt,
                         acked, cancelled, pushed, stored, purged, faults>>
      BY <1>1, <2>1 DEF ScheduleStore
    <2> HIDE DEF new
    <2>5. JobInv' /\ CachedAlarm' /\ CancelInv' /\ PushInv'
      BY <2>2, <2>3, <2>4
    <2>6. CopyInv'
      BY <2>2, <2>3, <2>4
    <2>7. GateInv' /\ Accounted' /\ NeverStranded' /\ CancelledNeverPushed'
      BY <2>2, <2>4
    <2> QED BY <2>5, <2>6, <2>7
  <1>2. ASSUME NEW m \in Msgs, NEW d \in Delays, SchedulePutFails(m, d)
        PROVE  IInv'
    <2>1. Horizon(now + d) \in 0 .. MaxTime /\ Horizon(now + d) >= 1
      BY HorizonRange, SchedulerAssumption
    <2>2. /\ mem[m].status = "absent" /\ row[m].status = "absent"
          /\ m \notin acked /\ m \notin cancelled /\ m \notin pushed
      BY <1>2 DEF SchedulePutFails, Unused
    <2>3. job[m] = "idle"
      BY <1>2 DEF SchedulePutFails, Unused
    <2> DEFINE new == Fresh(Horizon(now + d))
    <2>4. /\ new.status = "pending" /\ new.at >= 1
          /\ mem' = [mem EXCEPT ![m] = new]
          /\ gate = "open" /\ faults'.abort = faults.abort
          /\ faults'.restore = faults.restore
          /\ UNCHANGED <<now, row, dlq, alarm, nextAlarm, gate, asking, job, attempt,
                         acked, cancelled, pushed, stored, purged>>
      BY <1>2, <2>1 DEF SchedulePutFails
    <2> HIDE DEF new
    <2>5. JobInv' /\ CachedAlarm' /\ CancelInv' /\ PushInv'
      BY <2>2, <2>3, <2>4
    <2>6. CopyInv' /\ GateInv'
      BY <2>2, <2>3, <2>4
    <2>7. Accounted' /\ NeverStranded' /\ CancelledNeverPushed'
      BY <2>2, <2>4
    <2> QED BY <2>5, <2>6, <2>7
  <1>3. ASSUME NEW m \in Msgs, CancelDelete(m)
        PROVE  IInv'
    <2>1. mem[m].status = "pending" /\ mem[m].at > now
      BY <1>3 DEF CancelDelete, Pending
    <2>2. job[m] \notin Active \cup {"store", "dlq"}
      BY <2>1
    <2>3. m \in pushed => m \in RefMsgs /\ faults.abort # 0
      BY <2>1, <2>2 DEF Msgs
    <2> QED BY <1>3, <2>1, <2>2, <2>3 DEF CancelDelete
  <1> QED BY <1>1, <1>2, <1>3 DEF Request

\* After doUpdateAlarm every message pending in the Map has an alarm in time.
LEMMA AlarmCovers ==
    ASSUME TypeOK, UpdateAlarm(mem), CopyInv, CachedAlarm
    PROVE  /\ faults.restore = 0 => nextAlarm' = alarm'
           /\ faults.restore = 0 => \A m \in Pending(mem) :
                                       alarm' # 0 /\ alarm' <= mem[m].at
  <1>1. ASSUME NEW t \in Due(mem), \A u \in Due(mem) : t <= u
        PROVE  t # 0 /\ \A m \in Pending(mem) : t <= mem[m].at
    BY <1>1 DEF TypeOK, Entry, Due, Pending, CopyInv
  <1>2. Pending(mem) # {} => Due(mem) # {}
    BY DEF Due
  <1>3. CASE \E t \in Due(mem) :
               /\ \A u \in Due(mem) : t <= u
               /\ nextAlarm' = t
               /\ alarm' = IF t = nextAlarm THEN alarm ELSE t
    BY <1>1, <1>3 DEF CachedAlarm
  <1>4. CASE /\ Due(mem) = {}
             /\ nextAlarm' = 0
             /\ alarm' = IF nextAlarm = 0 THEN alarm ELSE 0
    BY <1>2, <1>4 DEF CachedAlarm
  <1> QED BY <1>3, <1>4 DEF UpdateAlarm

LEMMA HandlerKeeps == ASSUME TypeOK, IInv, Handler PROVE IInv'
  <1> USE DEF TypeOK, Entry, RefStage, InlineStage, Active, Running, Dead, Absent, Pending
  <1> USE DEF IInv, JobInv, CopyInv, GateInv, CachedAlarm, CancelInv, PushInv,
              Accounted, NeverStranded, CancelledNeverPushed
  <1>1. CASE ScheduleArm
    <2>1. UpdateAlarm(mem)
      BY <1>1 DEF ScheduleArm
    <2> QED BY <1>1, <2>1, AlarmCovers DEF ScheduleArm
  <1>2. CASE CancelArm
    <2>1. UpdateAlarm(mem)
      BY <1>2 DEF CancelArm
    <2> QED BY <1>2, <2>1, AlarmCovers DEF CancelArm
  <1>3. CASE AlarmIdle
    <2>1. \/ \E t \in Due(mem) : /\ \A u \in Due(mem) : t <= u
                               /\ alarm' = t /\ nextAlarm' = t
          \/ Due(mem) = {} /\ alarm' = 0 /\ nextAlarm' = 0
      BY <1>3 DEF AlarmIdle
    <2>2. \A m \in Pending(mem) : mem[m].at \in Due(mem)
      BY DEF Due
    <2>3. \A t \in Due(mem) : t # 0
      BY DEF Due
    <2>4. \A m \in Pending(mem) : alarm' # 0 /\ alarm' <= mem[m].at
      BY <2>1, <2>2, <2>3
    <2>5. nextAlarm' = alarm'
      BY <2>1
    <2> QED BY <1>3, <2>4, <2>5 DEF AlarmIdle, AlarmDue
  <1>4. CASE AlarmFire
    <2>1. \A m \in Msgs : m \in Ready => mem[m].status = "pending" /\ mem[m].at <= now
      BY DEF Ready
    <2>2. PICK r \in Msgs : r \in Ready
      BY <1>4 DEF AlarmFire, Ready
    <2>3. Running'
      BY <1>4, <2>2 DEF AlarmFire
    <2>4. \A m \in Msgs : m \in Ready => m \notin cancelled
      BY <2>1
    <2>5. \A m \in Msgs : job[m] = "idle"
      BY <1>4 DEF AlarmFire, AlarmDue
    <2>6. \A m \in Msgs : m \in Ready /\ m \notin RefMsgs => m \in InlineMsgs
      BY DEF Msgs
    <2> QED BY <1>4, <2>1, <2>3, <2>4, <2>5, <2>6 DEF AlarmFire, AlarmDue
  <1>5. CASE SettleBegins
    BY <1>5 DEF SettleBegins
  <1>6. CASE AlarmEnds
    <2>1. UpdateAlarm(mem)
      BY <1>6 DEF AlarmEnds
    <2> QED BY <1>6, <2>1, AlarmCovers DEF AlarmEnds
  <1>7. ASSUME NEW m \in Msgs, Job(m) PROVE IInv'
    BY <1>7, JobKeeps
  <1> QED BY <1>1, <1>2, <1>3, <1>4, <1>5, <1>6, <1>7 DEF Handler

LEMMA InitKeeps == Init => IInv
  BY DEF Init, IInv, JobInv, CopyInv, GateInv, CachedAlarm, CancelInv, PushInv,
         Accounted, NeverStranded, CancelledNeverPushed, Absent, RefStage,
         InlineStage, Active

\* What a cold start keeps: the pending rows, unchanged, and for every failed
\* message its record or the mark that it was dropped.
LEMMA RestoreKeeps ==
    ASSUME TypeOK, Restore
    PROVE  /\ \A m \in Msgs : row'[m].status = "pending" <=> row[m].status = "pending"
           /\ \A m \in Msgs : row[m].status = "pending" =>
                                 row'[m] = row[m] /\ mem'[m] = row[m]
           /\ \A m \in Msgs : row[m].status # "pending" => mem'[m].status = "absent"
           /\ \A m \in Msgs : row[m].status = "absent" => row'[m].status = "absent"
           /\ \A m \in Msgs : Dead(m) => Dead(m)' \/ m \in purged'
           /\ purged \subseteq purged'
  <1> USE DEF TypeOK, Entry, Restore, Absent, StaleRow
  <1>1. \A m \in Msgs : Dead(m) => Dead(m)' \/ m \in purged'
    BY DEF Dead, StaleDlq
  <1>2. /\ \A m \in Msgs : row'[m].status = "pending" <=> row[m].status = "pending"
        /\ \A m \in Msgs : row[m].status = "pending" =>
                              row'[m] = row[m] /\ mem'[m] = row[m]
        /\ \A m \in Msgs : row[m].status # "pending" => mem'[m].status = "absent"
        /\ \A m \in Msgs : row[m].status = "absent" => row'[m].status = "absent"
    OBVIOUS
  <1> QED BY <1>1, <1>2

LEMMA RestartKeeps == ASSUME TypeOK, IInv, Restart PROVE IInv'
  <1> USE DEF TypeOK, RefStage, InlineStage, Active, Running
  <1> USE DEF IInv, JobInv, CopyInv, GateInv, CachedAlarm, CancelInv, PushInv,
              Accounted, NeverStranded, CancelledNeverPushed
  <1>1. /\ UNCHANGED <<now, gate, asking, job, attempt, acked, cancelled, pushed, stored>>
        /\ alarm' = alarm /\ gate = "open" /\ \A m \in Msgs : job[m] = "idle"
    BY DEF Restart
  <1>2. CASE Restore /\ faults' = faults
    <2>1. nextAlarm' = alarm'
      BY <1>2 DEF Restore
    <2>8. CopyInv'
      BY <1>1, <1>2, RestoreKeeps
    <2>9. CancelInv'
      BY <1>1, <1>2, RestoreKeeps
    <2>2. JobInv' /\ CopyInv' /\ GateInv' /\ CachedAlarm' /\ CancelInv'
      BY <1>1, <1>2, <2>1, <2>8, <2>9
    <2>3. /\ \A m \in Msgs : row'[m].status = "pending" => row'[m] = row[m]
          /\ \A m \in Msgs : mem'[m].status = "pending" =>
                                mem'[m] = row[m] /\ row[m].status = "pending"
      BY <1>2, RestoreKeeps
    <2>5. PushInv'
      BY <1>1, <1>2, <2>3
    <2>6. NeverStranded' /\ CancelledNeverPushed'
      BY <1>1, <1>2, <2>3
    <2>4. ASSUME NEW m \in Msgs, m \in acked'
          PROVE  \/ row'[m].status = "pending"
                 \/ m \in cancelled' \cup pushed' \cup purged'
                 \/ Dead(m)'
      <3>1. m \in acked /\ cancelled' = cancelled /\ pushed' = pushed
        BY <1>1, <2>4
      <3>2. CASE row[m].status = "pending"
        BY <1>2, <3>2, RestoreKeeps
      <3>3. CASE m \in cancelled \cup pushed \cup purged
        BY <1>2, <3>1, <3>3, RestoreKeeps
      <3>4. CASE Dead(m)
        BY <1>2, <3>4, RestoreKeeps
      <3> QED BY <3>1, <3>2, <3>3, <3>4
    <2>7. Accounted'
      BY <1>1, <2>4
    <2> QED BY <2>2, <2>7, <2>5, <2>6
  <1>3. CASE RestoreFails /\ faults' = [faults EXCEPT !.restore = @ + 1]
    <2>1. /\ \A m \in Msgs : mem'[m].status = "absent"
          /\ UNCHANGED <<row, dlq, purged>>
          /\ faults'.restore # 0 /\ faults'.abort = faults.abort
      BY <1>3 DEF RestoreFails, Absent
    <2> QED BY <1>1, <2>1 DEF Dead
  <1> QED BY <1>2, <1>3 DEF Restart

LEMMA AbortKeeps == ASSUME TypeOK, IInv, Abort PROVE IInv'
  <1> USE DEF TypeOK, RefStage, InlineStage, Active
  <1> USE DEF IInv, JobInv, CopyInv, GateInv, CachedAlarm, CancelInv, PushInv,
              Accounted, NeverStranded, CancelledNeverPushed
  <1>1. /\ UNCHANGED <<now, acked, cancelled, pushed, stored>>
        /\ gate' = "open" /\ asking' = {} /\ \A m \in Msgs : job'[m] = "idle"
        /\ faults'.abort > 0 /\ faults'.abort # 0 /\ faults'.restore = faults.restore
    BY DEF Abort
  <1>2. Restore /\ nextAlarm' = alarm'
    BY DEF Abort, Restore
  <1>3. IF Running THEN alarm' # 0 ELSE alarm' = alarm
    BY DEF Abort
  <1>4. JobInv' /\ CopyInv' /\ GateInv' /\ CachedAlarm' /\ CancelInv'
    <2>1. CopyInv'
      BY <1>1, <1>2, RestoreKeeps
    <2>2. CancelInv'
      BY <1>1, <1>2, RestoreKeeps
    <2> QED BY <1>1, <1>2, <2>1, <2>2
  <1>5. PushInv' /\ CancelledNeverPushed'
    <2>1. /\ \A m \in Msgs : row'[m].status = "pending" => row'[m] = row[m]
          /\ \A m \in Msgs : mem'[m].status = "pending" =>
                                mem'[m] = row[m] /\ row[m].status = "pending"
      BY <1>2, RestoreKeeps
    <2> QED BY <1>1, <2>1
  <1>6. Accounted'
    <2>1. ASSUME NEW m \in Msgs, m \in acked'
          PROVE  \/ row'[m].status = "pending"
                 \/ m \in cancelled' \cup pushed' \cup purged'
                 \/ Dead(m)'
      <3>1. m \in acked /\ cancelled' = cancelled /\ pushed' = pushed
        BY <1>1, <2>1
      <3>2. CASE row[m].status = "pending"
        BY <1>2, <3>2, RestoreKeeps
      <3>3. CASE m \in cancelled \cup pushed \cup purged
        BY <1>2, <3>1, <3>3, RestoreKeeps
      <3>4. CASE Dead(m)
        BY <1>2, <3>4, RestoreKeeps
      <3> QED BY <3>1, <3>2, <3>3, <3>4
    <2> QED BY <1>1, <2>1
  <1>7. NeverStranded'
    BY <1>1, <1>2, <1>3, RestoreKeeps
  <1> QED BY <1>4, <1>5, <1>6, <1>7

LEMMA NextKeeps == TypeOK /\ IInv /\ [Next]_vars => IInv'
  <1> SUFFICES ASSUME TypeOK, IInv, [Next]_vars PROVE IInv'
    OBVIOUS
  <1>1. CASE Tick
    BY <1>1 DEF Tick, TypeOK, Entry, IInv, JobInv, CopyInv, GateInv, CachedAlarm,
                CancelInv, PushInv, Accounted, NeverStranded,
                CancelledNeverPushed, Running, Dead
  <1>2. CASE UNCHANGED vars
    BY <1>2 DEF vars, IInv, JobInv, CopyInv, GateInv, CachedAlarm, CancelInv,
                PushInv, Accounted, NeverStranded, CancelledNeverPushed,
                Running, Dead
  <1> QED BY <1>1, <1>2, RequestKeeps, HandlerKeeps, RestartKeeps, AbortKeeps DEF Next

\* The object's memory, its rows and its alarm agree in every reachable state, whoever
\* holds the input gate, wherever a handler was cut short and however a cold start went.
THEOREM InvariantAlways == Spec => []IInv
  BY InitType, NextType, InitKeeps, NextKeeps, PTL DEF Spec

\* No acknowledged message is lost, for any number of messages, crashes, failing
\* writes and cold starts: the hand-over from `msg:` row to push, D1 and `dlq:`
\* row always leaves a trace.
THEOREM AccountedAlways == Spec => []Accounted
  <1>1. IInv => Accounted
    BY DEF IInv
  <1> QED BY <1>1, InvariantAlways, PTL

\* The cached alarm time never hides a missing alarm: a held message has one,
\* early enough, unless a handler was cut short or a cold start read failed.
THEOREM NeverStrandedAlways == Spec => []NeverStranded
  <1>1. IInv => NeverStranded
    BY DEF IInv
  <1> QED BY <1>1, InvariantAlways, PTL

\* A cancelled message was not pushed, unless an alarm handler was cut short after it.
THEOREM CancelHolds == Spec => []CancelledNeverPushed
  <1>1. IInv => CancelledNeverPushed
    BY DEF IInv
  <1> QED BY <1>1, InvariantAlways, PTL

\* A failure record is dropped only by a cold start, and only when the retention
\* has passed since the first failure.
THEOREM RecordKeptAlways == Spec => RecordKept
  <1> DEFINE Step == \A m \in Msgs : Dead(m) /\ ~Dead(m)' => Expired(FirstFailure(m))
  <1>1. TypeOK /\ IInv /\ [Next]_vars => [Step]_vars
    <2> SUFFICES ASSUME TypeOK, IInv, [Next]_vars,
                        NEW m \in Msgs, Dead(m), ~Dead(m)'
                 PROVE  Expired(FirstFailure(m))
      OBVIOUS
    <2> USE DEF TypeOK, Entry, Dead, IInv, CopyInv, JobInv, RefStage, InlineStage, Active
    <2>1. CASE Request
      <3>1. dlq' = dlq
        BY <2>1 DEF Request, ScheduleStore, SchedulePutFails, CancelDelete
      <3>2. ASSUME NEW k \in Msgs, row[k].status # "failed",
                   \E e \in Entry : row' = [row EXCEPT ![k] = e]
            PROVE  FALSE
        BY <3>1, <3>2
      <3>3. ASSUME NEW k \in Msgs, NEW d \in Delays, ScheduleStore(k, d)
            PROVE  FALSE
        <4>1. row[k].status # "failed" /\ Fresh(Horizon(now + d)) \in Entry
          BY <3>3, HorizonRange, EntryKinds, SchedulerAssumption
             DEF ScheduleStore, Unused, Absent
        <4> QED BY <3>2, <3>3, <4>1 DEF ScheduleStore
      <3>4. ASSUME NEW k \in Msgs, CancelDelete(k)
            PROVE  FALSE
        <4>1. row[k].status # "failed" /\ Absent \in Entry
          BY <3>4, EntryKinds DEF CancelDelete, Pending
        <4> QED BY <3>2, <3>4, <4>1 DEF CancelDelete
      <3>5. ASSUME NEW k \in Msgs, NEW d \in Delays, SchedulePutFails(k, d)
            PROVE  FALSE
        BY <3>1, <3>5 DEF SchedulePutFails
      <3> QED BY <2>1, <3>3, <3>4, <3>5 DEF Request
    <2>2. ASSUME NEW k \in Msgs, Job(k) PROVE FALSE
      <3>1. mem[k].status = "pending" => row[k].status # "failed"
        OBVIOUS
      <3>2. CASE DeadLetter(k, TRUE) \/ DeadLetter(k, FALSE)
        <4>1. CASE m = k
          <5>1. CASE DeadLetter(k, TRUE)
            BY <4>1, <5>1, SchedulerAssumption DEF DeadLetter
          <5>2. CASE DeadLetter(k, FALSE)
            <6>1. row'[m] = Failed(row[m])
              BY <4>1, <5>2 DEF DeadLetter
            <6>2. Failed(row[m]).status = "failed"
              BY DEF Failed
            <6> QED BY <6>1, <6>2
          <5> QED BY <3>2, <5>1, <5>2
        <4>2. CASE m # k
          BY <3>2, <4>2 DEF DeadLetter
        <4> QED BY <4>1, <4>2
      <3>3. CASE RecordRejected(k, TRUE) \/ RecordRejected(k, FALSE)
        BY <3>3, SchedulerAssumption DEF RecordRejected
      <3>4. CASE Settle(k)
        <4>1. dlq' = dlq /\ mem[k].status = "pending"
          BY <3>4 DEF Settle
        <4>2. dlq[m] = 0 /\ row[m].status = "failed"
          BY <4>1
        <4>3. m # k
          BY <4>1, <4>2
        <4>4. row'[m] = row[m]
          BY <3>4, <4>3 DEF Settle
        <4> QED BY <4>2, <4>4
      <3>5. CASE DeliverDone(k) \/ CheckSent(k) \/ SendSucceeds(k) \/ SendRetries(k)
        <4>1. dlq' = dlq /\ mem[k].status = "pending"
          BY <3>5 DEF DeliverDone, CheckSent, SendSucceeds, SendRetries
        <4>2. row[m].status = "failed" /\ m # k
          BY <3>1, <4>1
        <4>3. row'[m] = row[m]
          BY <3>5, <4>2 DEF DeliverDone, CheckSent, SendSucceeds, SendRetries
        <4> QED BY <4>1, <4>2, <4>3
      <3>6. CASE \/ DeliverRuns(k) \/ DeliverRejects(k) \/ PlatformAccepts(k)
                 \/ PlatformRefuses(k) \/ BackoffEnds(k) \/ SendGivesUp(k)
                 \/ StoreCommits(k) \/ StoreThrows(k)
        BY <3>6 DEF DeliverRuns, DeliverRejects, PlatformAccepts, PlatformRefuses,
                    BackoffEnds, SendGivesUp, StoreCommits, StoreThrows
      <3> QED BY <2>2, <3>2, <3>3, <3>4, <3>5, <3>6 DEF Job
    <2>3. CASE ScheduleArm \/ CancelArm \/ AlarmIdle \/ AlarmFire \/ SettleBegins \/ AlarmEnds
      BY <2>3 DEF ScheduleArm, CancelArm, AlarmIdle, AlarmFire, SettleBegins, AlarmEnds
    <2>4. CASE Restore
      BY <2>4 DEF Restore, StaleRow, StaleDlq, FirstFailure, Absent
    <2>5. CASE Restart \/ Abort
      BY <2>4, <2>5 DEF Restart, RestoreFails, Abort
    <2>6. CASE Tick \/ UNCHANGED vars
      BY <2>6 DEF Tick, vars
    <2> QED BY <2>1, <2>2, <2>3, <2>5, <2>6 DEF Next, Handler
  <1> HIDE DEF Step
  <1>2. Spec => [][Step]_vars
    BY <1>1, TypeCorrect, InvariantAlways, PTL DEF Spec
  <1> QED BY <1>2 DEF Step, RecordKept

(***************************************************************************)
(* DelayedMessageScheduler implements RecallWindow: first the steps of     *)
(* RecallWindow, told of the scheduler's variables.                        *)
(***************************************************************************)
Held == Pending(mem) \cup Pending(row)

Recorded == {m \in Msgs : Dead(m)} \cup purged

LEMMA HoldStep ==
    ASSUME NEW m \in Msgs, m \notin Held \cup pushed \cup cancelled \cup Recorded,
           Held' = Held \cup {m}, Recorded' = Recorded,
           UNCHANGED <<acked, pushed, cancelled>>
    PROVE  Window!Next
BY DEF Window!Next, Window!Hold, Held, Recorded

LEMMA PromiseStep ==
    ASSUME NEW S \in SUBSET Msgs, S \subseteq Held, acked' = acked \cup S,
           Held' = Held, Recorded' = Recorded, UNCHANGED <<pushed, cancelled>>
    PROVE  Window!Next
BY DEF Window!Next, Window!Promise, Held, Recorded

LEMMA TryStep ==
    ASSUME NEW m \in Msgs, m \in Held, pushed' = pushed \cup {m},
           Held' = Held, Recorded' = Recorded, UNCHANGED <<acked, cancelled>>
    PROVE  Window!Next
BY DEF Window!Next, Window!Try, Held, Recorded

LEMMA CancelStep ==
    ASSUME NEW m \in Msgs, m \in Held, cancelled' = cancelled \cup {m},
           Held' = Held \ {m}, Recorded' = Recorded, UNCHANGED <<acked, pushed>>
    PROVE  Window!Next
BY DEF Window!Next, Window!Cancel, Held, Recorded

LEMMA LeaveStep ==
    ASSUME NEW S \in SUBSET Msgs, NEW F \in SUBSET Msgs, S \subseteq Held,
           F \cap cancelled = {}, S \cap acked \subseteq pushed \cup Recorded \cup F,
           Held' = Held \ S, Recorded' = Recorded \cup F,
           UNCHANGED <<acked, pushed, cancelled>>
    PROVE  Window!Next
BY DEF Window!Next, Window!Leave, Held, Recorded

\* The two ways in which one message leaves: done with, or with a failure record.
LEMMA LetGo ==
    ASSUME NEW m \in Msgs, m \in Held, m \in acked => m \in pushed \cup Recorded,
           Held' = Held \ {m}, Recorded' = Recorded, UNCHANGED <<acked, pushed, cancelled>>
    PROVE  Window!Next
<1>1. /\ {m} \in SUBSET Msgs /\ {} \in SUBSET Msgs /\ {m} \subseteq Held
      /\ {} \cap cancelled = {} /\ {m} \cap acked \subseteq pushed \cup Recorded \cup {}
      /\ Recorded' = Recorded \cup {}
  OBVIOUS
<1>2. QED
  BY <1>1, LeaveStep

LEMMA FailureRecorded ==
    ASSUME NEW m \in Msgs, m \notin cancelled, Held' = Held \/ Held' = Held \ {m},
           Recorded' = Recorded \cup {m}, UNCHANGED <<acked, pushed, cancelled>>
    PROVE  Window!Next
<1>1. PICK S \in {{}, {m} \cap Held} : Held' = Held \ S
  OBVIOUS
<1>2. /\ S \in SUBSET Msgs /\ {m} \in SUBSET Msgs /\ S \subseteq Held
      /\ {m} \cap cancelled = {} /\ S \cap acked \subseteq pushed \cup Recorded \cup {m}
  OBVIOUS
<1>3. QED
  BY <1>1, <1>2, LeaveStep

LEMMA StutterStep ==
    ASSUME Held' = Held, Recorded' = Recorded, UNCHANGED <<acked, pushed, cancelled>>
    PROVE  UNCHANGED Window!vars
BY DEF Window!vars, Held, Recorded

(***************************************************************************)
(* What the variables of the scheduler make of a step.                     *)
(***************************************************************************)
\* It is held: in the Map, in storage or in both.
Waits(m) == mem[m].status = "pending" \/ row[m].status = "pending"

\* A step on the entry of one message changes what is held and recorded by that
\* message alone.
LEMMA OneEntry ==
    ASSUME TypeOK, NEW m \in Msgs,
           \A k \in Msgs \ {m} : /\ mem'[k].status = mem[k].status
                                 /\ row'[k].status = row[k].status
                                 /\ dlq'[k] = dlq[k],
           purged' = purged
    PROVE  /\ m \in Held <=> Waits(m)
           /\ Waits(m)' => Held' = Held \cup {m}
           /\ ~Waits(m)' => Held' = Held \ {m}
           /\ (Waits(m)' <=> Waits(m)) => Held' = Held
           /\ Dead(m)' => Recorded' = Recorded \cup {m}
           /\ (Dead(m)' <=> Dead(m)) => Recorded' = Recorded
BY DEF Held, Recorded, Pending, Dead, Waits

LEMMA SameEntries ==
    ASSUME UNCHANGED <<mem, row, dlq, purged>>
    PROVE  Held' = Held /\ Recorded' = Recorded
BY DEF Held, Recorded, Pending, Dead

\* Who is held only in the Map, or not at all, and was promised is accounted for.
LEMMA OnlyInMap ==
    ASSUME TypeOK, IInv, NEW m \in acked, mem[m].status = "pending",
           row[m].status # "pending"
    PROVE  m \in pushed \cup Recorded
BY DEF TypeOK, IInv, Accounted, CancelInv, Recorded

LEMMA JobImplements ==
    ASSUME TypeOK, IInv, NEW m \in Msgs, Job(m)
    PROVE  [Window!Next]_(Window!vars)
<1> USE DEF To
<1>0. /\ job[m] \in Active => mem[m].status = "pending" /\ row[m].status # "failed"
      /\ job[m] \notin {"idle", "done"} => m \notin cancelled
      /\ mem \in [Msgs -> Entry] /\ row \in [Msgs -> Entry]
      /\ dlq \in [Msgs -> 0 .. MaxTime] /\ now # 0 /\ purged \subseteq Msgs
  BY DEF TypeOK, IInv, JobInv, CopyInv, CancelInv
<1>1. CASE DeliverRuns(m) \/ PlatformAccepts(m)
  <2>1. mem[m].status = "pending"
    BY <1>0, <1>1 DEF DeliverRuns, PlatformAccepts, Active, RefStage, InlineStage
  <2>2. /\ UNCHANGED <<mem, row, dlq, acked, cancelled, purged>>
        /\ pushed' = pushed \cup {m}
    BY <1>1 DEF DeliverRuns, PlatformAccepts
  <2>3. m \in Held
    BY <2>1 DEF Held, Pending
  <2>4. QED
    BY <2>2, <2>3, SameEntries, TryStep
<1>2. CASE \/ DeliverRejects(m) \/ PlatformRefuses(m) \/ BackoffEnds(m)
           \/ StoreCommits(m) \/ StoreThrows(m)
  BY <1>2, SameEntries, StutterStep
     DEF DeliverRejects, PlatformRefuses, BackoffEnds, StoreCommits, StoreThrows
<1>3. CASE \/ DeliverDone(m) \/ SendSucceeds(m)
           \/ CheckSent(m) /\ m \in stored /\ mem' = [mem EXCEPT ![m] = Absent]
              /\ row' = [row EXCEPT ![m] = Absent]
  <2>1. job[m] \in Active /\ m \in pushed
    BY <1>3 DEF DeliverDone, SendSucceeds, CheckSent, IInv, JobInv, GateInv, Active,
                RefStage, InlineStage
  <2>2. /\ mem' = [mem EXCEPT ![m] = Absent] /\ row' = [row EXCEPT ![m] = Absent]
        /\ UNCHANGED <<dlq, acked, pushed, cancelled, purged>>
    BY <1>3 DEF DeliverDone, SendSucceeds, CheckSent
  <2>3. mem'[m].status = "absent" /\ row'[m].status = "absent"
    BY <1>0, <2>2 DEF Absent
  <2>4. Held' = Held \ {m} /\ m \in Held /\ Recorded' = Recorded
    BY <1>0, <2>1, <2>2, <2>3, OneEntry DEF Waits, Dead
  <2>5. QED
    BY <2>1, <2>2, <2>4, LetGo
<1>4. CASE CheckSent(m) /\ mem' = mem /\ row' = row
  BY <1>4, SameEntries, StutterStep DEF CheckSent
<1>5. CASE SendRetries(m)
  <2>1. job[m] \in Active
    BY <1>5 DEF SendRetries, Active, RefStage, InlineStage
  <2>2. /\ mem' = [mem EXCEPT ![m] = [mem[m] EXCEPT !.retry = attempt[m] + 1]]
        /\ row' = [row EXCEPT ![m] = mem'[m]]
        /\ UNCHANGED <<dlq, acked, pushed, cancelled, purged>>
    BY <1>5 DEF SendRetries
  <2>3. mem'[m].status = "pending" /\ row'[m].status = "pending"
    BY <1>0, <2>1, <2>2 DEF Entry
  <2>4. Held' = Held /\ Recorded' = Recorded
    BY <1>0, <2>1, <2>2, <2>3, OneEntry DEF Waits, Dead
  <2>5. QED
    BY <2>2, <2>4, StutterStep
<1>6. CASE SendGivesUp(m)
  <2>1. mem[m].status = "pending"
    BY <1>0, <1>6 DEF SendGivesUp, Active, RefStage, InlineStage
  <2>2. /\ mem' = [mem EXCEPT ![m] = Absent]
        /\ UNCHANGED <<row, dlq, acked, pushed, cancelled, purged>>
    BY <1>6 DEF SendGivesUp
  <2>3. mem'[m].status = "absent"
    BY <1>0, <2>2 DEF Absent
  <2>4. Recorded' = Recorded
    BY <1>0, <2>2, OneEntry DEF Waits, Dead
  <2>5. CASE row[m].status = "pending"
    <3>1. Held' = Held
      BY <1>0, <2>2, <2>5, OneEntry DEF Waits
    <3>2. QED
      BY <2>2, <2>4, <3>1, StutterStep
  <2>6. CASE row[m].status # "pending"
    <3>1. Held' = Held \ {m} /\ m \in Held
      BY <1>0, <2>1, <2>2, <2>3, <2>6, OneEntry DEF Waits
    <3>2. m \in acked => m \in pushed \cup Recorded
      BY <2>1, <2>6, OnlyInMap
    <3>3. QED
      BY <2>2, <2>4, <3>1, <3>2, LetGo
  <2>7. QED
    BY <2>5, <2>6
<1>7. ASSUME NEW ok \in BOOLEAN, DeadLetter(m, ok)
      PROVE  [Window!Next]_(Window!vars)
  <2>1. mem[m].status = "absent" /\ m \notin cancelled
    BY <1>0, <1>7 DEF DeadLetter, IInv, JobInv
  <2>2. /\ dlq' = IF ok THEN [dlq EXCEPT ![m] = now] ELSE dlq
        /\ row' = [row EXCEPT ![m] = IF ok THEN Absent ELSE Failed(row[m])]
        /\ UNCHANGED <<mem, acked, pushed, cancelled, purged>>
    BY <1>7 DEF DeadLetter
  <2>3. Dead(m)' /\ row'[m].status # "pending"
    <3>1. Failed(row[m]).status = "failed" /\ Absent.status = "absent"
      BY <1>0 DEF Failed, Absent, Entry
    <3>2. QED
      BY <1>0, <2>2, <3>1 DEF Dead
  <2>4. Held' = Held \ {m} /\ Recorded' = Recorded \cup {m}
    BY <1>0, <2>1, <2>2, <2>3, OneEntry DEF Waits
  <2>5. QED
    BY <2>1, <2>2, <2>4, FailureRecorded
<1>8. ASSUME NEW ok \in BOOLEAN, RecordRejected(m, ok)
      PROVE  [Window!Next]_(Window!vars)
  <2>1. m \notin cancelled /\ UNCHANGED <<mem, row, acked, pushed, cancelled, purged>>
    BY <1>0, <1>8 DEF RecordRejected
  <2>2. CASE ok
    <3>1. dlq' = [dlq EXCEPT ![m] = now]
      BY <1>8, <2>2 DEF RecordRejected
    <3>2. Held' = Held /\ Recorded' = Recorded \cup {m}
      BY <1>0, <2>1, <3>1, OneEntry DEF Waits, Dead
    <3>3. QED
      BY <2>1, <3>2, FailureRecorded
  <2>3. CASE ~ok
    BY <1>8, <2>1, <2>3, SameEntries, StutterStep DEF RecordRejected
  <2>4. QED
    BY <2>2, <2>3
<1>9. CASE Settle(m)
  <2> DEFINE e == [mem[m] EXCEPT !.retry = @ + 1]
             later == [e EXCEPT !.at = Horizon(now + RetryDelay * e.retry)]
  <2>1. job[m] \in Active /\ m \notin cancelled
    BY <1>0, <1>9 DEF Settle, Active, RefStage, InlineStage
  <2>2. mem[m].status = "pending" /\ row[m].status # "failed"
    BY <1>0, <2>1
  <2>3. UNCHANGED <<dlq, acked, pushed, cancelled, purged>>
    BY <1>9 DEF Settle
  <2>4. CASE e.retry <= MaxRetry
    <3>1. mem' = [mem EXCEPT ![m] = later] /\ row' = [row EXCEPT ![m] = later]
      BY <1>9, <2>4 DEF Settle
    <3>2. later.status = "pending"
      BY <1>0, <2>2 DEF Entry
    <3> HIDE DEF later, e
    <3>3. Held' = Held /\ Recorded' = Recorded
      BY <1>0, <2>2, <2>3, <3>1, <3>2, OneEntry DEF Waits, Dead
    <3>4. QED
      BY <2>3, <3>3, StutterStep
  <2>5. CASE ~(e.retry <= MaxRetry)
    <3>1. /\ mem' = [mem EXCEPT ![m] = Absent]
          /\ row' = [row EXCEPT ![m] = IF job[m] = "recorded" THEN Absent ELSE Failed(e)]
      BY <1>9, <2>5 DEF Settle
    <3>2. Failed(e).status = "failed" /\ Absent.status = "absent"
      BY <1>0 DEF Failed, Absent, Entry
    <3>3. job[m] = "recorded" => dlq[m] # 0
      BY DEF IInv, JobInv
    <3> HIDE DEF later, e
    <3>4. Dead(m)' /\ row'[m].status # "pending" /\ mem'[m].status # "pending"
      BY <1>0, <2>3, <3>1, <3>2, <3>3 DEF Dead
    <3>5. Held' = Held \ {m} /\ Recorded' = Recorded \cup {m}
      BY <1>0, <2>2, <2>3, <3>1, <3>4, OneEntry DEF Waits
    <3>6. QED
      BY <2>1, <2>3, <3>5, FailureRecorded
  <2>6. QED
    BY <2>4, <2>5
<1>10. CheckSent(m) => \/ mem' = mem /\ row' = row
                       \/ /\ m \in stored /\ mem' = [mem EXCEPT ![m] = Absent]
                          /\ row' = [row EXCEPT ![m] = Absent]
  BY DEF CheckSent
<1>11. QED
  BY <1>1, <1>2, <1>3, <1>4, <1>5, <1>6, <1>7, <1>8, <1>9, <1>10 DEF Job

LEMMA RequestImplements ==
    ASSUME TypeOK, IInv, Request
    PROVE  Window!Next
<1>1. ASSUME NEW m \in Msgs, NEW d \in Delays, ScheduleStore(m, d) \/ SchedulePutFails(m, d)
      PROVE  Window!Next
  <2> DEFINE new == Fresh(Horizon(now + d))
  <2>1. new.status = "pending"
    BY DEF Fresh
  <2>2. /\ mem[m].status = "absent" /\ row[m].status = "absent" /\ dlq[m] = 0
        /\ m \notin cancelled \cup pushed \cup purged
    BY <1>1 DEF ScheduleStore, SchedulePutFails, Unused, Absent
  <2>3. /\ mem' = [mem EXCEPT ![m] = new]
        /\ row' = row \/ row' = [row EXCEPT ![m] = new]
        /\ UNCHANGED <<dlq, acked, pushed, cancelled, purged>>
    BY <1>1 DEF ScheduleStore, SchedulePutFails
  <2> HIDE DEF new
  <2>4. m \notin Held /\ m \notin Recorded
    BY <2>2 DEF Held, Recorded, Pending, Dead
  <2>5. Held' = Held \cup {m} /\ Recorded' = Recorded
    BY <2>1, <2>2, <2>3, OneEntry DEF TypeOK, Waits, Dead
  <2>6. QED
    BY <2>2, <2>3, <2>4, <2>5, HoldStep
<1>2. ASSUME NEW m \in Msgs, CancelDelete(m) PROVE Window!Next
  <2>1. /\ mem[m].status = "pending" /\ row[m].status # "failed"
        /\ mem' = [mem EXCEPT ![m] = Absent] /\ row' = [row EXCEPT ![m] = Absent]
        /\ cancelled' = cancelled \cup {m}
        /\ UNCHANGED <<dlq, acked, pushed, purged>>
    BY <1>2 DEF CancelDelete, Pending, IInv, CopyInv
  <2>2. Held' = Held \ {m} /\ m \in Held /\ Recorded' = Recorded
    BY <2>1, OneEntry DEF TypeOK, Waits, Dead, Absent
  <2>3. QED
    BY <2>1, <2>2, CancelStep
<1>3. QED
  BY <1>1, <1>2 DEF Request

\* A cold start, clean or not, lets go what was only in the Map.
LEMMA ColdStartImplements ==
    ASSUME TypeOK, IInv, Restore \/ RestoreFails, UNCHANGED <<acked, pushed, cancelled>>
    PROVE  Window!Next
<1> DEFINE S == Pending(mem) \ Pending(row)
<1>1. Held' = Held \ S
  <2>1. \A m \in Msgs : mem'[m].status = "pending" => row[m].status = "pending"
    BY RestoreKeeps DEF RestoreFails, Absent
  <2>2. \A m \in Msgs : row'[m].status = "pending" <=> row[m].status = "pending"
    BY RestoreKeeps DEF RestoreFails
  <2>3. QED
    BY <2>1, <2>2 DEF Held, Pending
<1>2. Recorded' = Recorded
  <2>1. \A m \in Msgs : Dead(m) => Dead(m)' \/ m \in purged'
    BY RestoreKeeps DEF RestoreFails, Dead
  <2>2. purged \subseteq purged' /\ purged' \subseteq Recorded
    BY DEF Restore, RestoreFails, Recorded, Dead, StaleDlq, StaleRow, TypeOK
  <2>3. \A m \in Msgs : Dead(m)' => Dead(m)
    BY DEF Restore, RestoreFails, Dead, TypeOK, Absent
  <2>4. QED
    BY <2>1, <2>2, <2>3 DEF Recorded
<1>3. S \cap acked \subseteq pushed \cup Recorded
  BY OnlyInMap DEF Pending
<1>4. S \in SUBSET Msgs /\ S \subseteq Held
  BY DEF Pending, Held
<1> HIDE DEF S
<1>5. QED
  BY <1>1, <1>2, <1>3, <1>4, LeaveStep, ZenonT(30)

LEMMA NextImplements ==
    TypeOK /\ IInv /\ [Next]_vars => [Window!Next]_(Window!vars)
<1> SUFFICES ASSUME TypeOK, IInv, [Next]_vars PROVE [Window!Next]_(Window!vars)
  OBVIOUS
<1>1. CASE ScheduleArm
  <2>1. asking \in SUBSET Msgs /\ asking \subseteq Held
    BY DEF TypeOK, IInv, GateInv, Held, Pending
  <2>2. QED
    BY <1>1, <2>1, SameEntries, PromiseStep DEF ScheduleArm
<1>2. CASE CancelArm \/ AlarmIdle \/ AlarmFire \/ SettleBegins \/ AlarmEnds \/ Tick
  BY <1>2, SameEntries, StutterStep
     DEF CancelArm, AlarmIdle, AlarmFire, SettleBegins, AlarmEnds, Tick
<1>3. CASE Restart \/ Abort
  BY <1>3, ColdStartImplements DEF Restart, Abort
<1>4. CASE UNCHANGED vars
  BY <1>4, SameEntries, StutterStep DEF vars
<1>5. QED
  BY <1>1, <1>2, <1>3, <1>4, RequestImplements, JobImplements DEF Next, Handler

\* The object keeps the promise of the recall window, through every crash, failing
\* write and failing cold start.
THEOREM ImplementsWindowAlways == Spec => ImplementsWindow
<1>1. Init => Window!Init
  BY DEF Init, Window!Init, Pending, Dead, Absent
<1>2. QED
  BY <1>1, NextImplements, TypeCorrect, InvariantAlways, PTL DEF Spec, ImplementsWindow, Window!Spec

=============================================================================
