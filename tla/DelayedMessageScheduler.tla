----------------------- MODULE DelayedMessageScheduler -----------------------
(***************************************************************************)
(* The DelayedMessageScheduler Durable Object: one object per conversation *)
(* that holds outgoing messages until their send time and releases them    *)
(* from its alarm.                                                         *)
(*                                                                         *)
(* A Durable Object runs one JavaScript turn at a time.  While a handler   *)
(* awaits its own storage the input gate is closed and no other event is   *)
(* delivered; while it awaits anything else (D1, a platform's HTTP API, a  *)
(* timer) other events run.  `gate` is that gate: the steps of a handler   *)
(* between two storage writes keep it closed, and only a crash can come    *)
(* between them.  The jobs of the running alarm interleave with requests.  *)
(*                                                                         *)
(* Times are natural numbers, and 0 is JavaScript's null: the code tests   *)
(* `!earliestTime`.                                                        *)
(***************************************************************************)
EXTENDS Naturals, FiniteSets

CONSTANTS
    RefMsgs,          \* messages scheduled with mode 'deliver-by-ref'
    InlineMsgs,       \* self-contained payloads, pushed by the object itself
    Delays,           \* the values of delaySeconds
    MaxRetry,         \* MAX_RETRY_ATTEMPTS
    RetryDelay,       \* BY_REF_RETRY_DELAY_MS
    Retention,        \* DLQ_RETENTION_MS
    MaxTime,          \* bound: the clock stops and send times are capped here
    MaxAborts,        \* bound: handlers cut short; the platform retries 6 times
    MaxRestoreFaults, \* bound: cold starts whose storage read throws
    MaxPutFaults      \* bound: /schedule requests whose storage write throws

ASSUME SchedulerAssumption ==
    /\ RefMsgs \cap InlineMsgs = {}
    /\ Delays \subseteq Nat \ {0}
    /\ MaxRetry \in Nat /\ RetryDelay \in Nat /\ Retention \in Nat
    /\ MaxTime \in Nat \ {0}
    /\ MaxAborts \in Nat /\ MaxRestoreFaults \in Nat /\ MaxPutFaults \in Nat

VARIABLES
    now,        \* Date.now()
    mem,        \* pendingMessages: the in-memory Map
    row,        \* `msg:` rows of the object's storage
    dlq,        \* `dlq:` rows: failedAt, 0 when there is none
    alarm,      \* the alarm in storage
    nextAlarm,  \* nextAlarmTime: the object's cached copy of it
    gate,       \* the handler that keeps the input gate closed, or "open"
    asking,     \* the message of the /schedule request that keeps it closed
    job,        \* what the running alarm handler is doing for each message
    attempt,    \* sendWithRetry's loop counter
    acked,      \* messages whose /schedule was answered with success
    cancelled,  \* messages /cancel removed from memory and storage
    pushed,     \* messages a copy of which the platform has accepted
    stored,     \* inline messages recorded in D1
    purged,     \* messages whose failure record was removed at a cold start
    faults      \* how many faults of each bounded kind have happened

vars == <<now, mem, row, dlq, alarm, nextAlarm, gate, asking, job, attempt,
          acked, cancelled, pushed, stored, purged, faults>>

Msgs == RefMsgs \cup InlineMsgs

Horizon(t) == IF t <= MaxTime THEN t ELSE MaxTime

(***************************************************************************)
(* PendingMessage, as far as its status, send time and retry count go.     *)
(***************************************************************************)
Absent == [status |-> "absent", at |-> 0, retry |-> 0, failedAt |-> 0]

Fresh(t) == [status |-> "pending", at |-> t, retry |-> 0, failedAt |-> 0]

Failed(e) == [e EXCEPT !.status = "failed", !.failedAt = now]

Entry == [status : {"absent", "pending", "failed"},
          at : 0 .. MaxTime, retry : Nat, failedAt : 0 .. MaxTime]

Pending(q) == {m \in Msgs : q[m].status = "pending"}

Ready == {m \in Pending(mem) : mem[m].at <= now}

(***************************************************************************)
(* Stages of one message in the running alarm handler.  A by-reference     *)
(* message goes deliver -> delivered -> done, or deliver -> rejected ->    *)
(* recorded | unrecorded -> done.  An inline one goes check -> push ->     *)
(* accepted | refused -> (backoff -> push)* -> store | dlq -> done.        *)
(***************************************************************************)
RefStage == {"deliver", "delivered", "rejected", "recorded", "unrecorded"}
InlineStage == {"check", "push", "accepted", "refused", "backoff", "store", "dlq"}

Running == \E m \in Msgs : job[m] # "idle"

Settled == \A m \in Msgs : job[m] \in {"idle", "done", "rejected", "recorded", "unrecorded"}

(***************************************************************************)
(* updateAlarm for the Map q: arm for the earliest pending message, unless *)
(* the cached time says that it is armed already; clear the alarm when     *)
(* nothing is pending and the cache says that one is set.                  *)
(***************************************************************************)
Due(q) == {q[m].at : m \in Pending(q)}

\* A variant with a mistake: the cleared alarm stays in the cache.
UpdateAlarmStaleCache(q) ==
    \/ \E t \in Due(q) :
         /\ \A u \in Due(q) : t <= u
         /\ nextAlarm' = t
         /\ alarm' = IF t = nextAlarm THEN alarm ELSE t
    \/ /\ Due(q) = {}
       /\ nextAlarm' = nextAlarm
       /\ alarm' = IF nextAlarm = 0 THEN alarm ELSE 0

UpdateAlarm(q) ==
    \/ \E t \in Due(q) :
         /\ \A u \in Due(q) : t <= u
         /\ nextAlarm' = t
         /\ alarm' = IF t = nextAlarm THEN alarm ELSE t
    \/ /\ Due(q) = {}
       /\ nextAlarm' = 0
       /\ alarm' = IF nextAlarm = 0 THEN alarm ELSE 0

Init ==
    /\ now = 1
    /\ mem = [m \in Msgs |-> Absent]
    /\ row = [m \in Msgs |-> Absent]
    /\ dlq = [m \in Msgs |-> 0]
    /\ alarm = 0
    /\ nextAlarm = 0
    /\ gate = "open" /\ asking = {}
    /\ job = [m \in Msgs |-> "idle"]
    /\ attempt = [m \in Msgs |-> 0]
    /\ acked = {} /\ cancelled = {} /\ pushed = {} /\ stored = {} /\ purged = {}
    /\ faults = [abort |-> 0, restore |-> 0, put |-> 0]

(***************************************************************************)
(* Requests.  Every caller draws the message id at random, so an id that   *)
(* is in use is never scheduled again.  A request that is refused without  *)
(* a change of state (bad delay, wrong agent, nothing to cancel) is no     *)
(* step here.                                                              *)
(***************************************************************************)
Unused(m) ==
    /\ mem[m] = Absent /\ row[m] = Absent /\ dlq[m] = 0 /\ job[m] = "idle"
    /\ m \notin acked \cup cancelled \cup pushed \cup purged

\* handleSchedule: the Map entry, then the storage row.
ScheduleStore(m, d) ==
    /\ gate = "open"
    /\ Unused(m)
    /\ mem' = [mem EXCEPT ![m] = Fresh(Horizon(now + d))]
    /\ row' = [row EXCEPT ![m] = Fresh(Horizon(now + d))]
    /\ gate' = "schedule" /\ asking' = {m}
    /\ UNCHANGED <<now, dlq, alarm, nextAlarm, job, attempt,
                   acked, cancelled, pushed, stored, purged, faults>>

\* handleSchedule: the alarm, then the answer.
ScheduleArm ==
    /\ gate = "schedule"
    /\ UpdateAlarm(mem)
    /\ acked' = acked \cup asking
    /\ gate' = "open" /\ asking' = {}
    /\ UNCHANGED <<now, mem, row, dlq, job, attempt,
                   cancelled, pushed, stored, purged, faults>>

\* handleSchedule when storage.put throws: the caller is told that scheduling
\* failed, and the Map keeps the entry.
SchedulePutFails(m, d) ==
    /\ gate = "open"
    /\ Unused(m)
    /\ faults.put < MaxPutFaults
    /\ mem' = [mem EXCEPT ![m] = Fresh(Horizon(now + d))]
    /\ faults' = [faults EXCEPT !.put = @ + 1]
    /\ UNCHANGED <<now, row, dlq, alarm, nextAlarm, gate, asking, job, attempt,
                   acked, cancelled, pushed, stored, purged>>

\* Variants of CancelDelete with a mistake: the send time is not checked; the row
\* stays.
CancelDeleteLate(m) ==
    /\ gate = "open" /\ m \in Pending(mem)
    /\ mem' = [mem EXCEPT ![m] = Absent]
    /\ row' = [row EXCEPT ![m] = Absent]
    /\ cancelled' = cancelled \cup {m} /\ gate' = "cancel"
    /\ UNCHANGED <<now, dlq, alarm, nextAlarm, asking, job, attempt,
                   acked, pushed, stored, purged, faults>>

CancelDeleteKeepsRow(m) ==
    /\ gate = "open" /\ m \in Pending(mem) /\ now < mem[m].at
    /\ mem' = [mem EXCEPT ![m] = Absent]
    /\ cancelled' = cancelled \cup {m} /\ gate' = "cancel"
    /\ UNCHANGED <<now, row, dlq, alarm, nextAlarm, asking, job, attempt,
                   acked, pushed, stored, purged, faults>>

\* cancelMessage up to the storage delete.
CancelDelete(m) ==
    /\ gate = "open"
    /\ m \in Pending(mem)
    /\ now < mem[m].at
    /\ mem' = [mem EXCEPT ![m] = Absent]
    /\ row' = [row EXCEPT ![m] = Absent]
    /\ cancelled' = cancelled \cup {m}
    /\ gate' = "cancel"
    /\ UNCHANGED <<now, dlq, alarm, nextAlarm, asking, job, attempt,
                   acked, pushed, stored, purged, faults>>

\* cancelMessage: re-evaluate the alarm and answer.
CancelArm ==
    /\ gate = "cancel"
    /\ UpdateAlarm(mem)
    /\ gate' = "open"
    /\ UNCHANGED <<now, mem, row, dlq, asking, job, attempt,
                   acked, cancelled, pushed, stored, purged, faults>>

(***************************************************************************)
(* The alarm.  The platform runs at most one alarm handler of an object,   *)
(* at or after the time that was set, and clears the alarm as it starts.   *)
(***************************************************************************)
AlarmDue == gate = "open" /\ ~Running /\ alarm # 0 /\ alarm <= now

\* alarm() with nothing ready: forget the consumed time and re-evaluate.
AlarmIdle ==
    /\ AlarmDue
    /\ Ready = {}
    /\ \/ \E t \in Due(mem) : /\ \A u \in Due(mem) : t <= u
                             /\ alarm' = t /\ nextAlarm' = t
       \/ Due(mem) = {} /\ alarm' = 0 /\ nextAlarm' = 0
    /\ UNCHANGED <<now, mem, row, dlq, gate, asking, job, attempt,
                   acked, cancelled, pushed, stored, purged, faults>>

\* A variant of AlarmFire with a mistake: the consumed time stays in the cache.
AlarmFireKeepsCache ==
    /\ AlarmDue /\ Ready # {}
    /\ alarm' = 0
    /\ job' = [m \in Msgs |-> IF m \notin Ready THEN "idle"
                              ELSE IF m \in RefMsgs THEN "deliver" ELSE "check"]
    /\ attempt' = [m \in Msgs |-> 0]
    /\ UNCHANGED <<now, mem, row, dlq, nextAlarm, gate, asking,
                   acked, cancelled, pushed, stored, purged, faults>>

\* alarm() starts one promise for each ready message.
AlarmFire ==
    /\ AlarmDue
    /\ Ready # {}
    /\ alarm' = 0 /\ nextAlarm' = 0
    /\ job' = [m \in Msgs |-> IF m \notin Ready THEN "idle"
                              ELSE IF m \in RefMsgs THEN "deliver" ELSE "check"]
    /\ attempt' = [m \in Msgs |-> 0]
    /\ UNCHANGED <<now, mem, row, dlq, gate, asking,
                   acked, cancelled, pushed, stored, purged, faults>>

To(m, stage) == job' = [job EXCEPT ![m] = stage]

(***************************************************************************)
(* deliverByRef.  MessageDeliveryService.deliver() settles the message in  *)
(* D1 and swallows its own failures; a rejection means that the service    *)
(* could not be loaded, and then nothing was pushed.                       *)
(***************************************************************************)
DeliverRuns(m) ==
    /\ job[m] = "deliver"
    /\ pushed' = pushed \cup {m}
    /\ To(m, "delivered")
    /\ UNCHANGED <<now, mem, row, dlq, alarm, nextAlarm, gate, asking, attempt,
                   acked, cancelled, stored, purged, faults>>

DeliverRejects(m) ==
    /\ gate = "open" /\ job[m] = "deliver"
    /\ To(m, "rejected")
    /\ UNCHANGED <<now, mem, row, dlq, alarm, nextAlarm, gate, asking, attempt,
                   acked, cancelled, pushed, stored, purged, faults>>

\* deliverByRef once deliver() has returned.
DeliverDone(m) ==
    /\ gate = "open" /\ job[m] = "delivered"
    /\ mem' = [mem EXCEPT ![m] = Absent]
    /\ row' = [row EXCEPT ![m] = Absent]
    /\ To(m, "done")
    /\ UNCHANGED <<now, dlq, alarm, nextAlarm, gate, asking, attempt,
                   acked, cancelled, pushed, stored, purged, faults>>

(***************************************************************************)
(* sendMessage, the self-contained path.                                   *)
(***************************************************************************)
\* shouldSkipMessage; a failed query counts as `not sent`.
CheckSent(m) ==
    /\ gate = "open" /\ job[m] = "check"
    /\ \E found \in {FALSE, (m \in stored)} :
         /\ mem' = IF found THEN [mem EXCEPT ![m] = Absent] ELSE mem
         /\ row' = IF found THEN [row EXCEPT ![m] = Absent] ELSE row
         /\ To(m, IF found THEN "done" ELSE "push")
    /\ UNCHANGED <<now, dlq, alarm, nextAlarm, gate, asking, attempt,
                   acked, cancelled, pushed, stored, purged, faults>>

\* The platform takes the push, or does not.
PlatformAccepts(m) ==
    /\ job[m] = "push"
    /\ pushed' = pushed \cup {m}
    /\ To(m, "accepted")
    /\ UNCHANGED <<now, mem, row, dlq, alarm, nextAlarm, gate, asking, attempt,
                   acked, cancelled, stored, purged, faults>>

PlatformRefuses(m) ==
    /\ job[m] = "push"
    /\ To(m, "refused")
    /\ UNCHANGED <<now, mem, row, dlq, alarm, nextAlarm, gate, asking, attempt,
                   acked, cancelled, pushed, stored, purged, faults>>

\* handleSendSuccess up to the D1 write.
SendSucceeds(m) ==
    /\ gate = "open" /\ job[m] = "accepted"
    /\ mem' = [mem EXCEPT ![m] = Absent]
    /\ row' = [row EXCEPT ![m] = Absent]
    /\ To(m, "store")
    /\ UNCHANGED <<now, dlq, alarm, nextAlarm, gate, asking, attempt,
                   acked, cancelled, pushed, stored, purged, faults>>

\* A refusal, or the 10 s timeout of a push that the platform did accept:
\* back off and try again, with the retry count persisted.
SendRetries(m) ==
    /\ gate = "open" /\ job[m] \in {"accepted", "refused"}
    /\ attempt[m] < MaxRetry
    /\ mem' = [mem EXCEPT ![m].retry = attempt[m] + 1]
    /\ row' = [row EXCEPT ![m] = mem'[m]]
    /\ To(m, "backoff")
    /\ UNCHANGED <<now, dlq, alarm, nextAlarm, gate, asking, attempt,
                   acked, cancelled, pushed, stored, purged, faults>>

\* The backoff sleep ends and the loop takes its next attempt.
BackoffEnds(m) ==
    /\ gate = "open" /\ job[m] = "backoff"
    /\ attempt' = [attempt EXCEPT ![m] = @ + 1]
    /\ To(m, "push")
    /\ UNCHANGED <<now, mem, row, dlq, alarm, nextAlarm, gate, asking,
                   acked, cancelled, pushed, stored, purged, faults>>

\* handlePermanentFailure up to the DLQ write.
SendGivesUp(m) ==
    /\ gate = "open" /\ job[m] \in {"accepted", "refused"}
    /\ attempt[m] = MaxRetry
    /\ mem' = [mem EXCEPT ![m] = Absent]
    /\ To(m, "dlq")
    /\ UNCHANGED <<now, row, dlq, alarm, nextAlarm, gate, asking, attempt,
                   acked, cancelled, pushed, stored, purged, faults>>

\* storeMessageInDatabase commits.
StoreCommits(m) ==
    /\ gate = "open" /\ job[m] = "store"
    /\ stored' = stored \cup {m}
    /\ To(m, "done")
    /\ UNCHANGED <<now, mem, row, dlq, alarm, nextAlarm, gate, asking, attempt,
                   acked, cancelled, pushed, purged, faults>>

\* storeMessageInDatabase throws, with or without the batch committed:
\* handleCatastrophicError takes a message the platform has accepted.
StoreThrows(m) ==
    /\ gate = "open" /\ job[m] = "store"
    /\ \E committed \in BOOLEAN :
         stored' = IF committed THEN stored \cup {m} ELSE stored
    /\ To(m, "dlq")
    /\ UNCHANGED <<now, mem, row, dlq, alarm, nextAlarm, gate, asking, attempt,
                   acked, cancelled, pushed, purged, faults>>

\* A variant of DeadLetter with a mistake: the row goes whether or not the `dlq:`
\* row was written.
DeadLetterDropsRow(m, ok) ==
    /\ gate = "open" /\ job[m] = "dlq"
    /\ dlq' = IF ok THEN [dlq EXCEPT ![m] = now] ELSE dlq
    /\ row' = [row EXCEPT ![m] = Absent]
    /\ To(m, "done")
    /\ UNCHANGED <<now, mem, alarm, nextAlarm, gate, asking, attempt,
                   acked, cancelled, pushed, stored, purged, faults>>

\* addToDeadLetterQueue and releaseFailedMessage: the `dlq:` row replaces the
\* `msg:` row, which stays as a failed copy when all three writes failed.
DeadLetter(m, ok) ==
    /\ gate = "open" /\ job[m] = "dlq"
    /\ dlq' = IF ok THEN [dlq EXCEPT ![m] = now] ELSE dlq
    /\ row' = [row EXCEPT ![m] = IF ok THEN Absent ELSE Failed(@)]
    /\ To(m, "done")
    /\ UNCHANGED <<now, mem, alarm, nextAlarm, gate, asking, attempt,
                   acked, cancelled, pushed, stored, purged, faults>>

(***************************************************************************)
(* The rest of alarm(), once every promise has settled.                    *)
(***************************************************************************)
\* processBatchResults records each rejected message in the DLQ.
RecordRejected(m, ok) ==
    /\ gate = "open" /\ Settled /\ job[m] = "rejected"
    /\ dlq' = IF ok THEN [dlq EXCEPT ![m] = now] ELSE dlq
    /\ To(m, IF ok THEN "recorded" ELSE "unrecorded")
    /\ UNCHANGED <<now, mem, row, alarm, nextAlarm, gate, asking, attempt,
                   acked, cancelled, pushed, stored, purged, faults>>

\* The loop over the ready messages starts: storage only from here on.
SettleBegins ==
    /\ gate = "open" /\ Running /\ Settled
    /\ \A m \in Msgs : job[m] # "rejected"
    /\ gate' = "settle"
    /\ UNCHANGED <<now, mem, row, dlq, alarm, nextAlarm, asking, job, attempt,
                   acked, cancelled, pushed, stored, purged, faults>>

\* A variant of Settle with a mistake: the retries are not counted.
SettleUncounted(m) ==
    /\ gate = "settle" /\ job[m] \in {"recorded", "unrecorded"}
    /\ LET later == [mem[m] EXCEPT !.at = Horizon(now + RetryDelay)]
       IN mem' = [mem EXCEPT ![m] = later] /\ row' = [row EXCEPT ![m] = later]
    /\ To(m, "done")
    /\ UNCHANGED <<now, dlq, alarm, nextAlarm, gate, asking, attempt,
                   acked, cancelled, pushed, stored, purged, faults>>

\* One turn of the loop: push the send time out, or give up for good.
Settle(m) ==
    /\ gate = "settle" /\ job[m] \in {"recorded", "unrecorded"}
    /\ LET e == [mem[m] EXCEPT !.retry = @ + 1]
       IN IF e.retry <= MaxRetry
          THEN LET later == [e EXCEPT !.at = Horizon(now + RetryDelay * e.retry)]
               IN mem' = [mem EXCEPT ![m] = later] /\ row' = [row EXCEPT ![m] = later]
          ELSE /\ mem' = [mem EXCEPT ![m] = Absent]
               /\ row' = [row EXCEPT ![m] = IF job[m] = "recorded" THEN Absent
                                            ELSE Failed(e)]
    /\ To(m, "done")
    /\ UNCHANGED <<now, dlq, alarm, nextAlarm, gate, asking, attempt,
                   acked, cancelled, pushed, stored, purged, faults>>

\* The loop is over: re-arm.
AlarmEnds ==
    /\ gate = "settle"
    /\ \A m \in Msgs : job[m] \in {"idle", "done"}
    /\ UpdateAlarm(mem)
    /\ gate' = "open"
    /\ job' = [m \in Msgs |-> "idle"]
    /\ UNCHANGED <<now, mem, row, dlq, asking, attempt,
                   acked, cancelled, pushed, stored, purged, faults>>

(***************************************************************************)
(* Cold start.  restoreState keeps the pending rows, drops failed copies   *)
(* that have a `dlq:` row and records older than the retention.            *)
(***************************************************************************)
Expired(t) == t + Retention < now

\* A variant of StaleRow with a mistake: a failed copy ages from its send time.
StaleRowBySendTime(m) ==
    row[m].status = "failed" /\ (dlq[m] # 0 \/ Expired(row[m].at))

StaleRow(m) == row[m].status = "failed" /\ (dlq[m] # 0 \/ Expired(row[m].failedAt))

StaleDlq(m) == dlq[m] # 0 /\ Expired(dlq[m])

Restore ==
    /\ mem' = [m \in Msgs |-> IF row[m].status = "pending" THEN row[m] ELSE Absent]
    /\ row' = [m \in Msgs |-> IF StaleRow(m) THEN Absent ELSE row[m]]
    /\ dlq' = [m \in Msgs |-> IF StaleDlq(m) THEN 0 ELSE dlq[m]]
    /\ purged' = purged \cup {m \in Msgs : StaleDlq(m) \/ (StaleRow(m) /\ dlq[m] = 0)}
    /\ nextAlarm' = alarm'

\* restoreState's catch: an empty Map and no cached alarm time.
RestoreFails ==
    /\ faults.restore < MaxRestoreFaults
    /\ mem' = [m \in Msgs |-> Absent]
    /\ nextAlarm' = 0
    /\ UNCHANGED <<row, dlq, purged>>

\* An object without work in progress is evicted and starts again.
Restart ==
    /\ gate = "open" /\ ~Running
    /\ alarm' = alarm
    /\ \/ Restore /\ faults' = faults
       \/ RestoreFails /\ faults' = [faults EXCEPT !.restore = @ + 1]
    /\ UNCHANGED <<now, gate, asking, job, attempt, acked, cancelled, pushed, stored>>

\* A handler is cut short.  The platform runs an unfinished alarm handler
\* again, unless an alarm set in the meantime stands for it.
Abort ==
    /\ gate # "open" \/ Running
    /\ faults.abort < MaxAborts
    /\ alarm' \in IF ~Running THEN {alarm} ELSE {now, alarm} \ {0}
    /\ gate' = "open" /\ asking' = {}
    /\ job' = [m \in Msgs |-> "idle"]
    /\ attempt' = [m \in Msgs |-> 0]
    /\ faults' = [faults EXCEPT !.abort = @ + 1]
    /\ Restore
    /\ UNCHANGED <<now, acked, cancelled, pushed, stored>>

Tick ==
    /\ now < MaxTime
    /\ now' = now + 1
    /\ UNCHANGED <<mem, row, dlq, alarm, nextAlarm, gate, asking, job, attempt,
                   acked, cancelled, pushed, stored, purged, faults>>

Request ==
    \/ \E m \in Msgs, d \in Delays : ScheduleStore(m, d) \/ SchedulePutFails(m, d)
    \/ \E m \in Msgs : CancelDelete(m)

Job(m) ==
    \/ DeliverRuns(m) \/ DeliverRejects(m) \/ DeliverDone(m)
    \/ CheckSent(m) \/ PlatformAccepts(m) \/ PlatformRefuses(m)
    \/ SendSucceeds(m) \/ SendRetries(m) \/ BackoffEnds(m) \/ SendGivesUp(m)
    \/ StoreCommits(m) \/ StoreThrows(m)
    \/ \E ok \in BOOLEAN : DeadLetter(m, ok) \/ RecordRejected(m, ok)
    \/ Settle(m)

Handler ==
    \/ ScheduleArm \/ CancelArm
    \/ AlarmIdle \/ AlarmFire \/ SettleBegins \/ AlarmEnds
    \/ \E m \in Msgs : Job(m)

Next == Request \/ Handler \/ Restart \/ Abort \/ Tick

Spec == Init /\ [][Next]_vars

(***************************************************************************)
(* Fairness: a handler that has started runs on, a due alarm fires, time   *)
(* passes.  Requests, crashes and restarts need not happen.                *)
(***************************************************************************)
FairSpec == Spec /\ WF_vars(Handler) /\ WF_vars(Tick)

(***************************************************************************)
(* Properties                                                              *)
(***************************************************************************)
TypeOK ==
    /\ now \in 1 .. MaxTime
    /\ mem \in [Msgs -> Entry] /\ row \in [Msgs -> Entry]
    /\ dlq \in [Msgs -> 0 .. MaxTime]
    /\ alarm \in 0 .. MaxTime /\ nextAlarm \in 0 .. MaxTime
    /\ gate \in {"open", "schedule", "cancel", "settle"}
    /\ asking \in SUBSET Msgs
    /\ job \in [Msgs -> {"idle", "done"} \cup RefStage \cup InlineStage]
    /\ attempt \in [Msgs -> Nat]
    /\ acked \in SUBSET Msgs /\ cancelled \in SUBSET Msgs
    /\ pushed \in SUBSET Msgs /\ stored \in SUBSET Msgs /\ purged \in SUBSET Msgs
    /\ faults \in [abort : 0 .. MaxAborts, restore : 0 .. MaxRestoreFaults,
                    put : 0 .. MaxPutFaults]

Dead(m) == dlq[m] # 0 \/ row[m].status = "failed"

\* Whatever crashes, timeouts and failing writes occur, a message whose
\* scheduling was acknowledged is still held, or was recalled, or reached the
\* platform, or left a failure record: no hand-over between the `msg:` row,
\* the push, D1 and the `dlq:` row drops it.
Accounted ==
    \A m \in acked : \/ row[m].status = "pending"
                     \/ m \in cancelled \cup pushed \cup purged
                     \/ Dead(m)

\* A cancel that took effect means that the customer has no copy.  The one
\* exception needs an alarm handler cut short after deliver() and a rejected
\* retry, which pushes the send time out and so opens the recall window again.
CancelledNeverPushed ==
    \A m \in cancelled \cap pushed : m \in RefMsgs /\ faults.abort > 0

\* An acknowledged message that is still held always has an alarm to wake the
\* object, or the running alarm handler to re-arm it; while no handler was cut
\* short the alarm is not later than the message's send time.
NeverStranded ==
    faults.restore = 0 =>
        \A m \in acked : row[m].status = "pending" =>
            Running \/ (alarm # 0 /\ (faults.abort = 0 => alarm <= row[m].at))

\* The record of a message that could not be sent is listed for the whole
\* retention time after its first failure, across any number of cold starts.
FirstFailure(m) == IF dlq[m] # 0 THEN dlq[m] ELSE row[m].failedAt

RecordKept ==
    [][\A m \in Msgs : Dead(m) /\ ~Dead(m)' => Expired(FirstFailure(m))]_vars

\* Every acknowledged message leaves the scheduler, although handlers are cut
\* short and writes fail: the retries of its delivery are bounded, and the chain
\* of alarms never breaks while it is held.  Only a failed cold start can break it.
EventuallyReleased ==
    \A m \in Msgs : (m \in acked) ~> (row[m].status # "pending" \/ faults.restore > 0)

(***************************************************************************)
(* The inductive invariant behind the safety properties.                   *)
(***************************************************************************)
Active == RefStage \cup (InlineStage \ {"store", "dlq"})

JobInv ==
    \A m \in Msgs :
        /\ job[m] \in RefStage => m \in RefMsgs
        /\ job[m] \in InlineStage => m \in InlineMsgs
        /\ job[m] \in Active => mem[m].status = "pending" /\ mem[m].at <= now
        /\ job[m] \in {"store", "dlq"} => mem[m].status = "absent"
        /\ job[m] \in {"delivered", "accepted", "store"} => m \in pushed
        /\ job[m] = "recorded" => dlq[m] # 0

\* The Map and the rows are two copies of the same schedule.
CopyInv ==
    \A m \in Msgs :
        /\ mem[m].status # "failed"
        /\ mem[m].status = "pending" => row[m].status # "failed"
        /\ mem[m].status = "pending" => mem[m].at >= 1
        /\ row[m].status = "pending" => row[m].at >= 1
        /\ mem[m].status = "pending" /\ row[m].status = "pending" => mem[m] = row[m]
        /\ row[m].status = "pending" /\ job[m] = "dlq" => row[m].at <= now
        /\ faults.restore = 0 /\ row[m].status = "pending" =>
                mem[m].status = "pending" \/ job[m] = "dlq"

GateInv ==
    /\ gate = "settle" => Running
    /\ asking # {} => gate = "schedule"
    /\ \A m \in asking : row[m].status = "pending"
    /\ stored \subseteq pushed

\* Both copies of the alarm time agree unless a cold start has failed.
CachedAlarm == faults.restore = 0 => nextAlarm = alarm

CancelInv ==
    \A m \in cancelled : /\ mem[m].status = "absent" /\ row[m].status = "absent"
                         /\ job[m] \in {"idle", "done"}

\* Past its push a message can only be held with its send time behind it.
PushInv ==
    \A m \in pushed :
        /\ m \in InlineMsgs => /\ mem[m].status = "pending" => mem[m].at <= now
                               /\ row[m].status = "pending" => row[m].at <= now
        /\ /\ m \in RefMsgs /\ faults.abort = 0
           /\ mem[m].status = "pending" \/ row[m].status = "pending"
           => job[m] = "delivered"

IInv ==
    /\ JobInv /\ CopyInv /\ GateInv /\ CachedAlarm /\ CancelInv /\ PushInv
    /\ Accounted /\ NeverStranded /\ CancelledNeverPushed

(***************************************************************************)
(* The scheduler implements RecallWindow.                                  *)
(***************************************************************************)
Window == INSTANCE RecallWindow
    WITH held <- Pending(mem) \cup Pending(row),
         promised <- acked,
         tried <- pushed,
         recorded <- {m \in Msgs : Dead(m)} \cup purged

\* Every step of the object, crashes and cold starts included, is a step that
\* the recall window allows: nothing is delivered that is not held, nothing
\* that was cancelled is held again, nothing promised is let go untried.
ImplementsWindow == Window!Spec
=============================================================================
