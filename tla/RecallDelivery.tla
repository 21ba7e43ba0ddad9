--------------------------- MODULE RecallDelivery ---------------------------
(***************************************************************************)
(* The life of an agent message under the recall window (ADR 0003): the    *)
(* request that stores it and asks the scheduler to hold it, the scheduler *)
(* whose alarm delivers it, deliver() itself, and the requests that recall *)
(* it, by way of the scheduler or, on the older routes, of the row alone.  *)
(* They share the D1 row and the scheduler's entry and nothing else;       *)
(* each step below ends at an await, where any other may go next, an       *)
(* answer may be lost and a request may die.                               *)
(*                                                                         *)
(* The scheduler is reduced to one entry per message, as RecallWindow      *)
(* allows; DelayedMessageScheduler has its storage, alarm and retries.     *)
(***************************************************************************)
EXTENDS MessageDelivery

CONSTANTS
    Recalls,  \* recall requests
    MaxRetry  \* MAX_RETRY_ATTEMPTS

ASSUME RecallAssumption == MaxRetry \in Nat

VARIABLES
    sender,   \* what the request that sends each message is doing
    slot,     \* the scheduler's entry: none, held, firing, gone or dead
    due,      \* the entry's send time has passed
    retry,    \* its retryCount
    told,     \* messages whose sender was told that they are held
    taken,    \* messages the scheduler has cancelled
    fired,    \* messages whose alarm delivery has begun
    window,   \* messages whose row has a recallDeadline
    early,    \* messages an older route has marked before deliver() read them
    recall    \* each recall request: its message, its stage, its answer

recallVars == <<sender, slot, due, retry, told, taken, fired, window, early, recall>>

vars == <<deliveryVars, recallVars>>

Init ==
    /\ InitDelivery
    /\ sender = [m \in Msgs |-> "idle"]
    /\ slot = [m \in Msgs |-> "none"]
    /\ due = [m \in Msgs |-> FALSE]
    /\ retry = [m \in Msgs |-> 0]
    /\ told = {} /\ taken = {} /\ fired = {} /\ window = {} /\ early = {}
    /\ recall = [q \in Recalls |-> [msg |-> {}, stage |-> "idle", answer |-> "none"]]

(***************************************************************************)
(* POST /conversations/:id/messages.                                       *)
(***************************************************************************)
SenderTo(m, stage) == sender' = [sender EXCEPT ![m] = stage]

\* createPendingMessage's insert: 'buffered' with a recall window on LINE, and as yet
\* without a deadline.
Create(m, buffered) ==
    /\ sender[m] = "idle"
    /\ Insert(m, IF buffered THEN "buffered" ELSE "pending")
    /\ SenderTo(m, IF buffered THEN "inserted" ELSE "deliver")
    /\ UNCHANGED <<slot, due, retry, told, taken, fired, window, early, recall>>

\* createPendingMessage's writes after the insert: the attachments, the
\* conversation's timestamps.
AfterInsert(m) ==
    /\ sender[m] = "inserted"
    /\ SenderTo(m, "schedule")
    /\ UNCHANGED <<deliveryVars, slot, due, retry, told, taken, fired, window, early, recall>>

\* One of them throws: the request fails and the row stays.
AfterInsertThrows(m) ==
    /\ sender[m] = "inserted"
    /\ Fault("d1")
    /\ SenderTo(m, "done")
    /\ UNCHANGED <<db, reply, issued, claims, run, got>>
    /\ UNCHANGED <<slot, due, retry, told, taken, fired, window, early, recall>>

\* scheduleBufferedDelivery: the object holds the message, and the answer says
\* so or is lost.
Schedule(m) ==
    /\ sender[m] = "schedule"
    /\ slot' = [slot EXCEPT ![m] = "held"]
    /\ \/ /\ faults' = faults
          /\ told' = told \cup {m}
          /\ SenderTo(m, "stamp")
       \/ /\ Fault("call")
          /\ told' = told
          /\ SenderTo(m, "downgrade")
    /\ UNCHANGED <<db, reply, issued, claims, run, got, due, retry, taken, fired, window, early, recall>>

\* persistRecallDeadline: a failure is logged and ignored.
Stamp(m) ==
    /\ sender[m] = "stamp"
    /\ \/ window' = window \cup {m} /\ faults' = faults
       \/ Fault("d1") /\ window' = window
    /\ SenderTo(m, "done")
    /\ UNCHANGED <<db, reply, issued, claims, run, got>>
    /\ UNCHANGED <<slot, due, retry, told, taken, fired, early, recall>>

\* A variant of ScheduleRefused with a mistake: the failure is only logged.
ScheduleRefusedIgnored(m) ==
    /\ sender[m] = "schedule"
    /\ Fault("refusal")
    /\ SenderTo(m, "done")
    /\ UNCHANGED <<db, reply, issued, claims, run, got>>
    /\ UNCHANGED <<slot, due, retry, told, taken, fired, window, early, recall>>

\* The object is out of reach or refuses.
ScheduleRefused(m) ==
    /\ sender[m] = "schedule"
    /\ Fault("refusal")
    /\ SenderTo(m, "downgrade")
    /\ UNCHANGED <<db, reply, issued, claims, run, got>>
    /\ UNCHANGED <<slot, due, retry, told, taken, fired, window, early, recall>>

\* downgradeBufferedMessage: a failure is logged and ignored.
Downgraded(m) ==
    \/ /\ db' = [db EXCEPT ![m].status = "pending"] /\ window' = window \ {m}
       /\ faults' = faults
    \/ Fault("d1") /\ UNCHANGED <<db, window>>

\* A variant of Downgrade with a mistake: nobody delivers afterwards.
DowngradeOnly(m) ==
    /\ sender[m] = "downgrade"
    /\ Downgraded(m)
    /\ SenderTo(m, "done")
    /\ UNCHANGED <<reply, issued, claims, run, got>>
    /\ UNCHANGED <<slot, due, retry, told, taken, fired, early, recall>>

\* The message is sent at once instead.
Downgrade(m) ==
    /\ sender[m] = "downgrade"
    /\ Downgraded(m)
    /\ SenderTo(m, "deliver")
    /\ UNCHANGED <<reply, issued, claims, run, got>>
    /\ UNCHANGED <<slot, due, retry, told, taken, fired, early, recall>>

\* processBackgroundSending, after the broadcast.
DeliverNow(m) ==
    /\ sender[m] = "deliver"
    /\ Begin(<<"now", m>>)
    /\ SenderTo(m, "done")
    /\ UNCHANGED <<db, reply, issued, claims, got, faults>>
    /\ UNCHANGED <<slot, due, retry, told, taken, fired, window, early, recall>>

\* The isolate dies, with the request or with its background work.
SenderDies(m) ==
    /\ sender[m] \notin {"idle", "done"} \/ run[<<"now", m>>] # Idle
    /\ Fault("crash")
    /\ SenderTo(m, "done")
    /\ Stops(<<"now", m>>)
    /\ UNCHANGED <<db, reply, issued, claims, got>>
    /\ UNCHANGED <<slot, due, retry, told, taken, fired, window, early, recall>>

(***************************************************************************)
(* The scheduler's alarm.                                                  *)
(***************************************************************************)
TimePasses(m) ==
    /\ slot[m] = "held" /\ ~due[m]
    /\ due' = [due EXCEPT ![m] = TRUE]
    /\ UNCHANGED <<deliveryVars, sender, slot, retry, told, taken, fired, window, early, recall>>

AlarmBegins(m) ==
    /\ slot[m] = "held" /\ due[m]
    /\ Begin(<<"alarm", m>>)
    /\ slot' = [slot EXCEPT ![m] = "firing"]
    /\ fired' = fired \cup {m}
    /\ UNCHANGED <<db, reply, issued, claims, got, faults>>
    /\ UNCHANGED <<sender, due, retry, told, taken, window, early, recall>>

\* A variant of AlarmEnds with a mistake: the entry is not deleted.
AlarmEndsKeepsEntry(m) ==
    /\ slot[m] = "firing" /\ run[<<"alarm", m>>] = Idle
    /\ slot' = [slot EXCEPT ![m] = "held"]
    /\ UNCHANGED <<deliveryVars, sender, due, retry, told, taken, fired, window, early, recall>>

\* deliverByRef, once deliver() has returned, however it went.
AlarmEnds(m) ==
    /\ slot[m] = "firing" /\ run[<<"alarm", m>>] = Idle
    /\ slot' = [slot EXCEPT ![m] = "gone"]
    /\ UNCHANGED <<deliveryVars, sender, due, retry, told, taken, fired, window, early, recall>>

\* A variant of AlarmRejects with a mistake: an entry dropped without a record.
AlarmRejectsDrops(m) ==
    /\ slot[m] = "held" /\ due[m]
    /\ retry' = [retry EXCEPT ![m] = @ + 1]
    /\ IF retry[m] < MaxRetry
       THEN due' = [due EXCEPT ![m] = FALSE] /\ slot' = slot
       ELSE slot' = [slot EXCEPT ![m] = "gone"] /\ due' = due
    /\ UNCHANGED <<deliveryVars, sender, told, taken, fired, window, early, recall>>

\* deliverByRef could not load the service: later, or never again.
AlarmRejects(m) ==
    /\ slot[m] = "held" /\ due[m]
    /\ retry' = [retry EXCEPT ![m] = @ + 1]
    /\ IF retry[m] < MaxRetry
       THEN due' = [due EXCEPT ![m] = FALSE] /\ slot' = slot
       ELSE slot' = [slot EXCEPT ![m] = "dead"] /\ due' = due
    /\ UNCHANGED <<deliveryVars, sender, told, taken, fired, window, early, recall>>

\* The object is reset while its alarm handler runs.
AlarmDies(m) ==
    /\ slot[m] = "firing"
    /\ Fault("abort")
    /\ slot' = [slot EXCEPT ![m] = "held"]
    /\ Stops(<<"alarm", m>>)
    /\ UNCHANGED <<db, reply, issued, claims, got>>
    /\ UNCHANGED <<sender, due, retry, told, taken, fired, window, early, recall>>

(***************************************************************************)
(* DELETE /conversations/:id/messages/:messageId.                          *)
(***************************************************************************)
RecallTo(q, stage, answer) ==
    recall' = [recall EXCEPT ![q].stage = stage, ![q].answer = answer]

\* The row decides: already recalled, still buffered, or on its way.
RecallReads(q, m) ==
    /\ recall[q].stage = "idle" /\ db[m].status # "none"
    /\ LET next == IF db[m].isRecalled THEN [stage |-> "done", answer |-> "already"]
                   ELSE IF db[m].status = "buffered" /\ ~db[m].isSent
                   THEN [stage |-> "cancel", answer |-> "none"]
                   ELSE [stage |-> "done", answer |-> "delivered"]
       IN recall' = [recall EXCEPT ![q] = [msg |-> {m}, stage |-> next.stage,
                                           answer |-> next.answer]]
    /\ UNCHANGED <<deliveryVars, sender, slot, due, retry, told, taken, fired, window, early>>

\* A variant of Cancellable with a mistake: the send time is not checked.
CancellableLate(m) == slot[m] \in {"held", "firing"}

\* cancelMessage: pending, and its send time has not come.
Cancellable(m) == slot[m] = "held" /\ ~due[m]

\* cancelBufferedDelivery succeeds in the object; the answer may be lost.
RecallCancels(q) ==
    /\ recall[q].stage = "cancel"
    /\ \E m \in recall[q].msg :
         /\ Cancellable(m)
         /\ slot' = [slot EXCEPT ![m] = "gone"]
         /\ taken' = taken \cup {m}
    /\ \/ RecallTo(q, "mark", "none") /\ faults' = faults
       \/ RecallTo(q, "done", "late") /\ Fault("call")
    /\ UNCHANGED <<db, reply, issued, claims, run, got, sender, due, retry, told, fired, window, early>>

\* The object refuses, or is out of reach.
RecallRefused(q) ==
    /\ recall[q].stage = "cancel"
    /\ \/ (\A m \in recall[q].msg : ~Cancellable(m)) /\ faults' = faults
       \/ Fault("refusal")
    /\ RecallTo(q, "done", "late")
    /\ UNCHANGED <<db, reply, issued, claims, run, got>>
    /\ UNCHANGED <<sender, slot, due, retry, told, taken, fired, window, early>>

\* MessageRecallService.recallMessage, then the handler's own update; a row that an
\* older route has marked meanwhile is refused.
RecallMarks(q) ==
    /\ recall[q].stage = "mark"
    /\ \E m \in recall[q].msg :
         \/ MarkRecalled(m) /\ RecallTo(q, "done", "ok")
         \/ db[m].isRecalled /\ RecallTo(q, "done", "error") /\ UNCHANGED deliveryVars
    /\ UNCHANGED <<sender, slot, due, retry, told, taken, fired, window, early>>

\* The update throws, or what comes after it.
RecallMarkThrows(q) ==
    /\ recall[q].stage \in {"mark", "overwrite"}
    /\ Fault("d1")
    /\ \E m \in recall[q].msg : db' \in {db, [db EXCEPT ![m].isRecalled = TRUE]}
    /\ RecallTo(q, "done", "error")
    /\ UNCHANGED <<reply, issued, claims, run, got>>
    /\ UNCHANGED <<sender, slot, due, retry, told, taken, fired, window, early>>

RecallDies(q) ==
    /\ recall[q].stage \in {"cancel", "mark", "overwrite"}
    /\ Fault("crash")
    /\ RecallTo(q, "done", "none")
    /\ UNCHANGED <<db, reply, issued, claims, run, got>>
    /\ UNCHANGED <<sender, slot, due, retry, told, taken, fired, window, early>>

(***************************************************************************)
(* DELETE /messages/:id and POST /messages/bulk-delete, the older routes,  *)
(* which know nothing of the scheduler.                                    *)
(***************************************************************************)
\* The window is over by the row; the send time was set a moment later.
Expired(m) == m \in window /\ (due[m] \/ retry[m] > 0)

\* The row is not recalled, and its deadline, if it has one, has not passed.
OlderReads(q, m) ==
    /\ recall[q].stage = "idle" /\ db[m].status # "none"
    /\ ~db[m].isRecalled /\ ~Expired(m)
    /\ recall' = [recall EXCEPT ![q] = [msg |-> {m}, stage |-> "overwrite", answer |-> "none"]]
    /\ UNCHANGED <<deliveryVars, sender, slot, due, retry, told, taken, fired, window, early>>

\* deliver() has not read the row yet.
Unread(m) ==
    /\ \A v \in {"now", "alarm"} : run[<<v, m>>].stage \in {"idle", "load"}
    /\ \A b \in 1 .. Batches : got[m][b] = 0

\* The row is marked, whatever it says by now.
OlderMarks(q) ==
    /\ recall[q].stage = "overwrite"
    /\ \E m \in recall[q].msg :
         /\ db' = [db EXCEPT ![m].isRecalled = TRUE]
         /\ early' = IF Unread(m) THEN early \cup {m} ELSE early
    /\ RecallTo(q, "done", "ok")
    /\ UNCHANGED <<reply, issued, claims, run, got, faults>>
    /\ UNCHANGED <<sender, slot, due, retry, told, taken, fired, window>>

(***************************************************************************)
(* Everything together.                                                    *)
(***************************************************************************)
Sends(m) ==
    \/ AfterInsert(m) \/ Schedule(m) \/ Stamp(m) \/ Downgrade(m) \/ DeliverNow(m)

Alarm(m) == AlarmBegins(m) \/ AlarmEnds(m)

Delivers(r) == Deliver(r) /\ UNCHANGED recallVars

RecallStep(q) == RecallCancels(q) \/ RecallRefused(q) \/ RecallMarks(q) \/ OlderMarks(q)

Trouble ==
    \/ \E m \in Msgs : AfterInsertThrows(m) \/ ScheduleRefused(m) \/ SenderDies(m)
                    \/ AlarmRejects(m) \/ AlarmDies(m)
    \/ \E q \in Recalls : RecallMarkThrows(q) \/ RecallDies(q)

Next ==
    \/ \E m \in Msgs : \/ \E buffered \in BOOLEAN : Create(m, buffered)
                       \/ Sends(m) \/ TimePasses(m) \/ Alarm(m)
    \/ \E r \in Runs : Delivers(r)
    \/ \E q \in Recalls : RecallStep(q) \/ \E m \in Msgs : RecallReads(q, m) \/ OlderReads(q, m)
    \/ \E t \in Tokens : StoreToken(t) /\ UNCHANGED recallVars
    \/ Trouble

Spec == Init /\ [][Next]_vars

(***************************************************************************)
(* Fairness: as long as a request or a handler runs or a message is held,  *)
(* one of these steps is taken again.  Nobody has to send, recall or fail. *)
(* This is weak fairness of Work, with its enabling condition spelt out.   *)
(***************************************************************************)
Work ==
    \/ \E m \in Msgs : Sends(m) \/ TimePasses(m) \/ Alarm(m)
    \/ \E r \in Runs : Delivers(r)
    \/ \E q \in Recalls : RecallStep(q)

HasWork ==
    \/ \E m \in Msgs : sender[m] \notin {"idle", "done"} \/ slot[m] \in {"held", "firing"}
    \/ \E r \in Runs : run[r] # Idle
    \/ \E q \in Recalls : recall[q].stage \notin {"idle", "done"}

FairSpec == Spec /\ ([]<>~HasWork \/ []<><<Work>>_vars)

(***************************************************************************)
(* Properties                                                              *)
(***************************************************************************)
RecallTypeOK ==
    /\ TypeOK
    /\ sender \in [Msgs -> {"idle", "inserted", "schedule", "stamp", "downgrade", "deliver", "done"}]
    /\ slot \in [Msgs -> {"none", "held", "firing", "gone", "dead"}]
    /\ due \in [Msgs -> BOOLEAN] /\ retry \in [Msgs -> 0 .. MaxRetry + 1]
    /\ told \in SUBSET Msgs /\ taken \in SUBSET Msgs /\ fired \in SUBSET Msgs
    /\ window \in SUBSET Msgs /\ early \in SUBSET Msgs
    /\ recall \in [Recalls ->
            [msg : SUBSET Msgs, stage : {"idle", "cancel", "mark", "overwrite", "done"},
             answer : {"none", "ok", "late", "already", "delivered", "error"}]]

None(kinds) == \A k \in kinds : faults[k] = 0

Received(m) == \E b \in 1 .. Batches : got[m][b] > 0

\* Only one caller delivers the message: the alarm, when the sender knows that
\* the object holds it, or the sender, when the object never did.
OnePath(m) == m \in told \/ slot[m] = "none"

\* A cancel that the scheduler accepts keeps the message from the customer for
\* ever, whatever fails, when only the alarm could deliver it and no alarm
\* handler was cut short.  A recall that only marks the row keeps the message from
\* the customer too, on every path and whatever fails, if it is there before
\* deliver() has read the row; nothing but that one look protects it.
CancelIsFinal ==
    \A m \in Msgs :
        /\ OnePath(m) /\ None({"abort"}) /\ m \in taken => ~Received(m) /\ ~db[m].isSent
        /\ m \in early => ~Received(m)

\* No customer gets a batch twice, however recalls, alarms, failing statements
\* and dying requests interleave, while there is one path, LINE's answers arrive
\* and no alarm handler was cut short.
AtMostOnce ==
    \A m \in Msgs : OnePath(m) /\ None({"line", "abort"}) =>
        \A b \in 1 .. Batches : got[m][b] <= 1

\* `failed` tells the agent to write again, so it is set only when the customer
\* got nothing; not so when D1 or LINE's answer failed.
FailedIsTrue ==
    \A m \in Msgs : OnePath(m) /\ None({"d1", "line", "abort"}) =>
        (db[m].status = "failed" => ~Received(m))

AtWork(m) ==
    \/ sender[m] # "done" \/ \E v \in {"now", "alarm"} : run[<<v, m>>] # Idle
    \/ \E q \in Recalls : m \in recall[q].msg /\ recall[q].stage # "done"

Open(m) == db[m].status \in {"buffered", "pending"} /\ ~db[m].isRecalled /\ ~db[m].isSent

\* A message that waits to be sent and that nobody works on is held by the
\* scheduler, or is in its dead-letter list, unless a statement failed, a
\* request died, the customer was deleted or an answer of the scheduler was lost.
NeverForgotten ==
    None({"d1", "crash", "orphan", "call"}) =>
        \A m \in Msgs : Open(m) /\ ~AtWork(m) => slot[m] \in {"held", "dead"}

\* Every message that is created is in the end sent, failed, recalled or listed
\* as a dead letter, through refused schedules, rejected alarms and resets, unless
\* a fault happens that NeverForgotten names too.
EventuallySettled ==
    \A m \in Msgs : db[m].status # "none" ~>
        (~Open(m) \/ slot[m] = "dead" \/ ~None({"d1", "crash", "orphan", "call"}))

\* The entry used here is no more than RecallWindow allows, and so no more than
\* what DelayedMessageScheduler implements.
Window == INSTANCE RecallWindow
    WITH held <- {m \in Msgs : slot[m] \in {"held", "firing"}},
         promised <- told, tried <- fired, cancelled <- taken,
         recorded <- {m \in Msgs : slot[m] = "dead"}

UsesWindow == Window!Spec

(***************************************************************************)
(* What the documents say, and the code does not do.                       *)
(***************************************************************************)
\* ADR 0003 section 4: "A message must never remain stuck in `buffered` without
\* an alarm".
BufferedHasAlarm ==
    \A m \in Msgs : db[m].status = "buffered" /\ ~db[m].isRecalled /\ ~AtWork(m)
                        => slot[m] \in {"held", "dead"}
=============================================================================
