------------------------- MODULE RecallDeliveryProofs -------------------------
(***************************************************************************)
(* The recall window, for any number of messages, recalls, tokens, batches *)
(* and retries, and any faults.                                            *)
(***************************************************************************)
EXTENDS RecallDelivery, MessageDeliveryProofs

(***************************************************************************)
(* Types, and what deliver() alone guarantees, with the real callers.      *)
(***************************************************************************)
RecallStages == {"idle", "cancel", "mark", "overwrite", "done"}
Answers == {"none", "ok", "late", "already", "delivered", "error"}

RecallVarsType ==
    /\ sender \in [Msgs -> {"idle", "inserted", "schedule", "stamp", "downgrade", "deliver", "done"}]
    /\ slot \in [Msgs -> {"none", "held", "firing", "gone", "dead"}]
    /\ due \in [Msgs -> BOOLEAN] /\ retry \in [Msgs -> 0 .. MaxRetry + 1]
    /\ told \in SUBSET Msgs /\ taken \in SUBSET Msgs /\ fired \in SUBSET Msgs
    /\ window \in SUBSET Msgs /\ early \in SUBSET Msgs
    /\ recall \in [Recalls -> [msg : SUBSET Msgs, stage : RecallStages, answer : Answers]]

\* An entry that is held has retries left.
RetriesLeft == \A m \in Msgs : slot[m] \in {"held", "firing"} => retry[m] <= MaxRetry

\* A recall is about one message.
OneEach == \A q \in Recalls : \A m, n \in recall[q].msg : m = n

\* An entry is scheduled once, by the request that knows of it.
Once == \A m \in Msgs : sender[m] \in {"idle", "inserted", "schedule"}
                            => slot[m] = "none" /\ retry[m] = 0

Common ==
    /\ DeliveryInv /\ RecallVarsType
    /\ RetriesLeft /\ OneEach /\ Once

LEMMA CommonType == Common => RecallTypeOK
  BY DEF Common, DeliveryInv, RecallVarsType, RecallTypeOK, RecallStages, Answers

LEMMA AnyFaultType ==
    ASSUME TypeOK, faults' = faults \/ \E k \in FaultKinds : Fault(k)
    PROVE  faults' \in [FaultKinds -> Nat] /\ \A j \in FaultKinds : faults'[j] <= Budget[j]
  BY FaultType DEF TypeOK

\* What callers do to a call and to a row: they start or stop the call, and never
\* make a row say more than it said.
LEMMA CallersKeep ==
    ASSUME DeliveryInv,
           UNCHANGED <<reply, issued, claims, got>>,
           faults' = faults \/ \E k \in FaultKinds : Fault(k),
           run' = run \/ \E r \in Runs : To(r, "load") \/ Stops(r),
           db' \in [Msgs -> RowType],
           \A m \in Msgs : /\ db'[m].isSent => db[m].isSent
                           /\ db'[m].status \in {"sent", "partial"} => db'[m].status = db[m].status
    PROVE  DeliveryInv'
<1> USE DEF DeliveryInv
<1>1. faults' \in [FaultKinds -> Nat] /\ \A j \in FaultKinds : faults'[j] <= Budget[j]
  BY AnyFaultType
<1>2. run' \in [Runs -> RunType] /\ Counts'
  <2>1. CASE run' = run
    BY <2>1 DEF Counts, Msg, TypeOK, RunType
  <2>2. ASSUME NEW r \in Runs, To(r, "load") \/ Stops(r)
        PROVE  run' \in [Runs -> RunType] /\ Counts'
    <3>1. "load" \in Stages
      BY DEF Stages
    <3>2. /\ run' \in [Runs -> RunType] /\ \A q \in Runs : q # r => run'[q] = run[q]
          /\ run'[r] = Idle \/ (run'[r].next = run[r].next /\ run'[r].sent = run[r].sent)
      BY <2>2, <3>1, ToType, StopsType
    <3> QED
      BY <3>2, CountsStay
  <2> QED
    BY <2>1, <2>2
<1>3. TypeOK'
  BY <1>1, <1>2 DEF TypeOK, RowType, RunType
<1>4. TokensKept' /\ SentIsTrue'
  BY DEF TokensKept, SentIsTrue
<1> QED
  BY <1>2, <1>3, <1>4

\* The updates of a row.
LEMMA RowUpdates ==
    ASSUME TypeOK, NEW m \in Msgs
    PROVE  /\ \A s \in {"buffered", "pending"} :
                /\ [db EXCEPT ![m].status = s] \in [Msgs -> RowType]
                /\ \A n \in Msgs : [db EXCEPT ![m].status = s][n] =
                        IF n = m THEN [db[m] EXCEPT !.status = s] ELSE db[n]
                /\ [db[m] EXCEPT !.status = s].status = s
                /\ [db[m] EXCEPT !.status = s].isSent = db[m].isSent
                /\ [db[m] EXCEPT !.status = s].isRecalled = db[m].isRecalled
           /\ [db EXCEPT ![m].isRecalled = TRUE] \in [Msgs -> RowType]
           /\ \A n \in Msgs : [db EXCEPT ![m].isRecalled = TRUE][n] =
                    IF n = m THEN [db[m] EXCEPT !.isRecalled = TRUE] ELSE db[n]
           /\ [db[m] EXCEPT !.isRecalled = TRUE].status = db[m].status
           /\ [db[m] EXCEPT !.isRecalled = TRUE].isSent = db[m].isSent
           /\ [db[m] EXCEPT !.isRecalled = TRUE].isRecalled
<1>1. db \in [Msgs -> RowType] /\ db[m] \in RowType
  BY DEF TypeOK, RowType
<1>2. /\ \A s \in {"buffered", "pending"} : [db[m] EXCEPT !.status = s] \in RowType
      /\ [db[m] EXCEPT !.isRecalled = TRUE] \in RowType
  BY <1>1 DEF RowType
<1> QED
  BY <1>1, <1>2 DEF RowType

LEMMA Kinds == \A k \in {"d1", "call", "refusal", "crash", "abort"} : k \in FaultKinds
  BY DEF FaultKinds

LEMMA RunNames == \A m \in Msgs, v \in {"now", "alarm"} :
    <<v, m>> \in Runs /\ Msg(<<v, m>>) = m
  BY DEF Runs, Msg

\* Steps that leave the rows alone.
LEMMA RowsStay == ASSUME DeliveryInv, db' = db
                  PROVE  /\ db' \in [Msgs -> RowType]
                         /\ \A m \in Msgs : /\ db'[m].isSent => db[m].isSent
                                            /\ db'[m].status \in {"sent", "partial"}
                                                    => db'[m].status = db[m].status
  BY DEF DeliveryInv, TypeOK, RowType

LEMMA SenderKeepsCommon ==
    ASSUME Common, NEW m \in Msgs,
           \/ \E buffered \in BOOLEAN : Create(m, buffered)
           \/ Sends(m) \/ AfterInsertThrows(m) \/ ScheduleRefused(m) \/ SenderDies(m)
    PROVE  Common'
<1> USE DEF Common
<1>0. TypeOK /\ RecallAssumption /\ <<"now", m>> \in Runs
  BY RunNames, RecallAssumption DEF DeliveryInv
<1>1. ASSUME NEW buffered \in BOOLEAN, Create(m, buffered) PROVE Common'
  <2>1. PICK s \in {"buffered", "pending"} : db' = [db EXCEPT ![m].status = s]
    BY <1>1 DEF Create, Insert
  <2>2. DeliveryInv'
    <3>1. \A n \in Msgs : db'[n].isSent = db[n].isSent
                          /\ db'[n].status \in {"sent", "partial"} => db'[n].status = db[n].status
      BY <1>0, <2>1, RowUpdates
    <3>2. db' \in [Msgs -> RowType]
      BY <1>0, <2>1, RowUpdates
    <3> QED
      BY <1>1, <3>1, <3>2, CallersKeep DEF Create, Insert
  <2>3. RecallVarsType'
    BY <1>1 DEF Create, SenderTo, RecallVarsType
  <2>4. RetriesLeft' /\ OneEach' /\ Once'
    BY <1>1 DEF Create, SenderTo, RecallVarsType, RetriesLeft, OneEach, Once
  <2> QED
    BY <2>2, <2>3, <2>4
<1>2. CASE AfterInsert(m) \/ AfterInsertThrows(m) \/ ScheduleRefused(m)
  <2>1. DeliveryInv'
    BY <1>2, RowsStay, Kinds, CallersKeep DEF AfterInsert, AfterInsertThrows, ScheduleRefused, deliveryVars
  <2>2. RecallVarsType'
    BY <1>2 DEF AfterInsert, AfterInsertThrows, ScheduleRefused, SenderTo, RecallVarsType
  <2>3. RetriesLeft' /\ OneEach' /\ Once'
    BY <1>2 DEF AfterInsert, AfterInsertThrows, ScheduleRefused, SenderTo, RecallVarsType,
       RetriesLeft, OneEach, Once
  <2> QED
    BY <2>1, <2>2, <2>3
<1>3. CASE Schedule(m)
  <2>1. DeliveryInv'
    BY <1>3, RowsStay, Kinds, CallersKeep DEF Schedule
  <2>2. RecallVarsType'
    BY <1>3 DEF Schedule, SenderTo, RecallVarsType
  <2>3. RetriesLeft' /\ OneEach' /\ Once'
    BY <1>0, <1>3 DEF Schedule, SenderTo, RecallVarsType, RetriesLeft, OneEach, Once, RecallAssumption
  <2> QED
    BY <2>1, <2>2, <2>3
<1>4. CASE Downgrade(m)
  <2>1. DeliveryInv'
    <3>1. CASE db' = [db EXCEPT ![m].status = "pending"] /\ faults' = faults
      <4>1. \A n \in Msgs : db'[n].isSent = db[n].isSent
                          /\ db'[n].status \in {"sent", "partial"} => db'[n].status = db[n].status
        BY <1>0, <3>1, RowUpdates
      <4>2. db' \in [Msgs -> RowType]
        BY <1>0, <3>1, RowUpdates
      <4> QED
        BY <1>4, <3>1, <4>1, <4>2, CallersKeep DEF Downgrade
    <3>2. CASE Fault("d1") /\ db' = db
      BY <1>4, <3>2, RowsStay, Kinds, CallersKeep DEF Downgrade
    <3> QED
      BY <1>4, <3>1, <3>2 DEF Downgrade, Downgraded
  <2>2. RecallVarsType'
    BY <1>4 DEF Downgrade, Downgraded, SenderTo, RecallVarsType
  <2>3. RetriesLeft' /\ OneEach' /\ Once'
    BY <1>4 DEF Downgrade, SenderTo, RecallVarsType, RetriesLeft, OneEach, Once
  <2> QED
    BY <2>1, <2>2, <2>3
<1>5. CASE Stamp(m)
  <2>1. DeliveryInv'
    BY <1>5, RowsStay, Kinds, CallersKeep DEF Stamp
  <2>2. RecallVarsType'
    BY <1>5 DEF Stamp, SenderTo, RecallVarsType
  <2>3. RetriesLeft' /\ OneEach' /\ Once'
    BY <1>5 DEF Stamp, SenderTo, RecallVarsType, RetriesLeft, OneEach, Once
  <2> QED
    BY <2>1, <2>2, <2>3
<1>6. CASE DeliverNow(m) \/ SenderDies(m)
  <2>1. DeliveryInv'
    BY <1>0, <1>6, RowsStay, Kinds, CallersKeep DEF DeliverNow, SenderDies, Begin
  <2>2. RecallVarsType'
    BY <1>6 DEF DeliverNow, SenderDies, SenderTo, RecallVarsType
  <2>3. RetriesLeft' /\ OneEach' /\ Once'
    BY <1>6 DEF DeliverNow, SenderDies, SenderTo, RecallVarsType, RetriesLeft, OneEach, Once
  <2> QED
    BY <2>1, <2>2, <2>3
<1> QED
  BY <1>1, <1>2, <1>3, <1>4, <1>5, <1>6 DEF Sends

LEMMA AlarmKeepsCommon ==
    ASSUME Common, NEW m \in Msgs,
           TimePasses(m) \/ Alarm(m) \/ AlarmRejects(m) \/ AlarmDies(m)
    PROVE  Common'
<1> USE DEF Common
<1>0. TypeOK /\ MaxRetry \in Nat /\ <<"alarm", m>> \in Runs
  BY RunNames, RecallAssumption DEF DeliveryInv
<1>1. CASE TimePasses(m) \/ AlarmEnds(m)
  <2>1. DeliveryInv'
    BY <1>1, RowsStay, CallersKeep DEF TimePasses, AlarmEnds, deliveryVars
  <2>2. RecallVarsType'
    BY <1>1 DEF TimePasses, AlarmEnds, RecallVarsType
  <2>3. RetriesLeft' /\ OneEach' /\ Once'
    BY <1>1 DEF TimePasses, AlarmEnds, RecallVarsType, RetriesLeft, OneEach, Once
  <2> QED
    BY <2>1, <2>2, <2>3
<1>2. CASE AlarmBegins(m) \/ AlarmDies(m)
  <2>1. DeliveryInv'
    BY <1>0, <1>2, RowsStay, Kinds, CallersKeep DEF AlarmBegins, AlarmDies, Begin
  <2>2. RecallVarsType'
    BY <1>2 DEF AlarmBegins, AlarmDies, RecallVarsType
  <2>3. RetriesLeft' /\ OneEach' /\ Once'
    BY <1>2 DEF AlarmBegins, AlarmDies, RecallVarsType, RetriesLeft, OneEach, Once
  <2> QED
    BY <2>1, <2>2, <2>3
<1>3. CASE AlarmRejects(m)
  <2>1. DeliveryInv'
    BY <1>3, RowsStay, CallersKeep DEF AlarmRejects, deliveryVars
  <2>2. RecallVarsType'
    <3>1. retry[m] + 1 \in 0 .. MaxRetry + 1
      BY <1>0, <1>3 DEF AlarmRejects, RecallVarsType, RetriesLeft
    <3>2. retry' = [retry EXCEPT ![m] = retry[m] + 1]
      BY <1>3 DEF AlarmRejects
    <3>3. retry' \in [Msgs -> 0 .. MaxRetry + 1]
      BY <3>1, <3>2 DEF RecallVarsType
    <3>4. slot' \in [Msgs -> {"none", "held", "firing", "gone", "dead"}] /\ due' \in [Msgs -> BOOLEAN]
      BY <1>3 DEF AlarmRejects, RecallVarsType
    <3> QED
      BY <1>3, <3>3, <3>4 DEF AlarmRejects, RecallVarsType
  <2>3. RetriesLeft' /\ OneEach' /\ Once'
    BY <1>0, <1>3 DEF AlarmRejects, RecallVarsType, RetriesLeft, OneEach, Once
  <2> QED
    BY <2>1, <2>2, <2>3
<1> QED
  BY <1>1, <1>2, <1>3 DEF Alarm

\* The mark of a recall changes neither the status of a row nor whether it is sent.
LEMMA MarkRow ==
    ASSUME TypeOK, NEW m \in Msgs, db' = [db EXCEPT ![m].isRecalled = TRUE]
    PROVE  /\ db' \in [Msgs -> RowType]
           /\ \A n \in Msgs : db'[n].isSent = db[n].isSent /\ db'[n].status = db[n].status
<1>1. db' \in [Msgs -> RowType]
  BY RowUpdates
<1>2. ASSUME NEW n \in Msgs
      PROVE  db'[n].isSent = db[n].isSent /\ db'[n].status = db[n].status
  <2>1. CASE n = m
    <3>1. db'[m] = [db[m] EXCEPT !.isRecalled = TRUE]
      BY RowUpdates
    <3> QED
      BY <2>1, <3>1, RowUpdates
  <2>2. CASE n # m
    <3>1. db'[n] = db[n]
      BY <2>2, RowUpdates
    <3> QED
      BY <3>1
  <2> QED
    BY <2>1, <2>2
<1> QED
  BY <1>1, <1>2

LEMMA RecallKeepsCommon ==
    ASSUME Common, NEW q \in Recalls,
           \/ RecallStep(q) \/ RecallMarkThrows(q) \/ RecallDies(q)
           \/ \E m \in Msgs : RecallReads(q, m) \/ OlderReads(q, m)
    PROVE  Common'
<1> USE DEF Common
<1>0. TypeOK /\ recall[q] \in [msg : SUBSET Msgs, stage : RecallStages, answer : Answers]
  BY DEF DeliveryInv, RecallVarsType
<1>1. ASSUME NEW s \in RecallStages, NEW a \in Answers, RecallTo(q, s, a)
      PROVE  /\ recall' \in [Recalls -> [msg : SUBSET Msgs, stage : RecallStages, answer : Answers]]
             /\ \A p \in Recalls : recall'[p].msg = recall[p].msg
  <2> DEFINE N == [recall[q] EXCEPT !.stage = s, !.answer = a]
  <2>1. recall' = [recall EXCEPT ![q] = N]
    BY <1>1 DEF RecallTo, RecallVarsType
  <2>2. N \in [msg : SUBSET Msgs, stage : RecallStages, answer : Answers] /\ N.msg = recall[q].msg
    BY <1>0
  <2> HIDE DEF N
  <2> QED
    BY <2>1, <2>2 DEF RecallVarsType
<1>2. /\ \A s \in {"mark", "done"} : s \in RecallStages
      /\ \A a \in {"none", "late", "error", "ok"} : a \in Answers
  BY DEF RecallStages, Answers
<1>3. ASSUME UNCHANGED <<sender, due, retry, told, fired, window>>,
             \E s \in RecallStages, a \in Answers : RecallTo(q, s, a),
             slot' = slot \/ \E m \in Msgs : slot[m] = "held" /\ slot' = [slot EXCEPT ![m] = "gone"],
             taken' \in SUBSET Msgs, early' \in SUBSET Msgs
      PROVE  RecallVarsType' /\ RetriesLeft' /\ OneEach' /\ Once'
  <2>1. RecallVarsType'
    BY <1>1, <1>3 DEF RecallVarsType
  <2>2. OneEach'
    BY <1>1, <1>3 DEF OneEach
  <2>3. RetriesLeft' /\ Once'
    BY <1>3 DEF RetriesLeft, Once, RecallVarsType
  <2> QED
    BY <2>1, <2>2, <2>3
<1>4. ASSUME NEW m \in Msgs, UNCHANGED <<reply, issued, claims, run, got>>,
             faults' = faults \/ Fault("d1"), db' \in {db, [db EXCEPT ![m].isRecalled = TRUE]}
      PROVE  DeliveryInv'
  <2>1. CASE db' = db
    BY <1>4, <2>1, RowsStay, Kinds, CallersKeep
  <2>2. CASE db' = [db EXCEPT ![m].isRecalled = TRUE]
    <3>1. /\ db' \in [Msgs -> RowType]
          /\ \A n \in Msgs : db'[n].isSent = db[n].isSent /\ db'[n].status = db[n].status
      BY <1>0, <2>2, MarkRow
    <3> QED
      BY <1>4, <3>1, Kinds, CallersKeep
  <2> QED
    BY <1>4, <2>1, <2>2
<1>5. CASE RecallCancels(q)
  <2>1. DeliveryInv'
    BY <1>5, RowsStay, Kinds, CallersKeep DEF RecallCancels
  <2>2. PICK m \in recall[q].msg : /\ slot[m] = "held" /\ slot' = [slot EXCEPT ![m] = "gone"]
                                   /\ taken' = taken \cup {m}
    BY <1>5 DEF RecallCancels, Cancellable
  <2>3. m \in Msgs
    BY <1>0
  <2> QED
    BY <1>2, <1>3, <1>5, <2>1, <2>2, <2>3 DEF RecallCancels, RecallVarsType
<1>6. CASE RecallRefused(q)
  <2>1. DeliveryInv'
    BY <1>6, RowsStay, Kinds, CallersKeep DEF RecallRefused
  <2> QED
    BY <1>2, <1>3, <1>6, <2>1 DEF RecallRefused, RecallVarsType
<1>7. CASE RecallMarks(q)
  <2>1. PICK m \in recall[q].msg :
            \/ MarkRecalled(m) /\ RecallTo(q, "done", "ok")
            \/ db[m].isRecalled /\ RecallTo(q, "done", "error") /\ UNCHANGED deliveryVars
    BY <1>7 DEF RecallMarks
  <2>2. m \in Msgs
    BY <1>0
  <2>3. DeliveryInv'
    BY <1>4, <2>1, <2>2 DEF MarkRecalled, deliveryVars
  <2> QED
    BY <1>2, <1>3, <1>7, <2>1, <2>3 DEF RecallMarks, RecallVarsType
<1>8. CASE OlderMarks(q)
  <2>1. PICK m \in recall[q].msg : /\ db' = [db EXCEPT ![m].isRecalled = TRUE]
                                   /\ early' = IF Unread(m) THEN early \cup {m} ELSE early
    BY <1>8 DEF OlderMarks
  <2>2. m \in Msgs
    BY <1>0
  <2>3. DeliveryInv'
    BY <1>4, <1>8, <2>1, <2>2 DEF OlderMarks
  <2> QED
    BY <1>2, <1>3, <1>8, <2>1, <2>2, <2>3 DEF OlderMarks, RecallVarsType
<1>9. CASE RecallMarkThrows(q)
  <2>1. PICK m \in recall[q].msg : db' \in {db, [db EXCEPT ![m].isRecalled = TRUE]}
    BY <1>9 DEF RecallMarkThrows
  <2>2. m \in Msgs
    BY <1>0
  <2>3. DeliveryInv'
    BY <1>4, <1>9, <2>1, <2>2 DEF RecallMarkThrows
  <2> QED
    BY <1>2, <1>3, <1>9, <2>3 DEF RecallMarkThrows, RecallVarsType
<1>10. CASE RecallDies(q)
  <2>1. DeliveryInv'
    BY <1>10, RowsStay, Kinds, CallersKeep DEF RecallDies
  <2> QED
    BY <1>2, <1>3, <1>10, <2>1 DEF RecallDies, RecallVarsType
<1>11. ASSUME NEW m \in Msgs, RecallReads(q, m) \/ OlderReads(q, m) PROVE Common'
  <2>1. DeliveryInv'
    BY <1>11, RowsStay, CallersKeep DEF RecallReads, OlderReads, deliveryVars
  <2>2. PICK s \in RecallStages, a \in Answers :
            recall' = [recall EXCEPT ![q] = [msg |-> {m}, stage |-> s, answer |-> a]]
    BY <1>11 DEF RecallReads, OlderReads, RecallStages, Answers
  <2>3. /\ recall' \in [Recalls -> [msg : SUBSET Msgs, stage : RecallStages, answer : Answers]]
        /\ \A p \in Recalls : recall'[p].msg = IF p = q THEN {m} ELSE recall[p].msg
    BY <2>2 DEF RecallVarsType
  <2>4. UNCHANGED <<sender, slot, due, retry, told, taken, fired, window, early>>
    BY <1>11 DEF RecallReads, OlderReads
  <2>5. RecallVarsType' /\ RetriesLeft' /\ OneEach' /\ Once'
    BY <2>3, <2>4 DEF RecallVarsType, RetriesLeft, OneEach, Once
  <2> QED
    BY <2>1, <2>5
<1> QED
  BY <1>5, <1>6, <1>7, <1>8, <1>9, <1>10, <1>11 DEF RecallStep

LEMMA CommonInitially == Init => Common
<1> SUFFICES ASSUME Init PROVE Common
  OBVIOUS
<1>1. DeliveryInv
  BY DeliveryInitially DEF Init
<1>2. RecallVarsType
  BY RecallAssumption DEF Init, RecallVarsType, RecallStages, Answers
<1>3. RetriesLeft /\ OneEach /\ Once
  BY DEF Init, RetriesLeft, OneEach, Once
<1> QED
  BY <1>1, <1>2, <1>3 DEF Common

LEMMA CommonStep == Common /\ [Next]_vars => Common'
<1> SUFFICES ASSUME Common, [Next]_vars PROVE Common'
  OBVIOUS
<1>1. ASSUME UNCHANGED recallVars, DeliveryInv' PROVE Common'
  BY <1>1 DEF Common, recallVars, RecallVarsType, RetriesLeft, OneEach, Once
<1>2. ASSUME NEW r \in Runs, Delivers(r) PROVE Common'
  BY <1>1, <1>2, DeliverKeepsType, DeliverKeepsTokens, DeliverKeepsOutcomes DEF Delivers, Common, DeliveryInv
<1>3. ASSUME NEW t \in Tokens, StoreToken(t) /\ UNCHANGED recallVars PROVE Common'
  <2>1. [NextDelivery]_deliveryVars
    BY <1>3 DEF NextDelivery
  <2> QED
    BY <1>1, <1>3, <2>1, DeliveryStep DEF Common
<1>4. CASE UNCHANGED vars
  BY <1>1, <1>4, DeliveryStep DEF vars, Common
<1> QED
  BY <1>2, <1>3, <1>4, SenderKeepsCommon, AlarmKeepsCommon, RecallKeepsCommon DEF Next, Trouble

(***************************************************************************)
(* One message.                                                            *)
(***************************************************************************)
Variants == {"now", "alarm"}

Idles(v, m) == run[<<v, m>>].stage = "idle"

\* Nothing has reached the customer, and no outcome has been written.
Untouched(m) == ~Received(m) /\ ~db[m].isSent /\ db[m].status # "failed"

\* Its sender has handed it over, or given it up.
Through(m) == sender[m] \in {"stamp", "done"}

\* Who can be at work on the message, by its sender and its entry.
Places(m) ==
    /\ slot[m] = "none" => Idles("alarm", m) /\ m \notin told \cup taken \cup fired
    /\ slot[m] \in {"held", "gone", "dead"} => Idles("alarm", m)
    /\ slot[m] = "firing" => m \in fired
    /\ m \in taken => slot[m] = "gone"
    /\ m \in told => Through(m)
    /\ ~Through(m) \/ m \in told => Idles("now", m)
    /\ sender[m] = "idle" => db[m] = Absent /\ \A q \in Recalls : m \notin recall[q].msg

\* A call in its catch block got there by a failing statement.
Caught(m) == \A v \in Variants : run[<<v, m>>].stage = "catch" => ~None({"d1"})

\* A row that is marked in time is seen by whoever reads it.
MarkedEarly(m) ==
    m \in early => /\ db[m].isRecalled /\ ~Received(m)
                   /\ \A v \in Variants : run[<<v, m>>].stage \in {"idle", "load", "catch"}

\* Before the one delivery ...
Before(m) ==
    /\ ~Through(m) => Untouched(m)
    /\ None({"abort"}) /\ (slot[m] = "held" \/ m \in taken) => Untouched(m)

\* ... during it ...
During(m) ==
    None({"line", "abort"}) =>
        \A v \in Variants : ~Idles(v, m) =>
            /\ \A b \in run[<<v, m>>].next .. Batches : got[m][b] = 0
            /\ run[<<v, m>>].sent = 0 => ~Received(m)

\* ... and after it.
After(m) ==
    /\ None({"line", "abort"}) => \A b \in 1 .. Batches : got[m][b] <= 1
    /\ None({"d1", "line", "abort"}) /\ db[m].status = "failed" =>
            ~Received(m) /\ \A v \in Variants : Idles(v, m)

\* A message that waits is with its sender, its alarm, its entry or its recall.
Accounted(m) ==
    None({"d1", "crash", "orphan", "call"}) =>
        /\ slot[m] # "none" => m \in told
        /\ Open(m) => \/ ~Through(m) \/ slot[m] \in {"held", "dead"}
                      \/ \E v \in Variants : ~Idles(v, m)
                      \/ \E q \in Recalls : m \in recall[q].msg /\ recall[q].stage = "mark"

Tracked(m) ==
    /\ Places(m) /\ Caught(m) /\ MarkedEarly(m)
    /\ OnePath(m) => Before(m) /\ During(m) /\ After(m)
    /\ Accounted(m)

RecallInv == Common /\ \A m \in Msgs : Tracked(m)

\* Faults do not go away.
FaultsGrow == \A k \in FaultKinds : faults'[k] = 0 => faults[k] = 0

LEMMA FaultFacts ==
    ASSUME TypeOK
    PROVE  /\ faults' = faults \/ (\E k \in FaultKinds : Fault(k)) => FaultsGrow
           /\ FaultsGrow => \A K \in SUBSET FaultKinds : None(K)' => None(K)
           /\ \A k \in FaultKinds : Fault(k) => \A K \in SUBSET FaultKinds : k \in K => ~None(K)'
<1>1. \A k \in FaultKinds : Fault(k) => FaultsGrow /\ faults'[k] # 0
  <2> SUFFICES ASSUME NEW k \in FaultKinds, Fault(k) PROVE FaultsGrow /\ faults'[k] # 0
    OBVIOUS
  <2>1. faults' = [faults EXCEPT ![k] = @ + 1]
    BY DEF Fault
  <2>2. faults \in [FaultKinds -> Nat] /\ faults[k] \in Nat
    BY DEF TypeOK
  <2> QED
    BY <2>1, <2>2 DEF FaultsGrow
<1> QED
  BY <1>1 DEF FaultsGrow, None

LEMMA KindSets ==
    /\ {"abort"} \in SUBSET FaultKinds /\ {"d1"} \in SUBSET FaultKinds
    /\ {"line", "abort"} \in SUBSET FaultKinds /\ {"d1", "line", "abort"} \in SUBSET FaultKinds
    /\ {"d1", "crash", "orphan", "call"} \in SUBSET FaultKinds
  BY DEF FaultKinds

\* A step changes nothing that matters about a message: no recall begins with it
\* before it exists, or gives up marking it while it waits.
Same(m) ==
    /\ db'[m] = db[m] /\ got'[m] = got[m]
    /\ \A v \in Variants : run'[<<v, m>>] = run[<<v, m>>]
    /\ Through(m)' <=> Through(m)
    /\ sender'[m] = "idle" <=> sender[m] = "idle"
    /\ slot'[m] = slot[m]
    /\ m \in told' <=> m \in told
    /\ m \in taken' <=> m \in taken
    /\ m \in fired' <=> m \in fired
    /\ m \in early' <=> m \in early
    /\ \A q \in Recalls :
        /\ m \in recall'[q].msg => m \in recall[q].msg \/ sender[m] # "idle"
        /\ /\ Open(m) /\ None({"d1", "crash", "orphan", "call"})'
           /\ m \in recall[q].msg /\ recall[q].stage = "mark"
           => m \in recall'[q].msg /\ recall'[q].stage = "mark"

LEMMA Frame ==
    ASSUME TypeOK, FaultsGrow, NEW m \in Msgs, Tracked(m), Same(m)
    PROVE  Tracked(m)'
<1>1. "now" \in Variants /\ "alarm" \in Variants
  BY DEF Variants
<1>2. \A v \in Variants : run'[<<v, m>>] = run[<<v, m>>]
  BY DEF Same
<1>3. Received(m)' <=> Received(m)
  BY DEF Same, Received
<1>4. OnePath(m)' <=> OnePath(m)
  BY DEF Same, OnePath
<1>5. Places(m)'
  BY <1>1, <1>2 DEF Tracked, Places, Same, Idles
<1>6. Caught(m)'
  BY <1>2, FaultFacts, KindSets DEF Tracked, Caught
<1>7. MarkedEarly(m)'
  BY <1>2, <1>3 DEF Tracked, MarkedEarly, Same
<1>8. Untouched(m)' <=> Untouched(m)
  BY <1>3 DEF Untouched, Same
<1>9. Before(m) => Before(m)'
  BY <1>8, FaultFacts, KindSets DEF Before, Same
<1>10. During(m) => During(m)'
  BY <1>2, <1>3, FaultFacts, KindSets DEF During, Idles, Same
<1>11. After(m) => After(m)'
  BY <1>2, <1>3, FaultFacts, KindSets DEF After, Idles, Same
<1>12. Accounted(m)'
  <2>1. Open(m)' <=> Open(m)
    BY DEF Open, Same
  <2> QED
    BY <1>2, <2>1, FaultFacts, KindSets DEF Tracked, Accounted, Idles, Same
<1> QED
  BY <1>4, <1>5, <1>6, <1>7, <1>9, <1>10, <1>11, <1>12 DEF Tracked

(***************************************************************************)
(* One message, and the steps of deliver().                                *)
(***************************************************************************)
\* Who runs a call of the message, and that on one path it is alone.
LEMMA Alone ==
    ASSUME Common, NEW m \in Msgs, Tracked(m), NEW v \in Variants, ~Idles(v, m)
    PROVE  /\ v = "alarm" => slot[m] = "firing" /\ m \notin taken
           /\ v = "now" => Through(m) /\ m \notin told
           /\ sender[m] # "idle"
           /\ OnePath(m) => /\ Through(m) /\ slot[m] \in {"none", "firing"}
                            /\ m \notin taken
                            /\ \A u \in Variants : u # v => Idles(u, m)
<1>1. v = "now" \/ v = "alarm"
  BY DEF Variants
<1>2. slot[m] \in {"none", "held", "firing", "gone", "dead"}
  BY DEF Common, RecallVarsType
<1>3. Places(m)
  BY DEF Tracked
<1>4. sender[m] = "idle" => slot[m] = "none"
  BY DEF Common, Once
<1> QED
  BY <1>1, <1>2, <1>3, <1>4 DEF Places, OnePath, Variants, Through

\* What a step of a call leaves of the others.
LEMMA CallFrame ==
    ASSUME Common, NEW m \in Msgs, NEW v \in Variants, Delivers(<<v, m>>)
    PROVE  /\ FaultsGrow /\ ~Idles(v, m)
           /\ \A q \in Runs : q # <<v, m>> => run'[q] = run[q]
           /\ \A n \in Msgs : n # m => db'[n] = db[n] /\ got'[n] = got[n]
           /\ db'[m].isRecalled = db[m].isRecalled
<1> DEFINE r == <<v, m>>
<1>1. TypeOK /\ r \in Runs /\ Msg(r) = m
  BY DEF Common, DeliveryInv, Runs, Msg, Variants
<1>2. Deliver(r)
  BY DEF Delivers
<1> HIDE DEF r
<1>3. run[r].stage # "idle"
  BY <1>2 DEF Deliver, Load, Resolve, CustomerMissing, QueryThrows, ReadToken, SwapToken,
     SwapThrows, ReplyBatch, PushBatch, Answer, AllSent, Write, WriteThrows, Catch
<1>4. \A q \in Runs : q # r => run'[q] = run[q]
  BY <1>1, <1>2 DEF Deliver, Load, Resolve, CustomerMissing, QueryThrows, ReadToken, SwapToken,
     SwapThrows, ReplyBatch, PushBatch, AllSent, Write, WriteThrows, Catch, To, Stops, TypeOK
<1>5. faults' = faults \/ \E k \in FaultKinds : Fault(k)
  BY <1>2, KindFacts DEF Deliver, Load, Resolve, CustomerMissing, QueryThrows, ReadToken, SwapToken,
     SwapThrows, ReplyBatch, PushBatch, Answer, AllSent, Write, WriteThrows, Catch
<1>6. \/ db' = db \/ db' = Written(r) \/ db' = [db EXCEPT ![m].status = "failed"]
  BY <1>1, <1>2 DEF Deliver, Load, Resolve, CustomerMissing, QueryThrows, ReadToken, SwapToken,
     SwapThrows, ReplyBatch, PushBatch, AllSent, Write, WriteThrows, Catch
<1>7. \/ got' = got \/ got' = [got EXCEPT ![m][run[r].next] = @ + 1]
  BY <1>1, <1>2 DEF Deliver, Load, Resolve, CustomerMissing, QueryThrows, ReadToken, SwapToken,
     SwapThrows, ReplyBatch, PushBatch, Answer, AllSent, Write, WriteThrows, Catch
<1>8. FaultsGrow
  BY <1>1, <1>5, FaultFacts
<1>9. /\ \A n \in Msgs : n # m => db'[n] = db[n] /\ got'[n] = got[n]
      /\ db'[m].isRecalled = db[m].isRecalled
  BY <1>1, <1>6, <1>7 DEF Written, TypeOK
<1> QED
  BY <1>3, <1>4, <1>8, <1>9 DEF Idles, r

LEMMA DeliverPlaces ==
    ASSUME Common, NEW m \in Msgs, Tracked(m), NEW v \in Variants, Delivers(<<v, m>>)
    PROVE  Places(m)' /\ (OnePath(m)' <=> OnePath(m)) /\ (OnePath(m) => Before(m)')
<1>1. UNCHANGED recallVars
  BY DEF Delivers
<1>2. \A u \in Variants : u # v => run'[<<u, m>>] = run[<<u, m>>]
  BY CallFrame, RunNames DEF Variants
<1>3. ~Idles(v, m) /\ Places(m)
  BY CallFrame DEF Tracked
<1>4. Places(m)'
  BY <1>1, <1>2, <1>3, Alone DEF Places, recallVars, Idles, Variants, Through
<1>5. OnePath(m)' <=> OnePath(m)
  BY <1>1 DEF OnePath, recallVars
<1>6. OnePath(m) => Before(m)'
  BY <1>1, <1>3, Alone DEF Before, recallVars, Through
<1> QED
  BY <1>4, <1>5, <1>6

\* A step that neither sends nor writes.
LEMMA CallMovesOn ==
    ASSUME Common, NEW m \in Msgs, Tracked(m), NEW v \in Variants, Delivers(<<v, m>>),
           UNCHANGED <<db, got>>,
           \/ /\ run'[<<v, m>>].next = run[<<v, m>>].next
              /\ run'[<<v, m>>].sent = run[<<v, m>>].sent
              /\ ~Idles(v, m)'
           \/ Idles(v, m)',
           run'[<<v, m>>].stage = "catch" => ~None({"d1"})',
           m \in early => run'[<<v, m>>].stage \in {"idle", "load", "catch"},
           Idles(v, m)' => ~Open(m) \/ ~None({"d1", "crash", "orphan", "call"})'
    PROVE  Tracked(m)'
<1>1. Places(m)' /\ (OnePath(m)' <=> OnePath(m)) /\ (OnePath(m) => Before(m)')
  BY DeliverPlaces
<1>2. FaultsGrow /\ ~Idles(v, m) /\ TypeOK /\ UNCHANGED recallVars
  BY CallFrame DEF Common, DeliveryInv, Delivers
<1>3. \A u \in Variants : u # v => run'[<<u, m>>] = run[<<u, m>>]
  BY CallFrame, RunNames DEF Variants
<1>4. Received(m)' <=> Received(m)
  BY DEF Received
<1>5. Caught(m)'
  BY <1>2, <1>3, FaultFacts, KindSets DEF Tracked, Caught
<1>6. MarkedEarly(m)'
  BY <1>2, <1>3, <1>4 DEF Tracked, MarkedEarly, recallVars
<1>7. During(m) => During(m)'
  BY <1>2, <1>3, <1>4, FaultFacts, KindSets DEF During, Idles
<1>8. After(m) => After(m)'
  BY <1>2, <1>3, <1>4, FaultFacts, KindSets DEF After, Idles
<1>9. Accounted(m)'
  <2>1. Open(m)' <=> Open(m)
    BY DEF Open
  <2>2. ASSUME None({"d1", "crash", "orphan", "call"})', Open(m) PROVE ~Idles(v, m)'
    BY <2>2
  <2> QED
    BY <1>2, <2>1, <2>2, FaultFacts, KindSets DEF Tracked, Accounted, recallVars
<1> QED
  BY <1>1, <1>5, <1>6, <1>7, <1>8, <1>9 DEF Tracked

\* One batch goes out: at most once, unless LINE's answer is lost.
LEMMA BatchTracked ==
    ASSUME Common, NEW m \in Msgs, Tracked(m), NEW v \in Variants, Delivers(<<v, m>>),
           NEW accepted \in BOOLEAN, NEW answer \in BOOLEAN,
           ReplyBatch(<<v, m>>, accepted, answer) \/ PushBatch(<<v, m>>, accepted, answer)
    PROVE  Tracked(m)'
<1> DEFINE r == <<v, m>>
           x == run[r]
           y == run'[r]
<1>1. Places(m)' /\ (OnePath(m)' <=> OnePath(m)) /\ (OnePath(m) => Before(m)')
  BY DeliverPlaces
<1>2. FaultsGrow /\ ~Idles(v, m) /\ TypeOK /\ UNCHANGED recallVars
  BY CallFrame DEF Common, DeliveryInv, Delivers
<1>3. \A u \in Variants : u # v => run'[<<u, m>>] = run[<<u, m>>]
  BY CallFrame, RunNames DEF Variants
<1>4. r \in Runs /\ Msg(r) = m
  BY DEF Runs, Msg, Variants
<1>5. Answer(r, accepted, answer) /\ db' = db
  BY DEF ReplyBatch, PushBatch
<1>6. x.stage = "send" /\ x \in RunType /\ x.next \in 1 .. Batches /\ x.sent \in Nat /\ Batches \in Nat
  BY <1>2, <1>4, <1>5, DeliveryAssumption DEF Answer, TypeOK, RunType
<1>7. /\ y.stage = "send"
      /\ \/ answer /\ y.next = x.next + 1 /\ y.sent = x.sent + 1
         \/ ~answer /\ y.next \in {x.next, x.next + 1} /\ y.sent = x.sent
  <2>1. run \in [Runs -> RunType]
    BY <1>2 DEF TypeOK, RunType
  <2>2. CASE ReplyBatch(r, accepted, answer)
    BY <1>4, <1>6, <2>1, <2>2 DEF ReplyBatch, RunType
  <2>3. CASE PushBatch(r, accepted, answer)
    BY <1>4, <1>6, <2>1, <2>3 DEF PushBatch, RunType
  <2> QED
    BY <2>2, <2>3
<1> HIDE DEF r, x, y
<1>8. None({"line", "abort"})' => answer = accepted
  BY <1>2, <1>5, FaultFacts, KindSets, KindFacts DEF Answer
<1>9. \A b \in 1 .. Batches :
        got'[m][b] = IF accepted /\ b = x.next THEN got[m][b] + 1 ELSE got[m][b]
  <2>1. got[m] \in [1 .. Batches -> Nat] /\ got \in [Msgs -> [1 .. Batches -> Nat]]
    BY <1>2 DEF TypeOK
  <2>2. got' = IF accepted THEN [got EXCEPT ![m][x.next] = @ + 1] ELSE got
    BY <1>4, <1>5 DEF Answer, x
  <2> QED
    BY <1>6, <2>1, <2>2
<1>10. Caught(m)'
  BY <1>2, <1>3, <1>7, FaultFacts, KindSets DEF Tracked, Caught, r, y
<1>11. m \notin early
  BY <1>6 DEF Tracked, MarkedEarly, r, x
<1>12. MarkedEarly(m)'
  BY <1>2, <1>11 DEF MarkedEarly, recallVars
<1>13. ASSUME OnePath(m), None({"line", "abort"})' PROVE None({"line", "abort"})
  BY <1>2, <1>13, FaultFacts, KindSets
<1>14. ASSUME OnePath(m), None({"line", "abort"})'
       PROVE  /\ \A b \in x.next .. Batches : got[m][b] = 0
              /\ x.sent = 0 => ~Received(m)
              /\ \A b \in 1 .. Batches : got[m][b] <= 1 /\ got[m][b] \in Nat
              /\ \A u \in Variants : u # v => Idles(u, m) /\ Idles(u, m)'
  <2>1. got[m] \in [1 .. Batches -> Nat]
    BY <1>2 DEF TypeOK
  <2>2. During(m) /\ After(m) /\ None({"line", "abort"})
    BY <1>13, <1>14 DEF Tracked
  <2>3. \A u \in Variants : u # v => Idles(u, m)
    BY <1>2, <1>14, Alone
  <2> QED
    BY <1>2, <1>3, <2>1, <2>2, <2>3 DEF During, After, Idles, r, x
<1>15. OnePath(m) => During(m)'
  <2> SUFFICES ASSUME OnePath(m), None({"line", "abort"})'
               PROVE  /\ \A b \in y.next .. Batches : got'[m][b] = 0
                      /\ y.sent = 0 => ~Received(m)'
    BY <1>3, <1>14 DEF During, Variants, r, y
  <2>1. /\ \A b \in x.next .. Batches : got[m][b] = 0
        /\ x.sent = 0 => ~Received(m)
    BY <1>14
  <2>2. answer = accepted
    BY <1>8
  <2>3. CASE accepted
    <3>1. y.next = x.next + 1 /\ y.sent # 0
      BY <1>6, <1>7, <2>2, <2>3
    <3>2. \A b \in y.next .. Batches : b \in x.next .. Batches /\ b \in 1 .. Batches /\ b # x.next
      BY <1>6, <3>1
    <3> QED
      BY <1>9, <2>1, <3>1, <3>2
  <2>4. CASE ~accepted
    <3>1. y.next \in {x.next, x.next + 1} /\ y.sent = x.sent
      BY <1>7, <2>2, <2>4
    <3>2. \A b \in y.next .. Batches : b \in x.next .. Batches /\ b \in 1 .. Batches
      BY <1>6, <3>1
    <3> QED
      BY <1>9, <2>1, <2>4, <3>1, <3>2 DEF Received
  <2> QED
    BY <2>3, <2>4
<1>16. OnePath(m) => After(m)'
  <2>1. ASSUME OnePath(m), None({"line", "abort"})'
        PROVE  \A b \in 1 .. Batches : got'[m][b] <= 1
    <3> SUFFICES ASSUME NEW b \in 1 .. Batches PROVE got'[m][b] <= 1
      OBVIOUS
    <3>1. CASE b = x.next
      <4>1. b \in x.next .. Batches
        BY <1>6, <3>1
      <4> QED
        BY <1>9, <1>14, <2>1, <4>1
    <3>2. CASE b # x.next
      BY <1>9, <1>14, <2>1, <3>2
    <3> QED
      BY <3>1, <3>2
  <2>2. ASSUME OnePath(m), None({"d1", "line", "abort"})' PROVE db[m].status # "failed"
    <3>1. None({"d1", "line", "abort"}) /\ After(m)
      BY <1>2, <2>2, FaultFacts, KindSets DEF Tracked
    <3> QED
      BY <1>2, <3>1 DEF After
  <2> QED
    BY <1>5, <2>1, <2>2 DEF After
<1>17. Accounted(m)'
  <2>1. (Open(m)' <=> Open(m)) /\ ~Idles(v, m)'
    BY <1>5, <1>7 DEF Open, Idles, r, y
  <2> QED
    BY <1>2, <2>1, FaultFacts, KindSets DEF Tracked, Accounted, recallVars
<1> QED
  BY <1>1, <1>10, <1>12, <1>15, <1>16, <1>17 DEF Tracked

\* The outcome is written, or something else in the catch block.
LEMMA WriteTracked ==
    ASSUME Common, NEW m \in Msgs, Tracked(m), NEW v \in Variants, Delivers(<<v, m>>),
           Write(<<v, m>>) \/ WriteThrows(<<v, m>>) \/ Catch(<<v, m>>)
    PROVE  Tracked(m)'
<1> DEFINE r == <<v, m>>
<1>1. Places(m)' /\ (OnePath(m)' <=> OnePath(m)) /\ (OnePath(m) => Before(m)')
  BY DeliverPlaces
<1>2. FaultsGrow /\ ~Idles(v, m) /\ TypeOK /\ UNCHANGED recallVars
  BY CallFrame DEF Common, DeliveryInv, Delivers
<1>3. \A u \in Variants : u # v => run'[<<u, m>>] = run[<<u, m>>]
  BY CallFrame, RunNames DEF Variants
<1>4. r \in Runs /\ Msg(r) = m /\ run \in [Runs -> RunType] /\ run[r].sent \in Nat
  BY <1>2 DEF Runs, Msg, Variants, TypeOK, RunType
<1>5. got' = got /\ db'[m].isRecalled = db[m].isRecalled
  BY CallFrame DEF Write, WriteThrows, Catch
<1>6. /\ Received(m)' <=> Received(m)
      /\ \A b \in 1 .. Batches : got'[m][b] = got[m][b]
  BY <1>5 DEF Received
<1>7. Idle.stage = "idle" /\ "catch" \in Stages
  BY DEF Idle, Stages
<1>8. \/ Idles(v, m)'
      \/ /\ run'[r].stage = "catch" /\ run'[r].next = run[r].next /\ run'[r].sent = run[r].sent
         /\ Fault("d1")
  <2>1. CASE Stops(r)
    BY <1>2, <1>4, <1>7, <2>1, StopsType DEF Idles
  <2>2. CASE To(r, "catch") /\ Fault("d1")
    BY <1>2, <1>4, <1>7, <2>2, ToType
  <2> QED
    BY <2>1, <2>2 DEF Write, WriteThrows, Catch
<1>9. Fault("d1") \/ run[r].stage = "catch" => ~None({"d1"})'
  <2>1. run[r].stage = "catch" => ~None({"d1"})
    BY DEF Tracked, Caught
  <2> QED
    BY <1>2, <2>1, FaultFacts, KindSets, KindFacts
<1>10. ~None({"d1"})' => ~None({"d1", "line", "abort"})' /\ ~None({"d1", "crash", "orphan", "call"})'
  BY DEF None
<1>11. \/ ~None({"d1"})'
       \/ /\ Idles(v, m)' /\ db'[m].status \in {"sent", "partial", "failed"}
          /\ db'[m].status = "failed" => run[r].sent = 0
  <2>1. CASE Write(r)
    <3>1. db'[m].status = Outcome(r)
      BY <1>2, <1>4, <2>1 DEF Write, Written, TypeOK
    <3>2. Outcome(r) \in {"sent", "partial", "failed"} /\ (Outcome(r) = "failed" => run[r].sent = 0)
      BY <1>4 DEF Outcome
    <3>3. Idles(v, m)'
      BY <1>2, <1>4, <1>7, <2>1, StopsType DEF Write, Idles
    <3> QED
      BY <3>1, <3>2, <3>3
  <2>2. CASE WriteThrows(r)
    BY <1>9, <2>2 DEF WriteThrows
  <2>3. CASE Catch(r)
    BY <1>9, <2>3 DEF Catch
  <2> QED
    BY <2>1, <2>2, <2>3
<1>12. Caught(m)'
  <2>1. run'[r].stage = "catch" => ~None({"d1"})'
    BY <1>8, <1>9 DEF Idles
  <2> QED
    BY <1>2, <1>3, <2>1, FaultFacts, KindSets DEF Tracked, Caught
<1>13. MarkedEarly(m)'
  <2>1. run'[r].stage \in {"idle", "catch"}
    BY <1>8 DEF Idles
  <2> QED
    BY <1>2, <1>3, <1>5, <1>6, <2>1 DEF Tracked, MarkedEarly, recallVars
<1>14. During(m) => During(m)'
  BY <1>2, <1>3, <1>5, <1>6, <1>8, FaultFacts, KindSets DEF During, Idles
<1>15. OnePath(m) => After(m)'
  <2>1. OnePath(m) /\ None({"line", "abort"})' => \A b \in 1 .. Batches : got'[m][b] <= 1
    BY <1>2, <1>6, FaultFacts, KindSets DEF Tracked, After
  <2>2. ASSUME OnePath(m), None({"d1", "line", "abort"})', db'[m].status = "failed"
        PROVE  ~Received(m)' /\ \A u \in Variants : Idles(u, m)'
    <3>1. Idles(v, m)' /\ run[r].sent = 0
      BY <1>10, <1>11, <2>2
    <3>2. None({"line", "abort"})
      BY <1>2, <2>2, FaultFacts, KindSets DEF None
    <3>3. ~Received(m)
      BY <1>2, <2>2, <3>1, <3>2 DEF Tracked, During
    <3>4. \A u \in Variants : u # v => Idles(u, m)'
      BY <1>2, <1>3, <2>2, Alone DEF Idles
    <3> QED
      BY <1>6, <3>1, <3>3, <3>4
  <2> QED
    BY <2>1, <2>2 DEF After
<1>16. Accounted(m)'
  <2>1. ASSUME None({"d1", "crash", "orphan", "call"})' PROVE ~Open(m)'
    BY <1>10, <1>11, <2>1 DEF Open
  <2> QED
    BY <1>2, <2>1, FaultFacts, KindSets DEF Tracked, Accounted, recallVars
<1> QED
  BY <1>1, <1>12, <1>13, <1>14, <1>15, <1>16 DEF Tracked

LEMMA DeliverTracked ==
    ASSUME Common, \A m \in Msgs : Tracked(m), NEW r \in Runs, Delivers(r)
    PROVE  \A m \in Msgs : Tracked(m)'
<1>1. PICK v \in Variants, m \in Msgs : r = <<v, m>>
  BY DEF Runs, Variants
<1>2. Msg(r) = m /\ TypeOK /\ FaultsGrow /\ UNCHANGED recallVars /\ Deliver(r)
  BY <1>1, CallFrame DEF Msg, Common, DeliveryInv, Delivers
<1>3. ASSUME NEW n \in Msgs, n # m PROVE Tracked(n)'
  <2>1. \A u \in Variants : run'[<<u, n>>] = run[<<u, n>>]
    BY <1>1, <1>3, CallFrame, RunNames DEF Variants
  <2>2. Same(n)
    BY <1>1, <1>2, <1>3, <2>1, CallFrame DEF Same, Through, recallVars
  <2> QED
    BY <1>2, <2>2, Frame
<1>4. Tracked(m)'
  <2>1. Tracked(m) /\ Idle.stage = "idle" /\ Delivers(<<v, m>>)
    BY <1>1 DEF Idle
  <2>2. Stages = {"idle", "load", "resolve", "claim", "swap", "send", "write", "catch"}
    BY DEF Stages
  <2>3. m \in early => db[m].isRecalled /\ run[r].stage \in {"idle", "load", "catch"}
    BY <1>1, <2>1 DEF Tracked, MarkedEarly
  <2>4. CASE Load(r)
    <3>1. CASE Stops(r) /\ ~Open(m)
      <4>1. Idles(v, m)'
        BY <1>1, <1>2, <2>1, <3>1, StopsType DEF Idles
      <4> QED
        BY <1>1, <2>1, <2>4, <3>1, <4>1, CallMovesOn DEF Load, Idles
    <3>2. CASE To(r, "resolve") /\ m \notin early
      BY <1>1, <1>2, <2>1, <2>2, <2>4, <3>2, ToType, CallMovesOn DEF Load, Idles
    <3> QED
      BY <1>2, <2>3, <2>4, <3>1, <3>2 DEF Load, Open
  <2>5. CASE Resolve(r)
    BY <1>1, <1>2, <2>1, <2>2, <2>3, <2>5, ToType, CallMovesOn DEF Resolve, Idles
  <2>6. CASE CustomerMissing(r)
    <3>1. Idles(v, m)'
      BY <1>1, <1>2, <2>1, <2>6, StopsType DEF Idles, CustomerMissing
    <3>2. ~None({"d1", "crash", "orphan", "call"})'
      BY <1>2, <2>6, FaultFacts, KindSets, KindFacts DEF CustomerMissing
    <3> QED
      BY <1>1, <2>1, <2>3, <2>6, <3>1, <3>2, CallMovesOn DEF CustomerMissing, Idles
  <2>7. CASE QueryThrows(r)
    <3>1. ~None({"d1"})'
      BY <1>2, <2>7, FaultFacts, KindSets, KindFacts DEF QueryThrows
    <3> QED
      BY <1>1, <1>2, <2>1, <2>2, <2>3, <2>7, <3>1, ToType, CallMovesOn DEF QueryThrows, Idles
  <2>8. CASE ReadToken(r) \/ SwapToken(r) \/ SwapThrows(r)
    <3>1. run \in [Runs -> RunType]
      BY <1>2 DEF TypeOK, RunType
    <3>2. /\ run'[r].next = run[r].next /\ run'[r].sent = run[r].sent
          /\ run'[r].stage \in {"send", "swap"} /\ UNCHANGED <<db, got>>
          /\ run[r].stage \in {"claim", "swap"}
      BY <2>8, <3>1 DEF ReadToken, SwapToken, SwapThrows, RunType
    <3> QED
      BY <1>1, <2>1, <2>3, <3>2, CallMovesOn DEF Idles
  <2>9. CASE \E accepted, answer \in BOOLEAN :
                ReplyBatch(r, accepted, answer) \/ PushBatch(r, accepted, answer)
    BY <1>1, <2>1, <2>9, BatchTracked
  <2>10. CASE AllSent(r)
    BY <1>1, <1>2, <2>1, <2>2, <2>3, <2>10, ToType, CallMovesOn DEF AllSent, Idles
  <2>11. CASE Write(r) \/ WriteThrows(r) \/ Catch(r)
    BY <1>1, <2>1, <2>11, WriteTracked
  <2> QED
    BY <1>2, <2>4, <2>5, <2>6, <2>7, <2>8, <2>9, <2>10, <2>11 DEF Deliver
<1> QED
  BY <1>3, <1>4

(***************************************************************************)
(* One message, and the steps of its sender.                               *)
(***************************************************************************)
LEMMA RunStart ==
    ASSUME TypeOK, NEW m \in Msgs, NEW v \in Variants,
           run' = run \/ Begin(<<v, m>>) \/ Stops(<<v, m>>)
    PROVE  /\ \A q \in Runs : q # <<v, m>> => run'[q] = run[q]
           /\ Begin(<<v, m>>) => /\ Idles(v, m) /\ ~Idles(v, m)'
                                 /\ run'[<<v, m>>].stage = "load"
                                 /\ run'[<<v, m>>].next = 1 /\ run'[<<v, m>>].sent = 0
           /\ Stops(<<v, m>>) => Idles(v, m)' /\ run'[<<v, m>>].stage = "idle"
<1>1. <<v, m>> \in Runs /\ "load" \in Stages
  BY DEF Runs, Variants, Stages
<1>2. Idle.stage = "idle" /\ Idle.next = 1 /\ Idle.sent = 0
  BY DEF Idle
<1> QED
  BY <1>1, <1>2, ToType, StopsType DEF Begin, Idles

LEMMA SenderTracked ==
    ASSUME Common, \A n \in Msgs : Tracked(n), NEW m \in Msgs,
           \/ \E buffered \in BOOLEAN : Create(m, buffered)
           \/ Sends(m) \/ AfterInsertThrows(m) \/ ScheduleRefused(m) \/ SenderDies(m)
    PROVE  \A n \in Msgs : Tracked(n)'
<1>1. TypeOK /\ RecallVarsType /\ Tracked(m)
  BY DEF Common, DeliveryInv
<1>2. faults' = faults \/ \E k \in FaultKinds : Fault(k)
  BY Kinds DEF Create, Insert, Sends, AfterInsert, Schedule, Stamp, Downgrade, Downgraded, DeliverNow,
     AfterInsertThrows, ScheduleRefused, SenderDies, deliveryVars
<1>3. FaultsGrow
  BY <1>1, <1>2, FaultFacts
<1>4. UNCHANGED <<got, taken, fired, early, recall>>
  BY DEF Create, Insert, Sends, AfterInsert, Schedule, Stamp, Downgrade, DeliverNow,
     AfterInsertThrows, ScheduleRefused, SenderDies, deliveryVars
<1>5. run' = run \/ Begin(<<"now", m>>) \/ Stops(<<"now", m>>)
  BY DEF Create, Insert, Sends, AfterInsert, Schedule, Stamp, Downgrade, DeliverNow,
     AfterInsertThrows, ScheduleRefused, SenderDies, deliveryVars
<1>6. \A q \in Runs : q # <<"now", m>> => run'[q] = run[q]
  BY <1>1, <1>5, RunStart DEF Variants
<1>7. \A n \in Msgs : n # m =>
        /\ db'[n] = db[n] /\ sender'[n] = sender[n] /\ slot'[n] = slot[n]
        /\ n \in told' <=> n \in told
  BY <1>1 DEF Create, Insert, Sends, AfterInsert, Schedule, Stamp, Downgrade, Downgraded, DeliverNow,
     AfterInsertThrows, ScheduleRefused, SenderDies, deliveryVars, SenderTo, RecallVarsType, TypeOK
<1>8. ASSUME NEW n \in Msgs, n # m PROVE Tracked(n)'
  <2>1. \A u \in Variants : run'[<<u, n>>] = run[<<u, n>>]
    BY <1>6, <1>8, RunNames DEF Variants
  <2>2. Same(n)
    BY <1>4, <1>7, <1>8, <2>1 DEF Same, Through
  <2> QED
    BY <1>1, <1>3, <2>2, Frame
<1>9. /\ run'[<<"alarm", m>>] = run[<<"alarm", m>>]
      /\ Received(m)' <=> Received(m)
      /\ \A b \in 1 .. Batches : got'[m][b] = got[m][b]
  BY <1>4, <1>6, RunNames DEF Received
<1>10. sender \in [Msgs -> {"idle", "inserted", "schedule", "stamp", "downgrade", "deliver", "done"}]
  BY <1>1 DEF RecallVarsType
<1>11. ASSUME NEW buffered \in BOOLEAN, Create(m, buffered) PROVE Tracked(m)'
  <2>1. /\ sender[m] = "idle" /\ sender'[m] \in {"inserted", "deliver"} /\ db[m] = Absent
        /\ UNCHANGED <<run, faults, slot, told>>
    BY <1>10, <1>11 DEF Create, Insert, SenderTo
  <2>2. db'[m].status \in {"buffered", "pending"} /\ ~db'[m].isSent
    <3>1. PICK s \in {"buffered", "pending"} : db' = [db EXCEPT ![m].status = s]
      BY <1>11 DEF Create, Insert
    <3>2. db'[m] = [db[m] EXCEPT !.status = s]
      BY <1>1, <3>1, RowUpdates
    <3>3. db'[m].status = s /\ db'[m].isSent = db[m].isSent
      BY <1>1, <3>2, RowUpdates
    <3> QED
      BY <2>1, <3>3 DEF Absent
  <2>3. slot[m] = "none" /\ m \notin told \cup taken /\ \A v \in Variants : Idles(v, m)
    BY <1>1, <2>1 DEF Common, Once, Tracked, Places, Variants, Through
  <2>4. m \notin early
    BY <1>1, <2>1 DEF Tracked, MarkedEarly, Absent
  <2>5. Untouched(m)' /\ ~Received(m)
    BY <1>1, <1>9, <2>1, <2>2, <2>3 DEF Tracked, Before, Untouched, OnePath, Through
  <2>6. Places(m)' /\ MarkedEarly(m)' /\ Caught(m)'
    BY <1>1, <1>4, <2>1, <2>3, <2>4, FaultFacts DEF Tracked, Places, MarkedEarly, Caught, Idles, Variants, None, Through
  <2>7. Before(m)' /\ During(m)'
    BY <2>1, <2>3, <2>5 DEF Before, During, Idles, Through
  <2>8. After(m)'
    BY <1>1, <1>9, <2>1, <2>2, <2>3 DEF Tracked, After, OnePath, Idles, None
  <2>9. Accounted(m)'
    BY <2>1, <2>3 DEF Accounted, Through
  <2> QED
    BY <2>6, <2>7, <2>8, <2>9 DEF Tracked
<1>12. ASSUME AfterInsert(m) \/ AfterInsertThrows(m) \/ ScheduleRefused(m) PROVE Tracked(m)'
  <2>1. /\ sender[m] \in {"inserted", "schedule"} /\ sender'[m] \in {"schedule", "done", "downgrade"}
        /\ UNCHANGED <<db, run, slot, told>>
        /\ sender'[m] = "done" => Fault("d1")
    BY <1>10, <1>12 DEF AfterInsert, AfterInsertThrows, ScheduleRefused, SenderTo, deliveryVars
  <2>2. Places(m)' /\ MarkedEarly(m)' /\ Caught(m)'
    BY <1>1, <1>3, <1>4, <1>9, <2>1, FaultFacts, KindSets
       DEF Tracked, Places, MarkedEarly, Caught, Idles, Through
  <2>3. OnePath(m)' => OnePath(m)
    BY <2>1 DEF OnePath
  <2>4. Untouched(m)' <=> Untouched(m)
    BY <1>9, <2>1 DEF Untouched
  <2>5. Before(m) => Before(m)'
    BY <1>1, <1>3, <1>4, <2>1, <2>4, FaultFacts, KindSets DEF Before, Through
  <2>6. (During(m) => During(m)') /\ (After(m) => After(m)')
    <3>1. During(m) => During(m)'
      BY <1>1, <1>3, <1>4, <1>9, <2>1, FaultFacts, KindSets DEF During, Idles
    <3>2. After(m) => After(m)'
      BY <1>1, <1>3, <1>4, <1>9, <2>1, FaultFacts, KindSets DEF After, Idles
    <3> QED
      BY <3>1, <3>2
  <2>7. Accounted(m)'
    <3>1. ASSUME None({"d1", "crash", "orphan", "call"})'
          PROVE  sender'[m] # "done" /\ (slot'[m] # "none" => m \in told')
      <4>1. None({"d1", "crash", "orphan", "call"})
        BY <1>1, <1>3, <3>1, FaultFacts, KindSets
      <4>2. ~Fault("d1")
        BY <1>1, <3>1, FaultFacts, KindSets, KindFacts
      <4> QED
        BY <1>1, <2>1, <4>1, <4>2 DEF Tracked, Accounted, Through
    <3> QED
      BY <2>1, <3>1 DEF Accounted, Through
  <2> QED
    BY <1>1, <2>2, <2>3, <2>5, <2>6, <2>7 DEF Tracked
<1>13. ASSUME Schedule(m) PROVE Tracked(m)'
  <2>1. /\ sender[m] = "schedule" /\ UNCHANGED <<db, run>> /\ slot'[m] = "held"
        /\ \/ m \in told' /\ sender'[m] = "stamp"
           \/ m \notin told' /\ sender'[m] = "downgrade" /\ Fault("call")
    <3>1. m \notin told
      BY <1>1, <1>13 DEF Schedule, Tracked, Places, Through
    <3> QED
      BY <1>1, <1>10, <1>13, <3>1 DEF Schedule, SenderTo, RecallVarsType
  <2>2. slot[m] = "none" /\ m \notin told \cup taken /\ (\A v \in Variants : Idles(v, m)) /\ OnePath(m)
    BY <1>1, <2>1 DEF Common, Once, Tracked, Places, Variants, OnePath, Through
  <2>3. Untouched(m)' /\ ~Received(m)
    BY <1>1, <1>9, <2>1, <2>2 DEF Tracked, Before, Untouched, Through
  <2>4. Places(m)' /\ MarkedEarly(m)' /\ Caught(m)'
    BY <1>1, <1>3, <1>4, <1>9, <2>1, <2>2, FaultFacts, KindSets
       DEF Tracked, Places, MarkedEarly, Caught, Idles, Variants, Through
  <2>5. Before(m)' /\ During(m)'
    BY <2>1, <2>2, <2>3 DEF Before, During, Idles, Through
  <2>6. After(m)'
    BY <1>1, <1>3, <1>9, <2>1, <2>2, FaultFacts, KindSets DEF Tracked, After, Idles
  <2>7. Accounted(m)'
    <3>1. Fault("call") => ~None({"d1", "crash", "orphan", "call"})'
      BY <1>1, FaultFacts, KindSets, Kinds
    <3> QED
      BY <2>1, <3>1 DEF Accounted, Through
  <2> QED
    BY <2>4, <2>5, <2>6, <2>7 DEF Tracked
<1>14. ASSUME Downgrade(m) PROVE Tracked(m)'
  <2>1. /\ sender[m] = "downgrade" /\ sender'[m] = "deliver" /\ UNCHANGED <<run, slot, told>>
        /\ db'[m].isSent = db[m].isSent /\ db'[m].isRecalled = db[m].isRecalled
        /\ db'[m].status \in {db[m].status, "pending"}
    <3>1. sender[m] = "downgrade" /\ sender'[m] = "deliver" /\ UNCHANGED <<run, slot, told>>
      BY <1>10, <1>14 DEF Downgrade, SenderTo
    <3>2. db' \in {db, [db EXCEPT ![m].status = "pending"]}
      BY <1>14 DEF Downgrade, Downgraded
    <3>3. CASE db' = db
      BY <3>1, <3>3
    <3>4. CASE db' = [db EXCEPT ![m].status = "pending"]
      <4>1. db'[m] = [db[m] EXCEPT !.status = "pending"]
        BY <1>1, <3>4, RowUpdates
      <4> QED
        BY <1>1, <3>1, <4>1, RowUpdates
    <3> QED
      BY <3>2, <3>3, <3>4
  <2>2. OnePath(m)' <=> OnePath(m)
    BY <2>1 DEF OnePath
  <2>3. Untouched(m) => Untouched(m)'
    BY <1>9, <2>1 DEF Untouched
  <2>4. Places(m)' /\ MarkedEarly(m)' /\ Caught(m)'
    BY <1>1, <1>3, <1>4, <1>9, <2>1, FaultFacts, KindSets
       DEF Tracked, Places, MarkedEarly, Caught, Idles, Through
  <2>5. Before(m) => Before(m)'
    BY <1>1, <1>3, <1>4, <2>1, <2>3, FaultFacts, KindSets DEF Before, Through
  <2>6. (During(m) => During(m)') /\ (After(m) => After(m)')
    <3>1. During(m) => During(m)'
      BY <1>1, <1>3, <1>4, <1>9, <2>1, FaultFacts, KindSets DEF During, Idles
    <3>2. After(m) => After(m)'
      BY <1>1, <1>3, <1>4, <1>9, <2>1, FaultFacts, KindSets DEF After, Idles
    <3> QED
      BY <3>1, <3>2
  <2>7. Accounted(m)'
    BY <1>1, <1>3, <2>1, FaultFacts, KindSets DEF Tracked, Accounted, Through
  <2> QED
    BY <1>1, <2>2, <2>4, <2>5, <2>6, <2>7 DEF Tracked
<1>15. ASSUME DeliverNow(m) PROVE Tracked(m)'
  <2>1. /\ sender[m] = "deliver" /\ sender'[m] = "done" /\ UNCHANGED <<db, slot, told, faults>>
        /\ Begin(<<"now", m>>)
    BY <1>10, <1>15 DEF DeliverNow, SenderTo
  <2>2. /\ ~Idles("now", m)' /\ run'[<<"now", m>>].stage = "load"
        /\ run'[<<"now", m>>].next = 1 /\ run'[<<"now", m>>].sent = 0
    BY <1>1, <1>5, <2>1, RunStart DEF Variants
  <2>3. (OnePath(m)' <=> OnePath(m)) /\ m \notin told
    BY <1>1, <2>1 DEF OnePath, Tracked, Places, Through
  <2>4. Places(m)' /\ MarkedEarly(m)' /\ Caught(m)'
    <3>1. Places(m)'
      BY <1>1, <1>4, <1>9, <2>1, <2>2, <2>3 DEF Tracked, Places, Idles, Through
    <3>2. MarkedEarly(m)' /\ Caught(m)'
      BY <1>1, <1>3, <1>4, <1>9, <2>1, <2>2, FaultFacts, KindSets
         DEF Tracked, MarkedEarly, Caught, Variants
    <3> QED
      BY <3>1, <3>2
  <2>5. ASSUME OnePath(m)
        PROVE  slot[m] = "none" /\ m \notin taken /\ Untouched(m) /\ Idles("alarm", m)
    BY <1>1, <2>1, <2>3, <2>5 DEF OnePath, Tracked, Places, Before, Through
  <2>6. OnePath(m) => Before(m)' /\ During(m)' /\ After(m)'
    <3> SUFFICES ASSUME OnePath(m) PROVE Before(m)' /\ During(m)' /\ After(m)'
      OBVIOUS
    <3>1. \A b \in 1 .. Batches : got[m][b] = 0
      <4>1. got[m] \in [1 .. Batches -> Nat]
        BY <1>1 DEF TypeOK
      <4>2. ~Received(m)
        BY <2>5 DEF Untouched
      <4>3. ASSUME NEW b \in 1 .. Batches PROVE got[m][b] = 0
        <5>1. got[m][b] \in Nat /\ ~(got[m][b] > 0)
          BY <4>1, <4>2 DEF Received
        <5> QED
          BY <5>1
      <4> QED
        BY <4>3
    <3>2. Idles("alarm", m)'
      BY <1>9, <2>5 DEF Idles
    <3>3. Before(m)'
      BY <1>4, <2>1, <2>5 DEF Before, Through
    <3>4. During(m)'
      BY <1>9, <2>2, <2>5, <3>1, <3>2 DEF During, Variants, Idles, Untouched
    <3>5. After(m)'
      BY <1>9, <2>1, <2>5, <3>1 DEF After, Untouched
    <3> QED
      BY <3>3, <3>4, <3>5
  <2>7. Accounted(m)'
    <3>1. \E v \in Variants : ~Idles(v, m)'
      BY <2>2 DEF Variants
    <3> QED
      BY <1>1, <1>3, <2>1, <3>1, FaultFacts, KindSets DEF Tracked, Accounted, Through
  <2> QED
    BY <2>3, <2>4, <2>6, <2>7 DEF Tracked
<1>16. ASSUME SenderDies(m) PROVE Tracked(m)'
  <2>1. /\ sender'[m] = "done" /\ UNCHANGED <<db, slot, told>> /\ Fault("crash") /\ Idles("now", m)'
        /\ run'[<<"now", m>>].stage = "idle"
    BY <1>1, <1>5, <1>10, <1>16, RunStart DEF SenderDies, SenderTo, Variants
  <2>2. OnePath(m)' <=> OnePath(m)
    BY <2>1 DEF OnePath
  <2>3. Places(m)' /\ MarkedEarly(m)' /\ Caught(m)'
    <3>1. Places(m)'
      BY <1>1, <1>4, <1>9, <2>1 DEF Tracked, Places, Idles, Through
    <3>2. MarkedEarly(m)' /\ Caught(m)'
      BY <1>1, <1>3, <1>4, <1>9, <2>1, FaultFacts, KindSets
         DEF Tracked, MarkedEarly, Caught, Variants
    <3> QED
      BY <3>1, <3>2
  <2>4. Before(m) => Before(m)'
    BY <1>1, <1>3, <1>4, <1>9, <2>1, FaultFacts, KindSets DEF Before, Untouched, Through
  <2>5. (During(m) => During(m)') /\ (After(m) => After(m)')
    <3>1. During(m) => During(m)'
      BY <1>1, <1>3, <1>4, <1>9, <2>1, FaultFacts, KindSets DEF During, Idles, Variants
    <3>2. After(m) => After(m)'
      BY <1>1, <1>3, <1>4, <1>9, <2>1, FaultFacts, KindSets DEF After, Idles, Variants
    <3> QED
      BY <3>1, <3>2
  <2>6. Accounted(m)'
    BY <1>1, <2>1, FaultFacts, KindSets, Kinds DEF Accounted, Through
  <2> QED
    BY <1>1, <2>2, <2>3, <2>4, <2>5, <2>6 DEF Tracked
<1>17. ASSUME Stamp(m) PROVE Tracked(m)'
  <2>1. /\ sender[m] = "stamp" /\ sender'[m] = "done" /\ UNCHANGED <<db, run, slot, told>>
    BY <1>10, <1>17 DEF Stamp, SenderTo
  <2>2. Same(m)
    BY <1>4, <2>1 DEF Same, Through
  <2> QED
    BY <1>1, <1>3, <2>2, Frame
<1>18. Tracked(m)'
  BY <1>11, <1>12, <1>13, <1>14, <1>15, <1>16, <1>17 DEF Sends
<1> QED
  BY <1>8, <1>18

(***************************************************************************)
(* One message, and the steps of its alarm.                                *)
(***************************************************************************)
LEMMA AlarmTracked ==
    ASSUME Common, \A n \in Msgs : Tracked(n), NEW m \in Msgs,
           TimePasses(m) \/ Alarm(m) \/ AlarmRejects(m) \/ AlarmDies(m)
    PROVE  \A n \in Msgs : Tracked(n)'
<1>1. TypeOK /\ RecallVarsType /\ Tracked(m)
  BY DEF Common, DeliveryInv
<1>2. faults' = faults \/ \E k \in FaultKinds : Fault(k)
  BY Kinds DEF TimePasses, Alarm, AlarmBegins, AlarmEnds, AlarmRejects, AlarmDies, deliveryVars
<1>3. FaultsGrow
  BY <1>1, <1>2, FaultFacts
<1>4. UNCHANGED <<db, got, sender, told, taken, early, recall>>
  BY DEF TimePasses, Alarm, AlarmBegins, AlarmEnds, AlarmRejects, AlarmDies, deliveryVars
<1>5. run' = run \/ Begin(<<"alarm", m>>) \/ Stops(<<"alarm", m>>)
  BY DEF TimePasses, Alarm, AlarmBegins, AlarmEnds, AlarmRejects, AlarmDies, deliveryVars
<1>6. \A q \in Runs : q # <<"alarm", m>> => run'[q] = run[q]
  BY <1>1, <1>5, RunStart DEF Variants
<1>7. \A n \in Msgs : n # m => slot'[n] = slot[n] /\ (n \in fired' <=> n \in fired)
  BY <1>1 DEF TimePasses, Alarm, AlarmBegins, AlarmEnds, AlarmRejects, AlarmDies, RecallVarsType
<1>8. ASSUME NEW n \in Msgs, n # m PROVE Tracked(n)'
  <2>1. \A u \in Variants : run'[<<u, n>>] = run[<<u, n>>]
    BY <1>6, <1>8, RunNames DEF Variants
  <2>2. Same(n)
    BY <1>4, <1>7, <1>8, <2>1 DEF Same, Through
  <2> QED
    BY <1>1, <1>3, <2>2, Frame
<1>9. /\ run'[<<"now", m>>] = run[<<"now", m>>]
      /\ Received(m)' <=> Received(m)
  BY <1>4, <1>6, RunNames DEF Received
<1>10. slot \in [Msgs -> {"none", "held", "firing", "gone", "dead"}]
  BY <1>1 DEF RecallVarsType
<1>11. (Untouched(m)' <=> Untouched(m)) /\ (Open(m)' <=> Open(m))
  BY <1>4, <1>9 DEF Untouched, Open
<1>12. ASSUME TimePasses(m) PROVE Tracked(m)'
  <2>1. Same(m)
    BY <1>4, <1>12 DEF TimePasses, Same, Through, deliveryVars
  <2> QED
    BY <1>1, <1>3, <2>1, Frame
<1>13. ASSUME AlarmEnds(m) \/ AlarmRejects(m) PROVE Tracked(m)'
  <2>1. /\ UNCHANGED <<run, fired, faults>> /\ Idles("alarm", m)
        /\ slot[m] \in {"held", "firing"} /\ slot'[m] \in {"held", "gone", "dead"}
        /\ slot[m] = "firing" => slot'[m] = "gone"
        /\ slot[m] = "held" => slot'[m] \in {"held", "dead"}
        /\ m \notin taken
    <3>1. CASE AlarmEnds(m)
      BY <1>1, <1>10, <3>1 DEF AlarmEnds, deliveryVars, Idles, Idle, Tracked, Places, Through
    <3>2. CASE AlarmRejects(m)
      BY <1>1, <1>10, <3>2 DEF AlarmRejects, deliveryVars, Tracked, Places, Through
    <3> QED
      BY <1>13, <3>1, <3>2
  <2>2. OnePath(m)' <=> OnePath(m)
    BY <1>4, <2>1 DEF OnePath
  <2>3. Places(m)' /\ MarkedEarly(m)' /\ Caught(m)'
    <3>1. Places(m)'
      BY <1>1, <1>4, <2>1 DEF Tracked, Places, Idles, Through
    <3>2. MarkedEarly(m)' /\ Caught(m)'
      BY <1>1, <1>4, <1>9, <2>1 DEF Tracked, MarkedEarly, Caught, None
    <3> QED
      BY <3>1, <3>2
  <2>4. Before(m) => Before(m)'
    BY <1>4, <1>11, <2>1 DEF Before, None, Through
  <2>5. During(m) => During(m)'
    BY <1>4, <1>9, <2>1 DEF During, Idles, None
  <2>6. After(m) => After(m)'
    BY <1>4, <1>9, <2>1 DEF After, Idles, None
  <2>7. Accounted(m)'
    BY <1>1, <1>4, <1>11, <2>1 DEF Tracked, Accounted, Idles, None, Through
  <2> QED
    BY <1>1, <2>2, <2>3, <2>4, <2>5, <2>6, <2>7 DEF Tracked
<1>14. ASSUME AlarmBegins(m) PROVE Tracked(m)'
  <2>1. /\ slot[m] = "held" /\ slot'[m] = "firing" /\ m \in fired' /\ UNCHANGED faults
        /\ Begin(<<"alarm", m>>)
    BY <1>10, <1>14 DEF AlarmBegins
  <2>2. /\ ~Idles("alarm", m)' /\ run'[<<"alarm", m>>].stage = "load"
        /\ run'[<<"alarm", m>>].next = 1 /\ run'[<<"alarm", m>>].sent = 0
    BY <1>1, <1>5, <2>1, RunStart DEF Variants
  <2>3. OnePath(m)' <=> OnePath(m)
    BY <1>4, <2>1 DEF OnePath
  <2>4. m \notin taken /\ (OnePath(m) => m \in told /\ Through(m) /\ Idles("now", m))
    BY <1>1, <2>1 DEF Tracked, Places, OnePath, Through
  <2>5. Places(m)' /\ MarkedEarly(m)' /\ Caught(m)'
    <3>1. Places(m)'
      BY <1>1, <1>4, <1>9, <2>1, <2>2, <2>4 DEF Tracked, Places, Idles, Through
    <3>2. MarkedEarly(m)' /\ Caught(m)'
      BY <1>1, <1>4, <1>9, <2>1, <2>2 DEF Tracked, MarkedEarly, Caught, Variants, None
    <3> QED
      BY <3>1, <3>2
  <2>6. OnePath(m) => Before(m)'
    BY <1>4, <2>1, <2>4 DEF Before, Through
  <2>7. ASSUME OnePath(m), None({"abort"})
        PROVE  Untouched(m) /\ \A b \in 1 .. Batches : got[m][b] = 0
    <3>1. Untouched(m)
      BY <1>1, <2>1, <2>7 DEF Tracked, Before, Through
    <3>2. got[m] \in [1 .. Batches -> Nat]
      BY <1>1 DEF TypeOK
    <3>3. ~Received(m)
      BY <3>1 DEF Untouched
    <3>4. ASSUME NEW b \in 1 .. Batches PROVE got[m][b] = 0
      <4>1. got[m][b] \in Nat /\ ~(got[m][b] > 0)
        BY <3>2, <3>3 DEF Received
      <4> QED
        BY <4>1
    <3> QED
      BY <3>1, <3>4
  <2>8. None({"line", "abort"}) \/ None({"d1", "line", "abort"}) => None({"abort"})
    BY DEF None
  <2>9. OnePath(m) => During(m)'
    BY <1>4, <1>9, <2>1, <2>2, <2>4, <2>7, <2>8 DEF During, Variants, Idles, Untouched, None
  <2>10. OnePath(m) => After(m)'
    BY <1>4, <1>9, <2>1, <2>7, <2>8 DEF After, Untouched, None
  <2>11. Accounted(m)'
    <3>1. \E v \in Variants : ~Idles(v, m)'
      BY <2>2 DEF Variants
    <3> QED
      BY <1>1, <1>4, <2>1, <3>1 DEF Tracked, Accounted, None, Through
  <2> QED
    BY <2>3, <2>5, <2>6, <2>9, <2>10, <2>11 DEF Tracked
<1>15. ASSUME AlarmDies(m) PROVE Tracked(m)'
  <2>1. /\ slot[m] = "firing" /\ slot'[m] = "held" /\ UNCHANGED fired /\ Fault("abort")
        /\ Idles("alarm", m)' /\ run'[<<"alarm", m>>].stage = "idle"
    BY <1>1, <1>5, <1>10, <1>15, RunStart DEF AlarmDies, Variants
  <2>2. /\ ~None({"abort"})' /\ ~None({"line", "abort"})' /\ ~None({"d1", "line", "abort"})'
    BY <1>1, <2>1, FaultFacts, KindSets, Kinds
  <2>3. m \notin taken /\ (OnePath(m)' => OnePath(m))
    BY <1>1, <1>4, <2>1 DEF Tracked, Places, OnePath, Through
  <2>4. Places(m)' /\ MarkedEarly(m)' /\ Caught(m)'
    <3>1. Places(m)'
      BY <1>1, <1>4, <1>9, <2>1, <2>3 DEF Tracked, Places, Idles, Through
    <3>2. MarkedEarly(m)' /\ Caught(m)'
      BY <1>1, <1>3, <1>4, <1>9, <2>1, FaultFacts, KindSets DEF Tracked, MarkedEarly, Caught, Variants
    <3> QED
      BY <3>1, <3>2
  <2>5. Before(m) => Before(m)'
    BY <1>4, <1>11, <2>2 DEF Before, Through
  <2>6. During(m)' /\ After(m)'
    BY <2>2 DEF During, After
  <2>7. Accounted(m)'
    BY <1>1, <1>3, <1>4, <2>1, FaultFacts, KindSets DEF Tracked, Accounted, Through
  <2> QED
    BY <1>1, <2>3, <2>4, <2>5, <2>6, <2>7 DEF Tracked
<1>16. Tracked(m)'
  BY <1>12, <1>13, <1>14, <1>15 DEF Alarm
<1> QED
  BY <1>8, <1>16

(***************************************************************************)
(* One message, and the steps of the recalls.                              *)
(***************************************************************************)
LEMMA RecallToFacts ==
    ASSUME RecallVarsType, NEW q \in Recalls, NEW s, NEW a, RecallTo(q, s, a)
    PROVE  \A p \in Recalls : /\ recall'[p].msg = recall[p].msg
                              /\ recall'[p].stage = IF p = q THEN s ELSE recall[p].stage
<1> DEFINE N == [recall[q] EXCEPT !.stage = s, !.answer = a]
<1>1. recall' = [recall EXCEPT ![q] = N] /\ recall[q] \in [msg : SUBSET Msgs, stage : RecallStages, answer : Answers]
  BY DEF RecallTo, RecallVarsType
<1>2. N.msg = recall[q].msg /\ N.stage = s
  BY <1>1
<1> HIDE DEF N
<1> QED
  BY <1>1, <1>2 DEF RecallVarsType

\* A mark on the row, by either route, whatever becomes of the rest of the request.
LEMMA MarkTracked ==
    ASSUME Common, \A n \in Msgs : Tracked(n), NEW q \in Recalls, NEW m \in recall[q].msg,
           NEW s, NEW a, RecallTo(q, s, a),
           db' = [db EXCEPT ![m].isRecalled = TRUE],
           faults' = faults \/ Fault("d1"),
           UNCHANGED <<run, got, sender, slot, told, taken, fired>>,
           early' = early \/ (early' = early \cup {m} /\ Unread(m))
    PROVE  \A n \in Msgs : Tracked(n)'
<1>1. TypeOK /\ RecallVarsType /\ FaultsGrow /\ m \in Msgs
  <2>1. TypeOK /\ RecallVarsType
    BY DEF Common, DeliveryInv
  <2>2. m \in Msgs
    BY <2>1 DEF RecallVarsType
  <2> QED
    BY <2>1, <2>2, FaultFacts, Kinds
<1>2. \A p \in Recalls : /\ recall'[p].msg = recall[p].msg
                         /\ recall'[p].stage = IF p = q THEN s ELSE recall[p].stage
  BY <1>1, RecallToFacts
<1>3. ASSUME NEW n \in Msgs, n # m PROVE Tracked(n)'
  <2>1. n \notin recall[q].msg
    BY <1>3 DEF Common, OneEach
  <2>2. db'[n] = db[n]
    BY <1>1, <1>3 DEF TypeOK
  <2>3. Same(n)
    BY <1>2, <1>3, <2>1, <2>2 DEF Same, Through
  <2> QED
    BY <1>1, <2>3, Frame
<1>4. /\ db'[m].isRecalled /\ db'[m].isSent = db[m].isSent /\ db'[m].status = db[m].status
  BY <1>1, RowUpdates
<1>5. Tracked(m) /\ (Received(m)' <=> Received(m)) /\ (OnePath(m)' <=> OnePath(m))
  BY <1>1 DEF Received, OnePath
<1>6. Places(m)'
  BY <1>2, <1>5 DEF Tracked, Places, Idles, Through
<1>7. Caught(m)'
  BY <1>1, <1>5, FaultFacts, KindSets DEF Tracked, Caught
<1>8. MarkedEarly(m)'
  <2>1. Unread(m) => /\ ~Received(m)
                     /\ \A v \in Variants : run[<<v, m>>].stage \in {"idle", "load", "catch"}
    BY DEF Unread, Received, Variants
  <2> QED
    BY <1>4, <1>5, <2>1 DEF Tracked, MarkedEarly
<1>9. Before(m) => Before(m)'
  BY <1>1, <1>4, <1>5, FaultFacts, KindSets DEF Before, Untouched, Through
<1>10. During(m) => During(m)'
  BY <1>1, <1>5, FaultFacts, KindSets DEF During, Idles
<1>11. After(m) => After(m)'
  BY <1>1, <1>4, <1>5, FaultFacts, KindSets DEF After, Idles
<1>12. Accounted(m)'
  BY <1>1, <1>4, <1>5, FaultFacts, KindSets DEF Tracked, Accounted, Open, Through
<1> QED
  BY <1>3, <1>5, <1>6, <1>7, <1>8, <1>9, <1>10, <1>11, <1>12 DEF Tracked

\* A cancel that the scheduler accepts.
LEMMA CancelTracked ==
    ASSUME Common, \A n \in Msgs : Tracked(n), NEW q \in Recalls, RecallCancels(q)
    PROVE  \A n \in Msgs : Tracked(n)'
<1>1. TypeOK /\ RecallVarsType
  BY DEF Common, DeliveryInv
<1>2. PICK m \in recall[q].msg : /\ slot[m] = "held" /\ slot' = [slot EXCEPT ![m] = "gone"]
                                 /\ taken' = taken \cup {m}
  BY DEF RecallCancels, Cancellable
<1>3. m \in Msgs /\ FaultsGrow
  <2>1. m \in Msgs
    BY <1>1 DEF RecallVarsType
  <2> QED
    BY <1>1, <2>1, FaultFacts, Kinds DEF RecallCancels
<1>4. UNCHANGED <<db, run, got, sender, told, fired, early>>
  BY DEF RecallCancels
<1>5. PICK s \in {"mark", "done"}, a \in Answers :
        RecallTo(q, s, a) /\ (s = "mark" \/ Fault("call"))
  BY DEF RecallCancels, Answers
<1>6. \A p \in Recalls : /\ recall'[p].msg = recall[p].msg
                         /\ recall'[p].stage = IF p = q THEN s ELSE recall[p].stage
  BY <1>1, <1>5, RecallToFacts
<1>7. ASSUME NEW n \in Msgs, n # m PROVE Tracked(n)'
  <2>1. n \notin recall[q].msg
    BY <1>7 DEF Common, OneEach
  <2>2. slot'[n] = slot[n] /\ (n \in taken' <=> n \in taken)
    BY <1>1, <1>2, <1>7 DEF RecallVarsType
  <2>3. Same(n)
    BY <1>4, <1>6, <1>7, <2>1, <2>2 DEF Same, Through
  <2> QED
    BY <1>1, <1>3, <2>3, Frame
<1>8. slot[m] = "held" /\ slot'[m] = "gone" /\ Tracked(m)
  BY <1>1, <1>2, <1>3 DEF RecallVarsType
<1>9. /\ Received(m)' <=> Received(m)
      /\ OnePath(m)' <=> OnePath(m)
      /\ Untouched(m)' <=> Untouched(m)
  BY <1>4, <1>8 DEF Received, OnePath, Untouched
<1>10. Places(m)'
  BY <1>4, <1>6, <1>8 DEF Tracked, Places, Idles, Through
<1>11. Caught(m)' /\ MarkedEarly(m)'
  BY <1>1, <1>3, <1>4, <1>8, <1>9, FaultFacts, KindSets DEF Tracked, Caught, MarkedEarly
<1>12. Before(m) => Before(m)'
  BY <1>1, <1>3, <1>4, <1>8, <1>9, FaultFacts, KindSets DEF Before, Through
<1>13. During(m) => During(m)'
  BY <1>1, <1>3, <1>4, <1>9, FaultFacts, KindSets DEF During, Idles
<1>14. After(m) => After(m)'
  BY <1>1, <1>3, <1>4, <1>9, FaultFacts, KindSets DEF After, Idles
<1>15. Accounted(m)'
  <2>1. Fault("call") => ~None({"d1", "crash", "orphan", "call"})'
    BY <1>1, FaultFacts, KindSets, Kinds
  <2>2. s = "mark" => m \in recall'[q].msg /\ recall'[q].stage = "mark"
    BY <1>2, <1>6
  <2>3. None({"d1", "crash", "orphan", "call"})' => m \in told'
    BY <1>1, <1>3, <1>4, <1>8, FaultFacts, KindSets DEF Tracked, Accounted, Through
  <2> QED
    BY <1>5, <2>1, <2>2, <2>3 DEF Accounted, Through
<1> QED
  BY <1>7, <1>8, <1>9, <1>10, <1>11, <1>12, <1>13, <1>14, <1>15 DEF Tracked

LEMMA RecallTracked ==
    ASSUME Common, \A n \in Msgs : Tracked(n), NEW q \in Recalls,
           \/ RecallStep(q) \/ RecallMarkThrows(q) \/ RecallDies(q)
           \/ \E m \in Msgs : RecallReads(q, m) \/ OlderReads(q, m)
    PROVE  \A n \in Msgs : Tracked(n)'
<1>1. TypeOK /\ RecallVarsType
  BY DEF Common, DeliveryInv
<1>2. \A s, a : RecallTo(q, s, a) =>
        \A p \in Recalls : /\ recall'[p].msg = recall[p].msg
                           /\ recall'[p].stage = IF p = q THEN s ELSE recall[p].stage
  BY <1>1, RecallToFacts
<1>3. ASSUME FaultsGrow, \A n \in Msgs : Same(n) PROVE \A n \in Msgs : Tracked(n)'
  BY <1>1, <1>3, Frame
<1>4. CASE RecallCancels(q)
  BY <1>4, CancelTracked
<1>5. CASE RecallRefused(q)
  <2>1. FaultsGrow
    BY <1>1, <1>5, FaultFacts, Kinds DEF RecallRefused
  <2>2. recall[q].stage = "cancel" /\ RecallTo(q, "done", "late")
        /\ UNCHANGED <<db, got, run, sender, slot, told, taken, fired, early>>
    BY <1>5 DEF RecallRefused
  <2>3. \A n \in Msgs : Same(n)
    BY <1>2, <2>2 DEF Same, Through
  <2> QED
    BY <1>3, <2>1, <2>3
<1>6. CASE RecallMarks(q)
  <2>1. PICK m \in recall[q].msg :
            \/ MarkRecalled(m) /\ RecallTo(q, "done", "ok")
            \/ db[m].isRecalled /\ RecallTo(q, "done", "error") /\ UNCHANGED deliveryVars
    BY <1>6 DEF RecallMarks
  <2>2. UNCHANGED <<sender, slot, told, taken, fired, early>>
    BY <1>6 DEF RecallMarks
  <2>3. CASE MarkRecalled(m) /\ RecallTo(q, "done", "ok")
    BY <2>2, <2>3, MarkTracked DEF MarkRecalled
  <2>4. CASE db[m].isRecalled /\ RecallTo(q, "done", "error") /\ UNCHANGED deliveryVars
    <3>1. UNCHANGED <<db, got, run, faults>> /\ FaultsGrow
      BY <1>1, <2>4, FaultFacts DEF deliveryVars
    <3>2. \A n \in recall[q].msg : n = m
      BY DEF Common, OneEach
    <3>3. ASSUME NEW n \in Msgs PROVE Same(n)
      <4>1. Open(n) => n \notin recall[q].msg
        BY <2>4, <3>2 DEF Open
      <4> QED
        BY <1>2, <2>2, <2>4, <3>1, <4>1 DEF Same, Through
    <3> QED
      BY <1>3, <3>1, <3>3
  <2> QED
    BY <2>1, <2>3, <2>4
<1>7. CASE OlderMarks(q)
  <2>1. PICK m \in recall[q].msg : /\ db' = [db EXCEPT ![m].isRecalled = TRUE]
                                   /\ early' = IF Unread(m) THEN early \cup {m} ELSE early
    BY <1>7 DEF OlderMarks
  <2> QED
    BY <1>7, <2>1, MarkTracked DEF OlderMarks
<1>8. CASE RecallMarkThrows(q)
  <2>1. PICK m \in recall[q].msg : db' \in {db, [db EXCEPT ![m].isRecalled = TRUE]}
    BY <1>8 DEF RecallMarkThrows
  <2>2. /\ Fault("d1") /\ RecallTo(q, "done", "error")
        /\ UNCHANGED <<got, run, sender, slot, told, taken, fired, early>>
    BY <1>8 DEF RecallMarkThrows
  <2>3. CASE db' = db
    <3>1. FaultsGrow /\ ~None({"d1", "crash", "orphan", "call"})'
      BY <1>1, <2>2, FaultFacts, Kinds, KindSets
    <3>2. \A n \in Msgs : Same(n)
      BY <1>2, <2>2, <2>3, <3>1 DEF Same, Through
    <3> QED
      BY <1>3, <3>1, <3>2
  <2>4. CASE db' = [db EXCEPT ![m].isRecalled = TRUE]
    BY <2>2, <2>4, MarkTracked
  <2> QED
    BY <2>1, <2>3, <2>4
<1>9. CASE RecallDies(q)
  <2>1. FaultsGrow /\ ~None({"d1", "crash", "orphan", "call"})'
    BY <1>1, <1>9, FaultFacts, Kinds, KindSets DEF RecallDies
  <2>2. \A n \in Msgs : Same(n)
    BY <1>2, <1>9, <2>1 DEF RecallDies, Same, Through
  <2> QED
    BY <1>3, <2>1, <2>2
<1>10. ASSUME NEW m \in Msgs, RecallReads(q, m) \/ OlderReads(q, m)
       PROVE  \A n \in Msgs : Tracked(n)'
  <2>1. PICK s, a : recall' = [recall EXCEPT ![q] = [msg |-> {m}, stage |-> s, answer |-> a]]
    BY <1>10 DEF RecallReads, OlderReads
  <2>2. \A p \in Recalls : recall'[p] = IF p = q THEN [msg |-> {m}, stage |-> s, answer |-> a]
                                        ELSE recall[p]
    BY <1>1, <2>1 DEF RecallVarsType
  <2>3. /\ UNCHANGED <<db, got, run, faults, sender, slot, told, taken, fired, early>>
        /\ recall[q].stage = "idle" /\ db[m].status # "none"
    BY <1>10 DEF RecallReads, OlderReads, deliveryVars
  <2>4. sender[m] # "idle"
    BY <2>3 DEF Tracked, Places, Absent
  <2>5. ASSUME NEW n \in Msgs PROVE Same(n)
    BY <2>2, <2>3, <2>4 DEF Same, Through
  <2>6. FaultsGrow
    BY <1>1, <2>3, FaultFacts
  <2> QED
    BY <1>3, <2>5, <2>6
<1> QED
  BY <1>4, <1>5, <1>6, <1>7, <1>8, <1>9, <1>10 DEF RecallStep

(***************************************************************************)
(* The inductive invariant, and what follows from it.                      *)
(***************************************************************************)
LEMMA RecallInitially == Init => RecallInv
<1> SUFFICES ASSUME Init, NEW m \in Msgs PROVE Tracked(m)
  BY CommonInitially DEF RecallInv
<1>1. /\ \A v \in Variants : run[<<v, m>>] = Idle
      /\ db[m] = Absent /\ \A b \in 1 .. Batches : got[m][b] = 0
  BY RunNames DEF Init, InitDelivery, Variants
<1>2. \A v \in Variants : Idles(v, m) /\ run[<<v, m>>].stage = "idle"
  BY <1>1 DEF Idles, Idle
<1>3. ~Received(m) /\ Untouched(m) /\ ~Open(m)
  BY <1>1 DEF Received, Untouched, Open, Absent
<1>4. Places(m)
  BY <1>1, <1>2 DEF Init, Places, Variants, Through
<1>5. Caught(m) /\ MarkedEarly(m)
  BY <1>2 DEF Init, Caught, MarkedEarly
<1>6. Before(m) /\ During(m) /\ Accounted(m)
  BY <1>2, <1>3 DEF Init, Before, During, Accounted, Through
<1>7. After(m)
  <2>1. \A b \in 1 .. Batches : got[m][b] <= 1
    BY <1>1
  <2>2. db[m].status # "failed"
    BY <1>1 DEF Absent
  <2> QED
    BY <2>1, <2>2 DEF After
<1> QED
  BY <1>4, <1>5, <1>6, <1>7 DEF Tracked

LEMMA RecallNext == RecallInv /\ [Next]_vars => RecallInv'
<1> SUFFICES ASSUME RecallInv, [Next]_vars PROVE \A m \in Msgs : Tracked(m)'
  BY CommonStep DEF RecallInv
<1>1. Common /\ \A m \in Msgs : Tracked(m)
  BY DEF RecallInv
<1>2. ASSUME UNCHANGED <<db, run, got, faults>>, UNCHANGED recallVars PROVE \A m \in Msgs : Tracked(m)'
  <2>1. TypeOK /\ FaultsGrow
    BY <1>1, <1>2, FaultFacts DEF Common, DeliveryInv
  <2>2. \A m \in Msgs : Same(m)
    BY <1>2 DEF Same, Through, recallVars
  <2> QED
    BY <1>1, <2>1, <2>2, Frame
<1>3. ASSUME NEW t \in Tokens, StoreToken(t), UNCHANGED recallVars PROVE \A m \in Msgs : Tracked(m)'
  BY <1>2, <1>3 DEF StoreToken
<1>4. CASE UNCHANGED vars
  BY <1>2, <1>4 DEF vars, deliveryVars
<1> QED
  BY <1>1, <1>3, <1>4, DeliverTracked, SenderTracked, AlarmTracked, RecallTracked DEF Next, Trouble

LEMMA RecallAlways == Spec => []RecallInv
  BY RecallInitially, RecallNext, PTL DEF Spec

\* The whole of the recall window keeps its variables well-formed.
THEOREM RecallTypeCorrect == Spec => []RecallTypeOK
<1>1. RecallInv => RecallTypeOK
  BY CommonType DEF RecallInv
<1> QED
  BY <1>1, RecallAlways, PTL

\* With senders, alarms and recalls as the code calls deliver(), tokens are single
\* and recorded outcomes true as they are with any callers.
THEOREM RecallKeepsDelivery == Spec => [](TokenClaimedOnce /\ SentIsTrue)
<1>1. RecallInv => TokenClaimedOnce /\ SentIsTrue
  BY DEF RecallInv, Common, DeliveryInv, TokensKept, TokenClaimedOnce
<1> QED
  BY <1>1, RecallAlways, PTL

\* A cancel that the scheduler accepts keeps the message from the customer for ever,
\* and so does a mark that is there before deliver() reads the row: whatever number
\* of recalls, retries and batches there is.
THEOREM CancelsAreFinal == Spec => []CancelIsFinal
<1>1. RecallInv => CancelIsFinal
  BY DEF RecallInv, Tracked, Before, MarkedEarly, Untouched, CancelIsFinal
<1> QED
  BY <1>1, RecallAlways, PTL

\* No customer gets a batch twice while there is one path and no lost answer.
THEOREM NoBatchTwice == Spec => []AtMostOnce
<1>1. RecallInv => AtMostOnce
  BY DEF RecallInv, Tracked, After, AtMostOnce
<1> QED
  BY <1>1, RecallAlways, PTL

\* `failed` is recorded only when the customer got nothing.
THEOREM FailuresAreTrue == Spec => []FailedIsTrue
<1>1. RecallInv => FailedIsTrue
  BY DEF RecallInv, Tracked, After, FailedIsTrue
<1> QED
  BY <1>1, RecallAlways, PTL

\* A message that waits is held, or is on the scheduler's list of dead letters.
THEOREM NoneForgotten == Spec => []NeverForgotten
<1>1. RecallInv => NeverForgotten
  <2> SUFFICES ASSUME RecallInv, None({"d1", "crash", "orphan", "call"}),
                      NEW m \in Msgs, Open(m), ~AtWork(m)
               PROVE  slot[m] \in {"held", "dead"}
    BY DEF NeverForgotten
  <2>1. Accounted(m)
    BY DEF RecallInv, Tracked
  <2>2. Through(m) /\ \A v \in Variants : run[<<v, m>>] = Idle
    BY DEF AtWork, Variants, Through
  <2>3. \A v \in Variants : Idles(v, m)
    BY <2>2 DEF Idles, Idle
  <2>4. \A q \in Recalls : m \in recall[q].msg => recall[q].stage # "mark"
    BY DEF AtWork
  <2> QED
    BY <2>1, <2>2, <2>3, <2>4 DEF Accounted, Through
<1> QED
  BY <1>1, RecallAlways, PTL

(***************************************************************************)
(* The recall window of RecallWindow is implemented.                       *)
(***************************************************************************)
HeldNow == {m \in Msgs : slot[m] \in {"held", "firing"}}

DeadNow == {m \in Msgs : slot[m] = "dead"}

LEMMA WindowStutters ==
    ASSUME UNCHANGED <<slot, told, taken, fired>>
    PROVE  UNCHANGED Window!vars
  BY DEF Window!vars

\* The entry of one message changes.
LEMMA OneSlot ==
    ASSUME RecallVarsType, NEW m \in Msgs, NEW s, slot' = [slot EXCEPT ![m] = s]
    PROVE  /\ s \in {"held", "firing"} => HeldNow' = HeldNow \cup {m}
           /\ s \notin {"held", "firing"} => HeldNow' = HeldNow \ {m}
           /\ s = "dead" => DeadNow' = DeadNow \cup {m}
           /\ s # "dead" => DeadNow' = DeadNow \ {m}
<1>1. \A n \in Msgs : slot'[n] = IF n = m THEN s ELSE slot[n]
  BY DEF RecallVarsType
<1> QED
  BY <1>1 DEF HeldNow, DeadNow

LEMMA SlotGoes ==
    ASSUME RecallVarsType, NEW m \in Msgs, slot' = [slot EXCEPT ![m] = "gone"]
    PROVE  HeldNow' = HeldNow \ {m} /\ DeadNow' = DeadNow \ {m}
<1>1. \A n \in Msgs : slot'[n] = IF n = m THEN "gone" ELSE slot[n]
  BY DEF RecallVarsType
<1> QED
  BY <1>1 DEF HeldNow, DeadNow

LEMMA ScheduleHolds ==
    ASSUME RecallInv, NEW m \in Msgs, Schedule(m)
    PROVE  Window!Next
<1>1. RecallVarsType /\ Tracked(m) /\ sender[m] = "schedule"
  BY DEF RecallInv, Common, Schedule
<1>2. slot[m] = "none" /\ m \notin taken \cup fired
  BY <1>1 DEF RecallInv, Common, Once, Tracked, Places
<1>3. HeldNow' = HeldNow \cup {m} /\ DeadNow' = DeadNow
  BY <1>1, <1>2, OneSlot DEF Schedule, DeadNow
<1>4. Window!Hold(m)
  BY <1>2, <1>3 DEF Schedule, Window!Hold, HeldNow, DeadNow
<1> QED
  BY <1>4 DEF Window!Next

LEMMA AlarmImplements ==
    ASSUME RecallInv, NEW m \in Msgs,
           TimePasses(m) \/ Alarm(m) \/ AlarmRejects(m) \/ AlarmDies(m)
    PROVE  [Window!Next]_(Window!vars)
<1>1. RecallVarsType /\ Places(m)
  BY DEF RecallInv, Common, Tracked
<1>2. CASE TimePasses(m)
  BY <1>2, WindowStutters DEF TimePasses
<1>3. CASE AlarmBegins(m)
  <2>1. m \in HeldNow /\ HeldNow' = HeldNow /\ DeadNow' = DeadNow
    BY <1>1, <1>3, OneSlot DEF AlarmBegins, HeldNow, DeadNow
  <2>2. Window!Try(m)
    BY <1>3, <2>1 DEF AlarmBegins, Window!Try, HeldNow, DeadNow
  <2> QED
    BY <2>2 DEF Window!Next
<1>4. CASE AlarmEnds(m)
  <2>1. /\ m \in HeldNow /\ HeldNow' = HeldNow \ {m} /\ DeadNow' = DeadNow \cup {} /\ m \in fired
    <3>1. slot[m] = "firing" /\ slot' = [slot EXCEPT ![m] = "gone"]
      BY <1>4 DEF AlarmEnds
    <3>2. HeldNow' = HeldNow \ {m} /\ DeadNow' = DeadNow \ {m}
      BY <1>1, <3>1, SlotGoes
    <3>3. m \in HeldNow /\ m \notin DeadNow /\ m \in fired
      BY <1>1, <3>1 DEF HeldNow, DeadNow, Places
    <3> QED
      BY <3>2, <3>3
  <2>2. Window!Leave({m}, {})
    BY <1>4, <2>1 DEF AlarmEnds, Window!Leave, HeldNow, DeadNow
  <2> QED
    BY <2>2 DEF Window!Next
<1>5. CASE AlarmRejects(m)
  <2>1. CASE slot' = slot
    BY <1>5, <2>1, WindowStutters DEF AlarmRejects
  <2>2. CASE slot' = [slot EXCEPT ![m] = "dead"]
    <3>1. /\ m \in HeldNow /\ HeldNow' = HeldNow \ {m} /\ DeadNow' = DeadNow \cup {m} /\ m \notin taken
      BY <1>1, <1>5, <2>2, OneSlot DEF AlarmRejects, HeldNow, DeadNow, Places
    <3>2. Window!Leave({m}, {m})
      BY <1>5, <3>1 DEF AlarmRejects, Window!Leave, HeldNow, DeadNow
    <3> QED
      BY <3>2 DEF Window!Next
  <2> QED
    BY <1>5, <2>1, <2>2 DEF AlarmRejects
<1>6. CASE AlarmDies(m)
  <2>1. HeldNow' = HeldNow /\ DeadNow' = DeadNow
    BY <1>1, <1>6, OneSlot DEF AlarmDies, HeldNow, DeadNow
  <2> QED
    BY <1>6, <2>1 DEF AlarmDies, Window!vars, HeldNow, DeadNow
<1> QED
  BY <1>2, <1>3, <1>4, <1>5, <1>6 DEF Alarm

LEMMA CancelImplements ==
    ASSUME RecallInv, NEW q \in Recalls, RecallCancels(q)
    PROVE  Window!Next
<1>1. RecallVarsType
  BY DEF RecallInv, Common
<1>2. PICK m \in recall[q].msg : /\ slot[m] = "held" /\ slot' = [slot EXCEPT ![m] = "gone"]
                                 /\ taken' = taken \cup {m}
  BY DEF RecallCancels, Cancellable
<1>3. m \in Msgs
  BY <1>1 DEF RecallVarsType
<1>4. m \in HeldNow /\ HeldNow' = HeldNow \ {m} /\ DeadNow' = DeadNow
  <2>1. HeldNow' = HeldNow \ {m} /\ DeadNow' = DeadNow \ {m}
    BY <1>1, <1>2, <1>3, SlotGoes
  <2>2. m \in HeldNow /\ m \notin DeadNow
    BY <1>2, <1>3 DEF HeldNow, DeadNow
  <2> QED
    BY <2>1, <2>2
<1>5. Window!Cancel(m)
  BY <1>2, <1>4 DEF RecallCancels, Window!Cancel, HeldNow, DeadNow
<1> QED
  BY <1>3, <1>5 DEF Window!Next

\* Sender, alarm and recalls together implement RecallWindow: what the scheduler's
\* one entry of a message does is what the window promises, for any number of
\* messages and recalls and any faults.
THEOREM RecallUsesWindow == Spec => UsesWindow
<1>1. Init => Window!Init
  BY DEF Init, Window!Init
<1>2. RecallInv /\ [Next]_vars => [Window!Next]_(Window!vars)
  <2> SUFFICES ASSUME RecallInv, [Next]_vars PROVE [Window!Next]_(Window!vars)
    OBVIOUS
  <2>1. ASSUME UNCHANGED recallVars PROVE [Window!Next]_(Window!vars)
    BY <2>1, WindowStutters DEF recallVars
  <2>2. ASSUME NEW m \in Msgs, NEW buffered \in BOOLEAN, Create(m, buffered)
        PROVE  [Window!Next]_(Window!vars)
    BY <2>2, WindowStutters DEF Create
  <2>3. ASSUME NEW m \in Msgs,
               \/ AfterInsert(m) \/ Stamp(m) \/ Downgrade(m) \/ DeliverNow(m)
               \/ AfterInsertThrows(m) \/ ScheduleRefused(m) \/ SenderDies(m)
        PROVE  [Window!Next]_(Window!vars)
    BY <2>3, WindowStutters DEF AfterInsert, Stamp, Downgrade, DeliverNow, AfterInsertThrows,
       ScheduleRefused, SenderDies
  <2>4. ASSUME NEW m \in Msgs, Schedule(m) PROVE [Window!Next]_(Window!vars)
    BY <2>4, ScheduleHolds
  <2>5. ASSUME NEW m \in Msgs, TimePasses(m) \/ Alarm(m) \/ AlarmRejects(m) \/ AlarmDies(m)
        PROVE  [Window!Next]_(Window!vars)
    BY <2>5, AlarmImplements
  <2>6. ASSUME NEW r \in Runs, Delivers(r) PROVE [Window!Next]_(Window!vars)
    BY <2>1, <2>6 DEF Delivers
  <2>7. ASSUME NEW q \in Recalls, RecallCancels(q) PROVE [Window!Next]_(Window!vars)
    BY <2>7, CancelImplements
  <2>8. ASSUME NEW q \in Recalls,
               \/ RecallRefused(q) \/ RecallMarks(q) \/ OlderMarks(q)
               \/ RecallMarkThrows(q) \/ RecallDies(q)
               \/ \E m \in Msgs : RecallReads(q, m) \/ OlderReads(q, m)
        PROVE  [Window!Next]_(Window!vars)
    BY <2>8, WindowStutters DEF RecallRefused, RecallMarks, OlderMarks, RecallMarkThrows, RecallDies,
       RecallReads, OlderReads
  <2>9. CASE UNCHANGED vars
    BY <2>1, <2>9 DEF vars
  <2> QED
    BY <2>1, <2>2, <2>3, <2>4, <2>5, <2>6, <2>7, <2>8, <2>9 DEF Next, Sends, RecallStep, Trouble
<1> QED
  BY <1>1, <1>2, RecallAlways, PTL DEF Spec, UsesWindow, Window!Spec
=============================================================================
