------------------------ MODULE MessageDeliveryProofs ------------------------
(***************************************************************************)
(* Overlapping deliver() calls, for any number of messages, tokens and     *)
(* batches and any faults: reply tokens stay single, outcomes stay true.   *)
(*                                                                         *)
(* The lemmas about Deliver(r) say nothing of who started the call, so     *)
(* that they hold of every module that composes deliver() with callers.    *)
(***************************************************************************)
EXTENDS MessageDelivery, TLAPS

\* What a call has counted: no more than it has tried, and when it has counted all
\* it tried, all that has arrived.
Counts ==
    \A r \in Runs :
        /\ run[r].sent < run[r].next
        /\ run[r].sent > 0 => \E b \in 1 .. Batches : got[Msg(r)][b] > 0
        /\ run[r].sent = run[r].next - 1 => \A b \in 1 .. run[r].next - 1 : got[Msg(r)][b] > 0

\* The token that a conversation holds has been issued and is nobody's.
TokensKept ==
    \A t \in Tokens : /\ claims[t] <= 1
                      /\ t = reply => t \in issued /\ claims[t] = 0
                      /\ t \notin issued => claims[t] = 0

LEMMA MsgFacts == \A r \in Runs : Msg(r) \in Msgs
  BY DEF Runs, Msg

LEMMA IdleType ==
    /\ Idle \in [stage : Stages, token : Tokens \cup {NoToken},
                 next : 1 .. Batches + 1, sent : 0 .. Batches]
    /\ Idle.next = 1 /\ Idle.sent = 0
  BY DeliveryAssumption DEF Idle, Stages

\* What a fault does to the count of faults.
LEMMA FaultType ==
    ASSUME TypeOK, NEW k \in FaultKinds, Fault(k)
    PROVE  faults' \in [FaultKinds -> Nat] /\ \A j \in FaultKinds : faults'[j] <= Budget[j]
<1>1. faults[k] < Budget[k] /\ faults' = [faults EXCEPT ![k] = @ + 1]
  BY DEF Fault
<1>2. faults[k] \in Nat /\ Budget[k] \in Nat
  BY DeliveryAssumption DEF TypeOK
<1> QED
  BY <1>1, <1>2 DEF TypeOK

LEMMA KindFacts == {"d1", "line", "orphan"} \subseteq FaultKinds
  BY DEF FaultKinds

RowType == [status : {"none", "buffered", "pending", "sent", "partial", "failed"},
            isSent : BOOLEAN, isRecalled : BOOLEAN]

RunType == [stage : Stages, token : Tokens \cup {NoToken},
            next : 1 .. Batches + 1, sent : 0 .. Batches]

\* A call whose counters do not move, or that stops, keeps Counts.
LEMMA CountsStay ==
    ASSUME TypeOK, Counts, NEW r \in Runs, got' = got,
           run' \in [Runs -> RunType],
           \A q \in Runs : q # r => run'[q] = run[q],
           run'[r] = Idle \/ (run'[r].next = run[r].next /\ run'[r].sent = run[r].sent)
    PROVE  Counts'
<1> SUFFICES ASSUME NEW q \in Runs
             PROVE  /\ run'[q].sent < run'[q].next
                    /\ run'[q].sent > 0 => \E b \in 1 .. Batches : got'[Msg(q)][b] > 0
                    /\ run'[q].sent = run'[q].next - 1
                        => \A b \in 1 .. run'[q].next - 1 : got'[Msg(q)][b] > 0
  BY DEF Counts, Msg
<1>1. CASE run'[q] = Idle
  BY <1>1, IdleType
<1>2. CASE run'[q].next = run[q].next /\ run'[q].sent = run[q].sent
  BY <1>2 DEF Counts
<1> QED
  BY <1>1, <1>2

\* A call that moves on to another stage, and one that stops.
LEMMA ToType ==
    ASSUME TypeOK, NEW r \in Runs, NEW s \in Stages, To(r, s)
    PROVE  /\ run' \in [Runs -> RunType] /\ \A q \in Runs : q # r => run'[q] = run[q]
           /\ run'[r].next = run[r].next /\ run'[r].sent = run[r].sent /\ run'[r].stage = s
<1> DEFINE N == [run[r] EXCEPT !.stage = s]
<1>1. run \in [Runs -> RunType] /\ run' = [run EXCEPT ![r] = N]
  BY DEF To, TypeOK, RunType
<1>2. N \in RunType /\ N.next = run[r].next /\ N.sent = run[r].sent /\ N.stage = s
  BY <1>1 DEF RunType
<1> HIDE DEF N
<1> QED
  BY <1>1, <1>2

LEMMA StopsType ==
    ASSUME TypeOK, NEW r \in Runs, Stops(r)
    PROVE  /\ run' \in [Runs -> RunType] /\ \A q \in Runs : q # r => run'[q] = run[q]
           /\ run'[r] = Idle
  BY IdleType DEF Stops, TypeOK, RunType

(***************************************************************************)
(* One step of deliver().                                                  *)
(***************************************************************************)
\* What has arrived has arrived.
LEMMA ArrivedStays ==
    ASSUME TypeOK, NEW r \in Runs, NEW accepted \in BOOLEAN, NEW answer \in BOOLEAN,
           Answer(r, accepted, answer)
    PROVE  \A m \in Msgs, b \in 1 .. Batches :
                got[m][b] > 0 => got'[m][b] > 0
<1>1. Msg(r) \in Msgs /\ got \in [Msgs -> [1 .. Batches -> Nat]]
  BY MsgFacts DEF TypeOK
<1>2. got' = got \/ got' = [got EXCEPT ![Msg(r)][run[r].next] = @ + 1]
  BY DEF Answer
<1> SUFFICES ASSUME NEW m \in Msgs, NEW b \in 1 .. Batches, got[m][b] > 0
             PROVE  got'[m][b] > 0
  OBVIOUS
<1>3. got[m][b] \in Nat /\ got[m] \in [1 .. Batches -> Nat]
  BY <1>1
<1>4. CASE got' = got
  BY <1>4
<1>5. CASE got' = [got EXCEPT ![Msg(r)][run[r].next] = @ + 1]
  <2>1. got'[m][b] = got[m][b] \/ got'[m][b] = got[m][b] + 1
    BY <1>1, <1>3, <1>5
  <2> QED
    BY <1>3, <2>1
<1> QED
  BY <1>2, <1>4, <1>5

LEMMA SendKeepsType ==
    ASSUME TypeOK, Counts, NEW r \in Runs, NEW accepted \in BOOLEAN, NEW answer \in BOOLEAN,
           ReplyBatch(r, accepted, answer) \/ PushBatch(r, accepted, answer)
    PROVE  TypeOK' /\ Counts'
<1>1. Msg(r) \in Msgs /\ run[r] \in RunType /\ Batches \in Nat /\ run[r].next \in 1 .. Batches
  BY MsgFacts, DeliveryAssumption DEF TypeOK, RunType, ReplyBatch, PushBatch, Answer
<1>2. run[r].sent \in Nat /\ run[r].next \in Nat /\ run[r].sent < run[r].next
  BY <1>1 DEF Counts, RunType
<1>3. Answer(r, accepted, answer)
  BY DEF ReplyBatch, PushBatch
<1>4. faults' \in [FaultKinds -> Nat] /\ \A j \in FaultKinds : faults'[j] <= Budget[j]
  BY <1>3, FaultType, KindFacts DEF Answer, TypeOK
<1>5. got' \in [Msgs -> [1 .. Batches -> Nat]]
  <2>1. got' = got \/ got' = [got EXCEPT ![Msg(r)][run[r].next] = @ + 1]
    BY <1>3 DEF Answer
  <2>2. got[Msg(r)] \in [1 .. Batches -> Nat] /\ got \in [Msgs -> [1 .. Batches -> Nat]]
    BY <1>1 DEF TypeOK
  <2>3. [got[Msg(r)] EXCEPT ![run[r].next] = @ + 1] \in [1 .. Batches -> Nat]
    BY <1>1, <2>2
  <2> QED
    BY <2>1, <2>2, <2>3
<1>6. \A m \in Msgs, b \in 1 .. Batches : got[m][b] > 0 => got'[m][b] > 0
  BY <1>1, <1>3, ArrivedStays
<1>7. answer => got'[Msg(r)][run[r].next] > 0
  <2>1. answer => accepted
    BY <1>3 DEF Answer
  <2>2. accepted => got' = [got EXCEPT ![Msg(r)][run[r].next] = @ + 1]
    BY <1>3 DEF Answer
  <2>3. got[Msg(r)] \in [1 .. Batches -> Nat] /\ got \in [Msgs -> [1 .. Batches -> Nat]]
    BY <1>1 DEF TypeOK
  <2> QED
    BY <1>1, <2>1, <2>2, <2>3
<1>8. /\ run' \in [Runs -> RunType]
      /\ \A q \in Runs : q # r => run'[q] = run[q]
      /\ \/ answer /\ run'[r].next = run[r].next + 1 /\ run'[r].sent = run[r].sent + 1
         \/ ~answer /\ run'[r].next \in {run[r].next, run[r].next + 1} /\ run'[r].sent = run[r].sent
  <2> DEFINE N == [run[r] EXCEPT !.token = NoToken, !.next = IF answer THEN @ + 1 ELSE @,
                                 !.sent = IF answer THEN @ + 1 ELSE @]
             P == [run[r] EXCEPT !.next = @ + 1, !.sent = IF answer THEN @ + 1 ELSE @]
  <2>1. run \in [Runs -> RunType]
    BY DEF TypeOK, RunType
  <2>2. /\ run[r].next + 1 \in 1 .. Batches + 1
        /\ run[r].sent \in 0 .. Batches /\ run[r].sent + 1 \in 0 .. Batches
    BY <1>1, <1>2
  <2>3. N \in RunType /\ P \in RunType
    BY <1>1, <2>2 DEF RunType
  <2>4. /\ N.next = (IF answer THEN run[r].next + 1 ELSE run[r].next) /\ P.next = run[r].next + 1
        /\ N.sent = (IF answer THEN run[r].sent + 1 ELSE run[r].sent)
        /\ P.sent = (IF answer THEN run[r].sent + 1 ELSE run[r].sent)
    BY <1>1 DEF RunType
  <2>5. run' = [run EXCEPT ![r] = N] \/ run' = [run EXCEPT ![r] = P]
    BY <2>1 DEF ReplyBatch, PushBatch
  <2> HIDE DEF N, P
  <2> QED
    BY <2>1, <2>3, <2>4, <2>5
<1>9. TypeOK'
  BY <1>4, <1>5, <1>8 DEF TypeOK, RunType, ReplyBatch, PushBatch
<1>10. ASSUME NEW q \in Runs
       PROVE  /\ run'[q].sent < run'[q].next
              /\ run'[q].sent > 0 => \E b \in 1 .. Batches : got'[Msg(q)][b] > 0
              /\ run'[q].sent = run'[q].next - 1
                  => \A b \in 1 .. run'[q].next - 1 : got'[Msg(q)][b] > 0
  <2>1. Msg(q) \in Msgs /\ run[q].next - 1 \in 0 .. Batches
    BY MsgFacts, DeliveryAssumption DEF TypeOK
  <2>2. CASE q # r
    <3>1. run'[q] = run[q] /\ run[q].next - 1 <= Batches
      BY <1>8, <2>1, <2>2
    <3>2. \A b \in 1 .. run[q].next - 1 : b \in 1 .. Batches
      BY <1>1, <2>1
    <3> QED
      BY <1>6, <2>1, <3>1, <3>2 DEF Counts
  <2>3. CASE q = r /\ answer
    <3>1. \A b \in 1 .. run[r].next : b \in 1 .. run[r].next - 1 \/ b = run[r].next
      BY <1>2
    <3>2. /\ run'[q].next = run[q].next + 1 /\ run'[q].sent = run[q].sent + 1
          /\ run[q].next \in 1 .. Batches
      BY <1>1, <1>8, <2>3
    <3>3. got'[Msg(q)][run[q].next] > 0
      BY <1>7, <2>3
    <3>4. \A b \in 1 .. run[q].next - 1 : b \in 1 .. Batches
      BY <1>1, <1>2, <2>3
    <3>5. run[q].sent = run[q].next - 1 => \A b \in 1 .. run[q].next - 1 : got'[Msg(q)][b] > 0
      BY <1>6, <2>1, <3>4 DEF Counts
    <3> QED
      BY <1>2, <2>3, <3>1, <3>2, <3>3, <3>5
  <2>4. CASE q = r /\ ~answer
    <3>1. \A b \in 1 .. run[q].next - 1 : b \in 1 .. Batches
      BY <1>1, <1>2, <2>4
    <3> QED
      BY <1>1, <1>2, <1>6, <1>8, <2>1, <2>4, <3>1 DEF Counts
  <2> QED
    BY <2>2, <2>3, <2>4
<1>11. Counts'
  BY <1>10 DEF Counts, Msg
<1> QED
  BY <1>9, <1>11

LEMMA DeliverKeepsType ==
    ASSUME TypeOK, Counts, NEW r \in Runs, Deliver(r)
    PROVE  TypeOK' /\ Counts'
<1>1. Msg(r) \in Msgs /\ run[r] \in RunType /\ Idle \in RunType
  BY MsgFacts, IdleType DEF TypeOK, RunType
<1>2. \A s \in Stages : To(r, s) =>
        /\ run' \in [Runs -> RunType] /\ \A q \in Runs : q # r => run'[q] = run[q]
        /\ run'[r].next = run[r].next /\ run'[r].sent = run[r].sent
  BY ToType
<1>3. Stops(r) =>
        /\ run' \in [Runs -> RunType] /\ \A q \in Runs : q # r => run'[q] = run[q]
        /\ run'[r] = Idle
  BY StopsType
<1>4. Stages = {"idle", "load", "resolve", "claim", "swap", "send", "write", "catch"}
  BY DEF Stages
<1>5. CASE Load(r)
  BY <1>2, <1>3, <1>4, <1>5, CountsStay DEF Load, TypeOK, RunType
<1>6. CASE Resolve(r)
  BY <1>2, <1>4, <1>6, CountsStay DEF Resolve, TypeOK, RunType
<1>7. CASE CustomerMissing(r)
  BY <1>3, <1>7, CountsStay, FaultType, KindFacts DEF CustomerMissing, TypeOK, RunType
<1>8. CASE QueryThrows(r)
  BY <1>2, <1>4, <1>8, CountsStay, FaultType, KindFacts DEF QueryThrows, TypeOK, RunType
<1>9. CASE ReadToken(r)
  <2>1. /\ run' \in [Runs -> RunType] /\ \A q \in Runs : q # r => run'[q] = run[q]
        /\ run'[r].next = run[r].next /\ run'[r].sent = run[r].sent
    <3>1. PICK t \in {NoToken, reply} :
              run' = [run EXCEPT ![r].token = t, ![r].stage = IF t = NoToken THEN "send" ELSE "swap"]
      BY <1>9 DEF ReadToken
    <3> DEFINE N == [run[r] EXCEPT !.token = t, !.stage = IF t = NoToken THEN "send" ELSE "swap"]
    <3>2. run \in [Runs -> RunType] /\ run' = [run EXCEPT ![r] = N]
      BY <3>1 DEF TypeOK, RunType
    <3>3. N \in RunType /\ N.next = run[r].next /\ N.sent = run[r].sent
      BY <1>1, <1>4 DEF RunType, TypeOK
    <3> HIDE DEF N
    <3> QED
      BY <3>2, <3>3
  <2> QED
    BY <1>9, <2>1, CountsStay DEF ReadToken, TypeOK, RunType
<1>10. CASE SwapToken(r)
  <2>1. /\ run' \in [Runs -> RunType] /\ \A q \in Runs : q # r => run'[q] = run[q]
        /\ run'[r].next = run[r].next /\ run'[r].sent = run[r].sent
    BY <1>1, <1>4, <1>10 DEF SwapToken, TypeOK, RunType
  <2>2. claims' \in [Tokens -> Nat] /\ reply' \in Tokens \cup {NoToken}
    <3>1. claims' = claims \/ claims' = [claims EXCEPT ![run[r].token] = @ + 1]
      BY <1>10 DEF SwapToken
    <3>2. claims \in [Tokens -> Nat]
      BY DEF TypeOK
    <3>3. claims' \in [Tokens -> Nat]
      BY <3>1, <3>2
    <3> QED
      BY <1>10, <3>3 DEF SwapToken, TypeOK
  <2> QED
    BY <1>10, <2>1, <2>2, CountsStay DEF SwapToken, TypeOK, RunType
<1>11. CASE SwapThrows(r)
  <2>1. /\ run' \in [Runs -> RunType] /\ \A q \in Runs : q # r => run'[q] = run[q]
        /\ run'[r].next = run[r].next /\ run'[r].sent = run[r].sent
    BY <1>1, <1>4, <1>11 DEF SwapThrows, TypeOK, RunType
  <2>2. reply' \in Tokens \cup {NoToken}
    BY <1>11 DEF SwapThrows, TypeOK
  <2> QED
    BY <1>11, <2>1, <2>2, CountsStay, FaultType, KindFacts DEF SwapThrows, TypeOK, RunType
<1>12. CASE \E accepted, answer \in BOOLEAN :
              ReplyBatch(r, accepted, answer) \/ PushBatch(r, accepted, answer)
  BY <1>12, SendKeepsType
<1>13. CASE AllSent(r)
  BY <1>2, <1>4, <1>13, CountsStay DEF AllSent, TypeOK, RunType
<1>14. Written(r) \in [Msgs -> RowType]
  <2>1. Outcome(r) \in {"sent", "partial", "failed"} /\ (run[r].sent > 0) \in BOOLEAN
    BY DEF Outcome
  <2> DEFINE N == [db[Msg(r)] EXCEPT !.status = Outcome(r), !.isSent = run[r].sent > 0]
  <2>2. Written(r) = [db EXCEPT ![Msg(r)] = N]
    BY <1>1 DEF Written, TypeOK
  <2>3. N \in RowType
    <3>1. db[Msg(r)] \in RowType
      BY <1>1 DEF TypeOK, RowType
    <3> HIDE DEF Msg, Outcome
    <3> QED
      BY <2>1, <3>1 DEF RowType
  <2> HIDE DEF N
  <2> QED
    BY <2>2, <2>3 DEF TypeOK, RowType
<1>15. CASE Write(r)
  BY <1>3, <1>14, <1>15, CountsStay DEF Write, TypeOK, RunType, RowType
<1>16. CASE WriteThrows(r)
  <2>1. faults' \in [FaultKinds -> Nat] /\ \A j \in FaultKinds : faults'[j] <= Budget[j]
    BY <1>16, FaultType, KindFacts DEF WriteThrows, TypeOK
  <2>2. db' \in [Msgs -> RowType]
    BY <1>1, <1>14, <1>16 DEF WriteThrows, TypeOK, RowType
  <2> QED
    BY <1>2, <1>4, <1>16, <2>1, <2>2, CountsStay DEF WriteThrows, TypeOK, RunType, RowType
<1>17. CASE Catch(r)
  <2>1. faults' \in [FaultKinds -> Nat] /\ \A j \in FaultKinds : faults'[j] <= Budget[j]
    BY <1>17, FaultType, KindFacts DEF Catch, TypeOK
  <2>2. db' \in [Msgs -> RowType]
    <3> DEFINE N == [db[Msg(r)] EXCEPT !.status = "failed"]
    <3>1. db' \in {db, [db EXCEPT ![Msg(r)] = N]} /\ db \in [Msgs -> RowType]
      BY <1>17 DEF Catch, TypeOK, RowType
    <3>2. N \in RowType
      BY <1>1, <3>1 DEF RowType
    <3> HIDE DEF N
    <3> QED
      BY <3>1, <3>2
  <2> QED
    BY <1>3, <1>17, <2>1, <2>2, CountsStay DEF Catch, TypeOK, RunType, RowType
<1> QED
  BY <1>5, <1>6, <1>7, <1>8, <1>9, <1>10, <1>11, <1>12, <1>13, <1>15, <1>16, <1>17 DEF Deliver

\* A token leaves the conversation when it is handed out.
LEMMA DeliverKeepsTokens ==
    ASSUME TypeOK, TokensKept, NEW r \in Runs, Deliver(r)
    PROVE  TokensKept'
<1>1. NoToken \notin Tokens /\ run[r].token \in Tokens \cup {NoToken}
  BY DeliveryAssumption DEF TypeOK
<1>2. CASE SwapToken(r)
  <2>1. CASE reply = run[r].token
    <3>1. reply' = NoToken /\ issued' = issued
      BY <1>2, <2>1 DEF SwapToken
    <3>2. \A t \in Tokens : claims'[t] = IF t = reply THEN claims[t] + 1 ELSE claims[t]
      BY <1>2, <2>1 DEF SwapToken, TypeOK
    <3> QED
      BY <1>1, <3>1, <3>2 DEF TokensKept, TypeOK
  <2>2. CASE reply # run[r].token
    BY <1>2, <2>2 DEF SwapToken, TokensKept
  <2> QED
    BY <2>1, <2>2
<1>3. CASE SwapThrows(r)
  BY <1>1, <1>3 DEF SwapThrows, TokensKept
<1>4. CASE UNCHANGED <<reply, issued, claims>>
  BY <1>4 DEF TokensKept
<1> QED
  BY <1>2, <1>3, <1>4 DEF Deliver, Load, Resolve, CustomerMissing, QueryThrows, ReadToken,
     ReplyBatch, PushBatch, AllSent, Write, WriteThrows, Catch

\* The outcome that is written is true of what arrived.
LEMMA DeliverKeepsOutcomes ==
    ASSUME TypeOK, Counts, SentIsTrue, NEW r \in Runs, Deliver(r)
    PROVE  SentIsTrue'
<1>1. Msg(r) \in Msgs /\ Batches \in Nat \ {0}
  BY MsgFacts, DeliveryAssumption
<1>2. \A m \in Msgs, b \in 1 .. Batches : got[m][b] > 0 => got'[m][b] > 0
  <2>1. CASE \E accepted, answer \in BOOLEAN : Answer(r, accepted, answer)
    BY <1>1, <2>1 DEF Answer, TypeOK
  <2>2. CASE got' = got
    BY <2>2
  <2> QED
    BY <2>1, <2>2 DEF Deliver, Load, Resolve, CustomerMissing, QueryThrows, ReadToken, SwapToken,
       SwapThrows, ReplyBatch, PushBatch, AllSent, Write, WriteThrows, Catch
<1>3. CASE db' = db
  BY <1>2, <1>3 DEF SentIsTrue
<1>4. CASE db' = Written(r) /\ got' = got
  <2>1. /\ run[r].sent = Batches => \A b \in 1 .. Batches : got[Msg(r)][b] > 0
        /\ run[r].sent > 0 => \E b \in 1 .. Batches : got[Msg(r)][b] > 0
    <3>1. /\ run[r].next \in 1 .. Batches + 1 /\ run[r].sent \in 0 .. Batches
          /\ run[r].sent < run[r].next
      BY DEF TypeOK, Counts
    <3>2. run[r].sent = Batches => run[r].next - 1 = Batches
      BY <1>1, <3>1
    <3> QED
      BY <3>2 DEF Counts
  <2>2. \A m \in Msgs : m # Msg(r) => db'[m] = db[m]
    BY <1>4 DEF Written, TypeOK
  <2>3. db'[Msg(r)].status = Outcome(r) /\ db'[Msg(r)].isSent = (run[r].sent > 0)
    BY <1>1, <1>4 DEF Written, TypeOK
  <2>4. Outcome(r) = "sent" => run[r].sent = Batches
    BY DEF Outcome
  <2>5. Outcome(r) = "partial" => run[r].sent > 0
    BY DEF Outcome
  <2>6. ASSUME NEW m \in Msgs
        PROVE  /\ db'[m].status = "sent" => \A b \in 1 .. Batches : got'[m][b] > 0
               /\ db'[m].status = "partial" \/ db'[m].isSent
                    => \E b \in 1 .. Batches : got'[m][b] > 0
    BY <1>4, <2>1, <2>2, <2>3, <2>4, <2>5 DEF SentIsTrue
  <2> QED
    BY <2>6 DEF SentIsTrue
<1>5. CASE db' = [db EXCEPT ![Msg(r)].status = "failed"] /\ got' = got
  <2>1. \A m \in Msgs : db'[m].isSent = db[m].isSent /\ db'[m].status \in {db[m].status, "failed"}
    BY <1>1, <1>5 DEF TypeOK
  <2> QED
    BY <1>5, <2>1 DEF SentIsTrue
<1> QED
  BY <1>3, <1>4, <1>5 DEF Deliver, Load, Resolve, CustomerMissing, QueryThrows, ReadToken, SwapToken,
     SwapThrows, ReplyBatch, PushBatch, AllSent, Write, WriteThrows, Catch

(***************************************************************************)
(* The whole module.                                                       *)
(***************************************************************************)
DeliveryInv == TypeOK /\ Counts /\ TokensKept /\ SentIsTrue

LEMMA DeliveryInitially == InitDelivery => DeliveryInv
<1> SUFFICES ASSUME InitDelivery PROVE DeliveryInv
  OBVIOUS
<1>1. TypeOK
  BY IdleType, DeliveryAssumption DEF InitDelivery, TypeOK, Absent
<1>2. Counts
  BY IdleType DEF InitDelivery, Counts
<1>3. TokensKept
  BY DeliveryAssumption DEF InitDelivery, TokensKept
<1>4. SentIsTrue
  BY DEF InitDelivery, SentIsTrue, Absent
<1> QED
  BY <1>1, <1>2, <1>3, <1>4 DEF DeliveryInv

LEMMA DeliveryStep == DeliveryInv /\ [NextDelivery]_deliveryVars => DeliveryInv'
<1> SUFFICES ASSUME DeliveryInv, [NextDelivery]_deliveryVars PROVE DeliveryInv'
  OBVIOUS
<1> USE DEF DeliveryInv
<1>1. ASSUME NEW r \in Runs, Deliver(r) PROVE DeliveryInv'
  BY <1>1, DeliverKeepsType, DeliverKeepsTokens, DeliverKeepsOutcomes
<1>2. ASSUME NEW r \in Runs, Start(r) PROVE DeliveryInv'
  <2>1. /\ run' \in [Runs -> RunType] /\ \A q \in Runs : q # r => run'[q] = run[q]
        /\ run'[r].next = run[r].next /\ run'[r].sent = run[r].sent
    BY <1>2 DEF Start, Begin, To, TypeOK, RunType, Stages
  <2>2. TypeOK' /\ Counts'
    BY <1>2, <2>1, CountsStay DEF Start, TypeOK, RunType
  <2> QED
    BY <1>2, <2>2 DEF Start, TokensKept, SentIsTrue
<1>3. ASSUME NEW t \in Tokens, StoreToken(t) PROVE DeliveryInv'
  <2>1. TypeOK' /\ Counts' /\ SentIsTrue'
    BY <1>3 DEF StoreToken, TypeOK, Counts, Msg, SentIsTrue
  <2>2. TokensKept'
    BY <1>3 DEF StoreToken, TokensKept
  <2> QED
    BY <2>1, <2>2
<1>4. ASSUME NEW m \in Msgs, Insert(m, "pending") PROVE DeliveryInv'
  <2>1. \A n \in Msgs : n # m => db'[n] = db[n]
    BY <1>4 DEF Insert, TypeOK
  <2>2. db'[m].status = "pending" /\ ~db'[m].isSent
    BY <1>4 DEF Insert, TypeOK, Absent
  <2>3. TypeOK' /\ Counts' /\ TokensKept'
    BY <1>4 DEF Insert, TypeOK, Counts, Msg, TokensKept
  <2>4. SentIsTrue'
    BY <1>4, <2>1, <2>2 DEF Insert, SentIsTrue
  <2> QED
    BY <2>3, <2>4
<1>5. ASSUME NEW m \in Msgs, MarkRecalled(m) PROVE DeliveryInv'
  <2>1. \A n \in Msgs : db'[n].status = db[n].status /\ db'[n].isSent = db[n].isSent
    BY <1>5 DEF MarkRecalled, TypeOK
  <2>2. TypeOK'
    BY <1>5 DEF MarkRecalled, TypeOK
  <2>3. Counts' /\ TokensKept'
    BY <1>5 DEF MarkRecalled, Counts, Msg, TokensKept
  <2>4. SentIsTrue'
    BY <1>5, <2>1 DEF MarkRecalled, SentIsTrue
  <2> QED
    BY <2>2, <2>3, <2>4
<1>6. CASE UNCHANGED deliveryVars
  BY <1>6 DEF deliveryVars, TypeOK, Counts, Msg, TokensKept, SentIsTrue
<1> QED
  BY <1>1, <1>2, <1>3, <1>4, <1>5, <1>6 DEF NextDelivery

\* deliver() keeps its rows, tokens and counters well-formed under any callers.
THEOREM DeliveryTypeCorrect == DeliverySpec => []TypeOK
<1>1. DeliveryInv => TypeOK
  BY DEF DeliveryInv
<1> QED
  BY <1>1, DeliveryInitially, DeliveryStep, PTL DEF DeliverySpec

\* A reply token works once, and claimLineReplyToken hands it to one delivery at
\* most: for any number of messages, tokens and overlapping calls and any faults.
THEOREM TokensAreSingle == DeliverySpec => []TokenClaimedOnce
<1>1. DeliveryInv => TokenClaimedOnce
  BY DEF DeliveryInv, TokensKept, TokenClaimedOnce
<1> QED
  BY <1>1, DeliveryInitially, DeliveryStep, PTL DEF DeliverySpec

\* What the row says has arrived has arrived, for any number of batches: the last
\* of the overlapping calls writes the outcome, and each counts only its own.
THEOREM OutcomesAreTrue == DeliverySpec => []SentIsTrue
<1>1. DeliveryInv => SentIsTrue
  BY DEF DeliveryInv
<1> QED
  BY <1>1, DeliveryInitially, DeliveryStep, PTL DEF DeliverySpec
=============================================================================
