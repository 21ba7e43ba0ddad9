--------------------------- MODULE MessageDelivery ---------------------------
(***************************************************************************)
(* MessageDeliveryService.deliver(): the one routine that sends a stored   *)
(* agent message to its LINE customer.  It reads the row in D1, skips a    *)
(* message that is sent or recalled, claims the conversation's single-use  *)
(* reply token, sends the content in batches and writes the outcome back.  *)
(*                                                                         *)
(* It is called for a message by the request that created it ("now") and   *)
(* by the scheduler's alarm ("alarm"), and nothing excludes the two: every *)
(* await is a step here, between which the other call, an inbound message  *)
(* or a recall may act.  All messages belong to one conversation.          *)
(***************************************************************************)
EXTENDS Naturals, FiniteSets

CONSTANTS
    Msgs,     \* the outgoing messages of the conversation
    Tokens,   \* the reply tokens of the inbound messages
    NoToken,  \* lineReplyToken is NULL
    Batches,  \* how many calls of the LINE API carry one message
    MaxCopies,\* bound: no new call is started for a message copied so often
    Budget,   \* bound: how many faults of each kind may happen
    MaxKinds  \* bound: how many kinds of faults may happen together

FaultKinds == {"d1", "line", "orphan", "call", "refusal", "crash", "abort"}

ASSUME DeliveryAssumption ==
    /\ NoToken \notin Tokens
    /\ Batches \in Nat \ {0} /\ MaxCopies \in Nat /\ MaxKinds \in Nat
    /\ Budget \in [FaultKinds -> Nat]

VARIABLES
    db,      \* the row of each message in D1
    reply,   \* conversations.lineReplyToken
    issued,  \* tokens stored so far
    claims,  \* how many deliveries each token was handed to
    run,     \* the running calls of deliver()
    got,     \* copies of each batch that LINE has accepted
    faults   \* how many faults of each kind have happened

deliveryVars == <<db, reply, issued, claims, run, got, faults>>

Runs == {"now", "alarm"} \X Msgs

Msg(r) == r[2]

Absent == [status |-> "none", isSent |-> FALSE, isRecalled |-> FALSE]

Idle == [stage |-> "idle", token |-> NoToken, next |-> 1, sent |-> 0]

Fault(kind) ==
    /\ faults[kind] < Budget[kind]
    /\ Cardinality({k \in FaultKinds \ {kind} : faults[k] > 0}) < MaxKinds
    /\ faults' = [faults EXCEPT ![kind] = @ + 1]

InitDelivery ==
    /\ db = [m \in Msgs |-> Absent]
    /\ reply = NoToken /\ issued = {}
    /\ claims = [t \in Tokens |-> 0]
    /\ run = [r \in Runs |-> Idle]
    /\ got = [m \in Msgs |-> [b \in 1 .. Batches |-> 0]]
    /\ faults = [k \in FaultKinds |-> 0]

(***************************************************************************)
(* deliver().                                                              *)
(***************************************************************************)
To(r, stage) == run' = [run EXCEPT ![r].stage = stage]

Stops(r) == run' = [run EXCEPT ![r] = Idle]

Begin(r) == run[r] = Idle /\ To(r, "load")

\* The idempotency guard, on the row as it is now.
Load(r) ==
    /\ run[r].stage = "load"
    /\ IF db[Msg(r)].isRecalled \/ db[Msg(r)].isSent THEN Stops(r) ELSE To(r, "resolve")
    /\ UNCHANGED <<db, reply, issued, claims, got, faults>>

\* The conversation and its customer; then the LINE messages, which may be none
\* when no attachment can be sent.
Resolve(r) ==
    /\ run[r].stage = "resolve"
    /\ \E stage \in {"claim", "write"} : To(r, stage)
    /\ UNCHANGED <<db, reply, issued, claims, got, faults>>

\* No customer: deliver() returns and leaves the row alone.
CustomerMissing(r) ==
    /\ run[r].stage = "resolve"
    /\ Fault("orphan")
    /\ Stops(r)
    /\ UNCHANGED <<db, reply, issued, claims, got>>

\* One of the two queries throws.
QueryThrows(r) ==
    /\ run[r].stage \in {"load", "resolve"}
    /\ Fault("d1")
    /\ To(r, "catch")
    /\ UNCHANGED <<db, reply, issued, claims, got>>

\* claimLineReplyToken: read the token; an old one is not used.
ReadToken(r) ==
    /\ run[r].stage = "claim"
    /\ \E t \in {NoToken, reply} :
         run' = [run EXCEPT ![r].token = t,
                            ![r].stage = IF t = NoToken THEN "send" ELSE "swap"]
    /\ UNCHANGED <<db, reply, issued, claims, got, faults>>

\* A variant of SwapToken with a mistake: the update does not compare.
SwapTokenBlind(r) ==
    /\ run[r].stage = "swap"
    /\ reply' = NoToken
    /\ claims' = [claims EXCEPT ![run[r].token] = @ + 1]
    /\ To(r, "send")
    /\ UNCHANGED <<db, issued, got, faults>>

\* claimLineReplyToken: clear the token if it is still the one that was read.
SwapToken(r) ==
    /\ run[r].stage = "swap"
    /\ LET won == reply = run[r].token
       IN /\ reply' = IF won THEN NoToken ELSE reply
          /\ claims' = IF won THEN [claims EXCEPT ![run[r].token] = @ + 1] ELSE claims
          /\ run' = [run EXCEPT ![r].stage = "send",
                                ![r].token = IF won THEN @ ELSE NoToken]
    /\ UNCHANGED <<db, issued, got, faults>>

\* The update throws, applied or not: deliver() goes on without a token.
SwapThrows(r) ==
    /\ run[r].stage = "swap"
    /\ Fault("d1")
    /\ reply' \in {reply, IF reply = run[r].token THEN NoToken ELSE reply}
    /\ run' = [run EXCEPT ![r].stage = "send", ![r].token = NoToken]
    /\ UNCHANGED <<db, issued, claims, got>>

\* One batch goes out.  The answer is FALSE for a refusal, and also when the
\* connection fails after LINE has accepted the batch.
Answer(r, accepted, answer) ==
    /\ run[r].stage = "send" /\ run[r].next <= Batches
    /\ \/ answer = accepted /\ faults' = faults
       \/ accepted /\ ~answer /\ Fault("line")
    /\ got' = IF accepted THEN [got EXCEPT ![Msg(r)][run[r].next] = @ + 1] ELSE got

\* A variant of ReplyBatch with a mistake: the successful reply is not counted.
ReplyBatchUncounted(r, accepted, answer) ==
    /\ run[r].token # NoToken
    /\ Answer(r, accepted, answer)
    /\ run' = [run EXCEPT ![r].token = NoToken,
                          ![r].next = IF answer THEN @ + 1 ELSE @]
    /\ UNCHANGED <<db, reply, issued, claims>>

\* The first batch with the reply token; refused, it is pushed instead.
ReplyBatch(r, accepted, answer) ==
    /\ run[r].token # NoToken
    /\ Answer(r, accepted, answer)
    /\ run' = [run EXCEPT ![r].token = NoToken,
                          ![r].next = IF answer THEN @ + 1 ELSE @,
                          ![r].sent = IF answer THEN @ + 1 ELSE @]
    /\ UNCHANGED <<db, reply, issued, claims>>

PushBatch(r, accepted, answer) ==
    /\ run[r].token = NoToken
    /\ Answer(r, accepted, answer)
    /\ run' = [run EXCEPT ![r].next = @ + 1,
                          ![r].sent = IF answer THEN @ + 1 ELSE @]
    /\ UNCHANGED <<db, reply, issued, claims>>

AllSent(r) ==
    /\ run[r].stage = "send" /\ run[r].next > Batches
    /\ To(r, "write")
    /\ UNCHANGED <<db, reply, issued, claims, got, faults>>

\* A variant of Outcome with a mistake: one batch counts for all.
OutcomeOptimistic(r) == IF run[r].sent > 0 THEN "sent" ELSE "failed"

Outcome(r) ==
    IF run[r].sent = Batches THEN "sent" ELSE IF run[r].sent > 0 THEN "partial" ELSE "failed"

Written(r) ==
    [db EXCEPT ![Msg(r)].status = Outcome(r), ![Msg(r)].isSent = run[r].sent > 0]

\* The outcome, whatever the row says by now.  What follows does not throw.
Write(r) ==
    /\ run[r].stage = "write"
    /\ db' = Written(r)
    /\ Stops(r)
    /\ UNCHANGED <<reply, issued, claims, got, faults>>

WriteThrows(r) ==
    /\ run[r].stage = "write"
    /\ Fault("d1")
    /\ db' \in {db, Written(r)}
    /\ To(r, "catch")
    /\ UNCHANGED <<reply, issued, claims, got>>

\* The outer catch: only the status is set, and a second failure is logged.
Catch(r) ==
    /\ run[r].stage = "catch"
    /\ Stops(r)
    /\ \/ db' = [db EXCEPT ![Msg(r)].status = "failed"] /\ faults' = faults
       \/ Fault("d1") /\ db' = db
    /\ UNCHANGED <<reply, issued, claims, got>>

Deliver(r) ==
    \/ Load(r) \/ Resolve(r) \/ CustomerMissing(r) \/ QueryThrows(r)
    \/ ReadToken(r) \/ SwapToken(r) \/ SwapThrows(r)
    \/ \E accepted, answer \in BOOLEAN :
          ReplyBatch(r, accepted, answer) \/ PushBatch(r, accepted, answer)
    \/ AllSent(r) \/ Write(r) \/ WriteThrows(r) \/ Catch(r)

(***************************************************************************)
(* What happens around it.                                                 *)
(***************************************************************************)
\* storeLineReplyToken: the webhook of a customer message that auto-reply did
\* not answer.  LINE issues every token once, and redeliveries are dropped.
StoreToken(t) ==
    /\ t \in Tokens \ issued
    /\ reply' = t
    /\ issued' = issued \cup {t}
    /\ UNCHANGED <<db, claims, run, got, faults>>

\* createPendingMessage's insert.
Insert(m, status) ==
    /\ db[m] = Absent
    /\ db' = [db EXCEPT ![m].status = status]
    /\ UNCHANGED <<reply, issued, claims, run, got, faults>>

\* recallMessage's update.
MarkRecalled(m) ==
    /\ db[m].status # "none" /\ ~db[m].isRecalled
    /\ db' = [db EXCEPT ![m].isRecalled = TRUE]
    /\ UNCHANGED <<reply, issued, claims, run, got, faults>>

Start(r) ==
    /\ db[Msg(r)].status # "none"
    /\ \A b \in 1 .. Batches : got[Msg(r)][b] < MaxCopies
    /\ Begin(r)
    /\ UNCHANGED <<db, reply, issued, claims, got, faults>>

\* Any callers: deliver() started at any time for any stored message.
NextDelivery ==
    \/ \E r \in Runs : Start(r) \/ Deliver(r)
    \/ \E t \in Tokens : StoreToken(t)
    \/ \E m \in Msgs : Insert(m, "pending") \/ MarkRecalled(m)

DeliverySpec == InitDelivery /\ [][NextDelivery]_deliveryVars

(***************************************************************************)
(* Properties                                                              *)
(***************************************************************************)
Stages == {"idle", "load", "resolve", "claim", "swap", "send", "write", "catch"}

TypeOK ==
    /\ db \in [Msgs -> [status : {"none", "buffered", "pending", "sent", "partial", "failed"},
                        isSent : BOOLEAN, isRecalled : BOOLEAN]]
    /\ reply \in Tokens \cup {NoToken} /\ issued \in SUBSET Tokens
    /\ claims \in [Tokens -> Nat]
    /\ run \in [Runs -> [stage : Stages, token : Tokens \cup {NoToken},
                         next : 1 .. Batches + 1, sent : 0 .. Batches]]
    /\ got \in [Msgs -> [1 .. Batches -> Nat]]
    /\ faults \in [FaultKinds -> Nat]
    /\ \A k \in FaultKinds : faults[k] <= Budget[k]

\* A reply token works once, so it is handed to one delivery at most, however
\* many deliveries of the conversation race for it.
TokenClaimedOnce == \A t \in Tokens : claims[t] <= 1

\* A message recorded as sent has reached the customer in full, and one recorded
\* as sent in part has reached the customer in part, whatever calls overlap.
SentIsTrue ==
    \A m \in Msgs :
        /\ db[m].status = "sent" => \A b \in 1 .. Batches : got[m][b] > 0
        /\ db[m].status = "partial" \/ db[m].isSent => \E b \in 1 .. Batches : got[m][b] > 0
=============================================================================
