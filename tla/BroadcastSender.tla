--------------------------- MODULE BroadcastSender ---------------------------
(***************************************************************************)
(* Broadcasts: BroadcastService.create() stores a draft and its audience,  *)
(* BroadcastSenderService.send() multicasts it to the LINE customers and   *)
(* writes every recipient's outcome back.  A draft can be sent as soon as  *)
(* its row is there, before its audience and its images are.               *)
(*                                                                         *)
(* Both run in Workers and meet only in D1 and in LINE's monthly quota.    *)
(* Every statement and every call is a step; between two of them another   *)
(* request may act, the statement may throw, applied or not, and the       *)
(* isolate may die.  All broadcasts belong to one agent; the sender is the *)
(* agent or an administrator, whom the daily cap exempts.                  *)
(***************************************************************************)
EXTENDS Naturals, FiniteSets

CONSTANTS
    Broadcasts, Customers,
    Sends,          \* requests to send a broadcast
    Channels,       \* LINE channels, one access token each
    NoCredentials,  \* the route of a customer whose team has no token
    OtherPlatform,  \* the route of a customer who is not on LINE
    Route,          \* each customer's channel, or one of these two
    Audience,       \* the customers with a broadcast's tag
    Illustrated,    \* the broadcasts with images
    ImageOnly,      \* those of them without a text
    Images,         \* the rows of a broadcast's images, as a part of it to store
    Drafts,         \* the broadcasts that are drafts at the beginning
    DailyLimit,     \* BROADCAST_DAILY_RECIPIENT_LIMIT_PER_AGENT
    LineLimit,      \* PHASE1_LINE_RECIPIENT_LIMIT
    Room,           \* each channel's quota less the reserve for replies
    LastDay,        \* bound: midnights are LastDay - 1
    MayFail,        \* bound: the kinds of faults that may happen
    MaxFaults       \* bound: how many may happen in all

FaultKinds == {"d1", "line", "quota", "r2", "crash"}

ASSUME BroadcastAssumption ==
    /\ NoCredentials \notin Channels /\ OtherPlatform \notin Channels
    /\ NoCredentials # OtherPlatform
    /\ Route \in [Customers -> Channels \cup {NoCredentials, OtherPlatform}]
    /\ Audience \in [Broadcasts -> (SUBSET Customers) \ {{}}]
    /\ IsFiniteSet(Broadcasts) /\ \A b \in Broadcasts : IsFiniteSet(Audience[b])
    /\ Drafts \subseteq Broadcasts /\ Illustrated \subseteq Broadcasts
    /\ ImageOnly \subseteq Illustrated /\ Images \notin Customers
    /\ DailyLimit \in Nat /\ LineLimit \in Nat /\ Room \in [Channels -> Nat]
    /\ LastDay \in Nat \ {0}
    /\ MayFail \subseteq FaultKinds /\ MaxFaults \in Nat

VARIABLES
    today,   \* the day in Taipei
    bc,      \* each broadcast's row: status, counts, the day of sentAt, and of
             \* updatedAt while it is sending, when alone it is read
    rec,     \* each recipient's row: its status
    making,  \* the recipients, and the images, that create() has still to insert
    early,   \* broadcasts whose sending began before create() had ended
    charged, \* the day on which the agent's send() moved each broadcast, or 0
    send,    \* the running calls of send()
    used,    \* messages of each channel that broadcasts have used up
    got,     \* copies of each broadcast that each customer has received
    posted,  \* the conversations into which each broadcast was written
    faults   \* how many faults have happened, and of which kinds

vars == <<today, bc, rec, making, early, charged, send, used, got, posted, faults>>

NoCounts == [sent |-> 0, failed |-> 0, skipped |-> 0]

NoRow == [status |-> "none", updated |-> 0, sentAt |-> 0, counts |-> NoCounts]

\* caught: the catch block runs; empty: there is no message to multicast.
Unsent == [b |-> {}, by |-> "none", day |-> 0, stage |-> "idle", caught |-> FALSE,
           empty |-> FALSE, blocked |-> FALSE, line |-> {}, skip |-> {}, left |-> {}, cast |-> {},
           bad |-> {}, good |-> {}, sent |-> {}, counts |-> NoCounts]

Fault(kind) ==
    /\ kind \in MayFail /\ faults.count < MaxFaults
    /\ faults' = [count |-> faults.count + 1, kinds |-> faults.kinds \cup {kind}]

Init ==
    /\ today = 1
    /\ bc = [b \in Broadcasts |->
                IF b \in Drafts THEN [NoRow EXCEPT !.status = "draft"] ELSE NoRow]
    /\ rec = [b \in Broadcasts |-> [c \in Customers |->
                IF b \in Drafts /\ c \in Audience[b] THEN "pending" ELSE "none"]]
    /\ making = [b \in Broadcasts |-> {}]
    /\ early = {} /\ charged = [b \in Broadcasts |-> 0]
    /\ send = [s \in Sends |-> Unsent]
    /\ used = [ch \in Channels |-> 0]
    /\ got = [b \in Broadcasts |-> [c \in Customers |-> 0]]
    /\ posted = [b \in Broadcasts |-> {}]
    /\ faults = [count |-> 0, kinds |-> {}]

\* Lists are sets that are gone through in one order.
First(S) == CHOOSE x \in S : TRUE

OnLine(S) == {c \in S : Route[c] # OtherPlatform}

With(b, status) == {c \in Customers : rec[b][c] = status}

\* Statements on rows that create() may have deleted in the meantime.
Row(b, row) == IF bc[b].status = "deleted" THEN bc ELSE [bc EXCEPT ![b] = row]

Marked(b, S, status) ==
    [rec EXCEPT ![b] = [c \in Customers |->
        IF c \in S /\ rec[b][c] # "none" THEN status ELSE rec[b][c]]]

\* The call s of send() for the broadcast b is at this stage.
At(s, b, stage) == send[s].stage = stage /\ send[s].b = {b}

To(s, stage) == send' = [send EXCEPT ![s].stage = stage]

Ends(s) == send' = [send EXCEPT ![s] = [Unsent EXCEPT !.stage = "done"]]

\* What the call r still knows on the way to its end.
Only(r, stage) == [Unsent EXCEPT !.b = r.b, !.stage = stage, !.caught = r.caught]

(***************************************************************************)
(* create(): the row, then the audience in chunks, then the images.  It is *)
(* not obliged to go on: the isolate may die, and the statement that       *)
(* deletes the row after an insert threw may throw as well.                *)
(***************************************************************************)
CreateRow(b) ==
    /\ bc[b].status = "none"
    /\ bc' = [bc EXCEPT ![b].status = "draft"]
    /\ making' = [making EXCEPT ![b] =
                    Audience[b] \cup (IF b \in Illustrated THEN {Images} ELSE {})]
    /\ UNCHANGED <<today, rec, early, charged, send, used, got, posted, faults>>

\* A chunk holds one recipient here, and the audience has an order.
CreateRecipient(b) ==
    /\ making[b] \ {Images} # {}
    /\ LET c == First(making[b] \ {Images})
       IN /\ making' = [making EXCEPT ![b] = @ \ {c}]
          /\ rec' = [rec EXCEPT ![b][c] = "pending"]
    /\ UNCHANGED <<today, bc, early, charged, send, used, got, posted, faults>>

CreateImages(b) ==
    /\ making[b] = {Images}
    /\ making' = [making EXCEPT ![b] = {}]
    /\ UNCHANGED <<today, bc, rec, early, charged, send, used, got, posted, faults>>

\* An insert throws: the row is deleted, and its recipients with it.
CreateFails(b) ==
    /\ making[b] # {}
    /\ Fault("d1")
    /\ bc' = [bc EXCEPT ![b].status = "deleted"]
    /\ rec' = [rec EXCEPT ![b] = [c \in Customers |-> "none"]]
    /\ making' = [making EXCEPT ![b] = {}]
    /\ UNCHANGED <<today, early, charged, send, used, got, posted>>

(***************************************************************************)
(* send(): the daily cap and the transition to 'sending'.                  *)
(***************************************************************************)
Start(s, b, by) ==
    /\ send[s].stage = "idle"
    /\ bc[b].status \notin {"none", "deleted"}
    /\ send' = [send EXCEPT ![s].b = {b}, ![s].by = by,
                            ![s].day = IF by = "admin" THEN 0 ELSE today,
                            ![s].stage = IF by = "admin" THEN "move" ELSE "check"]
    /\ UNCHANGED <<today, bc, rec, making, early, charged, used, got, posted, faults>>

\* dailyAllowance: the recipients, not counting the skipped ones, of the other
\* broadcasts that were finished on the day or are being sent since.
Counted(s, b) ==
    {x \in (Broadcasts \ {b}) \X Customers :
        /\ rec[x[1]][x[2]] \in {"pending", "sent", "failed"}
        /\ \/ bc[x[1]].sentAt >= send[s].day
           \/ bc[x[1]].status = "sending" /\ bc[x[1]].updated >= send[s].day}

Allowed(s, b) ==
    Cardinality(Counted(s, b)) + Cardinality(OnLine(With(b, "pending"))) <= DailyLimit

Check(s, b) ==
    /\ At(s, b, "check")
    /\ IF Allowed(s, b) THEN To(s, "move") ELSE Ends(s)
    /\ UNCHANGED <<today, bc, rec, making, early, charged, used, got, posted, faults>>

\* Variants of Movable with a mistake: the cap is only checked before the
\* transition; the status is not compared.
MovableUncapped(s, b) == bc[b].status = "draft"

MovableAgain(s, b) ==
    /\ bc[b].status # "deleted"
    /\ send[s].by = "admin" \/ Allowed(s, b)

\* The condition of the transition's UPDATE.
Movable(s, b) ==
    /\ bc[b].status = "draft"
    /\ send[s].by = "admin" \/ Allowed(s, b)

Moved(b) == [bc EXCEPT ![b].status = "sending", ![b].updated = today]

Move(s, b) ==
    /\ At(s, b, "move")
    /\ IF Movable(s, b)
       THEN /\ bc' = Moved(b)
            /\ early' = IF making[b] # {} THEN early \cup {b} ELSE early
            /\ charged' = [charged EXCEPT ![b] = IF send[s].by = "agent" THEN today ELSE 0]
            /\ send' = [send EXCEPT ![s] = [Unsent EXCEPT !.b = {b}, !.stage = "load"]]
       ELSE /\ Ends(s)
            /\ UNCHANGED <<bc, early, charged>>
    /\ UNCHANGED <<today, rec, making, used, got, posted, faults>>

\* A statement so far throws, applied or not: the request fails.
MoveThrows(s, b) ==
    /\ \/ At(s, b, "check") /\ bc' = bc
       \/ At(s, b, "move") /\ bc' \in {bc, IF Movable(s, b) THEN Moved(b) ELSE bc}
    /\ Fault("d1")
    /\ Ends(s)
    /\ UNCHANGED <<today, rec, making, early, charged, used, got, posted>>

(***************************************************************************)
(* send(): what is there to send, and may it be sent.                      *)
(***************************************************************************)
Group(S, ch) == {c \in S : Route[c] = ch}

HasQuota(s, ch) == used[ch] + Cardinality(Group(send[s].line, ch)) <= Room[ch]

\* The loop over the groups: the next one is multicast, or all are done.
NextGroup(r) ==
    IF r.left = {} THEN [Only(r, "post") EXCEPT !.sent = r.sent]
    ELSE LET ch == First(r.left)
         IN [r EXCEPT !.left = @ \ {ch}, !.cast = Group(r.line, ch),
                      !.bad = {}, !.good = {}, !.stage = "cast"]

Send(r) == [r EXCEPT !.left = {Route[c] : c \in r.line}]

\* All channels were asked: back to draft, or on.
Decided(r) ==
    IF r.left # {} THEN r
    ELSE IF r.blocked THEN Only(r, "restore")
    ELSE IF r.skip # {} THEN [r EXCEPT !.stage = "skip"]
    ELSE NextGroup(Send(r))

\* The images, the pending recipients, their tokens.  A broadcast without a text
\* whose images are not stored yet has nothing to send.
Load(s, b) ==
    /\ At(s, b, "load")
    /\ LET pending == With(b, "pending")
           line == {c \in pending : Route[c] \in Channels}
           r == [send[s] EXCEPT !.line = line, !.skip = pending \ line,
                                !.left = {Route[c] : c \in line}, !.stage = "quota",
                                !.empty = b \in ImageOnly /\ Images \in making[b]]
       IN send' = [send EXCEPT ![s] = IF Cardinality(OnLine(pending)) > LineLimit
                                      THEN Only(r, "restore") ELSE Decided(r)]
    /\ UNCHANGED <<today, bc, rec, making, early, charged, used, got, posted, faults>>

\* A variant of LoadFails with a mistake: the request just fails.
LoadFailsQuietly(s, b) ==
    /\ At(s, b, "load") /\ b \in Illustrated /\ Images \notin making[b]
    /\ Fault("r2")
    /\ Ends(s)
    /\ UNCHANGED <<today, bc, rec, making, early, charged, used, got, posted>>

\* The image storage does not answer, or an image is missing in it.
LoadFails(s, b) ==
    /\ At(s, b, "load") /\ b \in Illustrated /\ Images \notin making[b]
    /\ Fault("r2")
    /\ \/ To(s, "restore")
       \/ To(s, "catch")
    /\ UNCHANGED <<today, bc, rec, making, early, charged, used, got, posted>>

\* The quota of one channel; one that cannot be read counts as used up.
Quota(s, b) ==
    /\ At(s, b, "quota") /\ send[s].left # {}
    /\ LET r == send[s]
           ch == First(r.left)
       IN \E ok \in BOOLEAN :
            /\ \/ ok = HasQuota(s, ch) /\ faults' = faults
               \/ ~ok /\ Fault("quota")
            /\ send' = [send EXCEPT ![s] =
                    Decided([r EXCEPT !.left = r.left \ {ch}, !.blocked = r.blocked \/ ~ok])]
    /\ UNCHANGED <<today, bc, rec, making, early, charged, used, got, posted>>

Restored(b) == Row(b, [bc[b] EXCEPT !.status = "draft", !.updated = 0])

\* restoreDraftStatus, and the request fails.
Restore(s, b) ==
    /\ At(s, b, "restore")
    /\ bc' = Restored(b)
    /\ Ends(s)
    /\ UNCHANGED <<today, rec, making, early, charged, used, got, posted, faults>>

(***************************************************************************)
(* send(): multicast and write the outcome back, group by group.           *)
(***************************************************************************)
\* The chunks of one markRecipients are taken together; a call that throws has
\* changed any part of them.
Skip(s, b) ==
    /\ At(s, b, "skip")
    /\ rec' = Marked(b, send[s].skip, "skipped")
    /\ send' = [send EXCEPT ![s] = NextGroup(Send(@))]
    /\ UNCHANGED <<today, bc, making, early, charged, used, got, posted, faults>>

\* The multicast is over: the failed recipients are marked, then the others.
CastDone(r) ==
    IF r.cast # {} THEN r ELSE [r EXCEPT !.stage = IF r.bad = {} THEN "marksent" ELSE "mark"]

\* multicastLineMessage: one batch, which holds one recipient here, with its
\* retries.  LINE may accept a request whose answer is lost; the batch is then
\* sent again.
Multicast(s, b, ok, lost) ==
    /\ At(s, b, "cast") /\ ~send[s].empty
    /\ IF lost = 0 THEN faults' = faults ELSE Fault("line")
    /\ LET r == send[s]
           c == First(r.cast)
           copies == IF ok THEN lost + 1 ELSE lost
       IN /\ got' = [got EXCEPT ![b][c] = @ + copies]
          /\ used' = [used EXCEPT ![Route[c]] = @ + copies]
          /\ send' = [send EXCEPT ![s] =
                CastDone([r EXCEPT !.cast = r.cast \ {c},
                                   !.good = IF ok THEN r.good \cup {c} ELSE r.good,
                                   !.bad = IF ok THEN r.bad ELSE r.bad \cup {c}])]
    /\ UNCHANGED <<today, bc, rec, making, early, charged, posted>>

\* Without a message multicastLineMessage returns at once, and names nobody whom
\* it failed to reach: the whole group counts as sent.
NoMessages(s, b) ==
    /\ At(s, b, "cast") /\ send[s].empty
    /\ LET r == send[s]
       IN send' = [send EXCEPT ![s] =
              CastDone([r EXCEPT !.good = r.good \cup r.cast, !.cast = {}])]
    /\ UNCHANGED <<today, bc, rec, making, early, charged, used, got, posted, faults>>

\* A variant of MarkFailed with a mistake: the whole group is marked at first.
MarkFailedAll(s, b) ==
    /\ At(s, b, "mark")
    /\ rec' = Marked(b, send[s].good \cup send[s].bad, "failed")
    /\ send' = [send EXCEPT ![s] = IF @.good = {} THEN NextGroup(@)
                                   ELSE [@ EXCEPT !.stage = "marksent"]]
    /\ UNCHANGED <<today, bc, making, early, charged, used, got, posted, faults>>

\* markRecipients(failed), when there is one.
MarkFailed(s, b) ==
    /\ At(s, b, "mark")
    /\ rec' = Marked(b, send[s].bad, "failed")
    /\ send' = [send EXCEPT ![s] = IF @.good = {} THEN NextGroup(@)
                                   ELSE [@ EXCEPT !.stage = "marksent"]]
    /\ UNCHANGED <<today, bc, making, early, charged, used, got, posted, faults>>

\* A variant of MarkSent with a mistake: the whole group is marked.
MarkSentAll(s, b) ==
    /\ At(s, b, "marksent")
    /\ rec' = Marked(b, send[s].good \cup send[s].bad, "sent")
    /\ send' = [send EXCEPT ![s] = NextGroup([@ EXCEPT !.sent = @ \cup send[s].good])]
    /\ UNCHANGED <<today, bc, making, early, charged, used, got, posted, faults>>

\* markRecipients(sent); sendLineGroup returns them.
MarkSent(s, b) ==
    /\ At(s, b, "marksent")
    /\ rec' = Marked(b, send[s].good, "sent")
    /\ LET r == send[s]
       IN send' = [send EXCEPT ![s] = NextGroup([r EXCEPT !.sent = r.sent \cup r.good])]
    /\ UNCHANGED <<today, bc, making, early, charged, used, got, posted, faults>>

\* One of the two throws: sendLineGroup's catch takes over.
MarkThrows(s, b) ==
    /\ Fault("d1")
    /\ \/ At(s, b, "mark") /\ \E C \in SUBSET send[s].bad : rec' = Marked(b, C, "failed")
       \/ At(s, b, "marksent") /\ \E C \in SUBSET send[s].good : rec' = Marked(b, C, "sent")
    /\ To(s, "remark")
    /\ UNCHANGED <<today, bc, making, early, charged, used, got, posted>>

\* The whole group is marked failed, and sendLineGroup returns nobody.
Remark(s, b) ==
    /\ At(s, b, "remark")
    /\ rec' = Marked(b, send[s].good \cup send[s].bad, "failed")
    /\ send' = [send EXCEPT ![s] = NextGroup(@)]
    /\ UNCHANGED <<today, bc, making, early, charged, used, got, posted, faults>>

\* writeBackConversationMessages; a batch that throws is only logged.  Customers
\* without a conversation, who get no message, are left out.
Post(s, b) ==
    /\ At(s, b, "post")
    /\ \E C \in SUBSET send[s].sent :
         /\ IF C = send[s].sent THEN faults' = faults ELSE Fault("d1")
         /\ posted' = [posted EXCEPT ![b] = @ \cup C]
    /\ send' = [send EXCEPT ![s] = Only(@, "count")]
    /\ UNCHANGED <<today, bc, rec, making, early, charged, used, got>>

(***************************************************************************)
(* finalizeBroadcast, and the outer catch, which calls it too.             *)
(***************************************************************************)
Counts(b) == [sent |-> Cardinality(With(b, "sent")), failed |-> Cardinality(With(b, "failed")),
              skipped |-> Cardinality(With(b, "skipped"))]

Outcome(n) ==
    IF n.failed = 0 /\ n.sent > 0 THEN "completed"
    ELSE IF n.sent > 0 THEN "partial_failed" ELSE "failed"

Count(s, b) ==
    /\ At(s, b, "count")
    /\ send' = [send EXCEPT ![s].stage = "finish", ![s].counts = Counts(b)]
    /\ UNCHANGED <<today, bc, rec, making, early, charged, used, got, posted, faults>>

\* A variant of Finished with a mistake: a broadcast that nobody got becomes a
\* draft again.
FinishedAsDraft(s, b) ==
    Row(b, [status |-> IF send[s].counts.sent = 0 THEN "draft" ELSE Outcome(send[s].counts),
            counts |-> send[s].counts, updated |-> 0, sentAt |-> today])

Finished(s, b) ==
    Row(b, [status |-> Outcome(send[s].counts), counts |-> send[s].counts,
            updated |-> 0, sentAt |-> today])

Finish(s, b) ==
    /\ At(s, b, "finish")
    /\ bc' = Finished(s, b)
    /\ Ends(s)
    /\ UNCHANGED <<today, rec, making, early, charged, used, got, posted, faults>>

\* A variant of Catch with a mistake: the recipients stay pending.
CatchOnlyFinishes(s, b) ==
    /\ At(s, b, "catch")
    /\ rec' = rec
    /\ send' = [send EXCEPT ![s].stage = "count", ![s].caught = TRUE]
    /\ UNCHANGED <<today, bc, making, early, charged, used, got, posted, faults>>

\* failRemainingPendingRecipients.
Catch(s, b) ==
    /\ At(s, b, "catch")
    /\ rec' = Marked(b, With(b, "pending"), "failed")
    /\ send' = [send EXCEPT ![s].stage = "count", ![s].caught = TRUE]
    /\ UNCHANGED <<today, bc, making, early, charged, used, got, posted, faults>>

\* A statement of the try block throws.  finalizeBroadcast, which is called there
\* but not awaited, is no part of it.
TryThrows(s, b) ==
    /\ ~send[s].caught
    /\ Fault("d1")
    /\ \/ At(s, b, "load") /\ UNCHANGED <<bc, rec>>
       \/ At(s, b, "restore") /\ bc' \in {bc, Restored(b)} /\ rec' = rec
       \/ /\ At(s, b, "skip") /\ bc' = bc
          /\ \E C \in SUBSET send[s].skip : rec' = Marked(b, C, "skipped")
       \/ /\ At(s, b, "remark") /\ bc' = bc
          /\ \E C \in SUBSET (send[s].good \cup send[s].bad) : rec' = Marked(b, C, "failed")
    /\ send' = [send EXCEPT ![s] = Only(@, "catch")]
    /\ UNCHANGED <<today, making, early, charged, used, got, posted>>

\* A statement of the catch block or of finalizeBroadcast throws, which may be the
\* same outage of D1: the request fails.
CatchThrows(s, b) ==
    /\ Fault("d1") \/ ("d1" \in faults.kinds /\ faults' = faults)
    /\ \/ At(s, b, "catch") /\ bc' = bc /\ rec' \in {rec, Marked(b, With(b, "pending"), "failed")}
       \/ At(s, b, "count") /\ UNCHANGED <<bc, rec>>
       \/ At(s, b, "finish") /\ bc' \in {bc, Finished(s, b)} /\ rec' = rec
    /\ Ends(s)
    /\ UNCHANGED <<today, making, early, charged, used, got, posted>>

Dies(s) ==
    /\ send[s].stage \notin {"idle", "done"}
    /\ Fault("crash")
    /\ Ends(s)
    /\ UNCHANGED <<today, bc, rec, making, early, charged, used, got, posted>>

Midnight ==
    /\ today < LastDay
    /\ today' = today + 1
    /\ UNCHANGED <<bc, rec, making, early, charged, send, used, got, posted, faults>>

Step(s, b) ==
    \/ Check(s, b) \/ Move(s, b) \/ Load(s, b) \/ Quota(s, b) \/ Restore(s, b) \/ Skip(s, b)
    \/ \E ok \in BOOLEAN, lost \in 0 .. 1 : Multicast(s, b, ok, lost)
    \/ NoMessages(s, b) \/ MarkFailed(s, b) \/ MarkSent(s, b) \/ Remark(s, b)
    \/ Post(s, b) \/ Count(s, b) \/ Finish(s, b) \/ Catch(s, b)

Trouble(s, b) ==
    MoveThrows(s, b) \/ LoadFails(s, b) \/ MarkThrows(s, b) \/ TryThrows(s, b) \/ CatchThrows(s, b)

Next ==
    \/ \E b \in Broadcasts : CreateRow(b) \/ CreateRecipient(b) \/ CreateImages(b) \/ CreateFails(b)
    \/ \E s \in Sends, b \in Broadcasts :
          \/ \E by \in {"agent", "admin"} : Start(s, b, by)
          \/ Step(s, b) \/ Trouble(s, b)
    \/ \E s \in Sends : Dies(s)
    \/ Midnight

Spec == Init /\ [][Next]_vars

(***************************************************************************)
(* Properties                                                              *)
(***************************************************************************)
Stages == {"idle", "check", "move", "load", "quota", "restore", "skip", "cast",
           "mark", "marksent", "remark", "post", "count", "finish", "catch", "done"}

Ended == {"completed", "partial_failed", "failed"}

CountType == [sent : Nat, failed : Nat, skipped : Nat]

TypeOK ==
    /\ today \in 1 .. LastDay
    /\ bc \in [Broadcasts -> [status : {"none", "deleted", "draft", "sending"} \cup Ended,
                              updated : 0 .. LastDay, sentAt : 0 .. LastDay, counts : CountType]]
    /\ \A b \in Broadcasts : bc[b].status \in Ended => bc[b].sentAt # 0
    /\ rec \in [Broadcasts -> [Customers -> {"none", "pending", "sent", "failed", "skipped"}]]
    /\ making \in [Broadcasts -> SUBSET (Customers \cup {Images})]
    /\ early \in SUBSET Broadcasts /\ charged \in [Broadcasts -> 0 .. LastDay]
    /\ send \in [Sends -> [b : SUBSET Broadcasts, by : {"none", "agent", "admin"}, day : 0 .. LastDay,
                           stage : Stages, caught : BOOLEAN, empty : BOOLEAN, blocked : BOOLEAN,
                           line : SUBSET Customers, skip : SUBSET Customers,
                           left : SUBSET Channels, cast : SUBSET Customers,
                           bad : SUBSET Customers, good : SUBSET Customers,
                           sent : SUBSET Customers, counts : CountType]]
    /\ used \in [Channels -> Nat]
    /\ got \in [Broadcasts -> [Customers -> Nat]]
    /\ posted \in [Broadcasts -> SUBSET Customers]
    /\ faults \in [count : 0 .. MaxFaults, kinds : SUBSET FaultKinds]

None(kinds) == faults.kinds \cap kinds = {}

\* The broadcasts that the agent's calls moved to 'sending' on one day reach no
\* more customers than the cap allows, although sends overlap, recipients are
\* skipped and midnight comes between the check, the transition and the end.
\* The day is the transition's, as in dailyAllowance: one that is multicast past
\* midnight does not count against the next day, on which its customers may get
\* it beside that day's share.  Not so for a draft that is sent while its
\* audience or its images are still being stored.
CapKept ==
    \A d \in 1 .. LastDay :
        Cardinality({x \in (Broadcasts \ early) \X Customers :
                        charged[x[1]] = d /\ got[x[1]][x[2]] > 0}) <= DailyLimit

\* Who is marked sent, and whose conversation shows the broadcast, has it:
\* whatever batches fail, statements throw and calls overlap.  Not so for a
\* broadcast without a text that is sent before its images are stored: everybody
\* is marked sent, and nobody gets anything.
SentIsTrue ==
    \A b \in Broadcasts \ (early \cap ImageOnly), c \in Customers :
        rec[b][c] = "sent" \/ c \in posted[b] => got[b][c] > 0

\* No customer gets a broadcast twice, however often it is sent, fails, goes back
\* to draft and dies, unless LINE's answer to the multicast itself was lost.
AtMostOnce ==
    None({"line"}) => \A b \in Broadcasts, c \in Customers : got[b][c] <= 1

\* Who is marked failed has not received it, unless a statement or LINE's answer
\* failed.
FailedIsTrue ==
    None({"d1", "line"}) =>
        \A b \in Broadcasts, c \in Customers : rec[b][c] = "failed" => got[b][c] = 0

\* A broadcast that went back to draft can be sent again unchanged: nobody has
\* it and, unless a statement failed, every recipient is pending.
DraftIsUntouched ==
    \A b \in Broadcasts : bc[b].status = "draft" =>
        /\ \A c \in Customers : got[b][c] = 0
        /\ None({"d1"}) => \A c \in Audience[b] \ making[b] : rec[b][c] = "pending"

\* The counts of a finished broadcast are those of its recipients and none of
\* them is left pending.
CountsAgree ==
    None({"d1"}) =>
        \A b \in Broadcasts \ early :
            bc[b].status \in Ended =>
                bc[b].counts = Counts(b) /\ With(b, "pending") = {}

\* A broadcast that no call works on is not left in 'sending' by a missing image,
\* an unreadable quota or a refused batch.
NeverStuck ==
    None({"d1", "crash"}) =>
        \A b \in Broadcasts : bc[b].status = "sending" =>
            \E s \in Sends : send[s].b = {b} /\ send[s].stage \notin {"idle", "done"}

=============================================================================
