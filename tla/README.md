# Verification of the Multi-Channel Integration System

A customer-service platform on Cloudflare: Workers answer HTTP and webhooks, D1
(SQLite) keeps the data, Durable Objects keep what must be serialised or woken by
a timer, Queues carry work that is retried. Agents write to customers on LINE and
Facebook; customers' messages come in by webhook. This directory holds TLA+
models of the parts whose correctness depends on the order of events, TLC
configurations that check them, and TLAPS proofs about every component modelled.

Paths below are relative to the repository; `DMS` is
`src/durable-objects/DelayedMessageScheduler.ts`.

## 1. The system

| Component | State | Operations | Hard behaviour | What makes it correct | Modelled |
|---|---|---|---|---|---|
| Delayed message scheduler (`DMS`, `delayed-message/*`) | Map and storage rows of held messages, alarm and its cached copy, dead letters | schedule, cancel, alarm, retry, cold start | alarm cleared by the platform behind the cache; handler cut short; storage that fails; jobs of an alarm between requests | nothing acknowledged is lost, nothing cancelled is pushed, what is held has an alarm | yes |
| Delivery service (`message-delivery-service.ts`, `line-messaging.ts`) | D1 row of the message, the conversation's reply token | deliver, claim the reply token | checks first and writes last with many awaits between; several batches; two callers | recorded outcome never better than what the customer got; a token used once | for LINE |
| Recall window (`buffered-send-scheduler.ts`, `conversation-messages.ts`, `message-service.ts`, `message-recall-service.ts`) | D1 row, the scheduler's entry | send, schedule or deliver now, recall | three stores, no transaction; lost answers; dying requests | a cancel is final; one delivery; nothing is forgotten | sending, recalling, the older recall routes |
| Broadcasts (`modules/broadcast`) | broadcast and recipient rows, used quota | create, send | two sends; midnight; both catch blocks | caps kept, outcomes true, drafts untouched, never stuck | create and send |
| Distributed locks (`distributed-lock-service.ts`) | two Maps and two storage keys | acquire, release | waiting inside the object; expiry; cold start | leases exclude each other | what has callers |
| Inbound messages (`line-message-queue.ts`, `webhook-conversation-service.ts`, `line-message-handler.ts`, `line-follow-handler.ts`) | queue entries, conversations, messages | consume, find or create, store | redelivery, concurrent consumers, retries | one conversation, no message acknowledged and missing | the path named here |
| Message broadcaster DO (`MessageBroadcaster.ts`, `broadcaster-*.ts`) | queue with its alarm, registry of online users, both stored | broadcast, drain, retry, global broadcast, register, prune | batches out of the stored queue; a retry count shared by targets; pruning against registration; late calls | events are settled; a waiting queue has an alarm; who is online is registered | queue, global broadcasts, registry |
| User connection DO (`UserConnection.ts`) | sockets, subscriptions | connect, disconnect, take events | one-shot registration, sockets lost in hibernation | registered while online | its part in the broadcaster |
| Rate limiter DO (`RateLimiterDO.ts`) | counters per client in memory, in rows and in an older snapshot | check, cleanup, reset, load | eviction and cold starts, cleanup by age, failing writes, window borders | counters account for every grant, bursts across a border are bounded | yes |
| Conversation room DO (`ConversationRoom.ts`, `room-*.ts`) | sockets and their attachments, participants, recent messages, one alarm | join, message, close, evict, alarm, flush, access check | hibernation; one alarm for three deadlines; D1 outages; close events that come late | the alarm covers what is due; lists match sockets; who lost access is put out, and nobody for an outage | sockets, flush, access |
| Latest-message cache DO | write-behind cache | update, flush | flush against update | newest value wins | no: a binding without a caller (`webhook-conversation-service.ts:384-386`) |
| Circuit breaker, event queue | state, failure counts | call, half-open probe | concurrent probes | one probe, recovery | planned |
| Other queue consumers | batches | ack, retry | partial batches | at least once | planned |
| CustomerConversationDO | D1 rows | CRUD with access checks | little state of its own | | no |
| Auto-reply, conversations CRUD, authentication, reports, frontend | D1 rows | CRUD | little concurrency | | no |

`PROJECT.json` lists every component with its sources and the reason for its
status, and under `hazards` what can go wrong in this code at the line where it
would.

How the parts meet. `POST /:id/messages` inserts a row as `buffered`, asks the
conversation's scheduler object to hold it, and delivers at once if that is
refused. The object's alarm calls `MessageDeliveryService.deliver()`. `DELETE`
asks the object to cancel and then marks the row. Inbound LINE messages leave a
reply token on the conversation, which the next `deliver()` claims. Inbound
events come through a queue; creating a conversation takes a lock of the
LockCoordinator object. Broadcasts use the same LINE channels and the same quota.
Agents' browsers hold sockets to a UserConnection object, which registers the user
with the one broadcaster. A ConversationRoom takes sockets by its route
(`websocket-main.ts:111`), but no page of this frontend joins one
(`durable-object-client.ts:191-199`): the conversation pages use the
CustomerConversationDO. Requests pass the middleware, which asks a RateLimiterDO.

## 2. Modules

| Module | Models | Uses |
|---|---|---|
| `RecallWindow` | nothing in the code: what holding a message promises | |
| `DelayedMessageScheduler` | one scheduler object, every request, alarm and restart | `RecallWindow` (refinement) |
| `DelayedMessageSchedulerProofs` | proofs about it, and that it implements `RecallWindow` | TLAPS |
| `MessageDelivery` | `deliver()` and the reply token | |
| `MessageDeliveryProofs` | proofs about it, for callers that do anything | TLAPS |
| `RecallDelivery` | sender, scheduler entry, alarm and recalls of one message | extends `MessageDelivery`; `RecallWindow` (refinement) |
| `RecallDeliveryProofs` | proofs about it, and that it implements `RecallWindow` | extends `MessageDeliveryProofs` |
| `BroadcastSender` | `create()` and `send()` | |
| `BroadcastSenderProofs` | proofs about it | TLAPS |
| `LockCoordinator` | the lock object and its client | |
| `Intake` | nothing in the code: what the path of inbound events promises | |
| `InboundConversation` | queue consumer, find-or-create, follow event | extends `LockCoordinator`; `Intake` (refinement) |
| `InboundConversationProofs` | proofs about `LockCoordinator`, for callers that do anything, about it, and that it implements `Intake` | TLAPS |
| `RateLimiter` | one limiter object and what the middleware makes of its answers | |
| `RateLimiterProofs` | proofs about it | TLAPS |
| `ConversationRoom` | one room: its sockets, flush, access checks and alarm | |
| `ConversationRoomProofs` | proofs about it | TLAPS |
| `MessageBroadcaster` | the broadcaster, and the users' objects as it sees them | |
| `MessageBroadcasterProofs` | proofs about it | TLAPS |
| `MC*` | constants, symmetry and fault budgets for TLC | the module of that name |

`DelayedMessageScheduler` models the object in detail and says nothing of D1;
`RecallDelivery` models everything around it and reduces the object to one entry
per message (`slot`). Both are checked to implement `RecallWindow`, so what the
second assumes of the entry is no more than what the first provides.

`Intake` knows neither queue, lock nor lease: an entry is pending until it is
acknowledged or dead, a message is placed once, in a conversation that was opened, and
no message opens a second one unless that is excused. `InboundConversation` maps `queue`
to the entry's fate, `rows` to the opened conversations, `stored` to the placed messages,
and the two exceptions of `OneCreator` to the excuse (`Excused`).

### State and steps

A Durable Object runs one turn at a time and keeps its input gate closed while it
awaits its own storage; other events run while it awaits anything else. A Worker
isolate interleaves with others at every `await`. So:

- in the scheduler a step ends at a storage write (the `gate` variable keeps other
  requests out, and only a crash can come between) or at an await of D1, a
  platform or a timer, where requests interleave;
- in `deliver()`, `send()`, the recall handler and the inbound handlers each step
  is one D1 statement or one call; two calls interleave between any two steps;
- in the lock object a step ends where `acquireLock` sleeps;
- in the limiter, a request is judged in one step and its row stored in another;
- in the room and the broadcaster a handler is one step up to its next call of D1 or
  of another object. The room counts ticks down to its deadlines and has no clock; the
  broadcaster has no time at all: an alarm that is set fires sooner or later.

Where a statement can fail it is modelled throwing before and after it took
effect, and the code's `catch` blocks are steps. A fault of a kind (`d1`: a
statement; `line`: a lost answer of LINE; `call`: a lost answer of an object;
`crash`: an isolate dies; `abort`: an alarm handler is cut short; `put`,
`restore`: an object's storage) is bounded by a budget, and properties that hold
only without faults of some kind say so through `None({...})`.

Variables are named for the fields of the code (`nextAlarm` for `nextAlarmTime`,
`mem` and `row` for the Map and the `msg:` rows); ghost variables record what the
outside has seen (`pushed`, `acked`, `got`, `claims`, `charged`, `over`, `lease`).

Operators that begin with the name of another and end in what is wrong with it
(`CancelDeleteLate`, `FreeEarly`) are deliberate mistakes: with one of them in
place of the original TLC finds the property violated, which shows that the
property depends on that line of the code.

## 3. Runs

| Run | Question | Instance |
|---|---|---|
| `scheduler_safety` | Is anything acknowledged lost, cancelled and pushed, or held without an alarm? Does the object implement `RecallWindow`? Is `IInv` true? Does every acknowledged message leave? | one by-reference and one inline message, delays 1 and 2, one retry, clock to 4, one abort, one failing cold start, one failing put |
| `delivery_races` | Do two overlapping `deliver()` calls keep tokens single and outcomes true? | one message of two batches, two tokens, one fault of each of up to three kinds |
| `recall_safety` | Cancel final, no batch twice, `failed` true, nothing forgotten, every message settled in the end? | one message, two recalls by either route, one token, one fault of each of up to two kinds |
| `broadcast_safety` | Caps by the day of the transition, outcomes, drafts and counts | a draft with an image and a broadcast without a text that is still being created, with a common recipient, two sends, two days, one fault of any kind |
| `inbound_safety` | Leases exclusive, one conversation, nothing acknowledged is missing? Does the path implement `Intake`? | one message delivered twice and a follow event, one retry, a lease of twice the waiting time, one fault of any kind |
| `limiter_safety` | Do the counters account for every grant, is a burst at a window's border bounded, and nobody refused too early, through cleanups, evictions and failures? | two clients where one may be kept, quota 2, window and entry TTL 3, time to 10, an old snapshot with a full counter, one fault of any kind |
| `room_safety` | Does the alarm cover all deadlines, do lists match sockets, are messages lost only within the flush window, is who lost access put out? | one user with two connections, one with a token that expires, two flush attempts, two failed checks before closing, one fault of any kind |
| `broadcaster_safety` | Is an accepted event lost, a queue left without an alarm, an online user left out? Is every event settled in the end? | an event for a user and a room, one for everybody; a queue of one, so that it overflows; two retries; a user with two sockets and two calls under way; a request's own global broadcast; one fault of any kind |

The bounds are chosen so that the critical coincidences exist: two send times can
coincide, overlap or follow one another, so an alarm is replaced, kept and
consumed; one retry suffices to reach both the retry and its end; two recalls and
two sends are enough because the interesting partner of each step is one other
actor; one fault reaches every `catch`, and a second one of another kind is
possible in the scheduler, delivery and recall runs, which count each kind
separately. The lease outlives the wait, as in the code (10 s and 5 s), and the
clock runs past its end. With a window of three the limiter's sliding share is neither
nothing nor all, and a stretch may be shorter than a window. In the broadcaster the room refuses its events until
they are given up, the user's can fail at the same time, and both share a count; two
sockets tell the first and the last from the others. Deadlock is not checked where all work ends: a bounded
number of requests has been answered and nothing remains to do.

Fairness. Scheduler: weak fairness of the object's handlers and of the clock; the
platform runs an alarm once it is due and resumes an awaited call. Recall: weak
fairness of the work as a whole, which is each step of the sender, of the alarm, of
`deliver()` and of a recall that has begun; nobody is obliged to recall. Room: weak
fairness of the handlers that are under way or due, and of the ticks of its
deadlines; nobody need talk, close or evict. Broadcaster: weak fairness of the drain,
from its alarm to its end; nobody need connect or post. None is assumed of faults.
Where the formula spells out the enabling condition (`HasWork`) it is that of `WF`,
in a form that TLC evaluates faster.

### Where the code and its documents disagree

| Run | What happens |
|---|---|
| `recall_stranded` | A statement after the insert throws and the row stays `buffered` with nobody to deliver it; ADR 0003 says that this must never be. |
| `inbound_follow` | A follow event creates a conversation without the lock, beside that of a first message. |
| `inbound_release` | `releaseLock` never releases: the requester id is drawn anew for each call. |
| `limiter_account` | An entry is kept for ten minutes; the account preset has a window of fifteen. A cleanup at a cold start forgets its counter, and the quota starts again. |

Met while modelling, without a run of their own:

- A recall between the insert and the scheduling is told that the deadline has passed;
  ADR 0003 says that a failed cancel means just that.
- Two broadcasts can read the quota before either has sent and together use the
  reserve (`broadcast-service.ts:149`).
- The older recall routes (`crud.ts:283`, `bulk.ts:269`) mark a message recalled
  without a deadline and report success although it may have been pushed already;
  `conversation-messages.ts` refuses that because LINE has no unsend. `CancelIsFinal`
  says of them only that a mark that precedes `deliver()`'s look at the row stops it.
- The broadcaster posts batches to `/batch-events` of a room, a route that
  ConversationRoom does not have: deliveries to rooms always fail and use up their
  retries.
- An event with two failing targets is counted and queued by both, so it can be queued
  again four times; the comment at `broadcaster-delivery-service.ts:135-138` says three.
  A retried event reaches the targets again that had it. `retryAt` is never read.
- A reset while a batch is delivered brings the batch back from the stored queue,
  except after a `POST /broadcast` in the meantime, which has stored the queue without
  it. `NothingIsLost` leaves this case out (`unstored`).
- Registrations and their opposites are sent with a new stub each and can arrive in
  the wrong order, and a registration that fails is not repeated: the user misses
  global broadcasts until an event of another kind finds the socket. That is `astray`
  in `OnlineAreRegistered`.
- `POST /disconnect` (`websocket-main.ts:199-275`) unregisters a user who may have
  other sockets; nothing calls it.
- The room's comment "alarm deadline is reset" (`room-storage-service.ts:78`) stands
  above a window that is fixed when the first message comes (`:82`). The counter
  `order` of its messages begins anew after hibernation (`ConversationRoom.ts:53-54`).
  A write of the alarm that fails may leave open sockets without one until the next
  event; the properties say so (`Sound`).
- After a cold start whose read failed, a held message may have no alarm until the
  next request (`schedule-manager.ts:251`, against ADR 0003 section 4). The safety
  properties leave this case to `faults.restore`.
- A lost answer of `/schedule` makes the sender deliver at once while the entry can
  still be cancelled (`buffered-send-scheduler.ts:89`, against ADR 0003 section 3);
  a handler that is cut short between push and status write delivers again
  (`message-delivery-service.ts:376`, against its comment at 79). `CancelIsFinal`
  and `AtMostOnce` name these two cases as their exceptions (`OnePath`, `abort`).
- A reply whose answer is lost is pushed again (`message-delivery-service.ts:319`).
- `deliver()` of a message whose customer was deleted returns without an outcome
  (`message-delivery-service.ts:125`), and the row stays `buffered`.
- A by-reference message enters the dead-letter list at its first rejection although
  it is tried again (`retry-handler.ts:407`); the row of a later failure gives way to
  an older record (`schedule-manager.ts:227`).
- `create()` makes a draft visible before its recipients are stored
  (`broadcast-service.ts:74`), so it can be sent half: the `early` broadcasts.
- The images of a broadcast are stored last (`broadcast-service.ts:91`). One without a
  text that is sent before has no message; `multicastLineMessage` then returns without
  naming anybody whom it failed to reach (`line-messaging.ts:141-150`), and
  `sendLineGroup` marks everybody sent. `SentIsTrue` leaves this case out.
- The daily cap counts by the day of the transition (`broadcast-sender-service.ts:216`).
  A multicast that runs past midnight, beside a broadcast moved afterwards, can bring
  what customers get on one day above what `limits.ts:237` calls the cap of a calendar
  day. `CapKept` is about the day of the transition.
- `docs` say that a broadcast is never stuck in `sending`. `send()` returns
  `finalizeBroadcast` without awaiting it inside the `try`
  (`broadcast-sender-service.ts:188`), so one failing statement in it never reaches the
  `catch` and leaves the broadcast there (`NeverStuck` excludes `d1` and `crash`).
- The follow handler swallows a failing lookup of the team
  (`line-follow-handler.ts:121-125`, `:150-154`), and returns when the customer cannot be
  read back (`:197-200`): the event is acknowledged without a conversation. `Intake`
  has a step for it (`Misses`), and the promise about follow events excepts it.
- With a window of more than two ticks the sliding counter lets a client have more than
  the quota within one window's length, as its share is rounded down and spread evenly;
  `NoBurst` is the bound.
- `tryAcquire` treats a lock that ends this millisecond as free, `acquire` as taken.

## 4. Proofs

`DelayedMessageSchedulerProofs`, checked by TLAPS for every set of messages, every
delay, retry count, retention and every bound, from `SchedulerAssumption` alone
(the constants are naturals, the two sets of messages are disjoint):

- `TypeCorrect`: `Spec => []TypeOK`
- `AccountedAlways`: no acknowledged message is lost
- `NeverStrandedAlways`: what is held and acknowledged has an alarm
- `CancelHolds`: what was cancelled is never pushed
- `RecordKeptAlways`: failure records last for the retention time
- `InvariantAlways`: the inductive invariant itself, `IInv`

None of the middle four is inductive: each rests on how the copies of the state agree.
`IInv` adds what a running job implies about its message (`JobInv`), that the Map
and the rows are copies of one another up to a failed cold start (`CopyInv`), what
a closed gate implies (`GateInv`), that `nextAlarm` equals the alarm in storage
(`CachedAlarm`, without which `UpdateAlarm` would skip the arming), and what
cancelled and pushed messages look like (`CancelInv`, `PushInv`). TLC checks `IInv`
in `scheduler_safety`. The proof follows `Next`: `JobKeeps`, `RequestKeeps`,
`HandlerKeeps`, `RestartKeeps` and `AbortKeeps` each show that their actions keep
it, `AlarmCovers` is the lemma about `UpdateAlarm` that most of them cite.

The same module proves `ImplementsWindowAlways`: `Spec => ImplementsWindow`. A message is held while it is pending in the Map or in a row; the
lemmas `HoldStep` to `StutterStep` restate the steps of `RecallWindow` in the scheduler's
variables, and each action is shown to be one of them or a stutter. The two that need
the invariant are `SendGivesUp` and a cold start: a message that was only in the Map is
let go there, and `Accounted` says that it was tried or recorded (`OnlyInMap`).

`MessageDeliveryProofs` proves, from `DeliveryAssumption` alone, that a reply token is claimed
once (`TokensAreSingle`) and that a row says `sent` only if LINE took every batch
(`OutcomesAreTrue`), for callers of `deliver()` that start it whenever they like. `DeliveryInv`
adds how many batches a call has behind it (`Counts`) and that a token is on the
conversation, in one call's hands or spent, and only one of these (`TokensKept`).

`RecallDeliveryProofs` first shows that sender, alarm and recalls are such callers
(`RecallKeepsDelivery`), and then proves `CancelsAreFinal`, `NoBatchTwice`, `FailuresAreTrue` and
`NoneForgotten` for any messages, recalls, routes, tokens and faults. `RecallInv` is a
statement about each message by itself: where its one delivery can come from
(`Places`), what is true before, during and after it (`Before`, `During`, `After`), what an
accepted cancel or an early mark leaves open (`Caught`, `MarkedEarly`), and who still has
to settle it (`Accounted`). A step about one message leaves the others as they were
(`Frame`), so each action is looked at for its own message only. `RecallUsesWindow` is the
refinement: `Spec => UsesWindow`. Before the proof TLC checked `RecallInv` on the instance of
`recall_safety`.

`BroadcastSenderProofs` proves every property of `broadcast_safety`, for any broadcasts,
audiences, channels, calls, limits and faults, from `BroadcastAssumption`; the
broadcasts and each audience are finite, since the cap counts them. `SenderInv` says what a call
remembers at each stage (`CallOK`) and of each broadcast: at most one call may multicast
it and then it is no draft (`Alone`), who has it (`Reached`), which rows exist (`Rows`), to which
day it is charged, which is the day of its transition, and that its row says no earlier
one (`Charges`), and what holds while no
statement has failed (`Clean`). `Capped` is `CapKept` strengthened: it counts, beside those
who have a broadcast, those to whom a running call may still send it (`Share`). Only
`Move` lets it grow, and `OthersAreCounted` shows that the code's count of the other broadcasts
(`Counted`) covers all they may still reach, whatever midnight, skips and failed
transitions did in between. Most steps of a call are quiet (`QuietKeeps`: nobody gets
anything, and the call's plans only shrink); a step about one broadcast leaves the others
alone (`SameKeeps`). TLC checked `SenderInv` on the instance of `broadcast_safety` with two
faults.

The first part of `InboundConversationProofs` proves, for any number of callers and any times, that
`LockTypeOK`, `MapsAgree` and `LeaseExclusive` hold of `LockSpec`, in which callers ask,
release and fail at will. `LeaseExclusive` speaks of the callers only, so `LockInv` ties
them to the object: storage has what the Maps have, the two Maps name the same lock,
and whoever may still rely on the lock is that one, with the end it was told
(`LeaseHeld`). The delicate case is the cleanup, which drops the resource's entry
whichever lock it names: by `LeaseHeld` an expired lock is the only one there is
(`CleanedAgrees`).

Its second part shows that the inbound path is such a caller
(`UsesLock`: `Spec => LockSpec`), so the lock's theorems carry over
(`InboundLeaseExclusive`). On them rests `OneCreatorAlways`: `StepInv` says that whoever is
past the lock holds it, and `CreatorInv` that while the lease of one about to insert
lasts, no message has created a conversation; a second creator with a valid lease
would contradict `LeaseExclusive`. `StoredOnceAlways` and `AckedIsStoredAlways` need only the
consumer's own invariant (`SaveInv`). `InboundInvAlways` is the conjunction, `InboundInv`,
which TLC checked on the instance of `inbound_safety` before the proof. These proofs assume
`LockAssumption` and `InboundAssumption`.

Its last part is the refinement, `ImplementsIntakeAlways`: `Spec => ImplementsIntake`. It
needs one more invariant (`RunInv`): what a consumer works on is running, and has found at
most one conversation. `Opening`, `Placing` and `Ending` restate the three parts of a step
of `Intake` in the variables of the path, and each action is shown to be one of each
(`HandlesImplements`). The step that rests on the lock is `CreatesAlone`: an insert under a
lease that is not over finds no conversation of another message, by `CreatorInv`. An
excuse, once it applies, always does (`ExcusedStays`), so a step of the clock or the object
that makes it apply is `Excuse`, and all the others are stutters. A follow event whose
team could not be looked up (`lost`) is mapped to `missed`, of which `Intake` asks nothing.

`RateLimiterProofs` proves, for any number of clients, quotas, times and faults, that the
counters account for what was granted (`QuotaIsKept`) and that a client is granted in any
stretch of `h` ticks, from two to a window, at most `Max` and the part of it that `h - 2`
is of the window (`NoBursts`). The ghost `granted` counts the requests answered with 200;
those that fail with 500, which the middleware lets through (it fails open), it does not.
The inductive invariant (`EntriesAccount`: `Spec => []LimiterInv`) says that each entry, in
memory, in its row or in the snapshot, accounts for it: its count covers the grants of its
window, its previous count those of the window before that are still in sight, or both
windows are past (`EntryOK`). All three assume `EntryTtl >= Window`, which the account preset
does not keep (10 minutes against 15) and without which they are false
(`limiter_account` shows it of `QuotaKept`).

`RefusalsAreEarned` is the other side: nobody is refused who has not used his limit up,
unless one of his requests was counted and answered with an error. Its invariant
(`ToldInv`) bounds each entry from above: whatever copy is looked at tells only of requests
that were granted, but for the one that waits for its answer. It needs no relation of `EntryTtl` and `Window`, as what is dropped too
early only makes the object forgiving.

`MessageBroadcasterProofs` proves every safety property of `broadcaster_safety`, for any users,
events, targets and bounds: `RegistryIsRight`, `QueueIsArmed` and `NothingIsLostAlways`. For the first, `RegistryInv` adds that a user with a socket who is not
registered is left out or about to register (`OnlineOrComing`), that an answer "no sockets"
is either true, or a registration has come since or will (`EmptyIsTrue`), and that the
stored registry is the one in memory. The pruning needs the second, and `BumpedFacts` is the
generation counter: every registration makes the questions under way see it. For the
second, `DrainInv` says that the drain's deliveries exist only while it runs, and that
without alarm and drain the queue and its stored copy hold only events that were never
accepted.

`NothingIsLost` is strengthened to `LossInv`: an event of the batch is, for each
of its targets, settled, in the queue again or still to be answered (`BatchIsCovered`), an accepted
event that is not settled is in the stored queue unless the queue was written since its batch was taken
(`DiskIsCovered`, which is what a reset goes back to, and a theorem of its own,
`AcceptedIsDurable`), and without a drain there is no batch (`BatchIsHeld`). The retry filters
the batch with `Select`, a recursive function; what it keeps (`SelectFacts`: exactly the
entries of the set) is shown with the least index at which it would fail (`Smallest`),
since the prover cannot use an induction theorem. TLC checked `LossInv` on two
instances before the proof.

`ConversationRoomProofs` proves every safety property of `room_safety`, from
`RoomAssumption` alone. Its first lemmas are about one object by itself: what arming the
alarm does and what a failing write leaves (`ArmedFacts`, `ArmFailuresFacts`), what it means
to drop connections (`WithoutFacts`), to count a failed check (`CountedFacts`) and to run the
rest of an alarm (`AlarmRestFacts`). `RoomTypes` is the invariant they need and all others
rest on: beside the types, a flush is pending exactly while there is something to store and an
attempt left (`Buffered`), every connected user is in the list of participants (`Listed`), and a
hibernated object has nothing in memory and no job (`Asleep`). `KnowsItsSockets` is inductive
over it. The others are strengthened:

- `RoomSparesTheRest`: an answer in a check's hands that puts a user out is true (`Answers`)
- `RoomListIsRight`: the list in storage, and the sockets whose close is still to come (`People`)
- `RoomIsArmed`: the object's idea of its alarm, if it has one, is right (`Watched`), without
  which it would skip a write that is needed
- `RoomLossIsBounded`: the flush is due within its delay of the oldest message (`InTime`);
  that an alarm comes for it is `RoomIsArmed`

The backoff's powers of two are natural numbers because a finite set's subsets are finite
(`Powers`), and the earliest deadline exists by well-foundedness (`Smallest`), so no
induction is needed.

`TypeCorrect`, `LockTypeCorrect`, `InboundTypeCorrect`, `DeliveryTypeCorrect`, `RecallTypeCorrect`,
`BroadcastTypeCorrect`, `RoomTypeCorrect`, `LimiterTypeCorrect`, `BroadcasterTypeCorrect`,
`MapsAgreeAlways`, `InboundInvAlways` and `AcceptedIsDurable` are proved and have no run of
their own question.

Only model-checked: the liveness properties, as liveness under fairness is beyond the
prover. Every invariant and action property of the passing runs and each refinement is a
theorem.

## 5. What is abstracted

- Scheduler: times are small naturals and 0 is JavaScript's null; send times are
  capped at the clock's bound (`Horizon`). `storage.put` can throw (a value too
  large), `storage.delete` is taken not to. A reset during an alarm leaves the alarm
  to the platform's retry, immediate or at a time still set. Ids are never reused,
  because the callers draw them at random. Refused requests change nothing and are no
  steps. The ids of the v2 API behave as the inline messages.
- Delivery: Facebook's single push is the case of one batch without a token.
  Attachments, `updateFirstResponseTime` and the broadcast after the write are left
  out: none throws into `deliver()` or touches the modelled state.
- Recall: the row's deadline is written by a statement of its own after the schedule
  (`Stamp`), whose failure is ignored as in the code. Listing, searching and deleting messages and Facebook's recall are left out.
  Of the older routes the single and the bulk one are the same steps; forwarding and tags
  are left out.
- Broadcasts: recipients are marked by one step per call of `markRecipients`; the
  multicast has batches of one recipient, so that a refused batch splits a group;
  LINE's retry loop is one step with its outcomes; customers without a conversation
  are left out. The images are stored by one statement; a broadcast has at most four, so
  the multicast's limit of five messages is not reached. One agent and an admin send.
- Locks: one resource; the lazy cleanup may happen at any request or not; replacing
  an expired lock writes twice in the code and once here; timers may be late.
  `tryAcquire`, `extend`, `withLockTimeout` have no callers. The creation of a
  customer takes the same lock but has a UNIQUE constraint behind it.
- Inbound: an entry may wait in the queue for any time. Reopening, assignment,
  notifications and auto-replies are left out. A follow event whose customer has no team
  creates nothing and is no entry here; one whose team could not be looked up is
  (`FollowLosesTeam`). LIFF (`liff.ts:434`, `:518`) and the QR code service
  create conversations without the lock in the same way as the follow event.

- Limiter: the sliding count is rounded down as in the code. `/stats` only reads.
  A client's id is given. What the middleware lets through because the object failed
  counts as no grant.
- Room: each connection id is used once; sharding, token challenges (which no caller
  switches on), typing and the fan-out are left out. A past deadline is 0, whatever
  its age. The flush that waits behind an alarm's access check is excepted in
  `LossBound`. The `connection:*` rows are written and never read. A user can stay in
  the list of participants without a socket after a failed close (`stray`). `/evict`
  is for one user or for all, the form that `websocket-access-revocation.ts:17-22`
  sends. `/disconnect`, which drops a connection and leaves its socket open, is left
  out: nothing in the repository calls it.
- Broadcaster: the high-priority queue is left out, as no producer fills it, with
  low-priority events, which are evicted first and not retried. So are teams, the
  routes that deliver to users at once, filters and metrics, and `/flush-queue`, which
  nothing calls and which drains the queue as the alarm does. The object's own storage
  is taken to answer: the code logs a failing write and goes on. An event is posted
  once. Conversation rooms in a global broadcast fail and change nothing.

## 6. Plan

Done, in this order: scheduler, its proofs, delivery, recall window, broadcasts,
locks and inbound messages with their proofs, rate limiter with its proofs,
conversation room, older recall routes, broadcaster with its proofs, proofs of
delivery, of the composed recall window, of broadcasts and of the conversation room, the
rest of the limiter's and the broadcaster's proofs, and the refinement of `Intake`.

Next, by weight:

1. The WebSocket circuit breaker and its bounded event queue.
2. The other queue consumers.
3. The user connection's own alarm and subscriptions.

## 7. Not modelled

Most of the repository is a layer of handlers that read and write D1
one statement at a time, the Vue frontend, and scripts: there is no state between
requests beyond the rows, and nothing concurrent that a model would show and a unit
test would not. `PROJECT.json` gives the reason for each part. The parts above
under "Next" are those with behaviour worth modelling.
