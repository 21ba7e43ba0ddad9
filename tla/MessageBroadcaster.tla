------------------------- MODULE MessageBroadcaster -------------------------
(***************************************************************************)
(* The MessageBroadcaster Durable Object: a queue of events that an alarm  *)
(* drains in batches, each target of a batch in parallel, and the registry *)
(* of the users who are online, to whom global events go.  Around it the   *)
(* users' own UserConnection objects, as far as it sees them: how many     *)
(* sockets each has, and the calls by which they register and unregister.  *)
(*                                                                         *)
(* Handlers interleave wherever the object awaits D1 or another object;    *)
(* awaits of its own storage let nobody in, but a reset may come there.    *)
(* Times are left out: an alarm that is set fires sooner or later.  The    *)
(* object's own storage is taken to answer.                                *)
(***************************************************************************)
EXTENDS Integers, Sequences, FiniteSets, SequencesExt

CONSTANTS
    Users,
    Rooms,      \* conversation rooms, which refuse batches: they have no such route
    All,        \* the global target
    Events,
    To,         \* the targets of each event
    BatchSize,  \* BATCH_SIZE
    MaxQueue,   \* MAX_QUEUE_SIZE
    MaxRetry,   \* the 3 of retryFailedEvents
    MaxSockets, \* bound: sockets of a user
    MaxCalls,   \* bound: a user's calls under way
    MayFail, MaxFaults

Targets == Users \cup Rooms \cup {All}
FaultKinds == {"d1", "call", "crash"}

ASSUME BroadcasterAssumption ==
    /\ To \in [Events -> SUBSET Targets]
    /\ {BatchSize, MaxQueue, MaxRetry, MaxSockets, MaxCalls} \subseteq Nat \ {0}
    /\ BatchSize <= MaxQueue
    /\ MayFail \subseteq FaultKinds /\ MaxFaults \in Nat

VARIABLES
    queue,    \* eventQueue: references to events, several perhaps to one
    retry,    \* retryCount of each event
    batch,    \* what drainQueues has taken from it
    draining, \* whether the alarm handler runs
    alarm,    \* whether an alarm is set
    fan,      \* the global broadcasts under way: the drain's and a request's
    probe,    \* the deliveries to each receiver: the batch's, and those of each fan
    users,    \* userConnections: the registry
    disk,     \* the stored queue and registry
    sockets,  \* the sockets each user's object has
    calls,    \* its calls of the broadcaster under way, oldest first
    acked,    \* events that were accepted
    settled,  \* where an event was received, given up, evicted or lost by a reset
    unstored, \* events of the batch that a later write has taken off the disk
    astray,   \* online users whom a call that failed or was late has left out
    faults

queueVars == <<queue, retry, batch, draining, alarm, acked, settled, unstored>>
presenceVars == <<sockets, calls>>
vars == <<queueVars, fan, probe, users, disk, presenceVars, astray, faults>>

Fans == {"global", "direct"}
NoProbe == [stage |-> "none", answer |-> "none", same |-> FALSE]
Asked == [stage |-> "asked", answer |-> "none", same |-> TRUE]
Refused == [stage |-> "answered", answer |-> "failed", same |-> TRUE]
Quiet == [t \in Targets |-> NoProbe]

TypeOK ==
    /\ {queue, batch, disk.queue} \subseteq Seq(Events)
    /\ {retry, disk.retry} \subseteq [Events -> Nat]
    /\ {draining, alarm} \subseteq BOOLEAN
    /\ fan \in [Fans -> {"idle", "asks", "probing"}]
    /\ probe \in [Fans \cup {"batch"} -> [Targets ->
          [stage : {"none", "asked", "answered", "done"},
           answer : {"none", "live", "empty", "failed"}, same : BOOLEAN]]]
    /\ {users, disk.users, astray} \subseteq SUBSET Users
    /\ sockets \in [Users -> 0..MaxSockets]
    /\ calls \in [Users -> Seq({"register", "unregister"})]
    /\ {acked, unstored} \subseteq SUBSET Events
    /\ settled \subseteq Events \X Targets
    /\ faults \in 0..MaxFaults

Init ==
    /\ queue = <<>> /\ retry = [e \in Events |-> 0]
    /\ batch = <<>> /\ draining = FALSE /\ alarm = FALSE
    /\ fan = [f \in Fans |-> "idle"] /\ probe = [f \in Fans \cup {"batch"} |-> Quiet]
    /\ users = {} /\ disk = [queue |-> <<>>, retry |-> retry, users |-> {}]
    /\ sockets = [u \in Users |-> 0] /\ calls = [u \in Users |-> <<>>]
    /\ acked = {} /\ settled = {} /\ unstored = {} /\ astray = {}
    /\ faults = 0

Fault(f) == f \in MayFail /\ faults < MaxFaults /\ faults' = faults + 1

\* The events of the batch that are for t.
Held(t) == {e \in Range(batch) : t \in To[e]}

\* Events are settled at all their targets.
Everywhere(E) == UNION {{e} \X To[e] : e \in E}

\* What persistQueueState and persistConnectionIds leave on the disk.
Stored == [queue |-> queue', retry |-> retry', users |-> users']
StoredIds == [disk EXCEPT !.users = users']

(***************************************************************************)
(* POST /broadcast: queueEvent.                                            *)
(***************************************************************************)
\* A full queue drops its oldest batch.
Kept(q) == IF Len(q) > MaxQueue THEN SubSeq(q, BatchSize + 1, Len(q)) ELSE q
Dropped(q) == IF Len(q) > MaxQueue THEN Range(SubSeq(q, 1, BatchSize)) ELSE {}

\* The event as it is pushed and stored.
Queued(e) ==
    /\ e \notin acked \cup Range(queue \o batch)
    /\ queue' = Kept(Append(queue, e)) /\ retry' = [retry EXCEPT ![e] = 0]
    /\ users' = users /\ disk' = Stored

\* persistQueueState and scheduleProcessing.  The queue is stored without what the
\* drain has in its hands.
Broadcast(e) ==
    /\ Queued(e) /\ acked' = acked \cup {e} /\ alarm' = TRUE
    /\ settled' = settled \cup Everywhere(Dropped(Append(queue, e)))
    /\ unstored' = Range(batch) \ Range(queue')
    /\ UNCHANGED <<batch, draining, fan, probe, presenceVars, astray, faults>>

(***************************************************************************)
(* The alarm: drainQueues.                                                 *)
(***************************************************************************)
Taken == IF Len(queue) < BatchSize THEN Len(queue) ELSE BatchSize

Addressed(t, s) == \E i \in DOMAIN s : t \in To[s[i]]

\* The calls that a batch makes at once; a room's answer is known.
Opened(s) ==
    [t \in Targets |-> IF ~Addressed(t, s) \/ t = All THEN NoProbe
                       ELSE IF t \in Rooms THEN Refused ELSE Asked]

\* processEventQueue takes a batch, and processBatch calls all its targets.
BatchTaken ==
    /\ alarm /\ ~draining
    /\ batch' = SubSeq(queue, 1, Taken) /\ queue' = SubSeq(queue, Taken + 1, Len(queue))
    /\ draining' = TRUE /\ alarm' = FALSE
    /\ probe' = [probe EXCEPT !["batch"] = Opened(batch')]
    /\ fan' = [fan EXCEPT !["global"] = IF Addressed(All, batch') THEN "asks" ELSE "idle"]
    /\ UNCHANGED <<retry, acked, settled, unstored, users, presenceVars, astray, faults>>

\* Mutant: the queue is stored as soon as the batch is taken from it.
DrainBeginsStored == BatchTaken /\ disk' = Stored

DrainBegins == BatchTaken /\ UNCHANGED disk

Retryable(e) == retry[e] < MaxRetry

\* The events of s that are in E, in their order: a filter, as a recursive function.
Select(s, E) ==
    LET upTo[n \in 0..Len(s)] ==
            IF n = 0 THEN <<>>
            ELSE IF s[n] \in E THEN Append(upTo[n - 1], s[n]) ELSE upTo[n - 1]
    IN upTo[Len(s)]

\* Mutant: a retry is not counted.
RetryUncounted(t) ==
    /\ queue' = queue \o Select(batch, {e \in Held(t) : Retryable(e)})
    /\ UNCHANGED retry
    /\ settled' = settled \cup ({e \in Held(t) : ~Retryable(e)} \X {t})

\* retryFailedEvents: the events of a target that failed.  Other targets of the batch
\* hold the same objects, and so does the queue: all see the count rise.
Retry(t) ==
    LET again == Select(batch, {e \in Held(t) : Retryable(e)})
        Times(e) == Cardinality({i \in DOMAIN again : again[i] = e})
    IN /\ queue' = queue \o again
       /\ retry' = [e \in Events |-> retry[e] + Times(e)]
       /\ settled' = settled \cup ({e \in Held(t) : ~Retryable(e)} \X {t})

\* All targets have answered: persistQueueState.
BatchDone ==
    /\ draining /\ fan["global"] = "idle"
    /\ \A t \in Targets : probe["batch"][t].stage \in {"none", "done"}
    /\ UNCHANGED <<queue, retry, acked, settled, fan, users, presenceVars, astray, faults>>
    /\ disk' = Stored /\ draining' = FALSE /\ batch' = <<>> /\ unstored' = {}
    /\ probe' = [probe EXCEPT !["batch"] = Quiet]

\* Mutant: the alarm is not set again.
DrainEndsQuietly == BatchDone /\ UNCHANGED alarm

\* scheduleProcessing arms the alarm while there are events.
DrainEnds == BatchDone /\ alarm' = (alarm \/ queue # <<>>)

(***************************************************************************)
(* Deliveries.  A delivery remembers whether its user has registered since *)
(* it began ("same": userRegistrationGen is what it was).                  *)
(***************************************************************************)
Enters(u) ==
    /\ users' = users \cup {u}
    /\ astray' = astray \ {u}

\* Every registration of u makes the global deliveries to u that are under way see it.
Bumped(u) ==
    [f \in DOMAIN probe |-> IF f \in Fans /\ probe[f][u].stage # "none"
                            THEN [probe[f] EXCEPT ![u].same = FALSE] ELSE probe[f]]

Receives(f, t) == IF f = "batch" THEN settled \cup (Held(t) \X {t}) ELSE settled

\* The user's object takes the events and says whether it has sockets.
Answer(f, u) ==
    /\ probe[f][u].stage = "asked"
    /\ \E answer \in {"live", "empty", "failed"} :
         /\ probe' = [probe EXCEPT ![f][u].stage = "answered", ![f][u].answer = answer]
         /\ \/ answer = (IF sockets[u] > 0 THEN "live" ELSE "empty")
               /\ settled' = Receives(f, u) /\ UNCHANGED faults
            \/ answer = "failed" /\ Fault("call") /\ settled' \in {settled, Receives(f, u)}
    /\ UNCHANGED <<queue, retry, batch, draining, alarm, acked, unstored>>
    /\ UNCHANGED <<fan, users, disk, presenceVars, astray>>

\* The delivery is over.  Of its answer only "empty" matters, to a global broadcast.
Closed(p, f, t) ==
    [p EXCEPT ![f][t] = IF f \in Fans /\ @.answer = "empty" THEN [@ EXCEPT !.stage = "done"]
                        ELSE [stage |-> "done", answer |-> "none", same |-> TRUE]]

\* deliverToUserWithPresence: a live user who is not registered enters the registry.
ReturnLive(f, u) ==
    /\ probe[f][u].stage = "answered" /\ probe[f][u].answer = "live"
    /\ IF u \in users
       THEN probe' = Closed(probe, f, u) /\ UNCHANGED <<users, astray, disk>>
       ELSE probe' = Closed(Bumped(u), f, u) /\ Enters(u) /\ disk' = StoredIds
    /\ UNCHANGED <<queueVars, fan, presenceVars, faults>>

\* Nobody there, or an error: in a global broadcast that is only remembered or
\* logged, in a batch the error leads to the retry of the target's events.
ReturnOther(f, t) ==
    /\ probe[f][t].stage = "answered" /\ probe[f][t].answer # "live"
    /\ probe' = Closed(probe, f, t)
    /\ IF f = "batch" /\ probe[f][t].answer = "failed"
       THEN Retry(t) ELSE UNCHANGED <<queue, retry, settled>>
    /\ UNCHANGED <<batch, draining, alarm, acked, unstored>>
    /\ UNCHANGED <<fan, users, disk, presenceVars, astray, faults>>

(***************************************************************************)
(* deliverGlobalBroadcast.                                                 *)
(***************************************************************************)
\* POST /broadcast-global.
DirectBegins ==
    /\ fan["direct"] = "idle" /\ fan' = [fan EXCEPT !["direct"] = "asks"]
    /\ UNCHANGED <<queueVars, probe, users, disk, presenceVars, astray, faults>>

\* D1 says who may see the events, and those of them who are registered are called.
FanProbes(f) ==
    /\ fan[f] = "asks" /\ fan' = [fan EXCEPT ![f] = "probing"]
    /\ \E V \in SUBSET users :
          probe' = [probe EXCEPT ![f] = [t \in Targets |-> IF t \in V THEN Asked ELSE NoProbe]]
    /\ UNCHANGED <<queueVars, users, disk, presenceVars, astray, faults>>

\* D1 fails, and so does the global target.
FanThrows(f) ==
    /\ fan[f] = "asks" /\ Fault("d1") /\ fan' = [fan EXCEPT ![f] = "idle"]
    /\ IF f = "global" THEN Retry(All) ELSE UNCHANGED <<queue, retry, settled>>
    /\ UNCHANGED <<batch, draining, alarm, acked, unstored>>
    /\ UNCHANGED <<probe, users, disk, presenceVars, astray>>

\* Mutant: a registration after the question does not save the entry.
StaleBlind(f) == {u \in users : probe[f][u].answer = "empty"}

\* Entries that have no sockets and have not been registered since.
Stale(f) == {u \in users : probe[f][u].answer = "empty" /\ probe[f][u].same}

FanEnds(f) ==
    /\ fan[f] = "probing" /\ \A u \in Users : probe[f][u].stage \in {"none", "done"}
    /\ fan' = [fan EXCEPT ![f] = "idle"] /\ probe' = [probe EXCEPT ![f] = Quiet]
    /\ users' = users \ Stale(f)
    /\ disk' = IF Stale(f) = {} THEN disk ELSE StoredIds
    /\ settled' = IF f = "global" THEN settled \cup (Held(All) \X {All})
                  ELSE settled
    /\ UNCHANGED <<queue, retry, batch, draining, alarm, acked, unstored>>
    /\ UNCHANGED <<presenceVars, astray, faults>>

(***************************************************************************)
(* The users' objects and their calls, each made with a stub of its own:   *)
(* two of them may arrive in either order.                                 *)
(***************************************************************************)
\* addConnection: the first socket registers the user.
Connect(u) ==
    /\ sockets[u] < MaxSockets /\ Len(calls[u]) < MaxCalls
    /\ sockets' = [sockets EXCEPT ![u] = @ + 1]
    /\ calls' = IF sockets[u] = 0 THEN [calls EXCEPT ![u] = Append(@, "register")] ELSE calls
    /\ UNCHANGED <<queueVars, fan, probe, users, disk, astray, faults>>

\* removeConnection: the last one unregisters.
Disconnect(u) ==
    /\ sockets[u] > 0 /\ Len(calls[u]) < MaxCalls
    /\ sockets' = [sockets EXCEPT ![u] = @ - 1]
    /\ calls' = IF sockets[u] = 1 THEN [calls EXCEPT ![u] = Append(@, "unregister")] ELSE calls
    /\ UNCHANGED <<queueVars, fan, probe, users, disk, astray, faults>>

\* The sockets go while the object is out of memory, and it finds none to close.
Vanish(u) ==
    /\ sockets[u] > 0 /\ sockets' = [sockets EXCEPT ![u] = 0]
    /\ UNCHANGED <<queueVars, fan, probe, users, disk, calls, astray, faults>>

Answered(u, i) == i \in DOMAIN calls[u] /\ calls' = [calls EXCEPT ![u] = RemoveAt(@, i)]

Register(u, i) ==
    /\ Answered(u, i) /\ calls[u][i] = "register"
    /\ Enters(u) /\ probe' = Bumped(u) /\ disk' = StoredIds
    /\ UNCHANGED <<queueVars, fan, sockets, faults>>

Unregister(u, i) ==
    /\ Answered(u, i) /\ calls[u][i] = "unregister"
    /\ users' = users \ {u} /\ disk' = StoredIds
    /\ astray' = IF sockets[u] > 0 THEN astray \cup {u} ELSE astray
    /\ UNCHANGED <<queueVars, fan, probe, sockets, faults>>

\* The call fails, which is logged and not repeated.
CallFails(u, i) ==
    /\ Answered(u, i) /\ Fault("call")
    /\ astray' = IF calls[u][i] = "register" THEN astray \cup {u} ELSE astray
    /\ UNCHANGED <<queueVars, fan, probe, users, disk, sockets>>

(***************************************************************************)
(* The object leaves memory, and comes back from its storage.              *)
(***************************************************************************)
\* initializeFromStorage: shared references stay shared in a stored queue.
Loaded(d) ==
    /\ queue' = d.queue /\ retry' = d.retry /\ users' = d.users
    /\ batch' = <<>> /\ draining' = FALSE /\ unstored' = {}
    /\ fan' = [f \in Fans |-> "idle"] /\ probe' = [f \in DOMAIN probe |-> Quiet]

\* Hibernation, while nothing is under way.
Evict ==
    /\ ~draining /\ \A f \in Fans : fan[f] = "idle"
    /\ Loaded(disk)
    /\ UNCHANGED <<alarm, acked, settled, disk, presenceVars, astray, faults>>

\* A reset while it works: a running alarm handler will be run again.
Crash ==
    /\ Fault("crash") /\ Loaded(disk)
    /\ alarm' = (alarm \/ draining) /\ settled' = settled \cup Everywhere(unstored)
    /\ UNCHANGED <<acked, disk, presenceVars, astray>>

\* The same between queueEvent's two writes: the event is stored and not accepted.
BroadcastDies(e) ==
    /\ Queued(e) /\ Fault("crash")
    /\ settled' = settled \cup Everywhere(
           Dropped(Append(queue, e)) \cup (Range(batch) \ Range(queue')))
    /\ batch' = <<>> /\ draining' = FALSE /\ unstored' = {}
    /\ fan' = [f \in Fans |-> "idle"] /\ probe' = [f \in DOMAIN probe |-> Quiet]
    /\ alarm' = (alarm \/ draining)
    /\ UNCHANGED <<acked, presenceVars, astray>>

Drain ==
    \/ DrainBegins \/ DrainEnds \/ FanProbes("global") \/ FanEnds("global")
    \/ \E f \in {"batch", "global"} :
          \/ \E u \in Users : Answer(f, u) \/ ReturnLive(f, u)
          \/ \E t \in Users \cup Rooms : ReturnOther(f, t)

Direct ==
    \/ DirectBegins \/ FanProbes("direct") \/ FanEnds("direct")
    \/ \E u \in Users : \/ Answer("direct", u) \/ ReturnLive("direct", u)
                        \/ ReturnOther("direct", u)

Presence ==
    \E u \in Users : \/ Connect(u) \/ Disconnect(u) \/ Vanish(u)
                     \/ \E i \in 1..MaxCalls : Register(u, i) \/ Unregister(u, i) \/ CallFails(u, i)

Next ==
    \/ \E e \in Events : Broadcast(e) \/ BroadcastDies(e)
    \/ Drain \/ Direct \/ Presence
    \/ \E f \in Fans : FanThrows(f)
    \/ Evict \/ Crash

Spec == Init /\ [][Next]_vars

\* The platform fires the alarm, and those who are called answer.  Weak fairness of
\* the drain, with its enabling condition spelt out; nobody need connect or post.
HasWork == alarm \/ draining
FairSpec == Spec /\ ([]<>~HasWork \/ []<><<Drain>>_vars)

(***************************************************************************)
(* What the broadcaster promises.                                          *)
(***************************************************************************)
Settled(e) == \A t \in To[e] : <<e, t>> \in settled

\* An event that was accepted is in the queue or in a batch until each of its targets
\* has received it or was given up after its retries, or a full queue has evicted it:
\* through retries that targets share, resets and reloads.  A reset loses what is in a
\* batch only if another event was stored since the batch was taken.
NothingIsLost ==
    \A e \in acked : Settled(e) \/ e \in Range(queue \o batch)

\* While the queue holds an accepted event and no drain runs, an alarm is set; so a
\* drain follows although nothing else may ever wake the object.
DrainIsArmed ==
    ~draining /\ Range(queue) \cap acked # {} => alarm

\* A user with a socket is in the registry, however registrations, probes of global
\* broadcasts, prunings, resets and reconnections overlap, unless a call of the user's
\* object failed, came late or is still to come.
OnlineAreRegistered ==
    \A u \in Users : sockets[u] > 0 /\ calls[u] = <<>> => u \in users \cup astray

\* Every accepted event is settled in the end: shared retries come to an end, and each
\* drain leads to the next.
EventuallySettled == \A e \in Events : e \in acked ~> Settled(e)

=============================================================================
