-------------------------- MODULE ConversationRoom --------------------------
(***************************************************************************)
(* One ConversationRoom Durable Object: the sockets of a conversation, the *)
(* list of its participants, the recent messages it keeps for reconnecting *)
(* clients, and the one alarm behind three deadlines: the flush of those   *)
(* messages, the next expiry of a token, and the check that every user     *)
(* still has access.                                                       *)
(*                                                                         *)
(* The object hibernates between events.  Its sockets outlive it and carry *)
(* an attachment from which it is rebuilt; its memory is lost.  While it   *)
(* awaits its own storage no other event is delivered, so a handler is one *)
(* action up to the next call it makes to D1 or to another object.         *)
(*                                                                         *)
(* There is no clock: a deadline is the number of ticks left until it, 0   *)
(* once it is past.  Two past deadlines are as good as equal to the code   *)
(* as well, which never re-arms an alarm that is already due.              *)
(*                                                                         *)
(* The route /disconnect, which takes a connection off the list and leaves *)
(* its socket open, is left out: nothing in the repository calls it.       *)
(***************************************************************************)
EXTENDS Integers, FiniteSets

CONSTANTS
    Users,
    Conns,          \* the connection ids, each used once
    UserOf,         \* the user of each connection
    TokenLife,      \* ticks until the token of a connection expires, or None
    MaxConns,       \* MAX_CONNECTIONS
    Period,         \* ACCESS_CHECK_INTERVAL_MS, in ticks
    RetryBase,      \* ACCESS_CHECK_RETRY_BASE_MS
    MaxFailures,    \* ACCESS_CHECK_MAX_FAILURES
    FlushDelay,     \* STORAGE_WRITE_DEBOUNCE_MS
    FlushAttempts,  \* FLUSH_MAX_ATTEMPTS
    MayFail,        \* the kinds of faults that may happen
    MaxFaults       \* how many in all

FaultKinds == {"d1", "put", "flush", "load", "crash"}

\* No deadline, and an alarm that the object has not looked up yet.
None == -1
Unknown == -2

ASSUME RoomAssumption ==
    /\ UserOf \in [Conns -> Users]
    /\ TokenLife \in [Conns -> (Nat \ {0}) \cup {None}]
    /\ {MaxConns, Period, RetryBase, MaxFailures, FlushDelay, FlushAttempts} \subseteq Nat \ {0}
    /\ RetryBase <= Period
    /\ MayFail \subseteq FaultKinds /\ MaxFaults \in Nat

VARIABLES
    awake,    \* whether the object is in memory
    room,     \* its memory
    disk,     \* its storage, and the alarm that the platform holds for it
    sock,     \* what has become of each connection
    token,    \* ticks left of each connection's token
    joining,  \* connections whose upgrade awaits the user's own object
    job,      \* the access checks that await D1: the alarm's and /evict's
    lost,     \* users whose access was withdrawn
    stray,    \* users one of whose closes the object never saw
    age,      \* ticks since the oldest message that is yet to be stored
    faults    \* the faults so far, and those of the object's storage among them

vars == <<awake, room, disk, sock, token, joining, job, lost, stray, age, faults>>

Checks == {"alarm", "evict"}
Deadline == Nat \cup {None}

Cold == [conns |-> {}, people |-> {}, access |-> None, flush |-> None, dirty |-> FALSE,
         failures |-> 0, exhausted |-> FALSE, alarmAt |-> Unknown]
Idle == [for |-> {}, answer |-> [u \in Users |-> "none"], deferred |-> FALSE,
         flushDue |-> FALSE, running |-> FALSE]

TypeOK ==
    /\ awake \in BOOLEAN
    /\ room \in [conns : SUBSET Conns, people : SUBSET Users, access : Deadline, flush : Deadline,
                 dirty : BOOLEAN, failures : Nat, exhausted : BOOLEAN,
                 alarmAt : Deadline \cup {Unknown}]
    /\ disk \in [people : SUBSET Users, access : Deadline, failures : Nat, alarm : Deadline]
    /\ sock \in [Conns -> {"new", "admitted", "open", "gone", "closed", "revoked"}]
    /\ token \in [Conns -> Deadline]
    /\ joining \in SUBSET Conns
    /\ job \in [Checks -> [for : SUBSET Users, answer : [Users -> {"none", "keep", "drop"}],
                           deferred : BOOLEAN, flushDue : BOOLEAN, running : BOOLEAN]]
    /\ {lost, stray} \subseteq SUBSET Users
    /\ age \in 0..(FlushDelay + 1)
    /\ faults \in [all : Nat, put : Nat]

Init ==
    /\ awake = FALSE /\ room = Cold
    /\ disk = [people |-> {}, access |-> None, failures |-> 0, alarm |-> None]
    /\ sock = [c \in Conns |-> "new"] /\ token = TokenLife
    /\ joining = {} /\ job = [k \in Checks |-> Idle]
    /\ lost = {} /\ stray = {} /\ age = 0
    /\ faults = [all |-> 0, put |-> 0]

Fault(f) ==
    /\ f \in MayFail /\ faults.all < MaxFaults
    /\ faults' = [all |-> faults.all + 1, put |-> IF f = "put" THEN faults.put + 1 ELSE faults.put]

UsersOf(C) == {UserOf[c] : c \in C}
Open == {c \in Conns : sock[c] = "open"}

(***************************************************************************)
(* Pieces of the handlers, on the object o: its memory and its storage.    *)
(***************************************************************************)
Object == [room |-> room, disk |-> disk]
Becomes(o) == room' = o.room /\ disk' = o.disk

Earliest(D) == CHOOSE t \in D \cup {None} :
    IF D \subseteq {None} THEN t = None ELSE t # None /\ \A x \in D \ {None} : t <= x

\* Mutant: a room with sockets gets no access deadline of its own.
AccessUnseeded(r) == IF r.conns = {} THEN None ELSE r.access

\* The access deadline that a room with these connections must have.
Access(r) == IF r.conns = {} THEN None ELSE IF r.access = None THEN Period ELSE r.access

AccessStored(o) ==
    IF Access(o.room) = o.room.access THEN o.disk
    ELSE IF o.room.conns # {} THEN [o.disk EXCEPT !.access = Period]
    ELSE [o.disk EXCEPT !.access = None, !.failures = 0]

\* Mutant: the expiry of tokens is forgotten.
NextAlarmTokenless(r) == Earliest({r.flush, Access(r)})

NextAlarm(r) == Earliest({r.flush, Access(r)} \cup {token[c] : c \in r.conns})
AlarmAt(o) == IF o.room.alarmAt = Unknown THEN o.disk.alarm ELSE o.room.alarmAt

\* scheduleNextAlarm: the alarm is written only where it is not known to be.
Armed(o) ==
    [room |-> [o.room EXCEPT !.access = Access(o.room), !.alarmAt = NextAlarm(o.room)],
     disk |-> [AccessStored(o) EXCEPT
                   !.alarm = IF NextAlarm(o.room) # AlarmAt(o) THEN NextAlarm(o.room) ELSE @]]

\* What is left when one of its storage calls throws: the lookup of the alarm,
\* the write or the deletes of the deadline, the write or the delete of the alarm.
ArmFailures(o) ==
    LET looked == [o.room EXCEPT !.access = Access(o.room), !.alarmAt = AlarmAt(o)]
        claimed == [looked EXCEPT !.alarmAt = IF NextAlarm(o.room) = None THEN None ELSE Unknown]
    IN {x \in {o} : o.room.alarmAt = Unknown}
       \cup {[room |-> looked, disk |-> d] :
                d \in IF Access(o.room) = o.room.access THEN {}
                      ELSE IF o.room.conns # {} THEN {o.disk}
                      ELSE {o.disk, [o.disk EXCEPT !.access = None]}}
       \cup {x \in {[room |-> claimed, disk |-> AccessStored(o)]} : NextAlarm(o.room) # AlarmAt(o)}

Arm(o) ==
    \/ Becomes(Armed(o)) /\ UNCHANGED faults
    \/ Fault("put") /\ \E x \in ArmFailures(o) : Becomes(x)

\* Mutant: a user leaves with the first of several connections.
RemovedWhole(r, C, P) == [r EXCEPT !.conns = @ \ C, !.people = @ \ UsersOf(P)]

\* Connections C are gone from the room; of those in P the user has been taken off
\* the list of participants as well, unless another connection is left.
Removed(r, C, P) == [r EXCEPT !.conns = @ \ C, !.people = @ \ (UsersOf(P) \ UsersOf(r.conns \ C))]

Saved(d, r) == [d EXCEPT !.people = r.people]

\* removeConnection, of each of C.
Without(o, C) ==
    IF C = {} THEN o
    ELSE [room |-> Removed(o.room, C, C), disk |-> Saved(o.disk, Removed(o.room, C, C))]

\* addConnection, and what restores connections from their sockets' attachments.
With(r, C) == [r EXCEPT !.conns = @ \cup C, !.people = @ \cup UsersOf(C)]

(***************************************************************************)
(* Joining.                                                                *)
(***************************************************************************)
\* The Worker's route has checked the user's access and forwards the upgrade.
Admit(c) ==
    /\ sock[c] = "new" /\ UserOf[c] \notin lost
    /\ sock' = [sock EXCEPT ![c] = "admitted"]
    /\ UNCHANGED <<awake, room, disk, token, joining, job, lost, stray, age, faults>>

\* handleWebSocketUpgrade up to the call that tells the user's own object; a full
\* room refuses, which changes nothing.
JoinBegins(c) ==
    /\ awake /\ sock[c] = "admitted" /\ Cardinality(room.conns) < MaxConns
    /\ room' = With(room, {c})
    /\ disk' = Saved(disk, room')
    /\ sock' = [sock EXCEPT ![c] = "open"]
    /\ joining' = joining \cup {c}
    /\ UNCHANGED <<awake, token, job, lost, stray, age, faults>>

\* The storage of the connection throws: the socket is closed and forgotten.
JoinThrows(c) ==
    /\ awake /\ sock[c] = "admitted" /\ Cardinality(room.conns) < MaxConns
    /\ Fault("put")
    /\ Becomes(Without([Object EXCEPT !.room = With(@, {c})], {c}))
    /\ sock' = [sock EXCEPT ![c] = "closed"]
    /\ UNCHANGED <<awake, token, joining, job, lost, stray, age>>

\* The user's object has answered, or not: that is logged and the join goes on.
\* A failing arm fails the upgrade, and the client never gets its end.
JoinEnds(c) ==
    /\ c \in joining
    /\ joining' = joining \ {c}
    /\ \/ Becomes(Armed(Object)) /\ UNCHANGED <<sock, faults>>
       \/ /\ Fault("put") /\ \E x \in ArmFailures(Object) : Becomes(x)
          /\ sock' = [sock EXCEPT ![c] = IF @ = "open" THEN "gone" ELSE @]
    /\ UNCHANGED <<awake, token, job, lost, stray, age>>

(***************************************************************************)
(* What clients do.                                                        *)
(***************************************************************************)
\* Mutant: a late message brings a closed socket back, whose attachment is still there.
HeardLate(c) == awake /\ sock[c] \in {"open", "closed"} /\ c \notin joining

Heard(c) == awake /\ c \in Open \ joining

\* Mutant: a window that slides with every message.
KeptSliding(r) == [r EXCEPT !.dirty = TRUE, !.flush = FlushDelay, !.failures = 0, !.exhausted = FALSE]

\* The message is kept in memory, to be stored when the window ends that is open.
Kept(r) ==
    IF r.flush # None THEN [r EXCEPT !.dirty = TRUE]
    ELSE [r EXCEPT !.dirty = TRUE, !.flush = FlushDelay, !.failures = 0, !.exhausted = FALSE]

\* A message arms without awaiting it, and its event arms again at the end.  When a
\* storage call of the first throws, the second makes up for it, except that it takes
\* a deadline or an alarm whose write is under way for written; or both await the
\* lookup that throws.
RearmFailures(o) ==
    {Armed(o), [Armed(o) EXCEPT !.disk.access = o.disk.access]}
    \cup {x \in ArmFailures(o) : x.room.alarmAt = Unknown}

Rearm(o) ==
    \/ Becomes(Armed(o)) /\ UNCHANGED faults
    \/ Fault("put") /\ \E x \in RearmFailures(o) : Becomes(x)

\* A chat message.
Chat(c) ==
    /\ Heard(c)
    /\ Rearm([Object EXCEPT !.room = Kept(With(@, {c}))])
    /\ age' = IF room.dirty /\ ~room.exhausted THEN age ELSE 0
    /\ UNCHANGED <<awake, sock, token, joining, job, lost, stray>>

\* Any other message: a sync request, a typing indicator, a subscription.
OtherMessage(c) ==
    /\ Heard(c)
    /\ Arm([Object EXCEPT !.room = With(@, {c})])
    /\ UNCHANGED <<awake, sock, token, joining, job, lost, stray, age>>

ClientCloses(c) ==
    /\ c \in Open
    /\ sock' = [sock EXCEPT ![c] = "gone"]
    /\ UNCHANGED <<awake, room, disk, token, joining, job, lost, stray, age, faults>>

\* webSocketClose, webSocketError: a socket that is not open is not rebuilt.
CloseHeard(c) ==
    /\ awake /\ sock[c] = "gone" /\ c \notin joining
    /\ sock' = [sock EXCEPT ![c] = "closed"]
    /\ LET o == Without(Object, {c} \cap room.conns)
       IN \/ \E x \in {o} : Arm(x)
          \/ Fault("put") /\ c \in room.conns /\ Becomes([o EXCEPT !.disk = disk])
    /\ UNCHANGED <<awake, token, joining, job, lost, stray, age>>

(***************************************************************************)
(* Access checks: the alarm's of every user, and /evict's of one or all.   *)
(***************************************************************************)
Backoff(n) == LET t == RetryBase * 2 ^ (n - 1) IN IF t < Period THEN t ELSE Period

\* The deadline and the count of failures after a check.
Counted(o, deferred) ==
    LET n == IF o.disk.failures < MaxFailures THEN o.disk.failures + 1 ELSE MaxFailures
    IN IF deferred
       THEN [room |-> [o.room EXCEPT !.access = Backoff(n)],
             disk |-> [o.disk EXCEPT !.access = Backoff(n), !.failures = n]]
       ELSE [o EXCEPT !.disk.failures = 0]

\* What is left when the storage throws before the sockets are closed ...
CountThrows(o, deferred) ==
    LET x == Counted(o, deferred)
    IN {o, [x EXCEPT !.disk = o.disk], [x EXCEPT !.disk.failures = o.disk.failures]}

\* ... and after that, at c, the last of P that is taken off the list.
RemovalThrows(o, C) ==
    UNION {{[room |-> Removed(o.room, C, P),
             disk |-> IF P = {c} THEN o.disk ELSE Saved(o.disk, Removed(o.room, C, P \ {c}))] :
                c \in P} : P \in SUBSET C \ {{}}}

Revoked(k) == {c \in room.conns : UserOf[c] \in job[k].for /\ job[k].answer[UserOf[c]] = "drop"}

Closed(C, as) == sock' = [c \in Conns |-> IF c \in C THEN as ELSE sock[c]]

\* The end of handleEvict, and scheduleNextAlarm after it.
CloseAndArm(o, deferred, C, as) ==
    \/ Closed(C, as) /\ \E x \in {Without(Counted(o, deferred), C)} : Arm(x)
    \/ /\ Fault("put")
       /\ \/ UNCHANGED sock /\ \E x \in CountThrows(o, deferred) : Becomes(x)
          \/ Closed(C, as) /\ \E x \in RemovalThrows(Counted(o, deferred), C) : Becomes(x)

Begun(k, users, due) ==
    job' = [job EXCEPT ![k] = [Idle EXCEPT !.for = users, !.running = TRUE, !.flushDue = due]]

\* POST /evict: of one user, as the user's own object sends it, or without a list, when
\* something about the conversation has changed.
EvictBegins(u) ==
    /\ awake /\ ~job["evict"].running
    /\ room' = With(room, Open)
    /\ \E U \in {{u}, Users} : Begun("evict", U, FALSE)
    /\ UNCHANGED <<awake, disk, sock, token, joining, lost, stray, age, faults>>

\* The same with "force": the user's session was revoked, and D1 is not asked.
EvictForced(u) ==
    /\ awake
    /\ LET o == [Object EXCEPT !.room = With(@, Open)]
           C == {c \in o.room.conns : UserOf[c] = u}
       IN CloseAndArm(o, FALSE, C, "closed")
    /\ UNCHANGED <<awake, token, joining, job, lost, stray, age>>

\* D1 answers for a user, once per check; or it does not, and the user stays.
Asks(k, u) == /\ job[k].running /\ u \in job[k].for /\ job[k].answer[u] = "none"
              /\ u \in UsersOf(room.conns)

\* Mutant: no answer is taken for a refusal.
AnswerFailsClosed(k, u) ==
    /\ Asks(k, u)
    /\ \/ /\ job' = [job EXCEPT ![k].answer[u] = IF u \in lost THEN "drop" ELSE "keep"]
          /\ UNCHANGED faults
       \/ /\ Fault("d1")
          /\ job' = [job EXCEPT ![k].answer[u] = "drop", ![k].deferred = TRUE]
    /\ UNCHANGED <<awake, room, disk, sock, token, joining, lost, stray, age>>

Answer(k, u) ==
    /\ Asks(k, u)
    /\ \/ /\ job' = [job EXCEPT ![k].answer[u] = IF u \in lost THEN "drop" ELSE "keep"]
          /\ UNCHANGED faults
       \/ /\ Fault("d1")
          /\ job' = [job EXCEPT ![k].answer[u] = "keep", ![k].deferred = TRUE]
    /\ UNCHANGED <<awake, room, disk, sock, token, joining, lost, stray, age>>

EvictEnds ==
    /\ job["evict"].running /\ \A u \in Users : ~Asks("evict", u)
    /\ CloseAndArm(Object, job["evict"].deferred, Revoked("evict"), "revoked")
    /\ job' = [job EXCEPT !["evict"] = Idle]
    /\ UNCHANGED <<awake, token, joining, lost, stray, age>>

(***************************************************************************)
(* The alarm.                                                              *)
(***************************************************************************)
\* The platform runs an alarm again whose handler has failed.
Retried(o) == room' = o.room /\ disk' = [o.disk EXCEPT !.alarm = 0]

\* flushDueMessageHistory, with the time at which the alarm began.
Flushes(r, due) == ~r.exhausted /\ r.dirty /\ (r.flush = None \/ (due /\ r.flush = 0))

Flushed(r) == [r EXCEPT !.dirty = FALSE, !.flush = None, !.failures = 0]
FlushFailed(r) ==
    LET n == r.failures + 1
    IN IF n >= FlushAttempts
       THEN [r EXCEPT !.failures = n, !.flush = None, !.exhausted = TRUE]
       ELSE [r EXCEPT !.failures = n, !.flush = 2 ^ (n - 1)]

\* The rest of alarm() when the access check is over, or is not due.
AlarmRest(o, due) ==
    \E x \in {IF Flushes(o.room, due) THEN [o EXCEPT !.room = Flushed(@)] ELSE o} :
        \/ /\ Becomes(Armed(x)) /\ UNCHANGED faults
           /\ age' = IF x.room.dirty THEN age ELSE 0
        \/ /\ Flushes(o.room, due) /\ Fault("flush")
           /\ Becomes(Armed([o EXCEPT !.room = FlushFailed(@)])) /\ UNCHANGED age
        \/ /\ Fault("put") /\ \E y \in ArmFailures(x) : Retried(y)
           /\ age' = IF x.room.dirty THEN age ELSE 0

\* alarm() up to the access check: the alarm is consumed, expired tokens' sockets closed.
Expiring == {c \in room.conns : token[c] = 0}
Fired == [room |-> [room EXCEPT !.alarmAt = None], disk |-> [disk EXCEPT !.alarm = None]]

AlarmDue == awake /\ disk.alarm = 0 /\ ~job["alarm"].running

AlarmFlushes ==
    /\ AlarmDue /\ room.access # 0
    /\ Closed(Expiring, "closed")
    /\ \E o \in {Without(Fired, Expiring)} : AlarmRest(o, room.flush = 0)
    /\ UNCHANGED <<awake, token, joining, job, lost, stray>>

\* The same with an access check, up to its first question to D1.
AlarmChecks ==
    /\ AlarmDue /\ room.access = 0
    /\ Closed(Expiring, "closed")
    /\ LET o == Without(Fired, Expiring)
       IN Becomes([o EXCEPT !.room = With([@ EXCEPT !.access = None], Open \ Expiring)])
    /\ Begun("alarm", Users, room.flush = 0)
    /\ UNCHANGED <<awake, token, joining, lost, stray, age, faults>>

\* Storage throws while the expired connections are removed, after all are closed.
AlarmThrows ==
    /\ AlarmDue /\ Fault("put")
    /\ Closed(Expiring, "closed")
    /\ \E P \in SUBSET Expiring \ {{}} : \E x \in RemovalThrows(Fired, P) : Retried(x)
    /\ UNCHANGED <<awake, token, joining, job, lost, stray, age>>

\* The alarm's check is over: count, close, flush and arm.
AlarmEnds ==
    /\ job["alarm"].running /\ \A u \in Users : ~Asks("alarm", u)
    /\ LET C == Revoked("alarm")
           x == Counted(Object, job["alarm"].deferred)
       IN \/ /\ Closed(C, "revoked")
             /\ \E o \in {Without(x, C)} : AlarmRest(o, job["alarm"].flushDue)
          \/ /\ Fault("put") /\ UNCHANGED age
             /\ \/ UNCHANGED sock /\ \E y \in CountThrows(Object, job["alarm"].deferred) : Retried(y)
                \/ Closed(C, "revoked") /\ \E y \in RemovalThrows(x, C) : Retried(y)
    /\ job' = [job EXCEPT !["alarm"] = Idle]
    /\ UNCHANGED <<awake, token, joining, lost, stray>>

(***************************************************************************)
(* The object comes and goes, time passes, access is withdrawn.            *)
(***************************************************************************)
Calm == ~job["alarm"].running /\ ~job["evict"].running /\ joining = {}
Gone == {c \in Conns : sock[c] = "gone"}

\* Ten idle seconds: nothing to flush, nothing to hear and no alarm due.
Hibernate ==
    /\ awake /\ Calm /\ room.flush = None /\ Gone = {} /\ disk.alarm # 0
    /\ awake' = FALSE /\ room' = Cold /\ age' = 0
    /\ UNCHANGED <<disk, sock, token, joining, job, lost, stray, faults>>

\* A reset: the requests under way fail, a running alarm will be run again.
Crash ==
    /\ awake /\ Fault("crash")
    /\ awake' = FALSE /\ room' = Cold /\ age' = 0
    /\ disk' = [disk EXCEPT !.alarm = IF job["alarm"].running THEN 0 ELSE @]
    /\ sock' = [c \in Conns |-> IF c \in joining /\ sock[c] = "open" THEN "gone" ELSE sock[c]]
    /\ joining' = {} /\ job' = [k \in Checks |-> Idle]
    /\ UNCHANGED <<token, lost, stray>>

\* The constructor, initializeFromStorage and its scheduleNextAlarm.  A socket
\* whose client has left may still look open to the constructor.
Wake ==
    /\ ~awake /\ awake' = TRUE
    /\ \E seen \in SUBSET Gone :
          \E r \in {With(Cold, Open \cup seen)} :
             /\ stray' = stray \cup UsersOf(Gone \ seen)
             /\ \/ Arm([Object EXCEPT !.room = [r EXCEPT !.people = @ \cup disk.people,
                                                         !.access = disk.access]])
                \/ /\ Fault("load")
                   /\ \E x \in {r, [r EXCEPT !.access = disk.access]} :
                         Becomes(Armed([Object EXCEPT !.room = x]))
    /\ UNCHANGED <<sock, token, joining, job, lost, age>>

Withdraw(u) ==
    /\ u \notin lost /\ lost' = lost \cup {u}
    /\ UNCHANGED <<awake, room, disk, sock, token, joining, job, stray, age, faults>>

Sooner(t) == IF t > 0 THEN t - 1 ELSE t

Tick ==
    /\ room' = [room EXCEPT !.access = Sooner(@), !.flush = Sooner(@), !.alarmAt = Sooner(@)]
    /\ disk' = [disk EXCEPT !.access = Sooner(@), !.alarm = Sooner(@)]
    /\ token' = [c \in Conns |-> IF sock[c] \in {"open", "gone"} THEN Sooner(token[c]) ELSE token[c]]
    /\ age' = IF room.dirty /\ age <= FlushDelay THEN age + 1 ELSE age
    /\ UNCHANGED <<awake, sock, joining, job, lost, stray, faults>>

Next ==
    \/ \E c \in Conns : \/ Admit(c) \/ JoinBegins(c) \/ JoinThrows(c)
                        \/ JoinEnds(c) \/ Chat(c) \/ OtherMessage(c) \/ ClientCloses(c)
                        \/ CloseHeard(c)
    \/ \E u \in Users : \/ EvictBegins(u) \/ EvictForced(u) \/ Withdraw(u)
                        \/ \E k \in Checks : Answer(k, u)
    \/ EvictEnds \/ AlarmFlushes \/ AlarmChecks \/ AlarmThrows \/ AlarmEnds
    \/ Hibernate \/ Crash \/ Wake \/ Tick

Spec == Init /\ [][Next]_vars

\* The object's work: the platform wakes it for its alarm and runs the handler, D1
\* answers that, and the users' objects answer the joins.
Work ==
    \/ disk.alarm = 0 /\ Wake
    \/ AlarmFlushes \/ AlarmChecks \/ AlarmEnds \/ \E u \in Users : Answer("alarm", u)
    \/ \E c \in Conns : JoinEnds(c)

HasWork == disk.alarm = 0 \/ job["alarm"].running \/ joining # {}
CountsDown == \/ {room.access, room.flush, disk.access, disk.alarm} \cap 1..(Period + FlushDelay) # {}
              \/ \E c \in Open : token[c] > 0

\* Weak fairness of Work and of Tick, with their enabling conditions spelt out, which
\* TLC evaluates faster than ENABLED.  Nobody need send, close or evict anything.
Fairness == /\ []<>~HasWork \/ []<><<Work>>_vars
            /\ []<>~CountsDown \/ []<><<Tick>>_vars

FairSpec == Spec /\ Fairness

(***************************************************************************)
(* What a room promises.                                                   *)
(***************************************************************************)
Sound == faults.put = 0

\* The deadlines that the object has to meet for the connections it has let in.
Deadlines ==
    {room.access, room.flush} \cup {token[c] : c \in room.conns \ joining}

\* While nobody works the platform holds an alarm for the earliest deadline, and
\* with sockets there is one within the period: in a hibernated object as well, that
\* nothing else would wake to find out that a user lost access.
CheckIsArmed ==
    Sound => /\ awake /\ ~job["alarm"].running =>
                    /\ room.conns \ joining # {} => room.access \in 0..Period
                    /\ \A t \in Deadlines \ {None} : disk.alarm \in 0..t
             /\ ~awake /\ Open # {} => disk.alarm \in 0..Period

\* An object in memory knows every open socket, and so can close it; and no socket
\* that was closed is ever known again, whatever attachment it has left.
KnowsItsSockets ==
    /\ awake => Open \subseteq room.conns
    /\ Sound => \A c \in room.conns : sock[c] \in {"open", "gone"}

\* The list of participants has every connected user, and nobody else but those whose
\* close was lost with the object's memory.
ListIsRight ==
    awake => /\ UsersOf(room.conns) \subseteq room.people
             /\ Sound => room.people \subseteq UsersOf(room.conns) \cup stray

\* What a reset can lose is at most FlushDelay old, unless a flush has failed
\* or the alarm is late or waits for D1.
LossBound ==
    awake /\ room.dirty /\ room.failures = 0 /\ Sound /\ ~job["alarm"].running =>
        disk.alarm # None /\ (disk.alarm = 0 \/ age + disk.alarm <= FlushDelay)

\* "A transient outage never mass-evicts the room": only who lost access is ever
\* put out by a check.
OutageEvictsNobody ==
    \A c \in Conns : sock[c] = "revoked" => UserOf[c] \in lost

\* Who loses access or whose token expires loses the socket, through hibernation,
\* outages of D1, resets and joins that overtake the eviction, although nobody ever
\* says a word again: sooner or later every open socket is its user's by right.
Unwelcome == \E c \in Open : UserOf[c] \in lost \/ token[c] = 0

UnwelcomeAreClosed == []<>(~Unwelcome \/ ~Sound)

=============================================================================
