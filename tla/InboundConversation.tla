------------------------- MODULE InboundConversation -------------------------
(***************************************************************************)
(* Inbound LINE events of one customer.  The webhook puts each event on a  *)
(* queue, twice if LINE delivers it twice; the consumer runs               *)
(* processLineMessage or processLineFollowEvent, which find the customer's *)
(* conversation or create it and store the message.  Nothing in D1         *)
(* keeps a second conversation out: a message creates one under a          *)
(* distributed lock, a follow event does not.                              *)
(*                                                                         *)
(* Consumers run concurrently.  Every statement is a step; it may throw,   *)
(* applied or not, and the isolate may die; the queue then retries.        *)
(***************************************************************************)
EXTENDS LockCoordinator, FiniteSets

CONSTANTS
    Entries,   \* the entries of line-message-queue
    Messages,  \* platformMessageIds
    Event,     \* the event of each entry: its message, or Follow
    Follow,    \* a follow event of a customer with a team
    Retries    \* max_retries of the queue

ASSUME InboundAssumption ==
    /\ Follow \notin Messages
    /\ Event \in [Entries -> Messages \cup {Follow}]
    /\ Retries \in Nat
    /\ LockIds = {e \in Entries : Event[e] # Follow} \X (0 .. Retries)

VARIABLES
    queue,   \* each entry: waiting, running, acked or in the dead-letter queue
    tries,   \* how often it was retried
    step,    \* what the consumer does with it
    conv,    \* the conversation it found or created
    rows,    \* the customer's conversations, named by the entry that created them
    stored,  \* the conversation in which each message was stored
    over,    \* entries that created a conversation when their lease was over
    lost     \* follow events that lost their team to a failing lookup

inboundVars == <<queue, tries, step, conv, rows, stored, over, lost>>

vars == <<lockVars, inboundVars>>

Nothing == {}

Lock(e) == <<e, tries[e]>>

Init ==
    /\ LockInit
    /\ queue = [e \in Entries |-> "waiting"]
    /\ tries = [e \in Entries |-> 0]
    /\ step = [e \in Entries |-> "idle"]
    /\ conv = [e \in Entries |-> Nothing]
    /\ rows = {} /\ over = {} /\ lost = {}
    /\ stored = [m \in Messages |-> Nothing]

To(e, s) == step' = [step EXCEPT ![e] = s]

(***************************************************************************)
(* The queue.                                                              *)
(***************************************************************************)
\* An entry may wait in the queue for as long as it likes.
Consume(e) ==
    /\ queue[e] = "waiting"
    /\ queue' = [queue EXCEPT ![e] = "running"]
    /\ To(e, IF Event[e] = Follow THEN "follow" ELSE "dedupe")
    /\ UNCHANGED <<lockVars, tries, conv, rows, stored, over>>

Acked(e) ==
    /\ queue' = [queue EXCEPT ![e] = "acked"]
    /\ To(e, "idle") /\ tries' = tries /\ conv' = [conv EXCEPT ![e] = Nothing]

\* A retry, or the dead-letter queue when max_retries is reached.
Again(e) ==
    /\ IF tries[e] < Retries
       THEN /\ queue' = [queue EXCEPT ![e] = "waiting"]
            /\ tries' = [tries EXCEPT ![e] = @ + 1]
       ELSE queue' = [queue EXCEPT ![e] = "dead"] /\ tries' = tries
    /\ To(e, "idle") /\ conv' = [conv EXCEPT ![e] = Nothing]

(***************************************************************************)
(* processLineMessage.                                                     *)
(***************************************************************************)
\* isDuplicateMessage: nothing more to do.
Duplicate(e) ==
    /\ step[e] = "dedupe" /\ stored[Event[e]] # Nothing
    /\ Acked(e)
    /\ UNCHANGED <<lockVars, rows, stored, over>>

NotDuplicate(e) ==
    /\ step[e] = "dedupe" /\ stored[Event[e]] = Nothing
    /\ To(e, "find")
    /\ UNCHANGED <<lockVars, queue, tries, conv, rows, stored, over>>

\* findCustomerConversation before the lock is asked for, or under it.
Found(e) ==
    /\ step[e] \in {"find", "recheck"} /\ rows # {}
    /\ \E c \in rows : conv' = [conv EXCEPT ![e] = {c}]
    /\ To(e, IF step[e] = "find" THEN "save" ELSE "release")
    /\ UNCHANGED <<lockVars, queue, tries, rows, stored, over>>

\* No conversation yet: acquireLock.
AsksForLock(e) ==
    /\ step[e] = "find" /\ rows = {}
    /\ Ask(Lock(e))
    /\ To(e, "lock")
    /\ UNCHANGED <<queue, tries, conv, rows, stored, over>>

\* A variant of Locked with a mistake: there is no second look under the lock.
LockedCreates(e) ==
    /\ step[e] = "lock" /\ call[Lock(e)].stage = "holding"
    /\ To(e, "create")
    /\ UNCHANGED <<lockVars, queue, tries, conv, rows, stored, over>>

Locked(e) ==
    /\ step[e] = "lock" /\ call[Lock(e)].stage = "holding"
    /\ To(e, "recheck")
    /\ UNCHANGED <<lockVars, queue, tries, conv, rows, stored, over>>

\* acquireLock throws, and the event with it.
NotLocked(e) ==
    /\ step[e] = "lock" /\ call[Lock(e)].stage = "refused"
    /\ Again(e)
    /\ UNCHANGED <<lockVars, rows, stored, over>>

NotFound(e) ==
    /\ step[e] = "recheck" /\ rows = {}
    /\ To(e, "create")
    /\ UNCHANGED <<lockVars, queue, tries, conv, rows, stored, over>>

Created(e) ==
    /\ rows' = rows \cup {e}
    /\ over' = IF now > lease[Lock(e)] THEN over \cup {e} ELSE over

\* The insert of the conversation; it is read again before the lock is released.
Create(e) ==
    /\ step[e] = "create"
    /\ Created(e)
    /\ conv' = [conv EXCEPT ![e] = {e}]
    /\ To(e, "release")
    /\ UNCHANGED <<lockVars, queue, tries, stored>>

\* A statement under the lock throws: the lock is released, the event fails.
UnderLockThrows(e) ==
    /\ step[e] \in {"recheck", "create"}
    /\ Fault("d1")
    /\ \/ UNCHANGED <<rows, over>>
       \/ step[e] = "create" /\ Created(e)
    /\ conv' = [conv EXCEPT ![e] = Nothing]
    /\ To(e, "release")
    /\ UNCHANGED <<now, mem, disk, call, lease, queue, tries, stored>>

\* withLock's finally: on to the message, or the event fails.
Releases(e) ==
    /\ step[e] = "release"
    /\ Release(Lock(e))
    /\ IF conv[e] = Nothing THEN Again(e)
       ELSE To(e, "save") /\ UNCHANGED <<queue, tries, conv>>
    /\ UNCHANGED <<rows, stored, over>>

\* A variant of Save with a mistake: a duplicate replaces the message.
SaveAgain(e) ==
    /\ step[e] = "save"
    /\ stored' = [stored EXCEPT ![Event[e]] = conv[e]]
    /\ Acked(e)
    /\ UNCHANGED <<lockVars, rows, over>>

\* saveMessage: the message's unique id lets in the first of two.
Save(e) ==
    /\ step[e] = "save"
    /\ stored' = [stored EXCEPT ![Event[e]] = IF @ = Nothing THEN conv[e] ELSE @]
    /\ Acked(e)
    /\ UNCHANGED <<lockVars, rows, over>>

(***************************************************************************)
(* processLineFollowEvent: no lock.                                        *)
(***************************************************************************)
FollowFinds(e) ==
    /\ step[e] = "follow"
    /\ IF rows # {} THEN Acked(e) ELSE To(e, "insert") /\ UNCHANGED <<queue, tries, conv>>
    /\ UNCHANGED <<lockVars, rows, stored, over>>

\* A variant of FollowInserts with a mistake: the insert is not waited for.
FollowInsertsUnawaited(e) ==
    /\ step[e] = "insert"
    /\ rows' \in {rows, rows \cup {e}}
    /\ Acked(e)
    /\ UNCHANGED <<lockVars, stored, over>>

FollowInserts(e) ==
    /\ step[e] = "insert"
    /\ rows' = rows \cup {e}
    /\ Acked(e)
    /\ UNCHANGED <<lockVars, stored, over>>

\* A lookup of the team fails, or the customer cannot be read back: the handler goes on
\* without a team or returns, and the event is done without a conversation.
FollowLosesTeam(e) ==
    /\ step[e] = "follow"
    /\ Fault("d1")
    /\ Acked(e)
    /\ lost' = lost \cup {e}
    /\ UNCHANGED <<now, mem, disk, call, lease, rows, stored, over>>

(***************************************************************************)
(* What goes wrong.                                                        *)
(***************************************************************************)
\* A variant of Throws with a mistake: the failure is swallowed and the entry
\* acknowledged.
ThrowsUnseen(e) ==
    /\ Fault("d1")
    /\ step[e] \in {"dedupe", "find", "follow", "save", "insert"}
    /\ Acked(e)
    /\ UNCHANGED <<now, mem, disk, call, lease, rows, stored, over>>

\* A statement outside the lock throws, and what it wrote may be there.
Throws(e) ==
    /\ Fault("d1")
    /\ \/ step[e] \in {"dedupe", "find", "follow", "save", "insert"}
          /\ UNCHANGED <<rows, stored>>
       \/ /\ step[e] = "save"
          /\ stored' = [stored EXCEPT ![Event[e]] = IF @ = Nothing THEN conv[e] ELSE @]
          /\ rows' = rows
       \/ /\ step[e] = "insert"
          /\ rows' = rows \cup {e}
          /\ stored' = stored
    /\ Again(e)
    /\ UNCHANGED <<now, mem, disk, call, lease, over>>

\* The isolate dies; a lock it holds or waits for stays where it is.
Dies(e) ==
    /\ queue[e] = "running"
    /\ Fault("crash")
    /\ Again(e)
    /\ UNCHANGED <<now, mem, disk, call, lease, rows, stored, over>>

Handles(e) ==
    \/ Consume(e) \/ Duplicate(e) \/ NotDuplicate(e) \/ Found(e) \/ AsksForLock(e)
    \/ Locked(e) \/ NotLocked(e) \/ NotFound(e) \/ Create(e) \/ Releases(e) \/ Save(e)
    \/ FollowFinds(e) \/ FollowInserts(e)

\* One step of a consumer.
Working(e) ==
    \/ (Handles(e) \/ UnderLockThrows(e) \/ Throws(e) \/ Dies(e)) /\ lost' = lost
    \/ FollowLosesTeam(e)

Lockwork ==
    \/ \E l \in LockIds : Acquiring(l)
    \/ Restart \/ Tick

Next ==
    \/ \E e \in Entries : Working(e)
    \/ Lockwork /\ UNCHANGED inboundVars

Spec == Init /\ [][Next]_vars

(***************************************************************************)
(* Properties                                                              *)
(***************************************************************************)
Steps == {"idle", "dedupe", "find", "lock", "recheck", "create", "release", "save",
          "follow", "insert"}

TypeOK ==
    /\ LockTypeOK
    /\ queue \in [Entries -> {"waiting", "running", "acked", "dead"}]
    /\ tries \in [Entries -> 0 .. Retries]
    /\ step \in [Entries -> Steps]
    /\ conv \in [Entries -> SUBSET rows]
    /\ rows \in SUBSET Entries
    /\ stored \in [Messages -> SUBSET rows]
    /\ over \in SUBSET Entries
    /\ lost \in SUBSET Entries

Follows == {e \in Entries : Event[e] = Follow}

\* A lock protects the whole of find-or-create: two messages of a new customer
\* never create two conversations, whatever refusals, resets and retries come
\* between, unless a lease ran out before the insert or the object's storage failed.
OneCreator ==
    None({"put", "restore"}) /\ over = {} => Cardinality(rows \ Follows) <= 1

\* An entry is acknowledged only when its message is stored, although redelivered
\* copies, lost statements and refused locks run into each other.
AckedIsStored ==
    \A e \in Entries \ Follows : queue[e] = "acked" => stored[Event[e]] # Nothing

\* A stored message stays where it is, so the redeliveries change nothing.
StoredOnce ==
    [][\A m \in Messages : stored[m] # Nothing => stored'[m] = stored[m]]_vars

(***************************************************************************)
(* The inductive invariant behind OneCreator.                              *)
(***************************************************************************)
\* Only messages come near the lock, and who is past it has its id.
StepInv ==
    \A e \in Entries :
        /\ step[e] \in {"follow", "insert"} => Event[e] = Follow
        /\ step[e] \notin {"idle", "follow", "insert"} => Event[e] # Follow
        /\ step[e] \in {"recheck", "create", "release"} => call[Lock(e)].stage = "holding"

\* As long as the lease of one that is about to create lasts, nobody has created.
CreatorInv ==
    None({"put", "restore"}) /\ over = {} =>
        /\ \A d, e \in rows \ Follows : d = e
        /\ \A e \in Entries :
              step[e] = "create" /\ now <= lease[Lock(e)] => rows \ Follows = {}

InboundInv == LockInv /\ StepInv /\ CreatorInv

(***************************************************************************)
(* The inbound path implements Intake.                                     *)
(***************************************************************************)
\* The exceptions that OneCreator allows: once they apply they always do.
Excused == ~None({"put", "restore"}) \/ over # {}

Promise == INSTANCE Intake
    WITH fate <- [e \in Entries |-> IF queue[e] \in {"acked", "dead"} THEN queue[e] ELSE "pending"],
         opened <- rows,
         placed <- stored,
         missed <- lost,
         excused <- Excused

\* The webhook handlers do what is promised of them, through every duplicate, lost
\* statement, dead isolate and expired lease: entries that are settled stay so and are
\* dead only after max_retries, messages are placed once, in a conversation that exists
\* when they are acknowledged, and none opens a second one unless that is excused.  An
\* acknowledged follow event has a conversation unless the lookup of its team failed.
ImplementsIntake == Promise!Spec

(***************************************************************************)
(* What the documents say, and the code does not do.                       *)
(***************************************************************************)
\* customer-conversation-lookup.ts:2: "one conversation per customer".
OneConversation == Cardinality(rows) <= 1

\* distributed-lock-service.ts:159: "Release a distributed lock".
ReleaseFrees == \A l \in LockIds : call[l].stage = "released" => mem.held # l
=============================================================================
