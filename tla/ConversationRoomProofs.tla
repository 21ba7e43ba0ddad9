----------------------- MODULE ConversationRoomProofs -----------------------
(***************************************************************************)
(* What a conversation's room promises, for all constants.                 *)
(*                                                                         *)
(* The first lemmas are about one object o, its memory and its storage:    *)
(* what arming, removing connections and counting a check make of it, also *)
(* where the storage throws.  Every handler is made of these pieces.       *)
(***************************************************************************)
EXTENDS ConversationRoom, FiniteSetTheorems, NaturalsInduction, TLAPS

AccessTimes == (0 .. Period) \cup {None}

Rooms == [conns : SUBSET Conns, people : SUBSET Users, access : AccessTimes, flush : Deadline,
          dirty : BOOLEAN, failures : Nat, exhausted : BOOLEAN, alarmAt : Deadline \cup {Unknown}]
Disks == [people : SUBSET Users, access : AccessTimes, failures : Nat, alarm : Deadline]
Objects == [room : Rooms, disk : Disks]

\* A window is open exactly while there is something to store and an attempt left.
Buffered(r) == /\ r.flush # None <=> (r.dirty /\ ~r.exhausted)
               /\ r.exhausted => r.failures # 0

\* Every connected user is on the list.
Listed(r) == UsersOf(r.conns) \subseteq r.people

Good(o) == o \in Objects /\ Buffered(o.room) /\ Listed(o.room)

SameUsers(p, o) == /\ p.room.conns = o.room.conns /\ p.room.people = o.room.people
                   /\ p.disk.people = o.disk.people
SameMessages(r, s) == /\ r.flush = s.flush /\ r.dirty = s.dirty
                      /\ r.failures = s.failures /\ r.exhausted = s.exhausted

\* The platform holds an alarm for the earliest of all deadlines.
Ready(o) ==
    /\ o.room.alarmAt = o.disk.alarm
    /\ o.room.conns # {} => o.room.access \in 0 .. Period
    /\ o.room.access # None => o.disk.alarm \in 0 .. o.room.access
    /\ o.room.flush # None => o.disk.alarm \in 0 .. o.room.flush
    /\ \A c \in o.room.conns : token[c] # None => o.disk.alarm \in 0 .. token[c]

\* The object's idea of its alarm is right, if it has one.
Knows(o) == o.room.alarmAt \in {Unknown, o.disk.alarm}

(***************************************************************************)
(* Numbers                                                                 *)
(***************************************************************************)
LEMMA ConstantFacts ==
    /\ Period \in Nat \ {0} /\ RetryBase \in Nat \ {0} /\ MaxFailures \in Nat \ {0}
    /\ FlushDelay \in Nat \ {0} /\ FlushAttempts \in Nat \ {0}
    /\ None = -1 /\ Unknown = -2
  BY RoomAssumption DEF None, Unknown

LEMMA Powers == \A m \in Nat : 2 ^ m \in Nat \ {0}
<1> SUFFICES ASSUME NEW m \in Nat PROVE 2 ^ m \in Nat \ {0}
  OBVIOUS
<1>1. IsFiniteSet(1 .. m) /\ Cardinality(1 .. m) = m
  BY FS_Interval
<1>2. IsFiniteSet(SUBSET (1 .. m)) /\ Cardinality(SUBSET (1 .. m)) = 2 ^ m
  BY <1>1, FS_SUBSET
<1>3. Cardinality(SUBSET (1 .. m)) \in Nat
  BY <1>2, FS_CardinalityType
<1>4. Cardinality(SUBSET (1 .. m)) # 0
  BY <1>2, FS_EmptySet
<1> QED BY <1>2, <1>3, <1>4

LEMMA BackoffType == \A n \in Nat \ {0} : Backoff(n) \in 0 .. Period
<1> SUFFICES ASSUME NEW n \in Nat \ {0} PROVE Backoff(n) \in 0 .. Period
  OBVIOUS
<1>1. PICK p \in Nat : p = 2 ^ (n - 1)
  BY Powers
<1>2. RetryBase * p \in Nat
  BY ConstantFacts
<1> QED BY <1>1, <1>2, ConstantFacts DEF Backoff

LEMMA Smallest ==
    ASSUME NEW T \in SUBSET Nat, T # {}
    PROVE  \E t \in T : \A x \in T : t <= x
<1> DEFINE R == {p \in Nat \X Nat : p[1] < p[2]}
<1>1. IsWellFoundedOn(R, Nat)
  BY NatLessThanWellFounded DEF OpToRel
<1>2. PICK t \in T : \A x \in T : ~(<<x, t>> \in R)
  <2> HIDE DEF R
  <2> QED BY <1>1, WFMin
<1> SUFFICES ASSUME NEW x \in T PROVE t <= x
  OBVIOUS
<1>3. t \in Nat /\ x \in Nat
  OBVIOUS
<1>4. ~(x < t)
  BY <1>2, <1>3
<1> HIDE DEF R
<1> QED BY <1>3, <1>4

LEMMA EarliestFacts ==
    ASSUME NEW D \in SUBSET Deadline
    PROVE  /\ Earliest(D) \in D \cup {None}
           /\ \A t \in D \ {None} : Earliest(D) \in 0 .. t
<1> DEFINE First(t) == IF D \subseteq {None} THEN t = None
                       ELSE t # None /\ \A x \in D \ {None} : t <= x
<1>1. \E t \in D \cup {None} : First(t)
  <2>1. CASE D \subseteq {None}
    BY <2>1
  <2>2. CASE ~(D \subseteq {None})
    <3>1. D \ {None} \in SUBSET Nat /\ D \ {None} # {}
      BY <2>2 DEF Deadline
    <3>2. PICK t \in D \ {None} : \A x \in D \ {None} : t <= x
      BY <3>1, Smallest
    <3> QED BY <2>2, <3>2
  <2> QED BY <2>1, <2>2
<1>2. Earliest(D) \in D \cup {None} /\ First(Earliest(D))
  <2>1. Earliest(D) = CHOOSE t \in D \cup {None} : First(t)
    BY DEF Earliest
  <2> HIDE DEF First
  <2> QED BY <1>1, <2>1
<1>3. ASSUME NEW t \in D \ {None} PROVE Earliest(D) \in 0 .. t
  <2>1. Earliest(D) # None /\ Earliest(D) <= t
    BY <1>2, <1>3
  <2>2. Earliest(D) \in Nat /\ t \in Nat
    BY <1>2, <1>3, <2>1 DEF Deadline
  <2> QED BY <2>1, <2>2
<1> QED BY <1>2, <1>3

(***************************************************************************)
(* Arming                                                                  *)
(***************************************************************************)
LEMMA AccessFacts ==
    ASSUME NEW r \in Rooms
    PROVE  /\ Access(r) \in AccessTimes /\ Access(r) \in Deadline
           /\ r.conns # {} => Access(r) \in 0 .. Period
  BY ConstantFacts DEF Access, Rooms, AccessTimes, Deadline

LEMMA NextAlarmFacts ==
    ASSUME NEW r \in Rooms, token \in [Conns -> Deadline]
    PROVE  /\ NextAlarm(r) \in Deadline
           /\ r.flush # None => NextAlarm(r) \in 0 .. r.flush
           /\ Access(r) # None => NextAlarm(r) \in 0 .. Access(r)
           /\ \A c \in r.conns : token[c] # None => NextAlarm(r) \in 0 .. token[c]
<1> DEFINE D == {r.flush, Access(r)} \cup {token[c] : c \in r.conns}
<1>1. D \in SUBSET Deadline
  BY AccessFacts DEF Rooms
<1>2. NextAlarm(r) = Earliest(D)
  BY DEF NextAlarm
<1>3. NextAlarm(r) \in D \cup {None} /\ \A t \in D \ {None} : NextAlarm(r) \in 0 .. t
  BY <1>1, <1>2, EarliestFacts
<1> QED BY <1>1, <1>3 DEF Deadline

LEMMA AccessStoredFacts ==
    ASSUME NEW o \in Objects
    PROVE  AccessStored(o) \in Disks /\ AccessStored(o).people = o.disk.people
           /\ AccessStored(o).alarm = o.disk.alarm
<1>1. o.disk \in Disks /\ Period \in AccessTimes /\ None \in AccessTimes
  BY ConstantFacts DEF Objects, AccessTimes
<1>2. [o.disk EXCEPT !.access = Period] \in Disks
      /\ [o.disk EXCEPT !.access = None, !.failures = 0] \in Disks
  BY <1>1 DEF Disks
<1> QED BY <1>1, <1>2 DEF AccessStored, Disks

LEMMA ArmedFacts ==
    ASSUME NEW o \in Objects, token \in [Conns -> Deadline]
    PROVE  /\ Armed(o) \in Objects
           /\ SameUsers(Armed(o), o) /\ SameMessages(Armed(o).room, o.room)
           /\ Knows(o) => Ready(Armed(o))
<1>0. o.room \in Rooms /\ o.disk \in Disks
  BY DEF Objects
<1>1. NextAlarm(o.room) \in Deadline /\ Access(o.room) \in AccessTimes
  BY <1>0, NextAlarmFacts, AccessFacts
<1>2. AccessStored(o) \in Disks /\ AccessStored(o).people = o.disk.people
      /\ AccessStored(o).alarm = o.disk.alarm
  BY AccessStoredFacts
<1> DEFINE s == AccessStored(o)
           r == [o.room EXCEPT !.access = Access(o.room), !.alarmAt = NextAlarm(o.room)]
           d == [s EXCEPT !.alarm = IF NextAlarm(o.room) # AlarmAt(o) THEN NextAlarm(o.room) ELSE @]
<1>3. Armed(o) = [room |-> r, disk |-> d]
  BY DEF Armed
<1>4. r \in Rooms /\ r.conns = o.room.conns /\ r.people = o.room.people /\ SameMessages(r, o.room)
      /\ r.access = Access(o.room) /\ r.alarmAt = NextAlarm(o.room)
  BY <1>0, <1>1 DEF Rooms, SameMessages
<1>5. d \in Disks /\ d.people = o.disk.people
      /\ (o.room.alarmAt \in {Unknown, o.disk.alarm} => d.alarm = NextAlarm(o.room))
  <2> HIDE DEF s
  <2> QED BY <1>1, <1>2 DEF s, Disks, AlarmAt
<1> HIDE DEF r, d, s
<1>6. Armed(o) \in Objects /\ SameUsers(Armed(o), o) /\ SameMessages(Armed(o).room, o.room)
  BY <1>3, <1>4, <1>5 DEF Objects, SameUsers
<1>7. ASSUME Knows(o) PROVE Ready(Armed(o))
  <2>1. Armed(o).disk.alarm = NextAlarm(o.room) /\ Armed(o).room.alarmAt = NextAlarm(o.room)
        /\ Armed(o).room.access = Access(o.room) /\ Armed(o).room.flush = o.room.flush
        /\ Armed(o).room.conns = o.room.conns
    BY <1>3, <1>4, <1>5, <1>7 DEF Knows, SameMessages
  <2> QED BY <1>0, <2>1, NextAlarmFacts, AccessFacts DEF Ready
<1> QED BY <1>6, <1>7

LEMMA ArmFailuresFacts ==
    ASSUME NEW o \in Objects, token \in [Conns -> Deadline], NEW x \in ArmFailures(o)
    PROVE  x \in Objects /\ SameUsers(x, o) /\ SameMessages(x.room, o.room)
<1>0. o.room \in Rooms /\ o.disk \in Disks
  BY DEF Objects
<1>1. NextAlarm(o.room) \in Deadline /\ Access(o.room) \in AccessTimes
  BY <1>0, NextAlarmFacts, AccessFacts
<1>2. AccessStored(o) \in Disks /\ AccessStored(o).people = o.disk.people
  BY AccessStoredFacts
<1>3. AlarmAt(o) \in Deadline \cup {Unknown}
  BY <1>0 DEF AlarmAt, Rooms, Disks
<1> DEFINE looked == [o.room EXCEPT !.access = Access(o.room), !.alarmAt = AlarmAt(o)]
           claimed == [looked EXCEPT !.alarmAt = IF NextAlarm(o.room) = None THEN None ELSE Unknown]
           cleared == [o.disk EXCEPT !.access = None]
<1>4. looked \in Rooms /\ looked.conns = o.room.conns /\ looked.people = o.room.people
      /\ SameMessages(looked, o.room)
  BY <1>0, <1>1, <1>3 DEF Rooms, SameMessages
<1>5. claimed \in Rooms /\ claimed.conns = o.room.conns /\ claimed.people = o.room.people
      /\ SameMessages(claimed, o.room)
  <2> HIDE DEF looked
  <2> QED BY <1>4 DEF Rooms, SameMessages, Deadline
<1>6. cleared \in Disks /\ cleared.people = o.disk.people
  BY <1>0 DEF Disks, AccessTimes
<1>7. \/ x = o
      \/ x = [room |-> looked, disk |-> o.disk]
      \/ x = [room |-> looked, disk |-> cleared]
      \/ x = [room |-> claimed, disk |-> AccessStored(o)]
  BY DEF ArmFailures
<1> HIDE DEF looked, claimed, cleared
<1> QED BY <1>0, <1>2, <1>4, <1>5, <1>6, <1>7 DEF Objects, SameUsers, SameMessages

\* One call of scheduleNextAlarm.
LEMMA ArmFacts ==
    ASSUME NEW o, Good(o), token \in [Conns -> Deadline], Arm(o)
    PROVE  /\ Good(Object') /\ SameUsers(Object', o) /\ SameMessages(room', o.room)
           /\ \/ Fault("put")
              \/ UNCHANGED faults /\ (Knows(o) => Ready(Object'))
<1>1. o \in Objects
  BY DEF Good
<1>2. CASE Becomes(Armed(o)) /\ UNCHANGED faults
  <2>1. Armed(o) \in Objects /\ SameUsers(Armed(o), o) /\ SameMessages(Armed(o).room, o.room)
        /\ (Knows(o) => Ready(Armed(o)))
    BY <1>1, ArmedFacts
  <2>2. Object' = Armed(o)
    BY <1>2, <2>1 DEF Becomes, Object, Objects
  <2> QED BY <1>2, <2>1, <2>2 DEF Good, Buffered, Listed, SameUsers, SameMessages, Object
<1>3. CASE Fault("put") /\ \E x \in ArmFailures(o) : Becomes(x)
  <2>1. PICK x \in ArmFailures(o) : Becomes(x)
    BY <1>3
  <2>2. x \in Objects /\ SameUsers(x, o) /\ SameMessages(x.room, o.room)
    BY <1>1, ArmFailuresFacts
  <2>3. Object' = x
    BY <2>1, <2>2 DEF Becomes, Object, Objects
  <2> QED BY <1>3, <2>2, <2>3 DEF Good, Buffered, Listed, SameUsers, SameMessages, Object
<1> QED BY <1>2, <1>3 DEF Arm

\* The two calls of it that a message makes.
LEMMA RearmFacts ==
    ASSUME NEW o, Good(o), token \in [Conns -> Deadline], Rearm(o)
    PROVE  /\ Good(Object') /\ SameUsers(Object', o) /\ SameMessages(room', o.room)
           /\ \/ Fault("put")
              \/ UNCHANGED faults /\ (Knows(o) => Ready(Object'))
<1>1. o \in Objects
  BY DEF Good
<1>2. Armed(o) \in Objects /\ SameUsers(Armed(o), o) /\ SameMessages(Armed(o).room, o.room)
  BY <1>1, ArmedFacts
<1>3. CASE Becomes(Armed(o)) /\ UNCHANGED faults
  BY <1>3, ArmFacts DEF Arm
<1>4. CASE Fault("put") /\ \E x \in RearmFailures(o) : Becomes(x)
  <2>1. PICK x \in RearmFailures(o) : Becomes(x)
    BY <1>4
  <2> DEFINE a == Armed(o)
             unwritten == [a EXCEPT !.disk.access = o.disk.access]
  <2>2. x = a \/ x = unwritten \/ x \in ArmFailures(o)
    BY DEF RearmFailures
  <2>3. a \in Objects /\ SameUsers(a, o) /\ SameMessages(a.room, o.room)
    BY <1>2
  <2> HIDE DEF a
  <2>4. unwritten \in Objects /\ SameUsers(unwritten, o) /\ SameMessages(unwritten.room, o.room)
    BY <1>1, <2>3 DEF Objects, Disks, SameUsers, SameMessages
  <2> HIDE DEF unwritten
  <2>5. x \in Objects /\ SameUsers(x, o) /\ SameMessages(x.room, o.room)
    BY <1>1, <2>2, <2>3, <2>4, ArmFailuresFacts
  <2>6. Object' = x
    BY <2>1, <2>5 DEF Becomes, Object, Objects
  <2> QED BY <1>4, <2>5, <2>6 DEF Good, Buffered, Listed, SameUsers, SameMessages, Object
<1> QED BY <1>3, <1>4 DEF Rearm

(***************************************************************************)
(* Connections come and go                                                 *)
(***************************************************************************)
LEMMA WithFacts ==
    ASSUME NEW r \in Rooms, NEW C \in SUBSET Conns
    PROVE  /\ With(r, C) \in Rooms /\ With(r, C).conns = r.conns \cup C
           /\ With(r, C).people = r.people \cup UsersOf(C)
           /\ Buffered(r) => Buffered(With(r, C))
           /\ Listed(r) => Listed(With(r, C))
           /\ SameMessages(With(r, C), r)
           /\ With(r, C).access = r.access /\ With(r, C).alarmAt = r.alarmAt
<1>1. UsersOf(C) \in SUBSET Users
  BY RoomAssumption DEF UsersOf
<1>2. With(r, C) \in Rooms /\ With(r, C).conns = r.conns \cup C
      /\ With(r, C).people = r.people \cup UsersOf(C) /\ SameMessages(With(r, C), r)
      /\ With(r, C).access = r.access /\ With(r, C).alarmAt = r.alarmAt
  BY <1>1 DEF With, Rooms, SameMessages
<1>3. UsersOf(r.conns \cup C) = UsersOf(r.conns) \cup UsersOf(C)
  BY DEF UsersOf
<1> QED BY <1>2, <1>3 DEF Buffered, Listed, SameMessages

\* s is r without the connections C, and those of P off the list.
Leaves(s, r, C, P) ==
    /\ s \in Rooms /\ s.conns = r.conns \ C
    /\ s.people = r.people \ (UsersOf(P) \ UsersOf(r.conns \ C))
    /\ Buffered(s) /\ Listed(s) /\ SameMessages(s, r)
    /\ s.access = r.access /\ s.alarmAt = r.alarmAt

LEMMA RemovedFacts ==
    ASSUME NEW r \in Rooms, Buffered(r), Listed(r), NEW C, NEW P
    PROVE  Leaves(Removed(r, C, P), r, C, P)
<1>2. Removed(r, C, P) \in Rooms /\ Removed(r, C, P).conns = r.conns \ C
      /\ Removed(r, C, P).people = r.people \ (UsersOf(P) \ UsersOf(r.conns \ C))
      /\ SameMessages(Removed(r, C, P), r)
      /\ Removed(r, C, P).access = r.access /\ Removed(r, C, P).alarmAt = r.alarmAt
  BY DEF Removed, Rooms, SameMessages
<1>3. UsersOf(r.conns \ C) \subseteq UsersOf(r.conns)
  BY DEF UsersOf
<1> QED BY <1>2, <1>3 DEF Leaves, Buffered, Listed, SameMessages

LEMMA SavedFacts ==
    ASSUME NEW d \in Disks, NEW r \in Rooms
    PROVE  /\ Saved(d, r) \in Disks /\ Saved(d, r).people = r.people
           /\ Saved(d, r).alarm = d.alarm /\ Saved(d, r).access = d.access
  BY DEF Saved, Disks, Rooms

\* p is o after the connections C have left, in memory and in storage.
Parted(p, o, C) ==
    /\ p.room.conns = o.room.conns \ C
    /\ p.room.people = o.room.people \ (UsersOf(C) \ UsersOf(o.room.conns \ C))
    /\ p.disk.people = IF C = {} THEN o.disk.people ELSE p.room.people

LEMMA WithoutFacts ==
    ASSUME NEW o, Good(o), NEW C \in SUBSET Conns
    PROVE  /\ Good(Without(o, C)) /\ Parted(Without(o, C), o, C)
           /\ SameMessages(Without(o, C).room, o.room)
           /\ Without(o, C).room.access = o.room.access
           /\ Without(o, C).disk.alarm = o.disk.alarm
           /\ Knows(o) => Knows(Without(o, C))
<1>1. o \in Objects /\ o.room \in Rooms /\ o.disk \in Disks
  BY DEF Good, Objects
<1>2. CASE C = {}
  <2>1. Without(o, C) = o
    BY <1>2 DEF Without
  <2>2. UsersOf(C) = {}
    BY <1>2 DEF UsersOf
  <2> QED BY <1>1, <1>2, <2>1, <2>2 DEF Parted, SameMessages
<1>3. CASE C # {}
  <2> DEFINE s == Removed(o.room, C, C)
             e == Saved(o.disk, s)
  <2>1. Without(o, C) = [room |-> s, disk |-> e]
    BY <1>3 DEF Without
  <2>2. Leaves(s, o.room, C, C)
    BY <1>1, RemovedFacts DEF Good
  <2>3. e \in Disks /\ e.people = s.people /\ e.alarm = o.disk.alarm
    BY <1>1, <2>2, SavedFacts DEF Leaves
  <2>4. Without(o, C).room = s /\ Without(o, C).disk = e
    BY <2>1
  <2> HIDE DEF s, e
  <2>5. Good(Without(o, C))
    BY <2>1, <2>2, <2>3 DEF Good, Objects, Leaves
  <2>6. Knows(o) => Knows(Without(o, C))
    BY <2>2, <2>3, <2>4 DEF Knows, Leaves
  <2> QED BY <1>3, <2>2, <2>3, <2>4, <2>5, <2>6 DEF Leaves, Parted
<1> QED BY <1>2, <1>3

\* Storage that throws while connections are removed leaves none of them.
LEMMA RemovalThrowsFacts ==
    ASSUME NEW o, Good(o), NEW C \in SUBSET Conns, NEW x \in RemovalThrows(o, C)
    PROVE  Good(x) /\ x.room.conns = o.room.conns \ C /\ SameMessages(x.room, o.room)
<1>1. o.room \in Rooms /\ o.disk \in Disks /\ Buffered(o.room) /\ Listed(o.room)
  BY DEF Good, Objects
<1> DEFINE left(P, c) == [room |-> Removed(o.room, C, P),
                          disk |-> IF P = {c} THEN o.disk
                                   ELSE Saved(o.disk, Removed(o.room, C, P \ {c}))]
<1>0. PICK P \in SUBSET C : \E c \in P : x = left(P, c)
  BY DEF RemovalThrows
<1>2. PICK c \in P : x = left(P, c)
  BY <1>0
<1>3. P \ {c} \in SUBSET C
  BY <1>2
<1>4. Leaves(Removed(o.room, C, P), o.room, C, P)
  BY <1>1, RemovedFacts
<1>5. Saved(o.disk, Removed(o.room, C, P \ {c})) \in Disks
  BY <1>1, <1>3, RemovedFacts, SavedFacts DEF Leaves
<1> QED BY <1>1, <1>2, <1>4, <1>5 DEF Good, Objects, Leaves

(***************************************************************************)
(* Counting a check                                                        *)
(***************************************************************************)
LEMMA CountedFacts ==
    ASSUME NEW o, Good(o), NEW deferred \in BOOLEAN
    PROVE  /\ Good(Counted(o, deferred)) /\ SameUsers(Counted(o, deferred), o)
           /\ SameMessages(Counted(o, deferred).room, o.room)
           /\ Knows(o) => Knows(Counted(o, deferred))
<1>1. o \in Objects /\ o.room \in Rooms /\ o.disk \in Disks
  BY DEF Good, Objects
<1> DEFINE n == IF o.disk.failures < MaxFailures THEN o.disk.failures + 1 ELSE MaxFailures
           s == [o.room EXCEPT !.access = Backoff(n)]
           e == [o.disk EXCEPT !.access = Backoff(n), !.failures = n]
           z == [o.disk EXCEPT !.failures = 0]
<1>2. n \in Nat \ {0}
  BY <1>1, ConstantFacts DEF Disks
<1>3. Backoff(n) \in AccessTimes
  <2> HIDE DEF n
  <2> QED BY <1>2, BackoffType DEF AccessTimes
<1>4. Counted(o, deferred) = IF deferred THEN [room |-> s, disk |-> e] ELSE [o EXCEPT !.disk.failures = 0]
  BY DEF Counted
<1>5. [o EXCEPT !.disk.failures = 0] = [room |-> o.room, disk |-> z]
  BY <1>1 DEF Objects
<1> HIDE DEF n
<1>6. s \in Rooms /\ s.conns = o.room.conns /\ s.people = o.room.people
      /\ SameMessages(s, o.room) /\ s.alarmAt = o.room.alarmAt
  BY <1>1, <1>3 DEF Rooms, SameMessages
<1>7. e \in Disks /\ e.people = o.disk.people /\ e.alarm = o.disk.alarm
  BY <1>1, <1>2, <1>3 DEF Disks
<1>8. z \in Disks /\ z.people = o.disk.people /\ z.alarm = o.disk.alarm
  BY <1>1 DEF Disks
<1> HIDE DEF s, e, z
<1> QED BY <1>1, <1>4, <1>5, <1>6, <1>7, <1>8
        DEF Good, Objects, Buffered, Listed, SameUsers, SameMessages, Knows

LEMMA CountThrowsFacts ==
    ASSUME NEW o, Good(o), NEW deferred \in BOOLEAN, NEW x \in CountThrows(o, deferred)
    PROVE  Good(x) /\ SameUsers(x, o) /\ SameMessages(x.room, o.room)
<1> DEFINE y == Counted(o, deferred)
<1>1. Good(y) /\ SameUsers(y, o) /\ SameMessages(y.room, o.room) /\ o \in Objects /\ y \in Objects
  BY CountedFacts DEF Good
<1>2. x \in {o, [y EXCEPT !.disk = o.disk], [y EXCEPT !.disk.failures = o.disk.failures]}
  BY DEF CountThrows
<1> HIDE DEF y
<1>3. CASE x = o
  BY <1>1, <1>3 DEF SameUsers, SameMessages
<1>4. CASE x = [y EXCEPT !.disk = o.disk]
  <2>1. x.room = y.room /\ x.disk = o.disk /\ x \in Objects
    BY <1>1, <1>4 DEF Objects
  <2> QED BY <1>1, <2>1 DEF Good, SameUsers
<1>5. CASE x = [y EXCEPT !.disk.failures = o.disk.failures]
  <2>1. x.room = y.room /\ x.disk = [y.disk EXCEPT !.failures = o.disk.failures]
        /\ x = [room |-> x.room, disk |-> x.disk]
    BY <1>1, <1>5 DEF Objects
  <2>2. x.disk \in Disks /\ x.disk.people = y.disk.people
    BY <1>1, <2>1 DEF Objects, Disks
  <2> QED BY <1>1, <2>1, <2>2 DEF Good, Objects, SameUsers
<1> QED BY <1>2, <1>3, <1>4, <1>5

(***************************************************************************)
(* Faults, and the ends of the handlers                                    *)
(***************************************************************************)
Faults == [all : Nat, put : Nat]

LEMMA FaultFacts ==
    ASSUME faults \in Faults, NEW f, Fault(f)
    PROVE  faults' \in Faults /\ (f = "put" => ~Sound') /\ (Sound' => Sound)
  BY DEF Faults, Fault, Sound

LEMMA CloseAndArmFacts ==
    ASSUME NEW o, Good(o), NEW deferred \in BOOLEAN, NEW C \in SUBSET Conns, NEW as,
           token \in [Conns -> Deadline], CloseAndArm(o, deferred, C, as)
    PROVE  /\ Good(Object') /\ SameMessages(room', o.room)
           /\ \/ Closed(C, as) /\ room'.conns = o.room.conns \ C
              \/ UNCHANGED sock /\ room'.conns = o.room.conns
           /\ \/ Fault("put")
              \/ /\ UNCHANGED faults /\ Closed(C, as) /\ Parted(Object', o, C)
                 /\ Knows(o) => Ready(Object')
<1> DEFINE y == Counted(o, deferred)
           x == Without(y, C)
<1>1. Good(y) /\ SameUsers(y, o) /\ SameMessages(y.room, o.room) /\ (Knows(o) => Knows(y))
  BY CountedFacts
<1> HIDE DEF y
<1>2. Good(x) /\ Parted(x, y, C) /\ SameMessages(x.room, y.room) /\ (Knows(y) => Knows(x))
  BY <1>1, WithoutFacts
<1>3. Parted(x, o, C)
  BY <1>1, <1>2 DEF Parted, SameUsers
<1> HIDE DEF x
<1>4. CASE Closed(C, as) /\ Arm(x)
  <2>1. Good(Object') /\ SameUsers(Object', x) /\ SameMessages(room', x.room)
        /\ (Fault("put") \/ (UNCHANGED faults /\ (Knows(x) => Ready(Object'))))
    BY <1>2, <1>4, ArmFacts
  <2>2. Object'.room = room'
    BY DEF Object
  <2>3. Parted(Object', o, C) /\ room'.conns = o.room.conns \ C
    BY <1>3, <2>1, <2>2 DEF Parted, SameUsers
  <2>4. SameMessages(room', o.room)
    BY <1>1, <1>2, <2>1 DEF SameMessages
  <2> QED BY <1>1, <1>2, <1>4, <2>1, <2>3, <2>4
<1>5. CASE Fault("put") /\ UNCHANGED sock /\ \E z \in CountThrows(o, deferred) : Becomes(z)
  <2>1. PICK z \in CountThrows(o, deferred) : Becomes(z)
    BY <1>5
  <2>2. Good(z) /\ SameUsers(z, o) /\ SameMessages(z.room, o.room)
    BY CountThrowsFacts
  <2>3. Object' = z /\ room' = z.room
    BY <2>1, <2>2 DEF Good, Objects, Becomes, Object
  <2> QED BY <1>5, <2>2, <2>3 DEF SameUsers
<1>6. CASE Fault("put") /\ Closed(C, as) /\ \E z \in RemovalThrows(y, C) : Becomes(z)
  <2>1. PICK z \in RemovalThrows(y, C) : Becomes(z)
    BY <1>6
  <2>2. Good(z) /\ z.room.conns = y.room.conns \ C /\ SameMessages(z.room, y.room)
    BY <1>1, RemovalThrowsFacts
  <2>3. Object' = z /\ room' = z.room
    BY <2>1, <2>2 DEF Good, Objects, Becomes, Object
  <2>4. SameMessages(room', o.room) /\ room'.conns = o.room.conns \ C
    BY <1>1, <2>2, <2>3 DEF SameMessages, SameUsers
  <2> QED BY <1>6, <2>2, <2>3, <2>4
<1> QED BY <1>4, <1>5, <1>6 DEF CloseAndArm, x, y

\* The platform's second run of an alarm.
LEMMA RetriedFacts ==
    ASSUME NEW o, Good(o), Retried(o)
    PROVE  Good(Object') /\ SameUsers(Object', o) /\ room' = o.room
<1>1. o.room \in Rooms /\ o.disk \in Disks /\ room' = o.room /\ disk' = [o.disk EXCEPT !.alarm = 0]
  BY DEF Good, Objects, Retried
<1>2. disk' \in Disks /\ disk'.people = o.disk.people
  BY <1>1 DEF Disks, Deadline
<1>3. Object' = [room |-> room', disk |-> disk']
  BY DEF Object
<1> QED BY <1>1, <1>2, <1>3 DEF Good, Objects, SameUsers

\* What is kept in memory is young enough, while no flush has failed.
Young(r, a) == r.dirty /\ r.failures = 0 => r.flush = 0 \/ a + r.flush <= FlushDelay

LEMMA FlushedFacts ==
    ASSUME NEW o, Good(o), NEW s \in {Flushed(o.room), FlushFailed(o.room)}, Flushes(o.room, TRUE)
    PROVE  /\ Good([o EXCEPT !.room = s]) /\ SameUsers([o EXCEPT !.room = s], o)
           /\ Knows(o) => Knows([o EXCEPT !.room = s])
           /\ \A a : Young(s, a)
<1>1. o.room \in Rooms /\ o.disk \in Disks /\ Buffered(o.room) /\ Listed(o.room)
      /\ [o EXCEPT !.room = s] = [room |-> s, disk |-> o.disk]
  BY DEF Good, Objects
<1>2. 2 ^ o.room.failures \in Nat
  BY <1>1, Powers DEF Rooms
<1>3. o.room.failures + 1 - 1 = o.room.failures /\ o.room.failures \in Nat
  BY <1>1 DEF Rooms
<1>4. s \in Rooms /\ s.conns = o.room.conns /\ s.people = o.room.people
      /\ s.alarmAt = o.room.alarmAt
  <2>1. CASE s = Flushed(o.room)
    BY <1>1, <2>1 DEF Flushed, Rooms, Deadline
  <2>2. CASE s = FlushFailed(o.room)
    <3> DEFINE n == o.room.failures + 1
               q == 2 ^ (n - 1)
               last == [o.room EXCEPT !.failures = n, !.flush = None, !.exhausted = TRUE]
               next == [o.room EXCEPT !.failures = n, !.flush = q]
    <3>1. q \in Deadline /\ None \in Deadline /\ n \in Nat
      BY <1>2, <1>3 DEF Deadline
    <3>2. s = IF n >= FlushAttempts THEN last ELSE next
      BY <2>2 DEF FlushFailed
    <3> HIDE DEF n, q
    <3>3. last \in Rooms /\ last.conns = o.room.conns /\ last.people = o.room.people
          /\ last.alarmAt = o.room.alarmAt
      BY <1>1, <3>1 DEF Rooms
    <3>4. next \in Rooms /\ next.conns = o.room.conns /\ next.people = o.room.people
          /\ next.alarmAt = o.room.alarmAt
      BY <1>1, <3>1 DEF Rooms
    <3> HIDE DEF last, next
    <3> QED BY <3>2, <3>3, <3>4
  <2> QED BY <2>1, <2>2
<1>5. Buffered(s) /\ \A a : Young(s, a)
  <2>1. CASE s = Flushed(o.room)
    BY <1>1, <2>1 DEF Flushed, Rooms, Buffered, Young, Flushes
  <2>2. CASE s = FlushFailed(o.room)
    <3>1. 2 ^ (o.room.failures + 1 - 1) # None
      BY <1>2, <1>3 DEF None
    <3>2. ~o.room.exhausted /\ o.room.dirty
      BY DEF Flushes
    <3> QED BY <1>1, <1>3, <2>2, <3>1, <3>2 DEF FlushFailed, Rooms, Buffered, Young
  <2> QED BY <2>1, <2>2
<1> HIDE DEF Flushed, FlushFailed
<1> QED BY <1>1, <1>4, <1>5 DEF Good, Objects, Listed, SameUsers, Knows

LEMMA AlarmRestFacts ==
    ASSUME NEW o, Good(o), NEW due \in BOOLEAN, token \in [Conns -> Deadline],
           age \in 0 .. (FlushDelay + 1), faults \in Faults, AlarmRest(o, due)
    PROVE  /\ Good(Object') /\ SameUsers(Object', o)
           /\ faults' \in Faults /\ (Sound' => Sound)
           /\ age' \in 0 .. (FlushDelay + 1)
           /\ Young(o.room, age) => Young(room', age')
           /\ Sound' /\ Knows(o) => Ready(Object')
<1>0. 0 \in 0 .. (FlushDelay + 1) /\ o \in Objects
  BY ConstantFacts DEF Good
<1> DEFINE x == IF Flushes(o.room, due) THEN [o EXCEPT !.room = Flushed(@)] ELSE o
           f == [o EXCEPT !.room = FlushFailed(@)]
<1>1. /\ Good(x) /\ SameUsers(x, o) /\ (Knows(o) => Knows(x))
      /\ Young(o.room, age) => Young(x.room, IF x.room.dirty THEN age ELSE 0)
  <2>1. CASE Flushes(o.room, due)
    <3>1. Flushes(o.room, TRUE)
      BY <2>1 DEF Flushes
    <3>2. x = [o EXCEPT !.room = Flushed(o.room)] /\ x.room = Flushed(o.room)
      BY <1>0, <2>1 DEF Objects
    <3> QED BY <3>1, <3>2, FlushedFacts
  <2>2. CASE ~Flushes(o.room, due)
    BY <2>2 DEF SameUsers, Young
  <2> QED BY <2>1, <2>2
<1>2. ASSUME Flushes(o.room, due)
      PROVE  Good(f) /\ SameUsers(f, o) /\ (Knows(o) => Knows(f)) /\ \A a : Young(f.room, a)
  <2>1. Flushes(o.room, TRUE)
    BY <1>2 DEF Flushes
  <2>2. f = [o EXCEPT !.room = FlushFailed(o.room)] /\ f.room = FlushFailed(o.room)
    BY <1>0 DEF Objects
  <2> QED BY <2>1, <2>2, FlushedFacts
<1>3. ASSUME NEW y, Good(y), Becomes(Armed(y))
      PROVE  Good(Object') /\ SameUsers(Object', y) /\ SameMessages(room', y.room)
             /\ (Knows(y) => Ready(Object'))
  <2>1. /\ Armed(y) \in Objects /\ SameUsers(Armed(y), y) /\ SameMessages(Armed(y).room, y.room)
        /\ (Knows(y) => Ready(Armed(y)))
    BY <1>3, ArmedFacts DEF Good
  <2>2. Object' = Armed(y) /\ room' = Armed(y).room
    BY <1>3, <2>1 DEF Becomes, Object, Objects
  <2> QED BY <1>3, <2>1, <2>2 DEF Good, Buffered, Listed, SameUsers, SameMessages
<1> HIDE DEF x, f
<1>4. CASE Becomes(Armed(x)) /\ UNCHANGED faults /\ age' = IF x.room.dirty THEN age ELSE 0
  <2>1. Good(Object') /\ SameUsers(Object', x) /\ SameMessages(room', x.room)
        /\ (Knows(x) => Ready(Object'))
    BY <1>1, <1>3, <1>4
  <2> QED BY <1>0, <1>1, <1>4, <2>1 DEF SameUsers, SameMessages, Young, Sound
<1>5. CASE Flushes(o.room, due) /\ Fault("flush") /\ Becomes(Armed(f)) /\ UNCHANGED age
  <2>1. Good(Object') /\ SameUsers(Object', f) /\ SameMessages(room', f.room)
        /\ (Knows(f) => Ready(Object'))
    BY <1>2, <1>3, <1>5
  <2>2. faults' \in Faults /\ (Sound' => Sound)
    BY <1>5, FaultFacts
  <2> QED BY <1>2, <1>5, <2>1, <2>2 DEF SameUsers, SameMessages, Young
<1>6. CASE /\ Fault("put") /\ \E y \in ArmFailures(x) : Retried(y)
           /\ age' = IF x.room.dirty THEN age ELSE 0
  <2>1. PICK y \in ArmFailures(x) : Retried(y)
    BY <1>6
  <2>2. y \in Objects /\ SameUsers(y, x) /\ SameMessages(y.room, x.room) /\ Good(y)
    BY <1>1, ArmFailuresFacts DEF Good, Buffered, Listed, SameUsers, SameMessages
  <2>3. Good(Object') /\ SameUsers(Object', y) /\ room' = y.room
    BY <2>1, <2>2, RetriedFacts
  <2>4. faults' \in Faults /\ ~Sound'
    BY <1>6, FaultFacts
  <2> QED BY <1>0, <1>1, <1>6, <2>2, <2>3, <2>4 DEF SameUsers, SameMessages, Young
<1>7. AlarmRest(o, due) <=>
          \/ Becomes(Armed(x)) /\ UNCHANGED faults /\ age' = IF x.room.dirty THEN age ELSE 0
          \/ Flushes(o.room, due) /\ Fault("flush") /\ Becomes(Armed(f)) /\ UNCHANGED age
          \/ /\ Fault("put") /\ \E y \in ArmFailures(x) : Retried(y)
             /\ age' = IF x.room.dirty THEN age ELSE 0
  BY Zenon DEF AlarmRest, x, f
<1> QED BY <1>4, <1>5, <1>6, <1>7

(***************************************************************************)
(* Types                                                                   *)
(***************************************************************************)
Socks == {"new", "admitted", "open", "gone", "closed", "revoked"}
Jobs == [for : SUBSET Users, answer : [Users -> {"none", "keep", "drop"}],
         deferred : BOOLEAN, flushDue : BOOLEAN, running : BOOLEAN]

Asleep == ~awake => room = Cold /\ Calm

RoomTypes ==
    /\ awake \in BOOLEAN /\ Good(Object)
    /\ sock \in [Conns -> Socks] /\ token \in [Conns -> Deadline]
    /\ joining \in SUBSET Conns /\ job \in [Checks -> Jobs]
    /\ lost \in SUBSET Users /\ stray \in SUBSET Users
    /\ age \in 0 .. (FlushDelay + 1) /\ faults \in Faults
    /\ Asleep

LEMMA RoomTypesGiveTypeOK == RoomTypes => TypeOK
<1> SUFFICES ASSUME RoomTypes PROVE TypeOK
  OBVIOUS
<1>1. room \in Rooms /\ disk \in Disks
  BY DEF RoomTypes, Good, Object, Objects
<1>2. AccessTimes \subseteq Deadline
  BY ConstantFacts DEF AccessTimes, Deadline
<1>3. /\ room \in [conns : SUBSET Conns, people : SUBSET Users, access : Deadline, flush : Deadline,
                   dirty : BOOLEAN, failures : Nat, exhausted : BOOLEAN,
                   alarmAt : Deadline \cup {Unknown}]
      /\ disk \in [people : SUBSET Users, access : Deadline, failures : Nat, alarm : Deadline]
  BY <1>1, <1>2 DEF Rooms, Disks
<1> QED BY <1>3 DEF RoomTypes, TypeOK, Socks, Jobs, Faults

LEMMA IdleType == Idle \in Jobs /\ [k \in Checks |-> Idle] \in [Checks -> Jobs]
  BY DEF Idle, Jobs

LEMMA ColdType == Cold \in Rooms /\ Cold.conns = {} /\ Cold.people = {} /\ Cold.flush = None
                  /\ Cold.alarmAt = Unknown /\ Cold.access = None /\ ~Cold.dirty
                  /\ Buffered(Cold) /\ Listed(Cold)
<1>1. None \in AccessTimes /\ None \in Deadline
  BY DEF AccessTimes, Deadline
<1>2. UsersOf({}) = {}
  BY DEF UsersOf
<1> QED BY <1>1, <1>2 DEF Cold, Rooms, Buffered, Listed

LEMMA TypesInit == Init => RoomTypes
<1> SUFFICES ASSUME Init PROVE RoomTypes
  OBVIOUS
<1>1. room \in Rooms /\ Buffered(room) /\ Listed(room)
  BY ColdType DEF Init
<1>2. disk \in Disks
  BY DEF Init, Disks, AccessTimes, Deadline
<1>3. Good(Object)
  BY <1>1, <1>2 DEF Good, Object, Objects
<1>4. sock \in [Conns -> Socks] /\ token \in [Conns -> Deadline] /\ job \in [Checks -> Jobs]
  BY RoomAssumption, IdleType DEF Init, Socks, Deadline
<1>5. age \in 0 .. (FlushDelay + 1) /\ faults \in Faults
  BY ConstantFacts DEF Init, Faults
<1>6. Calm
  BY DEF Init, Calm, Idle, Checks
<1> QED BY <1>3, <1>4, <1>5, <1>6 DEF Init, RoomTypes, Asleep

LEMMA OpenFacts == sock \in [Conns -> Socks] =>
    /\ Open \in SUBSET Conns /\ Gone \in SUBSET Conns
    /\ \A C \in SUBSET Conns, as \in Socks : Closed(C, as) => sock' \in [Conns -> Socks]
  BY DEF Open, Gone, Closed

\* What an action leaves that changes neither the object nor the checks under way.
LEMMA ObjectFacts ==
    /\ Good(Object) => room \in Rooms /\ disk \in Disks /\ Buffered(room) /\ Listed(room)
                       /\ Object.room = room /\ Object.disk = disk
    /\ room' \in Rooms /\ disk' \in Disks /\ Buffered(room') /\ Listed(room') => Good(Object')
  BY DEF Good, Object, Objects

LEMMA JoinTypes ==
    ASSUME RoomTypes, NEW c \in Conns,
           Admit(c) \/ JoinBegins(c) \/ JoinThrows(c) \/ JoinEnds(c)
    PROVE  RoomTypes'
<1>0. room \in Rooms /\ disk \in Disks /\ Buffered(room) /\ Listed(room) /\ Good(Object)
      /\ Object.room = room /\ Object.disk = disk /\ faults \in Faults
  BY ObjectFacts DEF RoomTypes
<1>1. CASE Admit(c)
  BY <1>1 DEF RoomTypes, Admit, Asleep, Socks, Object, Calm
<1>2. CASE JoinBegins(c)
  <2>1. {c} \in SUBSET Conns
    OBVIOUS
  <2>2. room' \in Rooms /\ Buffered(room') /\ Listed(room')
    BY <1>0, <1>2, <2>1, WithFacts DEF JoinBegins
  <2>3. disk' \in Disks
    BY <1>0, <1>2, <2>2, SavedFacts DEF JoinBegins
  <2>4. Good(Object')
    BY <2>2, <2>3, ObjectFacts
  <2> QED BY <1>2, <2>4 DEF RoomTypes, JoinBegins, Asleep, Socks
<1>3. CASE JoinThrows(c)
  <2> DEFINE o == [Object EXCEPT !.room = With(@, {c})]
  <2>1. {c} \in SUBSET Conns
    OBVIOUS
  <2>2. With(room, {c}) \in Rooms /\ Buffered(With(room, {c})) /\ Listed(With(room, {c}))
    BY <1>0, <2>1, WithFacts
  <2>3. o = [room |-> With(room, {c}), disk |-> disk]
    BY DEF Object
  <2>4. Good(o)
    BY <1>0, <2>2, <2>3 DEF Good, Objects
  <2> HIDE DEF o
  <2>5. Good(Without(o, {c}))
    BY <2>1, <2>4, WithoutFacts
  <2>6. Becomes(Without(o, {c})) /\ Fault("put") /\ awake
    BY <1>3 DEF JoinThrows, o
  <2>7. Object' = Without(o, {c})
    BY <2>5, <2>6 DEF Good, Objects, Object, Becomes
  <2>8. faults' \in Faults
    BY <1>0, <2>6, FaultFacts
  <2> QED BY <1>3, <2>5, <2>7, <2>8 DEF RoomTypes, JoinThrows, Asleep, Socks
<1>4. CASE JoinEnds(c)
  <2>1. awake /\ c \in joining
    BY <1>4 DEF RoomTypes, Asleep, Calm, JoinEnds
  <2>2. Arm(Object)
    BY <1>4 DEF JoinEnds, Arm
  <2>3. Good(Object')
    BY <1>0, <2>2, ArmFacts DEF RoomTypes
  <2>4. faults' \in Faults
    BY <1>0, <1>4, FaultFacts DEF JoinEnds
  <2> QED BY <1>4, <2>1, <2>3, <2>4 DEF RoomTypes, JoinEnds, Asleep, Socks
<1> QED BY <1>1, <1>2, <1>3, <1>4

\* The object with the given memory.
LEMMA InMemory ==
    ASSUME NEW o, Good(o), NEW r \in Rooms, Buffered(r), Listed(r)
    PROVE  /\ Good([o EXCEPT !.room = r])
           /\ [o EXCEPT !.room = r].room = r /\ [o EXCEPT !.room = r].disk = o.disk
  BY DEF Good, Objects

\* The object in which every open socket is known.
Full == [Object EXCEPT !.room = With(@, Open)]

LEMMA FullFacts ==
    ASSUME RoomTypes
    PROVE  /\ Good(Full) /\ Full.room = With(room, Open) /\ Full.disk = disk
           /\ Full.room.conns = room.conns \cup Open
           /\ Full.room.people = room.people \cup UsersOf(Open)
           /\ SameMessages(Full.room, room) /\ (Knows(Object) => Knows(Full))
<1>1. room \in Rooms /\ disk \in Disks /\ Buffered(room) /\ Listed(room) /\ Good(Object)
      /\ Object.room = room /\ Object.disk = disk /\ Open \in SUBSET Conns
  BY ObjectFacts, OpenFacts DEF RoomTypes
<1>2. Full = [Object EXCEPT !.room = With(room, Open)]
  BY <1>1 DEF Full
<1>3. /\ With(room, Open) \in Rooms /\ Buffered(With(room, Open)) /\ Listed(With(room, Open))
      /\ With(room, Open).conns = room.conns \cup Open
      /\ With(room, Open).people = room.people \cup UsersOf(Open)
      /\ SameMessages(With(room, Open), room) /\ With(room, Open).alarmAt = room.alarmAt
  BY <1>1, WithFacts
<1>4. Good(Full) /\ Full.room = With(room, Open) /\ Full.disk = disk
  BY <1>1, <1>2, <1>3, InMemory
<1> QED BY <1>1, <1>3, <1>4 DEF Knows

LEMMA FiredFacts ==
    ASSUME RoomTypes
    PROVE  /\ Good(Fired) /\ SameUsers(Fired, Object) /\ SameMessages(Fired.room, room)
           /\ Knows(Fired) /\ Expiring \in SUBSET Conns
<1>1. room \in Rooms /\ disk \in Disks /\ Buffered(room) /\ Listed(room) /\ Good(Object)
      /\ Object.room = room /\ Object.disk = disk
  BY ObjectFacts DEF RoomTypes
<1> DEFINE r == [room EXCEPT !.alarmAt = None]
           d == [disk EXCEPT !.alarm = None]
<1>2. Fired = [room |-> r, disk |-> d]
  BY DEF Fired
<1>3. r \in Rooms /\ r.conns = room.conns /\ r.people = room.people /\ SameMessages(r, room)
      /\ r.alarmAt = None
  BY <1>1 DEF Rooms, SameMessages, Deadline
<1>4. d \in Disks /\ d.people = disk.people /\ d.alarm = None
  BY <1>1 DEF Disks, Deadline
<1> HIDE DEF r, d
<1>5. Good(Fired) /\ SameUsers(Fired, Object) /\ SameMessages(Fired.room, room) /\ Knows(Fired)
  BY <1>1, <1>2, <1>3, <1>4 DEF Good, Objects, Buffered, Listed, SameUsers, SameMessages, Knows
<1> QED BY <1>1, <1>5 DEF Expiring, Rooms

LEMMA KeptFacts ==
    ASSUME NEW r \in Rooms, Buffered(r)
    PROVE  /\ Kept(r) \in Rooms /\ Buffered(Kept(r)) /\ Kept(r).conns = r.conns
           /\ Kept(r).people = r.people /\ Kept(r).alarmAt = r.alarmAt
           /\ \A a : Young(r, a) => Young(Kept(r), IF r.dirty /\ ~r.exhausted THEN a ELSE 0)
<1>1. FlushDelay \in Deadline /\ FlushDelay # None
  BY ConstantFacts DEF Deadline
<1>2. CASE r.flush # None
  <2>1. Kept(r) = [r EXCEPT !.dirty = TRUE] /\ r.dirty /\ ~r.exhausted
    BY <1>2 DEF Kept, Buffered
  <2> QED BY <2>1 DEF Rooms, Buffered, Young
<1>3. CASE r.flush = None
  <2>1. Kept(r) = [r EXCEPT !.dirty = TRUE, !.flush = FlushDelay, !.failures = 0, !.exhausted = FALSE]
        /\ ~(r.dirty /\ ~r.exhausted)
    BY <1>3 DEF Kept, Buffered
  <2>2. Kept(r) \in Rooms /\ Kept(r).conns = r.conns /\ Kept(r).people = r.people
        /\ Kept(r).alarmAt = r.alarmAt
    <3>1. \A d \in Deadline : [r EXCEPT !.dirty = TRUE, !.flush = d, !.failures = 0,
                                       !.exhausted = FALSE] \in Rooms
      BY DEF Rooms
    <3> QED BY <1>1, <2>1, <3>1 DEF Rooms
  <2>3. Kept(r).flush = FlushDelay /\ Kept(r).dirty /\ ~Kept(r).exhausted /\ Kept(r).failures = 0
    BY <2>1 DEF Rooms
  <2> QED BY <1>1, <2>1, <2>2, <2>3, ConstantFacts DEF Young, Buffered
<1> QED BY <1>2, <1>3

\* A client's message, whatever it is, finds its connection known.
LEMMA HeardFacts ==
    ASSUME RoomTypes, NEW c \in Conns, Heard(c)
    PROVE  LET r == With(room, {c})
           IN /\ r \in Rooms /\ Buffered(r) /\ Listed(r) /\ awake /\ c \in Open
              /\ r.conns = room.conns \cup {c} /\ r.people = room.people \cup {UserOf[c]}
              /\ SameMessages(r, room) /\ r.alarmAt = room.alarmAt
<1>1. room \in Rooms /\ Buffered(room) /\ Listed(room) /\ {c} \in SUBSET Conns
  BY ObjectFacts DEF RoomTypes
<1>2. UsersOf({c}) = {UserOf[c]}
  BY DEF UsersOf
<1> DEFINE r == With(room, {c})
<1>3. /\ r \in Rooms /\ Buffered(r) /\ Listed(r)
      /\ r.conns = room.conns \cup {c} /\ r.people = room.people \cup UsersOf({c})
      /\ SameMessages(r, room) /\ r.alarmAt = room.alarmAt
  BY <1>1, WithFacts
<1> HIDE DEF r
<1>4. r.people = room.people \cup {UserOf[c]}
  BY <1>2, <1>3, Zenon
<1>5. awake /\ c \in Open
  BY DEF Heard
<1> QED BY <1>3, <1>4, <1>5 DEF r

LEMMA ChatFacts ==
    ASSUME RoomTypes, NEW c \in Conns, Chat(c)
    PROVE  /\ Good(Object') /\ awake /\ c \in Open
           /\ room'.conns = room.conns \cup {c} /\ room'.people = room.people \cup {UserOf[c]}
           /\ disk'.people = disk.people
           /\ age' \in 0 .. (FlushDelay + 1)
           /\ Young(room, age) => Young(room', age')
           /\ faults' \in Faults /\ (Sound' => Sound)
           /\ Sound' /\ Knows(Object) => Ready(Object')
<1> DEFINE r == With(room, {c})
           o == [Object EXCEPT !.room = Kept(r)]
<1>1. /\ r \in Rooms /\ Buffered(r) /\ Listed(r) /\ awake /\ c \in Open
      /\ r.conns = room.conns \cup {c} /\ r.people = room.people \cup {UserOf[c]}
      /\ SameMessages(r, room) /\ r.alarmAt = room.alarmAt
  BY HeardFacts DEF Chat
<1>2. Good(Object) /\ Object.room = room /\ Object.disk = disk /\ disk \in Disks
  BY ObjectFacts DEF RoomTypes
<1>3. Rearm(o) /\ age' = IF room.dirty /\ ~room.exhausted THEN age ELSE 0
  BY <1>2 DEF Chat
<1> HIDE DEF r
<1>4. /\ Kept(r) \in Rooms /\ Buffered(Kept(r)) /\ Kept(r).conns = r.conns
      /\ Kept(r).people = r.people /\ Kept(r).alarmAt = r.alarmAt
      /\ \A a : Young(r, a) => Young(Kept(r), IF r.dirty /\ ~r.exhausted THEN a ELSE 0)
  BY <1>1, KeptFacts
<1>5. Listed(Kept(r))
  BY <1>1, <1>4 DEF Listed
<1>6. Good(o) /\ o.room = Kept(r) /\ o.disk = disk
  BY <1>2, <1>4, <1>5, InMemory
<1> HIDE DEF o
<1>7. /\ Good(Object') /\ SameUsers(Object', o) /\ SameMessages(room', o.room)
      /\ (Fault("put") \/ (UNCHANGED faults /\ (Knows(o) => Ready(Object'))))
  BY <1>3, <1>6, RearmFacts DEF RoomTypes
<1>8. room'.conns = Kept(r).conns /\ room'.people = Kept(r).people /\ disk'.people = disk.people
  BY <1>6, <1>7 DEF SameUsers, Object
<1>9. faults' \in Faults /\ (Sound' => Sound) /\ (Sound' => ~Fault("put"))
  BY <1>7, FaultFacts DEF RoomTypes, Sound
<1>10. age' \in 0 .. (FlushDelay + 1)
  BY <1>3, ConstantFacts DEF RoomTypes
<1>11. ASSUME Young(room, age) PROVE Young(room', age')
  <2>1. Young(r, age)
    BY <1>1, <1>11 DEF Young, SameMessages
  <2>2. Young(Kept(r), age')
    BY <1>1, <1>3, <1>4, <2>1 DEF SameMessages
  <2> QED BY <1>6, <1>7, <2>2 DEF Young, SameMessages
<1>12. Knows(Object) => Knows(o)
  BY <1>1, <1>2, <1>4, <1>6 DEF Knows
<1> QED BY <1>1, <1>4, <1>7, <1>8, <1>9, <1>10, <1>11, <1>12

LEMMA OtherMessageFacts ==
    ASSUME RoomTypes, NEW c \in Conns, OtherMessage(c)
    PROVE  /\ Good(Object') /\ awake /\ c \in Open
           /\ room'.conns = room.conns \cup {c} /\ room'.people = room.people \cup {UserOf[c]}
           /\ disk'.people = disk.people
           /\ SameMessages(room', room) /\ faults' \in Faults /\ (Sound' => Sound)
           /\ Sound' /\ Knows(Object) => Ready(Object')
<1> DEFINE r == With(room, {c})
           o == [Object EXCEPT !.room = r]
<1>1. /\ r \in Rooms /\ Buffered(r) /\ Listed(r) /\ awake /\ c \in Open
      /\ r.conns = room.conns \cup {c} /\ r.people = room.people \cup {UserOf[c]}
      /\ SameMessages(r, room) /\ r.alarmAt = room.alarmAt
  BY HeardFacts DEF OtherMessage
<1>2. Good(Object) /\ Object.room = room /\ Object.disk = disk
  BY ObjectFacts DEF RoomTypes
<1>3. Arm(o)
  BY <1>2 DEF OtherMessage
<1> HIDE DEF r
<1>4. Good(o) /\ o.room = r /\ o.disk = disk
  BY <1>1, <1>2, InMemory
<1> HIDE DEF o
<1>5. /\ Good(Object') /\ SameUsers(Object', o) /\ SameMessages(room', o.room)
      /\ (Fault("put") \/ (UNCHANGED faults /\ (Knows(o) => Ready(Object'))))
  BY <1>3, <1>4, ArmFacts DEF RoomTypes
<1>6. faults' \in Faults /\ (Sound' => Sound) /\ (Sound' => ~Fault("put"))
  BY <1>5, FaultFacts DEF RoomTypes, Sound
<1>7. Knows(Object) => Knows(o)
  BY <1>1, <1>2, <1>4 DEF Knows
<1>8. room'.conns = r.conns /\ room'.people = r.people /\ disk'.people = disk.people
  BY <1>4, <1>5 DEF SameUsers, Object
<1>9. SameMessages(room', room)
  BY <1>1, <1>4, <1>5 DEF SameMessages
<1> QED BY <1>1, <1>5, <1>6, <1>7, <1>8, <1>9

LEMMA CloseHeardFacts ==
    ASSUME RoomTypes, NEW c \in Conns, CloseHeard(c)
    PROVE  /\ Good(Object') /\ awake /\ room'.conns = room.conns \ {c}
           /\ SameMessages(room', room) /\ faults' \in Faults /\ (Sound' => Sound)
           /\ Sound' => /\ Parted(Object', Object, {c} \cap room.conns)
                        /\ Knows(Object) => Ready(Object')
<1> DEFINE C == {c} \cap room.conns
           o == Without(Object, C)
<1>1. Good(Object) /\ Object.room = room /\ Object.disk = disk /\ disk \in Disks /\ C \in SUBSET Conns
  BY ObjectFacts DEF RoomTypes
<1> HIDE DEF C
<1>2. Good(o) /\ Parted(o, Object, C) /\ SameMessages(o.room, room) /\ (Knows(Object) => Knows(o))
  BY <1>1, WithoutFacts
<1> HIDE DEF o
<1>3. CASE Arm(o)
  <2>1. /\ Good(Object') /\ SameUsers(Object', o) /\ SameMessages(room', o.room)
        /\ (Fault("put") \/ (UNCHANGED faults /\ (Knows(o) => Ready(Object'))))
    BY <1>2, <1>3, ArmFacts DEF RoomTypes
  <2>2. faults' \in Faults /\ (Sound' => Sound) /\ (Sound' => ~Fault("put"))
    BY <2>1, FaultFacts DEF RoomTypes, Sound
  <2>3. Parted(Object', Object, C) /\ room'.conns = room.conns \ C
    BY <1>1, <1>2, <2>1 DEF Parted, SameUsers, Object
  <2>4. SameMessages(room', room)
    BY <1>2, <2>1 DEF SameMessages
  <2>5. room'.conns = room.conns \ {c}
    BY <2>3 DEF C
  <2> QED BY <1>2, <2>1, <2>2, <2>3, <2>4, <2>5 DEF CloseHeard, C
<1>4. CASE Fault("put") /\ Becomes([o EXCEPT !.disk = disk])
  <2>1. room' = o.room /\ disk' = disk
    BY <1>2, <1>4 DEF Becomes, Good, Objects
  <2>2. Good(Object')
    BY <1>1, <1>2, <2>1 DEF Good, Objects, Object
  <2>3. room'.conns = room.conns \ {c}
    BY <1>1, <1>2, <2>1 DEF Parted, C
  <2> QED BY <1>2, <1>4, <2>1, <2>2, <2>3, FaultFacts DEF RoomTypes, CloseHeard
<1> QED BY <1>3, <1>4 DEF CloseHeard, C, o

LEMMA EvictForcedFacts ==
    ASSUME RoomTypes, NEW u \in Users, EvictForced(u)
    PROVE  \E C \in SUBSET Conns :
              /\ C = {c \in room.conns \cup Open : UserOf[c] = u}
              /\ Good(Object') /\ SameMessages(room', room)
              /\ faults' \in Faults /\ (Sound' => Sound)
              /\ \/ Closed(C, "closed") /\ room'.conns = (room.conns \cup Open) \ C
                 \/ UNCHANGED sock /\ room'.conns = room.conns \cup Open
              /\ Sound' => /\ Closed(C, "closed") /\ Parted(Object', Full, C)
                           /\ Knows(Object) => Ready(Object')
<1> DEFINE C == {c \in Full.room.conns : UserOf[c] = u}
<1>1. /\ Good(Full) /\ Full.room.conns = room.conns \cup Open
      /\ SameMessages(Full.room, room) /\ (Knows(Object) => Knows(Full))
      /\ room \in Rooms /\ Open \in SUBSET Conns
  BY FullFacts, ObjectFacts, OpenFacts DEF RoomTypes
<1>2. C \in SUBSET Conns /\ C = {c \in room.conns \cup Open : UserOf[c] = u}
  BY <1>1 DEF Rooms
<1>3. CloseAndArm(Full, FALSE, C, "closed")
  BY DEF EvictForced, Full
<1> HIDE DEF C
<1>4. /\ Good(Object') /\ SameMessages(room', Full.room)
      /\ \/ Closed(C, "closed") /\ room'.conns = Full.room.conns \ C
         \/ UNCHANGED sock /\ room'.conns = Full.room.conns
      /\ \/ Fault("put")
         \/ /\ UNCHANGED faults /\ Closed(C, "closed") /\ Parted(Object', Full, C)
            /\ Knows(Full) => Ready(Object')
  BY <1>1, <1>2, <1>3, CloseAndArmFacts DEF RoomTypes
<1>5. faults' \in Faults /\ (Sound' => Sound) /\ (Sound' => ~Fault("put"))
  BY <1>4, FaultFacts DEF RoomTypes, Sound
<1>6. SameMessages(room', room)
  BY <1>1, <1>4 DEF SameMessages
<1>7. \/ Closed(C, "closed") /\ room'.conns = (room.conns \cup Open) \ C
      \/ UNCHANGED sock /\ room'.conns = room.conns \cup Open
  BY <1>1, <1>4
<1> QED BY <1>1, <1>2, <1>4, <1>5, <1>6, <1>7

LEMMA RevokedType == RoomTypes => \A k : Revoked(k) \in SUBSET Conns
  BY ObjectFacts DEF RoomTypes, Revoked, Rooms

LEMMA EvictEndsFacts ==
    ASSUME RoomTypes, EvictEnds
    PROVE  LET C == Revoked("evict")
           IN /\ Good(Object') /\ SameMessages(room', room)
              /\ faults' \in Faults /\ (Sound' => Sound)
              /\ \/ Closed(C, "revoked") /\ room'.conns = room.conns \ C
                 \/ UNCHANGED sock /\ room'.conns = room.conns
              /\ Sound' => /\ Closed(C, "revoked") /\ Parted(Object', Object, C)
                           /\ Knows(Object) => Ready(Object')
<1> DEFINE C == Revoked("evict")
<1>1. Good(Object) /\ Object.room = room /\ C \in SUBSET Conns /\ job["evict"].deferred \in BOOLEAN
  BY ObjectFacts, RevokedType DEF RoomTypes, Jobs, Checks
<1>2. CloseAndArm(Object, job["evict"].deferred, C, "revoked")
  BY DEF EvictEnds
<1> HIDE DEF C
<1>4. /\ Good(Object') /\ SameMessages(room', room)
      /\ \/ Closed(C, "revoked") /\ room'.conns = room.conns \ C
         \/ UNCHANGED sock /\ room'.conns = room.conns
      /\ \/ Fault("put")
         \/ /\ UNCHANGED faults /\ Closed(C, "revoked") /\ Parted(Object', Object, C)
            /\ Knows(Object) => Ready(Object')
  BY <1>1, <1>2, CloseAndArmFacts DEF RoomTypes
<1>5. faults' \in Faults /\ (Sound' => Sound) /\ (Sound' => ~Fault("put"))
  BY <1>4, FaultFacts DEF RoomTypes, Sound
<1> QED BY <1>4, <1>5 DEF C

\* The rest of the alarm, after the connections C were removed from o.
LEMMA RestFacts ==
    ASSUME RoomTypes, NEW o, Good(o), NEW C \in SUBSET Conns, NEW due \in BOOLEAN,
           AlarmRest(Without(o, C), due)
    PROVE  /\ Good(Object') /\ Parted(Object', o, C)
           /\ faults' \in Faults /\ (Sound' => Sound) /\ age' \in 0 .. (FlushDelay + 1)
           /\ Young(o.room, age) => Young(room', age')
           /\ Sound' /\ Knows(o) => Ready(Object')
<1> DEFINE x == Without(o, C)
<1>1. Good(x) /\ Parted(x, o, C) /\ SameMessages(x.room, o.room) /\ (Knows(o) => Knows(x))
  BY WithoutFacts
<1> HIDE DEF x
<1>2. AlarmRest(x, due)
  BY DEF x
<1>3. /\ Good(Object') /\ SameUsers(Object', x)
      /\ faults' \in Faults /\ (Sound' => Sound) /\ age' \in 0 .. (FlushDelay + 1)
      /\ Young(x.room, age) => Young(room', age')
      /\ Sound' /\ Knows(x) => Ready(Object')
  BY <1>1, <1>2, AlarmRestFacts DEF RoomTypes
<1>4. Parted(Object', o, C)
  BY <1>1, <1>3 DEF Parted, SameUsers
<1>5. Young(o.room, age) => Young(x.room, age)
  BY <1>1 DEF Young, SameMessages
<1> QED BY <1>1, <1>3, <1>4, <1>5

LEMMA AlarmFlushesFacts ==
    ASSUME RoomTypes, AlarmFlushes
    PROVE  /\ Good(Object') /\ Parted(Object', Object, Expiring)
           /\ faults' \in Faults /\ (Sound' => Sound) /\ age' \in 0 .. (FlushDelay + 1)
           /\ Young(room, age) => Young(room', age')
           /\ Sound' => Ready(Object')
<1>1. /\ Good(Fired) /\ SameUsers(Fired, Object) /\ SameMessages(Fired.room, room)
      /\ Knows(Fired) /\ Expiring \in SUBSET Conns
  BY FiredFacts
<1>2. AlarmRest(Without(Fired, Expiring), room.flush = 0)
  BY DEF AlarmFlushes
<1> DEFINE due == room.flush = 0
<1>3. due \in BOOLEAN
  OBVIOUS
<1>4. /\ Good(Object') /\ Parted(Object', Fired, Expiring)
      /\ faults' \in Faults /\ (Sound' => Sound) /\ age' \in 0 .. (FlushDelay + 1)
      /\ Young(Fired.room, age) => Young(room', age')
      /\ Sound' /\ Knows(Fired) => Ready(Object')
  <2> HIDE DEF Fired, Expiring
  <2>1. AlarmRest(Without(Fired, Expiring), due)
    BY <1>2
  <2> HIDE DEF due
  <2> QED BY <1>1, <1>3, <2>1, RestFacts
<1>5. Parted(Object', Object, Expiring)
  BY <1>1, <1>4 DEF Parted, SameUsers
<1>6. Young(room, age) => Young(Fired.room, age)
  BY <1>1 DEF Young, SameMessages
<1> QED BY <1>1, <1>4, <1>5, <1>6

LEMMA AlarmEndsFacts ==
    ASSUME RoomTypes, AlarmEnds
    PROVE  LET C == Revoked("alarm")
           IN /\ Good(Object')
              /\ faults' \in Faults /\ (Sound' => Sound) /\ age' \in 0 .. (FlushDelay + 1)
              /\ Young(room, age) => Young(room', age')
              /\ \/ Closed(C, "revoked") /\ room'.conns = room.conns \ C
                 \/ UNCHANGED sock /\ room'.conns = room.conns
              /\ Sound' => /\ Closed(C, "revoked") /\ Parted(Object', Object, C)
                           /\ Knows(Object) => Ready(Object')
<1> DEFINE C == Revoked("alarm")
           x == Counted(Object, job["alarm"].deferred)
           due == job["alarm"].flushDue
<1>1. /\ Good(Object) /\ Object.room = room /\ C \in SUBSET Conns /\ due \in BOOLEAN
      /\ job["alarm"].deferred \in BOOLEAN /\ age \in 0 .. (FlushDelay + 1)
  BY ObjectFacts, RevokedType DEF RoomTypes, Jobs, Checks
<1>2. Good(x) /\ SameUsers(x, Object) /\ SameMessages(x.room, room) /\ (Knows(Object) => Knows(x))
  BY <1>1, CountedFacts
<1>3. \/ Closed(C, "revoked") /\ AlarmRest(Without(x, C), due)
      \/ /\ Fault("put") /\ UNCHANGED age /\ UNCHANGED sock
         /\ \E y \in CountThrows(Object, job["alarm"].deferred) : Retried(y)
      \/ /\ Fault("put") /\ UNCHANGED age /\ Closed(C, "revoked")
         /\ \E y \in RemovalThrows(x, C) : Retried(y)
  BY DEF AlarmEnds
<1> HIDE DEF C, x, due
<1>4. CASE Closed(C, "revoked") /\ AlarmRest(Without(x, C), due)
  <2>1. /\ Good(Object') /\ Parted(Object', x, C)
        /\ faults' \in Faults /\ (Sound' => Sound) /\ age' \in 0 .. (FlushDelay + 1)
        /\ Young(x.room, age) => Young(room', age')
        /\ Sound' /\ Knows(x) => Ready(Object')
    BY <1>1, <1>2, <1>4, RestFacts
  <2>2. Parted(Object', Object, C)
    BY <1>2, <2>1 DEF Parted, SameUsers
  <2>3. room'.conns = room.conns \ C
    BY <1>1, <2>2 DEF Parted, Object
  <2>4. Young(room, age) => Young(x.room, age)
    BY <1>2 DEF Young, SameMessages
  <2> QED BY <1>2, <1>4, <2>1, <2>2, <2>3, <2>4 DEF C
<1>5. CASE /\ Fault("put") /\ UNCHANGED age /\ UNCHANGED sock
           /\ \E y \in CountThrows(Object, job["alarm"].deferred) : Retried(y)
  <2>1. PICK y \in CountThrows(Object, job["alarm"].deferred) : Retried(y)
    BY <1>5
  <2>2. Good(y) /\ SameUsers(y, Object) /\ SameMessages(y.room, room)
    BY <1>1, CountThrowsFacts
  <2>3. Good(Object') /\ room' = y.room
    BY <2>1, <2>2, RetriedFacts
  <2>4. faults' \in Faults /\ ~Sound'
    BY <1>5, FaultFacts DEF RoomTypes
  <2>5. room'.conns = room.conns /\ (Young(room, age) => Young(room', age'))
    BY <1>1, <1>5, <2>2, <2>3 DEF SameUsers, SameMessages, Young
  <2> QED BY <1>1, <1>5, <2>3, <2>4, <2>5
<1>6. CASE /\ Fault("put") /\ UNCHANGED age /\ Closed(C, "revoked")
           /\ \E y \in RemovalThrows(x, C) : Retried(y)
  <2>1. PICK y \in RemovalThrows(x, C) : Retried(y)
    BY <1>6
  <2>2. Good(y) /\ y.room.conns = x.room.conns \ C /\ SameMessages(y.room, x.room)
    BY <1>1, <1>2, RemovalThrowsFacts
  <2>3. Good(Object') /\ room' = y.room
    BY <2>1, <2>2, RetriedFacts
  <2>4. faults' \in Faults /\ ~Sound'
    BY <1>6, FaultFacts DEF RoomTypes
  <2>5. room'.conns = room.conns \ C
    BY <1>1, <1>2, <2>2, <2>3 DEF SameUsers
  <2>6. Young(room, age) => Young(room', age')
    BY <1>2, <1>6, <2>2, <2>3 DEF SameMessages, Young
  <2> QED BY <1>1, <1>6, <2>3, <2>4, <2>5, <2>6 DEF C
<1> QED BY <1>3, <1>4, <1>5, <1>6

LEMMA AlarmThrowsFacts ==
    ASSUME RoomTypes, AlarmThrows
    PROVE  /\ Good(Object') /\ SameMessages(room', room)
           /\ room.conns \ Expiring \subseteq room'.conns
           /\ faults' \in Faults /\ ~Sound'
<1>1. /\ Good(Fired) /\ SameUsers(Fired, Object) /\ SameMessages(Fired.room, room)
      /\ Expiring \in SUBSET Conns /\ Object.room = room
  BY FiredFacts DEF Object
<1>2. PICK P \in SUBSET Expiring : \E x \in RemovalThrows(Fired, P) : Retried(x)
  BY DEF AlarmThrows
<1>3. PICK x \in RemovalThrows(Fired, P) : Retried(x)
  BY <1>2
<1>4. P \in SUBSET Conns
  BY <1>1
<1>5. Good(x) /\ x.room.conns = Fired.room.conns \ P /\ SameMessages(x.room, Fired.room)
  BY <1>1, <1>3, <1>4, RemovalThrowsFacts
<1>6. Good(Object') /\ room' = x.room
  BY <1>3, <1>5, RetriedFacts
<1>7. room.conns \ Expiring \subseteq room'.conns
  BY <1>1, <1>2, <1>5, <1>6 DEF SameUsers
<1>8. SameMessages(room', room)
  BY <1>1, <1>5, <1>6 DEF SameMessages
<1>9. faults' \in Faults /\ ~Sound'
  BY FaultFacts DEF RoomTypes, AlarmThrows
<1> QED BY <1>6, <1>7, <1>8, <1>9

LEMMA AlarmChecksFacts ==
    ASSUME RoomTypes, AlarmChecks
    PROVE  /\ Good(Object') /\ SameMessages(room', room) /\ Knows(Object')
           /\ room'.conns = (room.conns \ Expiring) \cup (Open \ Expiring)
           /\ \E p : /\ Parted(p, Object, Expiring)
                     /\ room'.people = p.room.people \cup UsersOf(Open \ Expiring)
                     /\ disk'.people = p.disk.people
<1> DEFINE o == Without(Fired, Expiring)
           r == [o.room EXCEPT !.access = None]
           C == Open \ Expiring
<1>1. /\ Good(Fired) /\ SameUsers(Fired, Object) /\ SameMessages(Fired.room, room)
      /\ Knows(Fired) /\ Expiring \in SUBSET Conns /\ Open \in SUBSET Conns /\ Object.room = room
  BY FiredFacts, OpenFacts DEF RoomTypes, Object
<1>2. Good(o) /\ Parted(o, Fired, Expiring) /\ SameMessages(o.room, Fired.room) /\ Knows(o)
  BY <1>1, WithoutFacts
<1>3. Becomes([o EXCEPT !.room = With([@ EXCEPT !.access = None], Open \ Expiring)])
  BY DEF AlarmChecks
<1> HIDE DEF o
<1>4. Parted(o, Object, Expiring)
  BY <1>1, <1>2 DEF Parted, SameUsers
<1>5. o.room \in Rooms /\ o.disk \in Disks /\ Buffered(o.room) /\ Listed(o.room)
  BY <1>2 DEF Good, Objects
<1>6. r \in Rooms /\ r.conns = o.room.conns /\ r.people = o.room.people
      /\ SameMessages(r, o.room) /\ r.alarmAt = o.room.alarmAt
  BY <1>5 DEF Rooms, AccessTimes, SameMessages
<1>7. room' = With(r, C) /\ disk' = o.disk
  BY <1>2, <1>3 DEF Becomes, Good, Objects
<1> HIDE DEF r
<1>8. Buffered(r) /\ Listed(r) /\ C \in SUBSET Conns
  BY <1>1, <1>5, <1>6 DEF Buffered, Listed, SameMessages
<1> HIDE DEF C
<1>9. /\ With(r, C) \in Rooms /\ With(r, C).conns = r.conns \cup C
      /\ With(r, C).people = r.people \cup UsersOf(C)
      /\ Buffered(With(r, C)) /\ Listed(With(r, C))
      /\ SameMessages(With(r, C), r) /\ With(r, C).alarmAt = r.alarmAt
  BY <1>6, <1>8, WithFacts
<1>10. Good(Object')
  BY <1>5, <1>7, <1>9, ObjectFacts
<1>11. SameMessages(room', room)
  BY <1>1, <1>2, <1>6, <1>7, <1>9 DEF SameMessages
<1>12. Knows(Object')
  BY <1>2, <1>6, <1>7, <1>9 DEF Knows, Object
<1>13. room'.conns = (room.conns \ Expiring) \cup C
  BY <1>1, <1>4, <1>6, <1>7, <1>9 DEF Parted
<1>14. room'.people = o.room.people \cup UsersOf(C) /\ disk'.people = o.disk.people
  BY <1>6, <1>7, <1>9
<1> QED BY <1>4, <1>10, <1>11, <1>12, <1>13, <1>14 DEF C

LEMMA WakeFacts ==
    ASSUME RoomTypes, Wake
    PROVE  \E seen \in SUBSET Gone :
              /\ stray' = stray \cup UsersOf(Gone \ seen)
              /\ Good(Object') /\ room'.conns = Open \cup seen /\ ~room'.dirty
              /\ room'.people \subseteq UsersOf(Open \cup seen) \cup disk.people
              /\ disk'.people = disk.people
              /\ faults' \in Faults /\ (Sound' => Sound) /\ (Sound' => Ready(Object'))
<1>1. PICK seen \in SUBSET Gone :
         /\ stray' = stray \cup UsersOf(Gone \ seen)
         /\ \E r \in {With(Cold, Open \cup seen)} :
               \/ Arm([Object EXCEPT !.room = [r EXCEPT !.people = @ \cup disk.people,
                                                         !.access = disk.access]])
               \/ /\ Fault("load")
                  /\ \E x \in {r, [r EXCEPT !.access = disk.access]} :
                        Becomes(Armed([Object EXCEPT !.room = x]))
  BY DEF Wake
<1>2. /\ Good(Object) /\ Object.room = room /\ Object.disk = disk /\ disk \in Disks
      /\ Open \cup seen \in SUBSET Conns
  BY ObjectFacts, OpenFacts DEF RoomTypes
<1> DEFINE r == With(Cold, Open \cup seen)
           s == [r EXCEPT !.people = @ \cup disk.people, !.access = disk.access]
           t == [r EXCEPT !.access = disk.access]
<1>3. \/ Arm([Object EXCEPT !.room = s])
      \/ Fault("load") /\ \E x \in {r, t} : Becomes(Armed([Object EXCEPT !.room = x]))
  BY <1>1
<1>4. /\ r \in Rooms /\ Buffered(r) /\ Listed(r) /\ r.conns = Open \cup seen
      /\ r.people = UsersOf(Open \cup seen) /\ ~r.dirty /\ r.alarmAt = Unknown
  <2> DEFINE C == Open \cup seen
  <2>1. C \in SUBSET Conns /\ r = With(Cold, C)
    BY <1>2
  <2> HIDE DEF C, r
  <2>2. /\ r \in Rooms /\ Buffered(r) /\ Listed(r) /\ r.conns = Cold.conns \cup C
        /\ r.people = Cold.people \cup UsersOf(C) /\ SameMessages(r, Cold)
        /\ r.alarmAt = Cold.alarmAt
    BY <2>1, ColdType, WithFacts
  <2>3. r.conns = C /\ r.people = UsersOf(C) /\ ~r.dirty /\ r.alarmAt = Unknown
    BY <2>2, ColdType DEF SameMessages
  <2> QED BY <2>2, <2>3 DEF C
<1> HIDE DEF r
<1>5. ASSUME NEW x \in {r, s, t}
      PROVE  /\ x \in Rooms /\ Buffered(x) /\ Listed(x) /\ x.conns = Open \cup seen
             /\ x.people \subseteq UsersOf(Open \cup seen) \cup disk.people
             /\ ~x.dirty /\ x.alarmAt = Unknown
  <2>1. CASE x = r
    BY <1>4, <2>1
  <2>2. CASE x = s
    <3>1. s \in Rooms /\ s.conns = r.conns /\ s.people = r.people \cup disk.people
          /\ SameMessages(s, r) /\ s.alarmAt = r.alarmAt
      BY <1>2, <1>4 DEF Rooms, Disks, SameMessages
    <3> QED BY <1>4, <2>2, <3>1 DEF Buffered, Listed, SameMessages
  <2>3. CASE x = t
    <3>1. t \in Rooms /\ t.conns = r.conns /\ t.people = r.people
          /\ SameMessages(t, r) /\ t.alarmAt = r.alarmAt
      BY <1>2, <1>4 DEF Rooms, Disks, SameMessages
    <3> QED BY <1>4, <2>3, <3>1 DEF Buffered, Listed, SameMessages
  <2> QED BY <1>5, <2>1, <2>2, <2>3
<1> HIDE DEF s, t
<1>6. ASSUME NEW x \in {r, s, t}
      PROVE  LET o == [Object EXCEPT !.room = x]
             IN Good(o) /\ o.room = x /\ o.disk = disk /\ Knows(o)
  BY <1>2, <1>5, <1>6, InMemory DEF Knows
<1>7. CASE Arm([Object EXCEPT !.room = s])
  <2> DEFINE o == [Object EXCEPT !.room = s]
  <2>1. Good(o) /\ o.room = s /\ o.disk = disk /\ Knows(o)
    BY <1>6
  <2> HIDE DEF o
  <2>2. /\ Good(Object') /\ SameUsers(Object', o) /\ SameMessages(room', o.room)
        /\ (Fault("put") \/ (UNCHANGED faults /\ (Knows(o) => Ready(Object'))))
    BY <1>7, <2>1, ArmFacts DEF RoomTypes, o
  <2>3. faults' \in Faults /\ (Sound' => Sound) /\ (Sound' => ~Fault("put"))
    BY <2>2, FaultFacts DEF RoomTypes, Sound
  <2>4. room'.conns = s.conns /\ room'.people = s.people /\ disk'.people = disk.people
        /\ room'.dirty = s.dirty
    BY <2>1, <2>2 DEF SameUsers, SameMessages, Object
  <2> QED BY <1>1, <1>5, <2>1, <2>2, <2>3, <2>4
<1>8. CASE Fault("load") /\ \E x \in {r, t} : Becomes(Armed([Object EXCEPT !.room = x]))
  <2>1. PICK x \in {r, t} : Becomes(Armed([Object EXCEPT !.room = x]))
    BY <1>8
  <2> DEFINE o == [Object EXCEPT !.room = x]
  <2>2. Good(o) /\ o.room = x /\ o.disk = disk /\ Knows(o) /\ Becomes(Armed(o))
    BY <1>6, <2>1
  <2> HIDE DEF o
  <2>3. /\ Armed(o) \in Objects /\ SameUsers(Armed(o), o) /\ SameMessages(Armed(o).room, o.room)
        /\ Ready(Armed(o))
    BY <2>2, ArmedFacts DEF Good, RoomTypes
  <2>4. Object' = Armed(o) /\ room' = Armed(o).room /\ disk' = Armed(o).disk
    BY <2>2, <2>3 DEF Becomes, Object, Objects
  <2>5. Good(Object') /\ Ready(Object')
    BY <2>2, <2>3, <2>4 DEF Good, Buffered, Listed, SameUsers, SameMessages
  <2>6. faults' \in Faults /\ (Sound' => Sound)
    BY <1>8, FaultFacts DEF RoomTypes
  <2>7. room'.conns = x.conns /\ room'.people = x.people /\ disk'.people = disk.people
        /\ room'.dirty = x.dirty
    BY <2>2, <2>3, <2>4 DEF SameUsers, SameMessages
  <2> QED BY <1>1, <1>5, <2>1, <2>5, <2>6, <2>7
<1> QED BY <1>3, <1>7, <1>8

LEMMA ClientTypes ==
    ASSUME RoomTypes, NEW c \in Conns,
           Chat(c) \/ OtherMessage(c) \/ ClientCloses(c) \/ CloseHeard(c)
    PROVE  RoomTypes'
<1>1. CASE Chat(c)
  <2>1. Good(Object') /\ age' \in 0 .. (FlushDelay + 1) /\ faults' \in Faults
    BY <1>1, ChatFacts
  <2> QED BY <1>1, <2>1 DEF RoomTypes, Chat, Heard, Asleep, Calm
<1>2. CASE OtherMessage(c)
  <2>1. Good(Object') /\ faults' \in Faults
    BY <1>2, OtherMessageFacts
  <2> QED BY <1>2, <2>1 DEF RoomTypes, OtherMessage, Heard, Asleep, Calm
<1>3. CASE ClientCloses(c)
  BY <1>3 DEF RoomTypes, ClientCloses, Asleep, Socks, Object, Calm
<1>4. CASE CloseHeard(c)
  <2>1. Good(Object') /\ faults' \in Faults
    BY <1>4, CloseHeardFacts
  <2> QED BY <1>4, <2>1 DEF RoomTypes, CloseHeard, Asleep, Calm, Socks
<1> QED BY <1>1, <1>2, <1>3, <1>4

LEMMA BegunType ==
    ASSUME job \in [Checks -> Jobs], NEW k \in Checks, NEW U \in SUBSET Users, NEW due \in BOOLEAN,
           Begun(k, U, due)
    PROVE  job' \in [Checks -> Jobs]
<1>1. [Idle EXCEPT !.for = U, !.running = TRUE, !.flushDue = due] \in Jobs
  BY DEF Idle, Jobs
<1> QED BY <1>1 DEF Begun

LEMMA EvictTypes ==
    ASSUME RoomTypes, NEW u \in Users,
           EvictBegins(u) \/ EvictForced(u) \/ Withdraw(u) \/ \E k \in Checks : Answer(k, u)
    PROVE  RoomTypes'
<1>1. CASE EvictBegins(u)
  <2>1. Full.room \in Rooms /\ Buffered(Full.room) /\ Listed(Full.room) /\ disk \in Disks
        /\ Full.room = With(room, Open)
    BY FullFacts, ObjectFacts DEF Good, Objects, RoomTypes
  <2>2. Good(Object')
    BY <1>1, <2>1, ObjectFacts DEF EvictBegins
  <2>3. job' \in [Checks -> Jobs]
    <3>1. {u} \in SUBSET Users /\ "evict" \in Checks /\ FALSE \in BOOLEAN
      BY DEF Checks
    <3> QED BY <1>1, <3>1, BegunType DEF RoomTypes, EvictBegins
  <2> QED BY <1>1, <2>2, <2>3 DEF RoomTypes, EvictBegins, Asleep
<1>2. CASE EvictForced(u)
  <2>1. PICK C \in SUBSET Conns :
           Good(Object') /\ faults' \in Faults /\ (Closed(C, "closed") \/ UNCHANGED sock)
    BY <1>2, EvictForcedFacts
  <2>2. sock' \in [Conns -> Socks]
    BY <2>1, OpenFacts DEF RoomTypes, Socks
  <2> QED BY <1>2, <2>1, <2>2 DEF RoomTypes, EvictForced, Asleep
<1>3. CASE Withdraw(u)
  BY <1>3 DEF RoomTypes, Withdraw, Asleep, Object, Calm
<1>4. ASSUME NEW k \in Checks, Answer(k, u) PROVE RoomTypes'
  <2>1. job[k] \in Jobs /\ job[k].running
    BY <1>4 DEF RoomTypes, Answer, Asks
  <2>2. awake
    BY <2>1 DEF RoomTypes, Asleep, Calm, Checks
  <2>3. job' \in [Checks -> Jobs] /\ faults' \in Faults
    <3>1. CASE /\ job' = [job EXCEPT ![k].answer[u] = IF u \in lost THEN "drop" ELSE "keep"]
               /\ UNCHANGED faults
      <4>1. [job[k] EXCEPT !.answer[u] = IF u \in lost THEN "drop" ELSE "keep"] \in Jobs
        BY <2>1 DEF Jobs
      <4> QED BY <3>1, <4>1 DEF RoomTypes
    <3>2. CASE /\ Fault("d1")
               /\ job' = [job EXCEPT ![k].answer[u] = "keep", ![k].deferred = TRUE]
      <4>1. [job[k] EXCEPT !.answer[u] = "keep", !.deferred = TRUE] \in Jobs
        BY <2>1 DEF Jobs
      <4>2. faults' \in Faults
        BY <3>2, FaultFacts DEF RoomTypes
      <4>3. job' = [job EXCEPT ![k] = [job[k] EXCEPT !.answer[u] = "keep", !.deferred = TRUE]]
        BY <3>2 DEF RoomTypes
      <4> QED BY <4>1, <4>2, <4>3 DEF RoomTypes
    <3> QED BY <1>4, <3>1, <3>2 DEF Answer
  <2> QED BY <1>4, <2>2, <2>3 DEF RoomTypes, Answer, Asleep, Object
<1> QED BY <1>1, <1>2, <1>3, <1>4

LEMMA AlarmTypes ==
    ASSUME RoomTypes, EvictEnds \/ AlarmFlushes \/ AlarmChecks \/ AlarmThrows \/ AlarmEnds
    PROVE  RoomTypes'
<1>0. /\ Idle \in Jobs /\ Expiring \in SUBSET Conns
      /\ \A k : Revoked(k) \in SUBSET Conns
      /\ \A C \in SUBSET Conns, as \in {"closed", "revoked"} :
            Closed(C, as) => sock' \in [Conns -> Socks]
  BY IdleType, FiredFacts, RevokedType, OpenFacts DEF RoomTypes, Socks
<1>1. CASE EvictEnds
  <2>1. /\ Good(Object') /\ faults' \in Faults
        /\ Closed(Revoked("evict"), "revoked") \/ UNCHANGED sock
    BY <1>1, EvictEndsFacts
  <2>2. sock' \in [Conns -> Socks]
    BY <1>0, <2>1 DEF RoomTypes
  <2>3. awake
    BY <1>1 DEF RoomTypes, Asleep, Calm, EvictEnds
  <2>4. job' \in [Checks -> Jobs]
    BY <1>0, <1>1 DEF RoomTypes, EvictEnds
  <2> QED BY <1>1, <2>1, <2>2, <2>3, <2>4 DEF RoomTypes, EvictEnds, Asleep
<1>2. CASE AlarmFlushes
  <2>1. Good(Object') /\ faults' \in Faults /\ age' \in 0 .. (FlushDelay + 1)
    BY <1>2, AlarmFlushesFacts
  <2>2. sock' \in [Conns -> Socks] /\ awake
    BY <1>0, <1>2 DEF AlarmFlushes, AlarmDue
  <2> QED BY <1>2, <2>1, <2>2 DEF RoomTypes, AlarmFlushes, Asleep
<1>3. CASE AlarmChecks
  <2>1. Good(Object')
    BY <1>3, AlarmChecksFacts
  <2>2. sock' \in [Conns -> Socks] /\ awake
    BY <1>0, <1>3 DEF AlarmChecks, AlarmDue
  <2>3. job' \in [Checks -> Jobs]
    <3>1. "alarm" \in Checks /\ Begun("alarm", Users, room.flush = 0)
      BY <1>3 DEF Checks, AlarmChecks
    <3> DEFINE due == room.flush = 0
    <3>2. due \in BOOLEAN /\ Begun("alarm", Users, due)
      BY <3>1
    <3> HIDE DEF due
    <3> QED BY <3>1, <3>2, BegunType DEF RoomTypes
  <2> QED BY <1>3, <2>1, <2>2, <2>3 DEF RoomTypes, AlarmChecks, Asleep
<1>4. CASE AlarmThrows
  <2>1. Good(Object') /\ faults' \in Faults
    BY <1>4, AlarmThrowsFacts
  <2>2. sock' \in [Conns -> Socks] /\ awake
    BY <1>0, <1>4 DEF AlarmThrows, AlarmDue
  <2> QED BY <1>4, <2>1, <2>2 DEF RoomTypes, AlarmThrows, Asleep
<1>5. CASE AlarmEnds
  <2>1. /\ Good(Object') /\ faults' \in Faults /\ age' \in 0 .. (FlushDelay + 1)
        /\ Closed(Revoked("alarm"), "revoked") \/ UNCHANGED sock
    BY <1>5, AlarmEndsFacts
  <2>2. sock' \in [Conns -> Socks]
    BY <1>0, <2>1 DEF RoomTypes
  <2>3. awake
    BY <1>5 DEF RoomTypes, Asleep, Calm, AlarmEnds
  <2>4. job' \in [Checks -> Jobs]
    BY <1>0, <1>5 DEF RoomTypes, AlarmEnds
  <2> QED BY <1>5, <2>1, <2>2, <2>3, <2>4 DEF RoomTypes, AlarmEnds, Asleep
<1> QED BY <1>1, <1>2, <1>3, <1>4, <1>5

LEMMA TickFacts ==
    /\ \A t \in AccessTimes : Sooner(t) \in AccessTimes
    /\ \A t \in Deadline : Sooner(t) \in Deadline
    /\ Sooner(None) = None /\ Sooner(Unknown) = Unknown
    /\ \A t \in Deadline : (Sooner(t) = None <=> t = None)
  BY ConstantFacts DEF Sooner, AccessTimes, Deadline, None, Unknown

LEMMA LifeTypes ==
    ASSUME RoomTypes, Hibernate \/ Crash \/ Wake \/ Tick
    PROVE  RoomTypes'
<1>0. room \in Rooms /\ disk \in Disks /\ Buffered(room) /\ Listed(room)
      /\ 0 \in 0 .. (FlushDelay + 1) /\ Cold \in Rooms /\ Buffered(Cold) /\ Listed(Cold)
  BY ObjectFacts, ColdType, ConstantFacts DEF RoomTypes
<1>1. CASE Hibernate
  <2>1. Good(Object')
    BY <1>0, <1>1, ObjectFacts DEF Hibernate
  <2> QED BY <1>0, <1>1, <2>1 DEF RoomTypes, Hibernate, Asleep, Calm
<1>2. CASE Crash
  <2>1. disk' \in Disks
    BY <1>0, <1>2 DEF Crash, Disks, Deadline
  <2>2. Good(Object')
    BY <1>0, <1>2, <2>1, ObjectFacts DEF Crash
  <2>3. faults' \in Faults
    BY <1>2, FaultFacts DEF RoomTypes, Crash
  <2>4. Calm' /\ job' \in [Checks -> Jobs]
    BY <1>2, IdleType DEF Crash, Calm, Idle, Checks
  <2>5. sock' \in [Conns -> Socks]
    BY <1>2 DEF RoomTypes, Crash, Socks
  <2> QED BY <1>0, <1>2, <2>2, <2>3, <2>4, <2>5 DEF RoomTypes, Crash, Asleep
<1>3. CASE Wake
  <2>1. PICK seen \in SUBSET Gone :
           Good(Object') /\ faults' \in Faults /\ stray' = stray \cup UsersOf(Gone \ seen)
    BY <1>3, WakeFacts
  <2>2. stray' \in SUBSET Users
    BY <2>1, RoomAssumption DEF RoomTypes, Gone, UsersOf
  <2> QED BY <1>3, <2>1, <2>2 DEF RoomTypes, Wake, Asleep
<1>4. CASE Tick
  <2>1. room' \in Rooms /\ Buffered(room') /\ Listed(room')
    <3>1. /\ Sooner(room.access) \in AccessTimes /\ Sooner(room.flush) \in Deadline
          /\ Sooner(room.alarmAt) \in Deadline \cup {Unknown}
          /\ Sooner(room.flush) = None <=> room.flush = None
      BY <1>0, TickFacts DEF Rooms
    <3>2. room' = [room EXCEPT !.access = Sooner(room.access), !.flush = Sooner(room.flush),
                               !.alarmAt = Sooner(room.alarmAt)]
      BY <1>4 DEF Tick
    <3> QED BY <1>0, <3>1, <3>2 DEF Rooms, Buffered, Listed
  <2>2. disk' \in Disks
    BY <1>0, <1>4, TickFacts DEF Tick, Disks
  <2>3. Good(Object')
    BY <2>1, <2>2, ObjectFacts
  <2>4. token' \in [Conns -> Deadline]
    BY <1>4, TickFacts DEF RoomTypes, Tick
  <2>5. age' \in 0 .. (FlushDelay + 1)
    BY <1>4, ConstantFacts DEF RoomTypes, Tick
  <2>6. ASSUME ~awake PROVE room' = Cold
    <3>1. room = Cold /\ room.access = None /\ room.flush = None /\ room.alarmAt = Unknown
      BY <2>6, ColdType DEF RoomTypes, Asleep
    <3>2. room' = [room EXCEPT !.access = None, !.flush = None, !.alarmAt = Unknown]
      BY <1>4, <3>1, TickFacts DEF Tick
    <3> QED BY <1>0, <3>1, <3>2 DEF Rooms
  <2> QED BY <1>4, <2>3, <2>4, <2>5, <2>6 DEF RoomTypes, Tick, Asleep, Calm
<1> QED BY <1>1, <1>2, <1>3, <1>4

\* Every step keeps the object well formed: what it holds in memory and in storage has
\* its type, every connected user is on its list of participants, and a window is open
\* exactly while there is a message to store and an attempt left.
LEMMA TypesStep == RoomTypes /\ [Next]_vars => RoomTypes'
<1> SUFFICES ASSUME RoomTypes, [Next]_vars PROVE RoomTypes'
  OBVIOUS
<1>1. CASE UNCHANGED vars
  BY <1>1 DEF RoomTypes, vars, Asleep, Calm, Object
<1>2. CASE Next
  BY <1>2, JoinTypes, ClientTypes, EvictTypes, AlarmTypes, LifeTypes DEF Next
<1> QED BY <1>1, <1>2

\* What the room holds, its storage and the checks under way have their types
\* whatever clients, timers and faults do.
THEOREM RoomTypeCorrect == Spec => []TypeOK
<1>1. Init => RoomTypes
  BY TypesInit
<1>2. RoomTypes /\ [Next]_vars => RoomTypes'
  BY TypesStep
<1>3. RoomTypes => TypeOK
  BY RoomTypesGiveTypeOK
<1> QED BY <1>1, <1>2, <1>3, PTL DEF Spec

THEOREM RoomWellFormed == Spec => []RoomTypes
  BY TypesInit, TypesStep, PTL DEF Spec

(***************************************************************************)
(* Sockets                                                                 *)
(***************************************************************************)
LEMMA ClosingFacts ==
    ASSUME RoomTypes, NEW C \in SUBSET Conns, NEW as \in {"closed", "revoked"}, Closed(C, as)
    PROVE  /\ \A c \in Conns : sock'[c] = IF c \in C THEN as ELSE sock[c]
           /\ Open' = Open \ C
  BY DEF RoomTypes, Closed, Open

\* Connections C are closed, or none because the storage throws first.
LEMMA ClosingKeepsSockets ==
    ASSUME RoomTypes, KnowsItsSockets, Sound' => Sound, awake,
           NEW C \in SUBSET Conns, NEW as \in {"closed", "revoked"}, NEW K \in SUBSET Conns,
           K = room.conns \/ K = room.conns \cup Open,
           \/ Closed(C, as) /\ room'.conns = K \ C
           \/ UNCHANGED sock /\ room'.conns = K
    PROVE  KnowsItsSockets'
<1>1. Open \subseteq room.conns /\ K = room.conns /\ room.conns \in SUBSET Conns
  BY ObjectFacts DEF KnowsItsSockets, RoomTypes, Rooms
<1>2. CASE Closed(C, as) /\ room'.conns = K \ C
  <2>1. (\A c \in Conns : sock'[c] = IF c \in C THEN as ELSE sock[c]) /\ Open' = Open \ C
    BY <1>2, ClosingFacts
  <2>2. room'.conns = room.conns \ C
    BY <1>1, <1>2
  <2>3. Open' \subseteq room'.conns
    BY <1>1, <2>1, <2>2
  <2>4. \A c \in room'.conns : sock'[c] = sock[c] /\ c \in room.conns
    BY <1>1, <2>1, <2>2
  <2> QED BY <2>3, <2>4 DEF KnowsItsSockets
<1>3. CASE UNCHANGED sock /\ room'.conns = K
  BY <1>1, <1>3 DEF KnowsItsSockets, Open
<1> QED BY <1>2, <1>3

LEMMA JoinSockets ==
    ASSUME RoomTypes, KnowsItsSockets, NEW c \in Conns,
           Admit(c) \/ JoinBegins(c) \/ JoinThrows(c) \/ JoinEnds(c)
    PROVE  KnowsItsSockets'
<1>0. room \in Rooms /\ disk \in Disks /\ Buffered(room) /\ Listed(room) /\ Good(Object)
      /\ Object.room = room /\ Object.disk = disk /\ faults \in Faults /\ sock \in [Conns -> Socks]
      /\ room.conns \in SUBSET Conns /\ {c} \in SUBSET Conns
  BY ObjectFacts DEF RoomTypes, Rooms
<1>1. CASE Admit(c)
  BY <1>0, <1>1 DEF Admit, KnowsItsSockets, Open, Sound
<1>2. CASE JoinBegins(c)
  <2>1. room'.conns = room.conns \cup {c}
    BY <1>0, <1>2, WithFacts DEF JoinBegins
  <2> QED BY <1>0, <1>2, <2>1 DEF JoinBegins, KnowsItsSockets, Open, Sound
<1>3. CASE JoinThrows(c)
  <2>1. ~Sound'
    BY <1>0, <1>3, FaultFacts DEF JoinThrows
  <2> DEFINE o == [Object EXCEPT !.room = With(@, {c})]
  <2>2. Good(o) /\ o.room.conns = room.conns \cup {c}
    BY <1>0, WithFacts, InMemory
  <2> HIDE DEF o
  <2>3. Good(Without(o, {c})) /\ Parted(Without(o, {c}), o, {c})
    BY <1>0, <2>2, WithoutFacts
  <2>4. Becomes(Without(o, {c}))
    BY <1>3 DEF JoinThrows, o
  <2>5. room'.conns = (room.conns \cup {c}) \ {c}
    BY <2>2, <2>3, <2>4 DEF Parted, Becomes
  <2> QED BY <1>0, <1>3, <2>1, <2>5 DEF JoinThrows, KnowsItsSockets, Open
<1>4. CASE JoinEnds(c)
  <2>1. Arm(Object)
    BY <1>4 DEF JoinEnds, Arm
  <2>2. room'.conns = room.conns
    BY <1>0, <2>1, ArmFacts DEF RoomTypes, SameUsers, Object
  <2>3. Sound' => Sound
    BY <1>0, <1>4, FaultFacts DEF JoinEnds, Sound
  <2>4. \A d \in Conns : sock'[d] = sock[d] \/ (sock[d] = "open" /\ sock'[d] = "gone")
    BY <1>0, <1>4 DEF JoinEnds
  <2> QED BY <1>0, <1>4, <2>2, <2>3, <2>4 DEF JoinEnds, KnowsItsSockets, Open
<1> QED BY <1>1, <1>2, <1>3, <1>4

LEMMA ClientSockets ==
    ASSUME RoomTypes, KnowsItsSockets, NEW c \in Conns,
           Chat(c) \/ OtherMessage(c) \/ ClientCloses(c) \/ CloseHeard(c)
    PROVE  KnowsItsSockets'
<1>0. sock \in [Conns -> Socks] /\ room.conns \in SUBSET Conns
  BY ObjectFacts DEF RoomTypes, Rooms
<1>1. CASE Chat(c)
  <2>1. room'.conns = room.conns \cup {c} /\ c \in Open /\ (Sound' => Sound)
    BY <1>1, ChatFacts
  <2> QED BY <1>1, <2>1 DEF Chat, KnowsItsSockets, Open
<1>2. CASE OtherMessage(c)
  <2>1. room'.conns = room.conns \cup {c} /\ c \in Open /\ (Sound' => Sound)
    BY <1>2, OtherMessageFacts
  <2> QED BY <1>2, <2>1 DEF OtherMessage, KnowsItsSockets, Open
<1>3. CASE ClientCloses(c)
  BY <1>0, <1>3 DEF ClientCloses, KnowsItsSockets, Open, Sound
<1>4. CASE CloseHeard(c)
  <2>1. room'.conns = room.conns \ {c} /\ (Sound' => Sound)
    BY <1>4, CloseHeardFacts
  <2> QED BY <1>0, <1>4, <2>1 DEF CloseHeard, KnowsItsSockets, Open
<1> QED BY <1>1, <1>2, <1>3, <1>4

LEMMA EvictSockets ==
    ASSUME RoomTypes, KnowsItsSockets, NEW u \in Users,
           EvictBegins(u) \/ EvictForced(u) \/ Withdraw(u) \/ \E k \in Checks : Answer(k, u)
    PROVE  KnowsItsSockets'
<1>1. CASE EvictBegins(u)
  <2>1. room'.conns = room.conns \cup Open
    BY <1>1, FullFacts DEF EvictBegins
  <2> QED BY <1>1, <2>1 DEF EvictBegins, KnowsItsSockets, Open, Sound
<1>2. CASE EvictForced(u)
  <2>1. PICK C \in SUBSET Conns :
           /\ Sound' => Sound
           /\ \/ Closed(C, "closed") /\ room'.conns = (room.conns \cup Open) \ C
              \/ UNCHANGED sock /\ room'.conns = room.conns \cup Open
    BY <1>2, EvictForcedFacts
  <2>2. room.conns \cup Open \in SUBSET Conns /\ awake
    BY <1>2, ObjectFacts, OpenFacts DEF RoomTypes, Rooms, EvictForced
  <2> QED BY <2>1, <2>2, ClosingKeepsSockets
<1>3. CASE Withdraw(u)
  BY <1>3 DEF Withdraw, KnowsItsSockets, Open, Sound
<1>4. ASSUME NEW k \in Checks, Answer(k, u) PROVE KnowsItsSockets'
  <2>1. Sound' => Sound
    BY <1>4, FaultFacts DEF RoomTypes, Answer, Sound
  <2> QED BY <1>4, <2>1 DEF Answer, KnowsItsSockets, Open
<1> QED BY <1>1, <1>2, <1>3, <1>4

LEMMA AlarmSockets ==
    ASSUME RoomTypes, KnowsItsSockets,
           EvictEnds \/ AlarmFlushes \/ AlarmChecks \/ AlarmThrows \/ AlarmEnds
    PROVE  KnowsItsSockets'
<1>0. /\ Expiring \in SUBSET Conns /\ room.conns \in SUBSET Conns
      /\ \A k : Revoked(k) \in SUBSET Conns
      /\ Object.room = room
  BY FiredFacts, RevokedType, ObjectFacts DEF RoomTypes, Rooms
<1>1. CASE EvictEnds
  <2> DEFINE C == Revoked("evict")
  <2>1. /\ Sound' => Sound
        /\ \/ Closed(C, "revoked") /\ room'.conns = room.conns \ C
           \/ UNCHANGED sock /\ room'.conns = room.conns
    BY <1>1, EvictEndsFacts
  <2>2. awake
    BY <1>1 DEF RoomTypes, Asleep, Calm, EvictEnds
  <2> QED BY <1>0, <2>1, <2>2, ClosingKeepsSockets
<1>2. CASE AlarmFlushes
  <2>1. room'.conns = room.conns \ Expiring /\ (Sound' => Sound)
    BY <1>0, <1>2, AlarmFlushesFacts DEF Parted, Object
  <2>2. awake /\ Closed(Expiring, "closed")
    BY <1>2 DEF AlarmFlushes, AlarmDue
  <2> QED BY <1>0, <2>1, <2>2, ClosingKeepsSockets
<1>3. CASE AlarmChecks
  <2>1. room'.conns = (room.conns \ Expiring) \cup (Open \ Expiring)
    BY <1>3, AlarmChecksFacts
  <2>2. awake /\ Closed(Expiring, "closed") /\ UNCHANGED faults
    BY <1>3 DEF AlarmChecks, AlarmDue
  <2>3. room'.conns = room.conns \ Expiring
    BY <2>1, <2>2 DEF KnowsItsSockets
  <2> QED BY <1>0, <2>2, <2>3, ClosingKeepsSockets DEF Sound
<1>4. CASE AlarmThrows
  <2>1. room.conns \ Expiring \subseteq room'.conns /\ ~Sound'
    BY <1>4, AlarmThrowsFacts
  <2>2. Open' = Open \ Expiring /\ awake
    BY <1>0, <1>4, ClosingFacts DEF AlarmThrows, AlarmDue
  <2> QED BY <2>1, <2>2 DEF KnowsItsSockets
<1>5. CASE AlarmEnds
  <2> DEFINE C == Revoked("alarm")
  <2>1. /\ Sound' => Sound
        /\ \/ Closed(C, "revoked") /\ room'.conns = room.conns \ C
           \/ UNCHANGED sock /\ room'.conns = room.conns
    BY <1>5, AlarmEndsFacts
  <2>2. awake
    BY <1>5 DEF RoomTypes, Asleep, Calm, AlarmEnds
  <2> QED BY <1>0, <2>1, <2>2, ClosingKeepsSockets
<1> QED BY <1>1, <1>2, <1>3, <1>4, <1>5

LEMMA LifeSockets ==
    ASSUME RoomTypes, KnowsItsSockets, Hibernate \/ Crash \/ Wake \/ Tick
    PROVE  KnowsItsSockets'
<1>1. CASE Hibernate
  BY <1>1, ColdType DEF Hibernate, KnowsItsSockets
<1>2. CASE Crash
  BY <1>2, ColdType DEF Crash, KnowsItsSockets
<1>3. CASE Wake
  <2>1. PICK seen \in SUBSET Gone : room'.conns = Open \cup seen
    BY <1>3, WakeFacts
  <2> QED BY <1>3, <2>1 DEF Wake, KnowsItsSockets, Open, Gone
<1>4. CASE Tick
  <2>1. room'.conns = room.conns
    BY <1>4, ObjectFacts DEF RoomTypes, Rooms, Tick
  <2> QED BY <1>4, <2>1 DEF Tick, KnowsItsSockets, Open, Sound
<1> QED BY <1>1, <1>2, <1>3, <1>4

LEMMA SocketsStep == RoomTypes /\ KnowsItsSockets /\ [Next]_vars => KnowsItsSockets'
<1> SUFFICES ASSUME RoomTypes, KnowsItsSockets, [Next]_vars PROVE KnowsItsSockets'
  OBVIOUS
<1>1. CASE UNCHANGED vars
  BY <1>1 DEF KnowsItsSockets, vars, Open, Sound
<1>2. CASE Next
  BY <1>2, JoinSockets, ClientSockets, EvictSockets, AlarmSockets, LifeSockets DEF Next
<1> QED BY <1>1, <1>2

\* An object in memory knows every open socket, and, until its storage has failed it,
\* no socket that was closed.
THEOREM RoomKnowsItsSockets == Spec => []KnowsItsSockets
<1>1. Init => KnowsItsSockets
  BY ColdType DEF Init, KnowsItsSockets, Open
<1>2. RoomTypes /\ KnowsItsSockets /\ [Next]_vars => KnowsItsSockets'
  BY SocketsStep
<1> QED BY <1>1, <1>2, RoomWellFormed, PTL DEF Spec

(***************************************************************************)
(* Outages                                                                 *)
(***************************************************************************)
\* An answer that puts a user out comes of a lost access, and so does every socket
\* that a check has closed.
Answers ==
    /\ \A k \in Checks, u \in Users : job[k].answer[u] = "drop" => u \in lost
    /\ OutageEvictsNobody

LEMMA RevokedFacts ==
    ASSUME RoomTypes, Answers, NEW k \in Checks, Closed(Revoked(k), "revoked") \/ UNCHANGED sock,
           UNCHANGED lost
    PROVE  OutageEvictsNobody'
<1>1. \A c \in Revoked(k) : UserOf[c] \in lost
  BY RevokedType, RoomAssumption DEF Revoked, Answers
<1>2. \A c \in Conns : sock'[c] = sock[c] \/ c \in Revoked(k)
  BY DEF Closed
<1> QED BY <1>1, <1>2 DEF OutageEvictsNobody, Answers

\* No socket is put out by a check.
LEMMA NobodyRevoked ==
    ASSUME OutageEvictsNobody, lost \subseteq lost',
           \A c \in Conns : sock'[c] = sock[c] \/ sock'[c] # "revoked"
    PROVE  OutageEvictsNobody'
  BY DEF OutageEvictsNobody

LEMMA IdleAnswers == \A u \in Users : Idle.answer[u] # "drop"
  BY DEF Idle

LEMMA BegunAnswers ==
    ASSUME Answers, job \in [Checks -> Jobs], NEW k \in Checks, NEW U, NEW due, Begun(k, U, due),
           UNCHANGED lost
    PROVE  \A j \in Checks, u \in Users : job'[j].answer[u] = "drop" => u \in lost'
<1>1. [Idle EXCEPT !.for = U, !.running = TRUE, !.flushDue = due].answer = Idle.answer
  BY DEF Idle
<1> QED BY <1>1, IdleAnswers DEF Begun, Answers

LEMMA AnswersStep == RoomTypes /\ Answers /\ [Next]_vars => Answers'
<1> SUFFICES ASSUME RoomTypes, Answers, [Next]_vars PROVE Answers'
  OBVIOUS
<1> USE DEF Answers
<1>0. sock \in [Conns -> Socks] /\ job \in [Checks -> Jobs] /\ "alarm" \in Checks /\ "evict" \in Checks
  BY DEF RoomTypes, Checks
<1>1. CASE UNCHANGED vars
  BY <1>1 DEF vars, OutageEvictsNobody
<1>2. ASSUME NEW c \in Conns,
             \/ Admit(c) \/ JoinBegins(c) \/ JoinThrows(c) \/ JoinEnds(c)
             \/ Chat(c) \/ OtherMessage(c) \/ ClientCloses(c) \/ CloseHeard(c)
      PROVE  Answers'
  <2>1. /\ UNCHANGED <<job, lost>>
        /\ \A d \in Conns : sock'[d] = sock[d] \/ sock'[d] # "revoked"
    BY <1>0, <1>2 DEF Admit, JoinBegins, JoinThrows, JoinEnds, Chat, OtherMessage, ClientCloses,
                      CloseHeard
  <2> QED BY <2>1, NobodyRevoked
<1>3. ASSUME NEW u \in Users, EvictBegins(u) PROVE Answers'
  BY <1>0, <1>3, BegunAnswers, NobodyRevoked DEF EvictBegins
<1>4. ASSUME NEW u \in Users, EvictForced(u) PROVE Answers'
  <2>1. PICK C \in SUBSET Conns : Closed(C, "closed") \/ UNCHANGED sock
    BY <1>4, EvictForcedFacts
  <2>2. \A d \in Conns : sock'[d] = sock[d] \/ sock'[d] # "revoked"
    BY <2>1 DEF Closed
  <2> QED BY <1>4, <2>2, NobodyRevoked DEF EvictForced
<1>5. ASSUME NEW u \in Users, Withdraw(u) PROVE Answers'
  BY <1>5 DEF Withdraw, OutageEvictsNobody
<1>6. ASSUME NEW u \in Users, NEW k \in Checks, Answer(k, u) PROVE Answers'
  <2>1. UNCHANGED <<sock, lost>>
    BY <1>6 DEF Answer
  <2>2. \/ job' = [job EXCEPT ![k].answer[u] = IF u \in lost THEN "drop" ELSE "keep"]
        \/ job' = [job EXCEPT ![k].answer[u] = "keep", ![k].deferred = TRUE]
    BY <1>6 DEF Answer
  <2>3. ASSUME NEW j \in Checks, NEW v \in Users, job'[j].answer[v] = "drop"
        PROVE  v \in lost
    <3>1. job[j].answer[v] = "drop" \/ (j = k /\ v = u /\ u \in lost)
      BY <1>0, <2>2, <2>3 DEF Jobs
    <3> QED BY <2>3, <3>1
  <2> QED BY <2>1, <2>3 DEF OutageEvictsNobody
<1>7. ASSUME EvictEnds PROVE Answers'
  <2>1. Closed(Revoked("evict"), "revoked") \/ UNCHANGED sock
    BY <1>7, EvictEndsFacts
  <2> QED BY <1>0, <1>7, <2>1, RevokedFacts, IdleAnswers DEF EvictEnds
<1>8. ASSUME AlarmFlushes PROVE Answers'
  <2>1. \A d \in Conns : sock'[d] = sock[d] \/ sock'[d] # "revoked"
    BY <1>8 DEF AlarmFlushes, Closed
  <2> QED BY <1>8, <2>1, NobodyRevoked DEF AlarmFlushes
<1>9. ASSUME AlarmChecks PROVE Answers'
  <2>1. \A d \in Conns : sock'[d] = sock[d] \/ sock'[d] # "revoked"
    BY <1>9 DEF AlarmChecks, Closed
  <2> QED BY <1>0, <1>9, <2>1, NobodyRevoked, BegunAnswers DEF AlarmChecks
<1>10. ASSUME AlarmThrows PROVE Answers'
  <2>1. \A d \in Conns : sock'[d] = sock[d] \/ sock'[d] # "revoked"
    BY <1>10 DEF AlarmThrows, Closed
  <2> QED BY <1>10, <2>1, NobodyRevoked DEF AlarmThrows
<1>11. ASSUME AlarmEnds PROVE Answers'
  <2>1. Closed(Revoked("alarm"), "revoked") \/ UNCHANGED sock
    BY <1>11, AlarmEndsFacts
  <2> QED BY <1>0, <1>11, <2>1, RevokedFacts, IdleAnswers DEF AlarmEnds
<1>12. ASSUME Hibernate \/ Wake \/ Tick PROVE Answers'
  BY <1>12 DEF Hibernate, Wake, Tick, OutageEvictsNobody
<1>13. ASSUME Crash PROVE Answers'
  <2>1. \A d \in Conns : sock'[d] = sock[d] \/ sock'[d] # "revoked"
    BY <1>13 DEF Crash
  <2> QED BY <1>13, <2>1, NobodyRevoked, IdleAnswers DEF Crash
<1> QED BY <1>1, <1>2, <1>3, <1>4, <1>5, <1>6, <1>7, <1>8, <1>9, <1>10, <1>11, <1>12, <1>13
        DEF Next

\* However many questions to D1 go unanswered, an access check puts out nobody who has
\* kept his access.
THEOREM RoomSparesTheRest == Spec => []OutageEvictsNobody
<1>1. Init => Answers
  BY IdleAnswers DEF Init, Answers, OutageEvictsNobody
<1>2. RoomTypes /\ Answers /\ [Next]_vars => Answers'
  BY AnswersStep
<1>3. Answers => OutageEvictsNobody
  BY DEF Answers
<1> QED BY <1>1, <1>2, <1>3, RoomWellFormed, PTL DEF Spec

(***************************************************************************)
(* The list of participants                                                *)
(***************************************************************************)
\* Nobody is on the list, in memory or in storage, but who is connected, whose close
\* is yet to be heard, or whose close was lost.
Closing == Open \cup Gone

People ==
    Sound => /\ awake => /\ room.people \subseteq UsersOf(room.conns) \cup stray
                         /\ UsersOf(Gone \ room.conns) \subseteq stray
             /\ disk.people \subseteq UsersOf(Closing) \cup stray

\* The users of some connections.
LEMMA UsersFacts ==
    /\ \A C, D : UsersOf(C \cup D) = UsersOf(C) \cup UsersOf(D)
    /\ \A C, D : C \subseteq D => UsersOf(C) \subseteq UsersOf(D)
    /\ \A c : UsersOf({c}) = {UserOf[c]}
    /\ UsersOf({}) = {}
  BY DEF UsersOf

\* Sockets and connections stay what they are.
LEMMA SamePeople ==
    ASSUME People, Sound' => Sound, awake' => awake, UNCHANGED stray,
           Closing' = Closing, Gone' \ room'.conns \subseteq Gone \ room.conns,
           room'.conns = room.conns, room'.people = room.people, disk'.people = disk.people
    PROVE  People'
  BY UsersFacts DEF People

\* The connections C leave with their sockets.
LEMMA LeavingPeople ==
    ASSUME RoomTypes, KnowsItsSockets, People, awake, Sound' => Sound, UNCHANGED stray,
           NEW C \in SUBSET Conns, NEW as \in {"closed", "revoked"},
           Sound' => Closed(C, as) /\ Parted(Object', Object, C)
    PROVE  People'
<1> SUFFICES ASSUME Sound' PROVE People'
  BY DEF People
<1> DEFINE K == room.conns \ C
<1>0. Sound /\ Listed(room) /\ stray' = stray /\ Object.room = room /\ Object.disk = disk
      /\ Object'.room = room' /\ Object'.disk = disk'
  BY ObjectFacts DEF RoomTypes, Object
<1>1. /\ room'.conns = K
      /\ room'.people = room.people \ (UsersOf(C) \ UsersOf(K))
      /\ disk'.people = IF C = {} THEN disk.people ELSE room'.people
  BY <1>0 DEF Parted
<1>2. /\ Open' = Open \ C /\ Gone' = Gone \ C
      /\ \A c \in Conns : sock'[c] = IF c \in C THEN as ELSE sock[c]
  <2>1. Open' = Open \ C /\ \A c \in Conns : sock'[c] = IF c \in C THEN as ELSE sock[c]
    BY ClosingFacts
  <2>2. Gone' = Gone \ C
    BY <2>1 DEF Gone
  <2> QED BY <2>1, <2>2
<1>3. room.conns \in SUBSET Conns /\ \A c \in room.conns : sock[c] \in {"open", "gone"}
  BY <1>0, ObjectFacts DEF RoomTypes, Rooms, KnowsItsSockets
<1>4. K \subseteq Closing'
  BY <1>2, <1>3 DEF Closing, Open, Gone
<1> HIDE DEF K
<1>5. room.people \subseteq UsersOf(room.conns) \cup stray
  BY <1>0 DEF People
<1>6. UsersOf(room.conns) \subseteq UsersOf(K) \cup UsersOf(C)
  BY DEF K, UsersOf
<1>7. room'.people \subseteq UsersOf(K) \cup stray
  BY <1>1, <1>5, <1>6
<1>8. UsersOf(Gone' \ room'.conns) \subseteq stray
  <2>1. Gone' \ room'.conns \subseteq Gone \ room.conns
    BY <1>1, <1>2 DEF K
  <2>2. UsersOf(Gone \ room.conns) \subseteq stray
    BY <1>0 DEF People
  <2> QED BY <2>1, <2>2, UsersFacts
<1>9. disk'.people \subseteq UsersOf(Closing') \cup stray
  <2>1. CASE C = {}
    <3>1. Closing' = Closing /\ disk'.people = disk.people
      BY <1>1, <1>2, <2>1 DEF Closing
    <3> QED BY <1>0, <3>1 DEF People
  <2>2. CASE C # {}
    BY <1>1, <1>4, <1>7, <2>2, UsersFacts
  <2> QED BY <2>1, <2>2
<1> QED BY <1>0, <1>1, <1>7, <1>8, <1>9 DEF People

LEMMA JoinPeople ==
    ASSUME RoomTypes, KnowsItsSockets, People, NEW c \in Conns,
           Admit(c) \/ JoinBegins(c) \/ JoinThrows(c) \/ JoinEnds(c)
    PROVE  People'
<1>0. room \in Rooms /\ disk \in Disks /\ Buffered(room) /\ Listed(room) /\ Good(Object)
      /\ Object.room = room /\ Object.disk = disk /\ faults \in Faults /\ sock \in [Conns -> Socks]
      /\ room.conns \in SUBSET Conns /\ {c} \in SUBSET Conns
  BY ObjectFacts DEF RoomTypes, Rooms
<1>1. CASE Admit(c)
  <2>1. Open' = Open /\ Gone' = Gone
    BY <1>0, <1>1 DEF Admit, Open, Gone
  <2> QED BY <1>1, <2>1, SamePeople DEF Admit, Sound, Closing
<1>2. CASE JoinBegins(c)
  <2>1. /\ room' \in Rooms /\ room'.conns = room.conns \cup {c}
        /\ room'.people = room.people \cup UsersOf({c})
    BY <1>0, <1>2, WithFacts DEF JoinBegins
  <2>2. disk'.people = room'.people
    BY <1>0, <1>2, <2>1, SavedFacts DEF JoinBegins
  <2>3. Open' = Open \cup {c} /\ Gone' = Gone
    BY <1>0, <1>2 DEF JoinBegins, Open, Gone
  <2> SUFFICES ASSUME Sound' PROVE People'
    BY DEF People
  <2>4. Sound /\ awake /\ awake' /\ stray' = stray
    BY <1>2 DEF JoinBegins, Sound
  <2>5. room'.people \subseteq UsersOf(room'.conns) \cup stray
    BY <2>1, <2>4, UsersFacts DEF People
  <2>6. UsersOf(Gone' \ room'.conns) \subseteq stray
    <3>1. Gone' \ room'.conns \subseteq Gone \ room.conns
      BY <2>1, <2>3
    <3> QED BY <2>4, <3>1, UsersFacts DEF People
  <2>7. room'.conns \subseteq Closing'
    BY <1>0, <2>1, <2>3, <2>4 DEF Closing, KnowsItsSockets, Open, Gone
  <2>8. disk'.people \subseteq UsersOf(Closing') \cup stray
    BY <2>2, <2>5, <2>7, UsersFacts
  <2> QED BY <2>4, <2>5, <2>6, <2>8 DEF People
<1>3. CASE JoinThrows(c)
  <2>1. ~Sound'
    BY <1>0, <1>3, FaultFacts DEF JoinThrows
  <2> QED BY <2>1 DEF People
<1>4. CASE JoinEnds(c)
  <2> SUFFICES ASSUME Sound' PROVE People'
    BY DEF People
  <2>1. UNCHANGED <<sock, faults>>
    BY <1>0, <1>4, FaultFacts DEF JoinEnds
  <2>2. Arm(Object)
    BY <1>4 DEF JoinEnds, Arm
  <2>3. room'.conns = room.conns /\ room'.people = room.people /\ disk'.people = disk.people
    BY <1>0, <2>2, ArmFacts DEF RoomTypes, SameUsers, Object
  <2>4. Open' = Open /\ Gone' = Gone
    BY <2>1 DEF Open, Gone
  <2> QED BY <1>4, <2>1, <2>3, <2>4, SamePeople DEF JoinEnds, Sound, Closing
<1> QED BY <1>1, <1>2, <1>3, <1>4

LEMMA ClientPeople ==
    ASSUME RoomTypes, KnowsItsSockets, People, NEW c \in Conns,
           Chat(c) \/ OtherMessage(c) \/ ClientCloses(c) \/ CloseHeard(c)
    PROVE  People'
<1>0. Listed(room) /\ Object.room = room /\ sock \in [Conns -> Socks] /\ room.conns \in SUBSET Conns
  BY ObjectFacts DEF RoomTypes, Rooms
<1>1. ASSUME c \in Open, awake PROVE c \in room.conns /\ UserOf[c] \in room.people
  BY <1>0, <1>1 DEF KnowsItsSockets, Listed, UsersOf
<1>2. CASE Chat(c)
  <2>1. awake /\ c \in Open /\ room'.conns = room.conns \cup {c} /\ (Sound' => Sound)
        /\ room'.people = room.people \cup {UserOf[c]} /\ disk'.people = disk.people
    BY <1>2, ChatFacts
  <2>2. room'.conns = room.conns /\ room'.people = room.people
    BY <1>1, <2>1
  <2>3. Open' = Open /\ Gone' = Gone
    BY <1>2 DEF Chat, Open, Gone
  <2> QED BY <1>2, <2>1, <2>2, <2>3, SamePeople DEF Chat, Closing
<1>3. CASE OtherMessage(c)
  <2>1. awake /\ c \in Open /\ room'.conns = room.conns \cup {c} /\ (Sound' => Sound)
        /\ room'.people = room.people \cup {UserOf[c]} /\ disk'.people = disk.people
    BY <1>3, OtherMessageFacts
  <2>2. room'.conns = room.conns /\ room'.people = room.people
    BY <1>1, <2>1
  <2>3. Open' = Open /\ Gone' = Gone
    BY <1>3 DEF OtherMessage, Open, Gone
  <2> QED BY <1>3, <2>1, <2>2, <2>3, SamePeople DEF OtherMessage, Closing
<1>4. CASE ClientCloses(c)
  <2>1. Closing' = Closing /\ Gone' = Gone \cup {c} /\ c \in Open
    BY <1>0, <1>4 DEF ClientCloses, Closing, Open, Gone
  <2>2. CASE awake
    <3>1. Gone' \ room'.conns \subseteq Gone \ room.conns
      BY <1>1, <1>4, <2>1, <2>2 DEF ClientCloses
    <3> QED BY <1>4, <2>1, <3>1, SamePeople DEF ClientCloses, Sound
  <2>3. CASE ~awake
    BY <1>4, <2>1, <2>3 DEF ClientCloses, People, Sound
  <2> QED BY <2>2, <2>3
<1>5. CASE CloseHeard(c)
  <2> DEFINE C == {c} \cap room.conns
  <2>1. awake /\ awake' /\ stray' = stray /\ sock[c] = "gone" /\ (Sound' => Sound)
        /\ (Sound' => Parted(Object', Object, C)) /\ sock' = [sock EXCEPT ![c] = "closed"]
    BY <1>5, CloseHeardFacts DEF CloseHeard
  <2>2. CASE c \in room.conns
    <3>1. C = {c} /\ C \in SUBSET Conns
      BY <2>2
    <3>2. Closed(C, "closed")
      BY <1>0, <2>1, <3>1 DEF Closed
    <3> QED BY <2>1, <3>1, <3>2, LeavingPeople
  <2>3. CASE c \notin room.conns
    <3> SUFFICES ASSUME Sound' PROVE People'
      BY DEF People
    <3>1. C = {}
      BY <2>3
    <3>2. Object'.room = room' /\ Object'.disk = disk' /\ Object.disk = disk
      BY DEF Object
    <3>3. /\ room'.conns = room.conns \ {} /\ disk'.people = disk.people
          /\ room'.people = room.people \ (UsersOf({}) \ UsersOf(room.conns \ {}))
      BY <1>0, <2>1, <3>1, <3>2 DEF Parted
    <3>4. room'.conns = room.conns /\ room'.people = room.people
      BY <3>3, UsersFacts
    <3>5. Closing = Closing' \cup {c} /\ Gone' = Gone \ {c}
      BY <1>0, <2>1 DEF Closing, Open, Gone
    <3>6. UserOf[c] \in stray
      <4>1. c \in Gone \ room.conns
        BY <2>1, <2>3 DEF Gone
      <4>2. UsersOf(Gone \ room.conns) \subseteq stray
        BY <2>1 DEF People
      <4> QED BY <4>1, <4>2 DEF UsersOf
    <3>7. UsersOf(Closing) = UsersOf(Closing') \cup {UserOf[c]}
      <4>1. UsersOf(Closing' \cup {c}) = UsersOf(Closing') \cup {UserOf[c]}
        BY DEF UsersOf
      <4> QED BY <3>5, <4>1
    <3>8. UsersOf(Gone' \ room'.conns) \subseteq UsersOf(Gone \ room.conns)
      <4>1. Gone' \ room'.conns \subseteq Gone \ room.conns
        BY <3>4, <3>5
      <4> QED BY <4>1, UsersFacts
    <3> QED BY <2>1, <3>3, <3>4, <3>6, <3>7, <3>8 DEF People
  <2> QED BY <2>2, <2>3
<1> QED BY <1>2, <1>3, <1>4, <1>5

\* The object already knows all that a look at the open sockets could tell it.
LEMMA FullIsKnown ==
    ASSUME RoomTypes, KnowsItsSockets, awake
    PROVE  /\ Full.room.conns = room.conns /\ Full.room.people = room.people
           /\ Full.disk = disk
           /\ \A p, C : Parted(p, Full, C) => Parted(p, Object, C)
<1>1. Listed(room) /\ Object.room = room /\ Object.disk = disk /\ Open \subseteq room.conns
  BY ObjectFacts DEF RoomTypes, KnowsItsSockets
<1>2. UsersOf(Open) \subseteq room.people
  BY <1>1 DEF Listed, UsersOf
<1>3. Full.room.conns = room.conns \cup Open /\ Full.room.people = room.people \cup UsersOf(Open)
      /\ Full.disk = disk
  BY FullFacts
<1>4. Full.room.conns = room.conns /\ Full.room.people = room.people
  BY <1>1, <1>2, <1>3
<1> QED BY <1>1, <1>3, <1>4 DEF Parted

LEMMA EvictPeople ==
    ASSUME RoomTypes, KnowsItsSockets, People, NEW u \in Users,
           EvictBegins(u) \/ EvictForced(u) \/ Withdraw(u) \/ \E k \in Checks : Answer(k, u)
    PROVE  People'
<1>1. CASE EvictBegins(u)
  <2>1. room' = Full.room /\ awake
    BY <1>1, FullFacts DEF EvictBegins
  <2>2. room'.conns = room.conns /\ room'.people = room.people
    BY <2>1, FullIsKnown
  <2>3. Open' = Open /\ Gone' = Gone
    BY <1>1 DEF EvictBegins, Open, Gone
  <2> QED BY <1>1, <2>2, <2>3, SamePeople DEF EvictBegins, Sound, Closing
<1>2. CASE EvictForced(u)
  <2>1. awake /\ UNCHANGED stray
    BY <1>2 DEF EvictForced
  <2>2. PICK C \in SUBSET Conns :
           /\ Sound' => Sound
           /\ Sound' => Closed(C, "closed") /\ Parted(Object', Full, C)
    BY <1>2, EvictForcedFacts
  <2>3. Sound' => Closed(C, "closed") /\ Parted(Object', Object, C)
    BY <2>1, <2>2, FullIsKnown
  <2> QED BY <2>1, <2>2, <2>3, LeavingPeople
<1>3. CASE Withdraw(u)
  <2>1. Open' = Open /\ Gone' = Gone
    BY <1>3 DEF Withdraw, Open, Gone
  <2> QED BY <1>3, <2>1, SamePeople DEF Withdraw, Sound, Closing
<1>4. ASSUME NEW k \in Checks, Answer(k, u) PROVE People'
  <2>1. Sound' => Sound
    BY <1>4, FaultFacts DEF RoomTypes, Answer, Sound
  <2>2. Open' = Open /\ Gone' = Gone
    BY <1>4 DEF Answer, Open, Gone
  <2> QED BY <1>4, <2>1, <2>2, SamePeople DEF Answer, Closing
<1> QED BY <1>1, <1>2, <1>3, <1>4

LEMMA AlarmPeople ==
    ASSUME RoomTypes, KnowsItsSockets, People,
           EvictEnds \/ AlarmFlushes \/ AlarmChecks \/ AlarmThrows \/ AlarmEnds
    PROVE  People'
<1>0. /\ Expiring \in SUBSET Conns /\ Object.room = room /\ Object.disk = disk
      /\ \A k : Revoked(k) \in SUBSET Conns
      /\ Listed(room)
  BY FiredFacts, RevokedType, ObjectFacts DEF RoomTypes
<1>1. CASE EvictEnds
  <2>1. awake /\ UNCHANGED stray
    BY <1>1 DEF RoomTypes, Asleep, Calm, EvictEnds
  <2> QED BY <1>0, <1>1, <2>1, EvictEndsFacts, LeavingPeople
<1>2. CASE AlarmFlushes
  <2>1. awake /\ UNCHANGED stray /\ Closed(Expiring, "closed")
    BY <1>2 DEF AlarmFlushes, AlarmDue
  <2>2. Parted(Object', Object, Expiring) /\ (Sound' => Sound)
    BY <1>2, AlarmFlushesFacts
  <2> QED BY <1>0, <2>1, <2>2, LeavingPeople
<1>3. CASE AlarmChecks
  <2>1. awake /\ UNCHANGED <<stray, faults>> /\ Closed(Expiring, "closed")
    BY <1>3 DEF AlarmChecks, AlarmDue
  <2> DEFINE C == Expiring
             L == Open \ Expiring
  <2>2. PICK p : /\ Parted(p, Object, C)
                 /\ room'.people = p.room.people \cup UsersOf(L)
                 /\ disk'.people = p.disk.people
    BY <1>3, AlarmChecksFacts
  <2>3. room'.conns = (room.conns \ C) \cup L
    BY <1>3, AlarmChecksFacts
  <2>4. L \subseteq room.conns \ C
    BY <2>1 DEF KnowsItsSockets
  <2> HIDE DEF C, L
  <2>5. room'.conns = room.conns \ C
    BY <2>3, <2>4
  <2>6. UsersOf(L) \subseteq UsersOf(room.conns \ C) /\ UsersOf(room.conns \ C) \subseteq room.people
    BY <1>0, <2>4 DEF Listed, UsersOf
  <2>7. p.room.people = room.people \ (UsersOf(C) \ UsersOf(room.conns \ C))
        /\ p.disk.people = IF C = {} THEN disk.people ELSE p.room.people
    BY <1>0, <2>2 DEF Parted
  <2>8. UsersOf(L) \subseteq p.room.people
    BY <2>6, <2>7
  <2>9. room'.people = p.room.people
    BY <2>2, <2>8
  <2>10. Parted(Object', Object, C)
    BY <1>0, <2>2, <2>5, <2>7, <2>9 DEF Parted, Object
  <2> QED BY <1>0, <2>1, <2>10, LeavingPeople DEF C, Sound
<1>4. CASE AlarmThrows
  <2>1. ~Sound'
    BY <1>4, AlarmThrowsFacts
  <2> QED BY <2>1 DEF People
<1>5. CASE AlarmEnds
  <2>1. awake /\ UNCHANGED stray
    BY <1>5 DEF RoomTypes, Asleep, Calm, AlarmEnds
  <2> QED BY <1>0, <1>5, <2>1, AlarmEndsFacts, LeavingPeople
<1> QED BY <1>1, <1>2, <1>3, <1>4, <1>5

LEMMA LifePeople ==
    ASSUME RoomTypes, KnowsItsSockets, People, Hibernate \/ Crash \/ Wake \/ Tick
    PROVE  People'
<1>0. sock \in [Conns -> Socks] /\ room \in Rooms /\ disk \in Disks
  BY ObjectFacts DEF RoomTypes
<1>1. CASE Hibernate
  <2>1. Open' = Open /\ Gone' = Gone
    BY <1>1 DEF Hibernate, Open, Gone
  <2> QED BY <1>1, <2>1 DEF Hibernate, People, Sound, Closing
<1>2. CASE Crash
  <2>1. Closing' = Closing
    BY <1>0, <1>2 DEF Crash, Closing, Open, Gone
  <2>2. Sound' => Sound
    BY <1>2, FaultFacts DEF RoomTypes, Crash, Sound
  <2>3. disk'.people = disk.people
    BY <1>0, <1>2 DEF Crash, Disks
  <2> QED BY <1>2, <2>1, <2>2, <2>3 DEF Crash, People
<1>3. CASE Wake
  <2> SUFFICES ASSUME Sound' PROVE People'
    BY DEF People
  <2>1. PICK seen \in SUBSET Gone :
           /\ stray' = stray \cup UsersOf(Gone \ seen) /\ room'.conns = Open \cup seen
           /\ room'.people \subseteq UsersOf(Open \cup seen) \cup disk.people
           /\ disk'.people = disk.people /\ (Sound' => Sound)
    BY <1>3, WakeFacts
  <2>2. Open' = Open /\ Gone' = Gone
    BY <1>3 DEF Wake, Open, Gone
  <2>3. disk.people \subseteq UsersOf(Closing) \cup stray
    BY <2>1 DEF People
  <2>4. UsersOf(Closing) \subseteq UsersOf(Open \cup seen) \cup UsersOf(Gone \ seen)
    BY DEF Closing, UsersOf
  <2>5. room'.people \subseteq UsersOf(room'.conns) \cup stray'
    <3> DEFINE A == UsersOf(Open \cup seen)
               B == UsersOf(Gone \ seen)
    <3>1. UsersOf(room'.conns) = A
      BY <2>1
    <3> HIDE DEF A, B
    <3>2. stray' = stray \cup B /\ room'.people \subseteq A \cup disk.people
          /\ disk.people \subseteq A \cup B \cup stray
      BY <2>1, <2>3, <2>4 DEF A, B
    <3> QED BY <3>1, <3>2
  <2>6. UsersOf(Gone' \ room'.conns) \subseteq stray'
    <3>1. Gone' \ room'.conns \subseteq Gone \ seen
      BY <2>1, <2>2
    <3>2. UsersOf(Gone' \ room'.conns) \subseteq UsersOf(Gone \ seen)
      BY <3>1 DEF UsersOf
    <3> QED BY <2>1, <3>2
  <2>7. disk'.people \subseteq UsersOf(Closing') \cup stray'
    BY <2>1, <2>2, <2>3 DEF Closing
  <2> QED BY <2>5, <2>6, <2>7 DEF People
<1>4. CASE Tick
  <2>1. Open' = Open /\ Gone' = Gone
    BY <1>4 DEF Tick, Open, Gone
  <2>2. room'.conns = room.conns /\ room'.people = room.people /\ disk'.people = disk.people
    BY <1>0, <1>4 DEF Tick, Rooms, Disks
  <2> QED BY <1>4, <2>1, <2>2, SamePeople DEF Tick, Sound, Closing
<1> QED BY <1>1, <1>2, <1>3, <1>4

LEMMA PeopleStep == RoomTypes /\ KnowsItsSockets /\ People /\ [Next]_vars => People'
<1> SUFFICES ASSUME RoomTypes, KnowsItsSockets, People, [Next]_vars PROVE People'
  OBVIOUS
<1>1. CASE UNCHANGED vars
  BY <1>1 DEF People, vars, Closing, Open, Gone, Sound
<1>2. CASE Next
  BY <1>2, JoinPeople, ClientPeople, EvictPeople, AlarmPeople, LifePeople DEF Next
<1> QED BY <1>1, <1>2

\* The list of participants has every connected user, and, until the object's storage has
\* failed it, nobody else but those whose close it never saw.
THEOREM RoomListIsRight == Spec => []ListIsRight
<1>1. Init => People
  BY DEF Init, People
<1>2. RoomTypes /\ KnowsItsSockets /\ People /\ [Next]_vars => People'
  BY PeopleStep
<1>3. RoomTypes /\ People => ListIsRight
  BY ObjectFacts DEF RoomTypes, People, ListIsRight, Listed
<1> QED BY <1>1, <1>2, <1>3, RoomWellFormed, RoomKnowsItsSockets, PTL DEF Spec

(***************************************************************************)
(* Deadlines                                                               *)
(***************************************************************************)
\* While the alarm's own check runs, the object need not have armed the next.
Watched == CheckIsArmed /\ (Sound => Knows(Object))

\* What a sound step of an object in memory leaves in order.
LEMMA ReadyIsWatched ==
    ASSUME Sound' => Ready(Object'), UNCHANGED token, awake'
    PROVE  Watched'
<1> SUFFICES ASSUME Sound' PROVE Watched'
  BY DEF Watched, CheckIsArmed
<1>1. /\ room'.alarmAt = disk'.alarm
      /\ room'.conns # {} => room'.access \in 0 .. Period
      /\ room'.access # None => disk'.alarm \in 0 .. room'.access
      /\ room'.flush # None => disk'.alarm \in 0 .. room'.flush
      /\ \A c \in room'.conns : token'[c] # None => disk'.alarm \in 0 .. token'[c]
  BY DEF Ready, Object
<1>2. \A t \in Deadlines' \ {None} : disk'.alarm \in 0 .. t
  BY <1>1 DEF Deadlines
<1>3. Knows(Object')
  BY <1>1 DEF Knows, Object
<1> QED BY <1>1, <1>2, <1>3 DEF Watched, CheckIsArmed

\* What a step leaves in order that changes no deadline.
LEMMA SameWatch ==
    ASSUME Watched, Sound' => Sound, UNCHANGED <<awake, token>>, job'["alarm"].running = job["alarm"].running,
           room'.conns \ joining' \subseteq room.conns \ joining, Open' \subseteq Open \/ awake,
           room'.access = room.access, room'.flush = room.flush,
           room'.alarmAt = room.alarmAt, disk'.alarm = disk.alarm
    PROVE  Watched'
<1> SUFFICES ASSUME Sound' PROVE Watched'
  BY DEF Watched, CheckIsArmed
<1>1. Knows(Object')
  BY DEF Watched, Knows, Object
<1>2. Deadlines' \subseteq Deadlines
  BY DEF Deadlines
<1>3. awake' /\ ~job'["alarm"].running =>
         /\ room'.conns \ joining' # {} => room'.access \in 0 .. Period
         /\ \A t \in Deadlines' \ {None} : disk'.alarm \in 0 .. t
  BY <1>2 DEF Watched, CheckIsArmed
<1>4. ~awake' /\ Open' # {} => disk'.alarm \in 0 .. Period
  BY DEF Watched, CheckIsArmed
<1> QED BY <1>1, <1>3, <1>4 DEF Watched, CheckIsArmed

LEMMA JoinWatched ==
    ASSUME RoomTypes, Watched, NEW c \in Conns,
           Admit(c) \/ JoinBegins(c) \/ JoinThrows(c) \/ JoinEnds(c)
    PROVE  Watched'
<1>0. room \in Rooms /\ disk \in Disks /\ Buffered(room) /\ Listed(room) /\ Good(Object)
      /\ {c} \in SUBSET Conns /\ sock \in [Conns -> Socks]
  BY ObjectFacts DEF RoomTypes
<1>1. CASE Admit(c)
  <2>1. Open' = Open
    BY <1>0, <1>1 DEF Admit, Open
  <2> QED BY <1>1, <2>1, SameWatch DEF Admit, Sound
<1>2. CASE JoinBegins(c)
  <2>1. /\ room' \in Rooms /\ room'.conns = room.conns \cup {c}
        /\ SameMessages(room', room) /\ room'.access = room.access /\ room'.alarmAt = room.alarmAt
    BY <1>0, <1>2, WithFacts DEF JoinBegins
  <2>2. disk'.alarm = disk.alarm
    BY <1>0, <1>2, <2>1, SavedFacts DEF JoinBegins
  <2>3. room'.conns \ joining' \subseteq room.conns \ joining
    BY <1>2, <2>1 DEF JoinBegins
  <2> QED BY <1>2, <2>1, <2>2, <2>3, SameWatch DEF JoinBegins, Sound, SameMessages
<1>3. CASE JoinThrows(c)
  <2>1. ~Sound'
    BY <1>3, FaultFacts DEF JoinThrows, RoomTypes
  <2> QED BY <2>1 DEF Watched, CheckIsArmed
<1>4. CASE JoinEnds(c)
  <2> SUFFICES ASSUME Sound' PROVE Watched'
    BY DEF Watched, CheckIsArmed
  <2>1. Arm(Object) /\ ~Fault("put") /\ Sound /\ awake
    BY <1>4, FaultFacts DEF JoinEnds, Arm, RoomTypes, Sound, Asleep, Calm
  <2>2. Ready(Object')
    BY <1>0, <2>1, ArmFacts DEF RoomTypes, Watched
  <2> QED BY <1>4, <2>1, <2>2, ReadyIsWatched DEF JoinEnds
<1> QED BY <1>1, <1>2, <1>3, <1>4

LEMMA ClientWatched ==
    ASSUME RoomTypes, Watched, NEW c \in Conns,
           Chat(c) \/ OtherMessage(c) \/ ClientCloses(c) \/ CloseHeard(c)
    PROVE  Watched'
<1>1. CASE Chat(c)
  <2>1. awake' /\ UNCHANGED token /\ (Sound' => Sound)
        /\ (Sound' /\ Knows(Object) => Ready(Object'))
    BY <1>1, ChatFacts DEF Chat, Heard
  <2> QED BY <2>1, ReadyIsWatched DEF Watched
<1>2. CASE OtherMessage(c)
  <2>1. awake' /\ UNCHANGED token /\ (Sound' => Sound) /\ (Sound' /\ Knows(Object) => Ready(Object'))
    BY <1>2, OtherMessageFacts DEF OtherMessage, Heard
  <2> QED BY <2>1, ReadyIsWatched DEF Watched
<1>3. CASE ClientCloses(c)
  <2>1. Open' \subseteq Open
    BY <1>3 DEF ClientCloses, Open, RoomTypes
  <2> QED BY <1>3, <2>1, SameWatch DEF ClientCloses, Sound
<1>4. CASE CloseHeard(c)
  <2>1. awake' /\ UNCHANGED token /\ (Sound' => Sound) /\ (Sound' /\ Knows(Object) => Ready(Object'))
    BY <1>4, CloseHeardFacts DEF CloseHeard
  <2> QED BY <2>1, ReadyIsWatched DEF Watched
<1> QED BY <1>1, <1>2, <1>3, <1>4

LEMMA EvictWatched ==
    ASSUME RoomTypes, KnowsItsSockets, Watched, NEW u \in Users,
           EvictBegins(u) \/ EvictForced(u) \/ Withdraw(u) \/ \E k \in Checks : Answer(k, u)
    PROVE  Watched'
<1>1. CASE EvictBegins(u)
  <2>1. room' = With(room, Open) /\ room' = Full.room /\ awake
    BY <1>1, FullFacts DEF EvictBegins
  <2>2. room'.conns = room.conns
    BY <2>1, FullIsKnown
  <2>3. SameMessages(room', room) /\ room'.access = room.access /\ room'.alarmAt = room.alarmAt
    <3>1. room \in Rooms /\ Open \in SUBSET Conns
      BY ObjectFacts, OpenFacts DEF RoomTypes
    <3>2. /\ SameMessages(With(room, Open), room) /\ With(room, Open).access = room.access
          /\ With(room, Open).alarmAt = room.alarmAt
      BY <3>1, WithFacts
    <3> QED BY <2>1, <3>2
  <2>4. job'["alarm"].running = job["alarm"].running
    BY <1>1 DEF EvictBegins, Begun, RoomTypes, Checks
  <2> QED BY <1>1, <2>1, <2>2, <2>3, <2>4, SameWatch DEF EvictBegins, Sound, SameMessages
<1>2. CASE EvictForced(u)
  <2>1. awake' /\ UNCHANGED token
    BY <1>2 DEF EvictForced
  <2>2. (Sound' => Sound) /\ (Sound' /\ Knows(Object) => Ready(Object'))
    BY <1>2, EvictForcedFacts
  <2> QED BY <2>1, <2>2, ReadyIsWatched DEF Watched
<1>3. CASE Withdraw(u)
  <2>1. Open' = Open
    BY <1>3 DEF Withdraw, Open
  <2> QED BY <1>3, <2>1, SameWatch DEF Withdraw, Sound
<1>4. ASSUME NEW k \in Checks, Answer(k, u) PROVE Watched'
  <2>1. Sound' => Sound
    BY <1>4, FaultFacts DEF RoomTypes, Answer, Sound
  <2>2. Open' = Open
    BY <1>4 DEF Answer, Open
  <2>3. job'["alarm"].running = job["alarm"].running
    <3>1. job[k] \in Jobs /\ "alarm" \in Checks
      BY DEF RoomTypes, Checks
    <3>2. \/ job' = [job EXCEPT ![k].answer[u] = IF u \in lost THEN "drop" ELSE "keep"]
          \/ job' = [job EXCEPT ![k].answer[u] = "keep", ![k].deferred = TRUE]
      BY <1>4 DEF Answer
    <3>3. job'[k].running = job[k].running
      BY <3>1, <3>2 DEF RoomTypes, Jobs
    <3>4. \A j \in Checks \ {k} : job'[j] = job[j]
      BY <3>2 DEF RoomTypes
    <3> QED BY <3>1, <3>3, <3>4
  <2> QED BY <1>4, <2>1, <2>2, <2>3, SameWatch DEF Answer
<1> QED BY <1>1, <1>2, <1>3, <1>4

LEMMA AlarmWatched ==
    ASSUME RoomTypes, Watched,
           EvictEnds \/ AlarmFlushes \/ AlarmChecks \/ AlarmThrows \/ AlarmEnds
    PROVE  Watched'
<1>1. CASE EvictEnds
  <2>1. awake' /\ UNCHANGED token
    BY <1>1 DEF RoomTypes, Asleep, Calm, EvictEnds
  <2>2. (Sound' => Sound) /\ (Sound' /\ Knows(Object) => Ready(Object'))
    BY <1>1, EvictEndsFacts
  <2> QED BY <2>1, <2>2, ReadyIsWatched DEF Watched
<1>2. CASE AlarmFlushes
  <2>1. awake' /\ UNCHANGED token /\ (Sound' => Ready(Object'))
    BY <1>2, AlarmFlushesFacts DEF AlarmFlushes, AlarmDue
  <2> QED BY <2>1, ReadyIsWatched
<1>3. CASE AlarmChecks
  <2>1. Knows(Object') /\ awake' /\ job'["alarm"].running
    BY <1>3, AlarmChecksFacts DEF AlarmChecks, AlarmDue, Begun, RoomTypes, Checks, Idle
  <2> QED BY <2>1 DEF Watched, CheckIsArmed
<1>4. CASE AlarmThrows
  <2>1. ~Sound'
    BY <1>4, AlarmThrowsFacts
  <2> QED BY <2>1 DEF Watched, CheckIsArmed
<1>5. CASE AlarmEnds
  <2>1. awake' /\ UNCHANGED token
    BY <1>5 DEF RoomTypes, Asleep, Calm, AlarmEnds
  <2>2. (Sound' => Sound) /\ (Sound' /\ Knows(Object) => Ready(Object'))
    BY <1>5, AlarmEndsFacts
  <2> QED BY <2>1, <2>2, ReadyIsWatched DEF Watched
<1> QED BY <1>1, <1>2, <1>3, <1>4, <1>5

LEMMA LifeWatched ==
    ASSUME RoomTypes, KnowsItsSockets, Watched, Hibernate \/ Crash \/ Wake \/ Tick
    PROVE  Watched'
<1>0. sock \in [Conns -> Socks] /\ room \in Rooms /\ disk \in Disks /\ Open \in SUBSET Conns
      /\ Cold.alarmAt = Unknown
  BY ObjectFacts, OpenFacts, ColdType DEF RoomTypes
<1> SUFFICES ASSUME Sound' PROVE Watched'
  BY DEF Watched, CheckIsArmed
\* An object that forgets all leaves its alarm to the platform.
<1>1. ASSUME Sound, awake, ~job["alarm"].running, NEW c \in Open \ joining
      PROVE  disk.alarm \in 0 .. Period
  <2>1. c \in room.conns \ joining
    BY <1>1 DEF KnowsItsSockets
  <2>2. room.access \in 0 .. Period /\ \A t \in Deadlines \ {None} : disk.alarm \in 0 .. t
    BY <1>1, <2>1 DEF Watched, CheckIsArmed
  <2>3. room.access \in Deadlines \ {None}
    BY <2>2, ConstantFacts DEF Deadlines
  <2>4. disk.alarm \in 0 .. room.access
    BY <2>2, <2>3
  <2> QED BY <2>2, <2>4, ConstantFacts
<1>2. CASE Hibernate
  <2>1. Sound /\ awake /\ ~job["alarm"].running /\ joining = {} /\ Open' = Open /\ disk' = disk
        /\ ~awake' /\ room' = Cold
    BY <1>2 DEF Hibernate, Sound, Calm, Open
  <2>2. Open # {} => disk.alarm \in 0 .. Period
    BY <1>1, <2>1
  <2>3. Knows(Object')
    BY <1>0, <2>1 DEF Knows, Object
  <2> QED BY <2>1, <2>2, <2>3 DEF Watched, CheckIsArmed
<1>3. CASE Crash
  <2>1. Sound /\ awake /\ ~awake' /\ room' = Cold
        /\ disk' = [disk EXCEPT !.alarm = IF job["alarm"].running THEN 0 ELSE @]
    BY <1>3, FaultFacts DEF RoomTypes, Crash, Sound
  <2>2. Knows(Object')
    BY <1>0, <2>1 DEF Knows, Object
  <2>3. Open' \subseteq Open \ joining
    BY <1>0, <1>3 DEF Crash, Open
  <2>4. ASSUME Open' # {} PROVE disk'.alarm \in 0 .. Period
    <3>1. CASE job["alarm"].running
      BY <1>0, <2>1, <3>1, ConstantFacts DEF Disks
    <3>2. CASE ~job["alarm"].running
      <4>1. disk'.alarm = disk.alarm
        BY <1>0, <2>1, <3>2 DEF Disks
      <4> QED BY <1>1, <2>1, <2>3, <2>4, <3>2, <4>1
    <3> QED BY <3>1, <3>2
  <2> QED BY <2>1, <2>2, <2>4 DEF Watched, CheckIsArmed
<1>4. CASE Wake
  <2>1. PICK seen \in SUBSET Gone : Ready(Object')
    BY <1>4, WakeFacts
  <2>2. awake' /\ UNCHANGED token
    BY <1>4 DEF Wake
  <2> QED BY <2>1, <2>2, ReadyIsWatched
<1>5. CASE Tick
  <2>1. Sound /\ UNCHANGED <<awake, joining, job>> /\ Open' = Open
    BY <1>5 DEF Tick, Sound, Open
  <2>2. /\ room'.conns = room.conns /\ room'.access = Sooner(room.access)
        /\ room'.flush = Sooner(room.flush) /\ room'.alarmAt = Sooner(room.alarmAt)
        /\ disk'.alarm = Sooner(disk.alarm)
    BY <1>0, <1>5 DEF Tick, Rooms, Disks
  <2>3. Knows(Object')
    <3>1. room.alarmAt \in {Unknown, disk.alarm}
      BY <2>1 DEF Watched, Knows, Object
    <3> QED BY <2>2, <3>1, TickFacts DEF Knows, Object
  <2>4. \A t \in Nat : \A a \in 0 .. t : Sooner(a) \in 0 .. Sooner(t)
    BY DEF Sooner
  <2>5. ASSUME ~awake', Open' # {} PROVE disk'.alarm \in 0 .. Period
    BY <2>1, <2>2, <2>5, ConstantFacts DEF Watched, CheckIsArmed, Sooner
  <2>6. ASSUME awake', ~job'["alarm"].running
        PROVE  /\ room'.conns \ joining' # {} => room'.access \in 0 .. Period
               /\ \A t \in Deadlines' \ {None} : disk'.alarm \in 0 .. t
    <3>1. /\ room.conns \ joining # {} => room.access \in 0 .. Period
          /\ \A t \in Deadlines \ {None} : disk.alarm \in 0 .. t
      BY <2>1, <2>6 DEF Watched, CheckIsArmed
    <3>2. room'.conns \ joining' # {} => room'.access \in 0 .. Period
      BY <2>1, <2>2, <3>1, ConstantFacts DEF Sooner
    <3>3. ASSUME NEW t \in Deadlines' \ {None} PROVE disk'.alarm \in 0 .. t
      <4>1. PICK s \in Deadlines : t = Sooner(s)
        <5>1. CASE t \in {room'.access, room'.flush}
          BY <2>2, <5>1 DEF Deadlines
        <5>2. ASSUME NEW c \in room'.conns \ joining', t = token'[c]
              PROVE  \E s \in Deadlines : t = Sooner(s)
          <6>1. c \in room.conns \ joining /\ c \in Conns /\ sock[c] \in {"open", "gone"}
            BY <1>0, <2>1, <2>2 DEF Rooms, KnowsItsSockets
          <6>2. token'[c] = Sooner(token[c])
            BY <1>5, <6>1 DEF Tick
          <6> QED BY <5>2, <6>1, <6>2 DEF Deadlines
        <5> QED BY <3>3, <5>1, <5>2 DEF Deadlines
      <4>2. s \in Deadline
        BY <1>0, <4>1 DEF Deadlines, Rooms, AccessTimes, RoomTypes, Deadline
      <4>3. s # None /\ s \in Nat
        BY <3>3, <4>1, <4>2, TickFacts DEF Deadline
      <4>4. disk.alarm \in 0 .. s
        BY <3>1, <4>1, <4>3
      <4> QED BY <2>2, <2>4, <4>1, <4>3, <4>4
    <3> QED BY <3>2, <3>3
  <2> QED BY <2>3, <2>5, <2>6 DEF Watched, CheckIsArmed
<1> QED BY <1>2, <1>3, <1>4, <1>5

LEMMA WatchedStep == RoomTypes /\ KnowsItsSockets /\ Watched /\ [Next]_vars => Watched'
<1> SUFFICES ASSUME RoomTypes, KnowsItsSockets, Watched, [Next]_vars PROVE Watched'
  OBVIOUS
<1>1. CASE UNCHANGED vars
  <2>1. Open' = Open
    BY <1>1 DEF vars, Open
  <2> QED BY <1>1, <2>1, SameWatch DEF vars, Sound
<1>2. CASE Next
  BY <1>2, JoinWatched, ClientWatched, EvictWatched, AlarmWatched, LifeWatched DEF Next
<1> QED BY <1>1, <1>2

\* Unless its storage has failed it, a room nobody works for has an alarm for the
\* earliest of its deadlines, and, as long as a socket is open, one within the period of
\* the access check, which survives the object's memory.
THEOREM RoomIsArmed == Spec => []CheckIsArmed
<1>1. Init => Watched
  BY ColdType DEF Init, Watched, CheckIsArmed, Knows, Object, Open
<1>2. RoomTypes /\ KnowsItsSockets /\ Watched /\ [Next]_vars => Watched'
  BY WatchedStep
<1>3. Watched => CheckIsArmed
  BY DEF Watched
<1> QED BY <1>1, <1>2, <1>3, RoomWellFormed, RoomKnowsItsSockets, PTL DEF Spec

(***************************************************************************)
(* The window of messages                                                  *)
(***************************************************************************)
InTime == awake => Young(room, age)

LEMMA SameWindow ==
    ASSUME InTime, awake' => awake, SameMessages(room', room), UNCHANGED age
    PROVE  InTime'
  BY DEF InTime, Young, SameMessages

LEMMA InTimeStep == RoomTypes /\ InTime /\ [Next]_vars => InTime'
<1> SUFFICES ASSUME RoomTypes, InTime, [Next]_vars PROVE InTime'
  OBVIOUS
<1>0. room \in Rooms /\ disk \in Disks /\ Buffered(room) /\ Listed(room) /\ Good(Object)
      /\ Object.room = room /\ SameMessages(room, room)
      /\ Open \in SUBSET Conns /\ age \in 0 .. (FlushDelay + 1) /\ faults \in Faults
  BY ObjectFacts, OpenFacts DEF RoomTypes, SameMessages
<1>1. CASE UNCHANGED vars
  BY <1>1 DEF vars, InTime
<1>2. ASSUME NEW c \in Conns, Admit(c) \/ ClientCloses(c) PROVE InTime'
  BY <1>2 DEF Admit, ClientCloses, InTime
<1>3. ASSUME NEW c \in Conns, JoinBegins(c) PROVE InTime'
  <2>1. {c} \in SUBSET Conns
    OBVIOUS
  <2>2. SameMessages(room', room)
    BY <1>0, <1>3, <2>1, WithFacts DEF JoinBegins
  <2> QED BY <1>3, <2>2, SameWindow DEF JoinBegins
<1>4. ASSUME NEW c \in Conns, JoinThrows(c) PROVE InTime'
  <2>1. {c} \in SUBSET Conns
    OBVIOUS
  <2> DEFINE o == [Object EXCEPT !.room = With(@, {c})]
  <2>2. Good(o) /\ SameMessages(o.room, room)
    BY <1>0, <2>1, WithFacts, InMemory
  <2>3. Becomes(Without(o, {c})) /\ awake /\ awake' = awake /\ UNCHANGED age
    BY <1>4 DEF JoinThrows
  <2> HIDE DEF o
  <2>4. SameMessages(room', room)
    BY <2>1, <2>2, <2>3, WithoutFacts DEF Becomes, SameMessages
  <2> QED BY <2>3, <2>4, SameWindow
<1>5. ASSUME NEW c \in Conns, JoinEnds(c) PROVE InTime'
  <2>1. Arm(Object)
    BY <1>5 DEF JoinEnds, Arm
  <2> QED BY <1>0, <1>5, <2>1, ArmFacts, SameWindow DEF JoinEnds, RoomTypes
<1>6. ASSUME NEW c \in Conns, Chat(c) PROVE InTime'
  <2>1. awake /\ (Young(room, age) => Young(room', age'))
    BY <1>6, ChatFacts
  <2> QED BY <2>1 DEF InTime
<1>7. ASSUME NEW c \in Conns, OtherMessage(c) PROVE InTime'
  BY <1>7, OtherMessageFacts, SameWindow DEF OtherMessage
<1>8. ASSUME NEW c \in Conns, CloseHeard(c) PROVE InTime'
  BY <1>8, CloseHeardFacts, SameWindow DEF CloseHeard
<1>9. ASSUME NEW u \in Users, EvictBegins(u) PROVE InTime'
  <2>1. SameMessages(room', room)
    BY <1>9, FullFacts DEF EvictBegins
  <2> QED BY <1>9, <2>1, SameWindow DEF EvictBegins
<1>10. ASSUME NEW u \in Users, EvictForced(u) PROVE InTime'
  <2>1. SameMessages(room', room)
    BY <1>10, EvictForcedFacts
  <2> QED BY <1>10, <2>1, SameWindow DEF EvictForced
<1>11. ASSUME NEW u \in Users, Withdraw(u) PROVE InTime'
  BY <1>11 DEF Withdraw, InTime
<1>12. ASSUME NEW u \in Users, NEW k \in Checks, Answer(k, u) PROVE InTime'
  BY <1>12 DEF Answer, InTime
<1>13. ASSUME EvictEnds PROVE InTime'
  BY <1>13, EvictEndsFacts, SameWindow DEF EvictEnds
<1>14. ASSUME AlarmFlushes PROVE InTime'
  <2>1. awake /\ (Young(room, age) => Young(room', age'))
    BY <1>14, AlarmFlushesFacts DEF AlarmFlushes, AlarmDue
  <2> QED BY <2>1 DEF InTime
<1>15. ASSUME AlarmChecks PROVE InTime'
  BY <1>15, AlarmChecksFacts, SameWindow DEF AlarmChecks
<1>16. ASSUME AlarmThrows PROVE InTime'
  BY <1>16, AlarmThrowsFacts, SameWindow DEF AlarmThrows
<1>17. ASSUME AlarmEnds PROVE InTime'
  <2>1. awake
    BY <1>17 DEF RoomTypes, Asleep, Calm, AlarmEnds
  <2>2. Young(room, age) => Young(room', age')
    BY <1>17, AlarmEndsFacts
  <2> QED BY <2>1, <2>2 DEF InTime
<1>18. ASSUME Hibernate \/ Crash PROVE InTime'
  BY <1>18 DEF Hibernate, Crash, InTime
<1>19. ASSUME Wake PROVE InTime'
  <2>1. ~room'.dirty
    BY <1>19, WakeFacts
  <2> QED BY <2>1 DEF InTime, Young
<1>20. ASSUME Tick PROVE InTime'
  <2>1. /\ room'.dirty = room.dirty /\ room'.failures = room.failures
        /\ room'.flush = Sooner(room.flush) /\ awake' = awake
        /\ age' = IF room.dirty /\ age <= FlushDelay THEN age + 1 ELSE age
    BY <1>0, <1>20 DEF Tick, Rooms
  <2> SUFFICES ASSUME awake, room.dirty, room.failures = 0
               PROVE  room'.flush = 0 \/ age' + room'.flush <= FlushDelay
    BY <2>1 DEF InTime, Young
  <2>2. room.flush \in Nat
    BY <1>0 DEF Buffered, Rooms, Deadline
  <2>3. room.flush = 0 \/ age + room.flush <= FlushDelay
    BY DEF InTime, Young
  <2> QED BY <1>0, <2>1, <2>2, <2>3, ConstantFacts DEF Sooner
<1> QED BY <1>1, <1>2, <1>3, <1>4, <1>5, <1>6, <1>7, <1>8, <1>9, <1>10, <1>11, <1>12, <1>13,
           <1>14, <1>15, <1>16, <1>17, <1>18, <1>19, <1>20 DEF Next

\* What a reset may lose is no older than the delay after which messages are stored,
\* as long as no flush and no storage has failed and the alarm is not late.
THEOREM RoomLossIsBounded == Spec => []LossBound
<1>1. Init => InTime
  BY DEF Init, InTime
<1>2. RoomTypes /\ InTime /\ [Next]_vars => InTime'
  BY InTimeStep
<1>3. RoomTypes /\ CheckIsArmed /\ InTime => LossBound
  <2> SUFFICES ASSUME RoomTypes, CheckIsArmed, InTime, awake, room.dirty, room.failures = 0, Sound,
                      ~job["alarm"].running
               PROVE  disk.alarm # None /\ (disk.alarm = 0 \/ age + disk.alarm <= FlushDelay)
    BY DEF LossBound
  <2>1. room.flush \in Nat /\ room.flush # None /\ age \in Nat
    BY ObjectFacts, ConstantFacts DEF RoomTypes, Buffered, Rooms, Deadline
  <2>2. disk.alarm \in 0 .. room.flush
    BY <2>1 DEF CheckIsArmed, Deadlines
  <2>3. room.flush = 0 \/ age + room.flush <= FlushDelay
    BY DEF InTime, Young
  <2> QED BY <2>1, <2>2, <2>3, ConstantFacts
<1> QED BY <1>1, <1>2, <1>3, RoomWellFormed, RoomIsArmed, PTL DEF Spec

=============================================================================
