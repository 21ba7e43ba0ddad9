------------------------ MODULE BroadcastSenderProofs ------------------------
(***************************************************************************)
(* Broadcasts, for any number of broadcasts, customers, channels and calls *)
(* of send(), any limits, and any faults.                                  *)
(***************************************************************************)
EXTENDS BroadcastSender, FiniteSetTheorems, TLAPS

(***************************************************************************)
(* Calls of send().                                                        *)
(***************************************************************************)
CallType ==
    [b : SUBSET Broadcasts, by : {"none", "agent", "admin"}, day : 0 .. LastDay,
     stage : Stages, caught : BOOLEAN, empty : BOOLEAN, blocked : BOOLEAN,
     line : SUBSET Customers, skip : SUBSET Customers, left : SUBSET Channels,
     cast : SUBSET Customers, bad : SUBSET Customers, good : SUBSET Customers,
     sent : SUBSET Customers, counts : CountType]

\* The call has moved its broadcast to 'sending' and has not ended.
Works(r) == r.stage \notin {"idle", "done", "check", "move"}

\* The same, without the catch block's own work: the call may still multicast.
Sending(r) == Works(r) /\ r.stage # "catch" /\ ~r.caught

Working(s, b) == send[s].b = {b} /\ Works(send[s])

Live(s, b) == send[s].b = {b} /\ Sending(send[s])

BcType == [status : {"none", "deleted", "draft", "sending"} \cup Ended,
           updated : 0 .. LastDay, sentAt : 0 .. LastDay, counts : CountType]

RecType == {"none", "pending", "sent", "failed", "skipped"}

\* The recipients to whom the call will still multicast.
Uncast(r) ==
    IF r.stage \in {"quota", "skip"} THEN r.line
    ELSE r.cast \cup {c \in r.line : Route[c] \in r.left}

\* The recipients whom the call has still to mark.
Todo(r) ==
    CASE r.stage \in {"quota", "skip"} -> r.line \cup r.skip
      [] r.stage \in {"cast", "mark"} -> Uncast(r) \cup r.good \cup r.bad
      [] r.stage = "marksent" -> Uncast(r) \cup r.good
      [] OTHER -> {}

Before == {"load", "quota", "restore", "skip"}

\* Was sent before create() had ended, and has no text.
Void(b) == b \in early \cap ImageOnly

\* What a call remembers fits its stage, and its broadcast.
CallOK(r) ==
    /\ r.stage \in {"idle", "done"} => r.b = {}
    /\ r.stage \notin {"idle", "done"} => \E b \in Broadcasts : r.b = {b}
    /\ r.caught => r.stage \in {"count", "finish"}
    /\ r.empty => \E b \in Broadcasts : r.b = {b} /\ Void(b)
    /\ r.day <= today
    /\ \A c \in r.line : Route[c] \in Channels
    /\ \A c \in r.skip : Route[c] \notin Channels
    /\ r.left \subseteq {Route[c] : c \in r.line}
    /\ r.cast \subseteq r.line /\ \A c \in r.cast : Route[c] \notin r.left
    /\ r.stage = "cast" => r.cast # {}
    /\ r.stage # "cast" => r.cast = {}
    /\ r.stage \in {"idle", "check", "move", "load", "restore", "catch"} =>
         r.line = {} /\ r.good = {} /\ r.bad = {} /\ r.sent = {}
    /\ r.stage \in {"post", "count", "finish"} => r.line = {} /\ r.good = {}
    /\ r.stage \in {"quota", "skip"} => r.good = {} /\ r.sent = {} /\ r.bad = {}
    /\ r.good \cap r.bad = {}
    /\ \A c \in r.good \cup r.bad : Route[c] \notin r.left /\ c \notin r.cast

\* At most one call may multicast a broadcast, and then it is no draft.
Alone(b) ==
    /\ \A s, t \in Sends : Live(s, b) /\ Live(t, b) => s = t
    /\ \A s \in Sends : Live(s, b) => bc[b].status \notin {"none", "draft"}
    /\ \A s \in Sends : send[s].b = {b} => bc[b].status # "none"

\* Who has the broadcast.
Reached(b) ==
    /\ bc[b].status \in {"none", "draft"} => \A c \in Customers : got[b][c] = 0
    /\ \A s \in Sends : Live(s, b) =>
         /\ send[s].stage \in Before => \A c \in Customers : got[b][c] = 0
         /\ \A c \in Uncast(send[s]) : got[b][c] = 0
         /\ None({"line"}) => \A c \in send[s].bad : got[b][c] = 0
    /\ \A s \in Sends : send[s].b = {b} =>
         \A c \in send[s].good \cup send[s].sent : got[b][c] > 0 \/ Void(b)
    /\ None({"line"}) => \A c \in Customers : got[b][c] <= 1
    /\ \A c \in Customers : rec[b][c] = "sent" \/ c \in posted[b] => got[b][c] > 0 \/ Void(b)

\* Whose row there is.
Rows(b) ==
    /\ making[b] \subseteq Audience[b] \cup {Images}
    /\ \A c \in Customers : rec[b][c] # "none" => c \in Audience[b]
    /\ \A c \in making[b] \cap Customers : rec[b][c] = "none"
    /\ bc[b].status = "none" => making[b] = {} /\ \A c \in Customers : rec[b][c] = "none"
    /\ b \notin early /\ (making[b] # {} \/ bc[b].status = "deleted") =>
         /\ bc[b].status \in {"draft", "sending", "deleted"}
         /\ \A c \in Customers : got[b][c] = 0
         /\ \A s \in Sends : ~Working(s, b)

\* Who is charged for it, and when.
Charges(b) ==
    /\ charged[b] <= today
    /\ b \notin early /\ charged[b] # 0 =>
         /\ bc[b].status = "sending" => bc[b].updated >= charged[b]
         /\ bc[b].status \in Ended => bc[b].sentAt >= charged[b]
    /\ \A c \in Customers : rec[b][c] = "skipped" => Route[c] \notin Channels
    /\ \A c \in Customers : got[b][c] > 0 => Route[c] \in Channels
    /\ b \notin early =>
         /\ \A c \in Customers : got[b][c] > 0 => rec[b][c] # "none"
         /\ \A s \in Sends : Live(s, b) => \A c \in Uncast(send[s]) : rec[b][c] # "none"

\* What there is without an outage of D1.
Clean(b) ==
    None({"d1"}) =>
        /\ \A s, t \in Sends : Working(s, b) /\ Working(t, b) => s = t
        /\ \A s \in Sends : Working(s, b) =>
             /\ bc[b].status = "sending" /\ send[s].stage # "remark"
             /\ send[s].stage = "catch" \/ send[s].caught =>
                  \A c \in Customers : got[b][c] = 0
             /\ send[s].stage \in {"load", "quota", "restore"} =>
                  \A c \in Audience[b] \ making[b] : rec[b][c] = "pending"
             /\ \A c \in Todo(send[s]) : rec[b][c] = "pending"
             /\ b \notin early /\ send[s].stage \notin {"load", "restore", "catch"} =>
                  With(b, "pending") \subseteq Todo(send[s])
             /\ b \notin early /\ send[s].stage = "finish" => send[s].counts = Counts(b)
        /\ bc[b].status = "draft" =>
             \A c \in Audience[b] \ making[b] : rec[b][c] = "pending"
        /\ b \notin early /\ bc[b].status \in Ended =>
             bc[b].counts = Counts(b) /\ With(b, "pending") = {}
        /\ None({"line"}) => \A c \in Customers : rec[b][c] = "failed" => got[b][c] = 0
        /\ None({"crash"}) /\ bc[b].status = "sending" => \E s \in Sends : Working(s, b)

\* Who has had, or may still get, the agent's broadcasts of a day.
Share(d) ==
    {x \in (Broadcasts \ early) \X Customers :
        /\ charged[x[1]] = d
        /\ \/ got[x[1]][x[2]] > 0
           \/ \E s \in Sends :
                /\ Live(s, x[1])
                /\ \/ x[2] \in Uncast(send[s])
                   \/ /\ send[s].stage = "load"
                      /\ x[2] \in OnLine(With(x[1], "pending"))}

Capped ==
    \A d \in 1 .. LastDay :
        IsFiniteSet(Share(d)) /\ Cardinality(Share(d)) <= DailyLimit

About(b) == Alone(b) /\ Reached(b) /\ Rows(b) /\ Charges(b) /\ Clean(b)

SenderInv ==
    /\ TypeOK
    /\ \A s \in Sends : CallOK(send[s])
    /\ \A b \in Broadcasts : About(b)
    /\ Capped

(***************************************************************************)
(* Types, and what the parts of a call do to its record.                   *)
(***************************************************************************)
LEMMA TypeFacts ==
    TypeOK <=>
        /\ today \in 1 .. LastDay
        /\ bc \in [Broadcasts -> BcType]
        /\ \A b \in Broadcasts : bc[b].status \in Ended => bc[b].sentAt # 0
        /\ rec \in [Broadcasts -> [Customers -> RecType]]
        /\ making \in [Broadcasts -> SUBSET (Customers \cup {Images})]
        /\ early \in SUBSET Broadcasts /\ charged \in [Broadcasts -> 0 .. LastDay]
        /\ send \in [Sends -> CallType]
        /\ used \in [Channels -> Nat]
        /\ got \in [Broadcasts -> [Customers -> Nat]]
        /\ posted \in [Broadcasts -> SUBSET Customers]
        /\ faults \in [count : 0 .. MaxFaults, kinds : SUBSET FaultKinds]
  BY DEF TypeOK, BcType, RecType, CallType

LEMMA FirstIsIn == ASSUME NEW S, S # {} PROVE First(S) \in S
  BY DEF First

LEMMA FaultFacts ==
    ASSUME TypeOK, NEW k, Fault(k)
    PROVE  /\ faults' \in [count : 0 .. MaxFaults, kinds : SUBSET FaultKinds]
           /\ faults'.kinds = faults.kinds \cup {k}
  BY BroadcastAssumption DEF TypeOK, Fault

LEMMA UnsentType == Unsent \in CallType
  BY BroadcastAssumption DEF Unsent, CallType, Stages, CountType, NoCounts

\* A call that ends, one that has just begun, and one that goes to its end.
LEMMA EndFacts ==
    ASSUME TypeOK
    PROVE
    LET n == [Unsent EXCEPT !.stage = "done"]
    IN  n \in CallType /\ CallOK(n) /\ n.b = {} /\ n.stage = "done" /\ ~n.caught
<1> DEFINE n == [Unsent EXCEPT !.stage = "done"]
<1>1. /\ n \in CallType /\ n.b = {} /\ n.stage = "done" /\ ~n.caught /\ ~n.empty /\ n.day = 0
      /\ n.line = {} /\ n.skip = {} /\ n.left = {} /\ n.cast = {}
      /\ n.bad = {} /\ n.good = {} /\ n.sent = {}
  BY UnsentType DEF Unsent, CallType, Stages
<1> HIDE DEF n
<1>2. CallOK(n)
  BY <1>1 DEF CallOK, TypeOK
<1> QED
  BY <1>1, <1>2 DEF n

LEMMA OnlyFacts ==
    ASSUME NEW r \in CallType, NEW st \in Stages
    PROVE  LET n == Only(r, st)
           IN  /\ n \in CallType
               /\ n.b = r.b /\ n.stage = st /\ n.caught = r.caught /\ ~n.empty /\ n.day = 0
               /\ n.line = {} /\ n.skip = {} /\ n.left = {} /\ n.cast = {}
               /\ n.bad = {} /\ n.good = {} /\ n.sent = {}
  BY UnsentType DEF Only, Unsent, CallType

\* The loop over the groups: it takes the next one, or it is over.
LEMMA GroupFacts ==
    ASSUME NEW r \in CallType, CallOK(r), TypeOK,
           r.b \in {{b} : b \in Broadcasts}, ~r.caught,
           r.stage \in {"skip", "mark", "marksent", "remark", "cast"}
    PROVE  LET n == NextGroup(r)
           IN  /\ n \in CallType /\ CallOK(n) /\ n.b = r.b /\ ~n.caught
               /\ n.stage \in {"cast", "post"}
               /\ Uncast(n) = {c \in r.line : Route[c] \in r.left}
               /\ n.good = {} /\ n.bad = {} /\ n.sent = r.sent
<1> DEFINE n == NextGroup(r)
<1>1. CASE r.left = {}
  <2> DEFINE o == Only(r, "post")
  <2>1. /\ o \in CallType
        /\ o.b = r.b /\ o.stage = "post" /\ ~o.caught /\ ~o.empty /\ o.day = 0
        /\ o.line = {} /\ o.skip = {} /\ o.left = {} /\ o.cast = {}
        /\ o.bad = {} /\ o.good = {} /\ o.sent = {}
    BY OnlyFacts DEF Stages
  <2>2. n = [o EXCEPT !.sent = r.sent]
    BY <1>1 DEF NextGroup
  <2> HIDE DEF o
  <2>3. /\ n \in CallType /\ n.b = r.b /\ n.stage = "post" /\ ~n.caught /\ ~n.empty /\ n.day = 0
        /\ n.line = {} /\ n.skip = {} /\ n.left = {} /\ n.cast = {}
        /\ n.bad = {} /\ n.good = {} /\ n.sent = r.sent
    BY <2>1, <2>2 DEF CallType
  <2> HIDE DEF n
  <2>4. CallOK(n)
    BY <2>3 DEF CallOK, TypeOK
  <2>5. Uncast(n) = {} /\ {c \in r.line : Route[c] \in r.left} = {}
    BY <1>1, <2>3 DEF Uncast
  <2> QED
    BY <2>3, <2>4, <2>5 DEF n
<1>2. CASE r.left # {}
  <2> DEFINE ch == First(r.left)
  <2>1. ch \in r.left
    BY <1>2, FirstIsIn
  <2>2. n = [r EXCEPT !.left = @ \ {ch}, !.cast = Group(r.line, ch),
                      !.bad = {}, !.good = {}, !.stage = "cast"]
    BY <1>2 DEF NextGroup
  <2> HIDE DEF ch
  <2>3. Group(r.line, ch) \subseteq Customers /\ r.left \ {ch} \subseteq Channels
    BY DEF Group, CallType
  <2>4. /\ n \in CallType /\ n.b = r.b /\ n.stage = "cast" /\ n.caught = r.caught
        /\ n.empty = r.empty /\ n.day = r.day /\ n.line = r.line /\ n.skip = r.skip /\ n.left = r.left \ {ch}
        /\ n.cast = Group(r.line, ch) /\ n.bad = {} /\ n.good = {} /\ n.sent = r.sent
    BY <2>2, <2>3, ZenonT(30) DEF CallType, Stages
  <2> HIDE DEF n
  <2>5. \E c \in r.line : Route[c] = ch
    BY <2>1 DEF CallOK
  <2>6. CallOK(n)
    BY <2>1, <2>4, <2>5 DEF CallOK, Group
  <2>7. Uncast(n) = {c \in r.line : Route[c] \in r.left}
    BY <2>1, <2>4 DEF Uncast, Group
  <2> QED
    BY <2>4, <2>6, <2>7 DEF n
<1> QED
  BY <1>1, <1>2

\* The sending begins with all groups.
LEMMA SendFacts ==
    ASSUME NEW r \in CallType, CallOK(r), TypeOK,
           r.b \in {{b} : b \in Broadcasts}, ~r.caught, r.stage \in {"quota", "skip"}
    PROVE  LET n == NextGroup(Send(r))
           IN  /\ n \in CallType /\ CallOK(n) /\ n.b = r.b /\ ~n.caught
               /\ n.stage \in {"cast", "post"}
               /\ Uncast(n) = r.line /\ n.good = {} /\ n.bad = {} /\ n.sent = {}
<1> DEFINE o == [r EXCEPT !.stage = "skip", !.left = {Route[c] : c \in r.line}]
<1>1. NextGroup(Send(r)) = NextGroup(o)
  BY DEF NextGroup, Send, Only, CallType
<1>2. {Route[c] : c \in r.line} \subseteq Channels
  BY DEF CallOK
<1>3. /\ o \in CallType /\ o.b = r.b /\ o.stage = "skip" /\ o.caught = r.caught /\ o.empty = r.empty /\ o.day = r.day
      /\ o.line = r.line /\ o.skip = r.skip /\ o.left = {Route[c] : c \in r.line}
      /\ o.cast = r.cast /\ o.bad = r.bad /\ o.good = r.good /\ o.sent = r.sent
  BY <1>2 DEF CallType, Stages
<1> HIDE DEF o
<1>4. CallOK(o)
  BY <1>3 DEF CallOK
<1>5. {c \in o.line : Route[c] \in o.left} = r.line
  BY <1>3
<1>6. r.sent = {}
  BY DEF CallOK
<1> QED
  BY <1>1, <1>3, <1>4, <1>5, <1>6, GroupFacts

\* The channels have been asked, or the next one will be.
LEMMA DecidedFacts ==
    ASSUME NEW r \in CallType, CallOK(r), TypeOK,
           r.b \in {{b} : b \in Broadcasts}, ~r.caught, r.stage = "quota"
    PROVE  LET n == Decided(r)
           IN  /\ n \in CallType /\ CallOK(n) /\ n.b = r.b /\ ~n.caught
               /\ n.stage \in {"quota", "restore", "skip", "cast", "post"}
               /\ Uncast(n) \subseteq r.line
               /\ n.good = {} /\ n.bad = {} /\ n.sent = {}
               /\ Todo(n) = IF n.stage = "restore" THEN {} ELSE r.line \cup r.skip
<1> DEFINE n == Decided(r)
<1>1. r.good = {} /\ r.bad = {} /\ r.sent = {}
  BY DEF CallOK
<1>2. CASE r.left # {}
  BY <1>1, <1>2 DEF Decided, Uncast, Todo
<1>3. CASE r.left = {} /\ r.blocked
  <2>1. n = Only(r, "restore")
    BY <1>3 DEF Decided
  <2> HIDE DEF n
  <2>2. /\ n \in CallType
        /\ n.b = r.b /\ n.stage = "restore" /\ ~n.caught /\ ~n.empty /\ n.day = 0
        /\ n.line = {} /\ n.skip = {} /\ n.left = {} /\ n.cast = {}
        /\ n.bad = {} /\ n.good = {} /\ n.sent = {}
    BY <2>1, OnlyFacts DEF Stages
  <2>3. CallOK(n) /\ Uncast(n) = {} /\ Todo(n) = {}
    BY <2>2 DEF CallOK, Uncast, Todo, TypeOK
  <2> QED
    BY <2>2, <2>3 DEF n
<1>4. CASE r.left = {} /\ ~r.blocked /\ r.skip # {}
  <2>1. n = [r EXCEPT !.stage = "skip"]
    BY <1>4 DEF Decided
  <2> HIDE DEF n
  <2>2. /\ n \in CallType /\ n.b = r.b /\ n.stage = "skip" /\ ~n.caught
        /\ n.empty = r.empty /\ n.day = r.day
        /\ n.line = r.line /\ n.skip = r.skip /\ n.left = r.left /\ n.cast = r.cast
        /\ n.bad = r.bad /\ n.good = r.good /\ n.sent = r.sent
    BY <2>1 DEF CallType, Stages
  <2>3. CallOK(n) /\ Uncast(n) = r.line /\ Todo(n) = r.line \cup r.skip
    BY <2>2 DEF CallOK, Uncast, Todo
  <2> QED
    BY <1>1, <2>2, <2>3 DEF n
<1>5. CASE r.left = {} /\ ~r.blocked /\ r.skip = {}
  <2>1. n = NextGroup(Send(r))
    BY <1>5 DEF Decided
  <2> HIDE DEF n
  <2>2. /\ n \in CallType /\ CallOK(n) /\ n.b = r.b /\ ~n.caught /\ n.stage \in {"cast", "post"}
        /\ Uncast(n) = r.line /\ n.good = {} /\ n.bad = {} /\ n.sent = {}
    BY <2>1, SendFacts
  <2>3. Todo(n) = r.line
    BY <2>2 DEF Todo, Uncast, CallOK
  <2> QED
    BY <1>5, <2>2, <2>3 DEF n
<1> QED
  BY <1>2, <1>3, <1>4, <1>5

\* A recipient has got its copies, and is crossed off.
LEMMA CastFacts ==
    ASSUME NEW r \in CallType, CallOK(r), TypeOK,
           r.b \in {{b} : b \in Broadcasts}, ~r.caught, r.stage = "cast",
           NEW c \in r.cast, NEW o \in CallType,
           o.b = r.b, o.stage = "cast", o.caught = r.caught, o.empty = r.empty, o.day = r.day,
           o.line = r.line, o.skip = r.skip, o.left = r.left, o.cast = r.cast \ {c},
           \/ o.good = r.good \cup {c} /\ o.bad = r.bad
           \/ o.good = r.good /\ o.bad = r.bad \cup {c},
           o.sent = r.sent
    PROVE  LET n == CastDone(o)
           IN  /\ n \in CallType /\ CallOK(n) /\ n.b = r.b /\ ~n.caught
               /\ n.stage \in {"cast", "mark", "marksent"}
               /\ n.stage = "marksent" => n.bad = {}
               /\ Uncast(n) = Uncast(r) \ {c}
               /\ n.good = o.good /\ n.bad = o.bad /\ n.sent = r.sent
<1> DEFINE n == CastDone(o)
<1>1. c \in Customers /\ c \in r.line /\ Route[c] \notin r.left
  BY DEF CallOK, CallType
<1>2. n = IF o.cast # {} THEN o
          ELSE [o EXCEPT !.stage = IF o.bad = {} THEN "marksent" ELSE "mark"]
  BY DEF CastDone
<1> HIDE DEF n
<1>3. /\ n \in CallType /\ n.b = r.b /\ n.caught = r.caught /\ n.empty = r.empty /\ n.day = r.day
      /\ n.line = r.line /\ n.skip = r.skip /\ n.left = r.left /\ n.cast = r.cast \ {c}
      /\ n.good = o.good /\ n.bad = o.bad /\ n.sent = r.sent
      /\ n.stage = IF r.cast \ {c} # {} THEN "cast" ELSE IF o.bad = {} THEN "marksent" ELSE "mark"
  BY <1>2 DEF CallType, Stages
<1>4. CallOK(n)
  BY <1>1, <1>3 DEF CallOK
<1>5. Uncast(n) = Uncast(r) \ {c}
  BY <1>1, <1>3 DEF Uncast
<1> QED
  BY <1>3, <1>4, <1>5 DEF n

\* A call moves to another stage of the same group, or to its restoring or catching.
LEMMA StageFacts ==
    ASSUME NEW r \in CallType, CallOK(r), TypeOK, NEW st \in Stages,
           r.b \in {{b} : b \in Broadcasts}, ~r.caught,
           \/ r.stage = "load" /\ st \in {"restore", "catch"}
           \/ r.stage \in {"mark", "marksent"} /\ st \in {"marksent", "remark"}
    PROVE  LET n == [r EXCEPT !.stage = st]
           IN  /\ n \in CallType /\ CallOK(n) /\ n.b = r.b /\ ~n.caught /\ n.stage = st
               /\ Uncast(n) = Uncast(r) /\ n.good = r.good /\ n.bad = r.bad /\ n.sent = r.sent
<1> DEFINE n == [r EXCEPT !.stage = st]
<1>1. /\ n \in CallType /\ n.b = r.b /\ n.stage = st /\ n.caught = r.caught /\ n.empty = r.empty /\ n.day = r.day
      /\ n.line = r.line /\ n.skip = r.skip /\ n.left = r.left /\ n.cast = r.cast
      /\ n.bad = r.bad /\ n.good = r.good /\ n.sent = r.sent
  BY DEF CallType
<1> HIDE DEF n
<1>2. CallOK(n) /\ Uncast(n) = Uncast(r)
  BY <1>1 DEF CallOK, Uncast
<1> QED
  BY <1>1, <1>2 DEF n

\* A call on the way to its end.
LEMMA LateFacts ==
    ASSUME NEW r \in CallType, TypeOK, r.b \in {{b} : b \in Broadcasts},
           NEW st \in {"restore", "count", "catch"}, r.caught => st = "count"
    PROVE  LET n == Only(r, st)
           IN  /\ n \in CallType /\ CallOK(n) /\ n.b = r.b /\ n.caught = r.caught /\ n.stage = st
               /\ Uncast(n) = {} /\ Todo(n) = {} /\ n.good = {} /\ n.bad = {} /\ n.sent = {}
<1> DEFINE n == Only(r, st)
<1>1. /\ n \in CallType
      /\ n.b = r.b /\ n.stage = st /\ n.caught = r.caught /\ ~n.empty /\ n.day = 0
      /\ n.line = {} /\ n.skip = {} /\ n.left = {} /\ n.cast = {}
      /\ n.bad = {} /\ n.good = {} /\ n.sent = {}
  BY OnlyFacts DEF Stages
<1> HIDE DEF n
<1>2. CallOK(n)
  <2>1. n.caught => n.stage \in {"count", "finish"}
    BY <1>1
  <2>2. (\E b \in Broadcasts : n.b = {b}) /\ n.day <= today
    <3>1. PICK b \in Broadcasts : r.b = {b}
      OBVIOUS
    <3>2. n.day = 0 /\ today \in 1 .. LastDay
      BY <1>1, TypeFacts
    <3> QED
      BY <1>1, <3>1, <3>2, BroadcastAssumption
  <2>3. n.stage \notin {"idle", "done", "cast", "quota", "skip"}
    BY <1>1
  <2> QED
    BY <1>1, <2>1, <2>2, <2>3 DEF CallOK
<1>3. Uncast(n) = {} /\ Todo(n) = {}
  BY <1>1 DEF Uncast, Todo
<1> QED
  BY <1>1, <1>2, <1>3 DEF n

(***************************************************************************)
(* What the statements do to the rows.                                     *)
(***************************************************************************)
LEMMA MarkedFacts ==
    ASSUME TypeOK, NEW b \in Broadcasts, NEW S, NEW st \in {"sent", "failed", "skipped"}
    PROVE  /\ Marked(b, S, st) \in [Broadcasts -> [Customers -> RecType]]
           /\ \A x \in Broadcasts : x # b => Marked(b, S, st)[x] = rec[x]
           /\ \A c \in Customers : Marked(b, S, st)[b][c] =
                  IF c \in S /\ rec[b][c] # "none" THEN st ELSE rec[b][c]
<1> DEFINE f == [c \in Customers |-> IF c \in S /\ rec[b][c] # "none" THEN st ELSE rec[b][c]]
<1>1. rec \in [Broadcasts -> [Customers -> RecType]] /\ f \in [Customers -> RecType]
  BY DEF TypeOK, RecType
<1>2. Marked(b, S, st) = [rec EXCEPT ![b] = f]
  BY DEF Marked
<1>3. \A c \in Customers : f[c] = IF c \in S /\ rec[b][c] # "none" THEN st ELSE rec[b][c]
  OBVIOUS
<1> HIDE DEF f
<1> QED
  BY <1>1, <1>2, <1>3

LEMMA RowFacts ==
    ASSUME TypeOK, NEW b \in Broadcasts, NEW row \in BcType,
           row.status \in Ended => row.sentAt # 0
    PROVE  /\ Row(b, row) \in [Broadcasts -> BcType]
           /\ \A x \in Broadcasts : x # b => Row(b, row)[x] = bc[x]
           /\ \A x \in Broadcasts : Row(b, row)[x].status \in Ended => Row(b, row)[x].sentAt # 0
           /\ Row(b, row)[b] = IF bc[b].status = "deleted" THEN bc[b] ELSE row
  BY TypeFacts DEF Row

LEMMA FinishedFacts ==
    ASSUME TypeOK, NEW s \in Sends, NEW b \in Broadcasts
    PROVE  /\ Finished(s, b) \in [Broadcasts -> BcType]
           /\ \A x \in Broadcasts : x # b => Finished(s, b)[x] = bc[x]
           /\ \A x \in Broadcasts :
                  Finished(s, b)[x].status \in Ended => Finished(s, b)[x].sentAt # 0
           /\ bc[b].status = "deleted" => Finished(s, b)[b] = bc[b]
           /\ bc[b].status # "deleted" =>
                  /\ Finished(s, b)[b].status \in Ended /\ Finished(s, b)[b].sentAt = today
                  /\ Finished(s, b)[b].counts = send[s].counts
<1> DEFINE row == [status |-> Outcome(send[s].counts), counts |-> send[s].counts,
                   updated |-> 0, sentAt |-> today]
<1>1. Outcome(send[s].counts) \in Ended
  BY DEF Outcome, Ended
<1>2. send[s].counts \in CountType /\ today \in 1 .. LastDay
  BY TypeFacts DEF CallType
<1>3. row \in BcType /\ row.sentAt # 0 /\ row.status \in Ended /\ row.sentAt = today
      /\ row.counts = send[s].counts
  BY <1>1, <1>2, BroadcastAssumption DEF BcType
<1>4. Finished(s, b) = Row(b, row)
  BY DEF Finished
<1> HIDE DEF row
<1> QED
  BY <1>3, <1>4, RowFacts

LEMMA RestoredFacts ==
    ASSUME TypeOK, NEW b \in Broadcasts
    PROVE  /\ Restored(b) \in [Broadcasts -> BcType]
           /\ \A x \in Broadcasts : x # b => Restored(b)[x] = bc[x]
           /\ \A x \in Broadcasts : Restored(b)[x].status \in Ended => Restored(b)[x].sentAt # 0
           /\ bc[b].status = "deleted" => Restored(b)[b] = bc[b]
           /\ bc[b].status # "deleted" => Restored(b)[b].status = "draft"
<1> DEFINE row == [bc[b] EXCEPT !.status = "draft", !.updated = 0]
<1>1. row \in BcType /\ row.status = "draft"
  <2>1. bc[b] \in BcType
    BY TypeFacts
  <2>2. 0 \in 0 .. LastDay
    BY BroadcastAssumption
  <2> QED
    BY <2>1, <2>2 DEF BcType
<1>2. Restored(b) = Row(b, row) /\ "draft" \notin Ended
  BY DEF Restored, Ended
<1> HIDE DEF row
<1> QED
  BY <1>1, <1>2, RowFacts

LEMMA MovedFacts ==
    ASSUME TypeOK, NEW b \in Broadcasts
    PROVE  /\ Moved(b) \in [Broadcasts -> BcType]
           /\ \A x \in Broadcasts : x # b => Moved(b)[x] = bc[x]
           /\ \A x \in Broadcasts : Moved(b)[x].status \in Ended => Moved(b)[x].sentAt # 0
           /\ Moved(b)[b].status = "sending" /\ Moved(b)[b].updated = today
<1> DEFINE row == [bc[b] EXCEPT !.status = "sending", !.updated = today]
<1>1. row \in BcType /\ row.status = "sending" /\ row.updated = today
  <2>1. bc[b] \in BcType /\ today \in 0 .. LastDay
    BY TypeFacts
  <2> QED
    BY <2>1 DEF BcType
<1>2. Moved(b) = [bc EXCEPT ![b] = row] /\ "sending" \notin Ended
  BY TypeFacts DEF Moved, Ended, BcType
<1> HIDE DEF row
<1> QED
  BY <1>1, <1>2, TypeFacts

\* The counts are numbers, because an audience is finite.
LEMMA CountsType ==
    ASSUME NEW b \in Broadcasts, Rows(b)
    PROVE  Counts(b) \in CountType
<1>1. ASSUME NEW st \in {"sent", "failed", "skipped"}
      PROVE  Cardinality(With(b, st)) \in Nat
  <2>1. With(b, st) \in SUBSET Audience[b]
    BY DEF With, Rows
  <2> QED
    BY <2>1, BroadcastAssumption, FS_Subset, FS_CardinalityType
<1> QED
  BY <1>1 DEF Counts, CountType

(***************************************************************************)
(* A step about one broadcast leaves the others alone.                     *)
(***************************************************************************)
Same(x) ==
    /\ bc'[x] = bc[x] /\ rec'[x] = rec[x] /\ making'[x] = making[x]
    /\ charged'[x] = charged[x] /\ got'[x] = got[x] /\ posted'[x] = posted[x]
    /\ x \in early' <=> x \in early
    /\ \A s \in Sends : send[s].b = {x} \/ send'[s].b = {x} => send'[s] = send[s]
    /\ faults.kinds \subseteq faults'.kinds
    /\ today <= today'

LEMMA SameKeeps ==
    ASSUME TypeOK, TypeOK', NEW x \in Broadcasts, Same(x), About(x)
    PROVE  About(x)'
<1>1. \A st : With(x, st)' = With(x, st)
  BY DEF Same, With
<1>2. Counts(x)' = Counts(x)
  BY <1>1 DEF Counts
<1>3. ASSUME NEW s \in Sends
      PROVE  /\ Working(s, x)' <=> Working(s, x)
             /\ Live(s, x)' <=> Live(s, x)
             /\ send'[s].b = {x} <=> send[s].b = {x}
             /\ send[s].b = {x} => /\ send'[s] = send[s]
                                   /\ Uncast(send[s])' = Uncast(send[s])
                                   /\ Todo(send[s])' = Todo(send[s])
  BY DEF Same, Working, Live, Uncast, Todo
<1>4. \A K : None(K)' => None(K)
  BY DEF None, Same
<1>5. Alone(x)'
  BY <1>3 DEF About, Alone, Same
<1>6. Reached(x)'
  BY <1>3, <1>4 DEF About, Reached, Same, Live, Void
<1>7. Rows(x)'
  BY <1>3 DEF About, Rows, Same
<1>8. Charges(x)'
  <2>1. charged'[x] <= today'
    BY TypeFacts, BroadcastAssumption DEF About, Charges, Same, TypeOK
  <2> QED
    BY <1>3, <2>1 DEF About, Charges, Same, Live
<1>9. Clean(x)'
  BY <1>1, <1>2, <1>3, <1>4 DEF About, Clean, Same, Working
<1> QED
  BY <1>5, <1>6, <1>7, <1>8, <1>9 DEF About

(***************************************************************************)
(* A step of a call that works on b.  n is the call's record after it.     *)
(***************************************************************************)
\* What all of them have in common.
StepOf(s, b, n) ==
    /\ Working(s, b)
    /\ send' = [send EXCEPT ![s] = n] /\ n \in CallType /\ CallOK(n)
    /\ n.b = {} \/ (n.b = {b} /\ Works(n))
    /\ UNCHANGED <<today, making, early, charged>>
    /\ faults' \in [count : 0 .. MaxFaults, kinds : SUBSET FaultKinds]
    /\ faults.kinds \subseteq faults'.kinds
    /\ bc' \in [Broadcasts -> BcType] /\ \A x \in Broadcasts : x # b => bc'[x] = bc[x]
    /\ \A x \in Broadcasts : bc'[x].status \in Ended => bc'[x].sentAt # 0
    /\ \/ bc'[b] = bc[b]
       \/ bc'[b].status = "draft" /\ send[s].stage = "restore" /\ (n.b = {b} => ~Sending(n))
       \/ bc'[b].status \in Ended /\ bc'[b].sentAt = today /\ bc[b].status # "deleted"
    /\ rec' \in [Broadcasts -> [Customers -> RecType]]
    /\ \A x \in Broadcasts : x # b => rec'[x] = rec[x]
    /\ \A c \in Customers :
         /\ rec'[b][c] = "none" <=> rec[b][c] = "none"
         /\ rec'[b][c] = "pending" => rec[b][c] = "pending"
         /\ rec'[b][c] = "skipped" => rec[b][c] = "skipped" \/ c \in send[s].skip
         /\ rec'[b][c] = "sent" => rec[b][c] = "sent" \/ c \in send[s].good
    /\ used' \in [Channels -> Nat]
    /\ n.b = {b} /\ Sending(n) => Sending(send[s])

\* Nobody gets anything.
Quiet(s, b, n) ==
    /\ StepOf(s, b, n)
    /\ got' = got
    /\ posted' \in [Broadcasts -> SUBSET Customers]
    /\ \A x \in Broadcasts : x # b => posted'[x] = posted[x]
    /\ \A c \in posted'[b] : c \in posted[b] \/ c \in send[s].sent
    /\ n.good \cup n.sent \subseteq send[s].good \cup send[s].sent \/ Void(b)
    /\ n.b = {b} /\ Sending(n) =>
         /\ n.stage \in Before => send[s].stage \in Before
         /\ n.stage # "load"
         /\ n.bad \subseteq send[s].bad
         /\ IF send[s].stage = "load" THEN Uncast(n) \subseteq OnLine(With(b, "pending"))
            ELSE Uncast(n) \subseteq Uncast(send[s])

LEMMA SharesShrink ==
    ASSUME Capped, \A d \in 1 .. LastDay : Share(d)' \subseteq Share(d)
    PROVE  Capped'
<1> SUFFICES ASSUME NEW d \in 1 .. LastDay
             PROVE  IsFiniteSet(Share(d)') /\ Cardinality(Share(d)') <= DailyLimit
  BY DEF Capped
<1>1. IsFiniteSet(Share(d)) /\ Cardinality(Share(d)) <= DailyLimit
  BY DEF Capped
<1>2. Share(d)' \in SUBSET Share(d)
  OBVIOUS
<1>3. /\ IsFiniteSet(Share(d)') /\ Cardinality(Share(d)') <= Cardinality(Share(d))
      /\ Cardinality(Share(d)) \in Nat /\ Cardinality(Share(d)') \in Nat
  <2> DEFINE A == Share(d)
             B == Share(d)'
  <2> HIDE DEF A, B
  <2>1. B \in SUBSET A /\ IsFiniteSet(A)
    BY <1>1, <1>2 DEF A, B
  <2>2. IsFiniteSet(B) /\ Cardinality(B) <= Cardinality(A)
    BY <2>1, FS_Subset
  <2>3. Cardinality(A) \in Nat /\ Cardinality(B) \in Nat
    BY <2>1, <2>2, FS_CardinalityType
  <2> QED
    BY <2>2, <2>3 DEF A, B
<1> QED
  BY <1>1, <1>3, BroadcastAssumption

LEMMA QuietKeeps ==
    ASSUME SenderInv, NEW s \in Sends, NEW b \in Broadcasts, NEW n, Quiet(s, b, n), Clean(b)'
    PROVE  SenderInv'
<1>0. TypeOK /\ About(b) /\ CallOK(send[s]) /\ send \in [Sends -> CallType]
  BY TypeFacts DEF SenderInv
<1>a. Working(s, b) /\ send' = [send EXCEPT ![s] = n] /\ (n.b = {} \/ (n.b = {b} /\ Works(n)))
      /\ (n.b = {b} /\ Sending(n) => Sending(send[s]))
  BY DEF Quiet, StepOf
<1>1. TypeOK'
  <2>1. send' \in [Sends -> CallType]
    BY <1>0 DEF Quiet, StepOf
  <2> QED
    BY <1>0, <2>1 DEF TypeOK, CallType, BcType, RecType, Quiet, StepOf
<1>2. send'[s] = n /\ \A t \in Sends : t # s => send'[t] = send[t]
  BY <1>0, <1>a
<1>3. \A t \in Sends : CallOK(send[t])'
  <2>1. ASSUME NEW t \in Sends PROVE CallOK(send[t])'
    <3>1. CallOK(send'[t])
      BY <1>2 DEF SenderInv, Quiet, StepOf
    <3> QED
      BY <3>1 DEF CallOK, Void, Quiet, StepOf
  <2> QED
    BY <2>1
<1>4. ASSUME NEW t \in Sends, t # s
      PROVE  /\ Working(t, b)' <=> Working(t, b)
             /\ Live(t, b)' <=> Live(t, b)
             /\ Uncast(send[t])' = Uncast(send[t])
  <2>1. send'[t] = send[t]
    BY <1>2, <1>4
  <2> QED
    BY <2>1 DEF Working, Live, Works, Sending, Uncast
<1>5. /\ send[s].b = {b} /\ Works(send[s])
      /\ Live(s, b) <=> Sending(send[s])
      /\ Live(s, b)' <=> n.b = {b} /\ Sending(n)
      /\ Live(s, b)' => Live(s, b)
      /\ Uncast(send[s])' = Uncast(n)
  <2>1. send[s].b = {b} /\ Works(send[s])
    BY <1>a DEF Working
  <2>2. Live(s, b) <=> Sending(send[s])
    BY <2>1 DEF Live
  <2>3. Live(s, b)' <=> n.b = {b} /\ Sending(n)
    BY <1>2 DEF Live, Sending, Works
  <2>4. Uncast(send[s])' = Uncast(n)
    BY <1>2 DEF Uncast
  <2> QED
    BY <1>a, <2>1, <2>2, <2>3, <2>4
<1> USE DEF Quiet, StepOf
<1>6. \A K : None(K)' => None(K)
  BY DEF None
<1>7. Alone(b)'
  <2>1. \A t, u \in Sends : Live(t, b)' /\ Live(u, b)' => t = u
    BY <1>0, <1>4, <1>5 DEF About, Alone
  <2>2. bc'[b].status # "none"
    BY <1>0, <1>5 DEF About, Alone, Ended
  <2>3. ASSUME NEW t \in Sends, Live(t, b)' PROVE bc'[b].status # "draft"
    <3>1. Live(t, b)
      BY <1>4, <1>5, <2>3
    <3>2. CASE bc'[b] = bc[b]
      BY <1>0, <3>1, <3>2 DEF About, Alone
    <3>3. CASE bc'[b].status \in Ended
      BY <3>3 DEF Ended
    <3>4. CASE send[s].stage = "restore" /\ (n.b = {b} => ~Sending(n))
      <4>1. ~send[s].caught /\ Live(s, b)
        BY <1>0, <1>5, <3>4 DEF CallOK, Sending
      <4>2. t = s
        BY <1>0, <3>1, <4>1 DEF About, Alone
      <4> QED
        BY <1>5, <2>3, <3>4, <4>2
    <3> QED
      BY <3>2, <3>3, <3>4
  <2> QED
    BY <2>1, <2>2, <2>3 DEF Alone
<1>8. bc'[b].status \in {"none", "draft"} => \A c \in Customers : got[b][c] = 0
  <2>1. CASE bc'[b] = bc[b]
    BY <1>0, <2>1 DEF About, Reached
  <2>2. CASE bc'[b].status \in Ended
    BY <2>2 DEF Ended
  <2>3. CASE send[s].stage = "restore"
    <3>1. Live(s, b) /\ send[s].stage \in Before
      BY <1>0, <1>5, <2>3 DEF CallOK, Sending, Before
    <3> QED
      BY <1>0, <3>1 DEF About, Reached
  <2> QED
    BY <2>1, <2>2, <2>3
<1>9. Reached(b)'
  <2>1. ASSUME NEW t \in Sends, Live(t, b)'
        PROVE  /\ send'[t].stage \in Before => \A c \in Customers : got[b][c] = 0
               /\ \A c \in Uncast(send[t])' : got[b][c] = 0
               /\ None({"line"})' => \A c \in send'[t].bad : got[b][c] = 0
    <3>1. CASE t # s
      BY <1>0, <1>2, <1>4, <1>6, <2>1, <3>1 DEF About, Reached
    <3>2. CASE t = s
      <4>1. Live(s, b)
        BY <1>5, <2>1, <3>2
      <4>2. send[s].stage = "load" => send[s].stage \in Before
        BY DEF Before
      <4>3. OnLine(With(b, "pending")) \subseteq Customers
        BY DEF OnLine, With
      <4> QED
        BY <1>0, <1>2, <1>5, <1>6, <2>1, <3>2, <4>1, <4>2, <4>3 DEF About, Reached
    <3> QED
      BY <3>1, <3>2
  <2>2. ASSUME NEW t \in Sends, send'[t].b = {b}, NEW c \in send'[t].good \cup send'[t].sent
        PROVE  got[b][c] > 0 \/ Void(b)
    BY <1>0, <1>2, <1>5, <2>2 DEF About, Reached
  <2>3. ASSUME NEW c \in Customers, rec'[b][c] = "sent" \/ c \in posted'[b]
        PROVE  got[b][c] > 0 \/ Void(b)
    BY <1>0, <1>5, <2>3 DEF About, Reached
  <2> QED
    BY <1>0, <1>6, <1>8, <2>1, <2>2, <2>3 DEF About, Reached, Void
<1>10. Rows(b)'
  <2>1. /\ b \in early' \/ making'[b] = {}
        /\ bc'[b].status = "deleted" => b \in early
    <3>1. b \in early \/ (making[b] = {} /\ bc[b].status # "deleted")
      BY <1>0, <1>5 DEF About, Rows, Working
    <3> QED
      BY <3>1 DEF Ended
  <2>2. bc'[b].status # "none"
    BY <1>7, <1>0, <1>5 DEF About, Alone, Ended
  <2> QED
    BY <1>0, <2>1, <2>2, TypeFacts DEF About, Rows
<1>11. Charges(b)'
  <2>1. b \notin early /\ charged[b] # 0 =>
          /\ bc'[b].status = "sending" => bc'[b].updated >= charged[b]
          /\ bc'[b].status \in Ended => bc'[b].sentAt >= charged[b]
    BY <1>0, TypeFacts, BroadcastAssumption DEF About, Charges, Ended
  <2>2. \A c \in Customers : rec'[b][c] = "skipped" => Route[c] \notin Channels
    BY <1>0 DEF About, Charges, CallOK
  <2>3. ASSUME b \notin early, NEW t \in Sends, Live(t, b)', NEW c \in Uncast(send[t])'
        PROVE  rec'[b][c] # "none"
    <3>1. CASE t # s
      <4>1. c \in Customers
        BY <1>0, <1>4, <2>3, <3>1 DEF Uncast, CallType
      <4> QED
        BY <1>0, <1>4, <2>3, <3>1, <4>1 DEF About, Charges
    <3>2. CASE t = s
      <4>1. c \in Uncast(send[s]) \/ c \in With(b, "pending")
        BY <1>5, <2>3, <3>2 DEF OnLine
      <4>2. c \in Customers /\ rec[b][c] # "none"
        BY <1>0, <1>5, <2>3, <3>2, <4>1 DEF About, Charges, With, Uncast, CallType
      <4> QED
        BY <4>2
    <3> QED
      BY <3>1, <3>2
  <2> QED
    BY <1>0, <2>1, <2>2, <2>3 DEF About, Charges
<1>12. About(b)'
  BY <1>7, <1>9, <1>10, <1>11 DEF About
<1> HIDE DEF Quiet, StepOf
<1>b. /\ \A x \in Broadcasts : x # b => /\ bc'[x] = bc[x] /\ rec'[x] = rec[x]
                                        /\ posted'[x] = posted[x]
      /\ \A c \in Customers : rec'[b][c] = "pending" => rec[b][c] = "pending"
      /\ UNCHANGED <<today, making, early, charged, got>>
      /\ faults.kinds \subseteq faults'.kinds
      /\ n.b = {b} /\ Sending(n) =>
           /\ n.stage # "load"
           /\ IF send[s].stage = "load" THEN Uncast(n) \subseteq OnLine(With(b, "pending"))
              ELSE Uncast(n) \subseteq Uncast(send[s])
  BY DEF Quiet, StepOf
<1>13. ASSUME NEW x \in Broadcasts, x # b PROVE About(x)'
  <2>1. \A t \in Sends : send[t].b = {x} \/ send'[t].b = {x} => send'[t] = send[t]
    <3> SUFFICES ASSUME NEW t \in Sends, send[t].b = {x} \/ send'[t].b = {x}
                 PROVE  t # s
      BY <1>2
    <3> QED
      BY <1>2, <1>5, <1>13, <1>a
  <2>2. today <= today'
    BY <1>0, <1>b, BroadcastAssumption DEF TypeOK
  <2>3. Same(x)
    BY <1>13, <1>b, <2>1, <2>2 DEF Same
  <2> QED
    BY <1>0, <1>1, <2>3, SameKeeps DEF SenderInv
<1>14. Capped'
  <2>1. ASSUME NEW d \in 1 .. LastDay PROVE Share(d)' \subseteq Share(d)
    <3> SUFFICES ASSUME NEW x \in Broadcasts \ early, NEW c \in Customers, charged[x] = d,
                        NEW t \in Sends, Live(t, x)',
                        \/ c \in Uncast(send[t])'
                        \/ send'[t].stage = "load" /\ c \in OnLine(With(x, "pending"))'
                 PROVE  <<x, c>> \in Share(d)
      BY <1>b DEF Share
    <3>1. CASE x = b /\ t = s
      BY <1>2, <1>5, <1>b, <3>1 DEF Share
    <3>2. CASE x = b /\ t # s
      <4>1. Live(t, b) /\ Uncast(send[t])' = Uncast(send[t]) /\ send'[t] = send[t]
        BY <1>2, <1>4, <3>2
      <4>2. OnLine(With(b, "pending"))' \subseteq OnLine(With(b, "pending"))
        BY <1>b DEF OnLine, With
      <4> QED
        BY <3>2, <4>1, <4>2 DEF Share
    <3>3. CASE x # b
      <4>1. t # s /\ send'[t] = send[t] /\ With(x, "pending")' = With(x, "pending")
        <5>1. t # s
          BY <1>2, <1>5, <1>a, <3>3 DEF Live
        <5>2. With(x, "pending")' = With(x, "pending")
          BY <1>b, <3>3 DEF With
        <5> QED
          BY <1>2, <5>1, <5>2
      <4> QED
        BY <4>1 DEF Share, Live, Uncast, OnLine
    <3> QED
      BY <3>1, <3>2, <3>3
  <2> QED
    BY <2>1, SharesShrink DEF SenderInv
<1> QED
  BY <1>1, <1>3, <1>12, <1>13, <1>14 DEF SenderInv

\* What is known of a call that works on b.
LEMMA AtFacts ==
    ASSUME SenderInv, NEW s \in Sends, NEW b \in Broadcasts, NEW st \in Stages, At(s, b, st)
    PROVE  /\ TypeOK /\ About(b)
           /\ send[s] \in CallType /\ CallOK(send[s])
           /\ send[s].b = {b} /\ send[s].stage = st
           /\ send[s].b \in {{x} : x \in Broadcasts}
           /\ st \notin {"count", "finish"} => ~send[s].caught
           /\ Works(send[s]) <=> st \notin {"idle", "done", "check", "move"}
           /\ Working(s, b) <=> Works(send[s])
  BY TypeFacts DEF SenderInv, At, CallOK, Works, Working

\* Without an outage of D1 the others do not work on b.
LEMMA CleanGoesOn ==
    ASSUME SenderInv, NEW s \in Sends, NEW b \in Broadcasts, NEW n, StepOf(s, b, n),
           n.b = {b}, bc'[b] = bc[b],
           None({"d1"})' =>
             /\ n.stage # "remark"
             /\ n.stage = "catch" \/ n.caught => \A c \in Customers : got'[b][c] = 0
             /\ n.stage \in {"load", "quota", "restore"} =>
                  send[s].stage \in {"load", "quota", "restore"} /\ rec'[b] = rec[b]
             /\ \A c \in Todo(n) : rec'[b][c] = "pending"
             /\ b \notin early /\ n.stage \notin {"load", "restore", "catch"} =>
                  With(b, "pending")' \subseteq Todo(n)
             /\ b \notin early /\ n.stage = "finish" => n.counts = Counts(b)'
             /\ None({"line"})' =>
                  \A c \in Customers : rec'[b][c] = "failed" => got'[b][c] = 0
    PROVE  Clean(b)'
<1> SUFFICES ASSUME None({"d1"})' PROVE Clean(b)'
  BY DEF Clean
<1>1. /\ Working(s, b) /\ n.b = {b} /\ Works(n) /\ send' = [send EXCEPT ![s] = n]
      /\ early' = early /\ making' = making /\ None({"d1"}) /\ send \in [Sends -> CallType]
      /\ Clean(b)
  BY TypeFacts DEF StepOf, None, SenderInv, About
<1>2. send'[s] = n /\ \A t \in Sends : t # s => send'[t] = send[t]
  BY <1>1
<1>3. \A t \in Sends : Working(t, b) => t = s
  BY <1>1 DEF Clean
<1>4. \A t \in Sends : Working(t, b)' => t = s
  BY <1>2, <1>3 DEF Working
<1>5. Working(s, b)' /\ Todo(send[s])' = Todo(n)
  BY <1>1, <1>2 DEF Working, Todo, Uncast
<1>6. bc'[b].status = "sending"
  BY <1>1 DEF Clean
<1>7. send[s].stage \in {"load", "quota", "restore"} =>
        \A c \in Audience[b] \ making[b] : rec[b][c] = "pending"
  BY <1>1 DEF Clean
<1> QED
  BY <1>1, <1>2, <1>4, <1>5, <1>6, <1>7 DEF Clean, Ended

LEMMA CleanStops ==
    ASSUME SenderInv, NEW s \in Sends, NEW b \in Broadcasts, NEW n, StepOf(s, b, n),
           n.b = {}, got' = got,
           None({"d1"})' =>
             /\ rec'[b] = rec[b]
             /\ \/ bc'[b] = bc[b] /\ ~None({"crash"})'
                \/ send[s].stage = "restore" /\ bc'[b].status = "draft"
                \/ /\ send[s].stage = "finish" /\ bc'[b].status \in Ended
                   /\ bc'[b].counts = send[s].counts
    PROVE  Clean(b)'
<1> SUFFICES ASSUME None({"d1"})' PROVE Clean(b)'
  BY DEF Clean
<1>1. /\ Working(s, b) /\ send' = [send EXCEPT ![s] = n]
      /\ early' = early /\ making' = making /\ None({"d1"}) /\ send \in [Sends -> CallType]
      /\ Clean(b) /\ rec'[b] = rec[b]
  BY TypeFacts DEF StepOf, None, SenderInv, About
<1>2. send'[s] = n /\ \A t \in Sends : t # s => send'[t] = send[t]
  BY <1>1
<1>3. \A t \in Sends : ~Working(t, b)'
  BY <1>1, <1>2 DEF Working, Clean
<1>4. (\A st : With(b, st)' = With(b, st)) /\ Counts(b)' = Counts(b)
  BY <1>1 DEF With, Counts
<1>5. None({"line"})' => \A c \in Customers : rec'[b][c] = "failed" => got'[b][c] = 0
  <2>1. None({"line"})' => None({"line"})
    BY DEF StepOf, None
  <2> QED
    BY <1>1, <2>1 DEF Clean
<1>6. CASE bc'[b] = bc[b] /\ ~None({"crash"})'
  <2>1. bc'[b].status = "sending"
    BY <1>1, <1>6 DEF Clean
  <2> QED
    BY <1>3, <1>5, <1>6, <2>1 DEF Clean, Ended
<1>7. CASE send[s].stage = "restore" /\ bc'[b].status = "draft"
  <2>1. \A c \in Audience[b] \ making[b] : rec[b][c] = "pending"
    BY <1>1, <1>7 DEF Clean
  <2> QED
    BY <1>1, <1>3, <1>5, <1>7, <2>1 DEF Clean, Ended
<1>8. CASE send[s].stage = "finish" /\ bc'[b].status \in Ended /\ bc'[b].counts = send[s].counts
  <2>1. b \notin early => send[s].counts = Counts(b) /\ With(b, "pending") \subseteq Todo(send[s])
    BY <1>1, <1>8 DEF Clean
  <2>2. Todo(send[s]) = {}
    BY <1>8 DEF Todo
  <2> QED
    BY <1>1, <1>3, <1>4, <1>5, <1>8, <2>1, <2>2 DEF Clean, Ended
<1> QED
  BY <1>6, <1>7, <1>8

(***************************************************************************)
(* The steps of a call that works.                                         *)
(***************************************************************************)
\* Faults only become more.
FaultsGrow ==
    /\ faults' \in [count : 0 .. MaxFaults, kinds : SUBSET FaultKinds]
    /\ faults.kinds \subseteq faults'.kinds

LEMMA FaultsAre ==
    ASSUME TypeOK, faults' = faults \/ \E k \in FaultKinds : Fault(k)
    PROVE  FaultsGrow
  BY FaultFacts DEF FaultsGrow, TypeOK

\* A step that writes nothing.
LEMMA ReadStep ==
    ASSUME TypeOK, NEW s \in Sends, NEW b \in Broadcasts, NEW n, Working(s, b), n \in CallType, CallOK(n),
           send' = [send EXCEPT ![s] = n], n.b = {} \/ (n.b = {b} /\ Works(n)),
           n.b = {b} /\ Sending(n) => Sending(send[s]), FaultsGrow,
           UNCHANGED <<today, bc, rec, making, early, charged, used>>
    PROVE  StepOf(s, b, n)
  BY TypeFacts DEF StepOf, FaultsGrow

\* A step that marks recipients.
LEMMA MarkStep ==
    ASSUME TypeOK, NEW s \in Sends, NEW b \in Broadcasts, NEW n, Working(s, b), n \in CallType, CallOK(n),
           send' = [send EXCEPT ![s] = n], n.b = {} \/ (n.b = {b} /\ Works(n)),
           n.b = {b} /\ Sending(n) => Sending(send[s]), FaultsGrow,
           UNCHANGED <<today, bc, making, early, charged, used>>,
           NEW S, NEW st \in {"sent", "failed", "skipped"}, rec' = Marked(b, S, st),
           st = "sent" => S \subseteq send[s].good,
           st = "skipped" => S \subseteq send[s].skip
    PROVE  StepOf(s, b, n)
<1>1. /\ rec' \in [Broadcasts -> [Customers -> RecType]]
      /\ \A x \in Broadcasts : x # b => rec'[x] = rec[x]
      /\ \A c \in Customers : rec'[b][c] = IF c \in S /\ rec[b][c] # "none" THEN st ELSE rec[b][c]
  BY MarkedFacts
<1>2. \A c \in Customers :
         /\ rec'[b][c] = "none" <=> rec[b][c] = "none"
         /\ rec'[b][c] = "pending" => rec[b][c] = "pending"
         /\ rec'[b][c] = "skipped" => rec[b][c] = "skipped" \/ c \in send[s].skip
         /\ rec'[b][c] = "sent" => rec[b][c] = "sent" \/ c \in send[s].good
  BY <1>1
<1> QED
  BY <1>1, <1>2, TypeFacts DEF StepOf, FaultsGrow

\* A step that writes the broadcast's row.
LEMMA RowStep ==
    ASSUME TypeOK, NEW s \in Sends, NEW b \in Broadcasts, NEW n, Working(s, b), n \in CallType, CallOK(n),
           send' = [send EXCEPT ![s] = n], n.b = {} \/ (n.b = {b} /\ Works(n)),
           n.b = {b} => ~Sending(n), FaultsGrow,
           UNCHANGED <<today, rec, making, early, charged, used>>,
           \/ bc' = bc
           \/ bc' = Restored(b) /\ send[s].stage = "restore"
           \/ bc' = Finished(s, b)
    PROVE  StepOf(s, b, n)
<1>1. /\ bc' \in [Broadcasts -> BcType] /\ \A x \in Broadcasts : x # b => bc'[x] = bc[x]
      /\ \A x \in Broadcasts : bc'[x].status \in Ended => bc'[x].sentAt # 0
      /\ \/ bc'[b] = bc[b]
         \/ bc'[b].status = "draft" /\ send[s].stage = "restore"
         \/ bc'[b].status \in Ended /\ bc'[b].sentAt = today /\ bc[b].status # "deleted"
  <2>1. CASE bc' = bc
    BY <2>1, TypeFacts
  <2>2. CASE bc' = Restored(b) /\ send[s].stage = "restore"
    BY <2>2, RestoredFacts
  <2>3. CASE bc' = Finished(s, b)
    BY <2>3, FinishedFacts
  <2> QED
    BY <2>1, <2>2, <2>3
<1> QED
  BY <1>1, TypeFacts DEF StepOf, FaultsGrow

\* A step with which the call ends, or gives up sending.
LEMMA QuietEnds ==
    ASSUME TypeOK, NEW s \in Sends, NEW b \in Broadcasts, NEW n, StepOf(s, b, n),
           got' = got, posted' = posted, n.good = {}, n.sent = {}, n.b = {b} => ~Sending(n)
    PROVE  Quiet(s, b, n)
  BY TypeFacts DEF Quiet

LEMMA LoadKeeps ==
    ASSUME SenderInv, NEW s \in Sends, NEW b \in Broadcasts, Load(s, b)
    PROVE  SenderInv'
<1> DEFINE pending == With(b, "pending")
           line == {c \in pending : Route[c] \in Channels}
           r == [send[s] EXCEPT !.line = line, !.skip = pending \ line,
                                !.left = {Route[c] : c \in line}, !.stage = "quota",
                                !.empty = b \in ImageOnly /\ Images \in making[b]]
           n == IF Cardinality(OnLine(pending)) > LineLimit THEN Only(r, "restore") ELSE Decided(r)
<1>1. /\ TypeOK /\ About(b) /\ send[s] \in CallType /\ CallOK(send[s]) /\ send[s].b = {b}
      /\ send[s].stage = "load" /\ ~send[s].caught /\ Works(send[s]) /\ Working(s, b)
      /\ send[s].b \in {{x} : x \in Broadcasts}
  BY AtFacts DEF Load, Stages
<1>2. /\ pending \subseteq Customers /\ line \subseteq pending
      /\ {Route[c] : c \in line} \subseteq Channels
  BY DEF With
<1>3. /\ r \in CallType /\ r.b = {b} /\ r.stage = "quota" /\ ~r.caught /\ r.day = send[s].day
      /\ r.line = line /\ r.skip = pending \ line /\ r.left = {Route[c] : c \in line}
      /\ r.cast = send[s].cast /\ r.bad = send[s].bad /\ r.good = send[s].good /\ r.sent = send[s].sent
      /\ r.empty = (b \in ImageOnly /\ Images \in making[b])
  BY <1>1, <1>2 DEF CallType, Stages
<1>4. line \cup (pending \ line) = pending /\ line \subseteq OnLine(pending)
  BY <1>2, BroadcastAssumption DEF OnLine
<1>5. send' = [send EXCEPT ![s] = n] /\ UNCHANGED <<today, bc, rec, making, early, charged, used, got, posted, faults>>
  BY DEF Load
<1> HIDE DEF r, pending, line
<1>6. CallOK(r)
  <2>1. send[s].cast = {} /\ send[s].good = {} /\ send[s].sent = {}
    BY <1>1 DEF CallOK
  <2>2. r.empty => Void(b)
    BY <1>1, <1>3 DEF About, Rows, Void
  <2> QED
    BY <1>1, <1>3, <2>1, <2>2 DEF CallOK, line

<1>7. /\ n \in CallType /\ CallOK(n) /\ n.b = {b} /\ ~n.caught
      /\ n.stage \in {"quota", "restore", "skip", "cast", "post"}
      /\ Uncast(n) \subseteq line /\ n.good = {} /\ n.bad = {} /\ n.sent = {}
      /\ Todo(n) = IF n.stage = "restore" THEN {} ELSE pending
  <2>1. CASE n = Decided(r)
    BY <1>1, <1>3, <1>4, <1>6, <2>1, DecidedFacts
  <2>2. CASE n = Only(r, "restore")
    <3>1. r.b \in {{x} : x \in Broadcasts} /\ "restore" \in {"restore", "count", "catch"}
      BY <1>1, <1>3
    <3> DEFINE o == Only(r, "restore")
    <3>2. /\ o \in CallType /\ CallOK(o) /\ o.b = r.b /\ o.caught = r.caught /\ o.stage = "restore"
          /\ Uncast(o) = {} /\ Todo(o) = {} /\ o.good = {} /\ o.bad = {} /\ o.sent = {}
      BY <1>1, <1>3, <3>1, LateFacts
    <3> HIDE DEF o
    <3>3. n = o
      BY <2>2 DEF o
    <3> HIDE DEF n
    <3> QED
      BY <1>3, <3>2, <3>3
  <2> QED
    BY <2>1, <2>2
<1> HIDE DEF n
<1>8. /\ Works(n) /\ FaultsGrow /\ Sending(send[s])
      /\ \A c \in Customers : c \in pending <=> rec[b][c] = "pending"
  BY <1>1, <1>5, <1>7, FaultsAre DEF Works, Sending, pending, With
<1>9. StepOf(s, b, n)
  BY <1>1, <1>5, <1>7, <1>8, ReadStep
<1>10. Quiet(s, b, n)
  BY <1>1, <1>4, <1>5, <1>7, <1>9, TypeFacts DEF Quiet, Before, pending
<1>11. Clean(b)'
  <2>1. With(b, "pending")' = pending
    BY <1>5 DEF With, pending
  <2>2. None({"d1"})' /\ None({"line"})' => \A c \in Customers : rec[b][c] = "failed" => got[b][c] = 0
    BY <1>1, <1>5 DEF About, Clean, None
  <2> QED
    BY <1>1, <1>2, <1>5, <1>7, <1>8, <1>9, <2>1, <2>2, CleanGoesOn
<1> QED
  BY <1>10, <1>11, QuietKeeps

LEMMA LoadFailsKeeps ==
    ASSUME SenderInv, NEW s \in Sends, NEW b \in Broadcasts, LoadFails(s, b)
    PROVE  SenderInv'
<1>1. /\ TypeOK /\ About(b) /\ send[s] \in CallType /\ CallOK(send[s]) /\ send[s].b = {b}
      /\ send[s].stage = "load" /\ ~send[s].caught /\ Works(send[s]) /\ Working(s, b)
      /\ send[s].b \in {{x} : x \in Broadcasts}
  BY AtFacts DEF LoadFails, Stages
<1>2. PICK st \in {"restore", "catch"} : To(s, st)
  BY DEF LoadFails
<1> DEFINE n == [send[s] EXCEPT !.stage = st]
<1>3. send' = [send EXCEPT ![s] = n] /\ UNCHANGED <<today, bc, rec, making, early, charged, used, got, posted>>
      /\ FaultsGrow
  BY <1>1, <1>2, FaultsAre, TypeFacts DEF LoadFails, To, FaultKinds
<1>4. /\ n \in CallType /\ CallOK(n) /\ n.b = {b} /\ ~n.caught /\ n.stage = st
      /\ n.good = {} /\ n.bad = {} /\ n.sent = {} /\ Uncast(n) = {}
  <2>1. st \in Stages
    BY DEF Stages
  <2>2. send[s].good = {} /\ send[s].bad = {} /\ send[s].sent = {} /\ Uncast(send[s]) = {}
    BY <1>1 DEF CallOK, Uncast
  <2> QED
    BY <1>1, <2>1, <2>2, StageFacts
<1> HIDE DEF n
<1>5. Works(n) /\ Sending(send[s]) /\ Live(s, b)
  BY <1>1, <1>4 DEF Works, Sending, Live
<1>6. StepOf(s, b, n)
  BY <1>1, <1>3, <1>4, <1>5, ReadStep
<1>7. Quiet(s, b, n)
  BY <1>1, <1>3, <1>4, <1>6, TypeFacts DEF Quiet, Before
<1>8. Clean(b)'
  <2>1. \A c \in Customers : got[b][c] = 0
    BY <1>1, <1>5 DEF About, Reached, Before
  <2>2. Todo(n) = {}
    BY <1>4 DEF Todo
  <2> QED
    BY <1>1, <1>3, <1>4, <1>6, <2>1, <2>2, CleanGoesOn
<1> QED
  BY <1>7, <1>8, QuietKeeps

LEMMA QuotaKeeps ==
    ASSUME SenderInv, NEW s \in Sends, NEW b \in Broadcasts, Quota(s, b)
    PROVE  SenderInv'
<1>1. /\ TypeOK /\ About(b) /\ send[s] \in CallType /\ CallOK(send[s]) /\ send[s].b = {b}
      /\ send[s].stage = "quota" /\ ~send[s].caught /\ Works(send[s]) /\ Working(s, b)
      /\ send[s].b \in {{x} : x \in Broadcasts}
  BY AtFacts DEF Quota, Stages
<1> DEFINE ch == First(send[s].left)
<1>2. PICK ok \in BOOLEAN :
        /\ faults' = faults \/ Fault("quota")
        /\ send' = [send EXCEPT ![s] =
               Decided([send[s] EXCEPT !.left = send[s].left \ {ch},
                                       !.blocked = send[s].blocked \/ ~ok])]
  BY DEF Quota
<1> DEFINE r == [send[s] EXCEPT !.left = send[s].left \ {ch},
                                !.blocked = send[s].blocked \/ ~ok]
           n == Decided(r)
<1>3. send' = [send EXCEPT ![s] = n] /\ UNCHANGED <<today, bc, rec, making, early, charged, used, got, posted>>
      /\ FaultsGrow
  <2>1. send' = [send EXCEPT ![s] = n]
    BY <1>2
  <2>2. FaultsGrow
    BY <1>1, <1>2, FaultsAre DEF FaultKinds
  <2> QED
    BY <2>1, <2>2 DEF Quota
<1> HIDE DEF ch
<1>4. /\ r \in CallType /\ r.b = {b} /\ r.stage = "quota" /\ ~r.caught /\ r.day = send[s].day
      /\ r.line = send[s].line /\ r.skip = send[s].skip /\ r.left = send[s].left \ {ch}
      /\ r.cast = send[s].cast /\ r.bad = send[s].bad /\ r.good = send[s].good /\ r.sent = send[s].sent
      /\ r.empty = send[s].empty
  BY <1>1 DEF CallType
<1> HIDE DEF r
<1>5. CallOK(r)
  BY <1>1, <1>4 DEF CallOK
<1>6. /\ n \in CallType /\ CallOK(n) /\ n.b = {b} /\ ~n.caught
      /\ n.stage \in {"quota", "restore", "skip", "cast", "post"}
      /\ Uncast(n) \subseteq send[s].line
      /\ n.good = {} /\ n.bad = {} /\ n.sent = {}
      /\ Todo(n) = IF n.stage = "restore" THEN {} ELSE send[s].line \cup send[s].skip
  BY <1>1, <1>4, <1>5, DecidedFacts
<1> HIDE DEF n
<1>7. /\ Works(n) /\ Sending(send[s])
      /\ Uncast(send[s]) = send[s].line /\ Todo(send[s]) = send[s].line \cup send[s].skip
  BY <1>1, <1>6 DEF Works, Sending, Uncast, Todo
<1>8. StepOf(s, b, n)
  BY <1>1, <1>3, <1>6, <1>7, ReadStep
<1>9. Quiet(s, b, n)
  BY <1>1, <1>3, <1>6, <1>7, <1>8, TypeFacts DEF Quiet, Before
<1>10. Clean(b)'
  <2>1. With(b, "pending")' = With(b, "pending")
    BY <1>3 DEF With
  <2>2. None({"d1"})' => None({"d1"})
    BY <1>3 DEF None, FaultsGrow
  <2>3. None({"line"})' => None({"line"})
    BY <1>3 DEF None, FaultsGrow
  <2>4. None({"d1"}) =>
          /\ \A c \in Todo(send[s]) : rec[b][c] = "pending"
          /\ b \notin early => With(b, "pending") \subseteq Todo(send[s])
          /\ None({"line"}) => \A c \in Customers : rec[b][c] = "failed" => got[b][c] = 0
    BY <1>1 DEF About, Clean
  <2> QED
    BY <1>1, <1>3, <1>6, <1>7, <1>8, <2>1, <2>2, <2>3, <2>4, CleanGoesOn
<1> QED
  BY <1>9, <1>10, QuietKeeps

\* After an outage of D1 Clean says nothing.
LEMMA OutageIsUnclean ==
    ASSUME TypeOK, NEW b, Fault("d1") \/ ("d1" \in faults.kinds /\ faults' = faults)
    PROVE  FaultsGrow /\ Clean(b)'
<1>1. "d1" \in faults'.kinds
  BY FaultFacts
<1>2. ~None({"d1"})'
  BY <1>1 DEF None
<1> QED
  BY <1>2, FaultsAre DEF Clean, FaultKinds

LEMMA RestoreKeeps ==
    ASSUME SenderInv, NEW s \in Sends, NEW b \in Broadcasts, Restore(s, b)
    PROVE  SenderInv'
<1>1. /\ TypeOK /\ About(b) /\ send[s] \in CallType /\ CallOK(send[s]) /\ send[s].b = {b}
      /\ send[s].stage = "restore" /\ ~send[s].caught /\ Works(send[s]) /\ Working(s, b)
  BY AtFacts DEF Restore, Stages
<1> DEFINE n == [Unsent EXCEPT !.stage = "done"]
<1>2. n \in CallType /\ CallOK(n) /\ n.b = {} /\ n.good = {} /\ n.sent = {} /\ n.b # {b}
  BY <1>1, EndFacts DEF Unsent
<1>3. /\ send' = [send EXCEPT ![s] = n] /\ bc' = Restored(b) /\ FaultsGrow
      /\ UNCHANGED <<today, rec, making, early, charged, used, got, posted, faults>>
  BY <1>1, FaultsAre DEF Restore, Ends
<1> HIDE DEF n
<1>4. StepOf(s, b, n)
  BY <1>1, <1>2, <1>3, RowStep
<1>5. Clean(b)'
  <2>1. None({"d1"})' => bc[b].status = "sending"
    BY <1>1, <1>3 DEF About, Clean, None
  <2>2. None({"d1"})' => bc'[b].status = "draft"
    BY <1>1, <1>3, <2>1, RestoredFacts
  <2> QED
    BY <1>1, <1>2, <1>3, <1>4, <2>2, CleanStops
<1> QED
  BY <1>1, <1>2, <1>3, <1>4, <1>5, QuietEnds, QuietKeeps

LEMMA FinishKeeps ==
    ASSUME SenderInv, NEW s \in Sends, NEW b \in Broadcasts, Finish(s, b)
    PROVE  SenderInv'
<1>1. /\ TypeOK /\ About(b) /\ send[s] \in CallType /\ CallOK(send[s]) /\ send[s].b = {b}
      /\ send[s].stage = "finish" /\ Works(send[s]) /\ Working(s, b)
  BY AtFacts DEF Finish, Stages
<1> DEFINE n == [Unsent EXCEPT !.stage = "done"]
<1>2. n \in CallType /\ CallOK(n) /\ n.b = {} /\ n.good = {} /\ n.sent = {} /\ n.b # {b}
  BY <1>1, EndFacts DEF Unsent
<1>3. /\ send' = [send EXCEPT ![s] = n] /\ bc' = Finished(s, b) /\ FaultsGrow
      /\ UNCHANGED <<today, rec, making, early, charged, used, got, posted, faults>>
  BY <1>1, FaultsAre DEF Finish, Ends
<1> HIDE DEF n
<1>4. StepOf(s, b, n)
  BY <1>1, <1>2, <1>3, RowStep
<1>5. Clean(b)'
  <2>1. None({"d1"})' => bc[b].status = "sending"
    BY <1>1, <1>3 DEF About, Clean, None
  <2>2. None({"d1"})' => bc'[b].status \in Ended /\ bc'[b].counts = send[s].counts
    BY <1>1, <1>3, <2>1, FinishedFacts
  <2> QED
    BY <1>1, <1>2, <1>3, <1>4, <2>2, CleanStops
<1> QED
  BY <1>1, <1>2, <1>3, <1>4, <1>5, QuietEnds, QuietKeeps

LEMMA CatchThrowsKeeps ==
    ASSUME SenderInv, NEW s \in Sends, NEW b \in Broadcasts, CatchThrows(s, b)
    PROVE  SenderInv'
<1>1. /\ TypeOK /\ About(b) /\ send[s] \in CallType /\ CallOK(send[s]) /\ send[s].b = {b}
      /\ Works(send[s]) /\ Working(s, b)
  <2>1. \E st \in {"catch", "count", "finish"} : At(s, b, st)
    BY DEF CatchThrows
  <2> QED
    BY <2>1, AtFacts DEF Stages
<1> DEFINE n == [Unsent EXCEPT !.stage = "done"]
<1>2. n \in CallType /\ CallOK(n) /\ n.b = {} /\ n.good = {} /\ n.sent = {} /\ n.b # {b}
  BY <1>1, EndFacts DEF Unsent
<1>3. /\ send' = [send EXCEPT ![s] = n]
      /\ UNCHANGED <<today, making, early, charged, used, got, posted>>
  BY DEF CatchThrows, Ends
<1>4. FaultsGrow /\ Clean(b)'
  BY <1>1, OutageIsUnclean DEF CatchThrows
<1> HIDE DEF n
<1>5. StepOf(s, b, n)
  <2>1. \/ bc' = bc /\ rec' = rec
        \/ bc' = bc /\ rec' = Marked(b, With(b, "pending"), "failed")
        \/ bc' = Finished(s, b) /\ rec' = rec
    BY DEF CatchThrows
  <2>2. CASE bc' = bc /\ rec' = rec
    BY <1>1, <1>2, <1>3, <1>4, <2>2, ReadStep
  <2>3. CASE bc' = bc /\ rec' = Marked(b, With(b, "pending"), "failed")
    BY <1>1, <1>2, <1>3, <1>4, <2>3, MarkStep
  <2>4. CASE bc' = Finished(s, b) /\ rec' = rec
    BY <1>1, <1>2, <1>3, <1>4, <2>4, RowStep
  <2> QED
    BY <2>1, <2>2, <2>3, <2>4
<1> QED
  BY <1>1, <1>2, <1>3, <1>4, <1>5, QuietEnds, QuietKeeps

LEMMA TryThrowsKeeps ==
    ASSUME SenderInv, NEW s \in Sends, NEW b \in Broadcasts, TryThrows(s, b)
    PROVE  SenderInv'
<1>1. /\ TypeOK /\ About(b) /\ send[s] \in CallType /\ CallOK(send[s]) /\ send[s].b = {b}
      /\ ~send[s].caught /\ Works(send[s]) /\ Working(s, b)
      /\ send[s].b \in {{x} : x \in Broadcasts}
  <2>1. ~send[s].caught /\ \E st \in {"load", "restore", "skip", "remark"} : At(s, b, st)
    BY DEF TryThrows
  <2> QED
    BY <2>1, AtFacts DEF Stages
<1> DEFINE n == Only(send[s], "catch")
<1>2. n \in CallType /\ CallOK(n) /\ n.b = {b} /\ n.stage = "catch" /\ n.good = {} /\ n.sent = {}
  BY <1>1, LateFacts
<1>3. /\ send' = [send EXCEPT ![s] = n]
      /\ UNCHANGED <<today, making, early, charged, used, got, posted>>
  BY DEF TryThrows
<1>4. FaultsGrow /\ Clean(b)'
  BY <1>1, OutageIsUnclean DEF TryThrows
<1> HIDE DEF n
<1>5. Works(n) /\ ~Sending(n)
  BY <1>2 DEF Works, Sending
<1>6. StepOf(s, b, n)
  <2>1. \/ bc' = bc /\ rec' = rec
        \/ bc' = Restored(b) /\ send[s].stage = "restore" /\ rec' = rec
        \/ bc' = bc /\ \E C \in SUBSET send[s].skip : rec' = Marked(b, C, "skipped")
        \/ bc' = bc /\ \E C : rec' = Marked(b, C, "failed")
    BY DEF TryThrows, At
  <2>2. CASE bc' = bc /\ rec' = rec
    BY <1>1, <1>2, <1>3, <1>4, <1>5, <2>2, ReadStep
  <2>3. CASE rec' = rec /\ bc' = Restored(b) /\ send[s].stage = "restore"
    BY <1>1, <1>2, <1>3, <1>4, <1>5, <2>3, RowStep
  <2>4. ASSUME bc' = bc, NEW C \in SUBSET send[s].skip, rec' = Marked(b, C, "skipped")
        PROVE  StepOf(s, b, n)
    BY <1>1, <1>2, <1>3, <1>4, <1>5, <2>4, MarkStep
  <2>5. ASSUME bc' = bc, NEW C, rec' = Marked(b, C, "failed")
        PROVE  StepOf(s, b, n)
    BY <1>1, <1>2, <1>3, <1>4, <1>5, <2>5, MarkStep
  <2> QED
    BY <2>1, <2>2, <2>3, <2>4, <2>5
<1> QED
  BY <1>1, <1>2, <1>3, <1>4, <1>5, <1>6, QuietEnds, QuietKeeps

\* Without an outage of D1 marking takes the recipients off the call's list.
LEMMA MarkGoesOn ==
    ASSUME SenderInv, NEW s \in Sends, NEW b \in Broadcasts, NEW n, StepOf(s, b, n),
           n.b = {b}, n.stage \in {"cast", "marksent", "post"}, ~n.caught,
           UNCHANGED <<bc, got, faults>>,
           send[s].stage \in {"skip", "mark", "marksent"},
           NEW S, NEW st \in {"sent", "failed", "skipped"}, rec' = Marked(b, S, st),
           Todo(send[s]) = Todo(n) \cup S, Todo(n) \cap S = {},
           st = "failed" => (None({"line"}) => \A c \in S : got[b][c] = 0)
    PROVE  Clean(b)'
<1> SUFFICES ASSUME None({"d1"})'
             PROVE  /\ \A c \in Todo(n) : rec'[b][c] = "pending"
                    /\ b \notin early => With(b, "pending")' \subseteq Todo(n)
                    /\ None({"line"})' =>
                         \A c \in Customers : rec'[b][c] = "failed" => got'[b][c] = 0
  BY CleanGoesOn
<1>1. None({"d1"}) /\ Clean(b) /\ TypeOK /\ Working(s, b) /\ (None({"line"})' <=> None({"line"}))
  BY DEF None, SenderInv, About, StepOf
<1>2. \A c \in Customers : rec'[b][c] = IF c \in S /\ rec[b][c] # "none" THEN st ELSE rec[b][c]
  BY <1>1, MarkedFacts
<1>3. /\ \A c \in Todo(send[s]) : rec[b][c] = "pending"
      /\ b \notin early => With(b, "pending") \subseteq Todo(send[s])
      /\ None({"line"}) => \A c \in Customers : rec[b][c] = "failed" => got[b][c] = 0
  BY <1>1 DEF Clean
<1>4. Todo(n) \subseteq Customers
  BY DEF Todo, Uncast, StepOf, CallType
<1>5. \A c \in Todo(n) : rec'[b][c] = "pending"
  BY <1>2, <1>3, <1>4
<1>6. b \notin early => With(b, "pending")' \subseteq Todo(n)
  BY <1>2, <1>3 DEF With
<1>7. None({"line"})' => \A c \in Customers : rec'[b][c] = "failed" => got'[b][c] = 0
  BY <1>1, <1>2, <1>3
<1> QED
  BY <1>5, <1>6, <1>7

LEMMA SkipKeeps ==
    ASSUME SenderInv, NEW s \in Sends, NEW b \in Broadcasts, Skip(s, b)
    PROVE  SenderInv'
<1>1. /\ TypeOK /\ About(b) /\ send[s] \in CallType /\ CallOK(send[s]) /\ send[s].b = {b}
      /\ send[s].stage = "skip" /\ ~send[s].caught /\ Works(send[s]) /\ Working(s, b)
      /\ send[s].b \in {{x} : x \in Broadcasts}
  BY AtFacts DEF Skip, Stages
<1> DEFINE n == NextGroup(Send(send[s]))
<1>2. /\ n \in CallType /\ CallOK(n) /\ n.b = {b} /\ ~n.caught /\ n.stage \in {"cast", "post"}
      /\ Uncast(n) = send[s].line /\ n.good = {} /\ n.bad = {} /\ n.sent = {}
  BY <1>1, SendFacts
<1>3. /\ send' = [send EXCEPT ![s] = n] /\ rec' = Marked(b, send[s].skip, "skipped") /\ FaultsGrow
      /\ UNCHANGED <<today, bc, making, early, charged, used, got, posted, faults>>
  BY <1>1, FaultsAre DEF Skip
<1> HIDE DEF n
<1>4. Works(n) /\ Sending(send[s]) /\ Uncast(send[s]) = send[s].line
      /\ Todo(send[s]) = send[s].line \cup send[s].skip
  BY <1>1, <1>2 DEF Works, Sending, Uncast, Todo
<1>5. StepOf(s, b, n)
  BY <1>1, <1>2, <1>3, <1>4, MarkStep
<1>6. Quiet(s, b, n)
  BY <1>1, <1>2, <1>3, <1>4, <1>5, TypeFacts DEF Quiet, Before
<1>7. Todo(n) = send[s].line
  BY <1>2 DEF Todo, Uncast, CallOK
<1>8. send[s].line \cap send[s].skip = {}
  BY <1>1 DEF CallOK
<1>9. Clean(b)'
  BY <1>1, <1>2, <1>3, <1>4, <1>5, <1>7, <1>8, MarkGoesOn
<1> QED
  BY <1>6, <1>9, QuietKeeps

LEMMA MarkFailedKeeps ==
    ASSUME SenderInv, NEW s \in Sends, NEW b \in Broadcasts, MarkFailed(s, b)
    PROVE  SenderInv'
<1>1. /\ TypeOK /\ About(b) /\ send[s] \in CallType /\ CallOK(send[s]) /\ send[s].b = {b}
      /\ send[s].stage = "mark" /\ ~send[s].caught /\ Works(send[s]) /\ Working(s, b)
      /\ send[s].b \in {{x} : x \in Broadcasts}
  BY AtFacts DEF MarkFailed, Stages
<1> DEFINE r == send[s]
           n == IF r.good = {} THEN NextGroup(r) ELSE [r EXCEPT !.stage = "marksent"]
<1>2. /\ send' = [send EXCEPT ![s] = n] /\ rec' = Marked(b, r.bad, "failed") /\ FaultsGrow
      /\ UNCHANGED <<today, bc, making, early, charged, used, got, posted, faults>>
  BY <1>1, FaultsAre DEF MarkFailed
<1>3. r.cast = {} /\ r.good \cap r.bad = {} /\ \A c \in r.good \cup r.bad : Route[c] \notin r.left
  BY <1>1 DEF CallOK
<1>4. Uncast(r) = {c \in r.line : Route[c] \in r.left} /\ Todo(r) = Uncast(r) \cup r.good \cup r.bad
      /\ Uncast(r) \cap r.bad = {}
  BY <1>1, <1>3 DEF Uncast, Todo
<1>5. /\ n \in CallType /\ CallOK(n) /\ n.b = {b} /\ ~n.caught
      /\ n.stage \in {"cast", "post", "marksent"} /\ n.sent = r.sent /\ n.good = r.good
      /\ n.bad \subseteq r.bad /\ Uncast(n) = Uncast(r) /\ Todo(n) = Uncast(r) \cup r.good
  <2>1. CASE r.good = {}
    <3>1. /\ n \in CallType /\ CallOK(n) /\ n.b = {b} /\ ~n.caught /\ n.stage \in {"cast", "post"}
          /\ Uncast(n) = Uncast(r) /\ n.good = {} /\ n.bad = {} /\ n.sent = r.sent
      BY <1>1, <1>4, <2>1, GroupFacts
    <3> HIDE DEF n
    <3>2. Todo(n) = Uncast(n)
      BY <3>1 DEF Todo, Uncast, CallOK
    <3> QED
      BY <2>1, <3>1, <3>2
  <2>2. CASE r.good # {}
    <3>1. "marksent" \in Stages
      BY DEF Stages
    <3>2. /\ n \in CallType /\ CallOK(n) /\ n.b = {b} /\ ~n.caught /\ n.stage = "marksent"
          /\ Uncast(n) = Uncast(r) /\ n.good = r.good /\ n.bad = r.bad /\ n.sent = r.sent
      BY <1>1, <2>2, <3>1, StageFacts
    <3> HIDE DEF n
    <3>3. Todo(n) = Uncast(r) \cup r.good
      BY <3>2 DEF Todo
    <3> QED
      BY <3>2, <3>3
  <2> QED
    BY <2>1, <2>2
<1> HIDE DEF n
<1>6. Works(n) /\ Sending(r) /\ Live(s, b)
  BY <1>1, <1>5 DEF Works, Sending, Live
<1>7. StepOf(s, b, n)
  BY <1>1, <1>2, <1>5, <1>6, MarkStep
<1>8. Quiet(s, b, n)
  BY <1>1, <1>2, <1>5, <1>7, TypeFacts DEF Quiet, Before
<1>9. None({"line"}) => \A c \in r.bad : got[b][c] = 0
  BY <1>1, <1>6 DEF About, Reached
<1>10. Clean(b)'
  BY <1>1, <1>2, <1>3, <1>4, <1>5, <1>7, <1>9, MarkGoesOn
<1> QED
  BY <1>8, <1>10, QuietKeeps

LEMMA MarkSentKeeps ==
    ASSUME SenderInv, NEW s \in Sends, NEW b \in Broadcasts, MarkSent(s, b)
    PROVE  SenderInv'
<1>1. /\ TypeOK /\ About(b) /\ send[s] \in CallType /\ CallOK(send[s]) /\ send[s].b = {b}
      /\ send[s].stage = "marksent" /\ ~send[s].caught /\ Works(send[s]) /\ Working(s, b)
      /\ send[s].b \in {{x} : x \in Broadcasts}
  BY AtFacts DEF MarkSent, Stages
<1> DEFINE o == [send[s] EXCEPT !.sent = send[s].sent \cup send[s].good]
           n == NextGroup(o)
<1>2. /\ send' = [send EXCEPT ![s] = n] /\ rec' = Marked(b, send[s].good, "sent") /\ FaultsGrow
      /\ UNCHANGED <<today, bc, making, early, charged, used, got, posted, faults>>
  BY <1>1, FaultsAre DEF MarkSent
<1>3. /\ o \in CallType /\ o.b = {b} /\ o.stage = "marksent" /\ ~o.caught
      /\ o.empty = send[s].empty /\ o.day = send[s].day
      /\ o.line = send[s].line /\ o.skip = send[s].skip /\ o.left = send[s].left
      /\ o.cast = send[s].cast /\ o.bad = send[s].bad /\ o.good = send[s].good
      /\ o.sent = send[s].sent \cup send[s].good
  BY <1>1 DEF CallType
<1> HIDE DEF o
<1>4. CallOK(o)
  BY <1>1, <1>3 DEF CallOK
<1>5. /\ Uncast(send[s]) = {c \in send[s].line : Route[c] \in send[s].left}
      /\ Todo(send[s]) = Uncast(send[s]) \cup send[s].good
      /\ Uncast(send[s]) \cap send[s].good = {}
  BY <1>1 DEF Uncast, Todo, CallOK
<1>6. /\ n \in CallType /\ CallOK(n) /\ n.b = {b} /\ ~n.caught /\ n.stage \in {"cast", "post"}
      /\ Uncast(n) = Uncast(send[s]) /\ n.good = {} /\ n.bad = {}
      /\ n.sent = send[s].sent \cup send[s].good
  BY <1>1, <1>3, <1>4, <1>5, GroupFacts
<1> HIDE DEF n
<1>7. Todo(n) = Uncast(n) /\ Works(n) /\ Sending(send[s])
  BY <1>1, <1>6 DEF Todo, Uncast, CallOK, Works, Sending
<1>8. StepOf(s, b, n)
  BY <1>1, <1>2, <1>6, <1>7, MarkStep
<1>9. Quiet(s, b, n)
  BY <1>1, <1>2, <1>6, <1>8, TypeFacts DEF Quiet, Before
<1>10. Clean(b)'
  BY <1>1, <1>2, <1>5, <1>6, <1>7, <1>8, MarkGoesOn
<1> QED
  BY <1>9, <1>10, QuietKeeps

LEMMA MarkThrowsKeeps ==
    ASSUME SenderInv, NEW s \in Sends, NEW b \in Broadcasts, MarkThrows(s, b)
    PROVE  SenderInv'
<1>1. /\ TypeOK /\ About(b) /\ send[s] \in CallType /\ CallOK(send[s]) /\ send[s].b = {b}
      /\ send[s].stage \in {"mark", "marksent"} /\ ~send[s].caught /\ Works(send[s]) /\ Working(s, b)
      /\ send[s].b \in {{x} : x \in Broadcasts}
  <2>1. \E st \in {"mark", "marksent"} : At(s, b, st)
    BY DEF MarkThrows
  <2> QED
    BY <2>1, AtFacts DEF Stages
<1> DEFINE n == [send[s] EXCEPT !.stage = "remark"]
<1>2. /\ send' = [send EXCEPT ![s] = n]
      /\ UNCHANGED <<today, bc, making, early, charged, used, got, posted>>
  BY <1>1, TypeFacts DEF MarkThrows, To
<1>3. FaultsGrow /\ Clean(b)'
  BY <1>1, OutageIsUnclean DEF MarkThrows
<1>4. /\ n \in CallType /\ CallOK(n) /\ n.b = {b} /\ ~n.caught /\ n.stage = "remark"
      /\ Uncast(n) = Uncast(send[s]) /\ n.good = send[s].good /\ n.bad = send[s].bad
      /\ n.sent = send[s].sent
  <2>1. "remark" \in Stages
    BY DEF Stages
  <2> QED
    BY <1>1, <2>1, StageFacts
<1> HIDE DEF n
<1>5. Works(n) /\ Sending(send[s])
  BY <1>1, <1>4 DEF Works, Sending
<1>6. StepOf(s, b, n)
  <2>1. \/ \E C : rec' = Marked(b, C, "failed")
        \/ \E C \in SUBSET send[s].good : rec' = Marked(b, C, "sent")
    BY DEF MarkThrows
  <2>2. ASSUME NEW C, rec' = Marked(b, C, "failed") PROVE StepOf(s, b, n)
    BY <1>1, <1>2, <1>3, <1>4, <1>5, <2>2, MarkStep
  <2>3. ASSUME NEW C \in SUBSET send[s].good, rec' = Marked(b, C, "sent") PROVE StepOf(s, b, n)
    BY <1>1, <1>2, <1>3, <1>4, <1>5, <2>3, MarkStep
  <2> QED
    BY <2>1, <2>2, <2>3
<1>7. Quiet(s, b, n)
  BY <1>1, <1>2, <1>4, <1>6, TypeFacts DEF Quiet, Before
<1> QED
  BY <1>3, <1>7, QuietKeeps

LEMMA RemarkKeeps ==
    ASSUME SenderInv, NEW s \in Sends, NEW b \in Broadcasts, Remark(s, b)
    PROVE  SenderInv'
<1>1. /\ TypeOK /\ About(b) /\ send[s] \in CallType /\ CallOK(send[s]) /\ send[s].b = {b}
      /\ send[s].stage = "remark" /\ ~send[s].caught /\ Works(send[s]) /\ Working(s, b)
      /\ send[s].b \in {{x} : x \in Broadcasts}
  BY AtFacts DEF Remark, Stages
<1> DEFINE n == NextGroup(send[s])
<1>2. /\ send' = [send EXCEPT ![s] = n] /\ FaultsGrow
      /\ rec' = Marked(b, send[s].good \cup send[s].bad, "failed")
      /\ UNCHANGED <<today, bc, making, early, charged, used, got, posted, faults>>
  BY <1>1, FaultsAre DEF Remark
<1>3. /\ n \in CallType /\ CallOK(n) /\ n.b = {b} /\ ~n.caught /\ n.stage \in {"cast", "post"}
      /\ Uncast(n) = {c \in send[s].line : Route[c] \in send[s].left}
      /\ n.good = {} /\ n.bad = {} /\ n.sent = send[s].sent
  BY <1>1, GroupFacts
<1> HIDE DEF n
<1>4. Works(n) /\ Sending(send[s]) /\ Uncast(n) \subseteq Uncast(send[s])
  BY <1>1, <1>3 DEF Works, Sending, Uncast
<1>5. StepOf(s, b, n)
  BY <1>1, <1>2, <1>3, <1>4, MarkStep
<1>6. Quiet(s, b, n)
  BY <1>1, <1>2, <1>3, <1>4, <1>5, TypeFacts DEF Quiet, Before
<1>7. Clean(b)'
  <2>1. ~None({"d1"})
    BY <1>1 DEF About, Clean
  <2> QED
    BY <1>2, <2>1 DEF Clean, None
<1> QED
  BY <1>6, <1>7, QuietKeeps

LEMMA PostKeeps ==
    ASSUME SenderInv, NEW s \in Sends, NEW b \in Broadcasts, Post(s, b)
    PROVE  SenderInv'
<1>1. /\ TypeOK /\ About(b) /\ send[s] \in CallType /\ CallOK(send[s]) /\ send[s].b = {b}
      /\ send[s].stage = "post" /\ ~send[s].caught /\ Works(send[s]) /\ Working(s, b)
      /\ send[s].b \in {{x} : x \in Broadcasts}
  BY AtFacts DEF Post, Stages
<1> DEFINE n == Only(send[s], "count")
<1>2. PICK C \in SUBSET send[s].sent :
        /\ faults' = faults \/ Fault("d1")
        /\ posted' = [posted EXCEPT ![b] = @ \cup C]
  BY DEF Post
<1>3. /\ send' = [send EXCEPT ![s] = n] /\ FaultsGrow
      /\ UNCHANGED <<today, bc, rec, making, early, charged, used, got>>
  <2>1. FaultsGrow
    BY <1>1, <1>2, FaultsAre DEF FaultKinds
  <2> QED
    BY <2>1 DEF Post
<1>4. /\ n \in CallType /\ CallOK(n) /\ n.b = {b} /\ ~n.caught /\ n.stage = "count"
      /\ Uncast(n) = {} /\ Todo(n) = {} /\ n.good = {} /\ n.bad = {} /\ n.sent = {}
  BY <1>1, LateFacts
<1> HIDE DEF n
<1>5. Works(n) /\ Sending(send[s])
  BY <1>1, <1>4 DEF Works, Sending
<1>6. StepOf(s, b, n)
  BY <1>1, <1>3, <1>4, <1>5, ReadStep
<1>7. Quiet(s, b, n)
  <2>1. C \subseteq Customers /\ posted \in [Broadcasts -> SUBSET Customers]
    BY <1>1, TypeFacts DEF CallType
  <2>2. /\ posted' \in [Broadcasts -> SUBSET Customers] /\ posted'[b] = posted[b] \cup C
        /\ \A x \in Broadcasts : x # b => posted'[x] = posted[x]
    BY <1>2, <2>1
  <2> QED
    BY <1>3, <1>4, <1>6, <2>2 DEF Quiet, Before
<1>8. Clean(b)'
  <2>1. With(b, "pending")' = With(b, "pending") /\ Todo(send[s]) = {}
    BY <1>1, <1>3 DEF With, Todo
  <2>2. None({"d1"})' => None({"d1"})
    BY <1>3 DEF None, FaultsGrow
  <2>3. None({"line"})' => None({"line"})
    BY <1>3 DEF None, FaultsGrow
  <2>4. None({"d1"}) =>
          /\ b \notin early => With(b, "pending") \subseteq Todo(send[s])
          /\ None({"line"}) => \A c \in Customers : rec[b][c] = "failed" => got[b][c] = 0
    BY <1>1 DEF About, Clean
  <2> QED
    BY <1>3, <1>4, <1>6, <2>1, <2>2, <2>3, <2>4, CleanGoesOn
<1> QED
  BY <1>7, <1>8, QuietKeeps

LEMMA CountKeeps ==
    ASSUME SenderInv, NEW s \in Sends, NEW b \in Broadcasts, Count(s, b)
    PROVE  SenderInv'
<1>1. /\ TypeOK /\ About(b) /\ send[s] \in CallType /\ CallOK(send[s]) /\ send[s].b = {b}
      /\ send[s].stage = "count" /\ Works(send[s]) /\ Working(s, b)
      /\ Counts(b) \in CountType
  BY AtFacts, CountsType DEF Count, Stages, About
<1> DEFINE n == [send[s] EXCEPT !.stage = "finish", !.counts = Counts(b)]
<1>2. /\ send' = [send EXCEPT ![s] = n] /\ FaultsGrow
      /\ UNCHANGED <<today, bc, rec, making, early, charged, used, got, posted, faults>>
  BY <1>1, TypeFacts, FaultsAre DEF Count
<1>3. /\ n \in CallType /\ n.b = {b} /\ n.caught = send[s].caught /\ n.empty = send[s].empty /\ n.stage = "finish"
      /\ n.day = send[s].day /\ n.line = send[s].line /\ n.skip = send[s].skip
      /\ n.left = send[s].left /\ n.cast = send[s].cast /\ n.bad = send[s].bad
      /\ n.good = send[s].good /\ n.sent = send[s].sent /\ n.counts = Counts(b)
  BY <1>1 DEF CallType, Stages
<1> HIDE DEF n
<1>4. CallOK(n)
  BY <1>1, <1>3 DEF CallOK
<1>5. Works(n) /\ (Sending(n) => Sending(send[s])) /\ Uncast(n) = Uncast(send[s])
      /\ Todo(n) = {} /\ Todo(send[s]) = {}
  BY <1>1, <1>3 DEF Works, Sending, Uncast, Todo
<1>6. StepOf(s, b, n)
  BY <1>1, <1>2, <1>3, <1>4, <1>5, ReadStep
<1>7. Quiet(s, b, n)
  BY <1>1, <1>2, <1>3, <1>5, <1>6, TypeFacts DEF Quiet, Before
<1>8. Clean(b)'
  <2>1. With(b, "pending")' = With(b, "pending") /\ Counts(b)' = Counts(b)
    BY <1>2 DEF With, Counts
  <2>2. None({"d1"})' => None({"d1"})
    BY <1>2 DEF None
  <2>3. None({"line"})' => None({"line"})
    BY <1>2 DEF None
  <2>4. None({"d1"}) =>
          /\ b \notin early => With(b, "pending") \subseteq Todo(send[s])
          /\ send[s].caught => \A c \in Customers : got[b][c] = 0
          /\ None({"line"}) => \A c \in Customers : rec[b][c] = "failed" => got[b][c] = 0
    BY <1>1 DEF About, Clean
  <2> QED
    BY <1>2, <1>3, <1>5, <1>6, <2>1, <2>2, <2>3, <2>4, CleanGoesOn
<1> QED
  BY <1>7, <1>8, QuietKeeps

LEMMA CatchKeeps ==
    ASSUME SenderInv, NEW s \in Sends, NEW b \in Broadcasts, Catch(s, b)
    PROVE  SenderInv'
<1>1. /\ TypeOK /\ About(b) /\ send[s] \in CallType /\ CallOK(send[s]) /\ send[s].b = {b}
      /\ send[s].stage = "catch" /\ Works(send[s]) /\ Working(s, b)
  BY AtFacts DEF Catch, Stages
<1> DEFINE n == [send[s] EXCEPT !.stage = "count", !.caught = TRUE]
           S == With(b, "pending")
<1>2. /\ send' = [send EXCEPT ![s] = n] /\ FaultsGrow /\ rec' = Marked(b, S, "failed")
      /\ UNCHANGED <<today, bc, making, early, charged, used, got, posted, faults>>
  BY <1>1, TypeFacts, FaultsAre DEF Catch
<1>3. /\ n \in CallType /\ n.b = {b} /\ n.caught /\ n.empty = send[s].empty /\ n.stage = "count"
      /\ n.day = send[s].day /\ n.line = send[s].line /\ n.skip = send[s].skip
      /\ n.left = send[s].left /\ n.cast = send[s].cast /\ n.bad = send[s].bad
      /\ n.good = send[s].good /\ n.sent = send[s].sent
  BY <1>1 DEF CallType, Stages
<1> HIDE DEF n
<1>4. CallOK(n)
  BY <1>1, <1>3 DEF CallOK
<1>5. Works(n) /\ ~Sending(n) /\ Todo(n) = {}
  BY <1>3 DEF Works, Sending, Todo
<1>6. StepOf(s, b, n)
  BY <1>1, <1>2, <1>3, <1>4, <1>5, MarkStep
<1>7. Quiet(s, b, n)
  BY <1>1, <1>2, <1>3, <1>5, <1>6, TypeFacts DEF Quiet
<1>8. Clean(b)'
  <2>1. \A c \in Customers : rec'[b][c] = IF c \in S /\ rec[b][c] # "none" THEN "failed" ELSE rec[b][c]
    BY <1>1, <1>2, MarkedFacts
  <2>2. With(b, "pending")' = {}
    BY <2>1 DEF With
  <2>3. None({"d1"})' => None({"d1"})
    BY <1>2 DEF None
  <2>4. None({"d1"}) => \A c \in Customers : got[b][c] = 0
    BY <1>1 DEF About, Clean
  <2> QED
    BY <1>2, <1>3, <1>5, <1>6, <2>2, <2>3, <2>4, CleanGoesOn
<1> QED
  BY <1>7, <1>8, QuietKeeps

\* The isolate of a call that works dies.
LEMMA WorkerDiesKeeps ==
    ASSUME SenderInv, NEW s \in Sends, NEW b \in Broadcasts, Working(s, b), Dies(s)
    PROVE  SenderInv'
<1>1. TypeOK /\ About(b) /\ send[s] \in CallType /\ CallOK(send[s])
  BY TypeFacts DEF SenderInv
<1> DEFINE n == [Unsent EXCEPT !.stage = "done"]
<1>2. n \in CallType /\ CallOK(n) /\ n.b = {} /\ n.good = {} /\ n.sent = {} /\ n.b # {b}
  BY <1>1, EndFacts DEF Unsent
<1>3. /\ send' = [send EXCEPT ![s] = n] /\ FaultsGrow /\ "crash" \in faults'.kinds
      /\ UNCHANGED <<today, bc, rec, making, early, charged, used, got, posted>>
  BY <1>1, FaultsAre, FaultFacts DEF Dies, Ends, FaultKinds
<1> HIDE DEF n
<1>4. StepOf(s, b, n)
  BY <1>1, <1>2, <1>3, ReadStep
<1>5. Clean(b)'
  <2>1. ~None({"crash"})'
    BY <1>3 DEF None
  <2> QED
    BY <1>2, <1>3, <1>4, <2>1, CleanStops
<1> QED
  BY <1>1, <1>2, <1>3, <1>4, <1>5, QuietEnds, QuietKeeps

\* Of a call's broadcast, a call other than it sees nothing of the step.
LEMMA OthersKeep ==
    ASSUME SenderInv, NEW s \in Sends, NEW b \in Broadcasts, NEW n, StepOf(s, b, n),
           got' \in [Broadcasts -> [Customers -> Nat]], posted' \in [Broadcasts -> SUBSET Customers],
           \A x \in Broadcasts : x # b => got'[x] = got[x] /\ posted'[x] = posted[x]
    PROVE  /\ TypeOK'
           /\ \A t \in Sends : CallOK(send[t])'
           /\ \A x \in Broadcasts : x # b => About(x)'
<1>0. TypeOK /\ CallOK(send[s]) /\ send \in [Sends -> CallType]
  BY TypeFacts DEF SenderInv
<1>1. TypeOK'
  <2>1. send' \in [Sends -> CallType]
    BY <1>0 DEF StepOf
  <2> QED
    BY <1>0, <2>1, TypeFacts DEF TypeOK, CallType, BcType, RecType, StepOf
<1>2. send'[s] = n /\ \A t \in Sends : t # s => send'[t] = send[t]
  BY <1>0 DEF StepOf
<1>3. ASSUME NEW t \in Sends PROVE CallOK(send[t])'
  <2>1. CallOK(send'[t])
    BY <1>2 DEF SenderInv, StepOf
  <2> QED
    BY <2>1 DEF CallOK, Void, StepOf
<1>4. ASSUME NEW x \in Broadcasts, x # b PROVE About(x)'
  <2>1. send[s].b = {b} /\ (n.b = {} \/ n.b = {b})
    BY DEF StepOf, Working
  <2>2. \A t \in Sends : send[t].b = {x} \/ send'[t].b = {x} => send'[t] = send[t]
    <3> SUFFICES ASSUME NEW t \in Sends, send[t].b = {x} \/ send'[t].b = {x}
                 PROVE  t # s
      BY <1>2
    <3> QED
      BY <1>2, <1>4, <2>1
  <2>3. today <= today'
    BY <1>0, BroadcastAssumption DEF TypeOK, StepOf
  <2>4. Same(x)
    BY <1>4, <2>2, <2>3 DEF Same, StepOf
  <2> QED
    BY <1>0, <1>1, <2>4, SameKeeps DEF SenderInv
<1> QED
  BY <1>1, <1>3, <1>4

LEMMA MulticastKeeps ==
    ASSUME SenderInv, NEW s \in Sends, NEW b \in Broadcasts, NEW ok \in BOOLEAN, NEW lost \in 0 .. 1,
           Multicast(s, b, ok, lost)
    PROVE  SenderInv'
<1>1. /\ TypeOK /\ About(b) /\ send[s] \in CallType /\ CallOK(send[s]) /\ send[s].b = {b}
      /\ send[s].stage = "cast" /\ ~send[s].caught /\ Works(send[s]) /\ Working(s, b)
      /\ send[s].b \in {{x} : x \in Broadcasts}
  BY AtFacts DEF Multicast, Stages
<1> DEFINE r == send[s]
           c == First(r.cast)
           copies == IF ok THEN lost + 1 ELSE lost
           o == [r EXCEPT !.cast = r.cast \ {c},
                          !.good = IF ok THEN r.good \cup {c} ELSE r.good,
                          !.bad = IF ok THEN r.bad ELSE r.bad \cup {c}]
           n == CastDone(o)
<1>2. /\ got' = [got EXCEPT ![b][c] = @ + copies]
      /\ used' = [used EXCEPT ![Route[c]] = @ + copies]
      /\ send' = [send EXCEPT ![s] = n]
      /\ UNCHANGED <<today, bc, rec, making, early, charged, posted>>
      /\ (lost = 0 /\ faults' = faults) \/ (lost = 1 /\ Fault("line"))
  BY DEF Multicast
<1>3. r.cast # {}
  BY <1>1 DEF CallOK
<1>4. c \in r.cast
  BY <1>3, FirstIsIn
<1> HIDE DEF c
<1>a. /\ o \in CallType /\ o.b = r.b /\ o.stage = "cast" /\ o.caught = r.caught /\ o.empty = r.empty /\ o.day = r.day
      /\ o.line = r.line /\ o.skip = r.skip /\ o.left = r.left /\ o.cast = r.cast \ {c}
      /\ o.good = (IF ok THEN r.good \cup {c} ELSE r.good)
      /\ o.bad = (IF ok THEN r.bad ELSE r.bad \cup {c}) /\ o.sent = r.sent
  BY <1>1, <1>4 DEF CallType
<1> HIDE DEF o
<1>b. \/ o.good = r.good \cup {c} /\ o.bad = r.bad
      \/ o.good = r.good /\ o.bad = r.bad \cup {c}
  BY <1>a
<1>c. /\ n \in CallType /\ CallOK(n)
      /\ n.stage \in {"cast", "mark", "marksent"}
      /\ Uncast(n) = Uncast(r) \ {c}
  BY <1>1, <1>4, <1>a, <1>b, CastFacts, ZenonT(30)
<1>d. /\ n.b = {b} /\ ~n.caught /\ n.good = o.good /\ n.bad = o.bad /\ n.sent = r.sent
      /\ n.stage = "marksent" => n.bad = {}
  BY <1>1, <1>a DEF CastDone, CallType
<1> HIDE DEF n
<1>5. /\ n \in CallType /\ CallOK(n) /\ n.b = {b} /\ ~n.caught
      /\ n.stage \in {"cast", "mark", "marksent"}
      /\ n.stage = "marksent" => n.bad = {}
      /\ Uncast(n) = Uncast(r) \ {c}
      /\ n.good = (IF ok THEN r.good \cup {c} ELSE r.good)
      /\ n.bad = (IF ok THEN r.bad ELSE r.bad \cup {c})
      /\ n.sent = r.sent
  BY <1>a, <1>c, <1>d
<1>6. /\ copies \in 0 .. 2 /\ (ok => copies > 0)
      /\ lost = 0 => copies <= 1 /\ (~ok => copies = 0)
  OBVIOUS
<1>7. c \in Customers /\ c \in r.line /\ Route[c] \in Channels /\ c \notin r.bad /\ c \in Uncast(r)
      /\ Uncast(r) \subseteq Customers
  BY <1>1, <1>4 DEF CallOK, CallType, Uncast
<1>8. FaultsGrow /\ (None({"line"})' => lost = 0)
  <2>1. FaultsGrow
    BY <1>1, <1>2, FaultsAre DEF FaultKinds
  <2>2. CASE lost = 1 /\ Fault("line")
    BY <1>1, <2>1, <2>2, FaultFacts DEF None
  <2> QED
    BY <1>2, <2>1, <2>2
<1> HIDE DEF copies
<1>9. /\ got' \in [Broadcasts -> [Customers -> Nat]]
      /\ \A x \in Broadcasts : x # b => got'[x] = got[x]
      /\ \A x \in Customers : got'[b][x] = IF x = c THEN got[b][c] + copies ELSE got[b][x]
      /\ got \in [Broadcasts -> [Customers -> Nat]]
  BY <1>1, <1>2, <1>6, <1>7, TypeFacts
<1>10. \A x \in Customers : got'[b][x] >= got[b][x] /\ got[b][x] \in Nat
  BY <1>6, <1>9
<1>11. /\ Works(n) /\ Sending(n) /\ Sending(r) /\ Live(s, b)
       /\ Todo(n) = Todo(r)
  <2>1. Works(n) /\ Sending(n) /\ Sending(r) /\ Live(s, b)
    BY <1>1, <1>5 DEF Works, Sending, Live
  <2>2. Todo(r) = Uncast(r) \cup r.good \cup r.bad
    BY <1>1 DEF Todo
  <2>3. Todo(n) = Uncast(n) \cup n.good \cup n.bad
    BY <1>5 DEF Todo
  <2>4. Uncast(n) \cup n.good \cup n.bad = Uncast(r) \cup r.good \cup r.bad
    BY <1>5, <1>7
  <2> QED
    BY <2>1, <2>2, <2>3, <2>4
<1>12. StepOf(s, b, n)
  <2>1. used' \in [Channels -> Nat]
    BY <1>1, <1>2, <1>6, <1>7, TypeFacts
  <2> QED
    BY <1>1, <1>2, <1>5, <1>8, <1>11, <2>1, TypeFacts DEF StepOf, FaultsGrow
<1>13. send'[s] = n /\ \A t \in Sends : t # s => send'[t] = send[t]
  BY <1>1, <1>2, TypeFacts
<1>14. /\ TypeOK'
       /\ \A t \in Sends : CallOK(send[t])'
       /\ \A x \in Broadcasts : x # b => About(x)'
  BY <1>1, <1>2, <1>9, <1>12, TypeFacts, OthersKeep
<1>15. /\ \A t \in Sends : Live(t, b) <=> t = s
       /\ \A t \in Sends : Live(t, b)' <=> t = s
       /\ Uncast(send[s])' = Uncast(n)
       /\ \A t \in Sends : Working(t, b)' <=> Working(t, b)
       /\ \A t \in Sends : send'[t].b = send[t].b
  <2>1. \A t \in Sends : Live(t, b) <=> t = s
    BY <1>1, <1>11 DEF About, Alone
  <2>2. Uncast(send[s])' = Uncast(n)
    BY <1>13 DEF Uncast
  <2>3. Working(s, b)' /\ Live(s, b)'
    BY <1>5, <1>11, <1>13 DEF Working, Live
  <2>4. \A t \in Sends : t # s => (Live(t, b)' <=> Live(t, b)) /\ (Working(t, b)' <=> Working(t, b))
    BY <1>13 DEF Working, Live
  <2>5. \A t \in Sends : send'[t].b = send[t].b
    BY <1>1, <1>5, <1>13
  <2> QED
    BY <1>1, <2>1, <2>2, <2>3, <2>4, <2>5
<1>16. Alone(b)'
  BY <1>1, <1>2, <1>11, <1>15 DEF About, Alone
<1>17. Reached(b)'
  <2>1. bc[b].status \notin {"none", "draft"}
    BY <1>1, <1>11 DEF About, Alone
  <2>2. /\ \A x \in Uncast(r) : got[b][x] = 0
        /\ None({"line"}) => \A x \in r.bad : got[b][x] = 0
    BY <1>1, <1>11 DEF About, Reached
  <2>3. None({"line"})' => None({"line"})
    BY <1>8 DEF None, FaultsGrow
  <2>4. \A x \in Uncast(n) : got'[b][x] = 0
    BY <1>5, <1>7, <1>9, <2>2
  <2>5. None({"line"})' => \A x \in n.bad : got'[b][x] = 0
    <3> SUFFICES ASSUME None({"line"})', NEW x \in n.bad PROVE got'[b][x] = 0
      OBVIOUS
    <3>1. x \in Customers
      BY <1>5 DEF CallType
    <3>2. CASE x = c
      BY <1>5, <1>6, <1>7, <1>8, <1>9, <2>2, <3>2
    <3>3. CASE x # c
      BY <1>5, <1>9, <2>2, <2>3, <3>1, <3>3
    <3> QED
      BY <3>2, <3>3
  <2>6. ASSUME NEW t \in Sends, send'[t].b = {b}, NEW x \in send'[t].good \cup send'[t].sent
        PROVE  got'[b][x] > 0 \/ Void(b)
    <3>1. x \in Customers
      BY <1>14, <2>6, TypeFacts DEF TypeOK
    <3>2. CASE x \in send[t].good \cup send[t].sent
      <4>1. got[b][x] > 0 \/ Void(b)
        BY <1>1, <1>15, <2>6, <3>2 DEF About, Reached
      <4> QED
        BY <1>10, <3>1, <4>1, <1>9
    <3>3. CASE t = s /\ x = c /\ ok
      BY <1>6, <1>7, <1>9, <2>2, <3>3
    <3> QED
      BY <1>5, <1>13, <2>6, <3>2, <3>3
  <2>7. None({"line"})' => \A x \in Customers : got'[b][x] <= 1
    <3> SUFFICES ASSUME None({"line"})', NEW x \in Customers PROVE got'[b][x] <= 1
      OBVIOUS
    <3>1. CASE x = c
      BY <1>6, <1>7, <1>8, <1>9, <2>2, <3>1
    <3>2. CASE x # c
      BY <1>1, <1>9, <2>3, <3>2 DEF About, Reached
    <3> QED
      BY <3>1, <3>2
  <2>8. ASSUME NEW x \in Customers, rec[b][x] = "sent" \/ x \in posted[b]
        PROVE  got'[b][x] > 0 \/ Void(b)
    <3>1. got[b][x] > 0 \/ Void(b)
      BY <1>1, <2>8 DEF About, Reached
    <3> QED
      BY <1>9, <1>10, <3>1
  <2> QED
    BY <1>2, <1>5, <1>13, <1>15, <2>1, <2>4, <2>5, <2>6, <2>7, <2>8 DEF Reached, Before, Void
<1>18. Rows(b)'
  <2>1. b \in early \/ (making[b] = {} /\ bc[b].status # "deleted")
    BY <1>1 DEF About, Rows
  <2> QED
    BY <1>1, <1>2, <2>1 DEF About, Rows
<1>19. Charges(b)'
  <2>1. b \notin early => \A x \in Uncast(r) : rec[b][x] # "none"
    BY <1>1, <1>11 DEF About, Charges
  <2>2. b \notin early => \A x \in Uncast(n) : rec[b][x] # "none"
    BY <1>5, <2>1
  <2>3. ASSUME NEW x \in Customers, got'[b][x] > 0
        PROVE  Route[x] \in Channels /\ (b \notin early => rec[b][x] # "none")
    <3>1. CASE x = c
      BY <1>7, <2>1, <3>1
    <3>2. CASE x # c
      BY <1>1, <1>9, <2>3, <3>2 DEF About, Charges
    <3> QED
      BY <3>1, <3>2
  <2> QED
    BY <1>1, <1>2, <1>15, <2>2, <2>3 DEF About, Charges
<1>20. Clean(b)'
  <2>1. With(b, "pending")' = With(b, "pending")
    BY <1>2 DEF With
  <2>2. None({"d1"})' => None({"d1"})
    BY <1>8 DEF None, FaultsGrow
  <2>3. None({"line"})' => None({"line"})
    BY <1>8 DEF None, FaultsGrow
  <2>4. None({"d1"}) =>
          /\ \A x \in Todo(r) : rec[b][x] = "pending"
          /\ b \notin early => With(b, "pending") \subseteq Todo(r)
          /\ None({"line"}) => \A x \in Customers : rec[b][x] = "failed" => got[b][x] = 0
    BY <1>1 DEF About, Clean
  <2>5. c \in Todo(r)
    BY <1>1, <1>7 DEF Todo
  <2>6. None({"d1"})' =>
          (None({"line"})' => \A x \in Customers : rec'[b][x] = "failed" => got'[b][x] = 0)
    BY <1>2, <1>9, <2>2, <2>3, <2>4, <2>5
  <2> QED
    BY <1>2, <1>5, <1>11, <1>12, <2>1, <2>2, <2>4, <2>6, CleanGoesOn
<1>21. Capped'
  <2>1. ASSUME NEW d \in 1 .. LastDay PROVE Share(d)' \subseteq Share(d)
    <3> SUFFICES ASSUME NEW x \in Broadcasts \ early, NEW k \in Customers, charged[x] = d,
                        \/ got'[x][k] > 0
                        \/ \E t \in Sends :
                             /\ Live(t, x)'
                             /\ \/ k \in Uncast(send[t])'
                                \/ /\ send'[t].stage = "load"
                                   /\ k \in OnLine(With(x, "pending"))'
                 PROVE  <<x, k>> \in Share(d)
      BY <1>2 DEF Share
    <3>1. CASE x = b /\ got'[x][k] > 0
      BY <1>7, <1>9, <1>11, <3>1 DEF Share
    <3>2. CASE x = b /\ \E t \in Sends :
                             /\ Live(t, x)'
                             /\ \/ k \in Uncast(send[t])'
                                \/ /\ send'[t].stage = "load"
                                   /\ k \in OnLine(With(x, "pending"))'
      <4>1. k \in Uncast(n)
        BY <1>5, <1>13, <1>15, <3>2
      <4> QED
        BY <1>5, <1>11, <3>2, <4>1 DEF Share
    <3>3. CASE x # b
      <4>1. got'[x] = got[x] /\ OnLine(With(x, "pending"))' = OnLine(With(x, "pending"))
        BY <1>2, <1>9, <3>3 DEF With, OnLine
      <4>2. ASSUME NEW t \in Sends, Live(t, x)' PROVE Live(t, x) /\ send'[t] = send[t]
                                                      /\ Uncast(send[t])' = Uncast(send[t])
        <5>1. t # s
          BY <1>5, <1>13, <3>3, <4>2 DEF Live
        <5> QED
          BY <1>13, <4>2, <5>1 DEF Live, Uncast
      <4> QED
        BY <4>1, <4>2 DEF Share
    <3> QED
      BY <3>1, <3>2, <3>3
  <2> QED
    BY <2>1, SharesShrink DEF SenderInv
<1> QED
  BY <1>14, <1>16, <1>17, <1>18, <1>19, <1>20, <1>21 DEF SenderInv, About

\* There is no message: the group counts as sent.
LEMMA NoMessagesKeeps ==
    ASSUME SenderInv, NEW s \in Sends, NEW b \in Broadcasts, NoMessages(s, b)
    PROVE  SenderInv'
<1>1. /\ TypeOK /\ About(b) /\ send[s] \in CallType /\ CallOK(send[s]) /\ send[s].b = {b}
      /\ send[s].stage = "cast" /\ ~send[s].caught /\ Works(send[s]) /\ Working(s, b)
      /\ send[s].empty
  BY AtFacts DEF NoMessages, Stages
<1> DEFINE r == send[s]
           o == [r EXCEPT !.good = r.good \cup r.cast, !.cast = {}]
           n == CastDone(o)
<1>2. /\ send' = [send EXCEPT ![s] = n]
      /\ UNCHANGED <<today, bc, rec, making, early, charged, used, got, posted, faults>>
  BY DEF NoMessages
<1>3. Void(b)
  BY <1>1 DEF CallOK
<1>4. /\ o \in CallType /\ o.b = {b} /\ ~o.caught /\ o.empty = r.empty /\ o.day = r.day
      /\ o.line = r.line /\ o.skip = r.skip /\ o.left = r.left /\ o.cast = {}
      /\ o.good = r.good \cup r.cast /\ o.bad = r.bad /\ o.sent = r.sent
  BY <1>1 DEF CallType
<1>5. n = [o EXCEPT !.stage = IF o.bad = {} THEN "marksent" ELSE "mark"]
  BY <1>4 DEF CastDone
<1> HIDE DEF o, n
<1>6. /\ n \in CallType /\ n.b = {b} /\ ~n.caught /\ n.empty = r.empty /\ n.day = r.day
      /\ n.line = r.line /\ n.skip = r.skip /\ n.left = r.left /\ n.cast = {}
      /\ n.good = r.good \cup r.cast /\ n.bad = r.bad /\ n.sent = r.sent
      /\ n.stage = IF r.bad = {} THEN "marksent" ELSE "mark"
  BY <1>4, <1>5 DEF CallType, Stages
<1>7. CallOK(n)
  BY <1>1, <1>6 DEF CallOK
<1>8. /\ Works(n) /\ Sending(n) /\ Sending(r) /\ Uncast(n) \subseteq Uncast(r)
      /\ Todo(n) = Todo(r)
  BY <1>1, <1>6 DEF Works, Sending, Uncast, Todo
<1>9. StepOf(s, b, n)
  BY <1>1, <1>2, <1>6, <1>7, <1>8, FaultsAre, ReadStep
<1>10. Quiet(s, b, n)
  BY <1>1, <1>2, <1>3, <1>6, <1>8, <1>9, TypeFacts DEF Quiet, Before
<1>11. Clean(b)'
  <2>1. With(b, "pending")' = With(b, "pending") /\ (\A K : None(K)' <=> None(K))
    BY <1>2 DEF With, None
  <2>2. None({"d1"}) =>
          /\ \A x \in Todo(r) : rec[b][x] = "pending"
          /\ b \notin early => With(b, "pending") \subseteq Todo(r)
          /\ None({"line"}) => \A x \in Customers : rec[b][x] = "failed" => got[b][x] = 0
    BY <1>1 DEF About, Clean
  <2> QED
    BY <1>2, <1>6, <1>8, <1>9, <2>1, <2>2, CleanGoesOn
<1> QED
  BY <1>10, <1>11, QuietKeeps

(***************************************************************************)
(* The other steps.                                                        *)
(***************************************************************************)
\* Time passes, or nothing at all happens.
LEMMA StillKeeps ==
    ASSUME SenderInv, TypeOK', today <= today', faults.kinds \subseteq faults'.kinds,
           UNCHANGED <<bc, rec, making, early, charged, send, got, posted>>
    PROVE  SenderInv'
<1>1. ASSUME NEW x \in Broadcasts PROVE About(x)'
  <2>1. Same(x)
    BY DEF Same
  <2> QED
    BY <2>1, SameKeeps DEF SenderInv
<1>2. ASSUME NEW t \in Sends PROVE CallOK(send[t])'
  <2>1. send[t].day \in Nat /\ today \in Nat /\ today' \in Nat
    BY TypeFacts, BroadcastAssumption DEF SenderInv, CallType, TypeOK
  <2> QED
    BY <2>1 DEF SenderInv, CallOK, Void
<1>3. \A d \in 1 .. LastDay : Share(d)' \subseteq Share(d)
  BY DEF Share, Live, Sending, Works, Uncast, OnLine, With
<1>4. Capped'
  BY <1>3, SharesShrink DEF SenderInv
<1> QED
  BY <1>1, <1>2, <1>4 DEF SenderInv

LEMMA MidnightKeeps == SenderInv /\ Midnight => SenderInv'
<1> SUFFICES ASSUME SenderInv, Midnight PROVE SenderInv'
  OBVIOUS
<1>1. TypeOK' /\ today <= today' /\ faults' = faults
  BY BroadcastAssumption DEF SenderInv, Midnight, TypeOK
<1> QED
  BY <1>1, StillKeeps DEF Midnight

LEMMA StutterKeeps == SenderInv /\ UNCHANGED vars => SenderInv'
<1> SUFFICES ASSUME SenderInv, UNCHANGED vars PROVE SenderInv'
  OBVIOUS
<1>1. TypeOK' /\ today <= today'
  BY BroadcastAssumption DEF SenderInv, vars, TypeOK
<1> QED
  BY <1>1, StillKeeps DEF vars

\* A call that has not moved its broadcast begins, goes on or ends.
LEMMA CallerKeeps ==
    ASSUME SenderInv, NEW s \in Sends, NEW n, send' = [send EXCEPT ![s] = n],
           n \in CallType, CallOK(n), ~Works(send[s]), ~Works(n), n.good = {}, n.sent = {},
           \A b \in Broadcasts : n.b = {b} => bc[b].status # "none",
           FaultsGrow, UNCHANGED <<today, bc, rec, making, early, charged, used, got, posted>>
    PROVE  SenderInv'
<1>1. TypeOK /\ send \in [Sends -> CallType]
  BY TypeFacts DEF SenderInv
<1>2. TypeOK'
  <2>1. send' \in [Sends -> CallType]
    BY <1>1
  <2> QED
    BY <1>1, <2>1 DEF TypeOK, CallType, FaultsGrow
<1>3. send'[s] = n /\ \A t \in Sends : t # s => send'[t] = send[t]
  BY <1>1
<1>4. \A t \in Sends : CallOK(send[t])'
  <2>1. ASSUME NEW t \in Sends PROVE CallOK(send[t])'
    <3>1. CallOK(send'[t])
      BY <1>3 DEF SenderInv
    <3> QED
      BY <3>1 DEF CallOK, Void
  <2> QED
    BY <2>1
<1>5. ASSUME NEW t \in Sends, NEW x \in Broadcasts
      PROVE  /\ Working(t, x)' <=> Working(t, x)
             /\ Live(t, x)' <=> Live(t, x)
             /\ Working(t, x) => t # s
             /\ Live(t, x) => t # s
  <2>1. CASE t = s
    BY <1>3, <2>1 DEF Working, Live, Works, Sending
  <2>2. CASE t # s
    BY <1>3, <2>2 DEF Working, Live, Works, Sending
  <2> QED
    BY <2>1, <2>2
<1>6. ASSUME NEW t \in Sends, t # s
      PROVE  /\ send'[t] = send[t] /\ Uncast(send[t])' = Uncast(send[t])
             /\ Todo(send[t])' = Todo(send[t])
  BY <1>3, <1>6 DEF Uncast, Todo
<1>7. /\ \A K : None(K)' => None(K)
      /\ \A x, st : With(x, st)' = With(x, st)
      /\ \A x : Counts(x)' = Counts(x)
  BY DEF None, FaultsGrow, With, Counts
<1>8. ASSUME NEW x \in Broadcasts PROVE About(x)'
  <2>1. Alone(x) /\ Reached(x) /\ Rows(x) /\ Charges(x) /\ Clean(x)
    BY DEF SenderInv, About
  <2>2. Alone(x)'
    BY <1>3, <1>5, <2>1 DEF Alone
  <2>3. Reached(x)'
    BY <1>3, <1>5, <1>6, <1>7, <2>1 DEF Reached, Void
  <2>4. Rows(x)'
    BY <1>5, <2>1 DEF Rows
  <2>5. Charges(x)'
    BY <1>5, <1>6, <2>1 DEF Charges
  <2>6. Clean(x)'
    BY <1>5, <1>6, <1>7, <2>1 DEF Clean
  <2> QED
    BY <2>2, <2>3, <2>4, <2>5, <2>6 DEF About
<1>9. Capped'
  <2>1. \A d \in 1 .. LastDay : Share(d)' \subseteq Share(d)
    BY <1>5, <1>6, <1>7 DEF Share, OnLine
  <2> QED
    BY <2>1, SharesShrink DEF SenderInv
<1> QED
  BY <1>2, <1>4, <1>8, <1>9 DEF SenderInv

LEMMA StartKeeps ==
    ASSUME SenderInv, NEW s \in Sends, NEW b \in Broadcasts, NEW by \in {"agent", "admin"},
           Start(s, b, by)
    PROVE  SenderInv'
<1>1. TypeOK /\ send[s] \in CallType /\ CallOK(send[s]) /\ send[s].stage = "idle"
      /\ today \in 1 .. LastDay /\ 0 \in 0 .. LastDay
  BY TypeFacts, BroadcastAssumption DEF SenderInv, Start
<1> DEFINE day == IF by = "admin" THEN 0 ELSE today
           st == IF by = "admin" THEN "move" ELSE "check"
           n == [send[s] EXCEPT !.b = {b}, !.by = by, !.day = day, !.stage = st]
<1>2. send' = [send EXCEPT ![s] = n]
  BY <1>1, TypeFacts DEF Start
<1>3. day \in 0 .. LastDay /\ day <= today /\ st \in {"check", "move"}
  BY <1>1, BroadcastAssumption
<1> HIDE DEF day, st
<1>4. /\ n \in CallType /\ n.b = {b} /\ n.stage = st /\ n.caught = send[s].caught
      /\ n.empty = send[s].empty /\ n.day = day
      /\ n.line = send[s].line /\ n.skip = send[s].skip /\ n.left = send[s].left
      /\ n.cast = send[s].cast /\ n.bad = send[s].bad /\ n.good = send[s].good
      /\ n.sent = send[s].sent
  <2>1. st \in Stages
    BY <1>3 DEF Stages
  <2> QED
    BY <1>1, <1>3, <2>1 DEF CallType
<1> HIDE DEF n
<1>5. CallOK(n) /\ n.good = {} /\ n.sent = {}
  BY <1>1, <1>3, <1>4 DEF CallOK
<1>6. ~Works(n) /\ ~Works(send[s]) /\ bc[b].status # "none"
  BY <1>1, <1>3, <1>4 DEF Works, Start
<1>7. FaultsGrow /\ UNCHANGED <<today, bc, rec, making, early, charged, used, got, posted>>
  BY <1>1, FaultsAre DEF Start
<1>8. \A x \in Broadcasts : n.b = {x} => bc[x].status # "none"
  BY <1>4, <1>6
<1> QED
  BY <1>2, <1>4, <1>5, <1>6, <1>7, <1>8, CallerKeeps

\* A call that has not moved its broadcast ends.
LEMMA CallerEndsKeeps ==
    ASSUME SenderInv, NEW s \in Sends, ~Works(send[s]), Ends(s),
           FaultsGrow, UNCHANGED <<today, bc, rec, making, early, charged, used, got, posted>>
    PROVE  SenderInv'
<1> DEFINE n == [Unsent EXCEPT !.stage = "done"]
<1>1. n \in CallType /\ CallOK(n) /\ n.b = {} /\ n.stage = "done" /\ n.good = {} /\ n.sent = {}
  BY EndFacts DEF SenderInv, Unsent
<1>2. send' = [send EXCEPT ![s] = n]
  BY DEF Ends
<1> HIDE DEF n
<1>3. ~Works(n) /\ \A b \in Broadcasts : n.b # {b}
  BY <1>1 DEF Works
<1> QED
  BY <1>1, <1>2, <1>3, CallerKeeps

LEMMA CheckKeeps ==
    ASSUME SenderInv, NEW s \in Sends, NEW b \in Broadcasts, Check(s, b)
    PROVE  SenderInv'
<1>1. /\ TypeOK /\ About(b) /\ send[s] \in CallType /\ CallOK(send[s]) /\ send[s].b = {b}
      /\ send[s].stage = "check" /\ ~send[s].caught /\ ~Works(send[s])
  BY AtFacts DEF Check, Stages
<1>2. FaultsGrow /\ UNCHANGED <<today, bc, rec, making, early, charged, used, got, posted>>
  BY <1>1, FaultsAre DEF Check
<1>3. CASE Ends(s)
  BY <1>1, <1>2, <1>3, CallerEndsKeeps
<1>4. CASE To(s, "move")
  <2> DEFINE n == [send[s] EXCEPT !.stage = "move"]
  <2>1. send' = [send EXCEPT ![s] = n]
    BY <1>1, <1>4, TypeFacts DEF To
  <2>2. /\ n \in CallType /\ n.b = {b} /\ n.stage = "move" /\ ~n.caught
        /\ n.empty = send[s].empty /\ n.day = send[s].day
        /\ n.line = send[s].line /\ n.skip = send[s].skip /\ n.left = send[s].left
        /\ n.cast = send[s].cast /\ n.bad = send[s].bad /\ n.good = send[s].good
        /\ n.sent = send[s].sent
    BY <1>1 DEF CallType, Stages
  <2> HIDE DEF n
  <2>3. CallOK(n) /\ n.good = {} /\ n.sent = {} /\ ~Works(n)
    BY <1>1, <2>2 DEF CallOK, Works
  <2>4. bc[b].status # "none"
    BY <1>1 DEF About, Alone
  <2>5. \A x \in Broadcasts : n.b = {x} => bc[x].status # "none"
    BY <2>2, <2>4
  <2> QED
    BY <1>1, <1>2, <2>1, <2>2, <2>3, <2>5, CallerKeeps
<1> QED
  BY <1>3, <1>4 DEF Check

\* A step of create(), about b, which no call is multicasting.
LEMMA CreatorKeeps ==
    ASSUME SenderInv, TypeOK', NEW b \in Broadcasts, About(b)',
           UNCHANGED <<today, early, charged, send, used, got, posted>>,
           faults.kinds \subseteq faults'.kinds,
           \A x \in Broadcasts : x # b => bc'[x] = bc[x] /\ rec'[x] = rec[x] /\ making'[x] = making[x],
           b \in early \/ \A s \in Sends : ~Live(s, b)
    PROVE  SenderInv'
<1>1. today <= today'
  BY BroadcastAssumption DEF SenderInv, TypeOK
<1>2. ASSUME NEW x \in Broadcasts, x # b PROVE About(x)'
  <2>1. Same(x)
    BY <1>1, <1>2 DEF Same
  <2> QED
    BY <2>1, SameKeeps DEF SenderInv
<1>3. \A t \in Sends : CallOK(send[t])'
  BY DEF SenderInv, CallOK, Void
<1>4. \A d \in 1 .. LastDay : Share(d)' \subseteq Share(d)
  <2>0. \A t \in Sends : Uncast(send[t])' = Uncast(send[t]) /\ \A x : Live(t, x)' <=> Live(t, x)
    BY DEF Live, Uncast, Works, Sending
  <2> SUFFICES ASSUME NEW d \in 1 .. LastDay, NEW x \in Broadcasts \ early, NEW c \in Customers,
                      charged[x] = d,
                      \/ got[x][c] > 0
                      \/ \E t \in Sends :
                           /\ Live(t, x)
                           /\ \/ c \in Uncast(send[t])
                              \/ /\ send[t].stage = "load"
                                 /\ c \in OnLine(With(x, "pending"))'
               PROVE  <<x, c>> \in Share(d)
    BY <2>0 DEF Share
  <2>1. CASE x = b
    BY <2>1 DEF Share
  <2>2. CASE x # b
    BY <2>2 DEF Share, OnLine, With
  <2> QED
    BY <2>1, <2>2
<1>5. Capped'
  BY <1>4, SharesShrink DEF SenderInv
<1> QED
  BY <1>2, <1>3, <1>5 DEF SenderInv

LEMMA CreateRowKeeps ==
    ASSUME SenderInv, NEW b \in Broadcasts, CreateRow(b)
    PROVE  SenderInv'
<1>1. TypeOK /\ About(b) /\ bc[b].status = "none" /\ bc[b] \in BcType
  BY TypeFacts DEF SenderInv, CreateRow
<1> DEFINE row == [bc[b] EXCEPT !.status = "draft"]
           parts == Audience[b] \cup (IF b \in Illustrated THEN {Images} ELSE {})
<1>2. /\ bc' = [bc EXCEPT ![b] = row] /\ making' = [making EXCEPT ![b] = parts]
      /\ UNCHANGED <<today, rec, early, charged, send, used, got, posted, faults>>
  BY <1>1, TypeFacts DEF CreateRow
<1>3. row \in BcType /\ row.status = "draft"
  BY <1>1 DEF BcType
<1>a. /\ parts \subseteq Audience[b] \cup {Images} /\ Audience[b] \subseteq parts
      /\ Audience[b] \subseteq Customers
  BY BroadcastAssumption
<1> HIDE DEF row, parts
<1>4. /\ bc' \in [Broadcasts -> BcType] /\ bc'[b].status = "draft"
      /\ making' \in [Broadcasts -> SUBSET (Customers \cup {Images})] /\ making'[b] = parts
      /\ \A x \in Broadcasts : x # b => bc'[x] = bc[x] /\ making'[x] = making[x]
  BY <1>1, <1>2, <1>3, <1>a, TypeFacts
<1>5. TypeOK'
  <2>1. \A x \in Broadcasts : bc'[x].status \in Ended => bc'[x].sentAt # 0
    BY <1>1, <1>4, TypeFacts DEF Ended
  <2> QED
    BY <1>1, <1>2, <1>4, <2>1, TypeFacts DEF TypeOK, BcType
<1>6. \A s \in Sends : send[s].b # {b}
  BY <1>1 DEF About, Alone
<1>7. \A s \in Sends : ~Live(s, b) /\ ~Live(s, b)' /\ ~Working(s, b) /\ ~Working(s, b)'
  BY <1>2, <1>6 DEF Live, Working
<1>8. /\ \A c \in Customers : got[b][c] = 0
      /\ \A c \in Customers : rec[b][c] = "none"
  BY <1>1 DEF About, Reached, Rows
<1>9. Alone(b)'
  BY <1>2, <1>4, <1>6, <1>7 DEF Alone
<1>10. Reached(b)'
  BY <1>1, <1>2, <1>6, <1>7, <1>8 DEF About, Reached, None, Void
<1>11. Rows(b)'
  BY <1>2, <1>4, <1>7, <1>8, <1>a DEF Rows
<1>12. Charges(b)'
  BY <1>1, <1>2, <1>4, <1>7, <1>8 DEF About, Charges, Ended
<1>13. Clean(b)'
  BY <1>2, <1>4, <1>7, <1>8, <1>a DEF Clean, Ended
<1>14. About(b)'
  BY <1>9, <1>10, <1>11, <1>12, <1>13 DEF About
<1> QED
  BY <1>2, <1>4, <1>5, <1>7, <1>14, CreatorKeeps

LEMMA CreateRecipientKeeps ==
    ASSUME SenderInv, NEW b \in Broadcasts, CreateRecipient(b)
    PROVE  SenderInv'
<1> DEFINE c == First(making[b] \ {Images})
<1>1. TypeOK /\ About(b) /\ c \in making[b] /\ c \in Audience[b] /\ c \in Customers
  <2>1. c \in making[b] \ {Images}
    BY FirstIsIn DEF CreateRecipient
  <2> QED
    BY <2>1, TypeFacts DEF SenderInv, About, Rows
<1>2. /\ making' = [making EXCEPT ![b] = @ \ {c}] /\ rec' = [rec EXCEPT ![b][c] = "pending"]
      /\ UNCHANGED <<today, bc, early, charged, send, used, got, posted, faults>>
  BY DEF CreateRecipient
<1> HIDE DEF c
<1>3. /\ rec' \in [Broadcasts -> [Customers -> RecType]]
      /\ making' \in [Broadcasts -> SUBSET (Customers \cup {Images})] /\ making'[b] = making[b] \ {c}
      /\ \A x \in Customers : rec'[b][x] = IF x = c THEN "pending" ELSE rec[b][x]
      /\ \A x \in Broadcasts : x # b => rec'[x] = rec[x] /\ making'[x] = making[x]
  BY <1>1, <1>2, TypeFacts DEF RecType
<1>4. TypeOK'
  BY <1>1, <1>2, <1>3, TypeFacts DEF TypeOK, RecType
<1>5. /\ rec[b][c] = "none" /\ bc[b].status # "none"
      /\ b \notin early =>
           /\ bc[b].status \in {"draft", "sending", "deleted"}
           /\ \A x \in Customers : got[b][x] = 0
           /\ \A s \in Sends : ~Working(s, b)
  BY <1>1 DEF About, Rows
<1>6. /\ \A s \in Sends : /\ Working(s, b)' <=> Working(s, b)
                          /\ Live(s, b)' <=> Live(s, b)
                          /\ Live(s, b) => Working(s, b)
                          /\ Uncast(send[s])' = Uncast(send[s])
                          /\ Todo(send[s])' = Todo(send[s])
      /\ \A K : None(K)' <=> None(K)
  BY <1>2 DEF Working, Live, Works, Sending, None, Uncast, Todo
<1>7. Alone(b)'
  BY <1>1, <1>2, <1>6 DEF About, Alone
<1>8. Reached(b)'
  BY <1>1, <1>2, <1>3, <1>6 DEF About, Reached, Void
<1>9. Rows(b)'
  BY <1>1, <1>2, <1>3, <1>5, <1>6 DEF About, Rows
<1>10. Charges(b)'
  BY <1>1, <1>2, <1>3, <1>5, <1>6 DEF About, Charges
<1>11. Clean(b)'
  <2> SUFFICES ASSUME None({"d1"}) PROVE Clean(b)'
    BY <1>6 DEF Clean
  <2>1. Clean(b)
    BY <1>1 DEF About
  <2>2. ASSUME NEW s \in Sends, Working(s, b)
        PROVE  /\ b \in early
               /\ bc[b].status = "sending" /\ send[s].stage # "remark"
               /\ send[s].stage = "catch" \/ send[s].caught =>
                    \A x \in Customers : got[b][x] = 0
               /\ send[s].stage \in {"load", "quota", "restore"} =>
                    \A x \in Audience[b] \ making'[b] : rec'[b][x] = "pending"
               /\ \A x \in Todo(send[s]) : rec'[b][x] = "pending"
    <3>1. b \in early
      BY <1>5, <2>2
    <3>2. send[s].stage \in {"load", "quota", "restore"} =>
            \A x \in Audience[b] \ making'[b] : rec'[b][x] = "pending"
      BY <1>1, <1>3, <2>1, <2>2, BroadcastAssumption DEF Clean
    <3>3. \A x \in Todo(send[s]) : rec'[b][x] = "pending"
      <4>1. Todo(send[s]) \subseteq Customers
        BY <1>1, TypeFacts DEF Todo, Uncast, CallType
      <4> QED
        BY <1>3, <2>1, <2>2, <4>1 DEF Clean
    <3> QED
      BY <2>1, <2>2, <3>1, <3>2, <3>3 DEF Clean
  <2>3. bc[b].status = "draft" => \A x \in Audience[b] \ making'[b] : rec'[b][x] = "pending"
    BY <1>1, <1>3, <2>1, BroadcastAssumption DEF Clean
  <2>4. b \in early \/ bc[b].status \notin Ended
    BY <1>5 DEF Ended
  <2>5. None({"line"}) => \A x \in Customers : rec'[b][x] = "failed" => got[b][x] = 0
    BY <1>3, <2>1 DEF Clean
  <2>6. None({"crash"}) /\ bc[b].status = "sending" => \E s \in Sends : Working(s, b)
    BY <2>1 DEF Clean
  <2>7. \A s, t \in Sends : Working(s, b) /\ Working(t, b) => s = t
    BY <2>1 DEF Clean
  <2> QED
    BY <1>2, <1>6, <2>2, <2>3, <2>4, <2>5, <2>6, <2>7 DEF Clean
<1>12. About(b)'
  BY <1>7, <1>8, <1>9, <1>10, <1>11 DEF About
<1> QED
  BY <1>2, <1>3, <1>4, <1>5, <1>6, <1>12, CreatorKeeps

LEMMA CreateImagesKeeps ==
    ASSUME SenderInv, NEW b \in Broadcasts, CreateImages(b)
    PROVE  SenderInv'
<1>1. TypeOK /\ About(b) /\ making[b] = {Images} /\ Audience[b] \subseteq Customers
  BY BroadcastAssumption DEF SenderInv, CreateImages
<1>2. /\ making' = [making EXCEPT ![b] = {}]
      /\ UNCHANGED <<today, bc, rec, early, charged, send, used, got, posted, faults>>
  BY DEF CreateImages
<1>3. /\ making' \in [Broadcasts -> SUBSET (Customers \cup {Images})] /\ making'[b] = {}
      /\ \A x \in Broadcasts : x # b => making'[x] = making[x]
  BY <1>1, <1>2, TypeFacts
<1>4. TypeOK'
  BY <1>1, <1>2, <1>3 DEF TypeOK
<1>5. /\ \A s \in Sends : /\ Working(s, b)' <=> Working(s, b)
                          /\ Live(s, b)' <=> Live(s, b)
                          /\ Uncast(send[s])' = Uncast(send[s])
                          /\ Todo(send[s])' = Todo(send[s])
      /\ \A K : None(K)' <=> None(K)
      /\ \A st : With(b, st)' = With(b, st)
      /\ Counts(b)' = Counts(b)
  BY <1>2 DEF Working, Live, Works, Sending, None, Uncast, Todo, With, Counts
<1>6. \A x \in Audience[b] : x \notin making[b] /\ x \notin making'[b]
  BY <1>1, <1>3, BroadcastAssumption
<1>7. Audience[b] \ making'[b] = Audience[b] \ making[b]
  BY <1>6
<1>8. Alone(b)'
  BY <1>1, <1>2, <1>5 DEF About, Alone
<1>9. Reached(b)'
  BY <1>1, <1>2, <1>5 DEF About, Reached, Void
<1>10. Rows(b)'
  BY <1>1, <1>2, <1>3, <1>5 DEF About, Rows
<1>11. Charges(b)'
  BY <1>1, <1>2, <1>5 DEF About, Charges
<1>12. Clean(b)'
  BY <1>1, <1>2, <1>5, <1>7 DEF About, Clean
<1>13. b \in early \/ \A s \in Sends : ~Live(s, b)
  BY <1>1 DEF About, Rows, Live, Working, Sending
<1> QED
  BY <1>2, <1>3, <1>4, <1>8, <1>9, <1>10, <1>11, <1>12, <1>13, CreatorKeeps DEF About

LEMMA CreateFailsKeeps ==
    ASSUME SenderInv, NEW b \in Broadcasts, CreateFails(b)
    PROVE  SenderInv'
<1>1. TypeOK /\ About(b) /\ making[b] # {} /\ Fault("d1") /\ bc[b] \in BcType
  BY TypeFacts DEF SenderInv, CreateFails
<1> DEFINE row == [bc[b] EXCEPT !.status = "deleted"]
           f == [c \in Customers |-> "none"]
<1>2. /\ bc' = [bc EXCEPT ![b] = row] /\ making' = [making EXCEPT ![b] = {}]
      /\ rec' = [rec EXCEPT ![b] = f]
      /\ UNCHANGED <<today, early, charged, send, used, got, posted>>
  BY <1>1, TypeFacts DEF CreateFails
<1>3. /\ row \in BcType /\ row.status = "deleted"
      /\ f \in [Customers -> RecType] /\ \A c \in Customers : f[c] = "none"
  BY <1>1 DEF BcType, RecType
<1> HIDE DEF row, f
<1>4. /\ bc' \in [Broadcasts -> BcType] /\ bc'[b].status = "deleted"
      /\ making' \in [Broadcasts -> SUBSET (Customers \cup {Images})] /\ making'[b] = {}
      /\ rec' \in [Broadcasts -> [Customers -> RecType]]
      /\ \A c \in Customers : rec'[b][c] = "none"
      /\ \A x \in Broadcasts : x # b => bc'[x] = bc[x] /\ making'[x] = making[x] /\ rec'[x] = rec[x]
  BY <1>1, <1>2, <1>3, TypeFacts
<1>5. FaultsGrow /\ Clean(b)'
  BY <1>1, OutageIsUnclean
<1>6. TypeOK'
  <2>1. \A x \in Broadcasts : bc'[x].status \in Ended => bc'[x].sentAt # 0
    BY <1>1, <1>4, TypeFacts DEF Ended
  <2> QED
    BY <1>1, <1>2, <1>4, <1>5, <2>1, TypeFacts DEF TypeOK, BcType, RecType, FaultsGrow
<1>7. b \notin early => /\ \A x \in Customers : got[b][x] = 0
                        /\ \A s \in Sends : ~Working(s, b)
  BY <1>1 DEF About, Rows
<1>8. /\ \A s \in Sends : /\ Working(s, b)' <=> Working(s, b)
                          /\ Live(s, b)' <=> Live(s, b)
                          /\ Live(s, b) => Working(s, b)
                          /\ Uncast(send[s])' = Uncast(send[s])
      /\ \A K : None(K)' => None(K)
  BY <1>2, <1>5 DEF Working, Live, Works, Sending, None, Uncast, FaultsGrow
<1>9. Alone(b)'
  BY <1>1, <1>2, <1>4, <1>8 DEF About, Alone
<1>10. Reached(b)'
  BY <1>1, <1>2, <1>4, <1>8 DEF About, Reached, Void
<1>11. Rows(b)'
  BY <1>2, <1>4, <1>7, <1>8 DEF Rows
<1>12. Charges(b)'
  BY <1>1, <1>2, <1>4, <1>7, <1>8 DEF About, Charges, Ended
<1>13. About(b)'
  BY <1>5, <1>9, <1>10, <1>11, <1>12 DEF About
<1> QED
  BY <1>2, <1>4, <1>5, <1>6, <1>7, <1>8, <1>13, CreatorKeeps DEF FaultsGrow

\* A broadcast is moved to 'sending', whether or not the call learns of it.
LEMMA MoverKeeps ==
    ASSUME SenderInv, NEW s \in Sends, NEW b \in Broadcasts, At(s, b, "move"),
           bc[b].status = "draft", bc' = Moved(b),
           NEW n \in CallType, send' = [send EXCEPT ![s] = n], CallOK(n),
           n.good = {}, n.sent = {}, n.bad = {}, Uncast(n) = {},
           n.b = {} \/ (n.b = {b} /\ n.stage = "load" /\ ~n.caught),
           early' \in {early, early \cup {b}}, charged' \in [Broadcasts -> 0 .. LastDay],
           \A x \in Broadcasts : x # b => charged'[x] = charged[x],
           charged'[b] <= today, n.b = {b} => b \in early' \/ making[b] = {},
           FaultsGrow, UNCHANGED <<today, rec, making, used, got, posted>>,
           Clean(b)', Capped'
    PROVE  SenderInv'
<1>1. /\ TypeOK /\ About(b) /\ send[s] \in CallType /\ CallOK(send[s]) /\ send[s].b = {b}
      /\ send[s].stage = "move" /\ ~send[s].caught /\ ~Works(send[s])
      /\ send \in [Sends -> CallType]
  BY AtFacts, TypeFacts DEF Stages
<1>2. send'[s] = n /\ \A t \in Sends : t # s => send'[t] = send[t]
  BY <1>1
<1>3. /\ bc' \in [Broadcasts -> BcType]
      /\ \A x \in Broadcasts : x # b => bc'[x] = bc[x]
      /\ \A x \in Broadcasts : bc'[x].status \in Ended => bc'[x].sentAt # 0
      /\ bc'[b].status = "sending" /\ bc'[b].updated = today
  BY <1>1, MovedFacts
<1>4. TypeOK'
  <2>1. send' \in [Sends -> CallType]
    BY <1>1
  <2>2. early' \subseteq Broadcasts
    BY <1>1, TypeFacts
  <2> QED
    BY <1>1, <1>3, <2>1, <2>2 DEF TypeOK, CallType, BcType, FaultsGrow
<1>5. ASSUME NEW t \in Sends PROVE CallOK(send[t])'
  <2>1. CallOK(send'[t])
    BY <1>2 DEF SenderInv
  <2> QED
    BY <2>1 DEF CallOK, Void
<1>6. ASSUME NEW x \in Broadcasts, x # b PROVE About(x)'
  <2>1. \A t \in Sends : send[t].b = {x} \/ send'[t].b = {x} => send'[t] = send[t]
    <3> SUFFICES ASSUME NEW t \in Sends, send[t].b = {x} \/ send'[t].b = {x}
                 PROVE  t # s
      BY <1>2
    <3> QED
      BY <1>1, <1>2, <1>6
  <2>2. today <= today'
    BY <1>1, BroadcastAssumption DEF TypeOK
  <2>3. Same(x)
    BY <1>3, <1>6, <2>1, <2>2 DEF Same, FaultsGrow
  <2> QED
    BY <1>1, <1>4, <2>3, SameKeeps DEF SenderInv
<1>7. /\ \A t \in Sends : ~Live(t, b)
      /\ \A c \in Customers : got[b][c] = 0
      /\ \A t \in Sends : send[t].b = {b} => send[t].good \cup send[t].sent \subseteq Customers
  BY <1>1 DEF About, Alone, Reached, CallType
<1>8. \A t \in Sends : /\ Live(t, b)' => t = s /\ n.b = {b}
                       /\ Working(t, b)' /\ ~Working(t, b) => t = s /\ n.b = {b}
  BY <1>2, <1>7 DEF Live, Working, Works, Sending
<1>9. Uncast(send[s])' = {}
  BY <1>2 DEF Uncast
<1>10. Alone(b)'
  BY <1>3, <1>8 DEF Alone
<1>11. Reached(b)'
  BY <1>1, <1>2, <1>3, <1>7, <1>8, <1>9 DEF About, Reached, None, FaultsGrow, Void
<1>12. Rows(b)'
  BY <1>1, <1>3, <1>7, <1>8 DEF About, Rows
<1>13. Charges(b)'
  BY <1>1, <1>3, <1>7, <1>8, <1>9 DEF About, Charges, Ended
<1>14. About(b)'
  BY <1>10, <1>11, <1>12, <1>13 DEF About
<1> QED
  BY <1>4, <1>5, <1>6, <1>14 DEF SenderInv

\* There are finitely many recipients.
LEMMA RecipientsAreFinite ==
    IsFiniteSet({x \in Broadcasts \X Customers : x[2] \in Audience[x[1]]})
<1> DEFINE f == [b \in Broadcasts |-> Audience[b]]
           T == {Audience[b] : b \in Broadcasts}
           F == {x \in Broadcasts \X Customers : x[2] \in Audience[x[1]]}
<1>1. f \in Surjection(Broadcasts, T)
  BY DEF Surjection
<1>2. IsFiniteSet(T)
  BY <1>1, FS_Surjection, BroadcastAssumption
<1>3. IsFiniteSet(UNION T)
  <2>1. \A A \in T : IsFiniteSet(A)
    BY BroadcastAssumption
  <2> HIDE DEF T
  <2> QED
    BY <1>2, <2>1, FS_UNION
<1>4. IsFiniteSet(Broadcasts \X UNION T)
  BY <1>3, FS_Product, BroadcastAssumption
<1>5. F \in SUBSET (Broadcasts \X UNION T)
  OBVIOUS
<1> QED
  BY <1>4, <1>5, FS_Subset

\* Who has, or may still get, another of the day's broadcasts is counted.
LEMMA OthersAreCounted ==
    ASSUME SenderInv, NEW s \in Sends, NEW b \in Broadcasts
    PROVE  /\ IsFiniteSet(Counted(s, b))
           /\ \A x \in Share(today) : x[1] # b => x \in Counted(s, b)
<1>1. TypeOK /\ send[s].day <= today /\ send[s].day \in Nat /\ today \in Nat
  BY TypeFacts, BroadcastAssumption DEF SenderInv, CallOK, CallType
<1>2. IsFiniteSet(Counted(s, b))
  <2> DEFINE F == {x \in Broadcasts \X Customers : x[2] \in Audience[x[1]]}
  <2>1. Counted(s, b) \in SUBSET F
    <3> SUFFICES ASSUME NEW x \in Broadcasts \ {b}, NEW c \in Customers,
                        rec[x][c] \in {"pending", "sent", "failed"}
                 PROVE  <<x, c>> \in F
      BY DEF Counted
    <3>1. rec[x][c] # "none"
      OBVIOUS
    <3>2. c \in Audience[x]
      BY <3>1 DEF SenderInv, About, Rows
    <3> QED
      BY <3>2
  <2> HIDE DEF F
  <2>2. IsFiniteSet(F)
    BY RecipientsAreFinite DEF F
  <2> QED
    BY <2>1, <2>2, FS_Subset
<1>3. ASSUME NEW x \in Broadcasts \ early, NEW c \in Customers, x # b, charged[x] = today,
             \/ got[x][c] > 0
             \/ \E t \in Sends :
                  /\ Live(t, x)
                  /\ \/ c \in Uncast(send[t])
                     \/ /\ send[t].stage = "load"
                        /\ c \in OnLine(With(x, "pending"))
      PROVE  <<x, c>> \in Counted(s, b)
  <2>1. About(x) /\ today # 0
    BY <1>1, TypeFacts DEF SenderInv
  <2>2. /\ rec[x][c] \in {"pending", "sent", "failed"}
        /\ bc[x].status \in {"sending"} \cup Ended
    <3>1. CASE got[x][c] > 0
      <4>1. rec[x][c] # "none" /\ Route[c] \in Channels
        BY <2>1, <3>1 DEF About, Charges
      <4>2. rec[x][c] # "skipped"
        BY <2>1, <4>1 DEF About, Charges
      <4>3. bc[x].status \notin {"none", "draft", "deleted"}
        BY <2>1, <3>1 DEF About, Reached, Rows
      <4>4. rec[x][c] \in RecType /\ bc[x] \in BcType
        BY <1>1, TypeFacts
      <4> QED
        BY <4>1, <4>2, <4>3, <4>4 DEF RecType, BcType
    <3>2. ASSUME NEW t \in Sends, Live(t, x),
                 \/ c \in Uncast(send[t])
                 \/ send[t].stage = "load" /\ c \in OnLine(With(x, "pending"))
          PROVE  /\ rec[x][c] \in {"pending", "sent", "failed"}
                 /\ bc[x].status \in {"sending"} \cup Ended
      <4>1. Working(t, x)
        BY <3>2 DEF Live, Working, Sending
      <4>2. bc[x].status \notin {"none", "draft", "deleted"}
        BY <2>1, <3>2, <4>1 DEF About, Alone, Rows
      <4>3. rec[x][c] \in RecType /\ bc[x] \in BcType
        BY <1>1, TypeFacts
      <4>4. CASE c \in Uncast(send[t])
        <5>1. rec[x][c] # "none"
          BY <2>1, <3>2, <4>4 DEF About, Charges
        <5>2. Route[c] \in Channels
          BY <3>2, <4>4 DEF SenderInv, CallOK, Uncast
        <5>3. rec[x][c] # "skipped"
          BY <2>1, <5>2 DEF About, Charges
        <5> QED
          BY <4>2, <4>3, <5>1, <5>3 DEF RecType, BcType
      <4>5. CASE c \in OnLine(With(x, "pending"))
        BY <4>2, <4>3, <4>5 DEF OnLine, With, BcType
      <4> QED
        BY <3>2, <4>4, <4>5
    <3> QED
      BY <1>3, <3>1, <3>2
  <2>3. /\ bc[x].status = "sending" => bc[x].updated >= today
        /\ bc[x].status \in Ended => bc[x].sentAt >= today
    BY <1>3, <2>1 DEF About, Charges
  <2>4. bc[x].updated \in Nat /\ bc[x].sentAt \in Nat
    BY <1>1, TypeFacts, BroadcastAssumption DEF BcType
  <2>5. \/ bc[x].status = "sending" /\ bc[x].updated >= send[s].day
        \/ bc[x].sentAt >= send[s].day
    BY <1>1, <2>2, <2>3, <2>4
  <2> QED
    BY <1>3, <2>2, <2>5 DEF Counted
<1>4. \A x \in Share(today) : x[1] # b => x \in Counted(s, b)
  BY <1>3 DEF Share
<1> QED
  BY <1>2, <1>4

\* What the cap allows is not exceeded by what is moved.
LEMMA MovedIsCapped ==
    ASSUME SenderInv, NEW s \in Sends, NEW b \in Broadcasts, Allowed(s, b),
           NEW d \in 1 .. LastDay, d = today,
           \A x \in Share(d)' : \/ x[1] # b /\ x \in Share(d)
                                \/ x[1] = b /\ x \in {b} \X OnLine(With(b, "pending"))
    PROVE  IsFiniteSet(Share(d)') /\ Cardinality(Share(d)') <= DailyLimit
<1> DEFINE P == OnLine(With(b, "pending"))
           C == Counted(s, b)
           B == {b} \X P
           N == Share(d)'
<1>1. IsFiniteSet(C) /\ Cardinality(C) + Cardinality(P) <= DailyLimit
  BY OthersAreCounted DEF Allowed
<1>2. N \in SUBSET (C \cup B)
  BY OthersAreCounted
<1>3. IsFiniteSet(P) /\ IsFiniteSet({b}) /\ Cardinality({b}) = 1
  <2>1. P \in SUBSET Audience[b]
    BY DEF OnLine, With, SenderInv, About, Rows
  <2> HIDE DEF P
  <2>2. IsFiniteSet(P)
    BY <2>1, FS_Subset, BroadcastAssumption
  <2> QED
    BY <2>2, FS_Singleton
<1> HIDE DEF P, C, N
<1>4. Cardinality(P) \in Nat /\ Cardinality(C) \in Nat
  BY <1>1, <1>3, FS_CardinalityType
<1>5. IsFiniteSet(B) /\ Cardinality(B) = 1 * Cardinality(P)
  BY <1>3, FS_Product
<1> HIDE DEF B
<1>6. /\ IsFiniteSet(C \cup B)
      /\ Cardinality(C \cup B) = Cardinality(C) + Cardinality(B) - Cardinality(C \cap B)
  BY <1>1, <1>5, FS_Union
<1>7. Cardinality(C \cap B) \in Nat
  <2>1. C \cap B \in SUBSET C
    OBVIOUS
  <2> QED
    BY <1>1, <2>1, FS_Subset, FS_CardinalityType
<1>8. IsFiniteSet(N) /\ Cardinality(N) <= Cardinality(C \cup B) /\ Cardinality(N) \in Nat
  BY <1>2, <1>6, FS_Subset, FS_CardinalityType
<1>9. Cardinality(N) <= DailyLimit
  BY <1>1, <1>4, <1>5, <1>6, <1>7, <1>8, BroadcastAssumption
<1> QED
  BY <1>8, <1>9 DEF N

LEMMA MoveKeeps ==
    ASSUME SenderInv, NEW s \in Sends, NEW b \in Broadcasts, Move(s, b)
    PROVE  SenderInv'
<1>1. /\ TypeOK /\ About(b) /\ send[s] \in CallType /\ CallOK(send[s]) /\ send[s].b = {b}
      /\ send[s].stage = "move" /\ ~send[s].caught /\ ~Works(send[s]) /\ At(s, b, "move")
      /\ send \in [Sends -> CallType]
  BY AtFacts, TypeFacts DEF Move, Stages
<1>2. FaultsGrow /\ UNCHANGED <<today, rec, making, used, got, posted, faults>>
  BY <1>1, FaultsAre DEF Move
<1>3. CASE ~Movable(s, b)
  BY <1>1, <1>2, <1>3, CallerEndsKeeps DEF Move
<1>4. CASE Movable(s, b)
  <2> DEFINE n == [Unsent EXCEPT !.b = {b}, !.stage = "load"]
  <2>1. /\ bc' = Moved(b) /\ bc[b].status = "draft"
        /\ early' = IF making[b] # {} THEN early \cup {b} ELSE early
        /\ charged' = [charged EXCEPT ![b] = IF send[s].by = "agent" THEN today ELSE 0]
        /\ send' = [send EXCEPT ![s] = n]
        /\ send[s].by = "admin" \/ Allowed(s, b)
    BY <1>4 DEF Move, Movable
  <2>2. /\ n \in CallType /\ n.b = {b} /\ n.stage = "load" /\ ~n.caught /\ ~n.empty /\ n.day = 0
        /\ n.line = {} /\ n.skip = {} /\ n.left = {} /\ n.cast = {}
        /\ n.bad = {} /\ n.good = {} /\ n.sent = {}
    BY UnsentType DEF Unsent, CallType, Stages
  <2> HIDE DEF n
  <2>3. CallOK(n)
    <3>1. n.day <= today
      BY <1>1, <2>2, TypeFacts, BroadcastAssumption
    <3> QED
      BY <2>2, <3>1 DEF CallOK
  <2>4. Uncast(n) = {} /\ Todo(n) = {} /\ Works(n)
    BY <2>2 DEF Uncast, Todo, Works
  <2>5. /\ charged' \in [Broadcasts -> 0 .. LastDay]
        /\ \A x \in Broadcasts : x # b => charged'[x] = charged[x]
        /\ charged'[b] = (IF send[s].by = "agent" THEN today ELSE 0) /\ charged'[b] <= today
    <3>1. today \in 1 .. LastDay /\ today \in 0 .. LastDay /\ 0 \in 0 .. LastDay
      BY <1>1, TypeFacts, BroadcastAssumption
    <3> QED
      BY <1>1, <2>1, <3>1, TypeFacts
  <2>6. early' \in {early, early \cup {b}} /\ (b \in early' \/ making[b] = {})
    BY <2>1
  <2>7. send'[s] = n /\ \A t \in Sends : t # s => send'[t] = send[t]
    BY <1>1, <2>1
  <2>8. /\ \A t \in Sends : ~Live(t, b)
        /\ \A c \in Customers : got[b][c] = 0
    BY <1>1, <2>1 DEF About, Alone, Reached
  <2>9. bc'[b].status = "sending"
    BY <1>1, <2>1, MovedFacts
  <2>10. Clean(b)'
    <3> SUFFICES ASSUME None({"d1"}) PROVE Clean(b)'
      BY <1>2 DEF Clean, None
    <3>1. /\ \A t \in Sends : ~Working(t, b)
          /\ \A c \in Audience[b] \ making[b] : rec[b][c] = "pending"
      BY <1>1, <2>1 DEF About, Clean
    <3>2. Working(s, b)' /\ \A t \in Sends : Working(t, b)' => t = s
      BY <2>2, <2>4, <2>7, <3>1 DEF Working
    <3>3. Todo(send[s])' = {}
      BY <2>4, <2>7 DEF Todo, Uncast
    <3> QED
      BY <1>2, <2>2, <2>7, <2>8, <2>9, <3>1, <3>2, <3>3 DEF Clean, Ended
  <2>11. \A t \in Sends : Live(t, b)' => t = s
    BY <2>7, <2>8 DEF Live
  <2>12. \A t \in Sends, x \in Broadcasts :
            x # b /\ Live(t, x)' => /\ Live(t, x) /\ send'[t] = send[t]
                                    /\ Uncast(send[t])' = Uncast(send[t])
    <3> SUFFICES ASSUME NEW t \in Sends, NEW x \in Broadcasts, x # b, Live(t, x)'
                 PROVE  t # s
      BY <2>7 DEF Live, Uncast
    <3> QED
      BY <2>2, <2>7 DEF Live
  <2>13. ASSUME NEW d \in 1 .. LastDay, NEW x \in (Broadcasts \ early'), NEW c \in Customers,
                <<x, c>> \in Share(d)'
         PROVE  \/ x # b /\ <<x, c>> \in Share(d)
                \/ x = b /\ c \in OnLine(With(b, "pending")) /\ charged'[b] = d
    <3>1. CASE x # b
      BY <1>2, <2>5, <2>6, <2>12, <2>13, <3>1 DEF Share, OnLine, With
    <3>2. CASE x = b
      <4>1. Uncast(send[s])' = {}
        BY <2>4, <2>7 DEF Uncast
      <4> QED
        BY <1>2, <2>8, <2>11, <2>13, <3>2, <4>1 DEF Share, OnLine, With
    <3> QED
      BY <3>1, <3>2
  <2>14. Capped'
    <3> SUFFICES ASSUME NEW d \in 1 .. LastDay
                 PROVE  IsFiniteSet(Share(d)') /\ Cardinality(Share(d)') <= DailyLimit
      BY DEF Capped
    <3>1. \A y \in Share(d)' : \E x \in (Broadcasts \ early'), c \in Customers : y = <<x, c>>
      BY DEF Share
    <3>2. CASE charged'[b] = d
      <4>1. d = today /\ Allowed(s, b)
        BY <2>1, <2>5, <3>2
      <4>2. \A y \in Share(d)' : \/ y[1] # b /\ y \in Share(d)
                                 \/ y[1] = b /\ y \in {b} \X OnLine(With(b, "pending"))
        BY <2>13, <3>1
      <4> QED
        BY <4>1, <4>2, MovedIsCapped
    <3>3. CASE charged'[b] # d
      <4>1. Share(d)' \in SUBSET Share(d)
        BY <2>13, <3>1, <3>3
      <4>2. IsFiniteSet(Share(d)) /\ Cardinality(Share(d)) <= DailyLimit
        BY DEF SenderInv, Capped
      <4> DEFINE N == Share(d)'
                 O == Share(d)
      <4> HIDE DEF N, O
      <4>3. N \in SUBSET O /\ IsFiniteSet(O) /\ Cardinality(O) <= DailyLimit
        BY <4>1, <4>2 DEF N, O
      <4>4. /\ IsFiniteSet(N) /\ Cardinality(N) <= Cardinality(O)
            /\ Cardinality(N) \in Nat /\ Cardinality(O) \in Nat
        BY <4>3, FS_Subset, FS_CardinalityType
      <4>5. IsFiniteSet(N) /\ Cardinality(N) <= DailyLimit
        BY <4>3, <4>4, BroadcastAssumption
      <4> QED
        BY <4>5 DEF N
    <3> QED
      BY <3>2, <3>3
  <2> QED
    BY <1>1, <1>2, <2>1, <2>2, <2>3, <2>4, <2>5, <2>6, <2>10, <2>14, MoverKeeps
<1> QED
  BY <1>3, <1>4

LEMMA MoveThrowsKeeps ==
    ASSUME SenderInv, NEW s \in Sends, NEW b \in Broadcasts, MoveThrows(s, b)
    PROVE  SenderInv'
<1>1. /\ TypeOK /\ About(b) /\ send[s] \in CallType /\ ~Works(send[s]) /\ send[s].b = {b}
      /\ send \in [Sends -> CallType]
  <2>1. \E st \in {"check", "move"} : At(s, b, st)
    BY DEF MoveThrows
  <2> QED
    BY <2>1, AtFacts, TypeFacts DEF Stages
<1>2. FaultsGrow /\ Clean(b)'
  BY <1>1, OutageIsUnclean DEF MoveThrows
<1>3. Ends(s) /\ UNCHANGED <<today, rec, making, early, charged, used, got, posted>>
  BY DEF MoveThrows
<1>4. CASE bc' = bc
  BY <1>1, <1>2, <1>3, <1>4, CallerEndsKeeps
<1>5. CASE At(s, b, "move") /\ Movable(s, b) /\ bc' = Moved(b)
  <2> DEFINE n == [Unsent EXCEPT !.stage = "done"]
  <2>1. /\ n \in CallType /\ CallOK(n) /\ n.b = {} /\ n.stage = "done"
        /\ n.good = {} /\ n.sent = {} /\ n.bad = {} /\ Uncast(n) = {}
    BY <1>1, EndFacts DEF Unsent, Uncast
  <2>2. send' = [send EXCEPT ![s] = n]
    BY <1>3 DEF Ends
  <2> HIDE DEF n
  <2>3. send'[s] = n /\ \A t \in Sends : t # s => send'[t] = send[t]
    BY <1>1, <2>2
  <2>4. \A t \in Sends, x \in Broadcasts :
            Live(t, x)' => /\ Live(t, x) /\ send'[t] = send[t]
                           /\ Uncast(send[t])' = Uncast(send[t])
    <3> SUFFICES ASSUME NEW t \in Sends, NEW x \in Broadcasts, Live(t, x)'
                 PROVE  t # s
      BY <2>3 DEF Live, Uncast
    <3> QED
      BY <2>1, <2>3 DEF Live
  <2>5. Capped'
    <3>1. \A d \in 1 .. LastDay : Share(d)' \subseteq Share(d)
      BY <1>3, <2>4 DEF Share, OnLine, With
    <3> QED
      BY <3>1, SharesShrink DEF SenderInv
  <2>6. /\ bc[b].status = "draft" /\ charged' \in [Broadcasts -> 0 .. LastDay]
        /\ charged'[b] <= today
    BY <1>1, <1>3, <1>5, TypeFacts DEF Movable, About, Charges
  <2> QED
    BY <1>2, <1>3, <1>5, <2>1, <2>2, <2>5, <2>6, MoverKeeps
<1> QED
  BY <1>4, <1>5 DEF MoveThrows

LEMMA DiesKeeps ==
    ASSUME SenderInv, NEW s \in Sends, Dies(s)
    PROVE  SenderInv'
<1>1. /\ CallOK(send[s]) /\ send[s].stage \notin {"idle", "done"} /\ FaultsGrow
      /\ Ends(s) /\ UNCHANGED <<today, bc, rec, making, early, charged, used, got, posted>>
  BY FaultsAre DEF SenderInv, Dies, FaultKinds
<1>2. PICK b \in Broadcasts : send[s].b = {b}
  BY <1>1 DEF CallOK
<1>3. CASE Works(send[s])
  BY <1>2, <1>3, WorkerDiesKeeps DEF Working
<1>4. CASE ~Works(send[s])
  BY <1>1, <1>4, CallerEndsKeeps
<1> QED
  BY <1>3, <1>4

LEMMA StepKeeps ==
    ASSUME SenderInv, NEW s \in Sends, NEW b \in Broadcasts, Step(s, b)
    PROVE  SenderInv'
<1>1. CASE Check(s, b)
  BY <1>1, CheckKeeps
<1>2. CASE Move(s, b)
  BY <1>2, MoveKeeps
<1>3. CASE Load(s, b)
  BY <1>3, LoadKeeps
<1>4. CASE Quota(s, b)
  BY <1>4, QuotaKeeps
<1>5. CASE Restore(s, b)
  BY <1>5, RestoreKeeps
<1>6. CASE Skip(s, b)
  BY <1>6, SkipKeeps
<1>7. CASE \E ok \in BOOLEAN, lost \in 0 .. 1 : Multicast(s, b, ok, lost)
  BY <1>7, MulticastKeeps
<1>8. CASE MarkFailed(s, b)
  BY <1>8, MarkFailedKeeps
<1>9. CASE MarkSent(s, b)
  BY <1>9, MarkSentKeeps
<1>10. CASE Remark(s, b)
  BY <1>10, RemarkKeeps
<1>11. CASE Post(s, b)
  BY <1>11, PostKeeps
<1>12. CASE Count(s, b)
  BY <1>12, CountKeeps
<1>13. CASE Finish(s, b)
  BY <1>13, FinishKeeps
<1>14. CASE Catch(s, b)
  BY <1>14, CatchKeeps
<1>15. CASE NoMessages(s, b)
  BY <1>15, NoMessagesKeeps
<1> QED
  BY <1>1, <1>2, <1>3, <1>4, <1>5, <1>6, <1>7, <1>8, <1>9, <1>10, <1>11, <1>12, <1>13, <1>14, <1>15
  DEF Step

LEMMA TroubleKeeps ==
    ASSUME SenderInv, NEW s \in Sends, NEW b \in Broadcasts, Trouble(s, b)
    PROVE  SenderInv'
  BY MoveThrowsKeeps, LoadFailsKeeps, MarkThrowsKeeps, TryThrowsKeeps, CatchThrowsKeeps DEF Trouble

LEMMA NextKeeps == SenderInv /\ [Next]_vars => SenderInv'
<1> SUFFICES ASSUME SenderInv, [Next]_vars PROVE SenderInv'
  OBVIOUS
<1>1. CASE \E b \in Broadcasts :
             CreateRow(b) \/ CreateRecipient(b) \/ CreateImages(b) \/ CreateFails(b)
  BY <1>1, CreateRowKeeps, CreateRecipientKeeps, CreateImagesKeeps, CreateFailsKeeps
<1>2. ASSUME NEW s \in Sends, NEW b \in Broadcasts, \E by \in {"agent", "admin"} : Start(s, b, by)
      PROVE  SenderInv'
  BY <1>2, StartKeeps
<1>3. ASSUME NEW s \in Sends, NEW b \in Broadcasts, Step(s, b) \/ Trouble(s, b)
      PROVE  SenderInv'
  BY <1>3, StepKeeps, TroubleKeeps
<1>4. CASE \E s \in Sends : Dies(s)
  BY <1>4, DiesKeeps
<1>5. CASE Midnight
  BY <1>5, MidnightKeeps
<1>6. CASE UNCHANGED vars
  BY <1>6, StutterKeeps
<1> QED
  BY <1>1, <1>2, <1>3, <1>4, <1>5, <1>6 DEF Next

LEMMA InitHolds == Init => SenderInv
<1> SUFFICES ASSUME Init PROVE SenderInv
  OBVIOUS
<1>1. /\ today = 1 /\ early = {} /\ faults = [count |-> 0, kinds |-> {}]
      /\ bc \in [Broadcasts -> BcType]
      /\ \A b \in Broadcasts :
           /\ bc[b].status = IF b \in Drafts THEN "draft" ELSE "none"
           /\ making[b] = {} /\ charged[b] = 0 /\ posted[b] = {}
           /\ \A c \in Customers :
                /\ rec[b][c] = IF b \in Drafts /\ c \in Audience[b] THEN "pending" ELSE "none"
                /\ got[b][c] = 0
      /\ \A s \in Sends : send[s] = Unsent
  <2>1. NoRow \in BcType /\ [NoRow EXCEPT !.status = "draft"] \in BcType
        /\ NoRow.status = "none" /\ [NoRow EXCEPT !.status = "draft"].status = "draft"
    BY BroadcastAssumption DEF NoRow, BcType, NoCounts, CountType
  <2> QED
    BY <2>1 DEF Init
<1>2. TypeOK
  <2>1. rec \in [Broadcasts -> [Customers -> RecType]]
    BY DEF Init, RecType
  <2>2. making \in [Broadcasts -> SUBSET Customers] /\ posted \in [Broadcasts -> SUBSET Customers]
        /\ charged \in [Broadcasts -> 0 .. LastDay]
    BY BroadcastAssumption DEF Init
  <2>3. send \in [Sends -> CallType]
    BY UnsentType DEF Init
  <2>4. used \in [Channels -> Nat] /\ got \in [Broadcasts -> [Customers -> Nat]]
    BY DEF Init
  <2>5. faults \in [count : 0 .. MaxFaults, kinds : SUBSET FaultKinds]
    BY <1>1, BroadcastAssumption
  <2>6. \A b \in Broadcasts : bc[b].status \notin Ended
    BY <1>1 DEF Ended
  <2>7. today \in 1 .. LastDay /\ early \in SUBSET Broadcasts
    BY <1>1, BroadcastAssumption
  <2> QED
    BY <1>1, <2>1, <2>2, <2>3, <2>4, <2>5, <2>6, <2>7, TypeFacts
<1>3. /\ CallOK(Unsent) /\ ~Works(Unsent) /\ Unsent.b = {} /\ Unsent.good = {} /\ Unsent.sent = {}
  BY <1>1 DEF CallOK, Works, Unsent
<1>4. \A s \in Sends, b \in Broadcasts : ~Live(s, b) /\ ~Working(s, b)
  BY <1>1, <1>3 DEF Live, Working, Sending
<1>5. ASSUME NEW b \in Broadcasts PROVE About(b)
  <2>1. Alone(b)
    BY <1>1, <1>3, <1>4 DEF Alone
  <2>2. Reached(b)
    BY <1>1, <1>3, <1>4 DEF Reached
  <2>3. Rows(b)
    BY <1>1, <1>4 DEF Rows
  <2>4. Charges(b)
    BY <1>1, <1>4 DEF Charges
  <2>5. Clean(b)
    BY <1>1, <1>4, BroadcastAssumption DEF Clean, Ended
  <2> QED
    BY <2>1, <2>2, <2>3, <2>4, <2>5 DEF About
<1>6. Capped
  <2>1. \A d \in 1 .. LastDay : Share(d) = {}
    BY <1>1 DEF Share
  <2>2. IsFiniteSet({}) /\ Cardinality({}) <= DailyLimit
    BY FS_EmptySet, BroadcastAssumption
  <2>3. ASSUME NEW d \in 1 .. LastDay
        PROVE  IsFiniteSet(Share(d)) /\ Cardinality(Share(d)) <= DailyLimit
    <3> HIDE DEF Share
    <3>1. Share(d) = {}
      BY <2>1
    <3> QED
      BY <2>2, <3>1
  <2> QED
    BY <2>3 DEF Capped
<1> QED
  BY <1>1, <1>2, <1>3, <1>5, <1>6 DEF SenderInv

LEMMA SenderInvHolds == Spec => []SenderInv
  BY InitHolds, NextKeeps, PTL DEF Spec

(***************************************************************************)
(* The theorems                                                            *)
(***************************************************************************)
\* Every row, call and counter has its type in every reachable state, for any
\* audience, limits and faults.
THEOREM BroadcastTypeCorrect == Spec => []TypeOK
<1>1. SenderInv => TypeOK
  BY DEF SenderInv
<1> QED
  BY <1>1, SenderInvHolds, PTL

\* The broadcasts that the agent's calls moved to 'sending' on one day reach no more
\* customers than the daily cap allows, however many calls of send() overlap or
\* die: Move compares the cap in the statement that changes the status.
THEOREM CapIsKept == Spec => []CapKept
<1>1. ASSUME SenderInv PROVE CapKept
  <2> SUFFICES ASSUME NEW d \in 1 .. LastDay
               PROVE  Cardinality({x \in (Broadcasts \ early) \X Customers :
                        charged[x[1]] = d /\ got[x[1]][x[2]] > 0}) <= DailyLimit
    BY DEF CapKept
  <2> DEFINE G == {x \in (Broadcasts \ early) \X Customers :
                        charged[x[1]] = d /\ got[x[1]][x[2]] > 0}
             S == Share(d)
  <2>1. G \in SUBSET S
    BY DEF Share
  <2>2. IsFiniteSet(S) /\ Cardinality(S) <= DailyLimit
    BY <1>1 DEF SenderInv, Capped
  <2> HIDE DEF G, S
  <2>3. /\ Cardinality(G) <= Cardinality(S)
        /\ Cardinality(G) \in Nat /\ Cardinality(S) \in Nat
    BY <2>1, <2>2, FS_Subset, FS_CardinalityType
  <2>4. Cardinality(G) <= DailyLimit
    BY <2>2, <2>3, BroadcastAssumption
  <2> QED
    BY <2>4 DEF G
<1> QED
  BY <1>1, SenderInvHolds, PTL

\* Whoever is marked sent, or has the broadcast in the conversation, received it,
\* except of a broadcast without a text that was sent before its images were stored.
THEOREM SentMarksAreTrue == Spec => []SentIsTrue
<1>1. SenderInv => SentIsTrue
  BY DEF SenderInv, About, Reached, SentIsTrue, Void
<1> QED
  BY <1>1, SenderInvHolds, PTL

\* Nobody receives a broadcast twice, unless LINE's own answer was lost.
THEOREM NobodyTwice == Spec => []AtMostOnce
<1>1. SenderInv => AtMostOnce
  BY DEF SenderInv, About, Reached, AtMostOnce
<1> QED
  BY <1>1, SenderInvHolds, PTL

\* Whoever is marked failed received nothing, unless D1 or LINE's answer failed.
THEOREM FailedMarksAreTrue == Spec => []FailedIsTrue
<1>1. ASSUME SenderInv PROVE FailedIsTrue
  <2>1. None({"d1", "line"}) => None({"d1"}) /\ None({"line"})
    BY DEF None
  <2> QED
    BY <1>1, <2>1 DEF SenderInv, About, Clean, FailedIsTrue
<1> QED
  BY <1>1, SenderInvHolds, PTL

\* A draft, also one that went back to draft, has reached nobody and can be sent.
THEOREM DraftsUntouched == Spec => []DraftIsUntouched
<1>1. SenderInv => DraftIsUntouched
  BY DEF SenderInv, About, Reached, Clean, DraftIsUntouched
<1> QED
  BY <1>1, SenderInvHolds, PTL

\* A finished broadcast's counts are those of its recipients, unless D1 failed.
THEOREM CountsAlwaysAgree == Spec => []CountsAgree
<1>1. SenderInv => CountsAgree
  BY DEF SenderInv, About, Clean, CountsAgree
<1> QED
  BY <1>1, SenderInvHolds, PTL

\* A broadcast in 'sending' has a call that works on it, unless D1 failed or an
\* isolate died.
THEOREM NeverStuckAlways == Spec => []NeverStuck
<1>1. ASSUME SenderInv PROVE NeverStuck
  <2>1. None({"d1", "crash"}) => None({"d1"}) /\ None({"crash"})
    BY DEF None
  <2>2. \A s \in Sends, b \in Broadcasts :
           Working(s, b) => send[s].b = {b} /\ send[s].stage \notin {"idle", "done"}
    BY DEF Working, Works
  <2> QED
    BY <1>1, <2>1, <2>2 DEF SenderInv, About, Clean, NeverStuck
<1> QED
  BY <1>1, SenderInvHolds, PTL

=============================================================================
