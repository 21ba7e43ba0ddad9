---------------------- MODULE MessageBroadcasterProofs ----------------------
(***************************************************************************)
(* The registry knows who is online, the queue is always drained, and no   *)
(* accepted event is lost, for all constants.                              *)
(***************************************************************************)
EXTENDS MessageBroadcaster, FiniteSetTheorems, NaturalsInduction, TLAPS

(***************************************************************************)
(* The inductive invariants                                                *)
(***************************************************************************)
Deliveries == [stage : {"none", "asked", "answered", "done"},
               answer : {"none", "live", "empty", "failed"}, same : BOOLEAN]
Probes == [Fans \cup {"batch"} -> [Targets -> Deliveries]]

\* The shapes of what the proofs look into.
Shapes ==
    /\ fan \in [Fans -> {"idle", "asks", "probing"}]
    /\ probe \in Probes
    /\ DOMAIN disk = {"queue", "retry", "users"}
    /\ sockets \in [Users -> Nat]
    /\ calls \in [Users -> Seq({"register", "unregister"})]
    /\ draining \in BOOLEAN /\ alarm \in BOOLEAN

\* Whoever has a socket is registered, or has been left out, or is about to register.
OnlineOrComing ==
    \A u \in Users : sockets[u] > 0 =>
        u \in users \cup astray \/ "register" \in Range(calls[u])

\* If a question found no sockets and no registration has come since, there are none,
\* or the user has been left out, or is about to register.
EmptyIsTrue ==
    \A f \in Fans, u \in Users :
        probe[f][u].answer = "empty" =>
            /\ probe[f][u].stage # "none"
            /\ probe[f][u].same =>
                  sockets[u] = 0 \/ u \in astray \/ "register" \in Range(calls[u])

RegistryInv ==
    /\ Shapes /\ OnlineOrComing /\ EmptyIsTrue
    /\ disk.users = users

\* The batch is delivered only while the drain runs.
BatchIsDrained == ~draining => fan["global"] = "idle" /\ probe["batch"] = Quiet

\* Without an alarm or a drain only events that were never accepted are waiting.
UnarmedQueue ==
    ~draining /\ ~alarm =>
        queue \in Seq(Events \ acked) /\ disk.queue \in Seq(Events \ acked)

DrainInv == Shapes /\ BatchIsDrained /\ UnarmedQueue

(***************************************************************************)
(* Sequences                                                               *)
(***************************************************************************)
\* A call that is answered is no longer waited for, and the others still are.
LEMMA Removed ==
    ASSUME NEW S, NEW s \in Seq(S), NEW i \in DOMAIN s
    PROVE  /\ RemoveAt(s, i) \in Seq(S)
           /\ \A x \in Range(s) : x # s[i] => x \in Range(RemoveAt(s, i))
<1>1. i \in 1..Len(s) /\ Len(s) \in Nat
  OBVIOUS
<1> DEFINE a == SubSeq(s, 1, i - 1)
           b == SubSeq(s, i + 1, Len(s))
<1>2. /\ a \in Seq(S) /\ Len(a) = i - 1 /\ \A j \in 1..(i - 1) : a[j] = s[j]
  BY <1>1
<1>3. /\ b \in Seq(S) /\ Len(b) = Len(s) - i
      /\ \A j \in 1..(Len(s) - i) : b[j] = s[i + j]
  BY <1>1
<1>4. RemoveAt(s, i) = a \o b
  BY DEF RemoveAt
<1> HIDE DEF a, b
<1>5. /\ a \o b \in Seq(S) /\ DOMAIN (a \o b) = 1..(Len(s) - 1)
      /\ \A j \in 1..(i - 1) : (a \o b)[j] = s[j]
      /\ \A j \in i..(Len(s) - 1) : (a \o b)[j] = s[j + 1]
  BY <1>1, <1>2, <1>3
<1>6. ASSUME NEW x \in Range(s), x # s[i]
      PROVE  x \in Range(RemoveAt(s, i))
  <2>1. PICK j \in 1..Len(s) : s[j] = x
    BY DEF Range
  <2>2. CASE j < i
    <3>1. j \in 1..(i - 1) /\ j \in 1..(Len(s) - 1)
      BY <1>1, <2>1, <2>2
    <3>2. j \in DOMAIN (a \o b) /\ (a \o b)[j] = x
      BY <1>5, <2>1, <3>1
    <3> QED
      BY <1>4, <3>2 DEF Range
  <2>3. CASE j > i
    <3>1. j - 1 \in 1..(Len(s) - 1) /\ j - 1 \in i..(Len(s) - 1) /\ (j - 1) + 1 = j
      BY <1>1, <2>1, <2>3
    <3>2. (a \o b)[j - 1] = s[(j - 1) + 1]
      BY <1>5, <3>1
    <3>3. j - 1 \in DOMAIN (a \o b) /\ (a \o b)[j - 1] = x
      BY <1>5, <2>1, <3>1, <3>2
    <3> QED
      BY <1>4, <3>3 DEF Range
  <2> QED
    BY <1>1, <1>6, <2>1, <2>2, <2>3
<1> QED
  BY <1>4, <1>5, <1>6

LEMMA Appended ==
    ASSUME NEW S, NEW s \in Seq(S), NEW x \in S
    PROVE  /\ Append(s, x) \in Seq(S) /\ x \in Range(Append(s, x))
           /\ Range(s) \subseteq Range(Append(s, x))
<1>1. /\ Append(s, x) \in Seq(S) /\ Len(Append(s, x)) = Len(s) + 1
      /\ \A j \in 1..Len(s) : Append(s, x)[j] = s[j]
      /\ Append(s, x)[Len(s) + 1] = x
  OBVIOUS
<1> QED
  BY <1>1 DEF Range

LEMMA KeptIsSeq ==
    ASSUME NEW S, NEW s \in Seq(S)
    PROVE  Kept(s) \in Seq(S)
<1>1. BatchSize \in Nat
  BY BroadcasterAssumption
<1> QED
  BY <1>1 DEF Kept

(***************************************************************************)
(* Deliveries                                                              *)
(***************************************************************************)
LEMMA DeliveryShapes ==
    /\ NoProbe \in Deliveries /\ Asked \in Deliveries /\ Refused \in Deliveries
    /\ Quiet \in [Targets -> Deliveries]
    /\ \A s : Opened(s) \in [Targets -> Deliveries]
  BY DEF NoProbe, Asked, Refused, Quiet, Opened, Deliveries

\* The deliveries q are those of p, but for some that are over.
Closing(p, q) ==
    \A g \in Fans \cup {"batch"}, v \in Targets :
        \/ q[g][v] = p[g][v]
        \/ /\ q[g][v].stage = "done"
           /\ q[g][v].answer = "empty" =>
                 p[g][v].answer = "empty" /\ q[g][v].same = p[g][v].same

LEMMA ClosedFacts ==
    ASSUME NEW p \in Probes, NEW f \in Fans \cup {"batch"}, NEW t \in Targets
    PROVE  Closed(p, f, t) \in Probes /\ Closing(p, Closed(p, f, t))
<1> DEFINE d == p[f][t]
           n == IF f \in Fans /\ d.answer = "empty" THEN [d EXCEPT !.stage = "done"]
                ELSE [stage |-> "done", answer |-> "none", same |-> TRUE]
<1>1. d \in Deliveries
  BY DEF Probes
<1>2. /\ n \in Deliveries /\ n.stage = "done"
      /\ n.answer = "empty" => d.answer = "empty" /\ n.same = d.same
  BY <1>1 DEF Deliveries
<1>3. Closed(p, f, t) = [p EXCEPT ![f] = [p[f] EXCEPT ![t] = n]]
  BY DEF Closed, Probes
<1> HIDE DEF n
<1> QED
  BY <1>2, <1>3 DEF Probes, Closing

\* What a registration of u does to all deliveries.
LEMMA BumpedFacts ==
    ASSUME probe \in Probes, NEW u \in Users
    PROVE  /\ Bumped(u) \in Probes
           /\ \A g \in Fans \cup {"batch"}, v \in Targets :
                 /\ Bumped(u)[g][v].stage = probe[g][v].stage
                 /\ Bumped(u)[g][v].answer = probe[g][v].answer
                 /\ Bumped(u)[g][v].same => probe[g][v].same
           /\ \A g \in Fans : probe[g][u].stage # "none" => ~Bumped(u)[g][u].same
<1>1. u \in Targets
  BY DEF Targets
<1>2. \A g \in Fans \cup {"batch"} :
         /\ [probe[g] EXCEPT ![u].same = FALSE] \in [Targets -> Deliveries]
         /\ \A v \in Targets :
               /\ [probe[g] EXCEPT ![u].same = FALSE][v].stage = probe[g][v].stage
               /\ [probe[g] EXCEPT ![u].same = FALSE][v].answer = probe[g][v].answer
               /\ [probe[g] EXCEPT ![u].same = FALSE][v].same => probe[g][v].same
         /\ ~[probe[g] EXCEPT ![u].same = FALSE][u].same
  <2> TAKE g \in Fans \cup {"batch"}
  <2> DEFINE n == [probe[g][u] EXCEPT !.same = FALSE]
  <2>1. probe[g] \in [Targets -> Deliveries] /\ probe[g][u] \in Deliveries
    BY <1>1 DEF Probes
  <2>2. /\ n \in Deliveries /\ n.same = FALSE
        /\ n.stage = probe[g][u].stage /\ n.answer = probe[g][u].answer
    BY <2>1 DEF Deliveries
  <2>3. [probe[g] EXCEPT ![u].same = FALSE] = [probe[g] EXCEPT ![u] = n]
    BY <2>1
  <2> HIDE DEF n
  <2> QED
    BY <1>1, <2>1, <2>2, <2>3
<1> QED
  BY <1>1, <1>2 DEF Bumped, Probes

\* What an answer does.
AnsweredBy(f, u, answer) ==
    [probe EXCEPT ![f][u].stage = "answered", ![f][u].answer = answer]

LEMMA AnsweredFacts ==
    ASSUME probe \in Probes, NEW f \in Fans \cup {"batch"}, NEW u \in Users,
           NEW answer \in {"live", "empty", "failed"}
    PROVE  LET q == AnsweredBy(f, u, answer)
           IN /\ q \in Probes
              /\ \A g \in Fans \cup {"batch"}, v \in Targets :
                    <<g, v>> # <<f, u>> => q[g][v] = probe[g][v]
              /\ q[f][u].stage = "answered" /\ q[f][u].answer = answer
<1> DEFINE n == [[probe[f][u] EXCEPT !.stage = "answered"] EXCEPT !.answer = answer]
           q == AnsweredBy(f, u, answer)
<1>1. u \in Targets /\ probe[f] \in [Targets -> Deliveries] /\ probe[f][u] \in Deliveries
  BY DEF Targets, Probes
<1>2. n \in Deliveries /\ n.stage = "answered" /\ n.answer = answer
  BY <1>1 DEF Deliveries
<1>3. q = [probe EXCEPT ![f] = [probe[f] EXCEPT ![u] = n]]
  BY <1>1 DEF AnsweredBy, Probes
<1> HIDE DEF n, q
<1>4. /\ q \in Probes /\ q[f] = [probe[f] EXCEPT ![u] = n]
      /\ \A g \in Fans \cup {"batch"} : g # f => q[g] = probe[g]
  BY <1>1, <1>2, <1>3 DEF Probes
<1>5. q[f][u] = n /\ \A v \in Targets : v # u => q[f][v] = probe[f][v]
  BY <1>1, <1>4
<1>6. \A g \in Fans \cup {"batch"}, v \in Targets :
         <<g, v>> # <<f, u>> => q[g][v] = probe[g][v]
  BY <1>4, <1>5
<1> QED
  BY <1>2, <1>4, <1>5, <1>6 DEF q

(***************************************************************************)
(* The shapes                                                              *)
(***************************************************************************)
LEMMA ShapesInit == Init => Shapes
<1>1. ASSUME Init PROVE probe \in Probes
  BY <1>1, DeliveryShapes DEF Init, Probes
<1>2. <<>> \in Seq({"register", "unregister"})
  OBVIOUS
<1>3. ASSUME Init
      PROVE  /\ fan \in [Fans -> {"idle", "asks", "probing"}]
             /\ DOMAIN disk = {"queue", "retry", "users"}
             /\ sockets \in [Users -> Nat] /\ draining \in BOOLEAN /\ alarm \in BOOLEAN
  BY <1>3 DEF Init
<1>4. ASSUME Init PROVE calls \in [Users -> Seq({"register", "unregister"})]
  BY <1>2, <1>4 DEF Init
<1> QED
  BY <1>1, <1>3, <1>4 DEF Shapes

LEMMA LoadedShapes ==
    ASSUME Shapes, NEW d, Loaded(d)
    PROVE  probe' \in Probes /\ fan' \in [Fans -> {"idle", "asks", "probing"}]
           /\ draining' = FALSE /\ probe' = [f \in Fans \cup {"batch"} |-> Quiet]
           /\ fan' = [f \in Fans |-> "idle"]
<1>1. DOMAIN probe = Fans \cup {"batch"}
  BY DEF Shapes, Probes
<1> QED
  BY <1>1, DeliveryShapes DEF Loaded, Probes

LEMMA ShapesStep ==
    ASSUME Shapes, [Next]_vars
    PROVE  Shapes'
<1> USE DEF Shapes
<1>1. ASSUME NEW e \in Events, Broadcast(e)
      PROVE  Shapes'
  BY <1>1 DEF Broadcast, Queued, Stored, presenceVars
<1>2. ASSUME NEW e \in Events, BroadcastDies(e)
      PROVE  Shapes'
  <2>1. probe' \in Probes
    BY <1>2, DeliveryShapes DEF BroadcastDies, Probes
  <2> QED
    BY <1>2, <2>1 DEF BroadcastDies, Queued, Stored, presenceVars
<1>3. CASE DrainBegins
  <2>1. probe' \in Probes
    BY <1>3, DeliveryShapes DEF DrainBegins, BatchTaken, Probes
  <2>2. fan' \in [Fans -> {"idle", "asks", "probing"}]
    BY <1>3 DEF DrainBegins, BatchTaken, Fans
  <2> QED
    BY <1>3, <2>1, <2>2 DEF DrainBegins, BatchTaken, presenceVars
<1>4. CASE DrainEnds
  <2>1. probe' \in Probes
    BY <1>4, DeliveryShapes DEF DrainEnds, BatchDone, Probes
  <2>2. alarm' \in BOOLEAN
    BY <1>4 DEF DrainEnds
  <2> QED
    BY <1>4, <2>1, <2>2 DEF DrainEnds, BatchDone, Stored, presenceVars
<1>5. ASSUME NEW f \in Fans, FanProbes(f)
      PROVE  Shapes'
  <2>1. probe' \in Probes
    BY <1>5, DeliveryShapes DEF FanProbes, Probes
  <2> QED
    BY <1>5, <2>1 DEF FanProbes, queueVars, presenceVars
<1>6. ASSUME NEW f \in Fans, FanEnds(f)
      PROVE  Shapes'
  <2>1. probe' \in Probes
    BY <1>6, DeliveryShapes DEF FanEnds, Probes
  <2> QED
    BY <1>6, <2>1 DEF FanEnds, StoredIds, presenceVars
<1>7. ASSUME NEW f \in Fans \cup {"batch"}, NEW u \in Users, Answer(f, u)
      PROVE  Shapes'
  <2>1. probe' \in Probes
    <3>1. PICK answer \in {"live", "empty", "failed"} :
             probe' = AnsweredBy(f, u, answer)
      BY <1>7 DEF Answer, AnsweredBy
    <3> QED
      BY <3>1, AnsweredFacts
  <2> QED
    BY <1>7, <2>1 DEF Answer, presenceVars
<1>8. ASSUME NEW f \in Fans \cup {"batch"}, NEW u \in Users, ReturnLive(f, u)
      PROVE  Shapes'
  <2>1. probe' \in Probes
    <3>1. Bumped(u) \in Probes /\ u \in Targets
      BY BumpedFacts DEF Targets
    <3>2. Closed(probe, f, u) \in Probes /\ Closed(Bumped(u), f, u) \in Probes
      BY <3>1, ClosedFacts
    <3> QED
      BY <1>8, <3>2 DEF ReturnLive
  <2> QED
    BY <1>8, <2>1 DEF ReturnLive, StoredIds, queueVars, presenceVars
<1>9. ASSUME NEW f \in Fans \cup {"batch"}, NEW t \in Users \cup Rooms, ReturnOther(f, t)
      PROVE  Shapes'
  <2>1. probe' \in Probes
    BY <1>9, ClosedFacts DEF ReturnOther, Targets
  <2> QED
    BY <1>9, <2>1 DEF ReturnOther, presenceVars
<1>10. CASE DirectBegins
  BY <1>10 DEF DirectBegins, queueVars, presenceVars, Fans
<1>11. ASSUME NEW f \in Fans, FanThrows(f)
       PROVE  Shapes'
  BY <1>11 DEF FanThrows, presenceVars
<1>12. ASSUME NEW u \in Users, Connect(u)
       PROVE  Shapes'
  <2>1. Append(calls[u], "register") \in Seq({"register", "unregister"})
    BY Appended
  <2>2. calls' \in [Users -> Seq({"register", "unregister"})]
    BY <1>12, <2>1 DEF Connect
  <2> QED
    BY <1>12, <2>2 DEF Connect, queueVars
<1>13. ASSUME NEW u \in Users, Disconnect(u)
       PROVE  Shapes'
  <2>1. Append(calls[u], "unregister") \in Seq({"register", "unregister"})
    BY Appended
  <2>2. calls' \in [Users -> Seq({"register", "unregister"})]
    BY <1>13, <2>1 DEF Disconnect
  <2> QED
    BY <1>13, <2>2 DEF Disconnect, queueVars
<1>14. ASSUME NEW u \in Users, Vanish(u)
       PROVE  Shapes'
  BY <1>14 DEF Vanish, queueVars
<1>15. ASSUME NEW u \in Users, NEW i \in 1..MaxCalls, Answered(u, i)
       PROVE  calls' \in [Users -> Seq({"register", "unregister"})]
  BY <1>15, Removed DEF Answered
<1>16. ASSUME NEW u \in Users, NEW i \in 1..MaxCalls, Register(u, i)
       PROVE  Shapes'
  BY <1>15, <1>16, BumpedFacts DEF Register, StoredIds, queueVars
<1>17. ASSUME NEW u \in Users, NEW i \in 1..MaxCalls, Unregister(u, i)
       PROVE  Shapes'
  BY <1>15, <1>17 DEF Unregister, StoredIds, queueVars
<1>18. ASSUME NEW u \in Users, NEW i \in 1..MaxCalls, CallFails(u, i)
       PROVE  Shapes'
  BY <1>15, <1>18 DEF CallFails, queueVars
<1>19. CASE Evict
  BY <1>19, LoadedShapes DEF Evict, presenceVars
<1>20. CASE Crash
  BY <1>20, LoadedShapes DEF Crash, presenceVars
<1>21. CASE UNCHANGED vars
  BY <1>21 DEF vars, queueVars, presenceVars
<1> QED
  BY <1>1, <1>2, <1>3, <1>4, <1>5, <1>6, <1>7, <1>8, <1>9, <1>10, <1>11, <1>12, <1>13,
     <1>14, <1>16, <1>17, <1>18, <1>19, <1>20, <1>21
     DEF Next, Drain, Direct, Presence, Fans

(***************************************************************************)
(* The registry                                                            *)
(***************************************************************************)
\* Steps that change neither the registry nor the users' objects.
LEMMA RegistryFrame ==
    ASSUME RegistryInv, Shapes', users' = users, disk'.users = users,
           UNCHANGED <<sockets, calls, astray>>,
           \A f \in Fans, v \in Users : probe'[f][v].answer = "empty" =>
              /\ probe'[f][v].stage # "none"
              /\ probe'[f][v].same =>
                    \/ probe[f][v].answer = "empty" /\ probe[f][v].same
                    \/ sockets[v] = 0
    PROVE  RegistryInv'
<1>1. OnlineOrComing'
  BY DEF RegistryInv, OnlineOrComing
<1>2. EmptyIsTrue'
  BY DEF RegistryInv, EmptyIsTrue
<1> QED
  BY <1>1, <1>2 DEF RegistryInv

\* Steps by which u enters the registry: its deliveries see it.
LEMMA RegistryEntered ==
    ASSUME RegistryInv, Shapes', NEW u \in Users, Enters(u), disk' = StoredIds,
           UNCHANGED sockets,
           \A v \in Users : Range(calls[v]) \ Range(calls'[v]) = {} \/ v = u,
           \A f \in Fans, v \in Users : probe'[f][v].answer = "empty" =>
              /\ probe'[f][v].stage # "none"
              /\ probe'[f][v].same => /\ probe[f][v].answer = "empty" /\ probe[f][v].same
                                      /\ v # u
    PROVE  RegistryInv'
<1>1. OnlineOrComing'
  BY DEF RegistryInv, OnlineOrComing, Enters
<1>2. EmptyIsTrue'
  BY DEF RegistryInv, EmptyIsTrue, Enters
<1>3. disk'.users = users'
  BY DEF RegistryInv, Shapes, StoredIds
<1> QED
  BY <1>1, <1>2, <1>3 DEF RegistryInv

\* A call of u that is not a registration is answered, or one is and u is left out.
LEMMA RegistryAnswered ==
    ASSUME RegistryInv, Shapes', NEW u \in Users, NEW i \in 1..MaxCalls, Answered(u, i),
           UNCHANGED <<sockets, probe>>, users' \in {users, users \ {u}},
           disk'.users = users', astray \subseteq astray',
           calls[u][i] = "register" => u \in astray',
           users' # users /\ sockets[u] > 0 => u \in astray'
    PROVE  RegistryInv'
<1>1. \A v \in Users : "register" \in Range(calls[v]) =>
         "register" \in Range(calls'[v]) \/ v \in astray'
  <2>1. calls[u] \in Seq({"register", "unregister"}) /\ i \in DOMAIN calls[u]
    BY DEF RegistryInv, Shapes, Answered
  <2>2. \A x \in Range(calls[u]) : x # calls[u][i] => x \in Range(RemoveAt(calls[u], i))
    BY <2>1, Removed
  <2>3. calls'[u] = RemoveAt(calls[u], i) /\ \A v \in Users : v # u => calls'[v] = calls[v]
    BY DEF RegistryInv, Shapes, Answered
  <2> QED
    BY <2>2, <2>3
<1>2. \A v \in Users : v \in users => v \in users' \/ (v = u /\ users' # users)
  OBVIOUS
<1>3. OnlineOrComing'
  BY <1>1, <1>2 DEF RegistryInv, OnlineOrComing
<1>4. EmptyIsTrue'
  BY <1>1 DEF RegistryInv, EmptyIsTrue
<1> QED
  BY <1>3, <1>4 DEF RegistryInv

LEMMA QuietIsQuiet ==
    \A v \in Users : Quiet[v].answer # "empty" /\ NoProbe.answer # "empty" /\ Asked.answer # "empty"
  BY DEF Quiet, NoProbe, Asked, Targets

LEMMA RegistryInit == Init => RegistryInv
<1>1. ASSUME Init, NEW f \in Fans, NEW v \in Users PROVE probe[f][v].answer # "empty"
  BY <1>1, QuietIsQuiet DEF Init
<1>2. Init => OnlineOrComing
  BY DEF Init, OnlineOrComing
<1>3. Init => EmptyIsTrue
  BY <1>1 DEF EmptyIsTrue
<1>4. Init => disk.users = users
  BY DEF Init
<1> QED
  BY <1>2, <1>3, <1>4, ShapesInit DEF RegistryInv

LEMMA RegistryStep ==
    ASSUME RegistryInv, [Next]_vars
    PROVE  RegistryInv'
<1>0. Shapes /\ Shapes' /\ disk.users = users /\ users = disk.users /\ probe \in Probes
  BY ShapesStep DEF RegistryInv, Shapes
<1>a. DOMAIN disk = {"queue", "retry", "users"} /\ DOMAIN probe = Fans \cup {"batch"}
      /\ Fans = {"global", "direct"} /\ Users \subseteq Targets /\ Rooms \subseteq Targets
  BY <1>0 DEF Shapes, Probes, Fans, Targets
<1>b. \A f \in Fans, v \in Users : probe[f][v].answer = "empty" => probe[f][v].stage # "none"
  BY DEF RegistryInv, EmptyIsTrue
<1>1. ASSUME NEW e \in Events, Broadcast(e)
      PROVE  RegistryInv'
  BY <1>0, <1>1, <1>b, RegistryFrame DEF Broadcast, Queued, Stored, presenceVars
<1>2. ASSUME NEW e \in Events, BroadcastDies(e)
      PROVE  RegistryInv'
  <2>1. \A f \in Fans, v \in Users : probe'[f][v].answer # "empty"
    BY <1>2, <1>a, QuietIsQuiet DEF BroadcastDies
  <2> QED
    BY <1>0, <1>2, <2>1, RegistryFrame DEF BroadcastDies, Queued, Stored, presenceVars
<1>3. CASE DrainBegins
  <2>1. \A f \in Fans : probe'[f] = probe[f]
    BY <1>3, <1>a DEF DrainBegins, BatchTaken
  <2> QED
    BY <1>0, <1>3, <1>b, <2>1, RegistryFrame DEF DrainBegins, BatchTaken, presenceVars
<1>4. CASE DrainEnds
  <2>1. \A f \in Fans : probe'[f] = probe[f]
    BY <1>4, <1>a DEF DrainEnds, BatchDone
  <2> QED
    BY <1>0, <1>4, <1>b, <2>1, RegistryFrame DEF DrainEnds, BatchDone, Stored, presenceVars
<1>5. ASSUME NEW f \in Fans, FanProbes(f)
      PROVE  RegistryInv'
  <2>1. \A g \in Fans, v \in Users : probe'[g][v] = probe[g][v] \/ probe'[g][v].answer # "empty"
    BY <1>5, <1>a, QuietIsQuiet DEF FanProbes
  <2> QED
    BY <1>0, <1>5, <1>b, <2>1, RegistryFrame DEF FanProbes, presenceVars
<1>6. ASSUME NEW f \in Fans, FanEnds(f)
      PROVE  RegistryInv'
  <2>1. \A g \in Fans, v \in Users : probe'[g][v] = probe[g][v] \/ probe'[g][v].answer # "empty"
    BY <1>6, <1>a, QuietIsQuiet DEF FanEnds
  <2>2. UNCHANGED <<sockets, calls, astray>>
    BY <1>6 DEF FanEnds, presenceVars
  <2>3. \A v \in Users : v \in users =>
           v \in users' \/ sockets[v] = 0 \/ v \in astray \/ "register" \in Range(calls[v])
    BY <1>6 DEF FanEnds, Stale, RegistryInv, EmptyIsTrue
  <2>4. OnlineOrComing'
    <3> SUFFICES ASSUME NEW v \in Users, sockets[v] > 0
                 PROVE  v \in users' \cup astray \/ "register" \in Range(calls[v])
      BY <2>2 DEF OnlineOrComing
    <3>1. sockets[v] # 0
      BY <1>0 DEF Shapes
    <3> QED
      BY <2>3, <3>1 DEF RegistryInv, OnlineOrComing
  <2>5. EmptyIsTrue'
    BY <2>1, <2>2 DEF RegistryInv, EmptyIsTrue
  <2>6. disk'.users = users'
    <3>1. CASE Stale(f) = {}
      BY <1>0, <1>6, <3>1 DEF FanEnds
    <3>2. CASE Stale(f) # {}
      BY <1>a, <1>6, <3>2 DEF FanEnds, StoredIds
    <3> QED
      BY <3>1, <3>2
  <2> QED
    BY <1>0, <2>4, <2>5, <2>6 DEF RegistryInv
<1>7. ASSUME NEW f \in Fans \cup {"batch"}, NEW u \in Users, Answer(f, u)
      PROVE  RegistryInv'
  <2>1. PICK answer \in {"live", "empty", "failed"} :
           /\ probe' = AnsweredBy(f, u, answer)
           /\ answer = "empty" => ~(sockets[u] > 0)
    BY <1>7 DEF Answer, AnsweredBy
  <2>2. /\ \A g \in Fans, v \in Users : <<g, v>> # <<f, u>> => probe'[g][v] = probe[g][v]
        /\ probe'[f][u].stage = "answered" /\ probe'[f][u].answer = answer
    <3>1. /\ \A g \in Fans \cup {"batch"}, v \in Targets :
                <<g, v>> # <<f, u>> => probe'[g][v] = probe[g][v]
          /\ probe'[f][u].stage = "answered" /\ probe'[f][u].answer = answer
      BY <1>0, <2>1, AnsweredFacts
    <3> QED
      BY <1>a, <3>1
  <2>3. answer = "empty" => sockets[u] = 0
    BY <1>0, <2>1 DEF Shapes
  <2>4. UNCHANGED <<users, disk, sockets, calls, astray>>
    BY <1>7 DEF Answer, presenceVars
  <2>5. \A g \in Fans, v \in Users : probe'[g][v].answer = "empty" =>
           /\ probe'[g][v].stage # "none"
           /\ probe'[g][v].same =>
                 \/ probe[g][v].answer = "empty" /\ probe[g][v].same
                 \/ sockets[v] = 0
    <3> TAKE g \in Fans, v \in Users
    <3>1. CASE g = f /\ v = u
      BY <2>2, <2>3, <3>1
    <3>2. CASE ~(g = f /\ v = u)
      BY <1>b, <2>2, <3>2
    <3> QED
      BY <3>1, <3>2
  <2> QED
    BY <1>0, <2>4, <2>5, RegistryFrame
<1>8. ASSUME NEW f \in Fans \cup {"batch"}, NEW u \in Users, ReturnLive(f, u)
      PROVE  RegistryInv'
  <2>1. CASE u \in users
    <3>1. Closing(probe, probe')
      BY <1>0, <1>8, <1>a, <2>1, ClosedFacts DEF ReturnLive
    <3> QED
      BY <1>0, <1>8, <1>a, <1>b, <2>1, <3>1, RegistryFrame DEF ReturnLive, Closing, presenceVars
  <2>2. CASE u \notin users
    <3>1. /\ Bumped(u) \in Probes
          /\ \A g \in Fans, v \in Users :
                /\ Bumped(u)[g][v].stage = probe[g][v].stage
                /\ Bumped(u)[g][v].answer = probe[g][v].answer
                /\ Bumped(u)[g][v].same => probe[g][v].same
          /\ \A g \in Fans : probe[g][u].stage # "none" => ~Bumped(u)[g][u].same
      BY <1>0, <1>a, BumpedFacts
    <3>2. Closing(Bumped(u), probe')
      BY <1>8, <1>a, <2>2, <3>1, ClosedFacts DEF ReturnLive
    <3>3. \A g \in Fans, v \in Users : probe'[g][v].answer = "empty" =>
             /\ probe'[g][v].stage # "none"
             /\ probe'[g][v].same => /\ probe[g][v].answer = "empty" /\ probe[g][v].same
                                     /\ v # u
      BY <1>a, <1>b, <3>1, <3>2 DEF Closing
    <3> QED
      BY <1>0, <1>8, <2>2, <3>3, RegistryEntered DEF ReturnLive, presenceVars
  <2> QED
    BY <2>1, <2>2
<1>9. ASSUME NEW f \in Fans \cup {"batch"}, NEW t \in Users \cup Rooms, ReturnOther(f, t)
      PROVE  RegistryInv'
  <2>1. Closing(probe, probe')
    BY <1>0, <1>9, <1>a, ClosedFacts DEF ReturnOther
  <2> QED
    BY <1>0, <1>9, <1>a, <1>b, <2>1, RegistryFrame DEF ReturnOther, Closing, presenceVars
<1>10. CASE DirectBegins
  BY <1>0, <1>10, <1>b, RegistryFrame DEF DirectBegins, presenceVars
<1>11. ASSUME NEW f \in Fans, FanThrows(f)
       PROVE  RegistryInv'
  BY <1>0, <1>11, <1>b, RegistryFrame DEF FanThrows, presenceVars
<1>12. ASSUME NEW u \in Users, Connect(u)
       PROVE  RegistryInv'
  <2>1. \A v \in Users : /\ Range(calls[v]) \subseteq Range(calls'[v])
                         /\ sockets'[v] = sockets[v] \/ sockets[v] # 0
                            \/ "register" \in Range(calls'[v])
    <3>1. /\ Range(calls[u]) \subseteq Range(Append(calls[u], "register"))
          /\ "register" \in Range(Append(calls[u], "register"))
      BY <1>0, Appended DEF Shapes
    <3> QED
      BY <1>0, <1>12, <3>1 DEF Connect, Shapes
  <2>2. UNCHANGED <<probe, users, disk, astray>>
    BY <1>12 DEF Connect
  <2>3. OnlineOrComing'
    <3> SUFFICES ASSUME NEW v \in Users, sockets'[v] > 0
                 PROVE  v \in users \cup astray \/ "register" \in Range(calls'[v])
      BY <2>2 DEF OnlineOrComing
    <3>1. sockets[v] > 0 \/ "register" \in Range(calls'[v])
      BY <1>0, <2>1 DEF Shapes
    <3> QED
      BY <2>1, <3>1 DEF RegistryInv, OnlineOrComing
  <2>4. EmptyIsTrue'
    <3> SUFFICES ASSUME NEW f \in Fans, NEW v \in Users, probe[f][v].answer = "empty"
                 PROVE  /\ probe[f][v].stage # "none"
                        /\ probe[f][v].same => \/ sockets'[v] = 0 \/ v \in astray
                                               \/ "register" \in Range(calls'[v])
      BY <2>2 DEF EmptyIsTrue
    <3> QED
      BY <2>1 DEF RegistryInv, EmptyIsTrue
  <2> QED
    BY <1>0, <2>2, <2>3, <2>4 DEF RegistryInv
<1>13. ASSUME NEW u \in Users, Disconnect(u) \/ Vanish(u)
       PROVE  RegistryInv'
  <2>1. \A v \in Users : /\ Range(calls[v]) \subseteq Range(calls'[v])
                         /\ sockets'[v] > 0 => sockets[v] > 0
                         /\ sockets[v] = 0 => sockets'[v] = 0
    <3>1. calls[u] \in Seq({"register", "unregister"})
      BY <1>0 DEF Shapes
    <3>2. Range(calls[u]) \subseteq Range(Append(calls[u], "unregister"))
      BY <3>1, Appended
    <3>3. CASE Disconnect(u)
      BY <1>0, <3>2, <3>3 DEF Disconnect, Shapes
    <3>4. CASE Vanish(u)
      BY <1>0, <3>4 DEF Vanish, Shapes
    <3> QED
      BY <1>13, <3>3, <3>4
  <2>2. UNCHANGED <<probe, users, disk, astray>>
    BY <1>13 DEF Disconnect, Vanish
  <2>3. OnlineOrComing'
    BY <2>1, <2>2 DEF RegistryInv, OnlineOrComing
  <2>4. EmptyIsTrue'
    BY <2>1, <2>2 DEF RegistryInv, EmptyIsTrue
  <2> QED
    BY <1>0, <2>2, <2>3, <2>4 DEF RegistryInv
<1>14. ASSUME NEW u \in Users, NEW i \in 1..MaxCalls, Register(u, i)
       PROVE  RegistryInv'
  <2>1. \A v \in Users : v # u => calls'[v] = calls[v]
    BY <1>0, <1>14 DEF Register, Answered, Shapes
  <2>2. \A g \in Fans, v \in Users : probe'[g][v].answer = "empty" =>
           /\ probe'[g][v].stage # "none"
           /\ probe'[g][v].same => /\ probe[g][v].answer = "empty" /\ probe[g][v].same
                                   /\ v # u
    BY <1>0, <1>14, <1>a, <1>b, BumpedFacts DEF Register
  <2> QED
    BY <1>0, <1>14, <2>1, <2>2, RegistryEntered DEF Register
<1>15. ASSUME NEW u \in Users, NEW i \in 1..MaxCalls, Unregister(u, i)
       PROVE  RegistryInv'
  <2>1. disk'.users = users'
    BY <1>15, <1>a DEF Unregister, StoredIds
  <2> QED
    BY <1>0, <1>15, <2>1, RegistryAnswered DEF Unregister
<1>16. ASSUME NEW u \in Users, NEW i \in 1..MaxCalls, CallFails(u, i)
       PROVE  RegistryInv'
  BY <1>0, <1>16, RegistryAnswered DEF CallFails
<1>17. CASE Evict \/ Crash
  <2>1. Loaded(disk) /\ UNCHANGED <<disk, sockets, calls, astray>>
    BY <1>17 DEF Evict, Crash, presenceVars
  <2>2. \A f \in Fans, v \in Users : probe'[f][v].answer # "empty"
    BY <1>0, <2>1, LoadedShapes, QuietIsQuiet
  <2>3. users' = users
    BY <1>0, <2>1 DEF Loaded
  <2> QED
    BY <1>0, <2>1, <2>2, <2>3, RegistryFrame
<1>18. CASE UNCHANGED vars
  BY <1>0, <1>18, <1>b, RegistryFrame DEF vars, presenceVars
<1> QED
  BY <1>1, <1>2, <1>3, <1>4, <1>5, <1>6, <1>7, <1>8, <1>9, <1>10, <1>11, <1>12, <1>13,
     <1>14, <1>15, <1>16, <1>17, <1>18
     DEF Next, Drain, Direct, Presence, Fans

\* A user with a socket is in the registry unless a call failed, was late or is to come.
THEOREM RegistryIsRight == Spec => []OnlineAreRegistered
<1>1. RegistryInv => OnlineAreRegistered
  <2>1. Range(<<>>) = {}
    BY DEF Range
  <2> QED
    BY <2>1 DEF RegistryInv, OnlineOrComing, OnlineAreRegistered
<1> QED
  BY <1>1, RegistryInit, RegistryStep, PTL DEF Spec

(***************************************************************************)
(* The drain                                                               *)
(***************************************************************************)
\* A delivery that the drain has not made leaves the drain's deliveries alone.
LEMMA BatchApart ==
    ASSUME probe \in Probes, NEW p \in Probes, NEW f \in Fans, NEW t \in Targets,
           NEW u \in Users, NEW answer
    PROVE  /\ Closed(p, f, t)["batch"] = p["batch"]
           /\ Bumped(u)["batch"] = probe["batch"]
           /\ AnsweredBy(f, u, answer)["batch"] = probe["batch"]
<1>1. f # "batch" /\ "batch" \notin Fans
  BY DEF Fans
<1>2. Closed(p, f, t)["batch"] = p["batch"]
  BY <1>1 DEF Closed, Probes
<1>3. Bumped(u)["batch"] = probe["batch"]
  BY <1>1 DEF Bumped, Probes
<1>4. AnsweredBy(f, u, answer)["batch"] = probe["batch"]
  BY <1>1 DEF AnsweredBy, Probes
<1> QED
  BY <1>2, <1>3, <1>4

\* No delivery of the batch, and no global broadcast of it, is under way without a drain.
LEMMA NoBatch ==
    ASSUME DrainInv, ~draining, NEW t \in Targets
    PROVE  probe["batch"][t].stage = "none" /\ fan["global"] = "idle"
  BY DEF DrainInv, BatchIsDrained, Quiet, NoProbe

LEMMA DrainFrame ==
    ASSUME DrainInv, Shapes', UNCHANGED <<draining, alarm, acked>>,
           disk'.queue = disk.queue,
           ~draining => /\ fan'["global"] = fan["global"]
                        /\ probe'["batch"] = probe["batch"] /\ queue' = queue
    PROVE  DrainInv'
<1>1. BatchIsDrained'
  BY DEF DrainInv, BatchIsDrained, Quiet, NoProbe
<1>2. UnarmedQueue'
  BY DEF DrainInv, UnarmedQueue
<1> QED
  BY <1>1, <1>2 DEF DrainInv

LEMMA DrainInit == Init => DrainInv
<1>1. ASSUME Init
      PROVE  BatchIsDrained /\ UnarmedQueue
  <2>1. fan["global"] = "idle" /\ probe["batch"] = Quiet
    BY <1>1 DEF Init, Fans
  <2>2. queue = <<>> /\ disk.queue = <<>> /\ acked = {}
    BY <1>1 DEF Init
  <2>3. <<>> \in Seq(Events \ acked)
    OBVIOUS
  <2> QED
    BY <2>1, <2>2, <2>3 DEF BatchIsDrained, UnarmedQueue
<1> QED
  BY <1>1, ShapesInit DEF DrainInv

LEMMA DrainStep ==
    ASSUME DrainInv, [Next]_vars
    PROVE  DrainInv'
<1>0. Shapes /\ Shapes' /\ probe \in Probes
  BY ShapesStep DEF DrainInv, Shapes
<1>a. /\ DOMAIN disk = {"queue", "retry", "users"}
      /\ DOMAIN probe = Fans \cup {"batch"} /\ DOMAIN fan = Fans
      /\ Fans = {"global", "direct"} /\ Users \subseteq Targets /\ Rooms \subseteq Targets
  BY <1>0 DEF Shapes, Probes, Fans, Targets
<1>b. disk' = StoredIds \/ disk' = disk => disk'.queue = disk.queue
  BY <1>a DEF StoredIds
<1>1. ASSUME NEW e \in Events, Broadcast(e)
      PROVE  DrainInv'
  <2>1. alarm' /\ UNCHANGED <<draining, fan, probe>>
    BY <1>1 DEF Broadcast
  <2>2. BatchIsDrained' /\ UnarmedQueue'
    BY <2>1 DEF DrainInv, BatchIsDrained, UnarmedQueue, Quiet, NoProbe
  <2> QED
    BY <1>0, <2>2 DEF DrainInv
<1>2. ASSUME NEW e \in Events, BroadcastDies(e)
      PROVE  DrainInv'
  <2>1. fan'["global"] = "idle" /\ probe'["batch"] = Quiet
    BY <1>2, <1>a DEF BroadcastDies
  <2>2. ASSUME ~alarm'
        PROVE  queue' \in Seq(Events \ acked) /\ disk'.queue = queue' /\ acked' = acked
    <3>1. ~alarm /\ ~draining
      BY <1>2, <2>2 DEF BroadcastDies
    <3>2. queue \in Seq(Events \ acked) /\ e \in Events \ acked
      BY <1>2, <3>1 DEF DrainInv, UnarmedQueue, BroadcastDies, Queued
    <3>3. Append(queue, e) \in Seq(Events \ acked)
      BY <3>2, Appended
    <3>4. Kept(Append(queue, e)) \in Seq(Events \ acked)
      BY <3>3, KeptIsSeq
    <3> QED
      BY <1>2, <3>4 DEF BroadcastDies, Queued, Stored
  <2>3. BatchIsDrained' /\ UnarmedQueue'
    BY <2>1, <2>2 DEF BatchIsDrained, UnarmedQueue, Quiet, NoProbe
  <2> QED
    BY <1>0, <2>3 DEF DrainInv
<1>3. CASE DrainBegins
  <2>1. draining'
    BY <1>3 DEF DrainBegins, BatchTaken
  <2> QED
    BY <1>0, <2>1 DEF DrainInv, BatchIsDrained, UnarmedQueue
<1>4. CASE DrainEnds
  <2>1. fan'["global"] = "idle" /\ probe'["batch"] = Quiet
    BY <1>4, <1>a DEF DrainEnds, BatchDone
  <2>2. ~alarm' => queue' = <<>> /\ disk'.queue = <<>>
    BY <1>4 DEF DrainEnds, BatchDone, Stored
  <2>3. <<>> \in Seq(Events \ acked')
    OBVIOUS
  <2>4. BatchIsDrained' /\ UnarmedQueue'
    BY <2>1, <2>2, <2>3 DEF BatchIsDrained, UnarmedQueue, Quiet, NoProbe
  <2> QED
    BY <1>0, <2>4 DEF DrainInv
<1>5. ASSUME NEW f \in Fans, FanProbes(f) \/ FanEnds(f) \/ FanThrows(f)
      PROVE  DrainInv'
  <2>1. UNCHANGED <<draining, alarm, acked>> /\ disk'.queue = disk.queue
    BY <1>5, <1>b DEF FanProbes, FanEnds, FanThrows, queueVars
  <2>2. ASSUME ~draining
        PROVE  /\ fan'["global"] = fan["global"]
               /\ probe'["batch"] = probe["batch"] /\ queue' = queue
    <3>1. f = "direct"
      <4>1. fan["global"] = "idle"
        BY <2>2 DEF DrainInv, BatchIsDrained
      <4> QED
        BY <1>5, <1>a, <4>1 DEF FanProbes, FanEnds, FanThrows
    <3> QED
      BY <1>5, <1>a, <3>1 DEF FanProbes, FanEnds, FanThrows, queueVars
  <2> QED
    BY <1>0, <2>1, <2>2, DrainFrame
<1>6. ASSUME NEW f \in Fans \cup {"batch"}, NEW u \in Users, Answer(f, u)
      PROVE  DrainInv'
  <2>1. PICK answer : probe' = AnsweredBy(f, u, answer)
    BY <1>6 DEF Answer, AnsweredBy
  <2>2. ASSUME ~draining
        PROVE  probe'["batch"] = probe["batch"]
    <3>1. f \in Fans
      BY <1>6, <1>a, <2>2, NoBatch DEF Answer
    <3> QED
      BY <1>0, <1>a, <2>1, <3>1, BatchApart
  <2> QED
    BY <1>0, <1>6, <2>2, DrainFrame DEF Answer
<1>7. ASSUME NEW f \in Fans \cup {"batch"}, NEW u \in Users, ReturnLive(f, u)
      PROVE  DrainInv'
  <2>1. ASSUME ~draining
        PROVE  probe'["batch"] = probe["batch"]
    <3>1. f \in Fans
      BY <1>7, <1>a, <2>1, NoBatch DEF ReturnLive
    <3>2. Bumped(u) \in Probes /\ Bumped(u)["batch"] = probe["batch"]
      BY <1>0, <1>a, <3>1, BumpedFacts, BatchApart
    <3>3. /\ Closed(probe, f, u)["batch"] = probe["batch"]
          /\ Closed(Bumped(u), f, u)["batch"] = Bumped(u)["batch"]
      BY <1>0, <1>a, <3>1, <3>2, BatchApart
    <3> QED
      BY <1>7, <3>2, <3>3 DEF ReturnLive
  <2> QED
    BY <1>0, <1>7, <1>b, <2>1, DrainFrame DEF ReturnLive, queueVars
<1>8. ASSUME NEW f \in Fans \cup {"batch"}, NEW t \in Users \cup Rooms, ReturnOther(f, t)
      PROVE  DrainInv'
  <2>1. ASSUME ~draining
        PROVE  f \in Fans
    BY <1>8, <1>a, <2>1, NoBatch DEF ReturnOther
  <2>2. ASSUME ~draining
        PROVE  probe'["batch"] = probe["batch"] /\ queue' = queue
    <3>1. f \in Fans /\ f # "batch"
      BY <1>a, <2>1, <2>2
    <3>2. Closed(probe, f, t)["batch"] = probe["batch"]
      <4>1. f # "batch" /\ t \in Targets
        BY <1>a, <3>1
      <4> QED
        BY <1>0, <4>1 DEF Closed, Probes
    <3> QED
      BY <1>8, <3>1, <3>2 DEF ReturnOther
  <2> QED
    BY <1>0, <1>8, <2>2, DrainFrame DEF ReturnOther
<1>9. CASE DirectBegins
  <2>1. fan'["global"] = fan["global"]
    BY <1>9, <1>a DEF DirectBegins
  <2> QED
    BY <1>0, <1>9, <2>1, DrainFrame DEF DirectBegins, queueVars
<1>10. ASSUME NEW u \in Users, Connect(u) \/ Disconnect(u) \/ Vanish(u)
       PROVE  DrainInv'
  BY <1>0, <1>10, DrainFrame DEF Connect, Disconnect, Vanish, queueVars
<1>11. ASSUME NEW u \in Users, NEW i \in 1..MaxCalls, Register(u, i)
       PROVE  DrainInv'
  <2>1. probe'["batch"] = probe["batch"]
    BY <1>0, <1>11, <1>a DEF Register, Bumped
  <2> QED
    BY <1>0, <1>11, <1>b, <2>1, DrainFrame DEF Register, queueVars
<1>12. ASSUME NEW u \in Users, NEW i \in 1..MaxCalls, Unregister(u, i) \/ CallFails(u, i)
       PROVE  DrainInv'
  BY <1>0, <1>12, <1>b, DrainFrame DEF Unregister, CallFails, queueVars
<1>13. CASE Evict \/ Crash
  <2>1. /\ Loaded(disk) /\ disk' = disk /\ acked' = acked
        /\ alarm' = (alarm \/ draining)
    BY <1>0, <1>13 DEF Evict, Crash, Shapes
  <2>2. fan'["global"] = "idle" /\ probe'["batch"] = Quiet
    BY <1>0, <1>a, <2>1, LoadedShapes
  <2>3. ~alarm' => queue' \in Seq(Events \ acked') /\ disk'.queue \in Seq(Events \ acked')
    BY <2>1 DEF Loaded, DrainInv, UnarmedQueue
  <2>4. BatchIsDrained' /\ UnarmedQueue'
    BY <2>2, <2>3 DEF BatchIsDrained, UnarmedQueue, Quiet, NoProbe
  <2> QED
    BY <1>0, <2>4 DEF DrainInv
<1>14. CASE UNCHANGED vars
  BY <1>0, <1>14, DrainFrame DEF vars, queueVars
<1> QED
  BY <1>1, <1>2, <1>3, <1>4, <1>5, <1>6, <1>7, <1>8, <1>9, <1>10, <1>11, <1>12, <1>13, <1>14
     DEF Next, Drain, Direct, Presence, Fans

\* An accepted event in the queue is always followed by a drain: one runs, or an alarm is set.
THEOREM QueueIsArmed == Spec => []DrainIsArmed
<1>1. ASSUME DrainInv
      PROVE  DrainIsArmed
  <2> SUFFICES ASSUME ~draining, ~alarm
               PROVE  Range(queue) \cap acked = {}
    BY DEF DrainIsArmed
  <2>1. queue \in Seq(Events \ acked)
    BY <1>1 DEF DrainInv, UnarmedQueue
  <2> QED
    BY <2>1 DEF Range
<1> QED
  BY <1>1, DrainInit, DrainStep, PTL DEF Spec

(***************************************************************************)
(* No event is lost: filters and batches                                   *)
(***************************************************************************)
\* Induction over a sequence is by its first counterexample.
LEMMA Smallest ==
    ASSUME NEW T \in SUBSET Nat, T # {}
    PROVE  \E t \in T : \A x \in T : t <= x
<1> DEFINE R == {p \in Nat \X Nat : p[1] < p[2]}
<1>1. IsWellFoundedOn(R, Nat)
  BY NatLessThanWellFounded DEF OpToRel
<1>2. PICK t \in T : \A x \in T : ~(<<x, t>> \in R)
  <2> HIDE DEF R
  <2> QED BY <1>1, WFMin
<1> SUFFICES ASSUME NEW x \in T PROVE t <= x
  OBVIOUS
<1>3. t \in Nat /\ x \in Nat
  OBVIOUS
<1>4. ~(x < t)
  BY <1>2, <1>3
<1> HIDE DEF R
<1> QED BY <1>3, <1>4

LEMMA AppendRange ==
    ASSUME NEW S, NEW s \in Seq(S), NEW x \in S
    PROVE  Append(s, x) \in Seq(S) /\ Range(Append(s, x)) = Range(s) \cup {x}
<1>1. /\ Append(s, x) \in Seq(S) /\ DOMAIN Append(s, x) = 1..(Len(s) + 1)
      /\ \A j \in 1..Len(s) : Append(s, x)[j] = s[j]
      /\ Append(s, x)[Len(s) + 1] = x
      /\ Len(s) \in Nat /\ DOMAIN s = 1..Len(s)
  OBVIOUS
<1>2. 1..(Len(s) + 1) = (1..Len(s)) \cup {Len(s) + 1}
  BY <1>1
<1> QED BY <1>1, <1>2 DEF Range

LEMMA Joined ==
    ASSUME NEW S, NEW s \in Seq(S), NEW t \in Seq(S)
    PROVE  s \o t \in Seq(S) /\ Range(s \o t) = Range(s) \cup Range(t)
<1>1. /\ s \o t \in Seq(S) /\ DOMAIN (s \o t) = 1..(Len(s) + Len(t))
      /\ \A j \in 1..Len(s) : (s \o t)[j] = s[j]
      /\ \A j \in 1..Len(t) : (s \o t)[Len(s) + j] = t[j]
      /\ Len(s) \in Nat /\ DOMAIN s = 1..Len(s) /\ Len(t) \in Nat /\ DOMAIN t = 1..Len(t)
  OBVIOUS
<1>2. ASSUME NEW j \in 1..(Len(s) + Len(t))
      PROVE  (s \o t)[j] \in Range(s) \cup Range(t)
  <2>1. CASE j <= Len(s)
    BY <1>1, <2>1 DEF Range
  <2>2. CASE j > Len(s)
    <3>1. j - Len(s) \in 1..Len(t) /\ Len(s) + (j - Len(s)) = j
      BY <1>1, <2>2
    <3> QED BY <1>1, <3>1 DEF Range
  <2> QED BY <1>1, <2>1, <2>2
<1>3. ASSUME NEW j \in 1..Len(s)
      PROVE  s[j] \in Range(s \o t)
  <2>1. j \in DOMAIN (s \o t)
    BY <1>1
  <2> QED BY <1>1, <2>1 DEF Range
<1>4. ASSUME NEW j \in 1..Len(t)
      PROVE  t[j] \in Range(s \o t)
  <2>1. Len(s) + j \in DOMAIN (s \o t)
    BY <1>1
  <2> QED BY <1>1, <2>1 DEF Range
<1>5. Range(s \o t) \subseteq Range(s) \cup Range(t)
  <2> HIDE DEF Range
  <2>1. Range(s \o t) = {(s \o t)[j] : j \in 1..(Len(s) + Len(t))}
    BY <1>1 DEF Range
  <2> QED BY <1>2, <2>1
<1>6. Range(s) \subseteq Range(s \o t) /\ Range(t) \subseteq Range(s \o t)
  <2>1. Range(s) = {s[j] : j \in 1..Len(s)} /\ Range(t) = {t[j] : j \in 1..Len(t)}
    BY <1>1 DEF Range
  <2> QED BY <1>3, <1>4, <2>1
<1> QED BY <1>1, <1>5, <1>6

LEMMA Divided ==
    ASSUME NEW S, NEW s \in Seq(S), NEW n \in 0..Len(s)
    PROVE  /\ SubSeq(s, 1, n) \in Seq(S) /\ SubSeq(s, n + 1, Len(s)) \in Seq(S)
           /\ Range(s) = Range(SubSeq(s, 1, n)) \cup Range(SubSeq(s, n + 1, Len(s)))
<1> DEFINE a == SubSeq(s, 1, n)
           b == SubSeq(s, n + 1, Len(s))
<1>1. n \in Nat /\ Len(s) \in Nat /\ n <= Len(s) /\ DOMAIN s = 1..Len(s)
  OBVIOUS
<1>2. a \in Seq(S) /\ DOMAIN a = 1..n /\ \A j \in 1..n : a[j] = s[j]
  BY <1>1
<1>3. /\ b \in Seq(S) /\ DOMAIN b = 1..(Len(s) - n)
      /\ \A j \in 1..(Len(s) - n) : b[j] = s[n + j]
  BY <1>1
<1> HIDE DEF a, b
<1>4. Range(a) \cup Range(b) \subseteq Range(s)
  <2>1. ASSUME NEW j \in 1..n PROVE a[j] \in Range(s)
    BY <1>1, <1>2 DEF Range
  <2>2. ASSUME NEW j \in 1..(Len(s) - n) PROVE b[j] \in Range(s)
    <3>1. n + j \in 1..Len(s)
      BY <1>1
    <3> QED BY <1>1, <1>3, <3>1 DEF Range
  <2>3. Range(a) = {a[j] : j \in 1..n} /\ Range(b) = {b[j] : j \in 1..(Len(s) - n)}
    BY <1>2, <1>3 DEF Range
  <2> QED BY <2>1, <2>2, <2>3
<1>5. ASSUME NEW j \in 1..Len(s) PROVE s[j] \in Range(a) \cup Range(b)
  <2>1. CASE j <= n
    BY <1>1, <1>2, <2>1 DEF Range
  <2>2. CASE j > n
    <3>1. j - n \in 1..(Len(s) - n) /\ n + (j - n) = j
      BY <1>1, <2>2
    <3> QED BY <1>3, <3>1 DEF Range
  <2> QED BY <1>1, <2>1, <2>2
<1>6. Range(s) = {s[j] : j \in 1..Len(s)}
  BY <1>1 DEF Range
<1>7. Range(s) = Range(a) \cup Range(b)
  BY <1>4, <1>5, <1>6
<1> QED BY <1>2, <1>3, <1>7 DEF a, b

\* A full queue drops old events, never the one that has just come.
LEMMA KeptFacts ==
    ASSUME NEW S, NEW s \in Seq(S), NEW x \in S
    PROVE  LET q == Append(s, x)
           IN  /\ Kept(q) \in Seq(S) /\ x \in Range(Kept(q)) /\ Dropped(q) \subseteq S
               /\ Range(s) \subseteq Range(Kept(q)) \cup Dropped(q)
<1> DEFINE q == Append(s, x)
<1>1. /\ q \in Seq(S) /\ Len(q) = Len(s) + 1 /\ q[Len(q)] = x
      /\ Len(s) \in Nat /\ Len(q) \in Nat
  OBVIOUS
<1>2. Range(q) = Range(s) \cup {x}
  BY AppendRange
<1> HIDE DEF q
<1>3. CASE Len(q) > MaxQueue
  <2>1. BatchSize \in Nat /\ BatchSize <= MaxQueue /\ MaxQueue \in Nat
    BY BroadcasterAssumption
  <2>2. BatchSize \in 0..Len(q) /\ BatchSize < Len(q)
    BY <1>1, <1>3, <2>1
  <2> DEFINE a == SubSeq(q, 1, BatchSize)
             b == SubSeq(q, BatchSize + 1, Len(q))
  <2>3. a \in Seq(S) /\ b \in Seq(S) /\ Range(q) = Range(a) \cup Range(b)
    BY <1>1, <2>2, Divided
  <2>4. x \in Range(b)
    <3>1. /\ Len(b) = Len(q) - BatchSize
          /\ \A j \in 1..(Len(q) - BatchSize) : b[j] = q[BatchSize + j]
      BY <1>1, <2>1, <2>2
    <3>2. Len(q) - BatchSize \in 1..(Len(q) - BatchSize)
          /\ BatchSize + (Len(q) - BatchSize) = Len(q)
      BY <1>1, <2>1, <2>2
    <3> HIDE DEF b
    <3> DEFINE n == Len(q) - BatchSize
    <3>3. b[n] = q[BatchSize + n] /\ BatchSize + n = Len(q)
      BY <3>1, <3>2
    <3>4. DOMAIN b = 1..n
      BY <2>3, <3>1
    <3> HIDE DEF n
    <3>5. n \in DOMAIN b /\ b[n] = x
      BY <1>1, <3>2, <3>3, <3>4 DEF n
    <3> QED BY <3>5 DEF Range
  <2>5. Kept(q) = b /\ Dropped(q) = Range(a)
    BY <1>3 DEF Kept, Dropped
  <2>6. Range(a) \subseteq S
    BY <2>3 DEF Range
  <2> HIDE DEF a, b
  <2> QED BY <1>2, <2>3, <2>4, <2>5, <2>6 DEF q
<1>4. CASE ~(Len(q) > MaxQueue)
  BY <1>1, <1>2, <1>4 DEF Kept, Dropped, q
<1> QED BY <1>3, <1>4

\* What Select computes for the first n elements, and its first k values.
Chosen(s, E, f, n) ==
    IF n = 0 THEN <<>>
    ELSE IF s[n] \in E THEN Append(f[n - 1], s[n]) ELSE f[n - 1]

Selects(s, E, f, k) == f = [n \in 0..k |-> Chosen(s, E, f, n)]

LEMMA SelectExists ==
    ASSUME NEW s, NEW E, NEW k \in Nat
    PROVE  \E f : Selects(s, E, f, k)
<1> DEFINE T == {n \in Nat : ~\E f : Selects(s, E, f, n)}
<1> SUFFICES T = {}
  OBVIOUS
<1> SUFFICES ASSUME T # {} PROVE FALSE
  OBVIOUS
<1>1. PICK n \in T : \A x \in T : n <= x
  <2>1. T \in SUBSET Nat
    OBVIOUS
  <2> HIDE DEF T
  <2> QED BY <2>1, Smallest
<1>2. n \in Nat /\ ~\E f : Selects(s, E, f, n)
  OBVIOUS
<1>3. n # 0
  <2> DEFINE g == [i \in 0..0 |-> <<>>]
  <2>1. \A i \in 0..0 : Chosen(s, E, g, i) = <<>>
    BY DEF Chosen
  <2>2. Selects(s, E, g, 0)
    BY <2>1 DEF Selects
  <2> QED BY <1>2, <2>2
<1>4. PICK f : Selects(s, E, f, n - 1)
  <2>1. n - 1 \in Nat /\ ~(n <= n - 1)
    BY <1>2, <1>3
  <2> QED BY <1>1, <2>1
<1> DEFINE g == [i \in 0..n |-> IF i = n THEN Chosen(s, E, f, n) ELSE f[i]]
<1>5. ASSUME NEW i \in 0..n
      PROVE  g[i] = Chosen(s, E, g, i)
  <2>1. i # 0 => g[i - 1] = f[i - 1]
    BY <1>2, <1>3
  <2>2. Chosen(s, E, g, i) = Chosen(s, E, f, i)
    BY <2>1 DEF Chosen
  <2>3. i # n => f[i] = Chosen(s, E, f, i)
    <3>1. i # n => i \in 0..(n - 1)
      BY <1>2, <1>3
    <3> QED BY <1>4, <3>1 DEF Selects
  <2> QED BY <2>2, <2>3
<1>6. Selects(s, E, g, n)
  BY <1>5 DEF Selects
<1> QED BY <1>2, <1>6

\* The filter keeps exactly the events that it is to keep.
LEMMA SelectFacts ==
    ASSUME NEW S, NEW s \in Seq(S), NEW E
    PROVE  Select(s, E) \in Seq(S) /\ Range(Select(s, E)) = Range(s) \cap E
<1> DEFINE f == CHOOSE g : Selects(s, E, g, Len(s))
<1>1. Len(s) \in Nat /\ DOMAIN s = 1..Len(s)
  OBVIOUS
<1>2. Selects(s, E, f, Len(s))
  BY <1>1, SelectExists
<1>3. Select(s, E) = f[Len(s)]
  BY DEF Select, Selects, Chosen
<1> HIDE DEF f
<1> DEFINE Right(n) == /\ f[n] \in Seq(S)
                       /\ Range(f[n]) = {s[i] : i \in 1..n} \cap E
           T == {n \in Nat : n <= Len(s) /\ ~Right(n)}
<1>4. ASSUME T # {} PROVE FALSE
  <2>1. PICK n \in T : \A x \in T : n <= x
    <3>1. T \in SUBSET Nat
      OBVIOUS
    <3> HIDE DEF T
    <3> QED BY <1>4, <3>1, Smallest
  <2>2. n \in Nat /\ n \in 0..Len(s) /\ ~Right(n)
    BY <1>1
  <2>3. f[n] = Chosen(s, E, f, n)
    BY <1>2, <2>2 DEF Selects
  <2>4. CASE n = 0
    <3>1. f[n] = <<>> /\ 1..n = {}
      BY <2>3, <2>4 DEF Chosen
    <3>2. Range(<<>>) = {} /\ <<>> \in Seq(S)
      BY DEF Range
    <3> QED BY <2>2, <3>1, <3>2
  <2>5. CASE n # 0
    <3>1. n - 1 \in Nat /\ n - 1 <= Len(s) /\ ~(n <= n - 1) /\ n \in 1..Len(s)
      BY <1>1, <2>2, <2>5
    <3>2. Right(n - 1)
      BY <2>1, <3>1
    <3>3. {s[i] : i \in 1..n} = {s[i] : i \in 1..(n - 1)} \cup {s[n]}
      <4>1. 1..n = (1..(n - 1)) \cup {n}
        BY <2>2, <2>5
      <4> QED BY <4>1
    <3>4. s[n] \in S
      BY <1>1, <3>1
    <3>5. CASE s[n] \in E
      <4>1. f[n] = Append(f[n - 1], s[n])
        BY <2>3, <2>5, <3>5 DEF Chosen
      <4>2. f[n] \in Seq(S) /\ Range(f[n]) = Range(f[n - 1]) \cup {s[n]}
        <5> HIDE DEF f
        <5>1. \A q \in Seq(S), x \in S :
                 Append(q, x) \in Seq(S) /\ Range(Append(q, x)) = Range(q) \cup {x}
          BY AppendRange
        <5> QED BY <3>2, <3>4, <4>1, <5>1
      <4> HIDE DEF f
      <4> QED BY <2>2, <3>2, <3>3, <3>5, <4>2
    <3>6. CASE s[n] \notin E
      <4>1. f[n] = f[n - 1]
        BY <2>3, <2>5, <3>6 DEF Chosen
      <4> QED BY <2>2, <3>2, <3>3, <3>6, <4>1
    <3> QED BY <3>5, <3>6
  <2> QED BY <2>4, <2>5
<1>5. Right(Len(s))
  <2>1. Len(s) \notin T
    BY <1>4
  <2>2. Len(s) \in Nat /\ Len(s) <= Len(s)
    BY <1>1
  <2> HIDE DEF Right
  <2> QED BY <2>1, <2>2
<1>6. Range(s) = {s[i] : i \in 1..Len(s)}
  BY <1>1 DEF Range
<1> QED BY <1>3, <1>5, <1>6

(***************************************************************************)
(* No event is lost: the invariant                                         *)
(***************************************************************************)
\* The batch still has to do something about its events for t.
Pending(t) ==
    \/ probe["batch"][t].stage = "asked"
    \/ probe["batch"][t].stage = "answered" /\ probe["batch"][t].answer = "failed"
    \/ t = All /\ fan["global"] # "idle"

Queues == {queue, batch, disk.queue} \subseteq Seq(Events)

\* Each event of the batch is in the queue again, or settled or pending at each target.
BatchIsCovered ==
    \A e \in Range(batch), t \in Targets :
        t \in To[e] => <<e, t>> \in settled \/ e \in Range(queue) \/ Pending(t)

\* What a reset leaves: the stored queue, and events that it settles by losing them.
DiskIsCovered ==
    \A e \in acked : Settled(e) \/ e \in Range(disk.queue) \/ e \in unstored

BatchIsHeld == ~draining => batch = <<>> /\ unstored = {}

LossInv ==
    Shapes /\ Queues /\ NothingIsLost /\ BatchIsCovered /\ DiskIsCovered /\ BatchIsHeld

LEMMA EmptyRange == Range(<<>>) = {}
  BY DEF Range

LEMMA ToTargets ==
    ASSUME NEW e \in Events
    PROVE  To[e] \subseteq Targets
  BY BroadcasterAssumption

\* What is settled stays settled.
LEMMA StaysSettled ==
    ASSUME NEW e, Settled(e), settled \subseteq settled'
    PROVE  Settled(e)'
  BY DEF Settled

LEMMA SettledEverywhere ==
    ASSUME NEW E, NEW e \in E, Everywhere(E) \subseteq settled'
    PROVE  Settled(e)'
<1>1. {e} \X To[e] \subseteq Everywhere(E)
  BY DEF Everywhere
<1> QED BY <1>1 DEF Settled

\* A target that fails: each of its events is queued again or given up.
LEMMA RetryFacts ==
    ASSUME Queues, NEW t, Retry(t)
    PROVE  /\ queue' \in Seq(Events) /\ Range(queue) \subseteq Range(queue')
           /\ settled' = settled \cup ({e \in Held(t) : ~Retryable(e)} \X {t})
           /\ \A e \in Held(t) : e \in Range(queue') \/ <<e, t>> \in settled'
           /\ retry \in [Events -> Nat] => retry' \in [Events -> Nat]
<1> DEFINE K == {e \in Held(t) : Retryable(e)}
           again == Select(batch, K)
           Times(e) == Cardinality({i \in DOMAIN again : again[i] = e})
<1>1. /\ queue' = queue \o again /\ retry' = [e \in Events |-> retry[e] + Times(e)]
      /\ settled' = settled \cup ({e \in Held(t) : ~Retryable(e)} \X {t})
  BY DEF Retry
<1>2. queue \in Seq(Events) /\ batch \in Seq(Events)
  BY DEF Queues
<1>3. again \in Seq(Events) /\ Range(again) = Range(batch) \cap K
  <2> HIDE DEF K
  <2> QED BY <1>2, SelectFacts
<1>4. queue' \in Seq(Events) /\ Range(queue') = Range(queue) \cup Range(again)
  <2> HIDE DEF again
  <2> QED BY <1>1, <1>2, <1>3, Joined
<1>5. ASSUME NEW e \in Held(t)
      PROVE  e \in Range(queue') \/ <<e, t>> \in settled'
  <2>1. e \in Range(batch)
    BY DEF Held
  <2>2. CASE Retryable(e)
    BY <1>3, <1>4, <2>1, <2>2
  <2>3. CASE ~Retryable(e)
    BY <1>1, <2>3
  <2> QED BY <2>2, <2>3
<1>6. ASSUME retry \in [Events -> Nat], NEW e \in Events
      PROVE  retry[e] + Times(e) \in Nat
  <2> HIDE DEF again
  <2> DEFINE I == {i \in DOMAIN again : again[i] = e}
  <2>1. Len(again) \in Nat /\ DOMAIN again = 1..Len(again)
    BY <1>3
  <2>2. I \in SUBSET (1..Len(again))
    BY <2>1
  <2>3. IsFiniteSet(1..Len(again))
    BY <2>1, FS_Interval
  <2> HIDE DEF I
  <2>4. Cardinality(I) \in Nat
    BY <2>2, <2>3, FS_Subset, FS_CardinalityType
  <2>5. retry[e] \in Nat
    BY <1>6
  <2> QED BY <2>4, <2>5 DEF I
<1>7. retry \in [Events -> Nat] => retry' \in [Events -> Nat]
  <2> HIDE DEF Times
  <2> QED BY <1>1, <1>6
<1> HIDE DEF again
<1> QED BY <1>1, <1>4, <1>5, <1>7

\* Steps that leave the queues alone: a delivery that is no longer pending is settled.
LEMMA LossFrame ==
    ASSUME LossInv, Shapes', UNCHANGED <<queue, batch, draining, acked, unstored>>,
           disk'.queue = disk.queue, settled \subseteq settled',
           \A t \in Targets : Pending(t) => Pending(t)' \/ Held(t) \X {t} \subseteq settled'
    PROVE  LossInv'
<1>1. Queues' /\ BatchIsHeld'
  BY DEF LossInv, Queues, BatchIsHeld
<1>2. NothingIsLost'
  BY StaysSettled DEF LossInv, NothingIsLost
<1>3. DiskIsCovered'
  BY StaysSettled DEF LossInv, DiskIsCovered
<1>4. BatchIsCovered'
  <2> SUFFICES ASSUME NEW e \in Range(batch), NEW t \in Targets, t \in To[e]
               PROVE  <<e, t>> \in settled' \/ e \in Range(queue') \/ Pending(t)'
    BY DEF BatchIsCovered
  <2>1. e \in Held(t)
    BY DEF Held
  <2>2. <<e, t>> \in settled \/ e \in Range(queue) \/ Pending(t)
    BY DEF LossInv, BatchIsCovered
  <2> QED BY <2>1, <2>2
<1> QED BY <1>1, <1>2, <1>3, <1>4 DEF LossInv

\* A target fails, and the other deliveries go on.
LEMMA LossRetry ==
    ASSUME LossInv, Shapes', NEW t, Retry(t),
           UNCHANGED <<batch, draining, acked, unstored>>, disk'.queue = disk.queue,
           \A v \in Targets : v # t /\ Pending(v) => Pending(v)'
    PROVE  LossInv'
<1>1. /\ queue' \in Seq(Events) /\ Range(queue) \subseteq Range(queue')
      /\ settled \subseteq settled'
      /\ \A e \in Held(t) : e \in Range(queue') \/ <<e, t>> \in settled'
  BY RetryFacts DEF LossInv
<1>2. Queues' /\ BatchIsHeld'
  BY <1>1 DEF LossInv, Queues, BatchIsHeld
<1>3. NothingIsLost'
  <2> SUFFICES ASSUME NEW e \in acked
               PROVE  Settled(e)' \/ e \in Range(queue' \o batch')
    BY DEF NothingIsLost
  <2>1. Settled(e) \/ e \in Range(queue \o batch)
    BY DEF LossInv, NothingIsLost
  <2>2. queue \in Seq(Events) /\ batch \in Seq(Events)
    BY DEF LossInv, Queues
  <2>3. /\ Range(queue \o batch) = Range(queue) \cup Range(batch)
        /\ Range(queue' \o batch) = Range(queue') \cup Range(batch)
    BY <1>1, <2>2, Joined
  <2> QED BY <1>1, <2>1, <2>3, StaysSettled
<1>4. DiskIsCovered'
  BY <1>1, StaysSettled DEF LossInv, DiskIsCovered
<1>5. BatchIsCovered'
  <2> SUFFICES ASSUME NEW e \in Range(batch), NEW v \in Targets, v \in To[e]
               PROVE  <<e, v>> \in settled' \/ e \in Range(queue') \/ Pending(v)'
    BY DEF BatchIsCovered
  <2>1. v = t => e \in Held(t)
    BY DEF Held
  <2>2. <<e, v>> \in settled \/ e \in Range(queue) \/ Pending(v)
    BY DEF LossInv, BatchIsCovered
  <2> QED BY <1>1, <2>1, <2>2
<1> QED BY <1>2, <1>3, <1>4, <1>5 DEF LossInv

\* The object leaves memory: what is accepted is on the disk or settled.
LEMMA LossReload ==
    ASSUME LossInv, Shapes', Loaded(disk), acked' = acked, disk' = disk,
           settled \subseteq settled', Everywhere(unstored) \subseteq settled'
    PROVE  LossInv'
<1>1. queue' = disk.queue /\ batch' = <<>> /\ unstored' = {}
  BY DEF Loaded
<1>2. <<>> \in Seq(Events) /\ disk.queue \in Seq(Events)
  BY DEF LossInv, Queues
<1>3. Queues' /\ BatchIsHeld'
  BY <1>1, <1>2 DEF Queues, BatchIsHeld
<1>4. \A e \in acked : Settled(e)' \/ e \in Range(disk.queue)
  BY StaysSettled, SettledEverywhere DEF LossInv, DiskIsCovered
<1>5. NothingIsLost'
  <2>1. Range(disk.queue \o <<>>) = Range(disk.queue) \cup Range(<<>>)
    BY <1>2, Joined
  <2> QED BY <1>1, <1>4, <2>1 DEF NothingIsLost
<1>6. DiskIsCovered'
  BY <1>4 DEF DiskIsCovered
<1>7. BatchIsCovered'
  BY <1>1, EmptyRange DEF BatchIsCovered
<1> QED BY <1>3, <1>5, <1>6, <1>7 DEF LossInv

\* An event is pushed, and the oldest ones may have to go.
LEMMA PushFacts ==
    ASSUME Queues, NEW e \in Events, Queued(e), DOMAIN disk = {"queue", "retry", "users"}
    PROVE  /\ queue' \in Seq(Events) /\ disk'.queue = queue' /\ e \in Range(queue')
           /\ Range(queue) \subseteq Range(queue') \cup Dropped(Append(queue, e))
           /\ Dropped(Append(queue, e)) \subseteq Events
<1>1. queue \in Seq(Events)
  BY DEF Queues
<1>2. queue' = Kept(Append(queue, e)) /\ disk'.queue = queue'
  BY DEF Queued, Stored
<1> QED BY <1>1, <1>2, KeptFacts

LEMMA LossInit == Init => LossInv
<1>1. ASSUME Init PROVE LossInv
  <2>1. queue = <<>> /\ batch = <<>> /\ disk.queue = <<>> /\ acked = {} /\ unstored = {}
    BY <1>1 DEF Init
  <2>2. <<>> \in Seq(Events)
    OBVIOUS
  <2>3. Shapes
    BY <1>1, ShapesInit
  <2> QED BY <2>1, <2>2, <2>3, EmptyRange
          DEF LossInv, Queues, NothingIsLost, BatchIsCovered, DiskIsCovered, BatchIsHeld
<1> QED BY <1>1

LEMMA LossStep ==
    ASSUME LossInv, [Next]_vars
    PROVE  LossInv'
<1>0. Shapes /\ Shapes' /\ probe \in Probes /\ probe' \in Probes /\ Queues
  BY ShapesStep DEF LossInv, Shapes
<1>a. /\ DOMAIN disk = {"queue", "retry", "users"}
      /\ DOMAIN probe = Fans \cup {"batch"} /\ DOMAIN fan = Fans
      /\ Fans = {"global", "direct"} /\ Users \subseteq Targets /\ Rooms \subseteq Targets
      /\ All \in Targets
  BY <1>0 DEF Shapes, Probes, Fans, Targets
<1>b. disk' = StoredIds \/ disk' = disk => disk'.queue = disk.queue
  BY <1>a DEF StoredIds
<1>c. probe' = probe /\ fan' = fan => \A t \in Targets : Pending(t) => Pending(t)'
  BY DEF Pending
<1>d. \A e \in acked : Settled(e) \/ e \in Range(queue) \/ e \in Range(batch)
  <2>1. queue \in Seq(Events) /\ batch \in Seq(Events)
    BY <1>0 DEF Queues
  <2> QED BY <2>1, Joined DEF LossInv, NothingIsLost
<1>1. ASSUME NEW e \in Events, Broadcast(e)
      PROVE  LossInv'
  <2>1. /\ queue' \in Seq(Events) /\ disk'.queue = queue' /\ e \in Range(queue')
        /\ Range(queue) \subseteq Range(queue') \cup Dropped(Append(queue, e))
    BY <1>0, <1>1, <1>a, PushFacts DEF Broadcast
  <2>2. /\ acked' = acked \cup {e} /\ unstored' = Range(batch) \ Range(queue')
        /\ batch' = batch /\ draining' = draining /\ probe' = probe /\ fan' = fan
        /\ settled' = settled \cup Everywhere(Dropped(Append(queue, e)))
    BY <1>1 DEF Broadcast
  <2>3. \A x \in Range(queue) : x \in Range(queue') \/ Settled(x)'
    BY <2>1, <2>2, SettledEverywhere
  <2>4. ASSUME NEW x \in acked'
        PROVE  Settled(x)' \/ x \in Range(queue') \/ x \in Range(batch)
    BY <1>d, <2>1, <2>2, <2>3, StaysSettled
  <2>5. Queues'
    BY <1>0, <2>1, <2>2 DEF Queues
  <2>6. NothingIsLost'
    <3>1. Range(queue' \o batch') = Range(queue') \cup Range(batch)
      BY <2>2, <2>5, Joined DEF Queues
    <3> QED BY <2>4, <3>1 DEF NothingIsLost
  <2>7. DiskIsCovered'
    BY <2>1, <2>2, <2>4 DEF DiskIsCovered
  <2>8. BatchIsCovered'
    <3> SUFFICES ASSUME NEW x \in Range(batch), NEW t \in Targets, t \in To[x]
                 PROVE  <<x, t>> \in settled' \/ x \in Range(queue') \/ Pending(t)'
      BY <2>2 DEF BatchIsCovered
    <3>1. <<x, t>> \in settled \/ x \in Range(queue) \/ Pending(t)
      BY DEF LossInv, BatchIsCovered
    <3> QED BY <1>c, <2>2, <2>3, <3>1 DEF Settled
  <2>9. BatchIsHeld'
    BY <2>2, EmptyRange DEF LossInv, BatchIsHeld
  <2> QED BY <1>0, <2>5, <2>6, <2>7, <2>8, <2>9 DEF LossInv
<1>2. ASSUME NEW e \in Events, BroadcastDies(e)
      PROVE  LossInv'
  <2>1. /\ queue' \in Seq(Events) /\ disk'.queue = queue'
        /\ Range(queue) \subseteq Range(queue') \cup Dropped(Append(queue, e))
    BY <1>0, <1>2, <1>a, PushFacts DEF BroadcastDies
  <2> DEFINE D == Dropped(Append(queue, e)) \cup (Range(batch) \ Range(queue'))
  <2>2. /\ acked' = acked /\ unstored' = {} /\ batch' = <<>> /\ draining' = FALSE
        /\ settled' = settled \cup Everywhere(D)
    BY <1>2 DEF BroadcastDies
  <2>3. \A x \in D : Settled(x)'
    <3> HIDE DEF D
    <3> QED BY <2>2, SettledEverywhere
  <2>4. \A x \in acked : Settled(x)' \/ x \in Range(queue')
    BY <1>d, <2>1, <2>2, <2>3, StaysSettled
  <2>5. <<>> \in Seq(Events)
    OBVIOUS
  <2>6. Range(queue' \o <<>>) = Range(queue') \cup Range(<<>>)
    BY <2>1, <2>5, Joined
  <2>7. Queues' /\ NothingIsLost' /\ DiskIsCovered' /\ BatchIsCovered' /\ BatchIsHeld'
    BY <2>1, <2>2, <2>4, <2>5, <2>6, EmptyRange
       DEF Queues, NothingIsLost, DiskIsCovered, BatchIsCovered, BatchIsHeld
  <2> QED BY <1>0, <2>7 DEF LossInv
<1>3. CASE DrainBegins
  <2>1. /\ ~draining /\ batch' = SubSeq(queue, 1, Taken)
        /\ queue' = SubSeq(queue, Taken + 1, Len(queue))
        /\ draining' = TRUE /\ UNCHANGED <<acked, settled, unstored, disk>>
        /\ probe' = [probe EXCEPT !["batch"] = Opened(batch')]
        /\ fan' = [fan EXCEPT !["global"] = IF Addressed(All, batch') THEN "asks" ELSE "idle"]
    BY <1>3 DEF DrainBegins, BatchTaken
  <2>2. queue \in Seq(Events) /\ Taken \in 0..Len(queue)
    BY <1>0, BroadcasterAssumption DEF Queues, Taken
  <2>3. /\ batch' \in Seq(Events) /\ queue' \in Seq(Events)
        /\ Range(queue) = Range(batch') \cup Range(queue')
    BY <2>1, <2>2, Divided
  <2>4. batch = <<>>
    BY <2>1 DEF LossInv, BatchIsHeld
  <2>5. Queues' /\ BatchIsHeld' /\ DiskIsCovered'
    BY <1>0, <2>1, <2>3 DEF LossInv, Queues, BatchIsHeld, DiskIsCovered, Settled
  <2>6. NothingIsLost'
    <3>1. Range(queue' \o batch') = Range(queue') \cup Range(batch')
      BY <2>3, Joined
    <3> QED BY <1>d, <2>1, <2>3, <2>4, <3>1, EmptyRange DEF NothingIsLost, Settled
  <2>7. BatchIsCovered'
    <3> SUFFICES ASSUME NEW x \in Range(batch'), NEW t \in Targets, t \in To[x]
                 PROVE  Pending(t)'
      BY DEF BatchIsCovered
    <3>1. Addressed(t, batch')
      BY DEF Range, Addressed
    <3>2. probe'["batch"] = Opened(batch')
      BY <1>a, <2>1
    <3>3. CASE t = All
      BY <1>a, <2>1, <3>1, <3>3 DEF Pending
    <3>4. CASE t # All
      <4>1. probe'["batch"][t] = IF t \in Rooms THEN Refused ELSE Asked
        BY <3>1, <3>2, <3>4 DEF Opened
      <4> QED BY <4>1 DEF Pending, Refused, Asked
    <3> QED BY <3>3, <3>4
  <2> QED BY <1>0, <2>5, <2>6, <2>7 DEF LossInv
<1>4. CASE DrainEnds
  <2>1. /\ fan["global"] = "idle"
        /\ \A t \in Targets : probe["batch"][t].stage \in {"none", "done"}
        /\ UNCHANGED <<queue, acked, settled>> /\ disk'.queue = queue'
        /\ draining' = FALSE /\ batch' = <<>> /\ unstored' = {}
    BY <1>4 DEF DrainEnds, BatchDone, Stored
  <2>2. \A t \in Targets : ~Pending(t)
    BY <2>1 DEF Pending
  <2>3. queue \in Seq(Events) /\ batch \in Seq(Events) /\ <<>> \in Seq(Events)
    BY <1>0 DEF Queues
  <2>4. \A x \in Range(batch) : x \in Range(queue) \/ Settled(x)
    <3> TAKE x \in Range(batch)
    <3>1. To[x] \subseteq Targets
      BY <2>3, ToTargets DEF Range
    <3> QED BY <2>2, <3>1 DEF LossInv, BatchIsCovered, Settled
  <2>5. \A x \in acked' : Settled(x)' \/ x \in Range(queue')
    BY <1>d, <2>1, <2>4 DEF Settled
  <2>6. Range(queue' \o <<>>) = Range(queue') \cup Range(<<>>)
    <3>1. queue' \in Seq(Events)
      BY <2>1, <2>3
    <3> QED BY <2>3, <3>1, Joined
  <2>7. Queues' /\ NothingIsLost' /\ DiskIsCovered' /\ BatchIsCovered' /\ BatchIsHeld'
    BY <2>1, <2>3, <2>5, <2>6, EmptyRange
       DEF Queues, NothingIsLost, DiskIsCovered, BatchIsCovered, BatchIsHeld
  <2> QED BY <1>0, <2>7 DEF LossInv
<1>5. ASSUME NEW f \in Fans, FanProbes(f) \/ FanEnds(f)
      PROVE  LossInv'
  <2>1. /\ UNCHANGED <<queue, batch, draining, acked, unstored>>
        /\ disk'.queue = disk.queue /\ settled \subseteq settled'
    BY <1>5, <1>b DEF FanProbes, FanEnds, queueVars
  <2>2. probe'["batch"] = probe["batch"]
    BY <1>5, <1>a DEF FanProbes, FanEnds
  <2>3. fan["global"] # "idle" =>
            fan'["global"] # "idle" \/ Held(All) \X {All} \subseteq settled'
    BY <1>5, <1>a DEF FanProbes, FanEnds
  <2>4. \A t \in Targets : Pending(t) => Pending(t)' \/ Held(t) \X {t} \subseteq settled'
    BY <2>2, <2>3 DEF Pending
  <2> QED BY <1>0, <2>1, <2>4, LossFrame
<1>6. ASSUME NEW f \in Fans, FanThrows(f)
      PROVE  LossInv'
  <2>1. /\ UNCHANGED <<batch, draining, acked, unstored, probe>> /\ disk'.queue = disk.queue
        /\ fan' = [fan EXCEPT ![f] = "idle"]
    BY <1>6 DEF FanThrows
  <2>2. CASE f = "global"
    <3>1. Retry(All)
      BY <1>6, <2>2 DEF FanThrows
    <3>2. \A v \in Targets : v # All /\ Pending(v) => Pending(v)'
      BY <2>1 DEF Pending
    <3> QED BY <1>0, <2>1, <3>1, <3>2, LossRetry
  <2>3. CASE f # "global"
    <3>1. UNCHANGED <<queue, settled>> /\ fan'["global"] = fan["global"]
      BY <1>6, <1>a, <2>1, <2>3 DEF FanThrows
    <3>2. \A v \in Targets : Pending(v) => Pending(v)'
      BY <2>1, <3>1 DEF Pending
    <3> QED BY <1>0, <2>1, <3>1, <3>2, LossFrame
  <2> QED BY <2>2, <2>3
<1>7. ASSUME NEW f \in Fans \cup {"batch"}, NEW u \in Users, Answer(f, u)
      PROVE  LossInv'
  <2>1. /\ UNCHANGED <<queue, batch, draining, acked, unstored, fan, disk>>
        /\ settled \subseteq settled'
    BY <1>7 DEF Answer, Receives
  <2>2. PICK answer \in {"live", "empty", "failed"} :
           /\ probe' = AnsweredBy(f, u, answer)
           /\ answer = "failed" \/ settled' = Receives(f, u)
    BY <1>7 DEF Answer, AnsweredBy
  <2>3. /\ \A g \in Fans \cup {"batch"}, v \in Targets :
              <<g, v>> # <<f, u>> => probe'[g][v] = probe[g][v]
        /\ probe'[f][u].stage = "answered" /\ probe'[f][u].answer = answer
    BY <1>0, <2>2, AnsweredFacts
  <2>4. ASSUME NEW t \in Targets, Pending(t)
        PROVE  Pending(t)' \/ Held(t) \X {t} \subseteq settled'
    <3>1. CASE f = "batch" /\ t = u
      <4>1. CASE answer = "failed"
        BY <2>3, <3>1, <4>1 DEF Pending
      <4>2. CASE answer # "failed"
        BY <2>2, <3>1, <4>2 DEF Receives
      <4> QED BY <4>1, <4>2
    <3>2. CASE ~(f = "batch" /\ t = u)
      <4>1. probe'["batch"][t] = probe["batch"][t]
        BY <2>3, <3>2
      <4> QED BY <2>1, <2>4, <4>1 DEF Pending
    <3> QED BY <3>1, <3>2
  <2> QED BY <1>0, <2>1, <2>4, LossFrame
<1>8. ASSUME NEW f \in Fans \cup {"batch"}, NEW t \in Targets, NEW p \in Probes,
             probe' = Closed(p, f, t), probe[f][t].stage = "answered", fan' = fan,
             \A v \in Targets : /\ p["batch"][v].stage = probe["batch"][v].stage
                                /\ p["batch"][v].answer = probe["batch"][v].answer
      PROVE  \A v \in Targets :
                 \/ Pending(v) => Pending(v)'
                 \/ f = "batch" /\ v = t /\ probe[f][t].answer = "failed"
  <2> TAKE v \in Targets
  <2>1. CASE f = "batch" /\ v = t
    BY <1>8, <2>1 DEF Pending
  <2>2. CASE ~(f = "batch" /\ v = t)
    <3>1. probe'["batch"][v] = p["batch"][v]
      BY <1>8, <2>2 DEF Closed, Probes
    <3> QED BY <1>8, <3>1 DEF Pending
  <2> QED BY <2>1, <2>2
<1>9. ASSUME NEW f \in Fans \cup {"batch"}, NEW u \in Users, ReturnLive(f, u)
      PROVE  LossInv'
  <2>1. /\ UNCHANGED <<queue, batch, draining, acked, unstored, fan, settled>>
        /\ probe[f][u].stage = "answered" /\ probe[f][u].answer = "live"
        /\ disk'.queue = disk.queue
    BY <1>9, <1>b DEF ReturnLive, queueVars
  <2>2. PICK p \in Probes :
           /\ probe' = Closed(p, f, u)
           /\ \A v \in Targets : /\ p["batch"][v].stage = probe["batch"][v].stage
                                 /\ p["batch"][v].answer = probe["batch"][v].answer
    <3>1. /\ Bumped(u) \in Probes
          /\ \A v \in Targets : /\ Bumped(u)["batch"][v].stage = probe["batch"][v].stage
                                /\ Bumped(u)["batch"][v].answer = probe["batch"][v].answer
      BY <1>0, BumpedFacts
    <3>2. CASE u \in users
      BY <1>0, <1>9, <3>2 DEF ReturnLive
    <3>3. CASE u \notin users
      BY <1>9, <3>1, <3>3 DEF ReturnLive
    <3> QED BY <3>2, <3>3
  <2>3. \A v \in Targets : Pending(v) => Pending(v)'
    BY <1>8, <1>a, <2>1, <2>2
  <2> QED BY <1>0, <2>1, <2>3, LossFrame
<1>10. ASSUME NEW f \in Fans \cup {"batch"}, NEW t \in Users \cup Rooms, ReturnOther(f, t)
       PROVE  LossInv'
  <2>1. /\ UNCHANGED <<batch, draining, acked, unstored, fan, disk>>
        /\ probe[f][t].stage = "answered" /\ probe' = Closed(probe, f, t) /\ t \in Targets
    BY <1>10, <1>a DEF ReturnOther
  <2>2. \A v \in Targets : \/ Pending(v) => Pending(v)'
                           \/ f = "batch" /\ v = t /\ probe[f][t].answer = "failed"
    BY <1>0, <1>8, <2>1
  <2>3. CASE f = "batch" /\ probe[f][t].answer = "failed"
    <3>1. Retry(t)
      BY <1>10, <2>3 DEF ReturnOther
    <3> QED BY <1>0, <2>1, <2>2, <3>1, LossRetry
  <2>4. CASE ~(f = "batch" /\ probe[f][t].answer = "failed")
    <3>1. UNCHANGED <<queue, settled>>
      BY <1>10, <2>4 DEF ReturnOther
    <3> QED BY <1>0, <2>1, <2>2, <2>4, <3>1, LossFrame
  <2> QED BY <2>3, <2>4
<1>11. CASE DirectBegins
  <2>1. fan'["global"] = fan["global"]
    BY <1>11, <1>a DEF DirectBegins
  <2>2. \A v \in Targets : Pending(v) => Pending(v)'
    BY <1>11, <2>1 DEF DirectBegins, Pending
  <2> QED BY <1>0, <1>11, <2>2, LossFrame DEF DirectBegins, queueVars
<1>12. ASSUME NEW u \in Users, Connect(u) \/ Disconnect(u) \/ Vanish(u)
       PROVE  LossInv'
  <2>1. UNCHANGED <<queueVars, fan, probe, disk>>
    BY <1>12 DEF Connect, Disconnect, Vanish
  <2> QED BY <1>0, <1>c, <2>1, LossFrame DEF queueVars
<1>13. ASSUME NEW u \in Users, NEW i \in 1..MaxCalls, Register(u, i)
       PROVE  LossInv'
  <2>1. \A v \in Targets : Pending(v) => Pending(v)'
    BY <1>0, <1>13, BumpedFacts DEF Register, Pending
  <2> QED BY <1>0, <1>13, <1>b, <2>1, LossFrame DEF Register, queueVars
<1>14. ASSUME NEW u \in Users, NEW i \in 1..MaxCalls, Unregister(u, i) \/ CallFails(u, i)
       PROVE  LossInv'
  <2>1. UNCHANGED <<queueVars, fan, probe>> /\ disk'.queue = disk.queue
    BY <1>14, <1>b DEF Unregister, CallFails
  <2> QED BY <1>0, <1>c, <2>1, LossFrame DEF queueVars
<1>15. CASE Evict
  <2>1. Loaded(disk) /\ UNCHANGED <<acked, disk, settled>> /\ unstored = {}
    BY <1>15 DEF Evict, LossInv, BatchIsHeld
  <2>2. Everywhere(unstored) \subseteq settled'
    BY <2>1 DEF Everywhere
  <2> QED BY <1>0, <2>1, <2>2, LossReload
<1>16. CASE Crash
  BY <1>0, <1>16, LossReload DEF Crash
<1>17. CASE UNCHANGED vars
  BY <1>0, <1>17, <1>c, LossFrame DEF vars, queueVars
<1> QED
  BY <1>1, <1>2, <1>3, <1>4, <1>5, <1>6, <1>7, <1>9, <1>10, <1>11, <1>12, <1>13, <1>14,
     <1>15, <1>16, <1>17
     DEF Next, Drain, Direct, Presence, Fans

\* An accepted event is queued or in a batch until each of its targets has received it,
\* was given up after its retries, or has lost it to an eviction or a reset.
THEOREM NothingIsLostAlways == Spec => []NothingIsLost
<1>1. LossInv => NothingIsLost
  BY DEF LossInv
<1> QED
  BY <1>1, LossInit, LossStep, PTL DEF Spec

\* What a cold start would find of an accepted event, at every moment: it is in the
\* stored queue, or it is settled, or its batch was taken and the queue written since,
\* the one window in which a reset of the object loses events.
THEOREM AcceptedIsDurable == Spec => []DiskIsCovered
<1>1. LossInv => DiskIsCovered
  BY DEF LossInv
<1> QED
  BY <1>1, LossInit, LossStep, PTL DEF Spec

(***************************************************************************)
(* Types                                                                   *)
(***************************************************************************)
\* What LossInv does not say of the types.
Kinds ==
    /\ {retry, disk.retry} \subseteq [Events -> Nat]
    /\ {users, disk.users, astray} \subseteq SUBSET Users
    /\ sockets \in [Users -> 0..MaxSockets]
    /\ {acked, unstored} \subseteq SUBSET Events
    /\ settled \subseteq Events \X Targets
    /\ faults \in 0..MaxFaults

TypeInv == LossInv /\ Kinds

LEMMA KindsSettle ==
    ASSUME Queues
    PROVE  /\ \A E \in SUBSET Events : Everywhere(E) \subseteq Events \X Targets
           /\ \A t \in Targets : Held(t) \X {t} \subseteq Events \X Targets
           /\ Range(batch) \subseteq Events
<1>1. batch \in Seq(Events)
  BY DEF Queues
<1>2. Range(batch) \subseteq Events
  BY <1>1 DEF Range
<1>3. ASSUME NEW E \in SUBSET Events PROVE Everywhere(E) \subseteq Events \X Targets
  BY ToTargets DEF Everywhere
<1> QED BY <1>2, <1>3 DEF Held

LEMMA KindsRetry ==
    ASSUME Queues, Kinds, NEW t \in Targets, Retry(t)
    PROVE  retry' \in [Events -> Nat] /\ settled' \subseteq Events \X Targets
<1>1. {e \in Held(t) : ~Retryable(e)} \X {t} \subseteq Events \X Targets
  BY KindsSettle
<1> QED BY <1>1, RetryFacts DEF Kinds

LEMMA KindsFrame ==
    ASSUME Kinds, UNCHANGED <<retry, users, astray, sockets, acked, faults>>,
           \/ disk' = disk
           \/ disk'.retry = retry /\ disk'.users = users,
           settled' = settled, unstored' \in {unstored, {}}
    PROVE  Kinds'
  BY DEF Kinds

LEMMA KindsFault ==
    ASSUME Kinds, NEW f, Fault(f)
    PROVE  faults' \in 0..MaxFaults
<1>1. MaxFaults \in Nat
  BY BroadcasterAssumption
<1> QED BY <1>1 DEF Kinds, Fault

LEMMA TypeInit == Init => TypeInv
<1>1. ASSUME Init PROVE Kinds
  <2>1. {MaxSockets, MaxFaults} \subseteq Nat
    BY BroadcasterAssumption
  <2> QED BY <1>1, <2>1 DEF Init, Kinds
<1> QED BY <1>1, LossInit DEF TypeInv

LEMMA TypeStep ==
    ASSUME TypeInv, [Next]_vars
    PROVE  TypeInv'
<1>0. LossInv /\ LossInv' /\ Queues /\ Kinds /\ Shapes
  BY LossStep DEF TypeInv, LossInv
<1> SUFFICES Kinds'
  BY <1>0 DEF TypeInv
<1>a. /\ DOMAIN disk = {"queue", "retry", "users"}
      /\ Users \subseteq Targets /\ Rooms \subseteq Targets /\ All \in Targets
  BY <1>0 DEF Shapes, Targets
<1>b. disk' = StoredIds => disk'.retry = disk.retry /\ disk'.users = users'
  BY <1>a DEF StoredIds
<1>1. ASSUME NEW e \in Events, Broadcast(e)
      PROVE  Kinds'
  <2>1. Dropped(Append(queue, e)) \subseteq Events
    BY <1>0, <1>1, <1>a, PushFacts DEF Broadcast
  <2>2. Everywhere(Dropped(Append(queue, e))) \subseteq Events \X Targets
    BY <1>0, <2>1, KindsSettle
  <2>3. retry' \in [Events -> Nat] /\ disk'.retry = retry' /\ users' = users /\ disk'.users = users'
    BY <1>0, <1>1 DEF Broadcast, Queued, Stored, Kinds
  <2>4. unstored' \subseteq Events
    BY <1>0, <1>1, KindsSettle DEF Broadcast
  <2> QED BY <1>0, <1>1, <2>2, <2>3, <2>4 DEF Broadcast, presenceVars, Kinds
<1>2. ASSUME NEW e \in Events, BroadcastDies(e)
      PROVE  Kinds'
  <2> DEFINE D == Dropped(Append(queue, e)) \cup (Range(batch) \ Range(queue'))
  <2>1. D \subseteq Events
    BY <1>0, <1>2, <1>a, PushFacts, KindsSettle DEF BroadcastDies
  <2>2. settled' = settled \cup Everywhere(D) /\ Everywhere(D) \subseteq Events \X Targets
    <3>1. settled' = settled \cup Everywhere(D)
      BY <1>2 DEF BroadcastDies
    <3> HIDE DEF D
    <3> QED BY <1>0, <2>1, <3>1, KindsSettle
  <2>3. retry' \in [Events -> Nat] /\ disk'.retry = retry' /\ users' = users /\ disk'.users = users'
    BY <1>0, <1>2 DEF BroadcastDies, Queued, Stored, Kinds
  <2>4. faults' \in 0..MaxFaults
    BY <1>0, <1>2, KindsFault DEF BroadcastDies
  <2> HIDE DEF D
  <2> QED BY <1>0, <1>2, <2>2, <2>3, <2>4 DEF BroadcastDies, presenceVars, Kinds
<1>3. CASE DrainBegins
  BY <1>0, <1>3, KindsFrame DEF DrainBegins, BatchTaken, presenceVars
<1>4. CASE DrainEnds
  BY <1>0, <1>4, KindsFrame DEF DrainEnds, BatchDone, Stored, presenceVars
<1>5. ASSUME NEW f \in Fans, FanProbes(f)
      PROVE  Kinds'
  BY <1>0, <1>5 DEF FanProbes, queueVars, presenceVars, Kinds
<1>6. ASSUME NEW f \in Fans, FanEnds(f)
      PROVE  Kinds'
  <2>1. users' \subseteq Users /\ disk'.users \subseteq Users /\ disk'.retry = disk.retry
    BY <1>0, <1>6, <1>b DEF FanEnds, Kinds
  <2>2. settled' \subseteq Events \X Targets
    BY <1>0, <1>6, <1>a, KindsSettle DEF FanEnds, Kinds
  <2> QED BY <1>0, <1>6, <2>1, <2>2 DEF FanEnds, presenceVars, Kinds
<1>7. ASSUME NEW f \in Fans, FanThrows(f)
      PROVE  Kinds'
  <2>1. retry' \in [Events -> Nat] /\ settled' \subseteq Events \X Targets
    <3>1. CASE f = "global"
      BY <1>0, <1>7, <1>a, <3>1, KindsRetry DEF FanThrows
    <3>2. CASE f # "global"
      BY <1>0, <1>7, <3>2 DEF FanThrows, Kinds
    <3> QED BY <3>1, <3>2
  <2>2. faults' \in 0..MaxFaults
    BY <1>0, <1>7, KindsFault DEF FanThrows
  <2> QED BY <1>0, <1>7, <2>1, <2>2 DEF FanThrows, presenceVars, Kinds
<1>8. ASSUME NEW f \in Fans \cup {"batch"}, NEW u \in Users, Answer(f, u)
      PROVE  Kinds'
  <2>1. settled' \in {settled, Receives(f, u)}
    BY <1>8 DEF Answer
  <2>2. Receives(f, u) \subseteq Events \X Targets
    BY <1>0, <1>a, KindsSettle DEF Receives, Kinds
  <2>3. faults' \in 0..MaxFaults
    <3>1. UNCHANGED faults \/ Fault("call")
      BY <1>8 DEF Answer
    <3> QED BY <1>0, <3>1, KindsFault DEF Kinds
  <2>4. settled' \subseteq Events \X Targets
    BY <1>0, <2>1, <2>2 DEF Kinds
  <2> QED BY <1>0, <1>8, <2>3, <2>4 DEF Answer, presenceVars, Kinds
<1>9. ASSUME NEW f \in Fans \cup {"batch"}, NEW u \in Users, ReturnLive(f, u)
      PROVE  Kinds'
  <2>1. \/ UNCHANGED <<users, astray, disk>>
        \/ /\ users' = users \cup {u} /\ astray' = astray \ {u}
           /\ disk'.retry = disk.retry /\ disk'.users = users'
    BY <1>9, <1>b DEF ReturnLive, Enters
  <2> QED BY <1>0, <1>9, <2>1 DEF ReturnLive, queueVars, presenceVars, Kinds
<1>10. ASSUME NEW f \in Fans \cup {"batch"}, NEW t \in Users \cup Rooms, ReturnOther(f, t)
       PROVE  Kinds'
  <2>1. retry' \in [Events -> Nat] /\ settled' \subseteq Events \X Targets
    <3>1. CASE f = "batch" /\ probe[f][t].answer = "failed"
      BY <1>0, <1>10, <1>a, <3>1, KindsRetry DEF ReturnOther
    <3>2. CASE ~(f = "batch" /\ probe[f][t].answer = "failed")
      BY <1>0, <1>10, <3>2 DEF ReturnOther, Kinds
    <3> QED BY <3>1, <3>2
  <2> QED BY <1>0, <1>10, <2>1 DEF ReturnOther, presenceVars, Kinds
<1>11. CASE DirectBegins
  BY <1>0, <1>11, KindsFrame DEF DirectBegins, queueVars, presenceVars
<1>12. ASSUME NEW u \in Users, Connect(u) \/ Disconnect(u) \/ Vanish(u)
       PROVE  Kinds'
  <2>1. sockets' \in [Users -> 0..MaxSockets]
    <3>1. MaxSockets \in Nat /\ sockets[u] \in 0..MaxSockets
      BY <1>0, BroadcasterAssumption DEF Kinds
    <3>2. PICK n \in 0..MaxSockets : sockets' = [sockets EXCEPT ![u] = n]
      <4>1. CASE Connect(u)
        <5>1. sockets[u] + 1 \in 0..MaxSockets
          BY <3>1, <4>1 DEF Connect
        <5> QED BY <4>1, <5>1 DEF Connect
      <4>2. CASE Disconnect(u)
        <5>1. sockets[u] - 1 \in 0..MaxSockets
          BY <3>1, <4>2 DEF Disconnect
        <5> QED BY <4>2, <5>1 DEF Disconnect
      <4>3. CASE Vanish(u)
        <5>1. 0 \in 0..MaxSockets
          BY <3>1
        <5> QED BY <4>3, <5>1 DEF Vanish
      <4> QED BY <1>12, <4>1, <4>2, <4>3
    <3> QED BY <1>0, <3>2 DEF Kinds
  <2>2. UNCHANGED <<queueVars, users, disk, astray, faults>>
    BY <1>12 DEF Connect, Disconnect, Vanish
  <2> QED BY <1>0, <2>1, <2>2 DEF queueVars, Kinds
<1>13. ASSUME NEW u \in Users, NEW i \in 1..MaxCalls, Register(u, i)
       PROVE  Kinds'
  BY <1>0, <1>13, <1>b DEF Register, Enters, queueVars, Kinds
<1>14. ASSUME NEW u \in Users, NEW i \in 1..MaxCalls, Unregister(u, i)
       PROVE  Kinds'
  BY <1>0, <1>14, <1>b DEF Unregister, queueVars, Kinds
<1>15. ASSUME NEW u \in Users, NEW i \in 1..MaxCalls, CallFails(u, i)
       PROVE  Kinds'
  <2>1. faults' \in 0..MaxFaults
    BY <1>0, <1>15, KindsFault DEF CallFails
  <2> QED BY <1>0, <1>15, <2>1 DEF CallFails, queueVars, Kinds
<1>16. CASE Evict
  <2>1. retry' = disk.retry /\ users' = disk.users /\ unstored' = {} /\ disk' = disk
    BY <1>16 DEF Evict, Loaded
  <2> QED BY <1>0, <1>16, <2>1 DEF Evict, presenceVars, Kinds
<1>17. CASE Crash
  <2>1. faults' \in 0..MaxFaults
    BY <1>0, <1>17, KindsFault DEF Crash
  <2>2. Everywhere(unstored) \subseteq Events \X Targets
    BY <1>0, KindsSettle DEF Kinds
  <2>3. retry' = disk.retry /\ users' = disk.users /\ unstored' = {} /\ disk' = disk
    BY <1>17 DEF Crash, Loaded
  <2> QED BY <1>0, <1>17, <2>1, <2>2, <2>3 DEF Crash, presenceVars, Kinds
<1>18. CASE UNCHANGED vars
  BY <1>0, <1>18, KindsFrame DEF vars, queueVars, presenceVars
<1> QED
  BY <1>1, <1>2, <1>3, <1>4, <1>5, <1>6, <1>7, <1>8, <1>9, <1>10, <1>11, <1>12, <1>13,
     <1>14, <1>15, <1>16, <1>17, <1>18
     DEF Next, Drain, Direct, Presence, Fans

\* Every reachable state has its types: the queue, the batch and the disk hold events, the
\* registry holds users, and a user's sockets and the faults stay within their bounds.
THEOREM BroadcasterTypeCorrect == Spec => []TypeOK
<1>1. TypeInv => TypeOK
  BY DEF TypeInv, LossInv, Shapes, Queues, Kinds, TypeOK, Probes, Deliveries
<1> QED
  BY <1>1, TypeInit, TypeStep, PTL DEF Spec

=============================================================================
