-------------------------- MODULE RateLimiterProofs --------------------------
(***************************************************************************)
(* The quota of a client and the bound on its bursts, for all constants.   *)
(*                                                                         *)
(* The first lemmas are about one entry e, the ghost g of its client and   *)
(* the time: what counting, refusing, granting, waiting and expiring make  *)
(* of EntryOK.  The actions of the object are made of these.               *)
(***************************************************************************)
EXTENDS RateLimiter, TLAPS

(***************************************************************************)
(* The ghost                                                               *)
(***************************************************************************)
\* Granted is additive, and grows with the stretch of time.
LEMMA InFacts ==
    ASSUME NEW g, NEW n \in 1 .. MaxTime, GhostOK(g, n),
           NEW a \in Int, NEW b \in Int, NEW d \in Int,
           a <= b, b <= d, d <= MaxTime
    PROVE  /\ In(g, a, b) \in Nat
           /\ In(g, a, d) = In(g, a, b) + In(g, b, d)
           /\ n <= a => In(g, a, b) = 0
  BY LimiterAssumption DEF In, GhostOK

LEMMA InNat ==
    ASSUME NEW g, NEW n \in 1 .. MaxTime, GhostOK(g, n), NEW a \in Int, NEW b \in Int,
           a <= b, b <= MaxTime
    PROVE  In(g, a, b) \in Nat
  BY LimiterAssumption DEF In, GhostOK

\* Time passes, and the ghost stays one.
LEMMA GhostTick ==
    ASSUME NEW g, NEW n \in 1 .. MaxTime, n < MaxTime, GhostOK(g, n)
    PROVE  GhostOK(g, n + 1)
  BY LimiterAssumption DEF GhostOK

(***************************************************************************)
(* One entry                                                               *)
(***************************************************************************)
LEMMA EntryFacts ==
    /\ NoEntry \in Entries
    /\ \A e \in Entries : /\ e.count \in 0 .. Max /\ e.prev \in 0 .. Max
                          /\ e.start \in 0 .. MaxTime /\ e.last \in 0 .. MaxTime
                          /\ e.count # 0 => e # NoEntry
  BY LimiterAssumption DEF NoEntry, Entries

LEMMA NotNoEntry == \A e : e.count # 0 => e # NoEntry
  BY DEF NoEntry

\* An entry keeps its promise while time passes.
LEMMA EntryTick ==
    ASSUME NEW g, NEW n \in 1 .. MaxTime, n < MaxTime, GhostOK(g, n),
           NEW e \in Entries, NEW k \in {0, 1}, EntryOK(e, g, n, k)
    PROVE  EntryOK(e, g, n + 1, k)
<1>1. /\ e.count \in Int /\ e.prev \in Int /\ e.start \in 0 .. MaxTime /\ e.last \in 0 .. MaxTime
  BY EntryFacts DEF Entries
<1>2. \A a \in Int : a <= n => In(g, a, n + 1) = In(g, a, n)
  BY LimiterAssumption DEF GhostOK, In
<1>3. CASE Current(e, g, n, k)
  <2>1. e.start - 1 <= n /\ e.start <= n /\ e.last <= n
    BY <1>1, <1>3 DEF Current
  <2>2. Accounts(e, g, n + 1, k)
    BY <1>1, <1>2, <1>3, <2>1 DEF Current, Accounts
  <2> QED
    BY <1>1, <1>3, <2>2 DEF Current, EntryOK
<1>4. CASE k = 0 /\ Past(e, g, n)
  <2>1. In(g, n + 1 - Window, n + 1) = In(g, n + 1 - Window, n)
    BY <1>2, LimiterAssumption
  <2>2. In(g, n - Window, n) = In(g, n - Window, n + 1 - Window) + In(g, n + 1 - Window, n)
    BY InFacts, LimiterAssumption
  <2>3. In(g, n - Window, n + 1 - Window) \in Nat /\ In(g, n + 1 - Window, n) \in Nat
    <3>1. /\ n - Window \in Int /\ n + 1 - Window \in Int /\ n \in Int
          /\ n - Window <= n + 1 - Window /\ n + 1 - Window <= n /\ n <= MaxTime
      BY LimiterAssumption
    <3>2. n + 1 - Window <= MaxTime
      BY <3>1, LimiterAssumption
    <3>3. In(g, n - Window, n + 1 - Window) \in Nat
      BY <3>1, <3>2, InNat
    <3>4. In(g, n + 1 - Window, n) \in Nat
      BY <3>1, <3>2, InNat
    <3> QED
      BY <3>3, <3>4
  <2> QED
    BY <1>1, <1>4, <2>1, <2>2, <2>3, LimiterAssumption DEF Past, EntryOK
<1> QED
  BY <1>3, <1>4 DEF EntryOK

\* An answer that is not given takes nothing away.
LEMMA EntryWeaken ==
    ASSUME NEW g, NEW n \in 1 .. MaxTime, GhostOK(g, n), NEW e \in Entries, EntryOK(e, g, n, 1)
    PROVE  EntryOK(e, g, n, 0)
<1>1. In(g, e.start - 1, n) \in Int /\ In(g, e.start, n) \in Int
  <2>1. e.start \in 0 .. MaxTime /\ e.start <= n
    BY EntryFacts DEF EntryOK, Current
  <2> QED
    BY <2>1, LimiterAssumption DEF In, GhostOK
<1> QED
  BY <1>1, EntryFacts DEF EntryOK, Current, Accounts

(***************************************************************************)
(* Products                                                                *)
(***************************************************************************)
LEMMA TimesNat == \A x, y \in Nat : x * y \in Nat
  OBVIOUS

LEMMA TimesLess ==
    ASSUME NEW x \in Int, NEW y \in Int, NEW w \in Nat, x * w < y * w
    PROVE  x < y
<1>1. SUFFICES ASSUME y <= x PROVE FALSE
  OBVIOUS
<1>2. (x - y) * w \in Nat
  BY <1>1, TimesNat
<1> QED
  BY <1>2

LEMMA TimesMono ==
    ASSUME NEW x \in Nat, NEW y \in Nat, NEW v \in Nat, NEW w \in Nat, x <= y, v <= w
    PROVE  x * v <= y * w
<1>1. (y - x) * v \in Nat /\ y * (w - v) \in Nat
  BY TimesNat
<1> QED
  BY <1>1

(***************************************************************************)
(* What the actions make of an entry                                       *)
(***************************************************************************)
\* A request that is let through: the entry counts it, and waits for the answer.
LEMMA EntryCount ==
    ASSUME NEW g, TypeOK, GhostOK(g, now),
           NEW e \in Entries, EntryOK(e, g, now, 0), ~IsRefused(e)
    PROVE  /\ Counted(e) \in Entries
           /\ EntryOK(Counted(e), g, now, 1)
<1> DEFINE new == Counted(e)
<1>1. now \in 1 .. MaxTime
  BY DEF TypeOK
<1>2. /\ e.count \in 0 .. Max /\ e.prev \in 0 .. Max
      /\ e.start \in 0 .. MaxTime /\ e.last \in 0 .. MaxTime
  BY EntryFacts
<1>3. In(g, now, now) = 0
  BY <1>1, LimiterAssumption DEF In, GhostOK
<1>4. CASE e = NoEntry \/ Over(e)
  <2>1. /\ new.count = 1 /\ new.start = now /\ new.last = now /\ new \in Entries
        /\ new.prev = IF now - e.start < 2 * Window THEN e.count ELSE 0
    BY <1>1, <1>2, <1>4, LimiterAssumption DEF Counted, Entries
  <2>2. /\ In(g, now - Window, now - 1) \in Nat /\ In(g, now - 1, now) \in Nat
        /\ In(g, now - Window, now) = In(g, now - Window, now - 1) + In(g, now - 1, now)
    <3>1. /\ now - Window \in Int /\ now - 1 \in Int /\ now \in Int
          /\ now - Window <= now - 1 /\ now - 1 <= now /\ now <= MaxTime /\ now - 1 <= MaxTime
      BY <1>1, LimiterAssumption
    <3>2. In(g, now - Window, now - 1) \in Nat
      BY <1>1, <3>1, InFacts
    <3> QED
      BY <1>1, <3>1, <3>2, InFacts
  <2>3. CASE Past(e, g, now)
    <3>1. In(g, now - Window, now - 1) = 0 /\ In(g, now - 1, now) = 0
      BY <2>2, <2>3 DEF Past
    <3>2. Accounts(new, g, now, 1)
      BY <1>3, <2>1, <3>1 DEF Accounts
    <3> QED
      BY <1>1, <2>1, <3>2, EntryFacts, LimiterAssumption DEF EntryOK, Current, Passed
  <2>4. CASE Current(e, g, now, 0)
    <3>1. e.start + Window <= now
      BY <1>1, <1>2, <1>4, <2>4, LimiterAssumption DEF Current, Over
    <3>2. e.last < now /\ In(g, e.last, now) = 0
      BY <1>1, <1>2, <2>4, <3>1, LimiterAssumption DEF Current, Accounts
    <3>3. In(g, now - 1, now) = 0
      <4>1. /\ e.last \in Int /\ now - 1 \in Int /\ now \in Int
            /\ e.last <= now - 1 /\ now - 1 <= now /\ now <= MaxTime /\ now - 1 <= MaxTime
        <5>1. e.last \in Int /\ now \in Int /\ e.last < now /\ now <= MaxTime /\ MaxTime \in Int
          BY <1>1, <1>2, <3>2, LimiterAssumption
        <5> QED
          BY <5>1
      <4>2. In(g, e.last, now - 1) \in Nat
        BY <1>1, <4>1, InFacts
      <4>3. In(g, e.last, now) = In(g, e.last, now - 1) + In(g, now - 1, now)
        BY <1>1, <4>1, InFacts
      <4> QED
        BY <2>2, <3>2, <4>2, <4>3
    <3>4. CASE now - e.start < 2 * Window
      <4>1. /\ e.start \in Int /\ now - Window \in Int /\ now \in Int
            /\ e.start <= now - Window /\ now - Window <= now /\ now <= MaxTime
            /\ now - Window <= MaxTime
        BY <1>1, <1>2, <3>1, LimiterAssumption
      <4>2. In(g, e.start, now - Window) \in Nat
        BY <1>1, <4>1, InFacts
      <4>3. In(g, e.start, now) = In(g, e.start, now - Window) + In(g, now - Window, now)
        BY <1>1, <4>1, InFacts
      <4>4. In(g, e.start, now) = 0 \/ In(g, e.start, now) < e.count
        BY <1>2, <2>4 DEF Current, Accounts
      <4>5. In(g, now - Window, now - 1) = 0 \/ In(g, now - Window, now - 1) < e.count
        BY <1>2, <2>2, <3>3, <4>2, <4>3, <4>4
      <4>6. Accounts(new, g, now, 1)
        BY <1>3, <2>1, <3>3, <3>4, <4>5 DEF Accounts
      <4> QED
        BY <1>1, <2>1, <4>6, EntryFacts, LimiterAssumption DEF EntryOK, Current, Passed
    <3>5. CASE ~(now - e.start < 2 * Window)
      <4>1. /\ e.last \in Int /\ now - Window \in Int /\ now \in Int
            /\ e.last <= now - Window /\ now - Window <= now /\ now <= MaxTime
            /\ now - Window <= MaxTime
        BY <1>1, <1>2, <2>4, <3>5, LimiterAssumption DEF Current
      <4>2. In(g, e.last, now - Window) \in Nat
        BY <1>1, <4>1, InFacts
      <4>3. In(g, e.last, now) = In(g, e.last, now - Window) + In(g, now - Window, now)
        BY <1>1, <4>1, InFacts
      <4>4. In(g, now - Window, now - 1) = 0
        BY <2>2, <3>2, <3>3, <4>2, <4>3
      <4>5. Accounts(new, g, now, 1)
        BY <1>3, <2>1, <3>3, <4>4 DEF Accounts
      <4> QED
        BY <1>1, <2>1, <4>5, EntryFacts, LimiterAssumption DEF EntryOK, Current, Passed
    <3> QED
      BY <3>4, <3>5
  <2> QED
    BY <2>3, <2>4 DEF EntryOK
<1>5. CASE e # NoEntry /\ ~Over(e)
  <2>1. Current(e, g, now, 0) /\ now - e.start < Window /\ e.start <= now
    BY <1>1, <1>2, <1>5, LimiterAssumption DEF EntryOK, Past, Current, Over
  <2>2. /\ new.count = e.count + 1 /\ new.last = now
        /\ new.start = e.start /\ new.prev = e.prev /\ new = [e EXCEPT !.count = @ + 1, !.last = now]
    BY <1>5 DEF Counted, Entries
  <2>3. e.prev * (Window - (now - e.start)) + e.count * Window < Max * Window
    <3>1. e.prev * (Window - (now - e.start)) \in Nat /\ e.count * Window \in Nat /\ Max * Window \in Nat
      BY <1>1, <1>2, <2>1, TimesNat, LimiterAssumption
    <3> QED
      BY <1>5, <3>1 DEF IsRefused, Sliding
  <2>4. e.count < Max
    <3>1. e.prev * (Window - (now - e.start)) \in Nat
      BY <1>1, <1>2, <2>1, TimesNat, LimiterAssumption
    <3>2. e.count * Window \in Nat /\ Max * Window \in Nat
      BY <1>2, TimesNat, LimiterAssumption
    <3>3. e.count * Window < Max * Window
      BY <2>3, <3>1, <3>2
    <3> QED
      BY <1>2, <3>3, TimesLess, LimiterAssumption
  <2>5. new \in Entries
    <3>1. e.count + 1 \in 0 .. Max /\ now \in 0 .. MaxTime
      BY <1>1, <1>2, <2>4, LimiterAssumption
    <3> QED
      BY <2>2, <3>1 DEF Entries
  <2>6. Passed(new)
    BY <1>2, <2>2, <2>3 DEF Passed
  <2>7. Accounts(new, g, now, 1)
    BY <1>2, <1>3, <2>1, <2>2 DEF Current, Accounts
  <2>8. Current(new, g, now, 1)
    <3>1. new # NoEntry
      <4>1. new.count # 0
        BY <1>2, <2>2
      <4> HIDE DEF new
      <4> QED
        BY <4>1, NotNoEntry
    <3>2. 1 <= e.count /\ 1 <= e.start
      BY <2>1 DEF Current
    <3>3. 1 <= new.count /\ new.count # 1
      BY <1>2, <2>2, <3>2
    <3>4. now < e.start + Window
      BY <1>1, <1>2, <2>1, LimiterAssumption
    <3> QED
      BY <1>1, <2>1, <2>2, <2>6, <2>7, <3>1, <3>2, <3>3, <3>4 DEF Current
  <2> QED
    BY <2>5, <2>8 DEF EntryOK
<1> QED
  BY <1>4, <1>5

\* A request that is refused: only the time of the last access moves.
LEMMA EntryRefuse ==
    ASSUME NEW g, TypeOK, GhostOK(g, now),
           NEW e \in Entries, EntryOK(e, g, now, 0), IsRefused(e)
    PROVE  /\ [e EXCEPT !.last = now] \in Entries
           /\ EntryOK([e EXCEPT !.last = now], g, now, 0)
<1> DEFINE new == [e EXCEPT !.last = now]
<1>1. now \in 1 .. MaxTime
  BY DEF TypeOK
<1>2. /\ e.count \in 0 .. Max /\ e.prev \in 0 .. Max
      /\ e.start \in 0 .. MaxTime /\ e.last \in 0 .. MaxTime
  BY EntryFacts
<1>3. In(g, now, now) = 0
  BY <1>1, LimiterAssumption DEF In, GhostOK
<1>4. Current(e, g, now, 0) /\ now - e.start < Window
  BY <1>1, <1>2, LimiterAssumption DEF EntryOK, Past, Current, IsRefused, Over
<1>5. /\ new.count = e.count /\ new.last = now /\ new.start = e.start /\ new.prev = e.prev
      /\ new \in Entries
  <2>1. now \in 0 .. MaxTime
    BY <1>1, LimiterAssumption
  <2> QED
    BY <2>1 DEF Entries
<1>6. e.start <= now /\ e.last <= now /\ e.start <= e.last /\ now < e.start + Window
  BY <1>1, <1>2, <1>4, LimiterAssumption DEF Current
<1>7. Passed(new)
  <2>1. CASE e.count = 1
    BY <1>5, <2>1 DEF Passed
  <2>2. CASE e.count # 1
    <3> DEFINE late == Window - (now - e.start)
               early == Window - (e.last - e.start)
    <3>1. late \in Nat /\ early \in Nat /\ late <= early
      BY <1>1, <1>2, <1>6, LimiterAssumption
    <3>2. e.prev * late <= e.prev * early
      BY <1>2, <3>1, TimesMono
    <3>3. e.prev * early + (e.count - 1) * Window < Max * Window
      BY <1>4, <2>2 DEF Current, Passed
    <3>4. e.prev * late \in Nat /\ e.prev * early \in Nat
      BY <1>2, <3>1, TimesNat
    <3>5. (e.count - 1) * Window \in Int /\ Max * Window \in Int
      BY <1>2, LimiterAssumption
    <3>6. e.prev * late + (e.count - 1) * Window < Max * Window
      BY <3>2, <3>3, <3>4, <3>5
    <3> QED
      BY <1>5, <3>6 DEF Passed
  <2> QED
    BY <2>1, <2>2
<1>8. Accounts(new, g, now, 0)
  BY <1>3, <1>4, <1>5 DEF Current, Accounts
<1>9. new # NoEntry
  <2>1. new.count # 0
    BY <1>2, <1>4, <1>5 DEF Current
  <2> HIDE DEF new
  <2> QED
    BY <2>1, NotNoEntry
<1> QED
  BY <1>1, <1>4, <1>5, <1>6, <1>7, <1>8, <1>9 DEF EntryOK, Current

\* The ghost of a client whose waiting request is granted.
Plus(g, e) == [t \in 0 .. MaxTime |-> IF t < e.last THEN g[t] ELSE g[t] + 1]

LEMMA GhostPlus ==
    ASSUME NEW g, NEW n \in 1 .. MaxTime, GhostOK(g, n), NEW e, e.last \in 1 .. n
    PROVE  GhostOK(Plus(g, e), n)
<1> DEFINE h == Plus(g, e)
<1> USE LimiterAssumption
<1>1. e.last \in Int /\ 1 <= e.last /\ e.last <= n
  OBVIOUS
  <1>2. \A t \in 0 .. MaxTime : g[t] \in Nat /\ h[t] = IF t < e.last THEN g[t] ELSE g[t] + 1
    BY DEF GhostOK, Plus
  <1>3. h \in [0 .. MaxTime -> Nat]
    BY <1>2 DEF Plus
  <1>4. h[0] = 0
    BY <1>1, <1>2, LimiterAssumption DEF GhostOK
  <1>5. \A t, u \in 0 .. MaxTime : t <= u => h[t] <= h[u]
    <2> TAKE t, u \in 0 .. MaxTime
    <2> HAVE t <= u
    <2>1. g[t] <= g[u]
      BY DEF GhostOK
    <2>2. t \in Int /\ u \in Int /\ e.last \in Int /\ g[t] \in Nat /\ g[u] \in Nat
      BY <1>1, <1>2, LimiterAssumption
    <2> HIDE DEF h
    <2> QED
      BY <1>2, <2>1, <2>2
  <1>6. \A t \in n .. MaxTime : h[t] = h[n]
    BY <1>1, <1>2, LimiterAssumption DEF GhostOK
  <1> QED
    BY <1>3, <1>4, <1>5, <1>6 DEF GhostOK

\* A request that is granted: its entry has accounted for it.
LEMMA EntryGrant ==
    ASSUME NEW g, NEW n \in 1 .. MaxTime, GhostOK(g, n),
           NEW e \in Entries, EntryOK(e, g, n, 1)
    PROVE  GhostOK(Plus(g, e), n) /\ EntryOK(e, Plus(g, e), n, 0)
<1> DEFINE h == Plus(g, e)
<1>1. /\ e.count \in 0 .. Max /\ e.prev \in 0 .. Max
      /\ e.start \in 0 .. MaxTime /\ e.last \in 0 .. MaxTime
  BY EntryFacts
<1>2. Current(e, g, n, 1)
  BY DEF EntryOK
<1>3. 1 <= e.start /\ e.start <= e.last /\ e.last <= n /\ 1 <= e.count
  BY <1>2 DEF Current
<1>4. GhostOK(h, n)
  BY <1>1, <1>3, LimiterAssumption, GhostPlus
<1>5. /\ \A a, b \in Int : a <= b /\ b < e.last => In(h, a, b) = In(g, a, b)
      /\ \A b \in Int : e.last <= b /\ b <= MaxTime =>
            /\ \A a \in Int : a < e.last => In(h, a, b) = In(g, a, b) + 1
            /\ In(h, e.last, b) = In(g, e.last, b)
  <2>1. \A t \in 0 .. MaxTime : g[t] \in Nat /\ h[t] = IF t < e.last THEN g[t] ELSE g[t] + 1
    BY DEF GhostOK, Plus
  <2>2. e.last \in Int /\ e.last >= 1 /\ e.last <= MaxTime /\ MaxTime \in Nat
    BY <1>1, <1>3, LimiterAssumption
  <2> HIDE DEF h
  <2> QED
    BY <2>1, <2>2 DEF In
<1>6. In(h, e.start - 1, n) = In(g, e.start - 1, n) + 1 /\ In(h, e.last, n) = In(g, e.last, n)
  BY <1>1, <1>3, <1>5, LimiterAssumption
<1>7. In(h, e.start - Window, e.start - 1) = In(g, e.start - Window, e.start - 1)
  BY <1>1, <1>3, <1>5, LimiterAssumption
<1>8. In(h, e.start, n) = 0 \/ In(h, e.start, n) < e.count
  <2>1. CASE e.start = e.last
    BY <1>1, <1>2, <1>6, <2>1 DEF Current, Accounts
  <2>2. CASE e.start < e.last
    <3>1. In(h, e.start, n) = In(g, e.start, n) + 1
      BY <1>1, <1>3, <1>5, <2>2, LimiterAssumption
    <3>2. e.count # 1
      BY <1>1, <1>2, <2>2 DEF Current
    <3>3. In(g, e.start, n) = 0 \/ In(g, e.start, n) < e.count - 1
      BY <1>2 DEF Current, Accounts
    <3>4. In(g, e.start, n) \in Int
      BY <1>1, <1>3, LimiterAssumption, InNat
    <3> QED
      BY <1>1, <1>3, <3>1, <3>2, <3>3, <3>4
  <2> QED
    BY <1>1, <1>3, <2>1, <2>2
<1>9. In(h, e.start - 1, n) <= e.count
  <2>1. In(g, e.start - 1, n) <= e.count - 1
    BY <1>2 DEF Current, Accounts
  <2>2. In(g, e.start - 1, n) \in Int
    BY <1>1, <1>3, LimiterAssumption, InNat
  <2> QED
    BY <1>1, <1>6, <2>1, <2>2
<1>10. Accounts(e, h, n, 0)
  BY <1>1, <1>2, <1>6, <1>7, <1>8, <1>9 DEF Current, Accounts
<1> QED
  BY <1>2, <1>4, <1>10 DEF EntryOK, Current

\* An entry that expires has nothing left to account for.
LEMMA EntryExpire ==
    ASSUME NEW g, NEW n \in 1 .. MaxTime, GhostOK(g, n), EntryTtl >= Window,
           NEW e \in Entries, e # NoEntry, EntryOK(e, g, n, 0), n - e.last > EntryTtl
    PROVE  In(g, n - Window, n) = 0 /\ 1 + Window <= n
<1>1. e.start \in 0 .. MaxTime /\ e.last \in 0 .. MaxTime
  BY EntryFacts
<1>2. CASE Past(e, g, n)
  BY <1>1, <1>2, LimiterAssumption DEF Past
<1>3. CASE Current(e, g, n, 0)
  <2>1. 1 <= e.start /\ e.start <= e.last /\ In(g, e.last, n) = 0
    BY <1>3 DEF Current, Accounts
  <2>2. /\ e.last \in Int /\ n - Window \in Int /\ n \in Int
        /\ e.last <= n - Window /\ n - Window <= n /\ n <= MaxTime /\ n - Window <= MaxTime
    BY <1>1, LimiterAssumption
  <2>3. In(g, e.last, n - Window) \in Nat /\ In(g, n - Window, n) \in Nat
    <3>1. In(g, e.last, n - Window) \in Nat
      BY <2>2, InNat
    <3> QED
      BY <2>2, <3>1, InNat
  <2>4. In(g, e.last, n) = In(g, e.last, n - Window) + In(g, n - Window, n)
    BY <2>2, InFacts
  <2> QED
    BY <1>1, <2>1, <2>2, <2>3, <2>4, LimiterAssumption
<1> QED
  BY <1>2, <1>3 DEF EntryOK

\* An entry that keeps its promise has counted what the last window saw.
LEMMA EntryKnows ==
    ASSUME NEW g, NEW n \in 1 .. MaxTime, GhostOK(g, n),
           NEW e \in Entries, NEW k \in {0, 1}, EntryOK(e, g, n, k)
    PROVE  e.count + e.prev >= In(g, n - Window, n)
<1>1. /\ e.count \in 0 .. Max /\ e.prev \in 0 .. Max
      /\ e.start \in 0 .. MaxTime /\ e.last \in 0 .. MaxTime
  BY EntryFacts
<1>2. CASE Past(e, g, n)
  BY <1>1, <1>2, LimiterAssumption DEF Past
<1>3. CASE Current(e, g, n, k)
  <2> DEFINE s == e.start - 1
             w == e.start - Window
             m == n - Window
  <2>1. 1 <= e.start /\ e.start <= n
    BY <1>1, <1>3 DEF Current
  <2>2. /\ w \in Int /\ s \in Int /\ m \in Int /\ n \in Int
        /\ w <= m /\ m <= n /\ w <= s /\ s <= n
        /\ s <= MaxTime /\ n <= MaxTime /\ m <= MaxTime
    BY <1>1, <2>1, LimiterAssumption
  <2> HIDE DEF s, w, m
  <2>3. In(g, w, m) \in Nat /\ In(g, m, n) \in Nat /\ In(g, w, s) \in Nat /\ In(g, s, n) \in Nat
    <3>1. In(g, w, m) \in Nat
      BY <2>2, InNat
    <3>2. In(g, m, n) \in Nat
      BY <2>2, InNat
    <3>3. In(g, w, s) \in Nat
      BY <2>2, InNat
    <3>4. In(g, s, n) \in Nat
      BY <2>2, InNat
    <3> QED
      BY <3>1, <3>2, <3>3, <3>4
  <2>4. In(g, w, n) = In(g, w, m) + In(g, m, n)
    BY <2>2, InFacts
  <2>5. In(g, w, n) = In(g, w, s) + In(g, s, n)
    BY <2>2, InFacts
  <2>6. In(g, s, n) <= e.count /\ In(g, w, s) <= e.prev
    <3>1. In(g, s, n) <= e.count - k
      BY <1>3 DEF Current, Accounts, s
    <3>2. In(g, w, s) = 0 \/ In(g, w, s) < e.prev
      BY <1>3 DEF Current, Accounts, s, w
    <3> QED
      BY <1>1, <2>3, <3>1, <3>2
  <2>7. e.count + e.prev >= In(g, m, n)
    BY <1>1, <2>3, <2>4, <2>5, <2>6
  <2> QED
    BY <2>7 DEF m
<1> QED
  BY <1>2, <1>3 DEF EntryOK

(***************************************************************************)
(* Bursts                                                                  *)
(***************************************************************************)
Calm(g, t, h) == In(g, t - h, t) * Window <= Max * (Window + h - 2)

\* A request that is granted leaves every stretch of time within the bound.
LEMMA GrantIsCalm ==
    ASSUME NEW g, NEW n \in 1 .. MaxTime, GhostOK(g, n),
           NEW e \in Entries, EntryOK(e, g, n, 1),
           NEW t \in 0 .. MaxTime, NEW h \in 2 .. Window, Calm(g, t, h)
    PROVE  Calm(Plus(g, e), t, h)
<1> DEFINE s == e.start - 1
           a == t - h
           was == In(g, a, t)
           is == In(Plus(g, e), a, t)
<1>1. /\ e.count \in 0 .. Max /\ e.prev \in 0 .. Max
      /\ e.start \in 0 .. MaxTime /\ e.last \in 0 .. MaxTime
  BY EntryFacts
<1>2. /\ 1 <= e.start /\ e.start <= e.last /\ e.last <= n /\ 1 <= e.count
      /\ e.last < e.start + Window
      /\ Current(e, g, n, 1)
  BY DEF EntryOK, Current
<1>3. /\ a \in Int /\ t \in Int /\ h \in Nat /\ n \in Int /\ s \in Int /\ a < t /\ a <= MaxTime
      /\ t <= MaxTime /\ n <= MaxTime /\ s >= 0 /\ s < n /\ MaxTime \in Nat /\ Window \in Nat /\ Max \in Nat
  BY <1>1, <1>2, LimiterAssumption
<1>4. CASE t < e.last \/ e.last <= a
  <2>1. is = was
    <3>1. \A x \in 0 .. MaxTime : Plus(g, e)[x] = IF x < e.last THEN g[x] ELSE g[x] + 1
      BY DEF Plus
    <3>2. g \in [0 .. MaxTime -> Nat]
      BY DEF GhostOK
    <3>3. CASE t < e.last
      <4>1. t \in 0 .. MaxTime /\ t >= 0 /\ Plus(g, e)[t] = g[t]
        BY <1>3, <3>1, <3>3
      <4>2. CASE a < 0
        BY <1>3, <4>1, <4>2 DEF In
      <4>3. CASE a >= 0
        <5>1. a \in 0 .. MaxTime /\ a < e.last
          BY <1>1, <1>3, <3>3, <4>3
        <5>2. Plus(g, e)[a] = g[a]
          BY <3>1, <5>1
        <5> QED
          BY <1>3, <4>1, <4>3, <5>2 DEF In
      <4> QED
        BY <1>3, <4>2, <4>3
    <3>4. CASE e.last <= a
      <4>1. a \in 0 .. MaxTime /\ t \in 0 .. MaxTime /\ e.last <= t
        BY <1>1, <1>2, <1>3, <3>4
      <4>2. is = Plus(g, e)[t] - Plus(g, e)[a] /\ was = g[t] - g[a]
        BY <1>3, <4>1 DEF In
      <4>3. ~(t < e.last) /\ ~(a < e.last)
        BY <1>1, <1>3, <3>4, <4>1
      <4>4. Plus(g, e)[t] = g[t] + 1 /\ Plus(g, e)[a] = g[a] + 1 /\ g[t] \in Int /\ g[a] \in Int
        BY <3>1, <3>2, <4>1, <4>3
      <4> HIDE DEF is, was, a
      <4> QED
        BY <4>2, <4>4
    <3> QED
      BY <1>4, <3>3, <3>4
  <2> QED
    BY <2>1 DEF Calm
<1>5. CASE a < e.last /\ e.last <= t
  <2>1. is = In(g, a, n) + 1
    <3>1. \A x \in 0 .. MaxTime : Plus(g, e)[x] = IF x < e.last THEN g[x] ELSE g[x] + 1
      BY DEF Plus
    <3>2. g \in [0 .. MaxTime -> Nat]
      BY DEF GhostOK
    <3>3. In(g, e.last, n) = 0
      BY <1>2 DEF Current, Accounts
    <3>4. g[t] = g[n]
      <4>1. g[e.last] = g[n]
        BY <1>1, <1>2, <1>3, <3>2, <3>3 DEF In
      <4>2. t \in 0 .. MaxTime /\ n \in 0 .. MaxTime /\ e.last \in 0 .. MaxTime
        BY <1>1, <1>3
      <4>3. CASE t <= n
        <5>1. g[e.last] <= g[t] /\ g[t] <= g[n]
          BY <1>5, <4>2, <4>3 DEF GhostOK
        <5> QED
          BY <3>2, <4>1, <4>2, <5>1
      <4>4. CASE n < t
        BY <1>3, <4>4 DEF GhostOK
      <4> QED
        BY <1>3, <4>3, <4>4
    <3>5. t \in 0 .. MaxTime /\ n \in 0 .. MaxTime /\ ~(t < e.last) /\ t >= 0 /\ n >= 0
      BY <1>1, <1>3, <1>5
    <3>6. Plus(g, e)[t] = g[t] + 1 /\ g[t] \in Int
      BY <3>1, <3>2, <3>5
    <3>7. CASE a < 0
      BY <1>3, <3>4, <3>5, <3>6, <3>7 DEF In
    <3>8. CASE a >= 0
      <4>1. a \in 0 .. MaxTime
        BY <1>3, <3>8
      <4>2. Plus(g, e)[a] = g[a] /\ g[a] \in Int
        BY <1>5, <3>1, <3>2, <4>1
      <4>3. is = Plus(g, e)[t] - Plus(g, e)[a] /\ In(g, a, n) = g[n] - g[a]
        BY <1>3, <3>5, <3>8 DEF In
      <4> HIDE DEF is, a
      <4> QED
        BY <3>4, <3>6, <4>2, <4>3
    <3> QED
      BY <1>3, <3>7, <3>8
  <2>2. is \in Nat /\ In(g, a, n) \in Nat
    BY <1>1, <1>2, <1>3, <1>5, <2>1, InNat
  <2>3. In(g, s, n) <= e.count - 1 /\ In(g, s, n) \in Nat
    <3>1. In(g, s, n) \in Nat
      BY <1>3, InNat
    <3> QED
      BY <1>2, <3>1 DEF Current, Accounts
  <2>4. ASSUME is <= Max PROVE is * Window <= Max * (Window + h - 2)
    <3>1. Window <= Window + h - 2 /\ Window + h - 2 \in Nat
      BY <1>3
    <3> HIDE DEF is
    <3> QED
      BY <1>3, <2>2, <2>4, <3>1, TimesMono
  <2>5. CASE s <= a
    <3>1. In(g, s, n) = In(g, s, a) + In(g, a, n)
      BY <1>1, <1>2, <1>3, <1>5, <2>5, InFacts
    <3>2. In(g, s, a) \in Nat
      BY <1>3, <2>5, InNat
    <3>3. is <= Max
      <4> HIDE DEF is, s, a
      <4> QED
        BY <1>1, <1>3, <2>1, <2>2, <2>3, <3>1, <3>2
    <3> QED
      BY <2>4, <3>3 DEF Calm
  <2>6. CASE a < s
    <3> DEFINE w == e.start - Window
               before == In(g, w, s)
    <3>1. w \in Int /\ w <= a /\ w <= s /\ s <= n
      BY <1>1, <1>2, <1>3, <1>5, LimiterAssumption
    <3>2. In(g, a, n) <= before + In(g, s, n) /\ before \in Nat
      <4>1. In(g, w, a) \in Nat /\ before \in Nat
        BY <1>3, <3>1, InNat
      <4>2. In(g, w, n) = In(g, w, a) + In(g, a, n)
        BY <1>1, <1>2, <1>3, <1>5, <3>1, InFacts
      <4>3. In(g, w, n) = before + In(g, s, n)
        BY <1>3, <3>1, InFacts
      <4> HIDE DEF before, w, s, a
      <4> QED
        BY <2>2, <2>3, <4>1, <4>2, <4>3
    <3>3. before = 0 \/ before < e.prev
      BY <1>2 DEF Current, Accounts
    <3>4. CASE before = 0
      <4>1. is <= Max
        <5> HIDE DEF is, s, a, before
        <5> QED
          BY <1>1, <1>3, <2>1, <2>2, <2>3, <3>2, <3>4
      <4> QED
        BY <2>4, <4>1 DEF Calm
    <3>5. CASE before < e.prev
      <4>1. is <= e.prev + e.count - 1
        <5> HIDE DEF is, s, a, before
        <5> QED
          BY <1>1, <2>1, <2>2, <2>3, <3>2, <3>5
      <4>2. CASE e.count = 1
        <5>1. is <= Max
          <6> HIDE DEF is
          <6> QED
            BY <1>1, <1>3, <2>2, <4>1, <4>2
        <5> QED
          BY <2>4, <5>1 DEF Calm
      <4>3. CASE e.count # 1
        <5> DEFINE d == e.last - e.start
                   c == e.count - 1
        <5>1. e.prev * (Window - d) + c * Window < Max * Window
          BY <1>2, <4>3 DEF Current, Passed
        <5>2. d \in Nat /\ c \in Nat /\ d <= Window /\ d <= h - 2 /\ h - 2 \in Nat
          BY <1>1, <1>2, <1>3, <1>5, <2>6
        <5>3. is <= e.prev + c
          BY <1>1, <2>2, <4>1
        <5> HIDE DEF d, c, is
        <5>4. is * Window <= (e.prev + c) * Window
          BY <1>1, <1>3, <2>2, <5>2, <5>3, TimesMono
        <5>5. e.prev * d <= Max * (h - 2)
          BY <1>1, <1>3, <5>2, TimesMono
        <5>6. /\ (e.prev + c) * Window = e.prev * Window + c * Window
              /\ e.prev * (Window - d) = e.prev * Window - e.prev * d
              /\ Max * (Window + h - 2) = Max * Window + Max * (h - 2)
          BY <1>1, <1>3, <5>2
        <5>7. /\ e.prev * Window \in Nat /\ c * Window \in Nat /\ e.prev * d \in Nat
              /\ Max * Window \in Nat /\ Max * (h - 2) \in Nat /\ is * Window \in Nat
          BY <1>1, <1>3, <2>2, <5>2, TimesNat
        <5>8. is * Window <= Max * (Window + h - 2)
          BY <5>1, <5>4, <5>5, <5>6, <5>7
        <5> QED
          BY <5>8 DEF Calm, is
      <4> QED
        BY <4>2, <4>3
    <3> QED
      BY <3>3, <3>4, <3>5
  <2> QED
    BY <1>3, <2>5, <2>6
<1> QED
  BY <1>1, <1>3, <1>4, <1>5

(***************************************************************************)
(* Types                                                                   *)
(***************************************************************************)
LEMMA InitTypes == Init => TypeOK
<1> SUFFICES ASSUME Init PROVE TypeOK
  OBVIOUS
<1>1. NoEntry \in Entries /\ Empty \in [Clients -> Entries]
  BY EntryFacts DEF Empty
<1>2. legacy \in [Clients -> Entries]
  <2>1. legacy \in [Clients -> {NoEntry} \cup [count : 1 .. Max, start : {1}, prev : {0}, last : {1}]]
    BY LimiterAssumption DEF Init
  <2>2. [count : 1 .. Max, start : {1}, prev : {0}, last : {1}] \subseteq Entries
    BY LimiterAssumption DEF Entries
  <2> QED
    BY <1>1, <2>1, <2>2
<1>3. granted \in [Clients -> [0 .. MaxTime -> Nat]]
  <2>1. \A c \in Clients : legacy[c].count \in Nat
    BY <1>2, EntryFacts, LimiterAssumption
  <2> QED
    BY <2>1 DEF Init
<1>4. now \in 1 .. MaxTime
  BY LimiterAssumption DEF Init
<1>5. mem \in [Clients -> Entries] /\ row \in [Clients -> Entries]
  BY <1>1 DEF Init
<1>6. /\ gate \in Clients \cup {"open", "down"}
      /\ dropped \in SUBSET Clients /\ silent \in SUBSET Clients /\ faults \in SUBSET Kinds
  BY DEF Init
<1> QED
  BY <1>2, <1>3, <1>4, <1>5, <1>6 DEF TypeOK

\* What a cleanup of m and r leaves is of the same type.
LEMMA CleanedTypes ==
    ASSUME NEW m \in [Clients -> Entries], NEW r \in [Clients -> Entries],
           TypeOK, Cleaned(m, r)
    PROVE  /\ mem' \in [Clients -> Entries] /\ row' \in [Clients -> Entries]
           /\ dropped' \in SUBSET Clients /\ faults' \in SUBSET Kinds
<1>1. PICK S \in Excess(m) :
         LET gone == Expired(m) \cup S
         IN  /\ mem' = Without(m, gone)
             /\ dropped' = dropped \cup S
             /\ \/ row' = Without(r, gone) /\ UNCHANGED faults
                \/ /\ Fault("delete")
                   /\ \E stay \in SUBSET gone \ {{}} : row' = Without(r, gone \ stay)
  BY DEF Cleaned
<1>2. S \subseteq Clients
  BY DEF Excess, Known
<1>3. \A X : Without(m, X) \in [Clients -> Entries] /\ Without(r, X) \in [Clients -> Entries]
  BY EntryFacts DEF Without
<1>4. faults' \in SUBSET Kinds
  BY <1>1, LimiterAssumption DEF TypeOK, Fault
<1>5. row' \in [Clients -> Entries]
  BY <1>1, <1>3
<1> QED
  BY <1>1, <1>2, <1>3, <1>4, <1>5 DEF TypeOK

LEMMA MergedType == TypeOK => Merged(row) \in [Clients -> Entries]
  BY DEF TypeOK, Merged, OrElse

\* An entry that is let through stays below the limit.
LEMMA CountedType ==
    ASSUME TypeOK, NEW e \in Entries, ~IsRefused(e)
    PROVE  Counted(e) \in Entries
<1>1. now \in 0 .. MaxTime /\ now \in 1 .. MaxTime
  BY LimiterAssumption DEF TypeOK
<1>2. /\ e.count \in 0 .. Max /\ e.prev \in 0 .. Max
      /\ e.start \in 0 .. MaxTime /\ e.last \in 0 .. MaxTime
  BY EntryFacts
<1>3. CASE e = NoEntry \/ Over(e)
  BY <1>1, <1>2, <1>3, LimiterAssumption DEF Counted, Entries
<1>4. CASE e # NoEntry /\ ~Over(e)
  <2>1. e.count < Max
    <3>1. e.prev * (Window - (now - e.start)) \in Nat
      BY <1>1, <1>2, <1>4, TimesNat, LimiterAssumption DEF Over
    <3>2. e.count * Window \in Nat /\ Max * Window \in Nat
      BY <1>2, TimesNat, LimiterAssumption
    <3>3. e.count * Window < Max * Window
      BY <1>4, <3>1, <3>2 DEF IsRefused, Sliding
    <3> QED
      BY <1>2, <3>3, TimesLess, LimiterAssumption
  <2>2. e.count + 1 \in 0 .. Max
    BY <1>2, <2>1, LimiterAssumption
  <2> QED
    BY <1>1, <1>4, <2>2 DEF Counted, Entries
<1> QED
  BY <1>3, <1>4

LEMMA NextTypes == TypeOK /\ [Next]_vars => TypeOK'
<1> SUFFICES ASSUME TypeOK, [Next]_vars PROVE TypeOK'
  OBVIOUS
<1> USE EntryFacts
<1>1. ASSUME NEW c \in Clients, Count(c) PROVE TypeOK'
  <2>1. Counted(mem[c]) \in Entries
    BY <1>1, CountedType DEF Count, TypeOK
  <2> QED
    BY <1>1, <2>1 DEF Count, TypeOK
<1>2. ASSUME NEW c \in Clients, Refuse(c) PROVE TypeOK'
  <2>1. [mem[c] EXCEPT !.last = now] \in Entries
    <3>1. now \in 0 .. MaxTime /\ mem[c] \in Entries
      BY LimiterAssumption DEF TypeOK
    <3> QED
      BY <3>1 DEF Entries
  <2>2. mem' = [mem EXCEPT ![c] = [mem[c] EXCEPT !.last = now]]
    BY <1>2 DEF Refuse, TypeOK
  <2>3. mem' \in [Clients -> Entries]
    BY <2>1, <2>2 DEF TypeOK
  <2> QED
    BY <1>2, <2>3 DEF Refuse, TypeOK
<1>3. ASSUME NEW c \in Clients PROVE /\ Stored(c) \in [Clients -> Entries]
                                     /\ [granted EXCEPT ![c] = Plus(granted[c], mem[c])]
                                          \in [Clients -> [0 .. MaxTime -> Nat]]
  <2>1. Plus(granted[c], mem[c]) \in [0 .. MaxTime -> Nat]
    <3>1. granted[c] \in [0 .. MaxTime -> Nat]
      BY DEF TypeOK
    <3>2. \A t \in 0 .. MaxTime : granted[c][t] \in Nat
      BY <3>1
    <3>3. \A n \in Nat : n + 1 \in Nat
      OBVIOUS
    <3> QED
      BY <3>2, <3>3 DEF Plus
  <2> QED
    BY <2>1 DEF TypeOK, Stored
<1>4. ASSUME NEW c \in Clients, Grant(c) \/ Fail(c)
      PROVE  granted' \in [Clients -> [0 .. MaxTime -> Nat]] /\ silent' \in SUBSET Clients
  <2>1. CASE Grant(c)
    <3>1. granted' = [granted EXCEPT ![c] = Plus(granted[c], mem[c])]
      BY <2>1 DEF Grant, Plus, TypeOK
    <3> QED
      BY <1>3, <2>1, <3>1 DEF Grant, TypeOK
  <2>2. CASE Fail(c)
    BY <2>2 DEF Fail, TypeOK
  <2> QED
    BY <1>4, <2>1, <2>2
<1>5. ASSUME NEW kind, Fault(kind) PROVE faults' \in SUBSET Kinds
  BY <1>5, LimiterAssumption DEF Fault, TypeOK
<1>6. ASSUME NEW c \in Clients, Store(c) PROVE TypeOK'
  <2>1. granted' \in [Clients -> [0 .. MaxTime -> Nat]] /\ silent' \in SUBSET Clients
    BY <1>4, <1>6 DEF Store
  <2>2. /\ mem' \in [Clients -> Entries] /\ row' \in [Clients -> Entries]
        /\ dropped' \in SUBSET Clients /\ faults' \in SUBSET Kinds
    <3>1. CASE Cleaned(mem, Stored(c))
      BY <1>3, <3>1, CleanedTypes DEF TypeOK
    <3>2. CASE row' = Stored(c) /\ UNCHANGED <<mem, dropped, faults>>
      BY <1>3, <3>2 DEF TypeOK
    <3> QED
      BY <1>6, <3>1, <3>2 DEF Store
  <2> QED
    BY <1>6, <2>1, <2>2 DEF Store, TypeOK
<1>7. ASSUME NEW c \in Clients, StoreFails(c) \/ Crash(c) PROVE TypeOK'
  <2>1. granted' \in [Clients -> [0 .. MaxTime -> Nat]] /\ silent' \in SUBSET Clients
    BY <1>4, <1>7 DEF StoreFails, Crash
  <2>2. faults' \in SUBSET Kinds
    BY <1>5, <1>7 DEF StoreFails, Crash
  <2>3. row' \in [Clients -> Entries]
    BY <1>3, <1>7 DEF StoreFails, Crash, TypeOK
  <2>4. mem' \in [Clients -> Entries]
    BY <1>7 DEF StoreFails, Crash, TypeOK, Empty
  <2> QED
    BY <1>7, <2>1, <2>2, <2>3, <2>4 DEF StoreFails, Crash, TypeOK
<1>8. ASSUME NEW S \in SUBSET Clients, Reset(S) PROVE TypeOK'
  <2>1. faults' \in SUBSET Kinds
    BY <1>5, <1>8 DEF Reset
  <2>2. \A X : Without(mem, X) \in [Clients -> Entries] /\ Without(row, X) \in [Clients -> Entries]
    BY DEF Without, TypeOK
  <2> QED
    BY <1>8, <2>1, <2>2 DEF Reset, TypeOK
<1>9. CASE Cleanup
  BY <1>9, CleanedTypes DEF Cleanup, TypeOK
<1>10. CASE Evict
  BY <1>10 DEF Evict, TypeOK, Empty
<1>11. CASE Load
  <2>1. Merged(row) \in [Clients -> Entries]
    BY MergedType
  <2> QED
    BY <1>11, <2>1, CleanedTypes DEF Load, TypeOK, Empty
<1>12. CASE MigrationFails
  <2>1. faults' \in SUBSET Kinds
    BY <1>5, <1>12 DEF MigrationFails
  <2>2. Merged(row) \in [Clients -> Entries] /\ row \in [Clients -> Entries]
    BY MergedType DEF TypeOK
  <2>3. mem' \in [Clients -> Entries] /\ row' \in [Clients -> Entries]
    BY <1>12, <2>2 DEF MigrationFails, Empty
  <2> QED
    BY <1>12, <2>1, <2>3 DEF MigrationFails, TypeOK
<1>13. CASE LoadFails
  <2>1. faults' \in SUBSET Kinds
    BY <1>5, <1>13 DEF LoadFails
  <2> QED
    BY <1>13, <2>1 DEF LoadFails, TypeOK, Empty
<1>14. CASE Tick
  BY <1>14, LimiterAssumption DEF Tick, TypeOK
<1>15. CASE UNCHANGED vars
  BY <1>15 DEF vars, TypeOK
<1> QED
  BY <1>1, <1>2, <1>6, <1>7, <1>8, <1>9, <1>10, <1>11, <1>12, <1>13, <1>14, <1>15
  DEF Next, Request

\* Entries, stored copies and requests keep their types through every merge of the
\* older snapshot and every cleanup, for any clients and presets.
THEOREM LimiterTypeCorrect == Spec => []TypeOK
BY InitTypes, NextTypes, PTL DEF Spec

(***************************************************************************)
(* The inductive invariant                                                 *)
(***************************************************************************)
LEMMA InitInv == Init => LimiterInv
<1> SUFFICES ASSUME Init, NEW c \in Clients
             PROVE  GhostOK(granted[c], now) /\ LegacyOK(c) /\ WaitingOK(c) /\ EntriesOK(c)
  BY InitTypes DEF LimiterInv
<1> DEFINE l == legacy[c]
           g == granted[c]
<1>1. /\ legacy \in [Clients -> {NoEntry} \cup
                      [count : 1 .. Max, start : {1}, prev : {0}, last : {1}]]
      /\ TypeOK
  BY InitTypes, LimiterAssumption DEF Init
<1>2. /\ l = NoEntry \/ l \in [count : 1 .. Max, start : {1}, prev : {0}, last : {1}]
      /\ l.count \in 0 .. Max
  BY <1>1, EntryFacts DEF TypeOK
<1>3. g = [t \in 0 .. MaxTime |-> IF t = 0 THEN 0 ELSE l.count]
  BY DEF Init
<1>4. GhostOK(g, 1)
  BY <1>2, <1>3, LimiterAssumption DEF GhostOK
<1>5. EntryOK(l, g, 1, 0)
  <2>1. CASE l = NoEntry
    <3>1. In(g, 1 - Window, 1) = 0
      BY <1>3, <2>1, LimiterAssumption DEF In, NoEntry
    <3> QED
      BY <2>1, <3>1 DEF EntryOK, Past
  <2>2. CASE l \in [count : 1 .. Max, start : {1}, prev : {0}, last : {1}]
    <3>1. l.count \in 1 .. Max /\ l.start = 1 /\ l.prev = 0 /\ l.last = 1
      BY <2>2
    <3>2. l # NoEntry
      BY <3>1, NotNoEntry
    <3>3. g[0] = 0 /\ g[1] = l.count
      BY <1>3, LimiterAssumption
    <3>4. In(g, 0, 1) = l.count /\ In(g, 1, 1) = 0 /\ In(g, 1 - Window, 0) = 0
      BY <1>2, <3>3, LimiterAssumption DEF In
    <3>5. Accounts(l, g, 1, 0)
      BY <1>2, <3>1, <3>4, LimiterAssumption DEF Accounts
    <3>6. Passed(l)
      <4>1. (l.count - 1) * Window < Max * Window
        <5>1. (l.count - 1) * Window <= (Max - 1) * Window
          BY <3>1, LimiterAssumption, TimesMono
        <5>2. (Max - 1) * Window = Max * Window - Window /\ Max * Window \in Nat
          BY LimiterAssumption, TimesNat
        <5>3. (l.count - 1) * Window \in Nat
          BY <3>1, LimiterAssumption, TimesNat
        <5> QED
          BY <5>1, <5>2, <5>3, LimiterAssumption
      <4>2. l.prev * (Window - (l.last - l.start)) = 0
        BY <3>1, LimiterAssumption
      <4>3. (l.count - 1) * Window \in Nat
        BY <3>1, LimiterAssumption, TimesNat
      <4> QED
        BY <4>1, <4>2, <4>3 DEF Passed
    <3> QED
      BY <3>1, <3>2, <3>5, <3>6, LimiterAssumption DEF EntryOK, Current
  <2> QED
    BY <1>2, <2>1, <2>2
<1>6. Merged(row)[c] = l
  BY DEF Init, Merged, OrElse, Empty
<1>7. LegacyOK(c)
  BY <1>2 DEF LegacyOK
<1> QED
  BY <1>4, <1>5, <1>6, <1>7, LimiterAssumption DEF Init, EntriesOK, WaitingOK

\* What a cleanup leaves of the entry of c, in memory and in storage before or
\* after the migration of the snapshot's entry l.
LEMMA CleanedEntries ==
    ASSUME EntryTtl >= Window, TypeOK,
           NEW m \in [Clients -> Entries], NEW r \in [Clients -> Entries],
           NEW c \in Clients, NEW l \in Entries, l = NoEntry \/ l.start = 1,
           NEW g, GhostOK(g, now),
           EntryOK(m[c], g, now, 0), EntryOK(OrElse(r[c], l), g, now, 0),
           Cleaned(m, r), c \notin dropped'
    PROVE  EntryOK(mem'[c], g, now, 0) /\ EntryOK(OrElse(row'[c], l), g, now, 0)
<1>1. PICK S \in Excess(m) :
         LET gone == Expired(m) \cup S
         IN  /\ mem' = Without(m, gone)
             /\ dropped' = dropped \cup S
             /\ \/ row' = Without(r, gone) /\ UNCHANGED faults
                \/ /\ Fault("delete")
                   /\ \E stay \in SUBSET gone \ {{}} : row' = Without(r, gone \ stay)
  BY DEF Cleaned
<1> DEFINE gone == Expired(m) \cup S
<1>2. c \notin S
  BY <1>1
<1>3. /\ mem'[c] = IF c \in gone THEN NoEntry ELSE m[c]
      /\ row'[c] = r[c] \/ (c \in gone /\ row'[c] = NoEntry)
  BY <1>1 DEF Without
<1>4. CASE c \notin gone
  BY <1>3, <1>4
<1>5. CASE c \in gone
  <2>1. m[c] # NoEntry /\ now - m[c].last > EntryTtl
    BY <1>2, <1>5 DEF Expired, Known
  <2>2. now \in 1 .. MaxTime /\ m[c] \in Entries
    BY DEF TypeOK
  <2>3. In(g, now - Window, now) = 0 /\ 1 + Window <= now
    BY <2>1, <2>2, EntryExpire
  <2>4. EntryOK(NoEntry, g, now, 0)
    BY <2>3 DEF EntryOK, Past
  <2>5. EntryOK(l, g, now, 0)
    BY <2>3, LimiterAssumption DEF EntryOK, Past
  <2>6. OrElse(NoEntry, l) = l
    BY DEF OrElse
  <2> QED
    BY <1>3, <1>5, <2>4, <2>5, <2>6
<1> QED
  BY <1>4, <1>5

\* The part of the invariant that is about one client.
ClientOK(c) == GhostOK(granted[c], now) /\ LegacyOK(c) /\ WaitingOK(c) /\ EntriesOK(c)

LEMMA NextClient ==
    ASSUME EntryTtl >= Window, LimiterInv, [Next]_vars, NEW c \in Clients
    PROVE  ClientOK(c)'
<1> DEFINE g == granted[c]
           l == legacy[c]
           k == IF gate = c THEN 1 ELSE 0
<1>1. /\ TypeOK /\ TypeOK' /\ now \in 1 .. MaxTime /\ k \in {0, 1}
      /\ mem[c] \in Entries /\ row[c] \in Entries /\ l \in Entries
      /\ mem \in [Clients -> Entries] /\ row \in [Clients -> Entries]
      /\ gate \in Clients \cup {"open", "down"}
      /\ c # "open" /\ c # "down"
  BY NextTypes, LimiterAssumption DEF LimiterInv, TypeOK
<1>2. GhostOK(g, now) /\ LegacyOK(c) /\ WaitingOK(c) /\ EntriesOK(c)
  BY DEF LimiterInv
<1>3. Merged(row)[c] = OrElse(row[c], l) /\ OrElse(row[c], l) \in Entries
  BY <1>1 DEF Merged, OrElse
<1>4. (Merged(row)[c])' = OrElse(row'[c], legacy'[c])
  BY DEF Merged
<1>5. l = NoEntry \/ l.start = 1
  BY <1>2 DEF LegacyOK
<1>6. ASSUME c \notin dropped, "list" \notin faults
      PROVE  /\ EntryOK(OrElse(row[c], l), g, now, 0)
             /\ gate # "down" => EntryOK(mem[c], g, now, k)
             /\ gate # "down" => EntryOK(mem[c], g, now, 0)
  <2>1. EntryOK(OrElse(row[c], l), g, now, 0) /\ (gate # "down" => EntryOK(mem[c], g, now, k))
    BY <1>2, <1>3, <1>6 DEF EntriesOK
  <2> QED
    BY <1>1, <1>2, <2>1, EntryWeaken
<1>7. dropped \subseteq dropped' /\ faults \subseteq faults'
  <2>1. \A m, r : Cleaned(m, r) => dropped \subseteq dropped' /\ faults \subseteq faults'
    BY DEF Cleaned, Fault
  <2> QED
    BY <2>1 DEF Next, Request, vars, Count, Refuse, Store, StoreFails, Crash, Reset, Cleanup,
                Evict, Load, MigrationFails, LoadFails, Tick, Fault
\* What is to show of a step that grants nothing and takes no time.
<1>8. ASSUME now' = now, granted'[c] = g, legacy'[c] = l \/ legacy'[c] = NoEntry,
             gate' = c => mem'[c].last \in 1 .. now,
             c \notin dropped' /\ "list" \notin faults' =>
                /\ EntryOK(OrElse(row'[c], legacy'[c]), g, now, 0)
                /\ gate' # "down" => EntryOK(mem'[c], g, now, IF gate' = c THEN 1 ELSE 0)
      PROVE  ClientOK(c)'
  BY <1>2, <1>4, <1>8 DEF ClientOK, LegacyOK, WaitingOK, EntriesOK
<1>9. ASSUME NEW d \in Clients, Count(d) PROVE ClientOK(c)'
  <2>1. mem'[d] = Counted(mem[d]) /\ (c # d => mem'[c] = mem[c])
    BY <1>1, <1>9 DEF Count
  <2>2. ASSUME c \notin dropped, "list" \notin faults
        PROVE  EntryOK(mem'[c], g, now, IF gate' = c THEN 1 ELSE 0)
    <3>1. CASE c = d
      BY <1>1, <1>2, <1>6, <1>9, <2>1, <2>2, <3>1, EntryCount DEF Count
    <3>2. CASE c # d
      BY <1>1, <1>6, <1>9, <2>1, <2>2, <3>2 DEF Count
    <3> QED
      BY <3>1, <3>2
  <2>3. gate' = c => mem'[c].last \in 1 .. now
    BY <1>1, <1>9, <2>1 DEF Count, Counted, Entries
  <2> QED
    BY <1>6, <1>8, <1>9, <2>2, <2>3 DEF Count
<1>10. ASSUME NEW d \in Clients, Refuse(d) PROVE ClientOK(c)'
  <2>1. mem' = [mem EXCEPT ![d] = [mem[d] EXCEPT !.last = now]]
    BY <1>1, <1>10 DEF Refuse
  <2>2. mem'[d] = [mem[d] EXCEPT !.last = now] /\ (c # d => mem'[c] = mem[c])
    BY <1>1, <2>1
  <2>3. ASSUME c \notin dropped, "list" \notin faults
        PROVE  EntryOK(mem'[c], g, now, IF gate' = c THEN 1 ELSE 0)
    <3>1. CASE c = d
      BY <1>1, <1>2, <1>6, <1>10, <2>2, <2>3, <3>1, EntryRefuse DEF Refuse
    <3>2. CASE c # d
      BY <1>1, <1>6, <1>10, <2>2, <2>3, <3>2 DEF Refuse
    <3> QED
      BY <3>1, <3>2
  <2> QED
    BY <1>1, <1>6, <1>8, <1>10, <2>3 DEF Refuse
<1>11. ASSUME NEW d \in Clients, Store(d), Grant(d) PROVE ClientOK(c)'
  <2> DEFINE h == IF c = d THEN Plus(g, mem[d]) ELSE g
  <2>1. gate = d /\ gate' = "open" /\ now' = now /\ legacy' = legacy
    BY <1>11 DEF Store
  <2>2. granted'[c] = h
    BY <1>1, <1>11 DEF Grant, Plus, TypeOK
  <2>3. GhostOK(h, now)
    BY <1>1, <1>2, <2>1, GhostPlus DEF WaitingOK
  <2>4. Stored(d) \in [Clients -> Entries] /\ Stored(d)[c] = IF c = d THEN mem[c] ELSE row[c]
    BY <1>1 DEF Stored
  <2>5. ASSUME c \notin dropped, "list" \notin faults
        PROVE  EntryOK(mem[c], h, now, 0) /\ EntryOK(OrElse(Stored(d)[c], l), h, now, 0)
    <3>1. CASE c = d
      <4>1. EntryOK(mem[c], g, now, 1)
        BY <1>1, <1>6, <2>1, <2>5, <3>1
      <4>2. EntryOK(mem[c], h, now, 0)
        BY <1>1, <1>2, <3>1, <4>1, EntryGrant
      <4>3. mem[c] # NoEntry
        BY <4>1 DEF EntryOK, Current
      <4> QED
        BY <2>4, <3>1, <4>2, <4>3 DEF OrElse
    <3>2. CASE c # d
      <4>1. gate # "down"
        BY <2>1, LimiterAssumption
      <4> QED
        BY <1>6, <2>4, <2>5, <3>2, <4>1
    <3> QED
      BY <3>1, <3>2
  <2>6. ASSUME c \notin dropped', "list" \notin faults'
        PROVE  EntryOK(mem'[c], h, now, 0) /\ EntryOK(OrElse(row'[c], l), h, now, 0)
    <3>1. EntryOK(mem[c], h, now, 0) /\ EntryOK(OrElse(Stored(d)[c], l), h, now, 0)
      BY <1>7, <2>5, <2>6
    <3>2. CASE Cleaned(mem, Stored(d))
      BY <1>1, <1>5, <2>3, <2>4, <2>6, <3>1, <3>2, CleanedEntries
    <3>3. CASE row' = Stored(d) /\ UNCHANGED mem
      BY <3>1, <3>3
    <3> QED
      BY <1>11, <3>2, <3>3 DEF Store
  <2> HIDE DEF h
  <2>7. LegacyOK(c)' /\ WaitingOK(c)' /\ GhostOK(granted[c], now)'
    BY <1>1, <1>2, <2>1, <2>2, <2>3 DEF LegacyOK, WaitingOK
  <2>8. EntriesOK(c)'
    BY <1>1, <1>4, <2>1, <2>2, <2>6 DEF EntriesOK
  <2> QED
    BY <2>7, <2>8 DEF ClientOK
<1>12. ASSUME NEW d \in Clients, gate = d, Fail(d), now' = now, legacy' = legacy,
              gate' \in {"open", "down"},
              \/ Cleaned(mem, Stored(d))
              \/ mem' = mem /\ row' \in {row, Stored(d)}
              \/ gate' = "down" /\ row' \in {row, Stored(d)}
       PROVE  ClientOK(c)'
  <2>1. granted' = granted /\ gate # "down" /\ gate' # c
    BY <1>1, <1>12, LimiterAssumption DEF Fail
  <2>2. Stored(d) \in [Clients -> Entries] /\ Stored(d)[c] = IF c = d THEN mem[c] ELSE row[c]
    BY <1>1 DEF Stored
  <2>3. ASSUME c \notin dropped, "list" \notin faults
        PROVE  /\ EntryOK(mem[c], g, now, 0)
               /\ EntryOK(OrElse(row[c], l), g, now, 0)
               /\ EntryOK(OrElse(Stored(d)[c], l), g, now, 0)
    <3>1. c = d => mem[c] # NoEntry
      BY <1>1, <1>6, <1>12, <2>1, <2>3 DEF EntryOK, Current
    <3> QED
      BY <1>6, <2>1, <2>2, <2>3, <3>1 DEF OrElse
  <2>4. ASSUME c \notin dropped', "list" \notin faults'
        PROVE  /\ gate' # "down" => EntryOK(mem'[c], g, now, 0)
               /\ EntryOK(OrElse(row'[c], l), g, now, 0)
    <3>1. c \notin dropped /\ "list" \notin faults
      BY <1>7, <2>4
    <3>2. CASE Cleaned(mem, Stored(d))
      BY <1>1, <1>2, <1>5, <2>2, <2>3, <2>4, <3>1, <3>2, CleanedEntries
    <3> QED
      BY <1>12, <2>3, <3>1, <3>2
  <2> QED
    BY <1>8, <1>12, <2>1, <2>4
<1>13. ASSUME NEW d \in Clients, Store(d) PROVE ClientOK(c)'
  <2>1. CASE Grant(d)
    BY <1>11, <1>13, <2>1
  <2>2. CASE Fail(d)
    BY <1>12, <1>13, <2>2 DEF Store
  <2> QED
    BY <1>13, <2>1, <2>2 DEF Store
<1>14. ASSUME NEW d \in Clients, StoreFails(d) PROVE ClientOK(c)'
  BY <1>12, <1>14 DEF StoreFails
<1>15. ASSUME NEW d \in Clients, Crash(d) PROVE ClientOK(c)'
  BY <1>12, <1>15 DEF Crash
<1>16. ASSUME NEW S \in SUBSET Clients, Reset(S) PROVE ClientOK(c)'
  <2>1. c \notin S => mem'[c] = mem[c] /\ row'[c] = row[c]
    BY <1>16 DEF Reset, Without
  <2>2. c \notin dropped' => c \notin S
    BY <1>16 DEF Reset
  <2> QED
    BY <1>1, <1>6, <1>7, <1>8, <1>16, <2>1, <2>2 DEF Reset
<1>17. CASE Cleanup
  <2>1. gate = "open" /\ gate' = "open" /\ now' = now /\ legacy' = legacy /\ granted' = granted
        /\ Cleaned(mem, row)
    BY <1>17 DEF Cleanup
  <2>2. ASSUME c \notin dropped', "list" \notin faults'
        PROVE  EntryOK(mem'[c], g, now, 0) /\ EntryOK(OrElse(row'[c], l), g, now, 0)
    <3>1. EntryOK(mem[c], g, now, 0) /\ EntryOK(OrElse(row[c], l), g, now, 0)
      BY <1>6, <1>7, <2>1, <2>2
    <3> QED
      BY <1>1, <1>2, <1>5, <2>1, <2>2, <3>1, CleanedEntries
  <2> QED
    BY <1>1, <1>8, <2>1, <2>2
<1>18. CASE Evict
  BY <1>1, <1>6, <1>8, <1>18 DEF Evict
<1>19. CASE Load
  <2> DEFINE r == Merged(row)
  <2>1. gate' = "open" /\ now' = now /\ legacy' = Empty /\ granted' = granted /\ Cleaned(r, r)
    BY <1>19 DEF Load
  <2>2. r \in [Clients -> Entries] /\ r[c] = OrElse(row[c], l) /\ Empty[c] = NoEntry
    BY <1>1, <1>3, MergedType DEF Empty
  <2> HIDE DEF r
  <2>3. ASSUME c \notin dropped', "list" \notin faults'
        PROVE  EntryOK(mem'[c], g, now, 0) /\ EntryOK(OrElse(row'[c], NoEntry), g, now, 0)
    <3>1. EntryOK(r[c], g, now, 0)
      BY <1>6, <1>7, <2>2, <2>3
    <3>2. OrElse(r[c], NoEntry) = r[c]
      BY DEF OrElse
    <3> QED
      BY <1>1, <1>2, <2>1, <2>2, <2>3, <3>1, <3>2, EntryFacts, CleanedEntries
  <2> QED
    BY <1>1, <1>8, <2>1, <2>2, <2>3
<1>20. CASE MigrationFails
  <2>1. row'[c] \in {row[c], OrElse(row[c], l)}
    BY <1>3, <1>20 DEF MigrationFails
  <2>2. OrElse(row'[c], l) = OrElse(row[c], l)
    BY <2>1 DEF OrElse
  <2>3. gate' # "down" => mem'[c] = OrElse(row[c], l)
    BY <1>3, <1>20 DEF MigrationFails
  <2>4. gate' # c /\ now' = now /\ granted' = granted /\ legacy' = legacy
    BY <1>1, <1>20 DEF MigrationFails
  <2> QED
    BY <1>6, <1>7, <1>8, <2>2, <2>3, <2>4
<1>21. CASE LoadFails
  BY <1>1, <1>8, <1>21 DEF LoadFails, Fault
<1>22. CASE Tick
  <2>1. /\ now' = now + 1 /\ now < MaxTime
        /\ UNCHANGED <<mem, row, legacy, gate, granted, dropped, faults>>
    BY <1>22 DEF Tick
  <2>2. GhostOK(g, now + 1)
    BY <1>1, <1>2, <2>1, GhostTick
  <2>3. ASSUME c \notin dropped, "list" \notin faults
        PROVE  /\ EntryOK(OrElse(row[c], l), g, now + 1, 0)
               /\ gate # "down" => EntryOK(mem[c], g, now + 1, k)
    BY <1>1, <1>2, <1>3, <1>6, <2>1, <2>3, EntryTick
  <2>4. WaitingOK(c)'
    BY <1>1, <1>2, <2>1 DEF WaitingOK
  <2>5. LegacyOK(c)' /\ GhostOK(granted[c], now)'
    BY <1>2, <2>1, <2>2 DEF LegacyOK
  <2>6. EntriesOK(c)'
    BY <1>4, <2>1, <2>3 DEF EntriesOK
  <2> QED
    BY <2>4, <2>5, <2>6 DEF ClientOK
<1>23. CASE UNCHANGED vars
  BY <1>2, <1>3, <1>4, <1>23 DEF vars, ClientOK, LegacyOK, WaitingOK, EntriesOK
<1> QED
  BY <1>9, <1>10, <1>13, <1>14, <1>15, <1>16, <1>17, <1>18, <1>19, <1>20, <1>21, <1>22, <1>23
  DEF Next, Request

LEMMA NextInv == EntryTtl >= Window /\ LimiterInv /\ [Next]_vars => LimiterInv'
<1> SUFFICES ASSUME EntryTtl >= Window, LimiterInv, [Next]_vars PROVE LimiterInv'
  OBVIOUS
<1>1. TypeOK'
  BY NextTypes DEF LimiterInv
<1>2. \A c \in Clients : ClientOK(c)'
  BY NextClient
<1> QED
  BY <1>1, <1>2 DEF LimiterInv, ClientOK

(***************************************************************************)
(* Theorems                                                                *)
(***************************************************************************)
\* Every entry, in memory and in storage, accounts for what was granted.
THEOREM EntriesAccount == ASSUME EntryTtl >= Window PROVE Spec => []LimiterInv
<1>1. Init => LimiterInv
  BY InitInv
<1>2. LimiterInv /\ [Next]_vars => LimiterInv'
  BY NextInv
<1> QED
  BY <1>1, <1>2, PTL DEF Spec

LEMMA InvKeepsQuota == LimiterInv => QuotaKept
<1> SUFFICES ASSUME LimiterInv, NEW c \in Clients \ dropped, "list" \notin faults
             PROVE  Knows(Merged(row)[c], c) /\ (gate # "down" => Knows(mem[c], c))
  BY DEF QuotaKept
<1>1. /\ now \in 1 .. MaxTime /\ GhostOK(granted[c], now) /\ mem[c] \in Entries
      /\ Merged(row)[c] \in Entries
  BY MergedType DEF LimiterInv, TypeOK
<1>2. /\ EntryOK(Merged(row)[c], granted[c], now, 0)
      /\ gate # "down" => EntryOK(mem[c], granted[c], now, IF gate = c THEN 1 ELSE 0)
  BY DEF LimiterInv, EntriesOK
<1> QED
  BY <1>1, <1>2, EntryKnows DEF Knows, Granted

\* Eviction never rolls a client's quota back, for presets whose window is not
\* longer than ENTRY_TTL_MS.
THEOREM QuotaIsKept == ASSUME EntryTtl >= Window PROVE Spec => []QuotaKept
  BY EntriesAccount, InvKeepsQuota, PTL

\* A request that is not granted adds nothing to any burst; one that is, is
\* within the bound.
LEMMA NextKeepsCalm == LimiterInv /\ NoBurst /\ [Next]_vars => NoBurst'
<1> SUFFICES ASSUME LimiterInv, NoBurst, [Next]_vars, NEW c \in Clients,
                    c \notin dropped', "list" \notin faults',
                    NEW t \in 0 .. MaxTime, NEW h \in 2 .. Window
             PROVE  Calm(granted'[c], t, h)
  BY DEF NoBurst, Granted, Calm
<1>1. dropped \subseteq dropped' /\ faults \subseteq faults'
  <2>1. \A m, r : Cleaned(m, r) => dropped \subseteq dropped' /\ faults \subseteq faults'
    BY DEF Cleaned, Fault
  <2> QED
    BY <2>1 DEF Next, Request, vars, Count, Refuse, Store, StoreFails, Crash, Reset, Cleanup,
                Evict, Load, MigrationFails, LoadFails, Tick, Fault
<1>2. Calm(granted[c], t, h)
  BY <1>1 DEF NoBurst, Granted, Calm
<1>3. CASE granted' = granted
  BY <1>2, <1>3
<1>4. ASSUME NEW d \in Clients, Store(d), Grant(d) PROVE Calm(granted'[c], t, h)
  <2>1. granted' = [granted EXCEPT ![d] = Plus(granted[d], mem[d])]
    BY <1>4 DEF Grant, Plus, LimiterInv, TypeOK
  <2>2. CASE c # d
    BY <1>2, <2>1, <2>2 DEF LimiterInv, TypeOK
  <2>3. CASE c = d
    <3>1. /\ now \in 1 .. MaxTime /\ GhostOK(granted[c], now) /\ mem[c] \in Entries
          /\ gate = c /\ c # "down"
      BY <1>4, <2>3, LimiterAssumption DEF LimiterInv, TypeOK, Store
    <3>2. EntryOK(mem[c], granted[c], now, 1)
      BY <1>1, <3>1 DEF LimiterInv, EntriesOK
    <3>3. granted'[c] = Plus(granted[c], mem[c])
      BY <2>1, <2>3 DEF LimiterInv, TypeOK
    <3> QED
      BY <1>2, <3>1, <3>2, <3>3, GrantIsCalm
  <2> QED
    BY <2>2, <2>3
<1> QED
  BY <1>3, <1>4 DEF Next, Request, vars, Count, Refuse, Store, StoreFails, Crash, Reset, Cleanup,
                    Evict, Load, MigrationFails, LoadFails, Tick, Fail

\* The ghost of the snapshot is one request too many for no stretch of time.
LEMMA InitIsCalm == Init => NoBurst
<1> SUFFICES ASSUME Init, NEW c \in Clients, NEW t \in 0 .. MaxTime, NEW h \in 2 .. Window
             PROVE  Calm(granted[c], t, h)
  BY DEF NoBurst, Granted, Calm
<1>1. granted[c] = [u \in 0 .. MaxTime |-> IF u = 0 THEN 0 ELSE legacy[c].count]
      /\ legacy[c].count \in 0 .. Max
  BY InitTypes, EntryFacts DEF Init, TypeOK
<1>2. In(granted[c], t - h, t) \in 0 .. Max
  BY <1>1, LimiterAssumption DEF In
<1>3. Window <= Window + h - 2 /\ Window + h - 2 \in Nat
  BY LimiterAssumption
<1> HIDE DEF In
<1> QED
  BY <1>2, <1>3, TimesMono, LimiterAssumption DEF Calm

\* No burst where two windows meet, for presets whose window is not longer than
\* ENTRY_TTL_MS.
THEOREM NoBursts == ASSUME EntryTtl >= Window PROVE Spec => []NoBurst
<1>1. Init => NoBurst
  BY InitIsCalm
<1>2. LimiterInv /\ NoBurst /\ [Next]_vars => NoBurst'
  BY NextKeepsCalm
<1> QED
  BY EntriesAccount, <1>1, <1>2, PTL DEF Spec

(***************************************************************************)
(* Nobody is refused for nothing                                           *)
(***************************************************************************)
\* Entry e tells only of requests that were granted, but for the k that wait for
\* their answer: those of its window by its last, the others in the two before.
\* An entry of whatever age may come back from storage, so nothing is said of
\* grants that it does not know.
Told(e, g, n, k) ==
    e # NoEntry =>
        /\ e.start <= e.last /\ e.last < e.start + Window /\ e.last <= n
        /\ e.count - k <= In(g, e.start - 1, e.last)
        /\ e.prev <= In(g, e.start - 2 * Window, e.start - 1)

ToldOK(c) ==
    c \notin silent =>
        /\ Told(mem[c], granted[c], now, IF gate = c THEN 1 ELSE 0)
        /\ Told(row[c], granted[c], now, 0) /\ Told(legacy[c], granted[c], now, 0)

ToldClient(c) == GhostOK(granted[c], now) /\ WaitingOK(c) /\ ToldOK(c)

ToldInv == TypeOK /\ \A c \in Clients : ToldClient(c)

LEMMA InMono ==
    ASSUME NEW g, NEW n \in 1 .. MaxTime, GhostOK(g, n),
           NEW a \in Int, NEW b \in Int, NEW x \in Int, NEW y \in Int,
           x <= a, a <= b, b <= y, y <= MaxTime
    PROVE  In(g, a, b) \in Nat /\ In(g, x, y) \in Nat /\ In(g, a, b) <= In(g, x, y)
<1>0. a <= y /\ x <= y /\ a <= MaxTime /\ b <= MaxTime
  BY LimiterAssumption
<1>1. In(g, x, y) = In(g, x, a) + In(g, a, y) /\ In(g, a, y) = In(g, a, b) + In(g, b, y)
  BY <1>0, InFacts
<1>2. /\ In(g, x, a) \in Nat /\ In(g, a, b) \in Nat /\ In(g, b, y) \in Nat
      /\ In(g, x, y) \in Nat
  BY <1>0, InNat
<1> QED
  BY <1>1, <1>2

\* What an entry tells stays so when time passes and when an answer is not given.
LEMMA ToldLater ==
    ASSUME NEW g, NEW e \in Entries, NEW k \in {0, 1}, NEW n \in Int, NEW m \in Int, n <= m,
           Told(e, g, n, k)
    PROVE  Told(e, g, m, k)
  BY EntryFacts, LimiterAssumption DEF Told

\* A request that is let through: the entry counts it, and waits for the answer.
LEMMA ToldCount ==
    ASSUME NEW g, TypeOK, GhostOK(g, now), NEW e \in Entries, Told(e, g, now, 0)
    PROVE  Told(Counted(e), g, now, 1)
<1> DEFINE new == Counted(e)
<1>1. /\ now \in 1 .. MaxTime /\ MaxTime \in Nat /\ Window \in Nat \ {0, 1}
      /\ e.count \in Nat /\ e.prev \in Nat
      /\ e.start \in 0 .. MaxTime /\ e.last \in 0 .. MaxTime
  BY EntryFacts, LimiterAssumption DEF TypeOK
<1>2. CASE e = NoEntry \/ Over(e)
  <2>1. /\ new.count = 1 /\ new.start = now /\ new.last = now
        /\ new.prev = IF now - e.start < 2 * Window THEN e.count ELSE 0
    BY <1>2 DEF Counted
  <2>2. In(g, now - 1, now) \in Nat /\ In(g, now - 2 * Window, now - 1) \in Nat
    <3>1. /\ now - 1 \in Int /\ now - 2 * Window \in Int /\ now \in Int
          /\ now - 1 <= now /\ now - 2 * Window <= now - 1
          /\ now <= MaxTime /\ now - 1 <= MaxTime
      BY <1>1
    <3> QED
      BY <1>1, <3>1, InNat
  <2>3. new.prev <= In(g, now - 2 * Window, now - 1)
    <3>1. CASE e = NoEntry \/ ~(now - e.start < 2 * Window)
      BY <2>1, <2>2, <3>1 DEF NoEntry
    <3>2. CASE e # NoEntry /\ now - e.start < 2 * Window
      <4>1. now - 2 * Window <= e.start - 1 /\ e.last <= now - 1 /\ e.start - 1 <= e.last
        BY <1>1, <1>2, <3>2 DEF Over, Told
      <4>2. In(g, e.start - 1, e.last) <= In(g, now - 2 * Window, now - 1)
        BY <1>1, <4>1, InMono
      <4>3. e.count <= In(g, e.start - 1, e.last) /\ In(g, e.start - 1, e.last) \in Nat
        BY <1>1, <3>2, <4>1, InMono DEF Told
      <4> QED
        BY <1>1, <2>1, <2>2, <3>2, <4>2, <4>3
    <3> QED
      BY <3>1, <3>2
  <2> HIDE DEF new
  <2>4. Told(new, g, now, 1)
    BY <1>1, <2>1, <2>2, <2>3 DEF Told
  <2> QED
    BY <2>4 DEF new
<1>3. CASE e # NoEntry /\ ~Over(e)
  <2>1. /\ new.count = e.count + 1 /\ new.start = e.start /\ new.last = now
        /\ new.prev = e.prev
    BY <1>3 DEF Counted, Entries
  <2>2. now < e.start + Window /\ e.start <= now
    BY <1>1, <1>3 DEF Over, Told
  <2>3. In(g, e.start - 1, e.last) <= In(g, e.start - 1, now)
        /\ In(g, e.start - 1, now) \in Nat /\ In(g, e.start - 1, e.last) \in Nat
    BY <1>1, <1>3, InMono DEF Told
  <2>4. e.count <= In(g, e.start - 1, e.last)
        /\ e.prev <= In(g, e.start - 2 * Window, e.start - 1)
    BY <1>1, <1>3 DEF Told
  <2> HIDE DEF new
  <2>5. Told(new, g, now, 1)
    BY <1>1, <2>1, <2>2, <2>3, <2>4 DEF Told
  <2> QED
    BY <2>5 DEF new
<1> QED
  BY <1>2, <1>3

\* A request that is refused only leaves the time of its access.
LEMMA ToldRefuse ==
    ASSUME NEW g, TypeOK, GhostOK(g, now), NEW e \in Entries, Told(e, g, now, 0), IsRefused(e)
    PROVE  Told([e EXCEPT !.last = now], g, now, 0)
<1> DEFINE new == [e EXCEPT !.last = now]
<1>1. /\ now \in 1 .. MaxTime /\ MaxTime \in Nat /\ Window \in Nat \ {0, 1}
      /\ e.count \in Nat /\ e.prev \in Nat
      /\ e.start \in 0 .. MaxTime /\ e.last \in 0 .. MaxTime
  BY EntryFacts, LimiterAssumption DEF TypeOK
<1>2. /\ new.count = e.count /\ new.start = e.start /\ new.last = now
      /\ new.prev = e.prev
  BY DEF Entries
<1>3. e # NoEntry /\ now < e.start + Window /\ e.start <= e.last /\ e.last <= now
  BY <1>1 DEF Over, Told, IsRefused
<1>4. In(g, e.start - 1, e.last) <= In(g, e.start - 1, now)
      /\ In(g, e.start - 1, now) \in Nat /\ In(g, e.start - 1, e.last) \in Nat
  BY <1>1, <1>3, InMono
<1> HIDE DEF new
<1> QED
  BY <1>1, <1>2, <1>3, <1>4 DEF Told

\* A grant is what the entry has told of, and nothing less for the other entries.
LEMMA ToldGrant ==
    ASSUME NEW g, NEW n \in 1 .. MaxTime, GhostOK(g, n), NEW x, x.last \in 1 .. n,
           NEW e \in Entries, NEW k \in {0, 1}, Told(e, g, n, k), k = 1 => e = x
    PROVE  Told(e, Plus(g, x), n, 0)
<1> SUFFICES ASSUME e # NoEntry PROVE Told(e, Plus(g, x), n, 0)
  BY DEF Told
<1> DEFINE h == Plus(g, x)
           s == e.start
<1>1. /\ MaxTime \in Nat /\ Window \in Nat \ {0, 1} /\ n \in Nat /\ n <= MaxTime
      /\ e.count \in Nat /\ e.prev \in Nat
      /\ s \in 0 .. MaxTime /\ e.last \in 0 .. MaxTime /\ x.last \in 1 .. MaxTime
      /\ s <= e.last /\ e.last <= n
  BY EntryFacts, LimiterAssumption DEF Told
<1>2. \A t \in 0 .. MaxTime : g[t] \in Nat /\ h[t] = IF t < x.last THEN g[t] ELSE g[t] + 1
  BY DEF GhostOK, Plus
<1> HIDE DEF h
<1>3. \A a, b \in Int : a <= b /\ b <= MaxTime =>
         /\ In(g, a, b) \in Int /\ In(h, a, b) \in Int
         /\ In(g, a, b) <= In(h, a, b)
         /\ a < x.last /\ x.last <= b => In(h, a, b) = In(g, a, b) + 1
  <2> TAKE a, b \in Int
  <2> HAVE a <= b /\ b <= MaxTime
  <2>1. /\ a >= 0 => g[a] \in Nat /\ h[a] = IF a < x.last THEN g[a] ELSE g[a] + 1
        /\ b >= 0 => g[b] \in Nat /\ h[b] = IF b < x.last THEN g[b] ELSE g[b] + 1
    BY <1>1, <1>2
  <2> QED
    BY <1>1, <2>1 DEF In
<1>4. /\ In(g, s - 1, e.last) <= In(h, s - 1, e.last)
      /\ In(g, s - 2 * Window, s - 1) <= In(h, s - 2 * Window, s - 1)
      /\ In(g, s - 1, e.last) \in Int /\ In(h, s - 1, e.last) \in Int
      /\ In(g, s - 2 * Window, s - 1) \in Int /\ In(h, s - 2 * Window, s - 1) \in Int
  BY <1>1, <1>3
<1>5. k = 1 => In(h, s - 1, e.last) = In(g, s - 1, e.last) + 1
  <2> SUFFICES ASSUME k = 1 PROVE In(h, s - 1, e.last) = In(g, s - 1, e.last) + 1
    OBVIOUS
  <2>1. /\ s - 1 \in Int /\ e.last \in Int /\ s - 1 <= e.last /\ e.last <= MaxTime
        /\ s - 1 < x.last /\ x.last <= e.last
    BY <1>1
  <2> HIDE DEF s
  <2> QED
    BY <1>3, <2>1
<1> HIDE DEF s
<1>6. e.count <= In(h, s - 1, e.last) /\ e.prev <= In(h, s - 2 * Window, s - 1)
  BY <1>1, <1>4, <1>5 DEF Told, s
<1> QED
  BY <1>1, <1>6 DEF Told, s, h

LEMMA ToldInit == Init => ToldInv
<1> SUFFICES ASSUME Init, NEW c \in Clients PROVE ToldClient(c)
  BY InitTypes DEF ToldInv
<1> DEFINE l == legacy[c]
           g == granted[c]
<1>1. l = NoEntry \/ l \in [count : 1 .. Max, start : {1}, prev : {0}, last : {1}]
  BY LimiterAssumption DEF Init
<1>2. l.count \in 0 .. Max
  BY <1>1, LimiterAssumption DEF NoEntry
<1>3. g = [t \in 0 .. MaxTime |-> IF t = 0 THEN 0 ELSE l.count]
  BY DEF Init
<1>4. GhostOK(g, 1)
  BY <1>2, <1>3, LimiterAssumption DEF GhostOK
<1>5. Told(l, g, 1, 0)
  <2> SUFFICES ASSUME l # NoEntry PROVE Told(l, g, 1, 0)
    BY DEF Told
  <2>1. l.start = 1 /\ l.prev = 0 /\ l.last = 1
    BY <1>1
  <2>2. g[0] = 0 /\ g[1] = l.count
    BY <1>3, LimiterAssumption
  <2>3. In(g, 0, 1) = l.count /\ In(g, 1 - 2 * Window, 0) = 0
    BY <1>2, <2>2, LimiterAssumption DEF In
  <2> HIDE DEF l, g
  <2> QED
    BY <1>2, <2>1, <2>3, LimiterAssumption DEF Told
<1>6. mem[c] = NoEntry /\ row[c] = NoEntry /\ now = 1 /\ gate # c
  BY LimiterAssumption DEF Init, Empty
<1> QED
  BY <1>4, <1>5, <1>6 DEF ToldClient, ToldOK, Told, WaitingOK

\* Of the entries m and r a cleanup leaves some and changes none.
LEMMA CleanedLeaves ==
    ASSUME NEW m, NEW r, Cleaned(m, r), NEW c \in Clients
    PROVE  mem'[c] \in {m[c], NoEntry} /\ row'[c] \in {r[c], NoEntry}
  BY DEF Cleaned, Without

LEMMA ToldStep ==
    ASSUME ToldInv, [Next]_vars, NEW c \in Clients
    PROVE  ToldClient(c)'
<1> DEFINE g == granted[c]
           k == IF gate = c THEN 1 ELSE 0
<1>1. /\ TypeOK /\ TypeOK' /\ now \in 1 .. MaxTime /\ k \in {0, 1} /\ MaxTime \in Nat
      /\ mem[c] \in Entries /\ row[c] \in Entries /\ legacy[c] \in Entries
      /\ mem \in [Clients -> Entries] /\ row \in [Clients -> Entries]
      /\ gate \in Clients \cup {"open", "down"}
      /\ c # "open" /\ c # "down"
  BY NextTypes, LimiterAssumption DEF ToldInv, TypeOK
<1>2. GhostOK(g, now) /\ WaitingOK(c) /\ ToldOK(c)
  BY DEF ToldInv, ToldClient
<1>3. \A h, n : Told(NoEntry, h, n, 0)
  BY DEF Told
<1>4. silent \subseteq silent'
  BY DEF Next, Request, vars, Count, Refuse, Store, StoreFails, Crash, Reset, Cleanup,
         Evict, Load, MigrationFails, LoadFails, Tick, Grant, Fail
<1>5. c \notin silent' => /\ Told(mem[c], g, now, k) /\ Told(row[c], g, now, 0)
                          /\ Told(legacy[c], g, now, 0)
  BY <1>2, <1>4 DEF ToldOK
<1>6. \A d \in Clients : /\ Stored(d)[c] = IF c = d THEN mem[c] ELSE row[c]
                         /\ Merged(row)[c] \in {row[c], legacy[c]} /\ Empty[c] = NoEntry
  BY <1>1 DEF Stored, Merged, OrElse, Empty
\* What is to show of a step that grants nothing to c, takes no time and lets nobody
\* wait: each entry was one before.
<1>7. ASSUME now' = now, granted'[c] = g, gate' # c,
             c \notin silent' =>
                /\ gate # c
                /\ {mem'[c], row'[c], legacy'[c]} \subseteq
                      {mem[c], row[c], legacy[c], NoEntry}
      PROVE  ToldClient(c)'
  BY <1>2, <1>3, <1>5, <1>7 DEF ToldClient, WaitingOK, ToldOK
<1>8. ASSUME NEW d \in Clients, Count(d) PROVE ToldClient(c)'
  <2>1. /\ mem'[d] = Counted(mem[d]) /\ (c # d => mem'[c] = mem[c]) /\ gate' = d /\ gate = "open"
        /\ UNCHANGED <<now, row, legacy, granted, silent>>
    BY <1>1, <1>8 DEF Count
  <2>2. c \notin silent => Told(mem'[c], g, now, IF gate' = c THEN 1 ELSE 0)
    BY <1>1, <1>2, <1>5, <2>1, ToldCount
  <2>3. WaitingOK(c)'
    <3>1. Counted(mem[d]).last = now
      BY <1>1, <1>8 DEF Counted, Count, TypeOK, Entries
    <3> QED
      BY <1>1, <2>1, <3>1 DEF WaitingOK
  <2> QED
    BY <1>2, <1>5, <2>1, <2>2, <2>3 DEF ToldClient, ToldOK
<1>9. ASSUME NEW d \in Clients, Refuse(d) PROVE ToldClient(c)'
  <2>1. /\ mem' = [mem EXCEPT ![d] = [mem[d] EXCEPT !.last = now]] /\ gate = "open"
        /\ UNCHANGED <<now, row, legacy, gate, granted, silent>> /\ IsRefused(mem[d])
    BY <1>1, <1>9 DEF Refuse
  <2>2. mem'[d] = [mem[d] EXCEPT !.last = now] /\ (c # d => mem'[c] = mem[c])
    BY <1>1, <2>1
  <2>3. c \notin silent => Told(mem'[c], g, now, 0)
    BY <1>1, <1>2, <1>5, <2>1, <2>2, ToldRefuse
  <2> QED
    BY <1>1, <1>2, <1>5, <2>1, <2>3 DEF ToldClient, WaitingOK, ToldOK
<1>10. ASSUME NEW d \in Clients, Store(d), Grant(d) PROVE ToldClient(c)'
  <2> DEFINE h == IF c = d THEN Plus(g, mem[d]) ELSE g
  <2>1. /\ gate = d /\ gate' = "open" /\ UNCHANGED <<now, legacy, silent>>
    BY <1>10 DEF Store, Grant
  <2>2. granted'[c] = h
    BY <1>1, <1>10 DEF Grant, Plus, TypeOK
  <2>3. GhostOK(h, now)
    BY <1>1, <1>2, <2>1, GhostPlus DEF WaitingOK
  <2>4. ASSUME NEW e \in Entries, NEW j \in {0, 1}, Told(e, g, now, j),
               j = 1 => c = d /\ e = mem[d]
        PROVE  Told(e, h, now, 0)
    <3>1. CASE c = d
      <4>1. mem[d].last \in 1 .. now
        BY <1>2, <2>1, <3>1 DEF WaitingOK
      <4> QED
        BY <1>1, <1>2, <2>4, <3>1, <4>1, ToldGrant
    <3>2. CASE c # d
      BY <2>4, <3>2
    <3> QED
      BY <3>1, <3>2
  <2> HIDE DEF h
  <2>5. c \notin silent => /\ Told(mem[c], h, now, 0) /\ Told(row[c], h, now, 0)
                           /\ Told(legacy[c], h, now, 0)
    BY <1>1, <1>5, <2>1, <2>4
  <2>6. mem'[c] \in {mem[c], NoEntry} /\ row'[c] \in {row[c], mem[c], NoEntry}
    <3>1. CASE Cleaned(mem, Stored(d))
      BY <1>6, <3>1, CleanedLeaves
    <3>2. CASE row' = Stored(d) /\ UNCHANGED mem
      BY <1>6, <3>2
    <3> QED
      BY <1>10, <3>1, <3>2 DEF Store
  <2> QED
    BY <1>1, <1>3, <2>1, <2>2, <2>3, <2>5, <2>6 DEF ToldClient, WaitingOK, ToldOK
\* A client whose request is not answered is silent from then on.
<1>11. ASSUME NEW d \in Clients, gate = d, Fail(d), now' = now, legacy' = legacy,
              gate' \in {"open", "down"},
              \/ Cleaned(mem, Stored(d))
              \/ mem' \in {mem, Empty} /\ row' \in {row, Stored(d)}
       PROVE  ToldClient(c)'
  <2>1. granted' = granted /\ d \in silent' /\ gate' # c
    BY <1>1, <1>11 DEF Fail
  <2>2. ASSUME c # d
        PROVE  mem'[c] \in {mem[c], NoEntry} /\ row'[c] \in {row[c], NoEntry}
    BY <1>6, <1>11, <2>2, CleanedLeaves
  <2> QED
    BY <1>7, <1>11, <2>1, <2>2
<1>12. ASSUME NEW d \in Clients, Store(d) \/ StoreFails(d) \/ Crash(d) PROVE ToldClient(c)'
  <2>1. CASE Store(d) /\ Grant(d)
    BY <1>10, <2>1
  <2>2. CASE Store(d) /\ Fail(d)
    BY <1>11, <2>2 DEF Store
  <2>3. CASE StoreFails(d) \/ Crash(d)
    BY <1>11, <2>3 DEF StoreFails, Crash
  <2> QED
    BY <1>12, <2>1, <2>2, <2>3 DEF Store
<1>13. ASSUME NEW S \in SUBSET Clients, Reset(S) PROVE ToldClient(c)'
  <2>1. mem'[c] \in {mem[c], NoEntry} /\ row'[c] \in {row[c], NoEntry}
    BY <1>13 DEF Reset, Without
  <2> QED
    BY <1>1, <1>7, <1>13, <2>1 DEF Reset
<1>14. CASE Cleanup
  <2>1. mem'[c] \in {mem[c], NoEntry} /\ row'[c] \in {row[c], NoEntry}
    BY <1>14, CleanedLeaves DEF Cleanup
  <2> QED
    BY <1>1, <1>7, <1>14, <2>1 DEF Cleanup
<1>15. CASE Evict
  BY <1>1, <1>6, <1>7, <1>15 DEF Evict, Empty
<1>16. CASE Load
  <2>1. mem'[c] \in {Merged(row)[c], NoEntry} /\ row'[c] \in {Merged(row)[c], NoEntry}
    BY <1>16, CleanedLeaves DEF Load
  <2>2. Merged(row)[c] \in {row[c], legacy[c]} /\ Empty[c] = NoEntry
    BY <1>6
  <2> QED
    BY <1>1, <1>7, <1>16, <2>1, <2>2 DEF Load
<1>17. CASE MigrationFails
  <2>1. mem'[c] \in {Merged(row)[c], NoEntry} /\ row'[c] \in {Merged(row)[c], row[c]}
    BY <1>17 DEF MigrationFails, Empty
  <2>2. Merged(row)[c] \in {row[c], legacy[c]}
    BY <1>6
  <2> QED
    BY <1>1, <1>7, <1>17, <2>1, <2>2 DEF MigrationFails
<1>18. CASE LoadFails
  BY <1>1, <1>6, <1>7, <1>18 DEF LoadFails, Empty
<1>19. CASE Tick
  <2>1. /\ now' = now + 1 /\ now < MaxTime
        /\ UNCHANGED <<mem, row, legacy, gate, granted, silent>>
    BY <1>19 DEF Tick
  <2>2. GhostOK(g, now + 1)
    BY <1>1, <1>2, <2>1, GhostTick
  <2>3. \A e \in Entries, j \in {0, 1} : Told(e, g, now, j) => Told(e, g, now + 1, j)
    BY <1>1, ToldLater
  <2>4. WaitingOK(c)'
    BY <1>1, <1>2, <2>1 DEF WaitingOK
  <2>5. ToldOK(c)'
    BY <1>1, <1>5, <2>1, <2>3 DEF ToldOK
  <2> QED
    BY <2>1, <2>2, <2>4, <2>5 DEF ToldClient
<1>20. CASE UNCHANGED vars
  BY <1>2, <1>20 DEF vars, ToldClient, WaitingOK, ToldOK
<1> QED
  BY <1>8, <1>9, <1>12, <1>13, <1>14, <1>15, <1>16, <1>17, <1>18, <1>19, <1>20
  DEF Next, Request

\* Who is refused has an entry that tells of a full quota.
LEMMA ToldSpent ==
    ASSUME ToldInv, NEW c \in Clients \ silent, Refuse(c)
    PROVE  Granted(c, now - 3 * Window, now) >= Max
<1> DEFINE e == mem[c]
           g == granted[c]
<1>1. /\ now \in 1 .. MaxTime /\ MaxTime \in Nat /\ Window \in Nat \ {0, 1} /\ Max \in Nat
      /\ e \in Entries /\ gate = "open" /\ c # "open"
      /\ e.count \in Nat /\ e.prev \in Nat
      /\ e.start \in 0 .. MaxTime /\ e.last \in 0 .. MaxTime
  BY EntryFacts, LimiterAssumption DEF ToldInv, TypeOK, Refuse
<1>2. GhostOK(g, now) /\ Told(e, g, now, 0)
  BY <1>1 DEF ToldInv, ToldClient, ToldOK
<1>3. e # NoEntry /\ now - e.start < Window /\ Sliding(e) >= Max * Window
  BY <1>1 DEF Refuse, IsRefused, Over
<1>4. /\ e.start <= e.last /\ e.last <= now
      /\ e.count <= In(g, e.start - 1, e.last)
      /\ e.prev <= In(g, e.start - 2 * Window, e.start - 1)
  BY <1>1, <1>2, <1>3 DEF Told
<1>5. e.prev + e.count >= Max
  <2> DEFINE w == Window - (now - e.start)
  <2>1. w \in Nat /\ w <= Window
    BY <1>1, <1>3, <1>4
  <2>2. e.prev * w <= e.prev * Window /\ e.prev * w \in Nat
    BY <1>1, <2>1, TimesMono, TimesNat
  <2>3. Max * Window <= e.prev * w + e.count * Window
    BY <1>3 DEF Sliding
  <2>4. /\ (e.prev + e.count) * Window = e.prev * Window + e.count * Window
        /\ e.prev * Window \in Nat /\ e.count * Window \in Nat /\ Max * Window \in Nat
    BY <1>1, TimesNat
  <2>5. Max * Window <= (e.prev + e.count) * Window
    BY <2>2, <2>3, <2>4
  <2>6. SUFFICES ASSUME e.prev + e.count < Max PROVE FALSE
    BY <1>1
  <2>7. (e.prev + e.count + 1) * Window <= Max * Window
    BY <1>1, <2>6, TimesMono
  <2>8. (e.prev + e.count + 1) * Window = (e.prev + e.count) * Window + Window
    BY <1>1
  <2> QED
    BY <1>1, <2>4, <2>5, <2>7, <2>8
<1>6. In(g, e.start - 2 * Window, e.last)
         = In(g, e.start - 2 * Window, e.start - 1) + In(g, e.start - 1, e.last)
  <2>1. /\ e.start - 2 * Window \in Int /\ e.start - 1 \in Int /\ e.last \in Int
        /\ e.start - 2 * Window <= e.start - 1 /\ e.start - 1 <= e.last /\ e.last <= MaxTime
    BY <1>1, <1>4
  <2> QED
    BY <1>1, <1>2, <2>1, InFacts
<1>7. /\ In(g, e.start - 2 * Window, e.last) <= In(g, now - 3 * Window, now)
      /\ In(g, e.start - 2 * Window, e.last) \in Nat /\ In(g, now - 3 * Window, now) \in Nat
  <2>1. /\ e.start - 2 * Window \in Int /\ e.last \in Int /\ now \in Int
        /\ now - 3 * Window \in Int /\ now - 3 * Window <= e.start - 2 * Window
        /\ e.start - 2 * Window <= e.last /\ e.last <= now /\ now <= MaxTime
    BY <1>1, <1>3, <1>4
  <2> QED
    BY <1>1, <1>2, <2>1, InMono
<1>8. /\ In(g, e.start - 1, e.last) \in Nat
      /\ In(g, e.start - 2 * Window, e.start - 1) \in Nat
  <2>1. /\ e.start - 2 * Window \in Int /\ e.start - 1 \in Int /\ e.last \in Int
        /\ e.start - 2 * Window <= e.start - 1 /\ e.start - 1 <= e.last
        /\ e.last <= MaxTime /\ e.start - 1 <= MaxTime
    BY <1>1, <1>4
  <2> QED
    BY <1>1, <1>2, <2>1, InNat
<1> HIDE DEF e, g
<1>9. In(g, now - 3 * Window, now) >= Max
  BY <1>1, <1>4, <1>5, <1>6, <1>7, <1>8
<1> QED
  BY <1>9 DEF Granted, g

\* Nobody is refused who has not used the limit up, unless one of his requests was
\* counted and answered with an error: for all presets, faults and clients.
THEOREM RefusalsAreEarned == Spec => RefusedIsSpent
<1>1. Init => ToldInv
  BY ToldInit
<1>2. ToldInv /\ [Next]_vars => ToldInv'
  <2> SUFFICES ASSUME ToldInv, [Next]_vars PROVE ToldInv'
    OBVIOUS
  <2>1. TypeOK'
    BY NextTypes DEF ToldInv
  <2>2. \A c \in Clients : ToldClient(c)'
    BY ToldStep
  <2> QED
    BY <2>1, <2>2 DEF ToldInv
<1>3. ToldInv => \A c \in Clients \ silent :
                    Refuse(c) => Granted(c, now - 3 * Window, now) >= Max
  BY ToldSpent
<1> QED
  BY <1>1, <1>2, <1>3, PTL DEF Spec, RefusedIsSpent
=============================================================================
