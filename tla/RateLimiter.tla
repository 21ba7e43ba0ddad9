----------------------------- MODULE RateLimiter -----------------------------
(***************************************************************************)
(* One RateLimiterDO: the counters of the clients of an endpoint, kept in  *)
(* memory, with a row in storage for each counted request, and what the    *)
(* middleware makes of its answers.                                        *)
(*                                                                         *)
(* A request is judged in one step, without an await; then the input gate  *)
(* is closed while its row is stored.  The object may be evicted at any    *)
(* moment, and its next request loads the rows again.                      *)
(***************************************************************************)
EXTENDS Integers, FiniteSets

CONSTANTS
    Clients,    \* clientId
    Max,        \* config.maxRequests
    Window,     \* config.windowMs
    EntryTtl,   \* ENTRY_TTL_MS
    MaxEntries, \* MAX_ENTRIES
    Snapshots,  \* what an earlier release may have left under 'rateLimits'
    MaxTime,    \* bound: the clock stops
    MayCount,   \* bound: how many requests of each client may be counted
    MayFail,    \* bound: the kinds of faults that may happen, each once
    MaxFaults   \* bound: how many of them happen in one behaviour

NoEntry == [count |-> 0, start |-> 0, prev |-> 0, last |-> 0]
Entries == [count : 0 .. Max, start : 0 .. MaxTime, prev : 0 .. Max, last : 0 .. MaxTime]
Kinds == {"put", "delete", "list", "migrate", "reset", "crash"}

ASSUME LimiterAssumption ==
    /\ Clients \cap {"open", "down"} = {}
    /\ Max \in Nat \ {0} /\ Window \in Nat \ {0, 1} /\ EntryTtl \in Nat
    /\ MaxEntries \in Nat /\ MaxTime \in Nat \ {0}
    /\ MayCount \in [Clients -> Nat] /\ MayFail \subseteq Kinds
    /\ Snapshots \subseteq [Clients -> {NoEntry} \cup
                              [count : 1 .. Max, start : {1}, prev : {0}, last : {1}]]

VARIABLES
    now,     \* nowMs()
    mem,     \* rateLimits
    row,     \* the rows rl:<clientId>
    legacy,  \* the snapshot under 'rateLimits', until it has been migrated
    gate,    \* the client whose row is being stored, "open", or "down" before a load
    granted, \* ghost: how many requests were answered 200 up to each time
    dropped, \* ghost: clients that were reset, or removed because of MAX_ENTRIES
    silent,  \* ghost: clients with a request that was counted and not granted
    faults   \* ghost: which kinds of faults have happened

vars == <<now, mem, row, legacy, gate, granted, dropped, silent, faults>>

Empty == [c \in Clients |-> NoEntry]

\* How many were granted in the ticks a + 1 .. b, by the ghost g of a client.
In(g, a, b) == (IF b < 0 THEN 0 ELSE g[b]) - (IF a < 0 THEN 0 ELSE g[a])
Granted(c, a, b) == In(granted[c], a, b)

Init ==
    /\ now = 1
    /\ mem = Empty /\ row = Empty /\ legacy \in Snapshots
    /\ gate = "down"
    /\ granted = [c \in Clients |-> [t \in 0 .. MaxTime |-> IF t = 0 THEN 0 ELSE legacy[c].count]]
    /\ dropped = {} /\ silent = {} /\ faults = {}

Fault(kind) ==
    /\ kind \in MayFail \ faults /\ Cardinality(faults) < MaxFaults
    /\ faults' = faults \cup {kind}

(***************************************************************************)
(* handleCheckRateLimit.                                                   *)
(***************************************************************************)
Over(e) == now - e.start >= Window

\* A variant of Sliding with a mistake: it forgets the window before.
SlidingTumbling(e) == e.count * Window

\* slidingCount, times windowMs: the window before is weighed by the part of it
\* that is still in sight.
Sliding(e) == e.prev * (Window - (now - e.start)) + e.count * Window

IsRefused(e) == e # NoEntry /\ ~Over(e) /\ Sliding(e) >= Max * Window

\* Variants of Counted with a mistake: the counter of a window long past is
\* carried over; the new window keeps nothing of the one that ended.
CountedStale(e) ==
    IF e = NoEntry \/ Over(e)
    THEN [count |-> 1, start |-> now, prev |-> e.count, last |-> now]
    ELSE [e EXCEPT !.count = @ + 1, !.last = now]

CountedClean(e) ==
    IF e = NoEntry \/ Over(e)
    THEN [count |-> 1, start |-> now, prev |-> 0, last |-> now]
    ELSE [e EXCEPT !.count = @ + 1, !.last = now]

\* The entry after a request that is let through: of a new client or window,
\* with the count of the window that has just ended, or one more.
Counted(e) ==
    IF e = NoEntry \/ Over(e)
    THEN [count |-> 1, start |-> now, last |-> now,
          prev |-> IF now - e.start < 2 * Window THEN e.count ELSE 0]
    ELSE [e EXCEPT !.count = @ + 1, !.last = now]

\* Request of c, counted in memory; its row is being stored.
Count(c) ==
    /\ gate = "open" /\ ~IsRefused(mem[c])
    /\ granted[c][MaxTime] < MayCount[c]
    /\ mem' = [mem EXCEPT ![c] = Counted(@)]
    /\ gate' = c
    /\ UNCHANGED <<now, row, legacy, granted, dropped, silent, faults>>

\* A 429 stores nothing; only the time of the access is noted, in memory.
Refuse(c) ==
    /\ gate = "open" /\ IsRefused(mem[c])
    /\ mem' = [mem EXCEPT ![c].last = now]
    /\ UNCHANGED <<now, row, legacy, gate, granted, dropped, silent, faults>>

(***************************************************************************)
(* cleanupExpiredEntries.                                                  *)
(***************************************************************************)
Known(m) == {c \in Clients : m[c] # NoEntry}

Expired(m) == {c \in Known(m) : now - m[c].last > EntryTtl}

\* The sets of clients that may be removed besides: as many as there are too
\* many, those that were seen longest ago.
Excess(m) ==
    LET rest == Known(m) \ Expired(m)
        many == Cardinality(rest) - MaxEntries
    IN  {S \in SUBSET rest :
            /\ Cardinality(S) = IF many > 0 THEN many ELSE 0
            /\ \A c \in S, d \in rest \ S : m[c].last <= m[d].last}

Without(m, S) == [c \in Clients |-> IF c \in S THEN NoEntry ELSE m[c]]

\* Memory becomes m and rows r without what the cleanup of m removes; if the
\* removal of rows fails, some of them stay.
Cleaned(m, r) ==
    \E S \in Excess(m) :
        LET gone == Expired(m) \cup S
        IN  /\ mem' = Without(m, gone)
            /\ dropped' = dropped \cup S
            /\ \/ row' = Without(r, gone) /\ UNCHANGED faults
               \/ /\ Fault("delete")
                  /\ \E stay \in SUBSET gone \ {{}} : row' = Without(r, gone \ stay)

(***************************************************************************)
(* handleRequest: the row is stored, then the request answered.            *)
(***************************************************************************)
Stored(c) == [row EXCEPT ![c] = mem[c]]

Grant(c) ==
    /\ granted' = [granted EXCEPT ![c] = [t \in 0 .. MaxTime |->
                                            IF t < mem[c].last THEN @[t] ELSE @[t] + 1]]
    /\ UNCHANGED silent

\* An error: the answer is a 500 without a limit.  The middleware lets the request
\* through, but no counter granted it and the ghost does not count it.
Fail(c) == silent' = silent \cup {c} /\ UNCHANGED granted

Store(c) ==
    /\ gate = c /\ gate' = "open"
    /\ IF Cardinality(Known(mem)) > MaxEntries
       THEN Cleaned(mem, Stored(c))
       ELSE row' = Stored(c) /\ UNCHANGED <<mem, dropped, faults>>
    /\ IF faults' = faults THEN Grant(c) ELSE Fail(c)
    /\ UNCHANGED <<now, legacy>>

\* storage.put throws, with or without effect.
StoreFails(c) ==
    /\ gate = c /\ gate' = "open"
    /\ Fault("put")
    /\ row' \in {row, Stored(c)}
    /\ Fail(c)
    /\ UNCHANGED <<now, mem, legacy, dropped>>

\* handleCleanup, and handleReset of one client or all.
Cleanup ==
    /\ gate = "open"
    /\ Cleaned(mem, row)
    /\ UNCHANGED <<now, legacy, gate, granted, silent>>

Reset(S) ==
    /\ gate = "open" /\ Fault("reset")
    /\ mem' = Without(mem, S)
    /\ \E stay \in SUBSET S : row' = Without(row, S \ stay)
    /\ dropped' = dropped \cup S
    /\ UNCHANGED <<now, legacy, gate, granted, silent>>

(***************************************************************************)
(* Eviction, between requests or while a row is stored, and                *)
(* loadFromStorage.                                                        *)
(***************************************************************************)
Evict ==
    /\ gate = "open" /\ gate' = "down"
    /\ mem' = Empty
    /\ UNCHANGED <<now, row, legacy, granted, dropped, silent, faults>>

Crash(c) ==
    /\ gate = c /\ gate' = "down"
    /\ Fault("crash")
    /\ mem' = Empty
    /\ row' \in {row, Stored(c)}
    /\ Fail(c)
    /\ UNCHANGED <<now, legacy, dropped>>

\* The rows r, and the snapshot for clients without one.
OrElse(e, l) == IF e # NoEntry THEN e ELSE l
Merged(r) == [c \in Clients |-> OrElse(r[c], legacy[c])]

Load ==
    /\ gate = "down" /\ gate' = "open"
    /\ Cleaned(Merged(row), Merged(row))
    /\ legacy' = Empty
    /\ UNCHANGED <<now, granted, silent>>

\* The migration is cut short: by an error, which is swallowed, or an eviction.
MigrationFails ==
    /\ gate = "down" /\ Fault("migrate")
    /\ \/ gate' = "open" /\ mem' = Merged(row)
       \/ gate' = "down" /\ mem' = Empty
    /\ \E S \in SUBSET Clients :
          row' = [c \in Clients |-> IF c \in S THEN Merged(row)[c] ELSE row[c]]
    /\ UNCHANGED <<now, legacy, granted, dropped, silent>>

\* The error of a read is swallowed; the object goes on with what it has read.
LoadFails ==
    /\ gate = "down" /\ gate' = "open"
    /\ Fault("list")
    /\ mem' \in {Empty, row}
    /\ UNCHANGED <<now, row, legacy, granted, dropped, silent>>

Tick ==
    /\ now < MaxTime
    /\ now' = now + 1
    /\ UNCHANGED <<mem, row, legacy, gate, granted, dropped, silent, faults>>

Request(c) == Count(c) \/ Refuse(c) \/ Store(c) \/ StoreFails(c) \/ Crash(c) \/ Reset({c})

Next ==
    \/ \E c \in Clients : Request(c)
    \/ Cleanup \/ Reset(Clients)
    \/ Evict \/ Load \/ MigrationFails \/ LoadFails
    \/ Tick

Spec == Init /\ [][Next]_vars

(***************************************************************************)
(* Properties                                                              *)
(***************************************************************************)
TypeOK ==
    /\ now \in 1 .. MaxTime
    /\ mem \in [Clients -> Entries] /\ row \in [Clients -> Entries]
    /\ legacy \in [Clients -> Entries]
    /\ gate \in Clients \cup {"open", "down"}
    /\ granted \in [Clients -> [0 .. MaxTime -> Nat]]
    /\ dropped \in SUBSET Clients /\ silent \in SUBSET Clients
    /\ faults \in SUBSET Kinds

(***************************************************************************)
(* What an entry e promises at the time n, when k of its requests are not  *)
(* answered yet and g says what was granted.                               *)
(***************************************************************************)
\* It has counted its own window, and what is still in sight of the one before;
\* the first request of a window lies at its start.
Accounts(e, g, n, k) ==
    /\ In(g, e.start - 1, n) <= e.count - k
    /\ In(g, e.start, n) = 0 \/ In(g, e.start, n) < e.count - k
    /\ \/ In(g, e.start - Window, e.start - 1) = 0
       \/ In(g, e.start - Window, e.start - 1) < e.prev
    /\ In(g, e.last, n) = 0

\* The request counted last passed the test.
Passed(e) ==
    \/ e.count = 1
    \/ e.prev * (Window - (e.last - e.start)) + (e.count - 1) * Window < Max * Window

Current(e, g, n, k) ==
    /\ e # NoEntry
    /\ 1 <= e.count /\ 1 <= e.start
    /\ e.start <= e.last /\ e.last <= n /\ e.last < e.start + Window
    /\ k = 1 /\ e.count = 1 => e.last = e.start
    /\ Accounts(e, g, n, k) /\ Passed(e)

\* Nothing was granted during the last window, and an entry is of an older one.
Past(e, g, n) ==
    /\ In(g, n - Window, n) = 0
    /\ e # NoEntry => 1 <= e.start /\ e.start + Window <= n

EntryOK(e, g, n, k) == Current(e, g, n, k) \/ (k = 0 /\ Past(e, g, n))

\* The ghost never goes down, and knows nothing of the future.
GhostOK(g, n) ==
    /\ g \in [0 .. MaxTime -> Nat]
    /\ g[0] = 0
    /\ \A t, u \in 0 .. MaxTime : t <= u => g[t] <= g[u]
    /\ \A t \in n .. MaxTime : g[t] = g[n]

LegacyOK(c) == legacy[c] # NoEntry => legacy[c].start = 1
WaitingOK(c) == gate = c => mem[c].last \in 1 .. now

EntriesOK(c) ==
    c \notin dropped /\ "list" \notin faults =>
        /\ EntryOK(Merged(row)[c], granted[c], now, 0)
        /\ gate # "down" => EntryOK(mem[c], granted[c], now, IF gate = c THEN 1 ELSE 0)

\* The inductive invariant: each entry, in memory and in storage, accounts for
\* what was granted, whatever was cleaned up, evicted, migrated or not stored.
LimiterInv ==
    /\ TypeOK
    /\ \A c \in Clients :
          GhostOK(granted[c], now) /\ LegacyOK(c) /\ WaitingOK(c) /\ EntriesOK(c)

Knows(e, c) == e.count + e.prev >= Granted(c, now - Window, now)

\* Eviction never rolls a client's quota back: whatever is cleaned up, evicted,
\* migrated or fails to be stored, storage accounts for every request granted
\* during the last window, and so does memory unless it could not be read.
\* (Header of RateLimiterDO.ts; excepted is who was reset or was one too many.)
QuotaKept ==
    \A c \in Clients \ dropped : "list" \notin faults =>
        /\ Knows(Merged(row)[c], c)
        /\ gate # "down" => Knows(mem[c], c)

\* What the sliding window is for: no burst where two windows meet.  Across
\* evictions and cleanups a client is granted, in a stretch of two ticks, no more
\* than the limit, and in one of h ticks that and the part of it that h - 2 is of the
\* window: never twice the limit, which fixed windows would allow.
NoBurst ==
    \A c \in Clients \ dropped : "list" \notin faults =>
        \A t \in 0 .. MaxTime, h \in 2 .. Window :
            Granted(c, t - h, t) * Window <= Max * (Window + h - 2)

\* Nobody is refused who has not used the limit up: a client all of whose counted
\* requests were granted and who is refused was granted Max within three windows.
RefusedIsSpent ==
    [][\A c \in Clients \ silent :
          Refuse(c) => Granted(c, now - 3 * Window, now) >= Max]_vars
=============================================================================
