CONSTANTS
    c1 = c1
    c2 = c2
    Clients = {c1, c2}
    Max = 2
    Window = 3
    EntryTtl = 3
    MaxEntries = 1
    Snapshots <- MCSnapshots
    MaxTime = 10
    MayCount <- MCMayCount
    MayFail = {"put", "delete", "list", "migrate", "reset", "crash"}
    MaxFaults = 1
SPECIFICATION Spec
INVARIANT QuotaKept
INVARIANT NoBurst
PROPERTY RefusedIsSpent
