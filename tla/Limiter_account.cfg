CONSTANTS
    c1 = c1
    c2 = c2
    Clients = {c1, c2}
    Max = 2
    Window = 4
    EntryTtl = 2
    MaxEntries = 1
    Snapshots <- MCSnapshots
    MaxTime = 7
    MayCount <- MCMayCount
    MayFail = {}
    MaxFaults = 0
SPECIFICATION Spec
INVARIANT QuotaKept
