SPECIFICATION ReaperSpec
CONSTANTS
    i1 = i1
    i2 = i2
    Ids = {i1, i2}
    o1 = o1
    o2 = o2
    Owners = {o1, o2}
    r1 = r1
    r2 = r2
    Requests = {r1, r2}
    MaxOpen = 1
    Idle = 2
    Lifetime = 3
    Retention = 1
    MaxTombstones = 1
INVARIANT RegistrySound
PROPERTY OnlyDueExpire
PROPERTY EverySlotIsFreed
PROPERTY EveryTransactionEnds
PROPERTY ShutdownDrains
