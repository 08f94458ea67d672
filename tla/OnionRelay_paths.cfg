CONSTANTS
    a = a
    b = b
    a1 = a1
    a2 = a2
    b1 = b1
    Dest = dest
    Relay = {a, b}
    Key = {a1, a2, b1}
    Keys <- Windows
    Start <- FirstKeys
    Lists <- RelayLists
    HopCount = 2
    Ttls = {1, 2}
    MaxEntries = 1
    Life = 1
    MaxSends = 1
    MaxCalls = 2
    MaxTime = 1
    MaxRotations = 1
    MaxDamage = 1
    Fields = {"ttl"}
    MaxRestarts = 1
SPECIFICATION FairSpec
INVARIANTS NoDoublePeel PathSound
PROPERTY EventuallyDelivered
CHECK_DEADLOCK FALSE
