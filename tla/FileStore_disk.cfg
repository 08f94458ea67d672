SPECIFICATION MCSpec
CONSTANTS
    KeyOrder <- NestedKeys
    Listed <- TopDir
    Slots = {s1, s2}
    Limits = {0, 1}
    MaxOps = 4
    MaxCrashes = 1
    MaxFaults = 2
INVARIANTS DiskSound ListingSound
PROPERTIES FailsOnlyDisturbed ImplementsDataStore
SYMMETRY SlotSymmetry
CHECK_DEADLOCK FALSE
