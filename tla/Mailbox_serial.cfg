SPECIFICATION MCSpec
CONSTANTS
    Slots = {s1}
    Sizes <- SmallSizes
    MaxItems = 2
    MaxBytes = 3
    PageLimit = 1
    MaxDeposits = 3
    MaxCrashes = 1
    MaxRejects = 1
INVARIANTS Counted ByteDrift
PROPERTIES EventuallySeen EventuallyTold
