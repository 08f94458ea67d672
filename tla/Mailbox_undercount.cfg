SPECIFICATION Spec
CONSTANTS
    Slots = {s1, s2}
    Sizes <- OneSize
    MaxItems = 2
    MaxBytes = 9
    PageLimit = 1
    MaxDeposits = 2
    MaxCrashes = 1
    MaxRejects = 0
INVARIANTS NotUndercounted
