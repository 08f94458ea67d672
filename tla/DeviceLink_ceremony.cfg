SPECIFICATION Spec
CONSTANTS
    c1 = c1
    c2 = c2
    a1 = a1
    a2 = a2
    Psks = {c1, c2}
    AccountOf <- TwoAccounts
    Devices = {d1, d2}
    RequestTtl = 2
    RecordTtl = 2
    Skews = {0, 2}
    MaxSkew = 1
    None = none
    MaxTime = 2
    MaxFresh = 4
SYMMETRY DeviceSymmetry
INVARIANTS BundlesSound OpenedOnce ConfirmAgreement
CHECK_DEADLOCK FALSE
