SPECIFICATION Spec
CONSTANTS
    Root = root
    Devices = {d1, d2}
    Capabilities = {delegate, publish}
    Delegate = delegate
    NoCap = none
    Self = self
    Required = {publish}
    MaxDepth = 1
    RecordTTL = 1
    Grants <- TwoGrants
    Claims <- HonestClaims
    MaxTime = 0
    MaxCerts = 2
    MaxEpoch = 1
SYMMETRY DeviceSymmetry
INVARIANTS DelegateMaySign
CHECK_DEADLOCK FALSE
