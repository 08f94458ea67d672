SPECIFICATION MCSpec
CONSTANTS
    Root = root
    Devices = {d1, d2}
    Capabilities = {delegate, publish}
    Delegate = delegate
    NoCap = none
    Self = self
    Required = {none, publish}
    MaxDepth = 1
    RecordTTL = 2
    Grants <- ThreeGrants
    Claims <- AllClaims
    MaxTime = 2
    MaxCerts = 3
    MaxEpoch = 2
SYMMETRY DeviceSymmetry
INVARIANTS NoEscalation RetainedExact RevocationSound
PROPERTIES NewerKeepsRevoked
CHECK_DEADLOCK FALSE
