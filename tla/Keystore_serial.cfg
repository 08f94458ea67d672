SPECIFICATION KeystoreSpec
CONSTANTS
    Slots = {s1}
    Accounts = {a1, a2}
    Passwords = {p1, p2}
    None = none
    Malformed = malformed
    NoKey = nokey
    CeremonyKey = ceremony
    PrimaryKey = primary
    MaxFresh = 4
INVARIANTS Persisted VaultSound
PROPERTIES VaultKept
CHECK_DEADLOCK FALSE
