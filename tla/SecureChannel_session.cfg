SPECIFICATION Spec
CONSTANTS
    Slots = {s1}
    MaxSends <- Sends_3_1
    MaxSkip = 2
    MaxSkippedKeys = 1
    MaxSkippedBytes = 96
    MaxRestarts = 1
    Damageable = {1}
    Ranks <- OneRank
INVARIANTS TypeOK NoAeadReuse SkippedBounded ChainAgreement StillDecryptable AtMostOnceUntainted
