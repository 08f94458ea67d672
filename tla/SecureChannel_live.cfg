SPECIFICATION FairSpec
CONSTANTS
    Slots = {s1}
    MaxSends <- Sends_2_2
    MaxSkip = 2
    MaxSkippedKeys = 2
    MaxSkippedBytes = 96
    MaxRestarts = 0
    Damageable = {}
    Ranks <- AllRanks
PROPERTIES EventuallyDecrypted
