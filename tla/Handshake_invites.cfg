CONSTANTS
  Parties = {a, b}
  First = a
  MaxInvites = 2
  MaxLinks = 2
  MaxRestarts = 1
SPECIFICATION MCSpec
INVARIANTS SessionsSound OnePeer ConfirmedEstablished InstalledAlike Remembered
PROPERTIES Decided
CHECK_DEADLOCK FALSE
