SPECIFICATION MCSpec
CONSTANTS
    Owners = {o1, o2}
    Peers = {p1, p2}
    Links = {l1, l2}
    Sessions = {s1, s2}
    Attempts = {a1}
    Events = {e1, e2, e3}
    Invites = {i1}
    Versions = {0, 2}
    Expected = {1, 2}
    Statuses = {"open", "ended"}
    Limits = {0, 1, 2}
    MaxCalls = 4
    MaxAttemptCalls = 3
INVARIANTS LinksFound SessionsFound LogSound PagesExact ListsSteady
PROPERTIES ImplementsVersionedStore
SYMMETRY Symmetry
CHECK_DEADLOCK FALSE
