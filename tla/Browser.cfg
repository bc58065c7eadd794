\* Three calls of one page, two refreshes in a row, a second login after the
\* first has been lost; the network loses what it likes.
SPECIFICATION BrowserSpec
CHECK_DEADLOCK FALSE
CONSTANTS
    Procs = {c1, c2, c3}
    Users = {u1}
    Orgs = {o1}
    Provider = o1
    Faults = {"lost"}
    SessionTTL = 1
    AccessTTL = 1
    RefreshTTL = 2
    MaxLogins = 2
    MaxTokens = 3
    MaxTime = 3
INVARIANTS
    OneLiveGrant
    StoredTokenIsLive
PROPERTIES
    SignedInStays
    EveryCallEnds
