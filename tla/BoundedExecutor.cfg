\* Three requests in two slots with crashes, failing reads and writes, power
\* losses and recoveries anywhere; and two requests of the API with the
\* executor's faults and stop, and a student who turns the pages of a history
\* of up to three rows.
SPECIFICATION Spec
CONSTANTS
    o1 = o1
    o2 = o2
    o3 = o3
    Call <- Calls
    MaxInflight = 2
    DiskMayFail = TRUE
    v1 = v1
    v2 = v2
    ann = ann
    ben = ben
    open = open
    draft = draft
    Visit <- Visits
    Post <- Requests
    Member = {ann}
    Route = {open, draft}
    Activated = {open}
    DraftsAllowed = FALSE
    Identifier = {1, 2, 3}
    PageLength = 1
    Ttl = 1
    MaxClock = 1
    NoVisit = NoVisit
    NoPages = NoPages
SYMMETRY Symmetry
INVARIANTS
    TroubleTurnsAway
    HistoryIsWhole
PROPERTIES
    KeepsPromise
