\* Three requests with crashes, failing writes, power losses and recoveries
\* anywhere.  And the workbench with three modes, two submissions with three
\* requests, and every tool.  And a page of the client with two requests on their
\* way, two sessions and two idempotency keys.
SPECIFICATION Spec
CONSTANTS
    o1 = o1
    o2 = o2
    o3 = o3
    NoCall = NoCall
    Call <- Calls
    DiskMayFail = TRUE
    r1 = r1
    r2 = r2
    r3 = r3
    j1 = j1
    j2 = j2
    Serial = Serial
    Profile = {p1, p2}
    Job = {j1, j2}
    Request = {r1, r2, r3}
    JobOf <- Owner
    RequestSlots = 2
    NoLedger = NoLedger
    User = {u1, u2}
    NoUser = NoUser
    MaxOpened = 2
    MaxKeys = 2
    MaxCalls = 2
SYMMETRY Symmetry
INVARIANTS
    OneGeneration
    OneModeOutstanding
    CheckpointIsOneInstant
    WritesAreOwn
    PagesShowOwn
    OneRowPerDraft
PROPERTIES
    NoBypass
