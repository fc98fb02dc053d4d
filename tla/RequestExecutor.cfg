\* Two jobs of two users, one of two samples and one of one, in two slots;
\* two attempts, and one thing that goes wrong.  And two builders of challenges
\* that die anywhere, a dataset that is replaced once, and an instance of the
\* workbench with one submission.
SPECIFICATION Spec
CONSTANTS
    j1 = j1
    j2 = j2
    u1 = u1
    u2 = u2
    Nobody = Nobody
    Job <- Jobs
    Attempt <- Attempts
    Call <- Calls
    OwnerOf <- TwoOwners
    MaxInflight = 2
    SamplesOf <- Samples
    Slots = 2
    PerJobLimit = 2
    MaxJobs = 2
    MaxAttempts = 2
    MaxFaults = 1
    upos = upos
    xpos = xpos
    NoDataset = NoDataset
    Planned <- V1
    Added <- Expansion
    Builder = {b1, b2}
    NoBuilder = NoBuilder
    Absent = Absent
    HalfWritten = HalfWritten
    NoMarker = NoMarker
    MaxReplacements = 1
    MaxStored = 1
INVARIANTS
    NoOverlap
    CatalogsLoad
    PairsMatch
PROPERTIES
    OnlyWholeResults
    CloseLeavesNothing
    ExecutorImplementsLifecycle
    InstanceKeepsContracts
