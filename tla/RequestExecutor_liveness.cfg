\* A job of two samples and one of one compete for one slot; one attempt, and
\* one thing that may go wrong.
SPECIFICATION FairSpec
CONSTANTS
    j1 = j1
    j2 = j2
    u1 = u1
    u2 = u2
    Nobody = Nobody
    Job <- Jobs
    Attempt <- Attempts
    Call <- Calls
    OwnerOf <- TwoOwners
    MaxInflight = 2
    SamplesOf <- Samples
    Slots = 1
    PerJobLimit = 1
    MaxJobs = 2
    MaxAttempts = 1
    MaxFaults = 1
PROPERTIES
    Served
    LateWorkEnds
