\* One submission to its verdict, with duplicates and a crash or an outage.
\* When all is done nothing is left to do.
SPECIFICATION FairSpec
CONSTANTS
    s1 = s1
    s2 = s2
    c1 = c1
    ch1 = ch1
    Idle = Idle
    NoRequest = NoRequest
    Nothing = Nothing
    Gone = Gone
    Waiting = Waiting
    Submission <- OneSubmission
    User = {u1}
    Key = {k1}
    Contract = {c1}
    Challenge = {ch1}
    ChallengeOf <- Contracts
    Served = c1
    Handler = {h1}
    WorkerCode = {"PROVIDER_TIMEOUT"}
    Worker = {w1, w2}
    Copy = {1, 2}
    Visibility = 1
    DailyLimit = 2
    Window = 2
    OutstandingLimit = 2
    QueueDepth = 2
    RunningLimit = 1
    MaxAttempts = 2
    JobDeadline = 2
    Lease = 1
    MaxTime = 2
    MaxFaults = 1
CHECK_DEADLOCK FALSE
INVARIANTS
    NoLostWork
PROPERTIES
    EverySubmissionEnds
