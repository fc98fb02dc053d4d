\* Two submissions of one user, two workers, a queue that does not duplicate,
\* a crash or an outage anywhere.  When all is done nothing is left to do.
SPECIFICATION PipelineSpec
CONSTANTS
    s1 = s1
    s2 = s2
    c1 = c1
    ch1 = ch1
    Idle = Idle
    NoRequest = NoRequest
    Nothing = Nothing
    Gone = Gone
    Waiting = Waiting
    Submission <- Submissions
    User = {u1}
    Key = {k1, k2}
    Contract = {c1}
    Challenge = {ch1}
    ChallengeOf <- Contracts
    Served = c1
    Handler = {h1}
    WorkerCode = {"PROVIDER_TIMEOUT"}
    Worker = {w1, w2}
    Copy = {1}
    Visibility = 0
    DailyLimit = 2
    Window = 2
    OutstandingLimit = 2
    QueueDepth = 2
    RunningLimit = 1
    MaxAttempts = 2
    JobDeadline = 2
    Lease = 1
    MaxTime = 2
    MaxFaults = 1
SYMMETRY Symmetry
CHECK_DEADLOCK FALSE
INVARIANTS
    NoConcurrentEvaluation
