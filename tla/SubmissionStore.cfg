\* Two submissions of one user under two deployed contracts.  Creations read
\* the clock before the lock and commit in any order; claims, retries,
\* completions and sweeps follow in any order.
SPECIFICATION Spec
CONSTANTS
    s1 = s1
    s2 = s2
    c1 = c1
    c2 = c2
    ch1 = ch1
    Idle = Idle
    NoRequest = NoRequest
    Submission <- TwoSubmissions
    User = {u1}
    Key = {k1, k2}
    Contract = {c1, c2}
    Challenge = {ch1}
    ChallengeOf <- TwoContracts
    Handler = {h1, h2}
    WorkerCode = {"PROVIDER_TIMEOUT"}
    DailyLimit = 1
    Window = 1
    OutstandingLimit = 2
    QueueDepth = 2
    RunningLimit = 1
    MaxAttempts = 2
    JobDeadline = 2
    Lease = 1
    MaxTime = 3
SYMMETRY Symmetry
INVARIANTS
    FencingInv
    RollingQuota
PROPERTIES
    LifecycleImplemented
