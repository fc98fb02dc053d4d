\* Two users, two tasks and two deployments of the administered one; two
\* connections that create, claim and administer at the same time.
SPECIFICATION PostgresSpec
CONSTANTS
    NoSource = NoSource
    Idle = Idle
    None = None
    Auth = Auth
    Queue = Queue
    Submission = {s1, s2}
    User = {u1, u2}
    Key = {k1}
    t1 = t1
    t2 = t2
    Challenge = {t1, t2}
    Task = t1
    Admin = {a1}
    Source = {f1, f2}
    Conn = {x1, x2}
    DailyLimit = 1
    Window = 1
    OutstandingLimit = 1
    QueueDepth <- Depths
    RunningLimit = 1
    MaxAttempts = 2
    JobDeadline = 2
    Lease = 1
    SessionTime = 1
    MaxTime = 2
    MaxRevision = 2
SYMMETRY Symmetry
INVARIANTS
    NoLockCycle
PROPERTIES
    AdmissionsBounded
    NothingAdmittedWhenClosed
    ChangesAreInformed
    PostgresLifecycle
