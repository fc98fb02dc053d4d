\* Two requests on one account and a rival for its handle: registrations,
\* resets and logins overtake each other; links and sessions expire.
SPECIFICATION Spec
CONSTANTS
    Idle = Idle
    NoAccount = NoAccount
    Email = {e1, e2}
    Password = {p1, p2}
    Handle = {h1}
    Request = {r1, r2}
    VerifyTime = 2
    ResetTime = 1
    SessionTime = 2
    MaxTime = 3
    MaxLinks = 3
    MaxSessions = 2
    Thread = {t1, t2, t3}
    NoThread = NoThread
    Capacity = 2
    MaxMail = 4
SYMMETRY Symmetry
CHECK_DEADLOCK FALSE
INVARIANTS
    SessionsFollowResets
    MailsGoOneByOne
PROPERTIES
    MailDecidesAccounts
