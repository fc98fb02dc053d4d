\* Fresh reads, takeovers, lost replies, acks and requeues of two submissions
\* by three consumers.  The bounded identifiers and receipts run out: the last
\* states have no successor.
SPECIFICATION RedisSpec
CONSTANTS
    a = a
    b = b
    w1 = w1
    w2 = w2
    w3 = w3
    t1 = t1
    t2 = t2
    t3 = t3
    t4 = t4
    None = None
    Submission <- Submissions
    Consumer <- Consumers
    Token <- Tokens
    MaxEntry = 4
SYMMETRY Symmetry
CHECK_DEADLOCK FALSE
INVARIANTS
    OnlyNewestSettles
PROPERTIES
    QueueImplemented
