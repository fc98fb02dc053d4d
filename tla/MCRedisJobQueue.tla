-------------------------- MODULE MCRedisJobQueue --------------------------
\* Constant values with which TLC checks RedisJobQueue.
EXTENDS RedisJobQueue, TLC

CONSTANTS a, b, w1, w2, w3, t1, t2, t3, t4

Submissions == {a, b}
Consumers == {w1, w2, w3}
Tokens == {t1, t2, t3, t4}

Symmetry ==
    Permutations(Submissions) \cup Permutations(Consumers) \cup Permutations(Tokens)
=============================================================================
