--------------------------- MODULE MCPostgresStore ---------------------------
\* Constant values with which TLC checks PostgresStore.
EXTENDS PostgresStore, TLC

CONSTANTS t1, t2

\* The contracts of two tasks need not allow queues of the same depth.
Depths == (t1 :> 1) @@ (t2 :> 2)

Symmetry ==
    Permutations(Submission) \cup Permutations(User) \cup Permutations(Conn)
    \cup Permutations(Source)
============================================================================
