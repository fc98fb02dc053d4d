------------------------- MODULE MCSubmissionStore -------------------------
\* Constant values with which TLC checks SubmissionStore.
EXTENDS SubmissionStore, TLC

CONSTANTS s1, s2, c1, c2, ch1

TwoSubmissions == {s1, s2}
\* Two deployments of one challenge: a new contract version replaces the old.
TwoContracts == c1 :> ch1 @@ c2 :> ch1

Symmetry == Permutations(Submission) \cup Permutations(Key) \cup Permutations(Handler)
============================================================================
