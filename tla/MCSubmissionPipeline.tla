------------------------ MODULE MCSubmissionPipeline ------------------------
\* Constant values with which TLC checks SubmissionPipeline.
EXTENDS SubmissionPipeline, TLC

CONSTANTS s1, s2, c1, ch1

Submissions == {s1, s2}
OneSubmission == {s1}
Contracts == c1 :> ch1

Symmetry ==
    Permutations(Submission) \cup Permutations(Key) \cup Permutations(Worker)
=============================================================================
