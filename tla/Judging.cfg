\* Four evaluations in two lanes, a cache too small for both challenges,
\* dataset files that are replaced at will, and a walk with pages of one row.
\* In the end everything is judged.
SPECIFICATION JudgingSpec
CONSTANTS
    c1 = c1
    c2 = c2
    d1 = d1
    d2 = d2
    x1 = x1
    y1 = y1
    y2 = y2
    a = a
    b = b
    NoWalk = NoWalk
    z = z
    Empty = Empty
    Underscore = Underscore
    Root = Root
    MockTag = a
    MockDeprel = a
    UposTags = {a}
    Submission <- Submissions
    UserOf <- Users
    Challenge = {c1, c2}
    ChallengeOf <- Challenges
    TaskOf <- Tasks
    SamplesOf <- Samples
    DatasetOf <- Datasets
    SizeOf <- Sizes
    Dataset = {d1, d2}
    GoldOf <- Golds
    AnswersTo <- Sayings
    Lanes = 2
    MaxEntries = 2
    MaxBytes = 2
    PageSize = 1
    Skew = 0
    MaxTime = 4
CHECK_DEADLOCK FALSE
INVARIANTS
    CacheHonest
    FullMarksMeanGold
    PagesShowOneBoard
