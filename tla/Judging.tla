------------------------------ MODULE Judging ------------------------------
(***************************************************************************)
(* From a claimed submission to its place on the leaderboard: run_challenge *)
(* with the selection cache, the result's transaction, and a client that    *)
(* walks the leaderboard page by page.                                      *)
(*                                                                         *)
(* A dataset file may be replaced at any time and any number of times, so   *)
(* each reading of it finds any content.  A result is given its time inside *)
(* its transaction and is seen when that commits; pages are read in         *)
(* between.  Every reading of a clock has a time of its own; the API's      *)
(* clock may be off from the database's by Skew.  Who may claim, retry and  *)
(* complete is SubmissionStore's subject.                                   *)
(***************************************************************************)
EXTENDS Scoring

CONSTANTS
    Submission, UserOf,      \* handles and submission ids are ordered numbers
    Challenge, ChallengeOf,
    TaskOf, SamplesOf, DatasetOf, SizeOf,     \* the manifest of a challenge
    Dataset, GoldOf,         \* GoldOf[dataset][sample]: its gold items
    AnswersTo(_),            \* what a model may say to a task
    Lanes,                   \* evaluations at the same time
    MaxEntries, MaxBytes,    \* the limits of the cache
    PageSize, Skew, NoWalk,
    MaxTime                  \* bound for model checking

ASSUME LimitsAssumption ==
    /\ {Lanes, MaxEntries, MaxBytes, PageSize} \subseteq Nat \ {0}
    /\ {Skew, MaxTime} \subseteq Nat

\* Published challenges have samples, and each has a gold annotation that
\* build_challenge has found right for the task.
ASSUME ManifestAssumption ==
    /\ Submission \subseteq Nat
    /\ \A s \in Submission : ChallengeOf[s] \in Challenge /\ UserOf[s] \in Nat
    /\ \A c \in Challenge :
          /\ TaskOf[c] \in Task /\ DatasetOf[c] \in Dataset /\ SizeOf[c] \in Nat
          /\ IsFiniteSet(SamplesOf[c]) /\ SamplesOf[c] # {}
          /\ \A x \in SamplesOf[c] :
                LET gold == GoldOf[DatasetOf[c]][x]
                IN  /\ Annotation(TaskOf[c], gold) /\ gold # <<>>
                    /\ Parse(TaskOf[c], [shape |-> "OK", items |-> gold], Len(gold)) = "OK"

ASSUME AnswersAssumption ==
    \A task \in Task : \A answer \in AnswersTo(task) : Annotation(task, answer.items)

VARIABLES
    now,
    cache,     \* _entries, the least recently used first
    encoded,   \* _encoded_bytes
    jobs,      \* how far the evaluation of each submission is
    results,   \* committed results
    walk       \* the leaderboard pages a client has seen

selection == <<cache, encoded>>
judgingVars == <<now, selection, jobs, results, walk>>

JudgingInit ==
    /\ now = 0
    /\ cache = <<>>
    /\ encoded = 0
    /\ jobs = [s \in Submission |-> [at |-> "queued"]]
    /\ results = {}
    /\ walk = NoWalk

Active == {s \in Submission : jobs[s].at \notin {"queued", "over"}}

Advance(s, job) == jobs' = [jobs EXCEPT ![s] = job]

\* A deadline or a failing provider during run_challenge: no partial result.
Stop(s) ==
    /\ jobs[s].at = "ready"
    /\ Advance(s, [at |-> "over"])
    /\ UNCHANGED <<now, selection, results, walk>>

----------------------------------------------------------------------------
\* VerifiedSelectionCache.load: the file is hashed before the lock is taken.

Verify(s) ==
    /\ jobs[s].at = "queued"
    /\ Cardinality(Active) < Lanes
    /\ \E found \in Dataset :
          Advance(s, [at |-> IF found = DatasetOf[ChallengeOf[s]] THEN "verified" ELSE "over"])
    /\ UNCHANGED <<now, selection, results, walk>>

Key(c) == <<DatasetOf[c], SamplesOf[c]>>

Selected(c, d) == [x \in SamplesOf[c] |-> GoldOf[d][x]]

\* Mutant: the new entry itself is not counted.
FitsLoosely(entries, bytes, size) ==
    Len(entries) = 0 \/ (Len(entries) < MaxEntries /\ bytes <= MaxBytes)

Fits(entries, bytes, size) ==
    Len(entries) = 0 \/ (Len(entries) < MaxEntries /\ bytes + size <= MaxBytes)

Bytes(entries) == SumFunction([i \in DOMAIN entries |-> entries[i].size])

\* How many of the oldest entries go before one of this size comes in.
Evicted(size) ==
    Min({n \in 0 .. Len(cache) :
           Fits(SubSeq(cache, n + 1, Len(cache)), encoded - Bytes(SubSeq(cache, 1, n)), size)})

Insert(entry) ==
    IF entry.size <= MaxBytes
    THEN LET n == Evicted(entry.size)
         IN  /\ cache' = Append(SubSeq(cache, n + 1, Len(cache)), entry)
             /\ encoded' = encoded - Bytes(SubSeq(cache, 1, n)) + entry.size
    ELSE UNCHANGED selection

\* Mutant: the file was verified, and is not verified again while it is read.
AcceptsAny(c, found) == found \in Dataset

Accepts(c, found) == found = DatasetOf[c]

Ready(s, gold) == Advance(s, [at |-> "ready", gold |-> gold])

Load(s) ==
    LET c == ChallengeOf[s]
        hits == {i \in DOMAIN cache : cache[i].key = Key(c)}
    IN  /\ jobs[s].at = "verified"
        /\ \/ \E i \in hits :
                 /\ cache' = Append(RemoveAt(cache, i), cache[i])
                 /\ UNCHANGED encoded
                 /\ Ready(s, cache[i].gold)
           \/ /\ hits = {}
              /\ \E found \in Dataset :
                    \/ /\ Accepts(c, found)
                       /\ Insert([key |-> Key(c), gold |-> Selected(c, found), size |-> SizeOf[c]])
                       /\ Ready(s, Selected(c, found))
                    \/ /\ ~Accepts(c, found)
                       /\ UNCHANGED selection
                       /\ Advance(s, [at |-> "over"])
        /\ UNCHANGED <<now, results, walk>>

----------------------------------------------------------------------------
\* Evaluation and the result

\* run_challenge: an outcome for every sample, then their aggregate.
Grade(s) ==
    /\ jobs[s].at = "ready"
    /\ LET task == TaskOf[ChallengeOf[s]]
           gold == jobs[s].gold
       IN  \E answers \in [SamplesOf[ChallengeOf[s]] -> AnswersTo(task)] :
              LET outcomes == [x \in DOMAIN answers |-> Outcome(task, gold[x], answers[x])]
              IN  Advance(s, [at |-> "graded", answers |-> answers,
                              result |-> Aggregate(task, outcomes)])
    /\ UNCHANGED <<now, selection, results, walk>>

\* complete_success reads the database's clock ...
BeginResult(s) ==
    /\ jobs[s].at = "graded"
    /\ now < MaxTime
    /\ Advance(s, [at |-> "writing", score |-> jobs[s].result.score, time |-> now])
    /\ now' = now + 1
    /\ UNCHANGED <<selection, results, walk>>

\* ... and commits.
CommitResult(s) ==
    /\ jobs[s].at = "writing"
    /\ results' = results \cup {[submission |-> s, score |-> jobs[s].score,
                                 time |-> jobs[s].time]}
    /\ Advance(s, [at |-> "over"])
    /\ UNCHANGED <<now, selection, walk>>

----------------------------------------------------------------------------
\* The leaderboard

Higher(x, y) == x[1] * y[2] > y[1] * x[2]

\* score DESC, succeeded_at ASC, then the submission (of one user) or the
\* public handle (of different users).
Before(x, y, tie) ==
    \/ Higher(x.score, y.score)
    \/ /\ ~Higher(y.score, x.score)
       /\ x.time < y.time \/ (x.time = y.time /\ tie)

User(r) == UserOf[r.submission]

Better(x, y) == Before(x, y, x.submission < y.submission)
Ranked(x, y) == Before(x, y, User(x) < User(y))

\* Mutant: the boundary of the walk is not applied.
CandidatesOfNow(c, as_of) == {r \in results : ChallengeOf[r.submission] = c}

Candidates(c, as_of) == {r \in results : ChallengeOf[r.submission] = c /\ r.time <= as_of}

\* The best result of every user ...
Best(c, as_of) ==
    {r \in Candidates(c, as_of) :
       \A q \in Candidates(c, as_of) : User(q) = User(r) => ~Better(q, r)}

\* ... ranked.
Board(c, as_of) ==
    LET best == Best(c, as_of)
    IN  CHOOSE board \in [1 .. Cardinality(best) -> best] :
            \A m, n \in DOMAIN board : m < n => Ranked(board[m], board[n])

Page(board, after) == SubSeq(board, after + 1, Min({after + PageSize, Len(board)}))

\* A first page, under the API's clock.  calm says that no result with a time
\* up to as_of can still commit: none is being written and none will be given one.
FirstPage(c, as_of) ==
    /\ now < MaxTime
    /\ LET board == Board(c, as_of)
       IN  walk' = [challenge |-> c, as_of |-> as_of, seen |-> Page(board, 0),
                    more |-> Len(board) > PageSize,
                    calm |-> /\ as_of <= now
                             /\ \A s \in Submission :
                                   jobs[s].at = "writing" => jobs[s].time > as_of]
    /\ now' = now + 1
    /\ UNCHANGED <<selection, jobs, results>>

\* The cursor holds as_of and the last rank.
NextPage ==
    /\ walk # NoWalk
    /\ walk.more
    /\ LET board == Board(walk.challenge, walk.as_of)
           after == Len(walk.seen)
       IN  walk' = [walk EXCEPT !.seen = @ \o Page(board, after),
                                !.more = Len(board) > after + PageSize]
    /\ UNCHANGED <<now, selection, jobs, results>>

JudgingNext ==
    \/ \E s \in Submission : \/ Verify(s) \/ Load(s) \/ Grade(s)
                             \/ BeginResult(s) \/ CommitResult(s) \/ Stop(s)
    \/ \E c \in Challenge, t \in now - Min({now, Skew}) .. now + Skew : FirstPage(c, t)
    \/ NextPage

JudgingSpec == JudgingInit /\ [][JudgingNext]_judgingVars

----------------------------------------------------------------------------
\* The cache counts what it holds, keeps its limits, and what it holds under a
\* key is the selection of that key, whatever was evicted, reused or replaced.
CacheHonest ==
    /\ encoded = Bytes(cache)
    /\ encoded <= MaxBytes /\ Len(cache) <= MaxEntries
    /\ \A i, j \in DOMAIN cache : cache[i].key = cache[j].key => i = j
    /\ \A i \in DOMAIN cache, c \in Challenge :
          cache[i].key = Key(c) => cache[i].gold = Selected(c, DatasetOf[c])

RightAnswer(s, x) ==
    LET c == ChallengeOf[s]
    IN  IsGold(TaskOf[c], GoldOf[DatasetOf[c]][x], jobs[s].answers[x])

\* Full marks are for right answers to every sample of the published dataset
\* and for nothing else: no malformed answer, changed surface, missing sample or
\* replaced file gets them, and no metric exceeds one.
FullMarksMeanGold ==
    \A s \in Submission : jobs[s].at = "graded" =>
        LET result == jobs[s].result
            samples == SamplesOf[ChallengeOf[s]]
        IN  /\ (result.score[1] = result.score[2]) = (\A x \in samples : RightAnswer(s, x))
            /\ \A m \in result.metrics \cup {result.score} : m[1] <= m[2]
            /\ result.invalid <= Cardinality({x \in samples : ~RightAnswer(s, x)})

\* A walk whose first page was read when no earlier result was still to commit
\* shows one board, whatever commits between its pages: at rank n a best result
\* with exactly n - 1 better users, nobody twice, and in the end everybody.
PagesShowOneBoard ==
    walk # NoWalk /\ walk.calm =>
        LET candidates == {r \in results : /\ ChallengeOf[r.submission] = walk.challenge
                                           /\ r.time <= walk.as_of}
            Users(rs) == {User(r) : r \in rs}
        IN  /\ \A n \in DOMAIN walk.seen :
                  LET r == walk.seen[n]
                  IN  /\ r \in candidates
                      /\ Cardinality(Users({q \in candidates : Ranked(q, r)}) \ {User(r)}) = n - 1
                      /\ \A q \in candidates : User(q) = User(r) => ~Higher(q.score, r.score)
            /\ \A m, n \in DOMAIN walk.seen :
                  User(walk.seen[m]) = User(walk.seen[n]) => m = n
            /\ ~walk.more => Users(candidates) = Users(Range(walk.seen))
============================================================================
