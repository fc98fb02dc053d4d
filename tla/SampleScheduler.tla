--------------------------- MODULE SampleScheduler ---------------------------
(***************************************************************************)
(* The request-level scheduler: the samples of several jobs share a few     *)
(* slots.  One coordinator admits jobs, hands samples to the threads of a   *)
(* pool, collects what they leave behind and reports the jobs that are over;*)
(* a thread checks the claim of its job, sends one request under the ledger *)
(* (whose promise is RequestLedger) and grades the answer.                  *)
(*                                                                         *)
(* The coordinator reads the clock, the ledger and the results of the       *)
(* threads one after the other while the threads go on, so each of its      *)
(* reads is a step; `at' says where in its loop it is.                      *)
(***************************************************************************)
EXTENDS RequestLedger

CONSTANTS
    Job, Attempt,  \* a sample is known by its job, the attempt and its number
    SamplesOf,     \* how many samples a job has
    Slots,         \* len(slots)
    PerJobLimit,   \* per_job_limit
    MaxJobs,       \* max_jobs
    OwnerOf,       \* the user a job belongs to
    Nobody         \* "no job"

ASSUME SchedulerAssumption ==
    /\ SamplesOf \in [Job -> Nat \ {0}]
    /\ Slots \in 1 .. MaxInflight
    /\ PerJobLimit \in 1 .. Slots
    /\ MaxJobs \in Nat \ {0}
    /\ IsFiniteSet(Attempt) /\ Attempt \subseteq Nat \ {0}
    /\ Call = UNION {{j} \X Attempt \X (1 .. SamplesOf[j]) : j \in Job}
    /\ Nobody \notin Job

VARIABLES
    at,        \* where the coordinator is
    jobs,      \* the jobs of the session that are not retired
    ahead,     \* <<j, k>>: j was admitted before k (the order of the dict)
    last,      \* _last_job
    progress,  \* what the coordinator knows of each job
    work,      \* where the thread of a sample is, or what it left behind
    halted,    \* abort was called: no sample is dispatched any more
    accepting, \* FALSE once the session is sealed
    due,       \* jobs that are over and are being reported
    late       \* jobs whose deadline has passed

sessionVars == <<at, jobs, ahead, last, progress, work, halted, accepting, due>>
schedulerVars == <<ledgerVars, sessionVars, late>>

InPool == {"submitted", "checked", "calling"}
LeftBehind == {"ok", "deadline", "lost", "refused", "doubt", "timeout", "breach"}
Work == {"none", "graded", "failed"} \cup InPool \cup LeftBehind

\* error of _Progress, or "aggregate" once the result is computed.
Ending == {"running", "aggregate", "JOB_DEADLINE", "CLAIM_LOST", "PROVIDER_REQUEST_FAILED",
           "EXECUTION_FAILED", "AGGREGATION_FAILED", "EXECUTOR_BLOCKED"}

Progress == [attempt : Attempt \cup {0}, cursor : Nat, end : Ending, retry : BOOLEAN]
NewJob == [attempt |-> 0, cursor |-> 0, end |-> "running", retry |-> FALSE]

SessionInit ==
    /\ at = "down"
    /\ jobs = {} /\ ahead = {} /\ last = Nobody
    /\ progress = [j \in Job |-> NewJob]
    /\ work = [c \in Call |-> "none"]
    /\ halted = FALSE /\ accepting = TRUE /\ due = {}
    /\ late = {}

\* The session's memory goes with its process.
EndSession ==
    /\ at' = "down"
    /\ jobs' = {} /\ ahead' = {} /\ last' = Nobody
    /\ progress' = [j \in Job |-> NewJob]
    /\ work' = [c \in Call |-> "none"]
    /\ halted' = FALSE /\ accepting' = TRUE /\ due' = {}

\* Of a job: its samples with a thread or a result nobody has collected yet.
CallOf(j, i) == <<j, progress[j].attempt, i>>
Active == {c \in Call : work[c] \in InPool \cup LeftBehind}
InFlight(j) == {c \in Active : c[1] = j}
Graded(j) == {i \in 1 .. SamplesOf[j] : work[CallOf(j, i)] = "graded"}
Going(j) == progress[j].end = "running"

Room == Cardinality(Active) < Slots
\* The coordinator's part of the job records.
Ended(p, end) == [p EXCEPT !.end = end, !.retry = FALSE]
GoTo(to) == at' = to

----------------------------------------------------------------------------
\* add_job, of a job that was prepared.

\* A user's job counts until none of its requests is in flight.
OwnerIsBusy(j) ==
    \E k \in jobs : /\ OwnerOf[k] = OwnerOf[j]
                    /\ progress[k].end # "aggregate"
                    /\ Going(k) \/ InFlight(k) # {}

Addable(j) ==
    /\ ~halted /\ accepting
    /\ ~fault
    /\ j \notin jobs /\ Cardinality(jobs) < MaxJobs
    /\ ~OwnerIsBusy(j)

AddJob(j, n) ==
    /\ Addable(j)
    /\ jobs' = jobs \cup {j}
    /\ ahead' = ahead \cup (jobs \X {j})
    /\ progress' = [progress EXCEPT ![j] = [NewJob EXCEPT !.attempt = n]]
    /\ UNCHANGED <<last, work, halted, accepting, due>>

----------------------------------------------------------------------------
\* run, after the admission callback.

\* The start of the locked block: a stop seals the session, an incident of the
\* ledger halts it, deadlines end jobs.  The model's health was asked before.
Survey(sealed, ready) ==
    LET stops == halted \/ fault IN
    /\ at \in {"tick", "check"}
    /\ ready => ~halted /\ ~fault
    /\ halted' = stops
    /\ accepting' = (accepting /\ ~(sealed /\ ~halted))
    /\ progress' = [j \in Job |->
          IF j \notin jobs \/ ~Going(j) THEN progress[j]
          ELSE IF j \in late THEN Ended(progress[j], "JOB_DEADLINE")
          ELSE IF stops THEN Ended(progress[j], "EXECUTOR_BLOCKED")
          ELSE progress[j]]
    /\ GoTo(IF ready /\ ~stops /\ Room THEN "dispatch" ELSE "wait")
    /\ UNCHANGED <<jobs, ahead, last, work, due>>

\* _next.  It finds the late jobs late.
\* Mutant: the last sample is never reached.
SelectableShort(j) ==
    /\ j \in jobs /\ Going(j)
    /\ progress[j].cursor + 1 < SamplesOf[j]
    /\ Cardinality(InFlight(j)) < PerJobLimit

Selectable(j) ==
    /\ j \in jobs /\ Going(j)
    /\ progress[j].cursor < SamplesOf[j]
    /\ Cardinality(InFlight(j)) < PerJobLimit

Candidates == {j \in Job : Selectable(j) /\ j \notin late}

LateEnded == [j \in Job |-> IF Selectable(j) /\ j \in late
                             THEN Ended(progress[j], "JOB_DEADLINE") ELSE progress[j]]

\* The order in which the jobs are looked at: those after the last one first.
Sooner(j, k) ==
    LET after(x) == <<last, x>> \in ahead
    IN  (after(j) /\ ~after(k)) \/ (after(j) = after(k) /\ <<j, k>> \in ahead)

Load(j) == Cardinality(InFlight(j))

\* Fewest in flight first, in that order among equals.
Chosen(j) ==
    /\ j \in Candidates
    /\ \A k \in Candidates \ {j} :
          Load(j) < Load(k) \/ (Load(j) = Load(k) /\ Sooner(j, k))

Dispatch(j) ==
    /\ at = "dispatch"
    /\ Room
    /\ Chosen(j)
    /\ progress' = [LateEnded EXCEPT ![j].cursor = @ + 1]
    /\ work' = [work EXCEPT ![CallOf(j, progress[j].cursor + 1)] = "submitted"]
    /\ last' = j
    /\ UNCHANGED <<at, jobs, ahead, halted, accepting, due>>

EndDispatch ==
    /\ at = "dispatch"
    /\ ~Room \/ Candidates = {}
    /\ progress' = IF Room THEN LateEnded ELSE progress
    /\ GoTo("wait")
    /\ UNCHANGED <<jobs, ahead, last, work, halted, accepting, due>>

\* What the end of a sample makes of its job.
Whole(j, c) == Graded(j) \cup {c[3]} = 1 .. SamplesOf[j]

\* A confirmed failure allows a retry unless another one was not confirmed.
AfterRefusal(p, confirmed) ==
    IF p.end \notin {"running", "PROVIDER_REQUEST_FAILED"} THEN p
    ELSE [p EXCEPT !.end = "PROVIDER_REQUEST_FAILED",
                   !.retry = confirmed /\ (p.end = "running" \/ p.retry)]

AfterSample(p, left) ==
    CASE left = "deadline" -> Ended(p, "JOB_DEADLINE")
      [] left = "lost" -> Ended(p, "CLAIM_LOST")
      [] left \in {"refused", "doubt"} -> AfterRefusal(p, left = "refused")
      [] left \in {"timeout", "breach"} -> Ended(p, "EXECUTION_FAILED")
      [] OTHER -> p

\* Of the futures that are done, one at a time and in any order.  A timeout of
\* the provider is no ProviderRequestError, so it stops the session like a
\* fault of the program does; so does a result that cannot be computed.
CollectFailure(c) ==
    /\ at \in {"wait", "collect"}
    /\ work[c] \in LeftBehind \ {"ok"}
    /\ GoTo("collect")
    /\ work' = [work EXCEPT ![c] = "failed"]
    /\ progress' = [progress EXCEPT ![c[1]] = AfterSample(@, work[c])]
    /\ halted' = (halted \/ work[c] \in {"timeout", "breach"})
    /\ UNCHANGED <<jobs, ahead, last, accepting, due>>

Aggregated(j, end) ==
    IF j \in late THEN Ended(progress[j], "JOB_DEADLINE") ELSE Ended(progress[j], end)

\* Mutant: a job is complete once all its samples were dispatched.
CollectEarly(c) ==
    /\ at \in {"wait", "collect"}
    /\ work[c] = "ok"
    /\ GoTo("collect")
    /\ work' = [work EXCEPT ![c] = "graded"]
    /\ IF Going(c[1]) /\ progress[c[1]].cursor = SamplesOf[c[1]]
       THEN progress' = [progress EXCEPT ![c[1]] = Aggregated(c[1], "aggregate")]
       ELSE UNCHANGED progress
    /\ UNCHANGED <<jobs, ahead, last, halted, accepting, due>>

Collect(c) ==
    /\ at \in {"wait", "collect"}
    /\ work[c] = "ok"
    /\ GoTo("collect")
    /\ work' = [work EXCEPT ![c] = "graded"]
    /\ IF Going(c[1]) /\ Whole(c[1], c)
       THEN \E end \in {"aggregate", "AGGREGATION_FAILED"} :
               /\ progress' = [progress EXCEPT ![c[1]] = Aggregated(c[1], end)]
               /\ halted' = (halted \/ progress'[c[1]].end = "AGGREGATION_FAILED")
       ELSE UNCHANGED <<progress, halted>>
    /\ UNCHANGED <<jobs, ahead, last, accepting, due>>

\* Mutant: an incident ends the session at once.
AfterHalt(idle, p) ==
    IF halted \/ (idle /\ ~accepting /\ \A j \in jobs : p[j].end # "running")
    THEN "closed" ELSE "tick"

\* Where a round ends: a session that is sealed or halted closes when nothing
\* is in flight and every job has come to its end.
After(idle, p) ==
    IF idle /\ (halted \/ ~accepting) /\ \A j \in jobs : p[j].end # "running"
    THEN "closed" ELSE "tick"

\* After what was collected, or a timeout of the wait.  The callback is to see
\* a job when none of its requests is in flight.
Report ==
    LET blocked == [j \in Job |-> IF j \in jobs /\ Going(j) /\ halted
                                  THEN Ended(progress[j], "EXECUTOR_BLOCKED") ELSE progress[j]]
        over == {j \in jobs : blocked[j].end # "running" /\ InFlight(j) = {}}
        idle == at = "wait" /\ Active = {}
    IN  /\ \/ at = "wait" /\ \A c \in Call : work[c] \notin LeftBehind
           \/ at = "collect"
        /\ progress' = blocked
        /\ due' = over
        /\ GoTo(IF over = {} THEN After(idle, blocked)
                ELSE IF idle THEN "drain" ELSE "publish")
        /\ UNCHANGED <<jobs, ahead, last, work, halted, accepting>>

\* The callback returned: the job is deleted, and all that is known of it.
Retire(j) ==
    /\ due' = due \ {j}
    /\ jobs' = jobs \ {j}
    /\ ahead' = {pair \in ahead : j \notin {pair[1], pair[2]}}
    /\ progress' = [progress EXCEPT ![j] = NewJob]
    /\ work' = [c \in Call |-> IF c[1] = j THEN "none" ELSE work[c]]
    /\ UNCHANGED <<last, halted, accepting>>

Reported ==
    /\ at \in {"publish", "drain"}
    /\ due = {}
    /\ GoTo(After(at = "drain", progress))
    /\ UNCHANGED <<jobs, ahead, last, progress, work, halted, accepting, due>>

\* A callback raised: no sample is dispatched, what was sent ends by itself.
Unwind ==
    /\ at = "unwinding"
    /\ \A c \in Call : work[c] \notin InPool
    /\ GoTo("closed")
    /\ UNCHANGED <<jobs, ahead, last, progress, work, halted, accepting, due>>

Coordinator ==
    \/ EndDispatch \/ Report \/ Reported \/ Unwind
    \/ \E j \in Job : Dispatch(j)

----------------------------------------------------------------------------
\* _evaluate, in a thread of the pool.

Leave(c, to) ==
    /\ work' = [work EXCEPT ![c] = to]
    /\ UNCHANGED <<at, jobs, ahead, last, progress, halted, accepting, due>>

\* before_sample.
CheckClaim(c, current) ==
    /\ work[c] = "submitted"
    /\ Leave(c, IF current THEN "checked" ELSE "lost")
    /\ UNCHANGED ledgerVars

\* generate_sample: too late, or with its record begun, or refused.
Send(c) ==
    /\ work[c] = "checked"
    /\ \/ c[1] \in late /\ Leave(c, "deadline") /\ UNCHANGED ledgerVars
       \/ c[1] \notin late /\ Begin(c) /\ Leave(c, "calling")
       \/ c[1] \notin late /\ Trouble /\ Leave(c, "breach")

\* The request ended for sure: an answer that is graded (if there is time),
\* a failure that says so, or one that breaks the contract.  If its record
\* cannot be removed, that is what the caller sees.
Return(c) ==
    /\ work[c] = "calling"
    /\ End(c)
    /\ \E left \in IF fault' # fault THEN {"breach"}
                    ELSE {"refused", "breach", IF c[1] \in late THEN "deadline" ELSE "ok"} :
          Leave(c, left)

\* It did not, or timed out.
Doubt(c) ==
    /\ work[c] = "calling"
    /\ Lose(c)
    /\ \E left \in {"doubt", "timeout"} : Leave(c, left)

Thread(c) == Send(c) \/ Return(c) \/ Doubt(c)
==============================================================================
