-------------------------- MODULE SubmissionStore --------------------------
(***************************************************************************)
(* The submissions, outbox and results tables of submission_store.py, and  *)
(* every operation that changes them.  Each operation is one write          *)
(* transaction (BEGIN IMMEDIATE), hence one action, with one exception:     *)
(* create_submission reads the clock BEFORE it waits for the database lock, *)
(* so a call is begun (BeginCreate) and committed (Create) in two steps and *)
(* rows may be committed out of the order of their created_at.              *)
(*                                                                         *)
(* The callers are the most general ones: any claim that was ever returned *)
(* by claim_submission may be used at any later time, as a worker that was *)
(* paused, partitioned or superseded would use it.                         *)
(***************************************************************************)
EXTENDS Naturals, FiniteSets

CONSTANTS
    Submission,        \* identifiers (uuid4: never used twice)
    User, Key,         \* who submits, under which idempotency key
    Contract,          \* challenge + contract version + identity + snapshot
    Challenge,
    ChallengeOf,       \* the challenge a contract judges
    Handler,           \* concurrent create_submission calls
    WorkerCode,        \* failure codes a worker reports
    DailyLimit, Window,            \* submissions per user and challenge per window
    OutstandingLimit, QueueDepth,  \* queued or running: per user, overall
    RunningLimit,                  \* running per user
    MaxAttempts, JobDeadline, Lease,
    MaxTime,           \* bound of the clock, for model checking
    Idle, NoRequest    \* "no call in progress", "no row"

ASSUME LimitsAssumption ==
    /\ DailyLimit \in Nat \ {0} /\ OutstandingLimit \in Nat \ {0}
    /\ QueueDepth \in Nat \ {0} /\ RunningLimit \in Nat \ {0}
    /\ MaxAttempts \in Nat \ {0}
    /\ Window \in Nat \ {0} /\ JobDeadline \in Nat \ {0} /\ Lease \in Nat \ {0}
    /\ MaxTime \in Nat
ASSUME SubmissionAssumption == IsFiniteSet(Submission)
ASSUME ContractAssumption == ChallengeOf \in [Contract -> Challenge]

VARIABLES
    now,       \* the clock the operations read
    closed,    \* challenges whose admissions an administrator closed
    calls,     \* create_submission calls that read the clock, not yet committed
    request,   \* the columns of a row that never change
    row,       \* the columns the life of a submission changes
    published, \* submissions whose outbox record is marked published
    results,   \* the lease token that wrote the result; 0: no result
    claims,    \* every ClaimedSubmission ever returned
    minted     \* lease tokens issued per submission; the last one is minted[s]

tables == <<request, row, published, results>>
history == <<claims, minted>>
storeVars == <<now, closed, calls, tables, history>>

Final == {"rejected", "succeeded", "failed"}
Outstanding == {"queued", "running"}
Status == {"absent"} \cup Outstanding \cup Final
Code == WorkerCode \cup {"", "JOB_DEADLINE", "WORKER_CRASH", "TOKEN_LIMIT_EXCEEDED"}

Request == [user : User, key : Key, contract : Contract, at : Nat]
Row == [status : Status, attempt : Nat, token : Nat, leaseExpires : Nat, failure : Code]
Claim == [sub : Submission, attempt : Nat, token : Nat]

ASSUME NullAssumption == Idle \notin Request /\ NoRequest \notin Request

EmptyRow == [status |-> "absent", attempt |-> 0, token |-> 0, leaseExpires |-> 0,
             failure |-> ""]

Init ==
    /\ now = 0
    /\ closed = {}
    /\ calls = [h \in Handler |-> Idle]
    /\ request = [s \in Submission |-> NoRequest]
    /\ row = [s \in Submission |-> EmptyRow]
    /\ published = {}
    /\ results = [s \in Submission |-> 0]
    /\ claims = {}
    /\ minted = [s \in Submission |-> 0]

----------------------------------------------------------------------------
\* Reading the tables.

Rows == {s \in Submission : row[s].status # "absent"}
DeadlineOf(s) == request[s].at + JobDeadline
Overdue(s) == DeadlineOf(s) <= now
LeaseLapsed(s) == row[s].leaseExpires <= now

OutstandingOf(u) == {s \in Rows : request[s].user = u /\ row[s].status \in Outstanding}
RunningOf(u) == {s \in Rows : request[s].user = u /\ row[s].status = "running"}
Backlog == {s \in Rows : row[s].status \in Outstanding}

\* Mutant: counts only the window that ends at the caller's own clock reading.
AcceptedSinceUpToNow(u, ch, t) ==
    {s \in Rows : /\ request[s].user = u
                  /\ ChallengeOf[request[s].contract] = ch
                  /\ request[s].at + Window >= t
                  /\ request[s].at <= t}

\* Accepted by (user, challenge) at or after a moment, whatever became of them.
AcceptedSince(u, ch, t) ==
    {s \in Rows : /\ request[s].user = u
                  /\ ChallengeOf[request[s].contract] = ch
                  /\ request[s].at + Window >= t}

SameKey(call) == {s \in Rows : request[s].user = call.user /\ request[s].key = call.key}

----------------------------------------------------------------------------
\* create_submission

BeginCreate(h, u, k, c) ==
    /\ calls[h] = Idle
    /\ calls' = [calls EXCEPT ![h] = [user |-> u, key |-> k, contract |-> c, at |-> now]]
    /\ UNCHANGED <<now, closed, tables, history>>

\* The checks of the transaction, in their order: a known key is answered from
\* its row (replayed, or refused as a conflict), then admissions, the rolling
\* daily limit, the user's outstanding limit and the global queue depth.
Admits(call) ==
    /\ SameKey(call) = {}
    /\ ChallengeOf[call.contract] \notin closed
    /\ Cardinality(AcceptedSince(call.user, ChallengeOf[call.contract], call.at)) < DailyLimit
    /\ Cardinality(OutstandingOf(call.user)) < OutstandingLimit
    /\ Cardinality(Backlog) < QueueDepth

Insert(s, call) ==
    /\ request' = [request EXCEPT ![s] = call]
    /\ row' = [row EXCEPT ![s].status = "queued"]

Create(h) ==
    /\ calls[h] # Idle
    /\ calls' = [calls EXCEPT ![h] = Idle]
    /\ \/ /\ Admits(calls[h])
          /\ \E s \in Submission \ Rows : Insert(s, calls[h])
       \/ /\ ~Admits(calls[h])
          /\ UNCHANGED <<request, row>>
    /\ UNCHANGED <<now, closed, published, results, history>>

\* Calls that end before their transaction: the API process stops, or the wait
\* for the database lock times out.
Disconnect(H) ==
    /\ calls' = [h \in Handler |-> IF h \in H THEN Idle ELSE calls[h]]
    /\ UNCHANGED <<now, closed, tables, history>>

\* The administrator opens or closes a challenge (the policy is AdminStore's).
SetAdmissions(ch) ==
    /\ closed' = IF ch \in closed THEN closed \ {ch} ELSE closed \cup {ch}
    /\ UNCHANGED <<now, calls, tables, history>>

\* The dispatcher confirms that the queue took the message.
MarkPublished(s) ==
    /\ s \in Rows \ published
    /\ published' = published \cup {s}
    /\ UNCHANGED <<now, closed, calls, request, row, results, history>>

----------------------------------------------------------------------------
\* claim_submission by a worker that serves contract c

Claimable(s, c) ==
    /\ s \in Rows
    /\ request[s].contract = c
    /\ row[s].status = "queued"
    /\ row[s].attempt < MaxAttempts

UserBusy(s) == Cardinality(RunningOf(request[s].user)) >= RunningLimit

\* The refusals after which the worker must offer the message again.
RetryLater(s, c) ==
    \/ s \in Rows /\ request[s].contract = c /\ row[s].status = "running"
    \/ Claimable(s, c) /\ ~Overdue(s) /\ UserBusy(s)

Grant(s, c) ==
    /\ Claimable(s, c)
    /\ ~Overdue(s)
    /\ ~UserBusy(s)
    /\ LET token == minted[s] + 1
           until == IF now + Lease < DeadlineOf(s) THEN now + Lease ELSE DeadlineOf(s)
       IN  /\ row' = [row EXCEPT ![s] = [status |-> "running", attempt |-> row[s].attempt + 1,
                                        token |-> token, leaseExpires |-> until,
                                        failure |-> row[s].failure]]
           /\ minted' = [minted EXCEPT ![s] = token]
           /\ claims' = claims \cup {[sub |-> s, attempt |-> row[s].attempt + 1,
                                      token |-> token]}
    /\ UNCHANGED <<now, closed, calls, request, published, results>>

\* The row of s once no worker holds it: no token, no lease.
Released(s, status, code) ==
    [status |-> status, attempt |-> row[s].attempt, token |-> 0, leaseExpires |-> 0,
     failure |-> code]

End(s, status, code) == row' = [row EXCEPT ![s] = Released(s, status, code)]

\* Too late to start: the claim itself ends the submission.
ClaimOverdue(s, c) ==
    /\ Claimable(s, c)
    /\ Overdue(s)
    /\ End(s, "failed", "JOB_DEADLINE")
    /\ UNCHANGED <<now, closed, calls, request, published, results, history>>

----------------------------------------------------------------------------
\* What the holder of a claim asks for.  Every statement names the row by
\* id, status, attempt and token.

Matches(c) ==
    /\ row[c.sub].status = "running"
    /\ row[c.sub].attempt = c.attempt
    /\ row[c.sub].token = c.token

\* claim_is_current
Current(c) == Matches(c) /\ ~LeaseLapsed(c.sub) /\ ~Overdue(c.sub)

\* Mutant: the result is kept although the guarded update of the row fails.
CompleteSuccessUnguarded(c) ==
    /\ results' = [results EXCEPT ![c.sub] = c.token]
    /\ IF Current(c) THEN End(c.sub, "succeeded", "") ELSE UNCHANGED row
    /\ UNCHANGED <<now, closed, calls, request, published, history>>

CompleteSuccess(c) ==
    /\ Current(c)
    /\ results' = [results EXCEPT ![c.sub] = c.token]
    /\ End(c.sub, "succeeded", "")
    /\ UNCHANGED <<now, closed, calls, request, published, history>>

RetrySubmission(c) ==
    /\ Current(c)
    /\ row[c.sub].attempt < MaxAttempts
    /\ row' = [row EXCEPT ![c.sub] = Released(c.sub, "queued", row[c.sub].failure)]
    /\ UNCHANGED <<now, closed, calls, request, published, results, history>>

\* A lapsed lease refuses the outcome, unless the deadline passed as well: then
\* the outcome recorded is the deadline.
Concludes(c) == Matches(c) /\ (LeaseLapsed(c.sub) => Overdue(c.sub))

CompleteFailure(c, code) ==
    /\ Concludes(c)
    /\ End(c.sub, "failed", IF Overdue(c.sub) THEN "JOB_DEADLINE" ELSE code)
    /\ UNCHANGED <<now, closed, calls, request, published, results, history>>

CompleteRejected(c) ==
    /\ Concludes(c)
    /\ IF Overdue(c.sub) THEN End(c.sub, "failed", "JOB_DEADLINE")
                         ELSE End(c.sub, "rejected", "TOKEN_LIMIT_EXCEEDED")
    /\ UNCHANGED <<now, closed, calls, request, published, results, history>>

----------------------------------------------------------------------------
\* The sweeps, over the rows of the contracts K (one identity, or all).

\* Mutant: a sweep gives the work back to the queue.
EndAllRequeue(S, code) ==
    row' = [s \in Submission |->
               IF s \in S THEN Released(s, "queued", code[s]) ELSE row[s]]

EndAll(S, code) ==
    row' = [s \in Submission |->
               IF s \in S THEN Released(s, "failed", code[s]) ELSE row[s]]

LapsedRuns(K) ==
    {s \in Rows : request[s].contract \in K /\ row[s].status = "running" /\ LeaseLapsed(s)}

ExpireLeases(K) ==
    /\ LapsedRuns(K) # {}
    /\ EndAll(LapsedRuns(K), [s \in LapsedRuns(K) |->
                                  IF Overdue(s) THEN "JOB_DEADLINE" ELSE "WORKER_CRASH"])
    /\ UNCHANGED <<now, closed, calls, request, published, results, history>>

OverdueQueued(K) ==
    {s \in Rows : request[s].contract \in K /\ row[s].status = "queued" /\ Overdue(s)}

ExpireQueuedDeadlines(K) ==
    /\ OverdueQueued(K) # {}
    /\ EndAll(OverdueQueued(K), [s \in OverdueQueued(K) |-> "JOB_DEADLINE"])
    /\ UNCHANGED <<now, closed, calls, request, published, results, history>>

\* What a sweep can be asked to cover.
Scopes == {Contract} \cup {{c} : c \in Contract}

Tick ==
    /\ now < MaxTime
    /\ now' = now + 1
    /\ UNCHANGED <<closed, calls, tables, history>>

----------------------------------------------------------------------------
ClientNext ==
    \/ \E h \in Handler, u \in User, k \in Key, c \in Contract :
           BeginCreate(h, u, k, c)
    \/ \E h \in Handler : Create(h)
    \/ \E H \in SUBSET Handler : Disconnect(H)
    \/ \E ch \in Challenge : SetAdmissions(ch)

WorkerNext ==
    \/ \E s \in Submission, c \in Contract : Grant(s, c) \/ ClaimOverdue(s, c)
    \/ \E c \in claims : \/ CompleteSuccess(c) \/ RetrySubmission(c) \/ CompleteRejected(c)
                         \/ \E code \in WorkerCode : CompleteFailure(c, code)
    \/ \E K \in Scopes : ExpireLeases(K) \/ ExpireQueuedDeadlines(K)

Next == ClientNext \/ WorkerNext \/ Tick \/ \E s \in Submission : MarkPublished(s)

Spec == Init /\ [][Next]_storeVars

----------------------------------------------------------------------------
\* The type invariant: rows keep the types of their columns, and neither the
\* attempt column nor the tokens handed out go beyond the attempts allowed.
TypeOK ==
    /\ now \in Nat
    /\ closed \in SUBSET Challenge
    /\ calls \in [Handler -> Request \cup {Idle}]
    /\ request \in [Submission -> Request \cup {NoRequest}]
    /\ row \in [Submission -> Row]
    /\ published \in SUBSET Submission
    /\ results \in [Submission -> Nat]
    /\ claims \in SUBSET Claim
    /\ minted \in [Submission -> Nat]
    /\ \A s \in Rows : request[s] \in Request

\* At most DailyLimit submissions of one user to one challenge carry a
\* created_at within any window of Window ticks, although create_submission
\* reads the clock before the database lock and may commit rows out of order.
RollingQuota ==
    \A s \in Rows :
        Cardinality({t \in Rows :
            /\ request[t].user = request[s].user
            /\ ChallengeOf[request[t].contract] = ChallengeOf[request[s].contract]
            /\ request[t].at \in request[s].at .. request[s].at + Window}) <= DailyLimit

\* A user never has more than OutstandingLimit submissions in progress, nor the
\* system more than QueueDepth, whatever retries and sweeps do to the rows
\* between the concurrent creations.
BacklogBounded ==
    /\ \A u \in User : Cardinality(OutstandingOf(u)) <= OutstandingLimit
    /\ Cardinality(Backlog) <= QueueDepth

\* A user never has more than RunningLimit submissions under evaluation: the
\* limit claim_submission enforces although retries return rows to the queue.
RunningBounded == \A u \in User : Cardinality(RunningOf(u)) <= RunningLimit

\* Concurrent requests with one idempotency key of one user leave one row.
OneRowPerKey ==
    \A s, t \in Rows :
        request[s].user = request[t].user /\ request[s].key = request[t].key => s = t

\* No submission is handed out more than MaxAttempts times, and one that waits
\* in the queue always has an attempt left: claim_submission would otherwise
\* have the worker acknowledge its message and leave it queued to its deadline.
AttemptsBounded ==
    \A s \in Submission :
        /\ minted[s] <= MaxAttempts
        /\ row[s].status = "queued" => row[s].attempt < MaxAttempts

\* Of all claims ever returned for a submission only the newest one can still
\* match its row, so a paused or superseded worker changes nothing.
StaleClaimsInert == \A c \in claims : Matches(c) => c.token = minted[c.sub]

\* The results table holds a result exactly for the succeeded submissions, and
\* it is the one computed under the last claim: no older evaluation's result
\* was stored and no later evaluation was started.
ResultMatchesLastClaim ==
    \A s \in Submission :
        /\ (results[s] # 0) = (row[s].status = "succeeded")
        /\ results[s] # 0 => results[s] = minted[s]

\* A running submission whose deadline passed is within the reach of
\* expire_leases: its lease never outlives the deadline.
OverdueRunsAreSwept ==
    \A s \in Rows : row[s].status = "running" /\ Overdue(s) => s \in LapsedRuns(Contract)

\* What relates a row to the claims issued for it; the induction behind
\* AttemptsBounded, StaleClaimsInert, ResultMatchesLastClaim and
\* OverdueRunsAreSwept.  The attempt column counts the tokens, only a running
\* row has a token, the newest, and a lease within its deadline; a result was
\* written under the newest token.
FencingInv ==
    /\ \A s \in Submission :
          /\ row[s].attempt = minted[s]
          /\ minted[s] <= MaxAttempts
          /\ row[s].status = "queued" => minted[s] < MaxAttempts
          /\ row[s].status = "absent" => minted[s] = 0
          /\ row[s].status = "running" =>
                /\ row[s].token = minted[s]
                /\ minted[s] # 0
                /\ row[s].leaseExpires <= DeadlineOf(s)
          /\ (results[s] # 0) = (row[s].status = "succeeded")
          /\ results[s] # 0 => results[s] = minted[s]
    /\ \A c \in claims : c.token \in 1 .. minted[c.sub]

\* A finished submission is never changed again, by anyone, nor its result.
TerminalIsFinal ==
    [][\A s \in Submission :
          row[s].status \in Final => row'[s] = row[s] /\ results'[s] = results[s]]_storeVars

\* Whatever ends a submission once its deadline passed (a claim, a completion
\* of any kind, a sweep) ends it as failed with JOB_DEADLINE, never with a late
\* success, rejection or other failure code.
LateMeansDeadline ==
    [][\A s \in Submission :
          row[s].status \in Outstanding /\ row'[s].status \in Final /\ Overdue(s)
             => row'[s].status = "failed" /\ row'[s].failure = "JOB_DEADLINE"]_storeVars

\* The store implements the promise of SubmissionLifecycle, where the attempts
\* started are the tokens issued.
Lifecycle == INSTANCE SubmissionLifecycle
                 WITH phase <- [s \in Submission |-> row[s].status], tries <- minted
LifecycleImplemented == Lifecycle!LifecycleSpec
============================================================================
