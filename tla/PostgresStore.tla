---------------------------- MODULE PostgresStore ----------------------------
(***************************************************************************)
(* postgres_submission_store.py with the administration of admin_store.py:  *)
(* transactions of several connections at READ COMMITTED, cut at the locks  *)
(* they wait for.  A connection names its locks in the order in which it    *)
(* asks for them; what it read under a lock it uses in later steps, and its *)
(* writes become visible, with the release of all its locks, when it        *)
(* commits.  A sweep takes its rows one after the other, in an order that   *)
(* nobody fixed.  Operations that take one row lock, decide and commit      *)
(* under it are one step.  A connection may end at any step without effect: *)
(* refusal, lock_timeout, deadlock_detected, a lost connection.             *)
(*                                                                         *)
(* Submissions go to several tasks, of which one is administered; the API    *)
(* processes of different deployments may have loaded different sources of  *)
(* it.                                                                      *)
(***************************************************************************)
EXTENDS Administration, SequencesExt

CONSTANTS
    Submission, User, Key,
    Challenge,         \* the tasks; each is the name of its advisory lock too
    Task,              \* the one that is administered
    Admin,             \* the accounts that may be made administrators
    Conn,              \* database connections that run multi-lock operations
    Auth, Queue,       \* the advisory locks shared by all
    Idle, None,
    DailyLimit, Window, OutstandingLimit, RunningLimit,
    QueueDepth,        \* of the contract of each task
    MaxAttempts, JobDeadline, Lease, SessionTime,
    MaxTime, MaxRevision   \* bounds for model checking

ASSUME LimitsAssumption ==
    /\ {DailyLimit, Window, OutstandingLimit, RunningLimit, MaxAttempts,
        JobDeadline, Lease, SessionTime} \subseteq Nat \ {0}
    /\ QueueDepth \in [Challenge -> Nat \ {0}]
    /\ MaxTime \in Nat /\ MaxRevision \in Nat
ASSUME TaskAssumption == Task \in Challenge
\* Rows, users and tasks are locked under names of their own.
ASSUME LocksAssumption ==
    /\ Submission \cap User = {} /\ (Submission \cup User) \cap Challenge = {}
    /\ {Auth, Queue} \cap (Submission \cup User \cup Challenge) = {} /\ Auth # Queue

VARIABLES
    now,       \* clock_timestamp() of the server
    rows,      \* the submissions table
    tries,     \* attempt_number; each attempt has its own lease token
    conns,     \* what each connection is doing
    authority, \* until when the session of an account authorizes changes: 0
               \* when it is signed out or no administrator
    policy     \* the row of challenge_admin_state

table == <<rows, tries>>
postgresVars == <<now, table, conns, authority, policy>>

Final == {"rejected", "succeeded", "failed"}
Outstanding == {"queued", "running"}

NoRow == [status |-> "absent", user |-> None, key |-> None, challenge |-> None, at |-> 0,
          lease |-> 0]

PostgresInit ==
    /\ now = 0
    /\ rows = [s \in Submission |-> NoRow]
    /\ tries = [s \in Submission |-> 0]
    /\ conns = [c \in Conn |-> Idle]
    /\ authority = [a \in Admin |-> 0]
    /\ policy = NoPolicy

----------------------------------------------------------------------------
\* Locks.  The first got locks of its plan are held by a connection.

Busy == {c \in Conn : conns[c] # Idle}

Held(c) == {conns[c].plan[i] : i \in 1 .. conns[c].got}

Free(l) == \A c \in Busy : l \notin Held(c)

Wanted(c) == conns[c].plan[conns[c].got + 1]

\* The connections that wait for a lock another one holds.
Waiting == {c \in Busy : conns[c].got < Len(conns[c].plan) /\ ~Free(Wanted(c))}

\* c asks for the n-th lock of its plan.
Asks(c, op, n) == c \in Busy /\ conns[c].op = op /\ conns[c].got = n - 1

Keep(c, call) == conns' = [conns EXCEPT ![c] = [call EXCEPT !.got = @ + 1]]

Leave(c) == conns' = [conns EXCEPT ![c] = Idle]

\* A refusal, a timeout or a lost connection rolls back and frees every lock.
Abort(c) ==
    /\ c \in Busy
    /\ Leave(c)
    /\ UNCHANGED <<now, table, authority, policy>>

----------------------------------------------------------------------------
\* Reading the table.

Rows == {s \in Submission : rows[s].status # "absent"}
DeadlineOf(s) == rows[s].at + JobDeadline
OutstandingOf(u) == {s \in Rows : rows[s].user = u /\ rows[s].status \in Outstanding}
RunningOf(u) == {s \in Rows : rows[s].user = u /\ rows[s].status = "running"}
Backlog == {s \in Rows : rows[s].status \in Outstanding}
AcceptedSince(u, ch, t) ==
    {s \in Rows : rows[s].user = u /\ rows[s].challenge = ch /\ rows[s].at + Window >= t}
KeyKnown(u, k) == \E s \in Rows : rows[s].user = u /\ rows[s].key = k

----------------------------------------------------------------------------
\* create_submission

\* Mutant: the session of the student is checked under the auth mutex, after
\* the task is locked.
AdmissionLocksWithAuth(u, ch) == <<u, ch, Auth, Queue>>

\* The user, then the task (inside assert_admissions_open), then the queue.
AdmissionLocks(u, ch) == <<u, ch, Queue>>

\* Only the source of the administered task matters.
SourcesOf(ch) == IF ch = Task THEN Source ELSE {NoSource}

\* The user's other calls are held back from here.  A known key is answered
\* from its row, which ends the call without effect.
CreateLookup(c, u, k, ch, f) ==
    /\ conns[c] = Idle
    /\ Free(u)
    /\ ~KeyKnown(u, k)
    /\ conns' = [conns EXCEPT ![c] =
           [op |-> "create", plan |-> AdmissionLocks(u, ch), got |-> 1,
            user |-> u, key |-> k, challenge |-> ch, source |-> f, at |-> 0]]
    /\ UNCHANGED <<now, table, authority, policy>>

\* assert_admissions_open: a task that nobody administered has no row.
Paused(ch, f) == ch = Task /\ ClosedFor(policy, f)

\* Mutant: the policy is read without the lock of the task.
CreatePolicyAtOnce(c) ==
    /\ Asks(c, "create", 2)
    /\ ~Paused(conns[c].challenge, conns[c].source)
    /\ conns' = [conns EXCEPT ![c].got = 2, ![c].plan[2] = c]
    /\ UNCHANGED <<now, table, authority, policy>>

CreatePolicy(c) ==
    /\ Asks(c, "create", 2) /\ Free(Wanted(c))
    /\ ~Paused(conns[c].challenge, conns[c].source)
    /\ Keep(c, conns[c])
    /\ UNCHANGED <<now, table, authority, policy>>

\* Mutant: the limits are counted before the queue is locked.
CreateCountAtOnce(c) ==
    /\ Asks(c, "create", 3)
    /\ Cardinality(AcceptedSince(conns[c].user, conns[c].challenge, now)) < DailyLimit
    /\ Cardinality(OutstandingOf(conns[c].user)) < OutstandingLimit
    /\ Cardinality(Backlog) < QueueDepth[conns[c].challenge]
    /\ Keep(c, [conns[c] EXCEPT !.at = now])
    /\ UNCHANGED <<now, table, authority, policy>>

\* The clock is read, and the limits are counted, after every lock was waited for.
CreateCount(c) ==
    /\ Asks(c, "create", 3) /\ Free(Wanted(c))
    /\ Cardinality(AcceptedSince(conns[c].user, conns[c].challenge, now)) < DailyLimit
    /\ Cardinality(OutstandingOf(conns[c].user)) < OutstandingLimit
    /\ Cardinality(Backlog) < QueueDepth[conns[c].challenge]
    /\ Keep(c, [conns[c] EXCEPT !.at = now])
    /\ UNCHANGED <<now, table, authority, policy>>

\* The row, its outbox record and the release of the locks.
CreateCommit(c) ==
    /\ Asks(c, "create", 4)
    /\ \E s \in Submission \ Rows :
           rows' = [rows EXCEPT ![s] =
               [status |-> "queued", user |-> conns[c].user, key |-> conns[c].key,
                challenge |-> conns[c].challenge, at |-> conns[c].at, lease |-> 0]]
    /\ Leave(c)
    /\ UNCHANGED <<now, tries, authority, policy>>

----------------------------------------------------------------------------
\* claim_submission: the row FOR UPDATE, then the user.

ClaimRow(c, s) ==
    /\ conns[c] = Idle
    /\ Free(s)
    /\ rows[s].status = "queued" /\ tries[s] < MaxAttempts
    /\ conns' = [conns EXCEPT ![c] =
           [op |-> "claim", plan |-> <<s, rows[s].user>>, got |-> 1,
            user |-> rows[s].user, sub |-> s]]
    /\ UNCHANGED <<now, table, authority, policy>>

Ended(s, status) == [rows[s] EXCEPT !.status = status, !.lease = 0]

\* Under both locks the deadline and the user's running work decide, and the
\* transaction ends: as failed, as refused (Abort), or as a granted attempt.
ClaimDecide(c) ==
    /\ Asks(c, "claim", 2) /\ Free(Wanted(c))
    /\ LET s == conns[c].sub
           until == IF now + Lease < DeadlineOf(s) THEN now + Lease ELSE DeadlineOf(s)
       IN  \/ /\ DeadlineOf(s) <= now
              /\ rows' = [rows EXCEPT ![s] = Ended(s, "failed")]
              /\ UNCHANGED tries
           \/ /\ DeadlineOf(s) > now
              /\ Cardinality(RunningOf(conns[c].user)) < RunningLimit
              /\ rows' = [rows EXCEPT ![s].status = "running", ![s].lease = until]
              /\ tries' = [tries EXCEPT ![s] = @ + 1]
    /\ Leave(c)
    /\ UNCHANGED <<now, authority, policy>>

----------------------------------------------------------------------------
\* Operations that wait for one row and commit under its lock.  They are asked
\* for by the holder of attempt n, which may have been superseded.

Matches(s, n) == rows[s].status = "running" /\ tries[s] = n

Current(s, n) == Matches(s, n) /\ rows[s].lease > now /\ DeadlineOf(s) > now

\* Mutant: the row is given back although its attempts are used up.
RetrySubmissionAlways(s, n) ==
    /\ Free(s)
    /\ Current(s, n)
    /\ rows' = [rows EXCEPT ![s] = Ended(s, "queued")]
    /\ UNCHANGED <<now, tries, conns, authority, policy>>

RetrySubmission(s, n) ==
    /\ Free(s)
    /\ Current(s, n) /\ tries[s] < MaxAttempts
    /\ rows' = [rows EXCEPT ![s] = Ended(s, "queued")]
    /\ UNCHANGED <<now, tries, conns, authority, policy>>

CompleteSuccess(s, n) ==
    /\ Free(s)
    /\ Current(s, n)
    /\ rows' = [rows EXCEPT ![s] = Ended(s, "succeeded")]
    /\ UNCHANGED <<now, tries, conns, authority, policy>>

\* A lapsed lease refuses a failure or rejection unless the deadline passed too.
Conclude(s, n, status) ==
    /\ Free(s)
    /\ Matches(s, n)
    /\ rows[s].lease <= now => DeadlineOf(s) <= now
    /\ rows' = [rows EXCEPT ![s] =
                   Ended(s, IF DeadlineOf(s) <= now THEN "failed" ELSE status)]
    /\ UNCHANGED <<now, tries, conns, authority, policy>>

----------------------------------------------------------------------------
\* expire_leases and expire_queued_deadlines

\* A sweep that read the clock at t wants the row.
Lapsed(s, status, t) ==
    /\ rows[s].status = status
    /\ IF status = "running" THEN rows[s].lease <= t ELSE DeadlineOf(s) <= t

\* The clock is read first, then the UPDATE takes its snapshot: it finds the
\* rows in any order.
BeginSweep(c, status, t) ==
    /\ conns[c] = Idle
    /\ LET found == {s \in Rows : Lapsed(s, status, t)}
       IN  /\ found # {}
           /\ \E order \in SetToSeqs(found) :
                 conns' = [conns EXCEPT ![c] =
                     [op |-> "sweep", plan |-> order, got |-> 0, status |-> status, at |-> t]]
    /\ UNCHANGED <<now, table, authority, policy>>

ExpireLeases(c, t) == BeginSweep(c, "running", t)
ExpireQueuedDeadlines(c, t) == BeginSweep(c, "queued", t)

Sweeps == {c \in Busy : conns[c].op = "sweep"}

\* A row is locked, after whoever changes it is done, and stays locked also when
\* it turns out that it is not wanted any more.
SweepRow(c) ==
    /\ c \in Sweeps /\ conns[c].got < Len(conns[c].plan)
    /\ Free(Wanted(c))
    /\ Keep(c, conns[c])
    /\ UNCHANGED <<now, table, authority, policy>>

\* The condition was evaluated again on every row that was locked.
SweepCommit(c) ==
    /\ c \in Sweeps /\ conns[c].got = Len(conns[c].plan)
    /\ rows' = [s \in Submission |->
                   IF s \in Held(c) /\ Lapsed(s, conns[c].status, conns[c].at)
                   THEN Ended(s, "failed") ELSE rows[s]]
    /\ Leave(c)
    /\ UNCHANGED <<now, tries, authority, policy>>

----------------------------------------------------------------------------
\* Administration.  Every auth operation runs under the auth mutex.

\* An administrator signs in.
Authorize(a) ==
    /\ Free(Auth)
    /\ authority' = [authority EXCEPT ![a] = now + SessionTime]
    /\ UNCHANGED <<now, table, conns, policy>>

\* Signing out, a password reset, or set_account_role.
Revoke(a) ==
    /\ Free(Auth)
    /\ authority[a] # 0
    /\ authority' = [authority EXCEPT ![a] = 0]
    /\ UNCHANGED <<now, table, conns, policy>>

\* _admin_authorize
Authorized(a) == authority[a] > now

AdministrationLocks == <<Auth, Task>>

\* An administrator answers the page that shows the policy as it is now.
BeginChange(c, a, f) ==
    /\ conns[c] = Idle
    /\ policy.revision < MaxRevision
    /\ conns' = [conns EXCEPT ![c] =
           [op |-> "change", plan |-> AdministrationLocks, got |-> 0,
            user |-> a, source |-> f, seen |-> policy]]
    /\ UNCHANGED <<now, table, authority, policy>>

ChangeAuthorize(c) ==
    /\ Asks(c, "change", 1) /\ Free(Wanted(c))
    /\ Authorized(conns[c].user)
    /\ Keep(c, conns[c])
    /\ UNCHANGED <<now, table, authority, policy>>

\* Mutant: the wait for the task is taken for no time at all.
ChangeCommitUnchecked(c) ==
    /\ Asks(c, "change", 2) /\ Free(Wanted(c))
    /\ policy.revision = conns[c].seen.revision
    /\ \E canReopen \in BOOLEAN :
          policy' \in Changes(policy, conns[c].source, canReopen)
    /\ Leave(c)
    /\ UNCHANGED <<now, table, authority>>

\* Under both locks the clock is read again, the session and role are checked
\* again, the expected revision is compared and the change is committed, with
\* the audit row that holds policy and policy'.
ChangeCommit(c) ==
    /\ Asks(c, "change", 2) /\ Free(Wanted(c))
    /\ Authorized(conns[c].user)
    /\ policy.revision = conns[c].seen.revision
    /\ \E canReopen \in BOOLEAN :
          policy' \in Changes(policy, conns[c].source, canReopen)
    /\ Leave(c)
    /\ UNCHANGED <<now, table, authority>>

----------------------------------------------------------------------------
\* Sessions end with time.
Tick ==
    /\ now < MaxTime
    /\ now' = now + 1
    /\ authority' = [a \in Admin |-> IF authority[a] <= now' THEN 0 ELSE authority[a]]
    /\ UNCHANGED <<table, conns, policy>>

AdmissionNext ==
    \E c \in Conn :
        \/ \E u \in User, k \in Key, ch \in Challenge :
              \E f \in SourcesOf(ch) : CreateLookup(c, u, k, ch, f)
        \/ CreatePolicy(c) \/ CreateCount(c) \/ CreateCommit(c)

EvaluationNext ==
    \/ \E c \in Conn : ClaimDecide(c) \/ \E s \in Submission : ClaimRow(c, s)
    \/ \E s \in Submission : \E n \in 1 .. tries[s] :
          RetrySubmission(s, n) \/ CompleteSuccess(s, n)
          \/ \E status \in {"failed", "rejected"} : Conclude(s, n, status)
    \/ \E c \in Conn : \/ SweepRow(c) \/ SweepCommit(c)
                       \/ \E t \in 0 .. now : ExpireLeases(c, t) \/ ExpireQueuedDeadlines(c, t)

AdministrationNext ==
    \/ \E a \in Admin : Authorize(a) \/ Revoke(a)
    \/ \E c \in Conn : ChangeAuthorize(c) \/ ChangeCommit(c)
                       \/ \E a \in Admin, f \in Source : BeginChange(c, a, f)

PostgresNext ==
    AdmissionNext \/ EvaluationNext \/ AdministrationNext \/ Tick \/ \E c \in Conn : Abort(c)

PostgresSpec == PostgresInit /\ [][PostgresNext]_postgresVars

----------------------------------------------------------------------------
\* One row per idempotency key of a user, also when two API processes create it
\* for two tasks at once; and whoever is admitted finds room for it in the queue,
\* though each creation only counts what is committed.  (The limits per user
\* rest on the same locks; SubmissionStore is about them.)
KeysAreUnique ==
    \A s, t \in Rows : rows[s].user = rows[t].user /\ rows[s].key = rows[t].key => s = t

AdmissionsBounded ==
    /\ []KeysAreUnique
    /\ [][\A c \in Conn :
             CreateCommit(c) => Cardinality(Backlog') <= QueueDepth[conns[c].challenge]]_postgresVars

\* Connections that wait for each other are sweeps, all of them, which happens
\* when two sweeps find the same rows in different orders; one of them is then
\* ended by deadlock_detected.  Nobody else is ever caught: the user, task, queue
\* and row locks of the submissions and the auth and task locks of the
\* administration are never asked for in orders that form a cycle, and neither
\* do they with the rows that sweeps hold.
NoLockCycle ==
    \A S \in SUBSET Waiting :
        S \ Sweeps # {} =>
            \E c \in S \ Sweeps : \A d \in S \ {c} : Wanted(c) \notin Held(d)

\* Once a change that closes the task is committed, no submission is admitted
\* any more, not even one whose checks were made before: admin_change waits
\* for the admissions under way and is waited for by the later ones.
NothingAdmittedWhenClosed ==
    [][\A c \in Conn : CreateCommit(c) => ~Paused(conns[c].challenge, conns[c].source)]_postgresVars

\* A change is committed only by an account that is an administrator with a
\* live session at that moment, however long it waited, and it replaces exactly
\* the policy its author was shown: nobody's change is overwritten unseen, and
\* the audit rows form one chain.  What is open or shown for a source was decided
\* for that source: only the administrator's switch opens it, and a text written
\* for another source is never shown, in whatever order sources are deployed,
\* drafts saved, published and admissions switched.
ChangesAreInformed ==
    [][policy' # policy =>
          /\ \E c \in Busy : /\ conns'[c] = Idle
                             /\ conns[c].op = "change"
                             /\ Authorized(conns[c].user)
                             /\ conns[c].seen = policy
          /\ \A f \in Source :
                /\ ClosedFor(policy, f) /\ ~ClosedFor(policy', f) =>
                       policy'.draft = policy.draft /\ policy.source = f
                /\ Shown(policy', f) \in {NoSource, f}]_postgresVars

\* The rows keep the promise of SubmissionLifecycle, as those of SQLite do.
Lifecycle == INSTANCE SubmissionLifecycle
                 WITH phase <- [s \in Submission |-> rows[s].status]
PostgresLifecycle == Lifecycle!LifecycleSpec
============================================================================
