--------------------------- MODULE RequestExecutor ---------------------------
(***************************************************************************)
(* RequestSubmissionExecutor.run: submissions from the queue become jobs of *)
(* a scheduler session, and what became of them goes back to the store and  *)
(* the queue.  The coordinator of SampleScheduler calls it twice in a round:*)
(* to admit work and to publish a job that is over.                         *)
(*                                                                         *)
(* A claim's lease ends with the deadline of its submission (the lease is   *)
(* as long as the job's deadline and is cut to it), so a claim is current   *)
(* until a sweep or its deadline, and `late' says both.  executor.lock makes*)
(* this process the only one that claims on its routes.                     *)
(***************************************************************************)
EXTENDS SampleScheduler

CONSTANTS
    MaxAttempts,
    MaxFaults     \* bound on crashes, outages and stops, for model checking

ASSUME AttemptAssumption == MaxAttempts \in Nat /\ Attempt = 1 .. MaxAttempts /\ MaxFaults \in Nat

VARIABLES
    phase,   \* the status of each submission
    tries,   \* its attempt column
    mail,    \* its message: none, waiting, or held under the receipt of its job
    claim,   \* the submission that is being admitted or published
    settle,  \* how its message is to be settled, once the store has concluded
    stop,    \* the operator asked the process to stop
    faults

storeVars == <<phase, tries>>
executorVars == <<mail, claim, settle, stop, faults>>
requestVars == <<schedulerVars, storeVars, executorVars>>

Lifecycle == INSTANCE SubmissionLifecycle WITH Submission <- Job

RequestInit ==
    /\ LedgerInit /\ SessionInit
    /\ Lifecycle!LifecycleInit
    /\ mail = [s \in Job |-> "none"]
    /\ claim = Nobody
    /\ settle = "nothing"
    /\ stop = FALSE
    /\ faults = 0

Final == Lifecycle!Final
Current(s) == phase[s] = "running" /\ s \notin late

\* Mutants: a sweep gives late work another chance, or forgets what runs.
Requeued(S) ==
    phase' = [s \in Job |-> IF s \in late \cap S /\ phase[s] = "running" THEN "queued"
                            ELSE IF s \in late \cap S /\ phase[s] = "queued" THEN "failed"
                            ELSE phase[s]]

SweptQueued(S) ==
    phase' = [s \in Job |-> IF s \in late \cap S /\ phase[s] = "queued"
                            THEN "failed" ELSE phase[s]]

\* A sweep ends every submission of S whose deadline has passed.
Swept(S) ==
    phase' = [s \in Job |-> IF s \in late \cap S /\ phase[s] \in {"queued", "running"}
                            THEN "failed" ELSE phase[s]]

\* All that goes wrong is counted; what follows from an incident is not.
GoesWrong ==
    /\ faults < MaxFaults
    /\ faults' = faults + 1

Conclude(s, to) == phase' = [phase EXCEPT ![s] = to]
Deliver(s, to) == mail' = [mail EXCEPT ![s] = to]

----------------------------------------------------------------------------
\* Outside: the API, the clock, the queue's visibility timeout, the operator.

Submit(s) ==
    /\ phase[s] = "absent"
    /\ Conclude(s, "queued")
    /\ Deliver(s, "waiting")
    /\ UNCHANGED <<schedulerVars, tries, claim, settle, stop, faults>>

Lapse(s) ==
    /\ phase[s] \in {"queued", "running"}
    /\ s \notin late
    /\ late' = late \cup {s}
    /\ UNCHANGED <<ledgerVars, sessionVars, storeVars, executorVars>>

ApiSweep ==
    /\ \E s \in late : phase[s] = "queued"
    /\ Swept({s \in Job : phase[s] = "queued"})
    /\ UNCHANGED <<schedulerVars, tries, executorVars>>

\* The visibility of a message ends: early, which is counted, or when nobody
\* works on it any more.
Redeliver(s) ==
    /\ mail[s] = "held"
    /\ IF s \in jobs \/ claim = s THEN GoesWrong ELSE UNCHANGED faults
    /\ Deliver(s, "waiting")
    /\ UNCHANGED <<schedulerVars, storeVars, claim, settle, stop>>

RequestStop ==
    /\ GoesWrong
    /\ at \notin {"down", "closed"}
    /\ stop' = TRUE
    /\ UNCHANGED <<schedulerVars, storeVars, mail, claim, settle>>

----------------------------------------------------------------------------
\* The life of the process.

\* run demands a clean ledger, which an operator may have to provide first.
Boot ==
    /\ at = "down"
    /\ Start /\ ~fault'
    /\ GoTo("tick")
    /\ UNCHANGED <<jobs, ahead, last, progress, work, halted, accepting, due, late>>
    /\ UNCHANGED <<storeVars, executorVars>>

\* The process is gone, and with it all but the ledger.
Gone ==
    /\ Exit
    /\ EndSession
    /\ claim' = Nobody /\ settle' = "nothing" /\ stop' = FALSE
    /\ UNCHANGED <<late, storeVars, mail>>

Quit == at = "closed" /\ Gone /\ UNCHANGED faults

Crash ==
    /\ GoesWrong
    /\ at # "down"
    /\ Gone

\* A call to the store or the queue raises, or the ledger refuses a claim.
Raise ==
    /\ GoTo("unwinding")
    /\ halted' = TRUE
    /\ UNCHANGED <<ledgerVars, jobs, ahead, last, progress, work, accepting, due, late>>
    /\ UNCHANGED <<storeVars, mail, claim, settle, stop>>

Outage ==
    /\ GoesWrong
    /\ at \in {"tick", "admit", "publish", "drain"}
    /\ Raise

----------------------------------------------------------------------------
\* admit: a scan of the routes, until a claim is granted.

\* The scan begins with nothing to stop it; an incident may come during it, and
\* claim_guard, which holds the ledger while a claim is made, finds it.
Scanning ==
    /\ at = "tick"
    /\ ~stop /\ ~halted
    /\ Cardinality(jobs) < MaxJobs /\ accepting

GuardRaises == Scanning /\ fault /\ Raise /\ UNCHANGED faults
Guarded == Scanning /\ ~fault

Sweep ==
    /\ Guarded
    /\ \E s \in late : phase[s] \in {"queued", "running"}
    /\ Swept(Job)
    /\ UNCHANGED <<schedulerVars, tries, executorVars>>

UserBusy(s) == \E t \in Job : OwnerOf[t] = OwnerOf[s] /\ phase[t] = "running"

Grantable(s) == phase[s] = "queued" /\ tries[s] < MaxAttempts

\* receive and claim_submission.  What is running or whose user is busy is
\* given back at once, and changes nothing.
Receive(s) ==
    /\ Guarded
    /\ mail[s] = "waiting"
    /\ \/ /\ Grantable(s) /\ s \notin late /\ ~UserBusy(s)
          /\ Conclude(s, "running")
          /\ tries' = [tries EXCEPT ![s] = @ + 1]
          /\ Deliver(s, "held")
          /\ claim' = s
          /\ GoTo("admit")
       \/ /\ Grantable(s) /\ s \in late
          /\ Conclude(s, "failed")
          /\ Deliver(s, "none")
          /\ UNCHANGED <<tries, claim, at>>
       \/ /\ phase[s] \in Final
          /\ Deliver(s, "none")
          /\ UNCHANGED <<storeVars, claim, at>>
    /\ UNCHANGED <<ledgerVars, jobs, ahead, last, progress, work, halted, accepting, due, late>>
    /\ UNCHANGED <<settle, stop, faults>>

Settling(how) == settle' = how /\ UNCHANGED <<schedulerVars, tries, mail, claim, stop, faults>>

\* _admit: a claim that is stale, or whose prompt or data fail the preflight,
\* is concluded at once.
ConcludeAdmission ==
    /\ at = "admit" /\ settle = "nothing"
    /\ \/ ~Current(claim) /\ Swept(Job)
       \/ Current(claim) /\ \E to \in {"rejected", "failed"} : Conclude(claim, to)
    /\ Settling("ack")

\* Or it becomes a job.  Whatever add_job refuses ends the session.
Admit ==
    /\ at = "admit" /\ settle = "nothing"
    /\ Current(claim)
    /\ AddJob(claim, tries[claim])
    /\ GoTo("check")
    /\ claim' = Nobody
    /\ UNCHANGED <<ledgerVars, late, storeVars, mail, settle, stop, faults>>

AdmissionRaises ==
    /\ at = "admit" /\ settle = "nothing"
    /\ Current(claim)
    /\ ~Addable(claim)
    /\ Raise
    /\ UNCHANGED faults

\* An old receipt settles nothing.
Settled(s) == mail' = IF mail[s] # "held" THEN mail
                      ELSE [mail EXCEPT ![s] = IF settle = "ack" THEN "none" ELSE "waiting"]

SettleAdmission ==
    /\ at = "admit" /\ settle # "nothing"
    /\ Settled(claim)
    /\ GoTo("check")
    /\ claim' = Nobody
    /\ settle' = "nothing"
    /\ UNCHANGED <<ledgerVars, jobs, ahead, last, progress, work, halted, accepting, due, late>>
    /\ UNCHANGED <<storeVars, stop, faults>>

----------------------------------------------------------------------------
\* _publish, for one job after the other.

Publishing(s) == at \in {"publish", "drain"} /\ settle = "nothing" /\ s \in due

\* Mutant: the code of the failure alone decides.
RetryByCode(s) == progress[s].end = "PROVIDER_REQUEST_FAILED" /\ tries[s] < MaxAttempts

RetryAllowed(s) == progress[s].retry /\ ~fault /\ tries[s] < MaxAttempts

DiscardStale(s) ==
    /\ Publishing(s)
    /\ ~Current(s)
    /\ claim' = s
    /\ Swept(Job)
    /\ settle' = "ack"
    /\ UNCHANGED <<schedulerVars, tries, mail, stop, faults>>

\* The result is stored, or found not to be what the contract promises.
PublishResult(s) ==
    /\ Publishing(s)
    /\ Current(s)
    /\ claim' = s
    /\ progress[s].end = "aggregate"
    /\ \E to \in {"succeeded", "failed"} : Conclude(s, to)
    /\ settle' = "ack"
    /\ UNCHANGED <<schedulerVars, tries, mail, stop, faults>>

PublishFailure(s) ==
    /\ Publishing(s)
    /\ Current(s)
    /\ claim' = s
    /\ progress[s].end # "aggregate"
    /\ Conclude(s, IF RetryAllowed(s) THEN "queued" ELSE "failed")
    /\ settle' = IF RetryAllowed(s) THEN "nack" ELSE "ack"
    /\ UNCHANGED <<schedulerVars, tries, mail, stop, faults>>

SettleJob ==
    /\ at \in {"publish", "drain"} /\ settle # "nothing"
    /\ Settled(claim)
    /\ Retire(claim)
    /\ claim' = Nobody
    /\ settle' = "nothing"
    /\ UNCHANGED <<ledgerVars, at, late, storeVars, stop, faults>>

----------------------------------------------------------------------------
Gathered(c) ==
    /\ Collect(c) \/ CollectFailure(c)
    /\ IF progress'[c[1]].end = "AGGREGATION_FAILED" /\ Going(c[1])
       THEN GoesWrong ELSE UNCHANGED faults
    /\ UNCHANGED <<ledgerVars, late, storeVars, mail, claim, settle, stop>>

Loop ==
    \/ Coordinator /\ UNCHANGED <<ledgerVars, late, storeVars, executorVars>>
    \/ \E c \in Call : Gathered(c)
    \/ \E ready \in BOOLEAN :
          Survey(stop, ready) /\ UNCHANGED <<ledgerVars, late, storeVars, executorVars>>
    \/ GuardRaises \/ ConcludeAdmission \/ Admit \/ AdmissionRaises \/ SettleAdmission \/ SettleJob
    \/ \E s \in Job :
          Receive(s) \/ DiscardStale(s) \/ PublishResult(s) \/ PublishFailure(s)

\* After one failure of a job, or one incident, others may follow.
Troubled(j) ==
    fault \/ \E c \in Call : c[1] = j /\ work[c] \in (LeftBehind \ {"ok"}) \cup {"failed"}

Pool(c) ==
    /\ CheckClaim(c, Current(c[1])) \/ Thread(c)
    /\ IF ~Troubled(c[1]) /\ work'[c] \in {"refused", "doubt", "timeout", "breach"}
       THEN GoesWrong ELSE UNCHANGED faults
    /\ UNCHANGED <<late, storeVars, mail, claim, settle, stop>>

Service(c) == Settle(c) /\ UNCHANGED <<sessionVars, late, storeVars, executorVars>>

RequestNext ==
    \/ Loop \/ Sweep
    \/ \E c \in Call : Pool(c) \/ Service(c)
    \/ \E s \in Job : Submit(s) \/ Lapse(s) \/ Redeliver(s)
    \/ ApiSweep \/ RequestStop \/ Boot \/ Quit \/ Crash \/ Outage

RequestSpec == RequestInit /\ [][RequestNext]_requestVars

\* The coordinator and the threads go on, a request returns or times out, what
\* is adrift ends, and the process is started again.  Every sweep asks every
\* route, the model is healthy now and then, and wait returns all that is done.
Fairness ==
    /\ WF_requestVars(Loop) /\ WF_requestVars(Boot) /\ WF_requestVars(Quit)
    /\ SF_requestVars(Sweep)
    /\ SF_requestVars(Survey(stop, TRUE) /\ UNCHANGED <<ledgerVars, late, storeVars, executorVars>>)
    /\ \A c \in Call :
          /\ WF_requestVars(Pool(c)) /\ WF_requestVars(Service(c))
          /\ SF_requestVars(Gathered(c))
    /\ \A s \in Job : SF_requestVars(Receive(s)) /\ WF_requestVars(Redeliver(s) /\ UNCHANGED faults)

FairSpec == RequestSpec /\ Fairness

----------------------------------------------------------------------------
\* A submission is queued again only when every request of its earlier
\* attempts is over: neither a thread nor the model works on it any more.
NoOverlap ==
    \A c \in Open \cup Adrift : phase[c[1]] # "queued" /\ c[2] = tries[c[1]]

\* A result is published only of an attempt all of whose samples came back,
\* each from a request that is over, and it is the attempt the store counts.
OnlyWholeResults ==
    [][\A s \in Job : phase'[s] = "succeeded" /\ phase[s] # "succeeded" =>
          \A i \in 1 .. SamplesOf[s] :
             /\ work[<<s, tries[s], i>>] = "graded"
             /\ call[<<s, tries[s], i>>] = "over"]_requestVars

\* A session that ends by itself has published every job it admitted, whether
\* it was stopped or halted by an incident; only a callback that raised leaves
\* jobs behind.
CloseLeavesNothing ==
    [][at \notin {"unwinding", "closed"} /\ at' = "closed" =>
          jobs' = {} /\ claim' = Nobody /\ Open = {} /\ ~\E c \in Call : work[c] \in InPool]_requestVars

\* The executor, with its sessions and its incidents, gives every submission
\* the life SubmissionStore's claims are to give it.
ExecutorImplementsLifecycle == Lifecycle!LifecycleSpec

\* Without incidents, what is queued is judged, or is late: a job whose samples
\* are many or slow does not keep the others from their turn.
Served ==
    \A s \in Job :
        phase[s] = "queued" /\ faults = 0 ~> phase[s] \in Final \/ s \in late \/ faults > 0

\* What is late ends, also what a crashed process or an aborted session left
\* running.
LateWorkEnds == \A s \in Job : s \in late ~> phase[s] \in Final
==============================================================================
