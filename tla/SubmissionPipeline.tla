------------------------- MODULE SubmissionPipeline -------------------------
(***************************************************************************)
(* The submissions of one deployed contract on their way through the API,  *)
(* the outbox dispatcher, the queue and the serial workers, with crashes of *)
(* all of them.  The tables are SubmissionStore's and the queue is          *)
(* JobQueue's, with the workers as the holders of deliveries; here are the  *)
(* processes between them, each of whose steps is one transaction, one call *)
(* of the queue or one read.                                                *)
(*                                                                         *)
(* A delivery may be taken over when its visibility timeout has passed.  The*)
(* safety properties hold with Visibility = 0, that is, with takeovers at   *)
(* any time: they do not rely on the timeout being longer than the lease,   *)
(* which the workers' constructors demand.                                  *)
(***************************************************************************)
EXTENDS SubmissionStore

CONSTANTS
    Served,           \* the contract of this route
    Worker, Copy, Gone, Waiting, \* see JobQueue
    Nothing,          \* "no message", "no claim"
    Visibility,       \* the queue's visibility timeout
    MaxFaults         \* bound on crashes and queue outages, for model checking

ASSUME PipelineAssumption ==
    /\ Served \in Contract
    /\ Visibility \in Nat
    /\ MaxFaults \in Nat
    /\ Nothing \notin Submission /\ Nothing \notin Claim
    /\ {Gone, Waiting} \cap Worker = {} /\ Gone # Waiting
    /\ Copy # {}

VARIABLES
    place,   \* the queue
    hidden,  \* how long a delivered message is not offered again
    api,     \* what the API process and its dispatcher are doing
    todo,    \* the identifiers the dispatcher read and has yet to publish
    sent,    \* published, and not yet marked so
    pc,      \* what each worker is doing
    msg,     \* the submission each worker received
    job,     \* the claim each worker was granted
    faults

Q == INSTANCE JobQueue WITH Holder <- Worker

apiVars == <<api, todo, sent>>
queueVars == <<place, hidden>>
workerVars == <<pc, msg, job>>
pipelineVars == <<storeVars, queueVars, apiVars, workerVars, faults>>

PipelineInit ==
    /\ Init
    /\ Q!QueueInit
    /\ hidden = [m \in Q!Message |-> 0]
    /\ api = "down"
    /\ todo = {}
    /\ sent = Nothing
    /\ pc = [w \in Worker |-> "idle"]
    /\ msg = [w \in Worker |-> Nothing]
    /\ job = [w \in Worker |-> Nothing]
    /\ faults = 0

Queued == {s \in Rows : request[s].contract = Served /\ row[s].status = "queued"}

----------------------------------------------------------------------------
\* The API: requests, the periodic deadline sweep and the dispatcher.  The
\* dispatcher's lock makes it one loop, whoever calls it.

Serving == api \in {"serving", "dispatching"}

\* Requests arrive while their deadline is within the bound of the clock.
Arrive(h, u, k) ==
    /\ Serving
    /\ now + JobDeadline <= MaxTime
    /\ BeginCreate(h, u, k, Served)
    /\ UNCHANGED <<queueVars, apiVars, workerVars, faults>>

Respond(h) ==
    /\ Serving
    /\ Create(h)
    /\ UNCHANGED <<queueVars, apiVars, workerVars, faults>>

\* A sweep, or the finding that there is nothing to sweep.
SweepQueued(K) ==
    \/ ExpireQueuedDeadlines(K)
    \/ OverdueQueued(K) = {} /\ UNCHANGED storeVars

SweepLeases(K) ==
    \/ ExpireLeases(K)
    \/ LapsedRuns(K) = {} /\ UNCHANGED storeVars

ApiSweep ==
    /\ Serving
    /\ ExpireQueuedDeadlines({Served})
    /\ UNCHANGED <<queueVars, apiVars, workerVars, faults>>

\* recover, at startup: expire, publish again what is queued although it was
\* published, then dispatch.
Boot ==
    /\ api = "down"
    /\ api' = "booting"
    /\ SweepQueued(Contract)
    /\ UNCHANGED <<queueVars, todo, sent, workerVars, faults>>

ReadPublished ==
    /\ api = "booting"
    /\ api' = "republishing"
    /\ todo' = Queued \cap published
    /\ UNCHANGED <<storeVars, queueVars, sent, workerVars, faults>>

Republish(s) ==
    /\ api = "republishing"
    /\ s \in todo
    /\ todo' = todo \ {s}
    /\ Q!Publish(s)
    /\ UNCHANGED <<storeVars, hidden, api, sent, workerVars, faults>>

\* dispatch_pending: read the unpublished, publish each and then mark it.
ReadUnpublished ==
    /\ \/ api = "republishing" /\ todo = {} /\ api' = "recovering"
       \/ api = "serving" /\ api' = "dispatching"
    /\ todo' = Queued \ published
    /\ api = "serving" => todo' # {}
    /\ UNCHANGED <<storeVars, queueVars, sent, workerVars, faults>>

Dispatching == api \in {"recovering", "dispatching"}

Publish(s) ==
    /\ Dispatching
    /\ sent = Nothing
    /\ s \in todo
    /\ sent' = s
    /\ Q!Publish(s)
    /\ UNCHANGED <<storeVars, hidden, api, todo, workerVars, faults>>

Mark ==
    /\ Dispatching
    /\ sent # Nothing
    /\ MarkPublished(sent) \/ (sent \in published /\ UNCHANGED storeVars)
    /\ todo' = todo \ {sent}
    /\ sent' = Nothing
    /\ UNCHANGED <<queueVars, api, workerVars, faults>>

Dispatched ==
    /\ Dispatching
    /\ todo = {}
    /\ api' = "serving"
    /\ UNCHANGED <<storeVars, queueVars, todo, sent, workerVars, faults>>

\* The queue refuses a message: the rest of the round is dropped.  During
\* recovery a production API then exits, another one serves.
QueueDown ==
    /\ faults < MaxFaults
    /\ faults' = faults + 1
    /\ Dispatching \/ api = "republishing"
    /\ sent = Nothing /\ todo # {}
    /\ todo' = {}
    /\ api' \in IF api = "dispatching" THEN {"serving"} ELSE {"serving", "down"}
    /\ UNCHANGED <<storeVars, queueVars, sent, workerVars>>

CrashApi ==
    /\ faults < MaxFaults
    /\ faults' = faults + 1
    /\ api # "down"
    /\ api' = "down"
    /\ todo' = {}
    /\ sent' = Nothing
    /\ Disconnect(Handler)
    /\ UNCHANGED <<queueVars, workerVars>>

----------------------------------------------------------------------------
\* A worker's run_once.

Go(w, to) == pc' = [pc EXCEPT ![w] = to]

\* Mutant: the sweep leaves lapsed leases alone.
WorkerSweepDeadlines(w) ==
    /\ pc[w] = "idle"
    /\ ExpireQueuedDeadlines(Contract)
    /\ UNCHANGED <<queueVars, apiVars, workerVars, faults>>

\* The sweep before a receive; it is due every few seconds.
WorkerSweep(w) ==
    /\ pc[w] = "idle"
    /\ ExpireLeases(Contract) \/ ExpireQueuedDeadlines(Contract)
    /\ UNCHANGED <<queueVars, apiVars, workerVars, faults>>

Receive(w, m) ==
    /\ pc[w] = "idle"
    /\ Go(w, "received")
    /\ msg' = [msg EXCEPT ![w] = m[1]]
    /\ hidden[m] = 0
    /\ Q!Deliver(m, w)
    /\ hidden' = [hidden EXCEPT ![m] = Visibility]
    /\ UNCHANGED <<storeVars, apiVars, job, faults>>

\* Mutants: what blocks a delivery is not told from what finishes it, either
\* way.
AttemptAcksBusy(w) ==
    /\ pc[w] = "received"
    /\ \/ /\ Grant(msg[w], Served)
          /\ job' = [job EXCEPT ![w] = [sub |-> msg[w], attempt |-> row'[msg[w]].attempt,
                                        token |-> row'[msg[w]].token]]
          /\ Go(w, "evaluating")
       \/ /\ Claimable(msg[w], Served) => Overdue(msg[w]) \/ UserBusy(msg[w])
          /\ Go(w, "acking")
          /\ UNCHANGED <<storeVars, job>>
    /\ UNCHANGED <<queueVars, apiVars, msg, faults>>

\* claim_submission, and what each answer leads to.
Attempt(w) ==
    /\ pc[w] = "received"
    /\ \/ /\ Grant(msg[w], Served)
          /\ job' = [job EXCEPT ![w] = [sub |-> msg[w], attempt |-> row'[msg[w]].attempt,
                                        token |-> row'[msg[w]].token]]
          /\ Go(w, "evaluating")
       \/ /\ ClaimOverdue(msg[w], Served)
          /\ Go(w, "acking")
          /\ UNCHANGED job
       \/ /\ Claimable(msg[w], Served) => ~Overdue(msg[w]) /\ UserBusy(msg[w])
          /\ Go(w, IF RetryLater(msg[w], Served) THEN "nacking" ELSE "acking")
          /\ UNCHANGED <<storeVars, job>>
    /\ UNCHANGED <<queueVars, apiVars, msg, faults>>

\* The evaluation ends well; if it is too late the submission is failed.
Succeed(w) ==
    /\ pc[w] = "evaluating"
    /\ \/ CompleteSuccess(job[w]) /\ Go(w, "acking")
       \/ ~Current(job[w]) /\ UNCHANGED storeVars /\ Go(w, "failing")
    /\ UNCHANGED <<queueVars, apiVars, msg, job, faults>>

\* The request preflight finds the prompt too long.
Reject(w) ==
    /\ pc[w] = "evaluating"
    /\ \/ CompleteRejected(job[w]) /\ Go(w, "acking")
       \/ ~Concludes(job[w]) /\ UNCHANGED storeVars /\ Go(w, "sweeping")
    /\ UNCHANGED <<queueVars, apiVars, msg, job, faults>>

\* A provider failure that may be tried again.
GiveBack(w) ==
    /\ pc[w] = "evaluating"
    /\ \/ RetrySubmission(job[w]) /\ Go(w, "nacking")
       \/ /\ ~(Current(job[w]) /\ job[w].attempt < MaxAttempts)
          /\ UNCHANGED storeVars
          /\ Go(w, "failing")
    /\ UNCHANGED <<queueVars, apiVars, msg, job, faults>>

\* Any other failure.
Fail(w) ==
    /\ pc[w] \in {"evaluating", "failing"}
    /\ \/ /\ \E code \in WorkerCode : CompleteFailure(job[w], code)
          /\ Go(w, "acking")
       \/ ~Concludes(job[w]) /\ UNCHANGED storeVars /\ Go(w, "sweeping")
    /\ UNCHANGED <<queueVars, apiVars, msg, job, faults>>

\* A refused outcome means that the lease is lost.
SweepAfter(w) ==
    /\ pc[w] = "sweeping"
    /\ SweepLeases(Contract)
    /\ Go(w, "acking")
    /\ UNCHANGED <<queueVars, apiVars, msg, job, faults>>

Uncover(w) == hidden' = [m \in Q!Message |-> IF place[m] = w THEN 0 ELSE hidden[m]]

\* The queue settles the delivery, unless another worker has it by now.
Settle(w) ==
    /\ Uncover(w)
    /\ \/ pc[w] = "acking" /\ Q!Ack(w)
       \/ pc[w] = "nacking" /\ Q!Nack(w)
       \/ pc[w] \in {"acking", "nacking"} /\ Q!Held(w) = {} /\ UNCHANGED place
    /\ Go(w, "idle")
    /\ msg' = [msg EXCEPT ![w] = Nothing]
    /\ job' = [job EXCEPT ![w] = Nothing]
    /\ UNCHANGED <<storeVars, apiVars, faults>>

\* The worker's process stops; the visibility timeout recovers its delivery,
\* here at once.
CrashWorker(w) ==
    /\ faults < MaxFaults
    /\ faults' = faults + 1
    /\ pc[w] # "down"
    /\ Go(w, "down")
    /\ msg' = [msg EXCEPT ![w] = Nothing]
    /\ job' = [job EXCEPT ![w] = Nothing]
    /\ Q!Nack(w) \/ (Q!Held(w) = {} /\ UNCHANGED place)
    /\ Uncover(w)
    /\ UNCHANGED <<storeVars, apiVars>>

Restart(w) ==
    /\ pc[w] = "down"
    /\ Go(w, "idle")
    /\ UNCHANGED <<storeVars, queueVars, apiVars, msg, job, faults>>

Clock ==
    /\ Tick
    /\ hidden' = [m \in Q!Message |-> IF hidden[m] > 0 THEN hidden[m] - 1 ELSE 0]
    /\ UNCHANGED <<place, apiVars, workerVars, faults>>

----------------------------------------------------------------------------
Evaluate(w) == Succeed(w) \/ Reject(w) \/ GiveBack(w) \/ Fail(w)

Dispatcher ==
    \/ Boot \/ ReadPublished \/ ReadUnpublished \/ Mark \/ Dispatched
    \/ \E s \in Submission : Republish(s) \/ Publish(s)

PipelineNext ==
    \/ \E h \in Handler, u \in User, k \in Key : Arrive(h, u, k)
    \/ \E h \in Handler : Respond(h)
    \/ ApiSweep \/ Dispatcher \/ QueueDown \/ CrashApi
    \/ \E w \in Worker :
          \/ WorkerSweep(w) \/ Attempt(w) \/ Evaluate(w) \/ SweepAfter(w) \/ Settle(w)
          \/ CrashWorker(w) \/ Restart(w)
          \/ \E m \in Q!Message : Receive(w, m)
    \/ Clock

PipelineSpec == PipelineInit /\ [][PipelineNext]_pipelineVars

\* The API's loops and the workers go on, evaluations end (every request to the
\* provider is clamped to the job deadline), what stops is started again.  A
\* message and a lapsed lease are not passed over for ever: the queue is served
\* in order, and a sweep precedes the receive when it is due.
Fairness ==
    /\ WF_pipelineVars(Dispatcher)
    /\ WF_pipelineVars(ApiSweep)
    /\ WF_pipelineVars(Clock)
    /\ \A w \in Worker :
          WF_pipelineVars(Attempt(w) \/ Evaluate(w) \/ SweepAfter(w) \/ Settle(w) \/ Restart(w))
    /\ SF_pipelineVars(\E w \in Worker : WorkerSweep(w))
    /\ \A m \in Q!Message : SF_pipelineVars(\E w \in Worker : Receive(w, m))

FairSpec == PipelineSpec /\ Fairness

----------------------------------------------------------------------------
\* The processes keep the types of what they remember.
PipelineTypeOK ==
    /\ place \in [Q!Message -> Worker \cup {Gone, Waiting}]
    /\ hidden \in [Q!Message -> 0 .. Visibility]
    /\ api \in {"down", "booting", "republishing", "recovering", "serving", "dispatching"}
    /\ todo \in SUBSET Submission
    /\ sent \in Submission \cup {Nothing}
    /\ pc \in [Worker -> {"down", "idle", "received", "evaluating", "failing", "sweeping",
                          "acking", "nacking"}]
    /\ msg \in [Worker -> Submission \cup {Nothing}]
    /\ job \in [Worker -> Claim \cup {Nothing}]
    /\ faults \in 0 .. MaxFaults

\* No accepted work is lost: what waits in the store and counts as published
\* has a message in the queue, with a worker or waiting, at every moment of
\* every retry, crash and recovery.  What is unpublished the dispatcher reads
\* again.
NoLostWork == \A s \in Queued \cap published : Q!CopiesOf(s) # {}

\* Two workers never evaluate one submission at the same time, not even when
\* one of them was paused beyond its lease or holds a delivery that another
\* worker took over: a lapsed lease ends the submission, it does not free it.
NoConcurrentEvaluation ==
    \A v, w \in Worker :
        pc[v] \in {"evaluating", "failing"} /\ pc[w] \in {"evaluating", "failing"}
            => v = w \/ job[v].sub # job[w].sub

\* While a submission waits for another attempt nobody who evaluated it before
\* is about to acknowledge a message of it.
GivenBackIsNotAcked ==
    \A w \in Worker : pc[w] = "acking" => row[msg[w]].status \notin {"absent", "queued"}

\* The induction behind these.  A worker at work has a message of a submission
\* this route serves; while it evaluates, and until it has swept after a refused
\* outcome, the submission is running under its claim or final; it acknowledges
\* only what is final.
ServedRows == {s \in Rows : request[s].contract = Served}
Busy(w) == pc[w] \in {"evaluating", "failing", "sweeping"}

WorkerOK(w) ==
    /\ pc[w] \notin {"idle", "down"} => msg[w] \in ServedRows
    /\ Busy(w) =>
          /\ job[w] \in claims /\ job[w].sub = msg[w]
          /\ row[msg[w]].status \in {"running"} \cup Final
          /\ row[msg[w]].status = "running" =>
                Matches(job[w]) /\ (pc[w] = "sweeping" => LeaseLapsed(msg[w]))
    /\ pc[w] = "acking" => row[msg[w]].status \in Final

OneEach == \A v, w \in Worker : Busy(v) /\ Busy(w) /\ v # w => msg[v] # msg[w]

\* A message is of a served submission, and with a worker that knows it.
QueueOK ==
    /\ \A m \in Q!Message : place[m] # Gone => m[1] \in ServedRows
    /\ \A w \in Worker : \A m \in Q!Held(w) :
          /\ pc[w] \notin {"idle", "down"} /\ msg[w] = m[1]
          /\ Q!Held(w) = {m}

\* What is being published, or counts as published, and is not final has a
\* message, also while it runs: the retry of a run publishes nothing.
DispatcherOK ==
    /\ todo \subseteq ServedRows
    /\ sent \in ServedRows \cup {Nothing}
    /\ published \subseteq Rows
    /\ \A s \in Backlog : s \in published \/ s = sent => Q!CopiesOf(s) # {}

PipelineInv ==
    /\ TypeOK /\ FencingInv /\ PipelineTypeOK
    /\ \A w \in Worker : WorkerOK(w)
    /\ OneEach /\ QueueOK /\ DispatcherOK

\* The processes use the store as SubmissionStore's most general callers may,
\* so what is proved of the store holds in the pipeline.
PipelineUsesStore == Spec

\* Every accepted submission reaches its verdict, across crashes of the API and
\* the workers, queue outages, retries and takeovers; and the queue does not keep
\* the messages of finished submissions: duplicates and late publications are
\* received and acknowledged in the end.
EverySubmissionEnds ==
    \A s \in Submission :
        /\ row[s].status \in Outstanding ~> row[s].status \in Final
        /\ Q!CopiesOf(s) # {} ~> Q!CopiesOf(s) = {}
=============================================================================
