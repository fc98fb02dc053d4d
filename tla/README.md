# A verification development of the Linguistic Online Judge

This directory models the evaluation service in `src/src/linguistic_oj`, its web
client and the scripts that build its challenges in TLA+, model-checks the models
with TLC on small instances and proves their safety properties with TLAPS for every
instance. File names below are relative to `src/src/linguistic_oj` unless they begin
with `src/` or `docs/`. `PROJECT.json` lists the components, the runs, the hazards, the
theorems, and the source lines of every definition.

1. [The system](#1-the-system) – parts, state, operations, interactions
2. [What can go wrong](#2-what-can-go-wrong) – the hazards behind the properties
3. [Modules](#3-modules) – which module models what, and how
4. [Runs](#4-runs) – what is checked, on which instances
5. [Fairness](#5-fairness)
6. [Proofs](#6-proofs)
7. [Where the code and its documents disagree](#7-where-the-code-and-its-documents-disagree)
8. [What is not modelled](#8-what-is-not-modelled)
9. [Plan](#9-plan)

## 1. The system

A student submits a prompt to a challenge. The API commits the submission and an
outbox record in one transaction; a dispatcher announces it on a queue; a worker
receives the message, claims the submission in the database, sends each sample of
the challenge with the prompt to a language model, scores the answers and records
one outcome. The model runs on one host that cannot be told to stop a generation,
so a second part of the system is about never having more generations running
than the host was qualified for, whatever crashes. Around these two are the accounts
of the students, the administrators' policy for each task, the challenges and the
datasets they are made from, and the page in which all of it is seen.

| Part (files) | State | Operations | Interacts with |
|---|---|---|---|
| Submission store (`submission_store.py`, `postgres_submission_store.py`) | submissions, outbox, results; attempt, lease token, lease end, deadline of every row | create, mark published, claim, complete as success, failure or rejection, retry, expire leases and queued deadlines; leaderboard | API, dispatcher, workers. SQLite serialises writers; on PostgreSQL transactions meet at their locks |
| Outbox dispatcher and worker (`submission_jobs.py`, loops in `api.py`) | the delivery and the claim in hand | dispatch pending, recover at startup; run once: sweep, receive, claim, evaluate, conclude, ack or nack | store, queue, model client |
| Queues (`submission_jobs.py`, `redis_job_queue.py`) | messages, deliveries; in Redis a stream, a pending list, an index and receipts | publish, receive, register, ack, nack | dispatcher, workers |
| Model client (`providers.py`) | the latch `_active_request`; per call a thread, three events and a deadline | generate | worker or executor, the model service |
| Serial executor, deployed (`executor_state.py`, `qwen_executor.py`) | `state.json`, `recoveries/`, the process lock | begin, finish, recover | wraps the model client; an operator |
| Bounded executor ledger (`bounded_executor_state.py`) | `state.json` with several pending requests, `blocked`, live set, fault signal | begin, finish, block, recover all | wraps the clients of several slots; an operator |
| Sample scheduler (`sample_scheduler.py`) | jobs with cursor, in-flight set, outcomes, error; slots | add, seal, abort, run | ledger, clients, request executor |
| Request executor (`request_submission_executor.py`) | admitted claims | admit, publish, discard stale | store, queue, scheduler, ledger |
| Private workbench (`request_development.py`, `qwen_development.py`, `request_backup.py`, `src/scripts/qwen_dev_ops.py`) | the state directory: lock, marker, warning, ledger, database | initialize, start serially or with a profile, stop, recover, backup | executors, ledger, store |
| API and runtime availability (`api.py`, `runtime_availability.py`) | declared routes, executor's lifetime, fault, cached probe | submit, history, leaderboard | store, executor, model host |
| Accounts (`auth.py`, `auth_store.py`, `auth_mail.py`, `auth_routes.py`) | credentials with a version, sessions, links, queue of mails with a worker thread | register, reset, confirm, login, logout, provision; enqueue, deliver, stop | API, mail server |
| Administration (`admin.py`, `admin_store.py`) | revision, draft, publication, admissions per task; audit chain | save, publish, open, close | accounts, admission |
| Evaluation (`responses.py`, `compact_dependency.py`, `evaluation.py`, `aggregation.py`, `runner.py`, `sample_cache.py`) | a cache of selected samples | load, parse, score, aggregate | workers, scheduler |
| Challenges (`challenge.py`, `challenge_registry.py`, `registry_extension.py`, `dataset.py`, `model_inputs.py`, `src/scripts`) | published documents, private manifests, contracts, registries, an instance's marker | build, build all, import, load, upgrade | everything |
| Web client (`web/assets/app.js`, `web/assets/account.js`) | the account shown, the draft and its idempotency key | identify, log in and out, submit, retry, open | API through the browser's cookie |

What makes each part correct, and so what is stated of it:

* **Store.** The limits of admission hold for every order of concurrent creations; an
  evaluation is handed out at most `MaxAttempts` times; only the newest claim has
  effect; what is over stays over; only sweeps can ever wait for each other in a cycle;
  after a close committed nothing is admitted.
* **Queues.** A published submission stays available until the holder of its newest
  delivery acknowledges it; nobody else can settle it.
* **API, dispatcher, workers together.** No accepted work is lost, none is evaluated
  twice at the same time, every submission ends.
* **Model client and executors.** A call that is reported as over is not running and
  will not be sent; what may be running is on record, on disk; nothing is sent while
  something of an earlier process may run, however the next one is started.
* **Scheduler and request executor.** No retry while requests of the last attempt may
  run; only whole results are published; a session that ends leaves nothing behind;
  no job starves.
* **Accounts.** No session outlives a reset; no account changes without its mail; mails
  go out once and in order.
* **Client.** What a page writes and shows is of the account it shows; a draft is one
  submission.
* **Challenges.** What is published loads, its two halves are of one build, and an
  instance keeps the contracts of what it stores.
* **Evaluation.** Full marks are for right answers against the published dataset; a
  walk over the leaderboard shows one board.

## 2. What can go wrong

The list with lines and covering properties is `hazards` in `PROJECT.json`. The
main families:

* **A value that is read before a lock and used after it.** The clock in
  `create_submission` (`RollingQuota`), the policy an administrator saw
  (`ChangesAreInformed`), the checks of a creation on PostgreSQL (`AdmissionsBounded`,
  `NothingAdmittedWhenClosed`), the password check of a login (`SessionsFollowResets`),
  the availability flags before the model is asked (`TroubleTurnsAway`).
* **Stale holders.** A paused worker completes a claim that was granted again
  (`FencingInv`); a handler settles a delivery that another consumer took over
  (`OnlyNewestSettles`); a thread sends a request its caller gave up on
  (`CallsImplemented`); a job's claim ends between two of its samples
  (`OnlyWholeResults`).
* **A crash between two systems.** Between publishing and marking, between storing an
  outcome and acknowledging, between the record and the request (`NoLostWork`,
  `OneGeneration`, `KeepsPromise`), and a different kind of process that is started
  after it (`NoBypass`, `OneModeOutstanding`, `CheckpointIsOneInstant`).
* **Disks that half write.** A replaced file whose directory was not synced
  (`OneGeneration`, `KeepsPromise`); files that are created in two steps
  (`CatalogsLoad`, `PairsMatch`, `InstanceKeepsContracts`).
* **Answers that are lost, late, or out of order.** (`QueueImplemented`,
  `WritesAreOwn`, `PagesShowOwn`, `OneRowPerDraft`, `MailsGoOneByOne`,
  `HistoryIsWhole`, `PagesShowOneBoard`).
* **Things that must happen in the end** (`EverySubmissionEnds`, `EveryCallReturns`,
  `Served`, `LateWorkEnds`).

## 3. Modules

| Module | Models | Role |
|---|---|---|
| `SubmissionLifecycle` | what one submission may go through | abstract specification |
| `SubmissionStore` | the SQLite tables and every operation that changes them | implements `SubmissionLifecycle` |
| `PostgresStore`, `Administration` | the same operations on PostgreSQL, lock by lock, with the administrators' policy | implements `SubmissionLifecycle` |
| `JobQueue` | the queue interface and the in-memory queue | abstract specification |
| `RedisJobQueue` | the Redis scripts and reads | implements `JobQueue` |
| `SubmissionPipeline` | API, dispatcher, workers over store and queue | EXTENDS the store, INSTANCEs the queue |
| `ModelCall` | what a caller of the model may rely on | abstract specification |
| `ProviderCall` | `generate`, its thread and its deadline | implements `ModelCall` |
| `DurableFile` | a file replaced atomically and synced | operators |
| `SerialExecutor` | the deployed executor's record | INSTANCEs `ModelCall`, uses `DurableFile` |
| `RequestLedger` | what a ledger of requests promises | abstract specification |
| `BoundedExecutor` | the ledger of the concurrent executor | INSTANCEs `ModelCall`, uses `DurableFile`, implements `RequestLedger` |
| `SampleScheduler` | the coordinator, the threads and the choice of samples | EXTENDS `RequestLedger` |
| `RequestExecutor` | admission, publication, settling, restarts | EXTENDS `SampleScheduler`, implements `SubmissionLifecycle` |
| `Workbench` | one instance: its modes, locks, files and tools | |
| `SubmissionApi` | the handler of a submission up to the store, the pages of the history | |
| `Accounts` | links, credentials, sessions | |
| `AuthMailQueue` | the queue through which the links are mailed | |
| `WebClient` | two windows of a browser over the accounts | |
| `ChallengeCatalog` | builders, importers, registries and markers, file by file | |
| `ChallengeSamples` | which samples a challenge has, what a model sees of them | operators |
| `Answers` | what a decoder is held to, the client's check, the strict parser, compact forms | operators, EXTENDS `Scoring` |
| `Scoring` | complaints about an answer, scores, aggregates | operators |
| `Judging` | evaluations over the selection cache, and the leaderboard | EXTENDS `Scoring` |
| `MC*` | model values; which systems a run puts side by side | |
| `*Proofs` | theorems | |

The composition is by promises. The pipeline uses a queue as `JobQueue` describes it,
and Redis is shown to be one; the executors use a client as `ModelCall` describes it,
and `generate` is shown to be one; the scheduler uses a ledger as `RequestLedger`
describes it, and the files of the bounded executor are shown to be one; both stores
and the request executor implement the one life cycle.

Modules contain operators introduced as *Mutant*: a variant of the operator that
follows, as a plausible mistake would write it. No specification uses them. For
every property `PROJECT.json` names one, and with it in place TLC finds the
property violated.

**SubmissionStore.** A row is split into the columns that never change (`request`)
and those that do (`row`). Each operation is one `BEGIN IMMEDIATE` transaction and
one action, except that a creation begins (reads the clock) and commits separately.
`claims` remembers every claim ever returned: any of them may be used at any later
time, which is the most general paused worker. Time is a counter; `Window`,
`JobDeadline` and `Lease` are the 24 hours, the contract's deadline and the lease.
Comparisons of times keep the code's `<=`. The order of the admission checks matters
only for the error the client sees, so `Admits` is their conjunction.

**PostgresStore, Administration.** A connection names the locks of its operation in the
order in which it asks for them; taking each is a step, what it read under one is used
in later steps, and its writes appear with the release of all at the commit.
Operations under one row lock are one step. A sweep reads the clock, finds the rows that
have lapsed and locks them one after the other in any order, waiting for whoever holds
one; it commits what is still lapsed then. A connection may end anywhere without
effect, by `deadlock_detected` too (`Abort`). Policies are values of `Administration`, tied to the fingerprint of the catalog
source they were made for; `authority` is an account's session and role together.

**RedisJobQueue.** A script is one action. A read of the stream makes the entry
pending under the consumer before the receipt is registered by a second call;
between the two another consumer may take it, and `ReplyLost` drops the answer of
either. Receipts are model values, entries are numbered in the order of the
stream. The refinement maps an entry to *waiting* until the newest receipt is
registered, and then to *held by that receipt*.

**SubmissionPipeline.** One API process with the dispatcher and the startup
recovery, some workers, one contract. A step is one transaction, one queue call or
one read; a crash may come between any two. Evaluation is the steps `Succeed`,
`Reject`, `GiveBack` and `Fail`, each with what happens when the store refuses it.
A crash of a worker returns its delivery to the queue. With `Visibility = 0` a
delivery may be taken over at any time, so the safety results do not depend on the
visibility timeout.

**ProviderCall.** Every event operation and every look at an event or the clock is
an action: the caller and the thread interleave at each. The head of a response and its
body are apart: `Receive` is `urlopen`'s return, `Read` and `Pause` take and free the lock
that `http.client` holds while it reads, and `Close`, with which a caller that gives up
ends, waits for that lock. `outcome` abstracts what the
thread leaves: `nothing` (it turned back), `body`, `status` (an HTTP error), `contract`
(an oversized body), `lost`. The service is external: it may finish, or run on after
its client is gone.

**DurableFile.** A file is what readers see and what is kept. An atomic write that
succeeds sets both (`Both`); one that fails or is cut off leaves the old state, or
the new one seen and the old one kept (`Torn`: replaced, directory not synced). A
power loss keeps either. This is the strength of `os.replace` with `fsync` of the
file and its directory on Linux.

**SerialExecutor, BoundedExecutor.** The process lock makes one process at a time;
`Exit` at any step is a crash. Every write may be torn. Recovery is two steps,
`Audit` and `Clear`, either of which may be cut off; the operator is assumed to tell
the truth: an attestation is given only for requests that do not run. What the
provider and the service do is `Model`. Seen from one request the ledger is
`RequestLedger`: a request is *open* while its lane works under it, *adrift* when nobody
waits for it and it may be running, and *over* afterwards.

**SampleScheduler, RequestExecutor.** The coordinator reads the clock, the ledger and
the threads' results one after the other while the threads go on, so each read is a
step and `at` says where in its loop it is. Dispatching prefers the job with the fewest
samples in flight and goes round among equals (`last`, `ahead`). A thread checks the
claim, sends, grades. Admission and publication are steps of the same loop; a claim's
lease ends with the submission's deadline, so `late` says both. Every crash, outage,
failed sample, stop or early redelivery counts against `MaxFaults`.

**Workbench.** Start-up is one step per thing it looks at or makes, under
`.server.lock`, and in the end it is *serving* in one mode: serially, or with a profile
whose ledger it holds. Requests are *sent*, *late* (given up and confirmed later),
*doubt* (given up and on record), *lost* (their process was killed) or over. Tools are
the initialization of the ledger, recoveries, the removal of the warning, a backup that
reads the ledger, dumps the database and publishes.

**SubmissionApi.** The first looks at the flags are one step, since all are looked at
again, one by one, when the model has answered; that second series is one step each.
The probe has a lock and a cached answer. A student turns the pages of the history by
its cursor while rows of equal times and random identifiers are being committed.

**Accounts, AuthMailQueue.** A transaction under the auth mutex is a step, and so is
what a request does before it: a login reads the credential and hashes outside the
mutex. Hashes are the passwords they are of. The mail queue's thread cannot be
cancelled; a stop joins it for a limited time, and the lifespan may be started again.

**WebClient.** A request is drawn up with the cookie of that moment, handled by the
server even if the page has given up, and answered late, out of order or never. The
sequence numbers by which the page tells answers it waits for are two marks of its
requests, `fresh` and `own`, taken away when the page would increase the number.

**ChallengeCatalog.** Files are created in two steps and never replaced; whoever dies in
between leaves a torn file. What is in a file is where it comes from: the dataset its
samples were selected from and the one that was hashed. The V1 registry is replaced as
a whole; an import writes its registry first.

**Scoring, Answers, ChallengeSamples, Judging.** Pure functions of the code are
operators: selection, the input made of a sample, the schema a decoder is held to, the
check of an answer, scores and aggregates, with ratios for floats. `MCJudging` compares
them with reference definitions in its assumptions (section 4). `Judging` is the state
around them: a cache of selections, whose dataset file is hashed before its lock is taken
and again while it is read under the lock; dataset files that are
replaced at will, results that get their time before they commit, and a walk.

## 4. Runs

Four runs put systems side by side that share no variable: each behaviour is of one of
them, and the others keep their initial state; a bar in the table separates them.
`MCSerialExecutor` has `SerialExecutor`,
`Workbench` and `WebClient`; `MCAccounts` has `Accounts` and `AuthMailQueue`;
`MCBoundedExecutor` has `BoundedExecutor` and `SubmissionApi`; `MCRequestCatalog` has
`RequestExecutor` and `ChallengeCatalog`. `MCJudging` also extends `Answers` and
`ChallengeSamples`, about which its assumptions are.

| Run | Instance | States | Shows |
|---|---|---|---|
| `store` | 2 submissions of one user, 2 contracts of one challenge, 2 attempts, limits 1/2/2/1, time to 3 | 1.7 M | `FencingInv` (rows, tokens, leases, results), `RollingQuota` under out-of-order commits, `LifecycleImplemented` |
| `redis_queue` | 2 submissions, 3 consumers, 4 receipts, 4 entries | 481 k | `OnlyNewestSettles`, `QueueImplemented` |
| `pipeline` | 2 submissions of one user, 2 workers, 1 fault, takeovers at any time | 2.3 M | `NoConcurrentEvaluation` |
| `pipeline_liveness` | 1 submission, 2 copies of a message, 2 workers, 1 fault, visibility 1 | 124 k | `NoLostWork` on a queue that keeps duplicates, `EverySubmissionEnds` |
| `provider` | 2 calls | 33 k | `CallsImplemented`; `EveryCallReturns` with nothing assumed of thread or service, save a body that never ends |
| `serial_executor` | 3 requests, torn writes, power losses \| 2 profiles, 2 submissions with 3 requests, all tools \| 2 users, 2 sessions, 2 keys, 2 requests under way | 1.2 M | `OneGeneration` \| `OneModeOutstanding`, `CheckpointIsOneInstant`, `NoBypass` \| `WritesAreOwn`, `PagesShowOwn`, `OneRowPerDraft` |
| `bounded_executor` | 3 requests, 2 slots, torn writes, power losses \| 2 requests of the API, 3 rows, pages of one | 677 k | `KeepsPromise` \| `TroubleTurnsAway`, `HistoryIsWhole` |
| `request_executor` | jobs of 2 and 1 samples of two users, 2 slots, 2 attempts, 1 fault \| 1 challenge of V1 and 1 added, 2 builders, 1 replaced dataset | 2.7 M | `NoOverlap`, `OnlyWholeResults`, `CloseLeavesNothing`, `ExecutorImplementsLifecycle` \| `CatalogsLoad`, `PairsMatch`, `InstanceKeepsContracts` |
| `request_liveness` | the same jobs, 1 slot, 1 attempt, 1 fault | 73 k | `Served`, `LateWorkEnds` |
| `postgres_admission` | 2 submissions, users, tasks, sources and connections, 1 administrator, queue depths 1 and 2, time to 2 | 2.3 M | `AdmissionsBounded`, `NoLockCycle`, `NothingAdmittedWhenClosed`, `ChangesAreInformed`, `PostgresLifecycle` |
| `accounts` | 2 addresses, passwords and requests, 3 links, 2 sessions, time to 3 \| 3 threads, capacity 2, 4 mails | 1.9 M | `SessionsFollowResets`, `MailDecidesAccounts` \| `MailsGoOneByOne` |
| `judging` | 4 evaluations of 2 challenges in 2 lanes, a cache for one of them, pages of one row, time to 4 | 2.3 M | `CacheHonest`, `FullMarksMeanGold`, `PagesShowOneBoard`, and the assumptions below |

**Bounds.** `MaxTime` bounds a clock. In the stores it exceeds the deadline plus a lease,
so leases end before, at and after the deadline. `MaxFaults` bounds what goes wrong in
a run of the pipeline and of the request executor: one fault at any step reaches every
pair of a crash and its recovery. Receipts and `MaxEntry` bound the Redis stream: with
four of each an entry is requeued twice, and taken over by two consumers in turn. Two
submissions of one user are what the running limit needs, two contracts what an old
deployment needs, three requests are one before, one during and one after a crash; a
call of `generate` only meets the holder of the latch, so two calls reach every
encounter. `MaxRevision` and two sources reach a change that was prepared for a
replaced catalog; `MaxLinks` and `MaxSessions` reach a link reissued after its
successor was used and a session on either side of a reset; `MaxMail` and three threads
a restart after a stop that timed out; two keys, two sessions and two requests on their
way a draft resubmitted after a login in the other window; one replacement of the
dataset and two builders the mixture of two builds; a cache of two entries or two bytes
an eviction by the limit of bytes (that of entries never binds alone in the run; the
theorem `HonestCache` is about any limits). Two connections are two sweeps that wait
for each other, or a sweep and a claim at one row. The per-user limits of `PostgresStore`
never bind in its instance, because they follow from the depth of the queue there;
`SubmissionStore`'s run and theorems are about them. Identifiers (submissions, keys, sources, workers, consumers,
calls, ...) are interchangeable and symmetric in the safety runs; the liveness runs use
no symmetry, nor do those whose instance is not symmetric. `CHECK_DEADLOCK FALSE` is
set where all the work can be done, or a bounded supply of identifiers used up.

**Assumptions of `MCJudging`.** TLC evaluates them before it starts:

* `ScoringAgrees`: every scorer agrees with a reference definition, `AggregatesAreValid`:
  and no sum of outcomes has a metric above one or counts that do not add up;
* `AnswersAgree`: no answer that the parser reads is turned away by the client before, and
  what the client lets pass is read, up to what no schema can say (section 7 has the one
  case that a schema could);
* `FormsParse`: guided answers in a compact form parse, the examples in the prompts are
  such answers, and the same arcs are judged alike in every form;
* `GoldAgrees`: a gold annotation that passes the check of a build, given as an answer, gets
  full marks; `GoldStaysHere`: two samples that look alike without their gold annotations
  are the same request to the model;
* `ChallengesRun`: what is built is valid and can be run on the same dataset, given that
  ids are unique and texts not empty, and a pool chosen for its size suffices;
  `PairsStayTogether`: a public document is valid with its own private one only;
  `SelectionIsFair`: every set of samples is drawn equally often.

The inputs are lists of up to two items, datasets of up to three samples, and every kind
of spelling of a text.

## 5. Fairness

`SubmissionPipeline!Fairness`. The API's dispatcher loop, its sweep, the clock and
each worker's current run go on (weak fairness: they are loops without conditions that
are awakened by a timer, and a crashed process is restarted by its supervisor). A
worker's run ends because every request to the provider is limited to what is left of
the job's deadline. `EveryCallReturns` shows that `generate` keeps to that without the
service's cooperation, up to one case: a response whose body comes in bit by bit and never
ends (section 7). So it is assumed of the service that a body it has begun comes to an end
or falls silent, which `urlopen`'s timeout of one read then notices; the same holds for
the requests of `RequestExecutor!Fairness` below. Strong fairness is assumed for the sweep before a receive,
which the code makes due every few seconds and puts first, and for the receipt of a
message that waits again and again, because both queues are served in order. Nothing is
assumed of faults, which are bounded, nor of clients.

`ProviderCall!Fairness`. The caller's steps and the passing of the deadline; nothing of
the thread or the service, since `urlopen`'s timeout is one of each read and a
response may trickle. `EveryCallReturns` therefore has its exception: a caller that is
again and again, or for ever, found closing a response that its thread is reading.

`RequestExecutor!Fairness`. The coordinator's loop, a new start after a crash, the exit of a
process that was told to stop, and the threads of the pool and their requests go on.
Strong fairness: for the sweep and for the receipt of a message, because the coordinator
asks every route in turn for work and the queue is served in order; for a round that
finds the model healthy (`Survey(stop, TRUE)`), which is an assumption on the model;
and for taking up what a thread has left (`Gathered`), since `wait` returns all threads
that are done. A message comes back when its visibility ends, unless its handler still
holds it (weak). `Served` is about behaviours without incidents, `LateWorkEnds` about all.

## 6. Proofs

All theorems hold for every value of the constants that satisfies the named assumptions of
the modules: limits are positive, identifiers of submissions are finitely many (for the
cardinalities of the limits), names of locks are apart, null values are outside their sets.
Two assumptions of `Judging` state what earlier code has checked: `ManifestAssumption`, that
a published challenge has samples, each with a gold annotation `build_challenge` validated;
`AnswersAssumption`, that the schema checks of `responses.py` let no empty token through.
TLC evaluates these assumptions in every run. The bounds for model checking (`MaxTime`,
`MaxFaults`, ...) are arbitrary.

| Module | About | Invariant | Theorems |
|---|---|---|---|
| `SubmissionPipelineProofs` | `SubmissionStore`, `SubmissionPipeline`, `SerialExecutor` | `FencingInv`, `RollingQuota`, `PipelineInv`, `SerialInv` | types, attempts, stale claims, result ownership, reach of the sweeps, finality, late means deadline; running limit, backlog, keys, rolling quota; refinement of `SubmissionLifecycle`; no lost work, exclusive evaluation, final acknowledgements; the pipeline implements the store; of the serial executor: durable records, one generation, records go by proof |
| `RemoteServiceProofs` | `RedisJobQueue`, `ProviderCall` | `RedisInv`, `LatchInv` | types, one entry per submission, nothing stranded, fencing of receipts, refinement of `JobQueue`; one generation, conclusions free the latch, refinement of `ModelCall` |
| `BoundedExecutorProofs` | `BoundedExecutor`, `Workbench` | `LedgerInv`, `SettledLeft`, `WorkbenchInv` | types, durable records, the bound on the load, the observable fault, orphans stop dispatch, records go by proof, incidents keep records, refinement of `RequestLedger`; one mode outstanding, checkpoint of one instant, no bypass |
| `RequestExecutorProofs` | `SampleScheduler`, `RequestExecutor` | `RequestInv` | types, no overlap, whole results, a close leaves nothing, refinement of `SubmissionLifecycle` |
| `PostgresStoreProofs` | `PostgresStore`, `Administration`, `SubmissionApi` | `PostgresInv`, `VisitsInv`, `HistoryInv` | types, admissions, order of locks, closed means closed, informed changes, refinement of `SubmissionLifecycle`; trouble turns away, whole histories |
| `AccountsProofs` | `Accounts`, `AuthMailQueue`, `WebClient` | `AccountsInv`, `MailInv`, `WebInv` | types, sessions follow resets, only newest links, mail decides accounts; mails one by one; own writes, own pages, one row per draft |
| `ChallengeCatalogProofs` | `ChallengeCatalog` | `CatalogOrder` | types, catalogues load, pairs match, an instance keeps its contracts |
| `JudgingProofs` | `Scoring`, `Judging` | `JudgeInv`, `PageInv` | every answer is scored as the reference definitions say, no aggregate raises; the cache is honest, full marks mean gold, one board for all pages |

The arguments:

* **`FencingInv`** says that the attempt column counts the tokens issued, that only a
  running row has a token, the newest, and that its lease lies within its deadline.
  None of the properties it yields is inductive: that a claim which matches is the
  newest needs the token of the row, and that a row in the queue has an attempt left
  needs every way back into the queue.
* **The rolling quota** is proved although commits are out of order, because
  `AcceptedSince` counts every row from the window's start on, also those later than
  the reader's own clock: for the row with the earliest time of any window, the
  last row that was committed into the window saw all the others.
* **`RedisInv`** ties the index, the stream, the pending list and the receipts
  together: an entry that is live is in the index and in the stream; its receipt, if
  registered, is its owner's; whoever holds another one can settle nothing.
* **`PipelineInv`** relates the worker's program counter to the row it works on: who
  evaluates holds a claim, who acknowledges leaves a row that is over or that
  another delivery covers; and what is queued and published has a message.
* **`LatchInv`** is per call: what the caller may conclude from the events it saw, what
  the thread may still do, and who holds the latch. The heart is that a caller that
  read `request_started` as unset had set `deadline_expired` before, and the thread
  reads that event again after it sets the other.
* **`SerialInv`, `LedgerInv`** say that what runs or may still be sent is on record
  both as seen and as kept, that a process that is down has nothing left to send, and
  that what is kept but no longer seen is over. The last is what makes a torn removal
  harmless. The bound on the load follows from the bound on the records.
* **The ledger's promise.** A request of the abstract ledger is read off the stage of its
  call, its slot and whether it is at large. The refinement needs one more invariant,
  `SettledLeft`: a lane that has left with its request unproved was in a slot and has
  nothing more to send. A begin that is refused or torn maps to the abstract *trouble*.
* **`WorkbenchInv`**: the lock belongs to whoever changes the instance (`LocksHeld`);
  what is outstanding is of one mode, and the application that serves is of it
  (`WorkFollowsMode`); a request in doubt is named by the warning or the ledger, and
  neither lets a process of another kind serve (`DoubtOnRecord`).
* **`RequestInv`**: what threads do is on the ledger and of samples this session has
  dispatched (`SessionInv`); a job is of the attempt the store counts and is reported with
  nothing in flight (`JobsInv`); one submission at a time is admitted or settled
  (`ClaimInv`); a job is queued again only between its conclusion and its retirement
  (`StoreInv`, of which `NoOverlap` is a part). The ledger appears by its promise only.
* **`PostgresInv`**: no two connections hold one lock (`Exclusive`), and what a creation
  found under its locks stays so until it commits (`CreateInv`): the user's lock keeps
  the key unknown, the task's the policy, the queue's the backlog. For the locks, an
  order in which every operation but the sweeps asks; a cycle of waiting would make it go
  round. Sweeps hold nothing but rows, and nobody else waits for a row while it holds a
  lock, so a cycle in which a sweep takes part consists of sweeps (`AsksUpwards`).
* **`ChangeInv`**: the policy an administrator was shown is the present one or has a lower
  revision, so one whose revision still matches is the one that was seen.
* **`HandlersInv`** says which trouble a handler that has passed a check may still not
  know of: it is what the next checks look at. **`HistoryInv`**: what was read is a
  descending run from the newest on, and what was there at the start and was not read
  is older than its last row.
* **`AccountsInv`**: sessions are of the version of their credential, versions only grow,
  and of the links of an address and purpose only the newest is stored. **`MailInv`**: the
  thread that lives is the one that is remembered until it was joined, so there is never a
  second; what is pending was accepted after what was taken.
* **`WebInv`**: an answer that still counts is of the account the page shows
  (`CallsSound`); the key of the draft was only ever used for this account (`KeysSound`).
* **`CatalogOrder`** says what each builder has still to do: every file a registry is to
  name is written or on its builder's list (`CatalogInv`, `ImportInv`); a public
  description goes before what belongs to it (`OutInv`); no two builders fill one file
  (`ApartInv`).
* **Sums and sequences** in `JudgingProofs`. The sum of finitely many numbers is the
  cardinality of the set of their units, pairs of an index and a positive number up to
  what it is mapped to (`SumIsCount`); so sums are compared by comparing sets. What holds
  of every prefix of a text follows from a least counterexample (`UpTo`, from the
  well-foundedness of finite subsets), which needs no scheme of induction with an operator
  as its parameter. `Grown` says where the tokens of a text end and what stands there; with
  it a span in common is a gold token found in its place (`SpansFindTokens`), which is how
  the score of a segmentation meets its reference definition.
* **`JudgeInv`**: a cache entry is the selection of its key, counted once, and within the limits
  (`CacheInv`); what a job has selected and
  scored is of the manifest it was created for (`JobsInv`). Full marks are a sum that
  reaches its bound, so every summand does.
* **`PageInv`**: entries have distinct times no later than the clock (`TimesInv`). A walk
  through pages that is still calm is on a board that has not changed, since whatever
  commits later is younger than `as_of` (`WalkInv`). The board is the one list that is
  sorted by a strict total order (`OneList`).

Where an invariant is a conjunction, the runs check a property that is easier to read, and
the theorem derives it: `RedisInv`, `LatchInv`, `SerialInv`, `LedgerInv`, `PipelineInv` are
stated by theorems and are stronger than what the runs check of them. Some theorems have
no counterpart in a run: `TerminalIsFinal`, `LateMeansDeadline`, `RunningBounded`,
`BacklogBounded`, `OneRowPerKey`, `PipelineUsesStore`, `GivenBackIsNotAcked`,
`RecordsGoByProof`, `LoadBounded`, `LedgerGoesByProof`, `IncidentKeepsRecords`,
`OnlyNewestLinks` and the types. `ScoresAreRight` and `AggregatesNeverRaise` are the
assumptions `ScoringAgrees` and `AggregatesAreValid` of `MCJudging`, for any input.

What stays with TLC, and why:

* `EverySubmissionEnds`, `EveryCallReturns`, `Served`, `LateWorkEnds`: the prover does not
  handle `ENABLED` or fairness.
* The assumptions of `MCJudging` on `Answers` and `ChallengeSamples`, which are compared
  with reference definitions over bounded inputs; some of those definitions are
  recursive. Its assumptions on `Scoring` are proved for all inputs (`ScoresAreRight`,
  `AggregatesNeverRaise`).

Every invariant and every action property the runs check is stated by a theorem.

## 7. Where the code and its documents disagree

Met while modelling; the models follow the code.

* **A blocked delivery is requeued at once.** `docs/ARCHITECTURE.md:105` says it stays
  pending until visibility recovery; the worker nacks it (`submission_jobs.py:380`), and
  only its own loop pauses.
* **The audit may not be durable when the record is cleared.** The comment at
  `executor_state.py:238` says that the archive is durable before clearing. If a recovery is
  cut off after the audit file was replaced and before its directory was synced, the
  second attempt finds the file (line 228), skips the write and the sync, and clears the
  state. After a power loss the state refers to an audit that is gone, and `read_state`
  refuses it; nothing is sent, but the executor needs manual repair. `recover_all` of
  the ledger has the same shape.
* **A timeout of the provider.** `ProviderTimeoutError` is a `TimeoutError` and no
  `ProviderRequestError` (`providers.py:257`), so the `PROVIDER_TIMEOUT` branch at
  `sample_scheduler.py:399` is never taken: a timeout becomes `EXECUTION_FAILED` and aborts
  the session, contrary to `docs/REQUEST_SUBMISSION_INTEGRATION.md`, section 4. A timeout
  that confirms that nothing was sent keeps the serial executor's record all the same
  (`executor_state.py:258`).
* **The deadline of a request is not absolute.** A caller that gives up closes the response
  (`providers.py:793`) before it raises "model service exceeded the absolute request
  deadline". `close` waits for the lock of the reader, which the thread holds during
  `read` (line 899): while a body comes in slowly enough and does not end, `generate` stays.
  `docs/ARCHITECTURE.md:130` has every request timeout clamped to the remaining absolute
  job deadline; the test of that deadline (`tests/test_openai_provider.py:592`) lets
  `urlopen` hang, before there is a response. Hence the exception in `EveryCallReturns`,
  without which TLC finds it violated.
* **Pages of the leaderboard.** `docs/API_CONTRACT.md:245` promises that `as_of` keeps later
  entries from shifting pages. A result gets its `succeeded_at` inside its transaction and
  may commit after the first page was read, and `as_of` is the API process's clock
  (`api.py:642`), not the database's. Hence the premise `calm` of `PagesShowOneBoard`.
* **Whole numbers written as decimals.** The client's schema check admits 2.0 for a token
  id, the strict parser refuses it as `WRONG_TYPE` (`StructureMatchesParser`).
* **The online backup** of a serial instance (`src/scripts/qwen_dev_ops.py:176`) looks for
  the request ledger at its start, without a lock, and dumps later, contrary to
  `docs/REQUEST_BACKUP_RESTORE.md:9`. It is not modelled.

Other behaviour that a reader may not expect, and that contradicts no document:

* A job that is swept as late while one of its requests is still running stays active in
  the scheduler; if the same user's next submission is claimed then, `add_job` raises
  and the whole session aborts (`sample_scheduler.py:163`).
* A crash between `CREATE DATABASE` and its comment, in the middle of writing
  `instance.json`, or between making the directory `request-executor` and its state leaves
  an instance that refuses every later start until it is repaired by hand.
* A process of the serial workbench that is killed during a request leaves no record of it
  (`uncertain-inference.json` is written when `run_once` has returned): these are the *lost*
  requests, of which `NoBypass` says nothing. The warning is removed by hand and without a
  lock, so `CheckpointIsOneInstant` is about ledger and submissions.
* Two sweeps over PostgreSQL that find the same rows in different orders may wait for each
  other, and PostgreSQL ends one. The dispatcher's loop in the API logs it and goes on
  (`api.py:858`), and so does the loop of `local_dev.py`; `run_once` does not catch it, so
  a process of `qwen_worker.py` or `qwen_executor.py` whose sweep is chosen ends.
* The mail service refuses the first start after a stop that timed out; the start after
  that succeeds.
* A challenge may be built that cannot be run: ids need to be unique only within the pool it
  is drawn from, and texts may be empty. Its samples are selected before the dataset file is
  hashed, so a file that is replaced in between is named by the hash.
* A registry that an import has written does not load until its files are there; a torn
  file makes every later import or build refuse.
* If the cookie of a login is stored and the body of its answer is broken, the page shows
  the old account until its next check; submissions are refused in the meantime.
* The API asks whether the runtime is available before it looks for an idempotent replay.

## 8. What is not modelled

* Reads that change nothing: owner views, catalogues, listings, health checks, rendering.
* Contents: prompts, request bodies, digests and their validation, permissions of files,
  symbolic links; error bodies and logs; diagnostics of an evaluation.
* Startup configuration: plans, pinned versions, attestation of the runtime; a process that
  starts has passed them. `bounded_dispatch.py`, which nothing in the service starts.
* Several API processes at once over SQLite. The dispatcher's steps tolerate any
  interleaving of publications (`JobQueue!Publish` of what is there changes nothing, and
  marking is idempotent), but only one process is composed.
* PostgreSQL's unique constraints, registration of users, the outbox on PostgreSQL, the
  *check* action of administration. A sweep takes all that has lapsed: its restriction to
  one evaluation identity is left out.
* `run_round` and the preparation of a job's prompts in the scheduler; thread start-up
  failures; interrupts of a main thread other than as a crash.
* Throttling other than as a refusal; the SMTP client; provisioning of an account in
  development while a verification link exists.
* Mailed links, the administrator's views, the bearer mode and the catalogue pages of the
  web client. A page has one draft.
* `before_sample` raising (`sample_scheduler.py:231`), which has no step of its own.
* In Redis a consumer that looks for a fresh entry, finds none and takes a stale one makes
  two calls; `Reclaim` is one step. `BeginSingle` assumes that `challenge.py` is run for
  challenges of V1 only.
* Power loss in `ChallengeCatalog` (its files are not synced), two importers at once, the
  discarding of a staging directory during an import, the approval of a marker and the
  draining before an upgrade.
* Malformed entries of the Redis stream, which its publisher does not make.
* The order of leaderboard rows with equal times: times are distinct here.
* Everything marked `not_modelled` in `PROJECT.json`, for the reason given there.

## 9. Plan

1. Separate what `ChallengeSamples` needs of `Answers` from the recursive definitions there,
   and prove what it promises (`GoldIsAnswer`, `PoolSuffices`) for all inputs.
2. Read the proofs of `ChallengeCatalogProofs` and `AccountsProofs` again for lemmas about
   files and tables that can be stated once.
3. The outbox on PostgreSQL in `PostgresStore`.
4. The online backup of a serial instance in `Workbench`.
