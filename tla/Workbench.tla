----------------------------- MODULE Workbench -----------------------------
(***************************************************************************)
(* The private workbench of one instance: the application, which evaluates  *)
(* either serially or, with an execution profile, request by request, and   *)
(* the tools that an operator runs on the same state directory.             *)
(*                                                                         *)
(* .server.lock belongs to whoever serves, initializes or backs up; the     *)
(* lock of the ledger to the application with a profile, to a backup and to *)
(* a recovery.  A process dies at any moment, and then its locks are free   *)
(* and its requests run on at the model.                                     *)
(* BoundedExecutor has the ledger in detail, the stores the submissions.    *)
(***************************************************************************)
EXTENDS Naturals, FiniteSets

CONSTANTS
    Profile,      \* execution profiles, each with contracts of its own
    Serial,       \* no profile: the registered contracts
    Job,
    Request, JobOf,
    RequestSlots, \* request_slots of every profile
    NoLedger

ASSUME WorkbenchAssumption ==
    /\ RequestSlots \in Nat \ {0}
    /\ NoLedger \notin [profile : Profile, pending : SUBSET Request, blocked : BOOLEAN]
    /\ Serial \notin Profile
    /\ JobOf \in [Request -> Job]

VARIABLES
    holder,    \* who has .server.lock
    app,       \* the application
    marker,    \* instance.json
    database,  \* the instance's database
    warning,   \* whether uncertain-inference.json is there
    ledger,    \* the directory request-executor
    jobs,      \* the submissions, each with the contract it is for
    requests,  \* the model requests
    copy       \* the backup under way

stateDirectory == <<marker, database, warning, ledger>>
work == <<jobs, requests>>
workbenchVars == <<holder, app, stateDirectory, work, copy>>

Mode == Profile \cup {Serial}
Down == [phase |-> "down", mode |-> Serial, initialize |-> FALSE]
NoCopy == [stage |-> "none"]
Inspected == [stage |-> "inspected", ledger |-> ledger]

\* The directory was made, and the state was not written.
Begun == [bare |-> TRUE]
Initialized(p) == [profile |-> p, pending |-> {}, blocked |-> FALSE]

Written == ledger \notin {NoLedger, Begun}
Holds(p) == Written /\ ledger.profile = p
LedgerClean == ledger.pending = {} /\ ~ledger.blocked

Outstanding == {j \in Job : jobs[j].status \in {"queued", "running", "stranded"}}
OutstandingModes == {jobs[j].mode : j \in Outstanding}

In(phases) == app.phase \in phases

\* Who evaluates request by request holds the lock of the ledger.
LedgerLockFree ==
    /\ holder \notin {"init", "backup"}
    /\ ~(app.mode # Serial /\ In({"serving", "failed", "draining"}))

WorkbenchInit ==
    /\ holder = "none"
    /\ app = Down
    /\ marker = "none"
    /\ database = "none"
    /\ warning = FALSE
    /\ ledger = NoLedger
    /\ jobs = [j \in Job |-> [status |-> "new", mode |-> Serial]]
    /\ requests = [r \in Request |-> "new"]
    /\ copy = NoCopy

----------------------------------------------------------------------------
\* Start

\* Mutant: the serial application starts whatever the ledger says.
LegacyUnchecked == TRUE

\* require_legacy_safe
LegacySafe == ledger = NoLedger \/ (Written /\ LedgerClean)

LaunchApp(m, initialize) ==
    /\ holder = "none"
    /\ holder' = "app"
    /\ app' = [phase |-> "locked", mode |-> m, initialize |-> initialize]
    /\ UNCHANGED <<stateDirectory, work, copy>>

\* The first checks of _build_qwen_development and of prepare_store.
Admit ==
    /\ In({"locked"})
    /\ ~warning
    /\ app.mode = Serial => LegacySafe
    /\ marker # "torn"
    /\ marker = "none" => app.initialize
    /\ app' = [app EXCEPT !.phase = "started"]
    /\ UNCHANGED <<holder, stateDirectory, work, copy>>

\* prepare_store: the marker of a new instance, whose writing may be cut off.
WriteMarker ==
    /\ In({"started"}) /\ marker = "none"
    /\ \/ marker' = "written" /\ UNCHANGED <<holder, app>>
       \/ marker' = "torn" /\ holder' = "none" /\ app' = Down
    /\ UNCHANGED <<database, warning, ledger, work, copy>>

\* The database is created, and then marked as this instance's.
CreateDatabase ==
    /\ In({"started"}) /\ marker = "written"
    /\ app.initialize
    /\ database = "none"
    /\ database' = "bare"
    /\ app' = [app EXCEPT !.phase = "created"]
    /\ UNCHANGED <<holder, marker, warning, ledger, work, copy>>

CommentDatabase ==
    /\ In({"created"})
    /\ database' = "owned"
    /\ app' = [app EXCEPT !.phase = "started"]
    /\ UNCHANGED <<holder, marker, warning, ledger, work, copy>>

\* The schema, and the store over it.
OpenStore ==
    /\ In({"started"}) /\ marker = "written"
    /\ IF app.initialize THEN database \in {"owned", "ready"} ELSE database = "ready"
    /\ database' = "ready"
    /\ app' = [app EXCEPT !.phase = "stored"]
    /\ UNCHANGED <<holder, marker, warning, ledger, work, copy>>

\* Mutant: what the last profile left in the queues is not looked at.
AttachAnyhow ==
    /\ In({"stored"})
    /\ app.mode # Serial => Holds(app.mode) /\ LedgerClean
    /\ app' = [app EXCEPT !.phase = "serving"]
    /\ UNCHANGED <<holder, stateDirectory, work, copy>>

\* require_compatible_outstanding and, with a profile, build_runtime.
Attach ==
    /\ In({"stored"})
    /\ OutstandingModes \subseteq {app.mode}
    /\ app.mode # Serial => Holds(app.mode) /\ LedgerClean
    /\ app' = [app EXCEPT !.phase = "serving"]
    /\ UNCHANGED <<holder, stateDirectory, work, copy>>

----------------------------------------------------------------------------
\* Work.  A request is "sent" while its process waits for it, "late" when the
\* process has given up on it, in "doubt" when that is on record, and "lost"
\* when its process was killed without a record.

\* A submission accepted by the API, for the contracts that the application has.
SubmitJob(j) ==
    /\ In({"serving"})
    /\ jobs[j].status = "new"
    /\ jobs' = [jobs EXCEPT ![j] = [status |-> "queued", mode |-> app.mode]]
    /\ UNCHANGED <<holder, app, stateDirectory, requests, copy>>

Running(j) == jobs[j].status = "running"

Waiting == {r \in Request : requests[r] \in {"sent", "late"}}

\* One job at a time, or as many as the profile has.
ClaimJob(j) ==
    /\ In({"serving"})
    /\ jobs[j] = [status |-> "queued", mode |-> app.mode]
    /\ app.mode = Serial => Waiting = {} /\ ~\E k \in Job : Running(k)
    /\ jobs' = [jobs EXCEPT ![j].status = "running"]
    /\ UNCHANGED <<holder, app, stateDirectory, requests, copy>>

\* Serially, one after the other; with a profile as many as there are slots,
\* each of them on record.
SendRequest(r) ==
    /\ In({"serving", "draining"})
    /\ requests[r] = "new" /\ Running(JobOf[r])
    /\ requests' = [requests EXCEPT ![r] = "sent"]
    /\ \/ /\ app.mode = Serial
          /\ Waiting = {}
          /\ UNCHANGED ledger
       \/ /\ app.mode # Serial
          /\ ~ledger.blocked
          /\ Cardinality(ledger.pending) < RequestSlots
          /\ ledger' = [ledger EXCEPT !.pending = ledger.pending \cup {r}]
    /\ UNCHANGED <<holder, app, marker, database, warning, jobs, copy>>

\* The answer, also one that comes before the lateness was looked at.  After
\* an incident no record is removed.
AnswerRequest(r) ==
    /\ requests[r] \in {"sent", "late"}
    /\ requests' = [requests EXCEPT ![r] = "over"]
    /\ \/ app.mode = Serial /\ UNCHANGED ledger
       \/ /\ app.mode # Serial
          /\ ledger' = IF ledger.blocked THEN ledger
                       ELSE [ledger EXCEPT !.pending = ledger.pending \ {r}]
    /\ UNCHANGED <<holder, app, marker, database, warning, jobs, copy>>

\* A timeout, or a connection that breaks: with a profile the ledger is blocked
\* and the application shuts down.
GiveUp(r) ==
    /\ requests[r] = "sent"
    /\ \/ /\ app.mode = Serial
          /\ requests' = [requests EXCEPT ![r] = "late"]
          /\ UNCHANGED <<app, ledger>>
       \/ /\ app.mode # Serial
          /\ requests' = [requests EXCEPT ![r] = "doubt"]
          /\ ledger' = [ledger EXCEPT !.blocked = TRUE]
          /\ app' = [app EXCEPT !.phase = "failed"]
    /\ UNCHANGED <<holder, marker, database, warning, jobs, copy>>

\* Serially, _consume_serial_workers finds the provider still busy.
WriteWarning(r) ==
    /\ requests[r] = "late"
    /\ warning' = TRUE
    /\ app' = [app EXCEPT !.phase = "failed"]
    /\ requests' = [requests EXCEPT ![r] = "doubt"]
    /\ UNCHANGED <<holder, marker, database, ledger, jobs, copy>>

RequestsOf(j) == {r \in Request : JobOf[r] = j}

\* A result, a failure or a retry, also while a request is late, and the end of
\* a lease.
FinishJob(j) ==
    /\ In({"serving", "draining", "failed"})
    /\ \/ /\ Running(j)
          /\ \A r \in RequestsOf(j) : requests[r] # "sent"
          /\ \E status \in {"over", "queued"} : jobs' = [jobs EXCEPT ![j].status = status]
       \/ /\ jobs[j] = [status |-> "stranded", mode |-> app.mode]
          /\ jobs' = [jobs EXCEPT ![j].status = "over"]
    /\ UNCHANGED <<holder, app, stateDirectory, requests, copy>>

StopApp ==
    /\ In({"serving"})
    /\ app' = [app EXCEPT !.phase = "draining"]
    /\ UNCHANGED <<holder, stateDirectory, work, copy>>

\* What the end of the process leaves of its work.
Left(r) ==
    CASE requests[r] = "sent" /\ app.mode # Serial -> "doubt"
      [] requests[r] \in {"sent", "late"} /\ app.mode = Serial -> "lost"
      [] OTHER -> requests[r]

Leave ==
    /\ holder' = "none"
    /\ app' = Down
    /\ requests' = [r \in Request |-> Left(r)]
    /\ jobs' = [j \in Job |-> IF Running(j) THEN [jobs[j] EXCEPT !.status = "stranded"]
                              ELSE jobs[j]]
    /\ UNCHANGED <<stateDirectory, copy>>

\* Before it serves, the application leaves at the first refusal; afterwards
\* when its work is drained.
LeaveApp ==
    /\ \/ In({"locked", "started", "stored"})
       \/ In({"draining", "failed"}) /\ Waiting = {}
    /\ Leave

KillApp == ~In({"down"}) /\ Leave

\* The model comes to an end with what nobody waits for.
EndAtModel(r) ==
    /\ requests[r] \in {"doubt", "lost"}
    /\ requests' = [requests EXCEPT ![r] = "over"]
    /\ UNCHANGED <<holder, app, stateDirectory, jobs, copy>>

----------------------------------------------------------------------------
\* The operator's tools.

\* initialize_state: the directory, and then the state in it.
BeginLedger ==
    /\ holder = "none"
    /\ marker = "written" /\ ~warning
    /\ ledger = NoLedger
    /\ holder' = "init"
    /\ ledger' = Begun
    /\ UNCHANGED <<app, marker, database, warning, work, copy>>

WriteLedger(p) ==
    /\ holder = "init"
    /\ ledger' = Initialized(p)
    /\ holder' = "none"
    /\ UNCHANGED <<app, marker, database, warning, work, copy>>

KillInitialization ==
    /\ holder = "init"
    /\ holder' = "none"
    /\ UNCHANGED <<app, stateDirectory, work, copy>>

Over(S) == \A r \in S : requests[r] = "over"

\* Mutant: a recovery asks for no lock.
RecoverAnyTime ==
    /\ Written /\ ~LedgerClean
    /\ Over(ledger.pending)
    /\ ledger' = [ledger EXCEPT !.pending = {}, !.blocked = FALSE]
    /\ UNCHANGED <<holder, app, marker, database, warning, work, copy>>

\* The recovery of the ledger, by an operator who tells the truth.
RecoverLedger ==
    /\ Written /\ ~LedgerClean
    /\ LedgerLockFree
    /\ Over(ledger.pending)
    /\ ledger' = [ledger EXCEPT !.pending = {}, !.blocked = FALSE]
    /\ UNCHANGED <<holder, app, marker, database, warning, work, copy>>

\* The warning is removed by hand, when the model is known to be at rest.
ClearWarning ==
    /\ warning
    /\ \A r \in Request : requests[r] # "doubt"
    /\ warning' = FALSE
    /\ UNCHANGED <<holder, app, marker, database, ledger, work, copy>>

\* backup_request: under both locks the ledger is inspected,
BeginCheckpoint ==
    /\ holder = "none" /\ LedgerLockFree
    /\ marker = "written" /\ database = "ready"
    /\ Written
    /\ holder' = "backup"
    /\ copy' = Inspected
    /\ UNCHANGED <<app, stateDirectory, work>>

\* its files are archived, and the database is dumped, unless submissions of
\* another profile are outstanding.
DumpDatabase ==
    /\ copy.stage = "inspected"
    /\ OutstandingModes \subseteq {copy.ledger.profile}
    /\ copy' = [stage |-> "dumped", ledger |-> ledger, jobs |-> jobs]
    /\ UNCHANGED <<holder, app, stateDirectory, work>>

\* The manifest is published, or the tool ends without one.
EndCheckpoint ==
    /\ holder = "backup"
    /\ copy' = NoCopy
    /\ holder' = "none"
    /\ UNCHANGED <<app, stateDirectory, work>>

----------------------------------------------------------------------------
WorkbenchNext ==
    \/ \E m \in Mode, initialize \in BOOLEAN : LaunchApp(m, initialize)
    \/ Admit \/ WriteMarker \/ CreateDatabase \/ CommentDatabase \/ OpenStore \/ Attach
    \/ \E j \in Job : SubmitJob(j) \/ ClaimJob(j) \/ FinishJob(j)
    \/ \E r \in Request :
          \/ SendRequest(r) \/ AnswerRequest(r) \/ GiveUp(r) \/ WriteWarning(r)
          \/ EndAtModel(r)
    \/ StopApp \/ LeaveApp \/ KillApp
    \/ BeginLedger \/ KillInitialization \/ RecoverLedger \/ ClearWarning
    \/ \E p \in Profile : WriteLedger(p)
    \/ BeginCheckpoint \/ DumpDatabase \/ EndCheckpoint

WorkbenchSpec == WorkbenchInit /\ [][WorkbenchNext]_workbenchVars

----------------------------------------------------------------------------
\* No way of starting bypasses what another left behind: no request is sent
\* while one that is on record as given up, in the ledger or in the warning,
\* may still run at the model.
NoBypass ==
    [][\A r \in Request :
          requests[r] = "new" /\ requests'[r] = "sent"
              => \A q \in Request : requests[q] \notin {"late", "doubt"}]_workbenchVars

\* What is outstanding was submitted under the contracts of one mode, so that
\* whoever serves can bring all of it to an end.
OneModeOutstanding ==
    /\ Cardinality(OutstandingModes) <= 1
    /\ In({"serving", "draining", "failed"}) => OutstandingModes \subseteq {app.mode}

\* A checkpoint is of one instant: until its manifest is written the ledger and
\* the submissions are the ones that were copied.
CheckpointIsOneInstant ==
    /\ copy.stage # "none" => copy.ledger = ledger
    /\ copy.stage = "dumped" => copy.jobs = jobs
=============================================================================
