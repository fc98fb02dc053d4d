-------------------------- MODULE BoundedExecutor --------------------------
(***************************************************************************)
(* The ledger of the concurrent executor: every request in flight is in one*)
(* durable state, which several lanes change under one lock.  A request    *)
(* whose end is in doubt blocks the ledger: the lanes drain, no record is  *)
(* removed any more, and after the process is gone an operator must attest *)
(* the end of all that is pending before another process sends anything.   *)
(*                                                                         *)
(* Each operation of the state object holds the lock, and so is one action.*)
(***************************************************************************)
EXTENDS DurableFile, FiniteSets, Naturals

CONSTANTS
    Call,        \* the operations of the executor, of all its processes
    MaxInflight, \* max_inflight
    DiskMayFail  \* whether reads and writes may fail or be cut off

ASSUME BoundedAssumption == MaxInflight \in Nat \ {0} /\ DiskMayFail \in BOOLEAN

VARIABLES
    stage, remote, \* see ModelCall
    file,     \* state.json
    archive,  \* the audits, each named by the set of requests it is about
    process,  \* the process that holds executor.lock
    live,     \* the operations this process has begun
    settled,  \* those of them whose callers have blocked the ledger and left
    poisoned, \* a write failed, or a request is in doubt
    startup,  \* requests were pending when the process began
    fault     \* dispatch_faulted, which can be read without the lock

M == INSTANCE ModelCall

callVars == <<stage, remote>>
memoryVars == <<live, settled, poisoned, startup, fault>>
boundedVars == <<callVars, file, archive, process, memoryVars>>

\* The last recovery is known by what it recovered; {} before the first.
State == [pending : SUBSET Call, blocked : BOOLEAN, last : SUBSET Call]
Clean == [pending |-> {}, blocked |-> FALSE, last |-> {}]

BoundedInit ==
    /\ M!CallInit
    /\ file = Both(Clean)
    /\ archive = Both({})
    /\ process = "down"
    /\ live = {} /\ settled = {}
    /\ poisoned = FALSE /\ startup = FALSE /\ fault = FALSE

Pending == file.seen.pending

\* read_bounded_state: the state refers to an audit that is there.
Readable == file.seen.last = {} \/ file.seen.last \in archive.seen

\* require_dispatchable.
Dispatchable ==
    ~fault /\ ~poisoned /\ ~startup /\ ~file.seen.blocked /\ Pending = live

\* Operation identifiers are new.
Fresh(c) ==
    stage[c] = "idle" /\ c \notin UNION (archive.seen \cup {file.seen.last}) \cup Pending

Start ==
    /\ process = "down"
    /\ Readable
    /\ process' = "up"
    /\ startup' = (Pending # {})
    /\ fault' = (Pending # {} \/ file.seen.blocked)
    /\ UNCHANGED <<callVars, file, archive, live, settled, poisoned>>

\* A lane asks while the gate is shut, or the state cannot be read.
Refuse ==
    /\ process = "up"
    /\ ~Dispatchable \/ DiskMayFail
    /\ fault' = TRUE
    /\ UNCHANGED <<callVars, file, archive, process, live, settled, poisoned, startup>>

WithPending(P) == [file.seen EXCEPT !.pending = P]

\* Mutant: a process does not look at what an earlier one left, and records its
\* own requests alone.
BeginRegardless(c) ==
    /\ process = "up" /\ ~poisoned /\ ~file.seen.blocked /\ Fresh(c)
    /\ Cardinality(live) < MaxInflight
    /\ file' = Both(WithPending(live \cup {c}))
    /\ live' = live \cup {c}
    /\ M!Open(c)
    /\ UNCHANGED <<archive, process, settled, poisoned, startup, fault>>

\* begin, ahead of every request.  If the write fails nothing is sent.
Begin(c) ==
    /\ process = "up"
    /\ Dispatchable
    /\ Fresh(c)
    /\ Cardinality(Pending) < MaxInflight
    /\ LET record == WithPending(Pending \cup {c}) IN
          \/ /\ file' = Both(record)
             /\ live' = live \cup {c}
             /\ M!Open(c)
             /\ UNCHANGED <<poisoned, fault>>
          \/ /\ DiskMayFail
             /\ file' \in Torn(file, record)
             /\ poisoned' = TRUE /\ fault' = TRUE
             /\ UNCHANGED <<callVars, live>>
    /\ UNCHANGED <<archive, process, settled, startup>>

Incident == fault \/ poisoned \/ file.seen.blocked

\* finish: the request returned, or reported its end.  After an incident the
\* record stays.  (The check that the operation is live and on record never
\* fails.)
Finish(c) ==
    /\ process = "up"
    /\ c \in live \ settled
    /\ stage[c] = "confirmed"
    /\ \/ /\ Incident
          /\ live' = live \ {c}
          /\ UNCHANGED <<file, settled, poisoned, fault>>
       \/ /\ ~Incident
          /\ file' = Both(WithPending(Pending \ {c}))
          /\ live' = live \ {c}
          /\ UNCHANGED <<settled, poisoned, fault>>
       \/ /\ ~Incident /\ DiskMayFail
          /\ file' \in Torn(file, WithPending(Pending \ {c}))
          /\ settled' = settled \cup {c}
          /\ poisoned' = TRUE /\ fault' = TRUE
          /\ UNCHANGED live
       \/ /\ DiskMayFail
          /\ settled' = settled \cup {c}
          /\ fault' = TRUE
          /\ UNCHANGED <<file, live, poisoned>>
    /\ UNCHANGED <<callVars, archive, process, startup>>

\* block: the end of the request is in doubt, or it timed out, whatever the
\* timeout says (see SerialExecutor).
Block(c) ==
    /\ process = "up"
    /\ c \in live \ settled
    /\ stage[c] \in {"uncertain", "timedout"}
    /\ LET blocked == [file.seen EXCEPT !.blocked = TRUE] IN
          file' = Both(blocked) \/ (DiskMayFail /\ file' \in Torn(file, blocked))
    /\ settled' = settled \cup {c}
    /\ poisoned' = TRUE /\ fault' = TRUE
    /\ UNCHANGED <<callVars, archive, process, live, startup>>

Forget ==
    /\ process' = "down"
    /\ live' = {} /\ settled' = {}
    /\ poisoned' = FALSE /\ startup' = FALSE /\ fault' = FALSE
    /\ M!Abandon(Call)

\* The process exits or crashes.
Exit == process # "down" /\ Forget /\ UNCHANGED <<file, archive>>

PowerLoss ==
    /\ Forget
    /\ file' \in AfterPowerLoss(file)
    /\ archive' \in EntriesAfterPowerLoss(archive)

----------------------------------------------------------------------------
\* The operator, who runs recover when no executor runs, and tells the truth
\* about every pending request.

Audit ==
    /\ process = "down"
    /\ Readable
    /\ Pending # {}
    /\ Pending \cap M!Running = {}
    /\ \/ /\ \/ archive' = Both(archive.seen \cup {Pending})
             \/ Pending \in archive.seen /\ UNCHANGED archive
          /\ process' = "recovering"
       \/ /\ DiskMayFail
          /\ Pending \notin archive.seen
          /\ archive' \in Torn(archive, archive.seen \cup {Pending})
          /\ UNCHANGED process
    /\ UNCHANGED <<callVars, file, memoryVars>>

Clear ==
    /\ process = "recovering"
    /\ LET cleared == [pending |-> {}, blocked |-> FALSE, last |-> Pending] IN
          file' = Both(cleared) \/ (DiskMayFail /\ file' \in Torn(file, cleared))
    /\ process' = "down"
    /\ UNCHANGED <<callVars, archive, memoryVars>>

----------------------------------------------------------------------------
\* The providers and the model service, while the process lives.
Model ==
    /\ \E c \in Call :
          \/ M!Launch(c) \/ M!Stop(c) \/ M!Conclude(c)
          \/ stage[c] = "open" /\ M!Doubt(c)
    /\ UNCHANGED <<file, archive, process, memoryVars>>

BoundedNext ==
    \/ Start \/ Refuse \/ Exit \/ PowerLoss \/ Audit \/ Clear \/ Model
    \/ \E c \in Call : Begin(c) \/ Finish(c) \/ Block(c)

BoundedSpec == BoundedInit /\ [][BoundedNext]_boundedVars

----------------------------------------------------------------------------
BoundedTypeOK ==
    /\ M!CallTypeOK
    /\ file \in [seen : State, kept : State]
    /\ archive \in [seen : SUBSET SUBSET Call, kept : SUBSET SUBSET Call]
    /\ process \in {"down", "up", "recovering"}
    /\ live \in SUBSET Call /\ settled \in SUBSET Call
    /\ poisoned \in BOOLEAN /\ startup \in BOOLEAN /\ fault \in BOOLEAN

Launchable == {c \in Call : stage[c] \in {"open", "uncertain"}}

\* What runs, or may still be sent, is on record, and the record outlives a
\* power loss.
UnderWayIsOnRecord ==
    M!Running \cup Launchable \subseteq Pending \cap file.kept.pending

\* The model never works on more requests than the ledger has slots, however
\* many processes have begun some.
LoadBounded == Cardinality(M!Running \cup Launchable) <= MaxInflight

\* Whoever reads dispatch_faulted without the lock, between two steps of the
\* lanes, learns of everything that shuts the gate.
FaultIsObservable == process = "up" /\ ~Dispatchable => fault

\* While a request of an earlier process runs, none is begun.
OrphansStopDispatch ==
    [][\A c, d \in Call :
          stage[c] = "idle" /\ stage'[c] = "open" => ~(d \in M!Running /\ stage[d] = "dead")
      ]_boundedVars

\* A record goes when the request is known to be over or its end has been
\* attested in an audit of all that was pending with it.
LedgerGoesByProof ==
    [][\A c \in file.kept.pending \ file'.kept.pending :
          stage[c] = "confirmed" \/ \E P \in archive.seen : c \in P]_boundedVars

\* Once a process has met an incident it removes no record: the operator sees
\* every request that was in flight.
IncidentKeepsRecords ==
    [][fault /\ process = "up" /\ process' = "up" => Pending \subseteq Pending']_boundedVars

\* Neither what is seen nor what is kept holds more than the slots.
RecordsBounded ==
    /\ Cardinality(Pending) <= MaxInflight
    /\ Cardinality(file.kept.pending) <= MaxInflight

\* Who may still act on what: only the lanes of a process that is up can send,
\* the operator clears only what is attested, and what has left the ledger
\* but not the disk is over.
Custody ==
    /\ \A c \in M!Running : stage[c] \in {"open", "uncertain", "dead"}
    /\ Launchable \subseteq live
    /\ \A c \in live : stage[c] \in {"open", "confirmed", "uncertain", "timedout"}
    /\ process # "up" => live = {} /\ ~poisoned /\ ~startup /\ ~fault
    /\ process = "recovering" => Pending \in archive.seen /\ Pending \cap M!Running = {}
    /\ \A c \in file.kept.pending \ Pending :
          stage[c] = "confirmed" \/ \E P \in archive.seen : c \in P

\* The four together are inductive.
LedgerInv == UnderWayIsOnRecord /\ RecordsBounded /\ FaultIsObservable /\ Custody

----------------------------------------------------------------------------
\* What a request is to those who only know the promise: it is adrift while it
\* runs, or may still be sent, and no lane answers for it.
AtLarge(c) == remote[c] = "running" \/ (stage[c] = "uncertain" /\ remote[c] = "none")

AsCall(c) ==
    IF stage[c] = "idle" THEN "new"
    ELSE IF c \in live \ settled THEN "open"
    ELSE IF AtLarge(c) THEN "adrift"
    ELSE "over"

Promise == INSTANCE RequestLedger WITH
    call <- [c \in Call |-> AsCall(c)],
    process <- IF process = "up" THEN "up" ELSE "down"

\* The ledger keeps the promise the scheduler relies on: with locks, files that
\* may be torn and an operator's audits, no request begins while an orphan of
\* an earlier process or of a lane that gave up may still run.
KeepsPromise == Promise!LedgerSpec
=============================================================================
