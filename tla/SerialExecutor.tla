--------------------------- MODULE SerialExecutor ---------------------------
(***************************************************************************)
(* The deployed executor: one process that owns the model and sends it one *)
(* request at a time.  Before a request it writes a pending record to disk,*)
(* and it removes the record only when the request is surely over.  What   *)
(* it leaves behind is a barrier: no process sends another request until an*)
(* operator has attested, in an audit file, that the generation ended.     *)
(*                                                                         *)
(* The state and the audits are DurableFile's; the calls and the remote    *)
(* service are ModelCall's.  The provider is of one call at a time here, so *)
(* a concluded call leaves it free (ConcludedIsFree of ProviderCall) and   *)
(* the executor's look at has_active_request finds nothing.                *)
(***************************************************************************)
EXTENDS DurableFile

CONSTANTS
    Call,        \* the operations of the executor, of all its processes
    NoCall,
    DiskMayFail  \* whether reads and writes may fail or be cut off

ASSUME SerialAssumption == NoCall \notin Call /\ DiskMayFail \in BOOLEAN

VARIABLES
    stage, remote, \* see ModelCall
    file,     \* state.json: what a reader sees, and what is kept over a power loss
    archive,  \* the audit files of recoveries, likewise
    process,  \* the process that holds executor.lock
    current,  \* the operation it is about
    poisoned  \* a write failed in this process

M == INSTANCE ModelCall

callVars == <<stage, remote>>
executorVars == <<process, current, poisoned>>
serialVars == <<callVars, file, archive, executorVars>>

State == [pending : Call \cup {NoCall}, last : Call \cup {NoCall}]
Clean == [pending |-> NoCall, last |-> NoCall]

SerialInit ==
    /\ M!CallInit
    /\ file = [seen |-> Clean, kept |-> Clean]
    /\ archive = [seen |-> {}, kept |-> {}]
    /\ process = "down"
    /\ current = NoCall
    /\ poisoned = FALSE

----------------------------------------------------------------------------
\* The executor.

\* read_state: the state refers to an audit that is there.
Readable == file.seen.last = NoCall \/ file.seen.last \in archive.seen

Barred == poisoned \/ file.seen.pending # NoCall

\* Operation identifiers are new.
Fresh(c) == stage[c] = "idle" /\ c \notin archive.seen /\ c # file.seen.last

Start ==
    /\ process = "down"
    /\ Readable /\ ~Barred
    /\ process' = "idle"
    /\ UNCHANGED <<callVars, file, archive, current, poisoned>>

Record(c) == [file.seen EXCEPT !.pending = c]

\* Mutant: the barrier is not looked at.
BeginAlways(c) ==
    /\ process = "idle" /\ Readable /\ ~poisoned /\ Fresh(c)
    /\ file' = Both(Record(c))
    /\ M!Open(c)
    /\ process' = "calling"
    /\ current' = c
    /\ UNCHANGED <<archive, poisoned>>

\* begin, ahead of every request.  If the write fails nothing is sent.
Begin(c) ==
    /\ process = "idle"
    /\ Readable /\ ~Barred
    /\ Fresh(c)
    /\ \/ /\ file' = Both(Record(c))
          /\ M!Open(c)
          /\ process' = "calling"
          /\ current' = c
          /\ UNCHANGED poisoned
       \/ /\ DiskMayFail
          /\ file' \in Torn(file, Record(c))
          /\ poisoned' = TRUE
          /\ UNCHANGED <<callVars, process, current>>
    /\ UNCHANGED archive

Back == process' = "idle" /\ current' = NoCall

\* The request returned, or failed in a way that reports its end: finish.
Finish ==
    /\ process = "calling"
    /\ stage[current] = "confirmed"
    /\ \/ file' = Both(Record(NoCall)) /\ UNCHANGED poisoned
       \/ DiskMayFail /\ file' \in Torn(file, Record(NoCall)) /\ poisoned' = TRUE
       \/ DiskMayFail /\ UNCHANGED <<file, poisoned>>
    /\ Back
    /\ UNCHANGED <<callVars, archive>>

\* Anything else leaves the record: a lost connection, an unexpected exception,
\* and every timeout, whatever it says (ProviderTimeoutError is no
\* ProviderRequestError).
Retain ==
    /\ process = "calling"
    /\ stage[current] \in {"uncertain", "timedout"}
    /\ Back
    /\ UNCHANGED <<callVars, file, archive, poisoned>>

\* The process exits, being stopped or barred, or crashes.
Exit ==
    /\ process # "down"
    /\ process' = "down"
    /\ current' = NoCall
    /\ poisoned' = FALSE
    /\ M!Abandon(Call)
    /\ UNCHANGED <<file, archive>>

PowerLoss ==
    /\ process' = "down"
    /\ current' = NoCall
    /\ poisoned' = FALSE
    /\ M!Abandon(Call)
    /\ file' \in AfterPowerLoss(file)
    /\ archive' \in EntriesAfterPowerLoss(archive)

----------------------------------------------------------------------------
\* The operator, who runs recover when no executor runs, and tells the truth.

\* The audit, unless an earlier attempt at the same recovery has written it.
Audit(c) ==
    /\ process = "down"
    /\ Readable
    /\ file.seen.pending = c
    /\ remote[c] # "running"
    /\ \/ /\ archive' = Both(archive.seen \cup {c}) \/ (c \in archive.seen /\ UNCHANGED archive)
          /\ process' = "recovering"
          /\ current' = c
       \/ /\ DiskMayFail
          /\ c \notin archive.seen
          /\ archive' \in Torn(archive, archive.seen \cup {c})
          /\ UNCHANGED <<process, current>>
    /\ UNCHANGED <<callVars, file, poisoned>>

\* And then the state without the record.
Clear ==
    /\ process = "recovering"
    /\ LET cleared == [pending |-> NoCall, last |-> current] IN
          \/ file' = Both(cleared)
          \/ DiskMayFail /\ file' \in Torn(file, cleared)
    /\ process' = "down"
    /\ current' = NoCall
    /\ UNCHANGED <<callVars, archive, poisoned>>

----------------------------------------------------------------------------
\* The provider and the model service, while the process lives.
Model ==
    /\ \E c \in Call :
          \/ M!Launch(c) \/ M!Stop(c) \/ M!Conclude(c)
          \/ stage[c] = "open" /\ M!Doubt(c)
    /\ UNCHANGED <<file, archive, executorVars>>

SerialNext ==
    \/ Start \/ Finish \/ Retain \/ Exit \/ PowerLoss \/ Clear \/ Model
    \/ \E c \in Call : Begin(c) \/ Audit(c)

SerialSpec == SerialInit /\ [][SerialNext]_serialVars

----------------------------------------------------------------------------
SerialTypeOK ==
    /\ M!CallTypeOK
    /\ file \in [seen : State, kept : State]
    /\ archive \in [seen : SUBSET Call, kept : SUBSET Call]
    /\ process \in {"down", "idle", "calling", "recovering"}
    /\ current \in Call \cup {NoCall}
    /\ poisoned \in BOOLEAN

\* The model never works on two requests, whatever crashed, failed to be
\* written or was recovered in between.
OneGeneration == \A c, d \in M!Running : c = d

\* What runs, or may still be sent, is on record, and the record outlives a
\* power loss.
RunningIsOnRecord ==
    \A c \in Call : c \in M!Running \/ stage[c] \in {"open", "uncertain"}
        => file.seen.pending = c /\ file.kept.pending = c

\* A record goes when the request is known to be over or its end has been
\* attested in an audit, never with time, a restart or a failed write.
RecordsGoByProof ==
    [][\A c \in Call :
          file.kept.pending = c /\ file'.kept.pending # c
              => stage[c] = "confirmed" \/ c \in archive.seen]_serialVars

\* The induction: the process at work is about the one request that is on
\* record, and what is not on record is over.
SerialInv ==
    /\ RunningIsOnRecord
    /\ process = "calling" =>
          /\ current \in Call /\ stage[current] \notin {"idle", "dead"}
          /\ file.seen.pending = current /\ file.kept.pending = current
    /\ process = "recovering" =>
          /\ current \in archive.seen
          /\ file.seen.pending = current
          /\ current \notin M!Running
    /\ process \in {"down", "recovering"} =>
          /\ ~poisoned
          /\ \A c \in Call : stage[c] \notin {"open", "uncertain"}
    /\ \A c \in M!Running : stage[c] \in {"open", "uncertain", "dead"}
    /\ archive.kept \subseteq archive.seen
    /\ \A c \in Call :
          file.kept.pending = c /\ file.seen.pending # c
              => stage[c] = "confirmed" \/ c \in archive.seen

=============================================================================
