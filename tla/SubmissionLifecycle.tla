------------------------ MODULE SubmissionLifecycle ------------------------
(***************************************************************************)
(* What the judge promises about one accepted submission, without saying   *)
(* who does the work: it waits, it is tried at most MaxAttempts times, and  *)
(* it ends once, as rejected, succeeded or failed.  Expiry sweeps may end   *)
(* several submissions in one step.  SubmissionStore and SubmissionPipeline *)
(* are checked (and the store is proved) to implement this module.         *)
(***************************************************************************)
EXTENDS Naturals

CONSTANTS Submission,   \* identifiers a submission can be given
          MaxAttempts   \* evaluations a submission may be handed out for

VARIABLES phase,        \* where each submission is
          tries         \* how often its evaluation was started

lifecycleVars == <<phase, tries>>

\* The states after which a submission never changes again.
Final == {"rejected", "succeeded", "failed"}

Phase == {"absent", "queued", "running"} \cup Final

LifecycleInit ==
    /\ phase = [s \in Submission |-> "absent"]
    /\ tries = [s \in Submission |-> 0]

Move(s, from, to) ==
    /\ phase[s] = from
    /\ phase' = [phase EXCEPT ![s] = to]

Accept(s) == Move(s, "absent", "queued") /\ UNCHANGED tries

Start(s) ==
    /\ Move(s, "queued", "running")
    /\ tries[s] < MaxAttempts
    /\ tries' = [tries EXCEPT ![s] = @ + 1]

\* A retryable failure gives the submission back, but only while another
\* attempt is left for it.
GiveBack(s) ==
    /\ Move(s, "running", "queued")
    /\ tries[s] < MaxAttempts
    /\ UNCHANGED tries

Judge(s) ==
    /\ \E verdict \in Final : Move(s, "running", verdict)
    /\ UNCHANGED tries

\* Deadlines and abandoned leases end any set of unfinished submissions.
Expire(S) ==
    /\ \A s \in S : phase[s] \in {"queued", "running"}
    /\ phase' = [s \in Submission |-> IF s \in S THEN "failed" ELSE phase[s]]
    /\ UNCHANGED tries

LifecycleNext ==
    \/ \E s \in Submission : Accept(s) \/ Start(s) \/ GiveBack(s) \/ Judge(s)
    \/ \E S \in SUBSET Submission : Expire(S)

LifecycleSpec == LifecycleInit /\ [][LifecycleNext]_lifecycleVars
============================================================================
