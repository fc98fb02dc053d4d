----------------------------- MODULE ModelCall -----------------------------
(***************************************************************************)
(* What a caller of the language model may rely on.  A call ends with the  *)
(* verdict that the remote generation is over ("confirmed", or "timedout"  *)
(* when it was never sent), or with doubt ("uncertain"): then it may be    *)
(* running, and may even start after the caller was told.  A concluded call*)
(* never runs again, which is what lets an executor forget it.  A call     *)
(* whose process died ("dead") is not launched any more, but what it       *)
(* launched goes on.                                                       *)
(***************************************************************************)
CONSTANT Call

VARIABLES
    stage,  \* what the caller of each call knows
    remote  \* what the model service does for it

callVars == <<stage, remote>>

CallInit ==
    /\ stage = [c \in Call |-> "idle"]
    /\ remote = [c \in Call |-> "none"]

MoveTo(c, to) == stage' = [stage EXCEPT ![c] = to] /\ UNCHANGED remote

Open(c) == stage[c] = "idle" /\ MoveTo(c, "open")

Launch(c) ==
    /\ stage[c] \in {"open", "uncertain"}
    /\ remote[c] = "none"
    /\ remote' = [remote EXCEPT ![c] = "running"]
    /\ UNCHANGED stage

\* The generation ends, by itself or because its client is gone.
Stop(c) ==
    /\ remote[c] = "running"
    /\ remote' = [remote EXCEPT ![c] = "stopped"]
    /\ UNCHANGED stage

Concluded == {"confirmed", "timedout"}

Conclude(c) ==
    /\ stage[c] = "open"
    /\ remote[c] # "running"
    /\ \E to \in Concluded : MoveTo(c, to)

\* Or the provider refuses the call, being in doubt about an earlier one.
Doubt(c) == stage[c] \in {"idle", "open"} /\ MoveTo(c, "uncertain")

\* The process of the callers in C dies.
Abandon(C) ==
    /\ stage' = [c \in Call |-> IF c \in C /\ stage[c] \in {"open", "uncertain"}
                                THEN "dead" ELSE stage[c]]
    /\ UNCHANGED remote

CallNext ==
    \/ \E c \in Call : Open(c) \/ Launch(c) \/ Stop(c) \/ Conclude(c) \/ Doubt(c)
    \/ \E C \in SUBSET Call : Abandon(C)

CallSpec == CallInit /\ [][CallNext]_callVars

Running == {c \in Call : remote[c] = "running"}

CallTypeOK ==
    /\ stage \in [Call -> {"idle", "open", "uncertain", "dead"} \cup Concluded]
    /\ remote \in [Call -> {"none", "running", "stopped"}]
=============================================================================
