---------------------------- MODULE RequestLedger ----------------------------
(***************************************************************************)
(* What the ledger of the bounded executor promises to those who send       *)
(* requests under it, without files, locks or audits: never more than       *)
(* MaxInflight requests, and none begun while an earlier one that nobody    *)
(* waits for any more may still be worked on.  BoundedExecutor is checked   *)
(* and proved to implement it; SampleScheduler is built on it.              *)
(***************************************************************************)
EXTENDS FiniteSets, Naturals

CONSTANTS
    Call,        \* the requests of all processes
    MaxInflight

ASSUME LedgerAssumption == MaxInflight \in Nat \ {0}

VARIABLES
    call,    \* new; open; over; or adrift: nobody knows, and it may be running
    process, \* "down" or "up"
    fault    \* the gate is shut

ledgerVars == <<call, process, fault>>

Open == {c \in Call : call[c] = "open"}
Adrift == {c \in Call : call[c] = "adrift"}

LedgerInit ==
    /\ call = [c \in Call |-> "new"]
    /\ process = "down"
    /\ fault = FALSE

\* The gate of a new process is open only if nothing is adrift.
Start ==
    /\ process = "down"
    /\ process' = "up"
    /\ fault' \in BOOLEAN
    /\ Adrift # {} => fault'
    /\ UNCHANGED call

\* A refused request, or a write that failed, shuts the gate.
Trouble ==
    /\ process = "up"
    /\ fault' = TRUE
    /\ UNCHANGED <<call, process>>

Begin(c) ==
    /\ process = "up"
    /\ ~fault
    /\ call[c] = "new"
    /\ Cardinality(Open) < MaxInflight
    /\ call' = [call EXCEPT ![c] = "open"]
    /\ UNCHANGED <<process, fault>>

\* The request is known to be over.
End(c) ==
    /\ process = "up"
    /\ call[c] = "open"
    /\ call' = [call EXCEPT ![c] = "over"]
    /\ fault' \in {fault, TRUE}
    /\ UNCHANGED process

\* It is not, or its caller does not say so.
Lose(c) ==
    /\ process = "up"
    /\ call[c] = "open"
    /\ \E to \in {"adrift", "over"} : call' = [call EXCEPT ![c] = to]
    /\ fault' = TRUE
    /\ UNCHANGED process

\* What is adrift ends by itself.
Settle(c) ==
    /\ call[c] = "adrift"
    /\ call' = [call EXCEPT ![c] = "over"]
    /\ UNCHANGED <<process, fault>>

\* The process exits or crashes: what was sent, or is about to be, may run on.
Exit ==
    /\ process = "up"
    /\ process' = "down"
    /\ fault' = FALSE
    /\ \E left \in SUBSET (Open \cup Adrift) :
          call' = [c \in Call |-> IF c \in left THEN "adrift"
                                  ELSE IF c \in Open \cup Adrift THEN "over" ELSE call[c]]

LedgerNext ==
    \/ Start \/ Trouble \/ Exit
    \/ \E c \in Call : Begin(c) \/ End(c) \/ Lose(c) \/ Settle(c)

LedgerSpec == LedgerInit /\ [][LedgerNext]_ledgerVars
==============================================================================
