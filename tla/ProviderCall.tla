---------------------------- MODULE ProviderCall ----------------------------
(***************************************************************************)
(* OpenAICompatibleProvider.generate.  The caller takes the provider's     *)
(* latch, starts a thread that sends the request, and waits for it until   *)
(* the absolute deadline; then it must tell whether the generation is      *)
(* surely over.  The thread cannot be stopped, so two events decide: the   *)
(* caller raises deadline_expired and then reads request_started; the      *)
(* thread raises request_started and then reads deadline_expired and the   *)
(* clock once more before it sends.  A caller that gives up also closes the *)
(* response, if one has come, and so may have to wait for the thread after *)
(* all: both use the reader of the connection, which has a lock.           *)
(*                                                                         *)
(* The remote service is external: the head of a response, with or without *)
(* an error status, means that it has stopped generating, though the body  *)
(* may take its time; a lost connection or a local timeout means nothing.  *)
(***************************************************************************)
EXTENDS FiniteSets

CONSTANTS
    Call,   \* the calls of generate on one provider; each has a token of its own
    NoCall

ASSUME ProviderAssumption == NoCall \notin Call

VARIABLES
    latch,     \* _active_request
    caller,    \* where the caller of each call is, in the end its verdict
    thread,    \* where its thread is
    overdue,   \* request_deadline has passed
    expired,   \* the event deadline_expired
    started,   \* the event request_started
    completed, \* the event completed
    outcome,   \* what the thread leaves for the caller
    remote     \* what the model service does for it

providerVars ==
    <<latch, caller, thread, overdue, expired, started, completed, outcome, remote>>

\* A timeout is told apart from the errors that report a confirmed end.
Verdict == {"answered", "confirmed", "timedout", "uncertain"}

\* The outcomes after which the thread gives the latch back.
Conclusive == {"nothing", "body", "status", "contract"}

ProviderInit ==
    /\ latch = NoCall
    /\ caller = [c \in Call |-> "idle"]
    /\ thread = [c \in Call |-> "none"]
    /\ overdue = {}
    /\ expired = {}
    /\ started = {}
    /\ completed = {}
    /\ outcome = [c \in Call |-> "none"]
    /\ remote = [c \in Call |-> "none"]

\* The deadline of a call that has begun passes.
Elapse(c) ==
    /\ caller[c] # "idle" /\ thread[c] # "none"
    /\ c \notin overdue
    /\ overdue' = overdue \cup {c}
    /\ UNCHANGED <<latch, caller, thread, expired, started, completed, outcome, remote>>

CallerTo(c, to) == caller' = [caller EXCEPT ![c] = to]
ThreadTo(c, to) == thread' = [thread EXCEPT ![c] = to]

----------------------------------------------------------------------------
\* The caller.

Enter(c) ==
    /\ caller[c] = "idle"
    /\ \/ /\ latch # NoCall
          /\ CallerTo(c, "uncertain")
          /\ UNCHANGED <<latch, thread>>
       \/ /\ latch = NoCall
          /\ latch' = c
          /\ CallerTo(c, "waiting")
          /\ ThreadTo(c, "starting")
    /\ UNCHANGED <<overdue, expired, started, completed, outcome, remote>>

\* What the errors mean.  A body may still not be what was asked for.
VerdictsOf(o) ==
    CASE o = "lost" -> {"uncertain"}
      [] o = "body" -> {"answered", "confirmed"}
      [] OTHER -> {"confirmed"}

\* completed.wait returned TRUE.
TakeOutcome(c) ==
    /\ caller[c] = "waiting"
    /\ c \in completed
    /\ \E v \in VerdictsOf(outcome[c]) : CallerTo(c, v)
    /\ UNCHANGED <<latch, thread, overdue, expired, started, completed, outcome, remote>>

\* Mutant: a request that was sent is waited for without a timeout.
GiveUpUnsent(c) ==
    /\ caller[c] = "waiting"
    /\ c \in overdue \ (completed \cup started)
    /\ CallerTo(c, "expiring")
    /\ UNCHANGED <<latch, thread, overdue, expired, started, completed, outcome, remote>>

\* completed.wait returned FALSE; what happens next it does not see any more.
GiveUp(c) ==
    /\ caller[c] = "waiting"
    /\ c \in overdue \ completed
    /\ CallerTo(c, "expiring")
    /\ UNCHANGED <<latch, thread, overdue, expired, started, completed, outcome, remote>>

Expire(c) ==
    /\ caller[c] = "expiring"
    /\ expired' = expired \cup {c}
    /\ CallerTo(c, "judging")
    /\ UNCHANGED <<latch, thread, overdue, started, completed, outcome, remote>>

Judge(c) ==
    /\ caller[c] = "judging"
    /\ CallerTo(c, IF c \in started THEN "closing" ELSE "clearing")
    /\ UNCHANGED <<latch, thread, overdue, expired, started, completed, outcome, remote>>

Unlatch(c) == latch' = IF latch = c THEN NoCall ELSE latch

Clear(c) ==
    /\ caller[c] = "clearing"
    /\ Unlatch(c)
    /\ CallerTo(c, "cleared")
    /\ UNCHANGED <<thread, overdue, expired, started, completed, outcome, remote>>

\* Before it raises, the caller closes the response that has come, if one has:
\* close waits for the reader, whose lock the thread holds while it reads.
Close(c) ==
    /\ caller[c] \in {"closing", "cleared"}
    /\ thread[c] # "reading"
    /\ CallerTo(c, IF caller[c] = "closing" THEN "uncertain" ELSE "timedout")
    /\ UNCHANGED <<latch, thread, overdue, expired, started, completed, outcome, remote>>

----------------------------------------------------------------------------
\* The thread.

Finish(c, o) == outcome' = [outcome EXCEPT ![c] = o] /\ ThreadTo(c, "ending")

\* It reads the clock, before and after it announces the request.  (Its very
\* first look at deadline_expired adds nothing: the event implies overdue.)
ReadClock(c) ==
    /\ thread[c] \in {"starting", "announced"}
    /\ \/ c \in overdue /\ Finish(c, "nothing")
       \/ /\ c \notin overdue
          /\ ThreadTo(c, IF thread[c] = "starting" THEN "timed" ELSE "retimed")
          /\ UNCHANGED outcome
    /\ UNCHANGED <<latch, caller, overdue, expired, started, completed, remote>>

\* And then looks whether the caller is gone.
CheckExpired(c) ==
    /\ thread[c] \in {"timed", "retimed"}
    /\ \/ c \in expired /\ Finish(c, "nothing")
       \/ /\ c \notin expired
          /\ ThreadTo(c, IF thread[c] = "timed" THEN "announcing" ELSE "sending")
          /\ UNCHANGED outcome
    /\ UNCHANGED <<latch, caller, overdue, expired, started, completed, remote>>

\* Mutant: what was checked before the announcement is not checked again.
AnnounceAndSend(c) ==
    /\ thread[c] = "announcing"
    /\ started' = started \cup {c}
    /\ ThreadTo(c, "sending")
    /\ UNCHANGED <<latch, caller, overdue, expired, completed, outcome, remote>>

Announce(c) ==
    /\ thread[c] = "announcing"
    /\ started' = started \cup {c}
    /\ ThreadTo(c, "announced")
    /\ UNCHANGED <<latch, caller, overdue, expired, completed, outcome, remote>>

\* The request is sent, or no connection comes about.
Send(c) ==
    /\ thread[c] = "sending"
    /\ \/ /\ remote' = [remote EXCEPT ![c] = "running"]
          /\ ThreadTo(c, "sent")
          /\ UNCHANGED outcome
       \/ /\ Finish(c, "lost")
          /\ UNCHANGED remote
    /\ UNCHANGED <<latch, caller, overdue, expired, started, completed>>

\* urlopen returns, in time or not: the head of a response has come, and the
\* caller can see it, or that of an error.
Receive(c) ==
    /\ thread[c] = "sent"
    /\ remote[c] = "running"
    /\ remote' = [remote EXCEPT ![c] = "stopped"]
    /\ \/ ThreadTo(c, "received") /\ UNCHANGED outcome
       \/ Finish(c, "status")
    /\ UNCHANGED <<latch, caller, overdue, expired, started, completed>>

\* The thread reads the body: it takes the lock of the reader,
Read(c) ==
    /\ thread[c] = "received"
    /\ ThreadTo(c, "reading")
    /\ UNCHANGED <<latch, caller, overdue, expired, started, completed, outcome, remote>>

\* leaves it free between two chunks,
Pause(c) ==
    /\ thread[c] = "reading"
    /\ ThreadTo(c, "received")
    /\ UNCHANGED <<latch, caller, overdue, expired, started, completed, outcome, remote>>

\* and has a body, or what is no valid response.  (The head may be enough for
\* that, and a response that was closed before it was read has an empty body.)
Answer(c, o) ==
    /\ thread[c] \in {"received", "reading"}
    /\ Finish(c, o)
    /\ UNCHANGED <<latch, caller, overdue, expired, started, completed, remote>>

\* The connection is lost, no byte comes in time, or the caller closes it.
Lose(c) ==
    /\ thread[c] \in {"sent", "received", "reading"}
    /\ Finish(c, "lost")
    /\ UNCHANGED <<latch, caller, overdue, expired, started, completed, remote>>

\* The service ends a generation nobody waits for.
Stop(c) ==
    /\ remote[c] = "running"
    /\ remote' = [remote EXCEPT ![c] = "stopped"]
    /\ UNCHANGED <<latch, caller, thread, overdue, expired, started, completed, outcome>>

\* The thread's finally: the latch, unless the remote may still be running,
Release(c) ==
    /\ thread[c] = "ending"
    /\ IF outcome[c] \in Conclusive THEN Unlatch(c) ELSE UNCHANGED latch
    /\ ThreadTo(c, "released")
    /\ UNCHANGED <<caller, overdue, expired, started, completed, outcome, remote>>

\* and then the event the caller waits for.
Complete(c) ==
    /\ thread[c] = "released"
    /\ completed' = completed \cup {c}
    /\ ThreadTo(c, "over")
    /\ UNCHANGED <<latch, caller, overdue, expired, started, outcome, remote>>

CallerStep(c) ==
    Enter(c) \/ TakeOutcome(c) \/ GiveUp(c) \/ Expire(c) \/ Judge(c) \/ Clear(c)
    \/ Close(c)

ThreadStep(c) ==
    \/ ReadClock(c) \/ CheckExpired(c) \/ Announce(c) \/ Send(c) \/ Receive(c)
    \/ Read(c) \/ Pause(c) \/ Lose(c)
    \/ \E o \in {"body", "contract"} : Answer(c, o)
    \/ Release(c) \/ Complete(c)

ProviderNext == \E c \in Call : Elapse(c) \/ CallerStep(c) \/ ThreadStep(c) \/ Stop(c)

ProviderSpec == ProviderInit /\ [][ProviderNext]_providerVars

\* The caller is scheduled and the deadline passes.  Nothing is assumed of the
\* thread: urlopen's timeout is one of each read from the connection, and a
\* response that trickles starts it anew with every byte.
Fairness ==
    \A c \in Call : /\ WF_providerVars(CallerStep(c) /\ caller[c] # "idle")
                    /\ WF_providerVars(Elapse(c))

FairProvider == ProviderSpec /\ Fairness

----------------------------------------------------------------------------
ProviderTypeOK ==
    /\ latch \in Call \cup {NoCall}
    /\ caller \in [Call -> {"idle", "waiting", "expiring", "judging", "clearing", "cleared",
                            "closing"} \cup Verdict]
    /\ thread \in [Call -> {"none", "starting", "timed", "announcing", "announced", "retimed",
                            "sending", "sent", "received", "reading", "ending", "released",
                            "over"}]
    /\ overdue \subseteq Call /\ expired \subseteq Call
    /\ started \subseteq Call /\ completed \subseteq Call
    /\ outcome \in [Call -> {"none", "lost"} \cup Conclusive]
    /\ remote \in [Call -> {"none", "running", "stopped"}]

\* Whatever was lost or timed out, the provider never has two generations
\* running: who runs holds the latch.
RunningHoldsLatch == \A c \in Call : remote[c] = "running" => latch = c

\* After a return or a confirmed failure the provider is free of this call: the
\* guard around it reads has_active_request and would block the executor.
ConcludedIsFree ==
    \A c \in Call : caller[c] \in Verdict \ {"uncertain"} => latch # c

\* The induction behind these, for one call.  The caller concludes only when
\* the thread has concluded, or is bound to turn back because the event was
\* raised before it announced the request; and the latch stays until then.
Unsent == {"none", "starting", "timed", "announcing", "announced", "retimed", "sending"}
Ended == {"ending", "released", "over"}

ThreadOK(c) ==
    /\ c \in completed <=> thread[c] = "over"
    /\ thread[c] \in Unsent => outcome[c] = "none" /\ remote[c] = "none"
    /\ thread[c] \in {"sent", "received", "reading"} => outcome[c] = "none"
    /\ thread[c] \in Ended => outcome[c] \in {"lost"} \cup Conclusive
    /\ remote[c] = "running" => thread[c] = "sent" \/ outcome[c] = "lost"
    /\ c \notin started =>
          /\ thread[c] \in {"none", "starting", "timed", "announcing"} \cup Ended
          /\ outcome[c] \in {"none", "nothing"} /\ remote[c] = "none"

CallerOK(c) ==
    /\ caller[c] = "idle" => thread[c] = "none"
    /\ thread[c] = "none" => caller[c] \in {"idle", "uncertain"}
    /\ caller[c] \in {"answered", "confirmed"} =>
          thread[c] = "over" /\ outcome[c] \in Conclusive
    /\ caller[c] \in {"expiring", "judging"} => c \in overdue
    /\ caller[c] = "judging" => c \in expired
    /\ caller[c] \in {"clearing", "cleared", "timedout"} =>
          /\ c \in overdue \cap expired
          /\ thread[c] \in {"starting", "timed", "announcing", "announced"} \cup Ended
          /\ outcome[c] \in {"none", "nothing"}

LatchOK(c) ==
    /\ thread[c] = "none" => latch # c
    /\ thread[c] \in {"released", "over"} /\ outcome[c] \in Conclusive => latch # c
    /\ caller[c] \in {"cleared", "timedout"} => latch # c
    /\ thread[c] \notin {"none", "released", "over"} \/ outcome[c] = "lost"
          => latch = c \/ caller[c] \in {"cleared", "timedout"}

LatchInv == \A c \in Call : ThreadOK(c) /\ CallerOK(c) /\ LatchOK(c)

\* The promise to the executors: a call that is confirmed over is not running
\* and never will.
StageOf(at) ==
    CASE at = "idle" -> "idle"
      [] at \in {"answered", "confirmed"} -> "confirmed"
      [] at \in {"timedout", "uncertain"} -> at
      [] OTHER -> "open"

CallStage == [c \in Call |-> StageOf(caller[c])]

Promise == INSTANCE ModelCall WITH stage <- CallStage

CallsImplemented == Promise!CallSpec

\* generate returns, though the thread may hang anywhere and the service may
\* never answer, with one exception: a response came before the caller looked
\* for one, its body never ends, and close waits for the reader's lock.
EveryCallReturns ==
    \A c \in Call : \/ caller[c] = "waiting" ~> caller[c] \in Verdict
                    \/ []<>(caller[c] = "closing" /\ thread[c] = "reading")
=============================================================================
