--------------------------- MODULE AuthMailQueue ---------------------------
(***************************************************************************)
(* The bounded, process-local queue of link mails and its one worker thread *)
(* (auth_mail.py), under the lifespan of the service that starts and stops  *)
(* it (auth_routes.py).  A delivery cannot be cancelled; stop waits for the *)
(* one under way, but not for ever.  A mail is its number in the order of   *)
(* acceptance; what a delivery does is IssueLink of Accounts.               *)
(***************************************************************************)
EXTENDS Naturals, Sequences

CONSTANTS
    Thread,     \* the threads that this process may come to start
    NoThread,
    Capacity,
    MaxMail     \* bound for model checking

ASSUME MailAssumption ==
    /\ NoThread \notin Thread
    /\ Capacity \in Nat \ {0} /\ MaxMail \in Nat

VARIABLES
    service,    \* the lifespan
    worker,     \* _worker
    stopping,   \* _stopping
    pending,    \* _pending
    threads,    \* what each thread is doing
    accepted,   \* mails accepted so far
    taken       \* the last mail taken from the queue

mailVars == <<service, worker, stopping, pending, threads, accepted, taken>>

Alive(t) == threads[t] \in {"waiting", "delivering"}

MailInit ==
    /\ service = "down"
    /\ worker = NoThread
    /\ stopping = TRUE
    /\ pending = <<>>
    /\ threads = [t \in Thread |-> "unborn"]
    /\ accepted = 0
    /\ taken = 0

----------------------------------------------------------------------------
\* start, as the lifespan begins.  If it is refused, the lifespan closes the
\* service before it ends.
StartMail ==
    /\ service \in {"down", "unclean"}
    /\ \/ /\ worker = NoThread
          /\ \E t \in Thread :
                /\ threads[t] = "unborn"
                /\ threads' = [threads EXCEPT ![t] = "waiting"]
                /\ worker' = t
          /\ stopping' = FALSE
          /\ service' = "up"
       \/ /\ worker # NoThread
          /\ service' = "closing"
          /\ UNCHANGED <<worker, stopping, threads>>
    /\ UNCHANGED <<pending, accepted, taken>>

\* submit, by the requests of the API; a refusal is no step.
SubmitMail ==
    /\ accepted < MaxMail
    /\ worker # NoThread /\ Alive(worker)
    /\ ~stopping
    /\ Len(pending) < Capacity
    /\ accepted' = accepted + 1
    /\ pending' = Append(pending, accepted + 1)
    /\ UNCHANGED <<service, worker, stopping, threads, taken>>

\* _run: the next mail, or the end.
Wake(t) ==
    /\ threads[t] = "waiting"
    /\ \/ /\ stopping
          /\ threads' = [threads EXCEPT ![t] = "ended"]
          /\ UNCHANGED <<pending, taken>>
       \/ /\ ~stopping
          /\ pending # <<>>
          /\ threads' = [threads EXCEPT ![t] = "delivering"]
          /\ pending' = Tail(pending)
          /\ taken' = Head(pending)
    /\ UNCHANGED <<service, worker, stopping, accepted>>

\* The delivery succeeded or failed.
Deliver(t) ==
    /\ threads[t] = "delivering"
    /\ threads' = [threads EXCEPT ![t] = "waiting"]
    /\ UNCHANGED <<service, worker, stopping, pending, accepted, taken>>

\* The lifespan ends, after serving or because it could not start.
EndService ==
    /\ service = "up"
    /\ service' = "closing"
    /\ UNCHANGED <<worker, stopping, pending, threads, accepted, taken>>

\* stop: what is pending is discarded,
BeginStop ==
    /\ service = "closing"
    /\ stopping' = TRUE
    /\ pending' = <<>>
    /\ service' = "joining"
    /\ UNCHANGED <<worker, threads, accepted, taken>>

\* and the worker is joined.
Joined ==
    /\ service = "joining"
    /\ worker # NoThread => ~Alive(worker)
    /\ worker' = NoThread
    /\ service' = "down"
    /\ UNCHANGED <<stopping, pending, threads, accepted, taken>>

\* Mutant: the worker is forgotten at the deadline.
ForgetWorker ==
    /\ service = "joining"
    /\ worker # NoThread /\ Alive(worker)
    /\ worker' = NoThread
    /\ service' = "unclean"
    /\ UNCHANGED <<stopping, pending, threads, accepted, taken>>

\* The delivery under way outlasts the deadline; the worker is remembered.
JoinTimesOut ==
    /\ service = "joining"
    /\ worker # NoThread /\ Alive(worker)
    /\ service' = "unclean"
    /\ UNCHANGED <<worker, stopping, pending, threads, accepted, taken>>

MailNext ==
    \/ StartMail \/ SubmitMail \/ EndService \/ BeginStop \/ Joined \/ JoinTimesOut
    \/ \E t \in Thread : Wake(t) \/ Deliver(t)

MailSpec == MailInit /\ [][MailNext]_mailVars

----------------------------------------------------------------------------
\* However the service is stopped and started again while a delivery hangs,
\* mails go out one at a time and in the order in which they were accepted,
\* none twice; and once stop has returned, none goes out and none waits.
MailsGoOneByOne ==
    /\ \A t, u \in Thread : Alive(t) /\ Alive(u) => t = u
    /\ \A i \in DOMAIN pending : pending[i] > IF i = 1 THEN taken ELSE pending[i - 1]
    /\ service = "down" => pending = <<>> /\ \A t \in Thread : ~Alive(t)
=============================================================================
