------------------------------ MODULE JobQueue ------------------------------
(***************************************************************************)
(* What the queue promises the dispatcher and the workers, as the JobQueue *)
(* protocol of submission_jobs.py states it: a published submission stays  *)
(* available until someone who holds its newest delivery acknowledges it.  *)
(* Delivery is at least once.  A delivery may be taken over by another      *)
(* receiver at any moment, because its holder may be slower than any        *)
(* visibility timeout; from then on the old holder can settle nothing.      *)
(*                                                                         *)
(* With one Copy the queue drops a message that it already has, as          *)
(* RedisJobQueue does (RedisJobQueue is checked to implement this module); *)
(* with several it may keep duplicates, as InMemoryJobQueue does.           *)
(***************************************************************************)
CONSTANTS Submission,
          Copy,         \* how many messages for one submission it may hold
          Holder,       \* receipts, or workers with one delivery each
          Gone, Waiting \* where a message can be, besides with a holder;
                        \* two values outside Holder

VARIABLE place

Message == Submission \X Copy

QueueInit == place = [m \in Message |-> Gone]

CopiesOf(s) == {m \in Message : m[1] = s /\ place[m] # Gone}
Held(h) == {m \in Message : place[m] = h}

Put(m, p) == place' = [place EXCEPT ![m] = p]

\* Publishing what the queue has no room to duplicate changes nothing.
Publish(s) ==
    LET free == {m \in Message : m[1] = s /\ place[m] = Gone}
    IN  IF free = {} THEN UNCHANGED place ELSE \E m \in free : Put(m, Waiting)

Deliver(m, h) ==
    /\ place[m] # Gone
    /\ Held(h) = {}
    /\ Put(m, h)

Ack(h) == \E m \in Held(h) : Put(m, Gone)
Nack(h) == \E m \in Held(h) : Put(m, Waiting)

QueueNext ==
    \/ \E s \in Submission : Publish(s)
    \/ \E m \in Message, h \in Holder : Deliver(m, h)
    \/ \E h \in Holder : Ack(h) \/ Nack(h)

QueueSpec == QueueInit /\ [][QueueNext]_place
=============================================================================
