--------------------------- MODULE RedisJobQueue ---------------------------
(***************************************************************************)
(* The Redis Streams queue of redis_job_queue.py for one routing key.  A Lua*)
(* script runs in Redis as one step, so publish, ack, nack and the takeover *)
(* of a stale entry are one action each.  Receiving a fresh entry is two:   *)
(* XREADGROUP assigns the entry to the consumer, and only then a second     *)
(* call registers the receipt, if the entry is still the consumer's.        *)
(*                                                                         *)
(* Any delivery that was ever returned may be settled at any later time, by *)
(* a worker that was slow, and any entry may have been idle for longer than *)
(* the visibility timeout.  A reply of Redis may be lost after its call took*)
(* effect (ReplyLost, and the silent disjunct of Return); a consumer that   *)
(* stops for good is one that takes no more steps.  Streams are not trimmed *)
(* by others, as ARCHITECTURE.md requires.                                  *)
(***************************************************************************)
EXTENDS Naturals, FiniteSets

CONSTANTS Submission,
          Consumer,   \* queue instances; each has a name of its own (uuid4)
          Token,      \* receipts (uuid4: never used twice)
          MaxEntry,   \* bound of the entry identifiers, for model checking
          None

ASSUME EntryAssumption == MaxEntry \in Nat
ASSUME NoneAssumption ==
    None \notin Submission /\ None \notin Consumer /\ None \notin Token /\ None \notin Nat
ASSUME GoneAssumption == "gone" \notin Token \cup {None}

VARIABLES
    stream,     \* entry -> the submission it names
    lastId,     \* the last identifier XADD gave out
    readUpTo,   \* the group's last-delivered identifier
    pending,    \* the group's pending entries: entry -> consumer
    receipts,   \* entry -> receipt
    active,     \* submission -> its entry
    prefer,     \* consumers that look for stale entries first
    taking,     \* consumer -> entry read but not yet registered (the receive lock)
    used,       \* receipts drawn
    deliveries  \* every delivery ever returned, numbered

keys == <<stream, lastId, readUpTo, pending, receipts, active>>
redisVars == <<keys, prefer, taking, used, deliveries>>

Entry == 1 .. MaxEntry
Delivery == [entry : Entry, sub : Submission, token : Token, by : Consumer, n : Nat]

RedisInit ==
    /\ stream = [e \in Entry |-> None]
    /\ lastId = 0
    /\ readUpTo = 0
    /\ pending = [e \in Entry |-> None]
    /\ receipts = [e \in Entry |-> None]
    /\ active = [s \in Submission |-> None]
    /\ prefer = Consumer
    /\ taking = [c \in Consumer |-> None]
    /\ used = {}
    /\ deliveries = {}

Live == {e \in Entry : stream[e] # None}
Fresh == {e \in Live : e > readUpTo}
Offered == {e \in Live : e > readUpTo \/ pending[e] # None}

----------------------------------------------------------------------------
\* _PUBLISH_SCRIPT; with a live entry for s it changes nothing.
Publish(s) ==
    /\ active[s] \notin Live
    /\ lastId < MaxEntry
    /\ lastId' = lastId + 1
    /\ stream' = [stream EXCEPT ![lastId + 1] = s]
    /\ active' = [active EXCEPT ![s] = lastId + 1]
    /\ UNCHANGED <<readUpTo, pending, receipts, prefer, taking, used, deliveries>>

\* The caller gets the delivery, unless the reply is lost.
Return(e, c, t) ==
    /\ used' = used \cup {t}
    /\ \/ deliveries' = deliveries \cup
              {[entry |-> e, sub |-> stream[e], token |-> t, by |-> c,
                n |-> Cardinality(deliveries) + 1]}
       \/ UNCHANGED deliveries

\* _CLAIM_STALE_SCRIPT: the stale entry and a new receipt in one step.  A
\* consumer that last took a stale entry looks for a fresh one first.
Reclaim(c, t) ==
    /\ taking[c] = None
    /\ c \in prefer \/ Fresh = {}
    /\ t \notin used
    /\ \E e \in Live :
          /\ pending[e] # None
          /\ pending' = [pending EXCEPT ![e] = c]
          /\ receipts' = [receipts EXCEPT ![e] = t]
          /\ Return(e, c, t)
    /\ prefer' = prefer \ {c}
    /\ UNCHANGED <<stream, lastId, readUpTo, active, taking>>

\* Mutant: XREADGROUP with NOACK, which leaves nothing to take over.
TakeFreshNoAck(c) ==
    /\ taking[c] = None
    /\ \E e \in Fresh :
          /\ \A f \in Fresh : e <= f
          /\ readUpTo' = e
          /\ taking' = [taking EXCEPT ![c] = e]
    /\ prefer' = prefer \cup {c}
    /\ UNCHANGED <<stream, lastId, pending, receipts, active, used, deliveries>>

\* XREADGROUP: the oldest entry never delivered to the group.
TakeFresh(c) ==
    /\ taking[c] = None
    /\ \E e \in Fresh :
          /\ \A f \in Fresh : e <= f
          /\ readUpTo' = e
          /\ pending' = [pending EXCEPT ![e] = c]
          /\ taking' = [taking EXCEPT ![c] = e]
    /\ prefer' = prefer \cup {c}
    /\ UNCHANGED <<stream, lastId, receipts, active, used, deliveries>>

\* _REGISTER_RECEIPT_SCRIPT, refused if the entry is no longer c's.
Register(c, t) ==
    /\ taking[c] # None
    /\ t \notin used
    /\ taking' = [taking EXCEPT ![c] = None]
    /\ IF pending[taking[c]] = c
       THEN /\ receipts' = [receipts EXCEPT ![taking[c]] = t]
            /\ Return(taking[c], c, t)
       ELSE UNCHANGED <<receipts, used, deliveries>>
    /\ UNCHANGED <<stream, lastId, readUpTo, pending, active, prefer>>

\* The consumer never learns what it was given, or stops before registering.
ReplyLost(c) ==
    /\ taking[c] # None
    /\ taking' = [taking EXCEPT ![c] = None]
    /\ UNCHANGED <<keys, prefer, used, deliveries>>

----------------------------------------------------------------------------
\* Mutant: the receipt is not compared.
MaySettleByOwner(d) == pending[d.entry] = d.by

\* What ack and nack check first.
MaySettle(d) ==
    /\ pending[d.entry] = d.by
    /\ receipts[d.entry] = d.token

Forget(e) ==
    /\ pending' = [pending EXCEPT ![e] = None]
    /\ receipts' = [receipts EXCEPT ![e] = None]

\* _ACK_SCRIPT
Ack(d) ==
    /\ MaySettle(d)
    /\ stream' = [stream EXCEPT ![d.entry] = None]
    /\ Forget(d.entry)
    /\ active' = [active EXCEPT ![d.sub] = IF active[d.sub] = d.entry THEN None
                                                                     ELSE active[d.sub]]
    /\ UNCHANGED <<lastId, readUpTo, prefer, taking, used, deliveries>>

\* _REQUEUE_SCRIPT: a new entry at the end replaces the old one.
Nack(d) ==
    /\ MaySettle(d)
    /\ lastId < MaxEntry
    /\ lastId' = lastId + 1
    /\ stream' = [stream EXCEPT ![d.entry] = None, ![lastId + 1] = d.sub]
    /\ active' = [active EXCEPT ![d.sub] = lastId + 1]
    /\ Forget(d.entry)
    /\ UNCHANGED <<readUpTo, prefer, taking, used, deliveries>>

RedisNext ==
    \/ \E s \in Submission : Publish(s)
    \/ \E c \in Consumer : TakeFresh(c) \/ ReplyLost(c)
    \/ \E c \in Consumer, t \in Token : Reclaim(c, t) \/ Register(c, t)
    \/ \E d \in deliveries : Ack(d) \/ Nack(d)

RedisSpec == RedisInit /\ [][RedisNext]_redisVars

----------------------------------------------------------------------------
\* Redis's keys and the clients' memory keep their types.
RedisTypeOK ==
    /\ stream \in [Entry -> Submission \cup {None}]
    /\ lastId \in 0 .. MaxEntry
    /\ readUpTo \in 0 .. lastId
    /\ pending \in [Entry -> Consumer \cup {None}]
    /\ receipts \in [Entry -> Token \cup {None}]
    /\ active \in [Submission -> Entry \cup {None}]
    /\ prefer \in SUBSET Consumer
    /\ taking \in [Consumer -> Entry \cup {None}]
    /\ used \in SUBSET Token
    /\ deliveries \in SUBSET Delivery

\* At no time does the stream hold two entries for one submission, however
\* publications, takeovers and requeues overlap, and the active hash names the
\* one there is: API restarts do not duplicate work.
OneEntryPerSubmission == \A e \in Live : active[stream[e]] = e

\* Every entry in the stream will still be offered: it was never read by the
\* group, or it is pending and can be taken over.  One that is neither would
\* block every later publication of its submission.
NothingStranded == Live \subseteq Offered

\* Of all deliveries of a submission only the newest can settle it: a stale
\* handler does not acknowledge or requeue reclaimed work.
OnlyNewestSettles ==
    \A d, e \in deliveries : d.sub = e.sub /\ MaySettle(d) => e.n <= d.n

\* A registered receipt is the pending entry's owner's: a slow registration
\* never overwrites the receipt of a consumer that took the entry over, which
\* could then settle it no more.
ReceiptsFollowOwner ==
    \A d \in deliveries : receipts[d.entry] = d.token => pending[d.entry] = d.by

\* The induction behind them.  The active hash and the stream agree; identifiers
\* grow; a pending entry is in the stream and was read; a receipt is one that
\* was drawn, for a pending entry.
IndexInv ==
    /\ OneEntryPerSubmission
    /\ \A s \in Submission : active[s] # None => stream[active[s]] = s

PendingInv ==
    \A e \in Entry :
        /\ e \in Live => e <= lastId
        /\ pending[e] # None => e \in Live /\ e <= readUpTo
        /\ receipts[e] # None => pending[e] # None /\ receipts[e] \in used

\* Deliveries are numbered as they are made, and one whose receipt is still
\* registered names the entry's owner and submission.
DeliveryInv ==
    \A d \in deliveries :
        /\ d.token \in used
        /\ d.n <= Cardinality(deliveries)
        /\ receipts[d.entry] = d.token => pending[d.entry] = d.by /\ stream[d.entry] = d.sub

RedisInv ==
    IndexInv /\ NothingStranded /\ PendingInv /\ DeliveryInv /\ OnlyNewestSettles

\* The queue keeps the promise of JobQueue with one copy per submission, where
\* a message is held by whoever has the registered receipt: an entry that was
\* read but not registered is still waiting.
Place ==
    [m \in Submission \X {1} |->
        IF active[m[1]] \in Offered THEN receipts[active[m[1]]] ELSE "gone"]

Queue == INSTANCE JobQueue WITH
    Copy <- {1}, Holder <- Token, Gone <- "gone", Waiting <- None, place <- Place
QueueImplemented == Queue!QueueSpec
=============================================================================
