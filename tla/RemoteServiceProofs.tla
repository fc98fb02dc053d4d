------------------------ MODULE RemoteServiceProofs ------------------------
(***************************************************************************)
(* Proofs about the clients of the two remote services.                    *)
(* RedisJobQueue, for every number of submissions, consumers, receipts and *)
(* entries: types, the safety properties the runs check, and that the      *)
(* queue implements JobQueue.  ProviderCall, for any number of calls: types, *)
(* the latch of the active request, and what a concluded call leaves.      *)
(***************************************************************************)
EXTENDS RedisJobQueue, ProviderCall, TLAPS, FiniteSetTheorems

\* The deliveries made are always finitely many: they can be numbered.
FiniteTypes == RedisTypeOK /\ IsFiniteSet(deliveries)

IInv == FiniteTypes /\ RedisInv

----------------------------------------------------------------------------
\* The parts of the state a live entry determines.
LEMMA LiveFacts ==
    ASSUME IInv, NEW e \in Live
    PROVE  /\ e \in Entry /\ e <= lastId
           /\ stream[e] \in Submission
           /\ active[stream[e]] = e
  BY NoneAssumption DEF IInv, FiniteTypes, RedisTypeOK, RedisInv, PendingInv, IndexInv,
     OneEntryPerSubmission, Live

\* An identifier not given out yet belongs to no entry, pending or not.
LEMMA UnusedEntry ==
    ASSUME IInv, NEW e \in Entry, e > lastId
    PROVE  stream[e] = None /\ pending[e] = None /\ receipts[e] = None
<1>1. e \notin Live
  <2>1. e \in Nat /\ lastId \in Nat
    BY EntryAssumption DEF IInv, FiniteTypes, RedisTypeOK, Entry
  <2>2. QED
    BY <2>1, LiveFacts
<1>2. QED
  BY <1>1 DEF IInv, RedisInv, PendingInv, Live

\* What a delivery still names when its receipt is registered.
LEMMA SettleFacts ==
    ASSUME IInv, NEW d \in deliveries, MaySettle(d)
    PROVE  /\ d.entry \in Live
           /\ stream[d.entry] = d.sub
           /\ active[d.sub] = d.entry
           /\ d.sub \in Submission
<1>1. d \in Delivery
  BY DEF IInv, FiniteTypes, RedisTypeOK
<1>2. d.entry \in Entry /\ d.sub \in Submission
  BY <1>1 DEF Delivery
<1>3. stream[d.entry] = d.sub
  BY DEF MaySettle, IInv, RedisInv, DeliveryInv
<1>4. d.entry \in Live
  BY <1>2, <1>3, NoneAssumption DEF Live
<1>5. QED
  BY <1>2, <1>3, <1>4, LiveFacts

----------------------------------------------------------------------------
\* The common part of a takeover and of a registration: entry e goes to
\* consumer c with a receipt that was never drawn before.
Handed(e, c, t) ==
    /\ pending' = [pending EXCEPT ![e] = c]
    /\ receipts' = [receipts EXCEPT ![e] = t]
    /\ Return(e, c, t)
    /\ UNCHANGED <<stream, lastId, readUpTo, active>>

\* A returned delivery is one more delivery, or lost.
LEMMA ReturnType ==
    ASSUME FiniteTypes, NEW e \in Entry, stream[e] \in Submission, NEW c \in Consumer,
           NEW t \in Token, Return(e, c, t)
    PROVE  /\ used' \in SUBSET Token
           /\ deliveries' \in SUBSET Delivery
           /\ IsFiniteSet(deliveries')
<1> DEFINE d == [entry |-> e, sub |-> stream[e], token |-> t, by |-> c,
                 n |-> Cardinality(deliveries) + 1]
<1>1. Cardinality(deliveries) + 1 \in Nat
  BY FS_CardinalityType DEF FiniteTypes
<1>2. d \in Delivery
  BY <1>1 DEF Delivery
<1>3. IsFiniteSet(deliveries \cup {d})
  BY FS_AddElement DEF FiniteTypes
<1>4. deliveries' = deliveries \cup {d} \/ deliveries' = deliveries
  BY DEF Return
<1>5. QED
  BY <1>2, <1>3, <1>4 DEF Return, FiniteTypes, RedisTypeOK

\* The number of a delivery returned is larger than every earlier one's.
LEMMA ReturnNumbers ==
    ASSUME IInv, NEW e \in Live, NEW c \in Consumer, NEW t \in Token, Return(e, c, t)
    PROVE  /\ Cardinality(deliveries) \in Nat
           /\ Cardinality(deliveries') \in Nat
           /\ Cardinality(deliveries) <= Cardinality(deliveries')
           /\ \A d \in deliveries' : d.n <= Cardinality(deliveries')
           /\ \A d \in deliveries' \ deliveries :
                 /\ d.entry = e /\ d.sub = stream[e] /\ d.token = t /\ d.by = c
                 /\ \A f \in deliveries' : f.n <= d.n
<1> DEFINE N == Cardinality(deliveries)
           d0 == [entry |-> e, sub |-> stream[e], token |-> t, by |-> c, n |-> N + 1]
<1>1. N \in Nat /\ IsFiniteSet(deliveries)
  BY FS_CardinalityType DEF IInv, FiniteTypes
<1>2. \A d \in deliveries : d.n \in Nat /\ d.n <= N
  BY DEF IInv, FiniteTypes, RedisTypeOK, Delivery, RedisInv, DeliveryInv
<1>3. CASE deliveries' = deliveries
  BY <1>1, <1>2, <1>3
<1>4. CASE deliveries' = deliveries \cup {d0}
  <2>1. d0 \notin deliveries
    BY <1>1, <1>2
  <2>2. Cardinality(deliveries') = N + 1
    BY <1>1, <1>4, <2>1, FS_AddElement
  <2> HIDE DEF N
  <2>3. d0.n = N + 1 /\ d0.entry = e /\ d0.sub = stream[e] /\ d0.token = t /\ d0.by = c
    OBVIOUS
  <2> HIDE DEF d0
  <2>4. \A d \in deliveries' : d.n <= N + 1
    BY <1>1, <1>2, <1>4, <2>3
  <2>5. QED
    BY <1>1, <1>4, <2>2, <2>3, <2>4 DEF N
<1>5. QED
  BY <1>3, <1>4 DEF Return

\* Handing an entry over keeps everything but the clients' memory in order.
LEMMA HandedStep ==
    ASSUME IInv, NEW e \in Live, pending[e] # None, NEW c \in Consumer, NEW t \in Token,
           t \notin used, Handed(e, c, t),
           prefer' \in SUBSET Consumer, taking' \in [Consumer -> Entry \cup {None}]
    PROVE  IInv'
<1>1. /\ e \in Entry /\ e <= lastId /\ stream[e] \in Submission /\ active[stream[e]] = e
  BY LiveFacts
<1>2. Live' = Live
  BY DEF Live, Handed
<1>3. RedisTypeOK
  BY DEF IInv, FiniteTypes
<1>4. /\ pending'[e] = c /\ receipts'[e] = t
      /\ \A f \in Entry \ {e} : pending'[f] = pending[f] /\ receipts'[f] = receipts[f]
  BY <1>1, <1>3 DEF Handed, RedisTypeOK
<1>5. c # None /\ t # None
  BY NoneAssumption
<1>6. FiniteTypes'
  <2>1. /\ used' \in SUBSET Token
        /\ deliveries' \in SUBSET Delivery
        /\ IsFiniteSet(deliveries')
    BY <1>1, ReturnType DEF Handed, IInv
  <2>2. QED
    BY <1>1, <1>3, <2>1 DEF Handed, RedisTypeOK, FiniteTypes
<1>7. IndexInv'
  BY <1>2 DEF Handed, IInv, RedisInv, IndexInv, OneEntryPerSubmission
<1>8. NothingStranded'
  BY <1>2, <1>4, <1>5 DEF Handed, IInv, RedisInv, NothingStranded, Offered, Live
<1>9. used' = used \cup {t} /\ deliveries \subseteq deliveries'
  BY DEF Handed, Return
<1>10. PendingInv'
  <2>1. e <= readUpTo
    BY <1>1 DEF IInv, RedisInv, PendingInv
  <2>2. QED
    BY <1>2, <1>4, <1>5, <1>9, <2>1 DEF Handed, IInv, RedisInv, PendingInv
<1>11. \A d \in deliveries : d.token \in used /\ d.token # t /\ d.entry \in Entry
  BY <1>3 DEF IInv, RedisInv, DeliveryInv, RedisTypeOK, Delivery
<1>12. /\ \A d \in deliveries' : d.n <= Cardinality(deliveries')
       /\ \A d \in deliveries' \ deliveries :
             /\ d.entry = e /\ d.sub = stream[e] /\ d.token = t /\ d.by = c
             /\ \A f \in deliveries' : f.n <= d.n
  BY ReturnNumbers DEF Handed
<1>13. DeliveryInv'
  <2> SUFFICES ASSUME NEW d \in deliveries'
               PROVE  /\ d.token \in used'
                      /\ receipts'[d.entry] = d.token =>
                            pending'[d.entry] = d.by /\ stream'[d.entry] = d.sub
    BY <1>12 DEF DeliveryInv
  <2>1. CASE d \in deliveries
    BY <1>4, <1>9, <1>11, <2>1 DEF Handed, IInv, RedisInv, DeliveryInv
  <2>2. CASE d \notin deliveries
    BY <1>4, <1>9, <1>12, <2>2 DEF Handed
  <2>3. QED
    BY <2>1, <2>2
<1>14. OnlyNewestSettles'
  <2> SUFFICES ASSUME NEW d \in deliveries', NEW f \in deliveries',
                      d.sub = f.sub, MaySettle(d)'
               PROVE  f.n <= d.n
    BY DEF OnlyNewestSettles
  <2>1. CASE d \notin deliveries
    BY <1>12, <2>1
  <2>2. CASE d \in deliveries
    <3>1. d.entry # e /\ MaySettle(d)
      BY <1>4, <1>11, <2>2 DEF MaySettle
    <3>2. d.entry = active[d.sub]
      BY <2>2, <3>1, SettleFacts
    <3>3. f \in deliveries
      BY <1>1, <1>12, <3>1, <3>2
    <3>4. QED
      BY <2>2, <3>1, <3>3 DEF IInv, RedisInv, OnlyNewestSettles
  <2>3. QED
    BY <2>1, <2>2
<1>15. QED
  BY <1>6, <1>7, <1>8, <1>10, <1>13, <1>14 DEF IInv, RedisInv

----------------------------------------------------------------------------
\* Deliveries that were made stay in order when no receipt is added and what
\* their receipts name stays where it was.
LEMMA DeliveriesKept ==
    ASSUME IInv, UNCHANGED <<used, deliveries>>,
           \A d \in deliveries : receipts'[d.entry] = d.token =>
               /\ receipts[d.entry] = d.token
               /\ pending'[d.entry] = pending[d.entry]
               /\ stream'[d.entry] = stream[d.entry]
    PROVE  DeliveryInv' /\ OnlyNewestSettles'
<1>1. DeliveryInv'
  BY DEF IInv, RedisInv, DeliveryInv
<1>2. \A d \in deliveries : MaySettle(d)' => MaySettle(d)
  BY DEF MaySettle
<1>3. OnlyNewestSettles'
  BY <1>2 DEF IInv, RedisInv, OnlyNewestSettles
<1>4. QED
  BY <1>1, <1>3

\* Publishing keeps the invariant.
LEMMA PublishStep ==
    ASSUME IInv, NEW s \in Submission, Publish(s)
    PROVE  IInv'
<1> DEFINE new == lastId + 1
<1>1. RedisTypeOK /\ IsFiniteSet(deliveries)
  BY DEF IInv, FiniteTypes
<1>2. new \in Entry /\ new > lastId /\ new \notin 0 .. lastId /\ lastId \in Nat
  BY <1>1, EntryAssumption DEF RedisTypeOK, Entry, Publish
<1>3. stream[new] = None /\ pending[new] = None /\ receipts[new] = None
  BY <1>2, UnusedEntry
<1>4. s # None /\ new # None
  BY <1>2, NoneAssumption
<1>5. Live' = Live \cup {new} /\ new \notin Live
  BY <1>1, <1>2, <1>3, <1>4 DEF Live, Publish, RedisTypeOK
<1>6. FiniteTypes'
  <2>1. lastId' \in 0 .. MaxEntry /\ readUpTo' \in 0 .. lastId'
    BY <1>1, EntryAssumption DEF RedisTypeOK, Publish
  <2>2. IsFiniteSet(deliveries)'
    BY <1>1 DEF Publish
  <2>3. QED
    BY <1>1, <1>2, <2>1, <2>2 DEF FiniteTypes, RedisTypeOK, Publish
<1>7. IndexInv'
  <2>1. /\ stream'[new] = s /\ active'[s] = new
        /\ \A e \in Entry \ {new} : stream'[e] = stream[e]
        /\ \A x \in Submission \ {s} : active'[x] = active[x]
    BY <1>1, <1>2 DEF Publish, RedisTypeOK
  <2>2. \A e \in Live : stream[e] # s
    BY LiveFacts DEF Publish
  <2>3. OneEntryPerSubmission'
    BY <1>5, <2>1, <2>2, LiveFacts DEF OneEntryPerSubmission
  <2>4. ASSUME NEW x \in Submission \ {s}, active[x] # None
        PROVE  active[x] \in Live /\ stream[active[x]] = x
    <3>1. active[x] \in Entry /\ stream[active[x]] = x
      BY <1>1, <2>4 DEF RedisTypeOK, IInv, RedisInv, IndexInv
    <3>2. QED
      BY <3>1, NoneAssumption DEF Live
  <2>5. QED
    BY <1>5, <2>1, <2>3, <2>4 DEF IndexInv, Live
<1>8. NothingStranded'
  <2>1. new > readUpTo
    BY <1>1, <1>2 DEF RedisTypeOK
  <2>2. QED
    BY <1>5, <2>1 DEF IInv, RedisInv, NothingStranded, Offered, Publish
<1>9. PendingInv'
  BY <1>1, <1>2, <1>5 DEF IInv, RedisInv, PendingInv, Publish, RedisTypeOK, Entry
<1>10. DeliveryInv' /\ OnlyNewestSettles'
  <2>1. \A d \in deliveries : d.token # None
    BY <1>1, NoneAssumption DEF RedisTypeOK, Delivery
  <2>2. \A d \in deliveries : receipts[d.entry] = d.token => d.entry # new
    BY <1>3, <2>1
  <2>3. \A d \in deliveries : d.entry # new => stream'[d.entry] = stream[d.entry]
    BY <1>1 DEF Publish, RedisTypeOK, Delivery
  <2>4. QED
    BY <2>2, <2>3, DeliveriesKept DEF Publish
<1>11. QED
  BY <1>6, <1>7, <1>8, <1>9, <1>10 DEF IInv, RedisInv

\* A fresh read keeps it.
LEMMA TakeFreshStep ==
    ASSUME IInv, NEW c \in Consumer, TakeFresh(c)
    PROVE  IInv'
<1>1. RedisTypeOK /\ IsFiniteSet(deliveries)
  BY DEF IInv, FiniteTypes
<1>2. PICK e \in Fresh : /\ \A f \in Fresh : e <= f
                         /\ readUpTo' = e
                         /\ pending' = [pending EXCEPT ![e] = c]
                         /\ taking' = [taking EXCEPT ![c] = e]
  BY DEF TakeFresh
<1>3. UNCHANGED <<stream, lastId, receipts, active, used, deliveries>>
  BY DEF TakeFresh
<1>4. e \in Live /\ e \in Entry /\ e <= lastId /\ e > readUpTo
  BY <1>2, LiveFacts DEF Fresh
<1>5. Live' = Live
  BY <1>3 DEF Live
<1>6. e \in Nat /\ lastId \in Nat /\ readUpTo \in Nat /\ \A f \in Entry : f \in Nat
  BY <1>1, <1>4, EntryAssumption DEF RedisTypeOK, Entry
<1>7. /\ pending'[e] = c /\ c # None
      /\ \A f \in Entry \ {e} : pending'[f] = pending[f]
  BY <1>1, <1>2, <1>4, NoneAssumption DEF RedisTypeOK
<1>8. FiniteTypes'
  <2>1. IsFiniteSet(deliveries)'
    BY <1>1, <1>3
  <2>2. readUpTo' \in 0 .. lastId'
    BY <1>2, <1>3, <1>4, <1>6
  <2>3. QED
    BY <1>1, <1>2, <1>3, <1>4, <2>1, <2>2 DEF FiniteTypes, RedisTypeOK, TakeFresh
<1>9. IndexInv'
  BY <1>3, <1>5 DEF IInv, RedisInv, IndexInv, OneEntryPerSubmission
<1>10. NothingStranded'
  BY <1>2, <1>4, <1>5, <1>6, <1>7
     DEF IInv, RedisInv, NothingStranded, Offered, Fresh, Live
<1>11. PendingInv'
  <2>1. \A f \in Entry : f <= readUpTo => f <= e
    BY <1>4, <1>6
  <2>2. QED
    BY <1>2, <1>3, <1>4, <1>5, <1>6, <1>7, <2>1 DEF IInv, RedisInv, PendingInv
<1>12. DeliveryInv' /\ OnlyNewestSettles'
  <2>1. pending[e] = None
    BY <1>4, <1>6 DEF IInv, RedisInv, PendingInv
  <2>2. receipts[e] = None
    BY <1>4, <2>1 DEF IInv, RedisInv, PendingInv
  <2>3. \A d \in deliveries : d.token # None /\ d.entry \in Entry
    BY <1>1, NoneAssumption DEF RedisTypeOK, Delivery
  <2>4. QED
    BY <1>3, <1>7, <2>2, <2>3, DeliveriesKept
<1>13. QED
  BY <1>8, <1>9, <1>10, <1>11, <1>12 DEF IInv, RedisInv

\* So does a reply that is lost.
LEMMA ReplyLostStep ==
    ASSUME IInv, NEW c \in Consumer, ReplyLost(c)
    PROVE  IInv'
<1>1. UNCHANGED <<keys, prefer, used, deliveries>>
  BY DEF ReplyLost
<1>2. FiniteTypes'
  BY <1>1 DEF ReplyLost, IInv, FiniteTypes, RedisTypeOK, keys
<1>3. RedisInv'
  BY <1>1 DEF IInv, RedisInv, IndexInv, OneEntryPerSubmission, NothingStranded, Offered, Live,
     PendingInv, DeliveryInv, OnlyNewestSettles, MaySettle, keys
<1>4. QED
  BY <1>2, <1>3 DEF IInv

\* So does taking over an entry that is overdue.
LEMMA ReclaimStep ==
    ASSUME IInv, NEW c \in Consumer, NEW t \in Token, Reclaim(c, t)
    PROVE  IInv'
<1>1. PICK e \in Live : /\ pending[e] # None
                        /\ pending' = [pending EXCEPT ![e] = c]
                        /\ receipts' = [receipts EXCEPT ![e] = t]
                        /\ Return(e, c, t)
  BY DEF Reclaim
<1>2. Handed(e, c, t)
  BY <1>1 DEF Handed, Reclaim
<1>3. prefer' \in SUBSET Consumer /\ taking' \in [Consumer -> Entry \cup {None}]
  BY DEF Reclaim, IInv, FiniteTypes, RedisTypeOK
<1>4. t \notin used
  BY DEF Reclaim
<1>5. QED
  BY <1>1, <1>2, <1>3, <1>4, HandedStep

\* The check of the registration: it hands an entry over that c still owns.
LEMMA RegisterHands ==
    ASSUME IInv, NEW c \in Consumer, NEW t \in Token, Register(c, t),
           pending[taking[c]] = c
    PROVE  /\ taking[c] \in Live
           /\ pending[taking[c]] # None
           /\ t \notin used
           /\ Handed(taking[c], c, t)
<1>1. RedisTypeOK
  BY DEF IInv, FiniteTypes
<1>2. taking[c] \in Entry
  BY <1>1 DEF Register, RedisTypeOK
<1>3. c # None
  BY NoneAssumption
<1>4. taking[c] \in Live
  BY <1>2, <1>3 DEF IInv, RedisInv, PendingInv
<1>5. pending' = [pending EXCEPT ![taking[c]] = c]
  BY <1>1 DEF Register, RedisTypeOK
<1>6. QED
  BY <1>3, <1>4, <1>5 DEF Register, Handed

\* So does the registration of a receipt.
LEMMA RegisterStep ==
    ASSUME IInv, NEW c \in Consumer, NEW t \in Token, Register(c, t)
    PROVE  IInv'
<1>1. prefer' \in SUBSET Consumer /\ taking' \in [Consumer -> Entry \cup {None}]
  BY DEF Register, IInv, FiniteTypes, RedisTypeOK
<1>2. CASE pending[taking[c]] = c
  BY <1>1, <1>2, RegisterHands, HandedStep
<1>3. CASE pending[taking[c]] # c
  <2>1. UNCHANGED <<stream, lastId, readUpTo, pending, receipts, active, used, deliveries>>
    BY <1>3 DEF Register
  <2>2. FiniteTypes'
    BY <1>1, <2>1 DEF IInv, FiniteTypes, RedisTypeOK
  <2>3. RedisInv'
    BY <2>1 DEF IInv, RedisInv, IndexInv, OneEntryPerSubmission, NothingStranded, Offered,
       Live, PendingInv, DeliveryInv, OnlyNewestSettles, MaySettle
  <2>4. QED
    BY <2>2, <2>3 DEF IInv
<1>4. QED
  BY <1>2, <1>3

----------------------------------------------------------------------------
\* Settling an entry forgets its receipt; nobody else's changes.
LEMMA ForgetKeeps ==
    ASSUME IInv, NEW d \in deliveries, MaySettle(d), Forget(d.entry)
    PROVE  /\ d.entry \in Entry
           /\ pending'[d.entry] = None /\ receipts'[d.entry] = None
           /\ \A e \in Entry \ {d.entry} : pending'[e] = pending[e] /\ receipts'[e] = receipts[e]
           /\ pending' \in [Entry -> Consumer \cup {None}]
           /\ receipts' \in [Entry -> Token \cup {None}]
           /\ \A f \in deliveries : f.entry \in Entry /\ f.token # None
  BY NoneAssumption DEF IInv, FiniteTypes, RedisTypeOK, Delivery, Forget

\* So does an acknowledgement.
LEMMA AckStep ==
    ASSUME IInv, NEW d \in deliveries, Ack(d)
    PROVE  IInv'
<1>1. RedisTypeOK /\ IsFiniteSet(deliveries)
  BY DEF IInv, FiniteTypes
<1>2. MaySettle(d) /\ Forget(d.entry)
  BY DEF Ack
<1>3. d.entry \in Live /\ stream[d.entry] = d.sub /\ active[d.sub] = d.entry /\ d.sub \in Submission
  BY <1>2, SettleFacts
<1>4. /\ d.entry \in Entry
      /\ pending'[d.entry] = None /\ receipts'[d.entry] = None
      /\ \A e \in Entry \ {d.entry} : pending'[e] = pending[e] /\ receipts'[e] = receipts[e]
      /\ pending' \in [Entry -> Consumer \cup {None}]
      /\ receipts' \in [Entry -> Token \cup {None}]
      /\ \A f \in deliveries : f.entry \in Entry /\ f.token # None
  BY <1>2, ForgetKeeps
<1>5. /\ stream'[d.entry] = None
      /\ \A e \in Entry \ {d.entry} : stream'[e] = stream[e]
      /\ active'[d.sub] = None
      /\ \A s \in Submission \ {d.sub} : active'[s] = active[s]
      /\ UNCHANGED <<lastId, readUpTo, prefer, taking, used, deliveries>>
  BY <1>1, <1>3, <1>4 DEF Ack, RedisTypeOK
<1>6. Live' = Live \ {d.entry}
  BY <1>4, <1>5 DEF Live
<1>7. FiniteTypes'
  <2>1. IsFiniteSet(deliveries)'
    BY <1>1, <1>5
  <2>2. active' \in [Submission -> Entry \cup {None}]
    BY <1>1, <1>3 DEF Ack, RedisTypeOK
  <2>3. stream' \in [Entry -> Submission \cup {None}]
    BY <1>1 DEF Ack, RedisTypeOK
  <2>4. QED
    BY <1>1, <1>4, <1>5, <2>1, <2>2, <2>3 DEF FiniteTypes, RedisTypeOK
<1>8. IndexInv'
  <2>1. ASSUME NEW e \in Live \ {d.entry}
        PROVE  active'[stream'[e]] = e
    BY <1>3, <1>5, LiveFacts
  <2>2. ASSUME NEW s \in Submission, active'[s] # None
        PROVE  stream'[active'[s]] = s
    <3>1. s # d.sub /\ active'[s] = active[s]
      BY <1>5, <2>2
    <3>2. stream[active[s]] = s /\ active[s] \in Entry
      BY <1>1, <2>2, <3>1 DEF IInv, RedisInv, IndexInv, RedisTypeOK
    <3>3. QED
      BY <1>3, <1>5, <3>1, <3>2
  <2>3. QED
    BY <1>6, <2>1, <2>2 DEF IndexInv, OneEntryPerSubmission
<1>9. NothingStranded'
  BY <1>4, <1>5, <1>6 DEF IInv, RedisInv, NothingStranded, Offered, Live
<1>10. PendingInv'
  BY <1>4, <1>5, <1>6 DEF IInv, RedisInv, PendingInv
<1>11. DeliveryInv' /\ OnlyNewestSettles'
  <2>1. \A f \in deliveries : receipts'[f.entry] = f.token => f.entry # d.entry
    BY <1>4
  <2>2. QED
    BY <1>4, <1>5, <2>1, DeliveriesKept
<1>12. QED
  BY <1>7, <1>8, <1>9, <1>10, <1>11 DEF IInv, RedisInv

\* So does giving a delivery back.
LEMMA NackStep ==
    ASSUME IInv, NEW d \in deliveries, Nack(d)
    PROVE  IInv'
<1> DEFINE new == lastId + 1
<1>1. RedisTypeOK /\ IsFiniteSet(deliveries)
  BY DEF IInv, FiniteTypes
<1>2. MaySettle(d) /\ Forget(d.entry)
  BY DEF Nack
<1>3. d.entry \in Live /\ stream[d.entry] = d.sub /\ active[d.sub] = d.entry /\ d.sub \in Submission
  BY <1>2, SettleFacts
<1>4. /\ d.entry \in Entry
      /\ pending'[d.entry] = None /\ receipts'[d.entry] = None
      /\ \A e \in Entry \ {d.entry} : pending'[e] = pending[e] /\ receipts'[e] = receipts[e]
      /\ pending' \in [Entry -> Consumer \cup {None}]
      /\ receipts' \in [Entry -> Token \cup {None}]
      /\ \A f \in deliveries : f.entry \in Entry /\ f.token # None
  BY <1>2, ForgetKeeps
<1>5. new \in Entry /\ new > lastId /\ new \notin 0 .. lastId /\ lastId \in Nat
  BY <1>1, EntryAssumption DEF RedisTypeOK, Entry, Nack
<1>6. stream[new] = None /\ pending[new] = None /\ receipts[new] = None /\ new \notin Live
  BY <1>5, UnusedEntry DEF Live
<1>7. d.entry # new /\ d.sub # None /\ new # None
  BY <1>3, <1>5, <1>6, NoneAssumption
<1>8. /\ stream'[d.entry] = None /\ stream'[new] = d.sub
      /\ \A e \in Entry \ {d.entry, new} : stream'[e] = stream[e]
      /\ active'[d.sub] = new
      /\ \A s \in Submission \ {d.sub} : active'[s] = active[s]
      /\ lastId' = new
      /\ UNCHANGED <<readUpTo, prefer, taking, used, deliveries>>
  BY <1>1, <1>3, <1>4, <1>5, <1>7 DEF Nack, RedisTypeOK
<1>9. Live' = (Live \ {d.entry}) \cup {new}
  BY <1>4, <1>5, <1>7, <1>8 DEF Live
<1>10. FiniteTypes'
  <2>1. IsFiniteSet(deliveries)'
    BY <1>1, <1>8
  <2>2. active' \in [Submission -> Entry \cup {None}]
    BY <1>1, <1>5 DEF Nack, RedisTypeOK
  <2>3. stream' \in [Entry -> Submission \cup {None}]
    BY <1>1, <1>3 DEF Nack, RedisTypeOK
  <2>4. lastId' \in 0 .. MaxEntry /\ readUpTo' \in 0 .. lastId'
    BY <1>1, EntryAssumption DEF RedisTypeOK, Nack
  <2>5. QED
    BY <1>1, <1>4, <1>8, <2>1, <2>2, <2>3, <2>4 DEF FiniteTypes, RedisTypeOK
<1>11. IndexInv'
  <2>1. ASSUME NEW e \in Live \ {d.entry}
        PROVE  active'[stream'[e]] = e
    BY <1>3, <1>6, <1>8, LiveFacts
  <2>2. ASSUME NEW s \in Submission, active'[s] # None
        PROVE  stream'[active'[s]] = s
    <3>1. CASE s = d.sub
      BY <1>8, <3>1
    <3>2. CASE s # d.sub
      <4>1. active'[s] = active[s]
        BY <1>8, <3>2
      <4>2. stream[active[s]] = s /\ active[s] \in Entry
        BY <1>1, <2>2, <4>1 DEF IInv, RedisInv, IndexInv, RedisTypeOK
      <4>3. active[s] # d.entry /\ active[s] # new
        BY <1>3, <1>6, <3>2, <4>2, NoneAssumption
      <4>4. QED
        BY <1>8, <4>1, <4>2, <4>3
    <3>3. QED
      BY <3>1, <3>2
  <2>3. active'[stream'[new]] = new
    BY <1>8
  <2>4. QED
    BY <1>9, <2>1, <2>2, <2>3 DEF IndexInv, OneEntryPerSubmission
<1>12. NothingStranded'
  <2>1. new > readUpTo
    BY <1>1, <1>5 DEF RedisTypeOK
  <2>2. \A e \in Live \ {d.entry} : e > readUpTo \/ pending'[e] # None
    BY <1>4 DEF IInv, RedisInv, NothingStranded, Offered, Live
  <2>3. QED
    BY <1>8, <1>9, <2>1, <2>2 DEF NothingStranded, Offered
<1>13. PendingInv'
  <2>1. \A e \in Entry : e <= lastId => e <= new
    BY <1>5 DEF Entry
  <2>2. QED
    BY <1>4, <1>5, <1>6, <1>8, <1>9, <2>1 DEF IInv, RedisInv, PendingInv
<1>14. DeliveryInv' /\ OnlyNewestSettles'
  <2>1. \A f \in deliveries : receipts'[f.entry] = f.token => f.entry # d.entry
    BY <1>4
  <2>2. \A f \in deliveries : receipts'[f.entry] = f.token => f.entry # new
    BY <1>4, <1>5, <1>6, <1>7
  <2>3. QED
    BY <1>4, <1>8, <2>1, <2>2, DeliveriesKept
<1>15. QED
  BY <1>10, <1>11, <1>12, <1>13, <1>14 DEF IInv, RedisInv

----------------------------------------------------------------------------
\* An empty stream satisfies the invariant.
LEMMA InitIInv == RedisInit => IInv
<1> SUFFICES ASSUME RedisInit PROVE IInv
  OBVIOUS
<1>1. Live = {}
  BY DEF Live, RedisInit
<1>2. IsFiniteSet(deliveries)
  BY FS_EmptySet DEF RedisInit
<1>3. RedisTypeOK
  BY EntryAssumption DEF RedisInit, RedisTypeOK
<1>4. IndexInv /\ NothingStranded
  BY <1>1 DEF IndexInv, OneEntryPerSubmission, NothingStranded, RedisInit
<1>5. PendingInv
  BY <1>1 DEF PendingInv, RedisInit
<1>6. DeliveryInv /\ OnlyNewestSettles
  BY DEF DeliveryInv, OnlyNewestSettles, RedisInit
<1>7. QED
  BY <1>2, <1>3, <1>4, <1>5, <1>6 DEF IInv, FiniteTypes, RedisInv

\* Every step of the queue keeps it.
LEMMA NextIInv == IInv /\ [RedisNext]_redisVars => IInv'
<1> SUFFICES ASSUME IInv, [RedisNext]_redisVars PROVE IInv'
  OBVIOUS
<1>1. CASE UNCHANGED redisVars
  <2>1. FiniteTypes'
    BY <1>1 DEF IInv, FiniteTypes, RedisTypeOK, redisVars, keys
  <2>2. RedisInv'
    BY <1>1 DEF IInv, RedisInv, IndexInv, OneEntryPerSubmission, NothingStranded, Offered,
       Live, PendingInv, DeliveryInv, OnlyNewestSettles, MaySettle, redisVars, keys
  <2>3. QED
    BY <2>1, <2>2 DEF IInv
<1>2. CASE \E s \in Submission : Publish(s)
  BY <1>2, PublishStep
<1>3. CASE \E c \in Consumer : TakeFresh(c) \/ ReplyLost(c)
  BY <1>3, TakeFreshStep, ReplyLostStep
<1>4. CASE \E c \in Consumer, t \in Token : Reclaim(c, t) \/ Register(c, t)
  BY <1>4, ReclaimStep, RegisterStep
<1>5. CASE \E d \in deliveries : Ack(d) \/ Nack(d)
  BY <1>5, AckStep, NackStep
<1>6. QED
  BY <1>1, <1>2, <1>3, <1>4, <1>5 DEF RedisNext

\* It holds in every state.
LEMMA Inductive == RedisSpec => []IInv
  BY InitIInv, NextIInv, PTL DEF RedisSpec

\* Redis's keys and the clients' memory keep their types in every behaviour.
THEOREM RedisTypeCorrect == RedisSpec => []RedisTypeOK
<1>1. IInv => RedisTypeOK
  BY DEF IInv, FiniteTypes
<1>2. QED
  BY <1>1, Inductive, PTL

\* What the run checks as the inductive invariant is one, with the finiteness
\* of the deliveries added.
THEOREM RedisInvariant == RedisSpec => []RedisInv
<1>1. IInv => RedisInv
  BY DEF IInv
<1>2. QED
  BY <1>1, Inductive, PTL

\* _PUBLISH_SCRIPT and _REQUEUE_SCRIPT never leave two entries of a submission.
THEOREM NoDuplicateEntries == RedisSpec => []OneEntryPerSubmission
<1>1. IInv => OneEntryPerSubmission
  BY DEF IInv, RedisInv, IndexInv
<1>2. QED
  BY <1>1, Inductive, PTL

\* No crash between a read and its registration strands an entry.
THEOREM EntriesStayAvailable == RedisSpec => []NothingStranded
<1>1. IInv => NothingStranded
  BY DEF IInv, RedisInv
<1>2. QED
  BY <1>1, Inductive, PTL

\* The receipt check of _ACK_SCRIPT and _REQUEUE_SCRIPT fences stale handlers.
THEOREM StaleDeliveriesFenced == RedisSpec => []OnlyNewestSettles
<1>1. IInv => OnlyNewestSettles
  BY DEF IInv, RedisInv
<1>2. QED
  BY <1>1, Inductive, PTL

\* The owner check of _REGISTER_RECEIPT_SCRIPT keeps receipts with their owner.
THEOREM ReceiptsStayWithOwner == RedisSpec => []ReceiptsFollowOwner
<1>1. IInv => ReceiptsFollowOwner
  BY DEF IInv, RedisInv, DeliveryInv, ReceiptsFollowOwner
<1>2. QED
  BY <1>1, Inductive, PTL

----------------------------------------------------------------------------
(***************************************************************************)
(* The refinement: a step is a step of JobQueue on Place or leaves it.      *)
(***************************************************************************)

Where(s) == IF active[s] \in Live THEN receipts[active[s]] ELSE "gone"

\* By NothingStranded the entries offered are the live ones.
LEMMA PlaceIs == IInv => Place = [m \in Submission \X {1} |-> Where(m[1])]
<1> SUFFICES ASSUME IInv PROVE Place = [m \in Submission \X {1} |-> Where(m[1])]
  OBVIOUS
<1>1. Offered = Live
  BY DEF IInv, RedisInv, NothingStranded, Offered, Live
<1>2. QED
  BY <1>1 DEF Place, Where

\* An active entry that is live is its submission's own.
LEMMA ActiveOwn ==
    ASSUME IInv, NEW s \in Submission
    PROVE  active[s] \in Live => stream[active[s]] = s
  BY NoneAssumption, LiveFacts DEF IInv, RedisInv, IndexInv, Live, FiniteTypes, RedisTypeOK, Entry

\* A step that moves the message of one submission only.
LEMMA PutPlace ==
    ASSUME IInv, IInv', NEW s \in Submission, NEW p, Where(s)' = p,
           \A x \in Submission \ {s} : Where(x)' = Where(x)
    PROVE  Queue!Put(<<s, 1>>, p)
<1>1. Place = [m \in Submission \X {1} |-> Where(m[1])]
  BY PlaceIs
<1>2. Place' = [m \in Submission \X {1} |-> Where(m[1])']
  <2>1. Offered' = Live'
    BY DEF IInv, RedisInv, NothingStranded, Offered, Live
  <2>2. QED
    BY <2>1 DEF Place, Where
<1>3. \A m \in Submission \X {1} : m = <<m[1], 1>> /\ m[1] \in Submission
  OBVIOUS
<1>4. \A m \in Submission \X {1} : Where(m[1])' = IF m = <<s, 1>> THEN p ELSE Where(m[1])
  BY <1>3
<1>5. Place' = [Place EXCEPT ![<<s, 1>>] = p]
  BY <1>1, <1>2, <1>4
<1>6. QED
  BY <1>5 DEF Queue!Put

\* The one message of a submission is where its entry is.
LEMMA PlaceAt ==
    ASSUME IInv, NEW s \in Submission
    PROVE  <<s, 1>> \in Queue!Message /\ Place[<<s, 1>>] = Where(s)
  BY PlaceIs DEF Queue!Message

\* _PUBLISH_SCRIPT publishes.
LEMMA PublishMaps ==
    ASSUME IInv, IInv', NEW s \in Submission, Publish(s)
    PROVE  Queue!Publish(s)
<1> DEFINE new == lastId + 1
<1>1. RedisTypeOK
  BY DEF IInv, FiniteTypes
<1>2. new \in Entry /\ new > lastId
  BY <1>1, EntryAssumption DEF RedisTypeOK, Entry, Publish
<1>3. stream[new] = None /\ receipts[new] = None /\ new \notin Live
  BY <1>2, UnusedEntry DEF Live
<1>4. Live' = Live \cup {new}
  BY <1>1, <1>2, <1>3, NoneAssumption DEF Live, Publish, RedisTypeOK
<1>5. Where(s)' = None
  BY <1>1, <1>3, <1>4 DEF Where, Publish, RedisTypeOK
<1>6. ASSUME NEW x \in Submission \ {s}
      PROVE  Where(x)' = Where(x)
  <2>1. active'[x] = active[x]
    BY <1>1 DEF Publish, RedisTypeOK
  <2>2. active[x] # new
    BY <1>2, <1>3, NoneAssumption DEF IInv, RedisInv, IndexInv, Entry
  <2>3. QED
    BY <1>4, <2>1, <2>2 DEF Where, Publish
<1>7. Queue!Put(<<s, 1>>, None)
  BY <1>5, <1>6, PutPlace
<1>8. Place[<<s, 1>>] = "gone" /\ <<s, 1>> \in Queue!Message
  BY PlaceAt DEF Where, Publish
<1>9. QED
  BY <1>7, <1>8 DEF Queue!Publish

\* A takeover or a registration delivers, with a receipt nobody holds.
LEMMA HandedMaps ==
    ASSUME IInv, IInv', NEW e \in Live, NEW c \in Consumer, NEW t \in Token, t \notin used,
           Handed(e, c, t)
    PROVE  \E m \in Queue!Message : Queue!Deliver(m, t)
<1>1. PICK s \in Submission : s = stream[e] /\ e \in Entry /\ active[s] = e
  BY LiveFacts
<1>2. RedisTypeOK
  BY DEF IInv, FiniteTypes
<1>3. Live' = Live /\ active' = active
  BY DEF Live, Handed
<1>4. receipts'[e] = t /\ \A f \in Live \ {e} : receipts'[f] = receipts[f]
  BY <1>1, <1>2 DEF Handed, RedisTypeOK, Live
<1>5. Where(s)' = t
  BY <1>1, <1>3, <1>4 DEF Where
<1>6. ASSUME NEW x \in Submission \ {s}
      PROVE  Where(x)' = Where(x)
  <2>1. active[x] \in Live => active[x] # e
    BY <1>1, ActiveOwn
  <2>2. QED
    BY <1>3, <1>4, <2>1 DEF Where
<1>7. Queue!Put(<<s, 1>>, t)
  BY <1>1, <1>5, <1>6, PutPlace
<1>8. Place[<<s, 1>>] # "gone" /\ <<s, 1>> \in Queue!Message
  <2>1. receipts[e] \in Token \cup {None}
    BY <1>1, <1>2 DEF RedisTypeOK
  <2>2. QED
    BY <1>1, <2>1, PlaceAt, GoneAssumption DEF Where
<1>9. Queue!Held(t) = {}
  <2>1. ASSUME NEW x \in Submission PROVE Where(x) # t
    <3>1. CASE active[x] \in Live
      <4>1. active[x] \in Entry
        BY <3>1 DEF Live
      <4>2. receipts[active[x]] = None \/ receipts[active[x]] \in used
        BY <4>1 DEF IInv, RedisInv, PendingInv
      <4>3. QED
        BY <3>1, <4>2, NoneAssumption DEF Where
    <3>2. CASE active[x] \notin Live
      BY <3>2, GoneAssumption DEF Where
    <3>3. QED
      BY <3>1, <3>2
  <2>2. \A m \in Queue!Message : m[1] \in Submission /\ Place[m] = Where(m[1])
    BY PlaceIs DEF Queue!Message
  <2>3. QED
    BY <2>1, <2>2 DEF Queue!Held
<1>10. QED
  BY <1>7, <1>8, <1>9 DEF Queue!Deliver

\* A delivery that may be settled holds its submission's message.
LEMMA SettleHolds ==
    ASSUME IInv, NEW d \in deliveries, MaySettle(d)
    PROVE  <<d.sub, 1>> \in Queue!Held(d.token) /\ d.token \in Token
<1>1. d \in Delivery
  BY DEF IInv, FiniteTypes, RedisTypeOK
<1>2. Where(d.sub) = d.token
  BY SettleFacts DEF Where, MaySettle
<1>3. d.sub \in Submission
  BY SettleFacts
<1>4. QED
  BY <1>1, <1>2, <1>3, PlaceAt DEF Queue!Held, Delivery

\* Settling moves no other submission's message.
LEMMA SettleElsewhere ==
    ASSUME IInv, NEW d \in deliveries, MaySettle(d), Forget(d.entry),
           NEW x \in Submission \ {d.sub}, active'[x] = active[x],
           active[x] \in Live' <=> active[x] \in Live \ {d.entry}
    PROVE  Where(x)' = Where(x)
<1>1. active[x] \in Live => active[x] # d.entry
  BY ActiveOwn, SettleFacts
<1>2. active[x] \in Live => active[x] \in Entry
  BY DEF Live
<1>3. QED
  BY <1>1, <1>2, ForgetKeeps DEF Where

\* An acknowledgement of the newest receipt is the one of the promise.
LEMMA AckMaps ==
    ASSUME IInv, IInv', NEW d \in deliveries, Ack(d)
    PROVE  Queue!Ack(d.token)
<1>1. MaySettle(d) /\ Forget(d.entry) /\ RedisTypeOK
  BY DEF Ack, IInv, FiniteTypes
<1>2. d.entry \in Live /\ active[d.sub] = d.entry /\ d.sub \in Submission
  BY <1>1, SettleFacts
<1>3. Live' = Live \ {d.entry}
  BY <1>1, <1>2 DEF Live, Ack, RedisTypeOK
<1>4. active'[d.sub] = None /\ \A x \in Submission \ {d.sub} : active'[x] = active[x]
  BY <1>1, <1>2 DEF Ack, RedisTypeOK
<1>5. Where(d.sub)' = "gone"
  <2>1. None \notin Live'
    BY <1>3, NoneAssumption, EntryAssumption DEF Live, Entry
  <2>2. QED
    BY <1>4, <2>1 DEF Where
<1>6. \A x \in Submission \ {d.sub} : Where(x)' = Where(x)
  BY <1>1, <1>3, <1>4, SettleElsewhere
<1>7. Queue!Put(<<d.sub, 1>>, "gone")
  BY <1>2, <1>5, <1>6, PutPlace
<1>8. QED
  BY <1>1, <1>7, SettleHolds DEF Queue!Ack

\* Giving back the newest receipt is the one of the promise.
LEMMA NackMaps ==
    ASSUME IInv, IInv', NEW d \in deliveries, Nack(d)
    PROVE  Queue!Nack(d.token)
<1> DEFINE new == lastId + 1
<1>1. MaySettle(d) /\ Forget(d.entry) /\ RedisTypeOK
  BY DEF Nack, IInv, FiniteTypes
<1>2. d.entry \in Live /\ active[d.sub] = d.entry /\ d.sub \in Submission /\ d.entry \in Entry
  BY <1>1, SettleFacts DEF Live
<1>3. new \in Entry /\ new > lastId
  BY <1>1, EntryAssumption DEF RedisTypeOK, Entry, Nack
<1>4. stream[new] = None /\ receipts[new] = None /\ new \notin Live
  BY <1>3, UnusedEntry DEF Live
<1>5. Live' = (Live \ {d.entry}) \cup {new}
  BY <1>1, <1>2, <1>3, <1>4, NoneAssumption DEF Live, Nack, RedisTypeOK
<1>6. active'[d.sub] = new /\ \A x \in Submission \ {d.sub} : active'[x] = active[x]
  BY <1>1, <1>2 DEF Nack, RedisTypeOK
<1>7. Where(d.sub)' = None
  BY <1>1, <1>2, <1>3, <1>4, <1>5, <1>6, ForgetKeeps DEF Where
<1>8. ASSUME NEW x \in Submission \ {d.sub}
      PROVE  Where(x)' = Where(x)
  <2>1. active[x] # new
    BY <1>3, <1>4, NoneAssumption DEF IInv, RedisInv, IndexInv, Entry
  <2>2. QED
    BY <1>1, <1>5, <1>6, <2>1, SettleElsewhere
<1>9. Queue!Put(<<d.sub, 1>>, None)
  BY <1>2, <1>7, <1>8, PutPlace
<1>10. QED
  BY <1>1, <1>9, SettleHolds DEF Queue!Nack

\* What Place does not read may change.
LEMMA PlaceKept ==
    ASSUME IInv, IInv', UNCHANGED <<stream, receipts, active>>
    PROVE  UNCHANGED Place
<1>1. Live' = Live
  BY DEF Live
<1>2. \A s \in Submission : Where(s)' = Where(s)
  BY <1>1 DEF Where
<1>3. Offered = Live /\ Offered' = Live'
  BY DEF IInv, RedisInv, NothingStranded, Offered, Live
<1>4. QED
  BY <1>1, <1>3 DEF Place

\* Every step is one of the promised queue or none.
LEMMA StepMaps == IInv /\ IInv' /\ [RedisNext]_redisVars => [Queue!QueueNext]_Place
<1> SUFFICES ASSUME IInv, IInv', [RedisNext]_redisVars PROVE [Queue!QueueNext]_Place
  OBVIOUS
<1>1. CASE UNCHANGED redisVars
  BY <1>1, PlaceKept DEF redisVars, keys
<1>2. ASSUME NEW s \in Submission, Publish(s)
      PROVE  Queue!QueueNext
  BY <1>2, PublishMaps DEF Queue!QueueNext
<1>3. ASSUME NEW c \in Consumer, TakeFresh(c) \/ ReplyLost(c)
      PROVE  UNCHANGED Place
  BY <1>3, PlaceKept DEF TakeFresh, ReplyLost, keys
<1>4. ASSUME NEW c \in Consumer, NEW t \in Token, Reclaim(c, t)
      PROVE  Queue!QueueNext
  <2>1. PICK e \in Live : Handed(e, c, t)
    BY <1>4 DEF Reclaim, Handed
  <2>2. t \notin used
    BY <1>4 DEF Reclaim
  <2>3. QED
    BY <2>1, <2>2, HandedMaps DEF Queue!QueueNext
<1>5. ASSUME NEW c \in Consumer, NEW t \in Token, Register(c, t)
      PROVE  [Queue!QueueNext]_Place
  <2>1. CASE pending[taking[c]] = c
    BY <1>5, <2>1, RegisterHands, HandedMaps DEF Queue!QueueNext
  <2>2. CASE pending[taking[c]] # c
    BY <1>5, <2>2, PlaceKept DEF Register
  <2>3. QED
    BY <2>1, <2>2
<1>6. ASSUME NEW d \in deliveries, Ack(d) \/ Nack(d)
      PROVE  Queue!QueueNext
  <2>1. d.token \in Token
    BY <1>6, SettleHolds DEF Ack, Nack
  <2>2. QED
    BY <1>6, <2>1, AckMaps, NackMaps DEF Queue!QueueNext
<1>7. QED
  BY <1>1, <1>2, <1>3, <1>4, <1>5, <1>6 DEF RedisNext

\* An empty stream is the empty queue.
LEMMA InitMaps == RedisInit => Queue!QueueInit
<1> SUFFICES ASSUME RedisInit PROVE Queue!QueueInit
  OBVIOUS
<1>1. Offered = {}
  BY DEF Offered, Live, RedisInit
<1>2. QED
  BY <1>1 DEF Place, Queue!QueueInit, Queue!Message

\* The two-step read with its receipts is an at-least-once queue: whatever the
\* consumers do and whichever replies are lost, every step on Redis's keys is a
\* publication, delivery, acknowledgement or requeue of JobQueue, or no step.
THEOREM RedisImplementsQueue == RedisSpec => QueueImplemented
<1>1. RedisInit => Queue!QueueInit
  BY InitMaps
<1>2. IInv /\ IInv' /\ [RedisNext]_redisVars => [Queue!QueueNext]_Place
  BY StepMaps
<1>3. QED
  BY <1>1, <1>2, Inductive, PTL DEF RedisSpec, QueueImplemented, Queue!QueueSpec

----------------------------------------------------------------------------
\* The model client

\* The variables keep their types.
LEMMA TypeStep ==
    ASSUME ProviderTypeOK, [ProviderNext]_providerVars
    PROVE  ProviderTypeOK'
<1> USE DEF ProviderTypeOK, Verdict, Conclusive
<1>1. ASSUME NEW c \in Call, Elapse(c) PROVE ProviderTypeOK'
  BY <1>1
  DEF Elapse, ProviderTypeOK
<1>2. ASSUME NEW c \in Call, Enter(c) PROVE ProviderTypeOK'
  BY <1>2
  DEF Enter, CallerTo, ThreadTo, ProviderTypeOK
<1>3. ASSUME NEW c \in Call, TakeOutcome(c) PROVE ProviderTypeOK'
  BY <1>3
  DEF TakeOutcome, VerdictsOf, CallerTo, ProviderTypeOK
<1>4. ASSUME NEW c \in Call, GiveUp(c) PROVE ProviderTypeOK'
  BY <1>4
  DEF GiveUp, CallerTo, ProviderTypeOK
<1>5. ASSUME NEW c \in Call, Expire(c) PROVE ProviderTypeOK'
  BY <1>5
  DEF Expire, CallerTo, ProviderTypeOK
<1>6. ASSUME NEW c \in Call, Judge(c) PROVE ProviderTypeOK'
  BY <1>6
  DEF Judge, CallerTo, ProviderTypeOK
<1>7. ASSUME NEW c \in Call, Clear(c) PROVE ProviderTypeOK'
  BY <1>7
  DEF Clear, Unlatch, CallerTo, ProviderTypeOK
<1>8. ASSUME NEW c \in Call, ReadClock(c) PROVE ProviderTypeOK'
  BY <1>8
  DEF ReadClock, Finish, ThreadTo, ProviderTypeOK
<1>9. ASSUME NEW c \in Call, CheckExpired(c) PROVE ProviderTypeOK'
  BY <1>9
  DEF CheckExpired, Finish, ThreadTo, ProviderTypeOK
<1>10. ASSUME NEW c \in Call, Announce(c) PROVE ProviderTypeOK'
  BY <1>10
  DEF Announce, ThreadTo, ProviderTypeOK
<1>11. ASSUME NEW c \in Call, Send(c) PROVE ProviderTypeOK'
  BY <1>11
  DEF Send, Finish, ThreadTo, ProviderTypeOK
<1>12. ASSUME NEW c \in Call, Lose(c) PROVE ProviderTypeOK'
  BY <1>12
  DEF Lose, Finish, ThreadTo, ProviderTypeOK
<1>13. ASSUME NEW c \in Call, NEW o \in {"body", "contract"}, Answer(c, o) PROVE ProviderTypeOK'
  BY <1>13
  DEF Answer, Finish, ThreadTo, ProviderTypeOK
<1>14. ASSUME NEW c \in Call, Release(c) PROVE ProviderTypeOK'
  BY <1>14
  DEF Release, Unlatch, ThreadTo, ProviderTypeOK
<1>15. ASSUME NEW c \in Call, Complete(c) PROVE ProviderTypeOK'
  BY <1>15
  DEF Complete, ThreadTo, ProviderTypeOK
<1>16. ASSUME NEW c \in Call, Stop(c) PROVE ProviderTypeOK'
  BY <1>16
  DEF Stop, ProviderTypeOK
<1>17. ASSUME NEW c \in Call, Close(c) PROVE ProviderTypeOK'
  BY <1>17
  DEF Close, CallerTo, ProviderTypeOK
<1>18. ASSUME NEW c \in Call, Receive(c) PROVE ProviderTypeOK'
  BY <1>18
  DEF Receive, Finish, ThreadTo, ProviderTypeOK
<1>19. ASSUME NEW c \in Call, Read(c) PROVE ProviderTypeOK'
  BY <1>19
  DEF Read, ThreadTo, ProviderTypeOK
<1>20. ASSUME NEW c \in Call, Pause(c) PROVE ProviderTypeOK'
  BY <1>20
  DEF Pause, ThreadTo, ProviderTypeOK
<1>21. CASE UNCHANGED providerVars
  BY <1>21 DEF providerVars, ProviderTypeOK
<1> QED
  BY <1>1, <1>2, <1>3, <1>4, <1>5, <1>6, <1>7, <1>8, <1>9, <1>10, <1>11, <1>12, <1>13, <1>14, <1>15, <1>16, <1>17,
     <1>18, <1>19, <1>20, <1>21
  DEF ProviderNext, CallerStep, ThreadStep

\* No step of a call disturbs the invariant of any call.
LEMMA LatchStep ==
    ASSUME ProviderTypeOK, LatchInv, [ProviderNext]_providerVars
    PROVE  LatchInv'
<1> USE DEF ProviderTypeOK, LatchInv, ThreadOK, CallerOK, LatchOK, Unsent, Ended, Verdict,
            Conclusive
<1>1. ASSUME NEW c \in Call, Elapse(c) PROVE LatchInv'
  BY <1>1, ProviderAssumption
  DEF Elapse, LatchInv
<1>2. ASSUME NEW c \in Call, Enter(c) PROVE LatchInv'
  BY <1>2, ProviderAssumption
  DEF Enter, CallerTo, ThreadTo, LatchInv
<1>3. ASSUME NEW c \in Call, TakeOutcome(c) PROVE LatchInv'
  BY <1>3, ProviderAssumption
  DEF TakeOutcome, VerdictsOf, CallerTo, LatchInv
<1>4. ASSUME NEW c \in Call, GiveUp(c) PROVE LatchInv'
  BY <1>4, ProviderAssumption
  DEF GiveUp, CallerTo, LatchInv
<1>5. ASSUME NEW c \in Call, Expire(c) PROVE LatchInv'
  BY <1>5, ProviderAssumption
  DEF Expire, CallerTo, LatchInv
<1>6. ASSUME NEW c \in Call, Judge(c) PROVE LatchInv'
  BY <1>6, ProviderAssumption
  DEF Judge, CallerTo, LatchInv
<1>7. ASSUME NEW c \in Call, Clear(c) PROVE LatchInv'
  BY <1>7, ProviderAssumption
  DEF Clear, Unlatch, CallerTo, LatchInv
<1>8. ASSUME NEW c \in Call, ReadClock(c) PROVE LatchInv'
  BY <1>8, ProviderAssumption
  DEF ReadClock, Finish, ThreadTo, LatchInv
<1>9. ASSUME NEW c \in Call, CheckExpired(c) PROVE LatchInv'
  BY <1>9, ProviderAssumption
  DEF CheckExpired, Finish, ThreadTo, LatchInv
<1>10. ASSUME NEW c \in Call, Announce(c) PROVE LatchInv'
  BY <1>10, ProviderAssumption
  DEF Announce, ThreadTo, LatchInv
<1>11. ASSUME NEW c \in Call, Send(c) PROVE LatchInv'
  BY <1>11, ProviderAssumption
  DEF Send, Finish, ThreadTo, LatchInv
<1>12. ASSUME NEW c \in Call, Lose(c) PROVE LatchInv'
  BY <1>12, ProviderAssumption
  DEF Lose, Finish, ThreadTo, LatchInv
<1>13. ASSUME NEW c \in Call, NEW o \in {"body", "contract"}, Answer(c, o) PROVE LatchInv'
  BY <1>13, ProviderAssumption
  DEF Answer, Finish, ThreadTo, LatchInv
<1>14. ASSUME NEW c \in Call, Release(c) PROVE LatchInv'
  BY <1>14, ProviderAssumption
  DEF Release, Unlatch, ThreadTo, LatchInv
<1>15. ASSUME NEW c \in Call, Complete(c) PROVE LatchInv'
  BY <1>15, ProviderAssumption
  DEF Complete, ThreadTo, LatchInv
<1>16. ASSUME NEW c \in Call, Stop(c) PROVE LatchInv'
  BY <1>16, ProviderAssumption
  DEF Stop, LatchInv
<1>17. ASSUME NEW c \in Call, Close(c) PROVE LatchInv'
  BY <1>17, ProviderAssumption
  DEF Close, CallerTo, LatchInv
<1>18. ASSUME NEW c \in Call, Receive(c) PROVE LatchInv'
  BY <1>18, ProviderAssumption
  DEF Receive, Finish, ThreadTo, LatchInv
<1>19. ASSUME NEW c \in Call, Read(c) PROVE LatchInv'
  BY <1>19, ProviderAssumption
  DEF Read, ThreadTo, LatchInv
<1>20. ASSUME NEW c \in Call, Pause(c) PROVE LatchInv'
  BY <1>20, ProviderAssumption
  DEF Pause, ThreadTo, LatchInv
<1>21. CASE UNCHANGED providerVars
  BY <1>21 DEF providerVars, LatchInv
<1> QED
  BY <1>1, <1>2, <1>3, <1>4, <1>5, <1>6, <1>7, <1>8, <1>9, <1>10, <1>11, <1>12, <1>13, <1>14, <1>15, <1>16, <1>17,
     <1>18, <1>19, <1>20, <1>21
  DEF ProviderNext, CallerStep, ThreadStep

\* A move of a caller moves its stage.
LEMMA StageMoves ==
    ASSUME ProviderTypeOK, NEW c \in Call, NEW v, CallerTo(c, v)
    PROVE  CallStage' = [CallStage EXCEPT ![c] = StageOf(v)]
BY DEF ProviderTypeOK, CallerTo, CallStage

\* The stages of the calls are a function of the calls.
LEMMA StageDomain == CallStage = [c \in Call |-> CallStage[c]]
BY DEF CallStage

\* Every step of the provider is one that the executors expect of a call.
LEMMA PromiseStep ==
    ASSUME ProviderTypeOK, LatchInv, [ProviderNext]_providerVars
    PROVE  [Promise!CallNext]_(Promise!callVars)
<1> USE DEF ProviderTypeOK, Verdict, Conclusive
<1>1. ASSUME NEW c \in Call, Elapse(c) PROVE [Promise!CallNext]_(Promise!callVars)
  <2>1. CallStage' = CallStage /\ UNCHANGED remote
    BY <1>1 DEF Elapse, CallStage
  <2> QED
    BY <2>1 DEF Promise!callVars
<1>2. ASSUME NEW c \in Call, Enter(c) PROVE [Promise!CallNext]_(Promise!callVars)
  <2>1. UNCHANGED remote /\ CallStage[c] = "idle"
    BY <1>2 DEF Enter, CallStage, StageOf
  <2>2. CASE CallerTo(c, "uncertain")
    <3>1. CallStage' = [CallStage EXCEPT ![c] = "uncertain"]
      BY <2>2, StageMoves DEF StageOf
    <3> QED
      BY <2>1, <3>1 DEF Promise!CallNext, Promise!Doubt, Promise!MoveTo
  <2>3. CASE CallerTo(c, "waiting")
    <3>1. CallStage' = [CallStage EXCEPT ![c] = "open"]
      BY <2>3, StageMoves DEF StageOf
    <3> QED
      BY <2>1, <3>1 DEF Promise!CallNext, Promise!Open, Promise!MoveTo
  <2> QED
    BY <1>2, <2>2, <2>3 DEF Enter
<1>3. ASSUME NEW c \in Call, TakeOutcome(c) PROVE [Promise!CallNext]_(Promise!callVars)
  <2>1. UNCHANGED remote /\ CallStage[c] = "open"
    BY <1>3 DEF TakeOutcome, CallStage, StageOf
  <2>2. PICK v \in VerdictsOf(outcome[c]) : CallerTo(c, v)
    BY <1>3 DEF TakeOutcome
  <2>3. thread[c] = "over"
    BY <1>3 DEF TakeOutcome, LatchInv, ThreadOK
  <2>4. CASE v = "uncertain"
    <3>1. CallStage' = [CallStage EXCEPT ![c] = "uncertain"]
      BY <2>2, <2>4, StageMoves DEF StageOf
    <3> QED
      BY <2>1, <3>1 DEF Promise!CallNext, Promise!Doubt, Promise!MoveTo
  <2>5. CASE v \in {"answered", "confirmed"}
    <3>1. outcome[c] # "lost"
      BY <2>2, <2>5 DEF VerdictsOf
    <3>2. remote[c] # "running"
      BY <2>3, <3>1 DEF LatchInv, ThreadOK
    <3>3. CallStage' = [CallStage EXCEPT ![c] = "confirmed"]
      BY <2>2, <2>5, StageMoves DEF StageOf
    <3> QED
      BY <2>1, <3>2, <3>3 DEF Promise!CallNext, Promise!Conclude, Promise!Concluded, Promise!MoveTo
  <2> QED
    BY <2>2, <2>4, <2>5 DEF VerdictsOf
<1>4. ASSUME NEW c \in Call, GiveUp(c) PROVE [Promise!CallNext]_(Promise!callVars)
  <2>1. CallerTo(c, "expiring") /\ UNCHANGED remote
    BY <1>4 DEF GiveUp
  <2>2. CallStage[c] = StageOf(caller[c])
    BY DEF CallStage
  <2>3. StageOf(caller[c]) = StageOf("expiring")
    BY <1>4 DEF GiveUp, StageOf
  <2>4. CallStage' = CallStage
    BY <2>1, <2>2, <2>3, StageMoves, StageDomain
  <2> QED
    BY <2>1, <2>4 DEF Promise!callVars
<1>5. ASSUME NEW c \in Call, Expire(c) PROVE [Promise!CallNext]_(Promise!callVars)
  <2>1. CallerTo(c, "judging") /\ UNCHANGED remote
    BY <1>5 DEF Expire
  <2>2. CallStage[c] = StageOf(caller[c])
    BY DEF CallStage
  <2>3. StageOf(caller[c]) = StageOf("judging")
    BY <1>5 DEF Expire, StageOf
  <2>4. CallStage' = CallStage
    BY <2>1, <2>2, <2>3, StageMoves, StageDomain
  <2> QED
    BY <2>1, <2>4 DEF Promise!callVars
<1>6. ASSUME NEW c \in Call, Judge(c) PROVE [Promise!CallNext]_(Promise!callVars)
  <2>1. PICK to \in {"closing", "clearing"} : CallerTo(c, to)
    BY <1>6 DEF Judge
  <2>2. UNCHANGED remote /\ CallStage[c] = "open" /\ StageOf(to) = "open"
    BY <1>6 DEF Judge, CallStage, StageOf
  <2>3. CallStage' = CallStage
    BY <2>1, <2>2, StageMoves, StageDomain
  <2> QED
    BY <2>2, <2>3 DEF Promise!callVars
<1>7. ASSUME NEW c \in Call, Clear(c) PROVE [Promise!CallNext]_(Promise!callVars)
  <2>1. CallerTo(c, "cleared") /\ UNCHANGED remote
    BY <1>7 DEF Clear
  <2>2. CallStage[c] = StageOf(caller[c])
    BY DEF CallStage
  <2>3. StageOf(caller[c]) = StageOf("cleared")
    BY <1>7 DEF Clear, StageOf
  <2>4. CallStage' = CallStage
    BY <2>1, <2>2, <2>3, StageMoves, StageDomain
  <2> QED
    BY <2>1, <2>4 DEF Promise!callVars
<1>8. ASSUME NEW c \in Call, ReadClock(c) PROVE [Promise!CallNext]_(Promise!callVars)
  <2>1. CallStage' = CallStage /\ UNCHANGED remote
    BY <1>8 DEF ReadClock, CallStage
  <2> QED
    BY <2>1 DEF Promise!callVars
<1>9. ASSUME NEW c \in Call, CheckExpired(c) PROVE [Promise!CallNext]_(Promise!callVars)
  <2>1. CallStage' = CallStage /\ UNCHANGED remote
    BY <1>9 DEF CheckExpired, CallStage
  <2> QED
    BY <2>1 DEF Promise!callVars
<1>10. ASSUME NEW c \in Call, Announce(c) PROVE [Promise!CallNext]_(Promise!callVars)
  <2>1. CallStage' = CallStage /\ UNCHANGED remote
    BY <1>10 DEF Announce, CallStage
  <2> QED
    BY <2>1 DEF Promise!callVars
<1>11. ASSUME NEW c \in Call, Send(c) PROVE [Promise!CallNext]_(Promise!callVars)
  <2>1. CallStage' = CallStage
    BY <1>11 DEF Send, CallStage
  <2>2. remote[c] = "none" /\ CallStage[c] \in {"open", "uncertain"}
    BY <1>11 DEF Send, CallStage, StageOf, LatchInv, ThreadOK, CallerOK, Ended, Unsent
  <2> QED
    BY <1>11, <2>1, <2>2 DEF Send, Promise!CallNext, Promise!Launch, Promise!callVars
<1>12. ASSUME NEW c \in Call, Lose(c) PROVE [Promise!CallNext]_(Promise!callVars)
  <2>1. CallStage' = CallStage /\ UNCHANGED remote
    BY <1>12 DEF Lose, CallStage
  <2> QED
    BY <2>1 DEF Promise!callVars
<1>13. ASSUME NEW c \in Call, NEW o \in {"body", "contract"}, Answer(c, o) PROVE [Promise!CallNext]_(Promise!callVars)
  <2>1. CallStage' = CallStage /\ UNCHANGED remote
    BY <1>13 DEF Answer, CallStage
  <2> QED
    BY <2>1 DEF Promise!callVars
<1>14. ASSUME NEW c \in Call, Release(c) PROVE [Promise!CallNext]_(Promise!callVars)
  <2>1. CallStage' = CallStage /\ UNCHANGED remote
    BY <1>14 DEF Release, CallStage
  <2> QED
    BY <2>1 DEF Promise!callVars
<1>15. ASSUME NEW c \in Call, Complete(c) PROVE [Promise!CallNext]_(Promise!callVars)
  <2>1. CallStage' = CallStage /\ UNCHANGED remote
    BY <1>15 DEF Complete, CallStage
  <2> QED
    BY <2>1 DEF Promise!callVars
<1>16. ASSUME NEW c \in Call, Stop(c) PROVE [Promise!CallNext]_(Promise!callVars)
  <2>1. CallStage' = CallStage
    BY <1>16 DEF Stop, CallStage
  <2> QED
    BY <1>16, <2>1 DEF Stop, Promise!CallNext, Promise!Stop
<1>17. ASSUME NEW c \in Call, Close(c) PROVE [Promise!CallNext]_(Promise!callVars)
  <2>1. UNCHANGED remote /\ CallStage[c] = "open"
    BY <1>17 DEF Close, CallStage, StageOf
  <2>2. CASE caller[c] = "closing"
    <3>1. CallerTo(c, "uncertain")
      BY <1>17, <2>2 DEF Close
    <3>2. CallStage' = [CallStage EXCEPT ![c] = "uncertain"]
      BY <3>1, StageMoves DEF StageOf
    <3> QED
      BY <2>1, <3>2 DEF Promise!CallNext, Promise!Doubt, Promise!MoveTo
  <2>3. CASE caller[c] = "cleared"
    <3>1. CallerTo(c, "timedout")
      BY <1>17, <2>3 DEF Close
    <3>2. CallStage' = [CallStage EXCEPT ![c] = "timedout"]
      BY <3>1, StageMoves DEF StageOf
    <3>3. remote[c] # "running"
      BY <2>3 DEF LatchInv, ThreadOK, CallerOK, Ended
    <3> QED
      BY <2>1, <3>2, <3>3 DEF Promise!CallNext, Promise!Conclude, Promise!Concluded, Promise!MoveTo
  <2> QED
    BY <1>17, <2>2, <2>3 DEF Close
<1>18. ASSUME NEW c \in Call, Receive(c) PROVE [Promise!CallNext]_(Promise!callVars)
  <2>1. CallStage' = CallStage
    BY <1>18 DEF Receive, CallStage
  <2> QED
    BY <1>18, <2>1 DEF Receive, Promise!CallNext, Promise!Stop
<1>19. ASSUME NEW c \in Call, Read(c) PROVE [Promise!CallNext]_(Promise!callVars)
  <2>1. CallStage' = CallStage /\ UNCHANGED remote
    BY <1>19 DEF Read, CallStage
  <2> QED
    BY <2>1 DEF Promise!callVars
<1>20. ASSUME NEW c \in Call, Pause(c) PROVE [Promise!CallNext]_(Promise!callVars)
  <2>1. CallStage' = CallStage /\ UNCHANGED remote
    BY <1>20 DEF Pause, CallStage
  <2> QED
    BY <2>1 DEF Promise!callVars
<1>21. CASE UNCHANGED providerVars
  BY <1>21 DEF providerVars, CallStage, Promise!callVars
<1> QED
  BY <1>1, <1>2, <1>3, <1>4, <1>5, <1>6, <1>7, <1>8, <1>9, <1>10, <1>11, <1>12, <1>13, <1>14, <1>15, <1>16, <1>17,
     <1>18, <1>19, <1>20, <1>21
  DEF ProviderNext, CallerStep, ThreadStep

ProviderInv == ProviderTypeOK /\ LatchInv

\* The types and the order of events between caller and thread are invariant.
LEMMA ProviderInvariant == ProviderSpec => []ProviderInv
<1>1. ProviderInit => ProviderInv
  BY ProviderAssumption
  DEF ProviderInit, ProviderInv, ProviderTypeOK, LatchInv, ThreadOK, CallerOK, LatchOK, Unsent,
      Ended, Verdict, Conclusive
<1>2. ProviderInv /\ [ProviderNext]_providerVars => ProviderInv'
  BY TypeStep, LatchStep DEF ProviderInv
<1> QED
  BY <1>1, <1>2, PTL DEF ProviderSpec

\* The variables of generate keep their types.
THEOREM ProviderTypes == ProviderSpec => []ProviderTypeOK
BY ProviderInvariant, PTL DEF ProviderInv

\* The events decide rightly: the latch is held exactly until the call is over.
THEOREM LatchInvariant == ProviderSpec => []LatchInv
BY ProviderInvariant, PTL DEF ProviderInv

\* A running generation holds the latch, so a provider has at most one, after
\* any timeout and any lost connection.
THEOREM OneGeneration == ProviderSpec => []RunningHoldsLatch
<1>1. ProviderInv => RunningHoldsLatch
  BY DEF ProviderInv, LatchInv, ThreadOK, CallerOK, LatchOK, RunningHoldsLatch, Ended
<1> QED
  BY <1>1, ProviderInvariant, PTL

\* A call that returned, or failed for sure, has given the latch back.
THEOREM ConclusionFreesLatch == ProviderSpec => []ConcludedIsFree
<1>1. ProviderInv => ConcludedIsFree
  BY DEF ProviderInv, LatchInv, ThreadOK, CallerOK, LatchOK, ConcludedIsFree, ProviderTypeOK,
         Verdict
<1> QED
  BY <1>1, ProviderInvariant, PTL

\* generate keeps the promise of ModelCall: what it reports as over is not
\* running and is never launched later.
THEOREM ProviderKeepsPromise == ProviderSpec => CallsImplemented
<1>1. ProviderInit => Promise!CallInit
  BY DEF ProviderInit, CallStage, StageOf, Promise!CallInit
<1>2. ProviderInv /\ [ProviderNext]_providerVars => [Promise!CallNext]_(Promise!callVars)
  BY PromiseStep DEF ProviderInv
<1> QED
  BY <1>1, <1>2, ProviderInvariant, PTL DEF ProviderSpec, CallsImplemented, Promise!CallSpec
=============================================================================
