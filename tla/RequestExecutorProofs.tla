------------------------ MODULE RequestExecutorProofs ------------------------
(***************************************************************************)
(* Theorems of RequestExecutor, for any jobs with any number of samples, any *)
(* slots and limits, and any number of incidents.                           *)
(***************************************************************************)
EXTENDS RequestExecutor, FiniteSetTheorems, TLAPS

Places == {"down", "tick", "admit", "check", "dispatch", "wait", "collect", "publish", "drain",
           "unwinding", "closed"}

\* The ledger, the session and the store keep their types.
RequestTypeOK ==
    /\ call \in [Call -> {"new", "open", "over", "adrift"}]
    /\ process \in {"down", "up"} /\ fault \in BOOLEAN
    /\ at \in Places
    /\ jobs \subseteq Job /\ due \subseteq jobs
    /\ progress \in [Job -> Progress]
    /\ work \in [Call -> Work]
    /\ phase \in [Job -> Lifecycle!Phase] /\ tries \in [Job -> Nat]
    /\ claim \in Job \cup {Nobody} /\ settle \in {"nothing", "ack", "nack"}

Reporting == {"publish", "drain", "unwinding", "closed"}

\* What the threads do is on the ledger, of jobs of this session, and of
\* samples it dispatched; behind an open gate nothing is adrift.
SessionInv ==
    /\ process = "up" /\ ~fault => Adrift = {}
    /\ at = "down" <=> process = "down"
    /\ at = "down" => jobs = {}
    /\ \A c \in Call :
          /\ work[c] # "none" => /\ c[1] \in jobs
                                 /\ c[2] = progress[c[1]].attempt
                                 /\ c[3] <= progress[c[1]].cursor
          /\ call[c] = "open" <=> work[c] = "calling"
          /\ work[c] \in {"ok", "graded"} => call[c] = "over"

\* A job is of the attempt the store counts, an aggregate is of all its
\* samples, and what is reported has no request in flight.
JobsInv ==
    /\ \A j \in jobs :
          /\ progress[j].attempt = tries[j] /\ tries[j] \in Attempt
          /\ progress[j].end = "aggregate" =>
                \A i \in 1 .. SamplesOf[j] : work[CallOf(j, i)] = "graded"
    /\ due # {} => at \in Reporting
    /\ \A j \in due : InFlight(j) = {}
    /\ at = "drain" => Active = {} /\ \A j \in jobs : Going(j) \/ j \in due

\* One submission at a time is admitted or published.
ClaimInv ==
    /\ at \notin {"admit"} \cup Reporting => claim = Nobody /\ settle = "nothing"
    /\ at \in {"publish", "drain"} => IF settle = "nothing" THEN claim = Nobody ELSE claim \in due
    /\ at = "admit" => claim \in Job

\* A job is queued again only between its conclusion and its retirement.
StoreInv ==
    /\ \A s \in Job : /\ phase[s] = "absent" => tries[s] = 0
                      /\ phase[s] = "running" => tries[s] \in Attempt
    /\ \A s \in jobs : phase[s] = "queued" =>
          at \in Reporting /\ claim = s /\ settle = "nack" /\ InFlight(s) = {}
    /\ NoOverlap

RequestInv == SessionInv /\ JobsInv /\ ClaimInv /\ StoreInv

----------------------------------------------------------------------------
\* A request is known by its job, the attempt and the number of its sample.
LEMMA CallShape ==
    ASSUME NEW c \in Call
    PROVE  /\ c[1] \in Job /\ c[2] \in Attempt /\ c[3] \in 1 .. SamplesOf[c[1]]
           /\ c = <<c[1], c[2], c[3]>>
BY SchedulerAssumption

\* A job, an attempt and a sample make a call.
LEMMA CallMade ==
    ASSUME NEW j \in Job, NEW n \in Attempt, NEW i \in 1 .. SamplesOf[j]
    PROVE  <<j, n, i>> \in Call
BY SchedulerAssumption

----------------------------------------------------------------------------
\* The threads and the service move requests only.
LEMMA PoolTypes ==
    ASSUME RequestTypeOK, NEW c \in Call, Pool(c) \/ Service(c)
    PROVE  RequestTypeOK'
<1>1. CASE Pool(c)
  <2>1. CASE CheckClaim(c, Current(c[1]))
    BY <1>1, <2>1 DEF Pool, CheckClaim, Leave, RequestTypeOK, Work, InPool, LeftBehind, ledgerVars, storeVars
  <2>2. CASE Send(c)
    BY <1>1, <2>2 DEF Pool, Send, Leave, Begin, Trouble, RequestTypeOK, Work, InPool, LeftBehind,
                      ledgerVars, storeVars
  <2>3. CASE Return(c)
    BY <1>1, <2>3 DEF Pool, Return, Leave, End, RequestTypeOK, Work, InPool, LeftBehind, storeVars
  <2>4. CASE Doubt(c)
    BY <1>1, <2>4 DEF Pool, Doubt, Leave, Lose, RequestTypeOK, Work, InPool, LeftBehind, storeVars
  <2> QED
    BY <1>1, <2>1, <2>2, <2>3, <2>4 DEF Pool, Thread
<1>2. CASE Service(c)
  BY <1>2 DEF Service, Settle, RequestTypeOK, sessionVars, storeVars, executorVars
<1> QED
  BY <1>1, <1>2

\* What is open or adrift of the requests, and what the threads of a job do,
\* changes with one request.
LEMMA PoolLooks ==
    ASSUME RequestTypeOK, NEW c \in Call, work' = [work EXCEPT ![c] = work'[c]],
           progress' = progress, at' = at, jobs' = jobs,
           work[c] \in InPool, work'[c] \in InPool \cup LeftBehind
    PROVE  /\ Active' = Active
           /\ \A j \in Job : InFlight(j)' = InFlight(j) /\ Going(j)' = Going(j)
           /\ \A j \in Job, i \in Nat : CallOf(j, i)' = CallOf(j, i)
<1>1. \A d \in Call : work'[d] \in InPool \cup LeftBehind <=> work[d] \in InPool \cup LeftBehind
  BY DEF RequestTypeOK
<1>2. Active' = Active
  BY <1>1 DEF Active
<1> QED
  BY <1>2 DEF InFlight, Going, CallOf

\* What a step of a thread, or of the service, does to the ledger and to what
\* the thread leaves.
LEMMA PoolEffect ==
    ASSUME RequestTypeOK, SessionInv, NEW c \in Call, Pool(c)
    PROVE  /\ UNCHANGED <<at, jobs, progress, due, phase, tries, claim, settle, process>>
           /\ work[c] \in InPool /\ work' = [work EXCEPT ![c] = work'[c]]
           /\ work'[c] \in InPool \cup LeftBehind
           /\ call' = [call EXCEPT ![c] = call'[c]]
           /\ call'[c] = "open" <=> work'[c] = "calling"
           /\ work'[c] = "ok" => call'[c] = "over"
           /\ call'[c] \in {"open", "adrift"} => work[c] \in InPool \/ call[c] = "adrift"
           /\ ~fault' => ~fault /\ (call'[c] = "adrift" => call[c] = "adrift")
<1>0. /\ c \in DOMAIN work /\ c \in DOMAIN call
      /\ call[c] = "open" <=> work[c] = "calling"
      /\ UNCHANGED <<phase, tries, claim, settle>>
      /\ fault \in BOOLEAN
  BY DEF RequestTypeOK, SessionInv, Pool, storeVars
<1>1. CASE CheckClaim(c, Current(c[1]))
  BY <1>0, <1>1 DEF CheckClaim, Leave, InPool, LeftBehind, ledgerVars, RequestTypeOK
<1>2. CASE Send(c)
  BY <1>0, <1>2 DEF Send, Leave, Begin, Trouble, InPool, LeftBehind, ledgerVars, RequestTypeOK
<1>3. CASE Return(c)
  BY <1>0, <1>3 DEF Return, Leave, End, InPool, LeftBehind, RequestTypeOK
<1>4. CASE Doubt(c)
  BY <1>0, <1>4 DEF Doubt, Leave, Lose, InPool, LeftBehind, RequestTypeOK
<1> QED
  BY <1>1, <1>2, <1>3, <1>4 DEF Pool, Thread

\* A step of a request's thread keeps the invariant.
LEMMA PoolStep ==
    ASSUME RequestTypeOK, RequestInv, NEW c \in Call, Pool(c)
    PROVE  RequestInv'
<1>1. /\ SessionInv /\ JobsInv /\ ClaimInv /\ StoreInv
      /\ RequestTypeOK'
  BY PoolTypes DEF RequestInv
<1>2. /\ UNCHANGED <<at, jobs, progress, due, phase, tries, claim, settle, process>>
      /\ work[c] \in InPool /\ work' = [work EXCEPT ![c] = work'[c]]
      /\ work'[c] \in InPool \cup LeftBehind
      /\ call' = [call EXCEPT ![c] = call'[c]]
      /\ call'[c] = "open" <=> work'[c] = "calling"
      /\ work'[c] = "ok" => call'[c] = "over"
      /\ call'[c] \in {"open", "adrift"} => work[c] \in InPool \/ call[c] = "adrift"
      /\ ~fault' => ~fault /\ (call'[c] = "adrift" => call[c] = "adrift")
  BY <1>1, PoolEffect
<1>3. /\ Active' = Active
      /\ \A j \in Job : InFlight(j)' = InFlight(j) /\ Going(j)' = Going(j)
      /\ \A j \in Job, i \in Nat : CallOf(j, i)' = CallOf(j, i)
  BY <1>2, PoolLooks
<1>4. /\ c[1] \in jobs /\ c[2] = tries[c[1]] /\ c \in InFlight(c[1])
  BY <1>1, <1>2, CallShape DEF SessionInv, JobsInv, InPool, InFlight, Active
<1>5. SessionInv'
  <2>1. process' = "up" /\ ~fault' => Adrift' = {}
    BY <1>1, <1>2 DEF SessionInv, Adrift, RequestTypeOK
  <2>2. ASSUME NEW d \in Call
        PROVE  /\ work'[d] # "none" => /\ d[1] \in jobs' /\ d[2] = progress'[d[1]].attempt
                                       /\ d[3] <= progress'[d[1]].cursor
               /\ call'[d] = "open" <=> work'[d] = "calling"
               /\ work'[d] \in {"ok", "graded"} => call'[d] = "over"
    BY <1>1, <1>2 DEF SessionInv, RequestTypeOK, InPool, LeftBehind
  <2> QED
    BY <1>1, <1>2, <2>1, <2>2 DEF SessionInv
<1>6. JobsInv'
  <2>1. ASSUME NEW j \in jobs', progress'[j].end = "aggregate", NEW i \in 1 .. SamplesOf[j]
        PROVE  work'[CallOf(j, i)'] = "graded"
    <3>1. j \in Job /\ CallOf(j, i)' = CallOf(j, i) /\ work[CallOf(j, i)] = "graded"
      BY <1>1, <1>2, <1>3, <2>1, SchedulerAssumption DEF JobsInv, RequestTypeOK
    <3>2. CallOf(j, i) \in Call
      BY <1>1, <1>2, <3>1, CallMade DEF JobsInv, CallOf
    <3> QED
      BY <1>2, <3>1, <3>2 DEF InPool, RequestTypeOK
  <2>2. at' = "drain" => Active' = {} /\ \A j \in jobs' : Going(j)' \/ j \in due'
    BY <1>1, <1>2, <1>3 DEF JobsInv, RequestTypeOK
  <2> QED
    BY <1>1, <1>2, <1>3, <2>1, <2>2 DEF JobsInv, RequestTypeOK
<1>7. ClaimInv'
  BY <1>1, <1>2 DEF ClaimInv
<1>8. StoreInv'
  <2>1. NoOverlap'
    BY <1>1, <1>2, <1>4 DEF StoreInv, NoOverlap, Open, Adrift, RequestTypeOK
  <2> QED
    BY <1>1, <1>2, <1>3, <2>1 DEF StoreInv, RequestTypeOK
<1> QED
  BY <1>5, <1>6, <1>7, <1>8 DEF RequestInv

\* So does a step of the model service.
LEMMA ServiceStep ==
    ASSUME RequestTypeOK, RequestInv, NEW c \in Call, Service(c)
    PROVE  RequestInv'
<1>1. /\ UNCHANGED <<at, jobs, progress, due, phase, tries, claim, settle, process, work, fault>>
      /\ call[c] = "adrift" /\ call' = [call EXCEPT ![c] = "over"]
  BY DEF Service, Settle, sessionVars, storeVars, executorVars
<1>2. SessionInv'
  BY <1>1 DEF RequestInv, SessionInv, Adrift, RequestTypeOK
<1>3. JobsInv' /\ ClaimInv'
  BY <1>1 DEF RequestInv, JobsInv, ClaimInv, InFlight, Active, Going, CallOf
<1>4. StoreInv'
  BY <1>1 DEF RequestInv, StoreInv, NoOverlap, Open, Adrift, InFlight, Active, RequestTypeOK
<1> QED
  BY <1>2, <1>3, <1>4 DEF RequestInv

----------------------------------------------------------------------------
\* The steps that only change what the store and the queue hold.

Settles == {"nothing", "ack", "nack"}

\* So does a change of the store that leaves the session alone and ends or takes back only what the invariant allows.
LEMMA StoreStep ==
    ASSUME RequestTypeOK, RequestInv, UNCHANGED <<ledgerVars, sessionVars, tries>>,
           phase' \in [Job -> Lifecycle!Phase], claim' \in Job \cup {Nobody}, settle' \in Settles,
           ClaimInv',
           \A s \in Job :
              \/ phase'[s] \in {phase[s]} \cup Final
              \/ /\ phase'[s] = "queued"
                 /\ \A c \in Open \cup Adrift : c[1] # s
                 /\ s \in jobs => at \in Reporting /\ claim' = s /\ settle' = "nack" /\ InFlight(s) = {},
           \A s \in jobs : phase[s] = "queued" => claim' = claim /\ settle' = settle
    PROVE  RequestTypeOK' /\ RequestInv'
<1>1. /\ UNCHANGED <<call, process, fault, at, jobs, ahead, last, progress, work, halted, accepting, due>>
      /\ UNCHANGED tries
  BY DEF ledgerVars, sessionVars
<1>2. RequestTypeOK'
  BY <1>1 DEF RequestTypeOK, Settles
<1>3. SessionInv' /\ JobsInv'
  BY <1>1 DEF RequestInv, SessionInv, JobsInv, InFlight, Active, Adrift, Going, CallOf
<1>4. StoreInv'
  <2>1. /\ \A s \in Job : /\ phase'[s] = "absent" => tries'[s] = 0
                          /\ phase'[s] = "running" => tries'[s] \in Attempt
    BY <1>1 DEF RequestInv, StoreInv, Final, Lifecycle!Final
  <2>2. ASSUME NEW s \in jobs', phase'[s] = "queued"
        PROVE  at' \in Reporting /\ claim' = s /\ settle' = "nack" /\ InFlight(s)' = {}
    BY <1>1, <2>2 DEF RequestInv, StoreInv, RequestTypeOK, Final, Lifecycle!Final, InFlight, Active
  <2>3. NoOverlap'
    <3> SUFFICES ASSUME NEW c \in Open \cup Adrift
                 PROVE  phase'[c[1]] # "queued" /\ c[2] = tries[c[1]]
      BY <1>1 DEF NoOverlap, Open, Adrift
    <3>1. c[1] \in Job /\ phase[c[1]] # "queued" /\ c[2] = tries[c[1]]
      BY CallShape DEF RequestInv, StoreInv, NoOverlap, Open, Adrift
    <3> QED
      BY <3>1 DEF Final, Lifecycle!Final
  <2> QED
    BY <2>1, <2>2, <2>3 DEF StoreInv
<1> QED
  BY <1>2, <1>3, <1>4 DEF RequestInv

\* A sweep leaves a submission or ends it.
LEMMA SweepEnds ==
    ASSUME RequestTypeOK, NEW S, Swept(S)
    PROVE  /\ phase' \in [Job -> Lifecycle!Phase]
           /\ \A s \in Job : phase'[s] \in {phase[s]} \cup Final
BY DEF Swept, RequestTypeOK, Final, Lifecycle!Final, Lifecycle!Phase

\* A conclusion moves one submission only.
LEMMA Concluded ==
    ASSUME RequestTypeOK, NEW s \in Job, NEW to \in Lifecycle!Phase, Conclude(s, to)
    PROVE  /\ phase' \in [Job -> Lifecycle!Phase] /\ phase'[s] = to
           /\ \A t \in Job \ {s} : phase'[t] = phase[t]
BY DEF Conclude, RequestTypeOK

\* Whatever users, the API and the sweeper do keeps the invariant.
LEMMA OutsideStep ==
    ASSUME RequestTypeOK, RequestInv,
           \/ \E s \in Job : Submit(s) \/ Lapse(s) \/ Redeliver(s)
           \/ ApiSweep \/ RequestStop \/ Sweep
    PROVE  RequestTypeOK' /\ RequestInv'
<1>0. ASSUME UNCHANGED <<claim, settle, at, due>> PROVE ClaimInv'
  BY <1>0 DEF RequestInv, ClaimInv
<1>1. ASSUME NEW s \in Job, Submit(s) PROVE RequestTypeOK' /\ RequestInv'
  <2>1. /\ UNCHANGED <<ledgerVars, sessionVars, tries, claim, settle>> /\ UNCHANGED <<at, due>>
        /\ phase[s] = "absent" /\ Conclude(s, "queued")
    BY <1>1 DEF Submit, schedulerVars, sessionVars
  <2>2. s \notin jobs /\ \A c \in Open \cup Adrift : c[1] # s
    <3>1. tries[s] = 0 /\ 0 \notin Attempt
      BY <2>1, AttemptAssumption DEF RequestInv, StoreInv
    <3> QED
      BY <3>1, CallShape DEF RequestInv, JobsInv, StoreInv, NoOverlap, Open, Adrift
  <2>3. "queued" \in Lifecycle!Phase
    BY DEF Lifecycle!Phase
  <2>4. /\ phase' \in [Job -> Lifecycle!Phase] /\ phase'[s] = "queued"
        /\ \A t \in Job \ {s} : phase'[t] = phase[t]
    BY <2>1, <2>3, Concluded
  <2> QED
    BY <1>0, <2>1, <2>2, <2>4, StoreStep DEF RequestTypeOK, Settles
<1>2. ASSUME NEW s \in Job, Lapse(s) PROVE RequestTypeOK' /\ RequestInv'
  <2>1. UNCHANGED <<ledgerVars, sessionVars, phase, tries, claim, settle>> /\ UNCHANGED <<at, due>>
    BY <1>2 DEF Lapse, sessionVars, storeVars, executorVars
  <2> QED
    BY <1>0, <2>1, StoreStep DEF RequestTypeOK, Settles
<1>3. ASSUME NEW s \in Job, Redeliver(s) PROVE RequestTypeOK' /\ RequestInv'
  <2>1. UNCHANGED <<ledgerVars, sessionVars, phase, tries, claim, settle>> /\ UNCHANGED <<at, due>>
    BY <1>3 DEF Redeliver, schedulerVars, sessionVars, storeVars
  <2> QED
    BY <1>0, <2>1, StoreStep DEF RequestTypeOK, Settles
<1>4. CASE RequestStop
  <2>1. UNCHANGED <<ledgerVars, sessionVars, phase, tries, claim, settle>> /\ UNCHANGED <<at, due>>
    BY <1>4 DEF RequestStop, schedulerVars, sessionVars, storeVars
  <2> QED
    BY <1>0, <2>1, StoreStep DEF RequestTypeOK, Settles
<1>5. CASE ApiSweep \/ Sweep
  <2>1. UNCHANGED <<ledgerVars, sessionVars, tries, claim, settle>> /\ UNCHANGED <<at, due>>
    BY <1>5 DEF ApiSweep, Sweep, schedulerVars, sessionVars, executorVars
  <2>2. PICK S : Swept(S)
    BY <1>5 DEF ApiSweep, Sweep
  <2>3. /\ phase' \in [Job -> Lifecycle!Phase]
        /\ \A s \in Job : phase'[s] \in {phase[s]} \cup Final
    BY <2>2, SweepEnds
  <2> QED
    BY <1>0, <2>1, <2>3, StoreStep DEF RequestTypeOK, Settles
<1> QED
  BY <1>1, <1>2, <1>3, <1>4, <1>5

\* While jobs are published, none of them is queued until its own conclusion
\* is; and when the gate is open, nothing is adrift.
LEMMA NoneQueued ==
    ASSUME RequestTypeOK, RequestInv, at \notin Reporting \/ settle = "nothing"
    PROVE  \A s \in jobs : phase[s] # "queued"
BY DEF RequestInv, StoreInv

\* The end of an admission and the publication of an outcome keep it.
LEMMA ConclusionStep ==
    ASSUME RequestTypeOK, RequestInv,
           ConcludeAdmission \/ \E s \in Job : DiscardStale(s) \/ PublishResult(s) \/ PublishFailure(s)
    PROVE  RequestTypeOK' /\ RequestInv'
<1>1. CASE ConcludeAdmission
  <2>1. /\ UNCHANGED <<ledgerVars, sessionVars, tries, claim>> /\ UNCHANGED <<at, due>>
        /\ at = "admit" /\ settle' = "ack" /\ claim \in Job
    BY <1>1 DEF ConcludeAdmission, Settling, schedulerVars, sessionVars, RequestInv, ClaimInv
  <2>2. /\ phase' \in [Job -> Lifecycle!Phase]
        /\ \A s \in Job : phase'[s] \in {phase[s]} \cup Final
    <3>1. CASE Swept(Job)
      BY <3>1, SweepEnds
    <3>2. ASSUME NEW to \in {"rejected", "failed"}, Conclude(claim, to)
          PROVE  /\ phase' \in [Job -> Lifecycle!Phase]
                 /\ \A s \in Job : phase'[s] \in {phase[s]} \cup Final
      <4>1. to \in Lifecycle!Phase /\ to \in Final
        BY DEF Final, Lifecycle!Final, Lifecycle!Phase
      <4> QED
        BY <2>1, <3>2, <4>1, Concluded
    <3> QED
      BY <1>1, <3>1, <3>2 DEF ConcludeAdmission
  <2>3. ClaimInv'
    BY <2>1 DEF ClaimInv, Reporting
  <2>4. \A s \in jobs : phase[s] # "queued"
    BY <2>1, NoneQueued DEF Reporting
  <2> QED
    BY <2>1, <2>2, <2>3, <2>4, StoreStep DEF RequestTypeOK, Settles
<1>2. ASSUME NEW s \in Job, DiscardStale(s) \/ PublishResult(s) \/ PublishFailure(s)
      PROVE  RequestTypeOK' /\ RequestInv'
  <2>1. /\ UNCHANGED <<ledgerVars, sessionVars, tries>> /\ UNCHANGED <<at, due>>
        /\ at \in {"publish", "drain"} /\ settle = "nothing" /\ s \in due
        /\ claim' = s /\ settle' \in {"ack", "nack"}
    BY <1>2 DEF DiscardStale, PublishResult, PublishFailure, Publishing, schedulerVars, sessionVars
  <2>2. \A t \in jobs : phase[t] # "queued"
    BY <2>1, NoneQueued
  <2>3. ClaimInv'
    BY <2>1 DEF ClaimInv, Reporting
  <2>4. CASE DiscardStale(s)
    <3>1. /\ phase' \in [Job -> Lifecycle!Phase]
          /\ \A t \in Job : phase'[t] \in {phase[t]} \cup Final
      BY <2>4, SweepEnds DEF DiscardStale
    <3> QED
      BY <2>1, <2>2, <2>3, <3>1, StoreStep DEF RequestTypeOK, Settles
  <2>5. CASE PublishResult(s) \/ (PublishFailure(s) /\ ~RetryAllowed(s))
    <3>1. PICK to \in Final : Conclude(s, to)
      BY <2>5 DEF PublishResult, PublishFailure, Final, Lifecycle!Final
    <3>2. to \in Lifecycle!Phase
      BY DEF Final, Lifecycle!Phase
    <3>3. /\ phase' \in [Job -> Lifecycle!Phase]
          /\ \A t \in Job : phase'[t] \in {phase[t]} \cup Final
      BY <3>1, <3>2, Concluded
    <3> QED
      BY <2>1, <2>2, <2>3, <3>3, StoreStep DEF RequestTypeOK, Settles
  <2>6. CASE PublishFailure(s) /\ RetryAllowed(s)
    <3>1. Conclude(s, "queued") /\ settle' = "nack" /\ ~fault
      BY <2>6 DEF PublishFailure, RetryAllowed
    <3>2. Adrift = {}
      BY <2>1, <3>1 DEF RequestInv, SessionInv, RequestTypeOK
    <3>3. InFlight(s) = {} /\ s \in jobs /\ at \in Reporting
      BY <2>1 DEF RequestInv, JobsInv, Reporting, RequestTypeOK
    <3>4. \A c \in Open \cup Adrift : c[1] # s
      BY <3>2, <3>3 DEF RequestInv, SessionInv, Open, InFlight, Active, InPool
    <3>5. "queued" \in Lifecycle!Phase
      BY DEF Lifecycle!Phase
    <3>6. /\ phase' \in [Job -> Lifecycle!Phase] /\ phase'[s] = "queued"
          /\ \A t \in Job \ {s} : phase'[t] = phase[t]
      BY <3>1, <3>5, Concluded
    <3> QED
      BY <2>1, <2>2, <2>3, <3>1, <3>3, <3>4, <3>6, StoreStep DEF RequestTypeOK, Settles
  <2> QED
    BY <1>2, <2>4, <2>5, <2>6
<1> QED
  BY <1>1, <1>2

----------------------------------------------------------------------------
\* The life of the process.
LEMMA BootStep ==
    ASSUME RequestTypeOK, RequestInv, Boot
    PROVE  RequestTypeOK' /\ RequestInv'
<1>1. /\ UNCHANGED <<call, jobs, ahead, last, progress, work, halted, accepting, due>>
      /\ UNCHANGED <<phase, tries, claim, settle>>
      /\ at = "down" /\ at' = "tick" /\ process' = "up" /\ ~fault' /\ fault' \in BOOLEAN
      /\ Adrift = {}
  BY DEF Boot, Start, GoTo, storeVars, executorVars
<1>2. RequestTypeOK'
  BY <1>1 DEF RequestTypeOK, Places
<1>3. jobs = {} /\ due = {}
  BY <1>1 DEF RequestInv, SessionInv, RequestTypeOK
<1>4. SessionInv' /\ JobsInv' /\ ClaimInv' /\ StoreInv'
  BY <1>1, <1>3 DEF RequestInv, SessionInv, JobsInv, ClaimInv, StoreInv, NoOverlap, Open, Adrift, Reporting
<1> QED
  BY <1>2, <1>4 DEF RequestInv

\* The end of the process keeps it.
LEMMA GoneStep ==
    ASSUME RequestTypeOK, RequestInv, Gone
    PROVE  RequestTypeOK' /\ RequestInv'
<1>1. /\ UNCHANGED <<phase, tries>> /\ claim' = Nobody /\ settle' = "nothing"
      /\ at' = "down" /\ process' = "down" /\ fault' = FALSE
      /\ jobs' = {} /\ due' = {}
      /\ progress' = [j \in Job |-> NewJob]
      /\ work' = [c \in Call |-> "none"]
  BY DEF Gone, Exit, EndSession, storeVars
<1>2. PICK left \in SUBSET (Open \cup Adrift) :
          call' = [c \in Call |-> IF c \in left THEN "adrift"
                                  ELSE IF c \in Open \cup Adrift THEN "over" ELSE call[c]]
  BY DEF Gone, Exit
<1>3. NewJob \in Progress
  BY DEF NewJob, Progress, Ending
<1>4. RequestTypeOK'
  <2>1. call' \in [Call -> {"new", "open", "over", "adrift"}]
    BY <1>2 DEF RequestTypeOK
  <2>2. progress' \in [Job -> Progress] /\ work' \in [Call -> Work]
    BY <1>1, <1>3 DEF Work
  <2> QED
    BY <1>1, <2>1, <2>2 DEF RequestTypeOK, Places
<1>5. Open' = {} /\ Adrift' \subseteq Open \cup Adrift
  BY <1>2 DEF Open, Adrift, RequestTypeOK
<1>6. SessionInv'
  BY <1>1, <1>5 DEF SessionInv, Open
<1>7. JobsInv' /\ ClaimInv'
  BY <1>1 DEF JobsInv, ClaimInv, Reporting
<1>8. StoreInv'
  BY <1>1, <1>5 DEF RequestInv, StoreInv, NoOverlap
<1> QED
  BY <1>4, <1>6, <1>7, <1>8 DEF RequestInv

\* A call to the store or the queue, or the ledger, ends the session.
LEMMA RaiseStep ==
    ASSUME RequestTypeOK, RequestInv, Raise, at # "down"
    PROVE  RequestTypeOK' /\ RequestInv'
<1>1. /\ UNCHANGED <<ledgerVars, jobs, ahead, last, progress, work, accepting, due>>
      /\ UNCHANGED <<phase, tries, claim, settle>> /\ UNCHANGED <<call, process, fault>>
      /\ at' = "unwinding"
  BY DEF Raise, GoTo, storeVars, ledgerVars
<1>2. RequestTypeOK'
  BY <1>1 DEF RequestTypeOK, Places
<1>3. SessionInv' /\ JobsInv'
  BY <1>1 DEF RequestInv, SessionInv, JobsInv, InFlight, Active, Adrift, Going, CallOf, Reporting
<1>4. ClaimInv' /\ StoreInv'
  BY <1>1 DEF RequestInv, ClaimInv, StoreInv, NoOverlap, InFlight, Active, Open, Adrift, Reporting
<1> QED
  BY <1>2, <1>3, <1>4 DEF RequestInv

\* Whatever raises out of a round keeps it.
LEMMA RaisesStep ==
    ASSUME RequestTypeOK, RequestInv, Outage \/ GuardRaises \/ AdmissionRaises
    PROVE  RequestTypeOK' /\ RequestInv'
<1>1. Raise /\ at # "down"
  BY DEF Outage, GuardRaises, AdmissionRaises, Scanning
<1> QED
  BY <1>1, RaiseStep

----------------------------------------------------------------------------
\* Admission and retirement.

\* A granted claim is of a submission nothing works on.
LEMMA ReceiveStep ==
    ASSUME RequestTypeOK, RequestInv, NEW s \in Job, Receive(s)
    PROVE  RequestTypeOK' /\ RequestInv'
<1>1. /\ UNCHANGED <<ledgerVars, jobs, ahead, last, progress, work, halted, accepting, due>>
      /\ UNCHANGED <<call, process, fault, settle>>
      /\ at = "tick"
  BY DEF Receive, Guarded, Scanning, ledgerVars
<1>2. claim = Nobody /\ settle = "nothing" /\ due = {}
  BY <1>1 DEF RequestInv, ClaimInv, JobsInv, Reporting
<1>3. \A t \in jobs : phase[t] # "queued"
  BY <1>1, NoneQueued DEF Reporting
<1>4. CASE /\ Grantable(s) /\ Conclude(s, "running") /\ tries' = [tries EXCEPT ![s] = @ + 1]
           /\ claim' = s /\ at' = "admit"
  <2>1. /\ phase[s] = "queued" /\ tries[s] + 1 \in Attempt /\ tries[s] \in Nat /\ s \notin jobs
    BY <1>3, <1>4, AttemptAssumption DEF Grantable, RequestTypeOK
  <2>2. "running" \in Lifecycle!Phase
    BY DEF Lifecycle!Phase
  <2>3. /\ phase' \in [Job -> Lifecycle!Phase] /\ phase'[s] = "running"
        /\ \A t \in Job \ {s} : phase'[t] = phase[t]
    BY <1>4, <2>2, Concluded
  <2>4. /\ tries' \in [Job -> Nat] /\ tries'[s] = tries[s] + 1
        /\ \A t \in Job \ {s} : tries'[t] = tries[t]
    BY <1>4 DEF RequestTypeOK
  <2>5. RequestTypeOK'
    BY <1>1, <1>4, <2>3, <2>4 DEF RequestTypeOK, Places
  <2>6. SessionInv' /\ ClaimInv'
    BY <1>1, <1>4 DEF RequestInv, SessionInv, ClaimInv, Adrift, Reporting
  <2>7. JobsInv'
    BY <1>1, <1>2, <1>4, <2>1, <2>4 DEF RequestInv, JobsInv, RequestTypeOK, CallOf
  <2>8. \A c \in Open \cup Adrift : c[1] # s
    BY <2>1 DEF RequestInv, StoreInv, NoOverlap
  <2>9. NoOverlap'
    BY <1>1, <2>3, <2>4, <2>8, CallShape DEF RequestInv, StoreInv, NoOverlap, Open, Adrift
  <2>10. StoreInv'
    BY <1>1, <1>3, <2>1, <2>3, <2>4, <2>9 DEF RequestInv, StoreInv, RequestTypeOK
  <2> QED
    BY <2>5, <2>6, <2>7, <2>10 DEF RequestInv
<1>5. CASE Conclude(s, "failed") /\ UNCHANGED <<tries, claim, at>>
  <2>1. "failed" \in Lifecycle!Phase /\ "failed" \in Final
    BY DEF Final, Lifecycle!Final, Lifecycle!Phase
  <2>2. /\ phase' \in [Job -> Lifecycle!Phase]
        /\ \A t \in Job : phase'[t] \in {phase[t]} \cup Final
    BY <1>5, <2>1, Concluded
  <2>3. UNCHANGED <<ledgerVars, sessionVars, tries>>
    BY <1>1, <1>5 DEF sessionVars
  <2>4. ClaimInv'
    BY <1>1, <1>5 DEF RequestInv, ClaimInv
  <2> QED
    BY <1>1, <1>3, <1>5, <2>2, <2>3, <2>4, StoreStep DEF RequestTypeOK, Settles
<1>6. CASE UNCHANGED <<storeVars, claim, at>>
  <2>1. UNCHANGED <<ledgerVars, sessionVars, phase, tries>>
    BY <1>1, <1>6 DEF sessionVars, storeVars
  <2>2. ClaimInv'
    BY <1>1, <1>6 DEF RequestInv, ClaimInv
  <2> QED
    BY <1>1, <1>3, <1>6, <2>1, <2>2, StoreStep DEF RequestTypeOK, Settles
<1> QED
  BY <1>4, <1>5, <1>6 DEF Receive, GoTo

\* A claim keeps it.
LEMMA AdmitStep ==
    ASSUME RequestTypeOK, RequestInv, Admit
    PROVE  RequestTypeOK' /\ RequestInv'
<1>1. /\ UNCHANGED <<call, process, fault, phase, tries, settle, work, due>>
      /\ at = "admit" /\ at' = "check" /\ settle = "nothing" /\ claim' = Nobody
      /\ claim \in Job /\ claim \notin jobs /\ jobs' = jobs \cup {claim}
      /\ phase[claim] = "running"
      /\ progress' = [progress EXCEPT ![claim] = [NewJob EXCEPT !.attempt = tries[claim]]]
  BY DEF Admit, AddJob, Addable, Current, GoTo, ledgerVars, storeVars, RequestInv, ClaimInv
<1>2. tries[claim] \in Attempt
  BY <1>1 DEF RequestInv, StoreInv
<1>3. PICK p : p = [NewJob EXCEPT !.attempt = tries[claim]]
  OBVIOUS
<1>4. p \in Progress /\ p.attempt = tries[claim] /\ p.end = "running"
  BY <1>2, <1>3 DEF NewJob, Progress, Ending
<1>5. progress' = [progress EXCEPT ![claim] = p]
  BY <1>1, <1>3
<1> HIDE <1>3
<1>6. RequestTypeOK'
  BY <1>1, <1>4, <1>5 DEF RequestTypeOK, Places
<1>7. /\ progress'[claim] = p
      /\ \A j \in jobs : progress'[j] = progress[j]
  BY <1>1, <1>5 DEF RequestTypeOK
<1>8. due = {} /\ \A j \in jobs : phase[j] # "queued"
  BY <1>1, NoneQueued DEF RequestInv, JobsInv, Reporting
<1>9. SessionInv'
  BY <1>1, <1>7 DEF RequestInv, SessionInv, Adrift
<1>10. JobsInv'
  <2>1. ASSUME NEW j \in jobs'
        PROVE  /\ progress'[j].attempt = tries'[j] /\ tries'[j] \in Attempt
               /\ progress'[j].end = "aggregate" =>
                     \A i \in 1 .. SamplesOf[j] : work'[CallOf(j, i)'] = "graded"
    <3>1. CASE j = claim
      BY <1>1, <1>2, <1>4, <1>7, <3>1
    <3>2. CASE j \in jobs
      BY <1>1, <1>7, <3>2 DEF RequestInv, JobsInv, CallOf
    <3> QED
      BY <1>1, <3>1, <3>2
  <2> QED
    BY <1>1, <1>8, <2>1 DEF JobsInv, Reporting
<1>11. ClaimInv' /\ StoreInv'
  BY <1>1, <1>8 DEF RequestInv, ClaimInv, StoreInv, NoOverlap, Open, Adrift, Reporting
<1> QED
  BY <1>6, <1>9, <1>10, <1>11 DEF RequestInv

\* What becomes of a claimed job keeps it.
LEMMA SettleAdmissionStep ==
    ASSUME RequestTypeOK, RequestInv, SettleAdmission
    PROVE  RequestTypeOK' /\ RequestInv'
<1>1. /\ UNCHANGED <<call, process, fault, jobs, progress, work, due, phase, tries>>
      /\ at = "admit" /\ at' = "check" /\ claim' = Nobody /\ settle' = "nothing"
  BY DEF SettleAdmission, GoTo, ledgerVars, storeVars
<1>2. due = {} /\ \A j \in jobs : phase[j] # "queued"
  BY <1>1, NoneQueued DEF RequestInv, JobsInv, Reporting
<1>3. RequestTypeOK'
  BY <1>1 DEF RequestTypeOK, Places
<1>4. SessionInv' /\ JobsInv'
  BY <1>1, <1>2 DEF RequestInv, SessionInv, JobsInv, InFlight, Active, Adrift, Going, CallOf
<1>5. ClaimInv' /\ StoreInv'
  BY <1>1, <1>2 DEF RequestInv, ClaimInv, StoreInv, NoOverlap, Open, Adrift, Reporting
<1> QED
  BY <1>3, <1>4, <1>5 DEF RequestInv

\* What is retired has no request in flight, and takes its samples with it.
LEMMA SettleJobStep ==
    ASSUME RequestTypeOK, RequestInv, SettleJob
    PROVE  RequestTypeOK' /\ RequestInv'
<1>1. /\ UNCHANGED <<call, process, fault, at, phase, tries>>
      /\ at \in {"publish", "drain"} /\ settle # "nothing" /\ claim' = Nobody /\ settle' = "nothing"
      /\ Retire(claim)
  BY DEF SettleJob, ledgerVars, storeVars
<1>2. claim \in due /\ claim \in jobs /\ claim \in Job /\ InFlight(claim) = {}
  BY <1>1 DEF RequestInv, ClaimInv, JobsInv, RequestTypeOK
<1>3. /\ due' = due \ {claim} /\ jobs' = jobs \ {claim}
      /\ progress' = [progress EXCEPT ![claim] = NewJob]
      /\ work' = [c \in Call |-> IF c[1] = claim THEN "none" ELSE work[c]]
  BY <1>1 DEF Retire
<1>4. NewJob \in Progress
  BY DEF NewJob, Progress, Ending
<1>5. RequestTypeOK'
  BY <1>1, <1>2, <1>3, <1>4 DEF RequestTypeOK, Work
<1>6. \A c \in Call : c[1] = claim => work[c] \notin InPool \cup LeftBehind
  BY <1>2 DEF InFlight, Active
<1>7. /\ Active' = Active
      /\ \A j \in Job : InFlight(j)' = InFlight(j)
      /\ \A j \in jobs' : /\ j # claim /\ j \in Job /\ progress'[j] = progress[j] /\ Going(j)' = Going(j)
                          /\ \A i \in Nat : CallOf(j, i)' = CallOf(j, i)
  <2>1. \A c \in Call : work'[c] \in InPool \cup LeftBehind <=> work[c] \in InPool \cup LeftBehind
    BY <1>3, <1>6 DEF InPool, LeftBehind
  <2>2. \A j \in jobs' : j # claim /\ j \in Job /\ progress'[j] = progress[j]
    BY <1>3 DEF RequestTypeOK
  <2> QED
    BY <2>1, <2>2 DEF Active, InFlight, Going, CallOf
<1>8. SessionInv'
  BY <1>1, <1>3, <1>6, <1>7 DEF RequestInv, SessionInv, Adrift, InPool
<1>9. JobsInv'
  <2>1. ASSUME NEW j \in jobs', progress'[j].end = "aggregate", NEW i \in 1 .. SamplesOf[j]
        PROVE  work'[CallOf(j, i)'] = "graded"
    <3>1. CallOf(j, i)' = CallOf(j, i) /\ work[CallOf(j, i)] = "graded" /\ j \in Job /\ j # claim
      BY <1>3, <1>7, <2>1, SchedulerAssumption DEF RequestInv, JobsInv
    <3>2. CallOf(j, i) \in Call
      BY <1>3, <3>1, CallMade DEF RequestInv, JobsInv, CallOf
    <3>3. CallOf(j, i)[1] = j
      BY DEF CallOf
    <3> QED
      BY <1>3, <3>1, <3>2, <3>3
  <2> QED
    BY <1>1, <1>3, <1>7, <2>1 DEF RequestInv, JobsInv, RequestTypeOK
<1>10. ClaimInv'
  BY <1>1 DEF RequestInv, ClaimInv, Reporting
<1>11. StoreInv'
  BY <1>1, <1>3, <1>7 DEF RequestInv, StoreInv, NoOverlap, Open, Adrift
<1> QED
  BY <1>5, <1>8, <1>9, <1>10, <1>11 DEF RequestInv

----------------------------------------------------------------------------
\* The coordinator's round.

\* An ended job keeps its attempt and its cursor.
LEMMA EndedJob ==
    ASSUME NEW p \in Progress, NEW end \in Ending
    PROVE  /\ Ended(p, end) \in Progress /\ Ended(p, end).end = end
           /\ Ended(p, end).attempt = p.attempt /\ Ended(p, end).cursor = p.cursor
BY DEF Ended, Progress

\* The steps that leave the samples alone, and give jobs no aggregate.
LEMMA MarkStep ==
    ASSUME RequestTypeOK, RequestInv,
           UNCHANGED <<call, process, fault, jobs, work, phase, tries, claim, settle>>,
           progress' \in [Job -> Progress],
           \A j \in Job : /\ progress'[j].attempt = progress[j].attempt
                          /\ progress'[j].cursor = progress[j].cursor
                          /\ progress'[j].end = "aggregate" => progress[j].end = "aggregate",
           at # "down", at' \in Places \ {"down", "admit"},
           due' \subseteq jobs, due' # {} => at' \in Reporting,
           \A j \in due' : InFlight(j) = {},
           at' = "drain" => Active = {} /\ \A j \in jobs : progress'[j].end = "running" \/ j \in due',
           ClaimInv',
           at' \in Reporting \/ \A s \in jobs : phase[s] # "queued"
    PROVE  RequestTypeOK' /\ RequestInv'
<1>1. RequestTypeOK'
  BY DEF RequestTypeOK
<1>2. /\ Active' = Active
      /\ \A j \in Job : InFlight(j)' = InFlight(j)
      /\ \A j \in Job, i \in Nat : CallOf(j, i)' = CallOf(j, i)
  BY DEF Active, InFlight, CallOf
<1>3. SessionInv'
  BY CallShape DEF RequestInv, SessionInv, Adrift
<1>4. JobsInv'
  <2>1. ASSUME NEW j \in jobs'
        PROVE  /\ progress'[j].attempt = tries'[j] /\ tries'[j] \in Attempt
               /\ progress'[j].end = "aggregate" =>
                     \A i \in 1 .. SamplesOf[j] : work'[CallOf(j, i)'] = "graded"
    BY <1>2, <2>1, SchedulerAssumption DEF RequestInv, JobsInv, RequestTypeOK
  <2> QED
    BY <1>2, <2>1 DEF JobsInv, Going, RequestTypeOK
<1>5. StoreInv'
  BY <1>2 DEF RequestInv, StoreInv, NoOverlap, Open, Adrift, RequestTypeOK
<1> QED
  BY <1>1, <1>3, <1>4, <1>5 DEF RequestInv

\* The deadline marks jobs and moves nothing else of them.
LEMMA LateMarks ==
    ASSUME RequestTypeOK
    PROVE  /\ LateEnded \in [Job -> Progress]
           /\ \A j \in Job : /\ LateEnded[j].attempt = progress[j].attempt
                             /\ LateEnded[j].cursor = progress[j].cursor
                             /\ LateEnded[j].end \in {progress[j].end, "JOB_DEADLINE"}
                             /\ j \notin late => LateEnded[j] = progress[j]
<1>1. ASSUME NEW j \in Job
      PROVE  /\ progress[j] \in Progress
             /\ Ended(progress[j], "JOB_DEADLINE") \in Progress
             /\ Ended(progress[j], "JOB_DEADLINE").end = "JOB_DEADLINE"
             /\ Ended(progress[j], "JOB_DEADLINE").attempt = progress[j].attempt
             /\ Ended(progress[j], "JOB_DEADLINE").cursor = progress[j].cursor
  <2>1. progress[j] \in Progress /\ "JOB_DEADLINE" \in Ending
    BY DEF RequestTypeOK, Ending
  <2> QED
    BY <2>1, EndedJob
<1> QED
  BY <1>1 DEF LateEnded

\* The end of dispatch keeps the invariant.
LEMMA EndDispatchStep ==
    ASSUME RequestTypeOK, RequestInv, EndDispatch, UNCHANGED <<ledgerVars, late, storeVars, executorVars>>
    PROVE  RequestTypeOK' /\ RequestInv'
<1>1. /\ UNCHANGED <<call, process, fault, jobs, work, phase, tries, claim, settle, due>>
      /\ at = "dispatch" /\ at' = "wait" /\ progress' \in {LateEnded, progress}
  BY DEF EndDispatch, GoTo, ledgerVars, storeVars, executorVars
<1>2. /\ progress' \in [Job -> Progress]
      /\ \A j \in Job : /\ progress'[j].attempt = progress[j].attempt
                        /\ progress'[j].cursor = progress[j].cursor
                        /\ progress'[j].end = "aggregate" => progress[j].end = "aggregate"
  BY <1>1, LateMarks DEF RequestTypeOK
<1>3. ClaimInv' /\ due' = {}
  BY <1>1 DEF RequestInv, ClaimInv, JobsInv, Reporting
<1>4. \A s \in jobs : phase[s] # "queued"
  BY <1>1, NoneQueued DEF Reporting
<1> QED
  BY <1>1, <1>2, <1>3, <1>4, MarkStep DEF Places

\* The look at the jobs keeps it.
LEMMA SurveyStep ==
    ASSUME RequestTypeOK, RequestInv, NEW ready \in BOOLEAN, Survey(stop, ready),
           UNCHANGED <<ledgerVars, late, storeVars, executorVars>>
    PROVE  RequestTypeOK' /\ RequestInv'
<1>1. /\ UNCHANGED <<call, process, fault, jobs, work, phase, tries, claim, settle, due>>
      /\ at \in {"tick", "check"} /\ at' \in {"dispatch", "wait"}
  BY DEF Survey, GoTo, ledgerVars, storeVars, executorVars
<1>2. ASSUME NEW j \in Job
      PROVE  /\ progress[j] \in Progress
             /\ \A end \in {"JOB_DEADLINE", "EXECUTOR_BLOCKED"} :
                   /\ Ended(progress[j], end) \in Progress /\ Ended(progress[j], end).end = end
                   /\ Ended(progress[j], end).attempt = progress[j].attempt
                   /\ Ended(progress[j], end).cursor = progress[j].cursor
  <2>1. progress[j] \in Progress /\ {"JOB_DEADLINE", "EXECUTOR_BLOCKED"} \subseteq Ending
    BY DEF RequestTypeOK, Ending
  <2> QED
    BY <2>1, EndedJob
<1>3. PICK stops :
        progress' = [j \in Job |->
          IF j \notin jobs \/ ~Going(j) THEN progress[j]
          ELSE IF j \in late THEN Ended(progress[j], "JOB_DEADLINE")
          ELSE IF stops THEN Ended(progress[j], "EXECUTOR_BLOCKED")
          ELSE progress[j]]
  BY DEF Survey
<1>4. /\ progress' \in [Job -> Progress]
      /\ \A j \in Job : /\ progress'[j].attempt = progress[j].attempt
                        /\ progress'[j].cursor = progress[j].cursor
                        /\ progress'[j].end = "aggregate" => progress[j].end = "aggregate"
  BY <1>2, <1>3
<1>5. ClaimInv' /\ due' = {}
  BY <1>1 DEF RequestInv, ClaimInv, JobsInv, Reporting
<1>6. \A s \in jobs : phase[s] # "queued"
  BY <1>1, NoneQueued DEF Reporting
<1> QED
  BY <1>1, <1>4, <1>5, <1>6, MarkStep DEF Places

\* Who is reported has no request in flight; a session closes at the end of a
\* round only when none of its jobs is left to be reported.
LEMMA ReportEffect ==
    ASSUME RequestTypeOK, Report
    PROVE  /\ progress' \in [Job -> Progress]
           /\ \A j \in Job : /\ progress'[j].attempt = progress[j].attempt
                             /\ progress'[j].cursor = progress[j].cursor
                             /\ progress'[j].end = "aggregate" => progress[j].end = "aggregate"
           /\ due' = {j \in jobs : progress'[j].end # "running" /\ InFlight(j) = {}}
           /\ at \in {"wait", "collect"} /\ at' \in {"publish", "drain", "tick", "closed"}
           /\ at' \in {"drain", "closed"} => Active = {}
           /\ at' = "closed" => due' = {} /\ \A j \in jobs : progress'[j].end # "running"
           /\ due' # {} <=> at' \in {"publish", "drain"}
           /\ UNCHANGED <<jobs, ahead, last, work, halted, accepting>>
<1>1. ASSUME NEW j \in Job
      PROVE  /\ progress[j] \in Progress
             /\ Ended(progress[j], "EXECUTOR_BLOCKED") \in Progress
             /\ Ended(progress[j], "EXECUTOR_BLOCKED").end = "EXECUTOR_BLOCKED"
             /\ Ended(progress[j], "EXECUTOR_BLOCKED").attempt = progress[j].attempt
             /\ Ended(progress[j], "EXECUTOR_BLOCKED").cursor = progress[j].cursor
  <2>1. progress[j] \in Progress /\ "EXECUTOR_BLOCKED" \in Ending
    BY DEF RequestTypeOK, Ending
  <2> QED
    BY <2>1, EndedJob
<1>2. PICK blocked : blocked = [j \in Job |-> IF j \in jobs /\ Going(j) /\ halted
                                  THEN Ended(progress[j], "EXECUTOR_BLOCKED") ELSE progress[j]]
  OBVIOUS
<1>3. /\ progress' = blocked
      /\ due' = {j \in jobs : blocked[j].end # "running" /\ InFlight(j) = {}}
      /\ at \in {"wait", "collect"}
      /\ at' = IF due' = {} THEN After(at = "wait" /\ Active = {}, blocked)
               ELSE IF at = "wait" /\ Active = {} THEN "drain" ELSE "publish"
      /\ UNCHANGED <<jobs, ahead, last, work, halted, accepting>>
  BY <1>2 DEF Report, GoTo
<1>4. /\ blocked \in [Job -> Progress]
      /\ \A j \in Job : /\ blocked[j].attempt = progress[j].attempt
                        /\ blocked[j].cursor = progress[j].cursor
                        /\ blocked[j].end = "aggregate" => progress[j].end = "aggregate"
  BY <1>1, <1>2
<1>5. CASE due' = {}
  BY <1>3, <1>4, <1>5 DEF After
<1>6. CASE due' # {}
  BY <1>3, <1>4, <1>6
<1> QED
  BY <1>5, <1>6

\* The report of ended jobs keeps it.
LEMMA ReportStep ==
    ASSUME RequestTypeOK, RequestInv, Report, UNCHANGED <<ledgerVars, late, storeVars, executorVars>>
    PROVE  RequestTypeOK' /\ RequestInv'
<1>1. UNCHANGED <<call, process, fault, jobs, work, phase, tries, claim, settle>>
  BY ReportEffect DEF ledgerVars, storeVars, executorVars
<1>2. /\ progress' \in [Job -> Progress]
      /\ \A j \in Job : /\ progress'[j].attempt = progress[j].attempt
                        /\ progress'[j].cursor = progress[j].cursor
                        /\ progress'[j].end = "aggregate" => progress[j].end = "aggregate"
      /\ due' = {j \in jobs : progress'[j].end # "running" /\ InFlight(j) = {}}
      /\ at \in {"wait", "collect"} /\ at' \in {"publish", "drain", "tick", "closed"}
      /\ at' \in {"drain", "closed"} => Active = {}
      /\ due' # {} <=> at' \in {"publish", "drain"}
  BY ReportEffect
<1>3. claim = Nobody /\ settle = "nothing" /\ \A s \in jobs : phase[s] # "queued"
  BY <1>2, NoneQueued DEF RequestInv, ClaimInv, Reporting
<1>4. ClaimInv'
  BY <1>1, <1>2, <1>3 DEF ClaimInv
<1>5. at' = "drain" => Active = {} /\ \A j \in jobs : progress'[j].end = "running" \/ j \in due'
  BY <1>2 DEF InFlight
<1>6. /\ at # "down" /\ at' \in Places \ {"down", "admit"} /\ due' \subseteq jobs
      /\ due' # {} => at' \in Reporting
      /\ \A j \in due' : InFlight(j) = {}
  BY <1>2 DEF Places, Reporting
<1> QED
  BY <1>1, <1>2, <1>3, <1>4, <1>5, <1>6, MarkStep

\* The end of a round keeps it.
LEMMA RoundEnds ==
    ASSUME RequestTypeOK, RequestInv, Reported \/ Unwind,
           UNCHANGED <<ledgerVars, late, storeVars, executorVars>>
    PROVE  RequestTypeOK' /\ RequestInv'
<1>1. /\ UNCHANGED <<call, process, fault, jobs, work, phase, tries, claim, settle, progress, due>>
      /\ at' \in {"tick", "closed"}
      /\ \/ at \in {"publish", "drain"} /\ due = {}
         \/ at = "unwinding" /\ at' = "closed"
  BY DEF Reported, Unwind, GoTo, After, ledgerVars, storeVars, executorVars
<1>2. at \in {"publish", "drain"} => claim = Nobody /\ settle = "nothing"
  BY <1>1 DEF RequestInv, ClaimInv
<1>3. ClaimInv'
  BY <1>1, <1>2 DEF ClaimInv, Reporting
<1>4. at' \in Reporting \/ \A s \in jobs : phase[s] # "queued"
  BY <1>1, <1>2, NoneQueued DEF Reporting
<1>5. /\ due' \subseteq jobs /\ progress' \in [Job -> Progress]
      /\ due' # {} => at' \in Reporting
      /\ \A j \in due' : InFlight(j) = {}
  BY <1>1 DEF RequestTypeOK, RequestInv, JobsInv, Reporting
<1> QED
  BY <1>1, <1>3, <1>4, <1>5, MarkStep DEF Places

\* A sample is dispatched once: nothing is known of it before.
LEMMA DispatchStep ==
    ASSUME RequestTypeOK, RequestInv, NEW j \in Job, Dispatch(j),
           UNCHANGED <<ledgerVars, late, storeVars, executorVars>>
    PROVE  RequestTypeOK' /\ RequestInv'
<1>1. /\ UNCHANGED <<call, process, fault, jobs, phase, tries, claim, settle, at, due>>
      /\ at = "dispatch"
      /\ j \in jobs /\ progress[j].end = "running" /\ progress[j].cursor < SamplesOf[j] /\ j \notin late
      /\ progress' = [LateEnded EXCEPT ![j].cursor = @ + 1]
      /\ work' = [work EXCEPT ![CallOf(j, progress[j].cursor + 1)] = "submitted"]
  BY DEF Dispatch, Chosen, Candidates, Selectable, Going, ledgerVars, storeVars, executorVars
<1>2. /\ LateEnded \in [Job -> Progress] /\ LateEnded[j] = progress[j]
      /\ progress[j] \in Progress
      /\ \A k \in Job : /\ LateEnded[k].attempt = progress[k].attempt
                        /\ LateEnded[k].cursor = progress[k].cursor
                        /\ LateEnded[k].end \in {progress[k].end, "JOB_DEADLINE"}
  BY <1>1, LateMarks DEF RequestTypeOK
<1>3. PICK p : p = [progress[j] EXCEPT !.cursor = @ + 1]
  OBVIOUS
<1>4. /\ p \in Progress /\ p.attempt = progress[j].attempt /\ p.end = "running"
      /\ p.cursor = progress[j].cursor + 1
  BY <1>1, <1>2, <1>3 DEF Progress
<1>5. progress' = [LateEnded EXCEPT ![j] = p]
  BY <1>1, <1>2, <1>3
<1> HIDE <1>3
<1>6. /\ progress' \in [Job -> Progress] /\ progress'[j] = p
      /\ \A k \in Job : /\ progress'[k].attempt = progress[k].attempt
                        /\ progress'[k].cursor \in {progress[k].cursor, progress[k].cursor + 1}
                        /\ progress[k].cursor \in Nat
                        /\ progress'[k].end = "aggregate" => progress[k].end = "aggregate" /\ k # j
  BY <1>2, <1>4, <1>5 DEF Progress, RequestTypeOK
<1>7. PICK c : c = CallOf(j, progress[j].cursor + 1)
  OBVIOUS
<1>8. /\ c \in Call /\ c[1] = j /\ c[2] = progress[j].attempt /\ c[3] = progress[j].cursor + 1
      /\ progress[j].cursor \in Nat
  <2>1. progress[j].cursor + 1 \in 1 .. SamplesOf[j] /\ progress[j].cursor \in Nat
    BY <1>1, <1>2, SchedulerAssumption DEF Progress
  <2>2. progress[j].attempt \in Attempt
    BY <1>1 DEF RequestInv, JobsInv
  <2> QED
    BY <1>7, <2>1, <2>2, CallMade DEF CallOf
<1>9. work' = [work EXCEPT ![c] = "submitted"]
  BY <1>1, <1>7
<1>10. work[c] = "none" /\ call[c] # "open"
  BY <1>8 DEF RequestInv, SessionInv
<1>11. RequestTypeOK'
  BY <1>1, <1>6, <1>9 DEF RequestTypeOK, Work, InPool
<1>12. SessionInv'
  <2>1. ASSUME NEW d \in Call
        PROVE  /\ work'[d] # "none" => /\ d[1] \in jobs' /\ d[2] = progress'[d[1]].attempt
                                       /\ d[3] <= progress'[d[1]].cursor
               /\ call'[d] = "open" <=> work'[d] = "calling"
               /\ work'[d] \in {"ok", "graded"} => call'[d] = "over"
    <3>1. d[1] \in Job /\ d[3] \in Nat
      BY CallShape, SchedulerAssumption
    <3>2. CASE d = c
      <4>1. work'[c] = "submitted" /\ call'[c] # "open"
        BY <1>1, <1>8, <1>9, <1>10 DEF RequestTypeOK
      <4>2. /\ c[1] \in jobs' /\ c[2] = progress'[c[1]].attempt
            /\ c[3] <= progress'[c[1]].cursor
        <5>1. progress'[j] = p
          BY <1>6
        <5>2. c[3] = p.cursor /\ p.cursor \in Nat
          BY <1>4, <1>8
        <5>3. j \in jobs' /\ progress'[j].attempt = progress[j].attempt
          BY <1>1, <1>4, <5>1
        <5>4. progress'[j].cursor = c[3] /\ c[3] \in Nat
          BY <5>1, <5>2
        <5>5. c[1] = j /\ c[2] = progress[j].attempt
          BY <1>8
        <5>6. c[3] <= progress'[j].cursor
          BY <5>4
        <5> QED
          BY <5>3, <5>5, <5>6
      <4> QED
        BY <3>2, <4>1, <4>2
    <3>3. CASE d # c
      BY <1>1, <1>6, <1>9, <3>1, <3>3 DEF RequestInv, SessionInv, RequestTypeOK
    <3> QED
      BY <3>2, <3>3
  <2> QED
    BY <1>1, <2>1 DEF RequestInv, SessionInv, Adrift
<1>13. due = {} /\ claim = Nobody /\ settle = "nothing" /\ \A s \in jobs : phase[s] # "queued"
  BY <1>1, NoneQueued DEF RequestInv, JobsInv, ClaimInv, Reporting
<1>14. JobsInv'
  <2>1. ASSUME NEW k \in jobs'
        PROVE  /\ progress'[k].attempt = tries'[k] /\ tries'[k] \in Attempt
               /\ progress'[k].end = "aggregate" =>
                     \A i \in 1 .. SamplesOf[k] : work'[CallOf(k, i)'] = "graded"
    <3>1. k \in Job /\ progress[k].attempt = tries[k] /\ tries[k] \in Attempt
      BY <1>1 DEF RequestInv, JobsInv, RequestTypeOK
    <3>2. ASSUME progress'[k].end = "aggregate", NEW i \in 1 .. SamplesOf[k]
          PROVE  work'[CallOf(k, i)'] = "graded"
      <4>1. k # j /\ work[CallOf(k, i)] = "graded" /\ CallOf(k, i) = CallOf(k, i)'
        BY <1>1, <1>6, <3>1, <3>2 DEF RequestInv, JobsInv, CallOf
      <4>2. CallOf(k, i) # c
        BY <1>8, <4>1 DEF CallOf
      <4>3. work'[CallOf(k, i)] = work[CallOf(k, i)]
        BY <1>9, <3>1, <4>2, CallMade DEF RequestTypeOK, CallOf
      <4> QED
        BY <4>1, <4>3
    <3> QED
      BY <1>1, <1>6, <3>1, <3>2
  <2> QED
    BY <1>1, <1>13, <2>1 DEF JobsInv
<1>15. ClaimInv' /\ StoreInv'
  BY <1>1, <1>13 DEF RequestInv, ClaimInv, StoreInv, NoOverlap, Open, Adrift
<1> QED
  BY <1>11, <1>12, <1>14, <1>15 DEF RequestInv

\* What the end of a sample makes of what the coordinator knows of its job.
LEMMA SampleEnds ==
    ASSUME NEW p \in Progress, NEW left \in LeftBehind
    PROVE  /\ AfterSample(p, left) \in Progress
           /\ AfterSample(p, left).attempt = p.attempt /\ AfterSample(p, left).cursor = p.cursor
           /\ AfterSample(p, left).end = "aggregate" => p.end = "aggregate"
<1>1. ASSUME NEW end \in {"JOB_DEADLINE", "CLAIM_LOST", "EXECUTION_FAILED"}
      PROVE  /\ Ended(p, end) \in Progress /\ Ended(p, end).end = end
             /\ Ended(p, end).attempt = p.attempt /\ Ended(p, end).cursor = p.cursor
  BY EndedJob DEF Ending
<1>2. ASSUME NEW retry \in BOOLEAN
      PROVE  LET q == [p EXCEPT !.end = "PROVIDER_REQUEST_FAILED", !.retry = retry] IN
             q \in Progress /\ q.attempt = p.attempt /\ q.cursor = p.cursor
             /\ q.end = "PROVIDER_REQUEST_FAILED"
  BY DEF Progress, Ending
<1>3. ASSUME NEW confirmed \in BOOLEAN
      PROVE  /\ AfterRefusal(p, confirmed) \in Progress
             /\ AfterRefusal(p, confirmed).attempt = p.attempt
             /\ AfterRefusal(p, confirmed).cursor = p.cursor
             /\ AfterRefusal(p, confirmed).end = "aggregate" => p.end = "aggregate"
  <2>1. p.retry \in BOOLEAN
    BY DEF Progress
  <2>2. PICK retry \in BOOLEAN : retry = (confirmed /\ (p.end = "running" \/ p.retry))
    BY <2>1
  <2>3. AfterRefusal(p, confirmed) \in {p, [p EXCEPT !.end = "PROVIDER_REQUEST_FAILED", !.retry = retry]}
    BY <2>2 DEF AfterRefusal
  <2> QED
    BY <1>2, <2>3
<1>4. CASE left \in {"refused", "doubt"}
  <2>1. AfterSample(p, left) = AfterRefusal(p, left = "refused")
    BY <1>4 DEF AfterSample
  <2>2. (left = "refused") \in BOOLEAN
    OBVIOUS
  <2> QED
    BY <1>3, <2>1, <2>2
<1>5. CASE left \notin {"refused", "doubt"}
  <2>1. AfterSample(p, left) \in {p, Ended(p, "JOB_DEADLINE"), Ended(p, "CLAIM_LOST"), Ended(p, "EXECUTION_FAILED")}
    BY <1>5 DEF AfterSample, LeftBehind
  <2> QED
    BY <1>1, <2>1
<1> QED
  BY <1>4, <1>5

\* A sample is collected: a job of which all came back may have its aggregate.
LEMMA GatheredEffect ==
    ASSUME RequestTypeOK, RequestInv, NEW c \in Call, Gathered(c)
    PROVE  /\ UNCHANGED <<call, process, fault, jobs, phase, tries, claim, settle, due>>
           /\ at \in {"wait", "collect"} /\ at' = "collect"
           /\ work[c] \in LeftBehind
           /\ \E to \in {"graded", "failed"} :
                 work' = [work EXCEPT ![c] = to] /\ (to = "graded" => work[c] = "ok")
           /\ progress' = [progress EXCEPT ![c[1]] = progress'[c[1]]]
           /\ progress'[c[1]] \in Progress
           /\ progress'[c[1]].attempt = progress[c[1]].attempt
           /\ progress'[c[1]].cursor = progress[c[1]].cursor
           /\ progress'[c[1]].end = "aggregate" =>
                 progress[c[1]].end = "aggregate" \/ (work[c] = "ok" /\ Whole(c[1], c))
<1>0. UNCHANGED <<call, process, fault, phase, tries, claim, settle>>
  BY DEF Gathered, ledgerVars, storeVars
<1>1. c[1] \in Job /\ progress[c[1]] \in Progress /\ progress \in [Job -> Progress]
  BY CallShape DEF RequestTypeOK
<1>2. CASE CollectFailure(c)
  <2>1. /\ at \in {"wait", "collect"} /\ at' = "collect" /\ UNCHANGED <<jobs, due>>
        /\ work[c] \in LeftBehind /\ work' = [work EXCEPT ![c] = "failed"]
        /\ progress' = [progress EXCEPT ![c[1]] = AfterSample(@, work[c])]
    BY <1>2 DEF CollectFailure, GoTo
  <2>2. PICK q : q = AfterSample(progress[c[1]], work[c])
    OBVIOUS
  <2>3. /\ q \in Progress /\ q.attempt = progress[c[1]].attempt /\ q.cursor = progress[c[1]].cursor
        /\ q.end = "aggregate" => progress[c[1]].end = "aggregate"
    BY <1>1, <2>1, <2>2, SampleEnds
  <2>4. progress' = [progress EXCEPT ![c[1]] = q]
    BY <2>1, <2>2
  <2>5. progress'[c[1]] = q
    BY <1>1, <2>4
  <2> QED
    BY <1>0, <2>1, <2>3, <2>4, <2>5
<1>3. CASE Collect(c)
  <2>1. /\ at \in {"wait", "collect"} /\ at' = "collect" /\ UNCHANGED <<jobs, due>>
        /\ work[c] = "ok" /\ work' = [work EXCEPT ![c] = "graded"]
    BY <1>3 DEF Collect, GoTo
  <2>2. PICK q : /\ progress' = [progress EXCEPT ![c[1]] = q]
                 /\ q = progress[c[1]]
                    \/ /\ Whole(c[1], c)
                       /\ q \in {Ended(progress[c[1]], end) :
                                    end \in {"aggregate", "AGGREGATION_FAILED", "JOB_DEADLINE"}}
    <3>1. CASE Going(c[1]) /\ Whole(c[1], c)
      BY <1>3, <3>1 DEF Collect, Aggregated
    <3>2. CASE ~(Going(c[1]) /\ Whole(c[1], c))
      <4>1. progress' = [progress EXCEPT ![c[1]] = progress[c[1]]]
        BY <1>1, <1>3, <3>2 DEF Collect
      <4> QED
        BY <4>1
    <3> QED
      BY <3>1, <3>2
  <2>3. /\ q \in Progress /\ q.attempt = progress[c[1]].attempt /\ q.cursor = progress[c[1]].cursor
        /\ q.end = "aggregate" => progress[c[1]].end = "aggregate" \/ Whole(c[1], c)
    BY <1>1, <2>2, EndedJob DEF Ending
  <2>4. progress'[c[1]] = q
    BY <1>1, <2>2
  <2>5. work[c] \in LeftBehind
    BY <2>1 DEF LeftBehind
  <2> QED
    BY <1>0, <2>1, <2>2, <2>3, <2>4, <2>5
<1> QED
  BY <1>2, <1>3 DEF Gathered

\* Taking in what a thread brought keeps it.
LEMMA GatheredStep ==
    ASSUME RequestTypeOK, RequestInv, NEW c \in Call, Gathered(c)
    PROVE  RequestTypeOK' /\ RequestInv'
<1>1. /\ UNCHANGED <<call, process, fault, jobs, phase, tries, claim, settle, due>>
      /\ at \in {"wait", "collect"} /\ at' = "collect"
      /\ work[c] \in LeftBehind
      /\ progress' = [progress EXCEPT ![c[1]] = progress'[c[1]]]
      /\ progress'[c[1]] \in Progress
      /\ progress'[c[1]].attempt = progress[c[1]].attempt
      /\ progress'[c[1]].cursor = progress[c[1]].cursor
      /\ progress'[c[1]].end = "aggregate" =>
            progress[c[1]].end = "aggregate" \/ (work[c] = "ok" /\ Whole(c[1], c))
  BY GatheredEffect
<1>2. PICK to \in {"graded", "failed"} :
         work' = [work EXCEPT ![c] = to] /\ (to = "graded" => work[c] = "ok")
  BY GatheredEffect
<1>3. /\ c[1] \in jobs /\ c[1] \in Job /\ c[2] = progress[c[1]].attempt
      /\ call[c] # "open" /\ work[c] = "ok" => call[c] = "over"
  BY <1>1, CallShape DEF RequestInv, SessionInv, LeftBehind
<1>4. RequestTypeOK'
  BY <1>1, <1>2 DEF RequestTypeOK, Work, Places
<1>5. \A j \in Job : /\ progress'[j].attempt = progress[j].attempt
                     /\ progress'[j].cursor = progress[j].cursor
                     /\ j # c[1] => progress'[j] = progress[j]
  BY <1>1, <1>3 DEF RequestTypeOK
<1>6. SessionInv'
  <2>1. ASSUME NEW d \in Call
        PROVE  /\ work'[d] # "none" => /\ d[1] \in jobs' /\ d[2] = progress'[d[1]].attempt
                                       /\ d[3] <= progress'[d[1]].cursor
               /\ call'[d] = "open" <=> work'[d] = "calling"
               /\ work'[d] \in {"ok", "graded"} => call'[d] = "over"
    BY <1>1, <1>2, <1>5, CallShape DEF RequestInv, SessionInv, RequestTypeOK, LeftBehind
  <2> QED
    BY <1>1, <2>1 DEF RequestInv, SessionInv, Adrift
<1>7. due = {} /\ claim = Nobody /\ settle = "nothing" /\ \A s \in jobs : phase[s] # "queued"
  BY <1>1, NoneQueued DEF RequestInv, JobsInv, ClaimInv, Reporting
<1>8. JobsInv'
  <2>1. ASSUME NEW k \in jobs'
        PROVE  /\ progress'[k].attempt = tries'[k] /\ tries'[k] \in Attempt
               /\ progress'[k].end = "aggregate" =>
                     \A i \in 1 .. SamplesOf[k] : work'[CallOf(k, i)'] = "graded"
    <3>1. k \in Job /\ progress[k].attempt = tries[k] /\ tries[k] \in Attempt
      BY <1>1 DEF RequestInv, JobsInv, RequestTypeOK
    <3>2. ASSUME progress'[k].end = "aggregate", NEW i \in 1 .. SamplesOf[k]
          PROVE  work'[CallOf(k, i)'] = "graded"
      <4>1. CallOf(k, i)' = CallOf(k, i) /\ CallOf(k, i) \in Call
        BY <1>5, <3>1, CallMade DEF CallOf
      <4>2. CASE progress[k].end = "aggregate"
        <5>1. work[CallOf(k, i)] = "graded" /\ CallOf(k, i) # c
          BY <1>1, <4>2 DEF RequestInv, JobsInv, LeftBehind
        <5> QED
          BY <1>2, <4>1, <5>1 DEF RequestTypeOK
      <4>3. CASE progress[k].end # "aggregate"
        <5>1. k = c[1] /\ work[c] = "ok" /\ Whole(k, c)
          BY <1>1, <1>5, <3>1, <3>2, <4>3
        <5>2. work'[c] = "graded"
          <6>1. to = "graded"
            BY <5>1, GatheredEffect, <1>2 DEF Gathered, Collect, CollectFailure, RequestTypeOK
          <6> QED
            BY <1>2, <6>1 DEF RequestTypeOK
        <5>3. i \in Graded(k) \/ i = c[3]
          BY <5>1 DEF Whole
        <5>4. i = c[3] => CallOf(k, i) = c
          BY <1>3, <5>1, CallShape DEF CallOf
        <5>5. i \in Graded(k) => work[CallOf(k, i)] = "graded"
          BY DEF Graded
        <5> QED
          BY <1>2, <4>1, <5>2, <5>3, <5>4, <5>5 DEF RequestTypeOK
      <4> QED
        BY <4>2, <4>3
    <3> QED
      BY <1>1, <1>5, <3>1, <3>2
  <2> QED
    BY <1>1, <1>7, <2>1 DEF JobsInv
<1>9. ClaimInv' /\ StoreInv'
  BY <1>1, <1>7 DEF RequestInv, ClaimInv, StoreInv, NoOverlap, Open, Adrift, Reporting
<1> QED
  BY <1>4, <1>6, <1>8, <1>9 DEF RequestInv

----------------------------------------------------------------------------
\* What the executor knows and what the store, the queue and the ledger hold
\* agree after every step.
LEMMA RequestStarts == RequestInit => RequestTypeOK /\ RequestInv
<1> SUFFICES ASSUME RequestInit PROVE RequestTypeOK /\ RequestInv
  OBVIOUS
<1>1. NewJob \in Progress
  BY DEF NewJob, Progress, Ending
<1>2. RequestTypeOK
  BY <1>1 DEF RequestInit, LedgerInit, SessionInit, Lifecycle!LifecycleInit, RequestTypeOK, Places, Work,
              Lifecycle!Phase
<1>3. Open = {} /\ Adrift = {} /\ jobs = {} /\ due = {}
  BY DEF RequestInit, LedgerInit, SessionInit, Open, Adrift
<1>4. SessionInv /\ JobsInv /\ ClaimInv
  BY <1>3 DEF RequestInit, LedgerInit, SessionInit, SessionInv, JobsInv, ClaimInv
<1>5. StoreInv
  BY <1>3 DEF RequestInit, Lifecycle!LifecycleInit, StoreInv, NoOverlap
<1> QED
  BY <1>2, <1>4, <1>5 DEF RequestInv

\* Every step keeps the invariant.
LEMMA RequestStep ==
    ASSUME RequestTypeOK, RequestInv, [RequestNext]_requestVars
    PROVE  RequestTypeOK' /\ RequestInv'
<1>1. CASE Coordinator /\ UNCHANGED <<ledgerVars, late, storeVars, executorVars>>
  <2>1. EndDispatch \/ Report \/ Reported \/ Unwind \/ \E j \in Job : Dispatch(j)
    BY <1>1 DEF Coordinator
  <2> QED
    BY <1>1, <2>1, EndDispatchStep, ReportStep, RoundEnds, DispatchStep
<1>2. CASE Loop
  <2>1. CASE \E ready \in BOOLEAN : Survey(stop, ready) /\ UNCHANGED <<ledgerVars, late, storeVars, executorVars>>
    BY <2>1, SurveyStep
  <2>2. CASE \E c \in Call : Gathered(c)
    BY <2>2, GatheredStep
  <2>3. CASE GuardRaises \/ AdmissionRaises
    BY <2>3, RaisesStep
  <2>4. CASE ConcludeAdmission \/ \E s \in Job : DiscardStale(s) \/ PublishResult(s) \/ PublishFailure(s)
    BY <2>4, ConclusionStep
  <2>5. CASE Admit \/ SettleAdmission \/ SettleJob
    BY <2>5, AdmitStep, SettleAdmissionStep, SettleJobStep
  <2>6. CASE \E s \in Job : Receive(s)
    BY <2>6, ReceiveStep
  <2> QED
    BY <1>1, <1>2, <2>1, <2>2, <2>3, <2>4, <2>5, <2>6 DEF Loop
<1>3. CASE \E c \in Call : Pool(c) \/ Service(c)
  BY <1>3, PoolTypes, PoolStep, ServiceStep
<1>4. CASE \/ \E s \in Job : Submit(s) \/ Lapse(s) \/ Redeliver(s)
           \/ ApiSweep \/ RequestStop \/ Sweep
  BY <1>4, OutsideStep
<1>5. CASE Boot \/ Outage
  BY <1>5, BootStep, RaisesStep
<1>6. CASE Quit \/ Crash
  BY <1>6, GoneStep DEF Quit, Crash
<1>7. CASE UNCHANGED requestVars
  <2>1. /\ UNCHANGED <<call, process, fault, at, jobs, progress, work, due, phase, tries, claim, settle>>
    BY <1>7 DEF requestVars, schedulerVars, ledgerVars, sessionVars, storeVars, executorVars
  <2>2. RequestTypeOK' /\ SessionInv'
    BY <2>1 DEF RequestTypeOK, RequestInv, SessionInv, Adrift
  <2>3. JobsInv' /\ ClaimInv'
    BY <2>1 DEF RequestInv, JobsInv, ClaimInv, InFlight, Active, Going, CallOf
  <2>4. StoreInv'
    BY <2>1 DEF RequestInv, StoreInv, NoOverlap, InFlight, Active, Open, Adrift
  <2> QED
    BY <2>2, <2>3, <2>4 DEF RequestInv
<1> QED
  BY <1>2, <1>3, <1>4, <1>5, <1>6, <1>7 DEF RequestNext

\* It holds in every state.
LEMMA RequestsKeepOrder == RequestSpec => [](RequestTypeOK /\ RequestInv)
<1>1. RequestInit => RequestTypeOK /\ RequestInv
  BY RequestStarts
<1>2. RequestTypeOK /\ RequestInv /\ [RequestNext]_requestVars => (RequestTypeOK /\ RequestInv)'
  BY RequestStep
<1> QED
  BY <1>1, <1>2, PTL DEF RequestSpec

\* The variables keep their types.
THEOREM RequestTypes == RequestSpec => []RequestTypeOK
BY RequestsKeepOrder, PTL

\* A submission is queued again only when no thread and no model works on any
\* request of its earlier attempts (request_submission_executor.py, _publish).
THEOREM AttemptsDoNotOverlap == RequestSpec => []NoOverlap
<1>1. RequestInv => NoOverlap
  BY DEF RequestInv, StoreInv
<1> QED
  BY <1>1, RequestsKeepOrder, PTL

----------------------------------------------------------------------------
\* The steps that do not touch the store.
LEMMA StoreUntouched ==
    ASSUME \/ Coordinator /\ UNCHANGED <<ledgerVars, late, storeVars, executorVars>>
           \/ \E c \in Call : Gathered(c) \/ Pool(c) \/ Service(c)
           \/ \E ready \in BOOLEAN :
                 Survey(stop, ready) /\ UNCHANGED <<ledgerVars, late, storeVars, executorVars>>
           \/ GuardRaises \/ AdmissionRaises \/ Outage
           \/ Admit \/ SettleAdmission \/ SettleJob
           \/ \E s \in Job : Lapse(s) \/ Redeliver(s)
           \/ RequestStop \/ Boot \/ Quit \/ Crash \/ UNCHANGED requestVars
    PROVE  UNCHANGED <<phase, tries>>
BY DEF storeVars, Gathered, Pool, Service, GuardRaises, AdmissionRaises, Outage, Raise, Admit, SettleAdmission,
       SettleJob, Lapse, Redeliver, RequestStop, Boot, Quit, Crash, Gone, requestVars

\* A sweep is an expiry of the life cycle.
LEMMA SweptExpires ==
    ASSUME NEW S \in SUBSET Job, Swept(S), UNCHANGED tries
    PROVE  /\ \E E \in SUBSET Job : Lifecycle!Expire(E)
           /\ \A s \in Job : phase'[s] \in {phase[s], "failed"}
<1> DEFINE E == {s \in Job : s \in late \cap S /\ phase[s] \in {"queued", "running"}}
<1>1. Lifecycle!Expire(E)
  BY DEF Swept, Lifecycle!Expire
<1>2. \A s \in Job : phase'[s] \in {phase[s], "failed"}
  BY DEF Swept
<1> QED
  BY <1>1, <1>2

\* Every step of the executor is one of a submission's life, or none; and only
\* a result that is stored makes a submission succeed.
LEMMA LifecycleStep ==
    ASSUME RequestTypeOK, RequestInv, [RequestNext]_requestVars
    PROVE  /\ [Lifecycle!LifecycleNext]_(Lifecycle!lifecycleVars)
           /\ \A s \in Job : phase'[s] = "succeeded" /\ phase[s] # "succeeded" =>
                 PublishResult(s) /\ s \in due /\ progress[s].end = "aggregate"
<1> DEFINE Promised == /\ [Lifecycle!LifecycleNext]_(Lifecycle!lifecycleVars)
                       /\ \A s \in Job : phase'[s] = "succeeded" /\ phase[s] # "succeeded" =>
                             PublishResult(s) /\ s \in due /\ progress[s].end = "aggregate"
<1>1. ASSUME UNCHANGED <<phase, tries>> PROVE Promised
  BY <1>1 DEF Lifecycle!lifecycleVars
<1>2. ASSUME NEW S \in SUBSET Job, Swept(S), UNCHANGED tries PROVE Promised
  <2>1. /\ \E E \in SUBSET Job : Lifecycle!Expire(E)
        /\ \A s \in Job : phase'[s] \in {phase[s], "failed"}
    BY <1>2, SweptExpires
  <2> QED
    BY <2>1 DEF Lifecycle!LifecycleNext
<1>3. ASSUME NEW s \in Job, phase[s] = "running", NEW to \in Final, Conclude(s, to), UNCHANGED tries,
             to = "succeeded" => PublishResult(s) /\ s \in due /\ progress[s].end = "aggregate"
      PROVE  Promised
  <2>1. Lifecycle!Judge(s)
    BY <1>3 DEF Lifecycle!Judge, Lifecycle!Move, Conclude, Final
  <2>2. \A t \in Job : phase'[t] = phase[t] \/ (t = s /\ phase'[t] = to)
    BY <1>3 DEF Conclude, RequestTypeOK
  <2> QED
    BY <1>3, <2>1, <2>2 DEF Lifecycle!LifecycleNext
<1>4. ASSUME NEW s \in Job, Submit(s) PROVE Promised
  <2>1. Lifecycle!Accept(s) /\ Conclude(s, "queued")
    BY <1>4 DEF Submit, Conclude, Lifecycle!Accept, Lifecycle!Move
  <2>2. \A t \in Job : phase'[t] = phase[t] \/ phase'[t] = "queued"
    BY <2>1 DEF Conclude, RequestTypeOK
  <2> QED
    BY <2>1, <2>2 DEF Lifecycle!LifecycleNext
<1>5. ASSUME NEW s \in Job, Receive(s) PROVE Promised
  <2>1. CASE /\ Grantable(s) /\ Conclude(s, "running") /\ tries' = [tries EXCEPT ![s] = @ + 1]
    <3>1. Lifecycle!Start(s)
      BY <2>1 DEF Grantable, Conclude, Lifecycle!Start, Lifecycle!Move
    <3>2. \A t \in Job : phase'[t] = phase[t] \/ phase'[t] = "running"
      BY <2>1 DEF Conclude, RequestTypeOK
    <3> QED
      BY <3>1, <3>2 DEF Lifecycle!LifecycleNext
  <2>2. CASE Grantable(s) /\ Conclude(s, "failed") /\ UNCHANGED tries
    <3>1. phase' = [t \in Job |-> IF t \in {s} THEN "failed" ELSE phase[t]]
      BY <2>2 DEF Conclude, RequestTypeOK
    <3>2. Lifecycle!Expire({s})
      BY <2>2, <3>1 DEF Lifecycle!Expire, Grantable
    <3> QED
      BY <3>1, <3>2 DEF Lifecycle!LifecycleNext
  <2>3. CASE UNCHANGED storeVars
    BY <1>1, <2>3 DEF storeVars
  <2> QED
    BY <1>5, <2>1, <2>2, <2>3 DEF Receive
<1>6. CASE ConcludeAdmission
  <2>1. UNCHANGED tries /\ claim \in Job
    BY <1>6 DEF ConcludeAdmission, Settling, RequestInv, ClaimInv
  <2>2. CASE Swept(Job)
    BY <1>2, <2>1, <2>2
  <2>3. ASSUME Current(claim), NEW to \in {"rejected", "failed"}, Conclude(claim, to) PROVE Promised
    <3>1. phase[claim] = "running" /\ to \in Final /\ to # "succeeded"
      BY <2>3 DEF Current, Final, Lifecycle!Final
    <3> QED
      BY <1>3, <2>1, <2>3, <3>1
  <2> QED
    BY <1>6, <2>2, <2>3 DEF ConcludeAdmission
<1>7. ASSUME NEW s \in Job, DiscardStale(s) \/ PublishResult(s) \/ PublishFailure(s) PROVE Promised
  <2>1. UNCHANGED tries /\ s \in due
    BY <1>7 DEF DiscardStale, PublishResult, PublishFailure, Publishing
  <2>2. CASE DiscardStale(s)
    BY <1>2, <2>1, <2>2 DEF DiscardStale
  <2>3. CASE PublishResult(s)
    <3>1. PICK to \in {"succeeded", "failed"} : Conclude(s, to)
      BY <2>3 DEF PublishResult
    <3>2. phase[s] = "running" /\ to \in Final /\ progress[s].end = "aggregate"
      BY <2>3 DEF PublishResult, Current, Final, Lifecycle!Final
    <3> QED
      BY <1>3, <2>1, <2>3, <3>1, <3>2
  <2>4. CASE PublishFailure(s)
    <3>1. phase[s] = "running"
      BY <2>4 DEF PublishFailure, Current
    <3>2. CASE RetryAllowed(s)
      <4>1. Conclude(s, "queued") /\ tries[s] < MaxAttempts
        BY <2>4, <3>2 DEF PublishFailure, RetryAllowed
      <4>2. Lifecycle!GiveBack(s)
        BY <2>1, <3>1, <4>1 DEF Conclude, Lifecycle!GiveBack, Lifecycle!Move
      <4>3. \A t \in Job : phase'[t] = phase[t] \/ phase'[t] = "queued"
        BY <4>1 DEF Conclude, RequestTypeOK
      <4> QED
        BY <4>2, <4>3 DEF Lifecycle!LifecycleNext
    <3>3. CASE ~RetryAllowed(s)
      <4>1. Conclude(s, "failed") /\ "failed" \in Final
        BY <2>4, <3>3 DEF PublishFailure, Final, Lifecycle!Final
      <4> QED
        BY <1>3, <2>1, <3>1, <4>1
    <3> QED
      BY <3>2, <3>3
  <2> QED
    BY <1>7, <2>2, <2>3, <2>4
<1>8. CASE ApiSweep \/ Sweep
  <2>1. UNCHANGED tries /\ \E S \in SUBSET Job : Swept(S)
    BY <1>8 DEF ApiSweep, Sweep
  <2> QED
    BY <1>2, <2>1
<1>9. CASE \/ Coordinator /\ UNCHANGED <<ledgerVars, late, storeVars, executorVars>>
           \/ \E c \in Call : Gathered(c) \/ Pool(c) \/ Service(c)
           \/ \E ready \in BOOLEAN :
                 Survey(stop, ready) /\ UNCHANGED <<ledgerVars, late, storeVars, executorVars>>
           \/ GuardRaises \/ AdmissionRaises \/ Outage
           \/ Admit \/ SettleAdmission \/ SettleJob
           \/ \E s \in Job : Lapse(s) \/ Redeliver(s)
           \/ RequestStop \/ Boot \/ Quit \/ Crash \/ UNCHANGED requestVars
  BY <1>1, <1>9, StoreUntouched
<1> QED
  BY <1>4, <1>5, <1>6, <1>7, <1>8, <1>9 DEF RequestNext, Loop

\* The executor, with its sessions, its incidents and its crashes, gives every
\* submission the life the store promises.
THEOREM ExecutorKeepsLifecycle == RequestSpec => ExecutorImplementsLifecycle
<1>1. RequestInit => Lifecycle!LifecycleInit
  BY DEF RequestInit
<1>2. RequestTypeOK /\ RequestInv /\ [RequestNext]_requestVars
          => [Lifecycle!LifecycleNext]_(Lifecycle!lifecycleVars)
  BY LifecycleStep
<1> QED
  BY <1>1, <1>2, RequestsKeepOrder, PTL DEF RequestSpec, Lifecycle!LifecycleSpec, ExecutorImplementsLifecycle

\* A result that is stored is of the attempt the store counts, and each of its
\* samples came back from a request that is over (_publish, complete_sample).
THEOREM ResultsAreWhole == RequestSpec => OnlyWholeResults
<1>1. ASSUME RequestTypeOK, RequestInv, [RequestNext]_requestVars
      PROVE  [\A s \in Job : phase'[s] = "succeeded" /\ phase[s] # "succeeded" =>
                \A i \in 1 .. SamplesOf[s] :
                   /\ work[<<s, tries[s], i>>] = "graded"
                   /\ call[<<s, tries[s], i>>] = "over"]_requestVars
  <2> SUFFICES ASSUME NEW s \in Job, phase'[s] = "succeeded", phase[s] # "succeeded",
                      NEW i \in 1 .. SamplesOf[s]
               PROVE  work[<<s, tries[s], i>>] = "graded" /\ call[<<s, tries[s], i>>] = "over"
    OBVIOUS
  <2>1. s \in due /\ progress[s].end = "aggregate"
    BY <1>1, LifecycleStep
  <2>2. s \in jobs /\ progress[s].attempt = tries[s] /\ tries[s] \in Attempt
    BY <1>1, <2>1 DEF RequestInv, JobsInv, RequestTypeOK
  <2>3. work[CallOf(s, i)] = "graded"
    BY <1>1, <2>1, <2>2 DEF RequestInv, JobsInv
  <2>4. CallOf(s, i) = <<s, tries[s], i>> /\ <<s, tries[s], i>> \in Call
    BY <2>2, CallMade DEF CallOf
  <2> QED
    BY <1>1, <2>3, <2>4 DEF RequestInv, SessionInv
<1>2. RequestTypeOK /\ RequestInv /\ [RequestNext]_requestVars =>
         [\A s \in Job : phase'[s] = "succeeded" /\ phase[s] # "succeeded" =>
                \A i \in 1 .. SamplesOf[s] :
                   /\ work[<<s, tries[s], i>>] = "graded"
                   /\ call[<<s, tries[s], i>>] = "over"]_requestVars
  BY <1>1
<1> QED
  BY <1>2, RequestsKeepOrder, PTL DEF RequestSpec, OnlyWholeResults

\* Only a round that finds nothing in flight and nothing to report closes.
LEMMA ClosingStep ==
    ASSUME RequestTypeOK, RequestInv, [RequestNext]_requestVars,
           at \notin {"unwinding", "closed"}, at' = "closed"
    PROVE  jobs' = {} /\ claim' = Nobody /\ Open = {} /\ ~\E c \in Call : work[c] \in InPool
<1>1. (Report \/ Reported) /\ UNCHANGED <<ledgerVars, late, storeVars, executorVars>>
  <2>1. ASSUME NEW c \in Call PROVE ~Pool(c) /\ ~Service(c) /\ ~Gathered(c)
    BY <2>1 DEF Pool, CheckClaim, Thread, Send, Return, Doubt, Leave, Service, sessionVars, Gathered, Collect,
                CollectFailure, GoTo
  <2>2. ASSUME NEW s \in Job
        PROVE  /\ ~Submit(s) /\ ~Lapse(s) /\ ~Redeliver(s) /\ ~Receive(s)
               /\ ~DiscardStale(s) /\ ~PublishResult(s) /\ ~PublishFailure(s) /\ ~Dispatch(s)
    BY <2>2 DEF Submit, Lapse, Redeliver, Receive, DiscardStale, PublishResult, PublishFailure, Dispatch, Guarded,
                Scanning, schedulerVars, sessionVars, GoTo
  <2>3. ~ApiSweep /\ ~RequestStop /\ ~Sweep /\ ~Boot /\ ~Quit /\ ~Crash /\ ~Outage
    BY DEF ApiSweep, RequestStop, Sweep, Boot, Quit, Crash, Gone, EndSession, Outage, Raise, schedulerVars,
           sessionVars, GoTo
  <2>4. ~GuardRaises /\ ~ConcludeAdmission /\ ~Admit /\ ~AdmissionRaises /\ ~SettleAdmission /\ ~SettleJob
    BY DEF GuardRaises, ConcludeAdmission, Admit, AdmissionRaises, SettleAdmission, SettleJob, Raise, Settling,
           schedulerVars, sessionVars, GoTo
  <2>5. ~EndDispatch /\ ~Unwind /\ \A ready \in BOOLEAN : ~Survey(stop, ready)
    BY DEF EndDispatch, Unwind, Survey, GoTo
  <2>6. ~UNCHANGED requestVars
    BY DEF requestVars, schedulerVars, sessionVars
  <2> QED
    BY <2>1, <2>2, <2>3, <2>4, <2>5, <2>6 DEF RequestNext, Loop, Coordinator
<1>2. UNCHANGED <<jobs, work, claim, call>>
  BY <1>1 DEF Report, Reported, executorVars, ledgerVars
<1>3. CASE Report
  <2>1. /\ due' = {j \in jobs : progress'[j].end # "running" /\ InFlight(j) = {}}
        /\ at \in {"wait", "collect"} /\ Active = {} /\ due' = {}
        /\ \A j \in jobs : progress'[j].end # "running"
    BY <1>3, ReportEffect
  <2>2. jobs = {} /\ claim = Nobody
    BY <2>1 DEF InFlight, RequestInv, ClaimInv, Reporting
  <2> QED
    BY <1>2, <2>1, <2>2 DEF RequestInv, SessionInv, Open, Active, InPool
<1>4. CASE Reported
  <2>1. /\ due = {} /\ at = "drain" /\ \A j \in jobs : progress[j].end # "running"
    BY <1>4 DEF Reported, GoTo, After
  <2>2. jobs = {} /\ claim = Nobody /\ Active = {}
    BY <2>1 DEF RequestInv, JobsInv, ClaimInv, Going, Reporting
  <2> QED
    BY <1>2, <2>2 DEF RequestInv, SessionInv, Open, Active, InPool
<1> QED
  BY <1>1, <1>3, <1>4

\* A session that ends by itself, sealed or halted, leaves no job, no claim, no
\* thread and no open request behind (sample_scheduler.py, run).
THEOREM NothingLeftBehind == RequestSpec => CloseLeavesNothing
<1>1. RequestTypeOK /\ RequestInv /\ [RequestNext]_requestVars =>
         [at \notin {"unwinding", "closed"} /\ at' = "closed" =>
            jobs' = {} /\ claim' = Nobody /\ Open = {} /\ ~\E c \in Call : work[c] \in InPool]_requestVars
  BY ClosingStep
<1> QED
  BY <1>1, RequestsKeepOrder, PTL DEF RequestSpec, CloseLeavesNothing
=============================================================================
