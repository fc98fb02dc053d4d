---------------------- MODULE SubmissionPipelineProofs ----------------------
(***************************************************************************)
(* Proofs about SubmissionStore and about SubmissionPipeline, which is     *)
(* built on it, for every number of users, keys, submissions, workers,     *)
(* duplicates, attempts and faults and for every limit and timeout.  The   *)
(* store fences its claims, keeps its limits and implements                *)
(* SubmissionLifecycle; the processes use the store as its module allows,  *)
(* lose no accepted work and never evaluate a submission twice at once.    *)
(* Then SerialExecutor, behind which the deployed worker evaluates: for any *)
(* number of operations and any disk.                                      *)
(***************************************************************************)
EXTENDS SubmissionPipeline, SerialExecutor, TLAPS, FiniteSetTheorems

\* Every step that is not one of these leaves the rows alone.
LEMMA StepCases ==
    ASSUME [Next]_storeVars
    PROVE  \/ \E h \in Handler, u \in User, k \in Key, c \in Contract :
                  BeginCreate(h, u, k, c)
           \/ \E h \in Handler : Create(h)
           \/ \E s \in Submission, c \in Contract : Grant(s, c)
           \/ \E s \in Submission, c \in Contract : ClaimOverdue(s, c)
           \/ \E c \in claims : CompleteSuccess(c)
           \/ \E c \in claims : RetrySubmission(c)
           \/ \E c \in claims : CompleteRejected(c)
           \/ \E c \in claims, code \in WorkerCode : CompleteFailure(c, code)
           \/ \E K \in Scopes : ExpireLeases(K)
           \/ \E K \in Scopes : ExpireQueuedDeadlines(K)
           \/ \E H \in SUBSET Handler : Disconnect(H)
           \/ \E ch \in Challenge : SetAdmissions(ch)
           \/ \E s \in Submission : MarkPublished(s)
           \/ Tick
           \/ UNCHANGED storeVars
BY DEF Next, ClientNext, WorkerNext

----------------------------------------------------------------------------
\* A released row is a row, whatever status and code it is released with.
LEMMA ReleasedType ==
    ASSUME row \in [Submission -> Row], NEW s \in Submission, NEW status \in Status,
           NEW code \in Code
    PROVE  Released(s, status, code) \in Row
BY DEF Released, Row

\* An empty table is typed.
LEMMA TypeInit == Init => TypeOK
<1> USE LimitsAssumption, NullAssumption, ContractAssumption
<1> SUFFICES ASSUME Init PROVE TypeOK
  OBVIOUS
<1>1. EmptyRow \in Row
  BY DEF EmptyRow, Row, Status, Code
<1>2. Rows = {}
  BY DEF Init, Rows, EmptyRow
<1>3. QED
  BY <1>1, <1>2 DEF Init, TypeOK

\* Every transaction keeps the types.
LEMMA TypeStep == TypeOK /\ [Next]_storeVars => TypeOK'
<1> USE LimitsAssumption, NullAssumption, ContractAssumption
<1> SUFFICES ASSUME TypeOK, [Next]_storeVars PROVE TypeOK'
  OBVIOUS
<1>a. WorkerCode \subseteq Code /\ "JOB_DEADLINE" \in Code /\ "WORKER_CRASH" \in Code
      /\ "TOKEN_LIMIT_EXCEEDED" \in Code /\ "" \in Code
  BY DEF Code
<1>b. Final \subseteq Status /\ "queued" \in Status /\ "running" \in Status
  BY DEF Status, Outstanding
<1>c. \A c \in claims : c.sub \in Submission /\ row[c.sub] \in Row
  BY DEF TypeOK, Claim
<1>d. \A s \in Submission : row[s].failure \in Code /\ row[s].attempt \in Nat
                            /\ minted[s] \in Nat
  BY DEF TypeOK, Row
<1>1. ASSUME NEW h \in Handler, NEW u \in User, NEW k \in Key, NEW c \in Contract,
             BeginCreate(h, u, k, c)
      PROVE  TypeOK'
  <2>1. [user |-> u, key |-> k, contract |-> c, at |-> now] \in Request
    BY DEF TypeOK, Request
  <2>2. QED
    BY <1>1, <2>1 DEF TypeOK, Rows, BeginCreate, tables, history
<1>2. ASSUME NEW h \in Handler, Create(h)
      PROVE  TypeOK'
  <2>1. CASE UNCHANGED <<request, row>>
    BY <1>2, <2>1 DEF TypeOK, Rows, Create, history
  <2>2. ASSUME NEW s \in Submission \ Rows, Insert(s, calls[h])
        PROVE  TypeOK'
    <3>1. calls[h] \in Request
      BY <1>2 DEF Create, TypeOK
    <3>2. row' \in [Submission -> Row]
      BY <1>b, <2>2 DEF Insert, TypeOK, Row
    <3>3. request' \in [Submission -> Request \cup {NoRequest}]
      BY <2>2, <3>1 DEF Insert, TypeOK
    <3>4. \A t \in Rows' : request'[t] \in Request
      BY <2>2, <3>1, <3>2, <3>3 DEF Insert, Rows, TypeOK
    <3>5. QED
      BY <1>2, <3>2, <3>3, <3>4 DEF TypeOK, Create, history
  <2>3. QED
    BY <1>2, <2>1, <2>2 DEF Create
<1>3. ASSUME NEW s \in Submission, NEW c \in Contract, Grant(s, c)
      PROVE  TypeOK'
  <2>1. request[s] \in Request
    BY <1>3 DEF Grant, Claimable, TypeOK
  <2>2. DeadlineOf(s) \in Nat /\ now + Lease \in Nat
    BY <2>1 DEF DeadlineOf, Request, TypeOK
  <2> DEFINE until == IF now + Lease < DeadlineOf(s) THEN now + Lease ELSE DeadlineOf(s)
             granted == [status |-> "running", attempt |-> row[s].attempt + 1,
                         token |-> minted[s] + 1, leaseExpires |-> until,
                         failure |-> row[s].failure]
             claim == [sub |-> s, attempt |-> row[s].attempt + 1, token |-> minted[s] + 1]
  <2>3. until \in Nat
    BY <2>2
  <2>4. minted[s] + 1 \in Nat /\ row[s].attempt + 1 \in Nat
    BY <1>d
  <2>5. granted \in Row /\ claim \in Claim
    BY <1>b, <1>d, <2>3, <2>4 DEF Row, Claim
  <2>6. /\ row' = [row EXCEPT ![s] = granted]
        /\ minted' = [minted EXCEPT ![s] = minted[s] + 1]
        /\ claims' = claims \cup {claim}
        /\ UNCHANGED <<now, closed, calls, request, published, results>>
    BY <1>3 DEF Grant
  <2>7. s \in Rows
    BY <1>3 DEF Grant, Claimable
  <2> HIDE DEF granted, claim
  <2>8. \A t \in Rows' : request'[t] \in Request
    BY <2>6, <2>7 DEF Rows, TypeOK
  <2>9. QED
    BY <2>4, <2>5, <2>6, <2>8 DEF TypeOK
<1>4. ASSUME NEW s \in Rows, NEW status \in Final \cup {"queued"}, NEW code \in Code,
             End(s, status, code), results' \in [Submission -> Nat],
             UNCHANGED <<now, closed, calls, request, published, history>>
      PROVE  TypeOK'
  <2>1. Released(s, status, code) \in Row
    BY <1>b, ReleasedType DEF TypeOK, Rows
  <2>2. row' \in [Submission -> Row]
    BY <1>4, <2>1 DEF End, TypeOK
  <2>3. \A t \in Rows' : request'[t] \in Request
    BY <1>4 DEF End, TypeOK, Rows
  <2>4. QED
    BY <1>4, <2>2, <2>3 DEF TypeOK, history
<1>5. ASSUME NEW c \in claims, Matches(c)
      PROVE  c.sub \in Rows
  BY <1>c, <1>5 DEF Matches, Rows
<1>6. ASSUME NEW s \in Submission, NEW c \in Contract, ClaimOverdue(s, c)
      PROVE  TypeOK'
  <2>1. s \in Rows /\ End(s, "failed", "JOB_DEADLINE")
    BY <1>6 DEF ClaimOverdue, Claimable
  <2>2. QED
    BY <1>6, <1>4, <1>a, <2>1 DEF ClaimOverdue, Final, TypeOK
<1>7. ASSUME NEW c \in claims, CompleteSuccess(c)
      PROVE  TypeOK'
  <2>1. c.sub \in Rows
    BY <1>5, <1>7 DEF CompleteSuccess, Current
  <2>2. c.token \in Nat
    BY DEF TypeOK, Claim
  <2>3. results' \in [Submission -> Nat]
    BY <1>7, <2>2 DEF CompleteSuccess, TypeOK
  <2>4. QED
    BY <1>4, <1>7, <1>a, <2>1, <2>3 DEF CompleteSuccess, Final
<1>8. ASSUME NEW c \in claims, RetrySubmission(c)
      PROVE  TypeOK'
  <2>1. c.sub \in Rows
    BY <1>5, <1>8 DEF RetrySubmission, Current
  <2>2. End(c.sub, "queued", row[c.sub].failure)
    BY <1>8 DEF RetrySubmission, End
  <2>3. QED
    BY <1>4, <1>8, <1>c, <1>d, <2>1, <2>2 DEF RetrySubmission, TypeOK
<1>9. ASSUME NEW c \in claims, CompleteRejected(c)
      PROVE  TypeOK'
  <2>1. c.sub \in Rows
    BY <1>5, <1>9 DEF CompleteRejected, Concludes
  <2>2. \/ End(c.sub, "failed", "JOB_DEADLINE")
        \/ End(c.sub, "rejected", "TOKEN_LIMIT_EXCEEDED")
    BY <1>9 DEF CompleteRejected
  <2>3. QED
    BY <1>4, <1>9, <1>a, <2>1, <2>2 DEF CompleteRejected, Final, TypeOK
<1>10. ASSUME NEW c \in claims, NEW code \in WorkerCode, CompleteFailure(c, code)
       PROVE  TypeOK'
  <2>1. c.sub \in Rows
    BY <1>5, <1>10 DEF CompleteFailure, Concludes
  <2>2. \E d \in Code : End(c.sub, "failed", d)
    BY <1>10, <1>a DEF CompleteFailure
  <2>3. QED
    BY <1>4, <1>10, <2>1, <2>2 DEF CompleteFailure, Final, TypeOK
<1>11. ASSUME NEW S \in SUBSET Rows, NEW code \in [S -> Code], EndAll(S, code),
              UNCHANGED <<now, closed, calls, request, published, results, history>>
       PROVE  TypeOK'
  <2>1. \A s \in S : Released(s, "failed", code[s]) \in Row
    BY <1>b, ReleasedType DEF TypeOK, Rows, Final
  <2>2. row' \in [Submission -> Row]
    BY <1>11, <2>1 DEF EndAll, TypeOK
  <2>3. \A t \in Rows' : request'[t] \in Request
    BY <1>11 DEF EndAll, TypeOK, Rows
  <2>4. QED
    BY <1>11, <2>2, <2>3 DEF TypeOK, history
<1>12. ASSUME NEW K \in Scopes, ExpireLeases(K)
       PROVE  TypeOK'
  <2>1. LapsedRuns(K) \in SUBSET Rows
    BY DEF LapsedRuns
  <2>2. [s \in LapsedRuns(K) |-> IF Overdue(s) THEN "JOB_DEADLINE" ELSE "WORKER_CRASH"]
           \in [LapsedRuns(K) -> Code]
    BY <1>a
  <2>3. QED
    BY <1>11, <1>12, <2>1, <2>2 DEF ExpireLeases
<1>13. ASSUME NEW K \in Scopes, ExpireQueuedDeadlines(K)
       PROVE  TypeOK'
  <2>1. OverdueQueued(K) \in SUBSET Rows
    BY DEF OverdueQueued
  <2>2. [s \in OverdueQueued(K) |-> "JOB_DEADLINE"] \in [OverdueQueued(K) -> Code]
    BY <1>a
  <2>3. QED
    BY <1>11, <1>13, <2>1, <2>2 DEF ExpireQueuedDeadlines
<1>14. ASSUME NEW ch \in Challenge, SetAdmissions(ch)
       PROVE  TypeOK'
  BY <1>14 DEF SetAdmissions, tables, history, TypeOK, Rows
<1>14a. ASSUME NEW H \in SUBSET Handler, Disconnect(H)
        PROVE  TypeOK'
  BY <1>14a DEF Disconnect, tables, history, TypeOK, Rows
<1>15. ASSUME NEW s \in Submission, MarkPublished(s)
       PROVE  TypeOK'
  BY <1>15 DEF MarkPublished, history, TypeOK, Rows
<1>16. CASE Tick
  BY <1>16 DEF Tick, tables, history, TypeOK, Rows
<1>17. CASE UNCHANGED storeVars
  BY <1>17 DEF storeVars, tables, history, TypeOK, Rows
<1>18. QED
  BY StepCases, <1>1, <1>2, <1>3, <1>6, <1>7, <1>8, <1>9, <1>10, <1>12, <1>13,
     <1>14, <1>14a, <1>15, <1>16, <1>17

\* The type invariant: created rows hold the request they were created with,
\* and no operation leaves the columns' types.
THEOREM TypeCorrect == Spec => []TypeOK
  BY TypeInit, TypeStep, PTL DEF Spec

----------------------------------------------------------------------------
\* What a step can do to the rows, the results and the tokens, whoever takes
\* it: nothing; a new row; a claim; one row that leaves the queue or a worker;
\* a sweep of unfinished rows whose lease or deadline passed.
Idles == UNCHANGED <<request, row, results, claims, minted>>

Inserts(s, call) ==
    /\ row[s].status = "absent"
    /\ call \in Request
    /\ Admits(call)
    /\ Insert(s, call)
    /\ UNCHANGED <<results, claims, minted>>

Closes(s, status, code) ==
    /\ row[s].status \in Outstanding
    /\ status \in Final \cup {"queued"}
    /\ status = "queued" => row[s].status = "running" /\ row[s].attempt < MaxAttempts
    /\ Overdue(s) => status = "failed" /\ code = "JOB_DEADLINE"
    /\ End(s, status, code)
    /\ results' = IF status = "succeeded" THEN [results EXCEPT ![s] = row[s].token]
                                          ELSE results
    /\ status \in {"succeeded", "rejected"} => row[s].status = "running"
    /\ UNCHANGED <<request, claims, minted>>

Sweeps(S, code) ==
    /\ \A s \in S : row[s].status \in Outstanding
    /\ \A s \in S : Overdue(s) => code[s] = "JOB_DEADLINE"
    /\ EndAll(S, code)
    /\ UNCHANGED <<request, results, claims, minted>>

\* Every transaction leaves the rows, inserts one, grants one, or ends or gives back some.
LEMMA RowSteps ==
    ASSUME TypeOK, [Next]_storeVars
    PROVE  \/ Idles
           \/ \E s \in Submission, call \in Request : Inserts(s, call)
           \/ \E s \in Submission, c \in Contract : Grant(s, c)
           \/ \E s \in Submission, status \in Final \cup {"queued"}, code \in Code :
                  Closes(s, status, code)
           \/ \E S \in SUBSET Submission : \E code \in [S -> Code] : Sweeps(S, code)
<1>a. WorkerCode \subseteq Code /\ "JOB_DEADLINE" \in Code /\ "WORKER_CRASH" \in Code
      /\ "TOKEN_LIMIT_EXCEEDED" \in Code /\ "" \in Code
  BY DEF Code
<1>b. \A c \in claims : c.sub \in Submission
  BY DEF TypeOK, Claim
<1>c. \A s \in Submission : row[s].failure \in Code
  BY DEF TypeOK, Row
<1>1. ASSUME NEW h \in Handler, Create(h)
      PROVE  Idles \/ \E s \in Submission, call \in Request : Inserts(s, call)
  <2>1. calls[h] \in Request
    BY <1>1 DEF Create, TypeOK
  <2>2. CASE ~Admits(calls[h])
    BY <1>1, <2>2 DEF Create, Idles, history
  <2>3. CASE Admits(calls[h])
    <3>1. PICK s \in Submission \ Rows : Insert(s, calls[h])
      BY <1>1, <2>3 DEF Create
    <3>2. Inserts(s, calls[h])
      BY <1>1, <2>1, <2>3, <3>1 DEF Create, Inserts, Rows, history
    <3>3. QED
      BY <2>1, <3>2
  <2>4. QED
    BY <2>2, <2>3
<1>2. ASSUME NEW s \in Submission, NEW c \in Contract, ClaimOverdue(s, c)
      PROVE  Closes(s, "failed", "JOB_DEADLINE")
  BY <1>2 DEF ClaimOverdue, Claimable, Closes, Outstanding, Final, history
<1>3. ASSUME NEW c \in claims, CompleteSuccess(c)
      PROVE  Closes(c.sub, "succeeded", "")
  BY <1>3 DEF CompleteSuccess, Current, Matches, Closes, Outstanding, Final, history
<1>4. ASSUME NEW c \in claims, RetrySubmission(c)
      PROVE  Closes(c.sub, "queued", row[c.sub].failure)
  BY <1>4 DEF RetrySubmission, Current, Matches, Closes, End, Outstanding, Final, history
<1>5. ASSUME NEW c \in claims, CompleteRejected(c)
      PROVE  \/ Closes(c.sub, "failed", "JOB_DEADLINE")
             \/ Closes(c.sub, "rejected", "TOKEN_LIMIT_EXCEEDED")
  BY <1>5 DEF CompleteRejected, Concludes, Matches, Closes, Outstanding, Final, history
<1>6. ASSUME NEW c \in claims, NEW code \in WorkerCode, CompleteFailure(c, code)
      PROVE  Closes(c.sub, "failed", "JOB_DEADLINE") \/ Closes(c.sub, "failed", code)
  BY <1>6 DEF CompleteFailure, Concludes, Matches, Closes, Outstanding, Final, history
<1>7. ASSUME NEW K \in Scopes, ExpireLeases(K)
      PROVE  \E S \in SUBSET Submission : \E code \in [S -> Code] : Sweeps(S, code)
  <2> DEFINE S == LapsedRuns(K)
             code == [s \in S |-> IF Overdue(s) THEN "JOB_DEADLINE" ELSE "WORKER_CRASH"]
  <2>1. S \in SUBSET Submission /\ \A s \in S : row[s].status \in Outstanding
    BY DEF LapsedRuns, Rows, Outstanding
  <2>2. code \in [S -> Code] /\ \A s \in S : Overdue(s) => code[s] = "JOB_DEADLINE"
    BY <1>a
  <2>3. Sweeps(S, code)
    BY <1>7, <2>1, <2>2 DEF ExpireLeases, Sweeps, history
  <2>4. QED
    BY <2>1, <2>2, <2>3
<1>8. ASSUME NEW K \in Scopes, ExpireQueuedDeadlines(K)
      PROVE  \E S \in SUBSET Submission : \E code \in [S -> Code] : Sweeps(S, code)
  <2> DEFINE S == OverdueQueued(K)
             code == [s \in S |-> "JOB_DEADLINE"]
  <2>1. S \in SUBSET Submission /\ \A s \in S : row[s].status \in Outstanding
    BY DEF OverdueQueued, Rows, Outstanding
  <2>2. code \in [S -> Code] /\ \A s \in S : Overdue(s) => code[s] = "JOB_DEADLINE"
    BY <1>a
  <2>3. Sweeps(S, code)
    BY <1>8, <2>1, <2>2 DEF ExpireQueuedDeadlines, Sweeps, history
  <2>4. QED
    BY <2>1, <2>2, <2>3
<1>9. ASSUME \/ \E h \in Handler, u \in User, k \in Key, c \in Contract :
                    BeginCreate(h, u, k, c)
             \/ \E H \in SUBSET Handler : Disconnect(H)
             \/ \E ch \in Challenge : SetAdmissions(ch)
             \/ \E s \in Submission : MarkPublished(s)
             \/ Tick
             \/ UNCHANGED storeVars
      PROVE  Idles
  BY <1>9 DEF BeginCreate, Disconnect, SetAdmissions, MarkPublished, Tick, storeVars, tables, history,
              Idles
<1>10. QED
  BY StepCases, <1>1, <1>2, <1>3, <1>4, <1>5, <1>6, <1>7, <1>8, <1>9, <1>a, <1>b, <1>c
     DEF Final

----------------------------------------------------------------------------
\* An empty table satisfies the fencing invariant.
LEMMA FencingInit == Init => FencingInv
<1> USE LimitsAssumption
<1> SUFFICES ASSUME Init PROVE FencingInv
  OBVIOUS
<1>1. \A s \in Submission : /\ row[s].status = "absent" /\ row[s].attempt = 0
                            /\ minted[s] = 0 /\ results[s] = 0
  BY DEF Init, EmptyRow
<1>2. claims = {} /\ 0 <= MaxAttempts
  BY DEF Init
<1>3. QED
  BY <1>1, <1>2 DEF FencingInv

\* Every transaction keeps it.
LEMMA FencingStep == TypeOK /\ TypeOK' /\ FencingInv /\ [Next]_storeVars => FencingInv'
<1> USE LimitsAssumption
<1> SUFFICES ASSUME TypeOK, TypeOK', FencingInv, [Next]_storeVars PROVE FencingInv'
  OBVIOUS
<1>a. \A s \in Submission : row[s] \in Row /\ row'[s] \in Row /\ minted[s] \in Nat
  BY DEF TypeOK
<1>1. CASE Idles
  BY <1>1 DEF Idles, FencingInv, DeadlineOf
<1>2. ASSUME NEW s \in Submission, NEW call \in Request, Inserts(s, call)
      PROVE  FencingInv'
  <2>1. \A t \in Submission \ {s} : row'[t] = row[t] /\ request'[t] = request[t]
    BY <1>2 DEF Inserts, Insert, TypeOK
  <2>2. row'[s].status = "queued" /\ row'[s].attempt = row[s].attempt
    BY <1>2, <1>a DEF Inserts, Insert, TypeOK, Row
  <2>3. UNCHANGED <<results, claims, minted>>
    BY <1>2 DEF Inserts
  <2>4. minted[s] = 0 /\ row[s].attempt = 0 /\ results[s] = 0
    BY <1>2 DEF Inserts, FencingInv
  <2>5. QED
    BY <2>1, <2>2, <2>3, <2>4 DEF FencingInv, DeadlineOf
<1>3. ASSUME NEW s \in Submission, NEW c \in Contract, Grant(s, c)
      PROVE  FencingInv'
  <2>1. request[s] \in Request /\ DeadlineOf(s) \in Nat /\ now + Lease \in Nat
    BY <1>3 DEF Grant, Claimable, TypeOK, DeadlineOf, Request
  <2>2. row[s].status = "queued" /\ row[s].attempt < MaxAttempts
    BY <1>3 DEF Grant, Claimable
  <2>3. /\ row'[s].status = "running"
        /\ row'[s].attempt = row[s].attempt + 1
        /\ row'[s].token = minted[s] + 1
        /\ row'[s].leaseExpires <= DeadlineOf(s)
    BY <1>3, <2>1 DEF Grant, TypeOK
  <2>4. \A t \in Submission \ {s} : row'[t] = row[t]
    BY <1>3 DEF Grant, TypeOK
  <2>5. /\ minted'[s] = minted[s] + 1
        /\ \A t \in Submission \ {s} : minted'[t] = minted[t]
        /\ UNCHANGED <<request, results>>
    BY <1>3 DEF Grant, TypeOK
  <2>6. \A t \in Submission : /\ minted'[t] \in Nat
                              /\ minted[t] <= minted'[t]
    BY <1>a, <2>5
  <2>7. \A d \in claims' : d.token \in 1 .. minted'[d.sub]
    <3>1. \A d \in claims : d.sub \in Submission /\ d.token \in Nat
      BY DEF TypeOK, Claim
    <3>2. \A d \in claims : d.token \in 1 .. minted'[d.sub]
      BY <1>a, <2>6, <3>1 DEF FencingInv
    <3>3. claims' = claims \cup {[sub |-> s, attempt |-> row[s].attempt + 1,
                                  token |-> minted[s] + 1]}
      BY <1>3 DEF Grant
    <3>4. QED
      BY <1>a, <2>5, <3>2, <3>3
  <2>8. row[s].attempt = minted[s] /\ results[s] = 0
    BY <2>2 DEF FencingInv
  <2>9. QED
    BY <1>a, <2>2, <2>3, <2>4, <2>5, <2>7, <2>8 DEF FencingInv, DeadlineOf
<1>4. ASSUME NEW s \in Submission, NEW status \in Final \cup {"queued"}, NEW code \in Code,
             Closes(s, status, code)
      PROVE  FencingInv'
  <2>1. /\ row'[s].status = status
        /\ row'[s].attempt = row[s].attempt
        /\ \A t \in Submission \ {s} : row'[t] = row[t]
        /\ UNCHANGED <<request, claims, minted>>
    BY <1>4 DEF Closes, End, Released, TypeOK
  <2>2. status = "queued" => row[s].attempt < MaxAttempts
    BY <1>4 DEF Closes
  <2>3. results[s] = 0 /\ status # "running" /\ status # "absent"
    BY <1>4 DEF Closes, FencingInv, Outstanding, Final
  <2>4. status # "succeeded" => results' = results
    BY <1>4 DEF Closes
  <2>5. status = "succeeded" =>
           /\ results'[s] = minted[s] /\ minted[s] # 0
           /\ \A t \in Submission \ {s} : results'[t] = results[t]
    BY <1>4 DEF Closes, FencingInv, TypeOK
  <2>6. QED
    BY <2>1, <2>2, <2>3, <2>4, <2>5 DEF FencingInv, DeadlineOf
<1>5. ASSUME NEW S \in SUBSET Submission, NEW code \in [S -> Code], Sweeps(S, code)
      PROVE  FencingInv'
  <2>1. /\ \A s \in S : row'[s].status = "failed" /\ row'[s].attempt = row[s].attempt
        /\ \A s \in Submission \ S : row'[s] = row[s]
        /\ UNCHANGED <<request, results, claims, minted>>
    BY <1>5 DEF Sweeps, EndAll, Released
  <2>2. \A s \in S : row[s].status # "succeeded"
    BY <1>5 DEF Sweeps, Outstanding
  <2>3. QED
    BY <2>1, <2>2 DEF FencingInv, DeadlineOf
<1>6. QED
  BY RowSteps, <1>1, <1>2, <1>3, <1>4, <1>5

\* The inductive invariant: the tokens issued count the attempts, at most
\* MaxAttempts of them and fewer while the submission waits; only a running row
\* has a token and it is the newest; a result was written under the newest one.
THEOREM Fencing == Spec => []FencingInv
  BY FencingInit, FencingStep, TypeCorrect, PTL DEF Spec

\* No submission is evaluated more often than MaxAttempts allows, and none
\* waits in the queue without an attempt left.
THEOREM AttemptBound == Spec => []AttemptsBounded
<1>1. FencingInv => AttemptsBounded
  BY DEF FencingInv, AttemptsBounded
<1>2. QED
  BY <1>1, Fencing, PTL

\* A claim that was superseded, swept or used up never matches its row again.
THEOREM StaleClaims == Spec => []StaleClaimsInert
<1>1. TypeOK /\ FencingInv => StaleClaimsInert
  BY DEF FencingInv, StaleClaimsInert, Matches, TypeOK, Claim
<1>2. QED
  BY <1>1, TypeCorrect, Fencing, PTL

\* A result is stored for exactly the succeeded submissions, and under the
\* last token that was issued.
THEOREM ResultOwnership == Spec => []ResultMatchesLastClaim
<1>1. FencingInv => ResultMatchesLastClaim
  BY DEF FencingInv, ResultMatchesLastClaim
<1>2. QED
  BY <1>1, Fencing, PTL

\* A running submission past its deadline is one that expire_leases ends.
THEOREM SweepReach == Spec => []OverdueRunsAreSwept
<1>1. TypeOK /\ FencingInv => OverdueRunsAreSwept
  <2> SUFFICES ASSUME TypeOK, FencingInv, NEW s \in Rows, row[s].status = "running",
                      Overdue(s)
               PROVE  s \in LapsedRuns(Contract)
    BY DEF OverdueRunsAreSwept
  <2>1. s \in Submission /\ request[s] \in Request /\ row[s] \in Row /\ now \in Nat
    BY DEF TypeOK, Rows
  <2>2. request[s].contract \in Contract /\ DeadlineOf(s) \in Nat
        /\ row[s].leaseExpires \in Nat
    BY <2>1, LimitsAssumption DEF Request, Row, DeadlineOf
  <2>3. row[s].leaseExpires <= DeadlineOf(s) /\ DeadlineOf(s) <= now
    BY <2>1 DEF FencingInv, Overdue
  <2>4. LeaseLapsed(s)
    BY <2>1, <2>2, <2>3 DEF LeaseLapsed
  <2>5. QED
    BY <2>2, <2>4 DEF LapsedRuns
<1>2. QED
  BY <1>1, TypeCorrect, Fencing, PTL

----------------------------------------------------------------------------
\* No step of anyone changes a finished submission or its result.
THEOREM FinalRows == Spec => TerminalIsFinal
<1>1. TypeOK /\ [Next]_storeVars =>
        [\A s \in Submission :
            row[s].status \in Final => row'[s] = row[s] /\ results'[s] = results[s]]_storeVars
  <2> SUFFICES ASSUME TypeOK, [Next]_storeVars, NEW s \in Submission,
                      row[s].status \in Final
               PROVE  row'[s] = row[s] /\ results'[s] = results[s]
    OBVIOUS
  <2>0. row[s].status \notin Outstanding /\ row[s].status # "absent"
    BY DEF Final, Outstanding
  <2>1. CASE Idles
    BY <2>1 DEF Idles
  <2>2. ASSUME NEW t \in Submission, NEW call \in Request, Inserts(t, call)
        PROVE  row'[s] = row[s] /\ results'[s] = results[s]
    BY <2>0, <2>2 DEF Inserts, Insert, TypeOK
  <2>3. ASSUME NEW t \in Submission, NEW c \in Contract, Grant(t, c)
        PROVE  row'[s] = row[s] /\ results'[s] = results[s]
    BY <2>0, <2>3 DEF Grant, Claimable, Outstanding, TypeOK
  <2>4. ASSUME NEW t \in Submission, NEW status \in Final \cup {"queued"}, NEW code \in Code,
               Closes(t, status, code)
        PROVE  row'[s] = row[s] /\ results'[s] = results[s]
    BY <2>0, <2>4 DEF Closes, End, TypeOK
  <2>5. ASSUME NEW S \in SUBSET Submission, NEW code \in [S -> Code], Sweeps(S, code)
        PROVE  row'[s] = row[s] /\ results'[s] = results[s]
    BY <2>0, <2>5 DEF Sweeps, EndAll
  <2>6. QED
    BY RowSteps, <2>1, <2>2, <2>3, <2>4, <2>5
<1>2. QED
  BY <1>1, TypeCorrect, PTL DEF Spec, TerminalIsFinal

\* Once its deadline passed a submission can only end as JOB_DEADLINE, whoever
\* ends it.
THEOREM DeadlineOutcome == Spec => LateMeansDeadline
<1>1. TypeOK /\ [Next]_storeVars =>
        [\A s \in Submission :
            row[s].status \in Outstanding /\ row'[s].status \in Final /\ Overdue(s)
               => row'[s].status = "failed" /\ row'[s].failure = "JOB_DEADLINE"]_storeVars
  <2> SUFFICES ASSUME TypeOK, [Next]_storeVars, NEW s \in Submission,
                      row[s].status \in Outstanding, row'[s].status \in Final, Overdue(s)
               PROVE  row'[s].status = "failed" /\ row'[s].failure = "JOB_DEADLINE"
    OBVIOUS
  <2>0. row'[s] # row[s] /\ row[s].status # "absent"
    BY DEF Final, Outstanding
  <2>1. ~Idles
    BY <2>0 DEF Idles
  <2>2. ASSUME NEW t \in Submission, NEW call \in Request, Inserts(t, call)
        PROVE  FALSE
    BY <2>0, <2>2 DEF Inserts, Insert, TypeOK
  <2>3. ASSUME NEW t \in Submission, NEW c \in Contract, Grant(t, c)
        PROVE  FALSE
    BY <2>0, <2>3 DEF Grant, Final, TypeOK
  <2>4. ASSUME NEW t \in Submission, NEW status \in Final \cup {"queued"}, NEW code \in Code,
               Closes(t, status, code)
        PROVE  row'[s].status = "failed" /\ row'[s].failure = "JOB_DEADLINE"
    BY <2>0, <2>4 DEF Closes, End, Released, TypeOK
  <2>5. ASSUME NEW S \in SUBSET Submission, NEW code \in [S -> Code], Sweeps(S, code)
        PROVE  row'[s].status = "failed" /\ row'[s].failure = "JOB_DEADLINE"
    BY <2>0, <2>5 DEF Sweeps, EndAll, Released
  <2>6. QED
    BY RowSteps, <2>1, <2>2, <2>3, <2>4, <2>5
<1>2. QED
  BY <1>1, TypeCorrect, PTL DEF Spec, LateMeansDeadline

----------------------------------------------------------------------------
\* Every step of the store is a step of SubmissionLifecycle or none at all.
THEOREM StoreImplementsLifecycle == Spec => LifecycleImplemented
<1> DEFINE phase == [s \in Submission |-> row[s].status]
<1>1. Init => Lifecycle!LifecycleInit
  <2> SUFFICES ASSUME Init PROVE Lifecycle!LifecycleInit
    OBVIOUS
  <2>1. \A s \in Submission : row[s].status = "absent"
    BY DEF Init, EmptyRow
  <2>2. minted = [s \in Submission |-> 0]
    BY DEF Init
  <2>3. QED
    BY <2>1, <2>2 DEF Lifecycle!LifecycleInit
<1>2. TypeOK /\ FencingInv /\ [Next]_storeVars
         => [Lifecycle!LifecycleNext]_(Lifecycle!lifecycleVars)
  <2> SUFFICES ASSUME TypeOK, FencingInv, [Next]_storeVars
               PROVE  [Lifecycle!LifecycleNext]_(Lifecycle!lifecycleVars)
    OBVIOUS
  <2>1. CASE Idles
    BY <2>1 DEF Idles, Lifecycle!lifecycleVars
  <2>2. ASSUME NEW s \in Submission, NEW call \in Request, Inserts(s, call)
        PROVE  Lifecycle!Accept(s)
    <3>1. phase[s] = "absent"
      BY <2>2 DEF Inserts
    <3>2. phase' = [phase EXCEPT ![s] = "queued"]
      BY <2>2 DEF Inserts, Insert, TypeOK, Row
    <3>3. QED
      BY <2>2, <3>1, <3>2 DEF Inserts, Lifecycle!Accept, Lifecycle!Move
  <2>3. ASSUME NEW s \in Submission, NEW c \in Contract, Grant(s, c)
        PROVE  Lifecycle!Start(s)
    <3>1. phase[s] = "queued" /\ minted[s] < MaxAttempts
      BY <2>3 DEF Grant, Claimable, FencingInv
    <3>2. phase' = [phase EXCEPT ![s] = "running"]
      BY <2>3 DEF Grant, TypeOK
    <3>3. minted' = [minted EXCEPT ![s] = @ + 1]
      BY <2>3 DEF Grant
    <3>4. QED
      BY <3>1, <3>2, <3>3 DEF Lifecycle!Start, Lifecycle!Move
  <2>4. ASSUME NEW s \in Submission, NEW status \in Final \cup {"queued"}, NEW code \in Code,
               Closes(s, status, code)
        PROVE  \/ Lifecycle!GiveBack(s)
               \/ Lifecycle!Judge(s)
               \/ Lifecycle!Expire({s})
    <3>1. phase' = [phase EXCEPT ![s] = status] /\ minted' = minted
      BY <2>4 DEF Closes, End, Released, TypeOK
    <3>2. CASE status = "queued"
      <4>1. phase[s] = "running" /\ minted[s] < MaxAttempts
        BY <2>4, <3>2 DEF Closes, FencingInv
      <4>2. QED
        BY <3>1, <3>2, <4>1 DEF Lifecycle!GiveBack, Lifecycle!Move
    <3>3. CASE status # "queued" /\ row[s].status = "running"
      <4>1. phase[s] = "running"
        BY <3>3
      <4>2. QED
        BY <3>1, <3>3, <4>1 DEF Lifecycle!Judge, Lifecycle!Move, Final, Lifecycle!Final
    <3>4. CASE status # "queued" /\ row[s].status # "running"
      <4>1. phase[s] = "queued"
        BY <2>4, <3>4 DEF Closes, Outstanding
      <4>2. CASE status = "failed"
        BY <3>1, <4>1, <4>2 DEF Lifecycle!Expire
      <4>3. CASE status = "rejected"
        BY <2>4, <3>4, <4>3 DEF Closes
      <4>4. status # "succeeded"
        BY <2>4, <3>4 DEF Closes
      <4>5. QED
        BY <3>4, <4>2, <4>3, <4>4 DEF Final
    <3>5. QED
      BY <3>2, <3>3, <3>4
  <2>5. ASSUME NEW S \in SUBSET Submission, NEW code \in [S -> Code], Sweeps(S, code)
        PROVE  Lifecycle!Expire(S)
    BY <2>5 DEF Sweeps, EndAll, Released, Outstanding, Lifecycle!Expire
  <2>6. QED
    BY RowSteps, <2>1, <2>2, <2>3, <2>4, <2>5 DEF Lifecycle!LifecycleNext
<1>3. QED
  BY <1>1, <1>2, TypeCorrect, Fencing, PTL DEF Spec, LifecycleImplemented,
     Lifecycle!LifecycleSpec

----------------------------------------------------------------------------
\* The limits hold for every value of the limits: what create_submission and
\* claim_submission count under the database lock bounds what the tables hold at
\* every later moment.

\* A set of submissions that gains at most one member grows by at most one.
LEMMA GainsOne ==
    ASSUME NEW A \in SUBSET Submission, NEW B \in SUBSET Submission, NEW s,
           B \subseteq A \cup {s}, NEW limit \in Nat, Cardinality(A) < limit
    PROVE  Cardinality(B) <= limit
<1>1. IsFiniteSet(A) /\ IsFiniteSet(B)
  BY SubmissionAssumption, FS_Subset
<1>2. Cardinality(A) \in Nat /\ Cardinality(B) \in Nat
  BY <1>1, FS_CardinalityType
<1>3. /\ IsFiniteSet(A \cup {s})
      /\ Cardinality(A \cup {s}) = Cardinality(A) \/ Cardinality(A \cup {s}) = Cardinality(A) + 1
  BY <1>1, FS_AddElement
<1>4. Cardinality(B) <= Cardinality(A \cup {s})
  BY <1>3, FS_Subset
<1>5. QED
  BY <1>2, <1>3, <1>4

\* A set of submissions that gains none does not grow.
LEMMA GainsNone ==
    ASSUME NEW A \in SUBSET Submission, NEW B \in SUBSET A
    PROVE  /\ Cardinality(A) \in Nat /\ Cardinality(B) \in Nat
           /\ Cardinality(B) <= Cardinality(A)
BY SubmissionAssumption, FS_Subset, FS_CardinalityType

----------------------------------------------------------------------------
\* A user never has more than RunningLimit submissions under evaluation.
THEOREM RunningLimitHolds == Spec => []RunningBounded
<1> USE LimitsAssumption
<1>0. \A u : RunningOf(u) \in SUBSET Submission
  BY DEF RunningOf, Rows
<1>1. Init => RunningBounded
  <2> SUFFICES ASSUME Init, NEW u \in User PROVE Cardinality(RunningOf(u)) <= RunningLimit
    BY DEF RunningBounded
  <2>1. RunningOf(u) = {}
    BY DEF Init, RunningOf, EmptyRow, Rows
  <2>2. QED
    BY <2>1, FS_EmptySet
<1>2. TypeOK /\ RunningBounded /\ [Next]_storeVars => RunningBounded'
  <2> SUFFICES ASSUME TypeOK, RunningBounded, [Next]_storeVars, NEW u \in User
               PROVE  Cardinality(RunningOf(u)') <= RunningLimit
    BY DEF RunningBounded
  <2>1. Cardinality(RunningOf(u)) <= RunningLimit
    BY DEF RunningBounded
  <2>2. RunningOf(u)' \in SUBSET Submission
    BY DEF RunningOf, Rows
  <2>3. SUFFICES ASSUME ~(RunningOf(u)' \subseteq RunningOf(u))
                 PROVE  Cardinality(RunningOf(u)') <= RunningLimit
    BY <1>0, <2>1, <2>2, GainsNone
  <2>4. CASE Idles
    BY <2>3, <2>4 DEF Idles, RunningOf, Rows
  <2>5. ASSUME NEW s \in Submission, NEW call \in Request, Inserts(s, call)
        PROVE  FALSE
    BY <2>3, <2>5 DEF Inserts, Insert, RunningOf, Rows, TypeOK, Row
  <2>6. ASSUME NEW s \in Submission, NEW c \in Contract, Grant(s, c)
        PROVE  Cardinality(RunningOf(u)') <= RunningLimit
    <3>1. RunningOf(u)' \subseteq RunningOf(u) \cup {s}
      BY <2>6 DEF Grant, RunningOf, Rows, TypeOK
    <3>2. request[s].user = u
      BY <2>3, <2>6, <3>1 DEF Grant, RunningOf, Rows, TypeOK
    <3>3. ~(Cardinality(RunningOf(u)) >= RunningLimit)
      BY <2>6, <3>2 DEF Grant, UserBusy
    <3>4. Cardinality(RunningOf(u)) \in Nat
      BY <1>0, GainsNone
    <3>5. QED
      BY <1>0, <2>2, <3>1, <3>3, <3>4, GainsOne
  <2>7. ASSUME NEW s \in Submission, NEW status \in Final \cup {"queued"}, NEW code \in Code,
               Closes(s, status, code)
        PROVE  FALSE
    BY <2>3, <2>7 DEF Closes, End, Released, RunningOf, Rows, TypeOK, Final
  <2>8. ASSUME NEW S \in SUBSET Submission, NEW code \in [S -> Code], Sweeps(S, code)
        PROVE  FALSE
    BY <2>3, <2>8 DEF Sweeps, EndAll, Released, RunningOf, Rows
  <2>9. QED
    BY RowSteps, <2>4, <2>5, <2>6, <2>7, <2>8
<1>3. QED
  BY <1>1, <1>2, TypeCorrect, PTL DEF Spec

----------------------------------------------------------------------------
\* Neither a user's submissions in progress nor the whole backlog exceed their
\* limits: only an admitted creation adds to them.
THEOREM BacklogLimitHolds == Spec => []BacklogBounded
<1> USE LimitsAssumption
<1>0. Backlog \in SUBSET Submission /\ \A u : OutstandingOf(u) \in SUBSET Submission
  BY DEF Backlog, OutstandingOf, Rows
<1>1. Init => BacklogBounded
  <2> SUFFICES ASSUME Init PROVE BacklogBounded
    OBVIOUS
  <2>1. Backlog = {} /\ \A u : OutstandingOf(u) = {}
    BY DEF Init, Backlog, OutstandingOf, EmptyRow, Rows
  <2>2. QED
    BY <2>1, FS_EmptySet DEF BacklogBounded
<1>2. TypeOK /\ BacklogBounded /\ [Next]_storeVars => BacklogBounded'
  <2> SUFFICES ASSUME TypeOK, BacklogBounded, [Next]_storeVars
               PROVE  BacklogBounded'
    OBVIOUS
  <2>0. Backlog' \in SUBSET Submission /\ \A u \in User : OutstandingOf(u)' \in SUBSET Submission
    BY DEF Backlog, OutstandingOf, Rows
  <2>1. ASSUME Backlog' \subseteq Backlog,
               \A u \in User : OutstandingOf(u)' \subseteq OutstandingOf(u)
        PROVE  BacklogBounded'
    <3>1. Cardinality(Backlog') <= QueueDepth
      BY <1>0, <2>1, GainsNone DEF BacklogBounded
    <3>2. ASSUME NEW u \in User
          PROVE  Cardinality(OutstandingOf(u)') <= OutstandingLimit
      BY <1>0, <2>1, GainsNone DEF BacklogBounded
    <3>3. QED
      BY <3>1, <3>2 DEF BacklogBounded
  <2>2. CASE Idles
    BY <2>1, <2>2 DEF Idles, Backlog, OutstandingOf, Rows
  <2>3. ASSUME NEW s \in Submission, NEW call \in Request, Inserts(s, call)
        PROVE  BacklogBounded'
    <3>1. /\ row' = [row EXCEPT ![s].status = "queued"]
          /\ request' = [request EXCEPT ![s] = call]
      BY <2>3 DEF Inserts, Insert
    <3>2. Backlog' \subseteq Backlog \cup {s}
      BY <3>1 DEF Backlog, Rows, TypeOK
    <3>3. Cardinality(Backlog) < QueueDepth
          /\ Cardinality(OutstandingOf(call.user)) < OutstandingLimit
      BY <2>3 DEF Inserts, Admits
    <3>4. Cardinality(Backlog') <= QueueDepth
      BY <1>0, <2>0, <3>2, <3>3, GainsOne
    <3>5. ASSUME NEW u \in User
          PROVE  Cardinality(OutstandingOf(u)') <= OutstandingLimit
      <4>1. OutstandingOf(u)' \subseteq OutstandingOf(u) \cup {s}
        BY <3>1 DEF OutstandingOf, Rows, TypeOK
      <4>2. CASE u = call.user
        BY <1>0, <2>0, <3>3, <4>1, <4>2, GainsOne
      <4>3. CASE u # call.user
        <5>1. s \notin OutstandingOf(u)'
          BY <3>1, <4>3 DEF OutstandingOf, TypeOK
        <5>2. OutstandingOf(u)' \subseteq OutstandingOf(u)
          BY <4>1, <5>1
        <5>3. Cardinality(OutstandingOf(u)) <= OutstandingLimit
          BY DEF BacklogBounded
        <5>4. QED
          BY <1>0, <5>2, <5>3, GainsNone
      <4>4. QED
        BY <4>2, <4>3
    <3>6. QED
      BY <3>4, <3>5 DEF BacklogBounded
  <2>4. ASSUME NEW s \in Submission, NEW c \in Contract, Grant(s, c)
        PROVE  BacklogBounded'
    <3>1. row[s].status \in Outstanding /\ request' = request
      BY <2>4 DEF Grant, Claimable, Outstanding
    <3>2. \A t \in Submission : row'[t].status # row[t].status => t = s
      BY <2>4 DEF Grant, TypeOK
    <3>3. s \in Rows
      BY <2>4 DEF Grant, Claimable
    <3>4. QED
      BY <2>1, <3>1, <3>2, <3>3 DEF Backlog, OutstandingOf, Rows
  <2>5. ASSUME NEW s \in Submission, NEW status \in Final \cup {"queued"}, NEW code \in Code,
               Closes(s, status, code)
        PROVE  BacklogBounded'
    <3>1. row[s].status \in Outstanding /\ request' = request
      BY <2>5 DEF Closes
    <3>2. \A t \in Submission \ {s} : row'[t] = row[t]
      BY <2>5 DEF Closes, End, TypeOK
    <3>3. QED
      BY <2>1, <3>1, <3>2 DEF Backlog, OutstandingOf, Rows, Outstanding
  <2>6. ASSUME NEW S \in SUBSET Submission, NEW code \in [S -> Code], Sweeps(S, code)
        PROVE  BacklogBounded'
    <3>1. \A s \in S : row[s].status \in Outstanding
      BY <2>6 DEF Sweeps
    <3>2. request' = request /\ \A t \in Submission \ S : row'[t] = row[t]
      BY <2>6 DEF Sweeps, EndAll
    <3>3. QED
      BY <2>1, <3>1, <3>2 DEF Backlog, OutstandingOf, Rows, Outstanding
  <2>7. QED
    BY RowSteps, <2>2, <2>3, <2>4, <2>5, <2>6
<1>3. QED
  BY <1>1, <1>2, TypeCorrect, PTL DEF Spec

----------------------------------------------------------------------------
\* No step removes or rewrites the immutable columns of a row, and the only new
\* row is an admitted one.
LEMMA NewRows ==
    ASSUME TypeOK, [Next]_storeVars
    PROVE  \/ Rows' = Rows /\ request' = request
           \/ \E s \in Submission \ Rows, call \in Request :
                 /\ Admits(call)
                 /\ Rows' = Rows \cup {s}
                 /\ request' = [request EXCEPT ![s] = call]
<1>1. CASE Idles
  BY <1>1 DEF Idles, Rows
<1>2. ASSUME NEW s \in Submission, NEW call \in Request, Inserts(s, call)
      PROVE  /\ s \in Submission \ Rows /\ Admits(call) /\ Rows' = Rows \cup {s}
             /\ request' = [request EXCEPT ![s] = call]
  BY <1>2 DEF Inserts, Insert, Rows, TypeOK, Row
<1>3. ASSUME NEW s \in Submission, NEW c \in Contract, Grant(s, c)
      PROVE  Rows' = Rows /\ request' = request
  BY <1>3 DEF Grant, Claimable, Rows, TypeOK
<1>4. ASSUME NEW s \in Submission, NEW status \in Final \cup {"queued"}, NEW code \in Code,
             Closes(s, status, code)
      PROVE  Rows' = Rows /\ request' = request
  BY <1>4 DEF Closes, End, Released, Rows, Outstanding, Final, TypeOK
<1>5. ASSUME NEW S \in SUBSET Submission, NEW code \in [S -> Code], Sweeps(S, code)
      PROVE  Rows' = Rows /\ request' = request
  BY <1>5 DEF Sweeps, EndAll, Released, Rows, Outstanding
<1>6. QED
  BY RowSteps, <1>1, <1>2, <1>3, <1>4, <1>5

\* The tables are empty at first.
LEMMA NoRows == Init => Rows = {}
<1> SUFFICES ASSUME Init PROVE Rows = {}
  OBVIOUS
<1>1. \A s \in Submission : row[s].status = "absent"
  BY DEF Init, EmptyRow
<1>2. QED
  BY <1>1 DEF Rows

\* One row per user and idempotency key.
THEOREM KeyUniqueness == Spec => []OneRowPerKey
<1>1. Init => OneRowPerKey
  BY NoRows DEF OneRowPerKey
<1>2. TypeOK /\ OneRowPerKey /\ [Next]_storeVars => OneRowPerKey'
  <2> SUFFICES ASSUME TypeOK, OneRowPerKey, [Next]_storeVars PROVE OneRowPerKey'
    OBVIOUS
  <2>1. CASE Rows' = Rows /\ request' = request
    BY <2>1 DEF OneRowPerKey
  <2>2. ASSUME NEW s \in Submission \ Rows, NEW call \in Request, Admits(call),
               Rows' = Rows \cup {s}, request' = [request EXCEPT ![s] = call]
        PROVE  OneRowPerKey'
    <3>1. request'[s] = call /\ \A t \in Rows : request'[t] = request[t]
      BY <2>2 DEF TypeOK, Rows
    <3>2. \A t \in Rows : ~(request[t].user = call.user /\ request[t].key = call.key)
      BY <2>2 DEF Admits, SameKey
    <3>3. QED
      BY <2>2, <3>1, <3>2 DEF OneRowPerKey
  <2>3. QED
    BY NewRows, <2>1, <2>2
<1>3. QED
  BY <1>1, <1>2, TypeCorrect, PTL DEF Spec

\* The rows of one user and challenge whose created_at lies in the window that
\* the row s opens.
InWindow(s) ==
    {t \in Rows : /\ request[t].user = request[s].user
                  /\ ChallengeOf[request[t].contract] = ChallengeOf[request[s].contract]
                  /\ request[t].at \in request[s].at .. request[s].at + Window}

\* At most DailyLimit submissions per user and challenge in any window, in
\* whatever order the created_at of concurrent calls are committed.
THEOREM RollingQuotaHolds == Spec => []RollingQuota
<1> USE LimitsAssumption
<1>0. RollingQuota <=> \A s \in Rows : Cardinality(InWindow(s)) <= DailyLimit
  BY DEF RollingQuota, InWindow
<1>1. Init => RollingQuota
  BY NoRows DEF RollingQuota
<1>2. TypeOK /\ RollingQuota /\ [Next]_storeVars => RollingQuota'
  <2> SUFFICES ASSUME TypeOK, RollingQuota, [Next]_storeVars, NEW s \in Rows'
               PROVE  Cardinality(InWindow(s)') <= DailyLimit
    BY DEF RollingQuota, InWindow
  <2>1. CASE Rows' = Rows /\ request' = request
    BY <1>0, <2>1 DEF InWindow
  <2>2. ASSUME NEW n \in Submission \ Rows, NEW call \in Request, Admits(call),
               Rows' = Rows \cup {n}, request' = [request EXCEPT ![n] = call]
        PROVE  Cardinality(InWindow(s)') <= DailyLimit
    <3>1. request'[n] = call /\ \A t \in Rows : request'[t] = request[t]
      BY <2>2 DEF TypeOK, Rows
    <3>2. \A t \in Rows : request[t] \in Request
      BY DEF TypeOK
    <3>3. call.at \in Nat /\ \A t \in Rows : request[t].at \in Nat
      BY <3>2 DEF Request
    <3> DEFINE A == AcceptedSince(call.user, ChallengeOf[call.contract], call.at)
    <3>4. A \in SUBSET Submission /\ Cardinality(A) < DailyLimit
      BY <2>2 DEF Admits, AcceptedSince, Rows
    <3>5. InWindow(s)' \in SUBSET Submission
      BY DEF InWindow, Rows
    <3>6. CASE n \in InWindow(s)'
      <4>1. InWindow(s)' \subseteq A \cup {n}
        <5> SUFFICES ASSUME NEW t \in InWindow(s)', t # n PROVE t \in A
          OBVIOUS
        <5>1. t \in Rows /\ request'[t] = request[t]
          BY <2>2, <3>1 DEF InWindow
        <5>2. /\ request[t].user = call.user
              /\ ChallengeOf[request[t].contract] = ChallengeOf[call.contract]
          BY <3>1, <3>6, <5>1 DEF InWindow
        <5>3. request'[s].at \in Nat
          BY <2>2, <3>1, <3>3
        <5>4. request[t].at >= request'[s].at /\ call.at <= request'[s].at + Window
          BY <3>1, <3>3, <3>6, <5>1, <5>3 DEF InWindow
        <5>5. request[t].at + Window >= call.at
          BY <3>3, <5>1, <5>3, <5>4
        <5>6. QED
          BY <5>1, <5>2, <5>5 DEF AcceptedSince
      <4>2. QED
        BY <3>4, <3>5, <4>1, GainsOne
    <3>7. CASE n \notin InWindow(s)'
      <4>1. s # n
        <5> SUFFICES ASSUME s = n PROVE FALSE
          OBVIOUS
        <5>1. call.at \in call.at .. call.at + Window
          BY <3>3
        <5>2. QED
          BY <2>2, <3>1, <3>7, <5>1 DEF InWindow
      <4>2. InWindow(s)' \subseteq InWindow(s)
        BY <2>2, <3>1, <3>7, <4>1 DEF InWindow
      <4>3. Cardinality(InWindow(s)) <= DailyLimit /\ InWindow(s) \in SUBSET Submission
        BY <1>0, <2>2, <4>1 DEF InWindow, Rows
      <4>4. QED
        BY <4>2, <4>3, GainsNone
    <3>8. QED
      BY <3>6, <3>7
  <2>3. QED
    BY NewRows, <2>1, <2>2
<1>3. QED
  BY <1>1, <1>2, TypeCorrect, PTL DEF Spec
----------------------------------------------------------------------------
\* The pipeline

\* Every step of the pipeline, by the process that takes it.
LEMMA PipelineCases ==
    ASSUME [PipelineNext]_pipelineVars
    PROVE  \/ \E h \in Handler, u \in User, k \in Key : Arrive(h, u, k)
           \/ \E h \in Handler : Respond(h)
           \/ ApiSweep
           \/ Boot \/ ReadPublished \/ ReadUnpublished \/ Mark \/ Dispatched
           \/ \E s \in Submission : Republish(s)
           \/ \E s \in Submission : Publish(s)
           \/ QueueDown \/ CrashApi
           \/ \E w \in Worker : WorkerSweep(w)
           \/ \E w \in Worker, m \in Q!Message : Receive(w, m)
           \/ \E w \in Worker : Attempt(w)
           \/ \E w \in Worker : Succeed(w)
           \/ \E w \in Worker : Reject(w)
           \/ \E w \in Worker : GiveBack(w)
           \/ \E w \in Worker : Fail(w)
           \/ \E w \in Worker : SweepAfter(w)
           \/ \E w \in Worker : Settle(w)
           \/ \E w \in Worker : CrashWorker(w)
           \/ \E w \in Worker : Restart(w)
           \/ Clock
           \/ UNCHANGED pipelineVars
BY DEF PipelineNext, Dispatcher, Evaluate

----------------------------------------------------------------------------
(***************************************************************************)
(* The pipeline's steps are steps of the store.                            *)
(***************************************************************************)

\* Every contract, and the one served, is a scope of the sweeps.
LEMMA ScopesCovered == {Served} \in Scopes /\ Contract \in Scopes
BY PipelineAssumption DEF Scopes

\* A worker at work knows its submission, one that evaluates its claim.
LEMMA WorkerKnows ==
    ASSUME PipelineInv, NEW w \in Worker, pc[w] \notin {"idle", "down"}
    PROVE  /\ msg[w] \in Submission
           /\ msg[w] \in ServedRows
           /\ Busy(w) => job[w] \in claims /\ job[w] \in Claim /\ job[w].sub = msg[w]
BY DEF PipelineInv, WorkerOK, ServedRows, Rows, TypeOK

\* Every step of the composition is a step of the store or none.
LEMMA StoreSteps == PipelineInv /\ [PipelineNext]_pipelineVars => [Next]_storeVars
<1> SUFFICES ASSUME PipelineInv, [PipelineNext]_pipelineVars PROVE [Next]_storeVars
  OBVIOUS
<1> USE ScopesCovered, PipelineAssumption
<1>1. ASSUME NEW h \in Handler, NEW u \in User, NEW k \in Key, Arrive(h, u, k)
      PROVE  [Next]_storeVars
  BY <1>1 DEF Arrive, Next, ClientNext
<1>2. ASSUME NEW h \in Handler, Respond(h)
      PROVE  [Next]_storeVars
  BY <1>2 DEF Respond, Next, ClientNext
<1>3. CASE ApiSweep \/ Boot
  BY <1>3 DEF ApiSweep, Boot, SweepQueued, Next, WorkerNext
<1>4. CASE Mark
  <2>1. CASE UNCHANGED storeVars
    BY <2>1
  <2>2. CASE MarkPublished(sent)
    BY <2>2 DEF MarkPublished, Rows, Next
  <2>3. QED
    BY <1>4, <2>1, <2>2 DEF Mark
<1>5. CASE CrashApi
  BY <1>5 DEF CrashApi, Next, ClientNext
<1>6. ASSUME NEW w \in Worker, WorkerSweep(w)
      PROVE  [Next]_storeVars
  BY <1>6 DEF WorkerSweep, Next, WorkerNext
<1>7. ASSUME NEW w \in Worker, Attempt(w)
      PROVE  [Next]_storeVars
  <2>1. msg[w] \in Submission
    BY <1>7, WorkerKnows DEF Attempt
  <2>2. QED
    BY <1>7, <2>1 DEF Attempt, Next, WorkerNext
<1>8. ASSUME NEW w \in Worker, Succeed(w) \/ Reject(w) \/ GiveBack(w) \/ Fail(w)
      PROVE  [Next]_storeVars
  <2>1. job[w] \in claims
    BY <1>8, WorkerKnows DEF Succeed, Reject, GiveBack, Fail, Busy
  <2>2. QED
    BY <1>8, <2>1 DEF Succeed, Reject, GiveBack, Fail, Next, WorkerNext
<1>9. ASSUME NEW w \in Worker, SweepAfter(w)
      PROVE  [Next]_storeVars
  BY <1>9 DEF SweepAfter, SweepLeases, Next, WorkerNext
<1>10. CASE Clock
  BY <1>10 DEF Clock, Next
<1>11. ASSUME \/ ReadPublished \/ ReadUnpublished \/ Dispatched \/ QueueDown
              \/ \E s \in Submission : Republish(s) \/ Publish(s)
              \/ \E w \in Worker : Settle(w) \/ CrashWorker(w) \/ Restart(w)
              \/ \E w \in Worker, m \in Q!Message : Receive(w, m)
              \/ UNCHANGED pipelineVars
       PROVE  [Next]_storeVars
  BY <1>11 DEF ReadPublished, ReadUnpublished, Dispatched, QueueDown, Republish, Publish, Settle,
     CrashWorker, Restart, Receive, pipelineVars
<1>12. QED
  BY PipelineCases, <1>1, <1>2, <1>3, <1>4, <1>5, <1>6, <1>7, <1>8, <1>9, <1>10, <1>11

----------------------------------------------------------------------------
(***************************************************************************)
(* What a step of the store does to one submission.                        *)
(***************************************************************************)

\* Rows stay and keep their request; final ones are not touched; only a new row
\* becomes unfinished; a running one stays as it is, ends or waits again; time
\* and the record of claims only grow.
LEMMA RowPersists ==
    ASSUME TypeOK, TypeOK', [Next]_storeVars, NEW s \in Submission
    PROVE  /\ s \in Rows => s \in Rows' /\ request'[s] = request[s]
           /\ row[s].status \in Final => row'[s] = row[s]
           /\ s \in Rows /\ row'[s].status \in Outstanding => row[s].status \in Outstanding
           /\ row[s].status = "running" => row'[s] = row[s] \/ row'[s].status \in Final \cup {"queued"}
           /\ claims \subseteq claims'
           /\ now <= now'
<1>1. now <= now'
  <2>1. now' = now \/ now' = now + 1
    BY StepCases DEF BeginCreate, Create, Grant, ClaimOverdue, CompleteSuccess, RetrySubmission,
       CompleteRejected, CompleteFailure, ExpireLeases, ExpireQueuedDeadlines, Disconnect,
       SetAdmissions, MarkPublished, Tick, storeVars
  <2>2. now \in Nat
    BY DEF TypeOK
  <2>3. QED
    BY <2>1, <2>2
<1>2. CASE Idles
  BY <1>1, <1>2 DEF Idles, Rows
<1>3. ASSUME NEW t \in Submission, NEW call \in Request, Inserts(t, call)
      PROVE  /\ t \notin Rows /\ row[t].status = "absent"
             /\ row'[t].status = "queued"
             /\ \A x \in Submission \ {t} : row'[x] = row[x] /\ request'[x] = request[x]
             /\ claims \subseteq claims'
  BY <1>3 DEF Inserts, Insert, TypeOK, Row, Rows
<1>4. ASSUME NEW t \in Submission, NEW c \in Contract, Grant(t, c)
      PROVE  /\ row[t].status = "queued" /\ row'[t].status = "running"
             /\ \A x \in Submission \ {t} : row'[x] = row[x]
             /\ request' = request /\ claims \subseteq claims'
  BY <1>4 DEF Grant, Claimable, TypeOK
<1>5. ASSUME NEW t \in Submission, NEW status \in Final \cup {"queued"}, NEW code \in Code,
             Closes(t, status, code)
      PROVE  /\ row[t].status \in Outstanding /\ row'[t].status = status
             /\ \A x \in Submission \ {t} : row'[x] = row[x]
             /\ request' = request /\ claims \subseteq claims'
  BY <1>5 DEF Closes, End, Released, TypeOK
<1>6. ASSUME NEW S \in SUBSET Submission, NEW code \in [S -> Code], Sweeps(S, code)
      PROVE  /\ \A x \in S : row[x].status \in Outstanding /\ row'[x].status = "failed"
             /\ \A x \in Submission \ S : row'[x] = row[x]
             /\ request' = request /\ claims \subseteq claims'
  BY <1>6 DEF Sweeps, EndAll, Released
<1>7. CASE \E t \in Submission, call \in Request : Inserts(t, call)
  BY <1>1, <1>3, <1>7 DEF Rows, Outstanding, Final
<1>8. CASE \E t \in Submission, c \in Contract : Grant(t, c)
  BY <1>1, <1>4, <1>8 DEF Rows, Outstanding, Final
<1>9. CASE \E t \in Submission, status \in Final \cup {"queued"}, code \in Code :
               Closes(t, status, code)
  BY <1>1, <1>5, <1>9 DEF Rows, Outstanding, Final
<1>10. CASE \E S \in SUBSET Submission : \E code \in [S -> Code] : Sweeps(S, code)
  BY <1>1, <1>6, <1>10 DEF Rows, Outstanding, Final
<1>11. QED
  BY RowSteps, <1>2, <1>7, <1>8, <1>9, <1>10

\* Only a retry puts a running submission back into the queue.
Requeued(s) == row[s].status = "running" /\ row'[s].status = "queued"

\* A sweep leaves a row or fails it.
LEMMA SweepsEnd ==
    ASSUME TypeOK, NEW K, ExpireLeases(K) \/ ExpireQueuedDeadlines(K), NEW s \in Submission
    PROVE  row'[s] = row[s] \/ row'[s].status = "failed"
BY DEF ExpireLeases, ExpireQueuedDeadlines, EndAll, Released

\* An outcome ends one row only.
LEMMA OutcomesEnd ==
    ASSUME TypeOK, NEW c \in claims,
           \/ CompleteSuccess(c) \/ CompleteRejected(c)
           \/ \E code \in WorkerCode : CompleteFailure(c, code)
    PROVE  /\ row'[c.sub].status \in Final
           /\ \A s \in Submission \ {c.sub} : row'[s] = row[s]
<1>1. c.sub \in Submission
  BY DEF TypeOK, Claim
<1>2. ASSUME NEW s \in Submission, NEW status \in Final, NEW code, End(s, status, code)
      PROVE  /\ row'[s].status = status
             /\ \A t \in Submission \ {s} : row'[t] = row[t]
  BY <1>2 DEF End, Released, TypeOK
<1>3. QED
  BY <1>1, <1>2 DEF CompleteSuccess, CompleteRejected, CompleteFailure, Final

\* A creation touches only a row that was not there.
LEMMA CreatesNew ==
    ASSUME TypeOK, NEW h \in Handler, Create(h), NEW s \in Submission
    PROVE  row'[s] = row[s] \/ row[s].status = "absent"
BY DEF Create, Insert, Rows, TypeOK

\* A claim touches only queued rows.
LEMMA ClaimsTake ==
    ASSUME TypeOK, NEW s \in Submission,
           Grant(s, Served) \/ ClaimOverdue(s, Served), NEW t \in Submission
    PROVE  row'[t] = row[t] \/ row[t].status = "queued"
BY DEF Grant, ClaimOverdue, Claimable, End, TypeOK

\* In the pipeline the retry is GiveBack's, of the submission just evaluated.
LEMMA OnlyGiveBackRequeues ==
    ASSUME PipelineInv, [PipelineNext]_pipelineVars, NEW s \in Submission, Requeued(s)
    PROVE  \E w \in Worker : GiveBack(w) /\ Busy(w) /\ msg[w] = s
<1> USE DEF Requeued
<1>a. TypeOK
  BY DEF PipelineInv
<1>1. row'[s] # row[s] /\ row'[s].status # "failed" /\ row'[s].status \notin Final
      /\ row[s].status # "absent" /\ row[s].status # "queued"
  BY DEF Final
<1>2. ASSUME \/ \E h \in Handler, u \in User, k \in Key : Arrive(h, u, k)
             \/ ReadPublished \/ ReadUnpublished \/ Mark \/ Dispatched \/ QueueDown \/ CrashApi
             \/ \E x \in Submission : Republish(x) \/ Publish(x)
             \/ \E w \in Worker : Settle(w) \/ CrashWorker(w) \/ Restart(w)
             \/ \E w \in Worker, m \in Q!Message : Receive(w, m)
             \/ Clock \/ UNCHANGED pipelineVars
      PROVE  row' = row
  BY <1>2 DEF Arrive, BeginCreate, ReadPublished, ReadUnpublished, Mark, MarkPublished, Dispatched,
     QueueDown, CrashApi, Disconnect, Republish, Publish, Settle, CrashWorker, Restart, Receive,
     Clock, Tick, pipelineVars, storeVars, tables
<1>3. ASSUME NEW h \in Handler, Respond(h)
      PROVE  FALSE
  BY <1>a, <1>1, <1>3, CreatesNew DEF Respond
<1>4. ASSUME \/ ApiSweep \/ Boot
             \/ \E w \in Worker : WorkerSweep(w) \/ SweepAfter(w)
      PROVE  FALSE
  <2>1. CASE UNCHANGED storeVars
    BY <1>1, <2>1 DEF storeVars, tables
  <2>2. CASE \E K \in {{Served}, Contract} : ExpireLeases(K) \/ ExpireQueuedDeadlines(K)
    BY <1>a, <1>1, <2>2, SweepsEnd
  <2>3. QED
    BY <1>4, <2>1, <2>2 DEF ApiSweep, Boot, SweepQueued, WorkerSweep, SweepAfter, SweepLeases
<1>5. ASSUME NEW w \in Worker, Attempt(w)
      PROVE  FALSE
  <2>1. msg[w] \in Submission
    BY <1>5, WorkerKnows DEF Attempt
  <2>2. CASE UNCHANGED storeVars
    BY <1>1, <2>2 DEF storeVars, tables
  <2>3. CASE Grant(msg[w], Served) \/ ClaimOverdue(msg[w], Served)
    BY <1>a, <1>1, <2>1, <2>3, ClaimsTake
  <2>4. QED
    BY <1>5, <2>2, <2>3 DEF Attempt
<1>6. ASSUME NEW w \in Worker, Succeed(w) \/ Reject(w) \/ Fail(w)
      PROVE  FALSE
  <2>1. job[w] \in claims
    BY <1>6, WorkerKnows DEF Succeed, Reject, Fail, Busy
  <2>2. CASE UNCHANGED storeVars
    BY <1>1, <2>2 DEF storeVars, tables
  <2>3. CASE \/ CompleteSuccess(job[w]) \/ CompleteRejected(job[w])
             \/ \E code \in WorkerCode : CompleteFailure(job[w], code)
    BY <1>a, <1>1, <2>1, <2>3, OutcomesEnd
  <2>4. QED
    BY <1>6, <2>2, <2>3 DEF Succeed, Reject, Fail
<1>7. ASSUME NEW w \in Worker, GiveBack(w)
      PROVE  Busy(w) /\ msg[w] = s
  <2>1. Busy(w)
    BY <1>7 DEF GiveBack, Busy
  <2>2. job[w].sub = msg[w] /\ msg[w] \in Submission
    BY <2>1, WorkerKnows DEF Busy
  <2>3. RetrySubmission(job[w])
    BY <1>1, <1>7 DEF GiveBack, storeVars, tables
  <2>4. QED
    BY <1>a, <1>1, <2>1, <2>2, <2>3 DEF RetrySubmission, TypeOK
<1>8. QED
  BY PipelineCases, <1>1, <1>2, <1>3, <1>4, <1>5, <1>6, <1>7

----------------------------------------------------------------------------
(***************************************************************************)
(* The types of what the processes remember.                               *)
(***************************************************************************)

\* Each step of the queue puts one message somewhere.
LEMMA QueueTypes ==
    ASSUME place \in [Q!Message -> Worker \cup {Gone, Waiting}],
           \/ \E s \in Submission : Q!Publish(s)
           \/ \E w \in Worker : Q!Ack(w) \/ Q!Nack(w)
           \/ \E w \in Worker, m \in Q!Message : Q!Deliver(m, w)
           \/ UNCHANGED place
    PROVE  place' \in [Q!Message -> Worker \cup {Gone, Waiting}]
BY DEF Q!Publish, Q!Ack, Q!Nack, Q!Deliver, Q!Put

\* Every step keeps the types.
LEMMA TypesKept ==
    ASSUME PipelineInv, TypeOK', [PipelineNext]_pipelineVars
    PROVE  PipelineTypeOK'
<1>1. PipelineTypeOK
  BY DEF PipelineInv
<1>2. Visibility \in Nat /\ 0 \in 0 .. Visibility /\ Visibility \in 0 .. Visibility
  BY PipelineAssumption
<1>3. place' \in [Q!Message -> Worker \cup {Gone, Waiting}]
  <2>1. \/ \E s \in Submission : Q!Publish(s)
        \/ \E w \in Worker : Q!Ack(w) \/ Q!Nack(w)
        \/ \E w \in Worker, m \in Q!Message : Q!Deliver(m, w)
        \/ UNCHANGED place
    BY PipelineCases DEF Arrive, Respond, ApiSweep, Boot, ReadPublished, ReadUnpublished, Mark,
       Dispatched, Republish, Publish, QueueDown, CrashApi, WorkerSweep, Receive, Attempt, Succeed,
       Reject, GiveBack, Fail, SweepAfter, Settle, CrashWorker, Restart, Clock, pipelineVars,
       queueVars
  <2>2. QED
    BY <1>1, <2>1, QueueTypes DEF PipelineTypeOK
<1>4. hidden' \in [Q!Message -> 0 .. Visibility]
  <2>1. CASE UNCHANGED hidden
    BY <1>1, <2>1 DEF PipelineTypeOK
  <2>2. CASE \E w \in Worker : Uncover(w)
    BY <1>1, <1>2, <2>2 DEF Uncover, PipelineTypeOK
  <2>3. CASE \E m \in Q!Message : hidden' = [hidden EXCEPT ![m] = Visibility]
    BY <1>1, <1>2, <2>3 DEF PipelineTypeOK
  <2>4. CASE Clock
    <3>1. \A m \in Q!Message : hidden[m] \in 0 .. Visibility
      BY <1>1 DEF PipelineTypeOK
    <3>2. \A m \in Q!Message :
             (IF hidden[m] > 0 THEN hidden[m] - 1 ELSE 0) \in 0 .. Visibility
      BY <1>2, <3>1
    <3>3. QED
      BY <2>4, <3>2 DEF Clock
  <2>5. QED
    BY PipelineCases, <2>1, <2>2, <2>3, <2>4
       DEF Arrive, Respond, ApiSweep, Boot, ReadPublished, ReadUnpublished, Mark,
       Dispatched, Republish, Publish, QueueDown, CrashApi, WorkerSweep, Receive, Attempt, Succeed,
       Reject, GiveBack, Fail, SweepAfter, Settle, CrashWorker, Restart, pipelineVars, queueVars
<1>5. /\ api' \in {"down", "booting", "republishing", "recovering", "serving", "dispatching"}
      /\ todo' \in SUBSET Submission
      /\ sent' \in Submission \cup {Nothing}
  <2>1. CASE UNCHANGED apiVars
    BY <1>1, <2>1 DEF PipelineTypeOK, apiVars
  <2>2. CASE Boot \/ Dispatched \/ QueueDown \/ CrashApi
    BY <1>1, <2>2 DEF Boot, Dispatched, QueueDown, CrashApi, PipelineTypeOK
  <2>3. CASE ReadPublished \/ ReadUnpublished
    BY <1>1, <2>3 DEF ReadPublished, ReadUnpublished, Queued, Rows, PipelineTypeOK
  <2>4. CASE Mark \/ \E s \in Submission : Republish(s) \/ Publish(s)
    BY <1>1, <2>4 DEF Mark, Republish, Publish, PipelineTypeOK
  <2>5. QED
    BY PipelineCases, <2>1, <2>2, <2>3, <2>4
       DEF Arrive, Respond, ApiSweep, WorkerSweep, Receive, Attempt, Succeed, Reject, GiveBack,
       Fail, SweepAfter, Settle, CrashWorker, Restart, Clock, pipelineVars
<1>6. faults' \in 0 .. MaxFaults
  <2>1. faults' = faults \/ (faults < MaxFaults /\ faults' = faults + 1)
    BY PipelineCases DEF Arrive, Respond, ApiSweep, Boot, ReadPublished, ReadUnpublished, Mark,
       Dispatched, Republish, Publish, QueueDown, CrashApi, WorkerSweep, Receive, Attempt, Succeed,
       Reject, GiveBack, Fail, SweepAfter, Settle, CrashWorker, Restart, Clock, pipelineVars
  <2>2. QED
    BY <1>1, <2>1, PipelineAssumption DEF PipelineTypeOK
<1>7. /\ pc' \in [Worker -> {"down", "idle", "received", "evaluating", "failing", "sweeping",
                             "acking", "nacking"}]
      /\ msg' \in [Worker -> Submission \cup {Nothing}]
  <2>1. CASE UNCHANGED workerVars
    BY <1>1, <2>1 DEF PipelineTypeOK, workerVars
  <2>2. ASSUME NEW w \in Worker, NEW m \in Q!Message, Receive(w, m)
        PROVE  /\ pc' \in [Worker -> {"down", "idle", "received", "evaluating", "failing",
                                 "sweeping", "acking", "nacking"}]
               /\ msg' \in [Worker -> Submission \cup {Nothing}]
    BY <1>1, <2>2 DEF Receive, Go, Q!Message, PipelineTypeOK
  <2>3. ASSUME NEW w \in Worker,
               \/ Attempt(w) \/ Succeed(w) \/ Reject(w) \/ GiveBack(w) \/ Fail(w)
               \/ SweepAfter(w) \/ Settle(w) \/ CrashWorker(w) \/ Restart(w)
        PROVE  /\ pc' \in [Worker -> {"down", "idle", "received", "evaluating", "failing",
                                 "sweeping", "acking", "nacking"}]
               /\ msg' \in [Worker -> Submission \cup {Nothing}]
    BY <1>1, <2>3 DEF Attempt, Succeed, Reject, GiveBack, Fail, SweepAfter, Settle, CrashWorker,
       Restart, Go, PipelineTypeOK
  <2>4. QED
    BY PipelineCases, <2>1, <2>2, <2>3
       DEF Arrive, Respond, ApiSweep, Boot, ReadPublished, ReadUnpublished, Mark, Dispatched,
       Republish, Publish, QueueDown, CrashApi, WorkerSweep, Clock, pipelineVars
<1>8. job' \in [Worker -> Claim \cup {Nothing}]
  <2>1. CASE UNCHANGED job
    BY <1>1, <2>1 DEF PipelineTypeOK
  <2>2. CASE \E w \in Worker : job' = [job EXCEPT ![w] = Nothing]
    BY <1>1, <2>2 DEF PipelineTypeOK
  <2>3. ASSUME NEW w \in Worker, pc[w] = "received",
               job' = [job EXCEPT ![w] = [sub |-> msg[w], attempt |-> row'[msg[w]].attempt,
                                          token |-> row'[msg[w]].token]]
        PROVE  job' \in [Worker -> Claim \cup {Nothing}]
    <3>1. msg[w] \in Submission
      BY <2>3, WorkerKnows
    <3>2. row'[msg[w]].attempt \in Nat /\ row'[msg[w]].token \in Nat
      BY <3>1 DEF TypeOK, Row
    <3>3. QED
      BY <1>1, <2>3, <3>1, <3>2 DEF Claim, PipelineTypeOK
  <2>4. QED
    BY PipelineCases, <2>1, <2>2, <2>3
       DEF Arrive, Respond, ApiSweep, Boot, ReadPublished, ReadUnpublished, Mark,
       Dispatched, Republish, Publish, QueueDown, CrashApi, WorkerSweep, Receive, Attempt, Succeed,
       Reject, GiveBack, Fail, SweepAfter, Settle, CrashWorker, Restart, Clock, pipelineVars,
       workerVars
<1>9. QED
  BY <1>3, <1>4, <1>5, <1>6, <1>7, <1>8 DEF PipelineTypeOK

----------------------------------------------------------------------------
(***************************************************************************)
(* The workers.                                                            *)
(***************************************************************************)

Stays(w) == pc'[w] = pc[w] /\ msg'[w] = msg[w] /\ job'[w] = job[w]

\* What everybody else does leaves a worker's picture of its submission right:
\* nobody requeues what it evaluates, because nobody else evaluates that.
LEMMA WorkerUndisturbed ==
    ASSUME PipelineInv, TypeOK', [PipelineNext]_pipelineVars, NEW w \in Worker, Stays(w)
    PROVE  WorkerOK(w)'
<1>1. [Next]_storeVars /\ TypeOK
  BY StoreSteps DEF PipelineInv
<1>2. CASE pc[w] \in {"idle", "down"}
  BY <1>2 DEF WorkerOK, Busy, Stays
<1>3. CASE pc[w] \notin {"idle", "down"}
  <2>1. msg[w] \in Submission /\ msg[w] \in ServedRows /\ WorkerOK(w)
    BY <1>3, WorkerKnows DEF PipelineInv
  <2>2. msg'[w] \in ServedRows'
    BY <1>1, <2>1, RowPersists DEF ServedRows, Stays
  <2>3. pc'[w] = "acking" => row'[msg'[w]].status \in Final
    BY <1>1, <2>1, RowPersists DEF WorkerOK, Stays
  <2>4. ASSUME Busy(w)
        PROVE  /\ job'[w] \in claims' /\ job'[w].sub = msg'[w]
               /\ row'[msg'[w]].status \in {"running"} \cup Final
               /\ row'[msg'[w]].status = "running" =>
                     Matches(job[w])' /\ (pc'[w] = "sweeping" => LeaseLapsed(msg[w])')
    <3>1. ~Requeued(msg[w])
      <4>1. ASSUME NEW v \in Worker, GiveBack(v), Busy(v), msg[v] = msg[w]
            PROVE  FALSE
        <5>1. v = w
          BY <2>4, <4>1 DEF PipelineInv, OneEach
        <5>2. pc[w] = "evaluating" /\ pc'[w] \in {"nacking", "failing"}
          BY <4>1, <5>1 DEF GiveBack, Go, PipelineInv, PipelineTypeOK
        <5>3. QED
          BY <5>2 DEF Stays
      <4>2. QED
        BY <2>1, <4>1, OnlyGiveBackRequeues
    <3>2. /\ job[w] \in claims /\ job[w].sub = msg[w]
          /\ row[msg[w]].status \in {"running"} \cup Final
          /\ row[msg[w]].status = "running" =>
                Matches(job[w]) /\ (pc[w] = "sweeping" => LeaseLapsed(msg[w]))
      BY <2>1, <2>4 DEF WorkerOK
    <3>3. row'[msg[w]] = row[msg[w]] \/ row'[msg[w]].status \in Final
      BY <1>1, <2>1, <3>1, <3>2, RowPersists DEF Requeued
    <3>4. claims \subseteq claims' /\ now <= now' /\ now \in Nat /\ now' \in Nat
          /\ row[msg[w]].leaseExpires \in Nat
      BY <1>1, <2>1, RowPersists DEF TypeOK, Row
    <3>5. CASE row'[msg[w]] = row[msg[w]]
      <4>1. Matches(job[w]) => Matches(job[w])'
        BY <3>2, <3>5 DEF Matches, Stays
      <4>2. LeaseLapsed(msg[w]) => LeaseLapsed(msg[w])'
        BY <3>4, <3>5 DEF LeaseLapsed, Stays
      <4>3. QED
        BY <3>2, <3>4, <3>5, <4>1, <4>2 DEF Stays
    <3>6. CASE row'[msg[w]].status \in Final
      BY <3>2, <3>4, <3>6 DEF Stays, Final
    <3>7. QED
      BY <3>3, <3>5, <3>6
  <2>5. Busy(w)' => Busy(w)
    BY DEF Busy, Stays
  <2>6. QED
    BY <2>2, <2>3, <2>4, <2>5 DEF WorkerOK
<1>4. QED
  BY <1>2, <1>3

\* A step of one worker leaves the others where they are.
LEMMA OthersStay ==
    ASSUME PipelineTypeOK, NEW w \in Worker,
           \/ \E m \in Q!Message : Receive(w, m)
           \/ Attempt(w) \/ Succeed(w) \/ Reject(w) \/ GiveBack(w) \/ Fail(w)
           \/ SweepAfter(w) \/ Settle(w) \/ CrashWorker(w) \/ Restart(w),
           NEW v \in Worker, v # w
    PROVE  Stays(v)
BY DEF Receive, Attempt, Succeed, Reject, GiveBack, Fail, SweepAfter, Settle, CrashWorker, Restart,
   Go, Stays, PipelineTypeOK

\* Every other step leaves them all where they are.
LEMMA AllStay ==
    ASSUME \/ \E h \in Handler, u \in User, k \in Key : Arrive(h, u, k)
           \/ \E h \in Handler : Respond(h)
           \/ ApiSweep \/ Boot \/ ReadPublished \/ ReadUnpublished \/ Mark \/ Dispatched
           \/ \E s \in Submission : Republish(s) \/ Publish(s)
           \/ QueueDown \/ CrashApi
           \/ \E w \in Worker : WorkerSweep(w)
           \/ Clock
           \/ UNCHANGED pipelineVars
    PROVE  UNCHANGED workerVars
BY DEF Arrive, Respond, ApiSweep, Boot, ReadPublished, ReadUnpublished, Mark, Dispatched, Republish,
   Publish, QueueDown, CrashApi, WorkerSweep, Clock, pipelineVars

----------------------------------------------------------------------------
\* The worker that takes the step, step by step.

\* It received a message of a served submission.
LEMMA ReceiveOK ==
    ASSUME PipelineInv, TypeOK', [Next]_storeVars, NEW w \in Worker, NEW m \in Q!Message,
           Receive(w, m)
    PROVE  WorkerOK(w)' /\ ~Busy(w)'
<1>1. pc'[w] = "received" /\ msg'[w] = m[1] /\ UNCHANGED storeVars
  BY DEF Receive, Go, PipelineInv, PipelineTypeOK
<1>2. m[1] \in ServedRows
  BY DEF Receive, Q!Deliver, PipelineInv, QueueOK
<1>3. ServedRows' = ServedRows
  BY <1>1 DEF ServedRows, Rows, storeVars, tables
<1>4. QED
  BY <1>1, <1>2, <1>3 DEF WorkerOK, Busy

\* It got the claim of a submission nobody evaluates, or acknowledges what is
\* final: what waits without being granted is given back.
LEMMA AttemptOK ==
    ASSUME PipelineInv, TypeOK', [Next]_storeVars, NEW w \in Worker, Attempt(w)
    PROVE  /\ WorkerOK(w)'
           /\ Busy(w)' => row[msg[w]].status = "queued"
           /\ msg'[w] = msg[w]
<1> DEFINE s == msg[w]
<1>1. pc[w] = "received" /\ msg' = msg
  BY DEF Attempt
<1>2. s \in Submission /\ s \in ServedRows
  BY <1>1, WorkerKnows
<1>3. TypeOK /\ FencingInv /\ PipelineTypeOK
  BY DEF PipelineInv
<1>4. msg'[w] \in ServedRows'
  BY <1>1, <1>2, <1>3, RowPersists DEF ServedRows
<1>5. CASE /\ Grant(s, Served)
           /\ job' = [job EXCEPT ![w] = [sub |-> s, attempt |-> row'[s].attempt,
                                         token |-> row'[s].token]]
           /\ Go(w, "evaluating")
  <2>1. /\ pc'[w] = "evaluating" /\ row[s].status = "queued" /\ row'[s].status = "running"
        /\ job'[w] = [sub |-> s, attempt |-> row'[s].attempt, token |-> row'[s].token]
    BY <1>2, <1>3, <1>5 DEF Go, Grant, Claimable, PipelineTypeOK, TypeOK
  <2>2. job'[w] \in claims'
    BY <1>2, <1>3, <1>5, <2>1 DEF Grant, TypeOK
  <2>3. Matches(job[w])'
    BY <2>1 DEF Matches
  <2>4. QED
    BY <1>1, <1>4, <2>1, <2>2, <2>3 DEF WorkerOK, Busy
<1>6. CASE ClaimOverdue(s, Served) /\ Go(w, "acking")
  <2>1. pc'[w] = "acking" /\ row'[s].status = "failed"
    BY <1>2, <1>3, <1>6 DEF Go, ClaimOverdue, End, Released, PipelineTypeOK, TypeOK
  <2>2. QED
    BY <1>1, <1>4, <2>1 DEF WorkerOK, Busy, Final
<1>7. CASE /\ Claimable(s, Served) => ~Overdue(s) /\ UserBusy(s)
           /\ Go(w, IF RetryLater(s, Served) THEN "nacking" ELSE "acking")
           /\ UNCHANGED <<storeVars, job>>
  <2>1. row' = row
    BY <1>7 DEF storeVars, tables
  <2>2. CASE RetryLater(s, Served)
    <3>1. pc'[w] = "nacking"
      BY <1>3, <1>7, <2>2 DEF Go, PipelineTypeOK
    <3>2. QED
      BY <1>1, <1>4, <3>1 DEF WorkerOK, Busy
  <2>3. CASE ~RetryLater(s, Served)
    <3>1. pc'[w] = "acking"
      BY <1>3, <1>7, <2>3 DEF Go, PipelineTypeOK
    <3>2. s \in Rows /\ request[s].contract = Served
      BY <1>2 DEF ServedRows
    <3>3. row[s].status # "running" /\ ~Claimable(s, Served)
      BY <1>7, <2>3, <3>2 DEF RetryLater
    <3>4. row[s].status # "queued"
      BY <1>2, <1>3, <3>2, <3>3 DEF Claimable, FencingInv
    <3>5. row[s].status \in Final
      <4>1. row[s].status \in Status /\ row[s].status # "absent"
        BY <1>2, <1>3, <3>2 DEF TypeOK, Row, Rows
      <4>2. QED
        BY <3>3, <3>4, <4>1 DEF Status, Outstanding
    <3>6. QED
      BY <1>1, <1>4, <2>1, <3>1, <3>5 DEF WorkerOK, Busy
  <2>4. QED
    BY <2>2, <2>3
<1>8. QED
  BY <1>1, <1>5, <1>6, <1>7 DEF Attempt

\* What a worker that evaluates knows of its submission and its claim.
LEMMA BusyFacts ==
    ASSUME PipelineInv, NEW w \in Worker, Busy(w)
    PROVE  /\ msg[w] \in Submission /\ msg[w] \in ServedRows
           /\ job[w] \in claims /\ job[w].sub = msg[w]
           /\ row[msg[w]].status \in {"running"} \cup Final
           /\ row[msg[w]].status = "running" =>
                 Matches(job[w]) /\ (pc[w] = "sweeping" => LeaseLapsed(msg[w]))
           /\ TypeOK /\ PipelineTypeOK
<1>1. pc[w] \notin {"idle", "down"}
  BY DEF Busy
<1>2. QED
  BY <1>1, WorkerKnows DEF PipelineInv, WorkerOK

\* The outcome is recorded and the message about to be acknowledged, or the
\* claim was refused because it is no longer the row's or has lapsed.
LEMMA EvaluateOK ==
    ASSUME PipelineInv, TypeOK', [Next]_storeVars, NEW w \in Worker,
           Succeed(w) \/ Reject(w) \/ GiveBack(w) \/ Fail(w)
    PROVE  WorkerOK(w)' /\ Busy(w) /\ msg'[w] = msg[w]
<1>1. Busy(w) /\ pc[w] \in {"evaluating", "failing"} /\ msg' = msg /\ job' = job
  BY DEF Succeed, Reject, GiveBack, Fail, Busy
<1>2. /\ msg[w] \in Submission /\ msg[w] \in ServedRows
      /\ job[w] \in claims /\ job[w].sub = msg[w]
      /\ row[msg[w]].status \in {"running"} \cup Final
      /\ row[msg[w]].status = "running" => Matches(job[w])
      /\ TypeOK /\ PipelineTypeOK
  BY <1>1, BusyFacts
<1>3. msg'[w] \in ServedRows'
  BY <1>1, <1>2, RowPersists DEF ServedRows
<1>4. CASE /\ \/ CompleteSuccess(job[w]) \/ CompleteRejected(job[w])
              \/ \E code \in WorkerCode : CompleteFailure(job[w], code)
           /\ Go(w, "acking")
  <2>1. row'[msg[w]].status \in Final /\ pc'[w] = "acking"
    BY <1>2, <1>4, OutcomesEnd DEF Go, PipelineTypeOK
  <2>2. QED
    BY <1>1, <1>3, <2>1 DEF WorkerOK, Busy
<1>5. CASE UNCHANGED storeVars /\ Go(w, "failing")
  <2>1. pc'[w] = "failing" /\ row' = row /\ claims' = claims
    BY <1>2, <1>5 DEF Go, PipelineTypeOK, storeVars, tables, history
  <2>2. Matches(job[w]) => Matches(job[w])'
    BY <1>1, <2>1 DEF Matches
  <2>3. QED
    BY <1>1, <1>2, <1>3, <2>1, <2>2 DEF WorkerOK, Busy
<1>6. CASE ~Concludes(job[w]) /\ UNCHANGED storeVars /\ Go(w, "sweeping")
  <2>1. pc'[w] = "sweeping" /\ row' = row /\ claims' = claims /\ now' = now
    BY <1>2, <1>6 DEF Go, PipelineTypeOK, storeVars, tables, history
  <2>2. Matches(job[w]) => Matches(job[w])' /\ LeaseLapsed(msg[w])'
    BY <1>1, <1>2, <1>6, <2>1 DEF Concludes, Matches, LeaseLapsed
  <2>3. QED
    BY <1>1, <1>2, <1>3, <2>1, <2>2 DEF WorkerOK, Busy
<1>7. CASE Go(w, "nacking")
  <2>1. pc'[w] = "nacking"
    BY <1>2, <1>7 DEF Go, PipelineTypeOK
  <2>2. QED
    BY <1>1, <1>3, <2>1 DEF WorkerOK, Busy
<1>8. QED
  BY <1>1, <1>4, <1>5, <1>6, <1>7 DEF Succeed, Reject, GiveBack, Fail

\* The sweep ends a run whose outcome was refused, if nobody has before.
LEMMA SweepAfterOK ==
    ASSUME PipelineInv, TypeOK', [Next]_storeVars, NEW w \in Worker, SweepAfter(w)
    PROVE  WorkerOK(w)' /\ ~Busy(w)'
<1>1. Busy(w) /\ pc[w] = "sweeping" /\ msg' = msg
  BY DEF SweepAfter, Busy
<1>2. /\ msg[w] \in Submission /\ msg[w] \in ServedRows
      /\ row[msg[w]].status \in {"running"} \cup Final
      /\ row[msg[w]].status = "running" => LeaseLapsed(msg[w])
      /\ TypeOK /\ PipelineTypeOK
  BY <1>1, BusyFacts
<1>3. msg'[w] \in ServedRows'
  BY <1>1, <1>2, RowPersists DEF ServedRows
<1>4. pc'[w] = "acking"
  BY <1>2 DEF SweepAfter, Go, PipelineTypeOK
<1>5. row'[msg[w]].status \in Final
  <2>1. CASE row[msg[w]].status \in Final
    BY <1>2, <2>1, RowPersists
  <2>2. CASE row[msg[w]].status = "running"
    <3>1. msg[w] \in LapsedRuns(Contract)
      BY <1>2, <2>2, PipelineAssumption DEF ServedRows, LapsedRuns
    <3>2. ExpireLeases(Contract)
      BY <3>1 DEF SweepAfter, SweepLeases
    <3>3. row'[msg[w]].status = "failed"
      BY <1>2, <3>1, <3>2 DEF ExpireLeases, EndAll, Released
    <3>4. QED
      BY <3>3 DEF Final
  <2>3. QED
    BY <1>2, <2>1, <2>2
<1>6. QED
  BY <1>1, <1>3, <1>4, <1>5 DEF WorkerOK, Busy

\* A worker that settles, crashes or restarts is at rest.
LEMMA RestOK ==
    ASSUME PipelineInv, NEW w \in Worker, Settle(w) \/ CrashWorker(w) \/ Restart(w)
    PROVE  WorkerOK(w)' /\ ~Busy(w)'
<1>1. pc'[w] \in {"idle", "down"}
  BY DEF Settle, CrashWorker, Restart, Go, PipelineInv, PipelineTypeOK
<1>2. QED
  BY <1>1 DEF WorkerOK, Busy

----------------------------------------------------------------------------
(***************************************************************************)
(* All workers.                                                            *)
(***************************************************************************)

\* One worker takes the step or none does; the others stay as they are.
LEMMA OneMoves ==
    ASSUME PipelineInv, TypeOK', [PipelineNext]_pipelineVars
    PROVE  \/ UNCHANGED workerVars
           \/ \E w \in Worker :
                 /\ WorkerOK(w)'
                 /\ Busy(w)' => msg'[w] = msg[w] /\ (Busy(w) \/ row[msg[w]].status = "queued")
                 /\ \A v \in Worker \ {w} : Stays(v)
<1>1. [Next]_storeVars /\ PipelineTypeOK
  BY StoreSteps DEF PipelineInv
<1>2. ASSUME NEW w \in Worker, NEW m \in Q!Message, Receive(w, m)
      PROVE  WorkerOK(w)' /\ ~Busy(w)' /\ \A v \in Worker \ {w} : Stays(v)
  BY <1>1, <1>2, ReceiveOK, OthersStay
<1>3. ASSUME NEW w \in Worker, Attempt(w)
      PROVE  /\ WorkerOK(w)' /\ msg'[w] = msg[w] /\ (Busy(w)' => row[msg[w]].status = "queued")
             /\ \A v \in Worker \ {w} : Stays(v)
  BY <1>1, <1>3, AttemptOK, OthersStay
<1>4. ASSUME NEW w \in Worker, Succeed(w) \/ Reject(w) \/ GiveBack(w) \/ Fail(w)
      PROVE  /\ WorkerOK(w)' /\ msg'[w] = msg[w] /\ Busy(w)
             /\ \A v \in Worker \ {w} : Stays(v)
  BY <1>1, <1>4, EvaluateOK, OthersStay
<1>5. ASSUME NEW w \in Worker, SweepAfter(w)
      PROVE  WorkerOK(w)' /\ ~Busy(w)' /\ \A v \in Worker \ {w} : Stays(v)
  BY <1>1, <1>5, SweepAfterOK, OthersStay
<1>6. ASSUME NEW w \in Worker, Settle(w) \/ CrashWorker(w) \/ Restart(w)
      PROVE  WorkerOK(w)' /\ ~Busy(w)' /\ \A v \in Worker \ {w} : Stays(v)
  BY <1>1, <1>6, RestOK, OthersStay
<1>7. QED
  BY PipelineCases, AllStay, <1>2, <1>3, <1>4, <1>5, <1>6

\* Every step keeps what a worker holds.
LEMMA WorkersKept ==
    ASSUME PipelineInv, TypeOK', [PipelineNext]_pipelineVars
    PROVE  (\A w \in Worker : WorkerOK(w)') /\ OneEach'
<1>1. CASE UNCHANGED workerVars
  <2>1. \A w \in Worker : Stays(w)
    BY <1>1 DEF Stays, workerVars
  <2>2. OneEach'
    BY <1>1 DEF PipelineInv, OneEach, Busy, workerVars
  <2>3. QED
    BY <2>1, <2>2, WorkerUndisturbed
<1>2. ASSUME NEW w \in Worker,
             WorkerOK(w)',
             Busy(w)' => msg'[w] = msg[w] /\ (Busy(w) \/ row[msg[w]].status = "queued"),
             \A v \in Worker \ {w} : Stays(v)
      PROVE  (\A v \in Worker : WorkerOK(v)') /\ OneEach'
  <2>1. \A v \in Worker : WorkerOK(v)'
    BY <1>2, WorkerUndisturbed
  <2>2. \A v \in Worker \ {w} : Busy(v)' => Busy(v) /\ msg'[v] = msg[v]
    BY <1>2 DEF Busy, Stays
  <2>3. ASSUME NEW v \in Worker \ {w}, Busy(v)', Busy(w)'
        PROVE  msg'[v] # msg'[w]
    <3>1. Busy(v) /\ msg'[v] = msg[v] /\ msg'[w] = msg[w]
      BY <1>2, <2>2, <2>3
    <3>2. row[msg[v]].status # "queued"
      BY <3>1, BusyFacts DEF Final
    <3>3. CASE Busy(w)
      BY <3>1, <3>3 DEF PipelineInv, OneEach
    <3>4. CASE row[msg[w]].status = "queued"
      BY <3>1, <3>2, <3>4
    <3>5. QED
      BY <1>2, <2>3, <3>3, <3>4
  <2>4. \A u, v \in Worker \ {w} : Busy(u)' /\ Busy(v)' /\ u # v => msg'[u] # msg'[v]
    BY <2>2 DEF PipelineInv, OneEach
  <2>5. QED
    BY <2>1, <2>3, <2>4 DEF OneEach
<1>3. QED
  BY OneMoves, <1>1, <1>2

----------------------------------------------------------------------------
(***************************************************************************)
(* The queue.  What is lost from it, and who holds what, step by step.      *)
(***************************************************************************)

QueueType == place \in [Q!Message -> Worker \cup {Gone, Waiting}]

\* Publishing adds a message of one submission and moves no other.
LEMMA PublishMoves ==
    ASSUME QueueType, NEW s \in Submission, Q!Publish(s)
    PROVE  /\ Q!CopiesOf(s)' # {}
           /\ \A t \in Submission : Q!CopiesOf(t) \subseteq Q!CopiesOf(t)'
           /\ \A w \in Worker : Q!Held(w)' = Q!Held(w)
           /\ \A m \in Q!Message : place'[m] # Gone => place[m] # Gone \/ m[1] = s
<1> DEFINE free == {m \in Q!Message : m[1] = s /\ place[m] = Gone}
<1>1. PICK c \in Copy : <<s, c>> \in Q!Message /\ <<s, c>>[1] = s
  BY PipelineAssumption DEF Q!Message
<1>2. Gone # Waiting /\ Waiting \notin Worker /\ Gone \notin Worker
  BY PipelineAssumption
<1>3. CASE free = {}
  <2>1. place' = place
    BY <1>3 DEF Q!Publish
  <2>2. place[<<s, c>>] # Gone
    BY <1>1, <1>3
  <2>3. QED
    BY <1>1, <2>1, <2>2 DEF Q!CopiesOf, Q!Held
<1>4. CASE free # {}
  <2>1. PICK m \in free : place' = [place EXCEPT ![m] = Waiting]
    BY <1>4 DEF Q!Publish, Q!Put
  <2>2. /\ m \in Q!Message /\ m[1] = s /\ place[m] = Gone /\ place'[m] = Waiting
        /\ \A n \in Q!Message \ {m} : place'[n] = place[n]
    BY <2>1 DEF QueueType
  <2>3. QED
    BY <1>2, <2>2 DEF Q!CopiesOf, Q!Held
<1>5. QED
  BY <1>3, <1>4

\* A delivery gives one message to one worker, takes it from any other, and loses none.
LEMMA DeliverMoves ==
    ASSUME QueueType, NEW m \in Q!Message, NEW w \in Worker, Q!Deliver(m, w)
    PROVE  /\ \A t \in Submission : Q!CopiesOf(t) \subseteq Q!CopiesOf(t)'
           /\ Q!Held(w)' = {m} /\ Q!Held(w) = {}
           /\ \A v \in Worker \ {w} : Q!Held(v)' = Q!Held(v) \ {m}
           /\ \A n \in Q!Message : place'[n] # Gone => place[n] # Gone
<1>1. /\ place[m] # Gone /\ place'[m] = w /\ Q!Held(w) = {}
      /\ \A n \in Q!Message \ {m} : place'[n] = place[n]
  BY DEF Q!Deliver, Q!Put, QueueType
<1>2. Gone \notin Worker
  BY PipelineAssumption
<1>3. QED
  BY <1>1, <1>2 DEF Q!CopiesOf, Q!Held

\* Acknowledging removes the message, giving back only releases it.
LEMMA SettleMoves ==
    ASSUME QueueType, NEW w \in Worker, \A m \in Q!Held(w) : Q!Held(w) = {m},
           Q!Ack(w) \/ Q!Nack(w) \/ (Q!Held(w) = {} /\ UNCHANGED place)
    PROVE  /\ Q!Held(w)' = {}
           /\ \A v \in Worker \ {w} : Q!Held(v)' = Q!Held(v)
           /\ \A n \in Q!Message : place'[n] # Gone => place[n] # Gone
           /\ \A n \in Q!Message : place'[n] = Gone /\ place[n] # Gone => n \in Q!Held(w) /\ Q!Ack(w)
<1>1. Gone # Waiting /\ Waiting \notin Worker /\ Gone \notin Worker
  BY PipelineAssumption
<1>2. CASE Q!Held(w) = {} /\ UNCHANGED place
  BY <1>2 DEF Q!Held
<1>3. CASE Q!Ack(w)
  <2>1. PICK m \in Q!Held(w) : place' = [place EXCEPT ![m] = Gone]
    BY <1>3 DEF Q!Ack, Q!Put
  <2>2. /\ m \in Q!Message /\ place[m] = w /\ place'[m] = Gone /\ Q!Held(w) = {m}
        /\ \A n \in Q!Message \ {m} : place'[n] = place[n]
    BY <2>1 DEF Q!Held, QueueType
  <2>3. QED
    BY <1>1, <1>3, <2>2 DEF Q!Held
<1>4. CASE Q!Nack(w)
  <2>1. PICK m \in Q!Held(w) : place' = [place EXCEPT ![m] = Waiting]
    BY <1>4 DEF Q!Nack, Q!Put
  <2>2. /\ m \in Q!Message /\ place[m] = w /\ place'[m] = Waiting /\ Q!Held(w) = {m}
        /\ \A n \in Q!Message \ {m} : place'[n] = place[n]
    BY <2>1 DEF Q!Held, QueueType
  <2>3. QED
    BY <1>1, <2>2 DEF Q!Held
<1>5. QED
  BY <1>2, <1>3, <1>4

\* No step removes a row.
LEMMA ServedGrow ==
    ASSUME PipelineInv, TypeOK', [PipelineNext]_pipelineVars
    PROVE  ServedRows \subseteq ServedRows' /\ Rows \subseteq Rows'
<1>1. [Next]_storeVars /\ TypeOK
  BY StoreSteps DEF PipelineInv
<1>2. QED
  BY <1>1, RowPersists DEF ServedRows, Rows

\* Every step keeps a message for every announced row.
LEMMA QueueKept ==
    ASSUME PipelineInv, TypeOK', [PipelineNext]_pipelineVars
    PROVE  QueueOK'
<1> DEFINE MessageOK(m) == m[1] \in ServedRows
           HeldOK(w) == \A m \in Q!Held(w) :
                            /\ pc[w] \notin {"idle", "down"} /\ msg[w] = m[1]
                            /\ Q!Held(w) = {m}
<1>1. QueueType /\ QueueOK /\ PipelineTypeOK /\ DispatcherOK
  BY DEF PipelineInv, PipelineTypeOK, QueueType
<1>2. ServedRows \subseteq ServedRows'
  BY ServedGrow
<1>3. \A m \in Q!Message : place[m] # Gone => m[1] \in ServedRows
  BY <1>1 DEF QueueOK
<1>4. \A w \in Worker : HeldOK(w)
  BY <1>1 DEF QueueOK
<1>5. \A v \in Worker : Stays(v) /\ Q!Held(v)' = Q!Held(v) => HeldOK(v)'
  BY <1>4 DEF Stays
<1>6. CASE UNCHANGED workerVars /\ UNCHANGED place
  <2>1. \A v \in Worker : Stays(v) /\ Q!Held(v)' = Q!Held(v)
    BY <1>6 DEF Stays, workerVars, Q!Held
  <2>2. QED
    BY <1>2, <1>3, <1>5, <1>6, <2>1 DEF QueueOK
<1>7. ASSUME NEW s \in Submission, Republish(s) \/ Publish(s)
      PROVE  QueueOK'
  <2>1. s \in ServedRows /\ Q!Publish(s) /\ UNCHANGED workerVars
    BY <1>1, <1>7 DEF Republish, Publish, DispatcherOK
  <2>2. \A w \in Worker : HeldOK(w)'
    BY <1>1, <1>5, <2>1, PublishMoves DEF Stays, workerVars
  <2>3. \A m \in Q!Message : place'[m] # Gone => m[1] \in ServedRows'
    BY <1>1, <1>2, <1>3, <2>1, PublishMoves
  <2>4. QED
    BY <2>2, <2>3 DEF QueueOK
<1>8. ASSUME NEW w \in Worker, NEW m \in Q!Message, Receive(w, m)
      PROVE  QueueOK'
  <2>1. Q!Deliver(m, w) /\ pc'[w] = "received" /\ msg'[w] = m[1]
    BY <1>1, <1>8 DEF Receive, Go, PipelineTypeOK
  <2>2. HeldOK(w)'
    BY <1>1, <2>1, DeliverMoves
  <2>3. ASSUME NEW v \in Worker \ {w}
        PROVE  HeldOK(v)'
    <3>1. Stays(v)
      BY <1>1, <1>8, OthersStay
    <3>2. Q!Held(v)' = Q!Held(v) \ {m}
      BY <1>1, <2>1, DeliverMoves
    <3>3. QED
      BY <1>4, <3>1, <3>2 DEF Stays
  <2>4. \A n \in Q!Message : place'[n] # Gone => n[1] \in ServedRows'
    BY <1>1, <1>2, <1>3, <2>1, DeliverMoves
  <2>5. QED
    BY <2>2, <2>3, <2>4 DEF QueueOK
<1>9. ASSUME NEW w \in Worker, Settle(w) \/ CrashWorker(w)
      PROVE  QueueOK'
  <2>1. Q!Ack(w) \/ Q!Nack(w) \/ (Q!Held(w) = {} /\ UNCHANGED place)
    BY <1>9 DEF Settle, CrashWorker
  <2>2. /\ Q!Held(w)' = {}
        /\ \A v \in Worker \ {w} : Q!Held(v)' = Q!Held(v)
        /\ \A n \in Q!Message : place'[n] # Gone => place[n] # Gone
    BY <1>1, <1>4, <2>1, SettleMoves
  <2>3. \A v \in Worker \ {w} : HeldOK(v)'
    BY <1>1, <1>5, <1>9, <2>2, OthersStay
  <2>4. QED
    BY <1>2, <1>3, <2>2, <2>3 DEF QueueOK
<1>10. ASSUME NEW w \in Worker,
              Attempt(w) \/ Succeed(w) \/ Reject(w) \/ GiveBack(w) \/ Fail(w) \/ SweepAfter(w)
       PROVE  QueueOK'
  <2>1. place' = place /\ pc'[w] \notin {"idle", "down"} /\ msg'[w] = msg[w]
    BY <1>1, <1>10 DEF Attempt, Succeed, Reject, GiveBack, Fail, SweepAfter, Go, queueVars,
       PipelineTypeOK
  <2>2. \A v \in Worker : Q!Held(v)' = Q!Held(v)
    BY <2>1 DEF Q!Held
  <2>3. HeldOK(w)'
    BY <1>4, <2>1, <2>2
  <2>4. \A v \in Worker \ {w} : HeldOK(v)'
    BY <1>1, <1>5, <1>10, <2>2, OthersStay
  <2>5. QED
    BY <1>2, <1>3, <2>1, <2>3, <2>4 DEF QueueOK
<1>11. ASSUME NEW w \in Worker, Restart(w)
       PROVE  QueueOK'
  <2>1. place' = place /\ pc[w] = "down"
    BY <1>11 DEF Restart, queueVars
  <2>2. \A v \in Worker : Q!Held(v)' = Q!Held(v)
    BY <2>1 DEF Q!Held
  <2>3. Q!Held(w)' = {}
    BY <1>4, <2>1, <2>2
  <2>4. \A v \in Worker \ {w} : HeldOK(v)'
    BY <1>1, <1>5, <1>11, <2>2, OthersStay
  <2>5. QED
    BY <1>2, <1>3, <2>1, <2>3, <2>4 DEF QueueOK
<1>12. ASSUME \/ \E h \in Handler, u \in User, k \in Key : Arrive(h, u, k)
              \/ \E h \in Handler : Respond(h)
              \/ ApiSweep \/ Boot \/ ReadPublished \/ ReadUnpublished \/ Mark \/ Dispatched
              \/ QueueDown \/ CrashApi
              \/ \E w \in Worker : WorkerSweep(w)
              \/ Clock \/ UNCHANGED pipelineVars
       PROVE  UNCHANGED workerVars /\ UNCHANGED place
  BY <1>12 DEF Arrive, Respond, ApiSweep, Boot, ReadPublished, ReadUnpublished, Mark, Dispatched,
     QueueDown, CrashApi, WorkerSweep, Clock, pipelineVars, queueVars
<1>13. QED
  BY PipelineCases, <1>6, <1>7, <1>8, <1>9, <1>10, <1>11, <1>12

\* A submission that is not final loses no message, whatever the step.
LEMMA CopiesKept ==
    ASSUME PipelineInv, TypeOK', [PipelineNext]_pipelineVars, NEW s \in Backlog,
           Q!CopiesOf(s) # {}
    PROVE  Q!CopiesOf(s)' # {}
<1>1. QueueType /\ QueueOK /\ PipelineTypeOK
  BY DEF PipelineInv, PipelineTypeOK, QueueType
<1>2. s \in Submission /\ row[s].status \notin Final
  BY DEF Backlog, Rows, Outstanding, Final
<1>3. CASE UNCHANGED place
  BY <1>3 DEF Q!CopiesOf
<1>4. CASE \E x \in Submission : Q!Publish(x)
  BY <1>1, <1>2, <1>4, PublishMoves
<1>5. CASE \E w \in Worker, m \in Q!Message : Q!Deliver(m, w)
  BY <1>1, <1>2, <1>5, DeliverMoves
<1>6. ASSUME NEW w \in Worker, Settle(w) \/ CrashWorker(w)
      PROVE  Q!CopiesOf(s)' # {}
  <2>1. \A m \in Q!Held(w) : Q!Held(w) = {m} /\ msg[w] = m[1]
    BY <1>1 DEF QueueOK
  <2>2. Q!Ack(w) \/ Q!Nack(w) \/ (Q!Held(w) = {} /\ UNCHANGED place)
    BY <1>6 DEF Settle, CrashWorker
  <2>3. CASE Settle(w) /\ pc[w] = "acking"
    <3>1. row[msg[w]].status \in Final
      BY <2>3 DEF PipelineInv, WorkerOK
    <3>2. \A m \in Q!CopiesOf(s) : m \notin Q!Held(w)
      BY <1>2, <2>1, <3>1 DEF Q!CopiesOf
    <3>3. \A m \in Q!CopiesOf(s) : place'[m] # Gone
      BY <1>1, <2>1, <2>2, <3>2, SettleMoves DEF Q!CopiesOf
    <3>4. QED
      BY <3>3 DEF Q!CopiesOf
  <2>4. CASE ~(Settle(w) /\ pc[w] = "acking")
    <3>1. Q!Nack(w) \/ UNCHANGED place
      BY <1>6, <2>4 DEF Settle, CrashWorker
    <3>2. CASE Q!Nack(w)
      <4>1. PICK m \in Q!Held(w) : place' = [place EXCEPT ![m] = Waiting]
        BY <3>2 DEF Q!Nack, Q!Put
      <4>2. \A n \in Q!Message : place[n] # Gone => place'[n] # Gone
        BY <1>1, <4>1, PipelineAssumption DEF QueueType
      <4>3. QED
        BY <4>2 DEF Q!CopiesOf
    <3>3. QED
      BY <1>3, <3>1, <3>2
  <2>5. QED
    BY <2>3, <2>4
<1>7. QED
  BY PipelineCases, <1>3, <1>4, <1>5, <1>6
     DEF Arrive, Respond, ApiSweep, Boot, ReadPublished, ReadUnpublished, Mark,
     Dispatched, Republish, Publish, QueueDown, CrashApi, WorkerSweep, Receive, Attempt, Succeed,
     Reject, GiveBack, Fail, SweepAfter, Restart, Clock, pipelineVars, queueVars

\* Only the dispatcher marks submissions published, the one it has just sent.
LEMMA OnlyMarkPublishes ==
    ASSUME [PipelineNext]_pipelineVars
    PROVE  \/ UNCHANGED published
           \/ Mark /\ published' = published \cup {sent}
<1>1. ASSUME NEW K, ExpireLeases(K) \/ ExpireQueuedDeadlines(K) PROVE UNCHANGED published
  BY <1>1 DEF ExpireLeases, ExpireQueuedDeadlines
<1>2. CASE Mark
  BY <1>2 DEF Mark, MarkPublished, storeVars, tables
<1>3. CASE ApiSweep \/ Boot \/ \E w \in Worker : WorkerSweep(w) \/ SweepAfter(w)
  BY <1>1, <1>3 DEF ApiSweep, Boot, SweepQueued, WorkerSweep, SweepAfter, SweepLeases, storeVars,
     tables
<1>4. ASSUME NEW w \in Worker, Attempt(w) \/ Succeed(w) \/ Reject(w) \/ GiveBack(w) \/ Fail(w)
      PROVE  UNCHANGED published
  BY <1>4 DEF Attempt, Succeed, Reject, GiveBack, Fail, Grant, ClaimOverdue, CompleteSuccess,
     CompleteRejected, CompleteFailure, RetrySubmission, storeVars, tables
<1>5. QED
  BY PipelineCases, <1>2, <1>3, <1>4
     DEF Arrive, BeginCreate, Respond, Create, ReadPublished, ReadUnpublished,
     Dispatched, Republish, Publish, QueueDown, CrashApi, Disconnect, Receive, Settle,
     CrashWorker, Restart, Clock, Tick, pipelineVars, storeVars, tables

\* Every step keeps what the dispatcher has in hand.
LEMMA DispatcherKept ==
    ASSUME PipelineInv, TypeOK', [PipelineNext]_pipelineVars
    PROVE  DispatcherOK'
<1>1. DispatcherOK /\ QueueType /\ TypeOK /\ [Next]_storeVars
  BY StoreSteps DEF PipelineInv, PipelineTypeOK, QueueType
<1>2. ServedRows \subseteq ServedRows' /\ Rows \subseteq Rows' /\ ServedRows \subseteq Rows
  BY ServedGrow DEF ServedRows
<1>3. /\ todo' \subseteq ServedRows'
      /\ sent' \in ServedRows' \cup {Nothing}
      /\ sent' = sent \/ sent' = Nothing \/ (Publish(sent') /\ sent' \in Submission)
  <2>1. CASE UNCHANGED apiVars
    BY <1>1, <1>2, <2>1 DEF DispatcherOK, apiVars
  <2>2. CASE Boot \/ Dispatched \/ QueueDown \/ CrashApi
    BY <1>1, <1>2, <2>2 DEF Boot, Dispatched, QueueDown, CrashApi, DispatcherOK
  <2>3. CASE ReadPublished \/ ReadUnpublished
    BY <1>1, <1>2, <2>3 DEF ReadPublished, ReadUnpublished, Queued, ServedRows, DispatcherOK
  <2>4. ASSUME NEW s \in Submission, Republish(s) \/ Publish(s)
        PROVE  /\ todo' \subseteq ServedRows'
               /\ sent' \in ServedRows' \cup {Nothing}
               /\ sent' = sent \/ (Publish(s) /\ sent' = s)
    BY <1>1, <1>2, <2>4 DEF Republish, Publish, DispatcherOK
  <2>5. CASE Mark
    BY <1>1, <1>2, <2>5 DEF Mark, DispatcherOK
  <2>6. QED
    BY PipelineCases, <2>1, <2>2, <2>3, <2>4, <2>5
       DEF Arrive, Respond, ApiSweep, WorkerSweep, Receive, Attempt, Succeed, Reject, GiveBack,
       Fail, SweepAfter, Settle, CrashWorker, Restart, Clock, pipelineVars
<1>4. published' \subseteq Rows'
  <2>1. CASE UNCHANGED published
    BY <1>1, <1>2, <2>1 DEF DispatcherOK
  <2>2. CASE Mark /\ published' = published \cup {sent}
    BY <1>1, <1>2, <2>2 DEF Mark, DispatcherOK
  <2>3. QED
    BY <2>1, <2>2, OnlyMarkPublishes
<1>5. ASSUME NEW s \in Backlog', s \in published' \/ s = sent'
      PROVE  Q!CopiesOf(s)' # {}
  <2>1. s \in Submission /\ row'[s].status \in Outstanding
    BY <1>5 DEF Backlog, Rows
  <2>2. CASE s \in published \/ s = sent
    <3>1. s \in Rows
      BY <1>1, <1>2, <2>1, <2>2, PipelineAssumption DEF DispatcherOK
    <3>2. s \in Backlog
      BY <1>1, <2>1, <3>1, RowPersists DEF Backlog
    <3>3. QED
      BY <1>1, <2>2, <3>2, CopiesKept DEF DispatcherOK
  <2>3. CASE Publish(s)
    BY <1>1, <2>1, <2>3, PublishMoves DEF Publish
  <2>4. s \in published \/ s = sent \/ Publish(s)
    BY <1>3, <1>5, <2>1, OnlyMarkPublishes, PipelineAssumption
  <2>5. QED
    BY <2>2, <2>3, <2>4
<1>6. QED
  BY <1>3, <1>4, <1>5 DEF DispatcherOK

----------------------------------------------------------------------------
\* There are no rows at first.
LEMMA NoRowsYet == ASSUME Init PROVE Rows = {}
<1>1. \A s \in Submission : row[s].status = "absent"
  BY DEF Init, EmptyRow
<1>2. QED
  BY <1>1 DEF Rows

\* The first state satisfies the invariant of the composition.
LEMMA PipelineStarts == PipelineInit => PipelineInv
<1> SUFFICES ASSUME PipelineInit PROVE PipelineInv
  OBVIOUS
<1>1. TypeOK /\ FencingInv
  BY TypeInit, FencingInit DEF PipelineInit
<1>2. PipelineTypeOK
  BY PipelineAssumption DEF PipelineInit, PipelineTypeOK, Q!QueueInit
<1>3. \A w \in Worker : WorkerOK(w) /\ ~Busy(w)
  BY DEF PipelineInit, WorkerOK, Busy
<1>4. QueueOK
  BY PipelineAssumption DEF PipelineInit, QueueOK, Q!QueueInit, Q!Held
<1>5. Backlog = {}
  BY NoRowsYet DEF PipelineInit, Backlog
<1>6. DispatcherOK
  BY <1>5 DEF PipelineInit, Init, DispatcherOK
<1>7. QED
  BY <1>1, <1>2, <1>3, <1>4, <1>6 DEF PipelineInv, OneEach

\* Every step keeps it.
LEMMA PipelineSteps == PipelineInv /\ [PipelineNext]_pipelineVars => PipelineInv'
<1> SUFFICES ASSUME PipelineInv, [PipelineNext]_pipelineVars PROVE PipelineInv'
  OBVIOUS
<1>1. TypeOK' /\ FencingInv'
  BY StoreSteps, TypeStep, FencingStep DEF PipelineInv
<1>2. QED
  BY <1>1, TypesKept, WorkersKept, QueueKept, DispatcherKept DEF PipelineInv

\* The inductive invariant of the pipeline, for any number of processes.
THEOREM PipelineInvariant == PipelineSpec => []PipelineInv
  BY PipelineStarts, PipelineSteps, PTL DEF PipelineSpec

\* API, dispatcher and workers call the store as its most general callers may:
\* every claim they use is one they were granted.  Whatever SubmissionStore's
\* theorems say of the tables holds in the running system.
THEOREM PipelineImplementsStore == PipelineSpec => PipelineUsesStore
<1>1. PipelineInit => Init
  BY DEF PipelineInit
<1>2. PipelineInv /\ [PipelineNext]_pipelineVars => [Next]_storeVars
  BY StoreSteps
<1>3. QED
  BY <1>1, <1>2, PipelineInvariant, PTL DEF PipelineSpec, PipelineUsesStore, Spec

\* What recover, dispatch_pending, ack and nack together guarantee: a waiting
\* submission whose outbox record is marked published has a message.
THEOREM NoWorkIsLost == PipelineSpec => []NoLostWork
<1>1. PipelineInv => NoLostWork
  BY DEF PipelineInv, DispatcherOK, NoLostWork, Queued, Backlog, Outstanding
<1>2. QED
  BY <1>1, PipelineInvariant, PTL

\* Leases, receipts and takeovers never let two workers evaluate a submission
\* at once, whatever the timeouts are.
THEOREM EvaluationsExclusive == PipelineSpec => []NoConcurrentEvaluation
<1>1. PipelineInv => NoConcurrentEvaluation
  <2> SUFFICES ASSUME PipelineInv, NEW v \in Worker, NEW w \in Worker,
                      pc[v] \in {"evaluating", "failing"}, pc[w] \in {"evaluating", "failing"},
                      v # w
               PROVE  job[v].sub # job[w].sub
    BY DEF NoConcurrentEvaluation
  <2>1. Busy(v) /\ Busy(w)
    BY DEF Busy
  <2>2. job[v].sub = msg[v] /\ job[w].sub = msg[w]
    BY <2>1, BusyFacts
  <2>3. QED
    BY <2>1, <2>2 DEF PipelineInv, OneEach
<1>2. QED
  BY <1>1, PipelineInvariant, PTL

\* A worker that is about to acknowledge a message does so for a submission
\* that has its outcome.
THEOREM AcksAreFinal == PipelineSpec => []GivenBackIsNotAcked
<1>1. PipelineInv => GivenBackIsNotAcked
  BY DEF PipelineInv, WorkerOK, GivenBackIsNotAcked, Final
<1>2. QED
  BY <1>1, PipelineInvariant, PTL

----------------------------------------------------------------------------
\* The deployed serial executor

StateFile == [seen : State, kept : State]

\* What a write leaves of the state file is a state file.
LEMMA FileWrites ==
    ASSUME file \in StateFile, NEW v \in State
    PROVE  Both(v) \in StateFile /\ Torn(file, v) \subseteq StateFile
BY DEF StateFile, Both, Torn

\* A record of a call, or of none, is a state of the file.
LEMMA Records ==
    ASSUME file \in StateFile, NEW c \in Call \cup {NoCall}
    PROVE  Record(c) \in State
BY DEF StateFile, Record, State

\* The variables keep their types.
LEMMA SerialTypeStep ==
    ASSUME SerialTypeOK, [SerialNext]_serialVars
    PROVE  SerialTypeOK'
<1> USE SerialAssumption
    DEF SerialTypeOK, State, Back, M!CallTypeOK, M!Concluded
<1>1. CASE Start
  BY <1>1 DEF Start, callVars
<1>2. ASSUME NEW c \in Call, Begin(c) PROVE SerialTypeOK'
  <2>1. file' \in StateFile
    BY <1>2, Records, FileWrites DEF Begin, StateFile
  <2>2. stage' \in [Call -> {"idle", "open", "uncertain", "dead"} \cup M!Concluded]
    BY <1>2 DEF Begin, callVars, M!Open, M!MoveTo
  <2> QED
    BY <1>2, <2>1, <2>2 DEF Begin, StateFile, callVars, M!Open, M!MoveTo
<1>3. CASE Finish
  <2>1. file' \in StateFile
    BY <1>3, Records, FileWrites DEF Finish, StateFile
  <2> QED
    BY <1>3, <2>1 DEF Finish, StateFile, callVars
<1>4. CASE Retain
  BY <1>4 DEF Retain, callVars
<1>5. CASE Exit
  BY <1>5 DEF Exit, M!Abandon
<1>6. CASE PowerLoss
  <2>1. file' \in StateFile
    BY <1>6, FileWrites DEF PowerLoss, AfterPowerLoss, StateFile
  <2>2. archive' \in [seen : SUBSET Call, kept : SUBSET Call]
    BY <1>6 DEF PowerLoss, EntriesAfterPowerLoss, Both
  <2> QED
    BY <1>6, <2>1, <2>2 DEF PowerLoss, StateFile, M!Abandon
<1>7. ASSUME NEW c \in Call, Audit(c) PROVE SerialTypeOK'
  BY <1>7 DEF Audit, Both, Torn, callVars
<1>8. CASE Clear
  <2>1. [pending |-> NoCall, last |-> current] \in State
    OBVIOUS
  <2>2. file' \in StateFile
    BY <1>8, <2>1, FileWrites DEF Clear, StateFile
  <2> QED
    BY <1>8, <2>2 DEF Clear, StateFile, callVars
<1>9. CASE Model
  BY <1>9 DEF Model, executorVars, M!Launch, M!Stop, M!Conclude, M!Doubt, M!MoveTo
<1>10. CASE UNCHANGED serialVars
  BY <1>10 DEF serialVars, callVars, executorVars
<1> QED
  BY <1>1, <1>2, <1>3, <1>4, <1>5, <1>6, <1>7, <1>8, <1>9, <1>10 DEF SerialNext

\* What is on record and what the process is about agree after every step.
LEMMA RecordStep ==
    ASSUME SerialTypeOK, SerialInv, [SerialNext]_serialVars
    PROVE  SerialInv'
<1> USE SerialAssumption
    DEF SerialTypeOK, SerialInv, RunningIsOnRecord, State, Both, Torn, Record, Back, Barred,
        M!CallTypeOK, M!Concluded, M!Running
<1>1. CASE Start
  BY <1>1 DEF Start, callVars
<1>2. ASSUME NEW c \in Call, Begin(c) PROVE SerialInv'
  BY <1>2 DEF Begin, callVars, M!Open, M!MoveTo
<1>3. CASE Finish
  BY <1>3 DEF Finish, callVars
<1>4. CASE Retain
  BY <1>4 DEF Retain, callVars
<1>5. CASE Exit
  BY <1>5 DEF Exit, M!Abandon
<1>6. CASE PowerLoss
  BY <1>6 DEF PowerLoss, AfterPowerLoss, EntriesAfterPowerLoss, M!Abandon
<1>7. ASSUME NEW c \in Call, Audit(c) PROVE SerialInv'
  BY <1>7 DEF Audit, callVars
<1>8. CASE Clear
  BY <1>8 DEF Clear, callVars
<1>9. CASE Model
  BY <1>9 DEF Model, executorVars, M!Launch, M!Stop, M!Conclude, M!Doubt, M!MoveTo
<1>10. CASE UNCHANGED serialVars
  BY <1>10 DEF serialVars, callVars, executorVars
<1> QED
  BY <1>1, <1>2, <1>3, <1>4, <1>5, <1>6, <1>7, <1>8, <1>9, <1>10 DEF SerialNext

WholeSerialInv == SerialTypeOK /\ SerialInv

\* Types and records are invariant together.
LEMMA SerialInvariance == SerialSpec => []WholeSerialInv
<1>1. SerialInit => SerialTypeOK
  <2> SUFFICES ASSUME SerialInit PROVE SerialTypeOK
    OBVIOUS
  <2>1. Clean \in State
    BY DEF Clean, State
  <2>2. file \in [seen : State, kept : State]
    BY <2>1 DEF SerialInit
  <2>3. M!CallTypeOK
    BY DEF SerialInit, M!CallInit, M!CallTypeOK
  <2> QED
    BY <2>2, <2>3 DEF SerialInit, SerialTypeOK
<1>2. SerialInit => SerialInv
  BY SerialAssumption
  DEF SerialInit, SerialInv, RunningIsOnRecord, Clean, M!CallInit, M!Running
<1>3. WholeSerialInv /\ [SerialNext]_serialVars => WholeSerialInv'
  BY SerialTypeStep, RecordStep DEF WholeSerialInv
<1> QED
  BY <1>1, <1>2, <1>3, PTL DEF SerialSpec, WholeSerialInv

\* The state file, the archive and the process keep their types.
THEOREM SerialTypes == SerialSpec => []SerialTypeOK
BY SerialInvariance, PTL DEF WholeSerialInv

\* The process is about the one request on record; nothing else is under way.
THEOREM SerialInvariant == SerialSpec => []SerialInv
BY SerialInvariance, PTL DEF WholeSerialInv

\* What runs or may still be sent is on record, durably.
THEOREM RunningRecorded == SerialSpec => []RunningIsOnRecord
BY SerialInvariance, PTL DEF WholeSerialInv, SerialInv

\* The model never works on two requests, over any crashes, failed writes,
\* power losses and recoveries by a truthful operator.
THEOREM SerialGeneration == SerialSpec => []OneGeneration
<1>1. WholeSerialInv => OneGeneration
  BY DEF WholeSerialInv, SerialInv, RunningIsOnRecord, OneGeneration, M!Running
<1> QED
  BY <1>1, SerialInvariance, PTL

\* A durable record goes only with a confirmed end or an audit.
THEOREM RecordsGo == SerialSpec => RecordsGoByProof
<1> DEFINE Proved(c) == file.kept.pending = c /\ file'.kept.pending # c
                            => stage[c] = "confirmed" \/ c \in archive.seen
<1>1. ASSUME WholeSerialInv, [SerialNext]_serialVars, NEW c \in Call PROVE Proved(c)
  <2> USE <1>1, SerialAssumption DEF WholeSerialInv, SerialTypeOK, SerialInv, State, Both, Torn, Record, Barred
  <2>1. CASE Start
    BY <2>1 DEF Start
  <2>2. ASSUME NEW d \in Call, Begin(d) PROVE Proved(c)
    BY <2>2 DEF Begin
  <2>3. CASE Finish
    BY <2>3 DEF Finish
  <2>4. CASE Retain
    BY <2>4 DEF Retain
  <2>5. CASE Exit
    BY <2>5 DEF Exit
  <2>6. CASE PowerLoss
    BY <2>6 DEF PowerLoss, AfterPowerLoss
  <2>7. ASSUME NEW d \in Call, Audit(d) PROVE Proved(c)
    BY <2>7 DEF Audit
  <2>8. CASE Clear
    BY <2>8 DEF Clear
  <2>9. CASE Model
    BY <2>9 DEF Model
  <2>10. CASE UNCHANGED serialVars
    BY <2>10 DEF serialVars
  <2> QED
    BY <2>1, <2>2, <2>3, <2>4, <2>5, <2>6, <2>7, <2>8, <2>9, <2>10 DEF SerialNext
<1>2. WholeSerialInv /\ [SerialNext]_serialVars
        => [\A c \in Call : file.kept.pending = c /\ file'.kept.pending # c
                => stage[c] = "confirmed" \/ c \in archive.seen]_serialVars
  BY <1>1
<1> QED
  BY <1>2, SerialInvariance, PTL DEF SerialSpec, RecordsGoByProof
============================================================================
