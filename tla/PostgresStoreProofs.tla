------------------------- MODULE PostgresStoreProofs -------------------------
(***************************************************************************)
(* Theorems of PostgresStore: for any connections, users, tasks, limits and *)
(* deployments.  And of SubmissionApi, which stands before it and reads the *)
(* history back: for any handlers, routes, callers and length of a page.    *)
(***************************************************************************)
EXTENDS PostgresStore, SubmissionApi, SequenceTheorems, FiniteSetTheorems, TLAPS

Row == [status : Lifecycle!Phase, user : User \cup {None}, key : Key \cup {None},
        challenge : Challenge \cup {None}, at : Nat, lease : Nat]

\* What a connection that runs one of the four operations keeps in mind.
IsCreate(call) ==
    /\ call = [op |-> "create", plan |-> AdmissionLocks(call.user, call.challenge),
               got |-> call.got, user |-> call.user, key |-> call.key,
               challenge |-> call.challenge, source |-> call.source, at |-> call.at]
    /\ call.got \in 1 .. 3 /\ call.user \in User /\ call.key \in Key
    /\ call.challenge \in Challenge /\ call.at \in Nat

IsClaim(call) ==
    /\ call = [op |-> "claim", plan |-> <<call.sub, call.user>>, got |-> 1,
               user |-> call.user, sub |-> call.sub]
    /\ call.sub \in Submission /\ call.user \in User

IsChange(call) ==
    /\ call = [op |-> "change", plan |-> AdministrationLocks, got |-> call.got,
               user |-> call.user, source |-> call.source, seen |-> call.seen]
    /\ call.got \in 0 .. 1 /\ call.user \in Admin /\ call.source \in Source
    /\ call.seen \in Policy

IsSweep(call) ==
    /\ call = [op |-> "sweep", plan |-> call.plan, got |-> call.got, status |-> call.status,
               at |-> call.at]
    /\ call.plan \in Seq(Submission) /\ call.got \in 0 .. Len(call.plan)
    /\ call.status \in Outstanding

IsCall(call) == IsCreate(call) \/ IsClaim(call) \/ IsChange(call) \/ IsSweep(call)

ConnsOK ==
    /\ conns = [c \in Conn |-> conns[c]]
    /\ \A c \in Busy : IsCall(conns[c])

PostgresTypeOK ==
    /\ now \in Nat
    /\ rows \in [Submission -> Row]
    /\ \A s \in Rows : rows[s].user \in User
    /\ IsFiniteSet(Rows)
    /\ tries \in [Submission -> Nat]
    /\ ConnsOK
    /\ authority \in [Admin -> Nat]
    /\ policy \in Policy

\* A claim has locked a waiting row whose attempts are not used up.
ClaimInv ==
    \A c \in Busy : conns[c].op = "claim" =>
        LET s == conns[c].sub
        IN  rows[s].status = "queued" /\ tries[s] < MaxAttempts /\ rows[s].user = conns[c].user

\* The row of a submission keeps what it was created with, and a submission that
\* is no longer outstanding stays so.
RowsKept ==
    \A s \in Submission :
        /\ rows'[s].user = rows[s].user /\ rows'[s].key = rows[s].key
        /\ rows[s].status = "absent" <=> rows'[s].status = "absent"
        /\ rows'[s].status \in Outstanding => rows[s].status \in Outstanding

\* A connection that asks for a lock runs the operation it says.
LEMMA Operations ==
    /\ \A call : IsCreate(call) => call.op = "create"
    /\ \A call : IsClaim(call) => call.op = "claim"
    /\ \A call : IsChange(call) => call.op = "change"
    /\ \A call : IsSweep(call) => call.op = "sweep"
<1>1. ASSUME NEW call, IsCreate(call) PROVE call.op = "create"
  BY <1>1 DEF IsCreate
<1>2. ASSUME NEW call, IsClaim(call) PROVE call.op = "claim"
  BY <1>2 DEF IsClaim
<1>3. ASSUME NEW call, IsChange(call) PROVE call.op = "change"
  BY <1>3 DEF IsChange
<1>4. ASSUME NEW call, IsSweep(call) PROVE call.op = "sweep"
  BY <1>4 DEF IsSweep
<1> QED
  BY <1>1, <1>2, <1>3, <1>4

\* A connection that asks is busy with a transaction of that kind.
LEMMA Asking ==
    ASSUME PostgresTypeOK, NEW c \in Conn, NEW op, NEW n, Asks(c, op, n)
    PROVE  /\ c \in Busy
           /\ op = "create" => IsCreate(conns[c])
           /\ op = "claim" => IsClaim(conns[c])
           /\ op = "change" => IsChange(conns[c])
BY Operations DEF PostgresTypeOK, ConnsOK, IsCall, Asks

\* A connection that sweeps is busy with the transaction of a sweep.
LEMMA Sweeping ==
    ASSUME PostgresTypeOK, NEW c \in Sweeps
    PROVE  c \in Conn /\ c \in Busy /\ IsSweep(conns[c])
BY Operations DEF PostgresTypeOK, ConnsOK, IsCall, Sweeps, Busy

\* The locks of the four operations.
HeldBy(call) == {call.plan[i] : i \in 1 .. call.got}
WantedBy(call) == call.plan[call.got + 1]

\* What a submission holds and asks for next, by how far it is.
LEMMA CreateHolds ==
    ASSUME NEW call, IsCreate(call)
    PROVE  /\ call.user \in HeldBy(call)
           /\ call.got >= 2 => call.challenge \in HeldBy(call)
           /\ call.got = 3 => Queue \in HeldBy(call)
           /\ call.got = 1 => WantedBy(call) = call.challenge
           /\ call.got = 2 => WantedBy(call) = Queue
           /\ Len(call.plan) = 3
           /\ HeldBy(call) \subseteq {call.user, call.challenge, Queue}
           /\ call.got = 1 => HeldBy(call) = {call.user}
           /\ call.got = 2 => HeldBy(call) = {call.user, call.challenge}
<1> DEFINE p == <<call.user, call.challenge, Queue>>
<1>1. call.plan = p /\ call.got \in {1, 2, 3}
  BY DEF IsCreate, AdmissionLocks
<1>2. p[1] = call.user /\ p[2] = call.challenge /\ p[3] = Queue /\ Len(p) = 3
  OBVIOUS
<1> HIDE DEF p
<1>3. CASE call.got = 1
  <2>1. HeldBy(call) = {p[1]}
    BY <1>1, <1>3 DEF HeldBy
  <2> QED
    BY <1>1, <1>2, <1>3, <2>1 DEF WantedBy
<1>4. CASE call.got = 2
  <2>1. HeldBy(call) = {p[1], p[2]}
    BY <1>1, <1>4 DEF HeldBy
  <2> QED
    BY <1>1, <1>2, <1>4, <2>1 DEF WantedBy
<1>5. CASE call.got = 3
  <2>1. HeldBy(call) = {p[1], p[2], p[3]}
    BY <1>1, <1>5 DEF HeldBy
  <2> QED
    BY <1>1, <1>2, <1>5, <2>1 DEF WantedBy
<1> QED
  BY <1>1, <1>3, <1>4, <1>5

\* A claim holds the row and asks for the user.
LEMMA ClaimHolds ==
    ASSUME NEW call, IsClaim(call)
    PROVE  /\ HeldBy(call) = {call.sub} /\ WantedBy(call) = call.user
           /\ Len(call.plan) = 2
<1> DEFINE p == <<call.sub, call.user>>
<1>1. call.plan = p /\ call.got = 1
  BY DEF IsClaim
<1>2. p[1] = call.sub /\ p[2] = call.user /\ Len(p) = 2
  OBVIOUS
<1> HIDE DEF p
<1>3. HeldBy(call) = {p[1]}
  BY <1>1 DEF HeldBy
<1> QED
  BY <1>1, <1>2, <1>3 DEF WantedBy

\* A change of administration asks for the session, then for the task.
LEMMA ChangeHolds ==
    ASSUME NEW call, IsChange(call)
    PROVE  /\ HeldBy(call) \subseteq {Auth}
           /\ call.got = 0 => HeldBy(call) = {} /\ WantedBy(call) = Auth
           /\ call.got = 1 => HeldBy(call) = {Auth} /\ WantedBy(call) = Task
           /\ Len(call.plan) = 2
<1> DEFINE p == <<Auth, Task>>
<1>1. call.plan = p /\ call.got \in {0, 1}
  BY DEF IsChange, AdministrationLocks
<1>2. p[1] = Auth /\ p[2] = Task /\ Len(p) = 2
  OBVIOUS
<1> HIDE DEF p
<1>3. CASE call.got = 0
  <2>1. HeldBy(call) = {}
    BY <1>3 DEF HeldBy
  <2> QED
    BY <1>1, <1>2, <1>3, <2>1 DEF WantedBy
<1>4. CASE call.got = 1
  <2>1. HeldBy(call) = {p[1]}
    BY <1>1, <1>4 DEF HeldBy
  <2> QED
    BY <1>1, <1>2, <1>4, <2>1 DEF WantedBy
<1> QED
  BY <1>1, <1>3, <1>4

\* A sweep holds rows and asks for rows, one more when it goes on.
LEMMA SweepHolds ==
    ASSUME NEW call, IsSweep(call)
    PROVE  /\ HeldBy(call) \subseteq Submission
           /\ call.got < Len(call.plan) =>
                /\ WantedBy(call) \in Submission
                /\ IsSweep([call EXCEPT !.got = @ + 1])
                /\ HeldBy([call EXCEPT !.got = @ + 1]) = HeldBy(call) \cup {WantedBy(call)}
<1> DEFINE p == call.plan
           n == call.got
<1>1. p \in Seq(Submission) /\ n \in 0 .. Len(p) /\ Len(p) \in Nat
  BY DEF IsSweep
<1>2. \A i \in 1 .. Len(p) : p[i] \in Submission
  BY <1>1
<1>3. HeldBy(call) \subseteq Submission
  BY <1>1, <1>2 DEF HeldBy
<1>4. ASSUME n < Len(p)
      PROVE  /\ WantedBy(call) \in Submission
             /\ IsSweep([call EXCEPT !.got = @ + 1])
             /\ HeldBy([call EXCEPT !.got = @ + 1]) = HeldBy(call) \cup {WantedBy(call)}
  <2> DEFINE next == [op |-> "sweep", plan |-> p, got |-> n + 1, status |-> call.status,
                      at |-> call.at]
  <2>1. [call EXCEPT !.got = @ + 1] = next
    BY DEF IsSweep
  <2>2. n + 1 \in 1 .. Len(p) /\ 1 .. n + 1 = (1 .. n) \cup {n + 1}
    BY <1>1, <1>4
  <2>3. IsSweep(next)
    BY <1>1, <2>2 DEF IsSweep
  <2>4. HeldBy(next) = HeldBy(call) \cup {WantedBy(call)}
    <3>1. next.plan = p /\ next.got = n + 1
      OBVIOUS
    <3> HIDE DEF next
    <3> QED
      BY <2>2, <3>1 DEF HeldBy, WantedBy
  <2>5. WantedBy(call) \in Submission
    BY <1>2, <2>2 DEF WantedBy
  <2> HIDE DEF next
  <2> QED
    BY <2>1, <2>3, <2>4, <2>5
<1> QED
  BY <1>3, <1>4

\* A connection that becomes idle or a typed transaction keeps the connections typed.
LEMMA ConnsStep ==
    ASSUME ConnsOK, NEW c \in Conn, NEW call, conns' = [conns EXCEPT ![c] = call],
           call = Idle \/ IsCall(call)
    PROVE  ConnsOK'
BY DEF ConnsOK, Busy

\* A connection that goes on keeps what it knows and holds one lock more.
LEMMA Going ==
    ASSUME NEW c, NEW t \in Nat
    PROVE  /\ IsCreate(conns[c]) /\ conns[c].got < 3 =>
                /\ IsCreate([conns[c] EXCEPT !.got = @ + 1])
                /\ LET at == [conns[c] EXCEPT !.at = t] IN IsCreate([at EXCEPT !.got = @ + 1])
           /\ IsChange(conns[c]) /\ conns[c].got = 0 =>
                IsChange([conns[c] EXCEPT !.got = @ + 1])
<1>1. ASSUME IsCreate(conns[c]), conns[c].got < 3
      PROVE  /\ IsCreate([conns[c] EXCEPT !.got = @ + 1])
             /\ LET at == [conns[c] EXCEPT !.at = t] IN IsCreate([at EXCEPT !.got = @ + 1])
  <2> DEFINE call == conns[c]
             next == [op |-> "create", plan |-> AdmissionLocks(call.user, call.challenge),
                      got |-> call.got + 1, user |-> call.user, key |-> call.key,
                      challenge |-> call.challenge, source |-> call.source, at |-> call.at]
             read == [op |-> "create", plan |-> AdmissionLocks(call.user, call.challenge),
                      got |-> call.got + 1, user |-> call.user, key |-> call.key,
                      challenge |-> call.challenge, source |-> call.source, at |-> t]
  <2>1. [call EXCEPT !.got = @ + 1] = next
    BY <1>1 DEF IsCreate
  <2>2. LET at == [call EXCEPT !.at = t] IN [at EXCEPT !.got = @ + 1] = read
    <3> DEFINE at == [call EXCEPT !.at = t]
               same == [op |-> "create", plan |-> AdmissionLocks(call.user, call.challenge),
                        got |-> call.got, user |-> call.user, key |-> call.key,
                        challenge |-> call.challenge, source |-> call.source, at |-> t]
    <3>1. at = same
      BY <1>1 DEF IsCreate
    <3>2. [same EXCEPT !.got = same.got + 1] = read
      OBVIOUS
    <3> HIDE DEF at, same, read
    <3> QED
      BY <3>1, <3>2 DEF at
  <2>3. conns[c].got + 1 \in 1 .. 3 /\ conns[c].user \in User /\ conns[c].key \in Key
        /\ conns[c].challenge \in Challenge /\ conns[c].at \in Nat
    BY <1>1 DEF IsCreate
  <2>4. IsCreate(next)
    BY <2>3 DEF IsCreate
  <2>5. IsCreate(read)
    BY <2>3 DEF IsCreate
  <2> HIDE DEF next, read
  <2> QED
    BY <2>1, <2>2, <2>4, <2>5
<1>2. ASSUME IsChange(conns[c]), conns[c].got = 0
      PROVE  IsChange([conns[c] EXCEPT !.got = @ + 1])
  BY <1>2 DEF IsChange
<1> QED
  BY <1>1, <1>2

\* An ended row is a row of the same user and key.
LEMMA EndedRow ==
    ASSUME PostgresTypeOK, NEW s \in Submission, NEW status \in Lifecycle!Phase
    PROVE  /\ Ended(s, status) \in Row
           /\ Ended(s, status).status = status
           /\ Ended(s, status).user = rows[s].user /\ Ended(s, status).key = rows[s].key
BY DEF PostgresTypeOK, Row, Ended

\* What a sweep that commits does: some of the rows it holds end.
LEMMA Swept ==
    ASSUME PostgresTypeOK, NEW c \in Conn, SweepCommit(c)
    PROVE  /\ c \in Busy /\ conns'[c] = Idle
           /\ \E S \in SUBSET Submission :
                 /\ S \subseteq Held(c) /\ \A s \in S : rows[s].status \in Outstanding
                 /\ rows' = [s \in Submission |-> IF s \in S THEN Ended(s, "failed") ELSE rows[s]]
                 /\ tries' = tries
<1>1. c \in Busy /\ IsSweep(conns[c])
  BY Sweeping DEF SweepCommit
<1>2. conns'[c] = Idle
  BY DEF SweepCommit, Leave, PostgresTypeOK, ConnsOK
<1> DEFINE S == {s \in Held(c) : Lapsed(s, conns[c].status, conns[c].at)}
<1>3. S \in SUBSET Submission
  BY <1>1, SweepHolds DEF HeldBy, Held
<1>4. \A s \in S : rows[s].status \in Outstanding
  BY <1>1 DEF Lapsed, IsSweep
<1>5. /\ rows' = [s \in Submission |-> IF s \in S THEN Ended(s, "failed") ELSE rows[s]]
      /\ tries' = tries
  BY DEF SweepCommit
<1> HIDE DEF S
<1>6. S \subseteq Held(c)
  BY DEF S
<1> QED
  BY <1>1, <1>2, <1>3, <1>4, <1>5, <1>6

\* What the evaluation does to the rows: each keeps its identity and its user,
\* and none comes into being or back from its end.
LEMMA RowsKeptBy ==
    ASSUME PostgresTypeOK, ClaimInv, EvaluationNext
    PROVE  RowsKept /\ rows' \in [Submission -> Row]
<1> DEFINE Goal == RowsKept /\ rows' \in [Submission -> Row]
<1>1. ASSUME NEW s \in Submission, NEW r \in Row, rows[s].status \in Outstanding,
             r.status # "absent", r.user = rows[s].user, r.key = rows[s].key,
             rows' = [rows EXCEPT ![s] = r]
      PROVE  Goal
  BY <1>1 DEF PostgresTypeOK, RowsKept, Outstanding
<1>2. ASSUME UNCHANGED rows PROVE Goal
  BY <1>2 DEF PostgresTypeOK, RowsKept
<1>3. ASSUME NEW s \in Submission, NEW status \in {"queued", "rejected", "succeeded", "failed"},
             rows[s].status \in Outstanding, rows' = [rows EXCEPT ![s] = Ended(s, status)]
      PROVE  Goal
  <2>1. status \in Lifecycle!Phase
    BY DEF Lifecycle!Phase, Lifecycle!Final
  <2> HIDE DEF Goal
  <2> QED
    BY <1>1, <1>3, <2>1, EndedRow
<1>4. ASSUME NEW c \in Conn, ClaimDecide(c) PROVE Goal
  <2> DEFINE s == conns[c].sub
             until == IF now + Lease < DeadlineOf(s) THEN now + Lease ELSE DeadlineOf(s)
  <2>1. s \in Submission
    BY <1>4, Asking DEF ClaimDecide, IsClaim
  <2>0. rows[s].status = "queued"
    BY <1>4, Asking, Operations DEF ClaimDecide, ClaimInv
  <2>2. until \in Nat
    BY <2>1, LimitsAssumption DEF PostgresTypeOK, Row, DeadlineOf
  <2>3. \/ rows' = [rows EXCEPT ![s] = Ended(s, "failed")]
        \/ rows' = [rows EXCEPT ![s].status = "running", ![s].lease = until]
    BY <1>4 DEF ClaimDecide
  <2>4. CASE rows' = [rows EXCEPT ![s].status = "running", ![s].lease = until]
    <3> DEFINE r == [rows[s] EXCEPT !.status = "running", !.lease = until]
    <3>1. rows' = [rows EXCEPT ![s] = r]
      BY <2>1, <2>4 DEF PostgresTypeOK, Row
    <3>2. r \in Row /\ r.status = "running" /\ r.user = rows[s].user /\ r.key = rows[s].key
      BY <2>1, <2>2 DEF PostgresTypeOK, Row, Lifecycle!Phase
    <3> HIDE DEF r, s, until, Goal
    <3> QED
      BY <1>1, <2>0, <2>1, <3>1, <3>2 DEF Outstanding, s
  <2> QED
    BY <1>3, <2>0, <2>1, <2>3, <2>4 DEF Outstanding
<1>5. ASSUME NEW c \in Conn, SweepCommit(c) PROVE Goal
  <2>0. PICK S \in SUBSET Submission :
           /\ \A s \in S : rows[s].status \in Outstanding
           /\ rows' = [s \in Submission |-> IF s \in S THEN Ended(s, "failed") ELSE rows[s]]
    BY <1>5, Swept
  <2>1. "failed" \in Lifecycle!Phase
    BY DEF Lifecycle!Phase, Lifecycle!Final
  <2>2. \A s \in S : /\ Ended(s, "failed") \in Row /\ Ended(s, "failed").status = "failed"
                     /\ Ended(s, "failed").user = rows[s].user
                     /\ Ended(s, "failed").key = rows[s].key
    BY <2>1, EndedRow
  <2>4. \A s \in Submission : rows[s] \in Row
    BY DEF PostgresTypeOK
  <2>5. rows' \in [Submission -> Row]
    BY <2>0, <2>2, <2>4
  <2>6. ASSUME NEW s \in Submission
        PROVE  /\ rows'[s].user = rows[s].user /\ rows'[s].key = rows[s].key
               /\ rows[s].status = "absent" <=> rows'[s].status = "absent"
               /\ rows'[s].status \in Outstanding => rows[s].status \in Outstanding
    <3>1. CASE s \in S
      <4>1. rows'[s] = Ended(s, "failed") /\ rows[s].status \in Outstanding
        BY <2>0, <3>1
      <4> QED
        BY <2>2, <3>1, <4>1 DEF Outstanding
    <3>2. CASE s \notin S
      BY <2>0, <3>2
    <3> QED
      BY <3>1, <3>2
  <2> QED
    BY <2>5, <2>6 DEF RowsKept
<1>6. ASSUME NEW s \in Submission, NEW n,
             RetrySubmission(s, n) \/ CompleteSuccess(s, n)
             \/ \E status \in {"failed", "rejected"} : Conclude(s, n, status)
      PROVE  Goal
  <2>1. rows[s].status \in Outstanding
    BY <1>6 DEF RetrySubmission, CompleteSuccess, Conclude, Current, Matches, Outstanding
  <2>2. \E status \in {"queued", "rejected", "succeeded", "failed"} :
           rows' = [rows EXCEPT ![s] = Ended(s, status)]
    BY <1>6 DEF RetrySubmission, CompleteSuccess, Conclude
  <2> HIDE DEF Goal
  <2> QED
    BY <1>3, <2>1, <2>2
<1>7. ASSUME NEW c \in Conn, SweepRow(c) \/ \E t : ExpireLeases(c, t) \/ ExpireQueuedDeadlines(c, t)
      PROVE  Goal
  <2>1. UNCHANGED rows
    BY <1>7 DEF SweepRow, ExpireLeases, ExpireQueuedDeadlines, BeginSweep, table
  <2> HIDE DEF Goal
  <2> QED
    BY <1>2, <2>1
<1>8. ASSUME NEW c \in Conn, NEW s \in Submission, ClaimRow(c, s) PROVE Goal
  BY <1>2, <1>8 DEF ClaimRow, table
<1> HIDE DEF Goal
<1>9. Goal
  BY <1>4, <1>5, <1>6, <1>7, <1>8 DEF EvaluationNext
<1> QED
  BY <1>9 DEF Goal

\* What an administrator may turn a policy into is a policy.
LEMMA ChangesTyped ==
    ASSUME policy \in Policy, NEW f \in Source, NEW b \in BOOLEAN, NEW p \in Changes(policy, f, b)
    PROVE  p \in Policy
<1>1. Revised(policy, f) \in Policy
  <2>1. policy.revision + 1 \in Nat
    BY DEF Policy
  <2>2. \A n \in Nat, g \in Source \cup {NoSource} :
           [policy EXCEPT !.revision = n, !.source = g] \in Policy
    BY DEF Policy
  <2> QED
    BY <2>1, <2>2 DEF Revised
<1> DEFINE next == Revised(policy, f)
<1> HIDE DEF next
<1>2. \A x \in BOOLEAN : [next EXCEPT !.draft = f, !.closed = x] \in Policy
  BY <1>1 DEF Policy, next
<1>3. Save(policy, f) \in Policy
  <2>1. (policy.closed \/ ~MatchesSource(policy, f)) \in BOOLEAN
    BY DEF Policy, MatchesSource
  <2> QED
    BY <1>2, <2>1 DEF Save, next
<1>4. Publish(policy, f) \in Policy
  <2>1. [next EXCEPT !.published = policy.draft, !.publishedFor = f] \in Policy
    BY <1>1 DEF Policy, next
  <2> QED
    BY <2>1 DEF Publish, next
<1>5. ASSUME NEW x \in BOOLEAN PROVE Admissions(policy, f, x) \in Policy
  <2>1. [next EXCEPT !.closed = x] \in Policy
    BY <1>1 DEF Policy, next
  <2> QED
    BY <2>1 DEF Admissions, next
<1> QED
  BY <1>3, <1>4, <1>5 DEF Changes

\* Every step keeps the table typed.
LEMMA TableTyped ==
    ASSUME PostgresTypeOK, ClaimInv, [PostgresNext]_postgresVars
    PROVE  /\ rows' \in [Submission -> Row]
           /\ (\A s \in Rows : rows[s].user \in User)'
           /\ IsFiniteSet(Rows')
           /\ tries' \in [Submission -> Nat]
<1>1. CASE UNCHANGED table
  BY <1>1 DEF table, PostgresTypeOK, Rows
<1>2. ASSUME NEW c \in Conn, CreateCommit(c)
      PROVE  /\ rows' \in [Submission -> Row]
             /\ (\A s \in Rows : rows[s].user \in User)'
             /\ IsFiniteSet(Rows')
             /\ tries' \in [Submission -> Nat]
  <2>1. PICK s \in Submission \ Rows :
           rows' = [rows EXCEPT ![s] =
               [status |-> "queued", user |-> conns[c].user, key |-> conns[c].key,
                challenge |-> conns[c].challenge, at |-> conns[c].at, lease |-> 0]]
    BY <1>2 DEF CreateCommit
  <2>2. /\ conns[c].user \in User /\ conns[c].key \in Key
        /\ conns[c].challenge \in Challenge /\ conns[c].at \in Nat
    BY <1>2, Asking DEF CreateCommit, IsCreate
  <2>3. rows' \in [Submission -> Row]
    BY <2>1, <2>2 DEF PostgresTypeOK, Row, Lifecycle!Phase
  <2>4. Rows' = Rows \cup {s}
    BY <2>1 DEF Rows, PostgresTypeOK
  <2>5. IsFiniteSet(Rows')
    BY <2>4, FS_AddElement DEF PostgresTypeOK
  <2> QED
    BY <1>2, <2>1, <2>2, <2>3, <2>5 DEF CreateCommit, PostgresTypeOK, Rows
<1>3. CASE EvaluationNext
  <2>1. RowsKept /\ rows' \in [Submission -> Row]
    BY <1>3, RowsKeptBy
  <2>2. (\A s \in Rows : rows[s].user \in User)'
    BY <2>1 DEF RowsKept, Rows, PostgresTypeOK
  <2>3. tries' = tries \/ \E s : tries' = [tries EXCEPT ![s] = @ + 1]
    BY <1>3 DEF EvaluationNext, ClaimRow, ClaimDecide, RetrySubmission, CompleteSuccess, Conclude,
                ExpireLeases, ExpireQueuedDeadlines, BeginSweep, SweepRow, SweepCommit, table
  <2>4. IsFiniteSet(Rows')
    BY <2>1 DEF RowsKept, Rows, PostgresTypeOK
  <2> QED
    BY <2>1, <2>2, <2>3, <2>4 DEF PostgresTypeOK
<1> QED
  BY <1>1, <1>2, <1>3
  DEF PostgresNext, AdmissionNext, AdministrationNext, CreateLookup, CreatePolicy, CreateCount,
      Authorize, Revoke, ChangeAuthorize, ChangeCommit, BeginChange, Tick, Abort, postgresVars, table

\* A sweep begins without a lock, with the rows it found in some order.
LEMMA SweepBegins ==
    ASSUME PostgresTypeOK, NEW c \in Conn, NEW status \in Outstanding, NEW t,
           BeginSweep(c, status, t)
    PROVE  \E call : /\ IsSweep(call) /\ HeldBy(call) = {}
                     /\ conns' = [conns EXCEPT ![c] = call] /\ UNCHANGED <<table, policy>>
<1> DEFINE found == {s \in Rows : Lapsed(s, status, t)}
<1>1. PICK order \in SetToSeqs(found) :
         conns' = [conns EXCEPT ![c] =
             [op |-> "sweep", plan |-> order, got |-> 0, status |-> status, at |-> t]]
  BY DEF BeginSweep
<1>2. Cardinality(found) \in Nat
  <2>1. found \subseteq Rows
    OBVIOUS
  <2> HIDE DEF found
  <2> QED
    BY <2>1, FS_Subset, FS_CardinalityType DEF PostgresTypeOK
<1>3. order \in [1 .. Cardinality(found) -> Submission]
  <2>1. found \subseteq Submission
    BY DEF Rows
  <2> HIDE DEF found
  <2> QED
    BY <1>1, <2>1 DEF SetToSeqs
<1>4. order \in Seq(Submission) /\ Len(order) \in Nat
  <2> DEFINE n == Cardinality(found)
  <2>1. n \in Nat /\ order \in [1 .. n -> Submission]
    BY <1>2, <1>3
  <2> HIDE DEF n
  <2> QED
    BY <2>1
<1> DEFINE call == [op |-> "sweep", plan |-> order, got |-> 0, status |-> status, at |-> t]
<1>5. IsSweep(call)
  BY <1>2, <1>4 DEF IsSweep
<1>6. HeldBy(call) = {}
  BY DEF HeldBy
<1>7. UNCHANGED <<table, policy>>
  BY DEF BeginSweep
<1> HIDE DEF call
<1> QED
  BY <1>1, <1>5, <1>6, <1>7 DEF call

\* Every step keeps the connections typed.
LEMMA ConnsTyped ==
    ASSUME PostgresTypeOK, [PostgresNext]_postgresVars
    PROVE  ConnsOK'
<1>0. ConnsOK
  BY DEF PostgresTypeOK
<1>1. CASE UNCHANGED conns
  BY <1>0, <1>1 DEF ConnsOK, Busy
<1>2. ASSUME NEW c \in Conn, Leave(c) PROVE ConnsOK'
  BY <1>0, <1>2, ConnsStep DEF Leave
<1>3. ASSUME NEW c \in Conn, NEW u \in User, NEW k \in Key, NEW ch \in Challenge, NEW f,
             CreateLookup(c, u, k, ch, f)
      PROVE  ConnsOK'
  <2> DEFINE call == [op |-> "create", plan |-> AdmissionLocks(u, ch), got |-> 1,
                      user |-> u, key |-> k, challenge |-> ch, source |-> f, at |-> 0]
  <2>1. IsCreate(call)
    BY DEF IsCreate
  <2>2. conns' = [conns EXCEPT ![c] = call]
    BY <1>3 DEF CreateLookup
  <2> HIDE DEF call
  <2> QED
    BY <1>0, <2>1, <2>2, ConnsStep DEF IsCall
<1>4. ASSUME NEW c \in Conn, CreatePolicy(c) PROVE ConnsOK'
  <2>1. IsCreate(conns[c]) /\ conns[c].got < 3
    <3>1. Asks(c, "create", 2)
      BY <1>4 DEF CreatePolicy
    <3> QED
      BY <3>1, Asking DEF Asks
  <2>2. IsCreate([conns[c] EXCEPT !.got = @ + 1])
    BY <2>1, Going
  <2> QED
    BY <1>0, <1>4, <2>2, ConnsStep DEF CreatePolicy, Keep, IsCall
<1>5. ASSUME NEW c \in Conn, CreateCount(c) PROVE ConnsOK'
  <2>1. IsCreate(conns[c]) /\ conns[c].got < 3
    <3>1. Asks(c, "create", 3)
      BY <1>5 DEF CreateCount
    <3>2. IsCreate(conns[c])
      BY <3>1, Asking
    <3>3. conns[c].got = 2
      BY <3>1 DEF Asks
    <3> QED
      BY <3>2, <3>3
  <2>2. LET at == [conns[c] EXCEPT !.at = now] IN IsCreate([at EXCEPT !.got = @ + 1])
    BY <2>1, Going DEF PostgresTypeOK
  <2>3. conns' = [conns EXCEPT ![c] = LET at == [conns[c] EXCEPT !.at = now]
                                      IN  [at EXCEPT !.got = @ + 1]]
    BY <1>5 DEF CreateCount, Keep
  <2> QED
    BY <1>0, <2>2, <2>3, ConnsStep DEF IsCall
<1>6. ASSUME NEW c \in Conn, NEW s \in Submission, ClaimRow(c, s) PROVE ConnsOK'
  <2> DEFINE call == [op |-> "claim", plan |-> <<s, rows[s].user>>, got |-> 1,
                      user |-> rows[s].user, sub |-> s]
  <2>1. rows[s].user \in User
    BY <1>6 DEF ClaimRow, PostgresTypeOK, Rows
  <2>2. IsClaim(call)
    BY <2>1 DEF IsClaim
  <2>3. conns' = [conns EXCEPT ![c] = call]
    BY <1>6 DEF ClaimRow
  <2> HIDE DEF call
  <2> QED
    BY <1>0, <2>2, <2>3, ConnsStep DEF IsCall
<1>7. ASSUME NEW c \in Conn, NEW a \in Admin, NEW f \in Source, BeginChange(c, a, f)
      PROVE  ConnsOK'
  <2> DEFINE call == [op |-> "change", plan |-> AdministrationLocks, got |-> 0,
                      user |-> a, source |-> f, seen |-> policy]
  <2>1. IsChange(call)
    BY DEF IsChange, PostgresTypeOK
  <2>2. conns' = [conns EXCEPT ![c] = call]
    BY <1>7 DEF BeginChange
  <2> HIDE DEF call
  <2> QED
    BY <1>0, <2>1, <2>2, ConnsStep DEF IsCall
<1>8. ASSUME NEW c \in Conn, ChangeAuthorize(c) PROVE ConnsOK'
  <2>1. IsChange(conns[c]) /\ conns[c].got = 0
    BY <1>8, Asking DEF ChangeAuthorize, Asks, IsChange
  <2>2. IsChange([conns[c] EXCEPT !.got = @ + 1])
    BY <2>1, Going, 0 \in Nat
  <2> QED
    BY <1>0, <1>8, <2>2, ConnsStep DEF ChangeAuthorize, Keep, IsCall
<1>9. ASSUME NEW c \in Conn, NEW t, ExpireLeases(c, t) \/ ExpireQueuedDeadlines(c, t)
      PROVE  ConnsOK'
  <2>1. PICK status \in Outstanding : BeginSweep(c, status, t)
    BY <1>9 DEF ExpireLeases, ExpireQueuedDeadlines, Outstanding
  <2>2. PICK call : IsSweep(call) /\ conns' = [conns EXCEPT ![c] = call]
    BY <2>1, SweepBegins
  <2> QED
    BY <1>0, <2>2, ConnsStep DEF IsCall
<1>10. ASSUME NEW c \in Conn, SweepRow(c) PROVE ConnsOK'
  <2>1. IsSweep(conns[c]) /\ conns[c].got < Len(conns[c].plan)
    BY <1>10, Sweeping DEF SweepRow
  <2>2. IsSweep([conns[c] EXCEPT !.got = @ + 1])
    BY <2>1, SweepHolds
  <2> QED
    BY <1>0, <1>10, <2>2, ConnsStep DEF SweepRow, Keep, IsCall
<1>11. CASE EvaluationNext
  BY <1>1, <1>2, <1>6, <1>11, <1>9, <1>10
  DEF EvaluationNext, ClaimDecide, RetrySubmission, CompleteSuccess, Conclude, SweepCommit
<1>12. CASE AdmissionNext
  BY <1>2, <1>3, <1>4, <1>5, <1>12 DEF AdmissionNext, CreateCommit
<1>13. CASE AdministrationNext
  BY <1>1, <1>2, <1>7, <1>8, <1>13 DEF AdministrationNext, Authorize, Revoke, ChangeCommit
<1> QED
  BY <1>1, <1>2, <1>11, <1>12, <1>13 DEF PostgresNext, Tick, Abort, postgresVars

\* Every step keeps the types.
LEMMA TypeStep ==
    ASSUME PostgresTypeOK, ClaimInv, [PostgresNext]_postgresVars
    PROVE  PostgresTypeOK'
<1>1. /\ rows' \in [Submission -> Row]
      /\ (\A s \in Rows : rows[s].user \in User)'
      /\ IsFiniteSet(Rows')
      /\ tries' \in [Submission -> Nat]
  BY TableTyped
<1>2. ConnsOK'
  BY ConnsTyped
<1>3. now' \in Nat /\ authority' \in [Admin -> Nat] /\ policy' \in Policy
  <2>1. CASE UNCHANGED <<now, authority, policy>>
    BY <2>1 DEF PostgresTypeOK
  <2>2. ASSUME NEW a \in Admin, Authorize(a) \/ Revoke(a)
        PROVE  now' \in Nat /\ authority' \in [Admin -> Nat] /\ policy' \in Policy
    BY <2>2, LimitsAssumption DEF Authorize, Revoke, PostgresTypeOK
  <2>3. ASSUME NEW c \in Conn, ChangeCommit(c)
        PROVE  now' \in Nat /\ authority' \in [Admin -> Nat] /\ policy' \in Policy
    <3>1. conns[c].source \in Source
      BY <2>3, Asking DEF ChangeCommit, IsChange
    <3>2. policy' \in Policy
      BY <2>3, <3>1, ChangesTyped DEF ChangeCommit, PostgresTypeOK
    <3> QED
      BY <2>3, <3>2 DEF ChangeCommit, PostgresTypeOK
  <2>4. CASE Tick
    BY <2>4 DEF Tick, PostgresTypeOK
  <2> QED
    BY <2>1, <2>2, <2>3, <2>4
    DEF PostgresNext, AdmissionNext, AdministrationNext, EvaluationNext, CreateLookup, CreatePolicy,
        CreateCount, CreateCommit, ChangeAuthorize, BeginChange, Abort, postgresVars,
        ClaimRow, ClaimDecide, RetrySubmission, CompleteSuccess, Conclude,
        ExpireLeases, ExpireQueuedDeadlines, BeginSweep, SweepRow, SweepCommit
<1> QED
  BY <1>1, <1>2, <1>3 DEF PostgresTypeOK

\* No lock is held twice.
Exclusive == \A c, d \in Busy : c # d => Held(c) \cap Held(d) = {}

\* A connection that takes a free lock keeps locks exclusive.
LEMMA Taking ==
    ASSUME Exclusive, ConnsOK, NEW c \in Conn, NEW call, conns' = [conns EXCEPT ![c] = call],
           NEW l, Free(l), HeldBy(call) \subseteq (IF c \in Busy THEN Held(c) ELSE {}) \cup {l}
    PROVE  Exclusive'
<1>1. \A d \in Busy' : d # c => d \in Busy /\ Held(d)' = Held(d)
  BY DEF Busy, Held
<1>2. c \in Busy' => Held(c)' = HeldBy(call)
  BY DEF Held, HeldBy, ConnsOK
<1>3. \A d \in Busy : l \notin Held(d)
  BY DEF Free
<1>4. ASSUME NEW d \in Busy', d # c, c \in Busy' PROVE Held(c)' \cap Held(d)' = {}
  BY <1>1, <1>2, <1>3, <1>4 DEF Exclusive
<1> QED
  BY <1>1, <1>4 DEF Exclusive

\* A connection that leaves keeps locks exclusive.
LEMMA Leaving ==
    ASSUME Exclusive, NEW c \in Conn, Leave(c) PROVE Exclusive'
BY DEF Exclusive, Leave, Busy, Held

\* Locks are those of the transaction of a connection.
LEMMA HeldIs == \A c : Held(c) = HeldBy(conns[c]) /\ Wanted(c) = WantedBy(conns[c])
BY DEF Held, HeldBy, Wanted, WantedBy

\* Every step keeps locks exclusive.
LEMMA ExclusiveStep ==
    ASSUME PostgresTypeOK, Exclusive, [PostgresNext]_postgresVars
    PROVE  Exclusive'
<1>0. ConnsOK
  BY DEF PostgresTypeOK
<1>1. CASE UNCHANGED conns
  <2>1. Busy' = Busy /\ \A c : Held(c)' = Held(c)
    BY <1>1 DEF Busy, Held
  <2> QED
    BY <2>1 DEF Exclusive
<1>2. ASSUME NEW c \in Conn, NEW u \in User, NEW k \in Key, NEW ch \in Challenge, NEW f,
             CreateLookup(c, u, k, ch, f)
      PROVE  Exclusive'
  <2> DEFINE call == [op |-> "create", plan |-> AdmissionLocks(u, ch), got |-> 1,
                      user |-> u, key |-> k, challenge |-> ch, source |-> f, at |-> 0]
  <2>1. IsCreate(call) /\ call.got = 1 /\ call.user = u
    BY DEF IsCreate
  <2>2. conns' = [conns EXCEPT ![c] = call] /\ Free(u)
    BY <1>2 DEF CreateLookup
  <2> HIDE DEF call
  <2>3. HeldBy(call) = {u}
    BY <2>1, CreateHolds
  <2> QED
    BY <1>0, <2>2, <2>3, Taking
<1>3. ASSUME NEW c \in Conn, Asks(c, "create", 2) \/ Asks(c, "create", 3), Free(Wanted(c)),
             NEW call, IsCreate(call), call.got = conns[c].got + 1, call.user = conns[c].user,
             call.challenge = conns[c].challenge, conns' = [conns EXCEPT ![c] = call]
      PROVE  Exclusive'
  <2>1. IsCreate(conns[c]) /\ c \in Busy /\ conns[c].got \in {1, 2}
    <3>1. CASE Asks(c, "create", 2)
      <4>1. IsCreate(conns[c]) /\ c \in Busy
        BY <3>1, Asking
      <4>2. conns[c].got = 1
        BY <3>1 DEF Asks
      <4> QED
        BY <4>1, <4>2
    <3>2. CASE Asks(c, "create", 3)
      <4>1. IsCreate(conns[c]) /\ c \in Busy
        BY <3>2, Asking
      <4>2. conns[c].got = 2
        BY <3>2 DEF Asks
      <4> QED
        BY <4>1, <4>2
    <3> QED
      BY <1>3, <3>1, <3>2
  <2>2. HeldBy(call) \subseteq Held(c) \cup {Wanted(c)}
    <3>1. CASE conns[c].got = 1
      BY <1>3, <2>1, <3>1, CreateHolds, HeldIs
    <3>2. CASE conns[c].got = 2
      BY <1>3, <2>1, <3>2, CreateHolds, HeldIs
    <3> QED
      BY <2>1, <3>1, <3>2
  <2> QED
    BY <1>0, <1>3, <2>1, <2>2, Taking
<1>4. ASSUME NEW c \in Conn, CreatePolicy(c) PROVE Exclusive'
  <2>1. Asks(c, "create", 2) /\ Free(Wanted(c))
        /\ conns' = [conns EXCEPT ![c] = [conns[c] EXCEPT !.got = @ + 1]]
    BY <1>4 DEF CreatePolicy, Keep
  <2>2. IsCreate(conns[c]) /\ conns[c].got = 1
    <3>1. IsCreate(conns[c])
      BY <2>1, Asking
    <3> QED
      BY <2>1, <3>1 DEF Asks
  <2> DEFINE call == [conns[c] EXCEPT !.got = @ + 1]
  <2>3. IsCreate(call)
    <3>1. conns[c].got < 3 /\ 0 \in Nat
      BY <2>2
    <3> QED
      BY <2>2, <3>1, Going
  <2>4. call.got = conns[c].got + 1 /\ call.user = conns[c].user
        /\ call.challenge = conns[c].challenge
    BY <2>2 DEF IsCreate
  <2> HIDE DEF call
  <2> QED
    BY <1>3, <2>1, <2>3, <2>4 DEF call
<1>5. ASSUME NEW c \in Conn, CreateCount(c) PROVE Exclusive'
  <2> DEFINE at == [conns[c] EXCEPT !.at = now]
             call == [at EXCEPT !.got = @ + 1]
  <2>1. Asks(c, "create", 3) /\ Free(Wanted(c))
        /\ conns' = [conns EXCEPT ![c] = call]
    BY <1>5 DEF CreateCount, Keep
  <2>2. IsCreate(conns[c]) /\ conns[c].got = 2
    <3>1. IsCreate(conns[c])
      BY <2>1, Asking
    <3> QED
      BY <2>1, <3>1 DEF Asks
  <2>3. IsCreate(call)
    <3>1. conns[c].got < 3 /\ now \in Nat
      BY <2>2 DEF PostgresTypeOK
    <3> QED
      BY <2>2, <3>1, Going
  <2>4. call.got = conns[c].got + 1 /\ call.user = conns[c].user
        /\ call.challenge = conns[c].challenge
    BY <2>2 DEF IsCreate
  <2> HIDE DEF call
  <2> QED
    BY <1>3, <2>1, <2>3, <2>4
<1>6. ASSUME NEW c \in Conn, NEW s \in Submission, ClaimRow(c, s) PROVE Exclusive'
  <2> DEFINE call == [op |-> "claim", plan |-> <<s, rows[s].user>>, got |-> 1,
                      user |-> rows[s].user, sub |-> s]
  <2>1. rows[s].user \in User
    BY <1>6 DEF ClaimRow, PostgresTypeOK, Rows
  <2>2. IsClaim(call) /\ call.sub = s
    BY <2>1 DEF IsClaim
  <2>3. conns' = [conns EXCEPT ![c] = call] /\ Free(s)
    BY <1>6 DEF ClaimRow
  <2> HIDE DEF call
  <2>4. HeldBy(call) = {s}
    BY <2>2, ClaimHolds
  <2> QED
    BY <1>0, <2>3, <2>4, Taking
<1>7. ASSUME NEW c \in Conn, NEW a \in Admin, NEW f \in Source, BeginChange(c, a, f)
      PROVE  Exclusive'
  <2> DEFINE call == [op |-> "change", plan |-> AdministrationLocks, got |-> 0,
                      user |-> a, source |-> f, seen |-> policy]
  <2>1. HeldBy(call) = {}
    BY DEF HeldBy
  <2>2. conns' = [conns EXCEPT ![c] = call]
    BY <1>7 DEF BeginChange
  <2> HIDE DEF call
  <2>3. \A d \in Busy' : d # c => d \in Busy /\ Held(d)' = Held(d)
    BY <2>2 DEF Busy, Held
  <2>4. c \in Busy' => Held(c)' = {}
    BY <1>0, <2>1, <2>2 DEF Held, HeldBy, ConnsOK
  <2> QED
    BY <2>3, <2>4 DEF Exclusive
<1>8. ASSUME NEW c \in Conn, ChangeAuthorize(c) PROVE Exclusive'
  <2>1. Asks(c, "change", 1) /\ Free(Wanted(c))
        /\ conns' = [conns EXCEPT ![c] = [conns[c] EXCEPT !.got = @ + 1]]
    BY <1>8 DEF ChangeAuthorize, Keep
  <2>2. IsChange(conns[c])
    BY <2>1, Asking
  <2>3. conns[c].got = 0
    BY <2>1 DEF Asks
  <2> DEFINE call == [conns[c] EXCEPT !.got = @ + 1]
  <2>4. IsChange(call)
    BY <2>2, <2>3, Going, 0 \in Nat
  <2> HIDE DEF call
  <2>5. HeldBy(call) \subseteq {Auth} /\ Wanted(c) = Auth
    BY <2>2, <2>3, <2>4, ChangeHolds, HeldIs
  <2> QED
    BY <1>0, <2>1, <2>5, Taking DEF call
<1>9. ASSUME NEW c \in Conn, NEW t, ExpireLeases(c, t) \/ ExpireQueuedDeadlines(c, t)
      PROVE  Exclusive'
  <2>1. PICK status \in Outstanding : BeginSweep(c, status, t)
    BY <1>9 DEF ExpireLeases, ExpireQueuedDeadlines, Outstanding
  <2>2. PICK call : HeldBy(call) = {} /\ conns' = [conns EXCEPT ![c] = call]
    BY <2>1, SweepBegins
  <2>3. \A d \in Busy' : d # c => d \in Busy /\ Held(d)' = Held(d)
    BY <2>2 DEF Busy, Held
  <2>4. c \in Busy' => Held(c)' = {}
    BY <1>0, <2>2 DEF Held, HeldBy, ConnsOK
  <2> QED
    BY <2>3, <2>4 DEF Exclusive
<1>10. ASSUME NEW c \in Conn, SweepRow(c) PROVE Exclusive'
  <2> DEFINE call == [conns[c] EXCEPT !.got = @ + 1]
  <2>1. c \in Busy /\ IsSweep(conns[c]) /\ conns[c].got < Len(conns[c].plan)
    BY <1>10, Sweeping DEF SweepRow
  <2>2. Free(Wanted(c)) /\ conns' = [conns EXCEPT ![c] = call]
    BY <1>10 DEF SweepRow, Keep
  <2>3. HeldBy(call) = Held(c) \cup {Wanted(c)}
    BY <2>1, SweepHolds, HeldIs
  <2> HIDE DEF call
  <2> QED
    BY <1>0, <2>1, <2>2, <2>3, Taking
<1>11. CASE EvaluationNext
  BY <1>1, <1>6, <1>9, <1>10, <1>11, Leaving
  DEF EvaluationNext, ClaimDecide, RetrySubmission, CompleteSuccess, Conclude, SweepCommit
<1>12. CASE AdmissionNext
  BY <1>2, <1>4, <1>5, <1>12, Leaving DEF AdmissionNext, CreateCommit
<1>13. CASE AdministrationNext
  BY <1>1, <1>7, <1>8, <1>13, Leaving DEF AdministrationNext, Authorize, Revoke, ChangeCommit
<1> QED
  BY <1>1, <1>11, <1>12, <1>13, Leaving DEF PostgresNext, Tick, Abort, postgresVars

----------------------------------------------------------------------------
\* The order in which everybody but the sweeps asks for locks.
Level(l) ==
    IF l \in Submission THEN 0
    ELSE IF l \in User \cup {Auth} THEN 1
    ELSE IF l \in Challenge THEN 2 ELSE 3

\* Whoever waits and is no sweep asks for a lock above all it holds, and for no row.
LEMMA AsksUpwards ==
    ASSUME PostgresTypeOK, NEW c \in Waiting \ Sweeps
    PROVE  /\ \A l \in Held(c) : Level(l) < Level(Wanted(c))
           /\ Wanted(c) \notin Submission
<1> DEFINE Upwards == /\ \A l \in Held(c) : Level(l) < Level(Wanted(c))
                      /\ Wanted(c) \notin Submission
<1> SUFFICES Upwards
  OBVIOUS
<1> USE LocksAssumption, TaskAssumption
<1>1. c \in Busy /\ c \notin Sweeps /\ conns[c].got < Len(conns[c].plan)
  BY DEF Waiting
<1>2. CASE IsCreate(conns[c])
  <2>1. conns[c].got \in {1, 2}
    <3>1. Len(conns[c].plan) = 3
      BY <1>2, CreateHolds
    <3>2. conns[c].got \in 1 .. 3
      BY <1>2 DEF IsCreate
    <3> QED
      BY <1>1, <3>1, <3>2
  <2>2. conns[c].user \in User /\ conns[c].challenge \in Challenge
    BY <1>2 DEF IsCreate
  <2>3. CASE conns[c].got = 1
    BY <1>2, <2>2, <2>3, CreateHolds, HeldIs DEF Level
  <2>4. CASE conns[c].got = 2
    BY <1>2, <2>2, <2>4, CreateHolds, HeldIs DEF Level
  <2> QED
    BY <2>1, <2>3, <2>4
<1>3. CASE IsClaim(conns[c])
  <2>1. conns[c].user \in User /\ conns[c].sub \in Submission
    BY <1>3 DEF IsClaim
  <2> QED
    BY <1>3, <2>1, ClaimHolds, HeldIs DEF Level
<1>4. CASE IsChange(conns[c])
  <2>1. conns[c].got \in {0, 1}
    BY <1>4 DEF IsChange
  <2>2. CASE conns[c].got = 0
    BY <1>4, <2>2, ChangeHolds, HeldIs
  <2>3. CASE conns[c].got = 1
    BY <1>4, <2>3, ChangeHolds, HeldIs DEF Level
  <2> QED
    BY <2>1, <2>2, <2>3
<1>5. ~IsSweep(conns[c])
  BY <1>1, Operations DEF Sweeps
<1> HIDE DEF Upwards
<1> QED
  BY <1>1, <1>2, <1>3, <1>4, <1>5 DEF PostgresTypeOK, ConnsOK, IsCall

\* Among connections that wait, one that is no sweep and asks for a lock of the
\* highest level among those waits for none of the others: what a sweep holds are
\* rows, and it asks for none.
LEMMA NoCycle == PostgresTypeOK => NoLockCycle
<1> SUFFICES ASSUME PostgresTypeOK, NEW S \in SUBSET Waiting, S \ Sweeps # {}
             PROVE  \E c \in S \ Sweeps : \A d \in S \ {c} : Wanted(c) \notin Held(d)
  BY DEF NoLockCycle
<1> DEFINE T == S \ Sweeps
           wants(c) == Level(Wanted(c))
<1>1. \A c \in T : (\A l \in Held(c) : Level(l) < wants(c)) /\ Wanted(c) \notin Submission
  BY AsksUpwards
<1>2. \A c \in T : wants(c) \in {0, 1, 2, 3}
  BY DEF Level
<1>3. \E c \in T : \A d \in T : wants(d) <= wants(c)
  <2> HIDE DEF wants
  <2>0. PICK e \in T : TRUE
    OBVIOUS
  <2> HIDE DEF T
  <2>1. CASE \E c \in T : wants(c) = 3
    BY <1>2, <2>1
  <2>2. CASE (\A c \in T : wants(c) # 3) /\ \E c \in T : wants(c) = 2
    BY <1>2, <2>2
  <2>3. CASE (\A c \in T : wants(c) \notin {2, 3}) /\ \E c \in T : wants(c) = 1
    BY <1>2, <2>3
  <2>4. CASE \A c \in T : wants(c) \notin {1, 2, 3}
    BY <1>2, <2>0, <2>4
  <2> QED
    BY <2>1, <2>2, <2>3, <2>4
<1>4. PICK c \in T : \A d \in T : wants(d) <= wants(c)
  BY <1>3
<1>5. ASSUME NEW d \in T, Wanted(c) \in Held(d) PROVE FALSE
  <2>1. wants(c) < wants(d)
    BY <1>1, <1>5
  <2>2. wants(d) <= wants(c) /\ wants(c) \in {0, 1, 2, 3} /\ wants(d) \in {0, 1, 2, 3}
    BY <1>2, <1>4
  <2> HIDE DEF wants
  <2> QED
    BY <2>1, <2>2
<1>6. ASSUME NEW d \in S \cap Sweeps, Wanted(c) \in Held(d) PROVE FALSE
  <2>1. Held(d) \subseteq Submission
    BY Sweeping, SweepHolds, HeldIs
  <2> QED
    BY <1>1, <1>4, <1>6, <2>1
<1> QED
  BY <1>5, <1>6

----------------------------------------------------------------------------
\* A row that a claim has locked is left alone by everybody else.
LEMMA ClaimedRow ==
    ASSUME PostgresTypeOK, ClaimInv, Exclusive, [PostgresNext]_postgresVars,
           NEW c \in Busy, IsClaim(conns[c]), conns'[c] = conns[c]
    PROVE  LET s == conns[c].sub IN rows'[s] = rows[s] /\ tries'[s] = tries[s]
<1> DEFINE s == conns[c].sub
<1> SUFFICES rows'[s] = rows[s] /\ tries'[s] = tries[s]
  OBVIOUS
<1>1. c \in Conn /\ s \in Submission /\ s \in Held(c) /\ rows[s].status = "queued"
  BY ClaimHolds, HeldIs, Operations DEF IsClaim, ClaimInv, Busy
<1>2. ~Free(s)
  BY <1>1 DEF Free
<1>3. CASE UNCHANGED table
  BY <1>3 DEF table
<1>4. ASSUME NEW d \in Conn, CreateCommit(d) PROVE rows'[s] = rows[s] /\ tries'[s] = tries[s]
  <2>1. s \in Rows
    BY <1>1 DEF Rows
  <2> HIDE DEF s
  <2> QED
    BY <1>4, <2>1 DEF CreateCommit, PostgresTypeOK
<1>5. ASSUME NEW d \in Conn, ClaimDecide(d) PROVE rows'[s] = rows[s] /\ tries'[s] = tries[s]
  <2>1. IsClaim(conns[d]) /\ d \in Busy
    BY <1>5, Asking DEF ClaimDecide
  <2>2. d # c
    <3>1. conns'[d] = Idle
      BY <1>5 DEF ClaimDecide, Leave, PostgresTypeOK, ConnsOK
    <3> QED
      BY <3>1 DEF Busy
  <2>3. conns[d].sub \in Held(d)
    BY <2>1, ClaimHolds, HeldIs
  <2>4. conns[d].sub # s
    BY <1>1, <2>1, <2>2, <2>3 DEF Exclusive
  <2> HIDE DEF s
  <2> QED
    BY <1>1, <1>5, <2>4 DEF ClaimDecide, PostgresTypeOK
<1>6. ASSUME NEW t \in Submission, NEW n,
             RetrySubmission(t, n) \/ CompleteSuccess(t, n)
             \/ \E status \in {"failed", "rejected"} : Conclude(t, n, status)
      PROVE  rows'[s] = rows[s] /\ tries'[s] = tries[s]
  <2>1. t # s
    BY <1>2, <1>6 DEF RetrySubmission, CompleteSuccess, Conclude
  <2> HIDE DEF s
  <2> QED
    BY <1>1, <1>6, <2>1 DEF RetrySubmission, CompleteSuccess, Conclude, PostgresTypeOK
<1>7. ASSUME NEW d \in Conn, SweepCommit(d) PROVE rows'[s] = rows[s] /\ tries'[s] = tries[s]
  <2>1. d \in Busy /\ conns'[d] = Idle
    BY <1>7, Swept
  <2>2. d # c
    BY <2>1 DEF Busy
  <2>3. s \notin Held(d)
    BY <1>1, <2>1, <2>2 DEF Exclusive
  <2> HIDE DEF s
  <2>4. PICK S \in SUBSET Submission :
           /\ S \subseteq Held(d)
           /\ rows' = [t \in Submission |-> IF t \in S THEN Ended(t, "failed") ELSE rows[t]]
           /\ tries' = tries
    BY <1>7, Swept
  <2> QED
    BY <1>1, <2>3, <2>4
<1>8. CASE EvaluationNext
  <2> HIDE DEF s
  <2>1. CASE \E d \in Conn : ClaimDecide(d) \/ \E t \in Submission : ClaimRow(d, t)
    BY <1>3, <1>5, <2>1 DEF ClaimRow, table
  <2>2. CASE \E t \in Submission : \E n \in 1 .. tries[t] :
                RetrySubmission(t, n) \/ CompleteSuccess(t, n)
                \/ \E status \in {"failed", "rejected"} : Conclude(t, n, status)
    BY <1>6, <2>2
  <2>3. CASE \E d \in Conn : \/ SweepRow(d) \/ SweepCommit(d)
                            \/ \E t \in 0 .. now : ExpireLeases(d, t) \/ ExpireQueuedDeadlines(d, t)
    BY <1>3, <1>7, <2>3 DEF SweepRow, ExpireLeases, ExpireQueuedDeadlines, BeginSweep
  <2> QED
    BY <1>8, <2>1, <2>2, <2>3 DEF EvaluationNext
<1> HIDE DEF s
<1>9. AdmissionNext => UNCHANGED table \/ \E d \in Conn : CreateCommit(d)
  BY DEF AdmissionNext, CreateLookup, CreatePolicy, CreateCount
<1>10. AdministrationNext => UNCHANGED table
  BY DEF AdministrationNext, Authorize, Revoke, ChangeAuthorize, ChangeCommit, BeginChange
<1> QED
  BY <1>3, <1>4, <1>8, <1>9, <1>10 DEF PostgresNext, Tick, Abort, postgresVars, table

\* A connection keeps what it has in mind, begins, goes on with a lock more, sweeps or ends.
LEMMA ConnMoves ==
    ASSUME PostgresTypeOK, [PostgresNext]_postgresVars, NEW c \in Busy'
    PROVE  \/ c \in Busy /\ conns'[c] = conns[c]
           \/ \E u \in User, k \in Key, ch \in Challenge : \E f \in SourcesOf(ch) : CreateLookup(c, u, k, ch, f)
           \/ CreatePolicy(c) \/ CreateCount(c) \/ ChangeAuthorize(c)
           \/ \E s \in Submission : ClaimRow(c, s)
           \/ \E a \in Admin, f \in Source : BeginChange(c, a, f)
           \/ conns'[c].op = "sweep"
<1>0. c \in Conn /\ conns'[c] # Idle
  BY DEF Busy
<1>1. CASE UNCHANGED conns
  BY <1>1 DEF Busy
<1>2. ASSUME NEW d \in Conn, Leave(d) PROVE c \in Busy /\ conns'[c] = conns[c]
  BY <1>0, <1>2 DEF Leave, Busy, PostgresTypeOK, ConnsOK
<1>3. ASSUME NEW d \in Conn, d # c, NEW call, conns' = [conns EXCEPT ![d] = call]
      PROVE  c \in Busy /\ conns'[c] = conns[c]
  BY <1>0, <1>3 DEF Busy, PostgresTypeOK, ConnsOK
<1>4. CASE AdmissionNext
  <2>1. PICK d \in Conn :
           \/ \E u \in User, k \in Key, ch \in Challenge : \E f \in SourcesOf(ch) : CreateLookup(d, u, k, ch, f)
           \/ CreatePolicy(d) \/ CreateCount(d) \/ CreateCommit(d)
    BY <1>4 DEF AdmissionNext
  <2> QED
    BY <1>2, <1>3, <2>1 DEF CreateLookup, CreatePolicy, CreateCount, CreateCommit, Keep
<1>5. CASE EvaluationNext
  <2>1. CASE \E d \in Conn, s \in Submission : ClaimRow(d, s)
    BY <1>3, <2>1 DEF ClaimRow
  <2>2. ASSUME NEW d \in Conn, NEW call, IsSweep(call), conns' = [conns EXCEPT ![d] = call]
        PROVE  (c \in Busy /\ conns'[c] = conns[c]) \/ conns'[c].op = "sweep"
    <3>1. d = c => conns'[c].op = "sweep"
      BY <2>2, Operations DEF PostgresTypeOK, ConnsOK
    <3> QED
      BY <1>3, <2>2, <3>1
  <2>3. ASSUME NEW d \in Conn, NEW t, ExpireLeases(d, t) \/ ExpireQueuedDeadlines(d, t)
        PROVE  (c \in Busy /\ conns'[c] = conns[c]) \/ conns'[c].op = "sweep"
    <3>1. PICK status \in Outstanding : BeginSweep(d, status, t)
      BY <2>3 DEF ExpireLeases, ExpireQueuedDeadlines, Outstanding
    <3> QED
      BY <2>2, <3>1, SweepBegins
  <2>4. ASSUME NEW d \in Conn, SweepRow(d)
        PROVE  (c \in Busy /\ conns'[c] = conns[c]) \/ conns'[c].op = "sweep"
    <3>1. IsSweep([conns[d] EXCEPT !.got = @ + 1])
      BY <2>4, Sweeping, SweepHolds DEF SweepRow
    <3> QED
      BY <2>2, <2>4, <3>1 DEF SweepRow, Keep
  <2> QED
    BY <1>1, <1>2, <1>5, <2>1, <2>3, <2>4
    DEF EvaluationNext, ClaimDecide, RetrySubmission, CompleteSuccess, Conclude, SweepCommit
<1>6. CASE AdministrationNext
  <2>1. CASE \E d \in Conn, a \in Admin, f \in Source : BeginChange(d, a, f)
    BY <1>3, <2>1 DEF BeginChange
  <2>2. CASE \E d \in Conn : ChangeAuthorize(d)
    BY <1>3, <2>2 DEF ChangeAuthorize, Keep
  <2> QED
    BY <1>1, <1>2, <1>6, <2>1, <2>2 DEF AdministrationNext, Authorize, Revoke, ChangeCommit
<1> QED
  BY <1>1, <1>2, <1>4, <1>5, <1>6 DEF PostgresNext, Tick, Abort, postgresVars

\* A creation that goes on with a lock more is the same creation.
LEMMA CreateGoes ==
    ASSUME PostgresTypeOK, NEW c \in Conn, CreatePolicy(c) \/ CreateCount(c)
    PROVE  /\ c \in Busy /\ IsCreate(conns[c])
           /\ conns'[c].op = "create" /\ conns'[c].got = conns[c].got + 1
           /\ conns'[c].user = conns[c].user /\ conns'[c].key = conns[c].key
           /\ conns'[c].challenge = conns[c].challenge /\ conns'[c].source = conns[c].source
           /\ CreatePolicy(c) => conns[c].got = 1
           /\ CreateCount(c) => conns[c].got = 2
<1>1. CASE CreatePolicy(c)
  <2>1. Asks(c, "create", 2)
    BY <1>1 DEF CreatePolicy
  <2>2. c \in Busy /\ IsCreate(conns[c]) /\ conns[c].got = 1
    <3>1. c \in Busy /\ IsCreate(conns[c])
      BY <2>1, Asking
    <3> QED
      BY <2>1, <3>1 DEF Asks
  <2>3. conns'[c] = [conns[c] EXCEPT !.got = @ + 1]
    BY <1>1 DEF CreatePolicy, Keep, PostgresTypeOK, ConnsOK
  <2>4. ~CreateCount(c)
    BY <2>2 DEF CreateCount, Asks
  <2> QED
    BY <2>2, <2>3, <2>4 DEF IsCreate
<1>2. CASE CreateCount(c)
  <2>1. Asks(c, "create", 3)
    BY <1>2 DEF CreateCount
  <2>2. c \in Busy /\ IsCreate(conns[c]) /\ conns[c].got = 2
    <3>1. c \in Busy /\ IsCreate(conns[c])
      BY <2>1, Asking
    <3> QED
      BY <2>1, <3>1 DEF Asks
  <2> DEFINE at == [conns[c] EXCEPT !.at = now]
  <2>3. conns'[c] = [at EXCEPT !.got = at.got + 1]
    BY <1>2 DEF CreateCount, Keep, PostgresTypeOK, ConnsOK
  <2>4. at = [op |-> "create", plan |-> AdmissionLocks(conns[c].user, conns[c].challenge),
              got |-> conns[c].got, user |-> conns[c].user, key |-> conns[c].key,
              challenge |-> conns[c].challenge, source |-> conns[c].source, at |-> now]
    BY <2>2 DEF IsCreate
  <2>5. ~CreatePolicy(c)
    BY <2>2 DEF CreatePolicy, Asks
  <2> HIDE DEF at
  <2> QED
    BY <2>2, <2>3, <2>4, <2>5
<1> QED
  BY <1>1, <1>2

\* A change that has its first lock is the same change.
LEMMA ChangeGoes ==
    ASSUME PostgresTypeOK, NEW c \in Conn, ChangeAuthorize(c)
    PROVE  /\ c \in Busy /\ IsChange(conns[c])
           /\ conns'[c].op = "change" /\ conns'[c].seen = conns[c].seen
<1>1. Asks(c, "change", 1) /\ conns'[c] = [conns[c] EXCEPT !.got = @ + 1]
  BY DEF ChangeAuthorize, Keep, PostgresTypeOK, ConnsOK
<1>2. c \in Busy /\ IsChange(conns[c])
  BY <1>1, Asking
<1> QED
  BY <1>1, <1>2 DEF IsChange

\* What a connection has in mind when it begins.
LEMMA Begun ==
    ASSUME PostgresTypeOK, NEW c \in Conn
    PROVE  /\ \A u, k, ch, f : CreateLookup(c, u, k, ch, f) =>
                  /\ conns'[c].op = "create" /\ conns'[c].got = 1
                  /\ conns'[c].user = u /\ conns'[c].key = k
           /\ \A s : ClaimRow(c, s) =>
                  conns'[c].op = "claim" /\ conns'[c].sub = s /\ conns'[c].user = rows[s].user
           /\ \A a, f : BeginChange(c, a, f) => conns'[c].op = "change" /\ conns'[c].seen = policy
<1>1. ASSUME NEW u, NEW k, NEW ch, NEW f, CreateLookup(c, u, k, ch, f)
      PROVE  /\ conns'[c].op = "create" /\ conns'[c].got = 1
             /\ conns'[c].user = u /\ conns'[c].key = k
  BY <1>1 DEF CreateLookup, PostgresTypeOK, ConnsOK
<1>2. ASSUME NEW s, ClaimRow(c, s)
      PROVE  conns'[c].op = "claim" /\ conns'[c].sub = s /\ conns'[c].user = rows[s].user
  BY <1>2 DEF ClaimRow, PostgresTypeOK, ConnsOK
<1>3. ASSUME NEW a, NEW f, BeginChange(c, a, f)
      PROVE  conns'[c].op = "change" /\ conns'[c].seen = policy
  BY <1>3 DEF BeginChange, PostgresTypeOK, ConnsOK
<1> QED
  BY <1>1, <1>2, <1>3

\* Every step keeps the locked rows of claims queued.
LEMMA ClaimStep ==
    ASSUME PostgresTypeOK, ClaimInv, Exclusive, [PostgresNext]_postgresVars
    PROVE  ClaimInv'
<1> SUFFICES ASSUME NEW c \in Busy', conns'[c].op = "claim"
             PROVE  LET s == conns'[c].sub
                    IN  /\ rows'[s].status = "queued" /\ tries'[s] < MaxAttempts
                        /\ rows'[s].user = conns'[c].user
  BY DEF ClaimInv
<1>0. c \in Conn
  BY DEF Busy
<1>1. CASE c \in Busy /\ conns'[c] = conns[c]
  <2>1. IsClaim(conns[c])
    BY <1>1, Operations DEF PostgresTypeOK, ConnsOK, IsCall
  <2>2. LET s == conns[c].sub IN rows'[s] = rows[s] /\ tries'[s] = tries[s]
    BY <1>1, <2>1, ClaimedRow
  <2> QED
    BY <1>1, <2>2 DEF ClaimInv
<1>2. CASE \E s \in Submission : ClaimRow(c, s)
  <2>1. PICK s \in Submission : ClaimRow(c, s)
    BY <1>2
  <2>2. conns'[c].sub = s /\ conns'[c].user = rows[s].user
    BY <1>0, <2>1, Begun
  <2>3. rows' = rows /\ tries' = tries /\ rows[s].status = "queued" /\ tries[s] < MaxAttempts
    BY <2>1 DEF ClaimRow, table
  <2> QED
    BY <2>2, <2>3
<1>3. CASE CreatePolicy(c) \/ CreateCount(c)
  BY <1>0, <1>3, CreateGoes
<1>4. CASE ChangeAuthorize(c)
  BY <1>0, <1>4, ChangeGoes
<1>5. CASE \E u \in User, k \in Key, ch \in Challenge : \E f \in SourcesOf(ch) : CreateLookup(c, u, k, ch, f)
  BY <1>0, <1>5, Begun
<1>6. CASE \E a \in Admin, f \in Source : BeginChange(c, a, f)
  BY <1>0, <1>6, Begun
<1> QED
  BY <1>1, <1>2, <1>3, <1>4, <1>5, <1>6, ConnMoves

----------------------------------------------------------------------------
\* What a creation has found out under its locks stays so until it commits.
CreateInv ==
    \A c \in Busy : conns[c].op = "create" =>
        /\ ~KeyKnown(conns[c].user, conns[c].key)
        /\ conns[c].got >= 2 => ~Paused(conns[c].challenge, conns[c].source)
        /\ conns[c].got = 3 => Cardinality(Backlog) < QueueDepth[conns[c].challenge]

\* The backlog is part of the table.
LEMMA BacklogFinite ==
    ASSUME PostgresTypeOK
    PROVE  IsFiniteSet(Backlog) /\ Cardinality(Backlog) \in Nat
<1>1. Backlog \subseteq Rows
  BY DEF Backlog
<1> QED
  BY <1>1, FS_Subset, FS_CardinalityType DEF PostgresTypeOK

\* Without a creation that commits, no key and no outstanding row is new.
LEMMA NothingNew ==
    ASSUME PostgresTypeOK, ClaimInv, [PostgresNext]_postgresVars,
           \A c \in Conn : ~CreateCommit(c)
    PROVE  RowsKept
<1>1. CASE EvaluationNext
  BY <1>1, RowsKeptBy
<1>2. CASE UNCHANGED rows
  BY <1>2 DEF RowsKept
<1>3. AdmissionNext => UNCHANGED rows
  BY DEF AdmissionNext, CreateLookup, CreatePolicy, CreateCount, table
<1>4. AdministrationNext => UNCHANGED rows
  BY DEF AdministrationNext, Authorize, Revoke, ChangeAuthorize, ChangeCommit, BeginChange, table
<1> QED
  BY <1>1, <1>2, <1>3, <1>4 DEF PostgresNext, Tick, Abort, postgresVars, table

\* A step that admits nothing adds no row, no key and nothing to the backlog.
LEMMA KeptTable ==
    ASSUME RowsKept
    PROVE  /\ Rows' = Rows /\ Backlog' \subseteq Backlog
           /\ \A u, k : KeyKnown(u, k)' => KeyKnown(u, k)
<1>1. Rows' = Rows
  BY DEF RowsKept, Rows
<1>2. Backlog' \subseteq Backlog
  BY <1>1 DEF RowsKept, Backlog, Rows
<1>3. ASSUME NEW u, NEW k, KeyKnown(u, k)' PROVE KeyKnown(u, k)
  <2>1. PICK s \in Rows' : rows'[s].user = u /\ rows'[s].key = k
    BY <1>3 DEF KeyKnown
  <2>2. s \in Rows /\ rows[s].user = u /\ rows[s].key = k
    BY <1>1, <2>1 DEF RowsKept, Rows
  <2> QED
    BY <2>2 DEF KeyKnown
<1> QED
  BY <1>1, <1>2, <1>3

\* What the commit of a submission writes, and under which locks.
LEMMA Commits ==
    ASSUME PostgresTypeOK, NEW c \in Conn, CreateCommit(c)
    PROVE  /\ c \in Busy /\ conns'[c] = Idle /\ IsCreate(conns[c]) /\ conns[c].got = 3
           /\ conns[c].op = "create"
           /\ policy' = policy
           /\ \E s \in Submission \ Rows :
                 /\ Rows' = Rows \cup {s} /\ Backlog' = Backlog \cup {s} /\ s \notin Backlog
                 /\ rows'[s].user = conns[c].user /\ rows'[s].key = conns[c].key
                 /\ \A t \in Rows : rows'[t] = rows[t]
<1>1. Asks(c, "create", 4) /\ Leave(c) /\ policy' = policy
  BY DEF CreateCommit
<1>2. c \in Busy /\ IsCreate(conns[c])
  BY <1>1, Asking
<1>3. conns[c].got = 3 /\ conns[c].op = "create" /\ conns'[c] = Idle
  BY <1>1 DEF Asks, Leave, PostgresTypeOK, ConnsOK
<1>4. PICK s \in Submission \ Rows :
         rows' = [rows EXCEPT ![s] =
             [status |-> "queued", user |-> conns[c].user, key |-> conns[c].key,
              challenge |-> conns[c].challenge, at |-> conns[c].at, lease |-> 0]]
  BY DEF CreateCommit
<1>5. /\ rows'[s].status = "queued" /\ rows'[s].user = conns[c].user
      /\ rows'[s].key = conns[c].key
      /\ \A t \in Submission \ {s} : rows'[t] = rows[t]
  BY <1>4 DEF PostgresTypeOK
<1>6. Rows' = Rows \cup {s} /\ \A t \in Rows : rows'[t] = rows[t]
  BY <1>5 DEF Rows
<1>7. Backlog' = Backlog \cup {s} /\ s \notin Backlog
  BY <1>5, <1>6 DEF Backlog, Rows, Outstanding
<1> QED
  BY <1>1, <1>2, <1>3, <1>5, <1>6, <1>7

\* A submission that commits finds its key unused and room in the queue.
LEMMA CommitFits ==
    ASSUME PostgresTypeOK, CreateInv, NEW c \in Conn, CreateCommit(c)
    PROVE  /\ ~KeyKnown(conns[c].user, conns[c].key)
           /\ Cardinality(Backlog') <= QueueDepth[conns[c].challenge]
<1>1. /\ c \in Busy /\ conns[c].op = "create" /\ conns[c].got = 3
      /\ conns[c].challenge \in Challenge
  BY Commits DEF IsCreate
<1>2. ~KeyKnown(conns[c].user, conns[c].key)
      /\ Cardinality(Backlog) < QueueDepth[conns[c].challenge]
  BY <1>1 DEF CreateInv
<1>3. PICK s \in Submission \ Rows : Backlog' = Backlog \cup {s} /\ s \notin Backlog
  BY Commits
<1>4. Cardinality(Backlog') = Cardinality(Backlog) + 1
  BY <1>3, BacklogFinite, FS_AddElement
<1>5. Cardinality(Backlog) \in Nat /\ QueueDepth[conns[c].challenge] \in Nat
  BY <1>1, BacklogFinite, LimitsAssumption
<1> QED
  BY <1>2, <1>4, <1>5

\* Every step keeps the keys unique.
LEMMA KeysStep ==
    ASSUME PostgresTypeOK, ClaimInv, CreateInv, KeysAreUnique, [PostgresNext]_postgresVars
    PROVE  KeysAreUnique'
<1>1. CASE RowsKept
  BY <1>1, KeptTable DEF KeysAreUnique, RowsKept, Rows
<1>2. ASSUME NEW c \in Conn, CreateCommit(c) PROVE KeysAreUnique'
  <2>1. PICK s \in Submission \ Rows :
           /\ Rows' = Rows \cup {s}
           /\ rows'[s].user = conns[c].user /\ rows'[s].key = conns[c].key
           /\ \A t \in Rows : rows'[t] = rows[t]
    BY <1>2, Commits
  <2>2. ~KeyKnown(conns[c].user, conns[c].key)
    BY <1>2, CommitFits
  <2>3. ASSUME NEW t \in Rows', NEW u \in Rows', rows'[t].user = rows'[u].user,
               rows'[t].key = rows'[u].key
        PROVE  t = u
    BY <2>1, <2>2, <2>3 DEF KeyKnown, KeysAreUnique
  <2> QED
    BY <2>3 DEF KeysAreUnique
<1> QED
  BY <1>1, <1>2, NothingNew

\* The policy changes under the lock of its task only.
LEMMA PolicyLocked ==
    ASSUME PostgresTypeOK, [PostgresNext]_postgresVars, policy' # policy
    PROVE  \E c \in Conn : ChangeCommit(c) /\ Free(Task) /\ c \in Busy /\ IsChange(conns[c])
<1>1. PICK c \in Conn : ChangeCommit(c)
  BY DEF PostgresNext, AdmissionNext, AdministrationNext, EvaluationNext, CreateLookup, CreatePolicy,
         CreateCount, CreateCommit, ChangeAuthorize, BeginChange, Authorize, Revoke, Abort, Tick,
         postgresVars, ClaimRow, ClaimDecide, RetrySubmission, CompleteSuccess, Conclude,
         ExpireLeases, ExpireQueuedDeadlines, BeginSweep, SweepRow, SweepCommit
<1>2. Asks(c, "change", 2) /\ Free(Wanted(c))
  BY <1>1 DEF ChangeCommit
<1>3. c \in Busy /\ IsChange(conns[c])
  BY <1>2, Asking
<1>4. conns[c].got = 1
  BY <1>2 DEF Asks
<1>5. Wanted(c) = Task
  BY <1>3, <1>4, ChangeHolds, HeldIs
<1> QED
  BY <1>1, <1>2, <1>3, <1>5

\* Every step keeps what a submission under its locks has read.
LEMMA CreateStep ==
    ASSUME PostgresTypeOK, ClaimInv, Exclusive, CreateInv, [PostgresNext]_postgresVars
    PROVE  CreateInv'
<1> SUFFICES ASSUME NEW c \in Busy', conns'[c].op = "create"
             PROVE  /\ ~KeyKnown(conns[c].user, conns[c].key)'
                    /\ conns'[c].got >= 2 => ~Paused(conns[c].challenge, conns[c].source)'
                    /\ conns'[c].got = 3 =>
                           Cardinality(Backlog') < QueueDepth[conns'[c].challenge]
  BY DEF CreateInv
<1>0. c \in Conn
  BY DEF Busy
<1>1. CASE c \in Busy /\ conns'[c] = conns[c]
  <2>0. c \in Busy /\ conns'[c] = conns[c] /\ conns[c].op = "create" /\ IsCreate(conns[c])
    BY <1>1, Operations DEF PostgresTypeOK, ConnsOK, IsCall
  <2>1. /\ ~KeyKnown(conns[c].user, conns[c].key)
        /\ conns[c].got >= 2 => ~Paused(conns[c].challenge, conns[c].source)
        /\ conns[c].got = 3 => Cardinality(Backlog) < QueueDepth[conns[c].challenge]
    BY <2>0 DEF CreateInv
  <2>2. conns[c].got >= 2 => ~Paused(conns[c].challenge, conns[c].source)'
    <3> SUFFICES ASSUME conns[c].got >= 2, policy' # policy
                 PROVE  ~Paused(conns[c].challenge, conns[c].source)'
      BY <2>0, <2>1 DEF Paused
    <3>1. Free(Task)
      BY PolicyLocked
    <3>2. conns[c].challenge \in Held(c)
      BY <2>0, CreateHolds, HeldIs
    <3> QED
      BY <2>0, <3>1, <3>2 DEF Free, Paused
  <2>3. CASE RowsKept
    <3>1. ~KeyKnown(conns[c].user, conns[c].key)'
      BY <2>1, <2>3, KeptTable, <2>0
    <3>2. ASSUME conns[c].got = 3
          PROVE  Cardinality(Backlog') < QueueDepth[conns[c].challenge]
      <4>1. Cardinality(Backlog') <= Cardinality(Backlog) /\ IsFiniteSet(Backlog')
        BY <2>3, KeptTable, BacklogFinite, FS_Subset
      <4>2. /\ Cardinality(Backlog) \in Nat /\ Cardinality(Backlog') \in Nat
            /\ QueueDepth[conns[c].challenge] \in Nat
        BY <2>0, <4>1, BacklogFinite, FS_CardinalityType, LimitsAssumption DEF IsCreate
      <4> QED
        BY <2>1, <3>2, <4>1, <4>2
    <3> QED
      BY <2>0, <2>2, <3>1, <3>2
  <2>4. ASSUME NEW d \in Conn, CreateCommit(d)
        PROVE  /\ ~KeyKnown(conns[c].user, conns[c].key)'
               /\ conns[c].got # 3
    <3>1. d \in Busy /\ d # c /\ IsCreate(conns[d]) /\ conns[d].got = 3
      <4>1. d \in Busy /\ conns'[d] = Idle /\ IsCreate(conns[d]) /\ conns[d].got = 3
        BY <2>4, Commits
      <4> QED
        BY <2>0, <4>1 DEF Busy
    <3>2. conns[d].user \in Held(d) /\ Queue \in Held(d) /\ conns[c].user \in Held(c)
          /\ (conns[c].got = 3 => Queue \in Held(c))
      BY <2>0, <3>1, CreateHolds, HeldIs
    <3>3. conns[c].user # conns[d].user /\ conns[c].got # 3
      BY <2>0, <3>1, <3>2 DEF Exclusive
    <3>4. PICK s \in Submission \ Rows :
             /\ Rows' = Rows \cup {s}
             /\ rows'[s].user = conns[d].user
             /\ \A t \in Rows : rows'[t] = rows[t]
      BY <2>4, Commits
    <3>5. ASSUME KeyKnown(conns[c].user, conns[c].key)' PROVE FALSE
      <4>1. PICK t \in Rows' : rows'[t].user = conns'[c].user /\ rows'[t].key = conns'[c].key
        BY <3>5 DEF KeyKnown
      <4> QED
        BY <2>0, <2>1, <3>3, <3>4, <4>1 DEF KeyKnown
    <3> QED
      BY <3>3, <3>5
  <2> QED
    BY <2>0, <2>2, <2>3, <2>4, NothingNew
<1>2. CASE \E u \in User, k \in Key, ch \in Challenge : \E f \in SourcesOf(ch) : CreateLookup(c, u, k, ch, f)
  <2>1. PICK u \in User, k \in Key, ch \in Challenge : \E f \in SourcesOf(ch) : CreateLookup(c, u, k, ch, f)
    BY <1>2
  <2>11. PICK f \in SourcesOf(ch) : CreateLookup(c, u, k, ch, f)
    BY <2>1
  <2>2. ~KeyKnown(u, k) /\ rows' = rows
    BY <2>11 DEF CreateLookup, table
  <2>3. conns'[c].user = u /\ conns'[c].key = k /\ conns'[c].got = 1
    BY <1>0, <2>1, <2>11, Begun
  <2> QED
    BY <2>2, <2>3 DEF KeyKnown, Rows
<1>3. CASE CreatePolicy(c) \/ CreateCount(c)
  <2>1. /\ c \in Busy /\ IsCreate(conns[c]) /\ conns[c].op = "create"
        /\ conns'[c].got = conns[c].got + 1
        /\ conns'[c].user = conns[c].user /\ conns'[c].key = conns[c].key
        /\ conns'[c].challenge = conns[c].challenge /\ conns'[c].source = conns[c].source
        /\ CreatePolicy(c) => conns[c].got = 1
        /\ CreateCount(c) => conns[c].got = 2
    BY <1>0, <1>3, CreateGoes, Operations
  <2>2. rows' = rows /\ policy' = policy
    BY <1>3 DEF CreatePolicy, CreateCount, table
  <2>3. ~KeyKnown(conns[c].user, conns[c].key)'
    BY <2>1, <2>2 DEF CreateInv, KeyKnown, Rows
  <2>4. CASE CreatePolicy(c)
    BY <2>1, <2>2, <2>3, <2>4 DEF CreatePolicy, Paused
  <2>5. CASE CreateCount(c)
    BY <2>1, <2>2, <2>3, <2>5 DEF CreateCount, Paused, CreateInv, Backlog, Rows
  <2> QED
    BY <1>3, <2>4, <2>5
<1>4. CASE ChangeAuthorize(c)
  BY <1>0, <1>4, ChangeGoes
<1>5. CASE \E s \in Submission : ClaimRow(c, s)
  BY <1>0, <1>5, Begun
<1>6. CASE \E a \in Admin, f \in Source : BeginChange(c, a, f)
  BY <1>0, <1>6, Begun
<1> QED
  BY <1>1, <1>2, <1>3, <1>4, <1>5, <1>6, ConnMoves

----------------------------------------------------------------------------
\* What the texts of a policy were written for, and for whom it was opened.
PolicyInv ==
    /\ policy.draft \in {NoSource, policy.source}
    /\ policy.published \in {NoSource, policy.publishedFor}
    /\ policy.source = NoSource => ~policy.closed

\* The policy that was shown is an earlier one, or still the one that is there.
ChangeInv ==
    \A c \in Busy : conns[c].op = "change" =>
        /\ conns[c].seen.revision <= policy.revision
        /\ conns[c].seen.revision = policy.revision => conns[c].seen = policy

\* A change of administration raises the revision by one and keeps the record of reviews.
LEMMA Changed ==
    ASSUME policy \in Policy, PolicyInv, NEW g \in Source, NEW b \in BOOLEAN,
           policy' \in Changes(policy, g, b)
    PROVE  /\ PolicyInv' /\ policy'.revision = policy.revision + 1
           /\ \A f \in Source :
                 /\ ClosedFor(policy, f) /\ ~ClosedFor(policy', f) =>
                        policy'.draft = policy.draft /\ policy.source = f
                 /\ Shown(policy', f) \in {NoSource, f}
<1> USE SourceAssumption
<1>1. CASE policy' = Save(policy, g)
  <2>1. /\ policy'.draft = g /\ policy'.source = g /\ policy'.revision = policy.revision + 1
        /\ policy'.published = policy.published /\ policy'.publishedFor = policy.publishedFor
        /\ policy'.closed = (policy.closed \/ ~MatchesSource(policy, g))
    BY <1>1 DEF Save, Revised, Policy
  <2> QED
    BY <2>1 DEF PolicyInv, ClosedFor, MatchesSource, Shown
<1>2. CASE policy' = Publish(policy, g) /\ MatchesSource(policy, g) /\ policy.draft # NoSource
  <2>1. /\ policy'.draft = policy.draft /\ policy'.source = g
        /\ policy'.revision = policy.revision + 1
        /\ policy'.published = policy.draft /\ policy'.publishedFor = g
        /\ policy'.closed = policy.closed
    BY <1>2 DEF Publish, Revised, Policy
  <2> QED
    BY <1>2, <2>1 DEF PolicyInv, ClosedFor, MatchesSource, Shown
<1>3. ASSUME NEW x \in BOOLEAN, policy' = Admissions(policy, g, x), MatchesSource(policy, g)
      PROVE  /\ PolicyInv' /\ policy'.revision = policy.revision + 1
             /\ \A f \in Source :
                   /\ ClosedFor(policy, f) /\ ~ClosedFor(policy', f) =>
                          policy'.draft = policy.draft /\ policy.source = f
                   /\ Shown(policy', f) \in {NoSource, f}
  <2>1. /\ policy'.draft = policy.draft /\ policy'.source = g
        /\ policy'.revision = policy.revision + 1
        /\ policy'.published = policy.published /\ policy'.publishedFor = policy.publishedFor
    BY <1>3 DEF Admissions, Revised, Policy
  <2> QED
    BY <1>3, <2>1 DEF PolicyInv, ClosedFor, MatchesSource, Shown
<1> QED
  BY <1>1, <1>2, <1>3 DEF Changes

\* A change that is committed was made for the policy it replaces.
LEMMA ChangeCommits ==
    ASSUME PostgresTypeOK, PolicyInv, ChangeInv, [PostgresNext]_postgresVars, policy' # policy
    PROVE  /\ \E c \in Busy : /\ conns'[c] = Idle /\ conns[c].op = "change"
                              /\ Authorized(conns[c].user) /\ conns[c].seen = policy
           /\ PolicyInv' /\ policy'.revision = policy.revision + 1
           /\ \A f \in Source :
                 /\ ClosedFor(policy, f) /\ ~ClosedFor(policy', f) =>
                        policy'.draft = policy.draft /\ policy.source = f
                 /\ Shown(policy', f) \in {NoSource, f}
<1>1. PICK c \in Conn : ChangeCommit(c) /\ c \in Busy /\ IsChange(conns[c])
  BY PolicyLocked
<1>2. conns[c].source \in Source /\ conns[c].op = "change"
  BY <1>1, Operations DEF IsChange
<1>3. PICK b \in BOOLEAN : policy' \in Changes(policy, conns[c].source, b)
  BY <1>1 DEF ChangeCommit
<1>4. /\ conns'[c] = Idle /\ Authorized(conns[c].user)
      /\ policy.revision = conns[c].seen.revision
  BY <1>1 DEF ChangeCommit, Leave, PostgresTypeOK, ConnsOK
<1>5. conns[c].seen = policy
  BY <1>1, <1>2, <1>4 DEF ChangeInv
<1>6. policy \in Policy
  BY DEF PostgresTypeOK
<1> QED
  BY <1>1, <1>2, <1>3, <1>4, <1>5, <1>6, Changed

\* Every step keeps what a change of administration has read.
LEMMA ChangeStep ==
    ASSUME PostgresTypeOK, PolicyInv, ChangeInv, [PostgresNext]_postgresVars
    PROVE  PolicyInv' /\ ChangeInv'
<1>1. PolicyInv' /\ (policy' = policy \/ policy'.revision = policy.revision + 1)
  BY ChangeCommits DEF PolicyInv
<1>2. ASSUME NEW c \in Busy', conns'[c].op = "change"
      PROVE  /\ conns'[c].seen.revision <= policy'.revision
             /\ conns'[c].seen.revision = policy'.revision => conns'[c].seen = policy'
  <2>0. c \in Conn /\ policy.revision \in Nat
    BY DEF Busy, PostgresTypeOK, Policy
  <2>1. CASE c \in Busy /\ conns[c].op = "change" /\ conns'[c].seen = conns[c].seen
    <3>1. /\ conns[c].seen.revision <= policy.revision
          /\ conns[c].seen.revision = policy.revision => conns[c].seen = policy
      BY <2>1 DEF ChangeInv
    <3>2. conns[c].seen.revision \in Nat
      BY <2>1, Operations DEF PostgresTypeOK, ConnsOK, IsCall, IsChange, Policy
    <3> QED
      BY <1>1, <2>0, <2>1, <3>1, <3>2
  <2>2. CASE \E a \in Admin, f \in Source : BeginChange(c, a, f)
    <3>1. policy' = policy
      BY <2>2 DEF BeginChange
    <3>2. conns'[c].seen = policy
      BY <2>0, <2>2, Begun
    <3> QED
      BY <2>0, <3>1, <3>2
  <2>3. CASE CreatePolicy(c) \/ CreateCount(c)
    BY <1>2, <2>0, <2>3, CreateGoes
  <2>4. CASE ChangeAuthorize(c)
    BY <2>0, <2>1, <2>4, ChangeGoes, Operations
  <2>5. CASE \E u \in User, k \in Key, ch \in Challenge : \E f \in SourcesOf(ch) : CreateLookup(c, u, k, ch, f)
    BY <1>2, <2>0, <2>5, Begun
  <2>6. CASE \E s \in Submission : ClaimRow(c, s)
    BY <1>2, <2>0, <2>6, Begun
  <2> QED
    BY <1>2, <2>1, <2>2, <2>3, <2>4, <2>5, <2>6, ConnMoves
<1> QED
  BY <1>1, <1>2 DEF ChangeInv

----------------------------------------------------------------------------
\* The invariant of the store.
PostgresInv ==
    /\ PostgresTypeOK /\ ClaimInv /\ Exclusive /\ CreateInv /\ KeysAreUnique /\ PolicyInv /\ ChangeInv

\* The first state satisfies the invariant.
LEMMA PostgresInitInv == PostgresInit => PostgresInv
<1> SUFFICES ASSUME PostgresInit PROVE PostgresInv
  OBVIOUS
<1>1. Busy = {} /\ Rows = {}
  BY DEF PostgresInit, Busy, Rows, NoRow
<1>2. PostgresTypeOK
  <2>1. rows \in [Submission -> Row]
    BY DEF PostgresInit, NoRow, Row, Lifecycle!Phase
  <2>2. policy \in Policy
    BY DEF PostgresInit, NoPolicy, Policy
  <2>3. ConnsOK
    BY <1>1 DEF ConnsOK, PostgresInit
  <2> QED
    BY <1>1, <2>1, <2>2, <2>3, FS_EmptySet DEF PostgresTypeOK, PostgresInit
<1>3. KeysAreUnique
  BY <1>1 DEF KeysAreUnique
<1>4. PolicyInv
  BY DEF PolicyInv, PostgresInit, NoPolicy
<1> QED
  BY <1>1, <1>2, <1>3, <1>4 DEF PostgresInv, ClaimInv, Exclusive, CreateInv, ChangeInv

\* Every step keeps the invariant.
LEMMA PostgresStep == PostgresInv /\ [PostgresNext]_postgresVars => PostgresInv'
BY TypeStep, ClaimStep, ExclusiveStep, CreateStep, KeysStep, ChangeStep DEF PostgresInv

\* The variables keep their types, for any connections, tasks, users and limits.
THEOREM PostgresTypes == PostgresSpec => []PostgresTypeOK
<1>1. PostgresInv => PostgresTypeOK
  BY DEF PostgresInv
<1> QED
  BY PostgresInitInv, PostgresStep, <1>1, PTL DEF PostgresSpec

\* No key is used for two rows, and no submission is admitted beyond the depth that
\* the contract of its task gives the queue, for any number of connections at READ
\* COMMITTED.
THEOREM AdmissionsStayBounded == PostgresSpec => AdmissionsBounded
<1>1. PostgresInv => KeysAreUnique
  BY DEF PostgresInv
<1>2. ASSUME PostgresInv, [PostgresNext]_postgresVars
      PROVE  [\A c \in Conn : CreateCommit(c) =>
                 Cardinality(Backlog') <= QueueDepth[conns[c].challenge]]_postgresVars
  <2>1. \A c \in Conn : CreateCommit(c) =>
           Cardinality(Backlog') <= QueueDepth[conns[c].challenge]
    BY <1>2, CommitFits DEF PostgresInv
  <2> QED
    BY <2>1
<1> QED
  BY PostgresInitInv, PostgresStep, <1>1, <1>2, PTL DEF PostgresSpec, AdmissionsBounded

\* Only sweeps, which lock the rows they found one by one and in any order, can wait
\* for each other: everybody else asks for the locks in one order, however many
\* connections there are, and is never part of a cycle, not even with sweeps.
THEOREM LocksAreOrdered == PostgresSpec => []NoLockCycle
<1>1. PostgresInv => NoLockCycle
  BY NoCycle DEF PostgresInv
<1> QED
  BY PostgresInitInv, PostgresStep, <1>1, PTL DEF PostgresSpec

\* No submission is admitted once a change that closes its task is committed.
THEOREM ClosedMeansClosed == PostgresSpec => NothingAdmittedWhenClosed
<1>1. ASSUME PostgresInv, [PostgresNext]_postgresVars
      PROVE  [\A c \in Conn : CreateCommit(c) =>
                 ~Paused(conns[c].challenge, conns[c].source)]_postgresVars
  <2>1. ASSUME NEW c \in Conn, CreateCommit(c)
        PROVE  ~Paused(conns[c].challenge, conns[c].source)
    <3>1. c \in Busy /\ conns[c].op = "create" /\ conns[c].got >= 2
      BY <1>1, <2>1, Commits DEF PostgresInv
    <3> QED
      BY <1>1, <3>1 DEF PostgresInv, CreateInv
  <2> QED
    BY <2>1
<1> QED
  BY PostgresInitInv, PostgresStep, <1>1, PTL DEF PostgresSpec, NothingAdmittedWhenClosed

\* Every change of the policy was made by an administrator who still is one, for
\* the policy it replaces, and only an administrator opens a task for a source.
THEOREM ChangesInformed == PostgresSpec => ChangesAreInformed
<1> DEFINE Informed ==
      policy' # policy =>
          /\ \E c \in Busy : /\ conns'[c] = Idle
                             /\ conns[c].op = "change"
                             /\ Authorized(conns[c].user)
                             /\ conns[c].seen = policy
          /\ \A f \in Source :
                /\ ClosedFor(policy, f) /\ ~ClosedFor(policy', f) =>
                       policy'.draft = policy.draft /\ policy.source = f
                /\ Shown(policy', f) \in {NoSource, f}
<1>1. PostgresInv /\ [PostgresNext]_postgresVars => [Informed]_postgresVars
  BY ChangeCommits DEF PostgresInv
<1> QED
  BY PostgresInitInv, PostgresStep, <1>1, PTL DEF PostgresSpec, ChangesAreInformed

----------------------------------------------------------------------------
\* The step of the lifecycle that an operation takes.
LEMMA Moved ==
    ASSUME PostgresTypeOK, NEW s \in Submission, NEW r, rows' = [rows EXCEPT ![s] = r]
    PROVE  Lifecycle!Move(s, rows[s].status, r.status)
BY DEF PostgresTypeOK, Lifecycle!Move

\* An end of an evaluation is a give-back or a judgement of the life cycle.
LEMMA Judged ==
    ASSUME PostgresTypeOK, NEW s \in Submission, NEW n,
           RetrySubmission(s, n) \/ CompleteSuccess(s, n)
           \/ \E status \in {"failed", "rejected"} : Conclude(s, n, status)
    PROVE  Lifecycle!GiveBack(s) \/ Lifecycle!Judge(s)
<1>1. CASE RetrySubmission(s, n)
  <2>1. /\ rows' = [rows EXCEPT ![s] = Ended(s, "queued")] /\ tries' = tries
        /\ rows[s].status = "running" /\ tries[s] < MaxAttempts
    BY <1>1 DEF RetrySubmission, Current, Matches
  <2>2. Ended(s, "queued").status = "queued"
    BY EndedRow DEF Lifecycle!Phase
  <2> QED
    BY <2>1, <2>2, Moved DEF Lifecycle!GiveBack
<1>2. ASSUME NEW v \in {"failed", "rejected", "succeeded"}, rows[s].status = "running",
             rows' = [rows EXCEPT ![s] = Ended(s, v)], tries' = tries
      PROVE  Lifecycle!Judge(s)
  <2>1. v \in Lifecycle!Phase /\ v \in Lifecycle!Final
    BY DEF Lifecycle!Phase, Lifecycle!Final
  <2>2. Ended(s, v).status = v
    BY <2>1, EndedRow
  <2>3. Lifecycle!Move(s, "running", v)
    BY <1>2, <2>2, Moved
  <2> QED
    BY <1>2, <2>1, <2>3 DEF Lifecycle!Judge
<1>3. CASE CompleteSuccess(s, n)
  BY <1>2, <1>3 DEF CompleteSuccess, Current, Matches
<1>4. ASSUME NEW status \in {"failed", "rejected"}, Conclude(s, n, status)
      PROVE  Lifecycle!Judge(s)
  <2> DEFINE v == IF DeadlineOf(s) <= now THEN "failed" ELSE status
  <2>1. v \in {"failed", "rejected", "succeeded"}
    OBVIOUS
  <2>2. rows[s].status = "running" /\ rows' = [rows EXCEPT ![s] = Ended(s, v)] /\ tries' = tries
    BY <1>4 DEF Conclude, Matches
  <2> HIDE DEF v
  <2> QED
    BY <1>2, <2>1, <2>2
<1> QED
  BY <1>1, <1>3, <1>4

\* A sweep lets the rows expire that it still finds lapsed.
LEMMA Expired ==
    ASSUME PostgresTypeOK, NEW c \in Conn, SweepCommit(c)
    PROVE  \E S \in SUBSET Submission : Lifecycle!Expire(S)
<1>1. PICK S \in SUBSET Submission :
         /\ \A s \in S : rows[s].status \in Outstanding
         /\ rows' = [s \in Submission |-> IF s \in S THEN Ended(s, "failed") ELSE rows[s]]
         /\ tries' = tries
  BY Swept
<1>2. \A s \in Submission : Ended(s, "failed").status = "failed"
  BY EndedRow DEF Lifecycle!Phase, Lifecycle!Final
<1>3. \A s \in Submission : rows'[s].status = IF s \in S THEN "failed" ELSE rows[s].status
  BY <1>1, <1>2
<1>4. Lifecycle!Expire(S)
  BY <1>1, <1>3 DEF Lifecycle!Expire, Outstanding
<1> QED
  BY <1>4

\* A decided claim starts a submission or lets it expire.
LEMMA Claimed ==
    ASSUME PostgresTypeOK, ClaimInv, NEW c \in Conn, ClaimDecide(c)
    PROVE  \E s \in Submission : Lifecycle!Start(s) \/ Lifecycle!Expire({s})
<1>0. PICK s \in Submission :
         s = conns[c].sub /\ rows[s].status = "queued" /\ tries[s] < MaxAttempts
  <2>1. IsClaim(conns[c]) /\ c \in Busy /\ conns[c].op = "claim"
    BY Asking, Operations DEF ClaimDecide
  <2> QED
    BY <2>1 DEF IsClaim, ClaimInv
<1>1. s \in Submission /\ rows[s].status = "queued" /\ tries[s] < MaxAttempts
  BY <1>0
<1> DEFINE until == IF now + Lease < DeadlineOf(s) THEN now + Lease ELSE DeadlineOf(s)
<1>2. \/ rows' = [rows EXCEPT ![s] = Ended(s, "failed")] /\ tries' = tries
      \/ /\ rows' = [rows EXCEPT ![s].status = "running", ![s].lease = until]
         /\ tries' = [tries EXCEPT ![s] = @ + 1]
  BY <1>0 DEF ClaimDecide
<1>3. CASE rows' = [rows EXCEPT ![s] = Ended(s, "failed")] /\ tries' = tries
  <2>1. Ended(s, "failed").status = "failed"
    BY <1>1, EndedRow DEF Lifecycle!Phase, Lifecycle!Final
  <2>2. \A t \in Submission : rows'[t].status = IF t = s THEN "failed" ELSE rows[t].status
    BY <1>1, <1>3, <2>1 DEF PostgresTypeOK
  <2>3. Lifecycle!Expire({s})
    BY <1>1, <1>3, <2>2 DEF Lifecycle!Expire
  <2> QED
    BY <1>1, <2>3
<1>4. CASE /\ rows' = [rows EXCEPT ![s].status = "running", ![s].lease = until]
           /\ tries' = [tries EXCEPT ![s] = @ + 1]
  <2> DEFINE r == [rows[s] EXCEPT !.status = "running", !.lease = until]
  <2> HIDE DEF until
  <2>1. rows' = [rows EXCEPT ![s] = r]
    BY <1>1, <1>4 DEF PostgresTypeOK, Row
  <2>2. r.status = "running"
    BY <1>1 DEF PostgresTypeOK, Row
  <2> HIDE DEF r
  <2>3. Lifecycle!Move(s, "queued", "running")
    BY <1>1, <2>1, <2>2, Moved
  <2>4. Lifecycle!Start(s)
    BY <1>1, <1>4, <2>3 DEF Lifecycle!Start
  <2> QED
    BY <1>1, <2>4
<1> QED
  BY <1>2, <1>3, <1>4

\* A commit of a submission accepts one.
LEMMA Accepted ==
    ASSUME PostgresTypeOK, NEW c \in Conn, CreateCommit(c)
    PROVE  \E s \in Submission : Lifecycle!Accept(s)
<1>1. PICK s \in Submission \ Rows :
         rows' = [rows EXCEPT ![s] =
             [status |-> "queued", user |-> conns[c].user, key |-> conns[c].key,
              challenge |-> conns[c].challenge, at |-> conns[c].at, lease |-> 0]]
  BY DEF CreateCommit
<1>2. tries' = tries /\ rows[s].status = "absent"
  BY DEF CreateCommit, Rows
<1>3. Lifecycle!Move(s, "absent", "queued")
  <2> DEFINE r == [status |-> "queued", user |-> conns[c].user, key |-> conns[c].key,
                   challenge |-> conns[c].challenge, at |-> conns[c].at, lease |-> 0]
  <2>1. r.status = "queued"
    OBVIOUS
  <2>2. rows' = [rows EXCEPT ![s] = r]
    BY <1>1
  <2> HIDE DEF r
  <2> QED
    BY <1>2, <2>1, <2>2, Moved
<1> QED
  BY <1>2, <1>3 DEF Lifecycle!Accept

\* Every transaction that commits is a step of the lifecycle or none.
LEMMA LifecycleSteps ==
    PostgresInv /\ [PostgresNext]_postgresVars
        => [Lifecycle!LifecycleNext]_(Lifecycle!lifecycleVars)
<1> SUFFICES ASSUME PostgresTypeOK, ClaimInv, [PostgresNext]_postgresVars
             PROVE  Lifecycle!LifecycleNext \/ UNCHANGED Lifecycle!lifecycleVars
  BY DEF PostgresInv
<1>1. CASE UNCHANGED <<rows, tries>>
  BY <1>1 DEF Lifecycle!lifecycleVars
<1>2. ASSUME NEW c \in Conn, CreateCommit(c) PROVE Lifecycle!LifecycleNext
  BY <1>2, Accepted DEF Lifecycle!LifecycleNext
<1>3. ASSUME NEW c \in Conn, ClaimDecide(c) PROVE Lifecycle!LifecycleNext
  <2>1. PICK s \in Submission : Lifecycle!Start(s) \/ Lifecycle!Expire({s})
    BY <1>3, Claimed
  <2>2. {s} \in SUBSET Submission
    OBVIOUS
  <2> QED
    BY <2>1, <2>2 DEF Lifecycle!LifecycleNext
<1>4. ASSUME NEW s \in Submission, NEW n,
             RetrySubmission(s, n) \/ CompleteSuccess(s, n)
             \/ \E status \in {"failed", "rejected"} : Conclude(s, n, status)
      PROVE  Lifecycle!LifecycleNext
  BY <1>4, Judged DEF Lifecycle!LifecycleNext
<1>5. ASSUME NEW c \in Conn, SweepCommit(c) PROVE Lifecycle!LifecycleNext
  BY <1>5, Expired DEF Lifecycle!LifecycleNext
<1>6. CASE EvaluationNext
  BY <1>1, <1>3, <1>4, <1>5, <1>6
  DEF EvaluationNext, ClaimRow, ExpireLeases, ExpireQueuedDeadlines, BeginSweep, SweepRow, table
<1>7. CASE AdmissionNext
  BY <1>1, <1>2, <1>7 DEF AdmissionNext, CreateLookup, CreatePolicy, CreateCount, table
<1>8. CASE AdministrationNext
  BY <1>1, <1>8
  DEF AdministrationNext, Authorize, Revoke, ChangeAuthorize, ChangeCommit, BeginChange, table
<1> QED
  BY <1>1, <1>6, <1>7, <1>8 DEF PostgresNext, Tick, Abort, postgresVars, table

\* The rows of PostgreSQL keep the promise of SubmissionLifecycle.
THEOREM PostgresImplementsLifecycle == PostgresSpec => PostgresLifecycle
<1>1. PostgresInit => Lifecycle!LifecycleInit
  BY DEF PostgresInit, Lifecycle!LifecycleInit, NoRow
<1> QED
  BY PostgresInitInv, PostgresStep, LifecycleSteps, <1>1, PTL
  DEF PostgresSpec, PostgresLifecycle, Lifecycle!LifecycleSpec

----------------------------------------------------------------------------
\* The two forms of a handler: at rest and under way.
Handler ==
    [at : {"idle"}]
    \cup [at : {"looking", "asking", "probing", "told", "confirming"},
          post : Post, trouble : BOOLEAN]
    \cup [at : {"writing"}, post : Post, time : Nat, trouble : BOOLEAN]

\* What a handler knows of the executor: it has seen it live, and what was wrong
\* when the model answered is still wrong, if only with the declaration.
HandlersInv ==
    \A v \in Visit :
        LET route == visits[v].post.route
        IN  /\ visits[v].at \notin {"idle", "looking"} => lifetime # "new"
            /\ visits[v].at = "told" /\ visits[v].trouble => ~RouteReady(route)
            /\ visits[v].at = "confirming" /\ visits[v].trouble => route \notin declared
            /\ visits[v].at = "writing" => ~visits[v].trouble

ApiTypeOK ==
    /\ clock \in Nat
    /\ declared \subseteq Route
    /\ lifetime \in {"new", "live", "over"}
    /\ faulted \in BOOLEAN /\ stopSet \in BOOLEAN
    /\ visits \in [Visit -> Handler]
    /\ \A e \in entries : e.id \in Nat /\ e.time \in Nat

VisitsInv == ApiTypeOK /\ HandlersInv

\* Every step of the API keeps what a visit has seen.
LEMMA VisitsStep == VisitsInv /\ [ApiNext]_apiVars => VisitsInv'
<1> SUFFICES ASSUME ApiTypeOK, HandlersInv, [ApiNext]_apiVars
             PROVE  ApiTypeOK' /\ HandlersInv'
  BY DEF VisitsInv
<1> USE ApiAssumption DEF ApiTypeOK
<1>1. ASSUME NEW v \in Visit, NEW post \in Post, Arrive(v, post)
      PROVE  ApiTypeOK' /\ HandlersInv'
  <2>1. visits' = [visits EXCEPT ![v] = [at |-> "looking", post |-> post, trouble |-> FALSE]]
    BY <1>1 DEF Arrive, Put
  <2>2. visits' \in [Visit -> Handler]
    BY <2>1 DEF Handler
  <2> QED
    BY <1>1, <2>1, <2>2 DEF Arrive, HandlersInv, switches, RouteReady, LocalReady
<1>2. ASSUME NEW v \in Visit, FirstLook(v)
      PROVE  ApiTypeOK' /\ HandlersInv'
  <2>1. visits[v] \in [at : {"looking"}, post : Post, trouble : BOOLEAN]
    BY <1>2 DEF FirstLook, At, Handler
  <2>2. \/ RouteReady(visits[v].post.route)
           /\ visits' = [visits EXCEPT ![v] = [at |-> "asking", post |-> visits[v].post,
                                               trouble |-> visits[v].trouble]]
        \/ visits' = [visits EXCEPT ![v] = [at |-> "idle"]]
    BY <1>2, <2>1 DEF FirstLook, Step, Put, Respond
  <2>3. visits' \in [Visit -> Handler]
    BY <2>1, <2>2 DEF Handler
  <2>4. HandlersInv'
    BY <1>2, <2>1, <2>2 DEF FirstLook, HandlersInv, switches, RouteReady, LocalReady
  <2> QED
    BY <1>2, <2>3, <2>4 DEF FirstLook, switches
<1>3. ASSUME NEW v \in Visit, At(v, "asking") \/ At(v, "probing"),
             visits' = [visits EXCEPT ![v] = [visits[v] EXCEPT !.at = "probing"]]
             \/ \E healthy \in BOOLEAN : Told(v, healthy),
             UNCHANGED <<clock, switches, entries, pages>>
      PROVE  ApiTypeOK' /\ HandlersInv'
  <2>1. visits[v] \in [at : {"asking", "probing"}, post : Post, trouble : BOOLEAN]
    BY <1>3 DEF At, Handler
  <2>2. \/ visits' = [visits EXCEPT ![v] = [at |-> "probing", post |-> visits[v].post,
                                            trouble |-> visits[v].trouble]]
        \/ visits' = [visits EXCEPT ![v] = [at |-> "told", post |-> visits[v].post,
                                            trouble |-> ~RouteReady(visits[v].post.route)]]
        \/ visits' = [visits EXCEPT ![v] = [at |-> "idle"]]
    BY <1>3, <2>1, ZenonT(60) DEF Told, Put, Respond
  <2>3. RouteReady(visits[v].post.route) \in BOOLEAN
    BY DEF RouteReady, LocalReady
  <2>4. visits' \in [Visit -> Handler]
    <3>1. ASSUME NEW t \in BOOLEAN
          PROVE  [at |-> "told", post |-> visits[v].post, trouble |-> t] \in Handler
      BY <2>1 DEF Handler
    <3>2. [at |-> "probing", post |-> visits[v].post, trouble |-> visits[v].trouble] \in Handler
      BY <2>1 DEF Handler
    <3>3. [at |-> "idle"] \in Handler
      BY DEF Handler
    <3>4. [at |-> "told", post |-> visits[v].post,
           trouble |-> ~RouteReady(visits[v].post.route)] \in Handler
      BY <2>3, <3>1
    <3> HIDE DEF Handler
    <3> QED
      BY <2>2, <3>2, <3>3, <3>4
  <2>5. HandlersInv'
    BY <1>3, <2>1, <2>2 DEF HandlersInv, switches, RouteReady, LocalReady
  <2> QED
    BY <1>3, <2>4, <2>5 DEF switches
<1>4. ASSUME NEW v \in Visit, AskModel(v) \/ Probed(v)
      PROVE  ApiTypeOK' /\ HandlersInv'
  <2>1. CASE Probed(v)
    BY <1>3, <2>1 DEF Probed
  <2>2. CASE AskModel(v) /\ Told(v, probe.healthy)
    <3>1. \E healthy \in BOOLEAN : Told(v, healthy)
      BY <2>2 DEF Told
    <3> QED
      BY <1>3, <2>2, <3>1 DEF AskModel
  <2>3. CASE AskModel(v) /\ Step(v, "probing")
    BY <1>3, <2>3 DEF AskModel, Step, Put
  <2> QED
    BY <1>4, <2>1, <2>2, <2>3 DEF AskModel
<1>5. ASSUME NEW v \in Visit, LookAgain(v)
      PROVE  ApiTypeOK' /\ HandlersInv'
  <2>1. visits[v] \in [at : {"told"}, post : Post, trouble : BOOLEAN]
    BY <1>5 DEF LookAgain, At, Handler
  <2>2. \/ LocalReady /\ ~stopSet
           /\ visits' = [visits EXCEPT ![v] = [at |-> "confirming", post |-> visits[v].post,
                                               trouble |-> visits[v].trouble]]
        \/ visits' = [visits EXCEPT ![v] = [at |-> "idle"]]
    BY <1>5, <2>1 DEF LookAgain, Step, Put, Respond
  <2>3. visits' \in [Visit -> Handler]
    BY <2>1, <2>2 DEF Handler
  <2>4. HandlersInv'
    BY <1>5, <2>1, <2>2 DEF LookAgain, HandlersInv, switches, RouteReady, LocalReady
  <2> QED
    BY <1>5, <2>3, <2>4 DEF LookAgain, switches
<1>6. ASSUME NEW v \in Visit, CheckContent(v)
      PROVE  ApiTypeOK' /\ HandlersInv'
  <2>1. visits[v] \in [at : {"confirming"}, post : Post, trouble : BOOLEAN]
    BY <1>6 DEF CheckContent, At, Handler
  <2>2. \/ visits[v].post.route \in declared
           /\ visits' = [visits EXCEPT ![v] = [at |-> "writing", post |-> visits[v].post,
                                               time |-> clock, trouble |-> visits[v].trouble]]
        \/ visits' = [visits EXCEPT ![v] = [at |-> "idle"]]
    BY <1>6, <2>1 DEF CheckContent, Put, Respond
  <2>3. visits' \in [Visit -> Handler]
    BY <2>1, <2>2 DEF Handler
  <2>4. HandlersInv'
    BY <1>6, <2>1, <2>2 DEF CheckContent, HandlersInv, switches, RouteReady, LocalReady
  <2> QED
    BY <1>6, <2>3, <2>4 DEF CheckContent, switches
<1>7. ASSUME NEW v \in Visit, Commit(v)
      PROVE  ApiTypeOK' /\ HandlersInv'
  <2>1. visits' = [visits EXCEPT ![v] = [at |-> "idle"]]
    BY <1>7 DEF Commit, Respond, Put
  <2>2. visits[v].time \in Nat
    BY <1>7 DEF Commit, At, Handler
  <2>3. visits' \in [Visit -> Handler]
    BY <2>1 DEF Handler
  <2>4. (\A e \in entries : e.id \in Nat /\ e.time \in Nat)'
    <3>1. CASE UNCHANGED entries
      BY <3>1
    <3>2. CASE \E id \in Identifier :
                 entries' = entries \cup {[id |-> id, caller |-> visits[v].post.caller,
                                           time |-> visits[v].time]}
      <4>1. PICK id \in Identifier :
                 entries' = entries \cup {[id |-> id, caller |-> visits[v].post.caller,
                                           time |-> visits[v].time]}
        BY <3>2
      <4>2. id \in Nat
        OBVIOUS
      <4> QED
        BY <2>2, <4>1, <4>2
    <3> QED
      BY <1>7, <3>1, <3>2 DEF Commit
  <2>5. HandlersInv'
    BY <1>7, <2>1 DEF Commit, HandlersInv, switches, RouteReady, LocalReady
  <2> QED
    BY <1>7, <2>3, <2>4, <2>5 DEF Commit, switches
<1>8. CASE GoLive
  BY <1>8 DEF GoLive, HandlersInv, RouteReady, LocalReady
<1>9. CASE ExecutorFails
  BY <1>9 DEF ExecutorFails, HandlersInv, RouteReady, LocalReady
<1>10. CASE AskToStop
  BY <1>10 DEF AskToStop, HandlersInv, RouteReady, LocalReady
<1>11. CASE GoOver
  BY <1>11 DEF GoOver, HandlersInv, RouteReady, LocalReady
<1>12. ASSUME NEW route \in Route, Withdraw(route) PROVE ApiTypeOK' /\ HandlersInv'
  BY <1>12 DEF Withdraw, HandlersInv, RouteReady, LocalReady
<1>13. CASE Elapses
  BY <1>13 DEF Elapses, switches, HandlersInv, RouteReady, LocalReady
<1>14. CASE UNCHANGED <<clock, switches, probe, visits, entries>>
  BY <1>14 DEF switches, HandlersInv, RouteReady, LocalReady
<1>15. ASSUME NEW caller \in Member, OpenHistory(caller)
       PROVE  ApiTypeOK' /\ HandlersInv'
  BY <1>14, <1>15 DEF OpenHistory
<1>16. CASE TurnPage
  BY <1>14, <1>16 DEF TurnPage
<1>17. CASE UNCHANGED apiVars
  BY <1>14, <1>17 DEF apiVars
<1> QED
  BY <1>1, <1>2, <1>4, <1>5, <1>6, <1>7, <1>8, <1>9, <1>10, <1>11, <1>12, <1>13,
     <1>15, <1>16, <1>17 DEF ApiNext

\* No visit has seen anything at first.
LEMMA VisitsInit == ApiInit => VisitsInv
<1> SUFFICES ASSUME ApiInit PROVE ApiTypeOK /\ HandlersInv
  BY DEF VisitsInv
<1>1. visits \in [Visit -> Handler]
  BY DEF ApiInit, Handler
<1>2. HandlersInv
  BY DEF ApiInit, HandlersInv
<1> QED
  BY <1>1, <1>2 DEF ApiInit, ApiTypeOK

\* A request in which the executor or its route was found wanting when the model
\* had answered never reaches the store.
THEOREM TroubleTurned == ApiSpec => []TroubleTurnsAway
<1>1. VisitsInv => TroubleTurnsAway
  BY DEF VisitsInv, HandlersInv, TroubleTurnsAway, At
<1> QED
  BY VisitsInit, VisitsStep, <1>1, PTL DEF ApiSpec

----------------------------------------------------------------------------
\* The history that a student has read: rows of the own submissions from the
\* newest on, none left out but those that belong behind the last of them.
HistoryInv ==
    pages # NoPages =>
        /\ pages.seen \in Seq(entries)
        /\ pages.there \subseteq Own(pages.caller)
        /\ pages.more => pages.seen # <<>>
        /\ \A i, j \in DOMAIN pages.seen : i < j => Later(pages.seen[i], pages.seen[j])
        /\ \A e \in pages.there \ ToSet(pages.seen) : pages.more /\ Later(Last(pages.seen), e)

\* The order of the rows is an order.
LEMMA LaterTransitive ==
    ASSUME NEW x, NEW y, NEW z, x.time \in Nat, y.time \in Nat, z.time \in Nat,
           x.id \in Nat, y.id \in Nat, z.id \in Nat, Later(x, y), Later(y, z)
    PROVE  Later(x, z)
BY DEF Later

\* A page of the candidates that are older than what was read, or of all of them, leaves
\* the history as it must be.
LEMMA PageKept ==
    ASSUME ApiTypeOK,
           NEW candidates \in SUBSET entries, NEW caller, NEW there \in SUBSET Own(caller),
           NEW seen \in Seq(entries),
           \A i, j \in DOMAIN seen : i < j => Later(seen[i], seen[j]),
           seen # <<>> => \A e \in candidates : Later(Last(seen), e),
           there \subseteq ToSet(seen) \cup candidates,
           ShowPage(candidates, caller, there, seen), UNCHANGED entries
    PROVE  HistoryInv'
<1> USE ApiAssumption
<1>1. PICK shown \in SeqOf(candidates, PageLength) :
         /\ FirstOf(candidates, shown)
         /\ pages' = [caller |-> caller, there |-> there, seen |-> seen \o shown,
                      more |-> candidates # ToSet(shown)]
  BY DEF ShowPage
<1>2. shown \in Seq(candidates) /\ shown \in Seq(entries)
  BY DEF SeqOf
<1> DEFINE whole == seen \o shown
<1>3. /\ whole \in Seq(entries) /\ Len(whole) = Len(seen) + Len(shown)
      /\ \A i \in 1 .. Len(seen) : whole[i] = seen[i]
      /\ \A i \in 1 .. Len(shown) : whole[Len(seen) + i] = shown[i]
      /\ \A i \in Len(seen) + 1 .. Len(whole) :
            whole[i] = shown[i - Len(seen)] /\ i - Len(seen) \in 1 .. Len(shown)
  BY <1>2
<1>4. pages'.seen = whole /\ pages'.there = there /\ pages'.caller = caller
      /\ pages'.more = (candidates # ToSet(shown))
  BY <1>1
<1>5. \A i \in 1 .. Len(shown) : shown[i] \in candidates
  BY <1>2
<1>6. \A i \in 1 .. Len(seen) : seen[i] = Last(seen) \/ Later(seen[i], Last(seen))
  BY DEF Last
<1>7. ASSUME NEW i \in 1 .. Len(whole), NEW j \in 1 .. Len(whole), i < j
      PROVE  Later(whole[i], whole[j])
  <2>1. CASE j \in 1 .. Len(seen)
    BY <1>3, <1>7, <2>1
  <2>2. CASE i \in Len(seen) + 1 .. Len(whole)
    <3>1. j - Len(seen) \in 1 .. Len(shown) /\ i - Len(seen) \in 1 .. Len(shown)
          /\ i - Len(seen) < j - Len(seen)
      BY <1>7, <2>2, <1>3
    <3>2. \A k, l \in 1 .. Len(shown) : k < l => Later(shown[k], shown[l])
      BY <1>1, <1>2, SMTT(30) DEF FirstOf
    <3>3. Later(shown[i - Len(seen)], shown[j - Len(seen)])
      BY <3>1, <3>2
    <3>4. j \in Len(seen) + 1 .. Len(whole)
      BY <1>3, <1>7, <2>2
    <3>5. whole[i] = shown[i - Len(seen)] /\ whole[j] = shown[j - Len(seen)]
      BY <1>3, <2>2, <3>4
    <3> QED
      BY <3>3, <3>5
  <2>3. CASE i \in 1 .. Len(seen) /\ j \in Len(seen) + 1 .. Len(whole)
    <3>1. whole[i] = seen[i] /\ whole[j] = shown[j - Len(seen)]
          /\ whole[j] \in candidates /\ whole[i] \in entries
      BY <1>3, <1>5, <2>3
    <3>2. seen # <<>> /\ Last(seen) \in entries
      BY <2>3 DEF Last
    <3>3. Later(Last(seen), whole[j])
      BY <3>1, <3>2
    <3>4. /\ whole[i].time \in Nat /\ whole[i].id \in Nat
          /\ whole[j].time \in Nat /\ whole[j].id \in Nat
          /\ Last(seen).time \in Nat /\ Last(seen).id \in Nat
      BY <3>1, <3>2 DEF ApiTypeOK
    <3> QED
      BY <1>6, <2>3, <3>1, <3>3, <3>4, LaterTransitive
  <2> QED
    BY <1>3, <2>1, <2>2, <2>3
<1>8. ASSUME candidates # ToSet(shown)
      PROVE  whole # <<>> /\ Len(shown) > 0 /\ Last(whole) = Last(shown)
  <2>1. ToSet(shown) \subseteq candidates
    BY <1>2, <1>5 DEF ToSet
  <2>2. PICK e \in candidates \ ToSet(shown) : TRUE
    BY <1>8, <2>1
  <2>3. Len(shown) = PageLength
    BY <1>1, <2>2 DEF FirstOf
  <2> QED
    BY <1>2, <1>3, <2>3 DEF Last
<1>9. ASSUME NEW e \in there \ ToSet(whole)
      PROVE  candidates # ToSet(shown) /\ Later(Last(whole), e)
  <2>1. e \notin ToSet(seen) /\ e \notin ToSet(shown)
    <3>1. \A i \in DOMAIN seen : seen[i] \in ToSet(whole)
      BY <1>3 DEF ToSet
    <3>2. \A i \in DOMAIN shown : shown[i] \in ToSet(whole)
      <4>1. \A i \in DOMAIN shown :
               Len(seen) + i \in DOMAIN whole /\ whole[Len(seen) + i] = shown[i]
        BY <1>2, <1>3
      <4> HIDE DEF whole
      <4> QED
        BY <4>1 DEF ToSet
    <3> QED
      BY <3>1, <3>2, <1>9 DEF ToSet
  <2>2. e \in candidates \ ToSet(shown)
    BY <2>1, <1>9
  <2>3. Later(Last(shown), e)
    BY <1>1, <2>2 DEF FirstOf
  <2> QED
    BY <1>8, <2>2, <2>3
<1>10. there \subseteq Own(caller)'
  BY DEF Own
<1>11. DOMAIN whole = 1 .. Len(whole)
  BY <1>3
<1> HIDE DEF whole
<1>12. HistoryInv'
  BY <1>3, <1>4, <1>7, <1>8, <1>9, <1>10, <1>11 DEF HistoryInv
<1> QED
  BY <1>12

\* Every step of the API keeps the pages of a history together.
LEMMA HistoryStep ==
    ApiTypeOK /\ HistoryInv /\ [ApiNext]_apiVars => HistoryInv'
<1> SUFFICES ASSUME ApiTypeOK, HistoryInv, [ApiNext]_apiVars PROVE HistoryInv'
  OBVIOUS
<1>1. ASSUME UNCHANGED pages, entries \subseteq entries' PROVE HistoryInv'
  <2> SUFFICES ASSUME pages # NoPages
               PROVE  pages.seen \in Seq(entries') /\ pages.there \subseteq Own(pages.caller)'
    BY <1>1 DEF HistoryInv
  <2>1. pages.seen \in Seq(entries')
    BY <1>1 DEF HistoryInv
  <2> QED
    BY <1>1, <2>1 DEF HistoryInv, Own
<1>2. ASSUME NEW caller \in Member, OpenHistory(caller) PROVE HistoryInv'
  <2>1. Own(caller) \subseteq entries
    BY DEF Own
  <2>2. <<>> \in Seq(entries) /\ DOMAIN <<>> = {}
    OBVIOUS
  <2> QED
    BY <1>2, <2>1, <2>2, PageKept DEF OpenHistory
<1>3. CASE TurnPage
  <2> DEFINE candidates == {e \in Own(pages.caller) : Older(e, Last(pages.seen))}
  <2>1. pages # NoPages /\ pages.more /\ UNCHANGED entries
        /\ ShowPage(candidates, pages.caller, pages.there, pages.seen)
    BY <1>3 DEF TurnPage
  <2>2. /\ pages.seen \in Seq(entries)
        /\ pages.there \subseteq Own(pages.caller)
        /\ \A i, j \in DOMAIN pages.seen : i < j => Later(pages.seen[i], pages.seen[j])
        /\ \A e \in pages.there \ ToSet(pages.seen) : Later(Last(pages.seen), e)
    BY <2>1 DEF HistoryInv
  <2>3. /\ candidates \subseteq entries
        /\ \A e \in candidates : Later(Last(pages.seen), e)
        /\ pages.there \subseteq ToSet(pages.seen) \cup candidates
    BY <2>2 DEF Own, Older
  <2> HIDE DEF candidates
  <2> QED
    BY <2>1, <2>2, <2>3, PageKept
<1>4. ASSUME NEW v \in Visit, Commit(v) PROVE HistoryInv'
  BY <1>1, <1>4 DEF Commit
<1>5. CASE UNCHANGED <<pages, entries>>
  BY <1>1, <1>5
<1> QED
  BY <1>2, <1>3, <1>4, <1>5
  DEF ApiNext, apiVars, Arrive, FirstLook, AskModel, Probed, LookAgain, CheckContent,
      GoLive, ExecutorFails, AskToStop, GoOver, Withdraw, Elapses

\* The pages of a history fit together, whatever is committed meanwhile.
THEOREM HistoryWhole == ApiSpec => []HistoryIsWhole
<1>1. ApiInit => HistoryInv
  BY DEF ApiInit, HistoryInv
<1>2. VisitsInv => ApiTypeOK
  BY DEF VisitsInv
<1>3. HistoryInv => HistoryIsWhole
  BY DEF HistoryInv, HistoryIsWhole, ToSet
<1> QED
  BY VisitsInit, VisitsStep, HistoryStep, <1>1, <1>2, <1>3, PTL DEF ApiSpec
=============================================================================
