------------------------ MODULE BoundedExecutorProofs -----------------------
(***************************************************************************)
(* Theorems of BoundedExecutor, for any number of operations, any number of*)
(* slots and any disk, and of the private Workbench that may run requests  *)
(* side by side, for any profiles, submissions and requests.               *)
(***************************************************************************)
EXTENDS BoundedExecutor, Workbench, FiniteSetTheorems, TLAPS

File == [seen : State, kept : State]

\* What a write or a power loss leaves of the state file is a state file.
LEMMA FileWrites ==
    ASSUME file \in File, NEW v \in State
    PROVE  /\ Both(v) \in File
           /\ Torn(file, v) \subseteq File
           /\ AfterPowerLoss(file) \subseteq File
BY DEF File, Both, Torn, AfterPowerLoss

\* The states the operations write.
LEMMA Records ==
    ASSUME file \in File, NEW P \in SUBSET Call
    PROVE  /\ WithPending(P) \in State
           /\ [file.seen EXCEPT !.blocked = TRUE] \in State
           /\ [pending |-> {}, blocked |-> FALSE, last |-> P] \in State
BY DEF File, WithPending, State

\* The archive of audits keeps its shape.
LEMMA ArchiveWrites ==
    ASSUME archive \in [seen : SUBSET SUBSET Call, kept : SUBSET SUBSET Call],
           NEW A \in SUBSET SUBSET Call
    PROVE  /\ Both(A) \in [seen : SUBSET SUBSET Call, kept : SUBSET SUBSET Call]
           /\ Torn(archive, A) \subseteq [seen : SUBSET SUBSET Call, kept : SUBSET SUBSET Call]
           /\ EntriesAfterPowerLoss(archive)
                \subseteq [seen : SUBSET SUBSET Call, kept : SUBSET SUBSET Call]
BY DEF Both, Torn, EntriesAfterPowerLoss

\* The variables keep their types.
LEMMA TypeStep ==
    ASSUME BoundedTypeOK, [BoundedNext]_boundedVars
    PROVE  BoundedTypeOK'
<1> USE BoundedAssumption DEF BoundedTypeOK
<1>0. /\ file \in File
      /\ Pending \in SUBSET Call
  BY DEF File, Pending, State
<1>1. CASE Start
  BY <1>1 DEF Start, callVars, M!CallTypeOK
<1>2. CASE Refuse
  BY <1>2 DEF Refuse, callVars, M!CallTypeOK
<1>3. ASSUME NEW c \in Call, Begin(c) PROVE BoundedTypeOK'
  <2>1. file' \in File
    <3>1. WithPending(Pending \cup {c}) \in State
      BY <1>0, Records
    <3> QED
      BY <1>3, <1>0, <3>1, FileWrites DEF Begin
  <2>2. M!CallTypeOK'
    BY <1>3 DEF Begin, callVars, M!CallTypeOK, M!Concluded, M!Open, M!MoveTo
  <2>3. live' \in SUBSET Call /\ poisoned' \in BOOLEAN /\ fault' \in BOOLEAN
    BY <1>3 DEF Begin
  <2> QED
    BY <1>3, <2>1, <2>2, <2>3 DEF Begin, File
<1>4. ASSUME NEW c \in Call, Finish(c) PROVE BoundedTypeOK'
  <2>1. file' \in File
    <3>1. WithPending(Pending \ {c}) \in State
      BY <1>0, Records
    <3> QED
      BY <1>4, <1>0, <3>1, FileWrites DEF Finish
  <2>2. /\ live' \in SUBSET Call /\ settled' \in SUBSET Call
        /\ poisoned' \in BOOLEAN /\ fault' \in BOOLEAN
    BY <1>4 DEF Finish
  <2> QED
    BY <1>4, <2>1, <2>2 DEF Finish, File, callVars, M!CallTypeOK
<1>5. ASSUME NEW c \in Call, Block(c) PROVE BoundedTypeOK'
  <2>1. file' \in File
    BY <1>5, <1>0, Records, FileWrites DEF Block
  <2> QED
    BY <1>5, <2>1 DEF Block, File, callVars, M!CallTypeOK
<1>6. CASE Exit
  BY <1>6 DEF Exit, Forget, M!Abandon, M!CallTypeOK
<1>7. CASE PowerLoss
  <2>1. file' \in File
    BY <1>7, <1>0 DEF PowerLoss, AfterPowerLoss, File, Both
  <2>2. archive' \in [seen : SUBSET SUBSET Call, kept : SUBSET SUBSET Call]
    BY <1>7, ArchiveWrites DEF PowerLoss
  <2> QED
    BY <1>7, <2>1, <2>2 DEF PowerLoss, Forget, M!Abandon, M!CallTypeOK, File
<1>8. CASE Audit
  <2>1. archive.seen \cup {Pending} \in SUBSET SUBSET Call
    BY <1>0
  <2>2. archive' \in [seen : SUBSET SUBSET Call, kept : SUBSET SUBSET Call]
    BY <1>8, <2>1, ArchiveWrites DEF Audit
  <2> QED
    BY <1>8, <2>2 DEF Audit, callVars, memoryVars, M!CallTypeOK
<1>9. CASE Clear
  <2>1. file' \in File
    BY <1>9, <1>0, Records, FileWrites DEF Clear
  <2> QED
    BY <1>9, <2>1 DEF Clear, File, callVars, memoryVars, M!CallTypeOK
<1>10. CASE Model
  <2>1. M!CallTypeOK'
    BY <1>10 DEF Model, M!CallTypeOK, M!Concluded,
                 M!Launch, M!Stop, M!Conclude, M!Doubt, M!MoveTo
  <2> QED
    BY <1>10, <2>1 DEF Model, memoryVars
<1>11. CASE UNCHANGED boundedVars
  BY <1>11 DEF boundedVars, callVars, memoryVars, M!CallTypeOK
<1> QED
  BY <1>1, <1>2, <1>3, <1>4, <1>5, <1>6, <1>7, <1>8, <1>9, <1>10, <1>11 DEF BoundedNext

\* The records stay within the slots: begin counts what it sees, and what is
\* kept is what was seen at some earlier time.
Finite ==
    /\ IsFiniteSet(Pending)
    /\ IsFiniteSet(file.kept.pending)

\* Every step keeps the record finite and no larger than the slots.
LEMMA BoundStep ==
    ASSUME BoundedTypeOK, Finite, RecordsBounded, [BoundedNext]_boundedVars
    PROVE  Finite' /\ RecordsBounded'
<1> DEFINE Small(P) == IsFiniteSet(P) /\ Cardinality(P) <= MaxInflight
<1>0. Small(Pending) /\ Small(file.kept.pending)
  BY DEF Finite, RecordsBounded
<1>1. SUFFICES Small(file'.seen.pending) /\ Small(file'.kept.pending)
  BY DEF Finite, RecordsBounded, Pending
<1>2. file \in File
  BY DEF BoundedTypeOK, File
<1>3. ASSUME NEW v \in State, Small(v.pending), file' = Both(v) \/ file' \in Torn(file, v)
      PROVE  Small(file'.seen.pending) /\ Small(file'.kept.pending)
  BY <1>0, <1>2, <1>3 DEF Both, Torn, File, Pending
<1>4. ASSUME UNCHANGED file PROVE Small(file'.seen.pending) /\ Small(file'.kept.pending)
  BY <1>0, <1>4 DEF Pending
<1>5. ASSUME NEW c \in Call, Begin(c)
      PROVE  Small(file'.seen.pending) /\ Small(file'.kept.pending)
  <2>1. Small(Pending \cup {c})
    <3>1. IsFiniteSet(Pending) /\ Cardinality(Pending) < MaxInflight
      BY <1>0, <1>5 DEF Begin
    <3>2. /\ IsFiniteSet(Pending \cup {c})
          /\ Cardinality(Pending \cup {c}) \in {Cardinality(Pending), Cardinality(Pending) + 1}
      BY <3>1, FS_AddElement
    <3>3. Cardinality(Pending) \in Nat
      BY <3>1, FS_CardinalityType
    <3> QED
      BY <3>1, <3>2, <3>3, BoundedAssumption
  <2>2. /\ WithPending(Pending \cup {c}) \in State
        /\ WithPending(Pending \cup {c}).pending = Pending \cup {c}
    BY <1>2 DEF File, State, WithPending, Pending
  <2> HIDE DEF Small
  <2> QED
    BY <1>3, <1>4, <1>5, <2>1, <2>2 DEF Begin
<1>6. ASSUME NEW c \in Call, Finish(c)
      PROVE  Small(file'.seen.pending) /\ Small(file'.kept.pending)
  <2>1. Small(Pending \ {c})
    <3>1. IsFiniteSet(Pending) /\ Cardinality(Pending) <= MaxInflight
      BY <1>0
    <3>2. /\ IsFiniteSet(Pending \ {c})
          /\ Cardinality(Pending \ {c}) \in {Cardinality(Pending), Cardinality(Pending) - 1}
      BY <3>1, FS_RemoveElement
    <3>3. Cardinality(Pending) \in Nat
      BY <3>1, FS_CardinalityType
    <3> QED
      BY <3>1, <3>2, <3>3, BoundedAssumption
  <2>2. /\ WithPending(Pending \ {c}) \in State
        /\ WithPending(Pending \ {c}).pending = Pending \ {c}
    BY <1>2 DEF File, State, WithPending, Pending
  <2> HIDE DEF Small
  <2> QED
    BY <1>3, <1>4, <1>6, <2>1, <2>2 DEF Finish
<1>7. ASSUME NEW c \in Call, Block(c)
      PROVE  Small(file'.seen.pending) /\ Small(file'.kept.pending)
  <2> DEFINE v == [file.seen EXCEPT !.blocked = TRUE]
  <2>1. v \in State /\ v.pending = Pending
    BY <1>2 DEF File, State, Pending
  <2>2. file' = Both(v) \/ file' \in Torn(file, v)
    BY <1>7 DEF Block
  <2> HIDE DEF v, Small
  <2> QED
    BY <1>0, <1>3, <2>1, <2>2
<1>8. CASE PowerLoss
  BY <1>0, <1>8 DEF PowerLoss, AfterPowerLoss, Both, Pending
<1>9. CASE Clear
  <2> DEFINE v == [pending |-> {}, blocked |-> FALSE, last |-> Pending]
  <2>1. v \in State /\ v.pending = {}
    BY <1>2 DEF File, State, Pending
  <2>2. Small({})
    BY FS_EmptySet, BoundedAssumption
  <2>3. file' = Both(v) \/ file' \in Torn(file, v)
    BY <1>9 DEF Clear
  <2> HIDE DEF v, Small
  <2> QED
    BY <1>3, <2>1, <2>2, <2>3
<1>10. CASE Start \/ Refuse \/ Exit \/ Audit \/ Model \/ UNCHANGED boundedVars
  BY <1>4, <1>10 DEF Start, Refuse, Exit, Audit, Model, boundedVars
<1> QED
  BY <1>5, <1>6, <1>7, <1>8, <1>9, <1>10 DEF BoundedNext

\* What is on record, what the process knows and what may still run agree
\* after every step.
Agree == UnderWayIsOnRecord /\ FaultIsObservable /\ Custody

\* Giving up on all the calls, as the end of a process does.
LEMMA Abandoned ==
    ASSUME M!CallTypeOK, M!Abandon(Call)
    PROVE  /\ remote' = remote
           /\ Launchable' = {}
           /\ \A c \in Call : stage[c] = "confirmed" => stage'[c] = "confirmed"
           /\ \A c \in Call : stage[c] \in {"open", "uncertain", "dead"} => stage'[c] = "dead"
BY DEF M!CallTypeOK, M!Concluded, M!Abandon, Launchable

\* What the model service does never starts a call that cannot be sent, nor
\* ends one in any other way than the provider does.
LEMMA ModelActs ==
    ASSUME M!CallTypeOK, Model
    PROVE  /\ UNCHANGED <<file, archive, process, memoryVars>>
           /\ Launchable' \subseteq Launchable
           /\ M!Running' \subseteq M!Running \cup Launchable
           /\ \A c \in Call : stage[c] = "confirmed" => stage'[c] = "confirmed"
           /\ \A c \in Call : stage'[c] # stage[c]
                => /\ stage[c] = "open"
                   /\ stage'[c] \in {"confirmed", "timedout", "uncertain"}
                   /\ stage'[c] # "uncertain" => c \notin M!Running'
<1>0. UNCHANGED <<file, archive, process, memoryVars>>
  BY DEF Model
<1>1. PICK c \in Call : M!Launch(c) \/ M!Stop(c) \/ M!Conclude(c) \/ (stage[c] = "open" /\ M!Doubt(c))
  BY DEF Model
<1> USE DEF Launchable, M!Running, M!CallTypeOK, M!Concluded
<1>2. CASE M!Launch(c)
  BY <1>0, <1>2 DEF M!Launch
<1>3. CASE M!Stop(c)
  BY <1>0, <1>3 DEF M!Stop
<1>4. CASE M!Conclude(c)
  BY <1>0, <1>4 DEF M!Conclude, M!MoveTo
<1>5. CASE stage[c] = "open" /\ M!Doubt(c)
  BY <1>0, <1>5 DEF M!Doubt, M!MoveTo
<1> QED
  BY <1>1, <1>2, <1>3, <1>4, <1>5

\* The end of a process, whatever the disk keeps of the state.
LEMMA EndsAgree ==
    ASSUME BoundedTypeOK, Agree, Forget,
           file' = file \/ file' = Both(file.seen) \/ file' = Both(file.kept),
           archive' = archive \/ file'.kept.pending = file'.seen.pending
    PROVE  Agree'
<1> USE DEF Agree, Custody, UnderWayIsOnRecord
<1>1. /\ remote' = remote
      /\ Launchable' = {}
      /\ \A c \in Call : stage[c] = "confirmed" => stage'[c] = "confirmed"
      /\ \A c \in Call : stage[c] \in {"open", "uncertain", "dead"} => stage'[c] = "dead"
  BY Abandoned DEF BoundedTypeOK, Forget
<1>2. M!Running' = M!Running
  BY <1>1 DEF M!Running
<1>3. /\ Pending' \in {Pending, file.kept.pending}
      /\ file'.kept.pending \in {Pending, file.kept.pending}
  BY DEF Both, Pending
<1>4. UnderWayIsOnRecord'
  BY <1>1, <1>2, <1>3
<1>5. FaultIsObservable'
  BY DEF Forget, FaultIsObservable
<1>6. \A c \in M!Running' : stage'[c] = "dead"
  BY <1>1, <1>2 DEF M!Running
<1>7. \A c \in file'.kept.pending \ Pending' :
          stage'[c] = "confirmed" \/ \E P \in archive'.seen : c \in P
  <2>1. file.seen.pending \in SUBSET Call /\ file.kept.pending \in SUBSET Call
    BY DEF BoundedTypeOK, State
  <2>2. CASE file'.kept.pending = file'.seen.pending
    BY <2>2 DEF Pending
  <2>3. CASE file' = file /\ archive' = archive
    BY <1>1, <2>1, <2>3 DEF Pending
  <2> QED
    BY <2>2, <2>3 DEF Both
<1> QED
  BY <1>1, <1>4, <1>5, <1>6, <1>7 DEF Forget

\* Every step keeps file, slots and lanes in agreement.
LEMMA AgreeStep ==
    ASSUME BoundedTypeOK, Agree, [BoundedNext]_boundedVars
    PROVE  Agree'
<1> USE DEF Agree, UnderWayIsOnRecord, FaultIsObservable, Custody, Dispatchable
<1>0. /\ file \in File
      /\ Pending \in SUBSET Call /\ file.kept.pending \in SUBSET Call
  BY DEF BoundedTypeOK, File, State, Pending
<1>1. CASE Start
  BY <1>1 DEF BoundedTypeOK, Start, callVars, Pending, Launchable, M!Running
<1>2. CASE Refuse
  BY <1>2 DEF Refuse, callVars, Pending, Launchable, M!Running
<1>3. ASSUME NEW c \in Call, Begin(c) PROVE Agree'
  <2> DEFINE record == WithPending(Pending \cup {c})
  <2>1. record.pending = Pending \cup {c} /\ record.blocked = file.seen.blocked
    BY <1>0 DEF WithPending, File, State
  <2>2. /\ process = "up" /\ process' = "up" /\ UNCHANGED <<archive, settled, startup>>
        /\ Dispatchable /\ Pending = live
        /\ stage[c] = "idle" /\ c \notin Pending /\ \A P \in archive.seen : c \notin P
    BY <1>3 DEF Begin, Fresh
  <2>3. c \notin file.kept.pending
    BY <2>2
  <2>4. CASE file' = Both(record) /\ live' = live \cup {c} /\ M!Open(c) /\ UNCHANGED <<poisoned, fault>>
    <3>1. /\ Pending' = Pending \cup {c} /\ file'.kept.pending = Pending \cup {c}
          /\ file'.seen.blocked = file.seen.blocked
      BY <2>1, <2>4 DEF Both, Pending
    <3>2. /\ M!Running' = M!Running
          /\ stage' = [stage EXCEPT ![c] = "open"]
          /\ stage \in [Call -> {"idle", "open", "uncertain", "dead", "confirmed", "timedout"}]
      BY <2>4 DEF M!Running, M!Open, M!MoveTo, BoundedTypeOK, M!CallTypeOK, M!Concluded
    <3>3. Launchable' = Launchable \cup {c}
      BY <3>2 DEF Launchable
    <3>4. M!Running \subseteq Call
      BY DEF M!Running
    <3>5. UnderWayIsOnRecord'
      BY <3>1, <3>2, <3>3
    <3>6. FaultIsObservable'
      BY <2>2, <2>4, <3>1
    <3>7. \A d \in M!Running' : stage'[d] \in {"open", "uncertain", "dead"}
      BY <3>2, <3>4
    <3>8. \A d \in live' : stage'[d] \in {"open", "confirmed", "uncertain", "timedout"}
      BY <2>4, <3>2 DEF BoundedTypeOK
    <3>9. Launchable' \subseteq live'
      BY <2>4, <3>3
    <3> QED
      BY <2>2, <3>1, <3>5, <3>6, <3>7, <3>8, <3>9
  <2>5. CASE file' \in Torn(file, record) /\ fault' = TRUE /\ UNCHANGED <<callVars, live>>
    <3>1. Pending' \in {Pending, Pending \cup {c}} /\ file'.kept = file.kept
      BY <1>0, <2>1, <2>5 DEF Torn, Pending, File
    <3>2. M!Running' = M!Running /\ Launchable' = Launchable /\ stage' = stage
      BY <2>5 DEF callVars, M!Running, Launchable
    <3> QED
      BY <2>2, <2>3, <2>5, <3>1, <3>2
  <2> QED
    BY <1>3, <2>4, <2>5 DEF Begin
<1>4. ASSUME NEW c \in Call, Finish(c) PROVE Agree'
  <2> DEFINE record == WithPending(Pending \ {c})
  <2>1. record.pending = Pending \ {c} /\ record.blocked = file.seen.blocked
    BY <1>0 DEF WithPending, File, State
  <2>2. /\ process = "up" /\ c \in live /\ stage[c] = "confirmed"
        /\ M!Running' = M!Running /\ Launchable' = Launchable
        /\ UNCHANGED <<stage, remote, archive, process, startup>>
    BY <1>4 DEF Finish, callVars, M!Running, Launchable
  <2>3. c \notin M!Running \cup Launchable
    BY <2>2 DEF Launchable
  <2>4. CASE UNCHANGED file /\ fault' = TRUE /\ UNCHANGED live
    BY <2>2, <2>4 DEF Pending
  <2>5. CASE Incident /\ UNCHANGED <<file, settled, poisoned, fault>> /\ live' = live \ {c}
    <3>1. fault
      BY <2>2, <2>5 DEF Incident
    <3> QED
      BY <2>2, <2>3, <2>5, <3>1 DEF Pending
  <2>6. CASE ~Incident /\ file' = Both(record) /\ live' = live \ {c} /\ UNCHANGED <<poisoned, fault>>
    <3>1. /\ Pending' = Pending \ {c} /\ file'.kept.pending = Pending \ {c}
          /\ file'.seen.blocked = file.seen.blocked
      BY <2>1, <2>6 DEF Both, Pending
    <3> QED
      BY <2>2, <2>3, <2>6, <3>1 DEF Incident
  <2>7. CASE file' \in Torn(file, record) /\ fault' = TRUE /\ UNCHANGED live
    <3>1. Pending' \in {Pending, Pending \ {c}} /\ file'.kept = file.kept
      BY <1>0, <2>1, <2>7 DEF Torn, Pending, File
    <3> QED
      BY <2>2, <2>3, <2>7, <3>1
  <2> QED
    BY <1>4, <2>4, <2>5, <2>6, <2>7 DEF Finish
<1>5. ASSUME NEW c \in Call, Block(c) PROVE Agree'
  <2>1. Pending' = Pending /\ (file'.kept = file.kept \/ file'.kept.pending = Pending')
    BY <1>0, <1>5 DEF Block, Both, Torn, Pending, File, State
  <2>2. /\ M!Running' = M!Running /\ Launchable' = Launchable
        /\ UNCHANGED <<stage, archive, process, live, startup>> /\ process = "up" /\ fault' = TRUE
    BY <1>5 DEF Block, callVars, M!Running, Launchable
  <2> QED
    BY <2>1, <2>2
<1>6. CASE Exit
  BY <1>6, EndsAgree DEF Exit
<1>7. CASE PowerLoss
  BY <1>7, EndsAgree DEF PowerLoss, AfterPowerLoss, Both
<1>8. CASE Audit
  <2>1. /\ M!Running' = M!Running /\ Launchable' = Launchable /\ Pending' = Pending
        /\ UNCHANGED <<file, stage, live, poisoned, startup, fault>>
        /\ process' # "up" /\ process # "up"
    BY <1>8 DEF Audit, callVars, memoryVars, M!Running, Launchable, Pending
  <2>2. archive.seen \subseteq archive'.seen
    BY <1>8 DEF Audit, Both, Torn, BoundedTypeOK
  <2>3. process' = "recovering" => Pending \in archive'.seen /\ Pending \cap M!Running = {}
    BY <1>8 DEF Audit, Both
  <2> QED
    BY <2>1, <2>2, <2>3
<1>9. CASE Clear
  <2>1. Pending' \in {Pending, {}} /\ (file'.kept = file.kept \/ file'.kept.pending = Pending')
    <3> DEFINE v == [pending |-> {}, blocked |-> FALSE, last |-> Pending]
    <3>1. v.pending = {} /\ (file' = Both(v) \/ file' \in Torn(file, v))
      BY <1>9 DEF Clear
    <3> HIDE DEF v
    <3> QED
      BY <1>0, <3>1 DEF Both, Torn, Pending, File
  <2>2. /\ M!Running' = M!Running /\ Launchable' = Launchable
        /\ UNCHANGED <<stage, archive, live, poisoned, startup, fault>>
        /\ process = "recovering" /\ process' = "down"
    BY <1>9 DEF Clear, callVars, memoryVars, M!Running, Launchable
  <2>3. M!Running = {} /\ Launchable = {}
    BY <2>2
  <2> QED
    BY <1>0, <2>1, <2>2, <2>3
<1>10. CASE Model
  <2>1. M!CallTypeOK
    BY DEF BoundedTypeOK
  <2>2. Pending' = Pending /\ UNCHANGED <<file, archive, process, live, poisoned, startup, fault>>
    BY <1>10 DEF Model, memoryVars, Pending
  <2>3. \A c \in M!Running' : stage'[c] \in {"open", "uncertain", "dead"}
    BY <1>10, <2>1, ModelActs DEF Launchable, M!Running
  <2>4. \A c \in live' : stage'[c] \in {"open", "confirmed", "uncertain", "timedout"}
    BY <1>10, <2>1, <2>2, ModelActs DEF BoundedTypeOK
  <2> QED
    BY <1>0, <1>10, <2>1, <2>2, <2>3, <2>4, ModelActs
<1>11. CASE UNCHANGED boundedVars
  BY <1>11 DEF boundedVars, callVars, memoryVars, Pending, Launchable, M!Running
<1> QED
  BY <1>1, <1>2, <1>3, <1>4, <1>5, <1>6, <1>7, <1>8, <1>9, <1>10, <1>11 DEF BoundedNext

Inv == BoundedTypeOK /\ Finite /\ LedgerInv

\* Types, records and agreement are invariant together.
LEMMA BoundedInvariance == BoundedSpec => []Inv
<1>1. BoundedInit => Inv
  <2> SUFFICES ASSUME BoundedInit PROVE Inv
    OBVIOUS
  <2>1. Clean \in State /\ Clean.pending = {}
    BY DEF Clean, State
  <2>2. Pending = {} /\ file.kept.pending = {} /\ file \in [seen : State, kept : State]
    BY <2>1 DEF BoundedInit, Both, Pending
  <2>3. M!CallTypeOK /\ M!Running = {} /\ Launchable = {}
    BY DEF BoundedInit, M!CallInit, M!CallTypeOK, M!Running, Launchable
  <2>4. BoundedTypeOK
    BY <2>2, <2>3 DEF BoundedInit, BoundedTypeOK, Both
  <2>5. Finite /\ RecordsBounded
    BY <2>2, FS_EmptySet, BoundedAssumption DEF Finite, RecordsBounded
  <2>6. Agree
    BY <2>2, <2>3
    DEF BoundedInit, Agree, UnderWayIsOnRecord, FaultIsObservable, Custody
  <2> QED
    BY <2>4, <2>5, <2>6 DEF Inv, LedgerInv, Agree
<1>2. Inv /\ [BoundedNext]_boundedVars => Inv'
  BY TypeStep, BoundStep, AgreeStep DEF Inv, LedgerInv, Agree
<1> QED
  BY <1>1, <1>2, PTL DEF BoundedSpec

\* The ledger, the archive and the memory of the process keep their types.
THEOREM BoundedTypes == BoundedSpec => []BoundedTypeOK
BY BoundedInvariance, PTL DEF Inv

\* The records, the memory of the process and what may run agree.
THEOREM LedgerInvariant == BoundedSpec => []LedgerInv
BY BoundedInvariance, PTL DEF Inv

\* What runs or may still be sent is on record, durably.
THEOREM UnderWayRecorded == BoundedSpec => []UnderWayIsOnRecord
BY BoundedInvariance, PTL DEF Inv, LedgerInv

\* Over any number of processes the model works on at most MaxInflight requests.
THEOREM BoundedLoad == BoundedSpec => []LoadBounded
<1>1. Inv => LoadBounded
  <2> SUFFICES ASSUME Inv PROVE LoadBounded
    OBVIOUS
  <2>1. M!Running \cup Launchable \subseteq Pending /\ IsFiniteSet(Pending)
    BY DEF Inv, LedgerInv, UnderWayIsOnRecord, Finite
  <2>2. /\ IsFiniteSet(M!Running \cup Launchable)
        /\ Cardinality(M!Running \cup Launchable) <= Cardinality(Pending)
    BY <2>1, FS_Subset
  <2>3. Cardinality(Pending) <= MaxInflight
    BY DEF Inv, LedgerInv, RecordsBounded
  <2>4. Cardinality(Pending) \in Nat /\ Cardinality(M!Running \cup Launchable) \in Nat
    BY <2>1, <2>2, FS_CardinalityType
  <2> QED
    BY <2>2, <2>3, <2>4, BoundedAssumption DEF LoadBounded
<1> QED
  BY <1>1, BoundedInvariance, PTL

\* The flag that is read without the lock covers everything that shuts the gate.
THEOREM FaultObservable == BoundedSpec => []FaultIsObservable
BY BoundedInvariance, PTL DEF Inv, LedgerInv

\* No request begins while one of a dead process runs.
THEOREM OrphansStop == BoundedSpec => OrphansStopDispatch
<1>1. ASSUME Inv, [BoundedNext]_boundedVars, NEW c \in Call, NEW d \in Call,
             stage[c] = "idle", stage'[c] = "open"
      PROVE  ~(d \in M!Running /\ stage[d] = "dead")
  <2>1. M!CallTypeOK
    BY <1>1 DEF Inv, BoundedTypeOK
  <2>2. \E e \in Call : Begin(e)
    <3>1. stage' # stage
      BY <1>1
    <3>2. ~Exit /\ ~PowerLoss
      BY <1>1, <2>1 DEF Exit, PowerLoss, Forget, M!Abandon, M!CallTypeOK, M!Concluded
    <3>3. ~Model
      BY <1>1, <2>1, ModelActs
    <3> QED
      BY <1>1, <3>1, <3>2, <3>3
      DEF BoundedNext, boundedVars, callVars, Start, Refuse, Audit, Clear, Finish, Block
  <2>3. Pending = live
    BY <2>2 DEF Begin, Dispatchable
  <2> QED
    BY <1>1, <2>3 DEF Inv, LedgerInv, UnderWayIsOnRecord, Custody
<1>2. Inv /\ [BoundedNext]_boundedVars
        => [\A c, d \in Call : stage[c] = "idle" /\ stage'[c] = "open"
                => ~(d \in M!Running /\ stage[d] = "dead")]_boundedVars
  BY <1>1
<1> QED
  BY <1>2, BoundedInvariance, PTL DEF BoundedSpec, OrphansStopDispatch

\* A record leaves the disk only with a confirmed end or an audit.
THEOREM LedgerGoes == BoundedSpec => LedgerGoesByProof
<1> DEFINE Concluded(c) == stage[c] = "confirmed" \/ \E P \in archive.seen : c \in P
<1>1. ASSUME Inv, [BoundedNext]_boundedVars,
             NEW c \in file.kept.pending, c \notin file'.kept.pending
      PROVE  Concluded(c)
  <2>1. file \in File
    BY <1>1 DEF Inv, BoundedTypeOK, File
  <2>2. c \notin Pending => Concluded(c)
    BY <1>1 DEF Inv, LedgerInv, Custody
  <2> HIDE DEF Concluded
  <2>3. ASSUME NEW d \in Call, Begin(d) PROVE Concluded(c)
    BY <1>1, <2>1, <2>2, <2>3 DEF Begin, Both, Torn, WithPending, Pending, File, State
  <2>4. ASSUME NEW d \in Call, Finish(d) PROVE Concluded(c)
    <3>1. c = d => Concluded(c)
      BY <2>4 DEF Finish, Concluded
    <3> QED
      BY <1>1, <2>1, <2>2, <2>4, <3>1
      DEF Finish, Both, Torn, WithPending, Pending, File, State
  <2>5. ASSUME NEW d \in Call, Block(d) PROVE Concluded(c)
    BY <1>1, <2>1, <2>2, <2>5 DEF Block, Both, Torn, Pending, File, State
  <2>6. CASE PowerLoss
    BY <1>1, <2>2, <2>6 DEF PowerLoss, AfterPowerLoss, Both, Pending
  <2>7. CASE Clear
    BY <1>1, <2>2, <2>7 DEF Clear, Inv, LedgerInv, Custody, Concluded
  <2>8. CASE Start \/ Refuse \/ Exit \/ Audit \/ Model \/ UNCHANGED boundedVars
    BY <1>1, <2>8 DEF Start, Refuse, Exit, Audit, Model, boundedVars
  <2> QED
    BY <1>1, <2>3, <2>4, <2>5, <2>6, <2>7, <2>8 DEF BoundedNext
<1>2. Inv /\ [BoundedNext]_boundedVars
        => [\A c \in file.kept.pending \ file'.kept.pending :
              stage[c] = "confirmed" \/ \E P \in archive.seen : c \in P]_boundedVars
  BY <1>1
<1> QED
  BY <1>2, BoundedInvariance, PTL DEF BoundedSpec, LedgerGoesByProof

\* After an incident the process removes no record.
THEOREM IncidentKeeps == BoundedSpec => IncidentKeepsRecords
<1>1. ASSUME Inv, [BoundedNext]_boundedVars, fault, process = "up", process' = "up"
      PROVE  Pending \subseteq Pending'
  <2>1. file \in File
    BY <1>1 DEF Inv, BoundedTypeOK, File
  <2>2. ASSUME NEW c \in Call, Finish(c) PROVE Pending' = Pending
    BY <1>1, <2>2 DEF Finish, Incident, Pending
  <2>3. ASSUME NEW c \in Call, Block(c) PROVE Pending' = Pending
    BY <2>1, <2>3 DEF Block, Both, Torn, Pending, File, State
  <2>4. CASE Start \/ Refuse \/ Exit \/ Audit \/ Model \/ UNCHANGED boundedVars
    BY <2>4 DEF Start, Refuse, Exit, Audit, Model, boundedVars, Pending
  <2> QED
    BY <1>1, <2>2, <2>3, <2>4
    DEF BoundedNext, Begin, Dispatchable, PowerLoss, Forget, Clear
<1>2. Inv /\ [BoundedNext]_boundedVars
        => [fault /\ process = "up" /\ process' = "up" => Pending \subseteq Pending']_boundedVars
  BY <1>1
<1> QED
  BY <1>2, BoundedInvariance, PTL DEF BoundedSpec, IncidentKeepsRecords

----------------------------------------------------------------------------
\* The ledger implements the promise that the scheduler is built on.  What is
\* open is in a slot, and what is at large is on record, so the gate is shut.

\* A lane that has left with its request unproved was in a slot, and has
\* nothing more to send.
SettledLeft == \A c \in settled : c \in live /\ stage[c] \in {"confirmed", "uncertain", "timedout"}

\* Every step keeps what a lane that is done may have left on record.
LEMMA SettledStep ==
    ASSUME Inv, SettledLeft, [BoundedNext]_boundedVars
    PROVE  SettledLeft'
<1>0. M!CallTypeOK /\ live \subseteq Call
  BY DEF Inv, BoundedTypeOK
<1> USE DEF SettledLeft
<1>1. ASSUME NEW c \in Call, Begin(c) PROVE SettledLeft'
  BY <1>0, <1>1 DEF Begin, Fresh, M!Open, M!MoveTo, M!CallTypeOK, callVars
<1>2. ASSUME NEW c \in Call, Finish(c) PROVE SettledLeft'
  BY <1>2 DEF Finish, callVars
<1>3. ASSUME NEW c \in Call, Block(c) PROVE SettledLeft'
  BY <1>3 DEF Block, callVars
<1>4. CASE Model
  BY <1>0, <1>4, ModelActs DEF memoryVars, M!CallTypeOK
<1>5. CASE Exit \/ PowerLoss
  BY <1>5 DEF Exit, PowerLoss, Forget
<1>6. CASE Start \/ Refuse \/ Audit \/ Clear \/ UNCHANGED boundedVars
  BY <1>6 DEF Start, Refuse, Audit, Clear, boundedVars, memoryVars, callVars
<1> QED
  BY <1>1, <1>2, <1>3, <1>4, <1>5, <1>6 DEF BoundedNext

\* That holds in every state.
LEMMA SettledInvariance == BoundedSpec => []SettledLeft
<1>1. BoundedInit => SettledLeft
  BY DEF BoundedInit, SettledLeft
<1> QED
  BY <1>1, SettledStep, BoundedInvariance, PTL DEF BoundedSpec

\* What the steps need to know of the state they start from.
Ready ==
    /\ stage \in [Call -> {"idle", "open", "uncertain", "dead"} \cup M!Concluded]
    /\ remote \in [Call -> {"none", "running", "stopped"}]
    /\ SettledLeft
    /\ Launchable \subseteq live
    /\ fault \in BOOLEAN
    /\ process # "up" => live = {} /\ ~fault
    /\ \A c \in Call : AtLarge(c) => stage[c] \in {"open", "uncertain", "dead"}
    /\ \A c \in Call : stage[c] = "idle" => c \notin live /\ ~AtLarge(c)
    /\ \A c \in Call : AsCall(c) = "adrift" => c \in Pending
    /\ Promise!Open \subseteq live

\* The two invariants give what the refinement asks of a state.
LEMMA IsReady ==
    ASSUME Inv, SettledLeft
    PROVE  Ready
BY DEF SettledLeft, Inv, BoundedTypeOK, M!CallTypeOK, LedgerInv, Custody, UnderWayIsOnRecord, AsCall, AtLarge,
       M!Running, Launchable, Promise!Open, Ready

Abs == [c \in Call |-> AsCall(c)]

\* A step that moves one request, and no other.
LEMMA OneMoves ==
    ASSUME NEW c \in Call, \A d \in Call \ {c} : AsCall(d)' = AsCall(d)
    PROVE  Abs' = [Abs EXCEPT ![c] = AsCall(c)']
BY DEF Abs

\* A step that moves no call moves nothing of the promise.
LEMMA NoneMoves ==
    ASSUME \A d \in Call : AsCall(d)' = AsCall(d)
    PROVE  Abs' = Abs
BY DEF Abs

\* A begin is the begin of the promise, or trouble.
LEMMA BeginKept ==
    ASSUME Inv, Ready, NEW c \in Call, Begin(c)
    PROVE  Promise!Begin(c) \/ Promise!Trouble
<1>1. AsCall(c) = "new" /\ process = "up" /\ process' = process /\ ~fault
  BY DEF Begin, Fresh, AsCall, Dispatchable
<1>2. Cardinality(Promise!Open) < MaxInflight
  <2>1. Promise!Open \subseteq Pending /\ IsFiniteSet(Pending) /\ Cardinality(Pending) < MaxInflight
    BY DEF Begin, Dispatchable, Ready, Inv, Finite
  <2>2. Cardinality(Promise!Open) \in Nat /\ Cardinality(Pending) \in Nat
        /\ Cardinality(Promise!Open) <= Cardinality(Pending)
    BY <2>1, FS_Subset, FS_CardinalityType
  <2> QED
    BY <2>1, <2>2, BoundedAssumption
<1>3. CASE live' = live \cup {c} /\ M!Open(c) /\ UNCHANGED <<poisoned, fault>>
  <2>1. stage' = [stage EXCEPT ![c] = "open"] /\ remote' = remote /\ settled' = settled
    BY <1>3 DEF M!Open, M!MoveTo, Begin
  <2>2. AsCall(c)' = "open"
    BY <1>3, <2>1 DEF Ready, SettledLeft, AsCall, Begin, Fresh
  <2>3. \A d \in Call \ {c} : AsCall(d)' = AsCall(d)
    BY <1>3, <2>1 DEF Ready, AsCall, AtLarge
  <2>4. Abs' = [Abs EXCEPT ![c] = "open"] /\ Abs[c] = "new"
    BY <1>1, <2>2, <2>3, OneMoves DEF Abs
  <2>5. Promise!Cardinality(Promise!Open) = Cardinality(Promise!Open)
    BY DEF Promise!Cardinality, Cardinality
  <2> QED
    BY <1>1, <1>2, <1>3, <2>4, <2>5 DEF Promise!Begin, Abs
<1>4. CASE fault' /\ UNCHANGED <<callVars, live>>
  <2>1. UNCHANGED <<stage, remote, live, settled>>
    BY <1>4 DEF callVars, Begin
  <2>2. \A d \in Call : AsCall(d)' = AsCall(d)
    BY <2>1 DEF AsCall, AtLarge
  <2> QED
    BY <1>1, <1>4, <2>2, NoneMoves DEF Promise!Trouble, Abs
<1> QED
  BY <1>3, <1>4 DEF Begin

\* A finish is the end of a call.
LEMMA FinishKept ==
    ASSUME Ready, NEW c \in Call, Finish(c), fault \in BOOLEAN
    PROVE  Promise!End(c)
<1>1. /\ process = "up" /\ process' = process /\ stage[c] = "confirmed" /\ fault' \in {fault, TRUE}
      /\ UNCHANGED <<stage, remote>>
      /\ c \in live \ settled /\ c \notin live' \ settled'
      /\ \A d \in Call \ {c} : (d \in live' \ settled') <=> (d \in live \ settled)
  BY DEF Finish, callVars
<1>2. AsCall(c) = "open" /\ AsCall(c)' = "over"
  BY <1>1 DEF AsCall, AtLarge, Ready
<1>3. \A d \in Call \ {c} : AsCall(d)' = AsCall(d)
  BY <1>1 DEF AsCall, AtLarge
<1> QED
  BY <1>1, <1>2, <1>3, OneMoves DEF Promise!End, Abs

\* A block loses the call.
LEMMA BlockKept ==
    ASSUME Ready, NEW c \in Call, Block(c)
    PROVE  Promise!Lose(c)
<1>1. /\ process = "up" /\ process' = process /\ stage[c] # "idle" /\ fault'
      /\ UNCHANGED <<stage, remote>>
      /\ c \in live \ settled /\ c \notin live' \ settled'
      /\ \A d \in Call \ {c} : (d \in live' \ settled') <=> (d \in live \ settled)
  BY DEF Block, callVars
<1>2. AsCall(c) = "open" /\ AsCall(c)' \in {"adrift", "over"}
  BY <1>1 DEF AsCall
<1>3. \A d \in Call \ {c} : AsCall(d)' = AsCall(d)
  BY <1>1 DEF AsCall, AtLarge
<1>4. fault' = TRUE
  BY DEF Block
<1> QED
  BY <1>1, <1>2, <1>3, <1>4, OneMoves DEF Promise!Lose, Abs

\* The model service: what it does is seen only of a request that is adrift.
LEMMA ModelKept ==
    ASSUME Ready, NEW c \in Call,
           M!Launch(c) \/ M!Stop(c) \/ M!Conclude(c) \/ (stage[c] = "open" /\ M!Doubt(c)),
           UNCHANGED <<process, memoryVars>>
    PROVE  Promise!Settle(c) \/ UNCHANGED Promise!ledgerVars
<1>1. UNCHANGED <<process, live, settled, fault>>
  BY DEF memoryVars
<1>2. \A d \in Call \ {c} : AsCall(d)' = AsCall(d)
  <2>1. \A d \in Call \ {c} : stage'[d] = stage[d] /\ remote'[d] = remote[d]
    BY DEF M!Launch, M!Stop, M!Conclude, M!Doubt, M!MoveTo, Ready
  <2> QED
    BY <1>1, <2>1 DEF AsCall, AtLarge
<1>3. AsCall(c)' = AsCall(c) \/ (AsCall(c) = "adrift" /\ AsCall(c)' = "over")
  <2>1. CASE M!Launch(c)
    BY <1>1, <2>1 DEF M!Launch, Ready, SettledLeft, Launchable, AsCall, AtLarge
  <2>2. CASE M!Stop(c)
    BY <1>1, <2>2 DEF M!Stop, Ready, AsCall, AtLarge
  <2>3. CASE M!Conclude(c) \/ (stage[c] = "open" /\ M!Doubt(c))
    <3>1. stage[c] = "open" /\ stage'[c] # "idle"
      BY <2>3 DEF M!Conclude, M!Concluded, M!Doubt, M!MoveTo, Ready
    <3> QED
      BY <1>1, <3>1 DEF Ready, SettledLeft, Launchable, AsCall
  <2> QED
    BY <2>1, <2>2, <2>3
<1>4. CASE AsCall(c)' = AsCall(c)
  BY <1>1, <1>2, <1>4, NoneMoves DEF Abs, Promise!ledgerVars
<1>5. CASE AsCall(c) = "adrift" /\ AsCall(c)' = "over"
  BY <1>1, <1>2, <1>5, OneMoves DEF Abs, Promise!Settle
<1> QED
  BY <1>3, <1>4, <1>5

\* The end of a process: what ran runs on, and the rest is over.
LEMMA ForgetKept ==
    ASSUME Ready, Forget
    PROVE  Promise!Exit \/ UNCHANGED Promise!ledgerVars
<1>1. /\ process' = "down" /\ live' = {} /\ settled' = {} /\ fault' = FALSE /\ remote' = remote
      /\ stage' = [c \in Call |-> IF stage[c] \in {"open", "uncertain"} THEN "dead" ELSE stage[c]]
  BY DEF Forget, M!Abandon, Ready
<1>2. CASE process # "up"
  <2>1. stage' = stage /\ live' = live /\ settled' = settled
    BY <1>1, <1>2 DEF Ready, SettledLeft, Launchable
  <2>2. \A c \in Call : AsCall(c)' = AsCall(c)
    BY <1>1, <2>1 DEF AsCall, AtLarge
  <2>3. fault' = fault
    BY <1>1, <1>2 DEF Ready
  <2> QED
    BY <1>1, <1>2, <2>2, <2>3, NoneMoves DEF Abs, Promise!ledgerVars
<1>3. CASE process = "up"
  <2> DEFINE left == {c \in Call : AsCall(c)' = "adrift"}
  <2>1. \A c \in Call : AsCall(c)' \in {"new", "over", "adrift"}
    BY <1>1 DEF AsCall
  <2>2. \A c \in Call : AsCall(c) \in {"open", "adrift"} => AsCall(c)' \in {"over", "adrift"}
    BY <1>1 DEF AsCall, Ready
  <2>3. \A c \in Call : AsCall(c) \notin {"open", "adrift"} => AsCall(c)' = AsCall(c)
    BY <1>1 DEF AsCall, AtLarge, Ready
  <2>4. left \in SUBSET (Promise!Open \cup Promise!Adrift)
    BY <2>3 DEF Promise!Open, Promise!Adrift
  <2>5. Abs' = [c \in Call |-> IF c \in left THEN "adrift"
                              ELSE IF c \in Promise!Open \cup Promise!Adrift THEN "over" ELSE Abs[c]]
    BY <2>1, <2>2, <2>3 DEF Abs, Promise!Open, Promise!Adrift
  <2> HIDE DEF left
  <2> QED
    BY <1>1, <1>3, <2>4, <2>5 DEF Promise!Exit, Abs
<1> QED
  BY <1>2, <1>3

\* A new process, and steps that do not touch requests.
LEMMA RestKept ==
    ASSUME Inv, Ready, Start \/ Refuse \/ Audit \/ Clear \/ UNCHANGED boundedVars
    PROVE  Promise!Start \/ Promise!Trouble \/ UNCHANGED Promise!ledgerVars
<1>1. UNCHANGED <<stage, remote, live, settled>>
  BY DEF Start, Refuse, Audit, Clear, boundedVars, memoryVars, callVars
<1>2. Abs' = Abs
  BY <1>1, NoneMoves DEF AsCall, AtLarge
<1>3. CASE Start
  <2>1. file.seen.blocked \in BOOLEAN
    BY DEF Inv, BoundedTypeOK, State
  <2>2. Promise!Adrift \subseteq Pending
    BY DEF Ready, Promise!Adrift
  <2> QED
    BY <1>2, <1>3, <2>1, <2>2 DEF Start, Promise!Start, Abs
<1>4. CASE Refuse
  BY <1>2, <1>4 DEF Refuse, Promise!Trouble, Abs
<1>5. CASE Audit \/ Clear
  BY <1>2, <1>5 DEF Audit, Clear, memoryVars, Promise!ledgerVars, Abs
<1>6. CASE UNCHANGED boundedVars
  BY <1>2, <1>6 DEF boundedVars, memoryVars, Promise!ledgerVars, Abs
<1> QED
  BY <1>3, <1>4, <1>5, <1>6

\* With files that may be torn, an operator's audits and crashes anywhere, no
\* request begins under this ledger while another one may run that nobody
\* waits for, and never more than the slots are open.
THEOREM PromiseKept == BoundedSpec => KeepsPromise
<1>1. BoundedInit => Promise!LedgerInit
  BY DEF BoundedInit, M!CallInit, Promise!LedgerInit, AsCall
<1>2. ASSUME Inv, SettledLeft, [BoundedNext]_boundedVars
      PROVE  [Promise!LedgerNext]_(Promise!ledgerVars)
  <2> USE DEF Promise!LedgerNext
  <2>0. Ready
    BY <1>2, IsReady
  <2>1. ASSUME NEW c \in Call, Begin(c) PROVE Promise!LedgerNext
    BY <1>2, <2>0, <2>1, BeginKept
  <2>2. ASSUME NEW c \in Call, Finish(c) PROVE Promise!LedgerNext
    BY <1>2, <2>0, <2>2, FinishKept DEF Inv, BoundedTypeOK
  <2>3. ASSUME NEW c \in Call, Block(c) PROVE Promise!LedgerNext
    BY <2>0, <2>3, BlockKept
  <2>4. CASE Model
    BY <2>0, <2>4, ModelKept DEF Model
  <2>5. CASE Exit \/ PowerLoss
    BY <2>0, <2>5, ForgetKept DEF Exit, PowerLoss
  <2>6. CASE Start \/ Refuse \/ Audit \/ Clear \/ UNCHANGED boundedVars
    BY <1>2, <2>0, <2>6, RestKept
  <2> QED
    BY <1>2, <2>1, <2>2, <2>3, <2>4, <2>5, <2>6 DEF BoundedNext
<1> QED
  BY <1>1, <1>2, BoundedInvariance, SettledInvariance, PTL
  DEF BoundedSpec, KeepsPromise, Promise!LedgerSpec

----------------------------------------------------------------------------
\* The workbench

LedgerState == [profile : Profile, pending : SUBSET Request, blocked : BOOLEAN]
JobState == [status : {"new", "queued", "running", "stranded", "over"}, mode : Mode]

WorkbenchTypeOK ==
    /\ holder \in {"none", "app", "init", "backup"}
    /\ app \in [phase : {"down", "locked", "started", "created", "stored", "serving",
                         "draining", "failed"}, mode : Mode, initialize : BOOLEAN]
    /\ ledger \in {NoLedger, Begun} \cup LedgerState
    /\ jobs \in [Job -> JobState]
    /\ requests \in [Request -> {"new", "sent", "late", "doubt", "lost", "over"}]
    /\ copy.stage \in {"none", "inspected", "dumped"}

Attached == In({"serving", "draining", "failed"})

\* Who holds the lock of the instance is who changes it.
LocksHeld ==
    /\ holder = "app" <=> ~In({"down"})
    /\ holder = "backup" <=> copy.stage # "none"
    /\ holder = "init" => ledger = Begun

\* A process waits for requests only while it is attached to the submissions,
\* and all of them are of its mode.
WorkFollowsMode ==
    /\ Waiting # {} => Attached
    /\ \A r \in Request : requests[r] = "late" => app.mode = Serial
    /\ \A j, k \in Outstanding : jobs[j].mode = jobs[k].mode
    /\ Attached => \A j \in Outstanding : jobs[j].mode = app.mode

\* What was given up is on record, and what is on record keeps others out.
DoubtOnRecord ==
    /\ \A r \in Request :
          requests[r] = "doubt" => warning \/ (Written /\ r \in ledger.pending)
    /\ In({"started", "created", "stored", "serving", "draining"}) =>
          ~warning /\ (app.mode = Serial => LegacySafe)
    /\ Attached /\ app.mode # Serial =>
          /\ Holds(app.mode)
          /\ \A r \in Request : requests[r] = "sent" => r \in ledger.pending
    /\ In({"serving", "draining"}) /\ app.mode # Serial =>
          ~ledger.blocked /\ \A r \in ledger.pending : requests[r] = "sent"

WorkbenchInv ==
    /\ WorkbenchTypeOK
    /\ LocksHeld
    /\ WorkFollowsMode
    /\ DoubtOnRecord
    /\ CheckpointIsOneInstant

\* The variables keep their types.
LEMMA WorkbenchTypeStep ==
    ASSUME WorkbenchInv, [WorkbenchNext]_workbenchVars
    PROVE  WorkbenchTypeOK'
<1> USE WorkbenchAssumption
    DEF WorkbenchInv, WorkbenchTypeOK, LocksHeld, WorkFollowsMode, DoubtOnRecord, LedgerState, JobState, Mode, Down, Begun, Written, Holds, Attached, In, Waiting, stateDirectory, work
<1>1. CASE \E m \in Mode, initialize \in BOOLEAN : LaunchApp(m, initialize)
  BY <1>1 DEF LaunchApp
<1>2. CASE Admit
  BY <1>2 DEF Admit
<1>3. CASE WriteMarker
  <2>1. CASE UNCHANGED <<holder, app>>
    BY <1>3, <2>1 DEF WriteMarker
  <2>2. CASE holder' = "none" /\ app' = Down
    BY <1>3, <2>2 DEF WriteMarker
  <2> QED
    BY <1>3, <2>1, <2>2 DEF WriteMarker
<1>4. CASE CreateDatabase
  BY <1>4 DEF CreateDatabase
<1>5. CASE CommentDatabase
  BY <1>5 DEF CommentDatabase
<1>6. CASE OpenStore
  BY <1>6 DEF OpenStore
<1>7. CASE Attach
  BY <1>7 DEF Attach, OutstandingModes
<1>8. CASE \E j \in Job : SubmitJob(j)
  BY <1>8 DEF SubmitJob
<1>9. CASE \E j \in Job : ClaimJob(j)
  BY <1>9 DEF ClaimJob, Running
<1>10. CASE \E j \in Job : FinishJob(j)
  <2> PICK j \in Job : FinishJob(j)
    BY <1>10
  <2>1. PICK status \in {"over", "queued"} : jobs' = [jobs EXCEPT ![j].status = status]
    BY DEF FinishJob
  <2>2. jobs' \in [Job -> JobState]
    BY <2>1
  <2> QED
    BY <2>2 DEF FinishJob
<1>11. CASE \E r \in Request : SendRequest(r)
  BY <1>11 DEF SendRequest
<1>12. CASE \E r \in Request : AnswerRequest(r)
  BY <1>12 DEF AnswerRequest
<1>13. CASE \E r \in Request : GiveUp(r)
  BY <1>13 DEF GiveUp
<1>14. CASE \E r \in Request : WriteWarning(r)
  BY <1>14 DEF WriteWarning
<1>15. CASE \E r \in Request : EndAtModel(r)
  BY <1>15 DEF EndAtModel
<1>16. CASE StopApp
  BY <1>16 DEF StopApp
<1>17. CASE LeaveApp
  BY <1>17 DEF LeaveApp, Leave, Left
<1>18. CASE KillApp
  BY <1>18 DEF KillApp, Leave, Left
<1>19. CASE BeginLedger
  BY <1>19 DEF BeginLedger
<1>20. CASE KillInitialization
  BY <1>20 DEF KillInitialization
<1>21. CASE RecoverLedger
  BY <1>21 DEF RecoverLedger
<1>22. CASE ClearWarning
  BY <1>22 DEF ClearWarning
<1>23. CASE \E p \in Profile : WriteLedger(p)
  BY <1>23 DEF WriteLedger, Initialized
<1>24. CASE BeginCheckpoint
  BY <1>24 DEF BeginCheckpoint, Inspected
<1>25. CASE DumpDatabase
  BY <1>25 DEF DumpDatabase
<1>26. CASE EndCheckpoint
  BY <1>26 DEF EndCheckpoint, NoCopy
<1>27. CASE UNCHANGED workbenchVars
  BY <1>27 DEF workbenchVars, work
<1> QED
  BY <1>1, <1>2, <1>3, <1>4, <1>5, <1>6, <1>7, <1>8, <1>9, <1>10, <1>11, <1>12, <1>13, <1>14, <1>15, <1>16, <1>17, <1>18, <1>19, <1>20, <1>21, <1>22, <1>23, <1>24, <1>25, <1>26, <1>27 DEF WorkbenchNext

\* What waits is of the mode of whoever is attached.
LEMMA WorkStep ==
    ASSUME WorkbenchInv, [WorkbenchNext]_workbenchVars
    PROVE  WorkFollowsMode'
<1> USE WorkbenchAssumption
    DEF WorkbenchInv, WorkbenchTypeOK, LocksHeld, WorkFollowsMode, JobState, Mode, Down, Attached, Outstanding, In, Waiting, Running, stateDirectory, work
<1>1. CASE \E m \in Mode, initialize \in BOOLEAN : LaunchApp(m, initialize)
  BY <1>1 DEF LaunchApp
<1>2. CASE Admit
  BY <1>2 DEF Admit
<1>3. CASE WriteMarker
  <2>1. CASE UNCHANGED <<holder, app>>
    BY <1>3, <2>1 DEF WriteMarker
  <2>2. CASE holder' = "none" /\ app' = Down
    BY <1>3, <2>2 DEF WriteMarker
  <2> QED
    BY <1>3, <2>1, <2>2 DEF WriteMarker
<1>4. CASE CreateDatabase
  BY <1>4 DEF CreateDatabase
<1>5. CASE CommentDatabase
  BY <1>5 DEF CommentDatabase
<1>6. CASE OpenStore
  BY <1>6 DEF OpenStore
<1>7. CASE Attach
  <2>1. /\ app' = [app EXCEPT !.phase = "serving"] /\ UNCHANGED <<jobs, requests>>
        /\ \A j \in Outstanding : jobs[j].mode = app.mode
    BY <1>7 DEF Attach, OutstandingModes
  <2>2. app'.phase = "serving" /\ app'.mode = app.mode
    BY <2>1
  <2> QED
    BY <2>1, <2>2
<1>8. CASE \E j \in Job : SubmitJob(j)
  BY <1>8 DEF SubmitJob
<1>9. CASE \E j \in Job : ClaimJob(j)
  BY <1>9 DEF ClaimJob, Running
<1>10. CASE \E j \in Job : FinishJob(j)
  <2> PICK j \in Job : FinishJob(j)
    BY <1>10
  <2>1. PICK status \in {"over", "queued"} : jobs' = [jobs EXCEPT ![j].status = status]
    BY DEF FinishJob
  <2>2. \A k \in Job : jobs'[k].mode = jobs[k].mode
    BY <2>1
  <2>3. Outstanding' \subseteq Outstanding
    BY <2>1 DEF FinishJob
  <2> QED
    BY <2>2, <2>3 DEF FinishJob
<1>11. CASE \E r \in Request : SendRequest(r)
  BY <1>11 DEF SendRequest
<1>12. CASE \E r \in Request : AnswerRequest(r)
  BY <1>12 DEF AnswerRequest
<1>13. CASE \E r \in Request : GiveUp(r)
  BY <1>13 DEF GiveUp
<1>14. CASE \E r \in Request : WriteWarning(r)
  BY <1>14 DEF WriteWarning
<1>15. CASE \E r \in Request : EndAtModel(r)
  BY <1>15 DEF EndAtModel
<1>16. CASE StopApp
  BY <1>16 DEF StopApp
<1>17. CASE LeaveApp
  BY <1>17 DEF LeaveApp, Leave, Left
<1>18. CASE KillApp
  BY <1>18 DEF KillApp, Leave, Left
<1>19. CASE BeginLedger
  BY <1>19 DEF BeginLedger
<1>20. CASE KillInitialization
  BY <1>20 DEF KillInitialization
<1>21. CASE RecoverLedger
  BY <1>21 DEF RecoverLedger
<1>22. CASE ClearWarning
  BY <1>22 DEF ClearWarning
<1>23. CASE \E p \in Profile : WriteLedger(p)
  BY <1>23 DEF WriteLedger, Initialized
<1>24. CASE BeginCheckpoint
  BY <1>24 DEF BeginCheckpoint, Inspected
<1>25. CASE DumpDatabase
  BY <1>25 DEF DumpDatabase
<1>26. CASE EndCheckpoint
  BY <1>26 DEF EndCheckpoint, NoCopy
<1>27. CASE UNCHANGED workbenchVars
  BY <1>27 DEF workbenchVars, work
<1> QED
  BY <1>1, <1>2, <1>3, <1>4, <1>5, <1>6, <1>7, <1>8, <1>9, <1>10, <1>11, <1>12, <1>13, <1>14, <1>15, <1>16, <1>17, <1>18, <1>19, <1>20, <1>21, <1>22, <1>23, <1>24, <1>25, <1>26, <1>27 DEF WorkbenchNext

\* What was given up stays on record, and whoever may send has found none.
LEMMA DoubtStep ==
    ASSUME WorkbenchInv, [WorkbenchNext]_workbenchVars
    PROVE  DoubtOnRecord'
<1> USE WorkbenchAssumption
    DEF WorkbenchInv, WorkbenchTypeOK, LocksHeld, WorkFollowsMode, DoubtOnRecord, LedgerState, Mode, Down, Begun, Written, Holds, Attached, LegacySafe, LedgerLockFree, LedgerClean, Over, In, Waiting, stateDirectory, work
<1>1. CASE \E m \in Mode, initialize \in BOOLEAN : LaunchApp(m, initialize)
  BY <1>1 DEF LaunchApp
<1>2. CASE Admit
  BY <1>2 DEF Admit
<1>3. CASE WriteMarker
  <2>1. CASE UNCHANGED <<holder, app>>
    BY <1>3, <2>1 DEF WriteMarker
  <2>2. CASE holder' = "none" /\ app' = Down
    BY <1>3, <2>2 DEF WriteMarker
  <2> QED
    BY <1>3, <2>1, <2>2 DEF WriteMarker
<1>4. CASE CreateDatabase
  BY <1>4 DEF CreateDatabase
<1>5. CASE CommentDatabase
  BY <1>5 DEF CommentDatabase
<1>6. CASE OpenStore
  BY <1>6 DEF OpenStore
<1>7. CASE Attach
  BY <1>7 DEF Attach, OutstandingModes
<1>8. CASE \E j \in Job : SubmitJob(j)
  BY <1>8 DEF SubmitJob
<1>9. CASE \E j \in Job : ClaimJob(j)
  BY <1>9 DEF ClaimJob, Running
<1>10. CASE \E j \in Job : FinishJob(j)
  BY <1>10 DEF FinishJob, Running
<1>11. CASE \E r \in Request : SendRequest(r)
  BY <1>11 DEF SendRequest
<1>12. CASE \E r \in Request : AnswerRequest(r)
  BY <1>12 DEF AnswerRequest
<1>13. CASE \E r \in Request : GiveUp(r)
  <2> PICK r \in Request : GiveUp(r)
    BY <1>13
  <2>1. CASE app.mode = Serial
    BY <2>1 DEF GiveUp
  <2>2. CASE app.mode # Serial
    <3>1. Attached /\ ledger \in LedgerState /\ ledger.profile = app.mode /\ r \in ledger.pending
      BY <2>2 DEF GiveUp
    <3>2. /\ ledger' = [ledger EXCEPT !.blocked = TRUE]
          /\ ledger' \in LedgerState
          /\ ledger'.profile = ledger.profile /\ ledger'.pending = ledger.pending
      BY <2>2, <3>1 DEF GiveUp
    <3>3. Written'
      BY <3>2
    <3>4. app'.mode = app.mode /\ app'.phase = "failed" /\ UNCHANGED warning
      BY <2>2 DEF GiveUp
    <3>5. requests' = [requests EXCEPT ![r] = "doubt"]
      BY <2>2 DEF GiveUp
    <3> QED
      BY <2>2, <3>1, <3>2, <3>3, <3>4, <3>5
  <2> QED
    BY <2>1, <2>2
<1>14. CASE \E r \in Request : WriteWarning(r)
  BY <1>14 DEF WriteWarning
<1>15. CASE \E r \in Request : EndAtModel(r)
  BY <1>15 DEF EndAtModel
<1>16. CASE StopApp
  BY <1>16 DEF StopApp
<1>17. CASE LeaveApp
  BY <1>17 DEF LeaveApp, Leave, Left
<1>18. CASE KillApp
  BY <1>18 DEF KillApp, Leave, Left
<1>19. CASE BeginLedger
  BY <1>19 DEF BeginLedger
<1>20. CASE KillInitialization
  BY <1>20 DEF KillInitialization
<1>21. CASE RecoverLedger
  BY <1>21 DEF RecoverLedger
<1>22. CASE ClearWarning
  BY <1>22 DEF ClearWarning
<1>23. CASE \E p \in Profile : WriteLedger(p)
  BY <1>23 DEF WriteLedger, Initialized
<1>24. CASE BeginCheckpoint
  BY <1>24 DEF BeginCheckpoint, Inspected
<1>25. CASE DumpDatabase
  BY <1>25 DEF DumpDatabase
<1>26. CASE EndCheckpoint
  BY <1>26 DEF EndCheckpoint, NoCopy
<1>27. CASE UNCHANGED workbenchVars
  BY <1>27 DEF workbenchVars, work
<1> QED
  BY <1>1, <1>2, <1>3, <1>4, <1>5, <1>6, <1>7, <1>8, <1>9, <1>10, <1>11, <1>12, <1>13, <1>14, <1>15, <1>16, <1>17, <1>18, <1>19, <1>20, <1>21, <1>22, <1>23, <1>24, <1>25, <1>26, <1>27 DEF WorkbenchNext

\* While a backup holds the lock nothing that it copied changes: the application
\* is down, so no request waits, and the tools ask for the same lock.
LEMMA CheckpointStep ==
    ASSUME WorkbenchInv, [WorkbenchNext]_workbenchVars
    PROVE  LocksHeld' /\ CheckpointIsOneInstant'
<1> USE WorkbenchAssumption
    DEF WorkbenchInv, WorkbenchTypeOK, LocksHeld, WorkFollowsMode, CheckpointIsOneInstant,
        LedgerState, Down, Begun, Written, Attached, LedgerLockFree, In, Waiting, Running,
        stateDirectory, work
<1>1. ASSUME NEW m \in Mode, NEW initialize \in BOOLEAN, LaunchApp(m, initialize)
      PROVE  LocksHeld' /\ CheckpointIsOneInstant'
  BY <1>1 DEF LaunchApp
<1>2. CASE Admit \/ WriteMarker \/ CreateDatabase \/ CommentDatabase \/ OpenStore \/ Attach \/ StopApp
  BY <1>2 DEF Admit, WriteMarker, CreateDatabase, CommentDatabase, OpenStore, Attach, StopApp
<1>3. ASSUME NEW j \in Job, SubmitJob(j) \/ ClaimJob(j) \/ FinishJob(j)
      PROVE  LocksHeld' /\ CheckpointIsOneInstant'
  BY <1>3 DEF SubmitJob, ClaimJob, FinishJob
<1>4. ASSUME NEW r \in Request,
             SendRequest(r) \/ AnswerRequest(r) \/ GiveUp(r) \/ WriteWarning(r) \/ EndAtModel(r)
      PROVE  LocksHeld' /\ CheckpointIsOneInstant'
  BY <1>4 DEF SendRequest, AnswerRequest, GiveUp, WriteWarning, EndAtModel
<1>5. CASE LeaveApp \/ KillApp
  BY <1>5 DEF LeaveApp, KillApp, Leave
<1>6. CASE BeginLedger \/ KillInitialization \/ RecoverLedger \/ ClearWarning
  BY <1>6 DEF BeginLedger, KillInitialization, RecoverLedger, ClearWarning
<1>7. ASSUME NEW p \in Profile, WriteLedger(p)
      PROVE  LocksHeld' /\ CheckpointIsOneInstant'
  BY <1>7 DEF WriteLedger
<1>8. CASE BeginCheckpoint \/ DumpDatabase \/ EndCheckpoint
  BY <1>8 DEF BeginCheckpoint, DumpDatabase, EndCheckpoint, Inspected, NoCopy
<1>9. CASE UNCHANGED workbenchVars
  BY <1>9 DEF workbenchVars
<1> QED
  BY <1>1, <1>2, <1>3, <1>4, <1>5, <1>6, <1>7, <1>8, <1>9 DEF WorkbenchNext

\* Types, locks, the work in its mode and the records are invariant together.
LEMMA WorkbenchInvariance == WorkbenchSpec => []WorkbenchInv
<1>1. WorkbenchInit => WorkbenchInv
  BY WorkbenchAssumption
  DEF WorkbenchInit, WorkbenchInv, WorkbenchTypeOK, LocksHeld, WorkFollowsMode, DoubtOnRecord,
      CheckpointIsOneInstant, JobState, Mode, Down, NoCopy, Attached, In, Waiting, Outstanding
<1>2. WorkbenchInv /\ [WorkbenchNext]_workbenchVars => WorkbenchInv'
  BY WorkbenchTypeStep, WorkStep, DoubtStep, CheckpointStep DEF WorkbenchInv
<1> QED
  BY <1>1, <1>2, PTL DEF WorkbenchSpec

\* Outstanding submissions are of one mode, and of the mode of whoever serves.
THEOREM OneMode == WorkbenchSpec => []OneModeOutstanding
<1>1. WorkbenchInv => OneModeOutstanding
  <2> SUFFICES ASSUME WorkbenchInv PROVE OneModeOutstanding
    OBVIOUS
  <2>1. CASE Outstanding = {}
    <3>1. OutstandingModes = {}
      BY <2>1 DEF OutstandingModes
    <3> QED
      BY <3>1, FS_EmptySet DEF OneModeOutstanding
  <2>2. ASSUME NEW j \in Outstanding PROVE OneModeOutstanding
    <3>1. OutstandingModes = {jobs[j].mode}
      BY DEF OutstandingModes, WorkbenchInv, WorkFollowsMode
    <3>2. Cardinality(OutstandingModes) = 1
      BY <3>1, FS_Singleton
    <3>3. In({"serving", "draining", "failed"}) => OutstandingModes \subseteq {app.mode}
      BY DEF OutstandingModes, WorkbenchInv, WorkFollowsMode, Attached
    <3> QED
      BY <3>2, <3>3 DEF OneModeOutstanding
  <2> QED
    BY <2>1, <2>2
<1> QED
  BY <1>1, WorkbenchInvariance, PTL

\* A published checkpoint is of one instant of the ledger and the submissions.
THEOREM CheckpointOfOneInstant == WorkbenchSpec => []CheckpointIsOneInstant
<1>1. WorkbenchInv => CheckpointIsOneInstant
  BY DEF WorkbenchInv
<1> QED
  BY <1>1, WorkbenchInvariance, PTL

\* No way of starting bypasses what another left behind.
THEOREM NothingBypassed == WorkbenchSpec => NoBypass
<1> DEFINE Sound == \A r \in Request :
                       requests[r] = "new" /\ requests'[r] = "sent"
                           => \A q \in Request : requests[q] \notin {"late", "doubt"}
<1>1. ASSUME WorkbenchInv, [WorkbenchNext]_workbenchVars PROVE Sound
  <2> SUFFICES ASSUME NEW r \in Request, requests[r] = "new", requests'[r] = "sent"
               PROVE  \A q \in Request : requests[q] \notin {"late", "doubt"}
    OBVIOUS
  <2>1. requests \in [Request -> {"new", "sent", "late", "doubt", "lost", "over"}]
    BY <1>1 DEF WorkbenchInv, WorkbenchTypeOK
  <2>2. PICK s \in Request : requests'[r] = "sent" => SendRequest(s) /\ s = r
    <3>1. ASSUME NEW s \in Request, SendRequest(s)
          PROVE  requests'[r] = "sent" => s = r
      BY <2>1, <3>1 DEF SendRequest
    <3>2. ASSUME NEW s \in Request,
                 AnswerRequest(s) \/ GiveUp(s) \/ WriteWarning(s) \/ EndAtModel(s)
          PROVE  requests'[r] # "sent"
      BY <2>1, <3>2 DEF AnswerRequest, GiveUp, WriteWarning, EndAtModel
    <3>3. ASSUME Leave PROVE requests'[r] # "sent"
      BY <2>1, <3>3 DEF Leave, Left
    <3>4. \/ \E s \in Request : \/ SendRequest(s) \/ AnswerRequest(s) \/ GiveUp(s)
                               \/ WriteWarning(s) \/ EndAtModel(s)
          \/ Leave
          \/ UNCHANGED requests
      BY <1>1 DEF WorkbenchNext, workbenchVars, work, LaunchApp, Admit, WriteMarker, CreateDatabase,
             CommentDatabase, OpenStore, Attach, SubmitJob, ClaimJob, FinishJob, StopApp,
             LeaveApp, KillApp, BeginLedger, KillInitialization, RecoverLedger, ClearWarning,
             WriteLedger, BeginCheckpoint, DumpDatabase, EndCheckpoint
    <3> QED
      BY <3>1, <3>2, <3>3, <3>4
  <2>3. SendRequest(r)
    BY <2>2
  <2>4. CASE app.mode = Serial
    <3>1. Waiting = {} /\ In({"serving", "draining"})
      BY <2>3, <2>4 DEF SendRequest
    <3>2. ~warning /\ LegacySafe
      BY <1>1, <2>4, <3>1 DEF WorkbenchInv, DoubtOnRecord, In
    <3> QED
      BY <1>1, <3>1, <3>2 DEF WorkbenchInv, DoubtOnRecord, Waiting, LegacySafe, LedgerClean, Written
  <2>5. CASE app.mode # Serial
    <3>1. In({"serving", "draining"})
      BY <2>3 DEF SendRequest
    <3>2. ~warning /\ \A q \in ledger.pending : requests[q] = "sent"
      BY <1>1, <2>5, <3>1 DEF WorkbenchInv, DoubtOnRecord, In
    <3> QED
      BY <1>1, <2>5, <3>2 DEF WorkbenchInv, DoubtOnRecord, WorkFollowsMode
  <2> QED
    BY <2>4, <2>5
<1>2. WorkbenchInv /\ [WorkbenchNext]_workbenchVars => [Sound]_workbenchVars
  BY <1>1
<1> QED
  BY <1>2, WorkbenchInvariance, PTL DEF WorkbenchSpec, NoBypass
============================================================================
