----------------------- MODULE ChallengeCatalogProofs -----------------------
(***************************************************************************)
(* Proofs about ChallengeCatalog, for every number of builders and of      *)
(* challenges of V1 and of the expansion, however often the dataset is     *)
(* replaced: what is in service can be loaded, descriptions and private    *)
(* manifests are of one build, and an instance keeps its contracts.        *)
(*                                                                         *)
(* The invariant says what each builder has still to do: CatalogInv and    *)
(* ImportInv, that each file a registry is to name is written or on the    *)
(* list of its builder; OutInv, that a public description goes before what *)
(* belongs to it; ApartInv, that no two builders fill one file.  A file of *)
(* V1 that an import finds is in service already, and a file of the        *)
(* expansion is written by nobody else.                                    *)
(***************************************************************************)
EXTENDS ChallengeCatalog, SequenceTheorems, TLAPS

ChallengeFile == {"public", "private", "contract"} \X Title
Text == {Absent, HalfWritten} \cup Artifact
Names == {Absent, HalfWritten} \cup SUBSET Title
Hash == Title \X Artifact

Kind == {"idle", "catalog", "single", "expansion", "import"}
Stage == {"idle", "choosing", "hashing", "generated", "writing", "filling"}

Run == [kind : Kind, stage : Stage, plan : Seq(Title), chosen : (0 .. MaxReplacements) \cup {NoDataset},
        made : [Title -> Text], names : SUBSET Title, out : Seq(File)]

\* The variables keep their types.
CatalogTypeOK ==
    /\ dataset \in 0 .. MaxReplacements
    /\ disk \in [{"project", "staging"} -> [File -> Text \cup SUBSET Title]]
    /\ \A tree \in {"project", "staging"} :
          /\ \A f \in ChallengeFile : disk[tree][f] \in Text
          /\ \A name \in {"base", "wider"} : disk[tree][Registry(name)] \in Names
    /\ run \in [Builder -> Run]
    /\ imported \in BOOLEAN
    /\ contracts \in {NoMarker} \cup SUBSET Hash /\ stored \in SUBSET Hash
    /\ instance \in [by : {"nobody", "app", "upgrade"}, new : SUBSET Hash, journaled : BOOLEAN]

Loaded(c) ==
    /\ Written(disk["project"][<<"public", c>>])
    /\ disk["project"][<<"contract", c>>] = disk["project"][<<"public", c>>]

\* The registries in the project name what can be loaded.
RegistryInv ==
    /\ disk["project"][Registry("base")] # Absent =>
          /\ disk["project"][Registry("base")] \in SUBSET Title
          /\ Elements(Planned) \subseteq disk["project"][Registry("base")]
          /\ \A c \in disk["project"][Registry("base")] : Loaded(c)
    /\ imported =>
          /\ disk["project"][Registry("wider")] \in SUBSET Title
          /\ \A c \in disk["project"][Registry("wider")] : Loaded(c)

\* A private manifest or a contract is there only beside the public description
\* it agrees with.
PairInv ==
    \A c \in Title, kind \in {"private", "contract"} :
        disk["project"][<<kind, c>>] # Absent =>
            /\ Written(disk["project"][<<"public", c>>])
            /\ Written(disk["project"][<<kind, c>>]) =>
                  disk["project"][<<kind, c>>] = disk["project"][<<"public", c>>]

Generating(b) == run[b].stage \in {"choosing", "hashing", "generated"}

\* What a builder has made, and what it still has to choose for.
GenerationInv(b) ==
    /\ run[b].kind # "import" => \A c \in Title : run[b].made[c] # HalfWritten
    /\ run[b].stage \in {"choosing", "hashing"} => run[b].plan # <<>>
    /\ run[b].stage = "generated" => run[b].plan = <<>>
    /\ run[b].stage = "hashing" => run[b].chosen \in 0 .. MaxReplacements
    /\ Generating(b) /\ run[b].kind \in {"catalog", "single"} =>
          /\ Elements(run[b].plan) \subseteq Elements(Planned)
          /\ \A c \in Title : run[b].made[c] # Absent => c \in Elements(Planned)
    /\ Generating(b) /\ run[b].kind = "catalog" =>
          \A c \in Elements(Planned) : c \in Elements(run[b].plan) \/ run[b].made[c] # Absent

Output(b) == run[b].stage \in {"writing", "filling"}
Result(b, f) == IF f[1] = "registry" THEN run[b].names ELSE run[b].made[f[2]]
Pending(b, f) == f \in Elements(run[b].out)
Kept(b, f) == disk["project"][f] = Result(b, f)

\* What goes into the file is made, and a public description goes before what
\* belongs to it.
Founded(b, i) ==
    run[b].out[i] \in ChallengeFile =>
        /\ run[b].made[run[b].out[i][2]] \in Artifact
        /\ run[b].out[i][1] # "public" =>
              \/ Kept(b, <<"public", run[b].out[i][2]>>)
              \/ \E j \in 1 .. i - 1 : run[b].out[j] = <<"public", run[b].out[i][2]>>

\* The files a builder still has to write.
OutInv(b) ==
    /\ run[b].kind # "idle"
    /\ run[b].stage = "filling" => run[b].out # <<>> /\ OnDisk(b) = HalfWritten
    /\ \A f \in Elements(run[b].out) :
          /\ f \in ChallengeFile \/ (f = Registry("wider") /\ run[b].kind \in {"expansion", "import"})
          /\ run[b].kind \in {"catalog", "single"} => f[2] \in Elements(Planned)
    /\ run[b].kind # "expansion" => \A i \in DOMAIN run[b].out : Founded(b, i)

\* What a registry is to name is written, or will be.
CatalogInv(b) ==
    /\ Elements(Planned) \subseteq run[b].names
    /\ \A c \in run[b].names :
          \/ Loaded(c)
          \/ /\ run[b].made[c] \in Artifact
             /\ \A kind \in {"public", "contract"} : Pending(b, <<kind, c>>) \/ Kept(b, <<kind, c>>)

\* An import owns the files it is to write, but for those of the challenges that
\* are in service already.
ImportInv(b) ==
    /\ \A c \in run[b].names \cap Elements(Planned) : Loaded(c)
    /\ \A c \in run[b].names :
          /\ run[b].made[c] \in Artifact
          /\ \A kind \in {"public", "contract"} : Pending(b, <<kind, c>>) \/ Kept(b, <<kind, c>>)
    /\ Pending(b, Registry("wider")) \/ Kept(b, Registry("wider"))
    /\ \A f \in Elements(run[b].out) :
          /\ f \in ChallengeFile => f[1] # "private" /\ f[2] \in run[b].names
          /\ \/ Agrees(f, Result(b, f))
             \/ run[b].stage = "filling" /\ f = NextFile(b)

BuilderInv(b) ==
    /\ GenerationInv(b)
    /\ Output(b) => /\ OutInv(b)
                    /\ run[b].kind = "catalog" => CatalogInv(b)
                    /\ run[b].kind = "import" => ImportInv(b)

\* Builders do not meet in a file, and one at a time is about an expansion.
ApartInv ==
    \A b, d \in Builder : b # d =>
        /\ run[b].kind \in {"expansion", "import"} => run[d].kind \notin {"expansion", "import"}
        /\ run[b].stage = "filling" /\ run[d].stage = "filling" /\ TreeOf(b) = TreeOf(d) =>
              NextFile(b) # NextFile(d)

\* What the instance is bound to is on the disk, and an upgrade extends it.
InstanceInv ==
    /\ contracts = NoMarker => stored = {} /\ instance = Vacant
    /\ contracts # NoMarker =>
          /\ stored \subseteq contracts
          /\ \A hash \in contracts : disk["project"][<<"contract", hash[1]>>] = hash[2]
    /\ instance.by = "upgrade" =>
          /\ contracts \subseteq instance.new
          /\ \A hash \in instance.new : disk["project"][<<"contract", hash[1]>>] = hash[2]
    /\ instance.journaled =>
          /\ instance.by = "upgrade"
          /\ [before |-> contracts, after |-> instance.new] \in journals

CatalogOrder ==
    RegistryInv /\ PairInv /\ (\A b \in Builder : BuilderInv(b)) /\ ApartInv /\ InstanceInv

----------------------------------------------------------------------------
\* Files and what is in them

\* Every file is a registry or one document of one challenge, and these never coincide.
LEMMA Shapes ==
    /\ \A f \in ChallengeFile : /\ f[1] \in {"public", "private", "contract"} /\ f[2] \in Title
                                /\ f = <<f[1], f[2]>> /\ f \in File
                                /\ f # Registry("base") /\ f # Registry("wider")
    /\ \A c \in Title, kind \in {"public", "private", "contract"} : <<kind, c>> \in ChallengeFile
    /\ Registry("base") \in File /\ Registry("wider") \in File /\ Registry("base") # Registry("wider")
    /\ \A f \in File : f \in ChallengeFile \/ f = Registry("base") \/ f = Registry("wider")
BY DEF ChallengeFile, File, Registry

\* What is written in a file is neither of the two marks for a file that is not.
LEMMA Contained ==
    /\ \A text \in Text : Written(text) <=> text \in Artifact
    /\ \A names \in Names : Written(names) <=> names \in SUBSET Title
    /\ Absent # HalfWritten
    /\ \A artifact \in Artifact : artifact # Absent /\ artifact # HalfWritten /\ Written(artifact)
    /\ \A titles \in SUBSET Title : titles # Absent /\ titles # HalfWritten /\ Written(titles)
<1>1. /\ Absent # HalfWritten
      /\ \A artifact \in Artifact : artifact # Absent /\ artifact # HalfWritten
      /\ \A titles \in SUBSET Title : titles # Absent /\ titles # HalfWritten
  BY CatalogAssumption
<1> QED
  BY <1>1 DEF Text, Names, Written

\* The challenges of V1 and those of the expansion.
LEMMA Titles ==
    /\ Elements(Planned) \subseteq Title /\ Elements(Added) \subseteq Title
    /\ Elements(Order) = Title
    /\ Planned \in Seq(Title) /\ Added \in Seq(Title) /\ Order \in Seq(Title)
<1>1. Planned \in Seq(Elements(Planned)) /\ Added \in Seq(Elements(Added))
  BY CatalogAssumption
<1>2. \A s : s \in Seq(Elements(s)) => DOMAIN s = 1 .. Len(s) /\ Len(s) \in Nat
  OBVIOUS
<1>3. Order \in Seq(Elements(Planned) \cup Elements(Added))
  BY <1>1 DEF Order
<1>4. Elements(Planned) \subseteq Title
  <2> SUFFICES ASSUME NEW i \in DOMAIN Planned PROVE Planned[i] \in Title
    BY DEF Elements
  <2>1. i \in DOMAIN Order /\ Order[i] = Planned[i]
    BY <1>1 DEF Order
  <2> QED
    BY <2>1 DEF Title, Elements
<1>5. Elements(Added) \subseteq Title
  <2> SUFFICES ASSUME NEW i \in DOMAIN Added PROVE Added[i] \in Title
    BY DEF Elements
  <2>1. Len(Planned) + i \in DOMAIN Order /\ Order[Len(Planned) + i] = Added[i]
    BY <1>1 DEF Order
  <2> QED
    BY <2>1 DEF Title, Elements
<1>6. Planned \in Seq(Title) /\ Added \in Seq(Title) /\ Order \in Seq(Title)
  BY <1>1, <1>3, <1>4, <1>5
<1> QED
  BY <1>4, <1>5, <1>6 DEF Title

\* Of a sequence that is not empty.
LEMMA Tails ==
    ASSUME NEW S, NEW s \in Seq(S), s # <<>>
    PROVE  /\ Head(s) \in S /\ Tail(s) \in Seq(S) /\ Head(s) \in Elements(s)
           /\ Elements(Tail(s)) \subseteq Elements(s)
           /\ Elements(s) \subseteq Elements(Tail(s)) \cup {Head(s)}
           /\ \A i \in DOMAIN Tail(s) : i + 1 \in DOMAIN s /\ Tail(s)[i] = s[i + 1]
           /\ 1 \in DOMAIN s /\ s[1] = Head(s)
           /\ DOMAIN s = 1 .. Len(s) /\ DOMAIN Tail(s) = 1 .. Len(s) - 1
           /\ Len(s) = 1 => Tail(s) = <<>>
<1>1. /\ Len(s) \in Nat \ {0} /\ DOMAIN s = 1 .. Len(s) /\ Head(s) = s[1]
      /\ Tail(s) \in Seq(S) /\ DOMAIN Tail(s) = 1 .. Len(s) - 1 /\ Len(Tail(s)) = Len(s) - 1
      /\ \A i \in 1 .. Len(s) - 1 : Tail(s)[i] = s[i + 1]
  BY HeadTailProperties, EmptySeq
<1>2. Head(s) \in S /\ Head(s) \in Elements(s) /\ 1 \in DOMAIN s
  BY <1>1 DEF Elements
<1>3. Elements(Tail(s)) \subseteq Elements(s)
  BY <1>1 DEF Elements
<1>4. Elements(s) \subseteq Elements(Tail(s)) \cup {Head(s)}
  <2> SUFFICES ASSUME NEW i \in 1 .. Len(s), i # 1 PROVE s[i] \in Elements(Tail(s))
    BY <1>1 DEF Elements
  <2>1. i - 1 \in DOMAIN Tail(s) /\ Tail(s)[i - 1] = s[i]
    BY <1>1
  <2> QED
    BY <2>1 DEF Elements
<1>5. Len(s) = 1 => Tail(s) = <<>>
  BY <1>1, EmptySeq
<1> QED
  BY <1>1, <1>2, <1>3, <1>4, <1>5

\* The files of a sequence of challenges: each of the kinds, public first.
LEMMA FilesListed ==
    ASSUME NEW s \in Seq(Title), NEW kinds,
           kinds = <<"public", "private", "contract">> \/ kinds = <<"public", "private">>
           \/ kinds = <<"public", "contract">>
    PROVE  /\ FilesOf(s, kinds) \in Seq(ChallengeFile)
           /\ Elements(FilesOf(s, kinds)) = Elements(kinds) \X Elements(s)
           /\ \A i \in DOMAIN FilesOf(s, kinds) : FilesOf(s, kinds)[i][1] # "public" =>
                 \E j \in 1 .. i - 1 : FilesOf(s, kinds)[j] = <<"public", FilesOf(s, kinds)[i][2]>>
<1>1. PICK n \in {2, 3} : /\ Len(kinds) = n /\ DOMAIN kinds = 1 .. n /\ kinds[1] = "public"
                          /\ \A i \in 1 .. n : kinds[i] \in {"public", "private", "contract"}
  OBVIOUS
<1>2. Len(s) \in Nat /\ DOMAIN s = 1 .. Len(s) /\ \A i \in 1 .. Len(s) : s[i] \in Title
  OBVIOUS
<1>3. PICK fs : fs = FilesOf(s, kinds)
  OBVIOUS
<1>4. fs = [i \in 1 .. Len(s) * n |-> <<kinds[((i - 1) % n) + 1], s[((i - 1) \div n) + 1]>>]
  BY <1>1, <1>3 DEF FilesOf
<1>5. \A i \in 1 .. Len(s) * n : /\ ((i - 1) % n) + 1 \in 1 .. n
                                 /\ ((i - 1) \div n) + 1 \in 1 .. Len(s)
  <2>1. CASE n = 2
    BY <1>2, <2>1
  <2>2. CASE n = 3
    BY <1>2, <2>2
  <2> QED
    BY <2>1, <2>2
<1>6. \A q \in 1 .. Len(s), r \in 1 .. n :
         LET i == n * (q - 1) + r IN
         i \in 1 .. Len(s) * n /\ ((i - 1) % n) + 1 = r /\ ((i - 1) \div n) + 1 = q
  <2>1. CASE n = 2
    BY <1>2, <2>1
  <2>2. CASE n = 3
    BY <1>2, <2>2
  <2> QED
    BY <2>1, <2>2
<1>7. \A q \in 1 .. Len(s), r \in 1 .. n :
         n * (q - 1) + r \in 1 .. Len(s) * n /\ fs[n * (q - 1) + r] = <<kinds[r], s[q]>>
  BY <1>4, <1>6
<1>8. fs \in Seq(ChallengeFile)
  <2>1. Len(s) * n \in Nat
    BY <1>1, <1>2
  <2>2. \A i \in 1 .. Len(s) * n : fs[i] \in ChallengeFile
    BY <1>1, <1>2, <1>4, <1>5 DEF ChallengeFile
  <2> QED
    BY <1>4, <2>1, <2>2
<1>9. DOMAIN fs = 1 .. Len(s) * n
  BY <1>4
<1>10. Elements(fs) = Elements(kinds) \X Elements(s)
  <2>1. ASSUME NEW i \in DOMAIN fs PROVE fs[i] \in Elements(kinds) \X Elements(s)
    BY <1>1, <1>2, <1>4, <1>5, <1>9 DEF Elements
  <2>2. ASSUME NEW r \in DOMAIN kinds, NEW q \in DOMAIN s PROVE <<kinds[r], s[q]>> \in Elements(fs)
    <3>1. n * (q - 1) + r \in DOMAIN fs /\ fs[n * (q - 1) + r] = <<kinds[r], s[q]>>
      BY <1>1, <1>2, <1>7, <1>9
    <3> QED
      BY <3>1 DEF Elements
  <2>3. ASSUME NEW p \in Elements(kinds) \X Elements(s) PROVE p \in Elements(fs)
    <3>1. PICK r \in DOMAIN kinds : p[1] = kinds[r]
      BY DEF Elements
    <3>2. PICK q \in DOMAIN s : p[2] = s[q]
      BY DEF Elements
    <3>3. p = <<kinds[r], s[q]>>
      BY <3>1, <3>2
    <3> QED
      BY <2>2, <3>3
  <2>4. Elements(fs) \subseteq Elements(kinds) \X Elements(s)
    <3> SUFFICES ASSUME NEW p \in Elements(fs) PROVE p \in Elements(kinds) \X Elements(s)
      OBVIOUS
    <3>1. PICK i \in DOMAIN fs : p = fs[i]
      BY DEF Elements
    <3> QED
      BY <2>1, <3>1
  <2> QED
    BY <2>3, <2>4
<1>11. ASSUME NEW i \in DOMAIN fs, fs[i][1] # "public"
       PROVE  \E j \in 1 .. i - 1 : fs[j] = <<"public", fs[i][2]>>
  <2>1. PICK q \in 1 .. Len(s), r \in 1 .. n : q = ((i - 1) \div n) + 1 /\ r = ((i - 1) % n) + 1
    BY <1>5, <1>9
  <2>2. fs[i] = <<kinds[r], s[q]>> /\ r # 1
    BY <1>1, <1>4, <1>9, <1>11, <2>1
  <2>3. n * (q - 1) + 1 \in 1 .. Len(s) * n /\ fs[n * (q - 1) + 1] = <<kinds[1], s[q]>>
    BY <1>1, <1>7
  <2>4. n * (q - 1) + 1 < i
    <3>1. i \in 1 .. Len(s) * n
      BY <1>9
    <3>2. i \in Int /\ i - 1 \in Int
      BY <1>1, <1>2, <3>1
    <3>3. i - 1 = n * ((i - 1) \div n) + ((i - 1) % n)
      <4>1. CASE n = 2
        BY <3>2, <4>1
      <4>2. CASE n = 3
        BY <3>2, <4>2
      <4> QED
        BY <4>1, <4>2
    <3>4. (i - 1) \div n = q - 1 /\ (i - 1) % n = r - 1
      BY <1>2, <2>1, <3>2
    <3>5. i = n * (q - 1) + r
      <4>1. i - 1 = n * (q - 1) + (r - 1)
        BY <3>3, <3>4
      <4>2. CASE n = 2
        BY <1>2, <3>2, <4>1, <4>2
      <4>3. CASE n = 3
        BY <1>2, <3>2, <4>1, <4>3
      <4> QED
        BY <4>2, <4>3
    <3>6. r > 1
      BY <2>2
    <3>7. CASE n = 2
      BY <1>2, <3>5, <3>6, <3>7
    <3>8. CASE n = 3
      BY <1>2, <3>5, <3>6, <3>8
    <3> QED
      BY <3>7, <3>8
  <2>5. n * (q - 1) + 1 \in 1 .. i - 1
    BY <1>2, <1>9, <2>3, <2>4
  <2> QED
    BY <1>1, <2>2, <2>3, <2>5
<1> QED
  BY <1>3, <1>8, <1>10, <1>11

----------------------------------------------------------------------------
\* Types
LEMMA RunTypes ==
    ASSUME CatalogTypeOK, NEW b \in Builder
    PROVE  /\ run[b] \in Run /\ run[b].kind \in Kind /\ run[b].stage \in Stage
           /\ run[b].plan \in Seq(Title) /\ run[b].made \in [Title -> Text]
           /\ run[b].chosen \in (0 .. MaxReplacements) \cup {NoDataset}
           /\ run[b].names \in SUBSET Title /\ run[b].out \in Seq(File)
BY DEF CatalogTypeOK, Run

\* So has what it does when it does nothing.
LEMMA IdleTypes == IdleRun \in Run
<1>1. <<>> \in Seq(Title) /\ <<>> \in Seq(File)
  OBVIOUS
<1> QED
  BY <1>1 DEF IdleRun, Run, Kind, Stage, Text

\* The steps of a builder that leave the disk alone.
LEMMA RunStep ==
    ASSUME CatalogTypeOK, NEW b \in Builder, NEW r \in Run, run' = [run EXCEPT ![b] = r],
           UNCHANGED <<dataset, disk, instanceVars>>, imported' \in BOOLEAN
    PROVE  CatalogTypeOK'
BY DEF CatalogTypeOK, instanceVars

\* One more challenge is generated.
LEMMA MadeTypes ==
    ASSUME CatalogTypeOK, NEW b \in Builder, run[b].stage = "hashing", GenerationInv(b),
           AppendMade(b, Artifacts(b))
    PROVE  LET c == Head(run[b].plan) IN
           \E r \in Run :
              /\ run' = [run EXCEPT ![b] = r]
              /\ r.kind = run[b].kind /\ r.names = run[b].names /\ r.out = run[b].out
              /\ r.plan = Tail(run[b].plan)
              /\ c \in Title /\ Artifacts(b) \in Artifact
              /\ r.made = [run[b].made EXCEPT ![c] = Artifacts(b)]
              /\ r.stage = IF Len(run[b].plan) = 1 THEN "generated" ELSE "choosing"
<1> DEFINE c == Head(run[b].plan)
<1>1. run[b].plan # <<>> /\ run[b].chosen \in 0 .. MaxReplacements /\ dataset \in 0 .. MaxReplacements
  BY DEF GenerationInv, CatalogTypeOK
<1>2. c \in Title /\ Tail(run[b].plan) \in Seq(Title)
  BY <1>1, RunTypes, Tails
<1>3. Artifacts(b) \in Artifact
  BY <1>1 DEF Artifacts, Artifact
<1>4. PICK made : made = [run[b].made EXCEPT ![c] = Artifacts(b)]
  OBVIOUS
<1>5. made \in [Title -> Text]
  BY <1>2, <1>3, <1>4, RunTypes DEF Text
<1>6. PICK stage \in Stage : stage = IF Len(run[b].plan) = 1 THEN "generated" ELSE "choosing"
  BY DEF Stage
<1>7. run[b] \in Run /\ DOMAIN run = Builder
  BY RunTypes DEF CatalogTypeOK
<1>8. PICK plan \in Seq(Title) : plan = Tail(run[b].plan)
  BY <1>2
<1>9. PICK q \in Run : q = run[b]
  BY <1>7
<1>10. PICK r : r = [q EXCEPT !.made = made, !.plan = plan, !.chosen = NoDataset, !.stage = stage]
  OBVIOUS
<1>11. r \in Run
  BY <1>5, <1>10 DEF Run
<1>12. /\ r.kind = q.kind /\ r.names = q.names /\ r.out = q.out
       /\ r.plan = plan /\ r.made = made /\ r.stage = stage
  BY <1>10 DEF Run
<1>13. run' = [run EXCEPT ![b] = r]
  <2>1. run' = [run EXCEPT ![b] =
                 [run[b] EXCEPT !.made = [run[b].made EXCEPT ![c] = Artifacts(b)],
                                !.plan = Tail(run[b].plan), !.chosen = NoDataset,
                                !.stage = IF Len(run[b].plan) = 1 THEN "generated" ELSE "choosing"]]
    BY <1>7 DEF AppendMade
  <2>2. run' = [run EXCEPT ![b] = [q EXCEPT !.made = made, !.plan = plan, !.chosen = NoDataset, !.stage = stage]]
    BY <2>1, <1>4, <1>6, <1>8, <1>9, Zenon
  <2> QED
    BY <2>2, <1>10
<1> QED
  BY <1>2, <1>3, <1>4, <1>6, <1>8, <1>9, <1>11, <1>12, <1>13

\* What the steps of a builder make of its run.
LEMMA BegunTypes ==
    ASSUME CatalogTypeOK, NEW b \in Builder, NEW kind \in Kind, NEW plan \in Seq(Title), NEW names \in SUBSET Title,
           BeginRun(b, kind, plan, names)
    PROVE  \E r \in Run :
              /\ run' = [run EXCEPT ![b] = r] /\ UNCHANGED <<dataset, disk, imported, instanceVars>>
              /\ r.kind = kind /\ r.stage = "choosing" /\ r.plan = plan /\ r.names = names
              /\ r.made = [c \in Title |-> Absent]
<1>1. PICK r : r = [IdleRun EXCEPT !.kind = kind, !.stage = "choosing", !.plan = plan, !.names = names]
  OBVIOUS
<1>2. r \in Run
  BY <1>1, IdleTypes DEF Run, Stage
<1>3. /\ r.kind = kind /\ r.stage = "choosing" /\ r.plan = plan /\ r.names = names
      /\ r.made = IdleRun.made
  BY <1>1, IdleTypes DEF Run
<1>4. IdleRun.made = [c \in Title |-> Absent]
  BY DEF IdleRun
<1>5. run' = [run EXCEPT ![b] = r] /\ UNCHANGED <<dataset, disk, imported, instanceVars>>
  BY <1>1 DEF BeginRun
<1> QED
  BY <1>2, <1>3, <1>4, <1>5

\* Samples are chosen.
LEMMA ChosenTypes ==
    ASSUME CatalogTypeOK, NEW b \in Builder, Choose(b)
    PROVE  \E r \in Run :
              /\ run' = [run EXCEPT ![b] = r]
              /\ r.kind = run[b].kind /\ r.stage = "hashing" /\ r.plan = run[b].plan
              /\ r.chosen = dataset /\ r.made = run[b].made
<1>1. PICK q \in Run : q = run[b]
  BY RunTypes
<1>2. PICK r : r = [q EXCEPT !.chosen = dataset, !.stage = "hashing"]
  OBVIOUS
<1>3. dataset \in 0 .. MaxReplacements
  BY DEF CatalogTypeOK
<1>4. r \in Run
  BY <1>2, <1>3 DEF Run, Stage
<1>5. /\ r.kind = q.kind /\ r.stage = "hashing" /\ r.plan = q.plan /\ r.chosen = dataset /\ r.made = q.made
  BY <1>2 DEF Run
<1>6. run' = [run EXCEPT ![b] = r]
  BY <1>1, <1>2 DEF Choose, CatalogTypeOK
<1> QED
  BY <1>1, <1>4, <1>5, <1>6

\* The builder turns to its files.
LEMMA WritingTypes ==
    ASSUME CatalogTypeOK, NEW b \in Builder, NEW names \in SUBSET Title, NEW out \in Seq(File),
           Writing(b, names, out)
    PROVE  \E r \in Run :
              /\ run' = [run EXCEPT ![b] = r]
              /\ r.kind = run[b].kind /\ r.stage = "writing" /\ r.made = run[b].made
              /\ r.names = names /\ r.out = out
<1>1. PICK q \in Run : q = run[b]
  BY RunTypes
<1>2. PICK r : r = [q EXCEPT !.stage = "writing", !.names = names, !.out = out]
  OBVIOUS
<1>3. r \in Run
  BY <1>2 DEF Run, Stage
<1>4. /\ r.kind = q.kind /\ r.stage = "writing" /\ r.made = q.made /\ r.names = names /\ r.out = out
  BY <1>2 DEF Run
<1>5. run' = [run EXCEPT ![b] = r]
  BY <1>1, <1>2 DEF Writing, CatalogTypeOK
<1> QED
  BY <1>1, <1>3, <1>4, <1>5

\* The three steps of a file.
LEMMA CreatedTypes ==
    ASSUME CatalogTypeOK, NEW b \in Builder, Create(b)
    PROVE  \E r \in Run :
              /\ run' = [run EXCEPT ![b] = r]
              /\ r.kind = run[b].kind /\ r.stage = "filling" /\ r.made = run[b].made
              /\ r.names = run[b].names /\ r.out = run[b].out
<1>1. PICK q \in Run : q = run[b]
  BY RunTypes
<1>2. PICK r : r = [q EXCEPT !.stage = "filling"]
  OBVIOUS
<1>3. r \in Run
  BY <1>2 DEF Run, Stage
<1>4. /\ r.kind = q.kind /\ r.stage = "filling" /\ r.made = q.made /\ r.names = q.names /\ r.out = q.out
  BY <1>2 DEF Run
<1>5. run' = [run EXCEPT ![b] = r]
  BY <1>1, <1>2 DEF Create, CatalogTypeOK
<1> QED
  BY <1>1, <1>3, <1>4, <1>5

\* A file is filled, or kept.
LEMMA DoneTypes ==
    ASSUME CatalogTypeOK, NEW b \in Builder, run[b].out # <<>>,
           Fill(b) \/ Keep(b)
    PROVE  \E r \in Run :
              /\ run' = [run EXCEPT ![b] = r]
              /\ r.kind = run[b].kind /\ r.stage = "writing" /\ r.made = run[b].made
              /\ r.names = run[b].names /\ r.out = Tail(run[b].out)
<1>1. PICK q \in Run : q = run[b]
  BY RunTypes
<1>2. PICK out \in Seq(File) : out = Tail(run[b].out)
  BY RunTypes, Tails
<1>3. PICK r : r = [q EXCEPT !.stage = "writing", !.out = out]
  OBVIOUS
<1>4. r \in Run
  BY <1>3 DEF Run, Stage
<1>5. /\ r.kind = q.kind /\ r.stage = "writing" /\ r.made = q.made /\ r.names = q.names /\ r.out = out
  BY <1>3 DEF Run
<1>6. run' = [run EXCEPT ![b] = r]
  <2>1. CASE Fill(b)
    BY <1>1, <1>2, <1>3, <2>1 DEF Fill, CatalogTypeOK
  <2>2. CASE Keep(b)
    <3>1. q.stage = "writing" /\ run' = [run EXCEPT ![b] = [q EXCEPT !.out = out]]
      BY <1>1, <1>2, <2>2 DEF Keep, CatalogTypeOK
    <3>2. [q EXCEPT !.out = out] = r
      BY <1>3, <3>1 DEF Run
    <3> QED
      BY <3>1, <3>2
  <2> QED
    BY <2>1, <2>2
<1> QED
  BY <1>1, <1>2, <1>4, <1>5, <1>6

\* An import begins.
LEMMA ImportTypes ==
    ASSUME CatalogTypeOK, NEW b \in Builder, BeginImport(b)
    PROVE  \E entries \in {Planned, Order}, r \in Run :
              /\ run' = [run EXCEPT ![b] = r] /\ UNCHANGED <<dataset, disk, imported, instanceVars>>
              /\ r.kind = "import" /\ r.stage = "writing"
              /\ r.names = Elements(entries) /\ Elements(entries) = disk["staging"][Registry("wider")]
              /\ r.out = <<Registry("wider")>> \o FilesOf(entries, <<"public", "contract">>)
              /\ \A f \in Elements(r.out) : Agrees(f, disk["staging"][f])
              /\ r.made = [c \in Title |-> disk["staging"][<<"public", c>>]]
<1>1. PICK entries \in {Planned, Order} :
          /\ Elements(entries) = Named("staging", "wider")
          /\ LET out == <<Registry("wider")>> \o FilesOf(entries, <<"public", "contract">>) IN
             /\ \A f \in Elements(out) : Agrees(f, disk["staging"][f])
             /\ run' = [run EXCEPT ![b] =
                       [IdleRun EXCEPT !.kind = "import", !.stage = "writing", !.out = out,
                                       !.names = Elements(entries),
                                       !.made = [c \in Title |-> disk["staging"][<<"public", c>>]]]]
  BY DEF BeginImport
<1>2. entries \in Seq(Title) /\ Elements(entries) \in SUBSET Title
  BY Titles
<1>3. PICK out : out = <<Registry("wider")>> \o FilesOf(entries, <<"public", "contract">>)
  OBVIOUS
<1>4. out \in Seq(File)
  <2>1. FilesOf(entries, <<"public", "contract">>) \in Seq(File)
    <3>1. FilesOf(entries, <<"public", "contract">>) \in Seq(ChallengeFile)
      BY <1>2, FilesListed
    <3> QED
      BY <3>1, Shapes
  <2>2. <<Registry("wider")>> \in Seq(File)
    BY Shapes
  <2> QED
    BY <1>3, <2>1, <2>2
<1>5. PICK made : made = [c \in Title |-> disk["staging"][<<"public", c>>]]
  OBVIOUS
<1>6. made \in [Title -> Text]
  BY <1>5, Shapes DEF CatalogTypeOK
<1>7. PICK names \in SUBSET Title : names = Elements(entries)
  BY <1>2
<1>8. PICK r : r = [IdleRun EXCEPT !.kind = "import", !.stage = "writing", !.out = out, !.names = names, !.made = made]
  OBVIOUS
<1>9. r \in Run
  BY <1>4, <1>6, <1>8, IdleTypes DEF Run, Stage, Kind
<1>10. /\ r.kind = "import" /\ r.stage = "writing" /\ r.names = names /\ r.out = out /\ r.made = made
  BY <1>8, IdleTypes DEF Run
<1>11. run' = [run EXCEPT ![b] = r]
  BY <1>1, <1>3, <1>5, <1>7, <1>8, Zenon
<1>12. \A f \in Elements(out) : Agrees(f, disk["staging"][f])
  BY <1>1, <1>3, Zenon
<1> QED
  BY <1>1, <1>3, <1>5, <1>7, <1>9, <1>10, <1>11, <1>12 DEF BeginImport, Named

----------------------------------------------------------------------------
\* What is written in the project stays, but for the registry of V1.
WrittenStays ==
    \A f \in File \ {Registry("base")} :
        Written(disk["project"][f]) => disk'["project"][f] = disk["project"][f]

\* One file of one tree gets new contents.
PutInto(tree, f, contents) == disk' = [disk EXCEPT ![tree][f] = contents]

\* The disk keeps its types.
LEMMA DiskPut ==
    ASSUME CatalogTypeOK, NEW tree \in {"project", "staging"}, NEW f \in File, NEW contents,
           PutInto(tree, f, contents),
           f \in ChallengeFile => contents \in Text,
           f \notin ChallengeFile => contents \in Names
    PROVE  /\ disk' \in [{"project", "staging"} -> [File -> Text \cup SUBSET Title]]
           /\ \A t \in {"project", "staging"} :
                 /\ \A g \in ChallengeFile : disk'[t][g] \in Text
                 /\ \A name \in {"base", "wider"} : disk'[t][Registry(name)] \in Names
           /\ disk'[tree][f] = contents
           /\ \A t \in {"project", "staging"}, g \in File :
                 t # tree \/ g # f => disk'[t][g] = disk[t][g]
<1>1. contents \in Text \cup SUBSET Title
  BY DEF Text, Names
<1>2. disk \in [{"project", "staging"} -> [File -> Text \cup SUBSET Title]]
  BY DEF CatalogTypeOK
<1>3. disk' \in [{"project", "staging"} -> [File -> Text \cup SUBSET Title]]
  BY <1>1, <1>2 DEF PutInto
<1>4. /\ disk'[tree][f] = contents
      /\ \A t \in {"project", "staging"}, g \in File :
             t # tree \/ g # f => disk'[t][g] = disk[t][g]
  BY <1>2 DEF PutInto
<1>5. ASSUME NEW t \in {"project", "staging"}
      PROVE  /\ \A g \in ChallengeFile : disk'[t][g] \in Text
             /\ \A name \in {"base", "wider"} : disk'[t][Registry(name)] \in Names
  BY <1>4, Shapes DEF CatalogTypeOK
<1> QED
  BY <1>3, <1>4, <1>5

\* A challenge that can be loaded stays so.
LEMMA LoadedStays ==
    ASSUME CatalogTypeOK, WrittenStays, NEW c \in Title, Loaded(c)
    PROVE  Loaded(c)'
<1>1. /\ <<"public", c>> \in File \ {Registry("base")}
      /\ <<"contract", c>> \in File \ {Registry("base")}
  BY Shapes
<1> QED
  BY <1>1 DEF Loaded, WrittenStays

\* What is in place for a builder stays in place.
LEMMA KeptStays ==
    ASSUME CatalogTypeOK, WrittenStays, NEW d \in Builder,
           run'[d].made = run[d].made, run'[d].names = run[d].names
    PROVE  /\ \A f \in ChallengeFile : run[d].made[f[2]] \in Artifact /\ Kept(d, f) => Kept(d, f)'
           /\ Kept(d, Registry("wider")) => Kept(d, Registry("wider"))'
<1>1. ASSUME NEW f \in ChallengeFile, run[d].made[f[2]] \in Artifact, Kept(d, f) PROVE Kept(d, f)'
  <2>1. Result(d, f) = run[d].made[f[2]] /\ Result(d, f)' = Result(d, f)
    BY Shapes DEF Result
  <2>2. Written(disk["project"][f]) /\ f \in File \ {Registry("base")}
    BY <1>1, <2>1, Shapes, Contained DEF Kept
  <2> QED
    BY <1>1, <2>1, <2>2 DEF Kept, WrittenStays
<1>2. Kept(d, Registry("wider")) => Kept(d, Registry("wider"))'
  <2>1. Result(d, Registry("wider")) = run[d].names /\ Result(d, Registry("wider"))' = run[d].names
    BY DEF Result, Registry
  <2>2. run[d].names \in SUBSET Title
    BY RunTypes
  <2> QED
    BY <2>1, <2>2, Shapes, Contained DEF Kept, WrittenStays
<1> QED
  BY <1>1, <1>2

\* The output of a builder that drops no file from its list.
LEMMA OutStays ==
    ASSUME CatalogTypeOK, NEW d \in Builder, BuilderInv(d), Output(d), WrittenStays,
           run'[d].kind = run[d].kind, run'[d].made = run[d].made,
           run'[d].names = run[d].names, run'[d].out = run[d].out,
           run'[d].stage = "filling" => run[d].out # <<>> /\ OnDisk(d)' = HalfWritten,
           run[d].stage = "filling" => run'[d].stage = "filling",
           run[d].kind = "import" => \A f \in Elements(run[d].out) :
              \/ disk'["project"][f] = disk["project"][f]
              \/ run'[d].stage = "filling" /\ f = NextFile(d)
    PROVE  /\ OutInv(d)'
           /\ run[d].kind = "catalog" => CatalogInv(d)'
           /\ run[d].kind = "import" => ImportInv(d)'
<1>1. OutInv(d) /\ (run[d].kind = "catalog" => CatalogInv(d)) /\ (run[d].kind = "import" => ImportInv(d))
  BY DEF BuilderInv
<1>2. ASSUME NEW c \in Title, NEW kind \in {"public", "private", "contract"}
      PROVE  /\ <<kind, c>> \in ChallengeFile
             /\ run[d].made[c] \in Artifact /\ Kept(d, <<kind, c>>) => Kept(d, <<kind, c>>)'
  <2>1. <<kind, c>> \in ChallengeFile /\ <<kind, c>>[2] = c
    BY Shapes
  <2> QED
    BY <2>1, KeptStays
<1>3. \A f : Pending(d, f)' <=> Pending(d, f)
  BY DEF Pending
<1>4. OutInv(d)'
  <2>1. ASSUME run[d].kind # "expansion", NEW i \in DOMAIN run[d].out PROVE Founded(d, i)'
    <3>1. Founded(d, i)
      BY <1>1, <2>1 DEF OutInv
    <3>2. CASE run[d].out[i] \in ChallengeFile
      <4>1. run[d].made[run[d].out[i][2]] \in Artifact /\ run[d].out[i][2] \in Title
        BY <3>1, <3>2, Shapes DEF Founded
      <4>2. Kept(d, <<"public", run[d].out[i][2]>>) => Kept(d, <<"public", run[d].out[i][2]>>)'
        BY <1>2, <4>1
      <4> QED
        BY <3>1, <4>1, <4>2 DEF Founded
    <3>3. CASE run[d].out[i] \notin ChallengeFile
      BY <3>3 DEF Founded
    <3> QED
      BY <3>2, <3>3
  <2> QED
    BY <1>1, <2>1 DEF OutInv
<1>5. ASSUME run[d].kind = "catalog" PROVE CatalogInv(d)'
  <2> SUFFICES ASSUME NEW c \in run[d].names, ~Loaded(c)'
               PROVE  /\ run[d].made[c] \in Artifact
                      /\ \A kind \in {"public", "contract"} :
                             Pending(d, <<kind, c>>)' \/ Kept(d, <<kind, c>>)'
    BY <1>1, <1>5 DEF CatalogInv
  <2>1. c \in Title
    BY RunTypes
  <2>2. ~Loaded(c)
    BY <2>1, LoadedStays
  <2> QED
    BY <1>1, <1>2, <1>3, <1>5, <2>1, <2>2 DEF CatalogInv
<1>6. ASSUME run[d].kind = "import" PROVE ImportInv(d)'
  <2>1. run[d].names \in SUBSET Title
    BY RunTypes
  <2>2. \A c \in run'[d].names \cap Elements(Planned) : Loaded(c)'
    BY <1>1, <1>6, <2>1, LoadedStays DEF ImportInv
  <2>3. \A c \in run[d].names :
           /\ run[d].made[c] \in Artifact
           /\ \A kind \in {"public", "contract"} : Pending(d, <<kind, c>>)' \/ Kept(d, <<kind, c>>)'
    BY <1>1, <1>2, <1>3, <1>6, <2>1 DEF ImportInv
  <2>4. Pending(d, Registry("wider"))' \/ Kept(d, Registry("wider"))'
    BY <1>1, <1>3, <1>6, KeptStays DEF ImportInv
  <2>5. ASSUME NEW f \in Elements(run[d].out)
        PROVE  /\ f \in ChallengeFile => f[1] # "private" /\ f[2] \in run'[d].names
               /\ \/ Agrees(f, Result(d, f))'
                  \/ run'[d].stage = "filling" /\ f = NextFile(d)'
    <3>1. NextFile(d)' = NextFile(d) /\ Result(d, f)' = Result(d, f)
      BY DEF NextFile, Result
    <3> QED
      BY <1>1, <1>6, <3>1 DEF ImportInv, Agrees
  <2> QED
    BY <2>2, <2>3, <2>4, <2>5 DEF ImportInv
<1> QED
  BY <1>4, <1>5, <1>6

\* A builder that does nothing keeps what it relies on.
LEMMA BystanderStep ==
    ASSUME CatalogTypeOK, NEW d \in Builder, BuilderInv(d), run'[d] = run[d],
           WrittenStays,
           run[d].stage = "filling" => OnDisk(d)' = OnDisk(d),
           Output(d) /\ run[d].kind = "import" =>
              \A f \in Elements(run[d].out) : disk'["project"][f] = disk["project"][f]
    PROVE  BuilderInv(d)'
<1>1. GenerationInv(d)'
  BY DEF BuilderInv, GenerationInv, Generating
<1>2. Output(d)' <=> Output(d)
  BY DEF Output
<1>3. ASSUME Output(d)
      PROVE  OutInv(d)' /\ (run[d].kind = "catalog" => CatalogInv(d)')
             /\ (run[d].kind = "import" => ImportInv(d)')
  <2>1. run[d].stage = "filling" => run[d].out # <<>> /\ OnDisk(d)' = HalfWritten
    BY <1>3 DEF BuilderInv, OutInv
  <2> QED
    BY <1>3, <2>1, OutStays
<1> QED
  BY <1>1, <1>2, <1>3 DEF BuilderInv

----------------------------------------------------------------------------
\* The steps of a builder that leave the files alone.
LEMMA RunOnlyStep ==
    ASSUME CatalogTypeOK, CatalogOrder, NEW b \in Builder, NEW r \in Run, run' = [run EXCEPT ![b] = r],
           UNCHANGED <<dataset, disk, instanceVars>>, imported' \in BOOLEAN, RegistryInv',
           r.stage # "filling",
           r.kind \in {"expansion", "import"} => run[b].kind = r.kind \/ ~Expanding,
           BuilderInv(b)'
    PROVE  CatalogTypeOK' /\ CatalogOrder'
<1>1. CatalogTypeOK'
  BY RunStep
<1>2. run'[b] = r /\ \A d \in Builder \ {b} : run'[d] = run[d]
  BY DEF CatalogTypeOK
<1>3. PairInv'
  BY DEF CatalogOrder, PairInv
<1>4. InstanceInv'
  BY DEF CatalogOrder, InstanceInv, instanceVars
<1>5. ASSUME NEW d \in Builder PROVE BuilderInv(d)'
  <2>1. CASE d # b
    <3>1. BuilderInv(d) /\ run'[d] = run[d] /\ WrittenStays
      BY <1>2, <2>1 DEF CatalogOrder, WrittenStays
    <3>2. OnDisk(d)' = OnDisk(d)
      BY <3>1 DEF OnDisk, TreeOf, NextFile
    <3> QED
      BY <3>1, <3>2, BystanderStep
  <2> QED
    BY <2>1
<1>6. ApartInv'
  <2> SUFFICES ASSUME NEW x \in Builder, NEW d \in Builder, x # d
               PROVE  /\ run'[x].kind \in {"expansion", "import"} => run'[d].kind \notin {"expansion", "import"}
                      /\ run'[x].stage = "filling" /\ run'[d].stage = "filling" /\ TreeOf(x)' = TreeOf(d)' =>
                            NextFile(x)' # NextFile(d)'
    BY DEF ApartInv
  <2>1. run'[x].kind \in {"expansion", "import"} => run'[d].kind \notin {"expansion", "import"}
    BY <1>2 DEF CatalogOrder, ApartInv, Expanding
  <2>2. ASSUME run'[x].stage = "filling", run'[d].stage = "filling", TreeOf(x)' = TreeOf(d)'
        PROVE  NextFile(x)' # NextFile(d)'
    <3>1. x # b /\ d # b
      BY <1>2, <2>2
    <3>2. run'[x] = run[x] /\ run'[d] = run[d]
      BY <1>2, <3>1
    <3> QED
      BY <2>2, <3>2 DEF CatalogOrder, ApartInv, TreeOf, NextFile
  <2> QED
    BY <2>1, <2>2
<1> QED
  BY <1>1, <1>3, <1>4, <1>5, <1>6 DEF CatalogOrder

\* Nothing is written.
LEMMA SameRegistry ==
    ASSUME RegistryInv, UNCHANGED <<disk, imported>>
    PROVE  RegistryInv'
BY DEF RegistryInv, Loaded

\* BeginCatalog, BeginSingle, BeginExpansion
LEMMA BeginSteps ==
    ASSUME CatalogTypeOK, CatalogOrder, NEW b \in Builder,
           BeginCatalog(b) \/ BeginSingle(b) \/ BeginExpansion(b)
    PROVE  CatalogTypeOK' /\ CatalogOrder'
<1>1. ASSUME NEW kind \in {"catalog", "single", "expansion"}, NEW plan \in Seq(Title), plan # <<>>,
             NEW names \in SUBSET Title, BeginRun(b, kind, plan, names),
             kind \in {"catalog", "single"} => Elements(plan) \subseteq Elements(Planned),
             kind = "catalog" => plan = Planned,
             kind = "expansion" => ~Expanding
      PROVE  CatalogTypeOK' /\ CatalogOrder'
  <2>1. kind \in Kind
    BY DEF Kind
  <2>2. PICK r \in Run :
              /\ run' = [run EXCEPT ![b] = r] /\ UNCHANGED <<dataset, disk, imported, instanceVars>>
              /\ r.kind = kind /\ r.stage = "choosing" /\ r.plan = plan /\ r.names = names
              /\ r.made = [c \in Title |-> Absent]
    BY <1>1, <2>1, BegunTypes
  <2>3. run'[b] = r
    BY <2>2 DEF CatalogTypeOK
  <2>4. BuilderInv(b)'
    <3>1. ~Output(b)'
      BY <2>2, <2>3 DEF Output
    <3>2. GenerationInv(b)'
      BY <1>1, <2>2, <2>3, Contained DEF GenerationInv, Generating
    <3> QED
      BY <3>1, <3>2 DEF BuilderInv
  <2>5. RegistryInv' /\ imported' \in BOOLEAN
    BY <2>2, SameRegistry DEF CatalogOrder, CatalogTypeOK
  <2>6. UNCHANGED <<dataset, disk, instanceVars>>
    BY <2>2
  <2> QED
    BY <1>1, <2>2, <2>4, <2>5, <2>6, RunOnlyStep
<1>2. Planned # <<>> /\ Added # <<>>
  BY CatalogAssumption
<1>3. Planned \in Seq(Title) /\ Added \in Seq(Title) /\ {} \in SUBSET Title
  BY Titles
<1>4. CASE BeginCatalog(b)
  <2>1. BeginRun(b, "catalog", Planned, {})
    BY <1>4 DEF BeginCatalog
  <2> QED
    BY <1>1, <1>2, <1>3, <2>1
<1>5. CASE BeginSingle(b)
  <2>1. PICK c \in Elements(Planned) : BeginRun(b, "single", <<c>>, {})
    BY <1>5 DEF BeginSingle
  <2>2. PICK plan : plan = <<c>>
    OBVIOUS
  <2>3. c \in Title
    BY Titles
  <2>4. plan \in Seq(Title) /\ plan # <<>>
    BY <2>2, <2>3
  <2>5. Elements(plan) \subseteq Elements(Planned)
    <3>1. \A i \in DOMAIN plan : plan[i] = c
      BY <2>2
    <3> QED
      BY <3>1 DEF Elements
  <2>6. BeginRun(b, "single", plan, {})
    BY <2>1, <2>2
  <2> QED
    BY <1>1, <1>3, <2>4, <2>5, <2>6
<1>6. CASE BeginExpansion(b)
  <2>1. BeginRun(b, "expansion", Added, Named("project", "base")) /\ ~Expanding
    BY <1>6 DEF BeginExpansion
  <2>2. Named("project", "base") \in SUBSET Title
    BY <1>6, Contained DEF BeginExpansion, Loads, Named, CatalogTypeOK
  <2> QED
    BY <1>1, <1>2, <1>3, <2>1, <2>2
<1> QED
  BY <1>4, <1>5, <1>6

\* Choose
LEMMA ChooseStep ==
    ASSUME CatalogTypeOK, CatalogOrder, NEW b \in Builder, Choose(b)
    PROVE  CatalogTypeOK' /\ CatalogOrder'
<1>1. PICK r \in Run :
          /\ run' = [run EXCEPT ![b] = r]
          /\ r.kind = run[b].kind /\ r.stage = "hashing" /\ r.plan = run[b].plan
          /\ r.chosen = dataset /\ r.made = run[b].made
  BY ChosenTypes
<1>2. run'[b] = r
  BY <1>1 DEF CatalogTypeOK
<1>3. UNCHANGED <<dataset, disk, instanceVars>> /\ UNCHANGED imported /\ run[b].stage = "choosing"
  BY DEF Choose
<1>4. RegistryInv' /\ imported' \in BOOLEAN
  BY <1>3, SameRegistry DEF CatalogOrder, CatalogTypeOK
<1>5. BuilderInv(b)'
  <2>1. GenerationInv(b) /\ dataset \in 0 .. MaxReplacements
    BY DEF CatalogOrder, BuilderInv, CatalogTypeOK
  <2>2. GenerationInv(b)'
    BY <1>1, <1>2, <1>3, <2>1 DEF GenerationInv, Generating
  <2>3. ~Output(b)'
    BY <1>1, <1>2 DEF Output
  <2> QED
    BY <2>2, <2>3 DEF BuilderInv
<1> QED
  BY <1>1, <1>3, <1>4, <1>5, RunOnlyStep

\* Generate
LEMMA GenerateStep ==
    ASSUME CatalogTypeOK, CatalogOrder, NEW b \in Builder, Generate(b)
    PROVE  CatalogTypeOK' /\ CatalogOrder'
<1>1. GenerationInv(b) /\ run[b].stage = "hashing" /\ run[b].plan # <<>>
  BY DEF CatalogOrder, BuilderInv, GenerationInv, Generate
<1> DEFINE c == Head(run[b].plan)
<1>2. PICK r \in Run :
          /\ run' = [run EXCEPT ![b] = r]
          /\ r.kind = run[b].kind /\ r.names = run[b].names /\ r.out = run[b].out
          /\ r.plan = Tail(run[b].plan)
          /\ c \in Title /\ Artifacts(b) \in Artifact
          /\ r.made = [run[b].made EXCEPT ![c] = Artifacts(b)]
          /\ r.stage = IF Len(run[b].plan) = 1 THEN "generated" ELSE "choosing"
  BY <1>1, MadeTypes DEF Generate
<1>3. run'[b] = r
  BY <1>2 DEF CatalogTypeOK
<1>4. UNCHANGED <<dataset, disk, instanceVars>> /\ UNCHANGED imported
  BY DEF Generate
<1>5. RegistryInv' /\ imported' \in BOOLEAN
  BY <1>4, SameRegistry DEF CatalogOrder, CatalogTypeOK
<1>6. /\ run[b].made \in [Title -> Text] /\ run[b].plan \in Seq(Title)
      /\ r.made[c] = Artifacts(b) /\ \A t \in Title : t # c => r.made[t] = run[b].made[t]
  BY <1>2, RunTypes
<1>7. /\ c \in Elements(run[b].plan) /\ Elements(r.plan) \subseteq Elements(run[b].plan)
      /\ Elements(run[b].plan) \subseteq Elements(r.plan) \cup {c}
      /\ Len(run[b].plan) = 1 => r.plan = <<>>
      /\ Len(run[b].plan) # 1 => r.plan # <<>>
  <2>1. Len(run[b].plan) # 1 => r.plan # <<>>
    <3>1. Len(Tail(run[b].plan)) = Len(run[b].plan) - 1 /\ Len(run[b].plan) \in Nat
      BY <1>1, <1>6, HeadTailProperties
    <3>2. Len(<<>>) = 0
      OBVIOUS
    <3>3. ASSUME Tail(run[b].plan) = <<>> PROVE Len(run[b].plan) = 1
      <4> DEFINE n == Len(run[b].plan)
      <4>1. n \in Nat /\ n - 1 = 0
        BY <3>1, <3>2, <3>3
      <4> HIDE DEF n
      <4>2. n = 1
        BY <4>1
      <4> QED
        BY <4>2 DEF n
    <3> QED
      BY <1>2, <3>3
  <2> QED
    BY <1>1, <1>2, <1>6, <2>1, Tails
<1>8. GenerationInv(b)'
  <2>1. r.kind # "import" => \A t \in Title : r.made[t] # HalfWritten
    BY <1>1, <1>2, <1>6, Contained DEF GenerationInv
  <2>2. r.stage \in {"choosing", "generated"}
    BY <1>2
  <2>3. /\ r.stage = "choosing" => r.plan # <<>>
        /\ r.stage = "generated" => r.plan = <<>>
    BY <1>2, <1>7
  <2>4. r.kind \in {"catalog", "single"} =>
           /\ Elements(r.plan) \subseteq Elements(Planned)
           /\ \A t \in Title : r.made[t] # Absent => t \in Elements(Planned)
    BY <1>1, <1>2, <1>6, <1>7 DEF GenerationInv, Generating
  <2>5. r.kind = "catalog" => \A t \in Elements(Planned) : t \in Elements(r.plan) \/ r.made[t] # Absent
    <3> SUFFICES ASSUME r.kind = "catalog", NEW t \in Elements(Planned), t \notin Elements(r.plan)
                 PROVE  r.made[t] # Absent
      OBVIOUS
    <3>1. t \in Title /\ (t \in Elements(run[b].plan) \/ run[b].made[t] # Absent)
      BY <1>1, <1>2, Titles DEF GenerationInv, Generating
    <3> QED
      BY <1>2, <1>6, <1>7, <3>1, Contained
  <2> QED
    BY <1>3, <2>1, <2>2, <2>3, <2>4, <2>5 DEF GenerationInv, Generating
<1>9. BuilderInv(b)'
  <2>1. ~Output(b)'
    BY <1>2, <1>3 DEF Output
  <2> QED
    BY <1>8, <2>1 DEF BuilderInv
<1>10. r.stage # "filling" /\ r.kind = run[b].kind
  BY <1>2
<1> QED
  BY <1>2, <1>4, <1>5, <1>9, <1>10, RunOnlyStep

\* A builder that turns to its files.
LEMMA PrepareStep ==
    ASSUME CatalogTypeOK, CatalogOrder, NEW b \in Builder,
           NEW names \in SUBSET Title, NEW out \in Seq(File), Writing(b, names, out),
           UNCHANGED <<dataset, disk, imported, instanceVars>>,
           run[b].kind \in {"catalog", "single"}, Elements(out) \subseteq ChallengeFile,
           \A f \in Elements(out) : f[2] \in Elements(Planned) /\ run[b].made[f[2]] \in Artifact,
           \A i \in DOMAIN out : out[i][1] # "public" =>
              \E j \in 1 .. i - 1 : out[j] = <<"public", out[i][2]>>,
           run[b].kind = "catalog" =>
              /\ Elements(Planned) \subseteq names
              /\ \A c \in names : \/ Loaded(c)
                                  \/ /\ run[b].made[c] \in Artifact
                                     /\ <<"public", c>> \in Elements(out)
                                     /\ <<"contract", c>> \in Elements(out)
    PROVE  CatalogTypeOK' /\ CatalogOrder'
<1>1. PICK r \in Run :
          /\ run' = [run EXCEPT ![b] = r]
          /\ r.kind = run[b].kind /\ r.stage = "writing" /\ r.made = run[b].made
          /\ r.names = names /\ r.out = out
  BY WritingTypes
<1>2. run'[b] = r
  BY <1>1 DEF CatalogTypeOK
<1>3. RegistryInv' /\ imported' \in BOOLEAN
  BY SameRegistry DEF CatalogOrder, CatalogTypeOK
<1>4. GenerationInv(b)'
  BY <1>1, <1>2 DEF CatalogOrder, BuilderInv, GenerationInv, Generating
<1>5. OutInv(b)'
  <2>1. ASSUME NEW i \in DOMAIN out PROVE Founded(b, i)'
    <3>1. out[i] \in Elements(out)
      BY DEF Elements
    <3>2. r.made[out[i][2]] \in Artifact
      BY <1>1, <3>1
    <3> QED
      BY <1>1, <1>2, <3>2 DEF Founded
  <2> QED
    BY <1>1, <1>2, <2>1 DEF OutInv
<1>6. r.kind = "catalog" => CatalogInv(b)'
  <2>1. \A c : Loaded(c)' <=> Loaded(c)
    BY DEF Loaded
  <2> QED
    BY <1>1, <1>2, <2>1 DEF CatalogInv, Pending
<1>7. BuilderInv(b)'
  BY <1>1, <1>2, <1>4, <1>5, <1>6 DEF BuilderInv
<1>8. r.stage # "filling" /\ r.kind = run[b].kind /\ UNCHANGED <<dataset, disk, instanceVars>>
  BY <1>1
<1> QED
  BY <1>1, <1>3, <1>7, <1>8, RunOnlyStep

\* PrepareCatalog
LEMMA PrepareCatalogStep ==
    ASSUME CatalogTypeOK, CatalogOrder, NEW b \in Builder, PrepareCatalog(b)
    PROVE  CatalogTypeOK' /\ CatalogOrder'
<1>1. PICK old : /\ old = IF disk["project"][Registry("base")] = Absent THEN {} ELSE Named("project", "base")
                 /\ Writing(b, old \cup Elements(Planned), FilesOf(Planned, <<"public", "private", "contract">>))
  BY DEF PrepareCatalog
<1>2. old \in SUBSET Title /\ \A c \in old : Loaded(c)
  BY <1>1 DEF Named, CatalogOrder, RegistryInv
<1>3. PICK kinds : kinds = <<"public", "private", "contract">>
  OBVIOUS
<1>4. PICK out : out = FilesOf(Planned, kinds)
  OBVIOUS
<1>5. /\ out \in Seq(ChallengeFile) /\ Elements(out) = Elements(kinds) \X Elements(Planned)
      /\ \A i \in DOMAIN out : out[i][1] # "public" => \E j \in 1 .. i - 1 : out[j] = <<"public", out[i][2]>>
  <2>1. Planned \in Seq(Title)
    BY Titles
  <2>2. /\ FilesOf(Planned, kinds) \in Seq(ChallengeFile)
        /\ Elements(FilesOf(Planned, kinds)) = Elements(kinds) \X Elements(Planned)
        /\ \A i \in DOMAIN FilesOf(Planned, kinds) : FilesOf(Planned, kinds)[i][1] # "public" =>
              \E j \in 1 .. i - 1 : FilesOf(Planned, kinds)[j] = <<"public", FilesOf(Planned, kinds)[i][2]>>
    BY <1>3, <2>1, FilesListed
  <2> QED
    BY <1>4, <2>2
<1>6. "public" \in Elements(kinds) /\ "contract" \in Elements(kinds)
  <2>1. 1 \in DOMAIN kinds /\ 3 \in DOMAIN kinds /\ kinds[1] = "public" /\ kinds[3] = "contract"
    BY <1>3
  <2> QED
    BY <2>1 DEF Elements
<1>7. out \in Seq(File) /\ Elements(out) \subseteq ChallengeFile
  <2>1. Elements(out) \subseteq ChallengeFile
    BY <1>5 DEF Elements
  <2>2. ChallengeFile \subseteq File
    BY Shapes
  <2> QED
    BY <1>5, <2>1, <2>2
<1>8. \A c \in Elements(Planned) : run[b].made[c] \in Artifact
  <2> SUFFICES ASSUME NEW c \in Elements(Planned) PROVE run[b].made[c] \in Artifact
    OBVIOUS
  <2>1. run[b].kind = "catalog" /\ run[b].stage = "generated"
    BY DEF PrepareCatalog, Doing
  <2>2. GenerationInv(b)
    BY DEF CatalogOrder, BuilderInv
  <2>3. run[b].plan = <<>> /\ Elements(<<>>) = {}
    BY <2>1, <2>2 DEF GenerationInv, Elements
  <2>4. run[b].made[c] # Absent /\ run[b].made[c] # HalfWritten /\ c \in Title
    BY <2>1, <2>2, <2>3, Titles DEF GenerationInv, Generating
  <2> QED
    BY <2>4, RunTypes DEF Text
<1>9. old \cup Elements(Planned) \in SUBSET Title
  BY <1>2, Titles
<1>10. PICK names \in SUBSET Title : names = old \cup Elements(Planned)
  BY <1>9
<1>11. Writing(b, names, out)
  BY <1>1, <1>3, <1>4, <1>10
<1>12. \A f \in Elements(out) : f[2] \in Elements(Planned) /\ run[b].made[f[2]] \in Artifact
  BY <1>5, <1>8
<1>13. \A c \in names : \/ Loaded(c)
                        \/ /\ run[b].made[c] \in Artifact
                           /\ <<"public", c>> \in Elements(out)
                           /\ <<"contract", c>> \in Elements(out)
  BY <1>2, <1>5, <1>6, <1>8, <1>10
<1>14. UNCHANGED <<dataset, disk, imported, instanceVars>> /\ run[b].kind = "catalog"
  BY DEF PrepareCatalog, Doing
<1> QED
  BY <1>5, <1>7, <1>10, <1>11, <1>12, <1>13, <1>14, PrepareStep

\* PrepareSingle
LEMMA PrepareSingleStep ==
    ASSUME CatalogTypeOK, CatalogOrder, NEW b \in Builder, PrepareSingle(b)
    PROVE  CatalogTypeOK' /\ CatalogOrder'
<1>1. PICK c \in Title : /\ run[b].made[c] # Absent
                         /\ Writing(b, {}, FilesOf(<<c>>, <<"public", "private">>))
  BY DEF PrepareSingle
<1>2. PICK s : s = <<c>>
  OBVIOUS
<1>3. s \in Seq(Title) /\ Elements(s) = {c}
  <2>1. DOMAIN s = {1} /\ s[1] = c
    BY <1>2
  <2> QED
    BY <1>2, <2>1 DEF Elements
<1>4. PICK kinds : kinds = <<"public", "private">>
  OBVIOUS
<1>5. PICK out : out = FilesOf(s, kinds)
  OBVIOUS
<1>6. /\ out \in Seq(ChallengeFile) /\ Elements(out) = Elements(kinds) \X Elements(s)
      /\ \A i \in DOMAIN out : out[i][1] # "public" => \E j \in 1 .. i - 1 : out[j] = <<"public", out[i][2]>>
  BY <1>3, <1>4, <1>5, FilesListed
<1>7. out \in Seq(File) /\ Elements(out) \subseteq ChallengeFile
  <2>1. Elements(out) \subseteq ChallengeFile
    BY <1>6 DEF Elements
  <2>2. ChallengeFile \subseteq File
    BY Shapes
  <2> QED
    BY <1>6, <2>1, <2>2
<1>8. run[b].kind = "single" /\ run[b].stage = "generated" /\ GenerationInv(b)
  BY DEF PrepareSingle, Doing, CatalogOrder, BuilderInv
<1>9. c \in Elements(Planned) /\ run[b].made[c] \in Artifact
  <2>1. run[b].made[c] # HalfWritten /\ c \in Elements(Planned)
    BY <1>1, <1>8 DEF GenerationInv, Generating
  <2> QED
    BY <1>1, <2>1, RunTypes DEF Text
<1>10. \A f \in Elements(out) : f[2] \in Elements(Planned) /\ run[b].made[f[2]] \in Artifact
  BY <1>3, <1>6, <1>9
<1>11. PICK names \in SUBSET Title : names = {}
  OBVIOUS
<1>12. Writing(b, names, out)
  BY <1>1, <1>2, <1>4, <1>5, <1>11
<1>13. UNCHANGED <<dataset, disk, imported, instanceVars>>
  BY DEF PrepareSingle
<1> QED
  BY <1>6, <1>7, <1>8, <1>10, <1>12, <1>13, PrepareStep

\* A builder that is done with a file.
LEMMA AdvanceStep ==
    ASSUME CatalogTypeOK, NEW b \in Builder, BuilderInv(b), Output(b), run[b].out # <<>>, WrittenStays,
           run'[b].kind = run[b].kind, run'[b].made = run[b].made, run'[b].names = run[b].names,
           run'[b].out = Tail(run[b].out), run'[b].stage = "writing",
           run[b].kind # "expansion" => disk'["project"][NextFile(b)] = Result(b, NextFile(b)),
           run[b].kind = "import" =>
              \A f \in Elements(run[b].out) : f # NextFile(b) => disk'["project"][f] = disk["project"][f]
    PROVE  BuilderInv(b)'
<1>1. OutInv(b) /\ (run[b].kind = "catalog" => CatalogInv(b)) /\ (run[b].kind = "import" => ImportInv(b))
  BY DEF BuilderInv
<1>2. GenerationInv(b)'
  BY DEF BuilderInv, GenerationInv, Generating
<1>3. \A f : Result(b, f)' = Result(b, f)
  BY DEF Result
<1> PICK g : g = NextFile(b)
  OBVIOUS
<1>4. run[b].kind # "expansion" => Kept(b, g)'
  BY <1>3 DEF Kept
<1>5. ASSUME NEW c \in Title, NEW kind \in {"public", "private", "contract"}
      PROVE  /\ <<kind, c>> \in ChallengeFile
             /\ run[b].made[c] \in Artifact /\ Kept(b, <<kind, c>>) => Kept(b, <<kind, c>>)'
  <2>1. <<kind, c>> \in ChallengeFile /\ <<kind, c>>[2] = c
    BY Shapes
  <2> QED
    BY <2>1, KeptStays
<1>6. /\ run[b].out \in Seq(File) /\ g = run[b].out[1]
      /\ Elements(Tail(run[b].out)) \subseteq Elements(run[b].out)
      /\ Elements(run[b].out) \subseteq Elements(Tail(run[b].out)) \cup {g}
      /\ DOMAIN run[b].out = 1 .. Len(run[b].out) /\ DOMAIN Tail(run[b].out) = 1 .. Len(run[b].out) - 1
      /\ Len(run[b].out) \in Nat
      /\ \A i \in DOMAIN Tail(run[b].out) : i + 1 \in DOMAIN run[b].out /\ Tail(run[b].out)[i] = run[b].out[i + 1]
  <2>1. run[b].out \in Seq(File)
    BY RunTypes
  <2> QED
    BY <2>1, Tails DEF NextFile
<1>7. ASSUME NEW f, Pending(b, f), run[b].kind # "expansion" PROVE Pending(b, f)' \/ Kept(b, f)'
  BY <1>4, <1>6, <1>7 DEF Pending
<1>8. OutInv(b)'
  <2>1. ASSUME run[b].kind # "expansion", NEW i \in DOMAIN Tail(run[b].out) PROVE Founded(b, i)'
    <3> PICK f : f = run[b].out[i + 1]
      OBVIOUS
    <3>1. Founded(b, i + 1) /\ Tail(run[b].out)[i] = f
      BY <1>1, <1>6, <2>1 DEF OutInv
    <3>2. ASSUME f \in ChallengeFile
          PROVE  /\ run[b].made[f[2]] \in Artifact
                 /\ f[1] # "public" =>
                       \/ Kept(b, <<"public", f[2]>>)'
                       \/ \E j \in 1 .. i - 1 : Tail(run[b].out)[j] = <<"public", f[2]>>
      <4>1. run[b].made[f[2]] \in Artifact /\ f[2] \in Title
        BY <3>1, <3>2, Shapes DEF Founded
      <4>2. ASSUME NEW j \in 1 .. (i + 1) - 1, run[b].out[j] = <<"public", f[2]>>
            PROVE  \/ Kept(b, <<"public", f[2]>>)'
                   \/ \E k \in 1 .. i - 1 : Tail(run[b].out)[k] = <<"public", f[2]>>
        <5>1. i \in 1 .. Len(run[b].out) - 1 /\ j \in Int /\ i \in Int
          BY <1>6, <2>1
        <5>2. CASE j = 1
          BY <1>4, <1>6, <2>1, <4>2, <5>2
        <5>3. CASE j # 1
          <6>1. j - 1 \in 1 .. i - 1 /\ j - 1 \in DOMAIN Tail(run[b].out) /\ (j - 1) + 1 = j
            BY <1>6, <5>1, <5>3
          <6>2. Tail(run[b].out)[j - 1] = run[b].out[j]
            BY <1>6, <6>1
          <6> QED
            BY <4>2, <6>1, <6>2
        <5> QED
          BY <5>2, <5>3
      <4>3. Kept(b, <<"public", f[2]>>) => Kept(b, <<"public", f[2]>>)'
        BY <1>5, <4>1
      <4> QED
        BY <3>1, <3>2, <4>1, <4>2, <4>3 DEF Founded
    <3>3. run'[b].out[i] = f
      BY <3>1
    <3> QED
      BY <3>2, <3>3 DEF Founded
  <2> QED
    BY <1>1, <1>6, <2>1 DEF OutInv
<1>9. ASSUME run[b].kind = "catalog" PROVE CatalogInv(b)'
  <2> SUFFICES ASSUME NEW c \in run[b].names, ~Loaded(c)'
               PROVE  /\ run[b].made[c] \in Artifact
                      /\ \A kind \in {"public", "contract"} :
                             Pending(b, <<kind, c>>)' \/ Kept(b, <<kind, c>>)'
    BY <1>1, <1>9 DEF CatalogInv
  <2>1. c \in Title
    BY RunTypes
  <2>2. ~Loaded(c)
    BY <2>1, LoadedStays
  <2>3. /\ run[b].made[c] \in Artifact
        /\ \A kind \in {"public", "contract"} : Pending(b, <<kind, c>>) \/ Kept(b, <<kind, c>>)
    BY <1>1, <1>9, <2>2 DEF CatalogInv
  <2> QED
    BY <1>5, <1>7, <1>9, <2>1, <2>3
<1>10. ASSUME run[b].kind = "import" PROVE ImportInv(b)'
  <2>1. run[b].names \in SUBSET Title
    BY RunTypes
  <2>2. \A c \in run'[b].names \cap Elements(Planned) : Loaded(c)'
    BY <1>1, <1>10, <2>1, LoadedStays DEF ImportInv
  <2>3. \A c \in run[b].names :
           /\ run[b].made[c] \in Artifact
           /\ \A kind \in {"public", "contract"} : Pending(b, <<kind, c>>)' \/ Kept(b, <<kind, c>>)'
    <3> SUFFICES ASSUME NEW c \in run[b].names
                 PROVE  /\ run[b].made[c] \in Artifact
                        /\ \A kind \in {"public", "contract"} :
                               Pending(b, <<kind, c>>)' \/ Kept(b, <<kind, c>>)'
      OBVIOUS
    <3>1. /\ c \in Title /\ run[b].made[c] \in Artifact
          /\ \A kind \in {"public", "contract"} : Pending(b, <<kind, c>>) \/ Kept(b, <<kind, c>>)
      BY <1>1, <1>10, <2>1 DEF ImportInv
    <3> QED
      BY <1>5, <1>7, <1>10, <3>1
  <2>4. Pending(b, Registry("wider"))' \/ Kept(b, Registry("wider"))'
    <3>1. Pending(b, Registry("wider")) \/ Kept(b, Registry("wider"))
      BY <1>1, <1>10 DEF ImportInv
    <3> QED
      BY <1>7, <1>10, <3>1, KeptStays
  <2>5. ASSUME NEW f \in Elements(Tail(run[b].out))
        PROVE  /\ f \in ChallengeFile => f[1] # "private" /\ f[2] \in run'[b].names
               /\ Agrees(f, Result(b, f))'
    <3>1. /\ f \in ChallengeFile => f[1] # "private" /\ f[2] \in run[b].names
          /\ Agrees(f, Result(b, f)) \/ f = g
      BY <1>1, <1>6, <1>10, <2>5 DEF ImportInv
    <3>2. CASE f = g
      BY <1>4, <1>10, <3>1, <3>2 DEF Agrees, Kept
    <3>3. CASE f # g
      BY <1>3, <1>6, <1>10, <2>5, <3>1, <3>3 DEF Agrees
    <3> QED
      BY <3>2, <3>3
  <2> QED
    BY <2>2, <2>3, <2>4, <2>5 DEF ImportInv
<1> QED
  BY <1>2, <1>8, <1>9, <1>10 DEF BuilderInv, Output

\* Keep
LEMMA KeepStep ==
    ASSUME CatalogTypeOK, CatalogOrder, NEW b \in Builder, Keep(b)
    PROVE  CatalogTypeOK' /\ CatalogOrder'
<1>1. run[b].stage = "writing" /\ run[b].out # <<>> /\ OnDisk(b) # Absent /\ Passes(b)
  BY DEF Keep
<1>2. PICK r \in Run :
          /\ run' = [run EXCEPT ![b] = r]
          /\ r.kind = run[b].kind /\ r.stage = "writing" /\ r.made = run[b].made
          /\ r.names = run[b].names /\ r.out = Tail(run[b].out)
  BY <1>1, DoneTypes
<1>3. run'[b] = r
  BY <1>2 DEF CatalogTypeOK
<1>4. UNCHANGED <<dataset, disk, instanceVars>> /\ UNCHANGED imported
  BY DEF Keep
<1>5. RegistryInv' /\ imported' \in BOOLEAN /\ WrittenStays
  BY <1>4, SameRegistry DEF CatalogOrder, CatalogTypeOK, WrittenStays
<1>6. BuilderInv(b) /\ Output(b)
  BY <1>1 DEF CatalogOrder, Output
<1>7. run[b].kind # "expansion" => disk["project"][NextFile(b)] = Result(b, NextFile(b))
  <2>1. OnDisk(b) = disk["project"][NextFile(b)] \/ run[b].kind = "expansion"
    BY DEF OnDisk, TreeOf
  <2>2. CASE run[b].kind \in {"catalog", "single"}
    BY <1>1, <2>1, <2>2 DEF Passes, Contents, Result
  <2>3. CASE run[b].kind = "import"
    <3>1. NextFile(b) \in Elements(run[b].out)
      BY <1>1, RunTypes, Tails DEF NextFile
    <3>2. Agrees(NextFile(b), Result(b, NextFile(b)))
      BY <1>1, <1>6, <2>3, <3>1 DEF BuilderInv, ImportInv
    <3> QED
      BY <1>1, <2>1, <2>3, <3>2 DEF Agrees
  <2> QED
    BY <1>1, <2>2, <2>3 DEF Passes
<1>8. BuilderInv(b)'
  BY <1>1, <1>2, <1>3, <1>4, <1>5, <1>6, <1>7, AdvanceStep
<1>9. r.stage # "filling" /\ r.kind = run[b].kind
  BY <1>2
<1> QED
  BY <1>2, <1>4, <1>5, <1>8, <1>9, RunOnlyStep

\* A run that is over.
LEMMA IdleStep ==
    ASSUME CatalogTypeOK, NEW b \in Builder, run' = [run EXCEPT ![b] = IdleRun]
    PROVE  BuilderInv(b)' /\ IdleRun.stage # "filling" /\ IdleRun.kind = "idle"
<1>1. run'[b] = IdleRun
  BY DEF CatalogTypeOK
<1>2. /\ IdleRun.kind = "idle" /\ IdleRun.stage = "idle" /\ IdleRun.made = [c \in Title |-> Absent]
  BY DEF IdleRun
<1> QED
  BY <1>1, <1>2, Contained DEF BuilderInv, GenerationInv, Generating, Output

\* EndRun, StopRun: the registry of an import can be loaded when it ends.
LEMMA EndSteps ==
    ASSUME CatalogTypeOK, CatalogOrder, NEW b \in Builder, EndRun(b) \/ StopRun(b)
    PROVE  CatalogTypeOK' /\ CatalogOrder'
<1>1. run' = [run EXCEPT ![b] = IdleRun] /\ UNCHANGED <<dataset, disk, instanceVars>>
  BY DEF EndRun, StopRun
<1>2. imported' \in BOOLEAN
  BY DEF EndRun, StopRun, CatalogTypeOK
<1>3. RegistryInv'
  <2>1. CASE imported' = imported
    BY <1>1, <2>1, SameRegistry DEF CatalogOrder
  <2>2. CASE imported' # imported
    <3>1. run[b].kind = "import" /\ run[b].stage = "writing" /\ run[b].out = <<>>
      BY <2>2 DEF EndRun, StopRun, CatalogTypeOK
    <3>2. ImportInv(b)
      BY <3>1 DEF CatalogOrder, BuilderInv, Output
    <3>3. \A f : ~Pending(b, f)
      BY <3>1 DEF Pending, Elements
    <3>4. disk["project"][Registry("wider")] = run[b].names /\ run[b].names \in SUBSET Title
      BY <3>2, <3>3, RunTypes DEF ImportInv, Kept, Result, Registry
    <3>5. ASSUME NEW c \in run[b].names PROVE Loaded(c)
      <4>1. run[b].made[c] \in Artifact
        BY <3>2 DEF ImportInv
      <4>2. disk["project"][<<"public", c>>] = run[b].made[c] /\ disk["project"][<<"contract", c>>] = run[b].made[c]
        BY <3>2, <3>3 DEF ImportInv, Kept, Result
      <4> QED
        BY <4>1, <4>2, Contained DEF Loaded
    <3> QED
      BY <1>1, <3>4, <3>5 DEF RegistryInv, CatalogOrder, Loaded
  <2> QED
    BY <2>1, <2>2
<1>4. BuilderInv(b)' /\ IdleRun.stage # "filling" /\ IdleRun.kind = "idle" /\ IdleRun \in Run
  BY <1>1, IdleStep, IdleTypes
<1> QED
  BY <1>1, <1>2, <1>3, <1>4, RunOnlyStep

\* The files of an import or of an expansion: the registry, and then those of its challenges.
WiderFiles(s, kinds) == <<Registry("wider")>> \o FilesOf(s, kinds)

\* The registry is the first of them, and a public description goes before its contract.
LEMMA WiderListed ==
    ASSUME NEW s \in Seq(Title), NEW kinds,
           kinds = <<"public", "private", "contract">> \/ kinds = <<"public", "contract">>
    PROVE  /\ WiderFiles(s, kinds) \in Seq(File)
           /\ Elements(WiderFiles(s, kinds)) = {Registry("wider")} \cup (Elements(kinds) \X Elements(s))
           /\ \A i \in DOMAIN WiderFiles(s, kinds) :
                 WiderFiles(s, kinds)[i] \in ChallengeFile /\ WiderFiles(s, kinds)[i][1] # "public" =>
                 \E j \in 1 .. i - 1 : WiderFiles(s, kinds)[j] = <<"public", WiderFiles(s, kinds)[i][2]>>
<1> PICK out : out = WiderFiles(s, kinds)
  OBVIOUS
<1>1. PICK fs : fs = FilesOf(s, kinds)
  OBVIOUS
<1>2. /\ fs \in Seq(ChallengeFile) /\ Elements(fs) = Elements(kinds) \X Elements(s)
      /\ \A i \in DOMAIN fs : fs[i][1] # "public" => \E j \in 1 .. i - 1 : fs[j] = <<"public", fs[i][2]>>
  BY <1>1, FilesListed
<1>3. PICK w \in File : w = Registry("wider") /\ w \notin ChallengeFile
  BY Shapes
<1>4. fs \in Seq(File)
  <2>1. ChallengeFile \subseteq File
    BY Shapes
  <2> QED
    BY <1>2, <2>1
<1>5. out = <<w>> \o fs
  BY <1>1, <1>3 DEF WiderFiles
<1>6. /\ out \in Seq(File) /\ DOMAIN out = 1 .. Len(fs) + 1 /\ out[1] = w
      /\ \A i \in DOMAIN fs : i + 1 \in DOMAIN out /\ out[i + 1] = fs[i]
      /\ DOMAIN fs = 1 .. Len(fs) /\ Len(fs) \in Nat
      /\ \A i \in DOMAIN out : i = 1 \/ (i - 1 \in DOMAIN fs /\ out[i] = fs[i - 1])
  <2>1. PICK h : h = <<w>>
    OBVIOUS
  <2>2. h \in Seq(File) /\ Len(h) = 1 /\ h[1] = w
    BY <1>3, <2>1
  <2>3. out = h \o fs
    BY <1>5, <2>1
  <2>4. /\ out \in Seq(File) /\ Len(out) = 1 + Len(fs)
        /\ \A i \in 1 .. Len(out) : out[i] = IF i <= 1 THEN h[i] ELSE fs[i - 1]
    <3>1. /\ h \o fs \in Seq(File) /\ Len(h \o fs) = Len(h) + Len(fs)
          /\ \A i \in 1 .. Len(h) + Len(fs) :
                (h \o fs)[i] = IF i <= Len(h) THEN h[i] ELSE fs[i - Len(h)]
      BY <1>4, <2>2, ConcatProperties, Zenon
    <3> QED
      BY <2>2, <2>3, <3>1, Zenon
  <2>5. DOMAIN fs = 1 .. Len(fs) /\ Len(fs) \in Nat /\ DOMAIN out = 1 .. Len(out)
    BY <1>4, <2>4
  <2>6. DOMAIN out = 1 .. Len(fs) + 1 /\ out[1] = w
    BY <2>2, <2>4, <2>5
  <2>7. \A i \in DOMAIN fs : i + 1 \in DOMAIN out /\ out[i + 1] = fs[i]
    BY <2>4, <2>5
  <2>8. \A i \in DOMAIN out : i = 1 \/ (i - 1 \in DOMAIN fs /\ out[i] = fs[i - 1])
    BY <2>4, <2>5
  <2> QED
    BY <2>4, <2>5, <2>6, <2>7, <2>8
<1>7. Elements(out) = {w} \cup Elements(fs)
  <2>1. \A i \in DOMAIN out : out[i] \in {w} \cup Elements(fs)
    BY <1>6 DEF Elements
  <2>2. \A i \in DOMAIN fs : fs[i] \in Elements(out)
    BY <1>6 DEF Elements
  <2>3. w \in Elements(out)
    <3>1. 1 \in DOMAIN out
      BY <1>6
    <3> QED
      BY <1>6, <3>1 DEF Elements
  <2>4. Elements(out) \subseteq {w} \cup Elements(fs)
    BY <2>1 DEF Elements
  <2>5. Elements(fs) \subseteq Elements(out)
    BY <2>2 DEF Elements
  <2> QED
    BY <2>3, <2>4, <2>5
<1>8. ASSUME NEW i \in DOMAIN out, out[i] \in ChallengeFile, out[i][1] # "public"
      PROVE  \E j \in 1 .. i - 1 : out[j] = <<"public", out[i][2]>>
  <2>1. i # 1 /\ i - 1 \in DOMAIN fs /\ out[i] = fs[i - 1] /\ i \in Int
    BY <1>3, <1>6, <1>8
  <2>2. PICK j \in 1 .. (i - 1) - 1 : fs[j] = <<"public", fs[i - 1][2]>>
    BY <1>2, <1>8, <2>1
  <2>3. j \in DOMAIN fs /\ j + 1 \in 1 .. i - 1
    BY <1>6, <2>1, <2>2
  <2>4. out[j + 1] = fs[j]
    BY <1>6, <2>3
  <2> QED
    BY <2>1, <2>2, <2>3, <2>4
<1> QED
  BY <1>2, <1>3, <1>6, <1>7, <1>8

\* BeginImport
LEMMA BeginImportStep ==
    ASSUME CatalogTypeOK, CatalogOrder, NEW b \in Builder, BeginImport(b)
    PROVE  CatalogTypeOK' /\ CatalogOrder'
<1>1. PICK entries \in {Planned, Order}, r \in Run :
          /\ run' = [run EXCEPT ![b] = r] /\ UNCHANGED <<dataset, disk, imported, instanceVars>>
          /\ r.kind = "import" /\ r.stage = "writing"
          /\ r.names = Elements(entries) /\ Elements(entries) = disk["staging"][Registry("wider")]
          /\ r.out = <<Registry("wider")>> \o FilesOf(entries, <<"public", "contract">>)
          /\ \A f \in Elements(r.out) : Agrees(f, disk["staging"][f])
          /\ r.made = [c \in Title |-> disk["staging"][<<"public", c>>]]
  BY ImportTypes
<1>2. run'[b] = r
  BY <1>1 DEF CatalogTypeOK
<1>3. RegistryInv' /\ imported' \in BOOLEAN
  BY <1>1, SameRegistry DEF CatalogOrder, CatalogTypeOK
<1>4. PICK kinds : kinds = <<"public", "contract">>
  OBVIOUS
<1>5. Elements(kinds) = {"public", "contract"}
  <2>1. DOMAIN kinds = {1, 2} /\ kinds[1] = "public" /\ kinds[2] = "contract"
    BY <1>4
  <2> QED
    BY <2>1 DEF Elements
<1>6. entries \in Seq(Title) /\ Elements(entries) \in SUBSET Title
  BY Titles
<1>7. PICK out : out = r.out
  OBVIOUS
<1>8. /\ Elements(out) = {Registry("wider")} \cup ({"public", "contract"} \X Elements(entries))
      /\ \A i \in DOMAIN out : out[i] \in ChallengeFile /\ out[i][1] # "public" =>
            \E j \in 1 .. i - 1 : out[j] = <<"public", out[i][2]>>
  <2>1. out = WiderFiles(entries, kinds)
    BY <1>1, <1>4, <1>7, Zenon DEF WiderFiles
  <2>2. kinds = <<"public", "private", "contract">> \/ kinds = <<"public", "contract">>
    BY <1>4
  <2>3. entries \in Seq(Title)
    BY <1>6
  <2>4. /\ out \in Seq(File)
        /\ Elements(out) = {Registry("wider")} \cup (Elements(kinds) \X Elements(entries))
        /\ \A i \in DOMAIN out : out[i] \in ChallengeFile /\ out[i][1] # "public" =>
              \E j \in 1 .. i - 1 : out[j] = <<"public", out[i][2]>>
    BY <2>1, <2>2, <2>3, WiderListed
  <2> QED
    BY <1>5, <2>4
<1>9. ASSUME NEW c \in Elements(entries)
      PROVE  /\ c \in Title /\ r.made[c] = disk["staging"][<<"public", c>>] /\ r.made[c] \in Artifact
             /\ disk["staging"][<<"contract", c>>] = r.made[c]
  <2>1. c \in Title /\ r.made[c] = disk["staging"][<<"public", c>>]
    BY <1>1, <1>6
  <2>2. /\ Written(disk["staging"][<<"public", c>>])
        /\ disk["staging"][<<"contract", c>>] = disk["staging"][<<"public", c>>]
    BY <1>1 DEF BeginImport, Loads, Describes
  <2>3. disk["staging"][<<"public", c>>] \in Text
    BY <2>1, Shapes DEF CatalogTypeOK
  <2> QED
    BY <2>1, <2>2, <2>3, Contained
<1>10. \A c \in Elements(Planned) : Loaded(c)
  <2>1. disk["project"][Registry("base")] # Absent
    BY DEF BeginImport, Loads, Written
  <2> QED
    BY <2>1 DEF CatalogOrder, RegistryInv
<1>11. GenerationInv(b)'
  BY <1>1, <1>2 DEF GenerationInv, Generating
<1>12. OutInv(b)'
  <2>1. \A f \in Elements(out) : f \in ChallengeFile \/ f = Registry("wider")
    BY <1>6, <1>8 DEF ChallengeFile
  <2>2. ASSUME NEW i \in DOMAIN out PROVE Founded(b, i)'
    <3>1. out[i] \in Elements(out)
      BY DEF Elements
    <3>2. out[i] \in ChallengeFile => r.made[out[i][2]] \in Artifact
      <4>1. ASSUME out[i] \in ChallengeFile PROVE out[i][2] \in Elements(entries)
        <5>1. out[i] # Registry("wider")
          BY <4>1, Shapes
        <5>2. out[i] \in {"public", "contract"} \X Elements(entries)
          BY <1>8, <3>1, <5>1
        <5> QED
          BY <5>2
      <4> QED
        BY <1>9, <4>1
    <3> QED
      BY <1>2, <1>7, <1>8, <3>2 DEF Founded
  <2> QED
    BY <1>1, <1>2, <1>7, <2>1, <2>2 DEF OutInv
<1>13. ImportInv(b)'
  <2>1. \A c : Loaded(c)' <=> Loaded(c)
    BY <1>1 DEF Loaded
  <2>2. \A c \in run'[b].names \cap Elements(Planned) : Loaded(c)'
    BY <1>10, <2>1
  <2>3. \A f : Pending(b, f)' <=> f \in Elements(out)
    BY <1>2, <1>7 DEF Pending
  <2>4. \A c \in run'[b].names :
           /\ run'[b].made[c] \in Artifact
           /\ \A kind \in {"public", "contract"} : Pending(b, <<kind, c>>)'
    BY <1>1, <1>2, <1>8, <1>9, <2>3
  <2>5. Pending(b, Registry("wider"))'
    BY <1>8, <2>3
  <2>6. ASSUME NEW f \in Elements(out)
        PROVE  /\ f \in ChallengeFile => f[1] # "private" /\ f[2] \in run'[b].names
               /\ Agrees(f, Result(b, f))'
    <3>1. f \in ChallengeFile => f[1] # "private" /\ f[2] \in r.names
      BY <1>1, <1>8, <2>6, Shapes
    <3>2. Result(b, f)' = disk["staging"][f]
      <4>1. CASE f = Registry("wider")
        BY <1>1, <1>2, <4>1 DEF Result, Registry
      <4>2. CASE f # Registry("wider")
        <5>1. PICK kind \in {"public", "contract"}, c \in Elements(entries) : f = <<kind, c>>
          BY <1>8, <4>2
        <5> QED
          BY <1>2, <1>9, <5>1 DEF Result
      <4> QED
        BY <4>1, <4>2
    <3>3. Agrees(f, disk["staging"][f])
      BY <1>1, <1>7
    <3> QED
      BY <1>1, <1>2, <3>1, <3>2, <3>3 DEF Agrees
  <2> QED
    BY <1>2, <1>7, <2>2, <2>4, <2>5, <2>6 DEF ImportInv
<1>14. BuilderInv(b)'
  BY <1>1, <1>2, <1>11, <1>12, <1>13 DEF BuilderInv
<1>15. r.stage # "filling" /\ ~Expanding /\ UNCHANGED <<dataset, disk, instanceVars>>
  BY <1>1 DEF BeginImport
<1> QED
  BY <1>1, <1>3, <1>14, <1>15, RunOnlyStep

----------------------------------------------------------------------------
\* The steps that change files.
LEMMA RegistryStays ==
    ASSUME CatalogTypeOK, RegistryInv, WrittenStays, imported' = imported,
           disk'["project"][Registry("base")] = disk["project"][Registry("base")]
    PROVE  RegistryInv'
<1>1. ASSUME disk["project"][Registry("base")] # Absent
      PROVE  /\ disk["project"][Registry("base")] \in SUBSET Title
             /\ Elements(Planned) \subseteq disk["project"][Registry("base")]
             /\ \A c \in disk["project"][Registry("base")] : Loaded(c)'
  BY <1>1, LoadedStays DEF RegistryInv
<1>2. ASSUME imported
      PROVE  /\ disk'["project"][Registry("wider")] \in SUBSET Title
             /\ \A c \in disk'["project"][Registry("wider")] : Loaded(c)'
  <2>1. /\ disk["project"][Registry("wider")] \in SUBSET Title
        /\ \A c \in disk["project"][Registry("wider")] : Loaded(c)
    BY <1>2 DEF RegistryInv
  <2>2. disk'["project"][Registry("wider")] = disk["project"][Registry("wider")]
    BY <2>1, Shapes, Contained DEF WrittenStays
  <2> QED
    BY <2>1, <2>2, LoadedStays
<1> QED
  BY <1>1, <1>2 DEF RegistryInv

\* The contracts of an instance are written.
LEMMA InstanceStays ==
    ASSUME CatalogTypeOK, InstanceInv, WrittenStays, UNCHANGED instanceVars
    PROVE  InstanceInv'
<1>1. ASSUME NEW hash \in Hash, disk["project"][<<"contract", hash[1]>>] = hash[2]
      PROVE  disk'["project"][<<"contract", hash[1]>>] = hash[2]
  <2>1. hash[1] \in Title /\ hash[2] \in Artifact
    BY DEF Hash
  <2>2. <<"contract", hash[1]>> \in File \ {Registry("base")}
    BY <2>1, Shapes
  <2> QED
    BY <1>1, <2>1, <2>2, Contained DEF WrittenStays
<1>2. /\ contracts # NoMarker => contracts \in SUBSET Hash
      /\ instance.new \in SUBSET Hash
  BY DEF CatalogTypeOK
<1> QED
  BY <1>1, <1>2 DEF InstanceInv, instanceVars

\* A builder puts something into a file that is not written yet.
Puts(b, f, tree, contents, r) ==
    /\ f = NextFile(b) /\ tree = TreeOf(b)
    /\ PutFile(b, contents)
    /\ run' = [run EXCEPT ![b] = r]

\* It is no file that another builder relies on.
LEMMA PutStep ==
    ASSUME CatalogTypeOK, CatalogOrder, NEW b \in Builder, Output(b), run[b].out # <<>>,
           NEW f, NEW tree, NEW contents, NEW r \in Run, Puts(b, f, tree, contents, r),
           f \in ChallengeFile => contents \in Text, f \notin ChallengeFile => contents \in Names,
           OnDisk(b) = Absent \/ (OnDisk(b) = HalfWritten /\ run[b].stage = "filling"),
           UNCHANGED <<dataset, imported, instanceVars>>
    PROVE  /\ CatalogTypeOK' /\ WrittenStays /\ RegistryInv' /\ InstanceInv'
           /\ f \in Elements(run[b].out) /\ f \in File /\ tree \in {"project", "staging"}
           /\ disk'[tree][f] = contents
           /\ \A t \in {"project", "staging"}, g \in File : t # tree \/ g # f => disk'[t][g] = disk[t][g]
           /\ \A d \in Builder \ {b} : run'[d] = run[d] /\ BuilderInv(d)'
<1>1. OutInv(b) /\ run[b].out \in Seq(File)
  BY RunTypes DEF CatalogOrder, BuilderInv
<1> f = NextFile(b) /\ tree = TreeOf(b) /\ PutFile(b, contents) /\ run' = [run EXCEPT ![b] = r]
  BY DEF Puts
<1>2. f \in Elements(run[b].out) /\ f \in File
  BY <1>1, Tails DEF NextFile
<1>3. /\ f \in ChallengeFile \/ (f = Registry("wider") /\ run[b].kind \in {"expansion", "import"})
      /\ run[b].kind \in {"catalog", "single"} => f[2] \in Elements(Planned)
      /\ f # Registry("base")
  BY <1>1, <1>2, Shapes DEF OutInv
<1>4. tree \in {"project", "staging"} /\ (tree = "project" <=> run[b].kind # "expansion")
      /\ disk[tree][f] = OnDisk(b) /\ PutInto(tree, f, contents)
  BY DEF TreeOf, OnDisk, PutFile, PutInto
<1>5. /\ disk' \in [{"project", "staging"} -> [File -> Text \cup SUBSET Title]]
      /\ \A t \in {"project", "staging"} :
            /\ \A g \in ChallengeFile : disk'[t][g] \in Text
            /\ \A name \in {"base", "wider"} : disk'[t][Registry(name)] \in Names
      /\ disk'[tree][f] = contents
      /\ \A t \in {"project", "staging"}, g \in File :
            t # tree \/ g # f => disk'[t][g] = disk[t][g]
  BY <1>2, <1>4, DiskPut
<1>6. run' \in [Builder -> Run] /\ \A d \in Builder \ {b} : run'[d] = run[d]
  BY DEF CatalogTypeOK
<1>7. CatalogTypeOK'
  BY <1>5, <1>6 DEF CatalogTypeOK, instanceVars
<1>8. ~Written(disk[tree][f])
  BY <1>4 DEF Written
<1>9. WrittenStays
  BY <1>5, <1>8 DEF WrittenStays
<1>10. RegistryInv' /\ InstanceInv'
  BY <1>3, <1>5, <1>9, Shapes, RegistryStays, InstanceStays DEF CatalogOrder
<1>11. ASSUME NEW d \in Builder \ {b} PROVE BuilderInv(d)'
  <2>1. BuilderInv(d) /\ run'[d] = run[d] /\ b # d
    BY <1>6 DEF CatalogOrder
  <2>2. ASSUME run[d].stage = "filling" PROVE OnDisk(d)' = OnDisk(d)
    <3>1. OutInv(d) /\ run[d].out \in Seq(File)
      BY <2>1, <2>2, RunTypes DEF BuilderInv, Output
    <3>2. run[d].out # <<>> /\ OnDisk(d) = HalfWritten
      BY <2>2, <3>1 DEF OutInv
    <3>3. PICK g \in File : g = NextFile(d)
      BY <3>1, <3>2, Tails DEF NextFile
    <3>4. PICK t \in {"project", "staging"} : t = TreeOf(d)
      BY DEF TreeOf
    <3>5. t # tree \/ g # f
      <4>1. CASE OnDisk(b) = Absent
        BY <1>4, <3>2, <3>3, <3>4, <4>1, Contained DEF OnDisk
      <4>2. CASE run[b].stage = "filling"
        BY <2>1, <2>2, <3>3, <3>4, <4>2 DEF CatalogOrder, ApartInv
      <4> QED
        BY <4>1, <4>2
    <3>6. disk'[t][g] = disk[t][g]
      BY <1>5, <3>5
    <3> QED
      BY <2>1, <3>3, <3>4, <3>6 DEF OnDisk, NextFile, TreeOf
  <2>3. ASSUME Output(d), run[d].kind = "import", NEW g \in Elements(run[d].out)
        PROVE  disk'["project"][g] = disk["project"][g]
    <3>1. OutInv(d) /\ ImportInv(d) /\ run[d].out \in Seq(File)
      BY <2>1, <2>3, RunTypes DEF BuilderInv
    <3>2. g \in File
      BY <3>1 DEF Elements
    <3>3. CASE tree = "project"
      <4>1. run[b].kind \in {"catalog", "single"}
        <5>1. run[b].kind # "idle" /\ run[b].kind \notin {"expansion", "import"} /\ run[b].kind \in Kind
          BY <1>1, <2>1, <2>3, RunTypes DEF OutInv, CatalogOrder, ApartInv
        <5> QED
          BY <5>1 DEF Kind
      <4>2. ASSUME g = f PROVE FALSE
        <5>1. f \in ChallengeFile /\ f[2] \in Elements(Planned) /\ f[1] # "private" /\ f[2] \in run[d].names
          BY <1>3, <2>3, <3>1, <4>1, <4>2 DEF ImportInv
        <5>2. Loaded(f[2])
          BY <3>1, <5>1 DEF ImportInv
        <5>3. Written(disk["project"][f])
          BY <5>1, <5>2, Shapes DEF Loaded
        <5> QED
          BY <1>8, <3>3, <5>3
      <4> QED
        BY <1>5, <3>2, <4>2
    <3>4. CASE tree # "project"
      BY <1>5, <3>2, <3>4
    <3> QED
      BY <3>3, <3>4
  <2> QED
    BY <1>9, <2>1, <2>2, <2>3, BystanderStep
<1> QED
  BY <1>2, <1>4, <1>5, <1>6, <1>7, <1>9, <1>10, <1>11

\* It goes beside a public description it agrees with, or is one that is alone.
LEMMA PairPut ==
    ASSUME CatalogTypeOK, CatalogOrder, NEW b \in Builder, Output(b), run[b].out # <<>>,
           NEW f, f = NextFile(b), NEW tree, tree = TreeOf(b),
           NEW contents, contents \in {HalfWritten, Contents(b)},
           ~Written(disk[tree][f]), disk'[tree][f] = contents,
           \A t \in {"project", "staging"}, g \in File : t # tree \/ g # f => disk'[t][g] = disk[t][g]
    PROVE  PairInv'
<1>1. PairInv /\ OutInv(b) /\ run[b].out \in Seq(File)
  BY RunTypes DEF CatalogOrder, BuilderInv
<1> SUFFICES ASSUME NEW c \in Title, NEW kind \in {"private", "contract"},
                    disk'["project"][<<kind, c>>] # Absent
             PROVE  /\ Written(disk'["project"][<<"public", c>>])
                    /\ Written(disk'["project"][<<kind, c>>]) =>
                          disk'["project"][<<kind, c>>] = disk'["project"][<<"public", c>>]
  BY DEF PairInv
<1>2. /\ <<kind, c>> \in ChallengeFile /\ <<"public", c>> \in ChallengeFile
      /\ <<kind, c>> \in File /\ <<"public", c>> \in File /\ <<kind, c>> # <<"public", c>>
  BY Shapes
<1>3. disk["project"][<<kind, c>>] # Absent =>
         /\ Written(disk["project"][<<"public", c>>])
         /\ Written(disk["project"][<<kind, c>>]) =>
               disk["project"][<<kind, c>>] = disk["project"][<<"public", c>>]
  BY <1>1 DEF PairInv
<1>4. CASE tree = "project" /\ f = <<"public", c>>
  BY <1>2, <1>3, <1>4
<1>5. CASE tree = "project" /\ f = <<kind, c>>
  <2>1. Founded(b, 1) /\ run[b].out[1] = f
    BY <1>1, <1>5, Tails DEF OutInv, NextFile, TreeOf
  <2>2. f \in ChallengeFile /\ f[1] # "public" /\ f[1] # "registry" /\ f[2] = c
    BY <1>2, <1>5
  <2>3. run[b].made[c] \in Artifact /\ Kept(b, <<"public", c>>)
    BY <2>1, <2>2 DEF Founded
  <2>4. disk["project"][<<"public", c>>] = run[b].made[c]
    BY <2>3 DEF Kept, Result
  <2>5. Contents(b) = run[b].made[c]
    BY <2>2 DEF Contents
  <2>6. disk'["project"][<<"public", c>>] = run[b].made[c]
    BY <1>2, <1>5, <2>4
  <2> QED
    BY <1>5, <2>3, <2>5, <2>6, Contained DEF Written
<1>6. CASE tree # "project" \/ (f # <<"public", c>> /\ f # <<kind, c>>)
  <2>1. /\ disk'["project"][<<kind, c>>] = disk["project"][<<kind, c>>]
        /\ disk'["project"][<<"public", c>>] = disk["project"][<<"public", c>>]
    BY <1>2, <1>6
  <2> QED
    BY <1>3, <2>1
<1> QED
  BY <1>4, <1>5, <1>6

\* Create
LEMMA CreateStep ==
    ASSUME CatalogTypeOK, CatalogOrder, NEW b \in Builder, Create(b)
    PROVE  CatalogTypeOK' /\ CatalogOrder'
<1>1. /\ run[b].stage = "writing" /\ run[b].out # <<>> /\ OnDisk(b) = Absent
      /\ PutFile(b, HalfWritten) /\ UNCHANGED <<dataset, imported, instanceVars>>
  BY DEF Create
<1>2. PICK r \in Run :
          /\ run' = [run EXCEPT ![b] = r]
          /\ r.kind = run[b].kind /\ r.stage = "filling" /\ r.made = run[b].made
          /\ r.names = run[b].names /\ r.out = run[b].out
  BY CreatedTypes
<1> PICK f, tree : f = NextFile(b) /\ tree = TreeOf(b)
  OBVIOUS
<1>3. Output(b) /\ HalfWritten \in Text /\ HalfWritten \in Names /\ BuilderInv(b)
  BY <1>1 DEF Output, Text, Names, CatalogOrder
<1>4. /\ CatalogTypeOK' /\ WrittenStays /\ RegistryInv' /\ InstanceInv'
      /\ f \in Elements(run[b].out) /\ f \in File /\ tree \in {"project", "staging"}
      /\ disk'[tree][f] = HalfWritten
      /\ \A t \in {"project", "staging"}, g \in File : t # tree \/ g # f => disk'[t][g] = disk[t][g]
      /\ \A d \in Builder \ {b} : run'[d] = run[d] /\ BuilderInv(d)'
  <2>1. Puts(b, f, tree, HalfWritten, r)
    BY <1>1, <1>2 DEF Puts
  <2> QED
    BY <1>1, <1>3, <2>1, PutStep
<1>5. run'[b] = r
  BY <1>2 DEF CatalogTypeOK
<1>6. PairInv'
  <2>1. ~Written(disk[tree][f])
    BY <1>1 DEF OnDisk, Written
  <2> QED
    BY <1>1, <1>3, <1>4, <2>1, PairPut
<1>7. BuilderInv(b)'
  <2>1. GenerationInv(b)'
    BY <1>2, <1>3, <1>5 DEF BuilderInv, GenerationInv, Generating
  <2>2. OnDisk(b)' = HalfWritten
    BY <1>2, <1>4, <1>5 DEF OnDisk, TreeOf, NextFile
  <2>3. run[b].kind = "import" => \A g \in Elements(run[b].out) :
              \/ disk'["project"][g] = disk["project"][g]
              \/ run'[b].stage = "filling" /\ g = NextFile(b)
    <3>1. \A g \in Elements(run[b].out) : g \in File
      BY RunTypes DEF Elements
    <3> QED
      BY <1>2, <1>4, <1>5, <3>1
  <2>4. /\ OutInv(b)'
        /\ run[b].kind = "catalog" => CatalogInv(b)'
        /\ run[b].kind = "import" => ImportInv(b)'
    BY <1>1, <1>2, <1>3, <1>4, <1>5, <2>2, <2>3, OutStays
  <2> QED
    BY <1>2, <1>5, <2>1, <2>4 DEF BuilderInv
<1>8. ApartInv'
  <2> SUFFICES ASSUME NEW x \in Builder, NEW d \in Builder, x # d
               PROVE  /\ run'[x].kind \in {"expansion", "import"} => run'[d].kind \notin {"expansion", "import"}
                      /\ run'[x].stage = "filling" /\ run'[d].stage = "filling" /\ TreeOf(x)' = TreeOf(d)' =>
                            NextFile(x)' # NextFile(d)'
    BY DEF ApartInv
  <2>1. \A y \in Builder : run'[y].kind = run[y].kind /\ run'[y].out = run[y].out
    BY <1>2, <1>4, <1>5
  <2>2. \A y \in Builder : TreeOf(y)' = TreeOf(y) /\ NextFile(y)' = NextFile(y)
    BY <2>1 DEF TreeOf, NextFile
  <2>3. run'[x].kind \in {"expansion", "import"} => run'[d].kind \notin {"expansion", "import"}
    BY <2>1 DEF CatalogOrder, ApartInv
  <2>4. ASSUME NEW y \in Builder \ {b}, run[y].stage = "filling", TreeOf(y) = tree PROVE NextFile(y) # f
    <3>1. OnDisk(y) = HalfWritten
      BY <2>4 DEF CatalogOrder, BuilderInv, OutInv, Output
    <3> QED
      BY <1>1, <2>4, <3>1, Contained DEF OnDisk
  <2>5. ASSUME run'[x].stage = "filling", run'[d].stage = "filling", TreeOf(x)' = TreeOf(d)'
        PROVE  NextFile(x)' # NextFile(d)'
    <3>1. CASE x = b
      BY <1>4, <2>2, <2>4, <2>5, <3>1
    <3>2. CASE d = b
      BY <1>4, <2>2, <2>4, <2>5, <3>2
    <3>3. CASE x # b /\ d # b
      BY <1>4, <2>2, <2>5, <3>3 DEF CatalogOrder, ApartInv
    <3> QED
      BY <3>1, <3>2, <3>3
  <2> QED
    BY <2>3, <2>5
<1> QED
  BY <1>4, <1>6, <1>7, <1>8 DEF CatalogOrder

\* Fill
LEMMA FillStep ==
    ASSUME CatalogTypeOK, CatalogOrder, NEW b \in Builder, Fill(b)
    PROVE  CatalogTypeOK' /\ CatalogOrder'
<1>1. /\ run[b].stage = "filling" /\ PutFile(b, Contents(b))
      /\ UNCHANGED <<dataset, imported, instanceVars>>
  BY DEF Fill
<1>2. Output(b) /\ BuilderInv(b) /\ OutInv(b)
  BY <1>1 DEF Output, CatalogOrder, BuilderInv
<1>3. run[b].out # <<>> /\ OnDisk(b) = HalfWritten
  BY <1>1, <1>2 DEF OutInv
<1>4. PICK r \in Run :
          /\ run' = [run EXCEPT ![b] = r]
          /\ r.kind = run[b].kind /\ r.stage = "writing" /\ r.made = run[b].made
          /\ r.names = run[b].names /\ r.out = Tail(run[b].out)
  BY <1>3, DoneTypes
<1> PICK f, tree, contents : f = NextFile(b) /\ tree = TreeOf(b) /\ contents = Contents(b)
  OBVIOUS
<1>5. /\ f \in ChallengeFile => contents \in Text
      /\ f \notin ChallengeFile => contents \in Names
  <2>1. f \in ChallengeFile \/ f = Registry("wider")
    BY <1>2, <1>3, RunTypes, Tails DEF OutInv, NextFile
  <2>2. CASE f \in ChallengeFile
    BY <2>2, RunTypes, Shapes DEF Contents
  <2>3. CASE f = Registry("wider")
    BY <2>3, RunTypes, Shapes DEF Contents, Registry, Names
  <2> QED
    BY <2>1, <2>2, <2>3
<1>6. /\ CatalogTypeOK' /\ WrittenStays /\ RegistryInv' /\ InstanceInv'
      /\ f \in Elements(run[b].out) /\ f \in File /\ tree \in {"project", "staging"}
      /\ disk'[tree][f] = contents
      /\ \A t \in {"project", "staging"}, g \in File : t # tree \/ g # f => disk'[t][g] = disk[t][g]
      /\ \A d \in Builder \ {b} : run'[d] = run[d] /\ BuilderInv(d)'
  <2>1. Puts(b, f, tree, contents, r)
    BY <1>1, <1>4 DEF Puts
  <2> QED
    BY <1>1, <1>2, <1>3, <1>5, <2>1, PutStep
<1>7. run'[b] = r
  BY <1>4 DEF CatalogTypeOK
<1>8. PairInv'
  <2>1. ~Written(disk[tree][f])
    BY <1>3 DEF OnDisk, Written
  <2> QED
    BY <1>2, <1>3, <1>6, <2>1, PairPut
<1>9. BuilderInv(b)'
  <2>1. run[b].kind # "expansion" => disk'["project"][NextFile(b)] = Result(b, NextFile(b))
    BY <1>6 DEF TreeOf, Contents, Result
  <2>2. run[b].kind = "import" =>
              \A g \in Elements(run[b].out) : g # NextFile(b) => disk'["project"][g] = disk["project"][g]
    <3>1. \A g \in Elements(run[b].out) : g \in File
      BY RunTypes DEF Elements
    <3> QED
      BY <1>6, <3>1
  <2> QED
    BY <1>2, <1>3, <1>4, <1>6, <1>7, <2>1, <2>2, AdvanceStep
<1>10. ApartInv'
  <2> SUFFICES ASSUME NEW x \in Builder, NEW d \in Builder, x # d
               PROVE  /\ run'[x].kind \in {"expansion", "import"} => run'[d].kind \notin {"expansion", "import"}
                      /\ run'[x].stage = "filling" /\ run'[d].stage = "filling" /\ TreeOf(x)' = TreeOf(d)' =>
                            NextFile(x)' # NextFile(d)'
    BY DEF ApartInv
  <2>1. \A y \in Builder : run'[y].kind = run[y].kind
    BY <1>4, <1>6, <1>7
  <2>2. ASSUME NEW y \in Builder, run'[y].stage = "filling"
        PROVE  run'[y] = run[y] /\ TreeOf(y)' = TreeOf(y) /\ NextFile(y)' = NextFile(y)
    <3>1. y # b
      BY <1>4, <1>7, <2>2
    <3> QED
      BY <1>6, <3>1 DEF TreeOf, NextFile
  <2> QED
    BY <2>1, <2>2 DEF CatalogOrder, ApartInv
<1> QED
  BY <1>6, <1>8, <1>9, <1>10 DEF CatalogOrder

\* Files that no builder relies on change.
LEMMA FarStep ==
    ASSUME CatalogTypeOK, CatalogOrder,
           \A f \in File : f # Registry("base") /\ f \notin {"private"} \X Title =>
              disk'["project"][f] = disk["project"][f],
           \A f \in {"private"} \X Title : disk["project"][f] # Absent =>
              disk'["project"][f] = disk["project"][f]
    PROVE  /\ WrittenStays
           /\ \A d \in Builder :
                 run'[d] = run[d] /\ (run[d].kind = "expansion" => disk'["staging"] = disk["staging"])
                    => BuilderInv(d)'
<1>1. ASSUME NEW f \in File, f # Registry("base"), disk["project"][f] # Absent
      PROVE  disk'["project"][f] = disk["project"][f]
  BY <1>1
<1>2. WrittenStays
  BY <1>1 DEF WrittenStays, Written
<1>3. ASSUME NEW d \in Builder, run'[d] = run[d],
             run[d].kind = "expansion" => disk'["staging"] = disk["staging"]
      PROVE  BuilderInv(d)'
  <2>1. BuilderInv(d) /\ run[d].out \in Seq(File)
    BY RunTypes DEF CatalogOrder
  <2>2. ASSUME run[d].stage = "filling" PROVE OnDisk(d)' = OnDisk(d)
    <3>1. OutInv(d) /\ run[d].out # <<>> /\ OnDisk(d) = HalfWritten
      BY <2>1, <2>2 DEF BuilderInv, Output, OutInv
    <3>2. NextFile(d) \in File /\ NextFile(d) # Registry("base")
      BY <2>1, <3>1, Tails, Shapes DEF NextFile, OutInv
    <3>3. CASE run[d].kind = "expansion"
      BY <1>3, <3>3 DEF OnDisk, TreeOf, NextFile
    <3>4. CASE run[d].kind # "expansion"
      <4>1. disk["project"][NextFile(d)] = HalfWritten
        BY <3>1, <3>4 DEF OnDisk, TreeOf
      <4>2. disk'["project"][NextFile(d)] = disk["project"][NextFile(d)]
        BY <1>1, <3>2, <4>1, Contained
      <4> QED
        BY <1>3, <3>4, <4>2 DEF OnDisk, TreeOf, NextFile
    <3> QED
      BY <3>3, <3>4
  <2>3. ASSUME Output(d), run[d].kind = "import", NEW g \in Elements(run[d].out)
        PROVE  disk'["project"][g] = disk["project"][g]
    <3>1. OutInv(d) /\ ImportInv(d)
      BY <2>1, <2>3 DEF BuilderInv
    <3>2. g \in ChallengeFile \/ g = Registry("wider")
      BY <2>3, <3>1 DEF OutInv
    <3>3. g \in File /\ g # Registry("base")
      BY <3>2, Shapes
    <3>4. g \notin {"private"} \X Title
      <4>1. CASE g \in ChallengeFile
        BY <2>3, <3>1, <4>1 DEF ImportInv
      <4>2. CASE g = Registry("wider")
        BY <4>2 DEF Registry
      <4> QED
        BY <3>2, <4>1, <4>2
    <3> QED
      BY <3>3, <3>4
  <2> QED
    BY <1>2, <1>3, <2>1, <2>2, <2>3, BystanderStep
<1> QED
  BY <1>2, <1>3

\* No file of a challenge changes.
LEMMA SamePairs ==
    ASSUME PairInv, \A f \in ChallengeFile : disk'["project"][f] = disk["project"][f]
    PROVE  PairInv'
BY Shapes DEF PairInv

\* WriteRegistry: all it names is written.
LEMMA WriteRegistryStep ==
    ASSUME CatalogTypeOK, CatalogOrder, NEW b \in Builder, WriteRegistry(b)
    PROVE  CatalogTypeOK' /\ CatalogOrder'
<1>1. /\ run[b].kind = "catalog" /\ run[b].stage = "writing" /\ run[b].out = <<>>
      /\ run' = [run EXCEPT ![b] = IdleRun]
      /\ UNCHANGED <<dataset, imported, instanceVars>>
  BY DEF WriteRegistry, MayName
<1> PICK names \in SUBSET Title : names = run[b].names
  BY RunTypes
<1>2. PutInto("project", Registry("base"), names)
  BY DEF WriteRegistry, PutInto
<1>3. Registry("base") \in File /\ Registry("base") \notin ChallengeFile /\ names \in Names
  BY Shapes DEF Names
<1>4. /\ disk' \in [{"project", "staging"} -> [File -> Text \cup SUBSET Title]]
      /\ \A t \in {"project", "staging"} :
            /\ \A g \in ChallengeFile : disk'[t][g] \in Text
            /\ \A name \in {"base", "wider"} : disk'[t][Registry(name)] \in Names
      /\ disk'["project"][Registry("base")] = names
      /\ \A t \in {"project", "staging"}, g \in File :
            t # "project" \/ g # Registry("base") => disk'[t][g] = disk[t][g]
  BY <1>2, <1>3, DiskPut
<1>5. run' \in [Builder -> Run] /\ run'[b] = IdleRun /\ \A d \in Builder \ {b} : run'[d] = run[d]
  BY <1>1, IdleTypes DEF CatalogTypeOK
<1>6. CatalogTypeOK'
  BY <1>1, <1>4, <1>5 DEF CatalogTypeOK, instanceVars
<1>7. disk'["staging"] = disk["staging"]
  BY <1>2 DEF PutInto, CatalogTypeOK
<1>8. WrittenStays /\ \A d \in Builder \ {b} : BuilderInv(d)'
  <2>1. \A f \in File : f # Registry("base") => disk'["project"][f] = disk["project"][f]
    BY <1>4
  <2>2. \A f \in {"private"} \X Title : disk'["project"][f] = disk["project"][f]
    BY <2>1, Shapes DEF ChallengeFile
  <2> QED
    BY <1>5, <1>7, <2>1, <2>2, FarStep
<1>9. BuilderInv(b)'
  BY <1>1, IdleStep
<1>10. RegistryInv'
  <2>1. CatalogInv(b)
    BY <1>1 DEF CatalogOrder, BuilderInv, Output
  <2>2. ASSUME NEW c \in names PROVE Loaded(c)'
    <3>1. \A f : ~Pending(b, f)
      BY <1>1 DEF Pending, Elements
    <3>2. Loaded(c)
      <4>1. CASE Loaded(c)
        BY <4>1
      <4>2. CASE ~Loaded(c)
        <5>1. run[b].made[c] \in Artifact /\ Kept(b, <<"public", c>>) /\ Kept(b, <<"contract", c>>)
          BY <2>1, <3>1, <4>2 DEF CatalogInv
        <5> QED
          BY <5>1, Contained DEF Kept, Result, Loaded
      <4> QED
        BY <4>1, <4>2
    <3> QED
      BY <1>8, <3>2, LoadedStays
  <2>3. ASSUME imported
        PROVE  /\ disk'["project"][Registry("wider")] \in SUBSET Title
               /\ \A c \in disk'["project"][Registry("wider")] : Loaded(c)'
    <3>1. /\ disk["project"][Registry("wider")] \in SUBSET Title
          /\ \A c \in disk["project"][Registry("wider")] : Loaded(c)
      BY <2>3 DEF CatalogOrder, RegistryInv
    <3>2. disk'["project"][Registry("wider")] = disk["project"][Registry("wider")]
      BY <1>4, Shapes
    <3> QED
      BY <1>8, <3>1, <3>2, LoadedStays
  <2>4. Elements(Planned) \subseteq names
    BY <2>1 DEF CatalogInv
  <2> QED
    BY <1>1, <1>4, <2>2, <2>3, <2>4 DEF RegistryInv
<1>11. PairInv' /\ InstanceInv'
  BY <1>1, <1>4, <1>8, Shapes, SamePairs, InstanceStays DEF CatalogOrder
<1>12. ApartInv'
  <2>1. IdleRun.kind = "idle" /\ IdleRun.stage = "idle"
    BY DEF IdleRun
  <2> QED
    BY <1>5, <2>1 DEF CatalogOrder, ApartInv, TreeOf, NextFile
<1> QED
  BY <1>6, <1>8, <1>9, <1>10, <1>11, <1>12 DEF CatalogOrder

\* PlacePrivate
LEMMA PlacePrivateStep ==
    ASSUME CatalogTypeOK, CatalogOrder, PlacePrivate
    PROVE  CatalogTypeOK' /\ CatalogOrder'
<1>0. PICK c \in Elements(Added) :
         LET private == disk["staging"][<<"private", c>>]
         IN  /\ Written(private)
             /\ disk["project"][<<"private", c>>] = Absent
             /\ disk["project"][<<"contract", c>>] = private
             /\ PutInto("project", <<"private", c>>, private)
  BY DEF PlacePrivate, PutInto
<1>1. PICK private :
          /\ private = disk["staging"][<<"private", c>>] /\ Written(private)
          /\ disk["project"][<<"private", c>>] = Absent
          /\ disk["project"][<<"contract", c>>] = private
          /\ PutInto("project", <<"private", c>>, private)
  BY <1>0
<1>2. UNCHANGED <<dataset, run, imported, instanceVars>>
  BY DEF PlacePrivate
<1>3. c \in Title /\ <<"private", c>> \in ChallengeFile /\ <<"private", c>> \in File
  BY Titles, Shapes
<1>4. private \in Text /\ private \in Artifact
  BY <1>1, <1>3, Contained DEF CatalogTypeOK
<1>5. /\ disk' \in [{"project", "staging"} -> [File -> Text \cup SUBSET Title]]
      /\ \A t \in {"project", "staging"} :
            /\ \A g \in ChallengeFile : disk'[t][g] \in Text
            /\ \A name \in {"base", "wider"} : disk'[t][Registry(name)] \in Names
      /\ disk'["project"][<<"private", c>>] = private
      /\ \A t \in {"project", "staging"}, g \in File :
            t # "project" \/ g # <<"private", c>> => disk'[t][g] = disk[t][g]
  BY <1>1, <1>3, <1>4, DiskPut
<1>6. CatalogTypeOK'
  BY <1>2, <1>5 DEF CatalogTypeOK, instanceVars
<1>7. disk'["staging"] = disk["staging"]
  BY <1>1 DEF PutInto, CatalogTypeOK
<1>8. WrittenStays /\ \A d \in Builder : BuilderInv(d)'
  <2>1. \A f \in File : f # Registry("base") /\ f \notin {"private"} \X Title =>
              disk'["project"][f] = disk["project"][f]
    BY <1>3, <1>5
  <2>2. \A f \in {"private"} \X Title : disk["project"][f] # Absent =>
              disk'["project"][f] = disk["project"][f]
    BY <1>1, <1>5, Shapes DEF ChallengeFile
  <2> QED
    BY <1>2, <1>7, <2>1, <2>2, FarStep
<1>9. RegistryInv' /\ InstanceInv'
  <2>1. disk'["project"][Registry("base")] = disk["project"][Registry("base")]
    BY <1>3, <1>5, Shapes
  <2> QED
    BY <1>2, <1>8, <2>1, RegistryStays, InstanceStays DEF CatalogOrder
<1>10. PairInv'
  <2> SUFFICES ASSUME NEW t \in Title, NEW kind \in {"private", "contract"},
                      disk'["project"][<<kind, t>>] # Absent
               PROVE  /\ Written(disk'["project"][<<"public", t>>])
                      /\ Written(disk'["project"][<<kind, t>>]) =>
                            disk'["project"][<<kind, t>>] = disk'["project"][<<"public", t>>]
    BY DEF PairInv
  <2>1. <<kind, t>> \in File /\ <<"public", t>> \in File /\ disk'["project"][<<"public", t>>] = disk["project"][<<"public", t>>]
    BY <1>5, Shapes
  <2>2. CASE <<kind, t>> = <<"private", c>>
    <3>1. /\ disk["project"][<<"contract", c>>] # Absent /\ Written(disk["project"][<<"contract", c>>])
          /\ t = c
      BY <1>1, <1>4, <2>2, Contained
    <3>2. /\ Written(disk["project"][<<"public", c>>])
          /\ disk["project"][<<"contract", c>>] = disk["project"][<<"public", c>>]
      BY <1>3, <3>1 DEF CatalogOrder, PairInv
    <3> QED
      BY <1>1, <1>5, <2>1, <2>2, <3>1, <3>2
  <2>3. CASE <<kind, t>> # <<"private", c>>
    <3>1. disk'["project"][<<kind, t>>] = disk["project"][<<kind, t>>]
      BY <1>5, <2>1, <2>3
    <3> QED
      BY <2>1, <3>1 DEF CatalogOrder, PairInv
  <2> QED
    BY <2>2, <2>3
<1>11. ApartInv'
  BY <1>2 DEF CatalogOrder, ApartInv, TreeOf, NextFile
<1> QED
  BY <1>6, <1>8, <1>9, <1>10, <1>11 DEF CatalogOrder

\* Only the staging directory changes.
LEMMA StagingStep ==
    ASSUME CatalogTypeOK, CatalogOrder, UNCHANGED <<imported, instanceVars>>,
           disk'["project"] = disk["project"]
    PROVE  /\ WrittenStays /\ RegistryInv' /\ PairInv' /\ InstanceInv'
           /\ \A d \in Builder : run'[d] = run[d] /\ run[d].kind # "expansion" => BuilderInv(d)'
<1>1. /\ WrittenStays
      /\ \A d \in Builder : run'[d] = run[d] /\ run[d].kind # "expansion" => BuilderInv(d)'
  BY FarStep
<1> QED
  BY <1>1, RegistryStays, SamePairs, InstanceStays DEF CatalogOrder

\* DiscardStaging
LEMMA DiscardStagingStep ==
    ASSUME CatalogTypeOK, CatalogOrder, DiscardStaging
    PROVE  CatalogTypeOK' /\ CatalogOrder'
<1>1. /\ ~Expanding /\ disk' = [disk EXCEPT !["staging"] = There]
      /\ UNCHANGED <<dataset, run, imported, instanceVars>>
  BY DEF DiscardStaging
<1>2. There \in [File -> Text \cup SUBSET Title] /\ \A f \in File : There[f] = Absent
  BY DEF There, Text
<1>3. /\ disk'["project"] = disk["project"] /\ disk'["staging"] = There
      /\ disk' \in [{"project", "staging"} -> [File -> Text \cup SUBSET Title]]
  BY <1>1, <1>2 DEF CatalogTypeOK
<1>4. CatalogTypeOK'
  <2>1. \A f \in File : There[f] \in Text /\ There[f] \in Names
    BY <1>2 DEF Text, Names
  <2> QED
    BY <1>1, <1>3, <2>1, Shapes DEF CatalogTypeOK, instanceVars
<1>5. \A d \in Builder : run[d].kind # "expansion"
  BY <1>1 DEF Expanding
<1>6. ApartInv'
  BY <1>1 DEF CatalogOrder, ApartInv, TreeOf, NextFile
<1> QED
  BY <1>1, <1>3, <1>4, <1>5, <1>6, StagingStep DEF CatalogOrder

\* PrepareExpansion
LEMMA PrepareExpansionStep ==
    ASSUME CatalogTypeOK, CatalogOrder, NEW b \in Builder, PrepareExpansion(b)
    PROVE  CatalogTypeOK' /\ CatalogOrder'
<1>1. run[b].kind = "expansion" /\ run[b].stage = "generated" /\ UNCHANGED <<dataset, imported, instanceVars>>
  BY DEF PrepareExpansion, Doing
<1> PICK tree : tree = [f \in File |-> IF f \in {"public", "contract"} \X run[b].names
                                       THEN disk["project"][f] ELSE Absent]
  OBVIOUS
<1>2. disk' = [disk EXCEPT !["staging"] = tree]
  BY DEF PrepareExpansion
<1>3. /\ disk'["project"] = disk["project"] /\ disk'["staging"] = tree
      /\ disk' \in [{"project", "staging"} -> [File -> Text \cup SUBSET Title]]
      /\ \A f \in ChallengeFile : tree[f] \in Text
      /\ \A name \in {"base", "wider"} : tree[Registry(name)] \in Names
  <2>1. \A f \in File : tree[f] \in Text \cup SUBSET Title
    BY DEF CatalogTypeOK, Text
  <2>2. tree \in [File -> Text \cup SUBSET Title]
    BY <2>1
  <2>3. \A f \in ChallengeFile : tree[f] \in Text
    BY Shapes DEF CatalogTypeOK, Text
  <2>4. \A name \in {"base", "wider"} : tree[Registry(name)] \in Names
    BY Shapes DEF Registry, Names
  <2> QED
    BY <1>2, <2>2, <2>3, <2>4 DEF CatalogTypeOK
<1> PICK kinds : kinds = <<"public", "private", "contract">>
  OBVIOUS
<1> PICK out : out = WiderFiles(Added, kinds)
  OBVIOUS
<1>4. /\ out \in Seq(File)
      /\ Elements(out) = {Registry("wider")} \cup (Elements(kinds) \X Elements(Added))
  BY Titles, WiderListed
<1>5. Elements(kinds) \subseteq {"public", "private", "contract"} /\ Elements(Added) \subseteq Title
  <2>1. \A i \in DOMAIN kinds : kinds[i] \in {"public", "private", "contract"}
    OBVIOUS
  <2> QED
    BY <2>1, Titles DEF Elements
<1> PICK names \in SUBSET Title : names = run[b].names \cup Elements(Added)
  BY <1>5, RunTypes
<1>6. Writing(b, names, out)
  BY Zenon DEF PrepareExpansion, WiderFiles
<1>7. PICK r \in Run :
          /\ run' = [run EXCEPT ![b] = r]
          /\ r.kind = run[b].kind /\ r.stage = "writing" /\ r.made = run[b].made
          /\ r.names = names /\ r.out = out
  BY <1>4, <1>6, WritingTypes
<1>8. run' \in [Builder -> Run] /\ run'[b] = r /\ \A d \in Builder \ {b} : run'[d] = run[d]
  BY <1>7 DEF CatalogTypeOK
<1>9. CatalogTypeOK'
  <2>1. \A t \in {"project", "staging"} :
           /\ \A f \in ChallengeFile : disk'[t][f] \in Text
           /\ \A name \in {"base", "wider"} : disk'[t][Registry(name)] \in Names
    BY <1>3 DEF CatalogTypeOK
  <2> QED
    BY <1>1, <1>3, <1>8, <2>1 DEF CatalogTypeOK, instanceVars
<1>10. /\ RegistryInv' /\ PairInv' /\ InstanceInv'
       /\ \A d \in Builder : run'[d] = run[d] /\ run[d].kind # "expansion" => BuilderInv(d)'
  BY <1>1, <1>3, StagingStep
<1>11. \A d \in Builder \ {b} : BuilderInv(d)'
  BY <1>1, <1>8, <1>10 DEF CatalogOrder, ApartInv
<1>12. BuilderInv(b)'
  <2>1. GenerationInv(b)'
    BY <1>1, <1>7, <1>8 DEF CatalogOrder, BuilderInv, GenerationInv, Generating
  <2>2. \A f \in Elements(out) : f \in ChallengeFile \/ f = Registry("wider")
    BY <1>4, <1>5 DEF ChallengeFile
  <2>3. OutInv(b)'
    BY <1>1, <1>7, <1>8, <2>2 DEF OutInv
  <2> QED
    BY <1>1, <1>7, <1>8, <2>1, <2>3 DEF BuilderInv
<1>13. ApartInv'
  <2> SUFFICES ASSUME NEW x \in Builder, NEW d \in Builder, x # d
               PROVE  /\ run'[x].kind \in {"expansion", "import"} => run'[d].kind \notin {"expansion", "import"}
                      /\ run'[x].stage = "filling" /\ run'[d].stage = "filling" /\ TreeOf(x)' = TreeOf(d)' =>
                            NextFile(x)' # NextFile(d)'
    BY DEF ApartInv
  <2>1. \A y \in Builder : run'[y].kind = run[y].kind
    BY <1>7, <1>8
  <2>2. ASSUME NEW y \in Builder, run'[y].stage = "filling"
        PROVE  run'[y] = run[y] /\ TreeOf(y)' = TreeOf(y) /\ NextFile(y)' = NextFile(y)
    <3>1. y # b
      BY <1>7, <1>8, <2>2
    <3> QED
      BY <1>8, <3>1 DEF TreeOf, NextFile
  <2> QED
    BY <2>1, <2>2 DEF CatalogOrder, ApartInv
<1> QED
  BY <1>9, <1>10, <1>11, <1>12, <1>13 DEF CatalogOrder

----------------------------------------------------------------------------
\* The dataset and the instance
LEMMA ReplaceDatasetStep ==
    ASSUME CatalogTypeOK, CatalogOrder, ReplaceDataset
    PROVE  CatalogTypeOK' /\ CatalogOrder'
<1>1. UNCHANGED <<disk, run, imported, instanceVars>> /\ dataset' \in 0 .. MaxReplacements
  BY CatalogAssumption DEF ReplaceDataset, CatalogTypeOK
<1>2. CatalogTypeOK'
  BY <1>1 DEF CatalogTypeOK, instanceVars
<1>3. RegistryInv' /\ PairInv' /\ InstanceInv'
  BY <1>1, SameRegistry, SamePairs DEF CatalogOrder, InstanceInv, instanceVars
<1>4. \A d \in Builder : BuilderInv(d)'
  BY <1>1, FarStep
<1>5. ApartInv'
  BY <1>1 DEF CatalogOrder, ApartInv, TreeOf, NextFile
<1> QED
  BY <1>2, <1>3, <1>4, <1>5 DEF CatalogOrder

\* The contracts that a ready registry names.
LEMMA HashesFound ==
    ASSUME CatalogTypeOK, NEW name \in {"base", "wider"}, Ready(name)
    PROVE  /\ Hashes(name) \in SUBSET Hash /\ Hashes(name) # NoMarker
           /\ \A hash \in Hashes(name) : disk["project"][<<"contract", hash[1]>>] = hash[2]
<1>1. Named("project", name) \in SUBSET Title
  BY Contained DEF Ready, Loads, Named, CatalogTypeOK
<1>2. ASSUME NEW c \in Named("project", name) PROVE disk["project"][<<"contract", c>>] \in Artifact
  <2>1. /\ Written(disk["project"][<<"public", c>>])
        /\ disk["project"][<<"contract", c>>] = disk["project"][<<"public", c>>]
    BY <1>2 DEF Ready, Loads, Describes, Named
  <2>2. disk["project"][<<"public", c>>] \in Text
    BY <1>1, Shapes DEF CatalogTypeOK
  <2> QED
    BY <2>1, <2>2, Contained
<1>3. ASSUME NEW hash \in Hashes(name)
      PROVE  hash \in Hash /\ disk["project"][<<"contract", hash[1]>>] = hash[2]
  <2>1. PICK c \in Named("project", name) : hash = <<c, disk["project"][<<"contract", c>>]>>
    BY Zenon DEF Hashes
  <2>2. hash[1] = c /\ hash[2] = disk["project"][<<"contract", c>>]
    BY <2>1
  <2> QED
    BY <1>1, <1>2, <2>1, <2>2 DEF Hash
<1>4. Hashes(name) \in SUBSET Hash
  BY <1>3
<1> QED
  BY <1>3, <1>4, CatalogAssumption DEF Hash

\* What an action of the instance has to show.
LEMMA InstanceStep ==
    ASSUME CatalogTypeOK, CatalogOrder, UNCHANGED buildVars, InstanceInv',
           contracts' \in {NoMarker} \cup SUBSET Hash, stored' \in SUBSET Hash,
           instance' \in [by : {"nobody", "app", "upgrade"}, new : SUBSET Hash, journaled : BOOLEAN]
    PROVE  CatalogTypeOK' /\ CatalogOrder'
<1>1. UNCHANGED <<dataset, disk, run, imported>>
  BY DEF buildVars
<1>2. CatalogTypeOK'
  BY <1>1 DEF CatalogTypeOK
<1>3. RegistryInv' /\ PairInv'
  BY <1>1, SameRegistry, SamePairs DEF CatalogOrder
<1>4. \A d \in Builder : BuilderInv(d)'
  BY <1>1, FarStep
<1>5. ApartInv'
  BY <1>1 DEF CatalogOrder, ApartInv, TreeOf, NextFile
<1> QED
  BY <1>2, <1>3, <1>4, <1>5 DEF CatalogOrder

\* StartInstance
LEMMA StartInstanceStep ==
    ASSUME CatalogTypeOK, CatalogOrder, NEW name \in {"base", "wider"}, StartInstance(name)
    PROVE  CatalogTypeOK' /\ CatalogOrder'
<1>1. /\ Ready(name) /\ (contracts = NoMarker \/ contracts = Hashes(name))
      /\ contracts' = Hashes(name) /\ instance' = [Vacant EXCEPT !.by = "app"]
      /\ UNCHANGED <<buildVars, journals, stored>>
  BY DEF StartInstance
<1>2. Ready(name)
  BY DEF StartInstance
<1>3. /\ Hashes(name) \in SUBSET Hash /\ Hashes(name) # NoMarker
      /\ \A hash \in Hashes(name) : disk["project"][<<"contract", hash[1]>>] = hash[2]
  BY <1>2, HashesFound
<1>4. /\ instance' \in [by : {"nobody", "app", "upgrade"}, new : SUBSET Hash, journaled : BOOLEAN]
      /\ instance'.by = "app" /\ instance'.journaled = FALSE
  BY <1>1 DEF Vacant
<1>5. stored' \subseteq contracts' /\ stored' \in SUBSET Hash
  BY <1>1 DEF CatalogOrder, InstanceInv, CatalogTypeOK
<1>6. InstanceInv'
  <2>1. disk' = disk
    BY <1>1 DEF buildVars
  <2> QED
    BY <1>1, <1>3, <1>4, <1>5, <2>1 DEF InstanceInv
<1> QED
  BY <1>1, <1>3, <1>4, <1>5, <1>6, InstanceStep

\* StoreSubmission
LEMMA StoreSubmissionStep ==
    ASSUME CatalogTypeOK, CatalogOrder, StoreSubmission
    PROVE  CatalogTypeOK' /\ CatalogOrder'
<1>1. PICK hash \in contracts : stored' = stored \cup {hash}
  BY DEF StoreSubmission
<1>2. instance.by = "app" /\ UNCHANGED <<buildVars, contracts, journals, instance>>
  BY DEF StoreSubmission
<1>3. InstanceInv /\ contracts # NoMarker
  BY <1>2 DEF CatalogOrder, InstanceInv, Vacant
<1>4. stored' \in SUBSET Hash /\ stored' \subseteq contracts
  BY <1>1, <1>3 DEF CatalogTypeOK, InstanceInv
<1>5. disk' = disk
  BY <1>2 DEF buildVars
<1>6. InstanceInv'
  BY <1>2, <1>3, <1>4, <1>5 DEF InstanceInv
<1> QED
  BY <1>2, <1>4, <1>6, InstanceStep DEF CatalogTypeOK

\* BeginUpgrade
LEMMA BeginUpgradeStep ==
    ASSUME CatalogTypeOK, CatalogOrder, NEW name \in {"base", "wider"}, BeginUpgrade(name)
    PROVE  CatalogTypeOK' /\ CatalogOrder'
<1>1. /\ contracts # NoMarker /\ Ready(name) /\ contracts \subseteq Hashes(name)
      /\ instance' = [by |-> "upgrade", new |-> Hashes(name), journaled |-> FALSE]
      /\ UNCHANGED <<buildVars, contracts, journals, stored>>
  BY DEF BeginUpgrade, Extends
<1>2. /\ Hashes(name) \in SUBSET Hash
      /\ \A hash \in Hashes(name) : disk["project"][<<"contract", hash[1]>>] = hash[2]
  BY <1>1, HashesFound
<1>3. /\ instance' \in [by : {"nobody", "app", "upgrade"}, new : SUBSET Hash, journaled : BOOLEAN]
      /\ instance'.new = Hashes(name) /\ instance'.journaled = FALSE
  BY <1>1, <1>2
<1>4. disk' = disk
  BY <1>1 DEF buildVars
<1>5. InstanceInv'
  BY <1>1, <1>2, <1>3, <1>4 DEF CatalogOrder, InstanceInv
<1> QED
  BY <1>1, <1>3, <1>5, InstanceStep DEF CatalogTypeOK

\* WriteJournal
LEMMA WriteJournalStep ==
    ASSUME CatalogTypeOK, CatalogOrder, WriteJournal
    PROVE  CatalogTypeOK' /\ CatalogOrder'
<1>1. /\ instance.by = "upgrade"
      /\ journals' = journals \cup {[before |-> contracts, after |-> instance.new]}
      /\ instance' = [instance EXCEPT !.journaled = TRUE]
      /\ UNCHANGED <<buildVars, contracts, stored>>
  BY DEF WriteJournal
<1>2. instance \in [by : {"nobody", "app", "upgrade"}, new : SUBSET Hash, journaled : BOOLEAN]
  BY DEF CatalogTypeOK
<1>3. /\ instance' \in [by : {"nobody", "app", "upgrade"}, new : SUBSET Hash, journaled : BOOLEAN]
      /\ instance'.by = "upgrade" /\ instance'.new = instance.new
  BY <1>1, <1>2
<1>4. disk' = disk
  BY <1>1 DEF buildVars
<1>5. InstanceInv /\ contracts # NoMarker
  BY <1>1 DEF CatalogOrder, InstanceInv, Vacant
<1>6. InstanceInv'
  BY <1>1, <1>3, <1>4, <1>5 DEF InstanceInv
<1> QED
  BY <1>1, <1>3, <1>6, InstanceStep DEF CatalogTypeOK

\* An instance nobody is at work on.
LEMMA VacantTypes ==
    /\ Vacant \in [by : {"nobody", "app", "upgrade"}, new : SUBSET Hash, journaled : BOOLEAN]
    /\ Vacant.by = "nobody" /\ Vacant.journaled = FALSE
BY DEF Vacant

\* ExtendMarker, LeaveInstance
LEMMA LeaveSteps ==
    ASSUME CatalogTypeOK, CatalogOrder, ExtendMarker \/ LeaveInstance
    PROVE  CatalogTypeOK' /\ CatalogOrder'
<1>1. instance' = Vacant /\ UNCHANGED <<buildVars, journals, stored>>
  BY DEF ExtendMarker, LeaveInstance
<1>2. disk' = disk
  BY <1>1 DEF buildVars
<1>3. InstanceInv
  BY DEF CatalogOrder
<1>4. contracts' = contracts \/ (instance.journaled /\ contracts' = instance.new)
  BY DEF ExtendMarker, LeaveInstance
<1>5. /\ contracts' \in {NoMarker} \cup SUBSET Hash
      /\ InstanceInv'
  <2>1. CASE contracts' = contracts
    BY <1>1, <1>2, <1>3, <2>1, VacantTypes DEF InstanceInv, CatalogTypeOK
  <2>2. CASE instance.journaled /\ contracts' = instance.new
    <3>1. /\ instance.by = "upgrade" /\ contracts # NoMarker
          /\ contracts \subseteq instance.new /\ stored \subseteq contracts
          /\ \A hash \in instance.new : disk["project"][<<"contract", hash[1]>>] = hash[2]
      BY <1>3, <2>2, VacantTypes DEF InstanceInv
    <3>2. instance.new \in SUBSET Hash /\ instance.new # NoMarker
      BY CatalogAssumption DEF CatalogTypeOK, Hash
    <3> QED
      BY <1>1, <1>2, <2>2, <3>1, <3>2, VacantTypes DEF InstanceInv
  <2> QED
    BY <1>4, <2>1, <2>2
<1> QED
  BY <1>1, <1>5, VacantTypes, InstanceStep DEF CatalogTypeOK

----------------------------------------------------------------------------
\* The invariant holds at first,
LEMMA CatalogInitially == CatalogInit => CatalogTypeOK /\ CatalogOrder
<1> SUFFICES ASSUME CatalogInit PROVE CatalogTypeOK /\ CatalogOrder
  OBVIOUS
<1> USE DEF CatalogInit
<1>1. \A tree \in {"project", "staging"}, f \in File : disk[tree][f] = Absent
  BY DEF There
<1>2. CatalogTypeOK
  <2>1. disk \in [{"project", "staging"} -> [File -> Text \cup SUBSET Title]]
    BY DEF There, Text
  <2>2. \A tree \in {"project", "staging"} :
          /\ \A f \in ChallengeFile : disk[tree][f] \in Text
          /\ \A name \in {"base", "wider"} : disk[tree][Registry(name)] \in Names
    BY <1>1, Shapes DEF Text, Names
  <2>3. dataset \in 0 .. MaxReplacements
    BY CatalogAssumption
  <2> QED
    BY <2>1, <2>2, <2>3, IdleTypes, VacantTypes DEF CatalogTypeOK
<1>3. \A b \in Builder : run[b].kind = "idle" /\ run[b].stage = "idle" /\ run[b].made = [c \in Title |-> Absent]
  BY DEF IdleRun
<1>4. \A b \in Builder : BuilderInv(b)
  BY <1>3, Contained DEF BuilderInv, GenerationInv, Generating, Output
<1>5. RegistryInv /\ PairInv
  BY <1>1, Shapes DEF RegistryInv, PairInv
<1>6. ApartInv
  BY <1>3 DEF ApartInv
<1>7. InstanceInv
  BY VacantTypes DEF InstanceInv
<1> QED
  BY <1>2, <1>4, <1>5, <1>6, <1>7 DEF CatalogOrder

\* and every step keeps it.
LEMMA CatalogStep == CatalogTypeOK /\ CatalogOrder /\ [CatalogNext]_catalogVars => (CatalogTypeOK /\ CatalogOrder)'
<1> SUFFICES ASSUME CatalogTypeOK, CatalogOrder, [CatalogNext]_catalogVars
             PROVE  CatalogTypeOK' /\ CatalogOrder'
  OBVIOUS
<1>1. CASE ReplaceDataset
  BY <1>1, ReplaceDatasetStep
<1>2. CASE PlacePrivate
  BY <1>2, PlacePrivateStep
<1>3. CASE DiscardStaging
  BY <1>3, DiscardStagingStep
<1>4. ASSUME NEW b \in Builder,
             \/ BeginCatalog(b) \/ BeginSingle(b) \/ BeginExpansion(b) \/ BeginImport(b)
             \/ Choose(b) \/ Generate(b)
             \/ PrepareCatalog(b) \/ PrepareSingle(b) \/ PrepareExpansion(b)
             \/ Create(b) \/ Fill(b) \/ Keep(b) \/ WriteRegistry(b) \/ EndRun(b) \/ StopRun(b)
      PROVE  CatalogTypeOK' /\ CatalogOrder'
  BY <1>4, BeginSteps, BeginImportStep, ChooseStep, GenerateStep, PrepareCatalogStep, PrepareSingleStep,
     PrepareExpansionStep, CreateStep, FillStep, KeepStep, WriteRegistryStep, EndSteps
<1>5. ASSUME NEW name \in {"base", "wider"}, StartInstance(name) \/ BeginUpgrade(name)
      PROVE  CatalogTypeOK' /\ CatalogOrder'
  BY <1>5, StartInstanceStep, BeginUpgradeStep
<1>6. CASE StoreSubmission
  BY <1>6, StoreSubmissionStep
<1>7. CASE WriteJournal
  BY <1>7, WriteJournalStep
<1>8. CASE ExtendMarker \/ LeaveInstance
  BY <1>8, LeaveSteps
<1>9. CASE UNCHANGED catalogVars
  <2>1. UNCHANGED buildVars /\ UNCHANGED <<contracts, stored, instance, disk, journals>>
    BY <1>9 DEF catalogVars, buildVars
  <2>2. InstanceInv'
    BY <2>1 DEF CatalogOrder, InstanceInv
  <2> QED
    BY <2>1, <2>2, InstanceStep DEF CatalogTypeOK
<1> QED
  BY <1>1, <1>2, <1>3, <1>4, <1>5, <1>6, <1>7, <1>8, <1>9 DEF CatalogNext

\* The files and what the builders and the instance hold of them keep their types.
THEOREM CatalogTypes == CatalogSpec => []CatalogTypeOK
<1>1. CatalogInit => CatalogTypeOK /\ CatalogOrder
  BY CatalogInitially
<1>2. CatalogTypeOK /\ CatalogOrder /\ [CatalogNext]_catalogVars => (CatalogTypeOK /\ CatalogOrder)'
  BY CatalogStep
<1> QED
  BY <1>1, <1>2, PTL DEF CatalogSpec

\* Whatever names the challenges in service can be loaded, with any number of
\* builders, and whichever of them die (_write_new_file, _write_registry,
\* import_foundation_catalog.py).
THEOREM CatalogsAlwaysLoad == CatalogSpec => []CatalogsLoad
<1>1. CatalogInit => CatalogTypeOK /\ CatalogOrder
  BY CatalogInitially
<1>2. CatalogTypeOK /\ CatalogOrder /\ [CatalogNext]_catalogVars => (CatalogTypeOK /\ CatalogOrder)'
  BY CatalogStep
<1>3. CatalogTypeOK /\ CatalogOrder => CatalogsLoad
  BY Contained DEF CatalogOrder, RegistryInv, Loaded, CatalogsLoad, Loads, Describes
<1> QED
  BY <1>1, <1>2, <1>3, PTL DEF CatalogSpec

\* A public description and a private manifest are of one build.
THEOREM PairsAlwaysMatch == CatalogSpec => []PairsMatch
<1>1. CatalogInit => CatalogTypeOK /\ CatalogOrder
  BY CatalogInitially
<1>2. CatalogTypeOK /\ CatalogOrder /\ [CatalogNext]_catalogVars => (CatalogTypeOK /\ CatalogOrder)'
  BY CatalogStep
<1>3. CatalogTypeOK /\ CatalogOrder => PairsMatch
  BY DEF CatalogOrder, PairInv, PairsMatch, Written
<1> QED
  BY <1>1, <1>2, <1>3, PTL DEF CatalogSpec

\* The marker of an instance only grows, with a journal of each change, and the
\* contracts it is bound to stay what they were (registry_extension.py).
THEOREM ContractsAreKept == CatalogSpec => InstanceKeepsContracts
<1> DEFINE Bound == contracts # NoMarker =>
                       /\ stored \subseteq contracts
                       /\ \A hash \in contracts : disk["project"][<<"contract", hash[1]>>] = hash[2]
           Grows == contracts # NoMarker /\ contracts' # contracts =>
                       /\ contracts \subseteq contracts'
                       /\ [before |-> contracts, after |-> contracts'] \in journals
<1>1. CatalogInit => CatalogTypeOK /\ CatalogOrder
  BY CatalogInitially
<1>2. CatalogTypeOK /\ CatalogOrder /\ [CatalogNext]_catalogVars => (CatalogTypeOK /\ CatalogOrder)'
  BY CatalogStep
<1>3. CatalogTypeOK /\ CatalogOrder => Bound
  BY DEF CatalogOrder, InstanceInv
<1>4. CatalogTypeOK /\ CatalogOrder /\ [CatalogNext]_catalogVars => [Grows]_catalogVars
  <2> SUFFICES ASSUME CatalogTypeOK, CatalogOrder, CatalogNext, contracts # NoMarker, contracts' # contracts
               PROVE  /\ contracts \subseteq contracts'
                      /\ [before |-> contracts, after |-> contracts'] \in journals
    OBVIOUS
  <2>1. InstanceInv
    BY DEF CatalogOrder
  <2>2. ExtendMarker
    BY DEF CatalogNext, ReplaceDataset, PlacePrivate, DiscardStaging, BeginCatalog, BeginSingle, BeginExpansion,
           BeginRun, BeginImport, Choose, Generate, PrepareCatalog, PrepareSingle, PrepareExpansion, Create, Fill,
           Keep, WriteRegistry, EndRun, StopRun, StartInstance, BeginUpgrade, StoreSubmission, WriteJournal,
           LeaveInstance, instanceVars
  <2> QED
    BY <2>1, <2>2 DEF ExtendMarker, InstanceInv
<1> QED
  BY <1>1, <1>2, <1>3, <1>4, PTL DEF CatalogSpec, InstanceKeepsContracts
=============================================================================
