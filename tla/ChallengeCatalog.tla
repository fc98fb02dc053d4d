-------------------------- MODULE ChallengeCatalog --------------------------
(***************************************************************************)
(* How challenges come into being and into service (challenge.py,           *)
(* build_v1_challenge_catalog.py, build_foundation_catalog.py,              *)
(* import_foundation_catalog.py, challenge_registry.py,                     *)
(* registry_extension.py).                                                  *)
(*                                                                         *)
(* A builder selects samples from the dataset file and then hashes it; the  *)
(* file may be replaced in between.  What it made goes into three files per *)
(* challenge, which are created once and never replaced, but written in two *)
(* steps: a builder that dies leaves a torn file.  The V1 build has a lock  *)
(* and replaces the registry that names its challenges as a whole; a single *)
(* challenge is built without the lock.  An expansion is built in a staging *)
(* directory and imported file by file, its registry first.  A running      *)
(* instance is bound to the contracts in its marker, which only an offline  *)
(* upgrade extends, once its operator has approved the marker and every     *)
(* submission has ended; that is no state here: it may refuse at any time.  *)
(*                                                                         *)
(* A file's contents are where they come from: the dataset that was         *)
(* selected from and the one that was hashed.  Refusals are a stop; the     *)
(* checks of what the model has only one of (paths, metrics, versions,      *)
(* models, languages) are left out, as is power loss.  One operator builds  *)
(* and imports expansions, with one tool at a time, and builds no single    *)
(* challenge of an expansion.                                               *)
(***************************************************************************)
EXTENDS Naturals, Sequences, FiniteSets

CONSTANTS
    NoDataset,
    Planned, Added,            \* the challenges of V1 and of the expansion, in order
    Builder, NoBuilder,        \* processes that build or import
    Absent, HalfWritten, NoMarker,   \* no file, a torn one, no instance yet
    MaxReplacements, MaxStored \* bounds for model checking

Order == Planned \o Added
Elements(s) == {s[i] : i \in DOMAIN s}
Title == Elements(Order)

\* What can be in the file of a challenge, once it is written.
Artifact == [chosen : 0 .. MaxReplacements, named : 0 .. MaxReplacements]

\* Nothing that is written looks like a file that is not there or is torn.
ASSUME CatalogAssumption ==
    /\ MaxReplacements \in Nat /\ MaxStored \in Nat
    /\ Planned \in Seq(Elements(Planned)) /\ Added \in Seq(Elements(Added))
    /\ Planned # <<>> /\ Added # <<>> /\ Elements(Planned) \cap Elements(Added) = {}
    /\ Absent # HalfWritten
    /\ \A artifact \in Artifact : artifact # Absent /\ artifact # HalfWritten
    /\ \A titles \in SUBSET Title : titles # Absent /\ titles # HalfWritten
    /\ \A hashes \in SUBSET (Title \X Artifact) : hashes # NoMarker

VARIABLES
    dataset,    \* the contents of the dataset file, numbered
    disk,       \* the files of the project and of the staging directory
    lock,       \* who has .v1-catalog.lock
    run,        \* what each builder does
    imported,   \* whether an import came to its end
    contracts,  \* the contracts in instance.json
    journals,   \* registry-upgrades
    stored,     \* the contracts of the instance's submissions
    instance    \* who has the lock of the instance, and what for

catalogVars == <<dataset, disk, lock, run, imported, contracts, journals,
                 stored, instance>>
buildVars == <<dataset, disk, lock, run, imported>>
instanceVars == <<contracts, journals, stored, instance>>

Registry(name) == <<"registry", name>>
File == ({"public", "private", "contract"} \X Title)
        \cup {Registry("base"), Registry("wider")}
There == [f \in File |-> Absent]

IdleRun == [kind |-> "idle", stage |-> "idle", plan |-> <<>>, chosen |-> NoDataset,
            made |-> [c \in Title |-> Absent], names |-> {}, out |-> <<>>]

Vacant == [by |-> "nobody", new |-> {}, journaled |-> FALSE]

CatalogInit ==
    /\ dataset = 0
    /\ disk = [tree \in {"project", "staging"} |-> There]
    /\ lock = NoBuilder
    /\ run = [b \in Builder |-> IdleRun]
    /\ imported = FALSE
    /\ contracts = NoMarker /\ journals = {} /\ stored = {}
    /\ instance = Vacant

\* build_standard_dataset writes the file anew.
ReplaceDataset ==
    /\ dataset < MaxReplacements
    /\ dataset' = dataset + 1
    /\ UNCHANGED <<disk, lock, run, imported, instanceVars>>

----------------------------------------------------------------------------
\* load_challenge_contract_registry: a registry and all it names.

Written(contents) == contents \notin {Absent, HalfWritten}

\* validate_contract_matches_public
Describes(contract, public) == contract = public

Loads(tree, name) ==
    /\ Written(disk[tree][Registry(name)])
    /\ \A c \in disk[tree][Registry(name)] :
          /\ Written(disk[tree][<<"public", c>>])
          /\ Describes(disk[tree][<<"contract", c>>], disk[tree][<<"public", c>>])

Named(tree, name) == disk[tree][Registry(name)]

\* The files of the challenges of a sequence, each of the kinds in order.
FilesOf(challenges, kinds) ==
    [i \in 1 .. Len(challenges) * Len(kinds) |->
        <<kinds[((i - 1) % Len(kinds)) + 1], challenges[((i - 1) \div Len(kinds)) + 1]>>]

----------------------------------------------------------------------------
\* Generation

Doing(b, kind, stage) == run[b].kind = kind /\ run[b].stage = stage

Expanding == \E b \in Builder : run[b].kind \in {"expansion", "import"}

BeginRun(b, kind, plan, names) ==
    /\ run[b] = IdleRun
    /\ run' = [run EXCEPT ![b] = [IdleRun EXCEPT !.kind = kind, !.stage = "choosing",
                                                 !.plan = plan, !.names = names]]
    /\ UNCHANGED <<dataset, disk, imported, instanceVars>>

\* build_v1_catalog, under _catalog_lock
BeginCatalog(b) ==
    /\ lock = NoBuilder
    /\ lock' = b
    /\ BeginRun(b, "catalog", Planned, {})

\* challenge.py
BeginSingle(b) ==
    /\ \E c \in Elements(Planned) : BeginRun(b, "single", <<c>>, {})
    /\ UNCHANGED lock

\* build_foundation_catalog.py and build_xpos_catalog.py
BeginExpansion(b) ==
    /\ ~Expanding
    /\ disk["staging"] = There
    /\ Loads("project", "base")
    /\ BeginRun(b, "expansion", Added, Named("project", "base"))
    /\ UNCHANGED lock

\* _select_samples
Choose(b) ==
    /\ run[b].stage = "choosing"
    /\ run' = [run EXCEPT ![b] = [@ EXCEPT !.chosen = dataset, !.stage = "hashing"]]
    /\ UNCHANGED <<dataset, disk, lock, imported, instanceVars>>

Agrees(file, contents) == disk["project"][file] \in {Absent, contents}

\* build_challenge, when it hashes the file
Artifacts(b) == [chosen |-> run[b].chosen, named |-> dataset]

\* What was made of the first challenge of the plan is kept, and the next is chosen for.
AppendMade(b, artifacts) ==
    LET r == run[b] IN
    run' = [run EXCEPT ![b] =
              [r EXCEPT !.made = [r.made EXCEPT ![Head(r.plan)] = artifacts],
                        !.plan = Tail(r.plan),
                        !.chosen = NoDataset,
                        !.stage = IF Len(r.plan) = 1 THEN "generated" ELSE "choosing"]]

\* The V1 build looks at the challenge's files at once.
Generate(b) ==
    /\ run[b].stage = "hashing"
    /\ run[b].kind = "catalog" =>
          \A kind \in {"public", "private", "contract"} :
             Agrees(<<kind, Head(run[b].plan)>>, Artifacts(b))
    /\ AppendMade(b, Artifacts(b))
    /\ UNCHANGED <<dataset, disk, lock, imported, instanceVars>>

Writing(b, names, out) ==
    run' = [run EXCEPT ![b] = [@ EXCEPT !.stage = "writing", !.names = names, !.out = out]]

\* _build_v1_catalog adds its challenges to the registry it finds.
PrepareCatalog(b) ==
    /\ Doing(b, "catalog", "generated")
    /\ disk["project"][Registry("base")] # Absent => Loads("project", "base")
    /\ LET old == IF disk["project"][Registry("base")] = Absent THEN {}
                  ELSE Named("project", "base")
       IN  Writing(b, old \cup Elements(Planned),
                   FilesOf(Planned, <<"public", "private", "contract">>))
    /\ UNCHANGED <<dataset, disk, lock, imported, instanceVars>>

\* write_challenge validates against the dataset again and checks both files.
PrepareSingle(b) ==
    /\ Doing(b, "single", "generated")
    /\ \E c \in Title :
          /\ run[b].made[c] # Absent
          /\ run[b].made[c].named = dataset
          /\ Agrees(<<"public", c>>, run[b].made[c]) /\ Agrees(<<"private", c>>, run[b].made[c])
          /\ Writing(b, {}, FilesOf(<<c>>, <<"public", "private">>))
    /\ UNCHANGED <<dataset, disk, lock, imported, instanceVars>>

\* The old files are copied; the registry is the first of the new ones.
PrepareExpansion(b) ==
    /\ Doing(b, "expansion", "generated")
    /\ disk' = [disk EXCEPT !["staging"] =
                   [f \in File |-> IF f \in {"public", "contract"} \X run[b].names
                                   THEN disk["project"][f] ELSE Absent]]
    /\ Writing(b, run[b].names \cup Elements(Added),
               <<Registry("wider")>> \o FilesOf(Added, <<"public", "private", "contract">>))
    /\ UNCHANGED <<dataset, lock, imported, instanceVars>>

\* import_foundation_catalog.py, up to its first file: those of the registry's
\* entries, as they are listed.
BeginImport(b) ==
    /\ run[b] = IdleRun /\ ~Expanding
    /\ Loads("project", "base") /\ Loads("staging", "wider")
    /\ \A c \in Named("project", "base") :
          /\ c \in Named("staging", "wider")
          /\ disk["staging"][<<"contract", c>>] = disk["project"][<<"contract", c>>]
    /\ \E entries \in {Planned, Order} :
          LET out == <<Registry("wider")>> \o FilesOf(entries, <<"public", "contract">>) IN
          /\ Elements(entries) = Named("staging", "wider")
          /\ \A f \in Elements(out) : Agrees(f, disk["staging"][f])
          /\ run' = [run EXCEPT ![b] =
                       [IdleRun EXCEPT !.kind = "import", !.stage = "writing", !.out = out,
                                       !.names = Elements(entries),
                                       !.made = [c \in Title |-> disk["staging"][<<"public", c>>]]]]
    /\ UNCHANGED <<dataset, disk, lock, imported, instanceVars>>

----------------------------------------------------------------------------
\* The files

TreeOf(b) == IF run[b].kind = "expansion" THEN "staging" ELSE "project"
NextFile(b) == Head(run[b].out)
OnDisk(b) == disk[TreeOf(b)][NextFile(b)]
Contents(b) ==
    IF NextFile(b)[1] = "registry" THEN run[b].names ELSE run[b].made[NextFile(b)[2]]

PutFile(b, contents) == disk' = [disk EXCEPT ![TreeOf(b)][NextFile(b)] = contents]

\* Mutant: the file is opened for writing whether it is there or not.
CreateAnew(b) ==
    /\ run[b].stage = "writing" /\ run[b].out # <<>>
    /\ PutFile(b, HalfWritten)
    /\ run' = [run EXCEPT ![b].stage = "filling"]
    /\ UNCHANGED <<dataset, lock, imported, instanceVars>>

\* The file is created if it is not there, and then written.
Create(b) ==
    /\ run[b].stage = "writing" /\ run[b].out # <<>>
    /\ OnDisk(b) = Absent
    /\ PutFile(b, HalfWritten)
    /\ run' = [run EXCEPT ![b].stage = "filling"]
    /\ UNCHANGED <<dataset, lock, imported, instanceVars>>

Fill(b) ==
    /\ run[b].stage = "filling"
    /\ PutFile(b, Contents(b))
    /\ run' = [run EXCEPT ![b] = [@ EXCEPT !.stage = "writing", !.out = Tail(run[b].out)]]
    /\ UNCHANGED <<dataset, lock, imported, instanceVars>>

\* Mutant: a file that is there is left as it is, whatever it holds.
PassesAny(b) == run[b].kind # "expansion"

\* A file that is there must hold what would be written; the import looked before.
Passes(b) ==
    \/ run[b].kind \in {"catalog", "single"} /\ OnDisk(b) = Contents(b)
    \/ run[b].kind = "import"

Keep(b) ==
    /\ run[b].stage = "writing" /\ run[b].out # <<>>
    /\ OnDisk(b) # Absent
    /\ Passes(b)
    /\ run' = [run EXCEPT ![b].out = Tail(run[b].out)]
    /\ UNCHANGED <<dataset, disk, lock, imported, instanceVars>>

Released(b) == IF lock = b THEN NoBuilder ELSE lock

\* Mutant: the registry is replaced as soon as it is known.
NamesEarly(b) == run[b].stage = "writing"

\* _write_registry: when all it names is written.
MayName(b) == run[b].stage = "writing" /\ run[b].out = <<>>

WriteRegistry(b) ==
    /\ run[b].kind = "catalog"
    /\ MayName(b)
    /\ disk' = [disk EXCEPT !["project"][Registry("base")] = run[b].names]
    /\ run' = [run EXCEPT ![b] = IdleRun]
    /\ lock' = Released(b)
    /\ UNCHANGED <<dataset, imported, instanceVars>>

EndRun(b) ==
    /\ run[b].kind \in {"single", "expansion", "import"}
    /\ run[b].stage = "writing" /\ run[b].out = <<>>
    /\ imported' = (imported \/ run[b].kind = "import")
    /\ run' = [run EXCEPT ![b] = IdleRun]
    /\ UNCHANGED <<dataset, disk, lock, instanceVars>>

\* A builder refuses, or dies; the lock goes with it.
StopRun(b) ==
    /\ run[b] # IdleRun
    /\ run' = [run EXCEPT ![b] = IdleRun]
    /\ lock' = Released(b)
    /\ UNCHANGED <<dataset, disk, imported, instanceVars>>

\* The operator puts the private manifests of what was imported into place.
PlacePrivate ==
    /\ \E c \in Elements(Added) :
          LET private == disk["staging"][<<"private", c>>]
          IN  /\ Written(private)
              /\ disk["project"][<<"private", c>>] = Absent
              /\ disk["project"][<<"contract", c>>] = private
              /\ disk' = [disk EXCEPT !["project"][<<"private", c>>] = private]
    /\ UNCHANGED <<dataset, lock, run, imported, instanceVars>>

\* The operator removes a staging directory.
DiscardStaging ==
    /\ ~Expanding
    /\ disk["staging"] # There
    /\ disk' = [disk EXCEPT !["staging"] = There]
    /\ UNCHANGED <<dataset, lock, run, imported, instanceVars>>

----------------------------------------------------------------------------
\* An instance of the workbench and its marker

Hashes(name) == {<<c, disk["project"][<<"contract", c>>]>> : c \in Named("project", name)}

\* load_development_catalog: the private files and the dataset belong to it.
Ready(name) ==
    /\ Loads("project", name)
    /\ \A c \in Named("project", name) :
          LET public == disk["project"][<<"public", c>>]
          IN  disk["project"][<<"private", c>>] = public /\ public.named = dataset

\* prepare_store, of a new instance or of one with the same contracts.
StartInstance(name) ==
    /\ instance = Vacant
    /\ Ready(name)
    /\ contracts = NoMarker \/ contracts = Hashes(name)
    /\ contracts' = Hashes(name)
    /\ instance' = [Vacant EXCEPT !.by = "app"]
    /\ UNCHANGED <<buildVars, journals, stored>>

StoreSubmission ==
    /\ instance.by = "app"
    /\ Cardinality(stored) < MaxStored
    /\ \E hash \in contracts : stored' = stored \cup {hash}
    /\ UNCHANGED <<buildVars, contracts, journals, instance>>

\* validate_extension
Extends(old, new) == old \subseteq new /\ new # old

\* extend_qwen_registry.py, up to extend_marker: for the marker its operator approved,
\* when every submission has ended, which is always possible.
BeginUpgrade(name) ==
    /\ instance = Vacant
    /\ contracts # NoMarker
    /\ Ready(name)
    /\ Extends(contracts, Hashes(name))
    /\ stored \subseteq Hashes(name)
    /\ instance' = [by |-> "upgrade", new |-> Hashes(name), journaled |-> FALSE]
    /\ UNCHANGED <<buildVars, contracts, journals, stored>>

WriteJournal ==
    /\ instance.by = "upgrade" /\ ~instance.journaled
    /\ journals' = journals \cup {[before |-> contracts, after |-> instance.new]}
    /\ instance' = [instance EXCEPT !.journaled = TRUE]
    /\ UNCHANGED <<buildVars, contracts, stored>>

ExtendMarker ==
    /\ instance.journaled
    /\ contracts' = instance.new
    /\ instance' = Vacant
    /\ UNCHANGED <<buildVars, journals, stored>>

\* The application or the upgrade ends, anywhere.
LeaveInstance ==
    /\ instance # Vacant
    /\ instance' = Vacant
    /\ UNCHANGED <<buildVars, contracts, journals, stored>>

CatalogNext ==
    \/ ReplaceDataset \/ PlacePrivate \/ DiscardStaging
    \/ \E b \in Builder :
          \/ BeginCatalog(b) \/ BeginSingle(b) \/ BeginExpansion(b) \/ BeginImport(b)
          \/ Choose(b) \/ Generate(b)
          \/ PrepareCatalog(b) \/ PrepareSingle(b) \/ PrepareExpansion(b)
          \/ Create(b) \/ Fill(b) \/ Keep(b) \/ WriteRegistry(b) \/ EndRun(b) \/ StopRun(b)
    \/ \E name \in {"base", "wider"} : StartInstance(name) \/ BeginUpgrade(name)
    \/ StoreSubmission \/ WriteJournal \/ ExtendMarker \/ LeaveInstance

CatalogSpec == CatalogInit /\ [][CatalogNext]_catalogVars

----------------------------------------------------------------------------
\* The registry of V1 can be loaded from the moment it is there, and so can that
\* of an expansion once its import has ended, whatever died halfway and whoever
\* built the same challenges without the lock.
CatalogsLoad ==
    /\ disk["project"][Registry("base")] # Absent => Loads("project", "base")
    /\ imported => Loads("project", "wider")

\* A public description and a private manifest that are both written are of one
\* build, though they are written one after the other and several builders with
\* different datasets may be at work.
PairsMatch ==
    \A c \in Title :
        LET public == disk["project"][<<"public", c>>]
            private == disk["project"][<<"private", c>>]
        IN  Written(public) /\ Written(private) => public = private

\* An instance keeps every contract it has accepted submissions under: its
\* marker only ever grows, each time with a journal of exactly that change, and
\* the files of the contracts in it stay what they were, whoever builds.
InstanceKeepsContracts ==
    /\ [](contracts # NoMarker =>
             /\ stored \subseteq contracts
             /\ \A hash \in contracts : disk["project"][<<"contract", hash[1]>>] = hash[2])
    /\ [][contracts # NoMarker /\ contracts' # contracts =>
             /\ contracts \subseteq contracts'
             /\ [before |-> contracts, after |-> contracts'] \in journals]_catalogVars
=============================================================================
