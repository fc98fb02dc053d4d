-------------------------- MODULE ChallengeSamples --------------------------
(***************************************************************************)
(* From the lines of a dataset to what a challenge asks: the choice of a    *)
(* treebank and of samples, the check of gold annotations, the manifest,    *)
(* and the inputs that go to the model (challenge.py, model_inputs.py,      *)
(* runner.py).                                                              *)
(*                                                                         *)
(* A sample has an id, a language, a treebank, a text, the answers to its   *)
(* tasks, and the tasks it declares.  Ids and treebanks are numbers in      *)
(* their order as names; tokens and texts are sequences of characters.      *)
(***************************************************************************)
EXTENDS Answers

CONSTANTS
    Underscore,    \* the character of the placeholder "_"
    Root           \* the form of the head of a root

TokensOf(sample) == sample.answers["segmentation"]

----------------------------------------------------------------------------
\* validated_gold_item_count

ProperTokens(tokens) ==
    /\ tokens # <<>>
    /\ \A i \in DOMAIN tokens : tokens[i] \notin {<<>>, <<Underscore>>}

ProperArc(arc, tokens) ==
    /\ arc.token \in DOMAIN tokens
    /\ arc.head \in {0} \cup DOMAIN tokens
    /\ arc.deprel # Empty
    /\ arc.form = tokens[arc.token]
    /\ arc.headForm = IF arc.head = 0 THEN Root ELSE tokens[arc.head]

ValidGold(sample, task) ==
    LET tokens == TokensOf(sample)
        gold == sample.answers[task]
    IN  /\ ProperTokens(tokens)
        /\ Len(gold) = Len(tokens)
        /\ CASE task = "segmentation" -> TRUE
             [] task = "dependency" ->
                   /\ \A i \in DOMAIN gold : ProperArc(gold[i], tokens)
                   /\ \A i, j \in DOMAIN gold : gold[i].token = gold[j].token => i = j
             [] task = "upos" -> Range(gold) \subseteq UposTags
             [] OTHER -> \A i \in DOMAIN gold : gold[i] \notin {Empty, Underscore}

\* _score_parsed_response: of the five fields of an arc three are compared.
GoldOfSample(sample, task) ==
    LET gold == sample.answers[task]
    IN  IF task = "dependency"
        THEN [i \in DOMAIN gold |-> [token |-> gold[i].token, head |-> gold[i].head,
                                     deprel |-> gold[i].deprel]]
        ELSE gold

----------------------------------------------------------------------------
\* build_model_input and response_expectations: nothing but text and tokens
\* goes out, and what is expected is told by what went out.

InputOf(sample, task) ==
    CASE task = "segmentation" -> [text |-> Surface(TokensOf(sample))]
      [] task = "dependency" ->
            [tokens |-> [i \in DOMAIN TokensOf(sample) |-> [id |-> i, form |-> TokensOf(sample)[i]]]]
      [] task = "transliteration" -> [text |-> sample.text, tokens |-> TokensOf(sample)]
      [] OTHER -> [tokens |-> TokensOf(sample)]

\* The strict input models.
Acceptable(input) == "text" \in DOMAIN input => input.text # <<>>

Expected(input) == IF "tokens" \in DOMAIN input THEN Len(input.tokens) ELSE 0

\* canonicalize_model_input: a copy may carry fields no input model has.
InputFields(task) ==
    CASE task = "segmentation" -> {"text"}
      [] task = "transliteration" -> {"text", "tokens"}
      [] OTHER -> {"tokens"}

Rebuilt(task, input) == Restrict(input, InputFields(task))

ModelRequest(challenge, prompt, input) ==
    [task |-> challenge.task, language |-> challenge.language, treebank |-> challenge.treebank,
     prompt |-> prompt, input |-> Rebuilt(challenge.task, input)]

\* PromptEnvelope: what the service is sent, but for the platform's own settings.
\* The required structure follows from the task and what is expected.
Envelope(request) == request @@ [expected |-> Expected(request.input)]

----------------------------------------------------------------------------
\* _select_samples: a reservoir over the stream of matching samples, where
\* draws[n] is randrange(n).

Matching(dataset, challenge) ==
    SelectSeq(dataset, LAMBDA s : /\ s.language = challenge.language
                                  /\ s.treebank = challenge.treebank
                                  /\ challenge.task \in s.tasks)

Reservoir(samples, count, draws) ==
    LET after[n \in 0 .. Len(samples)] ==
            IF n = 0 THEN <<>>
            ELSE IF n <= count THEN Append(after[n - 1], samples[n])
            ELSE IF draws[n] < count THEN [after[n - 1] EXCEPT ![draws[n] + 1] = samples[n]]
            ELSE after[n - 1]
    IN  after[Len(samples)]

Distinct(samples) == \A i, j \in DOMAIN samples : samples[i].id = samples[j].id => i = j

\* make_challenge_id, of names that stay apart as slugs.
IdOf(challenge) == <<challenge.language, challenge.treebank, challenge.task, challenge.version>>

\* The two documents of a challenge.  A hash is what it is the hash of.
Public(challenge, dataset, samples) ==
    challenge @@ [challenge_id |-> IdOf(challenge), dataset |-> dataset, selection |-> samples]

Private(challenge, dataset, samples) ==
    [challenge_id |-> IdOf(challenge), version |-> challenge.version, task |-> challenge.task,
     dataset |-> dataset, selection |-> samples, samples |-> samples]

Shared == {"challenge_id", "version", "task", "dataset", "selection"}

\* validate_challenge_artifacts, with which every pair is made or loaded.
ValidArtifacts(public, private, dataset) ==
    LET samples == private.samples
    IN  /\ public.count > 0
        /\ public.challenge_id = IdOf(public)
        /\ \A field \in Shared : public[field] = private[field]
        /\ samples # <<>>
        /\ \A i, j \in DOMAIN samples : i < j => samples[i].id < samples[j].id
        /\ public.count = Len(samples)
        /\ private.selection = samples
        /\ public.dataset = dataset

Failed(error) == [error |-> error]

\* build_challenge
Built(dataset, challenge, draws) ==
    LET matching == Matching(dataset, challenge)
        chosen == SortSeq(Reservoir(matching, challenge.count, draws), LAMBDA r, s : r.id < s.id)
    IN  IF ~Distinct(matching) THEN Failed("DUPLICATE_SAMPLE_ID")
        ELSE IF Len(matching) < challenge.count THEN Failed("INSUFFICIENT_SAMPLES")
        ELSE IF \E i \in DOMAIN chosen : ~ValidGold(chosen[i], challenge.task)
             THEN Failed("INVALID_GOLD_ANSWER")
        ELSE LET samples == [i \in DOMAIN chosen |->
                               [id |-> chosen[i].id,
                                gold |-> Len(chosen[i].answers[challenge.task])]]
             IN  [error |-> "OK", public |-> Public(challenge, dataset, samples),
                  private |-> Private(challenge, dataset, samples)]

\* select_largest_eligible_treebank
PoolSize(dataset, task, treebank) ==
    Cardinality({i \in DOMAIN dataset : dataset[i].treebank = treebank /\ task \in dataset[i].tasks})

LargestPool(dataset, language, task, count) ==
    LET size(t) == PoolSize(dataset, task, t)
        candidates == {t \in {s.treebank : s \in Range(dataset)} : size(t) >= count}
        largest == {t \in candidates : \A u \in candidates : size(u) <= size(t)}
        pool == [treebank |-> Min(largest), language |-> language, task |-> task]
        error == IF dataset = <<>> THEN "EMPTY"
                 ELSE IF \E s \in Range(dataset) : s.language # language THEN "OTHER_LANGUAGE"
                 ELSE IF candidates = {} THEN "TOO_FEW"
                 ELSE IF \E s \in Range(Matching(dataset, pool)) : ~ValidGold(s, task)
                      THEN "INVALID_GOLD" ELSE "OK"
    IN  [error |-> error, pool |-> IF error = "OK" THEN pool ELSE <<>>]

----------------------------------------------------------------------------
\* _prepare_samples, on what load_dataset_samples_by_id finds.

Preflight(challenge, entry, sample) ==
    /\ sample.id = entry.id
    /\ sample.language = challenge.language /\ sample.treebank = challenge.treebank
    /\ challenge.task \in sample.tasks
    /\ ValidGold(sample, challenge.task)
    /\ Len(sample.answers[challenge.task]) = entry.gold
    /\ Acceptable(InputOf(sample, challenge.task))

Found(dataset, id) == SelectSeq(dataset, LAMBDA s : s.id = id)

Prepared(dataset, challenge, manifest) ==
    \A i \in DOMAIN manifest :
        LET found == Found(dataset, manifest[i].id)
        IN  Len(found) = 1 /\ Preflight(challenge, manifest[i], found[1])

----------------------------------------------------------------------------
\* Reference definitions

\* A gold annotation, said as it is and with arcs in their order, is let pass,
\* parses and gets full marks; the mock's answer is let pass and parses.
GoldIsAnswer(sample, task) ==
    LET gold == GoldOfSample(sample, task)
        input == InputOf(sample, task)
        said == [json |-> Object(FieldOf(task) :> List([i \in DOMAIN gold |->
                             IF task = "dependency"
                             THEN ArcObject(Whole(gold[i].token), Whole(gold[i].head),
                                            Text(gold[i].deprel))
                             ELSE Text(gold[i])])),
                 spelling |-> "compact"]
        mock == MockAnswer(task, IF task = "segmentation" THEN input.text ELSE TokensOf(sample))
        outcome == Outcome(task, gold, Read(task, said))
    IN  ValidGold(sample, task) =>
           /\ Admitted(task, Expected(input), {}, said)
           /\ Admitted(task, Expected(input), {}, mock)
           /\ Parse(task, Read(task, mock), Expected(input)) = "OK"
           /\ task # "segmentation" => Expected(input) = Len(gold)
           /\ outcome.error = "OK"
           /\ Primary(task, [only \in {1} |-> outcome])[1] = Primary(task, [only \in {1} |-> outcome])[2]

\* Two samples that look alike without their gold annotations ask the same,
\* even if a copy of the input carries the annotations: of a segmentation only the
\* surface is seen.
NothingOfGold(challenge, r, s) ==
    LET task == challenge.task
        alike == IF task = "segmentation" THEN Surface(TokensOf(r)) = Surface(TokensOf(s))
                 ELSE TokensOf(r) = TokensOf(s) /\ r.text = s.text
        Asked(sample) == Envelope(ModelRequest(challenge, Empty,
                                     InputOf(sample, task) @@ "gold" :> sample.answers))
    IN  alike => Asked(r) = Asked(s)

\* What was built is valid, and can be run on the same dataset, given that ids are
\* unique in all of it and texts are not empty: build_challenge sees to neither.
BuiltIsPrepared(dataset, challenge, draws) ==
    LET built == Built(dataset, challenge, draws)
    IN  built.error = "OK" =>
           /\ ValidArtifacts(built.public, built.private, dataset)
           /\ Distinct(dataset) /\ (\A s \in Range(dataset) : s.text # <<>>)
              => Prepared(dataset, challenge, built.private.samples)

\* A public document is valid with no other private one than its own, and with no
\* other dataset.
OnlyOwnPairs(builds, datasets) ==
    \A b, c \in builds, dataset \in datasets :
        ValidArtifacts(b.public, c.private, dataset) =>
            b.private = c.private /\ dataset = b.public.dataset

\* From a pool chosen for its size every draw makes a challenge, and no
\* treebank has more samples.
PoolSuffices(dataset, language, task, count, Draws) ==
    LET largest == LargestPool(dataset, language, task, count)
        pool == largest.pool
    IN  largest.error = "OK" /\ Distinct(dataset) =>
           /\ \A draws \in Draws : Built(dataset, pool @@ [count |-> count, version |-> 1], draws).error = "OK"
           /\ \A t \in {s.treebank : s \in Range(dataset)} :
                 PoolSize(dataset, task, t) <= PoolSize(dataset, task, pool.treebank)

\* Every set of count samples is drawn equally often.
Uniform(n, count) ==
    LET samples == [i \in 1 .. n |-> i]
        draws == {d \in [1 .. n -> 0 .. n - 1] : \A i \in 1 .. n : d[i] < i /\ (i <= count => d[i] = 0)}
        outcomes == {S \in SUBSET (1 .. n) : Cardinality(S) = count}
        times(S) == Cardinality({d \in draws : Range(Reservoir(samples, count, d)) = S})
    IN  \A S \in outcomes : times(S) * Cardinality(outcomes) = Cardinality(draws)
============================================================================
