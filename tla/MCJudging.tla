----------------------------- MODULE MCJudging -----------------------------
\* Constant values with which TLC checks Judging.
EXTENDS Judging, ChallengeSamples

CONSTANTS c1, c2, d1, d2, x1, y1, y2, a, b, z

\* Three submissions of two users to a segmentation, one to a second challenge
\* that competes for the cache.
Submissions == 1 .. 4
Users == <<1, 2, 1, 2>>
Challenges == <<c1, c1, c1, c2>>

Tasks == (c1 :> "segmentation") @@ (c2 :> "dependency")
Samples == (c1 :> {x1}) @@ (c2 :> {y1, y2})
Datasets == (c1 :> d1) @@ (c2 :> d1)
Sizes == (c1 :> 1) @@ (c2 :> 2)

Arc(token, head, deprel) == [token |-> token, head |-> head, deprel |-> deprel]

\* The published dataset, and what its file is replaced with.
Golds ==
    (d1 :> ((x1 :> << <<a>>, <<b>>, <<a>> >>)
            @@ (y1 :> <<Arc(1, 0, a), Arc(2, 1, b)>>) @@ (y2 :> <<Arc(1, 0, a)>>)))
    @@ (d2 :> ((x1 :> << <<a, b>>, <<a>> >>)
               @@ (y1 :> <<Arc(1, 0, a), Arc(2, 1, a)>>) @@ (y2 :> <<Arc(1, 0, b)>>)))

Said(items) == [shape |-> "OK", items |-> items]
Broken == [shape |-> "INVALID_JSON", items |-> <<>>]

Sayings(task) ==
    IF task = "segmentation"
    THEN {Said(<< <<a>>, <<b>>, <<a>> >>), Said(<< <<a, b>>, <<a>> >>),
          Said(<< <<b>>, <<a>>, <<a>> >>)}
    ELSE {Broken, Said(<<Arc(1, 0, a)>>), Said(<<Arc(2, 1, b), Arc(1, 0, a)>>),
          Said(<<Arc(2, 1, a), Arc(1, 0, a)>>)}

----------------------------------------------------------------------------
\* Every task on every gold annotation and answer of one or two items.

UpTo2(S) == {<<x>> : x \in S} \cup (S \X S)

Items(task) ==
    CASE task = "segmentation" -> UpTo2(UpTo2({a, b}))
      [] task \in {"upos", "xpos"} -> UpTo2({a, b})
      [] task = "dependency" -> UpTo2({Arc(t, h, r) : t \in 1 .. 3, h \in 0 .. 3, r \in {a, b}})
      [] task = "transliteration" -> UpTo2([letters : {a, b}, form : {1, 2}])

\* Gold annotations are well formed: build_challenge checked them.
WellFormed(task) == {g \in Items(task) : Parse(task, Said(g), Len(g)) = "OK"}

Judged(task) == {Said(items) : items \in Items(task)} \cup {Broken}

ASSUME ScoringAgrees ==
    \A task \in Task : \A gold \in WellFormed(task) : \A answer \in Judged(task) :
        ScoredAsReference(task, gold, answer)

\* Any two answers to one challenge can be aggregated.
ASSUME AggregatesAreValid ==
    \A task \in Task :
        LET outcomes == {Outcome(task, gold, answer) :
                           gold \in WellFormed(task), answer \in Judged(task)}
        IN  \A o, p \in outcomes : ValidAggregate(task, <<o, p>>)

----------------------------------------------------------------------------
\* Answers of up to two items, each right or wrong in every way, in every
\* spelling; z is a tag outside the inventory.

Leaves == {Whole(1), Decimal(1), Fraction, Text(Empty), Text(a), Text(z), Constant, List(<<>>)}
Anything == Leaves \cup {List(<<v>>) : v \in Leaves} \cup {Object("extra" :> v) : v \in Leaves}

ArcValues ==
    {ArcObject(t, h, r) : t \in {Whole(0), Whole(1), Whole(2), Decimal(2), Text(a)},
                          h \in {Whole(-1), Whole(0), Whole(1), Whole(3), Constant},
                          r \in {Text(a), Text(Empty), Whole(1)}}
WrongArcs ==
    {Object("token_id" :> Whole(1) @@ "head_id" :> Whole(0)), Whole(1),
     Object("token_id" :> Whole(1) @@ "head_id" :> Whole(0) @@ "deprel" :> Text(a) @@ "extra" :> Whole(1)),
     List(<<Whole(1), Whole(0), Text(a)>>), List(<<Whole(1), Whole(0)>>)}

ValuesOf(task) ==
    LET items == IF task = "dependency" THEN ArcValues \cup WrongArcs ELSE Leaves
        lists == {List(s) : s \in {<<>>} \cup UpTo2(items)}
        field == FieldOf(task)
    IN  Anything \cup {Object(field :> v) : v \in lists \cup Leaves}
        \cup {Object(field :> v @@ "extra" :> Constant) : v \in {List(<<i>>) : i \in items} \cup Leaves}

Texts(values) == [json : values, spelling : Spelling]

ASSUME AnswersAgree ==
    \A task \in Task : \A text \in Texts(ValuesOf(task)), n \in 1 .. 2 :
        /\ StructureMatchesParser(task, n, text)
        /\ task = "xpos" => PatternMatchesParser(n, {a}, text)

\* Compact answers, among them all the guided ones of one or two tokens.
ArrayValues ==
    LET heads == {List(s) : s \in {<<>>} \cup UpTo2({Whole(-1), Whole(0), Whole(2), Whole(3), Decimal(1)})}
        deprels == {List(s) : s \in {<<>>} \cup UpTo2({Text(a), Text(Empty), Whole(1)})}
    IN  {Object("heads" :> h @@ "deprels" :> d) :
           h \in heads \cup {Constant}, d \in deprels \cup {Constant}}

Triples == {List(<<t, h, r>>) : t \in {Whole(1), Whole(2)}, h \in {Whole(0), Whole(1), Whole(3)},
                                r \in {Text(a), Text(Empty)}}
TripleValues == {Object("arcs" :> List(s)) : s \in {<<>>} \cup UpTo2(Triples \cup WrongArcs)}

ASSUME FormsParse ==
    /\ ExamplesAgree
    /\ \A n \in 1 .. 2 :
          /\ \A text \in Texts(ValuesOf("dependency")) : GuidedParses("objects", n, text)
          /\ \A text \in Texts(ArrayValues) : GuidedParses("arrays", n, text)
          /\ \A text \in Texts(TripleValues) : GuidedParses("triples", n, text)
    /\ \A arcs \in UpTo2(ArcValues) : FormsAgree(arcs)

----------------------------------------------------------------------------
\* Samples of one or two tokens with gold annotations that are right or wrong in
\* every field.

TokenLists == UpTo2({<<a>>, <<b>>, <<Underscore>>, <<>>})

Golds5(tokens) ==
    LET arcs == [token : 1 .. 3, form : {<<a>>, <<b>>}, head : 0 .. 3,
                 headForm : {<<a>>, <<b>>, Root}, deprel : {a, Empty}]
    IN  IF tokens \in {<< <<a>> >>, << <<a>>, <<b>> >>} THEN UpTo2(arcs) ELSE {}

GoldOfTask(task, tokens) ==
    CASE task = "segmentation" -> {tokens}
      [] task = "dependency" -> Golds5(tokens)
      [] task = "transliteration" ->
            UpTo2([letters : {a, b}, form : {1}] \cup {Empty, Underscore})
      [] OTHER -> UpTo2({a, z, Empty, Underscore})

Sample(id, language, treebank, text, tokens, task, gold, tasks) ==
    [id |-> id, language |-> language, treebank |-> treebank, text |-> text, tasks |-> tasks,
     answers |-> "segmentation" :> tokens @@ task :> gold]

ASSUME GoldAgrees ==
    \A task \in Task : \A tokens \in TokenLists : \A gold \in GoldOfTask(task, tokens) :
        GoldIsAnswer(Sample(1, c1, 1, <<a>>, tokens, task, gold, {task}), task)

ASSUME GoldStaysHere ==
    \A task \in Task :
        LET samples == {Sample(1, c1, 1, text, tokens, task, gold, {task}) :
                          text \in {<<a>>, <<b>>}, gold \in {<<a>>, <<z>>},
                          tokens \in {<< <<a>>, <<b>> >>, << <<a, b>> >>}}
            challenge == [language |-> c1, treebank |-> 1, task |-> task]
        IN  \A r, s \in samples : NothingOfGold(challenge, r, s)

----------------------------------------------------------------------------
\* Datasets of up to three samples, whose ids may be taken twice and whose texts
\* may be missing, and every draw from them.

Entries ==
    {Sample(id, language, treebank, text, << <<a>> >>, "upos", gold, tasks) :
        id \in 1 .. 2, language \in {c1}, treebank \in 1 .. 2, text \in {<<>>, <<a>>},
        gold \in {<<a>>, <<Empty>>}, tasks \in {{"upos"}, {}}}

Proper(id, treebank) ==
    Sample(id, c1, treebank, <<a>>, << <<a>> >>, "upos", <<a>>, {"upos"})

Lines ==
    {<<>>} \cup UpTo2(Entries)
    \cup {<<Proper(i, t), Proper(j, u), Proper(k, 1)>> : i, j, k \in 1 .. 3, t, u \in 1 .. 2}

Draws(n) == {d \in [1 .. n -> 0 .. n - 1] : \A i \in 1 .. n : d[i] < i}

Chosen(treebank, count, version) ==
    [language |-> c1, treebank |-> treebank, task |-> "upos", count |-> count,
     version |-> version]

ASSUME ChallengesRun ==
    \A dataset \in Lines, count \in 1 .. 2 :
        /\ PoolSuffices(dataset, c1, "upos", count, Draws(3))
        /\ \A treebank \in 1 .. 2, draws \in Draws(3) :
              BuiltIsPrepared(dataset, Chosen(treebank, count, 1), draws)

\* Challenges of two versions, made of two datasets by several draws.
Datasets2 == {<<Proper(1, 1), Proper(2, 1), Proper(3, 1)>>, <<Proper(1, 1), Proper(2, 1)>>}

ASSUME PairsStayTogether ==
    OnlyOwnPairs({build \in {Built(dataset, Chosen(1, count, version), draws) :
                                dataset \in Datasets2, count \in 1 .. 2, version \in 1 .. 2,
                                draws \in Draws(3)} : build.error = "OK"},
                 Datasets2)

ASSUME SelectionIsFair == Uniform(4, 2) /\ Uniform(5, 2)
============================================================================
