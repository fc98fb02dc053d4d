------------------------------ MODULE Scoring ------------------------------
(***************************************************************************)
(* From a model's answer to a score: the checks of responses.py, the        *)
(* scorers of evaluation.py and the sums of aggregation.py.                 *)
(*                                                                         *)
(* An answer is what the JSON and schema checks report of it, and its list  *)
(* of items: tokens (sequences of characters), tags, arcs                   *)
(* [token, head, deprel] or transliterations [letters, form], where form is *)
(* one of the Unicode encodings of the same letters.  A ratio is the pair   *)
(* of its numerator and denominator.                                        *)
(***************************************************************************)
EXTENDS Naturals, FiniteSets, Sequences, SequencesExt

CONSTANT UposTags      \* UD_UPOS_TAGS

Task == {"segmentation", "upos", "xpos", "dependency", "transliteration"}

Surface(tokens) == FlattenSeq(tokens)

Spans(tokens) ==
    LET end(i) == Len(Surface(SubSeq(tokens, 1, i)))
    IN  {<<end(i - 1), end(i)>> : i \in DOMAIN tokens}

Matches(gold, items) == Cardinality({i \in DOMAIN gold : gold[i] = items[i]})

Tokens(arcs) == {a.token : a \in Range(arcs)}

\* Arcs are looked up by their tokens, of which a parsed answer has each once.
Agreeing(gold, arcs) == Cardinality(Range(gold) \cap Range(arcs))

Heads(arcs) == [i \in DOMAIN arcs |-> <<arcs[i].token, arcs[i].head>>]

\* NFC normalisation
Normal(words) == [i \in DOMAIN words |-> words[i].letters]

----------------------------------------------------------------------------
\* parse_model_response: the first complaint decides.

Complaints(task, items, expected) ==
    << <<"INVALID_TAG", task = "upos" /\ Range(items) \ UposTags # {}>>,
       <<"DUPLICATE_TOKEN_ID",
         task = "dependency" /\ Cardinality(Tokens(items)) # Len(items)>>,
       <<"TOKEN_ID_MISMATCH", task = "dependency" /\ Tokens(items) # 1 .. expected>>,
       <<"INVALID_HEAD_ID",
         task = "dependency" /\ \E a \in Range(items) : a.head > expected>>,
       <<"LENGTH_MISMATCH", task # "segmentation" /\ Len(items) # expected>> >>

Parse(task, answer, expected) ==
    LET complaints == Complaints(task, answer.items, expected)
        raised == {i \in DOMAIN complaints : complaints[i][2]}
    IN  IF answer.shape # "OK" THEN answer.shape
        ELSE IF raised = {} THEN "OK" ELSE complaints[Min(raised)][1]

----------------------------------------------------------------------------
\* _score_parsed_response

Counts(correct, partial, predicted) ==
    [correct |-> correct, partial |-> partial, predicted |-> predicted]

ScoreSegmentation(gold, items) ==
    Counts(IF Surface(gold) = Surface(items)
              THEN Cardinality(Spans(gold) \cap Spans(items)) ELSE 0,
           0, Len(items))

Score(task, gold, items) ==
    CASE task = "segmentation" -> ScoreSegmentation(gold, items)
      [] task \in {"upos", "xpos"} -> Counts(Matches(gold, items), 0, Len(items))
      [] task = "dependency" ->
            Counts(Agreeing(gold, items), Agreeing(Heads(gold), Heads(items)), Len(items))
      [] task = "transliteration" ->
            LET correct == Matches(Normal(gold), Normal(items))
            IN  Counts(correct, IF correct = Len(gold) THEN 1 ELSE 0, Len(items))

\* evaluate_raw_response: a malformed answer counts with its gold items only.
Outcome(task, gold, answer) ==
    LET code == Parse(task, answer, Len(gold))
    IN  [error |-> code, gold |-> Len(gold),
         score |-> IF code = "OK" THEN Score(task, gold, answer.items) ELSE Counts(0, 0, 0)]

\* SampleEvaluationOutcome raises at anything else.
ValidOutcome(task, outcome) ==
    LET score == outcome.score
    IN  /\ outcome.gold > 0
        /\ outcome.error = "OK" =>
              /\ score.correct <= outcome.gold
              /\ CASE task = "segmentation" -> score.correct <= score.predicted
                   [] task = "dependency" ->
                         score.correct <= score.partial /\ score.partial <= outcome.gold
                   [] task = "transliteration" ->
                         (score.partial = 1) = (score.correct = outcome.gold)
                   [] OTHER -> TRUE

----------------------------------------------------------------------------
\* aggregate_challenge, over one outcome for every sample of the manifest.

Correct(outcomes) == SumFunction([s \in DOMAIN outcomes |-> outcomes[s].score.correct])
Partial(outcomes) == SumFunction([s \in DOMAIN outcomes |-> outcomes[s].score.partial])
Predicted(outcomes) == SumFunction([s \in DOMAIN outcomes |-> outcomes[s].score.predicted])
Gold(outcomes) == SumFunction([s \in DOMAIN outcomes |-> outcomes[s].gold])
Malformed(outcomes) == Cardinality({s \in DOMAIN outcomes : outcomes[s].error # "OK"})

\* _ratio: nothing of anything is 0.
Ratio(n, d) == IF n = 0 THEN <<0, 1>> ELSE <<n, d>>

\* F1 of c/p and c/g is 2c/(p + g).
Primary(task, outcomes) ==
    IF task = "segmentation"
    THEN Ratio(2 * Correct(outcomes), Predicted(outcomes) + Gold(outcomes))
    ELSE Ratio(Correct(outcomes), Gold(outcomes))

Secondary(task, outcomes) ==
    CASE task = "segmentation" -> {Ratio(Correct(outcomes), Predicted(outcomes)),
                                   Ratio(Correct(outcomes), Gold(outcomes))}
      [] task = "dependency" -> {Ratio(Partial(outcomes), Gold(outcomes))}
      [] task = "transliteration" ->
            {Ratio(Partial(outcomes), Cardinality(DOMAIN outcomes))}
      [] OTHER -> {}

Aggregate(task, outcomes) ==
    [score |-> Primary(task, outcomes), metrics |-> Secondary(task, outcomes),
     invalid |-> Malformed(outcomes)]

\* ChallengeAggregateResult raises at anything else.
ValidAggregate(task, outcomes) ==
    LET aggregate == Aggregate(task, outcomes)
    IN  /\ DOMAIN outcomes # {}
        /\ aggregate.invalid <= Cardinality(DOMAIN outcomes)
        /\ \A metric \in {aggregate.score} \cup aggregate.metrics : metric[1] <= metric[2]

----------------------------------------------------------------------------
\* Reference definitions

\* Items as the JSON and schema checks let them through: no token is empty.
Annotation(task, items) ==
    /\ items \in Seq(Range(items))
    /\ task = "segmentation" =>
          \A token \in Range(items) : token # <<>> /\ token \in Seq(Range(token))

\* The answer is the gold annotation: token by token, tag by tag, arc by arc in
\* whatever order, word by word in whatever encoding.
IsGold(task, gold, answer) ==
    /\ answer.shape = "OK"
    /\ Len(answer.items) = Len(gold)
    /\ CASE task = "dependency" -> Range(answer.items) = Range(gold)
         [] task = "transliteration" ->
               \A i \in DOMAIN gold : gold[i].letters = answer.items[i].letters
         [] OTHER -> answer.items = gold

\* The gold tokens that the answer has in the same place of the same text.
TokensFound(gold, items) ==
    {i \in DOMAIN gold : \E j \in DOMAIN items :
        /\ items[j] = gold[i]
        /\ Surface(SubSeq(items, 1, j)) = Surface(SubSeq(gold, 1, i))
        /\ Surface(items) = Surface(gold)}

\* One answer is scored as the references say, and nothing raises.
ScoredAsReference(task, gold, answer) ==
    LET outcome == Outcome(task, gold, answer)
        ratio == Primary(task, [only \in {1} |-> outcome])
    IN  /\ (ratio[1] = ratio[2]) = IsGold(task, gold, answer)
        /\ ValidOutcome(task, outcome)
        /\ task = "segmentation" /\ outcome.error = "OK" =>
               outcome.score.correct = Cardinality(TokensFound(gold, answer.items))
============================================================================
