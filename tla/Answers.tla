------------------------------ MODULE Answers ------------------------------
(***************************************************************************)
(* What a model may say, and which of it counts: the structure its decoder  *)
(* is held to, the client's check of that structure, the strict parsing of  *)
(* responses.py, and the shorter wire forms of dependency answers           *)
(* (compact_dependency.py).                                                 *)
(*                                                                         *)
(* A JSON value is a record with one field, named for its kind.  A text is  *)
(* the value json.loads makes of it and how it is spelled: as the           *)
(* serializer would, otherwise, with a field twice (the last one counts),   *)
(* longer than the byte limit, or not JSON at all.  Scoring goes on with    *)
(* what Read returns.                                                       *)
(***************************************************************************)
EXTENDS Scoring, Integers

CONSTANTS
    Empty,                  \* the empty string
    MockTag, MockDeprel     \* what the mock provider answers with

Whole(n) == [int |-> n]          \* 2
Decimal(n) == [real |-> n]       \* 2.0
Fraction == [fraction |-> TRUE]  \* 2.5
Text(s) == [str |-> s]
List(values) == [arr |-> values]
Object(fields) == [obj |-> fields]
Constant == [other |-> TRUE]     \* true, false, null

Is(kind, value) == kind \in DOMAIN value

Spelling == {"compact", "loose", "repeated", "oversized", "broken"}

\* The first thing that is wrong in a sequence of verdicts.
First(verdicts) ==
    LET wrong == {i \in DOMAIN verdicts : verdicts[i] # "OK"}
    IN  IF wrong = {} THEN "OK" ELSE verdicts[Min(wrong)]

----------------------------------------------------------------------------
\* The models of responses.py and their schemas.  Every field is required and
\* no other is allowed.

Words(allowed) == [type |-> "string", allowed |-> allowed]
Number(range) == [type |-> "integer", range |-> range]
Sequence(item, lengths) == [type |-> "array", item |-> item, lengths |-> lengths]
Tuple(items) == [type |-> "tuple", items |-> items]
Fields(fields) == [type |-> "object", fields |-> fields]

AnyText == Words({})
Arcs(token, head) ==
    Fields(<< <<"token_id", token>>, <<"head_id", head>>, <<"deprel", AnyText>> >>)

FieldOf(task) ==
    CASE task = "segmentation" -> "tokens"
      [] task \in {"upos", "xpos"} -> "tags"
      [] task = "dependency" -> "arcs"
      [] task = "transliteration" -> "transliterations"

\* response_json_schema, with the lengths _structured_outputs narrows it to.
ResponseSchema(task, lengths) ==
    LET item == IF task = "dependency" THEN Arcs(Number(Nat \ {0}), Number(Nat)) ELSE AnyText
    IN  Fields(<< <<FieldOf(task), Sequence(item, lengths)>> >>)

\* Where the treebank's tags are known, a pattern admits nothing else.
Structure(task, expected, inventory) ==
    CASE task = "segmentation" -> ResponseSchema(task, Nat \ {0})
      [] task = "xpos" /\ inventory # {} ->
            Fields(<< <<"tags", Sequence(Words(inventory), {expected})>> >>)
      [] OTHER -> ResponseSchema(task, {expected})

\* _json_value_matches_schema; of the guided schemas, what their grammar admits.
RECURSIVE Satisfies(_, _)
Satisfies(value, schema) ==
    CASE schema.type = "object" ->
            /\ Is("obj", value)
            /\ DOMAIN value.obj = {f[1] : f \in Range(schema.fields)}
            /\ \A f \in Range(schema.fields) : Satisfies(value.obj[f[1]], f[2])
      [] schema.type = "array" ->
            /\ Is("arr", value)
            /\ Len(value.arr) \in schema.lengths
            /\ \A i \in DOMAIN value.arr : Satisfies(value.arr[i], schema.item)
      [] schema.type = "tuple" ->
            /\ Is("arr", value)
            /\ DOMAIN value.arr = DOMAIN schema.items
            /\ \A i \in DOMAIN value.arr : Satisfies(value.arr[i], schema.items[i])
      [] schema.type = "string" ->
            /\ Is("str", value)
            /\ IF schema.allowed = {} THEN value.str # Empty ELSE value.str \in schema.allowed
      [] schema.type = "integer" ->
            \/ Is("int", value) /\ value.int \in schema.range
            \/ Is("real", value) /\ value.real \in schema.range

\* _validate_structured_content: the pattern also fixes the spelling.
Admitted(task, expected, inventory, text) ==
    /\ Satisfies(text.json, Structure(task, expected, inventory))
    /\ IF task = "xpos" /\ inventory # {} THEN text.spelling = "compact"
       ELSE text.spelling # "broken"

----------------------------------------------------------------------------
\* model_validate and _validation_failure: fields in their order, then what is
\* too much; an item before its successors.  A number is not coerced.

RECURSIVE Complaint(_, _)
Complaint(value, schema) ==
    CASE schema.type = "object" ->
            LET Field(f) == IF f[1] \in DOMAIN value.obj THEN Complaint(value.obj[f[1]], f[2])
                            ELSE "MISSING_FIELD"
                known == {f[1] : f \in Range(schema.fields)}
                rest == IF DOMAIN value.obj \subseteq known THEN "OK" ELSE "EXTRA_FIELD"
            IN  IF Is("obj", value)
                THEN First(Append([i \in DOMAIN schema.fields |-> Field(schema.fields[i])], rest))
                ELSE "INVALID_VALUE"
      [] schema.type = "array" ->
            IF ~Is("arr", value) THEN "WRONG_TYPE"
            ELSE IF value.arr = <<>> THEN "EMPTY_VALUE"
            ELSE First([i \in DOMAIN value.arr |-> Complaint(value.arr[i], schema.item)])
      [] schema.type = "string" ->
            IF ~Is("str", value) THEN "WRONG_TYPE"
            ELSE IF value.str = Empty THEN "EMPTY_VALUE" ELSE "OK"
      [] schema.type = "integer" ->
            IF ~Is("int", value) THEN "WRONG_TYPE"
            ELSE IF value.int \in schema.range THEN "OK" ELSE "INVALID_VALUE"

\* What Scoring calls an item.
ItemOf(task, value) ==
    IF task = "dependency"
    THEN [token |-> value.obj["token_id"].int, head |-> value.obj["head_id"].int,
          deprel |-> value.obj["deprel"].str]
    ELSE value.str

ReadValue(task, value) ==
    LET shape == IF Is("obj", value) THEN Complaint(value, ResponseSchema(task, Nat \ {0}))
                 ELSE "TOP_LEVEL_NOT_OBJECT"
        values == value.obj[FieldOf(task)].arr
    IN  [shape |-> shape,
         items |-> IF shape = "OK" THEN [i \in DOMAIN values |-> ItemOf(task, values[i])]
                   ELSE <<>>]

Refused(shape) == [shape |-> shape, items |-> <<>>]

\* parse_model_response up to the checks of Scoring's Parse.
Read(task, text) ==
    IF text.spelling = "broken" THEN Refused("INVALID_JSON") ELSE ReadValue(task, text.json)

\* DeterministicMockProvider: what it makes of the tokens or the text it is shown.
MockItem(task, input, i) ==
    CASE task = "dependency" ->
            Object("token_id" :> Whole(i) @@ "head_id" :> Whole(i - 1) @@ "deprel" :> Text(MockDeprel))
      [] task \in {"upos", "xpos"} -> Text(MockTag)
      [] task = "segmentation" -> Text(<<input[i]>>)
      [] task = "transliteration" -> Text([letters |-> input[i], form |-> 1])

MockAnswer(task, input) ==
    [json |-> Object(FieldOf(task) :> List([i \in DOMAIN input |-> MockItem(task, input, i)])),
     spelling |-> "compact"]

----------------------------------------------------------------------------
\* The experimental forms of a dependency answer.

Protocol == {"objects", "arrays", "triples"}

Guided(protocol, n) ==
    LET head == Number(0 .. n)
    IN  CASE protocol = "arrays" ->
               Fields(<< <<"heads", Sequence(head, {n})>>, <<"deprels", Sequence(AnyText, {n})>> >>)
          [] protocol = "objects" ->
               Fields(<< <<"arcs", Tuple([i \in 1 .. n |-> Arcs(Number({i}), head)])>> >>)
          [] protocol = "triples" ->
               Fields(<< <<"arcs", Tuple([i \in 1 .. n |->
                                            Tuple(<<Number({i}), head, AnyText>>)])>> >>)

\* What the experiment's message shows as the required form.
Compact(protocol) ==
    LET head == Number(Nat)
        some == Nat \ {0}
    IN  IF protocol = "arrays"
        THEN Fields(<< <<"heads", Sequence(head, some)>>, <<"deprels", Sequence(AnyText, some)>> >>)
        ELSE Fields(<< <<"arcs", Sequence(Tuple(<<Number(some), head, AnyText>>), some)>> >>)

ArcObject(token, head, deprel) ==
    Object("token_id" :> token @@ "head_id" :> head @@ "deprel" :> deprel)

\* The same arcs in each form, as experiment_prompt describes it.
InForm(protocol, arcs) ==
    LET Column(f) == List([i \in DOMAIN arcs |-> arcs[i].obj[f]])
        Triple(arc) == List(<<arc.obj["token_id"], arc.obj["head_id"], arc.obj["deprel"]>>)
    IN  CASE protocol = "objects" -> Object("arcs" :> List(arcs))
          [] protocol = "triples" ->
                Object("arcs" :> List([i \in DOMAIN arcs |-> Triple(arcs[i])]))
          [] protocol = "arrays" ->
                Object("heads" :> Column("head_id") @@ "deprels" :> Column("deprel"))

\* handwritten_example: three tokens, of which the second is the root.
Example(protocol) ==
    [json |-> InForm(protocol, [i \in 1 .. 3 |->
                  ArcObject(Whole(i), Whole(IF i = 2 THEN 0 ELSE 2), Text(MockDeprel))]),
     spelling |-> "compact"]

Legacy(arcs) == ReadValue("dependency", Object("arcs" :> List(arcs)))

TopLevel(value, names) ==
    IF ~Is("obj", value) THEN "TOP_LEVEL_NOT_OBJECT"
    ELSE IF ~(names \subseteq DOMAIN value.obj) THEN "MISSING_FIELD"
    ELSE IF DOMAIN value.obj # names THEN "EXTRA_FIELD" ELSE "OK"

ReadTriples(value) ==
    LET top == TopLevel(value, {"arcs"})
        arcs == value.obj["arcs"]
    IN  IF top # "OK" THEN Refused(top)
        ELSE IF ~Is("arr", arcs) THEN Refused("WRONG_TYPE")
        ELSE IF arcs.arr = <<>> THEN Refused("EMPTY_VALUE")
        ELSE IF \E a \in Range(arcs.arr) : ~Is("arr", a) \/ Len(a.arr) # 3
             THEN Refused("WRONG_TYPE")
        ELSE Legacy([i \in DOMAIN arcs.arr |->
                        LET arc == arcs.arr[i].arr IN ArcObject(arc[1], arc[2], arc[3])])

\* The checks of the two arrays, in their order.
ArraysVerdict(heads, deprels, n) ==
    IF ~Is("arr", heads) \/ ~Is("arr", deprels) THEN "WRONG_TYPE"
    ELSE IF heads.arr = <<>> \/ deprels.arr = <<>> THEN "EMPTY_VALUE"
    ELSE IF Len(heads.arr) # n \/ Len(deprels.arr) # n THEN "LENGTH_MISMATCH"
    ELSE IF \/ \E h \in Range(heads.arr) : ~Is("int", h)
            \/ \E d \in Range(deprels.arr) : ~Is("str", d) THEN "WRONG_TYPE"
    ELSE IF \E d \in Range(deprels.arr) : d.str = Empty THEN "EMPTY_VALUE"
    ELSE IF \E h \in Range(heads.arr) : h.int \notin 0 .. n THEN "INVALID_HEAD_ID" ELSE "OK"

ReadArrays(value, n) ==
    LET top == TopLevel(value, {"heads", "deprels"})
        heads == value.obj["heads"]
        deprels == value.obj["deprels"]
        verdict == IF top # "OK" THEN top ELSE ArraysVerdict(heads, deprels, n)
    IN  IF verdict # "OK" THEN Refused(verdict)
        ELSE Legacy([i \in 1 .. n |-> ArcObject(Whole(i), heads.arr[i], deprels.arr[i])])

\* parse_compact_dependency, which also minds the size and repeated fields.
ReadCompact(protocol, text, n) ==
    CASE text.spelling = "oversized" -> Refused("INVALID_VALUE")
      [] text.spelling \in {"broken", "repeated"} -> Refused("INVALID_JSON")
      [] OTHER -> IF protocol = "triples" THEN ReadTriples(text.json) ELSE ReadArrays(text.json, n)

ReadAs(protocol, text, n) ==
    IF protocol = "objects" THEN Read("dependency", text) ELSE ReadCompact(protocol, text, n)

----------------------------------------------------------------------------
\* Reference definitions

\* No answer that parses was turned away by the client before, and what the
\* client lets pass is parsed, up to what no schema can say: a tag outside the
\* inventory, the identity of tokens and heads, and a whole number written as a
\* decimal, which the schema admits and the parser does not.
StructureMatchesParser(task, expected, text) ==
    LET code == Parse(task, Read(task, text), expected)
    IN  /\ code = "OK" => Admitted(task, expected, {}, text)
        /\ Admitted(task, expected, {}, text) =>
              code \in {"OK"} \cup CASE task = "upos" -> {"INVALID_TAG"}
                                     [] task = "dependency" ->
                                           {"DUPLICATE_TOKEN_ID", "TOKEN_ID_MISMATCH",
                                            "INVALID_HEAD_ID", "WRONG_TYPE"}
                                     [] OTHER -> {}

\* With the tags known, an answer that is let pass has one of them for each token.
PatternMatchesParser(expected, inventory, text) ==
    Admitted("xpos", expected, inventory, text) =>
        LET answer == Read("xpos", text)
        IN  /\ Parse("xpos", answer, expected) = "OK"
            /\ Range(answer.items) \subseteq inventory

RECURSIVE HasDecimal(_)
HasDecimal(value) ==
    \/ Is("real", value)
    \/ Is("arr", value) /\ \E i \in DOMAIN value.arr : HasDecimal(value.arr[i])
    \/ Is("obj", value) /\ \E f \in DOMAIN value.obj : HasDecimal(value.obj[f])

AsGuided(protocol, n, text) ==
    /\ text.spelling \in {"compact", "loose"}
    /\ Satisfies(text.json, Guided(protocol, n))
    /\ ~HasDecimal(text.json)

\* A guided answer has the form that was shown, and is an answer.
GuidedParses(protocol, n, text) ==
    AsGuided(protocol, n, text) =>
        /\ protocol # "objects" => Satisfies(text.json, Compact(protocol))
        /\ Parse("dependency", ReadAs(protocol, text, n), n) = "OK"

\* The examples in the prompts are such answers, and one and the same.
ExamplesAgree ==
    \A protocol \in Protocol :
        /\ AsGuided(protocol, 3, Example(protocol))
        /\ ReadAs(protocol, Example(protocol), 3) = ReadAs("objects", Example("objects"), 3)

\* The same arcs are judged alike in every form: their order is free where the
\* tokens are named.
FormsAgree(arcs) ==
    LET n == Len(arcs)
        In(protocol) == ReadAs(protocol, [json |-> InForm(protocol, arcs),
                                          spelling |-> "compact"], n)
        Verdict(protocol) == Parse("dependency", In(protocol), n)
        inOrder == \A i \in DOMAIN arcs : arcs[i].obj["token_id"] = Whole(i)
    IN  /\ In("triples") = In("objects")
        /\ inOrder => /\ (Verdict("arrays") = "OK") = (Verdict("objects") = "OK")
                      /\ Verdict("arrays") = "OK" => In("arrays") = In("objects")
============================================================================
