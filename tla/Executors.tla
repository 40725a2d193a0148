----------------------------- MODULE Executors -----------------------------
(***************************************************************************)
(* The five node executors and the function sandbox as operators: from a   *)
(* node's config and its input to the outcomes the worker may see.  A      *)
(* status code is a text here: the executors copy it.                      *)
(***************************************************************************)
EXTENDS JsonValues

\* The keys and texts of this module are strings: so says TLA+, and so it has to
\* be said to the provers.
ASSUME LiteralsAssumption ==
    {"data", "branch", "payload", "status", "headers", "body", "status_code",
     "error", "code", "true", "false", "text", "200", "RUNTIME_ERROR",
     "TIMEOUT", "INVALID_INPUT"} \subseteq STRING

-----------------------------------------------------------------------------
(* Outcomes of Execute *)

Output(v, label) == [kind |-> "output", output |-> v, label |-> label]
Done(v) == [kind |-> "done", output |-> v]
Error == [kind |-> "error"]
Panic == [kind |-> "panic"]

Envelope(v) == Obj([data |-> v])

\* What every executor but the sandbox takes for granted of an input.
IsEnvelope(v) == Keys(v) = {"data"} /\ IsObj(Field(v, "data"))

-----------------------------------------------------------------------------
(* Start, Conditional *)

StartOutcomes(input) == {Output(input, "default")}

\* The literal of an expression with another operator, with two, or with a
\* right-hand side that Unmarshal refuses; what resolvePath finds if a value on
\* the way is not an object.
Malformed == Leaf([malformed |-> "malformed"])

\* resolvePath
Resolved(path, input) ==
    FoldLeft(LAMBDA v, k : IF IsObj(v) THEN Field(v, k) ELSE Malformed,
             input, path)

Branch(expression, value) ==
    IF value = Decoded(expression.literal) THEN "true" ELSE "false"

\* A slip: the output is built anew instead of annotating the input.
OnlyBranch(input, branch) == Envelope(Obj([branch |-> Str(branch)]))

WithBranch(input, branch) ==
    Obj(Over([data |-> Obj(Over([branch |-> Str(branch)],
                                Fields(Field(input, "data"))))],
             Fields(input)))

\* A slip: data is created where it is missing.
ConditionalCreatesData(expression, input) ==
    LET object == Decoded(input)
        value == Resolved(expression.path, object)
    IN  IF \/ ~Decodable(input) \/ expression.literal = Malformed
           \/ value = Malformed
        THEN {Error}
        ELSE {Output(IF IsObj(Field(object, "data"))
                     THEN WithBranch(object, Branch(expression, value))
                     ELSE Envelope(Obj([branch |-> Str("false")])),
                     Branch(expression, value))}

\* The assertion that data is an object comes after the evaluation, which may
\* succeed without it.
ConditionalOutcomes(expression, input) ==
    LET object == Decoded(input)
        value == Resolved(expression.path, object)
        branch == Branch(expression, value)
    IN  IF \/ ~Decodable(input) \/ expression.literal = Malformed
           \/ value = Malformed
        THEN {Error}
        ELSE IF ~IsObj(Field(object, "data")) THEN {Panic}
        ELSE {Output(WithBranch(object, branch), branch)}

-----------------------------------------------------------------------------
(* General API, Response *)

NoTemplate == Leaf([template |-> "none"])
NotJson == Leaf([template |-> "not JSON"])

\* Templates Unmarshal takes for a map: null makes the map nil.
IsBody(template) ==
    \/ template \in {NoTemplate, Null}
    \/ IsObj(template) /\ Decodable(template)

\* Inputs the envelope's Data map can be decoded from; other fields than data
\* are not looked at.
IsInput(data) == data = Null \/ (IsObj(data) /\ Decodable(data))

\* mergeBody fails: an Unmarshal refuses the template or the envelope, or the
\* template has made the map nil and there is something to write.
MergeFailures(template, input) ==
    LET data == Field(input, "data") IN
    IF ~IsBody(template) \/ ~IsInput(data) THEN {Error}
    ELSE IF template = Null /\ Keys(data) # {} THEN {Panic}
    ELSE {}

\* The template overlaid with data; nil is null.
MergedBody(template, input) ==
    IF template = Null THEN Null
    ELSE Obj(Over(Fields(Decoded(Field(input, "data"))),
                  Fields(Decoded(template))))

\* The reply's body as decodeResponseBody reads it: JSON if it can, else text.
ReplyBody(reply) == IF Decodable(reply) THEN Decoded(reply) ELSE Str("text")

\* A slip: the body alone becomes data.
ApiOutputBody(status, reply) == Envelope(ReplyBody(reply))

ApiOutput(status, reply) ==
    Envelope(Obj([status |-> status, headers |-> Obj(NoFields),
                  body |-> ReplyBody(reply)]))

\* The url is parsed before the body is built.  Any reply is a success, whatever
\* its status; no reply (the network, the timeout) is an error.
ApiOutcomes(config, input, statuses, replies) ==
    LET failures == MergeFailures(config.template, input) IN
    IF ~config.parses THEN {Error}
    ELSE IF failures # {} THEN failures
    ELSE {Error} \cup
         {Output(ApiOutput(s, b), "default") : s \in statuses, b \in replies}

\* A null body is stored as null.
ResponseOutcomes(template, input) ==
    IF MergeFailures(template, input) # {} THEN MergeFailures(template, input)
    ELSE {Done(Envelope(Obj([status_code |-> Str("200"), headers |-> Null,
                             body |-> MergedBody(template, input)])))}

-----------------------------------------------------------------------------
(* Function and sandbox *)

\* What the sandbox answers when it refuses the input, when the user's code
\* throws and when it takes too long - always without a FunctionError.
ErrorPayload(code) == Obj([error |-> Obj([code |-> Str(code)])])

\* The user's code returns a value (maybe what it was given), or undefined,
\* which leaves no key in the answer.
UserAnswers(input, values) ==
    {Obj(NoFields)} \cup
    {Envelope(Decoded(v)) : v \in values \cup {Field(input, "data")}}

SandboxAnswers(input, values) ==
    IF IsEnvelope(input)
    THEN UserAnswers(input, values)
             \cup {ErrorPayload("RUNTIME_ERROR"), ErrorPayload("TIMEOUT")}
    ELSE {ErrorPayload("INVALID_INPUT")}

Answer(v) == [kind |-> "answer", output |-> v]

\* Error: the call itself fails, or Lambda reports a FunctionError (an exit, a
\* crash, an answer it cannot encode).  Every other answer is a success.
Invoked(input, values) ==
    {Error} \cup {Answer(v) : v \in SandboxAnswers(input, values)}

\* The answer is the output as it is.
FunctionOutcomes(input, values) ==
    {IF a = Error THEN Error ELSE Output(a.output, "default") :
         a \in Invoked(input, values)}
=============================================================================
