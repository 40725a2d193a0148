--------------------------- MODULE MCNodeOutputs ---------------------------
(***************************************************************************)
(* NodeOutputs with one run of an arbitrary version and a bystander whose  *)
(* version is start -> response.  MaxExact = 2 and MaxFloat = 8 in the     *)
(* configurations: 5 is rounded to 4, 9 is out of range.                   *)
(***************************************************************************)
EXTENDS NodeOutputs

CONSTANTS subject, bystander

Nul == Leaf(NulText)

Expression(path, literal) == [path |-> path, literal |-> literal]

Expressions == {
    Expression(<<"data">>, Malformed),
    Expression(<<"data", "payload">>, Num(4)),
    Expression(<<"data", "payload", "x">>, Null),
    Expression(<<"data", "body", "x">>, Num(5)),
    Expression(<<"data">>, Null),
    Expression(<<"error", "code">>, Str("TIMEOUT"))}

Template(t) == [template |-> t]

Request(parses, t) == [parses |-> parses, template |-> t]

AnyVersion ==
    {Node("conditional", e) : e \in Expressions}
        \cup {Node("api", Request(TRUE, t)) :
                  t \in {NotJson, Null, Obj([x |-> Num(1)])}}
        \cup {Node("api", Request(FALSE, Null))}
        \cup {Node("function", NoConfig)}
        \cup {Node("response", Template(t)) :
                  t \in {NoTemplate, Null, Str("text"), Obj([payload |-> Nul])}}

MCVersions ==
    subject :> AnyVersion @@ bystander :> {Node("response", Template(NoTemplate))}

MCPayloads ==
    subject :> {Null, Num(5), Num(9), Nul, Obj([x |-> Num(1)])}
        @@ bystander :> {Null}

MCStatuses == {Str("500")}

MCReplies == {Null, Obj([x |-> Num(5)]), Obj([x |-> Num(9)])}

MCValues == {Num(1), Nul, Obj([payload |-> Str("b")])}
=============================================================================
