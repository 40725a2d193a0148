--------------------------- MODULE MCPublishGraph ---------------------------
(***************************************************************************)
(* PublishGraph on all small drafts of a family.  The degree bounds are    *)
(* those the migrations seed, and those of one more type, "merge", with    *)
(* two edges in: node_types is a catalogue, publish_validate.go is written *)
(* for any, and only with joins do the searches meet loops they can enter, *)
(* parallel edges and nodes that are found twice.                          *)
(***************************************************************************)
EXTENDS PublishGraph, TLC

CONSTANTS s, a, b, c, q

Bounds(minIn, maxIn, minOut, maxOut) ==
    [minIn |-> minIn, maxIn |-> maxIn, minOut |-> minOut, maxOut |-> maxOut]

\* db/migrations/00003_seed_node_types.sql, and merge
Catalogue ==
    "start" :> Bounds(0, 0, 1, 1) @@ "conditional" :> Bounds(1, 1, 2, 2)
        @@ "api" :> Bounds(1, 1, 1, 1) @@ "response" :> Bounds(1, 1, 0, 0)
        @@ "merge" :> Bounds(1, 2, 1, 1)

NodeIds == {s, a, b, c, q}

\* The sets of at most two edges out of one node that a draft can hold.
Out(n, targets, labels) ==
    {E \in SUBSET [from : {n}, to : targets, label : labels] :
        /\ Cardinality(E) <= 2
        /\ \A e, f \in E : e.label = f.label => e = f}

NoNodes == [nodes |-> {}, type |-> << >>, edges |-> {}]

\* One Start or two, one Response or two, every shape, and wrong labels out of
\* Start and out of the conditional.
Drafts ==
    {NoNodes} \cup
    {[nodes |-> NodeIds, edges |-> es \cup ea \cup eb \cup ec,
      type |-> s :> "start" @@ a :> ofA @@ b :> ofB
                 @@ c :> "conditional" @@ q :> "response"] :
        ofA \in {"merge", "start"}, ofB \in {"response", "merge"},
        es \in Out(s, {a, b, c, q}, {"default", "true"}),
        ea \in Out(a, NodeIds, {"default"}), eb \in Out(b, {a, b, c, q}, {"default"}),
        ec \in Out(c, {a, b, c, q}, Labels)}
=============================================================================
