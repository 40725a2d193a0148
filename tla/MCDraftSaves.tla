---------------------------- MODULE MCDraftSaves ----------------------------
(***************************************************************************)
(* DraftSaves on bodies of up to two nodes and two edges: every list of    *)
(* nodes from a family with each mistake in it, with a few lists of edges, *)
(* and every list of edges with a few lists of nodes, among them two with  *)
(* the names of the nodes swapped and one node less.  A few have a name of *)
(* the workflow that PostgreSQL refuses.                                   *)
(***************************************************************************)
EXTENDS DraftSaves

CONSTANTS nil, n1, n2, e1, e2

Catalogue == [start |-> {"{}", "cfg"}, api |-> {"cfg", "nul"}]

N(id, name, type, config) == [id |-> id, name |-> name, type |-> type, config |-> config]
E(id, from, to, label) == [id |-> id, from |-> from, to |-> to, label |-> label]

SomeNodes ==
    {N(n1, "a", "start", ""), N(n2, "b", "api", "cfg"), N(n1, "b", "start", "{}"),
     N(n2, "a", "api", "nul"), N(n2, " ", "api", "cfg"), N(n2, "b", "api", ""),
     N(n2, "nul", "api", "cfg"), N(n2, "long", "api", "cfg"),
     N(n2, "b", "loop", "cfg"), N(nil, "b", "start", "cfg")}

SomeEdges ==
    {E(e1, n1, n2, ""), E(e2, n1, n2, "default"), E(e1, n2, n1, "true"),
     E(e2, n1, n1, "false"), E(e2, n1, n2, "yes"), E(nil, n1, n2, "true"),
     E(e1, e1, n2, "true"), E(e2, n1, e2, "true")}

UpToTwo(S) == {<< >>} \cup {<<x>> : x \in S} \cup (S \X S)

Pair == <<N(n1, "a", "start", ""), N(n2, "b", "api", "cfg")>>
Swapped == <<N(n2, "a", "start", "cfg"), N(n1, "b", "start", "cfg")>>
Lone == <<N(n1, "b", "start", "{}")>>

FewEdges == {<< >>, <<E(e1, n1, n2, "")>>}

Bodies ==
    [name : {"a"}, nodes : UpToTwo(SomeNodes), edges : FewEdges]
    \cup [name : {"a"}, nodes : {Pair, Swapped, Lone}, edges : UpToTwo(SomeEdges)]
    \cup [name : {"nul"}, nodes : {Pair, Swapped, Lone}, edges : FewEdges]
=============================================================================
