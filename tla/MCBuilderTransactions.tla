----------------------- MODULE MCBuilderTransactions -----------------------
(***************************************************************************)
(* BuilderTransactions on four graphs of up to two nodes: the empty one, a *)
(* lone node, a chain that may be published, and the chain with the names  *)
(* of its nodes swapped and its edge turned, which only deferred           *)
(* constraints let a save store over the first.                            *)
(***************************************************************************)
EXTENDS BuilderTransactions, TLC

CONSTANTS n1, n2, e1, e2

Node(id, name) == [id |-> id, name |-> name]
Edge(id, from, to) == [id |-> id, from |-> from, to |-> to, label |-> "default"]

Lone == [nodes |-> {Node(n1, "start")}, edges |-> {}]
Chain == [nodes |-> {Node(n1, "start"), Node(n2, "end")},
          edges |-> {Edge(e1, n1, n2)}]
Turned == [nodes |-> {Node(n1, "end"), Node(n2, "start")},
           edges |-> {Edge(e2, n2, n1)}]

Saved == {EmptyGraph, Lone, Chain, Turned}
Complete == {Chain, Turned}

Symmetric == Permutations(Clients) \cup Permutations(VersionIds)
=============================================================================
