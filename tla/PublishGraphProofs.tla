------------------------- MODULE PublishGraphProofs -------------------------
(***************************************************************************)
(* Theorems about PublishGraph, for every catalogue of node types, every   *)
(* set of drafts and every order of the two searches: the verdicts are     *)
(* exact, and what is published can be executed to a Response.             *)
(*                                                                         *)
(* KahnInv is the invariant of Kahn's loop: the counters are the edges     *)
(* from nodes not yet peeled, no node of a cycle is peeled, and no endless *)
(* walk lies wholly in the peeled nodes.  ReachInv is the invariant of the *)
(* second loop: what is visited and no longer queued has its successors    *)
(* visited, and everything visited is reachable.                           *)
(***************************************************************************)
EXTENDS PublishGraph, FiniteSetTheorems, TLAPS

\* A set of nodes in which a walk can go on for ever.
Endless(S) == \A v \in S : Successors(v) \cap S # {}

Remaining(n) == {e \in EdgesInto(n) : e.from \notin Peeled}

KahnInv ==
    pc = "kahn" =>
        /\ KahnCounts
        /\ \A n \in queue : in[n] = 0
        /\ \A S \in SUBSET Nodes : FedFromWithin(S) => S \cap Peeled = {}
        /\ \A S \in SUBSET Nodes : S # {} /\ Endless(S) => ~(S \subseteq Peeled)

ReachInv ==
    pc = "reach" =>
        /\ StartId \in visited
        /\ queue \subseteq visited
        /\ \A e \in graph.edges : e.from \in visited \ queue => e.to \in visited
        /\ \A n \in visited : Reachable(n)

Acyclic ==
    pc \in {"reach", "published", "unreachable"} =>
        /\ ~HasCycle
        /\ \A S \in SUBSET Nodes : S # {} => ~Endless(S)

Validated == pc \in {"kahn", "reach", "published"} => WellFormed

Inv == /\ TypeOK /\ Validated
       /\ KahnInv /\ ReachInv
       /\ Acyclic /\ VerdictExact

-----------------------------------------------------------------------------
\* The finite sets of edges that the code counts.
LEMMA EdgesFinite ==
    ASSUME SavedGraph(graph)
    PROVE  /\ \A E \in SUBSET graph.edges :
                 IsFiniteSet(E) /\ Cardinality(E) \in Nat
                     /\ (Cardinality(E) = 0 <=> E = {})
           /\ \A N \in SUBSET Nodes : IsFiniteSet(N) /\ Cardinality(N) \in Nat
  <1>1. IsFiniteSet(graph.edges) /\ IsFiniteSet(Nodes)
    BY DEF SavedGraph, TypedGraph, Nodes
  <1>2. \A E \in SUBSET graph.edges : IsFiniteSet(E)
    BY <1>1, FS_Subset
  <1>3. \A N \in SUBSET Nodes : IsFiniteSet(N)
    BY <1>1, FS_Subset
  <1> QED
    BY <1>2, <1>3, FS_CardinalityType, FS_EmptySet

\* An edge of a draft joins nodes of the draft.
LEMMA EdgeEnds ==
    ASSUME SavedGraph(graph), NEW e \in graph.edges
    PROVE  e.from \in Nodes /\ e.to \in Nodes /\ e.label \in Labels
  BY DEF SavedGraph, TypedGraph, Nodes

\* uniqueStart returns a node of the draft.
LEMMA StartIsNode ==
    ASSUME SavedGraph(graph), UniqueStart
    PROVE  StartId \in Nodes
  <1>1. Starts \in SUBSET Nodes /\ IsFiniteSet(Starts)
    BY EdgesFinite DEF Starts
  <1>2. Starts # {}
    BY <1>1, FS_EmptySet DEF UniqueStart
  <1>3. \E n \in Nodes : graph.type[n] = "start"
    BY <1>2 DEF Starts
  <1> QED
    BY <1>3 DEF StartId

\* Every definition of the graph keeps its value while the graph does.
LEMMA SameGraph ==
    ASSUME graph' = graph
    PROVE  /\ Nodes' = Nodes /\ StartId' = StartId
           /\ WellFormed' <=> WellFormed
           /\ HasCycle' <=> HasCycle
           /\ \A S : Endless(S)' <=> Endless(S)
           /\ \A n : Reachable(n)' <=> Reachable(n)
  BY DEF Nodes, StartId, HasCycle, FedFromWithin, Endless, Successors,
         EdgesInto, EdgesFrom, Reachable, ClosedUnderEdges, WellFormed,
         UniqueStart, Starts, DegreesValid, LabelsValid, InDegree, OutDegree

-----------------------------------------------------------------------------
(* Kahn's loop *)

\* Peeling u takes u from the queue to the peeled nodes and nothing else.
LEMMA PeeledGrows ==
    ASSUME TypeOK, KahnInv, NEW u \in Nodes, KahnStep(u)
    PROVE  /\ u \notin Peeled
           /\ Peeled' = Peeled \cup {u}
           /\ in' \in [Nodes -> Nat]
           /\ \A v \in Nodes : in'[v] = Cardinality(Remaining(v)')
           /\ \A v \in queue' : in'[v] = 0
  <1>0. /\ pc = "kahn" /\ u \in queue /\ graph' = graph
        /\ in' = [v \in Nodes |-> in[v] - Joining(u, v)]
        /\ queue' = (queue \ {u}) \cup {v \in Successors(u) : in'[v] = 0}
    BY DEF KahnStep, Peel
  <1>1. u \notin Peeled
    BY <1>0 DEF Peeled
  <1>2. /\ in \in [Nodes -> Nat] /\ queue \subseteq Nodes /\ SavedGraph(graph)
        /\ \A n \in queue : in[n] = 0
    BY <1>0 DEF TypeOK, KahnInv
  <1>3. \A v \in Nodes : in[v] = Cardinality(Remaining(v))
    BY <1>0 DEF KahnInv, KahnCounts, Remaining
  <1> DEFINE Join(v) == {e \in EdgesFrom(u) : e.to = v}
             Rest(v) == {e \in EdgesInto(v) : e.from \notin Peeled \cup {u}}
  <1>4. ASSUME NEW v \in Nodes
        PROVE  /\ Cardinality(Rest(v)) \in Nat
               /\ in'[v] = Cardinality(Rest(v))
               /\ Join(v) = {} => in'[v] = in[v]
               /\ v \in Successors(u) <=> Join(v) # {}
    <2>1. Remaining(v) = Rest(v) \cup Join(v)
      BY <1>1 DEF Remaining, EdgesInto, EdgesFrom
    <2>2. Rest(v) \cap Join(v) = {}
      BY DEF EdgesInto, EdgesFrom
    <2>3. Rest(v) \in SUBSET graph.edges /\ Join(v) \in SUBSET graph.edges
      BY DEF EdgesInto, EdgesFrom
    <2>4. /\ IsFiniteSet(Rest(v)) /\ Cardinality(Rest(v)) \in Nat
          /\ IsFiniteSet(Join(v)) /\ Cardinality(Join(v)) \in Nat
          /\ Cardinality(Join(v)) = 0 <=> Join(v) = {}
      BY <1>2, <2>3, EdgesFinite
    <2>5. Cardinality(Rest(v) \cap Join(v)) = 0
      BY <2>2, FS_EmptySet
    <2> HIDE DEF Rest, Join
    <2>6. Cardinality(Rest(v) \cup Join(v))
              = Cardinality(Rest(v)) + Cardinality(Join(v))
      BY <2>4, <2>5, FS_Union
    <2>7. in[v] = Cardinality(Rest(v)) + Cardinality(Join(v))
      BY <1>3, <2>1, <2>6
    <2>8. Joining(u, v) = Cardinality(Join(v))
      BY DEF Joining, Join
    <2>9. in'[v] = in[v] - Cardinality(Join(v))
      BY <1>0, <2>8
    <2>10. v \in Successors(u) <=> Join(v) # {}
      BY DEF Successors, Join
    <2> QED
      BY <2>4, <2>7, <2>9, <2>10
  <1>5. in' \in [Nodes -> Nat]
    BY <1>0, <1>4
  <1>6. \A v \in queue' : in'[v] = 0
    <2> SUFFICES ASSUME NEW v \in queue \ {u} PROVE in'[v] = 0
      BY <1>0
    <2>1. v \in Nodes /\ in[v] = 0 /\ in'[v] \in Nat
      BY <1>2, <1>5
    <2>2. Joining(u, v) \in Nat
      <3>1. Join(v) \in SUBSET graph.edges
        BY DEF EdgesFrom
      <3> QED
        BY <1>2, <3>1, EdgesFinite DEF Joining
    <2> QED
      BY <1>0, <2>1, <2>2
  <1>7. in'[u] = 0 /\ u \notin Successors(u)
    <2>1. Remaining(u) \in SUBSET graph.edges
      BY DEF Remaining, EdgesInto
    <2>2. Remaining(u) = {}
      BY <1>0, <1>2, <1>3, <2>1, EdgesFinite
    <2>3. Join(u) = {}
      BY <1>1, <2>2 DEF Remaining, EdgesFrom, EdgesInto
    <2> QED
      BY <1>0, <1>2, <1>4, <2>3
  <1>8. Peeled' = Peeled \cup {u}
    <2>1. u \in Peeled'
      BY <1>0, <1>7 DEF Peeled, Nodes
    <2>2. ASSUME NEW v \in Peeled PROVE v \in Peeled'
      <3>1. v \in Nodes /\ in[v] = 0 /\ v \notin queue
        BY DEF Peeled
      <3>2. Remaining(v) \in SUBSET graph.edges
        BY DEF Remaining, EdgesInto
      <3>3. Remaining(v) = {}
        BY <1>2, <1>3, <3>1, <3>2, EdgesFinite
      <3>4. Join(v) = {}
        BY <1>1, <3>3 DEF Remaining, EdgesFrom, EdgesInto
      <3>5. in'[v] = 0 /\ v \notin Successors(u)
        BY <1>4, <3>1, <3>4
      <3> QED
        BY <1>0, <3>1, <3>5 DEF Peeled, Nodes
    <2>3. ASSUME NEW v \in Peeled', v # u PROVE v \in Peeled
      <3>1. v \in Nodes /\ in'[v] = 0 /\ v \notin queue'
        BY <1>0, <2>3 DEF Peeled, Nodes
      <3>2. v \notin Successors(u) /\ v \notin queue
        BY <1>0, <2>3, <3>1
      <3>3. in[v] = 0
        BY <1>4, <3>1, <3>2
      <3> QED
        BY <3>1, <3>2, <3>3 DEF Peeled
    <2> QED
      BY <2>1, <2>2, <2>3
  <1>9. ASSUME NEW v \in Nodes PROVE in'[v] = Cardinality(Remaining(v)')
    <2>1. Remaining(v)' = Rest(v)
      BY <1>0, <1>8 DEF Remaining, EdgesInto
    <2> QED
      BY <1>4, <2>1
  <1> QED
    BY <1>1, <1>5, <1>6, <1>8, <1>9

\* An iteration of Kahn's loop keeps its invariant.
LEMMA KahnStepInv ==
    ASSUME Inv, NEW u \in Nodes, KahnStep(u)
    PROVE  Inv'
  <1>0. /\ pc = "kahn" /\ pc' = "kahn" /\ graph' = graph /\ u \in queue
        /\ removed' = removed + 1 /\ visited' = visited
        /\ queue' = (queue \ {u}) \cup {v \in Successors(u) : in'[v] = 0}
    BY DEF KahnStep, Peel
  <1>1. TypeOK /\ KahnInv /\ SavedGraph(graph)
    BY DEF Inv, TypeOK
  <1>2. /\ u \notin Peeled
        /\ Peeled' = Peeled \cup {u}
        /\ in' \in [Nodes -> Nat]
        /\ \A v \in Nodes : in'[v] = Cardinality(Remaining(v)')
        /\ \A v \in queue' : in'[v] = 0
    BY <1>1, PeeledGrows
  <1>3. Successors(u) \subseteq Nodes
    BY <1>1, EdgeEnds DEF Successors, EdgesFrom
  <1>4. TypeOK'
    BY <1>0, <1>1, <1>2, <1>3 DEF TypeOK, Nodes
  <1>5. Peeled \in SUBSET Nodes /\ Cardinality(Peeled') = Cardinality(Peeled) + 1
    <2>1. Peeled \in SUBSET Nodes
      BY DEF Peeled
    <2>2. IsFiniteSet(Peeled)
      BY <1>1, <2>1, EdgesFinite
    <2> QED
      BY <1>2, <2>1, <2>2, FS_AddElement
  <1>6. KahnCounts'
    BY <1>0, <1>1, <1>2, <1>5 DEF KahnInv, KahnCounts, Remaining, Nodes
  <1>7. Remaining(u) = {} /\ \A v \in Peeled : Remaining(v) = {}
    <2> SUFFICES ASSUME NEW v \in Peeled \cup {u} PROVE Remaining(v) = {}
      OBVIOUS
    <2>1. v \in Nodes /\ in[v] = 0
      BY <1>0, <1>1 DEF KahnInv, Peeled
    <2>2. Remaining(v) \in SUBSET graph.edges /\ Cardinality(Remaining(v)) = 0
      BY <1>0, <1>1, <2>1 DEF KahnInv, KahnCounts, Remaining, EdgesInto
    <2> QED
      BY <1>1, <2>2, EdgesFinite
  <1>8. ASSUME NEW S \in SUBSET Nodes, FedFromWithin(S)
        PROVE  S \cap (Peeled \cup {u}) = {}
    <2>1. S \cap Peeled = {}
      BY <1>0, <1>1, <1>8 DEF KahnInv
    <2>2. u \notin S
      BY <1>7, <1>8, <2>1 DEF FedFromWithin, Remaining
    <2> QED
      BY <2>1, <2>2
  <1>9. ASSUME NEW S \in SUBSET Nodes, S # {}, Endless(S)
        PROVE  ~(S \subseteq Peeled \cup {u})
    <2> SUFFICES ASSUME S \subseteq Peeled \cup {u} PROVE FALSE
      OBVIOUS
    <2>1. ~(S \subseteq Peeled)
      BY <1>0, <1>1, <1>9 DEF KahnInv
    <2>2. u \in S
      BY <2>1
    <2>3. PICK e \in EdgesFrom(u) : e.to \in S
      BY <1>9, <2>2 DEF Endless, Successors
    <2>4. e \in Remaining(e.to)
      BY <1>2, <2>3 DEF EdgesFrom, EdgesInto, Remaining
    <2> QED
      BY <1>7, <2>3, <2>4
  <1>10. KahnInv'
    <2>1. \A S \in SUBSET Nodes : FedFromWithin(S)' => S \cap Peeled' = {}
      BY <1>0, <1>2, <1>8 DEF FedFromWithin, EdgesInto
    <2>2. \A S \in SUBSET Nodes : S # {} /\ Endless(S)' => ~(S \subseteq Peeled')
      BY <1>0, <1>2, <1>9 DEF Endless, Successors, EdgesFrom
    <2>3. Nodes' = Nodes
      BY <1>0 DEF Nodes
    <2> QED
      BY <1>2, <1>6, <2>1, <2>2, <2>3 DEF KahnInv
  <1>11. Validated'
    BY <1>0, SameGraph DEF Inv, Validated
  <1> QED
    BY <1>0, <1>4, <1>10, <1>11 DEF Inv, ReachInv, Acyclic, VerdictExact

\* The loop starts with nothing peeled.
LEMMA KahnInitInv ==
    ASSUME Inv, KahnInit
    PROVE  Inv'
  <1>0. /\ pc' = "kahn" /\ graph' = graph /\ removed' = 0 /\ visited' = visited
        /\ in' = [n \in Nodes |-> InDegree(n)]
        /\ queue' = {n \in Nodes : InDegree(n) = 0}
        /\ WellFormed
    BY DEF KahnInit
  <1>1. SavedGraph(graph) /\ visited \subseteq Nodes
    BY DEF Inv, TypeOK
  <1>2. Nodes' = Nodes
    BY <1>0 DEF Nodes
  <1>3. \A n \in Nodes : InDegree(n) \in Nat
    <2> TAKE n \in Nodes
    <2>1. EdgesInto(n) \in SUBSET graph.edges
      BY DEF EdgesInto
    <2> QED
      BY <1>1, <2>1, EdgesFinite DEF InDegree
  <1>4. TypeOK'
    BY <1>0, <1>1, <1>2, <1>3 DEF TypeOK
  <1>5. Peeled' = {}
    BY <1>0, <1>2 DEF Peeled
  <1>6. \A n \in Nodes : Remaining(n)' = EdgesInto(n)
    BY <1>0, <1>5 DEF Remaining, EdgesInto
  <1>7. KahnCounts'
    BY <1>0, <1>2, <1>5, <1>6, FS_EmptySet DEF KahnCounts, Remaining, InDegree
  <1>8. KahnInv'
    BY <1>0, <1>2, <1>5, <1>7 DEF KahnInv
  <1>9. Validated'
    BY <1>0, SameGraph DEF Validated
  <1> QED
    BY <1>0, <1>4, <1>8, <1>9 DEF Inv, ReachInv, Acyclic, VerdictExact

\* The count of peeled nodes tells whether there is a cycle.
LEMMA KahnDoneInv ==
    ASSUME Inv, KahnDone
    PROVE  Inv'
  <1>0. /\ pc = "kahn" /\ queue = {} /\ graph' = graph /\ in' = in
        /\ removed' = removed
    BY DEF KahnDone
  <1>1. /\ TypeOK /\ SavedGraph(graph) /\ WellFormed /\ KahnCounts
        /\ removed = Cardinality(Peeled)
        /\ \A S \in SUBSET Nodes : FedFromWithin(S) => S \cap Peeled = {}
        /\ \A S \in SUBSET Nodes : S # {} /\ Endless(S) => ~(S \subseteq Peeled)
    BY <1>0 DEF Inv, TypeOK, KahnInv, KahnCounts, Validated
  <1>2. Peeled \in SUBSET Nodes /\ IsFiniteSet(Nodes)
    BY <1>1, EdgesFinite DEF Peeled
  <1>3. StartId \in Nodes
    BY <1>1, StartIsNode DEF WellFormed
  <1>4. /\ Nodes' = Nodes /\ StartId' = StartId /\ WellFormed'
        /\ HasCycle' <=> HasCycle
        /\ \A S : Endless(S)' <=> Endless(S)
        /\ \A n : Reachable(n)' <=> Reachable(n)
    BY <1>0, <1>1, SameGraph
  <1>5. CASE removed # Cardinality(Nodes)
    <2>1. pc' = "cyclic" /\ visited' = visited /\ queue' = queue
      BY <1>5 DEF KahnDone
    <2>2. FedFromWithin(Nodes \ Peeled) /\ Nodes \ Peeled # {}
      <3>1. Nodes \ Peeled # {}
        BY <1>1, <1>2, <1>5
      <3>2. ASSUME NEW v \in Nodes \ Peeled
            PROVE  \E e \in EdgesInto(v) : e.from \in Nodes \ Peeled
        <4>1. in[v] # 0
          BY <1>0, <3>2 DEF Peeled
        <4>2. Remaining(v) \in SUBSET graph.edges
                /\ in[v] = Cardinality(Remaining(v))
          BY <1>0, <1>1, <3>2 DEF KahnCounts, Remaining, EdgesInto
        <4>3. PICK e \in Remaining(v) : TRUE
          BY <1>1, <4>1, <4>2, EdgesFinite
        <4>4. e.from \in Nodes
          BY <1>1, <4>2, EdgeEnds
        <4> QED
          BY <4>3, <4>4 DEF Remaining
      <3> QED
        BY <3>1, <3>2 DEF FedFromWithin
    <2>3. HasCycle
      BY <2>2 DEF HasCycle
    <2>4. TypeOK'
      BY <1>0, <1>1, <1>4, <2>1 DEF TypeOK, Verdicts
    <2> QED
      BY <1>4, <2>1, <2>3, <2>4
         DEF Inv, Validated, KahnInv, ReachInv, Acyclic, VerdictExact
  <1>6. CASE removed = Cardinality(Nodes)
    <2>1. pc' = "reach" /\ visited' = {StartId} /\ queue' = {StartId}
      BY <1>6 DEF KahnDone
    <2>2. Peeled = Nodes
      BY <1>1, <1>2, <1>6, FS_Subset
    <2>3. ~HasCycle /\ \A S \in SUBSET Nodes : S # {} => ~Endless(S)
      BY <1>1, <2>2 DEF HasCycle
    <2>4. TypeOK'
      BY <1>0, <1>1, <1>3, <1>4, <2>1 DEF TypeOK, Verdicts
    <2>5. Reachable(StartId)
      BY DEF Reachable
    <2>6. ReachInv'
      BY <1>4, <2>1, <2>5 DEF ReachInv
    <2>7. Acyclic'
      BY <1>4, <2>3 DEF Acyclic
    <2> QED
      BY <1>4, <2>1, <2>3, <2>4, <2>6, <2>7
         DEF Inv, Validated, KahnInv, VerdictExact
  <1> QED
    BY <1>5, <1>6

-----------------------------------------------------------------------------
(* The search from Start *)

\* A successor of a reachable node is reachable.
LEMMA ReachableGrows ==
    ASSUME SavedGraph(graph), NEW u \in Nodes, Reachable(u),
           NEW v \in Successors(u)
    PROVE  v \in Nodes /\ Reachable(v)
  <1>1. PICK e \in graph.edges : e.from = u /\ e.to = v
    BY DEF Successors, EdgesFrom
  <1> QED
    BY <1>1, EdgeEnds DEF Reachable, ClosedUnderEdges

\* An iteration of the search keeps its invariant.
LEMMA ReachStepInv ==
    ASSUME Inv, NEW u \in Nodes, ReachStep(u)
    PROVE  Inv'
  <1>0. /\ pc = "reach" /\ pc' = "reach" /\ graph' = graph /\ u \in queue
        /\ in' = in /\ removed' = removed
        /\ visited' = visited \cup Successors(u)
        /\ queue' = (queue \ {u}) \cup (Successors(u) \ visited)
    BY DEF ReachStep, Visit
  <1>1. /\ TypeOK /\ SavedGraph(graph)
        /\ StartId \in visited /\ queue \subseteq visited
        /\ \A e \in graph.edges : e.from \in visited \ queue => e.to \in visited
        /\ \A n \in visited : Reachable(n)
    BY <1>0 DEF Inv, TypeOK, ReachInv
  <1>2. \A v \in Successors(u) : v \in Nodes /\ Reachable(v)
    BY <1>0, <1>1, ReachableGrows
  <1>3. TypeOK'
    BY <1>0, <1>1, <1>2, SameGraph DEF TypeOK
  <1>4. \A e \in graph.edges : e.from \in visited' \ queue' => e.to \in visited'
    <2> SUFFICES ASSUME NEW e \in graph.edges, e.from \in visited' \ queue'
                 PROVE  e.to \in visited'
      OBVIOUS
    <2>1. CASE e.from = u
      BY <1>0, <2>1 DEF Successors, EdgesFrom
    <2>2. CASE e.from # u
      BY <1>0, <1>1, <2>2
    <2> QED
      BY <2>1, <2>2
  <1>5. ReachInv'
    BY <1>0, <1>1, <1>2, <1>4, SameGraph DEF ReachInv
  <1> QED
    BY <1>0, <1>3, <1>5, SameGraph
       DEF Inv, Validated, KahnInv, Acyclic, VerdictExact

\* The number of visited nodes tells whether all can be reached.
LEMMA ReachDoneInv ==
    ASSUME Inv, ReachDone
    PROVE  Inv'
  <1>0. /\ pc = "reach" /\ queue = {}
        /\ UNCHANGED <<graph, in, removed, visited, queue>>
        /\ pc' \in {"published", "unreachable"}
        /\ pc' = "published" <=> Cardinality(visited) = Cardinality(Nodes)
    BY DEF ReachDone
  <1>1. /\ TypeOK /\ SavedGraph(graph) /\ visited \in SUBSET Nodes
        /\ StartId \in visited
        /\ \A e \in graph.edges : e.from \in visited => e.to \in visited
        /\ \A n \in visited : Reachable(n)
    BY <1>0 DEF Inv, TypeOK, ReachInv
  <1>2. pc' = "published" => \A n \in Nodes : Reachable(n)
    BY <1>0, <1>1, EdgesFinite, FS_Subset
  <1>3. pc' = "unreachable" => \E n \in Nodes : ~Reachable(n)
    <2> SUFFICES ASSUME pc' = "unreachable" PROVE \E n \in Nodes : ~Reachable(n)
      OBVIOUS
    <2>1. PICK n \in Nodes : n \notin visited
      BY <1>0, <1>1
    <2>2. ~Reachable(n)
      BY <1>1, <2>1 DEF Reachable, ClosedUnderEdges
    <2> QED
      BY <2>2
  <1>4. TypeOK'
    BY <1>0, <1>1, SameGraph DEF TypeOK, Verdicts
  <1> QED
    BY <1>0, <1>2, <1>3, <1>4, SameGraph
       DEF Inv, Validated, KahnInv, ReachInv, Acyclic, VerdictExact

-----------------------------------------------------------------------------
\* The invariant holds at first.
LEMMA InvInit == Init => Inv
  <1> SUFFICES ASSUME Init PROVE Inv
    OBVIOUS
  <1>1. TypeOK
    BY DraftsAssumption DEF Init, TypeOK
  <1> QED
    BY <1>1 DEF Init, Inv, Validated, KahnInv, ReachInv, Acyclic, VerdictExact

\* The invariant is inductive.
LEMMA InvStep == Inv /\ [Next]_vars => Inv'
  <1> SUFFICES ASSUME Inv, [Next]_vars PROVE Inv'
    OBVIOUS
  <1>1. CASE UNCHANGED vars
    <2>1. UNCHANGED <<graph, pc, in, removed, visited, queue>>
      BY <1>1 DEF vars
    <2>2. Peeled' = Peeled /\ KahnCounts' = KahnCounts
      BY <2>1 DEF Peeled, KahnCounts, Nodes, EdgesInto
    <2>3. \A S : FedFromWithin(S)' <=> FedFromWithin(S)
      BY <2>1 DEF FedFromWithin, EdgesInto
    <2>4. TypeOK' /\ Validated' /\ Acyclic' /\ VerdictExact' /\ ReachInv'
      BY <2>1, SameGraph DEF Inv, TypeOK, Validated, Acyclic, VerdictExact, ReachInv
    <2>5. KahnInv'
      BY <2>1, <2>2, <2>3, SameGraph DEF Inv, KahnInv
    <2> QED
      BY <2>4, <2>5 DEF Inv
  <1>2. CASE Malformed
    <2>1. pc' = "malformed" /\ UNCHANGED <<graph, in, removed, visited, queue>>
      BY <1>2 DEF Malformed
    <2>2. TypeOK'
      BY <2>1, SameGraph DEF Inv, TypeOK, Verdicts
    <2> QED
      BY <2>1, <2>2 DEF Inv, Validated, KahnInv, ReachInv, Acyclic, VerdictExact
  <1>3. CASE \E u \in Nodes : KahnStep(u) \/ ReachStep(u)
    BY <1>3, KahnStepInv, ReachStepInv
  <1> QED
    BY <1>1, <1>2, <1>3, KahnInitInv, KahnDoneInv, ReachDoneInv DEF Next

\* Types, among them that no counter of hasCycleKahn ever goes below zero.
THEOREM ValidationTyped == Spec => []TypeOK
  <1>1. Inv => TypeOK
    BY DEF Inv
  <1> QED
    BY <1>1, InvInit, InvStep, PTL DEF Spec

\* hasCycleKahn and reachableFromStart give the exact verdict, whatever the
\* graph and the order in which Go's maps are traversed.
THEOREM VerdictsAreExact == Spec => []VerdictExact
  <1>1. Inv => VerdictExact
    BY DEF Inv
  <1> QED
    BY <1>1, InvInit, InvStep, PTL DEF Spec

\* The counters of Kahn's loop are what it believes they are.
THEOREM KahnCountsEdges == Spec => []KahnCounts
  <1>1. Inv => KahnCounts
    BY DEF Inv, KahnInv, KahnCounts
  <1> QED
    BY <1>1, InvInit, InvStep, PTL DEF Spec

\* What validatePublishGraph lets through, the workers can execute: the edge
\* for the label an executor returns exists and is unique, and no run goes on
\* for ever.
THEOREM PublishedCanRun == Spec => []ExecutionReady
  <1>1. Inv => ExecutionReady
    <2> SUFFICES ASSUME Inv, pc = "published" PROVE ExecutionReady
      BY DEF ExecutionReady
    <2>1. SavedGraph(graph) /\ DegreesValid /\ LabelsValid
      BY DEF Inv, TypeOK, Validated, WellFormed
    <2>2. ASSUME NEW n \in Nodes, NEW l \in ReturnedLabels(n)
          PROVE  \E e \in EdgesFrom(n) : e.label = l
      <3>1. CASE graph.type[n] = "conditional"
        BY <2>1, <2>2, <3>1 DEF ReturnedLabels, LabelsValid
      <3>2. CASE graph.type[n] # "conditional"
        <4>1. l = "default" /\ graph.type[n] # "response"
          BY <2>2, <3>2 DEF ReturnedLabels
        <4>2. graph.type[n] \in Types
          BY <2>1 DEF SavedGraph, TypedGraph, Nodes
        <4>3. /\ Degrees[graph.type[n]].minOut >= 1
              /\ Degrees[graph.type[n]].minOut \in Nat
              /\ Degrees[graph.type[n]].maxOut \in Nat
          BY <4>1, <4>2, DegreesAssumption
        <4>4. EdgesFrom(n) \in SUBSET graph.edges
          BY DEF EdgesFrom
        <4>5. Cardinality(EdgesFrom(n)) \in Nat
                /\ (Cardinality(EdgesFrom(n)) = 0 <=> EdgesFrom(n) = {})
          BY <2>1, <4>4, EdgesFinite
        <4>6. Cardinality(EdgesFrom(n)) >= 1
          BY <2>1, <4>3 DEF DegreesValid, OutDegree
        <4>7. PICK e \in EdgesFrom(n) : TRUE
          BY <4>5, <4>6
        <4> QED
          BY <2>1, <3>2, <4>1, <4>7 DEF LabelsValid
      <3> QED
        BY <3>1, <3>2
    <2>3. \A n \in Nodes : \A e, f \in EdgesFrom(n) : e.label = f.label => e = f
      BY <2>1 DEF SavedGraph, TypedGraph, EdgesFrom
    <2>4. \A S \in SUBSET Nodes : S # {} => \E v \in S : Successors(v) \cap S = {}
      BY DEF Inv, Acyclic, Endless
    <2> QED
      BY <2>2, <2>3, <2>4 DEF ExecutionReady
  <1> QED
    BY <1>1, InvInit, InvStep, PTL DEF Spec

\* GraphAssumption of Execution for the graph that is published, with the
\* Responses and the edges it has: the constant graph of that module is one that
\* validatePublishGraph lets through.
Executable ==
    pc = "published" =>
        LET responses == {n \in Nodes : graph.type[n] = "response"}
            next == [n \in Nodes |-> Successors(n)]
        IN /\ StartId \in Nodes
           /\ responses \subseteq Nodes
           /\ next \in [Nodes -> SUBSET Nodes]
           /\ \A n \in Nodes \ responses : next[n] # {}

\* What publishing provides is what Execution assumes of a pinned version.
THEOREM PublishedFitsExecution == Spec => []Executable
  <1>1. ExecutionReady /\ Inv => Executable
    <2> SUFFICES ASSUME ExecutionReady, Inv, pc = "published"
                 PROVE  /\ StartId \in Nodes
                        /\ \A n \in Nodes : Successors(n) \in SUBSET Nodes
                        /\ \A n \in Nodes :
                              graph.type[n] # "response" => Successors(n) # {}
      BY DEF Executable
    <2>1. SavedGraph(graph) /\ UniqueStart
      BY DEF Inv, TypeOK, Validated, WellFormed
    <2>2. \A n \in Nodes : Successors(n) \in SUBSET Nodes
      BY <2>1, EdgeEnds DEF Successors, EdgesFrom
    <2>3. ASSUME NEW n \in Nodes, graph.type[n] # "response"
          PROVE  Successors(n) # {}
      <3>1. \E l : l \in ReturnedLabels(n)
        BY <2>3 DEF ReturnedLabels
      <3>2. PICK e \in EdgesFrom(n) : TRUE
        BY <3>1 DEF ExecutionReady
      <3> QED
        BY <3>2 DEF Successors
    <2> QED
      BY <2>1, <2>2, <2>3, StartIsNode
  <1>2. Spec => []Inv
    BY InvInit, InvStep, PTL DEF Spec
  <1> QED
    BY <1>1, <1>2, PublishedCanRun, PTL
=============================================================================
