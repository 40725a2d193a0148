---------------------------- MODULE PublishGraph ----------------------------
(***************************************************************************)
(* Validation of a draft graph before publish (internal/handler/workflow/  *)
(* publish_validate.go): one Start, degrees within the bounds of the node  *)
(* types, labels, no cycle (Kahn's peeling), every node reachable from     *)
(* Start.  The two searches are loops whose order depends on the iteration *)
(* of Go maps; here one action is one iteration and the queue is a set, so *)
(* every order is a behaviour.                                             *)
(*                                                                         *)
(* The graph is whatever an earlier save left in the draft: uniqueEdges of *)
(* graph.go and the keys of workflow_edges make it a SavedGraph.           *)
(***************************************************************************)
EXTENDS Integers, FiniteSets, DraftGraphs

CONSTANTS
    Degrees,   \* node_types: the degree bounds of each type
    Graphs     \* the drafts considered

Types == DOMAIN Degrees

\* A draft the builder can have stored.
SavedGraph(g) == TypedGraph(g, Types)

ASSUME DegreesAssumption ==
    /\ {"start", "conditional", "response"} \subseteq Types
    /\ Degrees \in [Types -> [minIn : Nat, maxIn : Nat,
                              minOut : Nat, maxOut : Nat]]
    /\ \A t \in Types \ {"response"} : Degrees[t].minOut >= 1

ASSUME DraftsAssumption == \A g \in Graphs : SavedGraph(g)

VARIABLES
    graph,     \* the draft: nodes, their types, edges
    pc,        \* the check under way, or the verdict
    in,        \* hasCycleKahn: in-degrees that remain
    removed,   \* hasCycleKahn: the number of nodes peeled
    visited,   \* reachableFromStart
    queue      \* the nodes waiting in either search

vars == <<graph, pc, in, removed, visited, queue>>

Nodes == graph.nodes

\* "published": the validation returns nil.  The others name its errors.
Verdicts == {"published", "malformed", "cyclic", "unreachable"}

TypeOK ==
    /\ SavedGraph(graph)
    /\ pc \in {"validate", "kahn", "reach"} \cup Verdicts
    /\ in \in [Nodes -> Nat]
    /\ removed \in Nat
    /\ visited \subseteq Nodes
    /\ queue \subseteq Nodes

-----------------------------------------------------------------------------
(* newPublishGraph *)

EdgesInto(n) == {e \in graph.edges : e.to = n}

EdgesFrom(n) == {e \in graph.edges : e.from = n}

Successors(n) == {e.to : e \in EdgesFrom(n)}

\* A slip: parallel edges counted once.
NeighboursIn(n) == Cardinality({e.from : e \in EdgesInto(n)})

InDegree(n) == Cardinality(EdgesInto(n))

OutDegree(n) == Cardinality(EdgesFrom(n))

Starts == {n \in Nodes : graph.type[n] = "start"}

UniqueStart == Cardinality(Starts) = 1

StartId == CHOOSE n \in Nodes : graph.type[n] = "start"

DegreesValid ==
    \A n \in Nodes : LET d == Degrees[graph.type[n]] IN
        InDegree(n) \in d.minIn .. d.maxIn /\ OutDegree(n) \in d.minOut .. d.maxOut

\* A slip: only the labels of the other nodes are looked at.
LabelsOfPlainNodes ==
    \A n \in Nodes : graph.type[n] # "conditional" =>
        \A e \in EdgesFrom(n) : e.label = "default"

\* validateEdgeLabels: exactly true and false out of a conditional, default
\* out of every other node.
LabelsValid ==
    \A n \in Nodes :
        IF graph.type[n] = "conditional"
        THEN /\ OutDegree(n) = 2
             /\ \A l \in {"true", "false"} : \E e \in EdgesFrom(n) : e.label = l
        ELSE \A e \in EdgesFrom(n) : e.label = "default"

-----------------------------------------------------------------------------
Init ==
    /\ graph \in Graphs
    /\ pc = "validate"
    /\ in = [n \in Nodes |-> 0]
    /\ removed = 0
    /\ visited = {}
    /\ queue = {}

WellFormed == Nodes # {} /\ UniqueStart /\ DegreesValid /\ LabelsValid

Malformed ==
    /\ pc = "validate" /\ ~WellFormed
    /\ pc' = "malformed"
    /\ UNCHANGED <<graph, in, removed, visited, queue>>

KahnInit ==
    /\ pc = "validate" /\ WellFormed
    /\ pc' = "kahn"
    /\ in' = [n \in Nodes |-> InDegree(n)]
    /\ queue' = {n \in Nodes : InDegree(n) = 0}
    /\ removed' = 0
    /\ UNCHANGED <<graph, visited>>

\* Edges from u to v: one decrement of in[v] each.
Joining(u, v) == Cardinality({e \in EdgesFrom(u) : e.to = v})

\* A slip: a successor is queued whatever in-degree it has left.
QueueSuccessors(u) ==
    /\ in' = [v \in Nodes |-> in[v] - Joining(u, v)]
    /\ queue' = (queue \ {u}) \cup Successors(u)

Peel(u) ==
    /\ in' = [v \in Nodes |-> in[v] - Joining(u, v)]
    /\ queue' = (queue \ {u}) \cup {v \in Successors(u) : in'[v] = 0}

KahnStep(u) ==
    /\ pc = "kahn" /\ u \in queue
    /\ Peel(u)
    /\ removed' = removed + 1
    /\ UNCHANGED <<graph, pc, visited>>

KahnDone ==
    /\ pc = "kahn" /\ queue = {}
    /\ IF removed # Cardinality(Nodes)
       THEN pc' = "cyclic" /\ UNCHANGED <<visited, queue>>
       ELSE pc' = "reach" /\ visited' = {StartId} /\ queue' = {StartId}
    /\ UNCHANGED <<graph, in, removed>>

\* A slip: the head of the queue is looked at and left there.
VisitHeadKept(u) ==
    /\ visited' = visited \cup Successors(u)
    /\ queue' = queue \cup (Successors(u) \ visited)

Visit(u) ==
    /\ visited' = visited \cup Successors(u)
    /\ queue' = (queue \ {u}) \cup (Successors(u) \ visited)

ReachStep(u) ==
    /\ pc = "reach" /\ u \in queue
    /\ Visit(u)
    /\ UNCHANGED <<graph, pc, in, removed>>

ReachDone ==
    /\ pc = "reach" /\ queue = {}
    /\ pc' = IF Cardinality(visited) = Cardinality(Nodes)
             THEN "published" ELSE "unreachable"
    /\ UNCHANGED <<graph, in, removed, visited, queue>>

Next ==
    \/ Malformed \/ KahnInit \/ KahnDone \/ ReachDone
    \/ \E u \in Nodes : KahnStep(u) \/ ReachStep(u)

Spec == Init /\ [][Next]_vars

FairSpec == Spec /\ WF_vars(Next)

-----------------------------------------------------------------------------
(* What the checks mean *)

\* A set of nodes each of which has a predecessor in the set: in a finite
\* graph, a cycle and what hangs off it.
FedFromWithin(S) == \A v \in S : \E e \in EdgesInto(v) : e.from \in S

HasCycle == \E S \in SUBSET Nodes : S # {} /\ FedFromWithin(S)

ClosedUnderEdges(C) == \A e \in graph.edges : e.from \in C => e.to \in C

Reachable(n) ==
    \A C \in SUBSET Nodes : StartId \in C /\ ClosedUnderEdges(C) => n \in C

\* Kahn's loop keeps, for each node, the number of edges from nodes it has not
\* peeled; peeled nodes are those with no such edge that left the queue.  This
\* is what makes the final count of peeled nodes mean anything.
Peeled == {n \in Nodes : in[n] = 0 /\ n \notin queue}

KahnCounts ==
    pc = "kahn" =>
        /\ removed = Cardinality(Peeled)
        /\ \A n \in Nodes :
              in[n] = Cardinality({e \in EdgesInto(n) : e.from \notin Peeled})

\* The verdict does not depend on the order of the searches and is exact: a
\* graph is refused as cyclic only if it has a cycle and goes on only if it has
\* none; it is refused as unreachable only if a node cannot be reached from
\* Start and published only if all can.
VerdictExact ==
    /\ pc = "cyclic" => HasCycle
    /\ pc \in {"reach", "published", "unreachable"} => ~HasCycle
    /\ pc = "unreachable" => \E n \in Nodes : ~Reachable(n)
    /\ pc = "published" => \A n \in Nodes : Reachable(n)

\* The labels a node's executor may return.
ReturnedLabels(n) ==
    CASE graph.type[n] = "conditional" -> {"true", "false"}
      [] graph.type[n] = "response"    -> {}
      [] OTHER                         -> {"default"}

\* What execution relies on: from every node of a published graph and every
\* label its executor may return, exactly one edge leads on, so that
\* GetNextNodeForExecution always finds one row; and no walk from Start goes on
\* for ever, so that every run comes to a Response.
ExecutionReady ==
    pc = "published" =>
        /\ \A n \in Nodes : \A l \in ReturnedLabels(n) :
              \E e \in EdgesFrom(n) :
                 /\ e.label = l
                 /\ \A f \in EdgesFrom(n) : f.label = l => f = e
        /\ \A S \in SUBSET Nodes :
              S # {} => \E v \in S : Successors(v) \cap S = {}

\* The validation ends with a verdict, whatever the order of the searches.
Terminates == <>(pc \in Verdicts)
=============================================================================
