----------------------------- MODULE DraftGraphs -----------------------------
(***************************************************************************)
(* The graph of a version: its rows in tables nodes and workflow_edges,    *)
(* and what the statements of db/queries/nodes.sql and workflow_edges.sql  *)
(* make of them.  A row is a record with the field id; the key of both     *)
(* tables is the version with that id.                                     *)
(***************************************************************************)
EXTENDS FiniteSets

Labels == {"default", "true", "false"}

EmptyGraph == [nodes |-> {}, edges |-> {}]

\* What uniqueNodes and uniqueEdges ask of a saved graph.
ValidGraph(g) ==
    /\ \A m, n \in g.nodes : m.id = n.id \/ m.name = n.name => m = n
    /\ \A e, f \in g.edges :
          e.id = f.id \/ (e.from = f.from /\ e.label = f.label) => e = f
    /\ \A e \in g.edges :
          {e.from, e.to} \subseteq {n.id : n \in g.nodes}

\* A graph as publish and execution see it: edges join nodes of the graph, and
\* no node has two outgoing edges with one label.
TypedGraph(g, types) ==
    /\ IsFiniteSet(g.nodes) /\ IsFiniteSet(g.edges)
    /\ g.type \in [g.nodes -> types]
    /\ g.edges \subseteq [from : g.nodes, to : g.nodes, label : Labels]
    /\ \A e, f \in g.edges : e.from = f.from /\ e.label = f.label => e = f

-----------------------------------------------------------------------------
(* persistGraph: two tables made equal to the payload, row by row *)

Ids(rows) == {x.id : x \in rows}

\* INSERT ... ON CONFLICT (workflow_version_id, id) DO UPDATE
Upserted(old, new) == {x \in old : x.id \notin Ids(new)} \cup new

\* DELETE ... WHERE id <> ALL (ids)
Retained(rows, new) == {x \in rows : x.id \in Ids(new)}

\* ON DELETE CASCADE of both foreign keys of an edge
Cascaded(edges, nodes) ==
    {e \in edges : e.from \in Ids(nodes) /\ e.to \in Ids(nodes)}

\* A slip: the nodes that are gone from the payload stay.
UpsertedGraph(old, new) ==
    [nodes |-> Upserted(old.nodes, new.nodes),
     edges |-> Retained(Upserted(old.edges, new.edges), new.edges)]

PersistedGraph(old, new) ==
    LET nodes == Retained(Upserted(old.nodes, new.nodes), new.nodes)
        edges == Cascaded(old.edges, nodes)
    IN [nodes |-> nodes,
        edges |-> Retained(Upserted(edges, new.edges), new.edges)]

-----------------------------------------------------------------------------
\* What ListNodesForPublish and ListEdgesForPublish select.
PublishRows(g) ==
    [nodes |-> Ids(g.nodes),
     type |-> [i \in Ids(g.nodes) |-> (CHOOSE n \in g.nodes : n.id = i).type],
     edges |-> {[from |-> e.from, to |-> e.to, label |-> e.label] : e \in g.edges}]
==============================================================================
