----------------------------- MODULE DraftSaves -----------------------------
(***************************************************************************)
(* A save of a draft from the body of the request to the commit            *)
(* (internal/handler/workflow, Update and save): the checks of graph.go,   *)
(* one action per loop iteration, and then persistGraph and the update of  *)
(* the workflow's own row, one action per statement, with the constraints  *)
(* of tables nodes and workflow_edges at the moment PostgreSQL enforces    *)
(* them.  Keys and foreign keys are enforced by each statement; since      *)
(* migration 00004 names and labels are compared at the commit only.       *)
(* TouchWorkflowVersion sets a version to itself and is left out.          *)
(*                                                                         *)
(* BuilderTransactions takes a save as one step that stores a valid graph. *)
(* This module shows why it may: saves of one workflow hold its lock and   *)
(* come one after the other.                                               *)
(***************************************************************************)
EXTENDS Naturals, Sequences, DraftGraphs

CONSTANTS
    Uuids,        \* ids of nodes and edges
    Nil,          \* uuid.Nil, what an absent id is decoded to
    Texts,        \* names, types and labels
    Blank,        \* texts that strings.TrimSpace makes empty
    Unstorable,   \* texts and configs with U+0000 in them, which PostgreSQL refuses
    Oversized,    \* texts too long for an entry of the index on nodes' names
    Configs,      \* configs of nodes
    Absent,       \* no config in the body
    EmptyObject,  \* the config {}
    Schemas,      \* table node_types: the configs that fit each type
    Payloads      \* the bodies of the requests

Node == [id : Uuids, name : Texts, type : Texts, config : Configs]

Edge == [id : Uuids, from : Uuids, to : Uuids, label : Texts]

\* Bodies; their name stands for the name and the description of the workflow.
Body == [name : Texts, nodes : Seq(Node), edges : Seq(Edge)]

ASSUME PayloadsTyped == Payloads \subseteq Body

ASSUME TextsAssumption == "" \in Texts

ASSUME ConfigsAssumption == EmptyObject \in Configs

VARIABLES
    pc,        \* the loop or statement that comes next, or the answer
    payload,   \* the body of the request
    at,        \* index of the loop over nodes or edges
    seen,      \* the maps of uniqueNodes and uniqueEdges, their keys
    draft,     \* the rows of the version as the open transaction sees them
    stored     \* the rows of the draft that are committed

vars == <<pc, payload, at, seen, draft, stored>>

\* 200, 400, 500, and no answer
Answers == {"saved", "rejected", "failed", "aborted"}

Statements ==
    {"upsertNodes", "deleteNodes", "upsertEdges", "deleteEdges", "updateWorkflow",
     "commit"}

NothingSeen == [ids |-> {}, names |-> {}, edgeIds |-> {}, keys |-> {}]

-----------------------------------------------------------------------------
(* graph.go *)

\* validateConfig and encodeNodes take an absent config as {}.
ConfigOf(n) == IF n.config = Absent THEN EmptyObject ELSE n.config

Known(type) == type \in DOMAIN Schemas

Fits(n) == Known(n.type) /\ ConfigOf(n) \in Schemas[n.type]

\* edgeLabel
LabelOf(e) == IF e.label = "" THEN "default" ELSE e.label

\* A slip: the label as it was sent.
RawKey(e) == <<e.from, e.label>>

\* The key of bySourceLabel.
KeyOf(e) == <<e.from, LabelOf(e)>>

\* A slip: uuid.Nil is taken for an id.
NodeAcceptedNil(n) ==
    /\ n.id \notin seen.ids
    /\ n.name \notin Blank /\ n.name \notin seen.names
    /\ Fits(n)

NodeAccepted(n) ==
    /\ n.id # Nil /\ n.id \notin seen.ids
    /\ n.name \notin Blank /\ n.name \notin seen.names
    /\ Fits(n)

EdgeAccepted(e) ==
    /\ e.id # Nil /\ e.id \notin seen.edgeIds
    /\ e.from \in seen.ids /\ e.to \in seen.ids
    /\ LabelOf(e) \in Labels
    /\ KeyOf(e) \notin seen.keys

-----------------------------------------------------------------------------
(* save.go *)

Elements(s) == {s[k] : k \in DOMAIN s}

\* encodeNodes and the INSERT of UpsertNodes
NodeRow(n) == [id |-> n.id, name |-> n.name, type |-> n.type, config |-> ConfigOf(n)]

\* encodeEdges and the INSERT of UpsertEdges
EdgeRow(e) == [id |-> e.id, from |-> e.from, to |-> e.to, label |-> LabelOf(e)]

NodeRowsOf(p) == {NodeRow(n) : n \in Elements(p.nodes)}

EdgeRowsOf(p) == {EdgeRow(e) : e \in Elements(p.edges)}

NodeRows == NodeRowsOf(payload)

EdgeRows == EdgeRowsOf(payload)

\* ON CONFLICT cannot update one row twice in a statement.
RepeatsId(s) == \E j, k \in DOMAIN s : j # k /\ s[j].id = s[k].id

NamesUnique(nodes) == \A m, n \in nodes : m.name = n.name => m = n

LabelsUnique(edges) ==
    \A e, f \in edges : e.from = f.from /\ e.label = f.label => e = f

HoldsUnstorable(n) ==
    n.name \in Oversized \/ {n.name, ConfigOf(n)} \cap Unstorable # {}

-----------------------------------------------------------------------------
Init ==
    /\ pc = "saved"
    /\ payload = [name |-> "", nodes |-> << >>, edges |-> << >>]
    /\ at = 1
    /\ seen = NothingSeen
    /\ draft = EmptyGraph
    /\ stored = EmptyGraph

\* Update: the body is decoded, absent lists are empty.
Request ==
    /\ pc \in Answers
    /\ payload' \in Payloads
    /\ pc' = "nodes"
    /\ at' = 1
    /\ seen' = NothingSeen
    /\ UNCHANGED <<draft, stored>>

Answer(a) == pc' = a /\ draft' = EmptyGraph /\ UNCHANGED <<payload, at, seen, stored>>

\* uniqueNodes, one iteration
CheckNode ==
    /\ pc = "nodes" /\ at <= Len(payload.nodes)
    /\ LET n == payload.nodes[at] IN
        IF NodeAccepted(n)
        THEN /\ seen' = [seen EXCEPT !.ids = @ \cup {n.id}, !.names = @ \cup {n.name}]
             /\ at' = at + 1
             /\ UNCHANGED <<pc, payload, draft, stored>>
        ELSE Answer("rejected")

NodesChecked ==
    /\ pc = "nodes" /\ at > Len(payload.nodes)
    /\ pc' = "edges" /\ at' = 1
    /\ UNCHANGED <<payload, seen, draft, stored>>

\* uniqueEdges, one iteration
CheckEdge ==
    /\ pc = "edges" /\ at <= Len(payload.edges)
    /\ LET e == payload.edges[at] IN
        IF EdgeAccepted(e)
        THEN /\ seen' = [seen EXCEPT !.edgeIds = @ \cup {e.id}, !.keys = @ \cup {KeyOf(e)}]
             /\ at' = at + 1
             /\ UNCHANGED <<pc, payload, draft, stored>>
        ELSE Answer("rejected")

\* The transaction begins; if the head is live, with a version without rows.
BeginSave ==
    /\ pc = "edges" /\ at > Len(payload.edges)
    /\ pc' = "upsertNodes"
    /\ draft' \in {stored, EmptyGraph}
    /\ UNCHANGED <<payload, at, seen, stored>>

-----------------------------------------------------------------------------
(* persistGraph *)

\* A slip: without migration 00004, names are compared by the statement.
UpsertNodesNamesNow ==
    /\ pc = "upsertNodes"
    /\ IF /\ \A n \in Elements(payload.nodes) : Known(n.type) /\ ~HoldsUnstorable(n)
          /\ ~RepeatsId(payload.nodes)
          /\ NamesUnique(Upserted(draft.nodes, NodeRows))
       THEN /\ pc' = "deleteNodes"
            /\ draft' = [draft EXCEPT !.nodes = Upserted(@, NodeRows)]
            /\ UNCHANGED <<payload, at, seen, stored>>
       ELSE Answer("failed")

\* encodeNodes looks the types up again.
UpsertNodes ==
    /\ pc = "upsertNodes"
    /\ IF /\ \A n \in Elements(payload.nodes) : Known(n.type) /\ ~HoldsUnstorable(n)
          /\ ~RepeatsId(payload.nodes)
       THEN /\ pc' = "deleteNodes"
            /\ draft' = [draft EXCEPT !.nodes = Upserted(@, NodeRows)]
            /\ UNCHANGED <<payload, at, seen, stored>>
       ELSE Answer("failed")

DeleteNodesNotIn ==
    /\ pc = "deleteNodes"
    /\ pc' = "upsertEdges"
    /\ LET nodes == Retained(draft.nodes, NodeRows)
       IN draft' = [nodes |-> nodes, edges |-> Cascaded(draft.edges, nodes)]
    /\ UNCHANGED <<payload, at, seen, stored>>

\* The label is cast to edge_label, the endpoints must be there.
UpsertEdges ==
    /\ pc = "upsertEdges"
    /\ IF /\ \A e \in EdgeRows : e.label \in Labels
          /\ \A e \in EdgeRows : {e.from, e.to} \subseteq Ids(draft.nodes)
          /\ ~RepeatsId(payload.edges)
       THEN /\ pc' = "deleteEdges"
            /\ draft' = [draft EXCEPT !.edges = Upserted(@, EdgeRows)]
            /\ UNCHANGED <<payload, at, seen, stored>>
       ELSE Answer("failed")

\* A slip: edges that are gone from the payload stay.
KeepEdges ==
    /\ pc = "deleteEdges"
    /\ pc' = "updateWorkflow"
    /\ UNCHANGED <<payload, at, seen, draft, stored>>

DeleteEdgesNotIn ==
    /\ pc = "deleteEdges"
    /\ pc' = "updateWorkflow"
    /\ draft' = [draft EXCEPT !.edges = Retained(@, EdgeRows)]
    /\ UNCHANGED <<payload, at, seen, stored>>

\* The workflow's row: name, description and the head pointer.
UpdateWorkflow ==
    /\ pc = "updateWorkflow"
    /\ IF payload.name \notin Unstorable
       THEN pc' = "commit" /\ UNCHANGED <<payload, at, seen, draft, stored>>
       ELSE Answer("failed")

\* The deferred constraints are enforced.
Commit ==
    /\ pc = "commit"
    /\ IF NamesUnique(draft.nodes) /\ LabelsUnique(draft.edges)
       THEN /\ pc' = "saved"
            /\ stored' = draft
            /\ draft' = EmptyGraph
            /\ UNCHANGED <<payload, at, seen>>
       ELSE Answer("failed")

\* The client went away, the connection broke or the process died.
Rollback ==
    /\ pc \in Statements
    /\ Answer("aborted")

CheckStep == CheckNode \/ NodesChecked \/ CheckEdge \/ BeginSave

PersistStep ==
    \/ UpsertNodes \/ DeleteNodesNotIn \/ UpsertEdges \/ DeleteEdgesNotIn
    \/ UpdateWorkflow \/ Commit

Next == Request \/ CheckStep \/ PersistStep \/ Rollback

Spec == Init /\ [][Next]_vars

-----------------------------------------------------------------------------
TypeOK ==
    /\ pc \in {"nodes", "edges"} \cup Statements \cup Answers
    /\ payload \in Body
    /\ at \in Nat \ {0}
    /\ seen \in [ids : SUBSET (Uuids \ {Nil}), names : SUBSET (Texts \ Blank),
                 edgeIds : SUBSET (Uuids \ {Nil}), keys : SUBSET (Uuids \X (Labels \cup Texts))]
    /\ {draft, stored} \subseteq
          [nodes : SUBSET Node,
           edges : SUBSET [id : Uuids, from : Uuids, to : Uuids, label : Labels]]

\* A graph as graph.go describes it in its error messages.
WellFormed(p) ==
    /\ \A j \in DOMAIN p.nodes :
          p.nodes[j].id # Nil /\ p.nodes[j].name \notin Blank /\ Fits(p.nodes[j])
    /\ \A j, k \in DOMAIN p.nodes : j # k =>
          p.nodes[j].id # p.nodes[k].id /\ p.nodes[j].name # p.nodes[k].name
    /\ \A j \in DOMAIN p.edges :
          /\ p.edges[j].id # Nil /\ LabelOf(p.edges[j]) \in Labels
          /\ {p.edges[j].from, p.edges[j].to} \subseteq Ids(Elements(p.nodes))
    /\ \A j, k \in DOMAIN p.edges : j # k =>
          /\ p.edges[j].id # p.edges[k].id
          /\ p.edges[j].from = p.edges[k].from
                => LabelOf(p.edges[j]) # LabelOf(p.edges[k])

\* The two loops, which remember what they have seen in maps, refuse exactly
\* the bodies that are not well formed (validateGraph, graph.go:94).
ChecksExact ==
    /\ pc = "rejected" => ~WellFormed(payload)
    /\ pc \in Statements \cup (Answers \ {"rejected"}) => WellFormed(payload)

\* Whatever draft was stored before, a body that passed the checks breaks no
\* key, foreign key or uniqueness of the tables, at no statement and not at the
\* commit: only a text or a config that PostgreSQL cannot store makes the save
\* fail (migrations 00002 and 00004).
FailsOnlyOnText ==
    pc = "failed" =>
        \/ payload.name \in Unstorable
        \/ \E n \in Elements(payload.nodes) : HoldsUnstorable(n)

\* After a save the draft is the body, absent configs and labels filled in,
\* and nothing of an older draft is left (persistGraph, save.go:53).
SavedAsSent ==
    pc = "saved" => stored = [nodes |-> NodeRows, edges |-> EdgeRows]
=============================================================================
