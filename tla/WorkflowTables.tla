--------------------------- MODULE WorkflowTables ---------------------------
(***************************************************************************)
(* The rows of tables workflows and workflow_versions, with the graph that *)
(* belongs to a version (DraftGraphs), and what the statements of          *)
(* db/queries/workflows.sql and workflow_versions.sql make of them.  The   *)
(* name and description of a workflow and the timestamps are left out;     *)
(* published_at is kept as a Boolean.                                      *)
(***************************************************************************)
EXTENDS Naturals, DraftGraphs

CONSTANTS
    Workflows,     \* workflow ids
    VersionIds,    \* pool of version ids: bounds the forks of a behaviour
    None,          \* the null of latest_published_version_id
    Payloads,      \* the graphs that clients save
    Publishable    \* those that validatePublishGraph accepts

ASSUME PayloadsAssumption ==
    /\ EmptyGraph \in Payloads
    /\ \A g \in Payloads :
          /\ g = [nodes |-> g.nodes, edges |-> g.edges]
          /\ ValidGraph(g)
    /\ Publishable \subseteq Payloads

ASSUME NullAssumption == None \notin VersionIds /\ None \notin Workflows

WorkflowRow ==
    [status : {"draft", "published", "archived"}, latest : VersionIds,
     live : VersionIds \cup {None}]

VersionRow ==
    [workflow : Workflows, number : Nat \ {0}, published : BOOLEAN,
     graph : Payloads]

NoWorkflow == [status |-> "absent", latest |-> None, live |-> None]

NoVersion == [workflow |-> None, number |-> 0, published |-> FALSE,
              graph |-> EmptyGraph]

-----------------------------------------------------------------------------
\* WHERE status != 'archived', of a workflow that exists
IsListed(row) == row.status \in {"draft", "published"}

CreatedWorkflow(v) == [status |-> "draft", latest |-> v, live |-> None]

EmptyDraft(w, number) ==
    [workflow |-> w, number |-> number, published |-> FALSE,
     graph |-> EmptyGraph]

\* A slip: every workflow that was ever published is forked.
ForkWhenPublished(row) == row.live # None

\* A slip: the head is always updated in place.
ForkNever(row) == FALSE

NeedsDraftFork(row) == row.live # None /\ row.live = row.latest
=============================================================================
