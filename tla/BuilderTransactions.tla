------------------------ MODULE BuilderTransactions ------------------------
(***************************************************************************)
(* The transactions on workflow definitions: create, save, publish and     *)
(* archive of builder-api and the reads of start in execution-api, with    *)
(* the row locks of PostgreSQL at READ COMMITTED.                          *)
(*                                                                         *)
(* A client's request is a transaction whose statements are steps.  What a *)
(* transaction writes under the lock of its workflow is seen by nobody     *)
(* before the commit, so the writes are made in the step that commits.     *)
(* Reads without a lock see the committed rows of that moment.             *)
(*                                                                         *)
(* Save and publish hold the row of the workflow FOR UPDATE.  Publish also *)
(* locks the version, which only statements under the first lock write.    *)
(***************************************************************************)
EXTENDS WorkflowTables

CONSTANT Clients     \* bounds the requests that are served at once

VARIABLES
    workflows,   \* table workflows
    versions,    \* table workflow_versions, each row with its graph
    pins,        \* workflow_runs: the versions that have been pinned
    tx           \* per client: the request being served

vars == <<workflows, versions, pins, tx>>

\* Where a request stands:
\*   "head"      save, about to lock the workflow,  "persist"  holds it,
\*   "lockhead"  publish, waiting for the locks,
\*   "nodes", "edges", "validate"  publish, holds them,
\*   "insert"    start, about to insert the run,
\*   "notfound", "invalid"  the answer is 404 or 400.
Holding == {"persist", "nodes", "edges", "validate"}

States == Holding \cup {"idle", "head", "lockhead", "insert", "notfound", "invalid"}

\* Graphs as a client sends them, or as far as a publish has read them.
Graphs == [nodes : {g.nodes : g \in Payloads}, edges : {g.edges : g \in Payloads}]

Transactions ==
    [pc : States, wf : Workflows \cup {None}, version : VersionIds \cup {None},
     graph : Graphs]

NoTx == [pc |-> "idle", wf |-> None, version |-> None, graph |-> EmptyGraph]

TypeOK ==
    /\ workflows \in [Workflows -> WorkflowRow \cup {NoWorkflow}]
    /\ versions \in [VersionIds -> VersionRow \cup {NoVersion}]
    /\ pins \subseteq VersionIds
    /\ tx \in [Clients -> Transactions]

Init ==
    /\ workflows = [w \in Workflows |-> NoWorkflow]
    /\ versions = [v \in VersionIds |-> NoVersion]
    /\ pins = {}
    /\ tx = [c \in Clients |-> NoTx]

-----------------------------------------------------------------------------
At(c, pc) == tx[c].pc = pc

Holds(c, w) == tx[c].wf = w /\ tx[c].pc \in Holding

\* A slip: a save reads the head without FOR UPDATE.
LockedByPublish(w) == \E c \in Clients : Holds(c, w) /\ ~At(c, "persist")

\* FOR UPDATE: other writers, and inserts of rows that refer to it, wait.
Locked(w) == \E c \in Clients : Holds(c, w)

\* gen_random_uuid: an id that no row and no open transaction has.
FreeVersions ==
    {v \in VersionIds : versions[v] = NoVersion /\ \A c \in Clients : tx[c].version # v}

\* COALESCE(MAX(version), 0)
HighestNumber(w) ==
    LET numbers == {versions[v].number : v \in {u \in VersionIds : versions[u].workflow = w}}
    IN CHOOSE n \in {0} \cup numbers : \A k \in numbers : k <= n

Request(c, pc, w, v, g) ==
    /\ tx[c] = NoTx
    /\ tx' = [tx EXCEPT ![c] = [pc |-> pc, wf |-> w, version |-> v, graph |-> g]]
    /\ UNCHANGED <<workflows, versions, pins>>

Respond(c, pc) == tx' = [tx EXCEPT ![c].pc = pc]

-----------------------------------------------------------------------------
(* builder-api: create *)

\* CreateWorkflow: the workflow and its draft 1 in one statement.
CreateWorkflow(w) ==
    /\ workflows[w] = NoWorkflow
    /\ \E v \in FreeVersions :
        /\ workflows' = [workflows EXCEPT ![w] = CreatedWorkflow(v)]
        /\ versions' = [versions EXCEPT ![v] = EmptyDraft(w, 1)]
    /\ UNCHANGED <<pins, tx>>

-----------------------------------------------------------------------------
(* builder-api: save *)

\* Update: WorkflowExists, and the checks of the payload, outside the
\* transaction.
Update(c, w, g) ==
    Request(c, IF IsListed(workflows[w]) THEN "head" ELSE "notfound", w, None, g)

\* GetWorkflowHead FOR UPDATE, and the id of the version to write: a new one
\* when the head is live.
GetWorkflowHead(c) ==
    /\ At(c, "head") /\ ~Locked(tx[c].wf)
    /\ LET row == workflows[tx[c].wf] IN
        IF ~IsListed(row)
        THEN Respond(c, "notfound")
        ELSE \E v \in IF NeedsDraftFork(row) THEN FreeVersions ELSE {row.latest} :
                tx' = [tx EXCEPT ![c].pc = "persist", ![c].version = v]
    /\ UNCHANGED <<workflows, versions, pins>>

\* CreateWorkflowVersion if the head was live, persistGraph, UpdateWorkflow,
\* commit.
Save(c) ==
    /\ At(c, "persist")
    /\ LET t == tx[c]
           old == IF versions[t.version] = NoVersion
                  THEN EmptyDraft(t.wf, HighestNumber(t.wf) + 1)
                  ELSE versions[t.version]
       IN /\ versions' = [versions EXCEPT ![t.version] =
                 [old EXCEPT !.graph = PersistedGraph(@, t.graph)]]
          /\ workflows' = [workflows EXCEPT ![t.wf].latest = t.version]
    /\ tx' = [tx EXCEPT ![c] = NoTx]
    /\ UNCHANGED pins

-----------------------------------------------------------------------------
(* builder-api: publish *)

\* LockWorkflowForPublish begins: its snapshot joins the workflow with the
\* version that is its head now.
PublishRequest(c, w) ==
    IF IsListed(workflows[w])
    THEN Request(c, "lockhead", w, workflows[w].latest, EmptyGraph)
    ELSE Request(c, "notfound", w, None, EmptyGraph)

\* The locks are granted.  If the workflow has changed since the snapshot, its
\* new row is joined with the old version once more: nothing is found when the
\* head has moved.  A head that is already live is answered at once.
LockWorkflowForPublish(c) ==
    /\ At(c, "lockhead") /\ ~Locked(tx[c].wf)
    /\ LET row == workflows[tx[c].wf] IN
        IF ~IsListed(row) \/ row.latest # tx[c].version
        THEN Respond(c, "notfound")
        ELSE IF versions[row.latest].published
             THEN tx' = [tx EXCEPT ![c] = NoTx]
             ELSE Respond(c, "nodes")
    /\ UNCHANGED <<workflows, versions, pins>>

ListNodesForPublish(c) ==
    /\ At(c, "nodes")
    /\ tx' = [tx EXCEPT ![c].pc = "edges",
                        ![c].graph.nodes = versions[tx[c].version].graph.nodes]
    /\ UNCHANGED <<workflows, versions, pins>>

ListEdgesForPublish(c) ==
    /\ At(c, "edges")
    /\ tx' = [tx EXCEPT ![c].pc = "validate",
                        ![c].graph.edges = versions[tx[c].version].graph.edges]
    /\ UNCHANGED <<workflows, versions, pins>>

ValidationFails(c) ==
    /\ At(c, "validate") /\ tx[c].graph \notin Publishable
    /\ Respond(c, "invalid")
    /\ UNCHANGED <<workflows, versions, pins>>

\* A slip: the version is stamped and the live pointer is not set.
StampOnly(c) ==
    /\ At(c, "validate") /\ tx[c].graph \in Publishable
    /\ versions' = [versions EXCEPT ![tx[c].version].published = TRUE]
    /\ workflows' = [workflows EXCEPT ![tx[c].wf].status = "published"]
    /\ tx' = [tx EXCEPT ![c] = NoTx]
    /\ UNCHANGED pins

\* PublishWorkflowHead, whose conditions select no row if the version is not
\* the draft head, and commit.
PublishWorkflowHead(c) ==
    /\ At(c, "validate") /\ tx[c].graph \in Publishable
    /\ LET w == tx[c].wf
           v == tx[c].version
       IN IF /\ IsListed(workflows[w]) /\ workflows[w].latest = v
             /\ versions[v].workflow = w /\ ~versions[v].published
          THEN /\ versions' = [versions EXCEPT ![v].published = TRUE]
               /\ workflows' = [workflows EXCEPT ![w].status = "published",
                                                 ![w].live = v]
               /\ tx' = [tx EXCEPT ![c] = NoTx]
          ELSE /\ Respond(c, "notfound")
               /\ UNCHANGED <<workflows, versions>>
    /\ UNCHANGED pins

-----------------------------------------------------------------------------
(* builder-api: archive *)

\* ArchiveWorkflow, one statement that waits for the row.
ArchiveWorkflow(w) ==
    /\ IsListed(workflows[w]) /\ ~Locked(w)
    /\ workflows' = [workflows EXCEPT ![w].status = "archived"]
    /\ UNCHANGED <<versions, pins, tx>>

-----------------------------------------------------------------------------
(* execution-api: start *)

\* GetPublishedWorkflowForStart, without a lock.
GetPublishedWorkflowForStart(c, w) ==
    IF workflows[w].status = "published"
    THEN Request(c, "insert", w, workflows[w].live, EmptyGraph)
    ELSE Request(c, "notfound", w, None, EmptyGraph)

\* InsertWorkflowRun: its foreign key waits for a lock on the workflow, then
\* the run is pinned to the version that was live when it was read.
InsertWorkflowRun(c) ==
    /\ At(c, "insert") /\ ~Locked(tx[c].wf)
    /\ pins' = pins \cup {tx[c].version}
    /\ tx' = [tx EXCEPT ![c] = NoTx]
    /\ UNCHANGED <<workflows, versions>>

-----------------------------------------------------------------------------
\* The end of a request: its 4xx is sent, or a statement failed, the client
\* went away or the process died and the transaction rolls back.
Rollback(c) ==
    /\ tx[c] # NoTx
    /\ tx' = [tx EXCEPT ![c] = NoTx]
    /\ UNCHANGED <<workflows, versions, pins>>

SaveStep(c) ==
    \/ \E w \in Workflows, g \in Payloads : Update(c, w, g)
    \/ GetWorkflowHead(c) \/ Save(c)

PublishStep(c) ==
    \/ \E w \in Workflows : PublishRequest(c, w)
    \/ LockWorkflowForPublish(c) \/ ListNodesForPublish(c)
    \/ ListEdgesForPublish(c) \/ ValidationFails(c) \/ PublishWorkflowHead(c)

StartStep(c) ==
    \/ \E w \in Workflows : GetPublishedWorkflowForStart(c, w)
    \/ InsertWorkflowRun(c)

Next ==
    \/ \E w \in Workflows : CreateWorkflow(w) \/ ArchiveWorkflow(w)
    \/ \E c \in Clients :
          SaveStep(c) \/ PublishStep(c) \/ StartStep(c) \/ Rollback(c)

Spec == Init /\ [][Next]_vars

-----------------------------------------------------------------------------
(* Properties *)

\* The two pointers of a workflow and its versions agree.  Its other versions
\* are published and have lower numbers than the head, so that there is at most
\* one draft and the unique indexes on the draft and on the number never make
\* a save fail; the head is published exactly if it is live.  So the errors for
\* missing pointers in publish.go and start.go cannot occur.
HeadCoherent ==
    \A w \in Workflows : workflows[w] # NoWorkflow =>
        LET row == workflows[w] IN
        /\ versions[row.latest].workflow = w
        /\ versions[row.latest].published <=> row.latest = row.live
        /\ row.status = "draft" => row.live = None
        /\ row.status = "published" => row.live # None
        /\ row.live # None =>
              versions[row.live].workflow = w /\ versions[row.live].published
        /\ \A v \in VersionIds : versions[v].workflow = w /\ v # row.latest =>
              versions[v].published /\ versions[v].number < versions[row.latest].number

\* What is published went through the checks as it stands: the graph that
\* publish read in two statements and validated is the one it stamped, and
\* every run is pinned to such a version.
PublishedIsValid ==
    /\ \A v \in VersionIds : versions[v].published => versions[v].graph \in Publishable
    /\ \A v \in pins : versions[v].published

\* A published version never changes again, whatever saves, publishes and
\* archives are under way, so a run executes the graph it was started on.
PublishedFrozen ==
    [][\A v \in VersionIds :
          versions[v].published => versions'[v] = versions[v]]_vars

Promise == INSTANCE WorkflowVersions

\* Every interleaving of the transactions is a behaviour of the abstract
\* specification, in which requests are atomic.
RequestsAtomic == Promise!Spec

\* What the documentation promises: "missing or archived workflows return
\* 404" - so publish answers 404 only for these.
NotFoundMeansGone ==
    [][\A c \in Clients :
          At(c, "lockhead") /\ At(c, "notfound")' => ~IsListed(workflows[tx[c].wf])]_vars
=============================================================================
