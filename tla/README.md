# Orchex in TLA+

Orchex runs user-defined workflows: a builder stores versioned graphs, an
execution API starts and controls runs of a published version, a relay moves
jobs from a database table to SQS, and workers execute one node per job and
write the next checkpoint. This directory specifies the parts of it that are
hard to test, checks them with TLC on small instances and proves the most
important properties with TLAPS for all instances. Paths below are relative to
the repository.

## 1. Inventory

| Component | State it keeps | Operations | Hard behaviour |
|---|---|---|---|
| Run table (`db/queries/workflow_runs.sql`) | one row per run: status, checkpoint (`current_node_id`, `current_node_attempt`), `last_output` | Insert, Advance, Complete, Fail, Pause, Resume, Stop, Retry | three of the updates have no condition on the status |
| Run endpoints (`internal/handler/run`) | none | Start, Pause, Resume, Stop, Retry, Get | race with a worker that is executing the run's node |
| Outbox and relay (`internal/execution/relay.go`) | `run_node_jobs_outbox`; one open transaction per process | lock due rows, send, delete, commit | several replicas; sends before it commits; a failure half way repeats sends |
| Node job queue (`internal/queue/sqs.go`, SQS) | messages, leases, receive counts, dead-letter queue | Send, Receive, Delete | at-least-once, unordered, flat 30 s lease, redrive after 5 receives |
| Execution worker (`internal/worker`) | one goroutine per message of a batch | read, execute, persist, fail, delete | stale reads, duplicates, crash between any two steps |
| Publish validation (`publish_validate.go`) | work lists of two graph searches | degrees, labels, Kahn, reachability | order of Go maps, parallel edges |
| Draft validation (`graph.go`) | maps of what a loop has seen | uniqueNodes, uniqueEdges | compares what will be stored, not what was sent; the tables have the last word |
| Workflow definitions (`internal/handler/workflow`) | `workflows`, `workflow_versions`, nodes and edges | create, save (draft fork), publish, archive | two transactions on one workflow, row locks and re-evaluated joins |
| Executors (`internal/executor`) | none | start, conditional, api, function, response | panics that end the process, outputs that cannot be stored, numbers rounded by `encoding/json` |
| Function sandbox (`internal/sandbox/lambda.go`, `infra/modules/lambda_sandbox`) | none | Invoke | reports an error of the user's code as a normal payload |
| Servers, configuration, infrastructure | none the others depend on | | |

How they interact: the endpoints and the workers share the run table and write
rows of the outbox; the relay reads both under row locks and sends messages;
the workers receive messages, read the run, and write the run and the outbox in
one transaction before they delete the message. The builder and the endpoints
share the tables of workflows and versions; the builder hands over published
versions, which never change.

What makes each part correct:

* **run table and workers**: an active run is never without a job; a run that is
  over stays over once nobody works on it; the checkpoint moves along the edges
  and `last_output` is always the input of the checkpointed node; jobs left over
  from earlier checkpoints do no harm;
* **relay**: no two relays send one row; a job is delivered only if its run is
  pending or running at that moment; rows of other runs are removed;
* **executors**: whatever comes from outside, the next node gets an envelope with
  the data of this one, or the run fails; a job that can never succeed is parked
  and does not take healthy runs with it for ever;
* **controls**: Pause and Stop take effect at the next job boundary; Resume and
  Retry put back exactly what is needed to go on;
* **workflow definitions**: a published version never changes and is what was
  validated; head and live pointers, numbers and states of versions agree; there
  is at most one draft; requests that overlap act as if one came after the other;
* **draft validation**: a body is refused exactly if it is not a graph; one that is
  accepted can be stored over any draft, and is stored as it was sent;
* **publish validation**: a graph is published exactly if it can be executed to a
  Response from every node that is reached.

The hazards behind these, each at its line, are listed in `PROJECT.json`.

## 2. Modules

| Module | What it is |
|---|---|
| `WorkflowRuns` | the row of `workflow_runs` and each SQL statement as an operator from row to row (`Advanced`, `Paused`, ...), its `WHERE` as a predicate (`CanPause`, ...) |
| `NodeJobQueue` | the SQS queue as a function from message ids to messages |
| `Execution` | the composition: endpoints, relays, queue and workers; extends the two above |
| `MCExecution` | graphs and symmetry for TLC |
| `ExecutionProofs` | the theorems about `Execution` |
| `RunLifecycle` | abstract: what a client may observe of its runs; implemented by `Execution` |
| `LifecycleProofs` | the refinement of `RunLifecycle`, and theorems about checkpoints and inputs |
| `SingleJobProofs` | one job at a time, and checkpoints along edges, while nothing fails |
| `JsonValues` | JSON values as sets of entries, and what `encoding/json`, `jsonb` and JavaScript do to them |
| `JsonValuesProofs` | lemmas about these operators |
| `Executors` | the five executors and the sandbox as operators from config and input to possible outcomes; extends `JsonValues` |
| `NodeOutputs` | the data side of execution: outputs from node to node, errors, panics and poisonous jobs; extends `Executors` |
| `MCNodeOutputs` | versions, payloads and replies for TLC |
| `NodeOutputsProofs` | the theorems about `NodeOutputs` |
| `DraftGraphs` | the rows of nodes and edges of a version and what the statements of `persistGraph` make of them; extended by the modules below |
| `DraftSaves` | a save as a program: the loops of `validateGraph`, then statement by statement to the commit, with the constraints of the tables |
| `MCDraftSaves` | bodies for TLC |
| `DraftSavesProofs` | the theorems about `DraftSaves` |
| `PublishGraph` | `validatePublishGraph` as a program: one action per loop iteration |
| `MCPublishGraph` | the family of drafts for TLC |
| `PublishGraphProofs` | the theorems about `PublishGraph` |
| `WorkflowTables` | the rows of `workflows` and `workflow_versions` and what the builder's statements make of them |
| `WorkflowVersions` | abstract: what the builder promises, one atomic step per request |
| `BuilderTransactions` | the builder's transactions and the reads of start, statement by statement under row locks; implements `WorkflowVersions` |
| `MCBuilderTransactions` | graphs and symmetry for TLC |
| `BuilderProofs` | the theorems about `BuilderTransactions`, the refinement included |

The modules meet in what one provides and the other assumes. `DraftSaves` provides
(theorem `DraftsAreSound`) what `PayloadsAssumption` of `WorkflowTables` and
`DraftsAssumption` of `PublishGraph` say of saved drafts. `Publishable` are the graphs that
`validatePublishGraph` accepts, `ExecutionReady` is what accepting means, and it
implies (theorem `PublishedFitsExecution`) the `GraphAssumption` of `Execution`; and `PublishedFrozen` with `PublishedIsValid` is why one graph can be
a constant of `Execution`.

Operators marked "a slip" in the modules are not used by the specifications.
Each is a plausible mistake in the code (a dropped guard, a forgotten reset, a
delete in the wrong place); put in place of the definition that follows it, it
makes TLC report a violated property, which shows that the property can fail.

### Execution: state and actions against the code

| Variable | Code |
|---|---|
| `runs[r]` | the row of run `r`; `NoRow` before `InsertWorkflowRun` |
| `outbox[o]` | row `o` of `run_node_jobs_outbox`; `NoJob` if absent |
| `queue[m]`, `dlq` | the SQS queue and its dead-letter queue |
| `relay[x]` | the open transaction of relay `x`: rows locked (`jobs`), those whose `run_status` is pending or running (`active`), those handled (`done`) |
| `task[w][m]` | the goroutine of worker `w` that handles its delivery of `m`: program counter, the snapshot of the run it uses, the successor it found |
| `faults` | how many faults have happened (bounded by `MaxFaults`) |

`Start`, `Pause`, `Resume`, `Stop`, `Retry` are one step each: one statement on
the run, followed at most by an insert into the outbox that nobody sees before
the commit. A transaction that stays open across other calls is split. The
relay's is `LockDue`, then `SendJob` or `SkipJob` per row, then `RelayCommit` or
`RelayAbort`; a message is in the queue as soon as it is sent, a delete counts
only at the commit. The worker's is `PersistBegin` (the `UPDATE` takes the row
lock) and `PersistCommit`. `Locked` holds the row locks of both; writers wait
for it, the relay skips it.

A goroutine goes `read -> execute -> persist -> commit -> ack`, or `read -> ack`
for an inactive run, or `execute -> fail -> idle`: as in `handleNodeJob`, a
failed job does not delete its message. `TaskError` is any early return after a
failing call, `WorkerCrash` the end of the process (main does not wait for
`Run` at SIGTERM; a panic in one executor ends all goroutines). `LeaseExpire`
and `DeadLetter` are SQS.

Abstractions. An output is represented by the node that produced it. A job is
`{run_id, node_id}`: the version is the run's and the attempt is the literal 1.
`current_node_attempt` is in the row because the statements write it; no line of the
services compares it with anything.
The receipt handle of a delivery is its number; a handle from an earlier
delivery may or may not still delete the message, so both outcomes are allowed.
Message retention, the order of `created_at` and the pool of connections are
left out. `available_at` is never set by this code, so every row is due.

### RunLifecycle

`RunLifecycle` has the rows and, per run, the set `working` of nodes that
somebody has begun and not given up. A row changes by a request that its status
allows, or by the result of a node in `working`; work begins only on the
checkpoint of an active run. This is weaker than "each node is executed once" and
stronger than "the status moves along these arrows": a late result may be written
in any status, as the code does (section 5), but it is always the result of a
node that was the checkpoint when an executor started. `Execution` implements it
with `working` mapped to the nodes of the goroutines between reading the run and
their last write (`Working`); everything else of `Execution` is hidden.

### NodeOutputs

| Variable | Code |
|---|---|
| `runs[r]` | the row: status, node (type and config), `last_output`; and, for the properties only, the client's payload and the types of the nodes executed |
| `receives[r]` | the receive count of the run's message; `NoJob` if there is none |
| `batch` | the messages of the worker's running goroutines |
| `parked` | the runs whose message is in the dead-letter queue |

`Execution` treats an output as the name of its node; `NodeOutputs` looks into it
and in turn leaves out the outbox, duplicates and controls. One worker takes
batches of the jobs of several runs. The outcome of a node is chosen from
`Outcomes`, which calls one of the operators of `Executors`: an output with its
label, a completion, an error or a panic. What follows depends on it: `Advance`
and `Complete` write; `PersistFails` is an output that PostgreSQL refuses, after
which the message stays; `Fail` records the error and also leaves the message,
which `DropJob` deletes the next time; `PanicKills` ends the goroutines of the
whole batch, which all lose one receive.

A JSON value (`JsonValues`) is the set of its entries: for each of its nodes the
path of keys that leads to it and a token, which is the scalar at a leaf and
`Object` elsewhere. A value is thus decoded, or found fit for `jsonb`, entry by
entry, at any depth and without recursion. `encoding/json` is
modelled by what decoding into `any` does to numbers (a float64: rounding above
`MaxExact`, an error above `MaxFloat`), `jsonb` by its refusal of U+0000. The
conditional decodes and encodes the whole envelope; `General API` and `Response`
decode only `data`; the JavaScript of a Function reads numbers as float64 too. A
graph is not given but unfolds: the next node is any node of the version.

### DraftSaves

| Variable | Code |
|---|---|
| `payload` | the body of the `PUT`: lists of nodes and edges, and a name, which stands for the workflow's name and description |
| `at`, `seen` | the loop index and the keys of the maps of `uniqueNodes` and `uniqueEdges` |
| `draft` | the rows of the version as the open transaction sees them |
| `stored` | the rows of the draft that are committed |
| `pc` | the loop or the statement that comes next, or the answer: 200, 400, 500 or none |

One save after the other, each with any body: `CheckNode` and `CheckEdge` are one
iteration each, `UpsertNodes`, `DeleteNodesNotIn`, `UpsertEdges`, `DeleteEdgesNotIn`,
`UpdateWorkflow` (the workflow's own row) and `Commit` one statement each
(`TouchWorkflowVersion` sets a version to itself and is left out). A statement fails where PostgreSQL makes it fail: a
repeated id in one upsert, a missing endpoint, a label that is not in the enum, a
text or config with U+0000, a node's name too long for the unique index; names and labels are compared at the commit. `Rollback` is
the end of the request at any statement. Only one save is under way, because
saves of a workflow hold its lock from `GetWorkflowHead` on; what another save stores between
the checks and the lock is covered, since nothing is assumed of the draft that is replaced.
A fork begins with a version without rows. Texts are values, with the sets of those
that `TrimSpace` empties, those with U+0000 (`Unstorable`) and those too long for the
index (`Oversized`); a JSON schema is the set of configs
that fit it.

### PublishGraph

`graph` is the draft; `Init` takes any draft that saving accepts (`SavedGraph`:
edges between nodes of the graph, one edge per source and label). `KahnStep` and
`ReachStep` are one iteration each of `hasCycleKahn` and `reachableFromStart`.
The code's queues are lists whose initial order is the order of a Go map; here
they are sets, so every order is covered. `removed` is the counter the code
keeps; which nodes were removed is not stored, in the code or here
(`Peeled` derives it).

### BuilderTransactions

| Variable | Code |
|---|---|
| `workflows[w]` | the row of workflow `w`: status, `latest_version_id` (`latest`), `latest_published_version_id` (`live`) |
| `versions[v]` | the row of version `v`, whether `published_at` is set, and its nodes and edges |
| `pins` | the `workflow_version_id`s of rows of `workflow_runs` |
| `tx[c]` | the request of client `c`: the statement it is at, its workflow, the version it writes or publishes, the graph it brought or has read |

A save is `Update` (the checks outside the transaction), `GetWorkflowHead` (waits for
the row, decides on a fork) and `Save` (everything up to the commit). A publish
is `PublishRequest` (its snapshot), `LockWorkflowForPublish`, `ListNodesForPublish`,
`ListEdgesForPublish`, then `ValidationFails` or `PublishWorkflowHead`. A start is
`GetPublishedWorkflowForStart` and `InsertWorkflowRun`. `CreateWorkflow` and
`ArchiveWorkflow` are single statements. `Rollback` ends a request at any point.

Two properties of PostgreSQL at READ COMMITTED are modelled by what they do. Each
statement sees what is committed when it starts, so publish reads nodes and edges
in two snapshots. A statement that waited for a row lock evaluates its conditions
again on the row as it is then; in the join of `LockWorkflowForPublish` the
version row is still the one of the snapshot, so a moved head gives no row.
Writes under the lock are visible to nobody before the commit and are therefore
made in the step that commits. That a failed save leaves nothing behind is therefore
what `InTx` and PostgreSQL promise, taken over here by construction and not a result of
these runs; which failures can occur in the middle of a save is the subject of `DraftSaves`.
The lock that publish also takes on the version
adds nothing, since versions are written only under the lock of their workflow;
the foreign keys of `workflow_runs` make `InsertWorkflowRun` wait for that lock.

`PersistedGraph` is the four statements of `persistGraph` with the cascade, in one step
here and one by one in `DraftSaves`; a node is its id and its name, which stands for
all that an upsert overwrites.

## 3. Runs

The runs of `Execution` use one or two runs of a workflow, a pair `start -> response`, a chain
`start -> api -> response` or a branch `start -> cond -> two responses`, and `MaxReceive = 2`
instead of 5.

| Run | Shows | Bounds |
|---|---|---|
| `Controls` | types; no control separates a run from its job; what is over or held back stays so; the only input that is no predecessor's output is the result of the run; refinement of `RunLifecycle` | all four controls, 1 relay, 2 workers, leases that expire early, a failing Response, no faults, a graph `start -> response`; 2 rows, 2 messages |
| `Faults` | no orphaned run and a coherent checkpoint through a crash or error anywhere and leases that expire early; refinement of `RunLifecycle`; active runs settle or are dead-lettered, and the jobs of a run that is over drain | 1 relay, 1 worker with batches of 2, Pause and Stop, 1 fault; 3 rows, 3 messages |
| `Undisturbed` | row locks: relays apart, `run_status` current; without faults exactly one job per active run, naming the checkpoint; moves follow edges | 2 runs, 2 relays, 2 workers, branch graph |
| `Outputs` | envelope and payload survive every sequence of nodes, configs, replies and function results; a branch is never decided on an error; only poison is parked; every run ends | 2 runs in one worker, 3 nodes before the Response, 15 nodes to choose from, 5 payloads, 3 replies, 3 function values |
| `SandboxErrors` | an error of the user's code becomes an output, section 5 | 1 run, 2 nodes |
| `Publish` | exact verdicts in every order of the searches; published graphs execute; termination | 65 881 drafts over five nodes |
| `Drafts` | exact checks; no accepted body breaks a constraint, at any statement, over any earlier draft; stored as sent | any sequence of saves of 443 bodies of up to two nodes and two edges |
| `Definitions` | types, coherent pointers, what is published is valid and frozen, requests atomic (refinement of `WorkflowVersions`) | 3 clients, 1 workflow, 3 versions, 4 graphs; symmetric clients and versions |
| `NotFound` | publish answers 404 for a workflow that exists, section 5 | 2 clients, 2 versions |
| `CancelledReopened`, `StaleJob`, `NoAutoRetry` | what the README of the repository promises and the code does not do, section 5 | the smallest instance that shows each |

Why the bounds are enough. The ids of rows and messages are pools: an id is free
again when its row or message is gone, so the pools bound how many exist at
once, not how many there are in a behaviour. A run has one row and one message
unless something repeats its job; two of each let a duplicate meet the
original, a third gives room for the job of Retry or of a second commit. A step
that needs a free id waits for one, which the real tables never do; in
`Faults` the pools are therefore large enough for the two jobs that one fault
can produce and their successors, so that no behaviour waits for an id for ever.
One fault is enough to reach every intermediate state of every transaction and
goroutine; combinations of faults are covered by the theorems of section 4. Two
receives reach the redrive path. Every run may stop (no request is ever due and
all jobs may be gone), so deadlock is not an error.

`SingleJob` and `CheckpointFollowsEdges` hold only as long as nothing is repeated:
that is what run `Undisturbed` says with its constants. With faults, early
leases, Resume or Retry the code does create second jobs, and what still holds
then is in `Faults` and `Controls`. `CheckpointCoherent` needs Retry to be absent,
because a failed job keeps its message (section 5); `InputTraceable` is what is left
of it then, in `Controls`.

`Controls` has two workers, so that one node is executed twice at once when a lease expires
early, or when Retry leaves two jobs: with one worker the old job is not executed while
the new one is. `Faults` has one, because two would need more message ids than a check of
liveness can afford; its two goroutines still meet on one run when the relay has sent a job
twice. Two workers and a fault together are covered by the theorems, which
hold for any number of both.

Fairness (`Fairness` in `Execution`): a relay with work goes on (a one-second
ticker, and `LockDue` again after an abort); a worker polls as long as it has no
batch; each goroutine goes on (executors end by timeout; row locks are released
by the holder's own fair steps); leases expire and the redrive policy acts.
Weak fairness suffices since only the process itself disables its steps, or a
lock that is released. Clients owe nothing, and faults are never
required. A crashed worker is started again by its service.

In `Definitions` three clients let a save, a publish and a start, or two saves and a
publish, overlap with an archive. Workflows share no row, so one is enough. Three
versions are two forks: the second save after a publish must fork again, and a
publish must replace a live version. A request that needs a free version id waits
when the pool is used up. The graphs include one that publish refuses and a pair
whose node names are swapped and whose edge is turned, so that the row-by-row
synchronisation passes through states that the deferred constraints would
reject. All properties are about safety, so symmetry is sound.

In `Drafts` two nodes and two edges are enough: every check and every constraint
concerns one row or a pair. Among the bodies are two with the names of the nodes
swapped (refused by a statement if names were not compared at the commit), one
with a node less, edges that differ only by an absent label, and names that PostgreSQL refuses.

In `Outputs` one run goes through an arbitrary version while a second, whose version
is `start -> response`, may share every batch with it: it shows what poison does to
a neighbour. Three nodes are enough for a Function's answer to meet a Conditional,
an API node or a Response, with one node between them. `MaxExact = 2` and
`MaxFloat = 8` stand for 2^53 and the largest float64, so that 5 is rounded and 9 is out of
range; the configs contain a url that does not parse, an expression that does not parse, one that reads below
`data`, one that does not, and one that reads the sandbox's error. `MaxReceive = 2`
lets a neighbour lose both receives to crashes. Fairness: the worker is started
again and polls, each goroutine goes on (every client has a timeout), and the
redrive policy acts; strong fairness is not needed.

In `Publish` the types' degree bounds are those of the migrations plus one type
with two incoming edges: the seeded types only admit trees, while the code is
written for any catalogue, and joins are where the counting in Kahn's loop can
go wrong.

## 4. Theorems

### Execution

For every graph that satisfies `GraphAssumption`, every set of runs, relays and
workers, every batch size, redrive limit and number of faults, with early
expiry of leases or without:

| Theorem | Statement |
|---|---|
| `TypeCorrect` | `Spec => []TypeOK` |
| `LockDiscipline` | `Spec => [](RunLockExclusive /\ RelayStatusCurrent)` |
| `NoRunIsOrphaned` | `Spec => []NoOrphanedRun` |
| `SettledRunsStay` | `Spec => SettledForever` |
| `QuietRunsStayPut` | `Spec => QuietRunStaysPut` |
| `RunsLockedOnce` | `Spec => []RunLockExclusive` |
| `LifecycleImplemented` | `Spec => RunsAsPromised`, that is `RunLifecycle!Spec` |
| `InputsTraceable` | `Spec => []InputTraceable` |
| `CheckpointsCohere` | `Spec => []CheckpointCoherent`, if Retry is not among the controls |
| `OneJobAtATime` | `Spec => []SingleJob`, if `Undisturbed`: no faults, timely leases, neither Resume nor Retry |
| `CheckpointsFollowEdges` | `Spec => CheckpointFollowsEdges`, if `Undisturbed` |

The inductive invariant has three layers, each relative to the ones before.
`TypeInv` is `TypeOK`, what a goroutine's fields are at each point (`TaskOK`) and
that outbox, queue and goroutines refer only to inserted runs (`RefersToRuns`).
`LockInv` is the lock discipline: batches of relays are rows that exist, are
disjoint, and their `active` part is exactly the rows of runs that are active
now, which survives because every statement that changes a status waits for the
lock. `JobInv` is `NoOrphanedRun` strengthened: a goroutine works on the run its
message names (`JobsNamed`), and the run of every row a relay has handled as
active is in the queue or the dead-letter queue already (`HandledDelivered`).
`NoOrphanedRun` alone is not inductive: when a relay commits, the rows it
deletes may be the only jobs of their runs, and one has to know both that they
were sent and, by `LockInv`, that a row handled without a send belongs to a run
that is still inactive. The commit of a worker removes no job before it has
written the next, and its own message stops counting as pending in the step in
which the row appears.

The refinement needs one fact beside `TypeInv`: what a goroutine is about to write
is a result its node can give (`ResultOK`). Then every step is a step of the
promise or leaves rows and `Working` alone. How `Working` changes is said once for
goroutines that begin (`WorkBegins`), go on (`WorkGoesOn`), end (`WorkEnds`: the
node leaves the set unless another goroutine works on it) or are cut off
(`WorkDropped`). From the same invariant `RowMoves` lists the statements by which
a row can change at all, each with the node whose result it writes; for coherence
one then looks at each statement, and Retry is the one that breaks it.
`InputTraceable` speaks of rows in every status and is kept by Retry as well: the
output of a Response, which completing a run leaves in the row, is all that Retry can
hand to a node that is not its input.

`SingleJob` speaks of active runs only and is far from inductive: a run that was
stopped under a working goroutine is active again when the goroutine commits, so
one must know where the jobs of runs that are not active are, too. `SoleInv` has
two parts. `OneJob`: each run, active or not, has at most one row that no relay has
handled or message that nobody is about to delete, which names the checkpoint; an
active run has one; and if it is a message that has been received, a goroutine
works on it (so no lease that ends, and no redrive, concerns an active run).
`Exclusive`: a goroutine is alone on its message, holds its lease by the last
receipt, and executes the run's checkpoint. When a goroutine commits, its message
is the one job of the run, so no other goroutine can be in the middle of the old
node.

The assumptions are those of the modules: `MaxReceiveAssumption`,
`NoneAssumption`, `PayloadAssumption`, `GraphAssumption`, `ProcessAssumption`.
`GraphAssumption` is what publishing provides: `PublishedFitsExecution` below.

### PublishGraph

For every catalogue of node types that satisfies `DegreesAssumption`, every set
of saved drafts of any size and every order of the searches:

| Theorem | Statement |
|---|---|
| `ValidationTyped` | `Spec => []TypeOK`; among others no in-degree goes below zero |
| `KahnCountsEdges` | `Spec => []KahnCounts` |
| `VerdictsAreExact` | `Spec => []VerdictExact` |
| `PublishedCanRun` | `Spec => []ExecutionReady` |
| `PublishedFitsExecution` | `Spec => []Executable`: a published graph satisfies `GraphAssumption` |

`KahnInv` says what the counters of the first loop mean: `in[n]` is the number
of edges into `n` from nodes not yet peeled. From that follow its two other
parts, that no set of nodes fed from within loses a node (so a cycle is never
peeled) and that no set in which a walk can go on for ever is peeled as a whole
(so a graph peeled completely has no endless walk; this is the direction
execution needs, and it is stated without induction on the length of a walk).
`ReachInv` is that everything visited is reachable and that what has left the
queue has its successors visited. `Validated` carries the static checks to the
verdict. `DegreesAssumption` asks that every type but the response has a minimum
out-degree of one, as the rows that the migrations insert have; without it a
node with no way on could be published.

### DraftSaves

For bodies of any length, any catalogue of node types and any sets of texts:

| Theorem | Statement |
|---|---|
| `SavesTyped` | `Spec => []TypeOK` |
| `ChecksAreExact` | `Spec => []ChecksExact` |
| `NoConstraintBroken` | `Spec => []FailsOnlyOnText` |
| `StoredAsSent` | `Spec => []SavedAsSent` |
| `DraftsAreSound` | `Spec => []DraftSound`: valid for the builder, and a graph publish can read |

The invariant says what the loops have established (`NodesLoop`, `EdgesLoop`: the list
is good up to the index, and the maps hold exactly the keys of that part) and which
of the two tables is already equal to the body (`Synchronised`). `NextNodeGood` and
`NextEdgeGood` are the steps of the loops: one more element is good if it is, and
differs from what the maps hold; so a refusal means that no continuation of the list
is well formed. `WellFormedRows` turns a well-formed body into rows that meet every
constraint, and `UpsertThenDelete` is why nothing about the replaced draft is needed.

### BuilderTransactions

For every set of workflows, versions, clients and graphs that satisfies
`PayloadsAssumption` and `NullAssumption`:

| Theorem | Statement |
|---|---|
| `TypesCorrect` | `Spec => []TypeOK` |
| `PointersCoherent` | `Spec => []HeadCoherent` |
| `PublishedValidated` | `Spec => []PublishedIsValid` |
| `PublishedNeverChanges` | `Spec => PublishedFrozen` |
| `TransactionsAtomic` | `Spec => RequestsAtomic`, that is `WorkflowVersions!Spec` |

The inductive invariant adds three parts to the properties. `Sound(c)` says that
what a transaction has read under the lock is still so: the head is the head, it
is a draft or it is live as the save decided, the nodes and edges read are those
stored. `Exclusive` says why: nobody else holds the row, nor the id of the version
it will insert. `Owned` says that versions belong to workflows that exist. Then the
proof has two kinds of steps. Steps that leave the tables alone keep the
invariant by `LocalStep` and `EndStep`; each commit changes the rows of one
workflow (`RowsKept`), leaves alone what the other transactions rely on
(`CommitStep`), and is a step of `WorkflowVersions`. The refinement mapping is the
identity on the tables. `PersistedIsPayload` shows that the upserts, deletes and
cascades leave exactly the payload, `HighestIsHead` that `MAX(version)` is the
number of the head.

### NodeOutputs

For any runs, versions, templates, expressions, payloads, replies and results of
user code, nested to any depth, any batches and any `MaxReceive` and `MaxHops`:

| Theorem | Statement |
|---|---|
| `Typed` | `Spec => []TypeOK`; among others every `last_output` is a JSON object that `jsonb` takes |
| `EnvelopeIsKept` | `Spec => []EnvelopeKept` |
| `PayloadIsIntact` | `Spec => []PayloadIntact` |
| `OnlyPoisonIsParked` | `Spec => []ParkedByPoison` |
| `NoBranchIsTakenOnError` | `Spec => NoBranchOnError` |
| `DecodedOnce` (`JsonValuesProofs`) | `Decoded(Decoded(v)) = Decoded(v)`: a value loses precision at most once |

`IInv` speaks of one run at a time (`RunOK`), of the jobs (`JobsInv`) and of what
has been given up (`PoisonInv`). Three of the properties had to be strengthened
before a step preserved them.

* `EnvelopeKept` lets a Function's answer be anything. If an answer could have an
  object under `data` and other fields beside it, a Conditional behind the Function
  would write the whole answer back, and its own output would be no envelope.
  `RunInv` therefore adds that an output with an object under `data` has no other
  field: the sandbox puts the returned value under `data` and nothing beside it, and
  reports an error under `error` alone.
* `PayloadIntact` follows from what precisely the Conditionals have made of the
  payload: nothing before the first, one rounding by the first, nothing by the
  others. The last is `DecodedOnce`, and the assignment of `data.branch` beside the
  payload leaves it alone (`BranchOfEnvelope`, `PayloadCarried`).
* `ParkedByPoison` looks back: a job is parked long after the crash that took its
  last receive. What makes it inductive is that an executor that panics can do
  nothing else with this input (`PanickingStays`): the run that killed the worker
  is never advanced, completed or failed, so it still is what explains the
  neighbour's end. `PoisonInv` says so of each active run that is parked or whose
  message has been received and is back in the queue.

Each executor has a lemma for what it can answer (`ConditionalAnswers`, `ApiAnswers`,
`ResponseAnswers`, `FunctionAnswers`) and one for what it makes of a good input;
`NodeAnswers` combines them for the node of a run. The lemmas of `JsonValuesProofs`
say which entries `Field`, `Obj`, `Fields` and `Decoded` have, and that each returns a
JSON value. They need no induction over the structure of a value, since the
operators treat each entry by itself.

Assumptions: `DataAssumption` (what a client, a service or the user's code sends is
JSON, and status codes are digits), `VersionsAssumption` (a version has nodes of the
seeded types, no edge leads into Start, and a template is JSON if it is not absent or
unreadable), `BoundsAssumption`, `NumberAssumption` (the largest float64 is a float64),
and `LiteralsAssumption`, which says that the keys used by the executors are strings: true
of every literal, but the provers have to be told.

### Only model-checked

Every invariant and every action property of a passing run is a theorem. What stays
with TLC are the four liveness properties, `RunsSettle`, `JobsDrain`, `RunsEnd`
and `Terminates`: liveness under fairness is out of the prover's reach. The findings of section 5 are
counterexamples and need no proof. No module uses a RECURSIVE operator, and no theorem
needs an induction over data. `Resolved` walks a path with a fold, about whose result the proofs
assume nothing.

## 5. Where the code and the repository's README differ

Each is a run that TLC must find violated; the trace is the shortest scenario.

| Run | README.md says | The code does |
|---|---|---|
| `CancelledReopened` | :814, :914 cancelled is terminal | `AdvanceWorkflowRun`, `CompleteWorkflowRun` and `FailWorkflowRun` have no condition on the status: a node that was executing when Stop came sets the run running, completed or failed |
| `StaleJob` | :1303, :1419 a job of a node the run has left is dropped | the job's node and attempt are never compared; the run's current node is executed |
| `NoAutoRetry` | :1367, :1369, :1422 a retryable failure keeps the run running for up to three attempts, the next one delayed | `handleNodeJob` fails the run for every error; no attempt is scheduled, `available_at` is never set, and nothing compares `current_node_attempt` |
| `SandboxErrors` | :1197 `last_output` is overwritten only when a node succeeds; :968 `RUNTIME_ERROR` is a node error | `Lambda.Invoke` looks at `FunctionError` only; the sandbox answers a throw or a timeout with a payload, which becomes the output, and the run may complete |
| `NotFound` | :437, :595 404 is for missing or archived workflows | `LockWorkflowForPublish` waits for a save that starts the next draft; its join, evaluated again, finds no row, and the answer is 404 |

The first two have one cause, the update by `id` alone after a read that may be long out
of date. It also undoes a pause (README.md:721 says that no successor is scheduled
while a run is paused), and lets a worker that lost a race write a second checkpoint and a
second job (README.md:1305, :1327). What holds nevertheless is what the passing runs and the theorems say:
`SettledForever` and `QuietRunStaysPut` are the two promises restricted to runs
that no goroutine works on, and the hazard is exactly that window.

A failed job keeps its message. Once Retry is used, the old job and the new one may
both execute the node, the faster moves the run on, the slower writes the older
checkpoint again, or a failure into a run that the faster one has completed
(README.md:914 says that completed is terminal). A Retry after that gives the Response
its own output, although README.md:1197 says that a failure leaves `last_output` so for
Retry. So `Faults` and the theorem on `CheckpointCoherent` leave Retry out. `InputTraceable` is the
bound on the damage: no node is ever given
anything but the output of a predecessor or the result of the run.

In `NoAutoRetry` every error counts as retryable. That is the scenario of a timeout, which
README.md:1367 names; for the errors it calls not retryable the code does what it says.
The guard of README.md:1444 on the attempt ("a worker may only write `attempt 3 happened`
if the run still says attempt 2") is missing for the same reason, and with it what would
drop the old job of a failed node.

Three more differences that no run is about. README.md:985 makes a non-2xx
reply of a General API node an error `HTTP_NON_2XX`; `APIExecutor` returns any reply as a success, as
`ApiOutcomes` does. README.md:1395 and :1424 describe a watcher of the dead-letter queue; there
is none in the code, so a parked run stays active (`RunsSettle` and `RunsEnd` say
"or parked" for that reason). The comment at `internal/worker/worker.go:34` says that each message
of a batch is executed independently; a panic in one goroutine ends all of them.

## 6. Not modelled

* The JavaScript of the sandbox beyond what it answers; URLs (but whether they parse), headers and request
  bodies of API nodes; texts, booleans and arrays inside JSON values beyond their
  being scalars that are copied and compared.
* Answers of the endpoints, their validation and error mapping, as far as they do
  not decide which action is taken; the reading endpoints Get and List.
* Names and descriptions of workflows beyond whether they can be stored, positions of nodes, and of configs whatever goes
  beyond whether they fit their type and what the executors do with them.
* Retention of messages, order of `created_at`, the connection pool, logging,
  configuration, deployment, benchmarks.

## 7. Plan

1. Composition: `Start` of `Execution` with the versions of `BuilderTransactions`, so that
   runs of several versions of one workflow overlap with publishes.
2. The outbox, the queue and the outputs in one module, for a duplicate that meets
   an output of another attempt.
