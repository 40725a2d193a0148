---------------------------- MODULE NodeOutputs ----------------------------
(***************************************************************************)
(* The data side of execution: what flows from node to node in             *)
(* workflow_runs.last_output, and what becomes of the job when an executor *)
(* fails, panics, or returns what cannot be stored.                        *)
(*                                                                         *)
(* One worker takes the jobs of several runs as batches, one goroutine per *)
(* job.  A run's graph is unfolded as it goes: the node that follows is any *)
(* node of the version (with the seeded node types published graphs are    *)
(* trees, so a run meets no node twice).  Controls, duplicates and lost    *)
(* jobs are the subject of Execution and do not occur here.                *)
(***************************************************************************)
EXTENDS Executors, FiniteSets

CONSTANTS
    Runs,
    Versions,     \* per run: the nodes its version may continue with
    Payloads,     \* per run: the payloads a client may send
    Statuses,     \* status codes of replies to a General API node
    Replies,      \* bodies of these replies
    Values,       \* what the code of a Function node may return
    MaxReceive,   \* maxReceiveCount of the queue
    MaxHops       \* bound on the nodes executed before a Response

ASSUME BoundsAssumption == MaxReceive \in Nat \ {0} /\ MaxHops \in Nat

\* The codes of replies are digits.
ASSUME DataAssumption ==
    /\ \A r \in Runs : \A p \in Payloads[r] : IsJson(p)
    /\ \A v \in Statuses : IsJson(v) /\ Storable(v)
    /\ \A v \in Replies \cup Values : IsJson(v)

VARIABLES
    runs,      \* the row of each run, and what its past leaves behind
    receives,  \* how often the run's message has been received; NoJob
    batch,     \* the runs whose messages the worker's goroutines work on
    parked     \* the runs whose message is in the dead-letter queue

vars == <<runs, receives, batch, parked>>

NoJob == -1

Node(type, config) == [type |-> type, config |-> config]

NoConfig == [config |-> "none"]

StartNode == Node("start", NoConfig)

NoRun == [status |-> "absent"]

Active == {"pending", "running"}

\* The labels of the edges that publishing demands of a node type.
Labels(type) ==
    IF type = "conditional" THEN {"true", "false"} ELSE {"default"}

NodeTypes == {"start", "conditional", "api", "function", "response"}

\* Publishing leaves no edge into the Start node.
ASSUME VersionsAssumption ==
    \A r \in Runs : \A n \in Versions[r] :
        /\ n.type \in NodeTypes \ {"start"}
        /\ n.type \in {"api", "response"} =>
              \/ n.config.template \in {NoTemplate, NotJson}
              \/ IsJson(n.config.template)
        /\ n.type = "api" => n.config.parses \in BOOLEAN

\* The trail (the types of the nodes that have been executed) and the payload
\* are not kept by the code; the properties speak of them.
TypeOK ==
    /\ \A r \in Runs : runs[r] # NoRun =>
          /\ runs[r].status \in Active \cup {"completed", "failed"}
          /\ runs[r].node \in Versions[r] \cup {StartNode}
          /\ IsJson(runs[r].output) /\ IsObj(runs[r].output)
          /\ Storable(runs[r].output)
          /\ runs[r].trail \in Seq(NodeTypes)
          /\ Len(runs[r].trail) <= MaxHops + 2
    /\ receives \in [Runs -> {NoJob} \cup 0 .. MaxReceive]
    /\ batch \subseteq {r \in Runs : receives[r] > 0}
    /\ parked \subseteq Runs

Init ==
    /\ runs = [r \in Runs |-> NoRun]
    /\ receives = [r \in Runs |-> NoJob]
    /\ batch = {}
    /\ parked = {}

-----------------------------------------------------------------------------
\* marshalStartOutput, and the insert that refuses what jsonb cannot hold.
Start(r) ==
    /\ runs[r] = NoRun
    /\ \E p \in Payloads[r] :
        /\ Storable(p)
        /\ runs' = [runs EXCEPT ![r] =
               [status |-> "pending", node |-> StartNode,
                output |-> Envelope(Obj([payload |-> p])),
                payload |-> p, trail |-> <<>>]]
    /\ receives' = [receives EXCEPT ![r] = 0]
    /\ UNCHANGED <<batch, parked>>

\* The messages SQS still delivers.
Deliverable == {r \in Runs : receives[r] \in 0 .. MaxReceive - 1}

\* Run: the next batch is received when every goroutine of the last is done.
Receive ==
    /\ batch = {}
    /\ batch' \in SUBSET Deliverable \ {{}}
    /\ receives' = [r \in Runs |->
                       receives[r] + IF r \in batch' THEN 1 ELSE 0]
    /\ UNCHANGED <<runs, parked>>

\* Registry.Execute
Outcomes(r) ==
    LET node == runs[r].node
        input == runs[r].output
    IN  CASE node.type = "start" -> StartOutcomes(input)
          [] node.type = "conditional" -> ConditionalOutcomes(node.config, input)
          [] node.type = "api" ->
                 ApiOutcomes(node.config, input, Statuses, Replies)
          [] node.type = "function" -> FunctionOutcomes(input, Values)
          [] node.type = "response" ->
                 ResponseOutcomes(node.config.template, input)

\* A goroutine of the batch executes the run's node.
Executing(r) == r \in batch /\ runs[r].status \in Active

\* A slip: whatever the executor returns can be stored.
PersistableByLabel(r, outcome) ==
    outcome.kind = "output" => outcome.label \in Labels(runs[r].node.type)

\* persistNodeResult can do its part: the label has an edge, and jsonb takes
\* the output.
Persistable(r, outcome) ==
    /\ outcome.kind = "output" => outcome.label \in Labels(runs[r].node.type)
    /\ Storable(outcome.output)

\* The nodes a run may continue with; the last hop of the bound is a Response.
Following(r) ==
    {n \in Versions[r] : Len(runs[r].trail) >= MaxHops => n.type = "response"}

\* The run moves to the next node and gets a new job; the old one is deleted.
Advance(r) ==
    /\ Executing(r)
    /\ receives' = [receives EXCEPT ![r] = 0]
    /\ batch' = batch \ {r}
    /\ UNCHANGED parked
    /\ \E outcome \in Outcomes(r) :
        /\ outcome.kind = "output"
        /\ Persistable(r, outcome)
        /\ \E next \in Following(r) :
              runs' = [runs EXCEPT
                  ![r].status = "running",
                  ![r].node = next, ![r].output = outcome.output,
                  ![r].trail = Append(@, runs[r].node.type)]

Complete(r) ==
    /\ Executing(r)
    /\ receives' = [receives EXCEPT ![r] = NoJob]
    /\ batch' = batch \ {r}
    /\ UNCHANGED parked
    /\ \E outcome \in Outcomes(r) :
        /\ outcome.kind = "done"
        /\ Persistable(r, outcome)
        /\ runs' = [runs EXCEPT
               ![r].status = "completed", ![r].output = outcome.output,
               ![r].trail = Append(@, "response")]

Unpersistable(r) ==
    \E outcome \in Outcomes(r) :
        outcome.kind \in {"output", "done"} /\ ~Persistable(r, outcome)

\* A slip: the message is deleted whether the transaction commits or not.
PersistFailsAndDeletes(r) ==
    /\ Executing(r)
    /\ receives' = [receives EXCEPT ![r] = NoJob]
    /\ batch' = batch \ {r}
    /\ UNCHANGED <<runs, parked>>
    /\ Unpersistable(r)

\* The transaction fails: the goroutine returns and the message stays.
PersistFails(r) ==
    /\ Executing(r)
    /\ batch' = batch \ {r}
    /\ UNCHANGED <<runs, receives, parked>>
    /\ Unpersistable(r)

\* A slip: the error is logged and nothing else.
FailUnrecorded(r) ==
    /\ Executing(r)
    /\ batch' = batch \ {r}
    /\ UNCHANGED <<runs, receives, parked>>
    /\ Error \in Outcomes(r)

\* FailWorkflowRun: last_output stays for a retry, and so does the message.
Fail(r) ==
    /\ Executing(r)
    /\ runs' = [runs EXCEPT ![r].status = "failed"]
    /\ batch' = batch \ {r}
    /\ UNCHANGED <<receives, parked>>
    /\ Error \in Outcomes(r)

\* Nothing recovers a panic in a goroutine: the process dies with all of them.
\* Their messages come back when the leases end.
PanicKills(r) ==
    /\ Executing(r)
    /\ batch' = {}
    /\ UNCHANGED <<runs, receives, parked>>
    /\ Panic \in Outcomes(r)

\* The message of a run that is over is deleted.
DropJob(r) ==
    /\ r \in batch
    /\ runs[r].status \notin Active
    /\ receives' = [receives EXCEPT ![r] = NoJob]
    /\ batch' = batch \ {r}
    /\ UNCHANGED <<runs, parked>>

\* The redrive policy.
DeadLetter(r) ==
    /\ r \notin batch
    /\ receives[r] = MaxReceive
    /\ receives' = [receives EXCEPT ![r] = NoJob]
    /\ parked' = parked \cup {r}
    /\ UNCHANGED <<runs, batch>>

\* handleNodeJob, from the message to its end.
HandleNodeJob(r) ==
    \/ Advance(r) \/ Complete(r) \/ PersistFails(r)
    \/ Fail(r) \/ PanicKills(r) \/ DropJob(r)

Next ==
    \/ Receive
    \/ \E r \in Runs : Start(r) \/ HandleNodeJob(r) \/ DeadLetter(r)

\* The worker is started again when it dies and goes on polling; every executor
\* returns (the clients have timeouts); SQS redrives.
Fairness ==
    /\ WF_vars(Receive)
    /\ \A r \in Runs : WF_vars(HandleNodeJob(r)) /\ WF_vars(DeadLetter(r))

Spec == Init /\ [][Next]_vars /\ Fairness

-----------------------------------------------------------------------------
(* Properties *)

Started == {r \in Runs : runs[r] # NoRun}

\* The envelope { data: object } is what each executor hands on, whatever came
\* in and whatever the outside answered - only the sandbox's answer, which
\* FunctionExecutor passes on unseen, may be something else.
EnvelopeKept ==
    \A r \in Started :
        ~IsEnvelope(runs[r].output)
            => runs[r].trail[Len(runs[r].trail)] = "function"

\* As long as a run has only passed Start and Conditionals, its output carries
\* the client's payload: as it was sent up to the first Conditional, and from
\* there on with each number rounded to a float64 once and for all, because
\* conditional.go decodes and encodes the whole envelope.
PayloadIntact ==
    \A r \in Started :
        (\A i \in 1 .. Len(runs[r].trail) :
              runs[r].trail[i] \in {"start", "conditional"})
            => Field(Field(runs[r].output, "data"), "payload") =
                   IF \E i \in 1 .. Len(runs[r].trail) :
                          runs[r].trail[i] = "conditional"
                   THEN Decoded(runs[r].payload) ELSE runs[r].payload

\* What may keep a run's job from ever being done: a null template over data, a
\* Conditional behind a Function that did not return an object, and a text that
\* jsonb refuses, which can come from outside or from a template.
MayBePoison(r) ==
    LET node == runs[r].node IN
        \/ node.type \in {"api", "response"} /\ node.config.template = Null
        \/ (node.type = "conditional" /\ ~IsEnvelope(runs[r].output))
        \/ (node.type = "api" /\ \E v \in Replies : ~Storable(v))
        \/ (node.type = "function" /\ \E v \in Values : ~Storable(v))
        \/ (node.type = "response" /\ ~Storable(node.config.template))

\* The worker is killed whenever it executes the job of this run.
Kills(r) == runs[r].status \in Active /\ Panic \in Outcomes(r)

\* The job of a run that has not failed ends in the dead-letter queue only if
\* it is poison, or if it has shared the worker with a run whose job is still
\* there to kill it again.  No payload of a client makes a job poison, and no
\* failing node does: handler.go records an error and deletes the job the next
\* time.
ParkedByPoison ==
    \A r \in parked :
        runs[r].status \in Active =>
            MayBePoison(r) \/ \E p \in Started : Kills(p) /\ MayBePoison(p)

\* A Conditional never decides a branch on anything but an envelope: the
\* sandbox's error payload fails the run or kills the worker, but it is never
\* mistaken for data.
NoBranchOnError ==
    [][\A r \in Started :
          runs[r].node.type = "conditional" /\ ~IsEnvelope(runs[r].output)
              => runs'[r].output = runs[r].output]_vars

\* Poison is contained: however often a job kills the worker, and whoever is in
\* the batch with it, every run ends - completed, failed, or parked.
RunsEnd ==
    \A r \in Runs :
        runs[r].status \in Active
            ~> (runs[r].status \notin Active \/ r \in parked)

\* "A worker overwrites [last_output] only when a node succeeds": the output
\* of a run is never the report of an error (README.md of the repository).
OutputIsSuccess ==
    \A r \in Started : "error" \notin Keys(runs[r].output)
=============================================================================
