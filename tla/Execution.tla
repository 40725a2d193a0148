------------------------------ MODULE Execution ------------------------------
(***************************************************************************)
(* The execution spine: the run endpoints of execution-api, the relay that *)
(* moves rows of run_node_jobs_outbox to SQS, and the execution workers    *)
(* that execute one node per job and write the next checkpoint.            *)
(*                                                                         *)
(* Every action is one transaction, one SQL statement, one call to SQS or  *)
(* one node execution; the processes interleave between them.  A           *)
(* transaction that is held open across a call outside the database (the   *)
(* relay's) or across several statements (the worker's) spans several      *)
(* steps and holds its row locks from the first to the last; the           *)
(* transactions of the API are one statement on the run followed by one    *)
(* insert that nobody can see before the commit, hence one step.           *)
(*                                                                         *)
(* Not part of this module: the contents of outputs and configs, the       *)
(* validation of requests, the 4xx answers (they change no state), the     *)
(* builder's writes (a pinned version never changes), the retention limits *)
(* of SQS.                                                                 *)
(***************************************************************************)
EXTENDS WorkflowRuns, NodeJobQueue, FiniteSets

CONSTANTS
    StartNode,    \* the version's Start node
    Successors,   \* the version's edges: the set of successors of each node
    Responses,    \* its Response nodes, whose execution completes the run
    FailNodes,    \* nodes whose executor may report an error
    RowIds,       \* pool of outbox row ids: bounds the rows that exist at once
    Relays,       \* execution-api processes, each with its relay loop
    Workers,      \* execution-worker processes
    MaxBatch,     \* MaxNumberOfMessages of one receive
    Controls,     \* run endpoints the clients call after Start
    MaxFaults,    \* bound on the crashes and errors of the infrastructure
    TimelyLease   \* TRUE: a lease never expires while its holder still works

ASSUME PayloadAssumption == Payload \notin Nodes \cup {None}

\* What publishing guarantees of a pinned version and execution relies on.
ASSUME GraphAssumption ==
    /\ StartNode \in Nodes
    /\ Responses \subseteq Nodes
    /\ Successors \in [Nodes -> SUBSET Nodes]
    /\ \A n \in Nodes \ Responses : Successors[n] # {}

ASSUME ProcessAssumption ==
    /\ FailNodes \subseteq Nodes
    /\ MaxBatch \in Nat \ {0}
    /\ MaxFaults \in Nat
    /\ Controls \subseteq {"pause", "resume", "stop", "retry"}
    /\ TimelyLease \in BOOLEAN

VARIABLES
    runs,     \* table workflow_runs
    outbox,   \* table run_node_jobs_outbox
    queue,    \* the SQS queue
    dlq,      \* jobs parked in the dead-letter queue
    relay,    \* per relay: the transaction it has open
    task,     \* per worker and message: the goroutine handling that delivery
    faults    \* faults so far

vars == <<runs, outbox, queue, dlq, relay, task, faults>>

-----------------------------------------------------------------------------
NoJob == [run |-> None, node |-> None]

\* The jobs a relay has locked, those among them whose run_status allows
\* delivery, and those already dealt with in the open transaction.
NoBatch == [jobs |-> {}, active |-> {}, done |-> {}]

\* Where a goroutine of handleNodeJob stands:
\*   "read"     about to read the run,       "execute"  executing the node,
\*   "persist"  about to open the result's transaction,
\*   "commit"   the transaction holds the run's row, not yet committed,
\*   "fail"     about to record the error,   "ack"      about to delete.
TaskStates == {"idle", "read", "execute", "persist", "commit", "fail", "ack"}

Tasks == [pc : TaskStates, run : Runs \cup {None}, job : Nodes \cup {None},
          receipt : 0 .. MaxReceive, node : Nodes \cup {None},
          next : Nodes \cup {None}]

NoTask == [pc |-> "idle", run |-> None, job |-> None, receipt |-> 0,
           node |-> None, next |-> None]

TypeOK ==
    /\ runs \in [Runs -> RowsOver(Nodes) \cup {NoRow}]
    /\ outbox \in [RowIds -> Job \cup {NoJob}]
    /\ queue \in [MsgIds -> Message]
    /\ dlq \subseteq Job
    /\ relay \in [Relays -> [jobs : SUBSET RowIds, active : SUBSET RowIds,
                             done : SUBSET RowIds]]
    /\ task \in [Workers -> [MsgIds -> Tasks]]
    /\ faults \in 0 .. MaxFaults

Init ==
    /\ runs = [r \in Runs |-> NoRow]
    /\ outbox = [o \in RowIds |-> NoJob]
    /\ queue = EmptyQueue
    /\ dlq = {}
    /\ relay = [x \in Relays |-> NoBatch]
    /\ task = [w \in Workers |-> [m \in MsgIds |-> NoTask]]
    /\ faults = 0

-----------------------------------------------------------------------------
Rows == {o \in RowIds : outbox[o] # NoJob}

FreeRows == RowIds \ Rows

\* Ids for a new message.  An id still held by a goroutine is not reused, so
\* that an old receipt never names a newer message.
FreeMessages ==
    {m \in MsgIds : /\ ~Present(queue, m)
                    /\ \A w \in Workers : task[w][m] = NoTask}

\* Row locks on workflow_runs: FOR UPDATE of the relay's open transaction, and
\* the UPDATE of a worker's.  A write to a locked row waits for the commit.
RelayHolds(x, r) == \E o \in relay[x].jobs : outbox[o].run = r

WorkerHolds(w, m, r) == task[w][m].pc = "commit" /\ task[w][m].run = r

\* A slip: FOR UPDATE OF o, which leaves the run unlocked.
LockedByWorkers(r) == \E w \in Workers, m \in MsgIds : WorkerHolds(w, m, r)

Locked(r) ==
    \/ \E x \in Relays : RelayHolds(x, r)
    \/ \E w \in Workers, m \in MsgIds : WorkerHolds(w, m, r)

Writable(r) == IsRow(runs[r]) /\ ~Locked(r)

Enqueued(o, r, n) == [outbox EXCEPT ![o] = [run |-> r, node |-> n]]

-----------------------------------------------------------------------------
(* execution-api: the run endpoints *)

\* start: the run and its first job, in one transaction.
Start(r) ==
    /\ ~IsRow(runs[r])
    /\ runs' = [runs EXCEPT ![r] = InsertedRow(StartNode)]
    /\ \E o \in FreeRows : outbox' = Enqueued(o, r, StartNode)
    /\ UNCHANGED <<queue, dlq, relay, task, faults>>

\* Pause: the status only; neither the outbox nor the workers are told.
Pause(r) ==
    /\ "pause" \in Controls
    /\ Writable(r) /\ CanPause(runs[r])
    /\ runs' = [runs EXCEPT ![r] = Paused(@)]
    /\ UNCHANGED <<outbox, queue, dlq, relay, task, faults>>

\* A slip: the status is set and no job is written.
ResumeStatusOnly(r) ==
    /\ "resume" \in Controls
    /\ Writable(r) /\ CanResume(runs[r])
    /\ runs' = [runs EXCEPT ![r] = Resumed(@)]
    /\ UNCHANGED <<outbox, queue, dlq, relay, task, faults>>

\* Resume: the status and a job for the checkpoint, in one transaction.
Resume(r) ==
    /\ "resume" \in Controls
    /\ Writable(r) /\ CanResume(runs[r])
    /\ runs' = [runs EXCEPT ![r] = Resumed(@)]
    /\ \E o \in FreeRows : outbox' = Enqueued(o, r, runs[r].node)
    /\ UNCHANGED <<queue, dlq, relay, task, faults>>

Stop(r) ==
    /\ "stop" \in Controls
    /\ Writable(r) /\ CanStop(runs[r])
    /\ runs' = [runs EXCEPT ![r] = Stopped(@)]
    /\ UNCHANGED <<outbox, queue, dlq, relay, task, faults>>

\* Retry: as Resume, for a failed run.
Retry(r) ==
    /\ "retry" \in Controls
    /\ Writable(r) /\ CanRetry(runs[r])
    /\ runs' = [runs EXCEPT ![r] = Retried(@)]
    /\ \E o \in FreeRows : outbox' = Enqueued(o, r, runs[r].node)
    /\ UNCHANGED <<queue, dlq, relay, task, faults>>

-----------------------------------------------------------------------------
(* execution-api: the relay *)

\* Slips: no SKIP LOCKED and no lock; only the rows of active runs.
EveryRow == Rows
RowsOfActiveRuns ==
    {o \in Rows : ~Locked(outbox[o].run) /\ IsActive(runs[outbox[o].run])}

\* The rows a pass takes: FOR UPDATE OF o, r SKIP LOCKED leaves out the rows
\* of a run somebody else has locked.
LockableRows == {o \in Rows : ~Locked(outbox[o].run)}

\* LockDueRunNodeJobsOutbox: locks the rows and their runs, and reads
\* run_status under the lock.
LockDue(x) ==
    /\ relay[x] = NoBatch
    /\ LockableRows # {}
    /\ relay' = [relay EXCEPT ![x] =
           [jobs |-> LockableRows,
            active |-> {o \in LockableRows : IsActive(runs[outbox[o].run])},
            done |-> {}]]
    /\ UNCHANGED <<runs, outbox, queue, dlq, task, faults>>

Handled(x, o) == [relay EXCEPT ![x].done = @ \cup {o}]

\* One job of the batch that may be delivered: Send, then delete its row.  The
\* message is in the queue at once, the delete takes effect at the commit.
SendJob(x, o) ==
    /\ o \in relay[x].active \ relay[x].done
    /\ \E m \in FreeMessages : queue' = Sent(queue, m, outbox[o])
    /\ relay' = Handled(x, o)
    /\ UNCHANGED <<runs, outbox, dlq, task, faults>>

\* One job of a run that is not active: its row is deleted without a send.
SkipJob(x, o) ==
    /\ o \in relay[x].jobs \ (relay[x].active \cup relay[x].done)
    /\ relay' = Handled(x, o)
    /\ UNCHANGED <<runs, outbox, queue, dlq, task, faults>>

\* A slip: the deletes never happen.
RelayCommitKeepsRows(x) ==
    /\ relay[x] # NoBatch
    /\ relay[x].done = relay[x].jobs
    /\ relay' = [relay EXCEPT ![x] = NoBatch]
    /\ UNCHANGED <<runs, outbox, queue, dlq, task, faults>>

RelayCommit(x) ==
    /\ relay[x] # NoBatch
    /\ relay[x].done = relay[x].jobs
    /\ outbox' = [o \in RowIds |->
                     IF o \in relay[x].done THEN NoJob ELSE outbox[o]]
    /\ relay' = [relay EXCEPT ![x] = NoBatch]
    /\ UNCHANGED <<runs, queue, dlq, task, faults>>

\* A slip: deleting the rows first, outside the transaction.
RelayAbortAfterDelete(x) ==
    /\ relay[x] # NoBatch
    /\ faults < MaxFaults
    /\ faults' = faults + 1
    /\ outbox' = [o \in RowIds |->
                     IF o \in relay[x].jobs THEN NoJob ELSE outbox[o]]
    /\ relay' = [relay EXCEPT ![x] = NoBatch]
    /\ UNCHANGED <<runs, queue, dlq, task>>

\* A failed send or delete returns from the transaction, and so does the death
\* of the process: nothing is deleted, what was sent stays sent.
RelayAbort(x) ==
    /\ relay[x] # NoBatch
    /\ faults < MaxFaults
    /\ faults' = faults + 1
    /\ relay' = [relay EXCEPT ![x] = NoBatch]
    /\ UNCHANGED <<runs, outbox, queue, dlq, task>>

-----------------------------------------------------------------------------
(* execution-worker *)

Idle(w) == \A m \in MsgIds : task[w][m] = NoTask

Batches ==
    {b \in SUBSET Deliverable(queue) : b # {} /\ Cardinality(b) <= MaxBatch}

\* Run: receives a batch once every goroutine of the last one has returned, and
\* starts one goroutine per message.
Receive(w) ==
    /\ Idle(w)
    /\ \E batch \in Batches :
        /\ queue' = Received(queue, batch)
        /\ task' = [task EXCEPT ![w] = [m \in MsgIds |->
               IF m \in batch
               THEN [NoTask EXCEPT !.pc = "read", !.run = queue[m].run,
                                   !.job = queue[m].node,
                                   !.receipt = queue[m].receives + 1]
               ELSE NoTask]]
    /\ UNCHANGED <<runs, outbox, dlq, relay, faults>>

At(w, m, pc) == task[w][m].pc = pc

\* A slip: the goroutine executes the node its job names.
ReadRunOfJob(w, m) ==
    /\ At(w, m, "read")
    /\ LET row == runs[task[w][m].run] IN
        task' = [task EXCEPT ![w][m] =
                    IF IsActive(row)
                    THEN [@ EXCEPT !.pc = "execute", !.node = task[w][m].job]
                    ELSE [@ EXCEPT !.pc = "ack"]]
    /\ UNCHANGED <<runs, outbox, queue, dlq, relay, faults>>

\* GetWorkflowRun, not a locking read.  The goroutine goes on with the run's
\* current node, whatever node the job names; a job of a run that is not
\* active is only deleted.
ReadRun(w, m) ==
    /\ At(w, m, "read")
    /\ LET row == runs[task[w][m].run] IN
        task' = [task EXCEPT ![w][m] =
                    IF IsActive(row)
                    THEN [@ EXCEPT !.pc = "execute", !.node = row.node]
                    ELSE [@ EXCEPT !.pc = "ack"]]
    /\ UNCHANGED <<runs, outbox, queue, dlq, relay, faults>>

\* Execute returns an output: the label picks the successor, or a Response
\* node ends the run.
ExecuteNode(w, m) ==
    /\ At(w, m, "execute")
    /\ \E next \in IF task[w][m].node \in Responses
                   THEN {None} ELSE Successors[task[w][m].node] :
           task' = [task EXCEPT ![w][m] =
                       [@ EXCEPT !.pc = "persist", !.next = next]]
    /\ UNCHANGED <<runs, outbox, queue, dlq, relay, faults>>

\* Execute returns an error.
ExecuteError(w, m) ==
    /\ At(w, m, "execute")
    /\ task[w][m].node \in FailNodes
    /\ task' = [task EXCEPT ![w][m].pc = "fail"]
    /\ UNCHANGED <<runs, outbox, queue, dlq, relay, faults>>

\* A slip: a node that fails leaves no output, not even its input.
RecordFailureWithoutInput(w, m) ==
    /\ At(w, m, "fail")
    /\ LET r == task[w][m].run IN
        /\ ~Locked(r)
        /\ runs' = [runs EXCEPT ![r] = [Failed(@) EXCEPT !.output = None]]
    /\ task' = [task EXCEPT ![w][m] = NoTask]
    /\ UNCHANGED <<outbox, queue, dlq, relay, faults>>

\* FailWorkflowRun.  The goroutine returns without deleting its message.
RecordFailure(w, m) ==
    /\ At(w, m, "fail")
    /\ LET r == task[w][m].run IN
        /\ ~Locked(r)
        /\ runs' = [runs EXCEPT ![r] = Failed(@)]
    /\ task' = [task EXCEPT ![w][m] = NoTask]
    /\ UNCHANGED <<outbox, queue, dlq, relay, faults>>

\* persistNodeResult: the UPDATE of the run waits for the row's lock and then
\* holds it.
PersistBegin(w, m) ==
    /\ At(w, m, "persist")
    /\ ~Locked(task[w][m].run)
    /\ task' = [task EXCEPT ![w][m].pc = "commit"]
    /\ UNCHANGED <<runs, outbox, queue, dlq, relay, faults>>

\* The commit publishes the checkpoint together with the next job, or the
\* final output alone.
PersistCommit(w, m) ==
    /\ At(w, m, "commit")
    /\ LET t == task[w][m] IN
        IF t.next = None
        THEN /\ runs' = [runs EXCEPT ![t.run] = Completed(@, t.node)]
             /\ UNCHANGED outbox
        ELSE /\ runs' = [runs EXCEPT ![t.run] = Advanced(@, t.next, t.node)]
             /\ \E o \in FreeRows : outbox' = Enqueued(o, t.run, t.next)
    /\ task' = [task EXCEPT ![w][m].pc = "ack"]
    /\ UNCHANGED <<queue, dlq, relay, faults>>

\* deleteNodeJob
Ack(w, m) ==
    /\ At(w, m, "ack")
    /\ queue' \in DeleteResults(queue, m, task[w][m].receipt)
    /\ task' = [task EXCEPT ![w][m] = NoTask]
    /\ UNCHANGED <<runs, outbox, dlq, relay, faults>>

\* A database or queue call fails: the goroutine logs and returns, an open
\* transaction rolls back, the message stays leased.
TaskError(w, m) ==
    /\ task[w][m] # NoTask
    /\ faults < MaxFaults
    /\ faults' = faults + 1
    /\ task' = [task EXCEPT ![w][m] = NoTask]
    /\ UNCHANGED <<runs, outbox, queue, dlq, relay>>

\* The process dies (a panic in an executor, a kill, SIGTERM: main does not
\* wait for Run) and is started again.
WorkerCrash(w) ==
    /\ ~Idle(w)
    /\ faults < MaxFaults
    /\ faults' = faults + 1
    /\ task' = [task EXCEPT ![w] = [m \in MsgIds |-> NoTask]]
    /\ UNCHANGED <<runs, outbox, queue, dlq, relay>>

-----------------------------------------------------------------------------
(* SQS *)

Held(m) ==
    \E w \in Workers :
        task[w][m] # NoTask /\ task[w][m].receipt = queue[m].receives

\* The visibility timeout elapses.  It is a flat 30 seconds while a node may
\* run for longer, so it may elapse under a goroutine that is still working.
LeaseExpire(m) ==
    /\ Present(queue, m) /\ queue[m].leased
    /\ TimelyLease => ~Held(m)
    /\ queue' = LeaseExpired(queue, m)
    /\ UNCHANGED <<runs, outbox, dlq, relay, task, faults>>

\* The redrive policy.
DeadLetter(m) ==
    /\ Poisonous(queue, m)
    /\ dlq' = dlq \cup {[run |-> queue[m].run, node |-> queue[m].node]}
    /\ queue' = Deleted(queue, m)
    /\ UNCHANGED <<runs, outbox, relay, task, faults>>

-----------------------------------------------------------------------------
RelayStep(x) ==
    \/ LockDue(x)
    \/ \E o \in RowIds : SendJob(x, o) \/ SkipJob(x, o)
    \/ RelayCommit(x)

TaskStep(w, m) ==
    \/ ReadRun(w, m) \/ ExecuteNode(w, m) \/ ExecuteError(w, m)
    \/ RecordFailure(w, m) \/ PersistBegin(w, m) \/ PersistCommit(w, m)
    \/ Ack(w, m)

Next ==
    \/ \E r \in Runs : Start(r) \/ Pause(r) \/ Resume(r) \/ Stop(r) \/ Retry(r)
    \/ \E x \in Relays : RelayStep(x) \/ RelayAbort(x)
    \/ \E w \in Workers : Receive(w) \/ WorkerCrash(w)
    \/ \E w \in Workers, m \in MsgIds : TaskStep(w, m) \/ TaskError(w, m)
    \/ \E m \in MsgIds : LeaseExpire(m) \/ DeadLetter(m)

Spec == Init /\ [][Next]_vars

-----------------------------------------------------------------------------
(* Fairness: the relay's ticker and its transaction, each goroutine (every   *)
(* executor has a timeout), the polling of a worker, and SQS's own timers.   *)
(* Clients and faults promise nothing.                                       *)
Fairness ==
    /\ \A x \in Relays : WF_vars(RelayStep(x))
    /\ \A w \in Workers : WF_vars(Receive(w))
    /\ \A w \in Workers, m \in MsgIds : WF_vars(TaskStep(w, m))
    /\ \A m \in MsgIds : WF_vars(LeaseExpire(m)) /\ WF_vars(DeadLetter(m))

FairSpec == Spec /\ Fairness

-----------------------------------------------------------------------------
(* What the properties speak of *)

Active(r) == IsActive(runs[r])

RowOf(o, r) == outbox[o].run = r

\* A message that no goroutine is about to delete.
Pending(m, r) ==
    /\ queue[m].run = r
    /\ \A w \in Workers : ~At(w, m, "ack")

Parked(r) == \E job \in dlq : job.run = r

\* A goroutine has read run r as active and will still write it.
InFlight(r) ==
    \E w \in Workers, m \in MsgIds :
        /\ task[w][m].run = r
        /\ task[w][m].pc \in {"execute", "persist", "commit", "fail"}

\* (o, n): the output of o is what node n takes as its input.
Feeds(o, n) ==
    \/ o = Payload /\ n = StartNode
    \/ o \in Nodes /\ n \in Successors[o]

-----------------------------------------------------------------------------
(* Safety *)

\* No orphaned run: a run that is pending or running always has a job that can
\* still move it - a row of the outbox, or a message nobody is about to delete -
\* or its job sits in the dead-letter queue.  This is what the transactional
\* outbox of persistNodeResult, start, Resume and Retry and the ack-last order
\* of handleNodeJob are for: whatever is crashed, lost, repeated or reordered,
\* the checkpoint and the job are never separated.
NoOrphanedRun ==
    \A r \in Runs : Active(r) =>
        \/ \E o \in RowIds : RowOf(o, r)
        \/ \E m \in MsgIds : Pending(m, r)
        \/ Parked(r)

\* The relay delivers on current knowledge: from the moment LockDue read
\* run_status to the commit, that status is still the run's (FOR UPDATE OF r),
\* although Pause, Stop and the workers all write runs meanwhile.
RelayStatusCurrent ==
    \A x \in Relays : \A o \in relay[x].jobs :
        o \in relay[x].active <=> Active(outbox[o].run)

\* Two relays never have the same outbox row or the same run in their open
\* transactions, nor does a relay share a run with a worker's transaction.
RunLockExclusive ==
    \A r \in Runs :
        /\ \A x, y \in Relays : RelayHolds(x, r) /\ RelayHolds(y, r) => x = y
        /\ \A w, v \in Workers, m, n \in MsgIds :
              WorkerHolds(w, m, r) /\ WorkerHolds(v, n, r)
                 => w = v /\ m = n
        /\ \A x \in Relays, w \in Workers, m \in MsgIds :
              ~(RelayHolds(x, r) /\ WorkerHolds(w, m, r))

\* The checkpoint is coherent: while a run can be worked on, last_output is the
\* output of a predecessor of current_node_id (or the payload, at Start), even
\* when duplicates make late workers write checkpoints of old nodes.
CheckpointCoherent ==
    \A r \in Runs :
        IsRow(runs[r]) /\ runs[r].status \in {"pending", "running", "paused"}
            => Feeds(runs[r].output, runs[r].node)

\* What may go wrong with Retry is bounded.  A failed job keeps its message, so
\* the old and the new job may both execute the node, one of them may lead to the
\* end of the run, and the other write the row after that.  Even so the only
\* input a node can be given that is not a predecessor's output is the result of
\* the whole run, the output of a Response.
InputTraceable ==
    \A r \in Runs :
        IsRow(runs[r]) =>
            \/ Feeds(runs[r].output, runs[r].node)
            \/ runs[r].output \in Responses

\* One job at a time: of all the rows the relay has not delivered and all the
\* messages nobody is about to delete, an active run has exactly one, and it
\* names the checkpointed node - which is why handleNodeJob may ignore the
\* job's node_id.  Holds while the infrastructure does not fail, no lease
\* expires early and nobody resumes or retries.
UndeliveredRows(r) ==
    {o \in RowIds :
        RowOf(o, r) /\ \A x \in Relays : o \notin relay[x].done}

PendingMessages(r) == {m \in MsgIds : Pending(m, r)}

SingleJob ==
    \A r \in Runs : Active(r) =>
        /\ Cardinality(UndeliveredRows(r)) + Cardinality(PendingMessages(r)) = 1
        /\ \A o \in UndeliveredRows(r) : outbox[o].node = runs[r].node
        /\ \A m \in PendingMessages(r) : queue[m].node = runs[r].node

-----------------------------------------------------------------------------
(* Action properties *)

\* Once a run is cancelled or completed and no goroutine that read it as active
\* is left, no step ever changes it again, whatever jobs of it are still in the
\* outbox, in the queue or about to be redelivered.
Settled(r) ==
    runs[r].status \in {"cancelled", "completed"} /\ ~InFlight(r)

SettledForever ==
    [][\A r \in Runs : Settled(r) => Settled(r)' /\ runs'[r] = runs[r]]_vars

\* Pause sticks for work that has not started: once a run is paused (or failed)
\* with no goroutine executing it, its checkpoint cannot move, and only a
\* client's request changes its status.
HeldBack(r) == runs[r].status \in {"paused", "failed"} /\ ~InFlight(r)

QuietRunStaysPut ==
    [][\A r \in Runs : HeldBack(r) =>
          /\ runs'[r].node = runs[r].node
          /\ runs'[r].output = runs[r].output
          /\ \/ HeldBack(r)' /\ runs'[r].status = runs[r].status
             \/ Resume(r) \/ Retry(r) \/ Stop(r)]_vars

\* The checkpoint moves along the edges of the pinned graph, one edge at a time.
CheckpointFollowsEdges ==
    [][\A r \in Runs :
          IsRow(runs[r]) /\ runs'[r].node # runs[r].node
              => runs'[r].node \in Successors[runs[r].node]]_vars

\* What the documentation promises (README.md of the repository).

\* "Cancelled is terminal": no later step gives a cancelled run another status.
CancelledIsTerminal ==
    [][\A r \in Runs : runs[r].status = "cancelled"
                          => runs'[r].status = "cancelled"]_vars

\* "A retryable failure (500, timeout, rate limit) does not fail the run.  The
\* worker bumps the attempt counter ...  3 attempts total": if the errors of
\* FailNodes are of that kind, a run that fails has used its attempts.
MaxAttempts == 3

RetryableFailureIsRetried ==
    [][\A r \in Runs :
          Active(r) /\ runs'[r].status = "failed"
              => runs[r].attempt = MaxAttempts]_vars

\* "If the run has already moved past this job's node and attempt, the job is
\* stale. Drop it without executing anything."
StaleJobNotExecuted ==
    [][\A w \in Workers, m \in MsgIds :
          At(w, m, "read") /\ At(w, m, "execute")'
              => task'[w][m].node = task[w][m].job]_vars

-----------------------------------------------------------------------------
(* Refinement *)

\* Per run: the nodes that some goroutine works on.
WorkingOn(r) ==
    {n \in Nodes : \E w \in Workers, m \in MsgIds :
        /\ task[w][m].run = r
        /\ task[w][m].pc \in {"execute", "persist", "commit", "fail"}
        /\ task[w][m].node = n}

Working == [r \in Runs |-> WorkingOn(r)]

Lifecycle == INSTANCE RunLifecycle WITH working <- Working

\* With the outbox, the relays, the queue, the leases, the locks and the faults
\* hidden, what happens to the rows of workflow_runs is what RunLifecycle
\* promises: a row changes by a request its status allows, or by the result of a
\* node that was its checkpoint, and the run active, when a goroutine began it.
RunsAsPromised == Lifecycle!Spec

-----------------------------------------------------------------------------
(* Liveness *)

\* An active run reaches a status that nobody works on, unless its job ends in
\* the dead-letter queue, through any finite number of faults.
RunsSettle == \A r \in Runs : Active(r) ~> (~Active(r) \/ Parked(r))

\* The jobs of a run that is over do not stay: the outbox and the queue are
\* eventually free of them.
JobsDrain ==
    \A r \in Runs :
        Settled(r) ~> /\ \A o \in RowIds : ~RowOf(o, r)
                      /\ \A m \in MsgIds : queue[m].run # r
=============================================================================
