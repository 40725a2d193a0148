-------------------------- MODULE ExecutionProofs --------------------------
(***************************************************************************)
(* Theorems about Execution, for every pinned graph, every number of runs, *)
(* relays and workers, every batch size, redrive limit and number of       *)
(* faults, and whether or not leases expire early.                         *)
(*                                                                         *)
(* The inductive invariant has three layers.  TypeInv adds to TypeOK what  *)
(* a goroutine's fields are at each of its control states, and that only   *)
(* inserted runs are referred to.  LockInv is the discipline of the row    *)
(* locks: it needs TypeInv.  JobInv says where the jobs of a run are: it   *)
(* needs both, and contains NoOrphanedRun.                                 *)
(***************************************************************************)
EXTENDS Execution, TLAPS

Executing == {"execute", "persist", "commit", "fail"}

TaskOK ==
    \A w \in Workers, m \in MsgIds :
        /\ task[w][m].pc = "idle" => task[w][m] = NoTask
        /\ task[w][m].pc # "idle" =>
              task[w][m].run \in Runs /\ IsRow(runs[task[w][m].run])
        /\ task[w][m].pc \in Executing => task[w][m].node \in Nodes

RefersToRuns ==
    /\ \A o \in RowIds : outbox[o] # NoJob =>
          outbox[o] \in Job /\ IsRow(runs[outbox[o].run])
    /\ \A m \in MsgIds : queue[m].run # None =>
          /\ queue[m].run \in Runs /\ queue[m].node \in Nodes
          /\ IsRow(runs[queue[m].run])

TypeInv == TypeOK /\ TaskOK /\ RefersToRuns

-----------------------------------------------------------------------------
(* The statements on a row *)

\* Every statement of workflow_runs.sql keeps a row a row.
LEMMA RowsKept ==
    ASSUME NEW row \in RowsOver(Nodes), NEW next \in Nodes, NEW out \in Nodes
    PROVE  /\ Advanced(row, next, out) \in RowsOver(Nodes)
           /\ Completed(row, out) \in RowsOver(Nodes)
           /\ Failed(row) \in RowsOver(Nodes)
           /\ Paused(row) \in RowsOver(Nodes)
           /\ Resumed(row) \in RowsOver(Nodes)
           /\ Stopped(row) \in RowsOver(Nodes)
           /\ Retried(row) \in RowsOver(Nodes)
  <1>1. row.attempt + 1 \in Nat \ {0} /\ FirstAttempt \in Nat \ {0}
    BY DEF RowsOver, FirstAttempt
  <1>2. Failed(row) \in RowsOver(Nodes)
    BY <1>1 DEF RowsOver, Statuses, Failed
  <1>3. /\ Advanced(row, next, out) \in RowsOver(Nodes)
        /\ Completed(row, out) \in RowsOver(Nodes)
        /\ Retried(row) \in RowsOver(Nodes)
    BY <1>1 DEF RowsOver, Statuses, Advanced, Completed, Retried
  <1>4. /\ Paused(row) \in RowsOver(Nodes)
        /\ Resumed(row) \in RowsOver(Nodes)
        /\ Stopped(row) \in RowsOver(Nodes)
    BY DEF RowsOver, Statuses, Paused, Resumed, Stopped
  <1> QED
    BY <1>2, <1>3, <1>4

\* A row is told from the absence of a row by its status.
LEMMA RowIsRow ==
    /\ \A row \in RowsOver(Nodes) : IsRow(row)
    /\ ~IsRow(NoRow)
  BY DEF RowsOver, Statuses, IsRow, NoRow

\* The idle goroutine is a goroutine.
LEMMA NoTaskIsTask == NoTask \in Tasks
  BY MaxReceiveAssumption DEF NoTask, Tasks, TaskStates

\* The empty database, queue and processes satisfy the type layer.
LEMMA TypeInit == Init => TypeInv
  <1> SUFFICES ASSUME Init PROVE TypeInv
    OBVIOUS
  <1>1. TypeOK
    <2>1. NoTask \in Tasks
      BY NoTaskIsTask
    <2>2. NoMessage \in Message
      BY MaxReceiveAssumption DEF NoMessage, Message
    <2> QED
      BY <2>1, <2>2, ProcessAssumption DEF Init, TypeOK, NoBatch, EmptyQueue
  <1>2. TaskOK
    BY DEF Init, TaskOK, NoTask, Executing
  <1>3. RefersToRuns
    BY DEF Init, RefersToRuns, EmptyQueue, NoMessage, NoJob
  <1> QED
    BY <1>1, <1>2, <1>3 DEF TypeInv

\* Writing a row to the table keeps every row that is there.
LEMMA RunsGrow ==
    ASSUME TypeInv, NEW r \in Runs, NEW row \in RowsOver(Nodes),
           runs' = [runs EXCEPT ![r] = row]
    PROVE  /\ runs' \in [Runs -> RowsOver(Nodes) \cup {NoRow}]
           /\ IsRow(runs'[r])
           /\ \A s \in Runs : IsRow(runs[s]) => IsRow(runs'[s])
  BY RowIsRow DEF TypeInv, TypeOK

\* A statement of the API on one run, with or without a job for it.
LEMMA ApiType ==
    ASSUME TypeInv, NEW r \in Runs, NEW row \in RowsOver(Nodes),
           runs' = [runs EXCEPT ![r] = row],
           outbox' = outbox \/ \E o \in RowIds, n \in Nodes :
                                  outbox' = Enqueued(o, r, n),
           UNCHANGED <<queue, dlq, relay, task, faults>>
    PROVE  TypeInv'
  <1>1. /\ runs' \in [Runs -> RowsOver(Nodes) \cup {NoRow}]
        /\ IsRow(runs'[r])
        /\ \A s \in Runs : IsRow(runs[s]) => IsRow(runs'[s])
    BY RunsGrow
  <1>2. outbox' \in [RowIds -> Job \cup {NoJob}]
    BY DEF TypeInv, TypeOK, Enqueued, Job
  <1>3. TaskOK'
    BY <1>1 DEF TypeInv, TypeOK, TaskOK
  <1>4. \A o \in RowIds : outbox'[o] # NoJob =>
            outbox'[o] \in Job /\ IsRow(runs'[outbox'[o].run])
    BY <1>1, <1>2 DEF TypeInv, TypeOK, RefersToRuns, Enqueued, Job
  <1>5. RefersToRuns'
    BY <1>1, <1>4 DEF TypeInv, TypeOK, RefersToRuns
  <1> QED
    BY <1>1, <1>2, <1>3, <1>5 DEF TypeInv, TypeOK

\* The requests of the run API keep the type layer.
LEMMA ApiSteps ==
    ASSUME TypeInv, NEW r \in Runs,
           Start(r) \/ Pause(r) \/ Resume(r) \/ Stop(r) \/ Retry(r)
    PROVE  TypeInv'
  <1>1. runs \in [Runs -> RowsOver(Nodes) \cup {NoRow}]
    BY DEF TypeInv, TypeOK
  <1>2. IsRow(runs[r]) => runs[r] \in RowsOver(Nodes) /\ runs[r].node \in Nodes
    BY <1>1, RowIsRow DEF RowsOver
  <1>3. \A o \in FreeRows : o \in RowIds
    BY DEF FreeRows
  <1>4. CASE Start(r)
    <2>1. InsertedRow(StartNode) \in RowsOver(Nodes)
      <3>1. FirstAttempt \in Nat \ {0}
        BY DEF FirstAttempt
      <3> QED
        BY <3>1, GraphAssumption DEF InsertedRow, RowsOver, Statuses
    <2> QED
      BY <1>3, <1>4, <2>1, ApiType, GraphAssumption DEF Start
  <1>5. CASE Pause(r)
    BY <1>2, <1>5, RowsKept, ApiType DEF Pause, Writable
  <1>6. CASE Resume(r)
    BY <1>2, <1>3, <1>6, RowsKept, ApiType DEF Resume, Writable
  <1>7. CASE Stop(r)
    BY <1>2, <1>7, RowsKept, ApiType DEF Stop, Writable
  <1>8. CASE Retry(r)
    BY <1>2, <1>3, <1>8, RowsKept, ApiType DEF Retry, Writable
  <1> QED
    BY <1>4, <1>5, <1>6, <1>7, <1>8

\* A pass of the relay, committed or aborted, keeps the type layer.
LEMMA RelaySteps ==
    ASSUME TypeInv, NEW x \in Relays, RelayStep(x) \/ RelayAbort(x)
    PROVE  TypeInv'
  <1> USE DEF TypeInv, TypeOK
  <1>1. CASE LockDue(x)
    BY <1>1 DEF LockDue, LockableRows, Rows, TaskOK, RefersToRuns
  <1>2. ASSUME NEW o \in RowIds, SendJob(x, o)
        PROVE  TypeInv'
    <2>1. PICK m \in FreeMessages : queue' = Sent(queue, m, outbox[o])
      BY <1>2 DEF SendJob
    <2>2. m \in MsgIds /\ outbox[o] \in Job \cup {NoJob}
      BY <2>1 DEF FreeMessages
    <2>3. /\ outbox[o].run \in Runs \cup {None}
          /\ outbox[o].node \in Nodes \cup {None}
          /\ outbox[o].run # None => outbox[o] # NoJob
      BY <2>2 DEF Job, NoJob
    <2>4. queue' \in [MsgIds -> Message]
      BY <2>1, <2>2, <2>3, MaxReceiveAssumption DEF Sent, Message
    <2>5. RefersToRuns'
      BY <1>2, <2>1, <2>2, <2>3, NoneAssumption DEF SendJob, Sent, RefersToRuns, Job
    <2> QED
      BY <1>2, <2>4, <2>5 DEF SendJob, Handled, TaskOK
  <1>3. ASSUME NEW o \in RowIds, SkipJob(x, o)
        PROVE  TypeInv'
    BY <1>3 DEF SkipJob, Handled, TaskOK, RefersToRuns
  <1>4. CASE RelayCommit(x)
    BY <1>4 DEF RelayCommit, NoBatch, TaskOK, RefersToRuns
  <1>5. CASE RelayAbort(x)
    BY <1>5, ProcessAssumption DEF RelayAbort, NoBatch, TaskOK, RefersToRuns
  <1> QED
    BY <1>1, <1>2, <1>3, <1>4, <1>5 DEF RelayStep

\* What TypeInv says of a goroutine.
TaskFits(t, rows) ==
    /\ t \in Tasks
    /\ t.pc = "idle" => t = NoTask
    /\ t.pc # "idle" => t.run \in Runs /\ IsRow(rows[t.run])
    /\ t.pc \in Executing => t.node \in Nodes

\* A step of one goroutine that forgets no run.
LEMMA TaskType ==
    ASSUME TypeInv, NEW w \in Workers, NEW m \in MsgIds, NEW t,
           TaskFits(t, runs'),
           task' = [task EXCEPT ![w][m] = t],
           \A r \in Runs : IsRow(runs[r]) => IsRow(runs'[r])
    PROVE  task' \in [Workers -> [MsgIds -> Tasks]] /\ TaskOK'
  BY DEF TypeInv, TypeOK, TaskFits, TaskOK

\* The fields of a busy goroutine.
LEMMA BusyTask ==
    ASSUME TypeInv, NEW w \in Workers, NEW m \in MsgIds,
           task[w][m].pc # "idle"
    PROVE  /\ TaskFits(task[w][m], runs)
           /\ runs[task[w][m].run] \in RowsOver(Nodes)
           /\ runs \in [Runs -> RowsOver(Nodes) \cup {NoRow}]
  BY RowIsRow DEF TypeInv, TypeOK, TaskOK, TaskFits

\* A step that writes nothing but one goroutine, and perhaps counts a fault.
LEMMA TaskOnly ==
    ASSUME TypeInv, NEW w \in Workers, NEW m \in MsgIds, NEW t,
           TaskFits(t, runs),
           task' = [task EXCEPT ![w][m] = t],
           UNCHANGED <<runs, outbox, queue, dlq, relay>>,
           faults' \in 0 .. MaxFaults
    PROVE  TypeInv'
  <1>1. task' \in [Workers -> [MsgIds -> Tasks]] /\ TaskOK'
    BY TaskType
  <1> QED
    BY <1>1 DEF TypeInv, TypeOK, RefersToRuns

\* A step of one goroutine that also writes its run's row, with or without a
\* job for the run.
LEMMA RunWritten ==
    ASSUME TypeInv, NEW w \in Workers, NEW m \in MsgIds, NEW t,
           TaskFits(t, runs), task' = [task EXCEPT ![w][m] = t],
           NEW r \in Runs, NEW row \in RowsOver(Nodes),
           runs' = [runs EXCEPT ![r] = row],
           outbox' = outbox \/ \E o \in RowIds, n \in Nodes :
                                  outbox' = Enqueued(o, r, n),
           UNCHANGED <<queue, dlq, relay, faults>>
    PROVE  TypeInv'
  <1>1. /\ runs' \in [Runs -> RowsOver(Nodes) \cup {NoRow}]
        /\ IsRow(runs'[r])
        /\ \A s \in Runs : IsRow(runs[s]) => IsRow(runs'[s])
    BY RunsGrow
  <1>2. outbox' \in [RowIds -> Job \cup {NoJob}]
    BY DEF TypeInv, TypeOK, Enqueued, Job
  <1>3. task' \in [Workers -> [MsgIds -> Tasks]] /\ TaskOK'
    <2>1. TaskFits(t, runs')
      BY <1>1 DEF TaskFits
    <2> QED
      BY <1>1, <2>1, TaskType
  <1>4. \A o \in RowIds : outbox'[o] # NoJob =>
            outbox'[o] \in Job /\ IsRow(runs'[outbox'[o].run])
    BY <1>1, <1>2 DEF TypeInv, TypeOK, RefersToRuns, Enqueued, Job
  <1>5. RefersToRuns'
    BY <1>1, <1>4 DEF TypeInv, TypeOK, RefersToRuns
  <1> QED
    BY <1>1, <1>2, <1>3, <1>5 DEF TypeInv, TypeOK

\* Removing or hiding a message.
LEMMA QueueShrinks ==
    ASSUME TypeInv, NEW m \in MsgIds,
           queue' = queue \/ queue' = [queue EXCEPT ![m] = NoMessage],
           task' \in [Workers -> [MsgIds -> Tasks]] /\ TaskOK',
           UNCHANGED <<runs, outbox, dlq, relay, faults>>
    PROVE  TypeInv'
  <1>1. NoMessage \in Message /\ NoMessage.run = None
    BY MaxReceiveAssumption DEF NoMessage, Message
  <1>2. queue' \in [MsgIds -> Message]
    BY <1>1 DEF TypeInv, TypeOK
  <1>3. RefersToRuns'
    BY <1>1 DEF TypeInv, TypeOK, RefersToRuns
  <1> QED
    BY <1>2, <1>3 DEF TypeInv, TypeOK

\* A step of handleNodeJob, or its early return, keeps the type layer.
LEMMA WorkerSteps ==
    ASSUME TypeInv, NEW w \in Workers, NEW m \in MsgIds,
           TaskStep(w, m) \/ TaskError(w, m)
    PROVE  TypeInv'
  <1> DEFINE t == task[w][m]
  <1> USE DEF At
  <1>0. /\ TaskFits(NoTask, runs)
        /\ faults \in 0 .. MaxFaults
    BY NoTaskIsTask DEF TaskFits, NoTask, Executing, TypeInv, TypeOK
  <1>1. CASE ReadRun(w, m)
    <2>1. TaskFits(t, runs) /\ runs[t.run] \in RowsOver(Nodes) /\ t.pc = "read"
      BY <1>1, BusyTask DEF ReadRun
    <2> DEFINE u == IF IsActive(runs[t.run])
                    THEN [t EXCEPT !.pc = "execute", !.node = runs[t.run].node]
                    ELSE [t EXCEPT !.pc = "ack"]
    <2>2. TaskFits(u, runs)
      BY <2>1 DEF TaskFits, Tasks, TaskStates, Executing, RowsOver
    <2>3. task' = [task EXCEPT ![w][m] = u]
      BY <1>1 DEF ReadRun
    <2> QED
      BY <1>0, <1>1, <2>2, <2>3, TaskOnly DEF ReadRun
  <1>2. CASE ExecuteNode(w, m)
    <2>1. TaskFits(t, runs) /\ t.pc = "execute"
      BY <1>2, BusyTask DEF ExecuteNode
    <2>2. PICK next \in IF t.node \in Responses THEN {None}
                        ELSE Successors[t.node] :
              task' = [task EXCEPT ![w][m] =
                          [t EXCEPT !.pc = "persist", !.next = next]]
      BY <1>2 DEF ExecuteNode
    <2>3. next \in Nodes \cup {None}
      BY <2>1, <2>2, GraphAssumption DEF TaskFits, Executing
    <2>4. TaskFits([t EXCEPT !.pc = "persist", !.next = next], runs)
      BY <2>1, <2>3 DEF TaskFits, Tasks, TaskStates, Executing
    <2> QED
      BY <1>0, <1>2, <2>2, <2>4, TaskOnly DEF ExecuteNode
  <1>3. CASE ExecuteError(w, m)
    <2>1. TaskFits(t, runs) /\ t.pc = "execute"
      BY <1>3, BusyTask DEF ExecuteError
    <2>2. TaskFits([t EXCEPT !.pc = "fail"], runs)
      BY <2>1 DEF TaskFits, Tasks, TaskStates, Executing
    <2> QED
      BY <1>0, <1>3, <2>2, TaskOnly DEF ExecuteError
  <1>4. CASE RecordFailure(w, m)
    <2>1. /\ TaskFits(t, runs) /\ t.pc = "fail"
          /\ runs[t.run] \in RowsOver(Nodes)
          /\ runs \in [Runs -> RowsOver(Nodes) \cup {NoRow}]
      BY <1>4, BusyTask DEF RecordFailure
    <2>2. runs' = [runs EXCEPT ![t.run] = Failed(runs[t.run])]
      BY <1>4 DEF RecordFailure
    <2>3. Failed(runs[t.run]) \in RowsOver(Nodes)
      BY <2>1, RowsKept DEF TaskFits, Executing
    <2> QED
      BY <1>0, <1>4, <2>1, <2>2, <2>3, RunWritten
         DEF RecordFailure, TaskFits, NoTask, Executing
  <1>5. CASE PersistBegin(w, m)
    <2>1. TaskFits(t, runs) /\ t.pc = "persist"
      BY <1>5, BusyTask DEF PersistBegin
    <2>2. TaskFits([t EXCEPT !.pc = "commit"], runs)
      BY <2>1 DEF TaskFits, Tasks, TaskStates, Executing
    <2> QED
      BY <1>0, <1>5, <2>2, TaskOnly DEF PersistBegin
  <1>6. CASE PersistCommit(w, m)
    <2>1. /\ TaskFits(t, runs) /\ t.pc = "commit"
          /\ t.node \in Nodes /\ t.run \in Runs /\ t.next \in Nodes \cup {None}
          /\ runs[t.run] \in RowsOver(Nodes)
          /\ runs \in [Runs -> RowsOver(Nodes) \cup {NoRow}]
      BY <1>6, BusyTask DEF PersistCommit, TaskFits, Executing, Tasks
    <2>2. TaskFits([t EXCEPT !.pc = "ack"], runs)
      BY <2>1 DEF TaskFits, Tasks, TaskStates, Executing
    <2>3. /\ task' = [task EXCEPT ![w][m] = [t EXCEPT !.pc = "ack"]]
          /\ UNCHANGED <<queue, dlq, relay, faults>>
      BY <1>6 DEF PersistCommit
    <2>4. CASE t.next = None
      <3>1. runs' = [runs EXCEPT ![t.run] = Completed(runs[t.run], t.node)]
        BY <1>6, <2>4 DEF PersistCommit
      <3>2. Completed(runs[t.run], t.node) \in RowsOver(Nodes)
        BY <2>1, RowsKept
      <3>3. UNCHANGED outbox
        BY <1>6, <2>4 DEF PersistCommit
      <3> QED
        BY <1>0, <2>1, <2>2, <2>3, <3>1, <3>2, <3>3, RunWritten
    <2>5. CASE t.next # None
      <3>1. runs' = [runs EXCEPT ![t.run] =
                        Advanced(runs[t.run], t.next, t.node)]
        BY <1>6, <2>5 DEF PersistCommit
      <3>2. Advanced(runs[t.run], t.next, t.node) \in RowsOver(Nodes)
        BY <2>1, <2>5, RowsKept
      <3>3. \E o \in RowIds, n \in Nodes : outbox' = Enqueued(o, t.run, n)
        BY <1>6, <2>1, <2>5 DEF PersistCommit, FreeRows
      <3> QED
        BY <1>0, <2>1, <2>2, <2>3, <3>1, <3>2, <3>3, RunWritten
    <2> QED
      BY <2>4, <2>5
  <1>7. CASE Ack(w, m)
    <2>1. queue' = queue \/ queue' = [queue EXCEPT ![m] = NoMessage]
      BY <1>7 DEF Ack, DeleteResults, Deleted
    <2> QED
      BY <1>0, <1>7, <2>1, QueueShrinks, TaskType DEF Ack
  <1>8. CASE TaskError(w, m)
    <2>1. faults' \in 0 .. MaxFaults
      BY <1>0, <1>8, ProcessAssumption DEF TaskError
    <2> QED
      BY <1>0, <1>8, <2>1, TaskOnly DEF TaskError
  <1> QED
    BY <1>1, <1>2, <1>3, <1>4, <1>5, <1>6, <1>7, <1>8 DEF TaskStep

\* Receiving a batch and dying keep the type layer.
LEMMA ProcessSteps ==
    ASSUME TypeInv, NEW w \in Workers, Receive(w) \/ WorkerCrash(w)
    PROVE  TypeInv'
  <1>1. CASE Receive(w)
    <2>1. PICK batch \in Batches :
            /\ queue' = Received(queue, batch)
            /\ task' = [task EXCEPT ![w] = [m \in MsgIds |->
                   IF m \in batch
                   THEN [NoTask EXCEPT !.pc = "read", !.run = queue[m].run,
                                       !.job = queue[m].node,
                                       !.receipt = queue[m].receives + 1]
                   ELSE NoTask]]
      BY <1>1 DEF Receive
    <2>2. \A m \in batch :
            /\ m \in MsgIds
            /\ queue[m] \in Message
            /\ queue[m].run \in Runs /\ queue[m].node \in Nodes
            /\ IsRow(runs[queue[m].run])
            /\ queue[m].receives + 1 \in 0 .. MaxReceive
      <3> SUFFICES ASSUME NEW m \in batch
                   PROVE  /\ m \in MsgIds
                          /\ queue[m] \in Message
                          /\ queue[m].run \in Runs /\ queue[m].node \in Nodes
                          /\ IsRow(runs[queue[m].run])
                          /\ queue[m].receives + 1 \in 0 .. MaxReceive
        OBVIOUS
      <3>1. m \in MsgIds /\ queue[m].run # None /\ queue[m].receives < MaxReceive
        BY <2>1 DEF Batches, Deliverable, Visible, Present
      <3>2. queue[m] \in Message
        BY <3>1 DEF TypeInv, TypeOK
      <3>3. queue[m].receives \in 0 .. MaxReceive
        BY <3>2 DEF Message
      <3>4. queue[m].receives + 1 \in 0 .. MaxReceive
        BY <3>1, <3>3, MaxReceiveAssumption
      <3> QED
        BY <3>1, <3>2, <3>4 DEF TypeInv, RefersToRuns
    <2>3. queue' \in [MsgIds -> Message]
      BY <2>1, <2>2 DEF Received, Message, TypeInv, TypeOK
    <2>4. \A m \in batch :
            TaskFits([NoTask EXCEPT !.pc = "read", !.run = queue[m].run,
                                    !.job = queue[m].node,
                                    !.receipt = queue[m].receives + 1], runs)
      BY <2>2 DEF TaskFits, NoTask, Tasks, TaskStates, Executing
    <2>5. TaskFits(NoTask, runs)
      BY NoTaskIsTask DEF TaskFits, NoTask, Executing
    <2>6. \A m \in MsgIds : TaskFits(task'[w][m], runs)
      BY <2>1, <2>4, <2>5 DEF TypeInv, TypeOK
    <2>7. task' \in [Workers -> [MsgIds -> Tasks]] /\ TaskOK'
      BY <1>1, <2>1, <2>6 DEF Receive, TypeInv, TypeOK, TaskOK, TaskFits
    <2>8. RefersToRuns'
      <3>1. \A m \in MsgIds : /\ queue'[m].run = queue[m].run
                              /\ queue'[m].node = queue[m].node
        BY <2>1, <2>2 DEF Received, Message
      <3> QED
        BY <1>1, <3>1 DEF Receive, TypeInv, RefersToRuns
    <2> QED
      BY <1>1, <2>3, <2>7, <2>8 DEF Receive, TypeInv, TypeOK
  <1>2. CASE WorkerCrash(w)
    BY <1>2, NoTaskIsTask, ProcessAssumption
       DEF WorkerCrash, TypeInv, TypeOK, TaskOK, RefersToRuns, NoTask, Executing
  <1> QED
    BY <1>1, <1>2

\* The timers of the queue keep the type layer.
LEMMA QueueSteps ==
    ASSUME TypeInv, NEW m \in MsgIds, LeaseExpire(m) \/ DeadLetter(m)
    PROVE  TypeInv'
  <1>0. task \in [Workers -> [MsgIds -> Tasks]] /\ TaskOK
    BY DEF TypeInv, TypeOK
  <1>1. CASE LeaseExpire(m)
    <2>1. queue' \in [MsgIds -> Message]
      BY <1>1 DEF LeaseExpire, LeaseExpired, Message, TypeInv, TypeOK
    <2>2. TaskOK' /\ RefersToRuns'
      BY <1>1 DEF LeaseExpire, LeaseExpired, TypeInv, TypeOK, TaskOK, RefersToRuns, Message
    <2> QED
      BY <1>1, <2>1, <2>2 DEF LeaseExpire, TypeInv, TypeOK
  <1>2. CASE DeadLetter(m)
    <2>1. queue' \in [MsgIds -> Message] /\ RefersToRuns'
      BY <1>2, MaxReceiveAssumption
         DEF DeadLetter, Deleted, NoMessage, Message, TypeInv, TypeOK, RefersToRuns
    <2>2. dlq' \subseteq Job
      BY <1>2 DEF DeadLetter, Poisonous, Visible, Present, Job, TypeInv, TypeOK,
                  RefersToRuns
    <2>3. TaskOK'
      BY <1>2 DEF DeadLetter, TypeInv, TaskOK
    <2> QED
      BY <1>2, <2>1, <2>2, <2>3 DEF DeadLetter, TypeInv, TypeOK
  <1> QED
    BY <1>1, <1>2

\* The type layer is inductive.
LEMMA TypeStep ==
    ASSUME TypeInv, [Next]_vars
    PROVE  TypeInv'
  <1>1. CASE UNCHANGED vars
    BY <1>1 DEF vars, TypeInv, TypeOK, TaskOK, RefersToRuns
  <1>2. CASE Next
    BY <1>2, ApiSteps, RelaySteps, WorkerSteps, ProcessSteps, QueueSteps DEF Next
  <1> QED
    BY <1>1, <1>2

\* Type correctness of the execution spine.
THEOREM TypeCorrect == Spec => []TypeOK
  <1>1. Init => TypeInv
    BY TypeInit
  <1>2. TypeInv /\ [Next]_vars => TypeInv'
    BY TypeStep
  <1>3. TypeInv => TypeOK
    BY DEF TypeInv
  <1> QED
    BY <1>1, <1>2, <1>3, PTL DEF Spec

-----------------------------------------------------------------------------
(* The row locks *)

RelayOK ==
    \A x \in Relays :
        /\ relay[x].active \subseteq relay[x].jobs
        /\ relay[x].done \subseteq relay[x].jobs
        /\ \A o \in relay[x].jobs : o \in RowIds /\ outbox[o] # NoJob

LockInv == RelayOK /\ RunLockExclusive /\ RelayStatusCurrent

\* Nothing is locked at first.
LEMMA LockInit == Init => LockInv
  BY DEF Init, LockInv, RelayOK, RunLockExclusive, RelayStatusCurrent, NoBatch,
         RelayHolds, WorkerHolds, NoTask

\* A step that leaves the relays alone, takes no lock, and writes neither a row
\* in a relay's batch nor the activity of a run a relay has locked.
LEMMA LocksKept ==
    ASSUME TypeInv, LockInv, UNCHANGED relay,
           \A x \in Relays : \A o \in relay[x].jobs : outbox'[o] = outbox[o],
           \A w \in Workers, m \in MsgIds, r \in Runs :
               WorkerHolds(w, m, r)' => WorkerHolds(w, m, r),
           \A x \in Relays, r \in Runs :
               RelayHolds(x, r) => IsActive(runs'[r]) = IsActive(runs[r])
    PROVE  LockInv'
  <1>1. \A x \in Relays, r \in Runs : RelayHolds(x, r)' <=> RelayHolds(x, r)
    BY DEF RelayHolds
  <1>2. RelayOK'
    BY DEF LockInv, RelayOK
  <1>3. RunLockExclusive'
    BY <1>1 DEF LockInv, RunLockExclusive
  <1>4. RelayStatusCurrent'
    <2> SUFFICES ASSUME NEW x \in Relays, NEW o \in relay[x].jobs
                 PROVE  o \in relay[x].active <=> IsActive(runs'[outbox[o].run])
      BY DEF RelayStatusCurrent, Active
    <2>1. outbox[o].run \in Runs /\ RelayHolds(x, outbox[o].run)
      BY DEF LockInv, RelayOK, TypeInv, RefersToRuns, RelayHolds, Job
    <2> QED
      BY <2>1 DEF LockInv, RelayStatusCurrent, Active
  <1> QED
    BY <1>2, <1>3, <1>4 DEF LockInv

\* A new row is not in any batch.
LEMMA FreshRow ==
    ASSUME TypeInv, LockInv, NEW r, NEW n,
           \E o \in FreeRows : outbox' = Enqueued(o, r, n)
    PROVE  \A x \in Relays : \A o \in relay[x].jobs : outbox'[o] = outbox[o]
  BY DEF TypeInv, TypeOK, LockInv, RelayOK, FreeRows, Rows, Enqueued

\* The requests of the run API wait for the locks, so they disturb none.
LEMMA ApiLocks ==
    ASSUME TypeInv, LockInv, NEW r \in Runs,
           Start(r) \/ Pause(r) \/ Resume(r) \/ Stop(r) \/ Retry(r)
    PROVE  LockInv'
  <1>1. UNCHANGED <<relay, task>>
    BY DEF Start, Pause, Resume, Stop, Retry
  <1>2. \A x \in Relays : \A o \in relay[x].jobs : outbox'[o] = outbox[o]
    BY FreshRow DEF Start, Pause, Resume, Stop, Retry
  <1>3. \A x \in Relays : ~RelayHolds(x, r)
    BY DEF Start, Pause, Resume, Stop, Retry, Writable, Locked, RelayHolds,
           LockInv, RelayOK, TypeInv, RefersToRuns
  <1>4. \A s \in Runs : s # r => runs'[s] = runs[s]
    BY DEF Start, Pause, Resume, Stop, Retry, TypeInv, TypeOK
  <1> QED
    BY <1>1, <1>2, <1>3, <1>4, LocksKept DEF WorkerHolds

\* A relay locks only runs nobody has locked (SKIP LOCKED).
LEMMA RelayLocks ==
    ASSUME TypeInv, LockInv, NEW x \in Relays, RelayStep(x) \/ RelayAbort(x)
    PROVE  LockInv'
  <1>0. relay \in [Relays -> [jobs : SUBSET RowIds, active : SUBSET RowIds,
                              done : SUBSET RowIds]]
    BY DEF TypeInv, TypeOK
  <1>1. CASE LockDue(x)
    <2>1. relay' = [relay EXCEPT ![x] =
             [jobs |-> LockableRows,
              active |-> {o \in LockableRows : IsActive(runs[outbox[o].run])},
              done |-> {}]]
      BY <1>1 DEF LockDue
    <2>2. UNCHANGED <<runs, outbox, task>>
      BY <1>1 DEF LockDue
    <2>3. RelayOK'
      BY <1>0, <2>1, <2>2 DEF LockInv, RelayOK, LockableRows, Rows
    <2>4. RelayStatusCurrent'
      BY <1>0, <2>1, <2>2 DEF LockInv, RelayStatusCurrent, Active
    <2>5. \A r \in Runs : RelayHolds(x, r)' => ~Locked(r)
      BY <1>0, <2>1, <2>2 DEF RelayHolds, LockableRows
    <2>6. \A y \in Relays, r \in Runs :
              y # x => (RelayHolds(y, r)' <=> RelayHolds(y, r))
      BY <1>0, <2>1, <2>2 DEF RelayHolds
    <2>7. \A w \in Workers, m \in MsgIds, r \in Runs :
              WorkerHolds(w, m, r)' <=> WorkerHolds(w, m, r)
      BY <2>2 DEF WorkerHolds
    <2>8. RunLockExclusive'
      BY <2>5, <2>6, <2>7 DEF LockInv, RunLockExclusive, Locked
    <2> QED
      BY <2>3, <2>4, <2>8 DEF LockInv
  <1>2. ASSUME NEW o \in RowIds, SendJob(x, o) \/ SkipJob(x, o)
        PROVE  LockInv'
    <2>1. relay' = Handled(x, o) /\ o \in relay[x].jobs
      BY <1>2 DEF SendJob, SkipJob, LockInv, RelayOK
    <2>2. UNCHANGED <<runs, outbox, task>>
      BY <1>2 DEF SendJob, SkipJob
    <2>3. \A y \in Relays : /\ relay'[y].jobs = relay[y].jobs
                            /\ relay'[y].active = relay[y].active
                            /\ relay'[y].done \subseteq relay[y].done \cup {o}
                            /\ y # x => relay'[y].done = relay[y].done
      BY <1>0, <2>1 DEF Handled
    <2>4. RelayOK'
      BY <2>1, <2>2, <2>3 DEF LockInv, RelayOK
    <2>5. RunLockExclusive' /\ RelayStatusCurrent'
      BY <2>2, <2>3
         DEF LockInv, RunLockExclusive, RelayStatusCurrent, RelayHolds,
             WorkerHolds, Active
    <2> QED
      BY <2>4, <2>5 DEF LockInv
  <1>3. ASSUME relay' = [relay EXCEPT ![x] = NoBatch],
               \A y \in Relays : y # x =>
                   \A o \in relay[y].jobs : outbox'[o] = outbox[o],
               UNCHANGED <<runs, task>>
        PROVE  LockInv'
    <2>1. RelayOK'
      BY <1>0, <1>3 DEF LockInv, RelayOK, NoBatch
    <2>2. RelayStatusCurrent'
      BY <1>0, <1>3 DEF LockInv, RelayStatusCurrent, NoBatch, Active
    <2>3. \A y \in Relays, r \in Runs : RelayHolds(y, r)' => RelayHolds(y, r)
      BY <1>0, <1>3 DEF RelayHolds, NoBatch
    <2>4. RunLockExclusive'
      BY <1>3, <2>3 DEF LockInv, RunLockExclusive, WorkerHolds
    <2> QED
      BY <2>1, <2>2, <2>4 DEF LockInv
  <1>4. CASE RelayCommit(x)
    <2>1. \A y \in Relays : y # x => \A o \in relay[y].jobs : o \notin relay[x].done
      <3> SUFFICES ASSUME NEW y \in Relays, NEW o \in relay[y].jobs,
                          o \in relay[x].done
                   PROVE  y = x
        OBVIOUS
      <3>1. /\ o \in relay[x].jobs
            /\ outbox[o].run \in Runs
        BY DEF LockInv, RelayOK, TypeInv, RefersToRuns, Job
      <3> QED
        BY <3>1 DEF LockInv, RunLockExclusive, RelayHolds
    <2>2. \A y \in Relays : y # x =>
              \A o \in relay[y].jobs : outbox'[o] = outbox[o]
      BY <1>4, <2>1 DEF RelayCommit, LockInv, RelayOK
    <2> QED
      BY <1>3, <1>4, <2>2 DEF RelayCommit
  <1>5. CASE RelayAbort(x)
    BY <1>3, <1>5 DEF RelayAbort
  <1> QED
    BY <1>1, <1>2, <1>4, <1>5 DEF RelayStep

\* A worker's UPDATE waits for the lock and holds it to the commit.
LEMMA WorkerLocks ==
    ASSUME TypeInv, LockInv, NEW w \in Workers, NEW m \in MsgIds,
           TaskStep(w, m) \/ TaskError(w, m)
    PROVE  LockInv'
  <1> DEFINE t == task[w][m]
  <1>0. task \in [Workers -> [MsgIds -> Tasks]]
    BY DEF TypeInv, TypeOK
  <1>1. CASE PersistBegin(w, m)
    <2>1. /\ t.run \in Runs /\ ~Locked(t.run)
          /\ task' = [task EXCEPT ![w][m].pc = "commit"]
          /\ UNCHANGED <<runs, outbox, relay>>
      BY <1>1 DEF PersistBegin, At, TypeInv, TaskOK
    <2>2. \A v \in Workers, n \in MsgIds, r \in Runs :
              WorkerHolds(v, n, r)' =>
                  WorkerHolds(v, n, r) \/ (v = w /\ n = m /\ r = t.run)
      BY <1>0, <2>1 DEF WorkerHolds, Tasks
    <2>3. RunLockExclusive'
      BY <2>1, <2>2 DEF LockInv, RunLockExclusive, Locked, RelayHolds
    <2>4. RelayOK' /\ RelayStatusCurrent'
      BY <2>1 DEF LockInv, RelayOK, RelayStatusCurrent, Active
    <2> QED
      BY <2>3, <2>4 DEF LockInv
  <1>2. CASE RecordFailure(w, m)
    <2>1. /\ t.run \in Runs /\ ~Locked(t.run)
          /\ runs' = [runs EXCEPT ![t.run] = Failed(@)]
          /\ task' = [task EXCEPT ![w][m] = NoTask]
          /\ UNCHANGED <<outbox, relay>>
      BY <1>2 DEF RecordFailure, At, TypeInv, TaskOK
    <2>2. \A v \in Workers, n \in MsgIds, r \in Runs :
              WorkerHolds(v, n, r)' => WorkerHolds(v, n, r)
      BY <1>0, <2>1 DEF WorkerHolds, NoTask
    <2>3. \A x \in Relays, r \in Runs :
              RelayHolds(x, r) => IsActive(runs'[r]) = IsActive(runs[r])
      BY <2>1 DEF Locked, TypeInv, TypeOK
    <2> QED
      BY <2>1, <2>2, <2>3, LocksKept
  <1>3. CASE PersistCommit(w, m)
    <2>1. /\ t.run \in Runs /\ WorkerHolds(w, m, t.run)
          /\ task' = [task EXCEPT ![w][m].pc = "ack"]
          /\ UNCHANGED relay
      BY <1>3 DEF PersistCommit, At, TypeInv, TaskOK, WorkerHolds
    <2>2. \A v \in Workers, n \in MsgIds, r \in Runs :
              WorkerHolds(v, n, r)' => WorkerHolds(v, n, r)
      BY <1>0, <2>1 DEF WorkerHolds, Tasks
    <2>3. \A s \in Runs : s # t.run => runs'[s] = runs[s]
      BY <1>3 DEF PersistCommit, TypeInv, TypeOK
    <2>4. \A x \in Relays, r \in Runs :
              RelayHolds(x, r) => IsActive(runs'[r]) = IsActive(runs[r])
      BY <2>1, <2>3 DEF LockInv, RunLockExclusive
    <2>5. \A x \in Relays : \A o \in relay[x].jobs : outbox'[o] = outbox[o]
      BY <1>3, FreshRow DEF PersistCommit
    <2> QED
      BY <2>1, <2>2, <2>4, <2>5, LocksKept
  <1>4. ASSUME NEW u \in Tasks, u.pc # "commit",
               task' = [task EXCEPT ![w][m] = u],
               UNCHANGED <<runs, outbox, relay>>
        PROVE  LockInv'
    <2>1. \A v \in Workers, n \in MsgIds, r \in Runs :
              WorkerHolds(v, n, r)' => WorkerHolds(v, n, r)
      BY <1>0, <1>4 DEF WorkerHolds
    <2> QED
      BY <1>4, <2>1, LocksKept
  <1>5. CASE ReadRun(w, m) \/ ExecuteNode(w, m) \/ ExecuteError(w, m)
                \/ Ack(w, m) \/ TaskError(w, m)
    <2>1. UNCHANGED <<runs, outbox, relay>>
      BY <1>5 DEF ReadRun, ExecuteNode, ExecuteError, Ack, TaskError
    <2>3. PICK u : /\ task' = [task EXCEPT ![w][m] = u]
                   /\ u.pc # "commit"
      <3>0. t \in Tasks
        BY <1>0
      <3>1. CASE ReadRun(w, m)
        <4> DEFINE row == runs[t.run]
        <4> DEFINE v == IF IsActive(row)
                        THEN [t EXCEPT !.pc = "execute", !.node = row.node]
                        ELSE [t EXCEPT !.pc = "ack"]
        <4>1. task' = [task EXCEPT ![w][m] = v]
          BY <3>1 DEF ReadRun
        <4>2. v.pc # "commit"
          BY <3>0 DEF Tasks
        <4> QED
          BY <4>1, <4>2
      <3>2. CASE ExecuteNode(w, m)
        <4>1. PICK next : task' = [task EXCEPT ![w][m] =
                              [t EXCEPT !.pc = "persist", !.next = next]]
          BY <3>2 DEF ExecuteNode
        <4>2. [t EXCEPT !.pc = "persist", !.next = next].pc # "commit"
          BY <3>0 DEF Tasks
        <4> QED
          BY <4>1, <4>2
      <3>3. CASE ExecuteError(w, m)
        <4>1. task' = [task EXCEPT ![w][m] = [t EXCEPT !.pc = "fail"]]
          BY <3>3 DEF ExecuteError
        <4>2. [t EXCEPT !.pc = "fail"].pc # "commit"
          BY <3>0 DEF Tasks
        <4> QED
          BY <4>1, <4>2
      <3>4. CASE Ack(w, m) \/ TaskError(w, m)
        BY <3>4 DEF Ack, TaskError, NoTask
      <3> QED
        BY <1>5, <3>1, <3>2, <3>3, <3>4
    <2>4. task'[w][m] = u
      BY <1>0, <2>3
    <2>2. task'[w][m] \in Tasks
      BY WorkerSteps DEF TypeInv, TypeOK
    <2> QED
      BY <1>4, <2>1, <2>2, <2>3, <2>4
  <1> QED
    BY <1>1, <1>2, <1>3, <1>5 DEF TaskStep

\* Neither a receive, a death of a worker nor a timer takes a lock.
LEMMA OtherLocks ==
    ASSUME TypeInv, LockInv,
           \/ \E w \in Workers : Receive(w) \/ WorkerCrash(w)
           \/ \E m \in MsgIds : LeaseExpire(m) \/ DeadLetter(m)
    PROVE  LockInv'
  <1>1. UNCHANGED <<runs, outbox, relay>>
    BY DEF Receive, WorkerCrash, LeaseExpire, DeadLetter
  <1>2. \A v \in Workers, n \in MsgIds, r \in Runs :
            WorkerHolds(v, n, r)' => WorkerHolds(v, n, r)
    <2>1. ASSUME NEW w \in Workers, Receive(w) \/ WorkerCrash(w)
          PROVE  \A n \in MsgIds : /\ task'[w][n].pc # "commit"
                                   /\ \A v \in Workers :
                                         v # w => task'[v][n] = task[v][n]
      <3>1. CASE Receive(w)
        <4>1. PICK batch : task' = [task EXCEPT ![w] = [m \in MsgIds |->
                   IF m \in batch
                   THEN [NoTask EXCEPT !.pc = "read", !.run = queue[m].run,
                                       !.job = queue[m].node,
                                       !.receipt = queue[m].receives + 1]
                   ELSE NoTask]]
          BY <3>1 DEF Receive
        <4>2. task \in [Workers -> [MsgIds -> Tasks]]
          BY DEF TypeInv, TypeOK
        <4>3. \A v \in Workers : v # w => task'[v] = task[v]
          BY <4>1, <4>2
        <4>4. \A n \in MsgIds : task'[w][n].pc \in {"read", "idle"}
          BY <4>1, <4>2 DEF NoTask
        <4> QED
          BY <4>3, <4>4
      <3>2. CASE WorkerCrash(w)
        BY <3>2 DEF WorkerCrash, NoTask, TypeInv, TypeOK
      <3> QED
        BY <2>1, <3>1, <3>2
    <2>2. ASSUME NEW m \in MsgIds, LeaseExpire(m) \/ DeadLetter(m)
          PROVE  UNCHANGED task
      BY <2>2 DEF LeaseExpire, DeadLetter
    <2> QED
      BY <2>1, <2>2 DEF WorkerHolds
  <1> QED
    BY <1>1, <1>2, LocksKept

\* The lock layer is inductive relative to the type layer.
LEMMA LockStep ==
    ASSUME TypeInv, LockInv, [Next]_vars
    PROVE  LockInv'
  <1>1. CASE UNCHANGED vars
    BY <1>1 DEF vars, LockInv, RelayOK, RunLockExclusive, RelayStatusCurrent,
                RelayHolds, WorkerHolds, Active
  <1>2. CASE Next
    BY <1>2, ApiLocks, RelayLocks, WorkerLocks, OtherLocks DEF Next
  <1> QED
    BY <1>1, <1>2

\* The row locks: no two open transactions share a run, and what the relay read
\* of a run under the lock is still true when it acts on it.
THEOREM LockDiscipline == Spec => [](RunLockExclusive /\ RelayStatusCurrent)
  <1>1. Init => TypeInv /\ LockInv
    BY TypeInit, LockInit
  <1>2. (TypeInv /\ LockInv) /\ [Next]_vars => (TypeInv /\ LockInv)'
    BY TypeStep, LockStep
  <1>3. TypeInv /\ LockInv => RunLockExclusive /\ RelayStatusCurrent
    BY DEF LockInv
  <1> QED
    BY <1>1, <1>2, <1>3, PTL DEF Spec

\* No two open transactions hold the row of one run.
THEOREM RunsLockedOnce == Spec => []RunLockExclusive
  BY LockDiscipline, PTL

-----------------------------------------------------------------------------
(* The jobs of a run *)

\* A goroutine's message, while it exists, is a message of its run.
JobsNamed ==
    \A w \in Workers, m \in MsgIds :
        task[w][m].pc # "idle" => queue[m].run \in {None, task[w][m].run}

InQueue(r) == (\E m \in MsgIds : Pending(m, r)) \/ Parked(r)

\* What the relay has sent but not yet deleted is in the queue, and stays there
\* as long as the relay holds the run.
HandledDelivered ==
    \A x \in Relays : \A o \in relay[x].done \cap relay[x].active :
        InQueue(outbox[o].run)

JobInv == JobsNamed /\ HandledDelivered /\ NoOrphanedRun

\* There is no run, hence no orphan.
LEMMA JobInit == Init => JobInv
  BY DEF Init, JobInv, JobsNamed, HandledDelivered, NoOrphanedRun, NoTask,
         NoBatch, Active, IsActive, ActiveStatuses, NoRow

\* A job in the queue stays there through a step that keeps or adds messages
\* and lets no goroutine decide to delete one.
LEMMA InQueueKept ==
    ASSUME NEW r \in Runs, InQueue(r), dlq \subseteq dlq',
           \A m \in MsgIds : queue[m].run = r => queue'[m].run = r,
           \A w \in Workers, m \in MsgIds :
               queue[m].run = r /\ task'[w][m].pc = "ack" => task[w][m].pc = "ack"
    PROVE  InQueue(r)'
  <1>1. ASSUME NEW m \in MsgIds, Pending(m, r)
        PROVE  Pending(m, r)'
    BY <1>1 DEF Pending, At
  <1> QED
    BY <1>1 DEF InQueue, Parked

\* The jobs a run has in the queue survive every step of an active run but the
\* commit of a result of that run.
LEMMA InQueueStep ==
    ASSUME TypeInv, JobsNamed, NEW r \in Runs, InQueue(r), Active(r), Next,
           ~\E w \in Workers, m \in MsgIds :
               PersistCommit(w, m) /\ task[w][m].run = r
    PROVE  InQueue(r)'
  <1>0. /\ task \in [Workers -> [MsgIds -> Tasks]]
        /\ queue \in [MsgIds -> Message]
        /\ r # None
    BY NoneAssumption DEF TypeInv, TypeOK
  <1>1. CASE UNCHANGED <<queue, dlq, task>>
    BY <1>1, InQueueKept
  <1>2. ASSUME NEW x \in Relays, NEW o \in RowIds, SendJob(x, o)
        PROVE  InQueue(r)'
    <2>1. PICK n \in FreeMessages : queue' = Sent(queue, n, outbox[o])
      BY <1>2 DEF SendJob
    <2>2. n \in MsgIds /\ queue[n].run = None
      BY <2>1 DEF FreeMessages, Present
    <2>3. \A m \in MsgIds : m # n => queue'[m] = queue[m]
      BY <1>0, <2>1 DEF Sent
    <2> QED
      BY <1>0, <1>2, <2>2, <2>3, InQueueKept DEF SendJob
  <1>3. ASSUME NEW w \in Workers, Receive(w)
        PROVE  InQueue(r)'
    <2>1. PICK batch :
            /\ queue' = Received(queue, batch)
            /\ task' = [task EXCEPT ![w] = [m \in MsgIds |->
                   IF m \in batch
                   THEN [NoTask EXCEPT !.pc = "read", !.run = queue[m].run,
                                       !.job = queue[m].node,
                                       !.receipt = queue[m].receives + 1]
                   ELSE NoTask]]
      BY <1>3 DEF Receive
    <2>2. \A m \in MsgIds : queue'[m].run = queue[m].run
      BY <1>0, <2>1 DEF Received, Message
    <2>3. \A m \in MsgIds : task'[w][m].pc # "ack"
      BY <1>0, <2>1 DEF NoTask
    <2>4. \A v \in Workers : v # w => task'[v] = task[v]
      BY <1>0, <2>1
    <2> QED
      BY <1>3, <2>2, <2>3, <2>4, InQueueKept DEF Receive
  <1>4. ASSUME NEW w \in Workers, WorkerCrash(w)
        PROVE  InQueue(r)'
    <2>1. \A v \in Workers, m \in MsgIds :
              task'[v][m].pc = "ack" => task[v][m].pc = "ack"
      BY <1>0, <1>4 DEF WorkerCrash, NoTask
    <2> QED
      BY <1>4, <2>1, InQueueKept DEF WorkerCrash
  <1>5. ASSUME NEW w \in Workers, NEW m \in MsgIds, NEW u,
               task' = [task EXCEPT ![w][m] = u],
               UNCHANGED <<queue, dlq>>,
               u.pc = "ack" => queue[m].run # r
        PROVE  InQueue(r)'
    <2>1. \A v \in Workers, n \in MsgIds :
              queue[n].run = r /\ task'[v][n].pc = "ack" => task[v][n].pc = "ack"
      BY <1>0, <1>5
    <2> QED
      BY <1>5, <2>1, InQueueKept
  <1>6. ASSUME NEW w \in Workers, NEW m \in MsgIds, ReadRun(w, m)
        PROVE  InQueue(r)'
    <2> DEFINE t == task[w][m]
    <2> DEFINE row == runs[t.run]
    <2> DEFINE u == IF IsActive(row)
                    THEN [t EXCEPT !.pc = "execute", !.node = row.node]
                    ELSE [t EXCEPT !.pc = "ack"]
    <2>1. /\ task' = [task EXCEPT ![w][m] = u]
          /\ UNCHANGED <<queue, dlq>>
          /\ t.pc = "read"
      BY <1>6 DEF ReadRun, At
    <2>2. queue[m].run \in {None, t.run}
      BY <2>1 DEF JobsNamed
    <2>3. u.pc = "ack" => ~IsActive(row)
      BY <1>0 DEF Tasks
    <2>4. u.pc = "ack" => queue[m].run # r
      BY <1>0, <2>2, <2>3 DEF Active
    <2> QED
      BY <1>5, <2>1, <2>4
  <1>7. ASSUME NEW w \in Workers, NEW m \in MsgIds, ExecuteNode(w, m)
        PROVE  InQueue(r)'
    <2>1. PICK next : task' = [task EXCEPT ![w][m] =
                         [task[w][m] EXCEPT !.pc = "persist", !.next = next]]
      BY <1>7 DEF ExecuteNode
    <2>2. [task[w][m] EXCEPT !.pc = "persist", !.next = next].pc # "ack"
      BY <1>0 DEF Tasks
    <2> QED
      BY <1>5, <1>7, <2>1, <2>2 DEF ExecuteNode
  <1>8. ASSUME NEW w \in Workers, NEW m \in MsgIds,
               ExecuteError(w, m) \/ PersistBegin(w, m)
        PROVE  InQueue(r)'
    <2>1. PICK pc \in {"fail", "commit"} :
              task' = [task EXCEPT ![w][m] = [task[w][m] EXCEPT !.pc = pc]]
      BY <1>8 DEF ExecuteError, PersistBegin
    <2>2. [task[w][m] EXCEPT !.pc = pc].pc # "ack"
      BY <1>0, <2>1 DEF Tasks
    <2> QED
      BY <1>5, <1>8, <2>1, <2>2 DEF ExecuteError, PersistBegin
  <1>9. ASSUME NEW w \in Workers, NEW m \in MsgIds,
               RecordFailure(w, m) \/ TaskError(w, m)
        PROVE  InQueue(r)'
    BY <1>5, <1>9 DEF RecordFailure, TaskError, NoTask
  <1>10. ASSUME NEW w \in Workers, NEW m \in MsgIds, PersistCommit(w, m)
         PROVE  InQueue(r)'
    <2>1. /\ task' = [task EXCEPT ![w][m] = [task[w][m] EXCEPT !.pc = "ack"]]
          /\ UNCHANGED <<queue, dlq>>
          /\ task[w][m].pc = "commit"
      BY <1>10 DEF PersistCommit, At
    <2>2. queue[m].run \in {None, task[w][m].run} /\ task[w][m].run # r
      BY <1>10, <2>1 DEF JobsNamed
    <2> QED
      BY <1>0, <1>5, <2>1, <2>2
  <1>11. ASSUME NEW w \in Workers, NEW m \in MsgIds, Ack(w, m)
         PROVE  InQueue(r)'
    <2>1. /\ queue' = queue \/ queue' = [queue EXCEPT ![m] = NoMessage]
          /\ task' = [task EXCEPT ![w][m] = NoTask]
          /\ UNCHANGED dlq
          /\ task[w][m].pc = "ack"
      BY <1>11 DEF Ack, At, DeleteResults, Deleted
    <2>2. ASSUME NEW n \in MsgIds, Pending(n, r)
          PROVE  Pending(n, r)'
      <3>1. n # m
        BY <2>1, <2>2 DEF Pending, At
      <3>2. queue'[n] = queue[n]
        BY <1>0, <2>1, <3>1
      <3>3. \A v \in Workers : task'[v][n] = task[v][n]
        BY <1>0, <2>1, <3>1
      <3> QED
        BY <2>2, <3>2, <3>3 DEF Pending, At
    <2> QED
      BY <2>1, <2>2 DEF InQueue, Parked
  <1>12. ASSUME NEW m \in MsgIds, LeaseExpire(m)
         PROVE  InQueue(r)'
    <2>1. \A n \in MsgIds : queue'[n].run = queue[n].run
      BY <1>0, <1>12 DEF LeaseExpire, LeaseExpired, Message
    <2> QED
      BY <1>12, <2>1, InQueueKept DEF LeaseExpire
  <1>13. ASSUME NEW m \in MsgIds, DeadLetter(m)
         PROVE  InQueue(r)'
    <2>1. /\ dlq' = dlq \cup {[run |-> queue[m].run, node |-> queue[m].node]}
          /\ queue' = [queue EXCEPT ![m] = NoMessage]
          /\ UNCHANGED task
      BY <1>13 DEF DeadLetter, Deleted
    <2>2. CASE queue[m].run = r
      <3>1. [run |-> queue[m].run, node |-> queue[m].node].run = r
        BY <2>2
      <3> QED
        BY <2>1, <3>1 DEF InQueue, Parked
    <2>3. CASE queue[m].run # r
      BY <1>0, <2>1, <2>3, InQueueKept
    <2> QED
      BY <2>2, <2>3
  <1>14. ASSUME NEW s \in Runs,
                Start(s) \/ Pause(s) \/ Resume(s) \/ Stop(s) \/ Retry(s)
         PROVE  InQueue(r)'
    BY <1>1, <1>14 DEF Start, Pause, Resume, Stop, Retry
  <1>15. ASSUME NEW x \in Relays,
                \/ LockDue(x) \/ RelayCommit(x) \/ RelayAbort(x)
                \/ \E o \in RowIds : SkipJob(x, o)
         PROVE  InQueue(r)'
    BY <1>1, <1>15 DEF LockDue, RelayCommit, RelayAbort, SkipJob
  <1> QED
    BY <1>2, <1>3, <1>4, <1>6, <1>7, <1>8, <1>9, <1>10, <1>11, <1>12, <1>13,
       <1>14, <1>15 DEF Next, RelayStep, TaskStep

\* Messages that only disappear and goroutines that keep their run.
LEMMA NamedKept ==
    ASSUME JobsNamed,
           \A m \in MsgIds : queue'[m].run \in {queue[m].run, None},
           \A w \in Workers, m \in MsgIds :
               task'[w][m].pc # "idle" =>
                   task[w][m].pc # "idle" /\ task'[w][m].run = task[w][m].run
    PROVE  JobsNamed'
  BY DEF JobsNamed

\* A goroutine works on the run its message names: kept by every step.
LEMMA NamedStep ==
    ASSUME TypeInv, JobsNamed, Next
    PROVE  JobsNamed'
  <1>0. /\ task \in [Workers -> [MsgIds -> Tasks]]
        /\ queue \in [MsgIds -> Message]
    BY DEF TypeInv, TypeOK
  <1>1. CASE UNCHANGED <<queue, task>>
    BY <1>1 DEF JobsNamed
  <1>2. ASSUME NEW x \in Relays, NEW o \in RowIds, SendJob(x, o)
        PROVE  JobsNamed'
    <2>1. PICK n \in FreeMessages : queue' = Sent(queue, n, outbox[o])
      BY <1>2 DEF SendJob
    <2>2. \A w \in Workers : task[w][n].pc = "idle"
      BY <2>1 DEF FreeMessages, NoTask
    <2>3. \A m \in MsgIds : m # n => queue'[m] = queue[m]
      BY <1>0, <2>1 DEF Sent
    <2> QED
      BY <1>2, <2>2, <2>3 DEF SendJob, JobsNamed
  <1>3. ASSUME NEW w \in Workers, Receive(w)
        PROVE  JobsNamed'
    <2>1. PICK batch :
            /\ queue' = Received(queue, batch)
            /\ task' = [task EXCEPT ![w] = [m \in MsgIds |->
                   IF m \in batch
                   THEN [NoTask EXCEPT !.pc = "read", !.run = queue[m].run,
                                       !.job = queue[m].node,
                                       !.receipt = queue[m].receives + 1]
                   ELSE NoTask]]
      BY <1>3 DEF Receive
    <2>2. \A m \in MsgIds : queue'[m].run = queue[m].run
      BY <1>0, <2>1 DEF Received, Message
    <2>3. \A m \in MsgIds :
              task'[w][m].pc # "idle" => task'[w][m].run = queue[m].run
      BY <1>0, <2>1 DEF NoTask
    <2>4. \A v \in Workers : v # w => task'[v] = task[v]
      BY <1>0, <2>1
    <2> QED
      BY <2>2, <2>3, <2>4 DEF JobsNamed
  <1>4. ASSUME NEW w \in Workers, WorkerCrash(w)
        PROVE  JobsNamed'
    BY <1>0, <1>4, NamedKept DEF WorkerCrash, NoTask
  <1>5. ASSUME NEW w \in Workers, NEW m \in MsgIds, NEW u,
               task' = [task EXCEPT ![w][m] = u],
               \A n \in MsgIds : queue'[n].run \in {queue[n].run, None},
               \/ u.pc = "idle"
               \/ task[w][m].pc # "idle" /\ u.run = task[w][m].run
        PROVE  JobsNamed'
    BY <1>0, <1>5, NamedKept
  <1>6. ASSUME NEW w \in Workers, NEW m \in MsgIds, ReadRun(w, m)
        PROVE  JobsNamed'
    <2> DEFINE t == task[w][m]
    <2> DEFINE row == runs[t.run]
    <2> DEFINE u == IF IsActive(row)
                    THEN [t EXCEPT !.pc = "execute", !.node = row.node]
                    ELSE [t EXCEPT !.pc = "ack"]
    <2>1. /\ task' = [task EXCEPT ![w][m] = u]
          /\ UNCHANGED queue
          /\ t.pc = "read"
      BY <1>6 DEF ReadRun, At
    <2>2. u.run = t.run
      BY <1>0 DEF Tasks
    <2> QED
      BY <1>5, <2>1, <2>2
  <1>7. ASSUME NEW w \in Workers, NEW m \in MsgIds, ExecuteNode(w, m)
        PROVE  JobsNamed'
    <2>1. PICK next : task' = [task EXCEPT ![w][m] =
                         [task[w][m] EXCEPT !.pc = "persist", !.next = next]]
      BY <1>7 DEF ExecuteNode
    <2>2. [task[w][m] EXCEPT !.pc = "persist", !.next = next].run
              = task[w][m].run
      BY <1>0 DEF Tasks
    <2> QED
      BY <1>5, <1>7, <2>1, <2>2 DEF ExecuteNode, At
  <1>8. ASSUME NEW w \in Workers, NEW m \in MsgIds,
               \/ ExecuteError(w, m) \/ PersistBegin(w, m) \/ PersistCommit(w, m)
        PROVE  JobsNamed'
    <2>1. PICK pc \in {"fail", "commit", "ack"} :
              task' = [task EXCEPT ![w][m] = [task[w][m] EXCEPT !.pc = pc]]
      BY <1>8 DEF ExecuteError, PersistBegin, PersistCommit
    <2>2. [task[w][m] EXCEPT !.pc = pc].run = task[w][m].run
      BY <1>0, <2>1 DEF Tasks
    <2> QED
      BY <1>5, <1>8, <2>1, <2>2 DEF ExecuteError, PersistBegin, PersistCommit, At
  <1>9. ASSUME NEW w \in Workers, NEW m \in MsgIds,
               RecordFailure(w, m) \/ TaskError(w, m)
        PROVE  JobsNamed'
    BY <1>5, <1>9 DEF RecordFailure, TaskError, NoTask
  <1>10. ASSUME NEW w \in Workers, NEW m \in MsgIds, Ack(w, m)
         PROVE  JobsNamed'
    <2>1. \A n \in MsgIds : queue'[n].run \in {queue[n].run, None}
      BY <1>0, <1>10 DEF Ack, DeleteResults, Deleted, NoMessage
    <2> QED
      BY <1>5, <1>10, <2>1 DEF Ack, NoTask
  <1>11. ASSUME NEW m \in MsgIds, LeaseExpire(m) \/ DeadLetter(m)
         PROVE  JobsNamed'
    <2>1. CASE LeaseExpire(m)
      <3>1. \A n \in MsgIds : queue'[n].run = queue[n].run
        BY <1>0, <2>1 DEF LeaseExpire, LeaseExpired, Message
      <3> QED
        BY <2>1, <3>1, NamedKept DEF LeaseExpire
    <2>2. CASE DeadLetter(m)
      <3>1. \A n \in MsgIds : queue'[n].run \in {queue[n].run, None}
        BY <1>0, <2>2 DEF DeadLetter, Deleted, NoMessage
      <3> QED
        BY <2>2, <3>1, NamedKept DEF DeadLetter
    <2> QED
      BY <1>11, <2>1, <2>2
  <1>12. ASSUME NEW s \in Runs,
                Start(s) \/ Pause(s) \/ Resume(s) \/ Stop(s) \/ Retry(s)
         PROVE  JobsNamed'
    BY <1>1, <1>12 DEF Start, Pause, Resume, Stop, Retry
  <1>13. ASSUME NEW x \in Relays,
                \/ LockDue(x) \/ RelayCommit(x) \/ RelayAbort(x)
                \/ \E o \in RowIds : SkipJob(x, o)
         PROVE  JobsNamed'
    BY <1>1, <1>13 DEF LockDue, RelayCommit, RelayAbort, SkipJob
  <1> QED
    BY <1>2, <1>3, <1>4, <1>6, <1>7, <1>8, <1>9, <1>10, <1>11, <1>12, <1>13
       DEF Next, RelayStep, TaskStep

\* The rows of an open batch are written only by the commit of that batch.
LEMMA BatchRowKept ==
    ASSUME TypeInv, LockInv, Next, NEW x \in Relays, NEW o \in relay[x].jobs,
           ~RelayCommit(x)
    PROVE  outbox'[o] = outbox[o]
  <1>1. ASSUME NEW y \in Relays, RelayCommit(y)
        PROVE  outbox'[o] = outbox[o]
    <2>1. o \in RowIds /\ outbox[o].run \in Runs
      BY DEF LockInv, RelayOK, TypeInv, RefersToRuns, Job
    <2>2. o \notin relay[y].done
      BY <1>1, <2>1 DEF LockInv, RelayOK, RunLockExclusive, RelayHolds
    <2> QED
      BY <1>1, <2>1, <2>2 DEF RelayCommit
  <1>2. ASSUME NEW s \in Runs,
               Start(s) \/ Pause(s) \/ Resume(s) \/ Stop(s) \/ Retry(s)
        PROVE  outbox'[o] = outbox[o]
    BY <1>2, FreshRow DEF Start, Pause, Resume, Stop, Retry
  <1>3. ASSUME NEW w \in Workers, NEW m \in MsgIds, PersistCommit(w, m)
        PROVE  outbox'[o] = outbox[o]
    BY <1>3, FreshRow DEF PersistCommit
  <1>4. CASE UNCHANGED outbox
    BY <1>4
  <1> QED
    BY <1>1, <1>2, <1>3, <1>4
       DEF Next, RelayStep, TaskStep, LockDue, SendJob, SkipJob, RelayAbort,
           Receive, WorkerCrash, ReadRun, ExecuteNode, ExecuteError,
           RecordFailure, PersistBegin, Ack, TaskError, LeaseExpire, DeadLetter

\* What an open batch has sent is in the queue: kept by every step.
LEMMA HandledStep ==
    ASSUME TypeInv, LockInv, JobInv, Next
    PROVE  HandledDelivered'
  <1> SUFFICES ASSUME NEW x \in Relays,
                      NEW o \in relay'[x].done \cap relay'[x].active
               PROVE  InQueue(outbox[o].run)' 
    BY DEF HandledDelivered
  <1>0. relay \in [Relays -> [jobs : SUBSET RowIds, active : SUBSET RowIds,
                              done : SUBSET RowIds]]
    BY DEF TypeInv, TypeOK
  <1>1. ~LockDue(x) /\ ~RelayCommit(x) /\ ~RelayAbort(x)
    BY <1>0 DEF LockDue, RelayCommit, RelayAbort, NoBatch
  <1>2. ASSUME SendJob(x, o)
        PROVE  InQueue(outbox[o].run)'
    <2>1. PICK n \in FreeMessages : queue' = Sent(queue, n, outbox[o])
      BY <1>2 DEF SendJob
    <2>2. /\ n \in MsgIds
          /\ \A w \in Workers : task[w][n].pc = "idle"
      BY <2>1 DEF FreeMessages, NoTask
    <2>3. queue'[n].run = outbox[o].run
      BY <2>1, <2>2 DEF Sent, TypeInv, TypeOK
    <2>4. UNCHANGED <<outbox, task>>
      BY <1>2 DEF SendJob
    <2> QED
      BY <2>2, <2>3, <2>4 DEF InQueue, Pending, At
  <1>3. ASSUME o \in relay[x].done \cap relay[x].active
        PROVE  InQueue(outbox[o].run)'
    <2>1. o \in relay[x].jobs /\ outbox[o].run \in Runs
      BY <1>3 DEF LockInv, RelayOK, TypeInv, RefersToRuns, Job
    <2>2. PICK r \in Runs : r = outbox[o].run
      BY <2>1
    <2>3. InQueue(r) /\ Active(r) /\ RelayHolds(x, r)
      BY <1>3, <2>1, <2>2
         DEF JobInv, HandledDelivered, LockInv, RelayStatusCurrent, RelayHolds
    <2>4. ~\E w \in Workers, m \in MsgIds :
              PersistCommit(w, m) /\ task[w][m].run = r
      BY <2>3 DEF PersistCommit, At, LockInv, RunLockExclusive, WorkerHolds
    <2>5. InQueue(r)'
      BY <2>3, <2>4, InQueueStep DEF JobInv
    <2>6. outbox'[o] = outbox[o]
      BY <1>1, <2>1, BatchRowKept
    <2>7. outbox'[o].run = r
      BY <2>2, <2>6
    <2> QED
      BY <2>5, <2>7 DEF InQueue, Pending, Parked, At
  <1>4. SendJob(x, o) \/ o \in relay[x].done \cap relay[x].active
    <2>1. ASSUME NEW p \in RowIds, SendJob(x, p) \/ SkipJob(x, p)
          PROVE  SendJob(x, o) \/ o \in relay[x].done \cap relay[x].active
      <3>1. /\ relay'[x].done = relay[x].done \cup {p}
            /\ relay'[x].active = relay[x].active
        BY <1>0, <2>1 DEF SendJob, SkipJob, Handled
      <3> QED
        BY <2>1, <3>1 DEF SkipJob
    <2>2. CASE relay'[x] = relay[x]
      BY <2>2
    <2>3. relay'[x] = relay[x] \/ \E p \in RowIds : SendJob(x, p) \/ SkipJob(x, p)
      <3>1. ASSUME NEW y \in Relays, y # x, RelayStep(y) \/ RelayAbort(y)
            PROVE  relay'[x] = relay[x]
        BY <1>0, <3>1 DEF RelayStep, RelayAbort, LockDue, SendJob, SkipJob,
                          Handled, RelayCommit
      <3>2. CASE UNCHANGED relay
        BY <3>2
      <3> QED
        BY <1>1, <3>1, <3>2
           DEF Next, RelayStep, TaskStep, Start, Pause, Resume, Stop, Retry,
               Receive, WorkerCrash, ReadRun, ExecuteNode, ExecuteError,
               RecordFailure, PersistBegin, PersistCommit, Ack, TaskError,
               LeaseExpire, DeadLetter
    <2> QED
      BY <2>1, <2>2, <2>3
  <1> QED
    BY <1>2, <1>3, <1>4

\* A run has a row of the outbox, or its job is in the queue or parked.
HasJob(r) == (\E o \in RowIds : RowOf(o, r)) \/ InQueue(r)

\* A new row is a job of its run.
LEMMA EnqueuedIsJob ==
    ASSUME TypeInv, NEW r, NEW n,
           \E o \in FreeRows : outbox' = Enqueued(o, r, n)
    PROVE  \E o \in RowIds : RowOf(o, r)'
  <1>1. PICK o \in FreeRows : outbox' = Enqueued(o, r, n)
    OBVIOUS
  <1>2. o \in RowIds /\ outbox'[o] = [run |-> r, node |-> n]
    BY <1>1 DEF FreeRows, Enqueued, TypeInv, TypeOK
  <1> QED
    BY <1>2 DEF RowOf

\* The statements that make a run active come with a job for it.
LEMMA ActivatedHasJob ==
    ASSUME TypeInv, Next, NEW r \in Runs, Active(r)', ~Active(r)
    PROVE  HasJob(r)'
  <1>0. runs \in [Runs -> RowsOver(Nodes) \cup {NoRow}]
    BY DEF TypeInv, TypeOK
  <1>1. runs'[r] # runs[r]
    BY DEF Active
  <1>2. ASSUME NEW s \in Runs, Start(s) \/ Resume(s) \/ Retry(s)
        PROVE  HasJob(r)'
    <2>1. s = r
      BY <1>0, <1>1, <1>2 DEF Start, Resume, Retry
    <2>2. \E n : \E o \in FreeRows : outbox' = Enqueued(o, r, n)
      BY <1>2, <2>1 DEF Start, Resume, Retry
    <2> QED
      BY <2>2, EnqueuedIsJob DEF HasJob
  <1>3. ASSUME NEW s \in Runs, Pause(s) \/ Stop(s)
        PROVE  FALSE
    <2>1. s = r
      BY <1>0, <1>1, <1>3 DEF Pause, Stop
    <2>2. runs[r] \in RowsOver(Nodes)
      BY <1>0, <1>3, <2>1 DEF Pause, Stop, Writable, IsRow, NoRow
    <2>3. ~Active(r)'
      BY <1>0, <1>3, <2>1, <2>2
         DEF Pause, Stop, Paused, Stopped, Active, IsActive, ActiveStatuses,
             RowsOver
    <2> QED
      BY <2>3
  <1>4. ASSUME NEW w \in Workers, NEW m \in MsgIds,
               RecordFailure(w, m) \/ PersistCommit(w, m)
        PROVE  HasJob(r)'
    <2> DEFINE t == task[w][m]
    <2>1. t.run = r
      BY <1>0, <1>1, <1>4 DEF RecordFailure, PersistCommit
    <2>2. runs[r] \in RowsOver(Nodes)
      BY <1>4, <2>1, BusyTask DEF RecordFailure, PersistCommit, At
    <2>3. ~RecordFailure(w, m)
      <3> SUFFICES ASSUME RecordFailure(w, m) PROVE FALSE
        OBVIOUS
      <3>1. runs'[r] = Failed(runs[r])
        BY <1>0, <2>1 DEF RecordFailure
      <3>2. Failed(runs[r]).status = "failed"
        BY <2>2 DEF Failed, RowsOver
      <3> QED
        BY <3>1, <3>2 DEF Active, IsActive, ActiveStatuses
    <2>4. t.next # None
      <3> SUFFICES ASSUME t.next = None PROVE FALSE
        OBVIOUS
      <3>1. runs'[r] = Completed(runs[r], t.node)
        BY <1>0, <1>4, <2>1, <2>3 DEF PersistCommit
      <3>2. Completed(runs[r], t.node).status = "completed"
        BY <2>2 DEF Completed, RowsOver
      <3> QED
        BY <3>1, <3>2 DEF Active, IsActive, ActiveStatuses
    <2>5. \E o \in FreeRows : outbox' = Enqueued(o, r, t.next)
      BY <1>4, <2>1, <2>3, <2>4 DEF PersistCommit
    <2> QED
      BY <2>5, EnqueuedIsJob DEF HasJob
  <1>5. CASE UNCHANGED runs
    BY <1>1, <1>5
  <1> QED
    BY <1>2, <1>3, <1>4, <1>5
       DEF Next, RelayStep, TaskStep, LockDue, SendJob, SkipJob, RelayCommit,
           RelayAbort, Receive, WorkerCrash, ReadRun, ExecuteNode, ExecuteError,
           PersistBegin, Ack, TaskError, LeaseExpire, DeadLetter

\* No step separates an active run from its last job.
LEMMA OrphanStep ==
    ASSUME TypeInv, LockInv, JobInv, Next
    PROVE  NoOrphanedRun'
  <1> SUFFICES ASSUME NEW r \in Runs, Active(r)'
               PROVE  HasJob(r)'
    BY DEF NoOrphanedRun, HasJob, InQueue
  <1>1. CASE ~Active(r)
    BY <1>1, ActivatedHasJob
  <1>2. CASE /\ Active(r)
             /\ \E w \in Workers, m \in MsgIds :
                   PersistCommit(w, m) /\ task[w][m].run = r
    <2>1. PICK w \in Workers, m \in MsgIds :
              PersistCommit(w, m) /\ task[w][m].run = r
      BY <1>2
    <2>2. runs[r] \in RowsOver(Nodes) /\ runs \in [Runs -> RowsOver(Nodes) \cup {NoRow}]
      BY <2>1, BusyTask DEF PersistCommit, At
    <2>3. task[w][m].next # None
      <3> SUFFICES ASSUME task[w][m].next = None PROVE FALSE
        OBVIOUS
      <3>1. runs'[r] = Completed(runs[r], task[w][m].node)
        BY <2>1, <2>2 DEF PersistCommit
      <3>2. Completed(runs[r], task[w][m].node).status = "completed"
        BY <2>2 DEF Completed, RowsOver
      <3> QED
        BY <3>1, <3>2 DEF Active, IsActive, ActiveStatuses
    <2>4. \E n : \E o \in FreeRows : outbox' = Enqueued(o, r, n)
      BY <2>1, <2>3 DEF PersistCommit
    <2> QED
      BY <2>4, EnqueuedIsJob DEF HasJob
  <1>3. CASE /\ Active(r)
             /\ ~\E w \in Workers, m \in MsgIds :
                   PersistCommit(w, m) /\ task[w][m].run = r
    <2>1. InQueue(r) => InQueue(r)'
      BY <1>3, InQueueStep DEF JobInv
    <2>2. ASSUME NEW o \in RowIds, RowOf(o, r), ~InQueue(r)
          PROVE  RowOf(o, r)'
      <3>1. outbox[o] # NoJob
        BY <2>2, NoneAssumption DEF RowOf, NoJob
      <3>2. ASSUME NEW x \in Relays, RelayCommit(x)
            PROVE  outbox'[o] = outbox[o]
        <4>1. o \notin relay[x].done
          BY <1>3, <2>2, <3>2
             DEF LockInv, RelayOK, RelayStatusCurrent, RowOf, JobInv,
                 HandledDelivered
        <4> QED
          BY <3>2, <4>1 DEF RelayCommit
      <3>3. ASSUME NEW s, NEW n, \E p \in FreeRows : outbox' = Enqueued(p, s, n)
            PROVE  outbox'[o] = outbox[o]
        BY <3>1, <3>3 DEF FreeRows, Rows, Enqueued, TypeInv, TypeOK
      <3>4. CASE UNCHANGED outbox
        BY <2>2, <3>4 DEF RowOf
      <3>5. ASSUME NEW w \in Workers, NEW m \in MsgIds, PersistCommit(w, m)
            PROVE  outbox'[o] = outbox[o]
        BY <3>3, <3>5 DEF PersistCommit
      <3>6. ASSUME NEW s \in Runs, Start(s) \/ Resume(s) \/ Retry(s)
            PROVE  outbox'[o] = outbox[o]
        BY <3>3, <3>6 DEF Start, Resume, Retry
      <3> QED
        BY <2>2, <3>2, <3>4, <3>5, <3>6
           DEF RowOf, Next, RelayStep, TaskStep, Pause, Stop, LockDue, SendJob,
               SkipJob, RelayAbort, Receive, WorkerCrash, ReadRun, ExecuteNode,
               ExecuteError, RecordFailure, PersistBegin, Ack, TaskError,
               LeaseExpire, DeadLetter
    <2>3. HasJob(r)
      BY <1>3 DEF JobInv, NoOrphanedRun, HasJob, InQueue
    <2> QED
      BY <2>1, <2>2, <2>3 DEF HasJob
  <1> QED
    BY <1>1, <1>2, <1>3

\* The job layer is inductive relative to the other two.
LEMMA JobStep ==
    ASSUME TypeInv, LockInv, JobInv, [Next]_vars
    PROVE  JobInv'
  <1>1. CASE UNCHANGED vars
    BY <1>1 DEF vars, JobInv, JobsNamed, HandledDelivered, NoOrphanedRun,
                InQueue, Pending, Parked, At, Active, RowOf
  <1>2. CASE Next
    BY <1>2, NamedStep, HandledStep, OrphanStep DEF JobInv
  <1> QED
    BY <1>1, <1>2

\* No orphaned run: through crashes, lost calls, duplicates and races, a run
\* that is pending or running has a job that can still move it, or its job is
\* in the dead-letter queue.
THEOREM NoRunIsOrphaned == Spec => []NoOrphanedRun
  <1>1. Init => TypeInv /\ LockInv /\ JobInv
    BY TypeInit, LockInit, JobInit
  <1>2. (TypeInv /\ LockInv /\ JobInv) /\ [Next]_vars
            => (TypeInv /\ LockInv /\ JobInv)'
    BY TypeStep, LockStep, JobStep
  <1>3. TypeInv /\ LockInv /\ JobInv => NoOrphanedRun
    BY DEF JobInv
  <1> QED
    BY <1>1, <1>2, <1>3, PTL DEF Spec

-----------------------------------------------------------------------------
(* Runs nobody works on *)

\* Only a goroutine that reads the run as active gets to work on it.
LEMMA NobodyStarts ==
    ASSUME TypeInv, Next, NEW r \in Runs, ~Active(r), ~InFlight(r)
    PROVE  ~InFlight(r)'
  <1>0. task \in [Workers -> [MsgIds -> Tasks]]
    BY DEF TypeInv, TypeOK
  <1> DEFINE Works(t) == t.run = r /\ t.pc \in {"execute", "persist", "commit", "fail"}
  <1>1. \A w \in Workers, m \in MsgIds : ~Works(task[w][m])
    BY DEF InFlight
  <1>2. ASSUME NEW w \in Workers, NEW m \in MsgIds, NEW u, ~Works(u),
               task' = [task EXCEPT ![w][m] = u]
        PROVE  ~InFlight(r)'
    BY <1>0, <1>1, <1>2 DEF InFlight
  <1>3. ASSUME NEW w \in Workers, NEW m \in MsgIds, ReadRun(w, m)
        PROVE  ~InFlight(r)'
    <2> DEFINE t == task[w][m]
    <2> DEFINE row == runs[t.run]
    <2> DEFINE u == IF IsActive(row)
                    THEN [t EXCEPT !.pc = "execute", !.node = row.node]
                    ELSE [t EXCEPT !.pc = "ack"]
    <2>1. task' = [task EXCEPT ![w][m] = u]
      BY <1>3 DEF ReadRun
    <2>2. ~Works(u)
      BY <1>0 DEF Tasks, Active
    <2> QED
      BY <1>2, <2>1, <2>2
  <1>4. ASSUME NEW w \in Workers, NEW m \in MsgIds, ExecuteNode(w, m)
        PROVE  ~InFlight(r)'
    <2>1. PICK next : task' = [task EXCEPT ![w][m] =
                         [task[w][m] EXCEPT !.pc = "persist", !.next = next]]
      BY <1>4 DEF ExecuteNode
    <2>2. task[w][m].run # r
      BY <1>1, <1>4 DEF ExecuteNode, At
    <2>3. ~Works([task[w][m] EXCEPT !.pc = "persist", !.next = next])
      BY <1>0, <2>2 DEF Tasks
    <2> QED
      BY <1>2, <2>1, <2>3
  <1>5. ASSUME NEW w \in Workers, NEW m \in MsgIds,
               ExecuteError(w, m) \/ PersistBegin(w, m) \/ PersistCommit(w, m)
        PROVE  ~InFlight(r)'
    <2>1. PICK pc \in {"fail", "commit", "ack"} :
              task' = [task EXCEPT ![w][m] = [task[w][m] EXCEPT !.pc = pc]]
      BY <1>5 DEF ExecuteError, PersistBegin, PersistCommit
    <2>2. task[w][m].run # r
      BY <1>1, <1>5 DEF ExecuteError, PersistBegin, PersistCommit, At
    <2>3. ~Works([task[w][m] EXCEPT !.pc = pc])
      BY <1>0, <2>1, <2>2 DEF Tasks
    <2> QED
      BY <1>2, <2>1, <2>3
  <1>6. ASSUME NEW w \in Workers, NEW m \in MsgIds,
               RecordFailure(w, m) \/ Ack(w, m) \/ TaskError(w, m)
        PROVE  ~InFlight(r)'
    BY <1>2, <1>6 DEF RecordFailure, Ack, TaskError, NoTask
  <1>7. ASSUME NEW w \in Workers, Receive(w)
        PROVE  ~InFlight(r)'
    <2>1. PICK batch : task' = [task EXCEPT ![w] = [m \in MsgIds |->
               IF m \in batch
               THEN [NoTask EXCEPT !.pc = "read", !.run = queue[m].run,
                                   !.job = queue[m].node,
                                   !.receipt = queue[m].receives + 1]
               ELSE NoTask]]
      BY <1>7 DEF Receive
    <2>2. \A v \in Workers : v # w => task'[v] = task[v]
      BY <1>0, <2>1
    <2>3. \A m \in MsgIds : task'[w][m].pc \in {"read", "idle"}
      BY <1>0, <2>1 DEF NoTask
    <2> QED
      BY <1>1, <2>2, <2>3 DEF InFlight
  <1>8. ASSUME NEW w \in Workers, WorkerCrash(w)
        PROVE  ~InFlight(r)'
    BY <1>0, <1>1, <1>8 DEF WorkerCrash, NoTask, InFlight
  <1>9. CASE UNCHANGED task
    BY <1>1, <1>9 DEF InFlight
  <1> QED
    BY <1>3, <1>4, <1>5, <1>6, <1>7, <1>8, <1>9
       DEF Next, RelayStep, TaskStep, Start, Pause, Resume, Stop, Retry,
           LockDue, SendJob, SkipJob, RelayCommit, RelayAbort, LeaseExpire,
           DeadLetter

\* Without a goroutine at work, only a request writes the run.
LEMMA OnlyRequests ==
    ASSUME TypeInv, Next, NEW r \in Runs, ~InFlight(r)
    PROVE  \/ runs'[r] = runs[r]
           \/ Start(r) \/ Pause(r) \/ Resume(r) \/ Stop(r) \/ Retry(r)
  <1>0. runs \in [Runs -> RowsOver(Nodes) \cup {NoRow}]
    BY DEF TypeInv, TypeOK
  <1>1. ASSUME NEW s \in Runs, s # r,
               Start(s) \/ Pause(s) \/ Resume(s) \/ Stop(s) \/ Retry(s)
        PROVE  runs'[r] = runs[r]
    BY <1>0, <1>1 DEF Start, Pause, Resume, Stop, Retry
  <1>2. ASSUME NEW w \in Workers, NEW m \in MsgIds,
               RecordFailure(w, m) \/ PersistCommit(w, m)
        PROVE  runs'[r] = runs[r]
    <2>1. task[w][m].run # r
      BY <1>2 DEF RecordFailure, PersistCommit, At, InFlight
    <2> QED
      BY <1>0, <1>2, <2>1 DEF RecordFailure, PersistCommit
  <1>3. CASE UNCHANGED runs
    BY <1>3
  <1> QED
    BY <1>1, <1>2, <1>3
       DEF Next, RelayStep, TaskStep, LockDue, SendJob, SkipJob, RelayCommit,
           RelayAbort, Receive, WorkerCrash, ReadRun, ExecuteNode, ExecuteError,
           PersistBegin, Ack, TaskError, LeaseExpire, DeadLetter

\* A cancelled or completed run that nobody works on never changes again.
THEOREM SettledRunsStay == Spec => SettledForever
  <1>1. ASSUME TypeInv, [Next]_vars, NEW r \in Runs, Settled(r)
        PROVE  Settled(r)' /\ runs'[r] = runs[r]
    <2>1. CASE UNCHANGED vars
      BY <1>1, <2>1 DEF vars, Settled, InFlight
    <2>2. CASE Next
      <3>1. ~Active(r) /\ ~InFlight(r)
        BY <1>1 DEF Settled, Active, IsActive, ActiveStatuses
      <3>2. ~InFlight(r)'
        BY <1>1, <2>2, <3>1, NobodyStarts
      <3>3. runs \in [Runs -> RowsOver(Nodes) \cup {NoRow}]
        BY <1>1 DEF TypeInv, TypeOK
      <3>4. runs[r] \in RowsOver(Nodes)
        BY <1>1, <3>3 DEF Settled, NoRow
      <3>5. ~Start(r) /\ ~Pause(r) /\ ~Resume(r) /\ ~Retry(r)
        BY <1>1, <3>4, RowIsRow
           DEF Start, Pause, Resume, Retry, CanPause, CanResume, CanRetry, Settled
      <3>6. Stop(r) => runs'[r] = runs[r]
        <4> SUFFICES ASSUME Stop(r) PROVE runs'[r] = runs[r]
          OBVIOUS
        <4>1. runs'[r] = Stopped(runs[r])
          BY <3>3 DEF Stop
        <4>2. runs[r].status = "cancelled"
          BY <1>1 DEF Stop, CanStop, Settled
        <4>3. Stopped(runs[r]) = runs[r]
          BY <3>4, <4>2 DEF Stopped, RowsOver
        <4> QED
          BY <4>1, <4>3
      <3>7. runs'[r] = runs[r]
        BY <1>1, <2>2, <3>1, <3>5, <3>6, OnlyRequests
      <3> QED
        BY <1>1, <3>2, <3>7 DEF Settled
    <2> QED
      BY <1>1, <2>1, <2>2
  <1>2. TypeInv /\ [Next]_vars =>
            [\A r \in Runs : Settled(r) => Settled(r)' /\ runs'[r] = runs[r]]_vars
    BY <1>1
  <1>3. Init => TypeInv
    BY TypeInit
  <1>4. TypeInv /\ [Next]_vars => TypeInv'
    BY TypeStep
  <1> QED
    BY <1>2, <1>3, <1>4, PTL DEF Spec, SettledForever

\* A paused or failed run that nobody works on keeps its checkpoint, and keeps
\* its status until Resume, Retry or Stop.
THEOREM QuietRunsStayPut == Spec => QuietRunStaysPut
  <1> DEFINE Put(r) ==
        /\ runs'[r].node = runs[r].node
        /\ runs'[r].output = runs[r].output
        /\ \/ HeldBack(r)' /\ runs'[r].status = runs[r].status
           \/ Resume(r) \/ Retry(r) \/ Stop(r)
  <1>1. ASSUME TypeInv, [Next]_vars, NEW r \in Runs, HeldBack(r)
        PROVE  Put(r)
    <2>1. CASE UNCHANGED vars
      BY <1>1, <2>1 DEF vars, HeldBack, InFlight
    <2>2. CASE Next
      <3>1. ~Active(r) /\ ~InFlight(r)
        BY <1>1 DEF HeldBack, Active, IsActive, ActiveStatuses
      <3>2. ~InFlight(r)'
        BY <1>1, <2>2, <3>1, NobodyStarts
      <3>3. runs \in [Runs -> RowsOver(Nodes) \cup {NoRow}]
        BY <1>1 DEF TypeInv, TypeOK
      <3>4. runs[r] \in RowsOver(Nodes)
        BY <1>1, <3>3 DEF HeldBack, NoRow
      <3>5. CASE runs'[r] = runs[r]
        BY <1>1, <3>2, <3>5 DEF HeldBack
      <3>6. CASE Start(r)
        BY <3>4, <3>6, RowIsRow DEF Start
      <3>7. CASE Pause(r)
        <4>1. runs'[r] = Paused(runs[r]) /\ runs[r].status = "paused"
          BY <1>1, <3>3, <3>7 DEF Pause, CanPause, HeldBack
        <4>2. Paused(runs[r]) = runs[r]
          BY <3>4, <4>1 DEF Paused, RowsOver
        <4> QED
          BY <3>5, <4>1, <4>2
      <3>8. CASE Resume(r) \/ Stop(r) \/ Retry(r)
        <4>1. \/ runs'[r] = Resumed(runs[r])
              \/ runs'[r] = Stopped(runs[r])
              \/ runs'[r] = Retried(runs[r])
          BY <3>3, <3>8 DEF Resume, Stop, Retry
        <4>2. /\ Resumed(runs[r]).node = runs[r].node
              /\ Resumed(runs[r]).output = runs[r].output
              /\ Stopped(runs[r]).node = runs[r].node
              /\ Stopped(runs[r]).output = runs[r].output
          BY <3>4 DEF Resumed, Stopped, RowsOver
        <4>3. /\ Retried(runs[r]).node = runs[r].node
              /\ Retried(runs[r]).output = runs[r].output
          BY <3>4 DEF Retried, RowsOver
        <4> QED
          BY <3>8, <4>1, <4>2, <4>3
      <3> QED
        BY <1>1, <2>2, <3>1, <3>5, <3>6, <3>7, <3>8, OnlyRequests
    <2> QED
      BY <1>1, <2>1, <2>2
  <1>2. TypeInv /\ [Next]_vars =>
            [\A r \in Runs : HeldBack(r) =>
                /\ runs'[r].node = runs[r].node
                /\ runs'[r].output = runs[r].output
                /\ \/ HeldBack(r)' /\ runs'[r].status = runs[r].status
                   \/ Resume(r) \/ Retry(r) \/ Stop(r)]_vars
    BY <1>1
  <1>3. Init => TypeInv
    BY TypeInit
  <1>4. TypeInv /\ [Next]_vars => TypeInv'
    BY TypeStep
  <1> QED
    BY <1>2, <1>3, <1>4, PTL DEF Spec, QuietRunStaysPut
=============================================================================
