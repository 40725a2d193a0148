-------------------------- MODULE LifecycleProofs --------------------------
(***************************************************************************)
(* Execution implements RunLifecycle, and what follows for the checkpoints *)
(* and inputs of runs.  The refinement needs TypeInv of ExecutionProofs    *)
(* and one fact more, ResultOK: a goroutine that carries a result has one  *)
(* that its node can give.                                                 *)
(***************************************************************************)
EXTENDS ExecutionProofs

\* What a goroutine is about to write is a result of its node: completion for a
\* Response, a successor for any other node, an error for a node that may fail.
ResultFits(t) ==
    /\ t.pc \in {"persist", "commit"} =>
          \/ t.node \in Responses /\ t.next = None
          \/ t.node \in Nodes \ Responses /\ t.next \in Successors[t.node]
    /\ t.pc = "fail" => t.node \in FailNodes

ResultOK == \A w \in Workers, m \in MsgIds : ResultFits(task[w][m])

LifeInv == TypeInv /\ ResultOK

-----------------------------------------------------------------------------
(* How a step changes the goroutines *)

\* A step leaves a goroutine alone, ends it, starts it, or moves it along the
\* program of handleNodeJob.
TaskMove(t, u) ==
    \/ u = t
    \/ u.pc \in {"idle", "read", "ack"}
    \/ t.pc = "read" /\ u.pc = "execute"
    \/ /\ t.pc = "execute" /\ u.pc = "persist" /\ u.node = t.node
       /\ u.next \in IF t.node \in Responses THEN {None} ELSE Successors[t.node]
    \/ t.pc = "execute" /\ u.pc = "fail" /\ u.node = t.node /\ t.node \in FailNodes
    \/ t.pc = "persist" /\ u.pc = "commit" /\ u.node = t.node /\ u.next = t.next

\* Every step moves every goroutine so.
LEMMA TaskMoves ==
    ASSUME TypeInv, Next, NEW w \in Workers, NEW m \in MsgIds
    PROVE  TaskMove(task[w][m], task'[w][m])
  <1>0. task \in [Workers -> [MsgIds -> Tasks]]
    BY DEF TypeInv, TypeOK
  <1>1. ASSUME NEW v \in Workers, NEW n \in MsgIds, NEW u,
               task' = [task EXCEPT ![v][n] = u], TaskMove(task[v][n], u)
        PROVE  TaskMove(task[w][m], task'[w][m])
    <2>1. CASE v = w /\ n = m
      BY <1>0, <1>1, <2>1
    <2>2. CASE ~(v = w /\ n = m)
      <3>1. task'[w][m] = task[w][m]
        BY <1>0, <1>1, <2>2
      <3> QED
        BY <3>1 DEF TaskMove
    <2> QED
      BY <2>1, <2>2
  <1>2. ASSUME NEW v \in Workers, NEW n \in MsgIds, ReadRun(v, n)
        PROVE  TaskMove(task[w][m], task'[w][m])
    <2> DEFINE t == task[v][n]
    <2> DEFINE row == runs[t.run]
    <2> DEFINE u == IF IsActive(row)
                    THEN [t EXCEPT !.pc = "execute", !.node = row.node]
                    ELSE [t EXCEPT !.pc = "ack"]
    <2>1. task' = [task EXCEPT ![v][n] = u] /\ t.pc = "read"
      BY <1>2 DEF ReadRun, At
    <2>2. TaskMove(t, u)
      BY <1>0, <2>1 DEF Tasks, TaskMove
    <2> QED
      BY <1>1, <2>1, <2>2
  <1>3. ASSUME NEW v \in Workers, NEW n \in MsgIds, ExecuteNode(v, n)
        PROVE  TaskMove(task[w][m], task'[w][m])
    <2> DEFINE t == task[v][n]
    <2>1. PICK next \in IF t.node \in Responses THEN {None} ELSE Successors[t.node] :
              task' = [task EXCEPT ![v][n] =
                          [t EXCEPT !.pc = "persist", !.next = next]]
      BY <1>3 DEF ExecuteNode
    <2>2. TaskMove(t, [t EXCEPT !.pc = "persist", !.next = next])
      BY <1>0, <1>3, <2>1 DEF Tasks, TaskMove, ExecuteNode, At
    <2> QED
      BY <1>1, <2>1, <2>2
  <1>4. ASSUME NEW v \in Workers, NEW n \in MsgIds,
               ExecuteError(v, n) \/ PersistBegin(v, n) \/ PersistCommit(v, n)
        PROVE  TaskMove(task[w][m], task'[w][m])
    <2> DEFINE t == task[v][n]
    <2>1. PICK pc \in {"fail", "commit", "ack"} :
              /\ task' = [task EXCEPT ![v][n] = [t EXCEPT !.pc = pc]]
              /\ pc = "fail" => t.pc = "execute" /\ t.node \in FailNodes
              /\ pc = "commit" => t.pc = "persist"
      BY <1>4 DEF ExecuteError, PersistBegin, PersistCommit, At
    <2>2. TaskMove(t, [t EXCEPT !.pc = pc])
      BY <1>0, <2>1 DEF Tasks, TaskMove
    <2> QED
      BY <1>1, <2>1, <2>2
  <1>5. ASSUME NEW v \in Workers, NEW n \in MsgIds,
               RecordFailure(v, n) \/ Ack(v, n) \/ TaskError(v, n)
        PROVE  TaskMove(task[w][m], task'[w][m])
    <2>1. TaskMove(task[v][n], NoTask)
      BY DEF TaskMove, NoTask
    <2> QED
      BY <1>1, <1>5, <2>1 DEF RecordFailure, Ack, TaskError
  <1>6. ASSUME NEW v \in Workers, Receive(v)
        PROVE  TaskMove(task[w][m], task'[w][m])
    <2>1. PICK batch : task' = [task EXCEPT ![v] = [n \in MsgIds |->
               IF n \in batch
               THEN [NoTask EXCEPT !.pc = "read", !.run = queue[n].run,
                                   !.job = queue[n].node,
                                   !.receipt = queue[n].receives + 1]
               ELSE NoTask]]
      BY <1>6 DEF Receive
    <2>2. v = w => task'[w][m].pc \in {"read", "idle"}
      BY <1>0, <2>1 DEF NoTask
    <2>3. v # w => task'[w][m] = task[w][m]
      BY <1>0, <2>1
    <2> QED
      BY <2>2, <2>3 DEF TaskMove
  <1>7. ASSUME NEW v \in Workers, WorkerCrash(v)
        PROVE  TaskMove(task[w][m], task'[w][m])
    <2>1. task'[w][m] = task[w][m] \/ task'[w][m] = NoTask
      BY <1>0, <1>7 DEF WorkerCrash
    <2> QED
      BY <2>1 DEF TaskMove, NoTask
  <1>8. CASE UNCHANGED task
    BY <1>8 DEF TaskMove
  <1> QED
    BY <1>2, <1>3, <1>4, <1>5, <1>6, <1>7, <1>8
       DEF Next, RelayStep, TaskStep, Start, Pause, Resume, Stop, Retry,
           LockDue, SendJob, SkipJob, RelayCommit, RelayAbort, LeaseExpire,
           DeadLetter

\* No goroutine carries anything in the first state.
LEMMA LifeInit == Init => LifeInv
  <1>1. Init => ResultOK
    BY DEF Init, ResultOK, ResultFits, NoTask
  <1> QED
    BY <1>1, TypeInit DEF LifeInv

\* Results stay results of their node.
LEMMA LifeStep == LifeInv /\ [Next]_vars => LifeInv'
  <1> SUFFICES ASSUME LifeInv, [Next]_vars PROVE LifeInv'
    OBVIOUS
  <1>1. TypeInv'
    BY TypeStep DEF LifeInv
  <1>2. ResultOK'
    <2>1. CASE UNCHANGED vars
      BY <2>1 DEF vars, LifeInv, ResultOK
    <2>2. CASE Next
      <3> SUFFICES ASSUME NEW w \in Workers, NEW m \in MsgIds
                   PROVE  ResultFits(task'[w][m])
        BY DEF ResultOK
      <3>1. TaskMove(task[w][m], task'[w][m])
        BY <2>2, TaskMoves DEF LifeInv
      <3>2. ResultFits(task[w][m])
        BY DEF LifeInv, ResultOK
      <3>3. task[w][m].pc = "execute" => task[w][m].node \in Nodes
        BY DEF LifeInv, TypeInv, TaskOK, Executing
      <3> QED
        BY <3>1, <3>2, <3>3 DEF TaskMove, ResultFits
    <2> QED
      BY <2>1, <2>2
  <1> QED
    BY <1>1, <1>2 DEF LifeInv

-----------------------------------------------------------------------------
(* How a step changes what is worked on *)

Works(t, r, n) == t.run = r /\ t.pc \in Executing /\ t.node = n

\* Working as a function of the goroutines.
WorkedOn(tasks) ==
    [r \in Runs |-> {n \in Nodes :
        \E w \in Workers, m \in MsgIds : Works(tasks[w][m], r, n)}]

LEMMA WorkingIs == Working = WorkedOn(task) /\ Working' = WorkedOn(task')
  BY DEF Working, WorkingOn, WorkedOn, Works, Executing

\* A goroutine that goes on with its node, or that works on nothing before and
\* after, changes nothing.
LEMMA WorkGoesOn ==
    ASSUME task \in [Workers -> [MsgIds -> Tasks]],
           NEW w \in Workers, NEW m \in MsgIds, NEW u,
           task' = [task EXCEPT ![w][m] = u],
           \A r, n : Works(task[w][m], r, n) <=> Works(u, r, n)
    PROVE  Working' = Working
  <1>1. ASSUME NEW v \in Workers, NEW k \in MsgIds, NEW r, NEW n
        PROVE  Works(task'[v][k], r, n) <=> Works(task[v][k], r, n)
    OBVIOUS
  <1> QED
    BY <1>1, WorkingIs DEF WorkedOn

WorkAdded(r, n) == Working' = [Working EXCEPT ![r] = @ \cup {n}]

\* A goroutine that starts to work on a node adds it.
LEMMA WorkBegins ==
    ASSUME task \in [Workers -> [MsgIds -> Tasks]],
           NEW w \in Workers, NEW m \in MsgIds, NEW u,
           task' = [task EXCEPT ![w][m] = u],
           NEW r \in Runs, NEW n \in Nodes, Works(u, r, n),
           task[w][m].pc \notin Executing
    PROVE  WorkAdded(r, n)
  <1>1. \A s, k : /\ Works(u, s, k) <=> s = r /\ k = n
                  /\ ~Works(task[w][m], s, k)
    BY DEF Works
  <1>2. ASSUME NEW v \in Workers, NEW k \in MsgIds, ~(v = w /\ k = m)
        PROVE  task'[v][k] = task[v][k]
    BY <1>2
  <1>3. task'[w][m] = u
    OBVIOUS
  <1>4. ASSUME NEW s \in Runs
        PROVE  WorkedOn(task')[s] =
                   IF s = r THEN WorkedOn(task)[s] \cup {n} ELSE WorkedOn(task)[s]
    <2> SUFFICES ASSUME NEW k \in Nodes
                 PROVE  (\E v \in Workers, j \in MsgIds : Works(task'[v][j], s, k))
                            <=> \/ \E v \in Workers, j \in MsgIds :
                                       Works(task[v][j], s, k)
                                \/ s = r /\ k = n
      BY DEF WorkedOn
    <2> QED
      BY <1>1, <1>2, <1>3
  <1> QED
    BY <1>4, WorkingIs DEF WorkedOn, WorkAdded

\* A goroutine that ends its work removes its node, unless another is left.
LEMMA WorkEnds ==
    ASSUME task \in [Workers -> [MsgIds -> Tasks]],
           NEW w \in Workers, NEW m \in MsgIds, NEW u,
           task' = [task EXCEPT ![w][m] = u],
           NEW r \in Runs, NEW n \in Nodes, Works(task[w][m], r, n),
           u.pc \notin Executing
    PROVE  Working' \in {Working, [Working EXCEPT ![r] = @ \ {n}]}
  <1>1. \A s, k : /\ Works(task[w][m], s, k) <=> s = r /\ k = n
                  /\ ~Works(u, s, k)
    BY DEF Works
  <1>2. ASSUME NEW v \in Workers, NEW k \in MsgIds, ~(v = w /\ k = m)
        PROVE  task'[v][k] = task[v][k]
    BY <1>2
  <1>3. task'[w][m] = u
    OBVIOUS
  <1>4. ASSUME NEW s \in Runs, NEW k \in Nodes, ~(s = r /\ k = n)
        PROVE  (\E v \in Workers, j \in MsgIds : Works(task'[v][j], s, k))
                   <=> \E v \in Workers, j \in MsgIds : Works(task[v][j], s, k)
    BY <1>1, <1>2, <1>3, <1>4
  <1>5. n \in WorkedOn(task)[r]
    BY DEF WorkedOn
  <1>6. CASE n \in WorkedOn(task')[r]
    <2>1. \A s \in Runs : WorkedOn(task')[s] = WorkedOn(task)[s]
      BY <1>4, <1>5, <1>6 DEF WorkedOn
    <2> QED
      BY <2>1, WorkingIs DEF WorkedOn
  <1>7. CASE n \notin WorkedOn(task')[r]
    <2>1. ASSUME NEW s \in Runs
          PROVE  WorkedOn(task')[s] =
                     IF s = r THEN WorkedOn(task)[s] \ {n} ELSE WorkedOn(task)[s]
      BY <1>4, <1>7 DEF WorkedOn
    <2> QED
      BY <2>1, WorkingIs DEF WorkedOn
  <1> QED
    BY <1>6, <1>7

\* A step that only ends goroutines.
LEMMA WorkDropped ==
    ASSUME \A w \in Workers, m \in MsgIds :
               \/ task'[w][m] = task[w][m]
               \/ task'[w][m].pc \notin Executing
    PROVE  /\ Working' \in [Runs -> SUBSET Nodes]
           /\ \A r \in Runs : Working'[r] \subseteq Working[r]
  <1>1. \A w \in Workers, m \in MsgIds : \A r, n :
            Works(task'[w][m], r, n) => Works(task[w][m], r, n)
    BY DEF Works
  <1> QED
    BY <1>1, WorkingIs DEF WorkedOn

-----------------------------------------------------------------------------
(* The refinement *)

LEMMA LifecycleInit == Init => Lifecycle!Init
  <1> SUFFICES ASSUME Init PROVE Lifecycle!Init
    OBVIOUS
  <1>1. Working = [r \in Runs |-> {}]
    BY WorkingIs DEF Init, WorkedOn, Works, NoTask, Executing
  <1> QED
    BY <1>1 DEF Init, NoRow, Lifecycle!Init

\* A request is a request of the promise.
LEMMA RequestRefines ==
    ASSUME NEW r \in Runs,
           Start(r) \/ Pause(r) \/ Resume(r) \/ Stop(r) \/ Retry(r)
    PROVE  Lifecycle!Next
  <1>1. Working' = Working
    BY WorkingIs DEF Start, Pause, Resume, Stop, Retry
  <1>2. CASE Start(r)
    <2>1. Lifecycle!Start(r)
      BY <1>1, <1>2 DEF Start, IsRow, InsertedRow, FirstAttempt, Lifecycle!Start
    <2> QED
      BY <2>1 DEF Lifecycle!Next
  <1>3. CASE Pause(r)
    <2>1. Lifecycle!Pause(r)
      BY <1>1, <1>3 DEF Pause, CanPause, Paused, Lifecycle!Pause, Lifecycle!SetStatus
    <2> QED
      BY <2>1 DEF Lifecycle!Next
  <1>4. CASE Resume(r)
    <2>1. Lifecycle!Resume(r)
      BY <1>1, <1>4
         DEF Resume, CanResume, Resumed, Lifecycle!Resume, Lifecycle!SetStatus
    <2> QED
      BY <2>1 DEF Lifecycle!Next
  <1>5. CASE Stop(r)
    <2>1. Lifecycle!Stop(r)
      BY <1>1, <1>5 DEF Stop, CanStop, Stopped, Lifecycle!Stop, Lifecycle!SetStatus
    <2> QED
      BY <2>1 DEF Lifecycle!Next
  <1>6. CASE Retry(r)
    <2>1. Lifecycle!Retry(r)
      BY <1>1, <1>6 DEF Retry, CanRetry, Retried, FirstAttempt, Lifecycle!Retry
    <2> QED
      BY <2>1 DEF Lifecycle!Next
  <1> QED
    BY <1>2, <1>3, <1>4, <1>5, <1>6

\* A goroutine begins to work on the checkpoint of an active run, or on nothing.
LEMMA ReadRefines ==
    ASSUME TypeInv, NEW w \in Workers, NEW m \in MsgIds, ReadRun(w, m)
    PROVE  Lifecycle!Next \/ UNCHANGED Lifecycle!vars
  <1> DEFINE t == task[w][m]
  <1> DEFINE r == t.run
  <1> DEFINE row == runs[r]
  <1>1. /\ task \in [Workers -> [MsgIds -> Tasks]]
        /\ t \in Tasks /\ t.pc = "read" /\ r \in Runs /\ row \in RowsOver(Nodes)
        /\ row.node \in Nodes
    BY BusyTask DEF ReadRun, At, TypeInv, TypeOK, TaskFits, RowsOver
  <1>2. UNCHANGED runs
    BY DEF ReadRun
  <1>3. CASE IsActive(row)
    <2>1. PICK u : task' = [task EXCEPT ![w][m] = u] /\ Works(u, r, row.node)
      <3>1. Works([t EXCEPT !.pc = "execute", !.node = row.node], r, row.node)
        BY <1>1 DEF Works, Executing, Tasks
      <3> QED
        BY <1>3, <3>1 DEF ReadRun
    <2>2. t.pc \notin Executing
      BY <1>1 DEF Executing
    <2>3. WorkAdded(r, row.node)
      BY <1>1, <2>1, <2>2, WorkBegins
    <2>4. Lifecycle!Begin(r)
      BY <1>1, <1>2, <1>3, <2>3 DEF WorkAdded, IsActive, ActiveStatuses, Lifecycle!Begin
    <2> QED
      BY <1>1, <2>4 DEF Lifecycle!Next
  <1>4. CASE ~IsActive(row)
    <2> DEFINE u == [t EXCEPT !.pc = "ack"]
    <2>1. task' = [task EXCEPT ![w][m] = u]
      BY <1>4 DEF ReadRun
    <2>2. u.pc = "ack"
      BY <1>1 DEF Tasks
    <2> HIDE DEF u
    <2>3. \A s, k : Works(t, s, k) <=> Works(u, s, k)
      BY <1>1, <2>2 DEF Works, Executing
    <2>4. Working' = Working
      BY <1>1, <2>1, <2>3, WorkGoesOn
    <2> QED
      BY <1>2, <2>4 DEF Lifecycle!vars
  <1> QED
    BY <1>3, <1>4

\* The result of a node: what a goroutine writes is a result of the promise.
LEMMA ResultRefines ==
    ASSUME LifeInv, NEW w \in Workers, NEW m \in MsgIds,
           RecordFailure(w, m) \/ PersistCommit(w, m)
    PROVE  Lifecycle!Next
  <1> DEFINE t == task[w][m]
  <1> DEFINE r == t.run
  <1> DEFINE n == t.node
  <1>1. /\ task \in [Workers -> [MsgIds -> Tasks]]
        /\ t \in Tasks /\ t.pc \in {"fail", "commit"}
        /\ r \in Runs /\ n \in Nodes /\ runs[r] \in RowsOver(Nodes)
        /\ runs \in [Runs -> RowsOver(Nodes) \cup {NoRow}]
        /\ ResultFits(t)
    BY BusyTask DEF RecordFailure, PersistCommit, At, LifeInv, TypeInv, TypeOK,
                    TaskFits, Executing, ResultOK
  <1>2. Works(t, r, n)
    BY <1>1 DEF Works, Executing
  <1>3. n \in Working[r]
    BY <1>1, <1>2, WorkingIs DEF WorkedOn
  <1>4. PICK u : task' = [task EXCEPT ![w][m] = u] /\ u.pc \in {"idle", "ack"}
    <2>1. NoTask.pc = "idle" /\ [t EXCEPT !.pc = "ack"].pc = "ack"
      BY <1>1 DEF NoTask, Tasks
    <2> QED
      BY <2>1 DEF RecordFailure, PersistCommit
  <1>5. u.pc \notin Executing
    BY <1>4 DEF Executing
  <1>6. Working' \in {Working, [Working EXCEPT ![r] = @ \ {n}]}
    BY <1>1, <1>2, <1>4, <1>5, WorkEnds
  <1>7. Lifecycle!Ends(r, n)
    BY <1>6 DEF Lifecycle!Ends
  <1>8. CASE RecordFailure(w, m)
    <2>1. n \in FailNodes
      BY <1>1, <1>8 DEF RecordFailure, At, ResultFits
    <2>2. runs' = [runs EXCEPT ![r].status = "failed", ![r].attempt = @ + 1]
      BY <1>1, <1>8 DEF RecordFailure, Failed
    <2>3. Lifecycle!Fail(r, n)
      BY <1>3, <1>7, <2>1, <2>2 DEF Lifecycle!Fail
    <2> QED
      BY <1>1, <2>3 DEF Lifecycle!Next
  <1>9. CASE PersistCommit(w, m) /\ t.next = None
    <2>1. n \in Responses
      BY <1>1, <1>9, NoneAssumption, GraphAssumption
         DEF PersistCommit, At, ResultFits
    <2>2. runs' = [runs EXCEPT ![r].status = "completed", ![r].output = n]
      BY <1>1, <1>9 DEF PersistCommit, Completed
    <2>3. Lifecycle!Complete(r, n)
      BY <1>3, <1>7, <2>1, <2>2 DEF Lifecycle!Complete
    <2> QED
      BY <1>1, <2>3 DEF Lifecycle!Next
  <1>10. CASE PersistCommit(w, m) /\ t.next # None
    <2>1. n \notin Responses /\ t.next \in Successors[n]
      BY <1>1, <1>10 DEF PersistCommit, At, ResultFits
    <2>2. runs' = [runs EXCEPT ![r].status = "running", ![r].node = t.next,
                               ![r].attempt = 1, ![r].output = n]
      BY <1>1, <1>10 DEF PersistCommit, Advanced, FirstAttempt
    <2>3. Lifecycle!Advance(r, n)
      BY <1>3, <1>7, <2>1, <2>2 DEF Lifecycle!Advance
    <2> QED
      BY <1>1, <2>3 DEF Lifecycle!Next
  <1> QED
    BY <1>8, <1>9, <1>10

\* The steps of a goroutine between reading the run and writing it, and those
\* that only end or hide deliveries, are no steps of the promise.
LEMMA QuietTaskRefines ==
    ASSUME TypeInv, NEW w \in Workers, NEW m \in MsgIds,
           \/ ExecuteNode(w, m) \/ ExecuteError(w, m) \/ PersistBegin(w, m)
           \/ Ack(w, m)
    PROVE  UNCHANGED Lifecycle!vars
  <1> DEFINE t == task[w][m]
  <1>1. task \in [Workers -> [MsgIds -> Tasks]] /\ t \in Tasks
    BY DEF TypeInv, TypeOK
  <1>2. UNCHANGED runs
    BY DEF ExecuteNode, ExecuteError, PersistBegin, Ack
  <1>3. CASE Ack(w, m)
    <2>1. task' = [task EXCEPT ![w][m] = NoTask] /\ t.pc = "ack"
      BY <1>3 DEF Ack, At
    <2>2. \A s, k : Works(t, s, k) <=> Works(NoTask, s, k)
      BY <2>1 DEF Works, Executing, NoTask
    <2>3. Working' = Working
      BY <1>1, <2>1, <2>2, WorkGoesOn
    <2> QED
      BY <1>2, <2>3 DEF Lifecycle!vars
  <1>4. CASE ExecuteNode(w, m) \/ ExecuteError(w, m) \/ PersistBegin(w, m)
    <2>1. t.pc \in Executing
      BY <1>4 DEF ExecuteNode, ExecuteError, PersistBegin, At, Executing
    <2>2. PICK u : /\ task' = [task EXCEPT ![w][m] = u]
                   /\ u.run = t.run /\ u.node = t.node /\ u.pc \in Executing
      <3>1. CASE ExecuteNode(w, m)
        <4>1. PICK next : task' = [task EXCEPT ![w][m] =
                              [t EXCEPT !.pc = "persist", !.next = next]]
          BY <3>1 DEF ExecuteNode
        <4> DEFINE u == [t EXCEPT !.pc = "persist", !.next = next]
        <4>2. u.run = t.run /\ u.node = t.node /\ u.pc \in Executing
          BY <1>1 DEF Tasks, Executing
        <4> QED
          BY <4>1, <4>2
      <3>2. CASE ExecuteError(w, m) \/ PersistBegin(w, m)
        <4>1. PICK pc \in {"fail", "commit"} :
                  task' = [task EXCEPT ![w][m] = [t EXCEPT !.pc = pc]]
          BY <3>2 DEF ExecuteError, PersistBegin
        <4> DEFINE u == [t EXCEPT !.pc = pc]
        <4>2. u.run = t.run /\ u.node = t.node /\ u.pc \in Executing
          BY <1>1 DEF Tasks, Executing
        <4> QED
          BY <4>1, <4>2
      <3> QED
        BY <1>4, <3>1, <3>2
    <2>3. \A s, k : Works(t, s, k) <=> Works(u, s, k)
      BY <2>1, <2>2 DEF Works
    <2>4. Working' = Working
      BY <1>1, <2>2, <2>3, WorkGoesOn
    <2> QED
      BY <1>2, <2>4 DEF Lifecycle!vars
  <1> QED
    BY <1>3, <1>4

\* Errors and crashes lose work, and nothing else that the promise speaks of.
LEMMA LossRefines ==
    ASSUME TypeInv, NEW w \in Workers,
           \/ WorkerCrash(w) \/ Receive(w)
           \/ \E m \in MsgIds : TaskError(w, m)
    PROVE  Lifecycle!Next
  <1>1. task \in [Workers -> [MsgIds -> Tasks]]
    BY DEF TypeInv, TypeOK
  <1>2. UNCHANGED runs
    BY DEF WorkerCrash, Receive, TaskError
  <1>3. ASSUME NEW v \in Workers, NEW m \in MsgIds
        PROVE  \/ task'[v][m] = task[v][m]
               \/ task'[v][m].pc \notin Executing
    <2>1. NoTask.pc \notin Executing
      BY DEF NoTask, Executing
    <2>2. CASE Receive(w)
      <3>1. PICK batch : task' = [task EXCEPT ![w] = [n \in MsgIds |->
                 IF n \in batch
                 THEN [NoTask EXCEPT !.pc = "read", !.run = queue[n].run,
                                     !.job = queue[n].node,
                                     !.receipt = queue[n].receives + 1]
                 ELSE NoTask]]
        BY <2>2 DEF Receive
      <3>2. v = w => task'[v][m].pc \in {"read", "idle"}
        BY <1>1, <3>1 DEF NoTask
      <3>3. v # w => task'[v][m] = task[v][m]
        BY <1>1, <3>1
      <3> QED
        BY <3>2, <3>3 DEF Executing
    <2>3. CASE WorkerCrash(w) \/ \E n \in MsgIds : TaskError(w, n)
      <3>1. task'[v][m] = task[v][m] \/ task'[v][m] = NoTask
        BY <1>1, <2>3 DEF WorkerCrash, TaskError
      <3> QED
        BY <2>1, <3>1
    <2> QED
      BY <2>2, <2>3
  <1>4. /\ Working' \in [Runs -> SUBSET Nodes]
        /\ \A r \in Runs : Working'[r] \subseteq Working[r]
    BY <1>3, WorkDropped
  <1>5. Lifecycle!Abandon
    BY <1>2, <1>4 DEF Lifecycle!Abandon
  <1> QED
    BY <1>5 DEF Lifecycle!Next

\* Every step is a step of the promise, or none.
LEMMA LifecycleStep ==
    LifeInv /\ [Next]_vars => [Lifecycle!Next]_(Lifecycle!vars)
  <1> SUFFICES ASSUME LifeInv, [Next]_vars
               PROVE  Lifecycle!Next \/ UNCHANGED Lifecycle!vars
    OBVIOUS
  <1>1. CASE UNCHANGED <<runs, task>>
    BY <1>1, WorkingIs DEF Lifecycle!vars
  <1>2. UNCHANGED vars => UNCHANGED <<runs, task>>
    BY DEF vars
  <1>3. ASSUME NEW x \in Relays, RelayStep(x) \/ RelayAbort(x)
        PROVE  UNCHANGED <<runs, task>>
    BY <1>3 DEF RelayStep, RelayAbort, LockDue, SendJob, SkipJob, RelayCommit
  <1>4. ASSUME NEW m \in MsgIds, LeaseExpire(m) \/ DeadLetter(m)
        PROVE  UNCHANGED <<runs, task>>
    BY <1>4 DEF LeaseExpire, DeadLetter
  <1>5. ASSUME NEW w \in Workers, NEW m \in MsgIds, TaskStep(w, m)
        PROVE  Lifecycle!Next \/ UNCHANGED Lifecycle!vars
    BY <1>5, ReadRefines, ResultRefines, QuietTaskRefines DEF TaskStep, LifeInv
  <1> QED
    BY <1>1, <1>2, <1>3, <1>4, <1>5, RequestRefines, LossRefines DEF Next, LifeInv

\* The composition of endpoints, relays, queue and workers implements the life
\* of runs that clients are promised, whatever is repeated, lost or late.
THEOREM LifecycleImplemented == Spec => RunsAsPromised
  <1>1. Init => LifeInv
    BY LifeInit
  <1>2. LifeInv /\ [Next]_vars => LifeInv'
    BY LifeStep
  <1>3. Init => Lifecycle!Init
    BY LifecycleInit
  <1>4. LifeInv /\ [Next]_vars => [Lifecycle!Next]_(Lifecycle!vars)
    BY LifecycleStep
  <1> QED
    BY <1>1, <1>2, <1>3, <1>4, PTL DEF Spec, RunsAsPromised, Lifecycle!Spec

-----------------------------------------------------------------------------
(* Checkpoints and inputs *)

\* How a step changes one row: by a statement of workflow_runs.sql, and the
\* checkpoint only to a successor of the node whose output it records, or to the
\* output of a Response.
RowMove(row, new) ==
    \/ new = row
    \/ ~IsRow(row) /\ new = InsertedRow(StartNode)
    \/ /\ IsRow(row)
       /\ \/ CanPause(row) /\ new = Paused(row)
          \/ CanResume(row) /\ new = Resumed(row)
          \/ new = Stopped(row)
          \/ "retry" \in Controls /\ CanRetry(row) /\ new = Retried(row)
          \/ new = Failed(row)
          \/ \E n \in Responses : new = Completed(row, n)
          \/ \E n \in Nodes : \E next \in Successors[n] :
                 new = Advanced(row, next, n)

LEMMA RowMoves ==
    ASSUME LifeInv, Next, NEW r \in Runs
    PROVE  RowMove(runs[r], runs'[r])
  <1>0. /\ runs \in [Runs -> RowsOver(Nodes) \cup {NoRow}]
        /\ task \in [Workers -> [MsgIds -> Tasks]]
    BY DEF LifeInv, TypeInv, TypeOK
  <1>1. ASSUME NEW s \in Runs,
               Start(s) \/ Pause(s) \/ Resume(s) \/ Stop(s) \/ Retry(s)
        PROVE  RowMove(runs[r], runs'[r])
    <2>1. CASE s # r
      BY <1>0, <1>1, <2>1 DEF RowMove, Start, Pause, Resume, Stop, Retry
    <2>2. CASE s = r
      BY <1>0, <1>1, <2>2
         DEF RowMove, Writable, Start, Pause, Resume, Stop, Retry
    <2> QED
      BY <2>1, <2>2
  <1>2. ASSUME NEW w \in Workers, NEW m \in MsgIds,
               RecordFailure(w, m) \/ PersistCommit(w, m)
        PROVE  RowMove(runs[r], runs'[r])
    <2> DEFINE t == task[w][m]
    <2>1. /\ t.pc \in {"fail", "commit"} /\ t.run \in Runs /\ t.node \in Nodes
          /\ IsRow(runs[t.run]) /\ ResultFits(t)
          /\ RecordFailure(w, m) => t.pc = "fail"
          /\ PersistCommit(w, m) => t.pc = "commit"
      BY <1>2 DEF RecordFailure, PersistCommit, At, LifeInv, TypeInv, TaskOK,
                  Executing, ResultOK
    <2>2. CASE t.run # r
      BY <1>0, <1>2, <2>1, <2>2 DEF RowMove, RecordFailure, PersistCommit
    <2>3. CASE t.run = r /\ RecordFailure(w, m)
      BY <1>0, <2>1, <2>3 DEF RowMove, RecordFailure
    <2>4. CASE t.run = r /\ PersistCommit(w, m) /\ t.next = None
      <3>1. t.node \in Responses
        BY <2>1, <2>4, NoneAssumption, GraphAssumption DEF ResultFits
      <3>2. runs'[r] = Completed(runs[r], t.node)
        BY <1>0, <2>4 DEF PersistCommit
      <3> QED
        BY <2>1, <2>4, <3>1, <3>2 DEF RowMove
    <2>5. CASE t.run = r /\ PersistCommit(w, m) /\ t.next # None
      <3>1. t.next \in Successors[t.node]
        BY <2>1, <2>5 DEF ResultFits
      <3>2. runs'[r] = Advanced(runs[r], t.next, t.node)
        BY <1>0, <2>5 DEF PersistCommit
      <3> QED
        BY <2>1, <2>5, <3>1, <3>2 DEF RowMove
    <2> QED
      BY <1>2, <2>2, <2>3, <2>4, <2>5
  <1>3. CASE UNCHANGED runs
    BY <1>3 DEF RowMove
  <1> QED
    BY <1>1, <1>2, <1>3
       DEF Next, RelayStep, TaskStep, LockDue, SendJob, SkipJob, RelayCommit,
           RelayAbort, Receive, WorkerCrash, ReadRun, ExecuteNode, ExecuteError,
           PersistBegin, Ack, TaskError, LeaseExpire, DeadLetter

\* Statuses in which a run can still be worked on, or resumed to be.
Live(row) == IsRow(row) /\ row.status \in {"pending", "running", "paused"}

CoherentRow(row) == Live(row) => Feeds(row.output, row.node)

TraceableRow(row) ==
    IsRow(row) => Feeds(row.output, row.node) \/ row.output \in Responses

\* The fields that the statements leave in a row.
LEMMA StatementFields ==
    ASSUME NEW row \in RowsOver(Nodes), NEW n, NEW next
    PROVE  /\ Stopped(row).status = "cancelled"
           /\ Failed(row).status = "failed"
           /\ Completed(row, n).status = "completed"
           /\ Paused(row).node = row.node /\ Paused(row).output = row.output
           /\ Resumed(row).node = row.node /\ Resumed(row).output = row.output
           /\ Stopped(row).node = row.node /\ Stopped(row).output = row.output
           /\ Failed(row).node = row.node /\ Failed(row).output = row.output
           /\ Retried(row).node = row.node /\ Retried(row).output = row.output
           /\ Completed(row, n).output = n
           /\ Advanced(row, next, n).node = next
           /\ Advanced(row, next, n).output = n
  <1>1. /\ Failed(row).status = "failed"
        /\ Failed(row).node = row.node /\ Failed(row).output = row.output
    BY DEF RowsOver, Failed
  <1> QED
    BY <1>1 DEF RowsOver, Stopped, Completed, Paused, Resumed, Retried, Advanced

\* No statement but Retry's leaves a live row with an output that is not the
\* input of its checkpoint.
LEMMA CoherenceKept ==
    ASSUME NEW row \in RowsOver(Nodes) \cup {NoRow}, NEW new,
           CoherentRow(row), RowMove(row, new), "retry" \notin Controls
    PROVE  CoherentRow(new)
  <1>1. IsRow(row) => row \in RowsOver(Nodes)
    BY RowIsRow
  <1>2. CanPause(row) \/ CanResume(row) => Live(row) \/ ~IsRow(row)
    BY DEF CanPause, CanResume, Live
  <1>3. CASE new = InsertedRow(StartNode)
    BY <1>3 DEF CoherentRow, InsertedRow, Feeds
  <1>4. CASE IsRow(row)
    <2>1. \A n \in Nodes : \A next \in Successors[n] : Feeds(n, next)
      BY DEF Feeds
    <2> QED
      BY <1>1, <1>2, <1>4, <2>1, StatementFields DEF RowMove, CoherentRow, Live
  <1> QED
    BY <1>3, <1>4 DEF RowMove

\* No statement, Retry's included, leaves a row with an output of which neither
\* is true.
LEMMA TraceKept ==
    ASSUME NEW row \in RowsOver(Nodes) \cup {NoRow}, NEW new,
           TraceableRow(row), RowMove(row, new)
    PROVE  TraceableRow(new)
  <1>1. IsRow(row) => row \in RowsOver(Nodes)
    BY RowIsRow
  <1>2. CASE new = InsertedRow(StartNode)
    BY <1>2 DEF TraceableRow, InsertedRow, Feeds
  <1>3. CASE IsRow(row)
    <2>1. \A n \in Nodes : \A next \in Successors[n] : Feeds(n, next)
      BY DEF Feeds
    <2> QED
      BY <1>1, <1>3, <2>1, StatementFields DEF RowMove, TraceableRow
  <1>4. CASE new = row
    BY <1>4
  <1> QED
    BY <1>2, <1>3, <1>4 DEF RowMove

\* Without Retry, late workers and duplicates never leave a run with an output
\* that is not the input of its checkpoint.
THEOREM CheckpointsCohere ==
    ASSUME "retry" \notin Controls
    PROVE  Spec => []CheckpointCoherent
  <1>1. Init => LifeInv /\ CheckpointCoherent
    BY LifeInit DEF Init, CheckpointCoherent, IsRow, NoRow
  <1>2. LifeInv /\ CheckpointCoherent /\ [Next]_vars
            => LifeInv' /\ CheckpointCoherent'
    <2> SUFFICES ASSUME LifeInv, CheckpointCoherent, [Next]_vars
                 PROVE  CheckpointCoherent'
      BY LifeStep
    <2> SUFFICES ASSUME NEW r \in Runs PROVE CoherentRow(runs'[r])
      BY DEF CheckpointCoherent, CoherentRow, Live
    <2>1. RowMove(runs[r], runs'[r])
      BY RowMoves DEF vars, RowMove
    <2>2. CoherentRow(runs[r]) /\ runs[r] \in RowsOver(Nodes) \cup {NoRow}
      BY DEF CheckpointCoherent, CoherentRow, Live, LifeInv, TypeInv, TypeOK
    <2> QED
      BY <2>1, <2>2, CoherenceKept
  <1> QED
    BY <1>1, <1>2, PTL DEF Spec

\* With Retry too, and whatever is lost, repeated or late, a run's last_output is
\* the output of a predecessor of its checkpoint or of a Response.
THEOREM InputsTraceable == Spec => []InputTraceable
  <1>1. Init => LifeInv /\ InputTraceable
    BY LifeInit DEF Init, InputTraceable, IsRow, NoRow
  <1>2. LifeInv /\ InputTraceable /\ [Next]_vars => LifeInv' /\ InputTraceable'
    <2> SUFFICES ASSUME LifeInv, InputTraceable, [Next]_vars
                 PROVE  InputTraceable'
      BY LifeStep
    <2> SUFFICES ASSUME NEW r \in Runs PROVE TraceableRow(runs'[r])
      BY DEF InputTraceable, TraceableRow
    <2>1. RowMove(runs[r], runs'[r])
      BY RowMoves DEF vars, RowMove
    <2>2. TraceableRow(runs[r]) /\ runs[r] \in RowsOver(Nodes) \cup {NoRow}
      BY DEF InputTraceable, TraceableRow, LifeInv, TypeInv, TypeOK
    <2> QED
      BY <2>1, <2>2, TraceKept
  <1> QED
    BY <1>1, <1>2, PTL DEF Spec
=============================================================================
