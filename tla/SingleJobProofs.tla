-------------------------- MODULE SingleJobProofs --------------------------
(***************************************************************************)
(* As long as nothing fails, no lease expires early and nobody resumes or  *)
(* retries, each active run of Execution has exactly one job, and its      *)
(* checkpoint moves along the edges.                                       *)
(*                                                                         *)
(* The invariant says where the one job is.  A run has at most one place   *)
(* at a time - a row that no relay has handled, or a message that nobody   *)
(* is about to delete - and an active run has one (OneJob).  A goroutine   *)
(* has its message to itself for as long as it runs, and works on the      *)
(* checkpoint (Exclusive).  Both are operators over the values of the      *)
(* variables, so that a step is an application to the next values.         *)
(***************************************************************************)
EXTENDS LifecycleProofs, FiniteSetTheorems

Undisturbed ==
    /\ MaxFaults = 0
    /\ TimelyLease
    /\ "resume" \notin Controls /\ "retry" \notin Controls

\* The rows of a run that no relay has handled, and its messages that no
\* goroutine is about to delete.
RowsLeft(rows, txs, r) ==
    {o \in RowIds : rows[o].run = r /\ \A x \in Relays : o \notin txs[x].done}

MessagesLeft(messages, tasks, r) ==
    {m \in MsgIds : /\ messages[m].run = r
                    /\ \A w \in Workers : tasks[w][m].pc # "ack"}

\* The messages that some goroutine handles.
InWork(tasks) == {m \in MsgIds : \E w \in Workers : tasks[w][m].pc # "idle"}

\* The jobs of one run are at most one, exactly one if the run is active; it
\* names the checkpoint; and a message of an active run that has been received
\* is in work.
OneJob(row, left, pending, rows, messages, inWork) ==
    /\ \A o, p \in left : o = p
    /\ \A m, n \in pending : m = n
    /\ left = {} \/ pending = {}
    /\ IsActive(row) => left # {} \/ pending # {}
    /\ \A o \in left : rows[o].node = row.node
    /\ \A m \in pending : messages[m].node = row.node
    /\ IsActive(row) =>
          \A m \in pending : messages[m].receives = 0 \/ m \in inWork

JobsOf(r) ==
    OneJob(runs[r], RowsLeft(outbox, relay, r), MessagesLeft(queue, task, r),
           outbox, queue, InWork(task))

\* A goroutine is the only one on its message, holds its lease by the receipt
\* of the last delivery, and executes the checkpoint.
Exclusive(rows, messages, tasks, w, m) ==
    LET t == tasks[w][m] IN
    t.pc # "idle" =>
        /\ messages[m].run = t.run
        /\ messages[m].leased /\ messages[m].receives = t.receipt
        /\ t.pc \in Executing => t.node = rows[t.run].node
        /\ \A v \in Workers : tasks[v][m].pc # "idle" => v = w

ExclusiveInv ==
    \A w \in Workers, m \in MsgIds : Exclusive(runs, queue, task, w, m)

JobsInv == \A r \in Runs : JobsOf(r)

SoleInv == ExclusiveInv /\ JobsInv

-----------------------------------------------------------------------------
(* The jobs of one run *)

\* A step that loses no job of an active run, makes no run active, and leaves
\* what is left as it is.
LEMMA OneJobKept ==
    ASSUME NEW row, NEW left, NEW pending, NEW rows, NEW messages, NEW inWork,
           OneJob(row, left, pending, rows, messages, inWork),
           NEW row2, NEW left2, NEW pending2, NEW rows2, NEW messages2,
           NEW inWork2,
           row2.node = row.node,
           left2 \subseteq left, pending2 \subseteq pending,
           IsActive(row2) => IsActive(row) /\ left2 = left /\ pending2 = pending,
           \A o \in left2 : rows2[o].node = rows[o].node,
           \A m \in pending2 : messages2[m].node = messages[m].node,
           IsActive(row2) =>
               \A m \in pending2 : \/ messages2[m].receives = 0
                                   \/ m \in inWork2
    PROVE  OneJob(row2, left2, pending2, rows2, messages2, inWork2)
  BY DEF OneJob

\* A run whose only job is a new row.
LEMMA OneJobWritten ==
    ASSUME NEW row, NEW o, NEW rows, NEW messages, NEW inWork,
           rows[o].node = row.node
    PROVE  OneJob(row, {o}, {}, rows, messages, inWork)
  BY DEF OneJob

\* A run whose only job is a new message.
LEMMA OneJobSent ==
    ASSUME NEW row, NEW m, NEW rows, NEW messages, NEW inWork,
           messages[m].node = row.node, messages[m].receives = 0
    PROVE  OneJob(row, {}, {m}, rows, messages, inWork)
  BY DEF OneJob

\* Nothing refers to a run that has no row.
LEMMA NoRowNoJob ==
    ASSUME TypeInv, NEW r \in Runs, ~IsRow(runs[r])
    PROVE  /\ RowsLeft(outbox, relay, r) = {}
           /\ MessagesLeft(queue, task, r) = {}
           /\ \A w \in Workers, m \in MsgIds :
                  task[w][m].pc # "idle" => task[w][m].run # r
  <1>1. \A o \in RowIds : outbox[o].run # r
    BY NoneAssumption DEF TypeInv, RefersToRuns, NoJob
  <1>2. \A m \in MsgIds : queue[m].run # r
    BY NoneAssumption DEF TypeInv, RefersToRuns
  <1> QED
    BY <1>1, <1>2 DEF RowsLeft, MessagesLeft, TypeInv, TaskOK

\* A new row is the row of its run, and no relay has it.
LEMMA RowsLeftAdded ==
    ASSUME TypeInv, LockInv, NEW o \in FreeRows, NEW s \in Runs, NEW n \in Nodes,
           outbox' = Enqueued(o, s, n), relay' = relay, NEW r \in Runs
    PROVE  /\ RowsLeft(outbox', relay', r) =
                  RowsLeft(outbox, relay, r) \cup (IF r = s THEN {o} ELSE {})
           /\ \A p \in RowsLeft(outbox, relay, r) : outbox'[p] = outbox[p]
           /\ outbox'[o].node = n
  <1>1. o \in RowIds /\ outbox[o] = NoJob
    BY DEF FreeRows, Rows
  <1>2. outbox[o].run # r
    BY <1>1, NoneAssumption DEF NoJob
  <1>3. \A x \in Relays : o \notin relay[x].done
    BY <1>1 DEF LockInv, RelayOK
  <1>4. /\ outbox'[o].run = s /\ outbox'[o].node = n
        /\ \A p \in RowIds : p # o => outbox'[p] = outbox[p]
    BY <1>1 DEF Enqueued, TypeInv, TypeOK
  <1> QED
    BY <1>1, <1>2, <1>3, <1>4 DEF RowsLeft

\* A goroutine that is not about to delete its message has a pending one.
LEMMA MessageOfTask ==
    ASSUME TypeInv, ExclusiveInv, NEW w \in Workers, NEW m \in MsgIds,
           task[w][m].pc \notin {"idle", "ack"}
    PROVE  m \in MessagesLeft(queue, task, task[w][m].run)
  BY DEF ExclusiveInv, Exclusive, MessagesLeft

-----------------------------------------------------------------------------
(* The goroutines *)

\* A step that writes one goroutine, which keeps its message and its run, and
\* leaves the queue alone.
LEMMA ExclusiveMove ==
    ASSUME TypeInv, ExclusiveInv, NEW w \in Workers, NEW m \in MsgIds, NEW u,
           task' = [task EXCEPT ![w][m] = u], queue' = queue,
           \/ u.pc = "idle"
           \/ /\ task[w][m].pc # "idle"
              /\ u.run = task[w][m].run /\ u.receipt = task[w][m].receipt
              /\ u.pc \in Executing => u.node = runs'[u.run].node,
           \A v \in Workers, n \in MsgIds :
               ~(v = w /\ n = m) /\ task[v][n].pc \in Executing
                   => runs'[task[v][n].run].node = runs[task[v][n].run].node
    PROVE  ExclusiveInv'
  <1> SUFFICES ASSUME NEW v \in Workers, NEW n \in MsgIds
               PROVE  Exclusive(runs', queue', task', v, n)
    BY DEF ExclusiveInv
  <1>1. task \in [Workers -> [MsgIds -> Tasks]]
    BY DEF TypeInv, TypeOK
  <1>2. task'[w][m] = u
    BY <1>1
  <1>3. \A k \in Workers, j \in MsgIds :
            ~(k = w /\ j = m) => task'[k][j] = task[k][j]
    BY <1>1
  <1>4. \A k \in Workers, j \in MsgIds :
            task'[k][j].pc # "idle" => task[k][j].pc # "idle"
    BY <1>2, <1>3
  <1>5. Exclusive(runs, queue, task, v, n)
    BY DEF ExclusiveInv
  <1>6. CASE v = w /\ n = m
    BY <1>2, <1>4, <1>5, <1>6 DEF Exclusive
  <1>7. CASE ~(v = w /\ n = m)
    <2>1. task'[v][n] = task[v][n]
      BY <1>3, <1>7
    <2> QED
      BY <1>4, <1>5, <1>7, <2>1 DEF Exclusive
  <1> QED
    BY <1>6, <1>7

\* A step that leaves the goroutines and the checkpoints of their runs alone.
LEMMA ExclusiveKept ==
    ASSUME TypeInv, ExclusiveInv, task' = task,
           \A r \in Runs : IsRow(runs[r]) => runs'[r].node = runs[r].node,
           \A m \in MsgIds :
               \/ queue'[m] = queue[m]
               \/ \A w \in Workers : task[w][m].pc = "idle"
    PROVE  ExclusiveInv'
  BY DEF ExclusiveInv, Exclusive, TypeInv, TaskOK

-----------------------------------------------------------------------------
(* The steps: requests and relays *)

\* What is left of the jobs of r after the step.
JobsNext(r) ==
    OneJob(runs'[r], RowsLeft(outbox', relay', r),
           MessagesLeft(queue', task', r), outbox', queue', InWork(task'))

\* It is enough to look at what happens to each run.
LEMMA JobsByRun == (\A r \in Runs : JobsNext(r)) => JobsInv'
  BY DEF JobsInv, JobsOf, JobsNext

\* A run with the row it had, none of whose rows and messages are disturbed.
LEMMA JobsUntouched ==
    ASSUME JobsInv, NEW r \in Runs, runs'[r] = runs[r],
           RowsLeft(outbox', relay', r) = RowsLeft(outbox, relay, r),
           MessagesLeft(queue', task', r) = MessagesLeft(queue, task, r),
           \A o \in RowsLeft(outbox, relay, r) : outbox'[o].node = outbox[o].node,
           \A m \in MessagesLeft(queue, task, r) :
               /\ queue'[m].node = queue[m].node
               /\ \/ queue'[m].receives = queue[m].receives
                     /\ (m \in InWork(task) => m \in InWork(task'))
                  \/ m \in InWork(task')
    PROVE  JobsNext(r)
  <1>1. OneJob(runs[r], RowsLeft(outbox, relay, r), MessagesLeft(queue, task, r),
               outbox, queue, InWork(task))
    BY DEF JobsInv, JobsOf
  <1> QED
    BY <1>1 DEF OneJob, JobsNext

\* Start writes the first job of the run; Pause and Stop end its activity.
LEMMA SoleRequest ==
    ASSUME TypeInv, LockInv, Undisturbed, SoleInv, NEW r \in Runs,
           Start(r) \/ Pause(r) \/ Resume(r) \/ Stop(r) \/ Retry(r)
    PROVE  SoleInv'
  <1>0. /\ runs \in [Runs -> RowsOver(Nodes) \cup {NoRow}]
        /\ UNCHANGED <<queue, relay, task>>
        /\ ExclusiveInv /\ JobsInv
    BY DEF TypeInv, TypeOK, SoleInv, Start, Pause, Resume, Stop, Retry
  <1>1. CASE Start(r)
    <2>1. PICK o \in FreeRows : outbox' = Enqueued(o, r, StartNode)
      BY <1>1 DEF Start
    <2>2. /\ ~IsRow(runs[r])
          /\ runs' = [runs EXCEPT ![r] = InsertedRow(StartNode)]
      BY <1>1 DEF Start
    <2>3. /\ \A s \in Runs : s # r => runs'[s] = runs[s]
          /\ runs'[r] = InsertedRow(StartNode)
      BY <1>0, <2>2
    <2>4. ExclusiveInv'
      <3>1. \A s \in Runs : IsRow(runs[s]) => runs'[s].node = runs[s].node
        BY <2>2, <2>3
      <3> QED
        BY <1>0, <3>1, ExclusiveKept
    <2>5. ASSUME NEW s \in Runs PROVE JobsNext(s)
      <3>1. /\ RowsLeft(outbox', relay', s) =
                   RowsLeft(outbox, relay, s) \cup (IF s = r THEN {o} ELSE {})
            /\ \A p \in RowsLeft(outbox, relay, s) : outbox'[p] = outbox[p]
            /\ outbox'[o].node = StartNode
        BY <1>0, <2>1, RowsLeftAdded, GraphAssumption
      <3>2. CASE s = r
        <4>1. /\ RowsLeft(outbox', relay', r) = {o}
              /\ MessagesLeft(queue', task', r) = {}
          BY <1>0, <2>2, <3>1, <3>2, NoRowNoJob
        <4>2. outbox'[o].node = runs'[r].node
          BY <2>3, <3>1 DEF InsertedRow
        <4> QED
          BY <3>2, <4>1, <4>2, OneJobWritten DEF JobsNext
      <3>3. CASE s # r
        BY <1>0, <2>3, <3>1, <3>3, JobsUntouched
      <3> QED
        BY <3>2, <3>3
    <2> QED
      BY <2>4, <2>5, JobsByRun DEF SoleInv
  <1>2. CASE Pause(r) \/ Stop(r)
    <2>1. /\ IsRow(runs[r]) /\ outbox' = outbox
          /\ \/ runs' = [runs EXCEPT ![r] = Paused(runs[r])]
             \/ runs' = [runs EXCEPT ![r] = Stopped(runs[r])]
      BY <1>2 DEF Pause, Stop, Writable
    <2>2. runs[r] \in RowsOver(Nodes)
      BY <1>0, <2>1, RowIsRow
    <2>3. /\ Paused(runs[r]).node = runs[r].node
          /\ Stopped(runs[r]).node = runs[r].node
          /\ ~IsActive(Paused(runs[r])) /\ ~IsActive(Stopped(runs[r]))
      BY <2>2 DEF Paused, Stopped, RowsOver, IsActive, ActiveStatuses
    <2>4. /\ \A s \in Runs : s # r => runs'[s] = runs[s]
          /\ runs'[r].node = runs[r].node /\ ~IsActive(runs'[r])
      BY <1>0, <2>1, <2>3
    <2>5. ExclusiveInv'
      <3>1. \A s \in Runs : IsRow(runs[s]) => runs'[s].node = runs[s].node
        BY <2>4
      <3> QED
        BY <1>0, <3>1, ExclusiveKept
    <2>6. ASSUME NEW s \in Runs PROVE JobsNext(s)
      <3>1. OneJob(runs[s], RowsLeft(outbox, relay, s),
                   MessagesLeft(queue, task, s), outbox, queue, InWork(task))
        BY <1>0 DEF JobsInv, JobsOf
      <3>2. CASE s = r
        <4>1. OneJob(runs'[r], RowsLeft(outbox, relay, r),
                     MessagesLeft(queue, task, r), outbox, queue, InWork(task))
          BY <2>4, <3>1, <3>2, OneJobKept
        <4> QED
          BY <1>0, <2>1, <3>2, <4>1 DEF JobsNext
      <3>3. CASE s # r
        BY <1>0, <2>1, <2>4, <3>3, JobsUntouched
      <3> QED
        BY <3>2, <3>3
    <2> QED
      BY <2>5, <2>6, JobsByRun DEF SoleInv
  <1> QED
    BY <1>1, <1>2 DEF Undisturbed, Resume, Retry

\* A pass of the relay: LockDue and the commit move no job, SendJob turns a row
\* into a message, SkipJob drops a row of a run that is not active.
LEMMA SoleRelay ==
    ASSUME TypeInv, LockInv, SoleInv, NEW x \in Relays, RelayStep(x)
    PROVE  SoleInv'
  <1>0. /\ relay \in [Relays -> [jobs : SUBSET RowIds, active : SUBSET RowIds,
                                 done : SUBSET RowIds]]
        /\ outbox \in [RowIds -> Job \cup {NoJob}]
        /\ queue \in [MsgIds -> Message]
        /\ UNCHANGED <<runs, task>>
        /\ ExclusiveInv /\ JobsInv
    BY DEF TypeInv, TypeOK, SoleInv, RelayStep, LockDue, SendJob, SkipJob,
           RelayCommit
  <1>1. CASE LockDue(x)
    <2>1. \A y \in Relays : relay'[y].done = relay[y].done
      <3>1. relay[x].done = {}
        BY <1>1 DEF LockDue, NoBatch
      <3>2. /\ relay'[x].done = {}
            /\ \A y \in Relays : y # x => relay'[y] = relay[y]
        BY <1>0, <1>1 DEF LockDue
      <3> QED
        BY <3>1, <3>2
    <2>2. UNCHANGED <<outbox, queue>>
      BY <1>1 DEF LockDue
    <2>3. \A r \in Runs : RowsLeft(outbox', relay', r) = RowsLeft(outbox, relay, r)
      BY <2>1, <2>2 DEF RowsLeft
    <2>4. \A r \in Runs : JobsNext(r)
      BY <1>0, <2>2, <2>3, JobsUntouched
    <2>5. ExclusiveInv'
      BY <1>0, <2>2, ExclusiveKept
    <2> QED
      BY <2>4, <2>5, JobsByRun DEF SoleInv
  <1>2. ASSUME NEW o \in RowIds, SendJob(x, o)
        PROVE  SoleInv'
    <2>1. PICK m \in FreeMessages : queue' = Sent(queue, m, outbox[o])
      BY <1>2 DEF SendJob
    <2>2. /\ m \in MsgIds /\ queue[m].run = None
          /\ \A w \in Workers : task[w][m].pc = "idle"
      BY <2>1 DEF FreeMessages, Present, NoTask
    <2>3. /\ o \in relay[x].active \ relay[x].done /\ o \in relay[x].jobs
          /\ outbox' = outbox /\ relay' = Handled(x, o)
      BY <1>2 DEF SendJob, LockInv, RelayOK
    <2>4. outbox[o].run \in Runs
      BY <2>3 DEF LockInv, RelayOK, TypeInv, RefersToRuns, Job
    <2>5. \A y \in Relays : o \notin relay[y].done
      BY <2>3, <2>4 DEF LockInv, RelayOK, RunLockExclusive, RelayHolds
    <2>6. /\ queue'[m].run = outbox[o].run /\ queue'[m].node = outbox[o].node
          /\ queue'[m].receives = 0
          /\ \A n \in MsgIds : n # m => queue'[n] = queue[n]
      BY <1>0, <2>1, <2>2 DEF Sent
    <2>7. /\ relay'[x].done = relay[x].done \cup {o}
          /\ \A y \in Relays : y # x => relay'[y].done = relay[y].done
      BY <1>0, <2>3 DEF Handled
    <2>8. ASSUME NEW r \in Runs PROVE JobsNext(r)
      <3>1. OneJob(runs[r], RowsLeft(outbox, relay, r),
                   MessagesLeft(queue, task, r), outbox, queue, InWork(task))
        BY <1>0 DEF JobsInv, JobsOf
      <3>2. RowsLeft(outbox', relay', r) = RowsLeft(outbox, relay, r) \ {o}
        BY <2>3, <2>7 DEF RowsLeft
      <3>3. CASE r = outbox[o].run
        <4>1. o \in RowsLeft(outbox, relay, r)
          BY <2>5, <3>3 DEF RowsLeft
        <4>2. /\ RowsLeft(outbox, relay, r) = {o}
              /\ MessagesLeft(queue, task, r) = {}
              /\ outbox[o].node = runs[r].node
          BY <3>1, <4>1 DEF OneJob
        <4>3. RowsLeft(outbox', relay', r) = {}
          BY <3>2, <4>2
        <4>4. MessagesLeft(queue', task', r) = {m}
          BY <1>0, <2>2, <2>6, <3>3, <4>2 DEF MessagesLeft
        <4>5. queue'[m].node = runs'[r].node
          BY <1>0, <2>6, <4>2
        <4> QED
          BY <2>6, <4>3, <4>4, <4>5, OneJobSent DEF JobsNext
      <3>4. CASE r # outbox[o].run
        <4>1. RowsLeft(outbox', relay', r) = RowsLeft(outbox, relay, r)
          BY <3>2, <3>4 DEF RowsLeft
        <4>2. r # None
          BY NoneAssumption
        <4>3. MessagesLeft(queue', task', r) = MessagesLeft(queue, task, r)
          BY <1>0, <2>2, <2>6, <3>4, <4>2 DEF MessagesLeft
        <4>4. \A n \in MessagesLeft(queue, task, r) : queue'[n] = queue[n]
          BY <2>2, <2>6, <4>2 DEF MessagesLeft
        <4> QED
          BY <1>0, <2>3, <4>1, <4>3, <4>4, JobsUntouched
      <3> QED
        BY <3>3, <3>4
    <2>9. ExclusiveInv'
      BY <1>0, <2>2, <2>6, ExclusiveKept
    <2> QED
      BY <2>8, <2>9, JobsByRun DEF SoleInv
  <1>3. ASSUME NEW o \in RowIds, SkipJob(x, o)
        PROVE  SoleInv'
    <2>1. /\ o \in relay[x].jobs \ relay[x].active
          /\ outbox' = outbox /\ queue' = queue /\ relay' = Handled(x, o)
      BY <1>3 DEF SkipJob
    <2>2. ~IsActive(runs[outbox[o].run])
      BY <2>1 DEF LockInv, RelayStatusCurrent, Active
    <2>3. /\ relay'[x].done = relay[x].done \cup {o}
          /\ \A y \in Relays : y # x => relay'[y].done = relay[y].done
      BY <1>0, <2>1 DEF Handled
    <2>4. ASSUME NEW r \in Runs PROVE JobsNext(r)
      <3>1. OneJob(runs[r], RowsLeft(outbox, relay, r),
                   MessagesLeft(queue, task, r), outbox, queue, InWork(task))
        BY <1>0 DEF JobsInv, JobsOf
      <3>2. RowsLeft(outbox', relay', r) = RowsLeft(outbox, relay, r) \ {o}
        BY <2>1, <2>3 DEF RowsLeft
      <3>3. IsActive(runs[r]) => o \notin RowsLeft(outbox, relay, r)
        BY <2>2 DEF RowsLeft
      <3>4. IsActive(runs[r]) =>
                \A m \in MessagesLeft(queue, task, r) :
                    queue[m].receives = 0 \/ m \in InWork(task)
        BY <3>1 DEF OneJob
      <3>5. OneJob(runs[r], RowsLeft(outbox', relay', r),
                   MessagesLeft(queue, task, r), outbox, queue, InWork(task))
        BY <3>1, <3>2, <3>3, <3>4 DEF OneJob
      <3> QED
        BY <1>0, <2>1, <3>5 DEF JobsNext
    <2>5. ExclusiveInv'
      BY <1>0, <2>1, ExclusiveKept
    <2> QED
      BY <2>4, <2>5, JobsByRun DEF SoleInv
  <1>4. CASE RelayCommit(x)
    <2>1. /\ queue' = queue
          /\ \A o \in RowIds :
                 outbox'[o] = IF o \in relay[x].done THEN NoJob ELSE outbox[o]
          /\ relay'[x].done = {}
          /\ \A y \in Relays : y # x => relay'[y].done = relay[y].done
      BY <1>0, <1>4 DEF RelayCommit, NoBatch
    <2>2. ASSUME NEW r \in Runs PROVE JobsNext(r)
      <3>1. r # None
        BY NoneAssumption
      <3>2. RowsLeft(outbox', relay', r) = RowsLeft(outbox, relay, r)
        BY <2>1, <3>1 DEF RowsLeft, NoJob
      <3>3. \A o \in RowsLeft(outbox, relay, r) : outbox'[o] = outbox[o]
        BY <2>1 DEF RowsLeft
      <3> QED
        BY <1>0, <2>1, <3>2, <3>3, JobsUntouched
    <2>3. ExclusiveInv'
      BY <1>0, <2>1, ExclusiveKept
    <2> QED
      BY <2>2, <2>3, JobsByRun DEF SoleInv
  <1> QED
    BY <1>1, <1>2, <1>3, <1>4 DEF RelayStep

-----------------------------------------------------------------------------
(* The steps: workers and queue *)

\* One goroutine moves on without a write and without coming to its delete.
LEMMA SoleMove ==
    ASSUME TypeInv, SoleInv, NEW w \in Workers, NEW m \in MsgIds, NEW u,
           task' = [task EXCEPT ![w][m] = u],
           UNCHANGED <<runs, outbox, queue, relay>>,
           task[w][m].pc \notin {"idle", "ack"}, u.pc \notin {"idle", "ack"},
           u.run = task[w][m].run, u.receipt = task[w][m].receipt,
           u.pc \in Executing => u.node = runs[u.run].node
    PROVE  SoleInv'
  <1>0. /\ task \in [Workers -> [MsgIds -> Tasks]]
        /\ ExclusiveInv /\ JobsInv
    BY DEF TypeInv, TypeOK, SoleInv
  <1>1. ExclusiveInv'
    BY <1>0, ExclusiveMove
  <1>2. /\ task'[w][m] = u
        /\ \A v \in Workers, n \in MsgIds :
               ~(v = w /\ n = m) => task'[v][n] = task[v][n]
    BY <1>0
  <1>3. \A v \in Workers, n \in MsgIds :
            /\ task'[v][n].pc = "ack" <=> task[v][n].pc = "ack"
            /\ task'[v][n].pc = "idle" <=> task[v][n].pc = "idle"
    BY <1>2
  <1>4. InWork(task') = InWork(task)
    BY <1>3 DEF InWork
  <1>5. ASSUME NEW r \in Runs PROVE JobsNext(r)
    <2>1. MessagesLeft(queue', task', r) = MessagesLeft(queue, task, r)
      BY <1>3 DEF MessagesLeft
    <2> QED
      BY <1>0, <1>4, <2>1, JobsUntouched
  <1> QED
    BY <1>1, <1>5, JobsByRun DEF SoleInv

\* A goroutine ends its work on a run that is no longer active: it returns
\* after a failure, or goes to delete its message.
LEMMA SoleGivesUp ==
    ASSUME TypeInv, SoleInv, NEW w \in Workers, NEW m \in MsgIds, NEW u,
           NEW r \in Runs, task[w][m].run = r,
           task[w][m].pc \notin {"idle", "ack"},
           task' = [task EXCEPT ![w][m] = u],
           \/ u.pc = "idle"
           \/ /\ u.pc = "ack" /\ u.run = r
              /\ u.receipt = task[w][m].receipt,
           UNCHANGED <<outbox, queue, relay>>,
           \A s \in Runs : s # r => runs'[s] = runs[s],
           runs'[r].node = runs[r].node, ~IsActive(runs'[r])
    PROVE  SoleInv'
  <1>0. /\ task \in [Workers -> [MsgIds -> Tasks]]
        /\ ExclusiveInv /\ JobsInv
    BY DEF TypeInv, TypeOK, SoleInv
  <1>1. ExclusiveInv'
    <2>1. \A v \in Workers, n \in MsgIds :
              task[v][n].pc \in Executing => task[v][n].run \in Runs
      BY DEF TypeInv, TaskOK, Executing
    <2>2. \A s \in Runs : runs'[s].node = runs[s].node
      OBVIOUS
    <2>3. u.pc \notin Executing
      BY DEF Executing
    <2> QED
      BY <1>0, <2>1, <2>2, <2>3, ExclusiveMove
  <1>2. /\ task'[w][m] = u
        /\ \A v \in Workers, n \in MsgIds :
               ~(v = w /\ n = m) => task'[v][n] = task[v][n]
    BY <1>0
  <1>3. queue[m].run = r
    BY <1>0 DEF ExclusiveInv, Exclusive
  <1>4. ASSUME NEW s \in Runs PROVE JobsNext(s)
    <2>1. OneJob(runs[s], RowsLeft(outbox, relay, s),
                 MessagesLeft(queue, task, s), outbox, queue, InWork(task))
      BY <1>0 DEF JobsInv, JobsOf
    <2>2. MessagesLeft(queue', task', s) \subseteq MessagesLeft(queue, task, s)
      BY <1>2 DEF MessagesLeft
    <2>3. CASE s = r
      <3>1. OneJob(runs'[r], RowsLeft(outbox, relay, r),
                   MessagesLeft(queue', task', r), outbox, queue, InWork(task'))
        BY <2>1, <2>2, <2>3 DEF OneJob
      <3> QED
        BY <2>3, <3>1 DEF JobsNext
    <2>4. CASE s # r
      <3>1. MessagesLeft(queue', task', s) = MessagesLeft(queue, task, s)
        BY <1>2, <1>3, <2>4 DEF MessagesLeft
      <3>2. \A n \in MessagesLeft(queue, task, s) :
                n \in InWork(task) => n \in InWork(task')
        BY <1>2, <1>3, <2>4 DEF MessagesLeft, InWork
      <3> QED
        BY <1>0, <2>4, <3>1, <3>2, JobsUntouched
    <2> QED
      BY <2>3, <2>4
  <1> QED
    BY <1>1, <1>4, JobsByRun DEF SoleInv

\* The checkpoint: the message of the goroutine stops counting in the step in
\* which the row of the next job appears.
LEMMA SoleAdvance ==
    ASSUME TypeInv, LockInv, SoleInv, NEW w \in Workers, NEW m \in MsgIds,
           PersistCommit(w, m), task[w][m].next # None
    PROVE  SoleInv'
  <1> DEFINE t == task[w][m]
  <1>0. /\ task \in [Workers -> [MsgIds -> Tasks]]
        /\ runs \in [Runs -> RowsOver(Nodes) \cup {NoRow}]
        /\ ExclusiveInv /\ JobsInv
    BY DEF TypeInv, TypeOK, SoleInv
  <1>1. PICK o \in FreeRows : outbox' = Enqueued(o, t.run, t.next)
    BY DEF PersistCommit
  <1>2. /\ t.pc = "commit" /\ t.run \in Runs /\ t.next \in Nodes
        /\ IsRow(runs[t.run])
    BY <1>0 DEF PersistCommit, At, TypeInv, TaskOK, Tasks
  <1>3. PICK r \in Runs : r = t.run
    BY <1>2
  <1>4. PICK u : /\ task' = [task EXCEPT ![w][m] = u] /\ u.pc = "ack"
                 /\ u.run = r /\ u.receipt = t.receipt
    <2>1. /\ task' = [task EXCEPT ![w][m] = [t EXCEPT !.pc = "ack"]]
          /\ t \in Tasks
      BY <1>0 DEF PersistCommit
    <2>2. /\ [t EXCEPT !.pc = "ack"].pc = "ack"
          /\ [t EXCEPT !.pc = "ack"].run = t.run
          /\ [t EXCEPT !.pc = "ack"].receipt = t.receipt
      BY <2>1 DEF Tasks
    <2> QED
      BY <1>3, <2>1, <2>2
  <1>5. UNCHANGED <<queue, relay>>
    BY DEF PersistCommit
  <1>6. /\ \A s \in Runs : s # r => runs'[s] = runs[s]
        /\ runs'[r].node = t.next
    <2>1. runs' = [runs EXCEPT ![r] = Advanced(runs[r], t.next, t.node)]
      BY <1>3 DEF PersistCommit
    <2>2. runs[r] \in RowsOver(Nodes)
      BY <1>0, <1>2, <1>3, RowIsRow
    <2> QED
      BY <1>0, <2>1, <2>2, StatementFields
  <1>7. m \in MessagesLeft(queue, task, r)
    BY <1>0, <1>2, <1>3, MessageOfTask
  <1>8. /\ MessagesLeft(queue, task, r) = {m}
        /\ RowsLeft(outbox, relay, r) = {}
    BY <1>0, <1>7 DEF JobsInv, JobsOf, OneJob
  <1>9. /\ task'[w][m] = u
        /\ \A v \in Workers, n \in MsgIds :
               ~(v = w /\ n = m) => task'[v][n] = task[v][n]
    BY <1>0, <1>4
  <1>10. ASSUME NEW v \in Workers, NEW n \in MsgIds, ~(v = w /\ n = m),
                task[v][n].pc \in Executing
         PROVE  task[v][n].run # r /\ task[v][n].run \in Runs
    <2>1. task[v][n].pc \notin {"idle", "ack"}
      BY <1>10 DEF Executing
    <2>2. n \in MessagesLeft(queue, task, task[v][n].run)
      BY <1>0, <2>1, MessageOfTask
    <2>3. n = m => v = w
      BY <1>0, <1>2, <2>1 DEF ExclusiveInv, Exclusive
    <2>4. task[v][n].run \in Runs
      BY <2>1 DEF TypeInv, TaskOK
    <2> QED
      BY <1>8, <1>10, <2>2, <2>3, <2>4
  <1>11. ExclusiveInv'
    <2>1. u.pc \notin Executing
      BY <1>4 DEF Executing
    <2> QED
      BY <1>0, <1>2, <1>3, <1>4, <1>5, <1>6, <1>10, <2>1, ExclusiveMove
  <1>12. ASSUME NEW s \in Runs PROVE JobsNext(s)
    <2>1. /\ RowsLeft(outbox', relay', s) =
                 RowsLeft(outbox, relay, s) \cup (IF s = r THEN {o} ELSE {})
          /\ \A p \in RowsLeft(outbox, relay, s) : outbox'[p] = outbox[p]
          /\ outbox'[o].node = t.next
      BY <1>1, <1>2, <1>3, <1>5, RowsLeftAdded
    <2>2. CASE s = r
      <3>1. RowsLeft(outbox', relay', r) = {o}
        BY <1>8, <2>1, <2>2
      <3>2. m \notin MessagesLeft(queue', task', r)
        BY <1>4, <1>9 DEF MessagesLeft
      <3>3. MessagesLeft(queue', task', r) \subseteq MessagesLeft(queue, task, r)
        BY <1>2, <1>5, <1>9 DEF MessagesLeft
      <3>4. MessagesLeft(queue', task', r) = {}
        BY <1>8, <3>2, <3>3
      <3>5. outbox'[o].node = runs'[r].node
        BY <1>6, <2>1
      <3> QED
        BY <2>2, <3>1, <3>4, <3>5, OneJobWritten DEF JobsNext
    <2>3. CASE s # r
      <3>1. queue[m].run = r
        BY <1>7 DEF MessagesLeft
      <3>2. MessagesLeft(queue', task', s) = MessagesLeft(queue, task, s)
        BY <1>5, <1>9, <2>3, <3>1 DEF MessagesLeft
      <3>3. \A n \in MessagesLeft(queue, task, s) :
                n \in InWork(task) => n \in InWork(task')
        BY <1>9, <2>3, <3>1 DEF MessagesLeft, InWork
      <3>4. RowsLeft(outbox', relay', s) = RowsLeft(outbox, relay, s)
        BY <2>1, <2>3
      <3> QED
        BY <1>0, <1>5, <1>6, <2>1, <2>3, <3>2, <3>3, <3>4, JobsUntouched
    <2> QED
      BY <2>2, <2>3
  <1> QED
    BY <1>11, <1>12, JobsByRun DEF SoleInv

\* A goroutine of handleNodeJob, from reading the run to the delete.
LEMMA SoleTask ==
    ASSUME TypeInv, LockInv, SoleInv, NEW w \in Workers, NEW m \in MsgIds,
           TaskStep(w, m)
    PROVE  SoleInv'
  <1> DEFINE t == task[w][m]
  <1>0. /\ task \in [Workers -> [MsgIds -> Tasks]]
        /\ runs \in [Runs -> RowsOver(Nodes) \cup {NoRow}]
        /\ queue \in [MsgIds -> Message]
        /\ t \in Tasks
        /\ ExclusiveInv /\ JobsInv
    BY DEF TypeInv, TypeOK, SoleInv
  <1>1. t.pc # "idle" /\ t.run \in Runs /\ IsRow(runs[t.run])
    BY DEF TaskStep, ReadRun, ExecuteNode, ExecuteError, RecordFailure,
           PersistBegin, PersistCommit, Ack, At, TypeInv, TaskOK
  <1>2. PICK r \in Runs : r = t.run
    BY <1>1
  <1>3. runs[r] \in RowsOver(Nodes)
    BY <1>0, <1>1, <1>2, RowIsRow
  <1>4. t.pc \in Executing => t.node = runs[t.run].node
    BY <1>0 DEF ExclusiveInv, Exclusive, Executing
  <1>5. CASE ReadRun(w, m)
    <2>1. CASE IsActive(runs[t.run])
      <3> DEFINE v == [t EXCEPT !.pc = "execute", !.node = runs[t.run].node]
      <3>1. /\ task' = [task EXCEPT ![w][m] = v]
            /\ t.pc = "read" /\ UNCHANGED <<runs, outbox, queue, relay>>
        BY <1>5, <2>1 DEF ReadRun, At
      <3>2. /\ v.pc = "execute" /\ v.node = runs[t.run].node
            /\ v.run = t.run /\ v.receipt = t.receipt
        BY <1>0 DEF Tasks
      <3>3. PICK u : /\ task' = [task EXCEPT ![w][m] = u]
                     /\ u.pc = "execute" /\ u.node = runs[t.run].node
                     /\ u.run = t.run /\ u.receipt = t.receipt
        BY <3>1, <3>2
      <3>4. u.node = runs[u.run].node
        BY <3>3
      <3> HIDE DEF v
      <3> QED
        BY <3>1, <3>3, <3>4, SoleMove
    <2>2. CASE ~IsActive(runs[t.run])
      <3> DEFINE v == [t EXCEPT !.pc = "ack"]
      <3>1. /\ task' = [task EXCEPT ![w][m] = v]
            /\ t.pc = "read" /\ UNCHANGED <<runs, outbox, queue, relay>>
        BY <1>5, <2>2 DEF ReadRun, At
      <3>2. v.pc = "ack" /\ v.run = t.run /\ v.receipt = t.receipt
        BY <1>0 DEF Tasks
      <3>3. PICK u : /\ task' = [task EXCEPT ![w][m] = u] /\ u.pc = "ack"
                     /\ u.run = t.run /\ u.receipt = t.receipt
        BY <3>1, <3>2
      <3>4. /\ \A s \in Runs : s # r => runs'[s] = runs[s]
            /\ runs'[r].node = runs[r].node /\ ~IsActive(runs'[r])
            /\ t.pc \notin {"idle", "ack"} /\ t.run = r
            /\ u.run = r /\ UNCHANGED <<outbox, queue, relay>>
        BY <1>2, <2>2, <3>1, <3>3
      <3> HIDE DEF v
      <3> QED
        BY <3>3, <3>4, SoleGivesUp
    <2> QED
      BY <2>1, <2>2
  <1>6. CASE ExecuteNode(w, m) \/ ExecuteError(w, m) \/ PersistBegin(w, m)
    <2>1. PICK u : /\ task' = [task EXCEPT ![w][m] = u]
                   /\ u.pc \in {"persist", "fail", "commit"} /\ u.node = t.node
                   /\ u.run = t.run /\ u.receipt = t.receipt
      <3>1. CASE ExecuteNode(w, m)
        <4>1. PICK next : task' = [task EXCEPT ![w][m] =
                             [t EXCEPT !.pc = "persist", !.next = next]]
          BY <3>1 DEF ExecuteNode
        <4> DEFINE v == [t EXCEPT !.pc = "persist", !.next = next]
        <4>2. /\ v.pc = "persist" /\ v.node = t.node
              /\ v.run = t.run /\ v.receipt = t.receipt
          BY <1>0 DEF Tasks
        <4> QED
          BY <4>1, <4>2
      <3>2. CASE ExecuteError(w, m) \/ PersistBegin(w, m)
        <4>1. PICK pc \in {"fail", "commit"} :
                  task' = [task EXCEPT ![w][m] = [t EXCEPT !.pc = pc]]
          BY <3>2 DEF ExecuteError, PersistBegin
        <4> DEFINE v == [t EXCEPT !.pc = pc]
        <4>2. /\ v.pc = pc /\ v.node = t.node
              /\ v.run = t.run /\ v.receipt = t.receipt
          BY <1>0 DEF Tasks
        <4> QED
          BY <4>1, <4>2
      <3> QED
        BY <1>6, <3>1, <3>2
    <2>2. t.pc \in Executing \ {"commit", "fail"}
      BY <1>6 DEF ExecuteNode, ExecuteError, PersistBegin, At, Executing
    <2>3. /\ UNCHANGED <<runs, outbox, queue, relay>>
          /\ t.pc \notin {"idle", "ack"} /\ u.pc \notin {"idle", "ack"}
          /\ u.node = runs[u.run].node
      BY <1>4, <1>6, <2>1, <2>2
         DEF ExecuteNode, ExecuteError, PersistBegin, Executing
    <2> QED
      BY <2>1, <2>3, SoleMove
  <1>7. CASE RecordFailure(w, m)
    <2>1. /\ runs' = [runs EXCEPT ![r] = Failed(runs[r])]
          /\ task' = [task EXCEPT ![w][m] = NoTask]
          /\ t.pc = "fail" /\ UNCHANGED <<outbox, queue, relay>>
      BY <1>2, <1>7 DEF RecordFailure, At
    <2>2. Failed(runs[r]).node = runs[r].node /\ Failed(runs[r]).status = "failed"
      BY <1>3 DEF RowsOver, Failed
    <2>3. /\ \A s \in Runs : s # r => runs'[s] = runs[s]
          /\ runs'[r].node = runs[r].node /\ ~IsActive(runs'[r])
      BY <1>0, <2>1, <2>2 DEF IsActive, ActiveStatuses
    <2> QED
      BY <1>2, <2>1, <2>3, SoleGivesUp DEF NoTask
  <1>8. CASE PersistCommit(w, m) /\ t.next = None
    <2>1. /\ runs' = [runs EXCEPT ![r] = Completed(runs[r], t.node)]
          /\ t.pc = "commit" /\ UNCHANGED <<outbox, queue, relay>>
      BY <1>2, <1>8 DEF PersistCommit, At
    <2>2. PICK u : /\ task' = [task EXCEPT ![w][m] = u] /\ u.pc = "ack"
                   /\ u.run = t.run /\ u.receipt = t.receipt
      <3> DEFINE v == [t EXCEPT !.pc = "ack"]
      <3>1. task' = [task EXCEPT ![w][m] = v]
        BY <1>8 DEF PersistCommit
      <3>2. v.pc = "ack" /\ v.run = t.run /\ v.receipt = t.receipt
        BY <1>0 DEF Tasks
      <3> QED
        BY <3>1, <3>2
    <2>3. /\ Completed(runs[r], t.node).node = runs[r].node
          /\ Completed(runs[r], t.node).status = "completed"
      BY <1>3 DEF RowsOver, Completed
    <2>4. /\ \A s \in Runs : s # r => runs'[s] = runs[s]
          /\ runs'[r].node = runs[r].node /\ ~IsActive(runs'[r])
      BY <1>0, <2>1, <2>3 DEF IsActive, ActiveStatuses
    <2> QED
      BY <1>2, <2>1, <2>2, <2>4, SoleGivesUp
  <1>9. CASE Ack(w, m)
    <2>1. queue[m].receives = t.receipt
      BY <1>0, <1>1 DEF ExclusiveInv, Exclusive
    <2>2. /\ queue' = Deleted(queue, m)
          /\ task' = [task EXCEPT ![w][m] = NoTask]
          /\ t.pc = "ack" /\ UNCHANGED <<runs, outbox, relay>>
      BY <1>9, <2>1 DEF Ack, At, DeleteResults
    <2>3. /\ queue'[m] = NoMessage
          /\ \A n \in MsgIds : n # m => queue'[n] = queue[n]
          /\ task'[w][m] = NoTask
          /\ \A v \in Workers, n \in MsgIds :
                 ~(v = w /\ n = m) => task'[v][n] = task[v][n]
      BY <1>0, <2>2 DEF Deleted
    <2>4. \A v \in Workers : task[v][m].pc # "idle" => v = w
      BY <1>0, <1>1 DEF ExclusiveInv, Exclusive
    <2>5. ASSUME NEW s \in Runs PROVE JobsNext(s)
      <3>1. s # None
        BY NoneAssumption
      <3>2. m \notin MessagesLeft(queue, task, s)
        BY <2>2 DEF MessagesLeft
      <3>3. MessagesLeft(queue', task', s) = MessagesLeft(queue, task, s)
        BY <2>2, <2>3, <3>1, <3>2 DEF MessagesLeft, NoMessage, NoTask
      <3>4. \A n \in MessagesLeft(queue, task, s) :
                /\ queue'[n] = queue[n]
                /\ n \in InWork(task) => n \in InWork(task')
        BY <2>3, <3>2 DEF MessagesLeft, InWork
      <3> QED
        BY <1>0, <2>2, <3>3, <3>4, JobsUntouched
    <2>6. ExclusiveInv'
      <3> SUFFICES ASSUME NEW v \in Workers, NEW n \in MsgIds
                   PROVE  Exclusive(runs', queue', task', v, n)
        BY DEF ExclusiveInv
      <3>1. Exclusive(runs, queue, task, v, n)
        BY <1>0 DEF ExclusiveInv
      <3>2. CASE n = m
        BY <2>3, <2>4, <3>2 DEF Exclusive, NoTask
      <3>3. CASE n # m
        BY <2>2, <2>3, <3>1, <3>3 DEF Exclusive
      <3> QED
        BY <3>2, <3>3
    <2> QED
      BY <2>5, <2>6, JobsByRun DEF SoleInv
  <1> QED
    BY <1>5, <1>6, <1>7, <1>8, <1>9, SoleAdvance DEF TaskStep

\* A batch is made of messages that nobody works on.
LEMMA SoleReceive ==
    ASSUME TypeInv, SoleInv, NEW w \in Workers, Receive(w)
    PROVE  SoleInv'
  <1>0. /\ task \in [Workers -> [MsgIds -> Tasks]]
        /\ queue \in [MsgIds -> Message]
        /\ ExclusiveInv /\ JobsInv
        /\ UNCHANGED <<runs, outbox, relay>>
    BY DEF TypeInv, TypeOK, SoleInv, Receive
  <1>1. PICK batch \in Batches :
            /\ queue' = Received(queue, batch)
            /\ task' = [task EXCEPT ![w] = [m \in MsgIds |->
                   IF m \in batch
                   THEN [NoTask EXCEPT !.pc = "read", !.run = queue[m].run,
                                       !.job = queue[m].node,
                                       !.receipt = queue[m].receives + 1]
                   ELSE NoTask]]
    BY DEF Receive
  <1>2. /\ \A m \in MsgIds : task[w][m].pc = "idle"
        /\ \A m \in batch : m \in MsgIds /\ ~queue[m].leased
    <2>1. \A m \in MsgIds : task[w][m].pc = "idle"
      <3>1. Idle(w)
        BY DEF Receive
      <3>2. NoTask.pc = "idle"
        BY DEF NoTask
      <3> QED
        BY <3>1, <3>2 DEF Idle
    <2>2. batch \subseteq Deliverable(queue)
      BY <1>1 DEF Batches
    <2> QED
      BY <2>1, <2>2 DEF Deliverable, Visible
  <1>3. \A v \in Workers, m \in batch : task[v][m].pc = "idle"
    BY <1>0, <1>2 DEF ExclusiveInv, Exclusive
  <1>4. \A m \in MsgIds :
            /\ queue'[m].run = queue[m].run /\ queue'[m].node = queue[m].node
            /\ m \notin batch => queue'[m] = queue[m]
            /\ m \in batch => /\ queue'[m].leased
                              /\ queue'[m].receives = queue[m].receives + 1
    BY <1>0, <1>1 DEF Received, Message
  <1>5. \A m \in MsgIds :
            /\ m \notin batch => task'[w][m] = NoTask
            /\ m \in batch => /\ task'[w][m].pc = "read"
                              /\ task'[w][m].run = queue[m].run
                              /\ task'[w][m].receipt = queue[m].receives + 1
    BY <1>0, <1>1 DEF NoTask
  <1>6. \A v \in Workers : v # w => task'[v] = task[v]
    BY <1>0, <1>1
  <1>7. ASSUME NEW s \in Runs PROVE JobsNext(s)
    <2>1. \A v \in Workers, m \in MsgIds :
              task'[v][m].pc = "ack" <=> task[v][m].pc = "ack"
      BY <1>2, <1>5, <1>6 DEF NoTask
    <2>2. MessagesLeft(queue', task', s) = MessagesLeft(queue, task, s)
      BY <1>4, <2>1 DEF MessagesLeft
    <2>3. \A m \in MsgIds : /\ m \in batch => m \in InWork(task')
                            /\ m \in InWork(task) => m \in InWork(task')
      BY <1>2, <1>5, <1>6 DEF InWork
    <2>4. \A m \in MessagesLeft(queue, task, s) :
              /\ queue'[m].node = queue[m].node
              /\ \/ queue'[m].receives = queue[m].receives
                    /\ (m \in InWork(task) => m \in InWork(task'))
                 \/ m \in InWork(task')
      BY <1>4, <2>3 DEF MessagesLeft
    <2> QED
      BY <1>0, <2>2, <2>4, JobsUntouched
  <1>8. ExclusiveInv'
    <2> SUFFICES ASSUME NEW v \in Workers, NEW n \in MsgIds
                 PROVE  Exclusive(runs', queue', task', v, n)
      BY DEF ExclusiveInv
    <2>1. Exclusive(runs, queue, task, v, n)
      BY <1>0 DEF ExclusiveInv
    <2>2. CASE n \in batch
      BY <1>3, <1>4, <1>5, <1>6, <2>2 DEF Exclusive, Executing
    <2>3. CASE n \notin batch
      BY <1>0, <1>4, <1>5, <1>6, <2>1, <2>3 DEF Exclusive, NoTask
    <2> QED
      BY <2>2, <2>3
  <1> QED
    BY <1>7, <1>8, JobsByRun DEF SoleInv

\* A timely lease ends when nobody works on its message any more; a message
\* that is parked then belongs to a run that is not active.
LEMMA SoleQueue ==
    ASSUME TypeInv, Undisturbed, SoleInv, NEW m \in MsgIds,
           LeaseExpire(m) \/ DeadLetter(m)
    PROVE  SoleInv'
  <1>0. /\ task \in [Workers -> [MsgIds -> Tasks]]
        /\ queue \in [MsgIds -> Message]
        /\ ExclusiveInv /\ JobsInv
        /\ UNCHANGED <<runs, outbox, relay, task>>
    BY DEF TypeInv, TypeOK, SoleInv, LeaseExpire, DeadLetter
  <1>1. \A w \in Workers : task[w][m].pc = "idle"
    <2>1. \A w \in Workers : task[w][m].pc # "idle" =>
              /\ queue[m].leased /\ task[w][m].receipt = queue[m].receives
              /\ task[w][m] # NoTask
      BY <1>0 DEF ExclusiveInv, Exclusive, NoTask
    <2> QED
      BY <2>1 DEF Undisturbed, LeaseExpire, Held, DeadLetter, Poisonous, Visible
  <1>2. \A n \in MsgIds : n # m => queue'[n] = queue[n]
    BY <1>0 DEF LeaseExpire, LeaseExpired, DeadLetter, Deleted
  <1>3. ExclusiveInv'
    BY <1>0, <1>1, <1>2, ExclusiveKept
  <1>4. ASSUME NEW s \in Runs PROVE JobsNext(s)
    <2>1. s # None
      BY NoneAssumption
    <2>2. CASE LeaseExpire(m)
      <3>1. \A n \in MsgIds : /\ queue'[n].run = queue[n].run
                              /\ queue'[n].node = queue[n].node
                              /\ queue'[n].receives = queue[n].receives
        BY <1>0, <2>2 DEF LeaseExpire, LeaseExpired, Message
      <3>2. MessagesLeft(queue', task', s) = MessagesLeft(queue, task, s)
        BY <1>0, <3>1 DEF MessagesLeft
      <3> QED
        BY <1>0, <3>1, <3>2, JobsUntouched DEF MessagesLeft
    <2>3. CASE DeadLetter(m)
      <3>1. queue'[m].run = None /\ queue[m].receives = MaxReceive
        BY <1>0, <2>3 DEF DeadLetter, Deleted, NoMessage, Poisonous
      <3>2. OneJob(runs[s], RowsLeft(outbox, relay, s),
                   MessagesLeft(queue, task, s), outbox, queue, InWork(task))
        BY <1>0 DEF JobsInv, JobsOf
      <3>3. MessagesLeft(queue', task', s) = MessagesLeft(queue, task, s) \ {m}
        BY <1>0, <1>2, <2>1, <3>1 DEF MessagesLeft
      <3>4. IsActive(runs[s]) => m \notin MessagesLeft(queue, task, s)
        BY <1>1, <3>1, <3>2, MaxReceiveAssumption DEF OneJob, InWork
      <3>5. \A n \in MessagesLeft(queue', task', s) : queue'[n] = queue[n]
        BY <1>2, <3>3 DEF MessagesLeft
      <3>6. IsActive(runs[s]) =>
                \A n \in MessagesLeft(queue', task', s) :
                    queue'[n].receives = 0 \/ n \in InWork(task')
        BY <1>0, <3>2, <3>3, <3>5 DEF OneJob
      <3>7. OneJob(runs[s], RowsLeft(outbox, relay, s),
                   MessagesLeft(queue', task', s), outbox, queue', InWork(task'))
        BY <3>2, <3>3, <3>4, <3>5, <3>6 DEF OneJob
      <3> QED
        BY <1>0, <3>7 DEF JobsNext
    <2> QED
      BY <2>2, <2>3
  <1> QED
    BY <1>3, <1>4, JobsByRun DEF SoleInv

-----------------------------------------------------------------------------
(* The theorems *)

\* There are no runs, hence no jobs.
LEMMA SoleInit == Init => SoleInv
  <1> SUFFICES ASSUME Init PROVE SoleInv
    OBVIOUS
  <1>1. ExclusiveInv
    BY DEF Init, ExclusiveInv, Exclusive, NoTask
  <1>2. ASSUME NEW r \in Runs PROVE JobsOf(r)
    <2>1. RowsLeft(outbox, relay, r) = {} /\ MessagesLeft(queue, task, r) = {}
      BY TypeInit, NoRowNoJob, RowIsRow DEF Init
    <2>2. ~IsActive(runs[r])
      BY DEF Init, IsActive, ActiveStatuses, NoRow
    <2> QED
      BY <2>1, <2>2 DEF JobsOf, OneJob
  <1> QED
    BY <1>1, <1>2 DEF SoleInv, JobsInv

\* Nothing changes, nothing moves.
LEMMA SoleStutter == SoleInv /\ UNCHANGED vars => SoleInv'
  BY DEF vars, SoleInv, ExclusiveInv, Exclusive, JobsInv, JobsOf, RowsLeft,
         MessagesLeft, InWork, OneJob

\* Where the jobs are: kept by every step, since faults do not occur.
LEMMA SoleStep ==
    ASSUME TypeInv, LockInv, Undisturbed, SoleInv, [Next]_vars
    PROVE  SoleInv'
  <1>1. /\ \A x \in Relays : ~RelayAbort(x)
        /\ \A w \in Workers : ~WorkerCrash(w)
        /\ \A w \in Workers, m \in MsgIds : ~TaskError(w, m)
    BY DEF Undisturbed, RelayAbort, WorkerCrash, TaskError, TypeInv, TypeOK
  <1>2. ASSUME NEW r \in Runs,
               Start(r) \/ Pause(r) \/ Resume(r) \/ Stop(r) \/ Retry(r)
        PROVE  SoleInv'
    BY <1>2, SoleRequest
  <1>3. ASSUME NEW x \in Relays, RelayStep(x)
        PROVE  SoleInv'
    BY <1>3, SoleRelay
  <1>4. ASSUME NEW w \in Workers, Receive(w)
        PROVE  SoleInv'
    BY <1>4, SoleReceive
  <1>5. ASSUME NEW w \in Workers, NEW m \in MsgIds, TaskStep(w, m)
        PROVE  SoleInv'
    BY <1>5, SoleTask
  <1>6. ASSUME NEW m \in MsgIds, LeaseExpire(m) \/ DeadLetter(m)
        PROVE  SoleInv'
    BY <1>6, SoleQueue
  <1>7. CASE UNCHANGED vars
    BY <1>7, SoleStutter
  <1>8. CASE Next
    <2>1. \/ \E r \in Runs :
               Start(r) \/ Pause(r) \/ Resume(r) \/ Stop(r) \/ Retry(r)
          \/ \E x \in Relays : RelayStep(x) \/ RelayAbort(x)
          \/ \E w \in Workers : Receive(w) \/ WorkerCrash(w)
          \/ \E w \in Workers, m \in MsgIds : TaskStep(w, m) \/ TaskError(w, m)
          \/ \E m \in MsgIds : LeaseExpire(m) \/ DeadLetter(m)
      BY <1>8 DEF Next
    <2> QED
      BY <1>1, <1>2, <1>3, <1>4, <1>5, <1>6, <2>1
  <1> QED
    BY <1>7, <1>8

\* SingleJob counts what OneJob says.
LEMMA OneIsSingle == SoleInv => SingleJob
  <1> SUFFICES ASSUME SoleInv, NEW r \in Runs, Active(r)
               PROVE  /\ Cardinality(UndeliveredRows(r))
                             + Cardinality(PendingMessages(r)) = 1
                      /\ \A o \in UndeliveredRows(r) : outbox[o].node = runs[r].node
                      /\ \A m \in PendingMessages(r) : queue[m].node = runs[r].node
    BY DEF SingleJob
  <1>1. /\ UndeliveredRows(r) = RowsLeft(outbox, relay, r)
        /\ PendingMessages(r) = MessagesLeft(queue, task, r)
    BY DEF UndeliveredRows, RowOf, RowsLeft, PendingMessages, Pending, At,
           MessagesLeft
  <1>2. OneJob(runs[r], UndeliveredRows(r), PendingMessages(r), outbox, queue,
               InWork(task))
    BY <1>1 DEF SoleInv, JobsInv, JobsOf
  <1>3. \/ \E o : UndeliveredRows(r) = {o} /\ PendingMessages(r) = {}
        \/ \E m : UndeliveredRows(r) = {} /\ PendingMessages(r) = {m}
    <2>1. CASE UndeliveredRows(r) # {}
      <3>1. PICK o : o \in UndeliveredRows(r)
        BY <2>1
      <3>2. UndeliveredRows(r) = {o} /\ PendingMessages(r) = {}
        BY <1>2, <3>1 DEF OneJob
      <3> QED
        BY <3>2
    <2>2. CASE UndeliveredRows(r) = {}
      <3>1. PICK m : m \in PendingMessages(r)
        BY <1>2, <2>2 DEF OneJob, Active
      <3>2. PendingMessages(r) = {m}
        BY <1>2, <3>1 DEF OneJob
      <3> QED
        BY <2>2, <3>2
    <2> QED
      BY <2>1, <2>2
  <1>4. Cardinality(UndeliveredRows(r)) + Cardinality(PendingMessages(r)) = 1
    <2>1. Cardinality({}) = 0
      BY FS_EmptySet
    <2>2. \A x : Cardinality({x}) = 1
      BY FS_Singleton
    <2>3. CASE \E o : UndeliveredRows(r) = {o} /\ PendingMessages(r) = {}
      <3>1. /\ Cardinality(UndeliveredRows(r)) = 1
            /\ Cardinality(PendingMessages(r)) = 0
        BY <2>1, <2>2, <2>3
      <3> QED
        BY <3>1
    <2>4. CASE \E m : UndeliveredRows(r) = {} /\ PendingMessages(r) = {m}
      <3>1. /\ Cardinality(UndeliveredRows(r)) = 0
            /\ Cardinality(PendingMessages(r)) = 1
        BY <2>1, <2>2, <2>4
      <3> QED
        BY <3>1
    <2> QED
      BY <1>3, <2>3, <2>4
  <1> QED
    BY <1>2, <1>4 DEF OneJob

\* Only a checkpoint moves a run to another node, and then along an edge.
LEMMA EdgesStep ==
    ASSUME LifeInv, SoleInv, Next, NEW r \in Runs, IsRow(runs[r]),
           runs'[r].node # runs[r].node
    PROVE  runs'[r].node \in Successors[runs[r].node]
  <1>0. /\ runs \in [Runs -> RowsOver(Nodes) \cup {NoRow}]
        /\ task \in [Workers -> [MsgIds -> Tasks]]
        /\ runs[r] \in RowsOver(Nodes)
    BY RowIsRow DEF LifeInv, TypeInv, TypeOK
  <1>1. /\ Paused(runs[r]).node = runs[r].node
        /\ Resumed(runs[r]).node = runs[r].node
        /\ Stopped(runs[r]).node = runs[r].node
        /\ Retried(runs[r]).node = runs[r].node
        /\ Failed(runs[r]).node = runs[r].node
        /\ \A n : Completed(runs[r], n).node = runs[r].node
    <2>1. Failed(runs[r]).node = runs[r].node
      BY <1>0 DEF RowsOver, Failed
    <2> QED
      BY <1>0, <2>1
         DEF RowsOver, Paused, Resumed, Stopped, Retried, Completed
  <1>2. ~UNCHANGED runs
    OBVIOUS
  <1>3. ASSUME NEW s \in Runs,
               Start(s) \/ Pause(s) \/ Resume(s) \/ Stop(s) \/ Retry(s)
        PROVE  FALSE
    <2>1. CASE s # r
      BY <1>0, <1>3, <2>1 DEF Start, Pause, Resume, Stop, Retry
    <2>2. CASE s = r
      BY <1>0, <1>1, <1>3, <2>2 DEF Start, Pause, Resume, Stop, Retry
    <2> QED
      BY <2>1, <2>2
  <1>4. ASSUME NEW w \in Workers, NEW m \in MsgIds,
               RecordFailure(w, m) \/ PersistCommit(w, m)
        PROVE  runs'[r].node \in Successors[runs[r].node]
    <2> DEFINE t == task[w][m]
    <2>1. /\ t.pc \in {"fail", "commit"} /\ t.run \in Runs
          /\ PersistCommit(w, m) => t.pc = "commit"
      BY <1>4 DEF RecordFailure, PersistCommit, At, LifeInv, TypeInv, TaskOK
    <2>2. t.run = r
      BY <1>0, <1>4, <2>1 DEF RecordFailure, PersistCommit
    <2>3. ~RecordFailure(w, m)
      BY <1>0, <1>1, <2>2 DEF RecordFailure
    <2>4. t.next # None
      BY <1>0, <1>1, <1>4, <2>2, <2>3 DEF PersistCommit
    <2>5. t.next \in Successors[t.node]
      BY <1>4, <2>1, <2>3, <2>4 DEF LifeInv, ResultOK, ResultFits
    <2>6. t.node = runs[r].node
      BY <2>1, <2>2 DEF SoleInv, ExclusiveInv, Exclusive, Executing
    <2>7. runs'[r].node = t.next
      <3>1. runs'[r] = Advanced(runs[r], t.next, t.node)
        BY <1>0, <1>4, <2>2, <2>3, <2>4 DEF PersistCommit
      <3> QED
        BY <1>0, <3>1, StatementFields
    <2> QED
      BY <2>5, <2>6, <2>7
  <1> QED
    BY <1>2, <1>3, <1>4
       DEF Next, RelayStep, TaskStep, LockDue, SendJob, SkipJob, RelayCommit,
           RelayAbort, Receive, WorkerCrash, ReadRun, ExecuteNode, ExecuteError,
           PersistBegin, Ack, TaskError, LeaseExpire, DeadLetter

\* The three layers together.
UndisturbedInv == LifeInv /\ LockInv /\ SoleInv

\* The invariant is inductive.
LEMMA UndisturbedInductive ==
    ASSUME Undisturbed
    PROVE  /\ Init => UndisturbedInv
           /\ UndisturbedInv /\ [Next]_vars => UndisturbedInv'
  <1>1. Init => UndisturbedInv
    BY LifeInit, LockInit, SoleInit DEF UndisturbedInv
  <1>2. UndisturbedInv /\ [Next]_vars => UndisturbedInv'
    BY LifeStep, LockStep, SoleStep DEF UndisturbedInv, LifeInv
  <1> QED
    BY <1>1, <1>2

\* Without faults, early leases, Resume and Retry an active run has exactly one
\* job, and it names the checkpoint: the relays never send a row twice, and
\* the delete of a message and the row of the next job change places at once.
THEOREM OneJobAtATime ==
    ASSUME Undisturbed
    PROVE  Spec => []SingleJob
  <1>1. Init => UndisturbedInv
    BY UndisturbedInductive
  <1>2. UndisturbedInv /\ [Next]_vars => UndisturbedInv'
    BY UndisturbedInductive
  <1>3. UndisturbedInv => SingleJob
    BY OneIsSingle DEF UndisturbedInv
  <1> QED
    BY <1>1, <1>2, <1>3, PTL DEF Spec

\* Then the checkpoint also moves along the edges of the pinned graph.
THEOREM CheckpointsFollowEdges ==
    ASSUME Undisturbed
    PROVE  Spec => CheckpointFollowsEdges
  <1>1. Init => UndisturbedInv
    BY UndisturbedInductive
  <1>2. UndisturbedInv /\ [Next]_vars => UndisturbedInv'
    BY UndisturbedInductive
  <1>3. UndisturbedInv /\ [Next]_vars =>
            [\A r \in Runs :
                IsRow(runs[r]) /\ runs'[r].node # runs[r].node
                    => runs'[r].node \in Successors[runs[r].node]]_vars
    BY EdgesStep DEF UndisturbedInv
  <1> QED
    BY <1>1, <1>2, <1>3, PTL DEF Spec, CheckpointFollowsEdges
=============================================================================
