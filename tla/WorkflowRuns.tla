---------------------------- MODULE WorkflowRuns ----------------------------
(***************************************************************************)
(* The row of table workflow_runs and the statements of                    *)
(* db/queries/workflow_runs.sql that write it, as operators from a row to  *)
(* a row, with the WHERE clause of each statement as a separate predicate. *)
(*                                                                         *)
(* What is kept of a row: the status, the checkpoint (current_node_id and  *)
(* current_node_attempt) and last_output.  A JSON output is abstracted to  *)
(* the node that produced it, the request payload to the constant Payload. *)
(* Timestamps and the error document are left out: no statement of the     *)
(* execution path reads them.                                              *)
(***************************************************************************)
EXTENDS Naturals

CONSTANT Payload     \* the output recorded for the request payload of Start

Statuses ==
    {"pending", "running", "paused", "failed", "completed", "cancelled"}

\* Statuses in which the relay delivers a job and a worker executes one.
ActiveStatuses == {"pending", "running"}

FirstAttempt == 1

\* The rows of runs whose pinned version has the given nodes.
RowsOver(nodes) ==
    [status : Statuses, node : nodes, attempt : Nat \ {0},
     output : nodes \cup {Payload}]

\* A run that has not been inserted.
NoRow == [status |-> "absent"]

IsRow(row) == row.status # "absent"

\* A slip the runs notice: a deny-list that forgets paused and cancelled.
IsActiveByDenyList(row) == row.status \notin {"completed", "failed", "absent"}

IsActive(row) == row.status \in ActiveStatuses

-----------------------------------------------------------------------------
\* InsertWorkflowRun
InsertedRow(start) ==
    [status |-> "pending", node |-> start, attempt |-> FirstAttempt,
     output |-> Payload]

\* A slip: the checkpoint moves, last_output does not.
AdvancedWithoutOutput(row, next, output) ==
    [row EXCEPT !.status = "running", !.node = next, !.attempt = FirstAttempt]

\* AdvanceWorkflowRun: WHERE id only, so it applies to a row in any status.
Advanced(row, next, output) ==
    [row EXCEPT !.status = "running", !.node = next,
                !.attempt = FirstAttempt, !.output = output]

\* CompleteWorkflowRun: WHERE id only.
Completed(row, output) ==
    [row EXCEPT !.status = "completed", !.output = output]

\* FailWorkflowRun: WHERE id only.
Failed(row) == [row EXCEPT !.status = "failed", !.attempt = @ + 1]

CanPause(row) == row.status \in {"pending", "running", "paused"}
Paused(row) == [row EXCEPT !.status = "paused"]

CanResume(row) == row.status = "paused"
Resumed(row) == [row EXCEPT !.status = "running"]

CanStop(row) == row.status \in {"pending", "running", "paused", "cancelled"}
Stopped(row) == [row EXCEPT !.status = "cancelled"]

\* A slip: the attempt restarts from zero.
RetriedFromZero(row) == [row EXCEPT !.status = "running", !.attempt = 0]

CanRetry(row) == row.status = "failed"
Retried(row) == [row EXCEPT !.status = "running", !.attempt = FirstAttempt]
=============================================================================
