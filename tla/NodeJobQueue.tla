---------------------------- MODULE NodeJobQueue ----------------------------
(***************************************************************************)
(* The SQS standard queue of node jobs as the code in internal/queue uses  *)
(* it: Send, Receive with a visibility timeout, Delete with the receipt    *)
(* handle of one delivery, and the redrive policy that parks a message     *)
(* after MaxReceive deliveries.  A queue is a function from message ids to *)
(* messages; delivery is unordered.                                        *)
(*                                                                         *)
(* A job is {run_id, node_id}: workflow_version_id is the run's pinned     *)
(* version and attempt is the literal 1 of InsertRunNodeJobOutbox, so      *)
(* neither tells two jobs apart.  The receipt handle of a delivery is      *)
(* abstracted to its ordinal, the receive count.                           *)
(***************************************************************************)
EXTENDS Naturals

CONSTANTS
    Runs,        \* run ids
    Nodes,       \* node ids
    MsgIds,      \* pool of message ids: bounds the messages that exist at once
    None,        \* marks the absence of a run or of a node
    MaxReceive   \* maxReceiveCount of the redrive policy

ASSUME MaxReceiveAssumption == MaxReceive \in Nat \ {0}
ASSUME NoneAssumption == None \notin Runs /\ None \notin Nodes

Job == [run : Runs, node : Nodes]

Message == [run : Runs \cup {None}, node : Nodes \cup {None},
            receives : 0 .. MaxReceive, leased : BOOLEAN]

NoMessage == [run |-> None, node |-> None, receives |-> 0, leased |-> FALSE]

EmptyQueue == [m \in MsgIds |-> NoMessage]

Present(queue, m) == queue[m].run # None

\* A message whose visibility timeout has not been started or has elapsed.
Visible(queue, m) == Present(queue, m) /\ ~queue[m].leased

Deliverable(queue) ==
    {m \in MsgIds : Visible(queue, m) /\ queue[m].receives < MaxReceive}

Poisonous(queue, m) == Visible(queue, m) /\ queue[m].receives = MaxReceive

Sent(queue, m, job) ==
    [queue EXCEPT ![m] = [run |-> job.run, node |-> job.node,
                          receives |-> 0, leased |-> FALSE]]

Received(queue, batch) ==
    [m \in MsgIds |->
        IF m \in batch
        THEN [queue[m] EXCEPT !.receives = @ + 1, !.leased = TRUE]
        ELSE queue[m]]

LeaseExpired(queue, m) == [queue EXCEPT ![m].leased = FALSE]

Deleted(queue, m) == [queue EXCEPT ![m] = NoMessage]

\* A slip: the message is never deleted.
DeleteForgotten(queue, m, n) == {queue}

\* Results of Delete with the receipt of delivery number n: the handle of the
\* latest delivery deletes the message; an older handle may or may not.
DeleteResults(queue, m, n) ==
    IF queue[m].receives = n
    THEN {Deleted(queue, m)}
    ELSE {Deleted(queue, m), queue}
=============================================================================
