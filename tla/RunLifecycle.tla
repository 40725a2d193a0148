---------------------------- MODULE RunLifecycle ----------------------------
(***************************************************************************)
(* What a client may observe of its runs, whatever happens underneath.     *)
(*                                                                         *)
(* A run is its row: status, checkpoint, attempt and last output.  Besides *)
(* the row only one thing counts: which nodes somebody is working on.  The *)
(* outbox, the relays, the queue, leases, redeliveries, row locks and      *)
(* crashes are hidden.  The promise is that a run changes in two ways only *)
(* - at a client's request, if its status allows the request, and          *)
(* - by the result of a node that was the checkpoint of the run, active    *)
(*   then, when somebody began to work on it;                              *)
(* and that nothing else touches it.  Work may be repeated or lost at any  *)
(* point, and a result may come late: it is written in any status.         *)
(***************************************************************************)
EXTENDS Naturals

CONSTANTS
    Runs, Nodes,
    StartNode,    \* where a run begins
    Successors,   \* the nodes that may follow a node
    Responses,    \* the nodes that end a run
    FailNodes,    \* the nodes that may fail
    Payload       \* the output that stands for the request's payload

VARIABLES
    runs,      \* the rows
    working    \* per run: the nodes that somebody has begun and not given up

vars == <<runs, working>>

Init ==
    /\ runs = [r \in Runs |-> [status |-> "absent"]]
    /\ working = [r \in Runs |-> {}]

-----------------------------------------------------------------------------
(* Requests *)

Start(r) ==
    /\ runs[r].status = "absent"
    /\ runs' = [runs EXCEPT ![r] =
           [status |-> "pending", node |-> StartNode, attempt |-> 1,
            output |-> Payload]]
    /\ UNCHANGED working

\* A request that sets the status of a run, if its status is one of from.
SetStatus(r, from, to) ==
    /\ runs[r].status \in from
    /\ runs' = [runs EXCEPT ![r].status = to]
    /\ UNCHANGED working

Pause(r) == SetStatus(r, {"pending", "running", "paused"}, "paused")
Resume(r) == SetStatus(r, {"paused"}, "running")
Stop(r) == SetStatus(r, {"pending", "running", "paused", "cancelled"}, "cancelled")

Retry(r) ==
    /\ runs[r].status = "failed"
    /\ runs' = [runs EXCEPT ![r].status = "running", ![r].attempt = 1]
    /\ UNCHANGED working

-----------------------------------------------------------------------------
(* Work *)

\* Work begins on the checkpoint of an active run, and on nothing else.
Begin(r) ==
    /\ runs[r].status \in {"pending", "running"}
    /\ working' = [working EXCEPT ![r] = @ \cup {runs[r].node}]
    /\ UNCHANGED runs

\* Who wrote the result of n is done; somebody else may still work on n.
Ends(r, n) == working' \in {working, [working EXCEPT ![r] = @ \ {n}]}

\* The result of n: the run goes on at one of its successors.
Advance(r, n) ==
    /\ n \in working[r] \ Responses
    /\ \E next \in Successors[n] :
           runs' = [runs EXCEPT
                       ![r].status = "running", ![r].node = next,
                       ![r].attempt = 1, ![r].output = n]
    /\ Ends(r, n)

\* The result of a Response: the run is completed.
Complete(r, n) ==
    /\ n \in working[r] \cap Responses
    /\ runs' = [runs EXCEPT ![r].status = "completed", ![r].output = n]
    /\ Ends(r, n)

\* The error of n: the checkpoint and the last output stay for a retry.
Fail(r, n) ==
    /\ n \in working[r] \cap FailNodes
    /\ runs' = [runs EXCEPT ![r].status = "failed", ![r].attempt = @ + 1]
    /\ Ends(r, n)

\* Work is lost: the call, the process or the machine fails.
Abandon ==
    /\ working' \in [Runs -> SUBSET Nodes]
    /\ \A r \in Runs : working'[r] \subseteq working[r]
    /\ UNCHANGED runs

Next ==
    \/ \E r \in Runs :
          \/ Start(r) \/ Pause(r) \/ Resume(r) \/ Stop(r) \/ Retry(r)
          \/ Begin(r)
          \/ \E n \in Nodes : Advance(r, n) \/ Complete(r, n) \/ Fail(r, n)
    \/ Abandon

Spec == Init /\ [][Next]_vars
=============================================================================
