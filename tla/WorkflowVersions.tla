-------------------------- MODULE WorkflowVersions --------------------------
(***************************************************************************)
(* What the builder promises about versions: every request is one atomic   *)
(* step.  A save replaces the graph of the draft, or starts the next draft *)
(* when the head is live; a publish makes the head live if, at that very   *)
(* moment, its graph may be published; a run is pinned to a published      *)
(* version.  Nothing else ever happens to a version.                       *)
(*                                                                         *)
(* BuilderTransactions shows that the transactions of the code, which read *)
(* and write in several statements, keep this promise.                     *)
(***************************************************************************)
EXTENDS WorkflowTables

VARIABLES
    workflows,   \* table workflows
    versions,    \* table workflow_versions, each row with its graph
    pins         \* versions that a run has been started on

vars == <<workflows, versions, pins>>

Init ==
    /\ workflows = [w \in Workflows |-> NoWorkflow]
    /\ versions = [v \in VersionIds |-> NoVersion]
    /\ pins = {}

Create(w, v) ==
    /\ workflows[w] = NoWorkflow /\ versions[v] = NoVersion
    /\ workflows' = [workflows EXCEPT ![w] = CreatedWorkflow(v)]
    /\ versions' = [versions EXCEPT ![v] = EmptyDraft(w, 1)]
    /\ UNCHANGED pins

\* The head is a draft: its graph is replaced.
SaveInPlace(w, g) ==
    /\ IsListed(workflows[w]) /\ ~versions[workflows[w].latest].published
    /\ versions' = [versions EXCEPT ![workflows[w].latest].graph = g]
    /\ UNCHANGED <<workflows, pins>>

\* The head is live: the graph becomes the next version, a draft.
SaveNext(w, v, g) ==
    /\ IsListed(workflows[w]) /\ versions[workflows[w].latest].published
    /\ versions[v] = NoVersion
    /\ workflows' = [workflows EXCEPT ![w].latest = v]
    /\ versions' = [versions EXCEPT ![v] =
           [EmptyDraft(w, versions[workflows[w].latest].number + 1)
                EXCEPT !.graph = g]]
    /\ UNCHANGED pins

Publish(w) ==
    LET head == workflows[w].latest IN
    /\ IsListed(workflows[w]) /\ ~versions[head].published
    /\ versions[head].graph \in Publishable
    /\ workflows' = [workflows EXCEPT ![w].status = "published", ![w].live = head]
    /\ versions' = [versions EXCEPT ![head].published = TRUE]
    /\ UNCHANGED pins

Archive(w) ==
    /\ IsListed(workflows[w])
    /\ workflows' = [workflows EXCEPT ![w].status = "archived"]
    /\ UNCHANGED <<versions, pins>>

Pin(v) ==
    /\ versions[v].published
    /\ pins' = pins \cup {v}
    /\ UNCHANGED <<workflows, versions>>

Next ==
    \/ \E w \in Workflows, v \in VersionIds : Create(w, v)
    \/ \E w \in Workflows, g \in Payloads : SaveInPlace(w, g)
    \/ \E w \in Workflows, v \in VersionIds, g \in Payloads : SaveNext(w, v, g)
    \/ \E w \in Workflows : Publish(w) \/ Archive(w)
    \/ \E v \in VersionIds : Pin(v)

Spec == Init /\ [][Next]_vars
=============================================================================
