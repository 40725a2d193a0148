--------------------------- MODULE BuilderProofs ---------------------------
(***************************************************************************)
(* Theorems about BuilderTransactions, for any number of workflows,        *)
(* versions, clients and graphs.                                           *)
(*                                                                         *)
(* The inductive invariant says what a transaction may rely on while it    *)
(* holds the row of its workflow: Sound, that what it has read is still    *)
(* so, and Exclusive, that nobody else holds the row or the id of the      *)
(* version it is about to insert.  With it each commit is one step of      *)
(* WorkflowVersions.                                                       *)
(***************************************************************************)
EXTENDS BuilderTransactions, TLAPS

\* What the request of client c has read and still relies on.
Sound(c) ==
    LET t == tx[c]
        head == workflows[t.wf].latest
    IN /\ t.pc \in Holding \cup {"head", "lockhead", "insert"} => t.wf \in Workflows
       /\ t.pc \in Holding \cup {"lockhead", "insert"} => t.version \in VersionIds
       /\ t.pc \in {"head", "persist"} => t.graph \in Payloads
       /\ t.pc = "lockhead" => versions[t.version] # NoVersion
       /\ t.pc = "insert" => versions[t.version].published
       /\ t.pc \in Holding => IsListed(workflows[t.wf])
       /\ t.pc = "persist" =>
             IF versions[head].published
             THEN versions[t.version] = NoVersion ELSE t.version = head
       /\ t.pc \in {"nodes", "edges", "validate"} =>
             t.version = head /\ ~versions[head].published
       /\ t.pc \in {"edges", "validate"} =>
             t.graph.nodes = versions[t.version].graph.nodes
       /\ t.pc = "validate" => t.graph = versions[t.version].graph

Exclusive ==
    \A c, d \in Clients : c # d =>
        /\ tx[c].pc \in Holding /\ tx[d].pc \in Holding => tx[c].wf # tx[d].wf
        /\ tx[c].pc = "persist" /\ versions[tx[c].version] = NoVersion
              => tx[d].version # tx[c].version

\* Every version belongs to a workflow that exists.
Owned ==
    \A v \in VersionIds :
        versions[v] # NoVersion => workflows[versions[v].workflow] # NoWorkflow

Inv ==
    /\ TypeOK /\ Owned /\ HeadCoherent /\ PublishedIsValid
    /\ \A c \in Clients : Sound(c)
    /\ Exclusive
-----------------------------------------------------------------------------
(* Helpers *)

\* The four statements of persistGraph leave exactly the payload.
LEMMA PersistedIsPayload ==
    ASSUME NEW g \in Payloads, NEW old
    PROVE  PersistedGraph(old, g) = g
  <1>1. g = [nodes |-> g.nodes, edges |-> g.edges]
    BY PayloadsAssumption
  <1>2. \A S, T : Retained(Upserted(S, T), T) = T
    BY DEF Retained, Upserted, Ids
  <1> QED
    BY <1>1, <1>2 DEF PersistedGraph

\* A payload has the shape a transaction keeps.
LEMMA PayloadShape ==
    \A g \in Payloads :
        g \in Graphs /\ g = [nodes |-> g.nodes, edges |-> g.edges]
  BY PayloadsAssumption DEF Graphs

\* A row that is there has its types, and a workflow that is listed is there.
LEMMA RowsTyped ==
    ASSUME TypeOK
    PROVE  /\ \A w \in Workflows : workflows[w] # NoWorkflow =>
                 /\ workflows[w] \in WorkflowRow
                 /\ workflows[w].latest \in VersionIds
           /\ \A w \in Workflows : IsListed(workflows[w]) => workflows[w] # NoWorkflow
           /\ \A v \in VersionIds :
                 /\ versions[v].workflow \in Workflows => versions[v] # NoVersion
                 /\ versions[v].published => versions[v] # NoVersion
                 /\ versions[v] # NoVersion => versions[v] \in VersionRow
                 /\ versions[v].graph \in Payloads
  BY NullAssumption, PayloadsAssumption
     DEF TypeOK, WorkflowRow, VersionRow, NoWorkflow, NoVersion, IsListed

\* A set of numbers has one maximum.
LEMMA OneMaximum ==
    ASSUME NEW S, S \subseteq Nat \ {0}, NEW m \in S, \A k \in S : k <= m,
           NEW n \in {0} \cup S, \A k \in S : k <= n
    PROVE  n = m
  <1>1. m <= n /\ m \in Nat /\ n \in Nat
    OBVIOUS
  <1>2. n # 0
    BY <1>1
  <1>3. n <= m
    BY <1>2
  <1> QED
    BY <1>1, <1>3

\* MAX(version) is the number of the head.
LEMMA HighestIsHead ==
    ASSUME TypeOK, HeadCoherent, NEW w \in Workflows, workflows[w] # NoWorkflow
    PROVE  HighestNumber(w) = versions[workflows[w].latest].number
  <1> DEFINE numbers == {versions[v].number :
                            v \in {u \in VersionIds : versions[u].workflow = w}}
             top == versions[workflows[w].latest].number
  <1>1. /\ workflows[w].latest \in VersionIds
        /\ versions[workflows[w].latest].workflow = w
        /\ \A v \in VersionIds : versions[v].workflow = w /\ v # workflows[w].latest
              => versions[v].number < top
    BY RowsTyped DEF HeadCoherent
  <1>2. \A v \in VersionIds : versions[v].workflow = w => versions[v].number \in Nat \ {0}
    BY RowsTyped DEF VersionRow
  <1>3. top \in numbers /\ numbers \subseteq Nat \ {0}
    BY <1>1, <1>2
  <1>4. \A k \in numbers : k <= top
    BY <1>1, <1>2
  <1>5. \A n \in {0} \cup numbers : (\A k \in numbers : k <= n) => n = top
    <2> HIDE DEF numbers, top
    <2> QED
      BY <1>3, <1>4, OneMaximum
  <1>6. HighestNumber(w) \in {0} \cup numbers /\ \A k \in numbers : k <= HighestNumber(w)
    BY <1>3, <1>4 DEF HighestNumber
  <1> QED
    BY <1>5, <1>6

-----------------------------------------------------------------------------
(* Steps that only one transaction notices *)

\* What client c may not share with client d.
Apart(c, d) ==
    /\ tx[c].pc \in Holding /\ tx[d].pc \in Holding => tx[c].wf # tx[d].wf
    /\ tx[c].pc = "persist" /\ versions[tx[c].version] = NoVersion
          => tx[d].version # tx[c].version
    /\ tx[d].pc = "persist" /\ versions[tx[d].version] = NoVersion
          => tx[c].version # tx[d].version

\* A run may be pinned to a published version.
OnePin == \E v \in VersionIds : versions[v].published /\ pins' = pins \cup {v}

\* The tables stay, but for a pin, and one client moves on.
LEMMA LocalStep ==
    ASSUME Inv, NEW c \in Clients,
           UNCHANGED <<workflows, versions>>,
           pins' = pins \/ OnePin,
           tx' \in [Clients -> Transactions],
           \A d \in Clients \ {c} : tx'[d] = tx[d],
           Sound(c)', \A d \in Clients \ {c} : Apart(c, d)'
    PROVE  Inv'
  <1>1. TypeOK' /\ Owned' /\ HeadCoherent' /\ PublishedIsValid'
    <2>1. Owned' /\ HeadCoherent'
      BY DEF Inv, Owned, HeadCoherent
    <2>2. pins' \subseteq VersionIds /\ \A v \in pins' : versions[v].published
      BY DEF Inv, TypeOK, PublishedIsValid, OnePin
    <2> QED
      BY <2>1, <2>2 DEF Inv, TypeOK, PublishedIsValid
  <1>2. \A d \in Clients : Sound(d)'
    <2> TAKE d \in Clients
    <2>1. CASE d = c
      BY <2>1
    <2>2. CASE d # c
      <3>1. tx'[d] = tx[d] /\ Sound(d)
        BY <2>2 DEF Inv
      <3> QED
        BY <3>1 DEF Sound
    <2> QED
      BY <2>1, <2>2
  <1>3. Exclusive'
    BY DEF Inv, Exclusive, Apart
  <1> QED
    BY <1>1, <1>2, <1>3 DEF Inv

\* A transaction that ends leaves nothing to be kept.
LEMMA EndStep ==
    ASSUME Inv, NEW c \in Clients, NEW pc \in {"idle", "notfound", "invalid"},
           UNCHANGED <<workflows, versions>>,
           pins' = pins \/ OnePin,
           tx' \in {[tx EXCEPT ![c] = NoTx], [tx EXCEPT ![c].pc = pc]}
    PROVE  Inv'
  <1>1. tx \in [Clients -> Transactions] /\ NoTx \in Transactions
    BY PayloadShape, PayloadsAssumption
       DEF Inv, TypeOK, NoTx, Transactions, States, EmptyGraph
  <1>2. tx' \in [Clients -> Transactions]
    <2>1. tx[c] \in Transactions /\ pc \in States
      BY <1>1 DEF States
    <2>2. [tx[c] EXCEPT !.pc = pc] \in Transactions
      BY <2>1 DEF Transactions
    <2> QED
      BY <1>1, <2>2
  <1>3. \A d \in Clients \ {c} : tx'[d] = tx[d]
    BY <1>1
  <1>4. /\ tx'[c].pc \in {"idle", "notfound", "invalid"}
        /\ tx'[c].version \in {None, tx[c].version}
    BY <1>1 DEF NoTx, Transactions
  <1>5. Sound(c)'
    BY <1>4 DEF Sound, Holding
  <1>6. \A d \in Clients \ {c} : Apart(c, d)'
    <2> TAKE d \in Clients \ {c}
    <2>1. tx[d].pc = "persist" => tx[d].version \in VersionIds
      BY DEF Inv, Sound, Holding
    <2> QED
      BY <1>3, <1>4, <2>1, NullAssumption DEF Apart, Inv, Exclusive, Holding
  <1> QED
    BY <1>2, <1>3, <1>5, <1>6, LocalStep

\* A request whose workflow is known begins.
LEMMA RequestStep ==
    ASSUME Inv, NEW c \in Clients, NEW w \in Workflows,
           NEW pc \in {"head", "lockhead", "insert", "notfound"},
           NEW v \in VersionIds \cup {None}, NEW g \in Payloads,
           Request(c, pc, w, v, g),
           v # None => versions[v] # NoVersion,
           pc = "lockhead" => v # None,
           pc = "insert" => v # None /\ versions[v].published
    PROVE  Inv'
  <1>0. /\ tx[c] = NoTx /\ UNCHANGED <<workflows, versions, pins>>
        /\ tx' = [tx EXCEPT ![c] = [pc |-> pc, wf |-> w, version |-> v, graph |-> g]]
    BY DEF Request
  <1>1. tx \in [Clients -> Transactions]
    BY DEF Inv, TypeOK
  <1>2. [pc |-> pc, wf |-> w, version |-> v, graph |-> g] \in Transactions
    BY PayloadShape DEF Transactions, States
  <1>3. /\ tx' \in [Clients -> Transactions]
        /\ \A d \in Clients \ {c} : tx'[d] = tx[d]
        /\ tx'[c] = [pc |-> pc, wf |-> w, version |-> v, graph |-> g]
    BY <1>0, <1>1, <1>2
  <1>4. Sound(c)'
    BY <1>0, <1>3 DEF Sound, Holding
  <1>5. \A d \in Clients \ {c} : Apart(c, d)'
    <2> TAKE d \in Clients \ {c}
    <2>1. tx[d].pc = "persist" => tx[d].version \in VersionIds
      BY DEF Inv, Sound, Holding
    <2> QED
      BY <1>0, <1>3, <2>1, NullAssumption DEF Apart, Holding
  <1> QED
    BY <1>0, <1>3, <1>4, <1>5, LocalStep

\* The requests themselves: what they read is there.
LEMMA RequestsKeepInv ==
    ASSUME Inv, NEW c \in Clients, NEW w \in Workflows
    PROVE  /\ \A g \in Payloads : Update(c, w, g) => Inv'
           /\ PublishRequest(c, w) => Inv'
           /\ GetPublishedWorkflowForStart(c, w) => Inv'
  <1>1. EmptyGraph \in Payloads
    BY PayloadsAssumption
  <1>2. ASSUME NEW g \in Payloads, Update(c, w, g) PROVE Inv'
    BY <1>2, RequestStep DEF Update
  <1>3. ASSUME PublishRequest(c, w) PROVE Inv'
    <2>1. CASE IsListed(workflows[w])
      <3>1. /\ workflows[w] # NoWorkflow /\ workflows[w].latest \in VersionIds
            /\ versions[workflows[w].latest] # NoVersion
        BY <2>1, RowsTyped DEF Inv, HeadCoherent
      <3> QED
        BY <1>1, <1>3, <2>1, <3>1, NullAssumption, RequestStep DEF PublishRequest
    <2>2. CASE ~IsListed(workflows[w])
      BY <1>1, <1>3, <2>2, RequestStep DEF PublishRequest
    <2> QED
      BY <2>1, <2>2
  <1>4. ASSUME GetPublishedWorkflowForStart(c, w) PROVE Inv'
    <2>1. CASE workflows[w].status = "published"
      <3>1. workflows[w] # NoWorkflow
        BY <2>1 DEF NoWorkflow
      <3>2. workflows[w].live # None /\ versions[workflows[w].live].published
        BY <2>1, <3>1 DEF Inv, HeadCoherent
      <3>3. workflows[w].live \in VersionIds /\ versions[workflows[w].live] # NoVersion
        BY <3>1, <3>2, RowsTyped DEF Inv, WorkflowRow
      <3> QED
        BY <1>1, <1>4, <2>1, <3>2, <3>3, RequestStep DEF GetPublishedWorkflowForStart
    <2>2. CASE workflows[w].status # "published"
      BY <1>1, <1>4, <2>2, RequestStep DEF GetPublishedWorkflowForStart
    <2> QED
      BY <2>1, <2>2
  <1> QED
    BY <1>2, <1>3, <1>4

\* The lock of a save: the head it reads stays the head.
LEMMA GetWorkflowHeadInv ==
    ASSUME Inv, NEW c \in Clients, GetWorkflowHead(c)
    PROVE  Inv'
  <1> DEFINE w == tx[c].wf
  <1>0. /\ At(c, "head") /\ ~Locked(w) /\ UNCHANGED <<workflows, versions, pins>>
    BY DEF GetWorkflowHead
  <1>1. /\ w \in Workflows /\ tx[c].graph \in Payloads
        /\ tx \in [Clients -> Transactions]
    BY <1>0 DEF Inv, TypeOK, Sound, At
  <1>2. CASE ~IsListed(workflows[w])
    BY <1>0, <1>2, EndStep DEF GetWorkflowHead, Respond
  <1>3. CASE IsListed(workflows[w])
    <2>1. /\ workflows[w] # NoWorkflow /\ workflows[w].latest \in VersionIds
      BY <1>1, <1>3, RowsTyped DEF Inv
    <2>2. PICK v \in IF NeedsDraftFork(workflows[w])
                     THEN FreeVersions ELSE {workflows[w].latest} :
              tx' = [tx EXCEPT ![c].pc = "persist", ![c].version = v]
      BY <1>3 DEF GetWorkflowHead
    <2>3. NeedsDraftFork(workflows[w]) <=> versions[workflows[w].latest].published
      BY <1>1, <2>1, NullAssumption DEF Inv, HeadCoherent, NeedsDraftFork
    <2>4. versions[workflows[w].latest] # NoVersion
      BY <1>1, <2>1, RowsTyped DEF Inv, HeadCoherent
    <2>5. /\ v \in VersionIds
          /\ IF versions[workflows[w].latest].published
             THEN versions[v] = NoVersion ELSE v = workflows[w].latest
          /\ versions[v] = NoVersion => \A d \in Clients : tx[d].version # v
      BY <2>1, <2>2, <2>3, <2>4 DEF FreeVersions
    <2>6. [tx[c] EXCEPT !.pc = "persist", !.version = v] \in Transactions
      BY <1>1, <2>5 DEF Transactions, States, Holding
    <2>7. /\ tx' \in [Clients -> Transactions]
          /\ \A d \in Clients \ {c} : tx'[d] = tx[d]
          /\ tx'[c] = [tx[c] EXCEPT !.pc = "persist", !.version = v]
      BY <1>1, <2>2, <2>6
    <2>8. /\ tx'[c].pc = "persist" /\ tx'[c].version = v /\ tx'[c].wf = w
          /\ tx'[c].graph = tx[c].graph
      BY <1>1, <2>7 DEF Transactions
    <2>9. Sound(c)'
      BY <1>0, <1>1, <1>3, <2>5, <2>8 DEF Sound, Holding
    <2>10. \A d \in Clients \ {c} : Apart(c, d)'
      <3> TAKE d \in Clients \ {c}
      <3>1. tx[d].pc \in Holding => tx[d].wf # w
        BY <1>0 DEF Locked, Holds
      <3>2. tx[d].pc = "persist" /\ versions[tx[d].version] = NoVersion
               => v # tx[d].version
        BY <2>5
      <3> QED
        BY <1>0, <2>5, <2>7, <2>8, <3>1, <3>2 DEF Apart
    <2> QED
      BY <1>0, <2>7, <2>9, <2>10, LocalStep
  <1> QED
    BY <1>2, <1>3

\* The lock of a publish, and its two reads.
LEMMA PublishReadsInv ==
    ASSUME Inv, NEW c \in Clients,
           LockWorkflowForPublish(c) \/ ListNodesForPublish(c) \/ ListEdgesForPublish(c)
    PROVE  Inv'
  <1> DEFINE w == tx[c].wf
             v == tx[c].version
  <1>0. tx \in [Clients -> Transactions] /\ UNCHANGED <<workflows, versions, pins>>
    BY DEF Inv, TypeOK, LockWorkflowForPublish, ListNodesForPublish, ListEdgesForPublish
  <1>1. CASE LockWorkflowForPublish(c)
    <2>0. /\ tx[c].pc = "lockhead" /\ ~Locked(w)
      BY <1>1 DEF LockWorkflowForPublish, At
    <2>1. CASE tx' = [tx EXCEPT ![c] = NoTx] \/ Respond(c, "notfound")
      BY <1>0, <2>1, EndStep DEF Respond
    <2>2. CASE /\ IsListed(workflows[w]) /\ workflows[w].latest = v
               /\ ~versions[v].published /\ Respond(c, "nodes")
      <3>1. w \in Workflows /\ v \in VersionIds /\ versions[v] # NoVersion
        BY <2>0 DEF Inv, Sound
      <3>2. [tx[c] EXCEPT !.pc = "nodes"] \in Transactions
        BY <1>0 DEF Transactions, States, Holding
      <3>3. /\ tx' \in [Clients -> Transactions]
            /\ \A d \in Clients \ {c} : tx'[d] = tx[d]
            /\ tx'[c].pc = "nodes" /\ tx'[c].wf = w /\ tx'[c].version = v
        BY <1>0, <2>2, <3>2 DEF Respond, Transactions
      <3>4. Sound(c)'
        BY <1>0, <2>2, <3>1, <3>3 DEF Sound, Holding
      <3>5. \A d \in Clients \ {c} : Apart(c, d)'
        <4> TAKE d \in Clients \ {c}
        <4>1. tx[d].pc \in Holding => tx[d].wf # w
          BY <2>0 DEF Locked, Holds
        <4> QED
          BY <1>0, <3>1, <3>3, <4>1 DEF Apart
      <3> QED
        BY <1>0, <3>3, <3>4, <3>5, LocalStep
    <2> QED
      BY <1>1, <2>1, <2>2 DEF LockWorkflowForPublish
  <1>2. CASE ListNodesForPublish(c) \/ ListEdgesForPublish(c)
    <2>1. PICK pc \in {"edges", "validate"}, g \in Graphs :
             /\ tx' = [tx EXCEPT ![c].pc = pc, ![c].graph = g]
             /\ tx[c].pc \in {"nodes", "edges"}
             /\ g.nodes = versions[v].graph.nodes
             /\ pc = "validate" => g = versions[v].graph
      <3>0. /\ tx[c].pc \in {"nodes", "edges"} /\ tx[c].graph \in Graphs
        BY <1>0, <1>2 DEF ListNodesForPublish, ListEdgesForPublish, At, Transactions
      <3>1. v \in VersionIds /\ versions[v].graph \in Payloads
        BY <3>0, RowsTyped DEF Inv, Sound, Holding
      <3>2. CASE ListNodesForPublish(c)
        <4> DEFINE g == [tx[c].graph EXCEPT !.nodes = versions[v].graph.nodes]
        <4>1. g \in Graphs /\ g.nodes = versions[v].graph.nodes
          BY <3>0, <3>1 DEF Graphs
        <4>2. tx' = [tx EXCEPT ![c].pc = "edges", ![c].graph = g]
          BY <1>0, <3>2 DEF ListNodesForPublish
        <4> QED
          BY <3>0, <4>1, <4>2
      <3>3. CASE ListEdgesForPublish(c)
        <4> DEFINE g == [tx[c].graph EXCEPT !.edges = versions[v].graph.edges]
        <4>0. tx[c].graph.nodes = versions[v].graph.nodes
          BY <3>3 DEF ListEdgesForPublish, At, Inv, Sound
        <4>1. g \in Graphs /\ g = versions[v].graph
          BY <3>0, <3>1, <4>0, PayloadShape DEF Graphs
        <4>2. tx' = [tx EXCEPT ![c].pc = "validate", ![c].graph = g]
          BY <1>0, <3>3 DEF ListEdgesForPublish
        <4> QED
          BY <3>0, <4>1, <4>2
      <3> QED
        BY <1>2, <3>2, <3>3
    <2>2. [tx[c] EXCEPT !.pc = pc, !.graph = g] \in Transactions
      BY <1>0, <2>1 DEF Transactions, States, Holding
    <2>3. /\ tx' \in [Clients -> Transactions]
          /\ \A d \in Clients \ {c} : tx'[d] = tx[d]
          /\ tx'[c].pc = pc /\ tx'[c].wf = w /\ tx'[c].version = v /\ tx'[c].graph = g
      BY <1>0, <2>1, <2>2 DEF Transactions
    <2>4. Sound(c)'
      <3>1. Sound(c) /\ tx[c].pc \in Holding
        BY <2>1 DEF Inv, Holding
      <3> QED
        BY <1>0, <2>1, <2>3, <3>1 DEF Sound, Holding
    <2>5. \A d \in Clients \ {c} : Apart(c, d)'
      BY <1>0, <2>1, <2>3 DEF Apart, Inv, Exclusive, Holding
    <2> QED
      BY <1>0, <2>3, <2>4, <2>5, LocalStep
  <1> QED
    BY <1>1, <1>2

-----------------------------------------------------------------------------
(* Steps that change a row *)

\* What a workflow that exists has (HeadCoherent, for one workflow).
Coherent(w) ==
    LET row == workflows[w] IN
    /\ versions[row.latest].workflow = w
    /\ versions[row.latest].published <=> row.latest = row.live
    /\ row.status = "draft" => row.live = None
    /\ row.status = "published" => row.live # None
    /\ row.live # None =>
          versions[row.live].workflow = w /\ versions[row.live].published
    /\ \A v \in VersionIds : versions[v].workflow = w /\ v # row.latest =>
          versions[v].published /\ versions[v].number < versions[row.latest].number

\* Inv, as far as it is about the tables.
Tables ==
    /\ workflows \in [Workflows -> WorkflowRow \cup {NoWorkflow}]
    /\ versions \in [VersionIds -> VersionRow \cup {NoVersion}]
    /\ pins \subseteq VersionIds
    /\ Owned /\ HeadCoherent /\ PublishedIsValid

\* One workflow changes, and one version, which is that workflow's.
RowsOf(w, v) ==
    /\ \A x \in Workflows \ {w} : workflows'[x] = workflows[x]
    /\ \A u \in VersionIds \ {v} : versions'[u] = versions[u]
    /\ versions[v] = NoVersion \/ versions[v].workflow = w
    /\ versions'[v].workflow = w
    /\ versions'[v] # NoVersion /\ workflows'[w] # NoWorkflow
    /\ versions[v].published => versions'[v].published

\* Such a step is about the tables of that workflow only.
LEMMA RowsKept ==
    ASSUME Inv, NEW w \in Workflows, NEW v \in VersionIds, RowsOf(w, v),
           workflows' \in [Workflows -> WorkflowRow \cup {NoWorkflow}],
           versions' \in [VersionIds -> VersionRow \cup {NoVersion}],
           pins' = pins, Coherent(w)',
           versions'[v].published => versions'[v].graph \in Publishable
    PROVE  Tables'
  <1>1. \A x \in Workflows \ {w} : workflows'[x] # NoWorkflow => Coherent(x)'
    <2> TAKE x \in Workflows \ {w}
    <2> HAVE workflows'[x] # NoWorkflow
    <2>1. /\ workflows'[x] = workflows[x] /\ workflows[x] # NoWorkflow
          /\ workflows[x].latest \in VersionIds
      BY RowsTyped DEF Inv, RowsOf
    <2>2. Coherent(x)
      BY <2>1 DEF Inv, HeadCoherent, Coherent
    <2>3. versions[v].workflow # x /\ versions'[v].workflow # x
      BY NullAssumption DEF RowsOf, NoVersion
    <2>4. versions'[workflows[x].latest] = versions[workflows[x].latest]
      BY <2>1, <2>2, <2>3 DEF RowsOf, Coherent
    <2>5. workflows[x].live # None => versions'[workflows[x].live] = versions[workflows[x].live]
      <3>1. workflows[x].live # None => workflows[x].live \in VersionIds
        BY <2>1, RowsTyped DEF Inv, WorkflowRow
      <3> QED
        BY <2>2, <2>3, <3>1 DEF RowsOf, Coherent
    <2>6. \A u \in VersionIds : versions'[u].workflow = x => versions'[u] = versions[u]
      BY <2>3 DEF RowsOf
    <2> QED
      BY <2>1, <2>2, <2>4, <2>5, <2>6 DEF Coherent
  <1>2. HeadCoherent'
    BY <1>1 DEF HeadCoherent, Coherent
  <1>3. Owned'
    <2> SUFFICES ASSUME NEW u \in VersionIds, versions'[u] # NoVersion
                 PROVE  workflows'[versions'[u].workflow] # NoWorkflow
      BY DEF Owned
    <2>1. CASE u = v
      BY <2>1 DEF RowsOf
    <2>2. CASE u # v
      <3>1. versions'[u] = versions[u]
        BY <2>2 DEF RowsOf
      <3>2. versions[u] # NoVersion => versions[u].workflow \in Workflows
        BY RowsTyped DEF Inv, VersionRow
      <3> QED
        BY <3>1, <3>2 DEF Inv, Owned, RowsOf
    <2> QED
      BY <2>1, <2>2
  <1>4. PublishedIsValid'
    <2>1. pins \subseteq VersionIds
      BY DEF Inv, TypeOK
    <2> QED
      BY <2>1 DEF Inv, PublishedIsValid, RowsOf
  <1> QED
    BY <1>2, <1>3, <1>4 DEF Tables, Inv, TypeOK

\* The requests of clients C end, and no other holds the rows that change.
Ends(C, w, v) ==
    /\ tx' = [d \in Clients |-> IF d \in C THEN NoTx ELSE tx[d]]
    /\ \A d \in Clients \ C :
          /\ tx[d].pc \in Holding => tx[d].wf # w
          /\ versions[v] = NoVersion => tx[d].version # v

\* Such a step leaves alone what the other transactions rely on.
LEMMA CommitStep ==
    ASSUME Inv, NEW w \in Workflows, NEW v \in VersionIds, NEW C \in SUBSET Clients,
           RowsOf(w, v), Ends(C, w, v), Tables'
    PROVE  Inv'
  <1>1. tx \in [Clients -> Transactions] /\ NoTx \in Transactions
    BY PayloadShape, PayloadsAssumption
       DEF Inv, TypeOK, NoTx, Transactions, States, EmptyGraph
  <1>2. TypeOK'
    BY <1>1 DEF Tables, TypeOK, Ends
  <1>3. ASSUME NEW d \in Clients PROVE Sound(d)'
    <2>1. CASE d \in C
      BY <2>1 DEF Sound, NoTx, Holding, Ends
    <2>2. CASE d \notin C
      <3>1. tx'[d] = tx[d] /\ Sound(d)
        BY <2>2 DEF Inv, Ends
      <3>2. \A u \in VersionIds :
               /\ versions[u] # NoVersion => versions'[u] # NoVersion
               /\ versions[u].published => versions'[u].published
        BY DEF RowsOf
      <3>3. ASSUME tx[d].pc \in Holding
            PROVE  /\ workflows'[tx[d].wf] = workflows[tx[d].wf]
                   /\ versions'[workflows[tx[d].wf].latest] = versions[workflows[tx[d].wf].latest]
                   /\ versions'[tx[d].version] = versions[tx[d].version]
        <4> DEFINE x == tx[d].wf
                   head == workflows[x].latest
        <4>1. /\ x \in Workflows \ {w} /\ tx[d].version \in VersionIds
              /\ IsListed(workflows[x])
          BY <2>2, <3>1, <3>3 DEF Sound, Ends
        <4>2. /\ head \in VersionIds /\ versions[head].workflow = x
              /\ versions[head] # NoVersion
          BY <4>1, RowsTyped DEF Inv, HeadCoherent
        <4>3. head # v
          BY <4>1, <4>2 DEF RowsOf
        <4>4. tx[d].version # v
          <5>1. CASE tx[d].pc = "persist"
            BY <2>2, <3>1, <4>2, <4>3, <4>1, <5>1, NullAssumption DEF Sound, RowsOf, NoVersion, Ends
          <5>2. CASE tx[d].pc # "persist"
            BY <3>1, <3>3, <4>3, <5>2 DEF Sound, Holding
          <5> QED
            BY <5>1, <5>2
        <4> QED
          BY <4>1, <4>2, <4>3, <4>4 DEF RowsOf
      <3>4. CASE tx[d].pc \in Holding
        BY <3>1, <3>3, <3>4 DEF Sound, Holding
      <3>5. CASE tx[d].pc \notin Holding
        BY <3>1, <3>2, <3>5 DEF Sound, Holding
      <3> QED
        BY <3>4, <3>5
    <2> QED
      BY <2>1, <2>2
  <1>4. Exclusive'
    <2> SUFFICES ASSUME NEW c \in Clients, NEW d \in Clients, c # d
                 PROVE  /\ tx'[c].pc \in Holding /\ tx'[d].pc \in Holding
                              => tx'[c].wf # tx'[d].wf
                        /\ tx'[c].pc = "persist" /\ versions'[tx'[c].version] = NoVersion
                              => tx'[d].version # tx'[c].version
      BY DEF Exclusive, Holding
    <2>1. /\ tx'[c] = tx[c] \/ tx'[c] = NoTx
          /\ tx'[d] = tx[d] \/ tx'[d] = NoTx
      BY DEF Ends
    <2>2. /\ tx[c].pc \in Holding /\ tx[d].pc \in Holding => tx[c].wf # tx[d].wf
          /\ tx[c].pc = "persist" /\ versions[tx[c].version] = NoVersion
                => tx[d].version # tx[c].version
      BY DEF Inv, Exclusive
    <2>3. tx[c].pc = "persist" => tx[c].version \in VersionIds
      BY DEF Inv, Sound, Holding
    <2>4. \A u \in VersionIds : versions'[u] = NoVersion => versions[u] = NoVersion
      BY DEF RowsOf
    <2>5. NoTx.pc \notin Holding /\ NoTx.pc # "persist" /\ NoTx.version \notin VersionIds
      BY NullAssumption DEF NoTx, Holding
    <2> QED
      BY <2>1, <2>2, <2>3, <2>4, <2>5
  <1> QED
    BY <1>2, <1>3, <1>4 DEF Inv, Tables

-----------------------------------------------------------------------------
(* Each commit keeps the invariant and is a step of WorkflowVersions *)

\* The abstract specification speaks of the same rows.
LEMMA SameRows ==
    /\ \A v : Promise!CreatedWorkflow(v) = CreatedWorkflow(v)
    /\ \A w, n : Promise!EmptyDraft(w, n) = EmptyDraft(w, n)
    /\ Promise!NoWorkflow = NoWorkflow /\ Promise!NoVersion = NoVersion
    /\ \A row : Promise!IsListed(row) <=> IsListed(row)
  BY DEF Promise!CreatedWorkflow, CreatedWorkflow, Promise!EmptyDraft, EmptyDraft,
         Promise!NoWorkflow, NoWorkflow, Promise!NoVersion, NoVersion,
         Promise!EmptyGraph, EmptyGraph, Promise!IsListed, IsListed

\* A new version with a graph.
LEMMA FilledDraft ==
    ASSUME NEW w \in Workflows, NEW n \in Nat \ {0}, NEW g \in Payloads
    PROVE  LET row == [EmptyDraft(w, n) EXCEPT !.graph = g]
           IN  /\ row \in VersionRow
               /\ row.workflow = w /\ row.number = n /\ ~row.published
  <1>1. /\ EmptyDraft(w, n) \in VersionRow
        /\ EmptyDraft(w, n).workflow = w /\ EmptyDraft(w, n).number = n
        /\ ~EmptyDraft(w, n).published
    BY PayloadsAssumption DEF EmptyDraft, VersionRow
  <1> QED
    BY <1>1 DEF VersionRow

\* Create: nobody can know of the workflow.
LEMMA CreateCommits ==
    ASSUME Inv, NEW w \in Workflows, CreateWorkflow(w)
    PROVE  Inv' /\ Promise!Next
  <1>0. PICK v \in FreeVersions :
           /\ workflows' = [workflows EXCEPT ![w] = CreatedWorkflow(v)]
           /\ versions' = [versions EXCEPT ![v] = EmptyDraft(w, 1)]
    BY DEF CreateWorkflow
  <1>1. /\ workflows[w] = NoWorkflow /\ pins' = pins /\ tx' = tx
        /\ workflows \in [Workflows -> WorkflowRow \cup {NoWorkflow}]
        /\ versions \in [VersionIds -> VersionRow \cup {NoVersion}]
        /\ tx \in [Clients -> Transactions]
    BY DEF CreateWorkflow, Inv, TypeOK
  <1>2. /\ v \in VersionIds /\ versions[v] = NoVersion
        /\ \A d \in Clients : tx[d].version # v
    BY <1>0 DEF FreeVersions
  <1>3. /\ CreatedWorkflow(v) \in WorkflowRow /\ CreatedWorkflow(v) # NoWorkflow
        /\ EmptyDraft(w, 1) \in VersionRow /\ EmptyDraft(w, 1) # NoVersion
    BY <1>2, PayloadsAssumption, NullAssumption
       DEF CreatedWorkflow, WorkflowRow, NoWorkflow, EmptyDraft, VersionRow, NoVersion
  <1>4. /\ workflows' \in [Workflows -> WorkflowRow \cup {NoWorkflow}]
        /\ versions' \in [VersionIds -> VersionRow \cup {NoVersion}]
        /\ workflows'[w] = CreatedWorkflow(v) /\ versions'[v] = EmptyDraft(w, 1)
    BY <1>0, <1>1, <1>2, <1>3
  <1>5. RowsOf(w, v)
    BY <1>0, <1>1, <1>2, <1>3, <1>4 DEF RowsOf, EmptyDraft, NoVersion
  <1>6. \A u \in VersionIds \ {v} : versions'[u].workflow # w
    <2> TAKE u \in VersionIds \ {v}
    <2>1. versions'[u] = versions[u]
      BY <1>5 DEF RowsOf
    <2>2. versions[u].workflow = w => versions[u] # NoVersion
      BY NullAssumption DEF NoVersion
    <2> QED
      BY <1>1, <2>1, <2>2 DEF Inv, Owned
  <1>7. Coherent(w)'
    BY <1>2, <1>4, <1>6, NullAssumption DEF Coherent, CreatedWorkflow, EmptyDraft
  <1>8. Tables'
    BY <1>1, <1>2, <1>4, <1>5, <1>7, RowsKept DEF EmptyDraft
  <1>9. Inv'
    <2>1. \A d \in Clients : tx[d].pc \in Holding => tx[d].wf # w
      BY <1>1 DEF Inv, Sound, IsListed, NoWorkflow
    <2>2. Ends({}, w, v)
      BY <1>1, <1>2, <2>1 DEF Ends
    <2>3. {} \in SUBSET Clients
      OBVIOUS
    <2> QED
      BY <1>2, <1>5, <1>8, <2>2, <2>3, CommitStep
  <1>10. Promise!Create(w, v)
    BY <1>0, <1>1, <1>2, SameRows DEF Promise!Create
  <1> QED
    BY <1>2, <1>9, <1>10 DEF Promise!Next

\* Archive: nobody holds the row.
LEMMA ArchiveCommits ==
    ASSUME Inv, NEW w \in Workflows, ArchiveWorkflow(w)
    PROVE  Inv' /\ Promise!Next
  <1> DEFINE v == workflows[w].latest
  <1>1. /\ IsListed(workflows[w]) /\ ~Locked(w)
        /\ workflows' = [workflows EXCEPT ![w].status = "archived"]
        /\ versions' = versions /\ pins' = pins /\ tx' = tx
        /\ workflows \in [Workflows -> WorkflowRow \cup {NoWorkflow}]
        /\ versions \in [VersionIds -> VersionRow \cup {NoVersion}]
        /\ tx \in [Clients -> Transactions]
    BY DEF ArchiveWorkflow, Inv, TypeOK
  <1>2. /\ workflows[w] \in WorkflowRow /\ workflows[w] # NoWorkflow
        /\ v \in VersionIds /\ versions[v].workflow = w /\ versions[v] # NoVersion
    BY <1>1, RowsTyped DEF Inv, HeadCoherent
  <1>3. /\ workflows'[w] = [workflows[w] EXCEPT !.status = "archived"]
        /\ workflows'[w] \in WorkflowRow
    BY <1>1, <1>2 DEF WorkflowRow
  <1>4. /\ workflows' \in [Workflows -> WorkflowRow \cup {NoWorkflow}]
        /\ workflows'[w] # NoWorkflow
        /\ workflows'[w].status = "archived"
        /\ workflows'[w].latest = v /\ workflows'[w].live = workflows[w].live
    BY <1>1, <1>2, <1>3 DEF WorkflowRow, NoWorkflow
  <1>5. RowsOf(w, v)
    BY <1>1, <1>2, <1>4 DEF RowsOf
  <1>6. Coherent(w)'
    <2>1. Coherent(w)
      BY <1>2 DEF Inv, HeadCoherent, Coherent
    <2> QED
      BY <1>1, <1>4, <2>1 DEF Coherent
  <1>7. versions'[v].published => versions'[v].graph \in Publishable
    BY <1>1, <1>2 DEF Inv, PublishedIsValid
  <1>8. Tables'
    BY <1>1, <1>2, <1>4, <1>5, <1>6, <1>7, RowsKept
  <1>9. Inv'
    <2>1. \A d \in Clients : tx[d].pc \in Holding => tx[d].wf # w
      BY <1>1 DEF Locked, Holds
    <2>2. Ends({}, w, v)
      BY <1>1, <1>2, <2>1 DEF Ends
    <2>3. {} \in SUBSET Clients
      OBVIOUS
    <2> QED
      BY <1>2, <1>5, <1>8, <2>2, <2>3, CommitStep
  <1>10. Promise!Archive(w)
    BY <1>1, SameRows DEF Promise!Archive
  <1> QED
    BY <1>9, <1>10 DEF Promise!Next

\* Save: the draft head is overwritten, or the next draft is added.
LEMMA SaveCommits ==
    ASSUME Inv, NEW c \in Clients, Save(c)
    PROVE  Inv' /\ Promise!Next
  <1>0. tx[c].wf \in Workflows /\ tx[c].version \in VersionIds
    BY DEF Save, At, Inv, Sound, Holding
  <1> SUFFICES ASSUME NEW w \in Workflows, NEW v \in VersionIds,
                      w = tx[c].wf, v = tx[c].version
               PROVE  Inv' /\ Promise!Next
    BY <1>0
  <1> DEFINE g == tx[c].graph
             head == workflows[w].latest
             draft == EmptyDraft(w, versions[head].number + 1)
  <1>1. /\ tx[c].pc = "persist" /\ tx' = [tx EXCEPT ![c] = NoTx] /\ pins' = pins
        /\ workflows' = [workflows EXCEPT ![w].latest = v]
        /\ workflows \in [Workflows -> WorkflowRow \cup {NoWorkflow}]
        /\ versions \in [VersionIds -> VersionRow \cup {NoVersion}]
        /\ tx \in [Clients -> Transactions]
    BY DEF Save, At, Inv, TypeOK
  <1>2. /\ w \in Workflows /\ v \in VersionIds /\ g \in Payloads
        /\ IsListed(workflows[w])
        /\ IF versions[head].published THEN versions[v] = NoVersion ELSE v = head
    BY <1>1 DEF Inv, Sound, Holding
  <1>3. /\ workflows[w] \in WorkflowRow /\ workflows[w] # NoWorkflow
        /\ head \in VersionIds /\ versions[head].workflow = w
        /\ versions[head] # NoVersion /\ versions[head] \in VersionRow
    BY <1>2, RowsTyped DEF Inv, HeadCoherent
  <1>4. Coherent(w)
    BY <1>2, <1>3 DEF Inv, HeadCoherent, Coherent
  <1>5. /\ workflows' \in [Workflows -> WorkflowRow \cup {NoWorkflow}]
        /\ workflows'[w] = [workflows[w] EXCEPT !.latest = v]
        /\ workflows'[w] # NoWorkflow
        /\ workflows'[w].latest = v
        /\ workflows'[w].live = workflows[w].live
        /\ workflows'[w].status = workflows[w].status
    BY <1>1, <1>2, <1>3, NullAssumption DEF WorkflowRow, NoWorkflow
  <1>6. versions' = [versions EXCEPT ![v] =
           [IF versions[v] = NoVersion
            THEN EmptyDraft(w, HighestNumber(w) + 1) ELSE versions[v]
                EXCEPT !.graph = g]]
    BY <1>2, PersistedIsPayload DEF Save
  <1>7. Ends({c}, w, v)
    <2>1. \A d \in Clients \ {c} :
             /\ tx[d].pc \in Holding => tx[d].wf # w
             /\ versions[v] = NoVersion => tx[d].version # v
      BY <1>1 DEF Inv, Exclusive, Holding
    <2> QED
      BY <1>1, <2>1 DEF Ends
  <1>8. {c} \in SUBSET Clients
    OBVIOUS
  <1>9. CASE ~versions[head].published
    <2>1. v = head /\ workflows' = workflows
      BY <1>1, <1>2, <1>3, <1>9 DEF WorkflowRow
    <2>2. versions' = [versions EXCEPT ![v].graph = g]
      BY <1>3, <1>6, <2>1
    <2>3. /\ versions' \in [VersionIds -> VersionRow \cup {NoVersion}]
          /\ versions'[v] \in VersionRow
          /\ versions'[v].workflow = w /\ ~versions'[v].published
          /\ versions'[v].number = versions[v].number
      BY <1>1, <1>2, <1>3, <1>9, <2>1, <2>2 DEF VersionRow
    <2>4. RowsOf(w, v)
      <3>1. versions'[v] # NoVersion
        BY <1>2, <2>3, NullAssumption DEF NoVersion
      <3> QED
        BY <1>1, <1>3, <1>9, <2>1, <2>2, <2>3, <3>1 DEF RowsOf
    <2>5. Coherent(w)'
      <3>1. workflows[w].live # head
        BY <1>4, <1>9 DEF Coherent
      <3>2. workflows[w].live # None => versions'[workflows[w].live] = versions[workflows[w].live]
        BY <1>1, <1>3, <2>1, <2>2, <3>1 DEF WorkflowRow
      <3>3. \A u \in VersionIds \ {v} : versions'[u] = versions[u]
        BY <2>4 DEF RowsOf
      <3> QED
        BY <1>4, <1>9, <2>1, <2>3, <3>1, <3>2, <3>3 DEF Coherent
    <2>6. Tables'
      BY <1>1, <1>2, <1>5, <2>3, <2>4, <2>5, RowsKept
    <2>7. Inv'
      BY <1>2, <1>7, <1>8, <2>4, <2>6, CommitStep
    <2>8. Promise!SaveInPlace(w, g)
      BY <1>1, <1>2, <1>9, <2>1, <2>2, SameRows DEF Promise!SaveInPlace
    <2> QED
      BY <1>2, <2>7, <2>8 DEF Promise!Next
  <1>10. CASE versions[head].published
    <2>1. versions[v] = NoVersion
      BY <1>2, <1>10
    <2>2. versions' = [versions EXCEPT ![v] = [draft EXCEPT !.graph = g]]
      BY <1>2, <1>3, <1>6, <2>1, HighestIsHead DEF Inv
    <2>3. /\ [draft EXCEPT !.graph = g] \in VersionRow
          /\ [draft EXCEPT !.graph = g].workflow = w
          /\ ~[draft EXCEPT !.graph = g].published
          /\ [draft EXCEPT !.graph = g].number = versions[head].number + 1
      <3>1. versions[head].number + 1 \in Nat \ {0}
        BY <1>3 DEF VersionRow
      <3> QED
        BY <1>2, <3>1, FilledDraft
    <2>4. /\ versions' \in [VersionIds -> VersionRow \cup {NoVersion}]
          /\ versions'[v].workflow = w /\ ~versions'[v].published
          /\ versions'[v].number = versions[head].number + 1
      BY <1>1, <1>2, <2>2, <2>3
    <2>5. RowsOf(w, v)
      <3>1. versions'[v] # NoVersion
        BY <1>2, <2>4, NullAssumption DEF NoVersion
      <3>2. ~versions[v].published
        BY <2>1 DEF NoVersion
      <3>3. /\ \A x \in Workflows \ {w} : workflows'[x] = workflows[x]
            /\ \A u \in VersionIds \ {v} : versions'[u] = versions[u]
        BY <1>1, <2>2
      <3> QED
        BY <1>5, <2>1, <2>4, <3>1, <3>2, <3>3 DEF RowsOf
    <2>6. Coherent(w)'
      <3>1. head # v /\ workflows[w].live = head
        BY <1>3, <1>4, <1>10, <2>1 DEF Coherent
      <3>2. \A u \in VersionIds \ {v} : versions'[u] = versions[u]
        BY <2>5 DEF RowsOf
      <3>3. \A u \in VersionIds \ {v} : versions[u].workflow = w =>
               /\ versions[u].published
               /\ versions[u].number \in Nat
               /\ versions[u].number <= versions[head].number
        <4> TAKE u \in VersionIds \ {v}
        <4> HAVE versions[u].workflow = w
        <4>1. versions[u].number \in Nat
          BY <1>2, RowsTyped DEF Inv, VersionRow
        <4>2. CASE u = head
          BY <1>10, <4>1, <4>2
        <4>3. CASE u # head
          BY <1>3, <1>4, <4>1, <4>3 DEF Coherent, VersionRow
        <4> QED
          BY <4>2, <4>3
      <3>4. versions[head].number \in Nat
        BY <1>3 DEF VersionRow
      <3>5. \A u \in VersionIds : versions'[u].workflow = w /\ u # v =>
               versions'[u].published /\ versions'[u].number < versions'[v].number
        BY <2>4, <3>2, <3>3, <3>4
      <3> QED
        BY <1>3, <1>4, <1>5, <1>10, <2>4, <3>1, <3>2, <3>5, NullAssumption DEF Coherent
    <2>7. Tables'
      BY <1>1, <1>2, <1>5, <2>4, <2>5, <2>6, RowsKept
    <2>8. Inv'
      BY <1>2, <1>7, <1>8, <2>5, <2>7, CommitStep
    <2>9. Promise!SaveNext(w, v, g)
      BY <1>1, <1>2, <1>10, <2>1, <2>2, SameRows DEF Promise!SaveNext
    <2> QED
      BY <1>2, <2>8, <2>9 DEF Promise!Next
  <1> QED
    BY <1>9, <1>10

\* Publish: what was validated is still there, so the statement finds its row.
LEMMA PublishCommits ==
    ASSUME Inv, NEW c \in Clients, PublishWorkflowHead(c)
    PROVE  Inv' /\ Promise!Next
  <1>0. tx[c].wf \in Workflows /\ tx[c].version \in VersionIds
    BY DEF PublishWorkflowHead, At, Inv, Sound, Holding
  <1> SUFFICES ASSUME NEW w \in Workflows, NEW v \in VersionIds,
                      w = tx[c].wf, v = tx[c].version
               PROVE  Inv' /\ Promise!Next
    BY <1>0
  <1>1. /\ tx[c].pc = "validate" /\ tx[c].graph \in Publishable /\ pins' = pins
        /\ workflows \in [Workflows -> WorkflowRow \cup {NoWorkflow}]
        /\ versions \in [VersionIds -> VersionRow \cup {NoVersion}]
        /\ tx \in [Clients -> Transactions]
    BY DEF PublishWorkflowHead, At, Inv, TypeOK
  <1>2. /\ w \in Workflows /\ v \in VersionIds /\ IsListed(workflows[w])
        /\ v = workflows[w].latest /\ ~versions[v].published
        /\ versions[v].graph = tx[c].graph
    BY <1>1 DEF Inv, Sound, Holding
  <1>3. /\ workflows[w] \in WorkflowRow /\ workflows[w] # NoWorkflow
        /\ versions[v].workflow = w /\ versions[v] # NoVersion
        /\ versions[v] \in VersionRow
    BY <1>2, RowsTyped DEF Inv, HeadCoherent
  <1>4. /\ versions' = [versions EXCEPT ![v].published = TRUE]
        /\ workflows' = [workflows EXCEPT ![w].status = "published", ![w].live = v]
        /\ tx' = [tx EXCEPT ![c] = NoTx]
    BY <1>2, <1>3 DEF PublishWorkflowHead
  <1>5. /\ workflows' \in [Workflows -> WorkflowRow \cup {NoWorkflow}]
        /\ workflows'[w] # NoWorkflow /\ workflows'[w].status = "published"
        /\ workflows'[w].latest = v /\ workflows'[w].live = v
    BY <1>1, <1>2, <1>3, <1>4 DEF WorkflowRow, NoWorkflow
  <1>6. /\ versions' \in [VersionIds -> VersionRow \cup {NoVersion}]
        /\ versions'[v] \in VersionRow
        /\ versions'[v].published /\ versions'[v].workflow = w
        /\ versions'[v].number = versions[v].number
        /\ versions'[v].graph = tx[c].graph
    BY <1>1, <1>2, <1>3, <1>4 DEF VersionRow
  <1>7. RowsOf(w, v)
    <2>1. versions'[v] # NoVersion
      BY <1>6 DEF NoVersion
    <2> QED
      BY <1>1, <1>3, <1>4, <1>5, <1>6, <2>1 DEF RowsOf
  <1>8. Coherent(w)'
    <2>1. Coherent(w)
      BY <1>2, <1>3 DEF Inv, HeadCoherent, Coherent
    <2>2. \A u \in VersionIds \ {v} : versions'[u] = versions[u]
      BY <1>7 DEF RowsOf
    <2> QED
      BY <1>2, <1>5, <1>6, <2>1, <2>2, NullAssumption DEF Coherent
  <1>9. Tables'
    BY <1>1, <1>2, <1>5, <1>6, <1>7, <1>8, RowsKept
  <1>10. Inv'
    <2>1. \A d \in Clients \ {c} : tx[d].pc \in Holding => tx[d].wf # w
      BY <1>1 DEF Inv, Exclusive, Holding
    <2>2. Ends({c}, w, v)
      BY <1>1, <1>3, <1>4, <2>1 DEF Ends
    <2>3. {c} \in SUBSET Clients
      OBVIOUS
    <2> QED
      BY <1>7, <1>9, <2>2, <2>3, CommitStep
  <1>11. Promise!Publish(w)
    BY <1>1, <1>2, <1>4, SameRows DEF Promise!Publish
  <1> QED
    BY <1>2, <1>10, <1>11 DEF Promise!Next

\* Start: what was live when it was read stays published.
LEMMA PinCommits ==
    ASSUME Inv, NEW c \in Clients, InsertWorkflowRun(c)
    PROVE  Inv' /\ Promise!Next
  <1> DEFINE v == tx[c].version
  <1>1. /\ UNCHANGED <<workflows, versions>> /\ pins' = pins \cup {v}
        /\ tx' = [tx EXCEPT ![c] = NoTx]
    BY DEF InsertWorkflowRun
  <1>2. v \in VersionIds /\ versions[v].published
    BY DEF InsertWorkflowRun, At, Inv, Sound
  <1>3. Inv'
    BY <1>1, <1>2, EndStep DEF OnePin
  <1>4. Promise!Pin(v)
    BY <1>1, <1>2 DEF Promise!Pin
  <1> QED
    BY <1>2, <1>3, <1>4 DEF Promise!Next

-----------------------------------------------------------------------------
(* The invariant, and the theorems *)

\* An empty database has nothing that could be wrong.
LEMMA InvInit == Init => Inv
  <1> SUFFICES ASSUME Init PROVE Inv
    OBVIOUS
  <1>1. NoTx \in Transactions
    BY PayloadShape, PayloadsAssumption DEF NoTx, Transactions, States, EmptyGraph
  <1>2. TypeOK
    BY <1>1 DEF Init, TypeOK
  <1>3. Owned /\ HeadCoherent /\ PublishedIsValid
    BY DEF Init, Owned, HeadCoherent, PublishedIsValid, NoVersion
  <1>4. (\A c \in Clients : Sound(c)) /\ Exclusive
    BY DEF Init, Sound, Exclusive, NoTx, Holding
  <1> QED
    BY <1>2, <1>3, <1>4 DEF Inv

\* Every step keeps the invariant, and is one of WorkflowVersions or leaves the
\* tables alone.
LEMMA InvStep ==
    ASSUME Inv, [Next]_vars
    PROVE  Inv' /\ (Promise!Next \/ UNCHANGED <<workflows, versions, pins>>)
  <1>1. CASE UNCHANGED vars
    <2>1. TypeOK' /\ Owned' /\ HeadCoherent' /\ PublishedIsValid'
      BY <1>1 DEF Inv, vars, TypeOK, Owned, HeadCoherent, PublishedIsValid
    <2>2. (\A c \in Clients : Sound(c)') /\ Exclusive'
      BY <1>1 DEF Inv, vars, Sound, Exclusive
    <2> QED
      BY <1>1, <2>1, <2>2 DEF Inv, vars
  <1>2. ASSUME NEW w \in Workflows, CreateWorkflow(w) \/ ArchiveWorkflow(w)
        PROVE  Inv' /\ Promise!Next
    BY <1>2, CreateCommits, ArchiveCommits
  <1>3. ASSUME NEW c \in Clients, SaveStep(c)
        PROVE  Inv' /\ (Promise!Next \/ UNCHANGED <<workflows, versions, pins>>)
    <2>1. ASSUME NEW w \in Workflows, NEW g \in Payloads, Update(c, w, g)
          PROVE  Inv' /\ UNCHANGED <<workflows, versions, pins>>
      BY <2>1, RequestsKeepInv DEF Update, Request
    <2>2. CASE GetWorkflowHead(c)
      BY <2>2, GetWorkflowHeadInv DEF GetWorkflowHead
    <2>3. CASE Save(c)
      BY <2>3, SaveCommits
    <2> QED
      BY <1>3, <2>1, <2>2, <2>3 DEF SaveStep
  <1>4. ASSUME NEW c \in Clients, PublishStep(c)
        PROVE  Inv' /\ (Promise!Next \/ UNCHANGED <<workflows, versions, pins>>)
    <2>1. ASSUME NEW w \in Workflows, PublishRequest(c, w)
          PROVE  Inv' /\ UNCHANGED <<workflows, versions, pins>>
      BY <2>1, RequestsKeepInv DEF PublishRequest, Request
    <2>2. CASE LockWorkflowForPublish(c) \/ ListNodesForPublish(c) \/ ListEdgesForPublish(c)
      BY <2>2, PublishReadsInv
         DEF LockWorkflowForPublish, ListNodesForPublish, ListEdgesForPublish
    <2>3. CASE ValidationFails(c)
      BY <2>3, EndStep DEF ValidationFails, Respond
    <2>4. CASE PublishWorkflowHead(c)
      BY <2>4, PublishCommits
    <2> QED
      BY <1>4, <2>1, <2>2, <2>3, <2>4 DEF PublishStep
  <1>5. ASSUME NEW c \in Clients, StartStep(c)
        PROVE  Inv' /\ (Promise!Next \/ UNCHANGED <<workflows, versions, pins>>)
    <2>1. ASSUME NEW w \in Workflows, GetPublishedWorkflowForStart(c, w)
          PROVE  Inv' /\ UNCHANGED <<workflows, versions, pins>>
      BY <2>1, RequestsKeepInv DEF GetPublishedWorkflowForStart, Request
    <2>2. CASE InsertWorkflowRun(c)
      BY <2>2, PinCommits
    <2> QED
      BY <1>5, <2>1, <2>2 DEF StartStep
  <1>6. ASSUME NEW c \in Clients, Rollback(c)
        PROVE  Inv' /\ UNCHANGED <<workflows, versions, pins>>
    BY <1>6, EndStep DEF Rollback
  <1> QED
    BY <1>1, <1>2, <1>3, <1>4, <1>5, <1>6 DEF Next

THEOREM BuilderInv == Spec => []Inv
  <1>1. Inv /\ [Next]_vars => Inv'
    BY InvStep
  <1> QED
    BY InvInit, <1>1, PTL DEF Spec

\* Every row and every open request has its types.
THEOREM TypesCorrect == Spec => []TypeOK
  <1>1. Inv => TypeOK
    BY DEF Inv
  <1> QED
    BY BuilderInv, <1>1, PTL

\* The pointers of a workflow agree with its versions: publish.go and start.go
\* never meet a missing pointer, and there is never a second draft.
THEOREM PointersCoherent == Spec => []HeadCoherent
  <1>1. Inv => HeadCoherent
    BY DEF Inv
  <1> QED
    BY BuilderInv, <1>1, PTL

\* Every published version passed validatePublishGraph as it stands.
THEOREM PublishedValidated == Spec => []PublishedIsValid
  <1>1. Inv => PublishedIsValid
    BY DEF Inv
  <1> QED
    BY BuilderInv, <1>1, PTL

\* No request ever changes a published version.
THEOREM PublishedNeverChanges == Spec => PublishedFrozen
  <1> DEFINE Frozen == \A v \in VersionIds :
                          versions[v].published => versions'[v] = versions[v]
  <1>1. ASSUME Inv, [Next]_vars PROVE Frozen
    <2>0. versions \in [VersionIds -> VersionRow \cup {NoVersion}] /\ ~NoVersion.published
      BY <1>1 DEF Inv, TypeOK, NoVersion
    <2>1. CASE UNCHANGED <<workflows, versions, pins>>
      BY <2>1
    <2>2. ASSUME NEW w \in Workflows, NEW v \in VersionIds, Promise!Create(w, v) PROVE Frozen
      BY <2>0, <2>2, SameRows DEF Promise!Create
    <2>3. ASSUME NEW w \in Workflows, NEW g \in Payloads, Promise!SaveInPlace(w, g)
          PROVE  Frozen
      BY <2>0, <2>3 DEF Promise!SaveInPlace
    <2>4. ASSUME NEW w \in Workflows, NEW v \in VersionIds, NEW g \in Payloads,
                 Promise!SaveNext(w, v, g)
          PROVE  Frozen
      BY <2>0, <2>4, SameRows DEF Promise!SaveNext
    <2>5. ASSUME NEW w \in Workflows, Promise!Publish(w) PROVE Frozen
      BY <2>0, <2>5 DEF Promise!Publish
    <2>6. ASSUME NEW w \in Workflows, Promise!Archive(w) PROVE Frozen
      BY <2>6 DEF Promise!Archive
    <2>7. ASSUME NEW v \in VersionIds, Promise!Pin(v) PROVE Frozen
      BY <2>7 DEF Promise!Pin
    <2>8. Promise!Next \/ UNCHANGED <<workflows, versions, pins>>
      BY <1>1, InvStep
    <2> QED
      BY <2>1, <2>2, <2>3, <2>4, <2>5, <2>6, <2>7, <2>8 DEF Promise!Next
  <1>2. Inv /\ [Next]_vars => [Frozen]_vars
    BY <1>1
  <1> QED
    BY BuilderInv, <1>2, PTL DEF Spec, PublishedFrozen

\* The transactions of the code keep the promise of WorkflowVersions: whatever
\* the interleaving, each request takes effect at once or not at all.
THEOREM TransactionsAtomic == Spec => RequestsAtomic
  <1>1. Init => Promise!Init
    BY SameRows DEF Init, Promise!Init
  <1>2. Inv /\ [Next]_vars => [Promise!Next]_(Promise!vars)
    BY InvStep DEF Promise!vars
  <1> QED
    BY BuilderInv, <1>1, <1>2, PTL DEF Spec, RequestsAtomic, Promise!Spec
=============================================================================
