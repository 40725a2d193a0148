-------------------------- MODULE DraftSavesProofs --------------------------
(***************************************************************************)
(* Proofs about DraftSaves: the checks are exact, and what they let pass   *)
(* breaks no constraint of the tables and is stored as it was sent, for    *)
(* bodies of any length and whatever draft was stored before.              *)
(***************************************************************************)
EXTENDS DraftSaves, FiniteSetTheorems, TLAPS

EdgeRowSet == [id : Uuids, from : Uuids, to : Uuids, label : Labels]

\* The first n nodes of a body are as they should be.
NodesGood(p, n) ==
    /\ \A j \in 1..n :
          p.nodes[j].id # Nil /\ p.nodes[j].name \notin Blank /\ Fits(p.nodes[j])
    /\ \A j, k \in 1..n : j # k =>
          p.nodes[j].id # p.nodes[k].id /\ p.nodes[j].name # p.nodes[k].name

\* The first n edges of a body are as they should be.
EdgesGood(p, n) ==
    /\ \A j \in 1..n :
          /\ p.edges[j].id # Nil /\ LabelOf(p.edges[j]) \in Labels
          /\ {p.edges[j].from, p.edges[j].to} \subseteq Ids(Elements(p.nodes))
    /\ \A j, k \in 1..n : j # k =>
          p.edges[j].id # p.edges[k].id /\ KeyOf(p.edges[j]) # KeyOf(p.edges[k])

\* uniqueNodes: the maps hold what the loop has been through.
NodesLoop ==
    pc = "nodes" =>
        /\ at <= Len(payload.nodes) + 1
        /\ NodesGood(payload, at - 1)
        /\ seen.ids = {payload.nodes[k].id : k \in 1..(at - 1)}
        /\ seen.names = {payload.nodes[k].name : k \in 1..(at - 1)}
        /\ seen.edgeIds = {} /\ seen.keys = {}

\* uniqueEdges: so do the maps of the second loop.
EdgesLoop ==
    pc = "edges" =>
        /\ at <= Len(payload.edges) + 1
        /\ NodesGood(payload, Len(payload.nodes))
        /\ EdgesGood(payload, at - 1)
        /\ seen.ids = Ids(Elements(payload.nodes))
        /\ seen.edgeIds = {payload.edges[k].id : k \in 1..(at - 1)}
        /\ seen.keys = {KeyOf(payload.edges[k]) : k \in 1..(at - 1)}

\* persistGraph: what of the draft is equal to the body already.
Synchronised ==
    /\ pc = "deleteNodes" => Retained(draft.nodes, NodeRows) = NodeRows
    /\ pc \in {"upsertEdges", "deleteEdges"} => draft.nodes = NodeRows
    /\ pc = "deleteEdges" => Retained(draft.edges, EdgeRows) = EdgeRows
    /\ pc \in {"updateWorkflow", "commit"} => draft = [nodes |-> NodeRows, edges |-> EdgeRows]

\* What is stored is a graph for the builder, and one that publish can read.
DraftSound ==
    ValidGraph(stored) /\ TypedGraph(PublishRows(stored), DOMAIN Schemas)

Inv ==
    /\ TypeOK /\ NodesLoop /\ EdgesLoop /\ ChecksExact /\ Synchronised
    /\ FailsOnlyOnText /\ SavedAsSent /\ DraftSound

-----------------------------------------------------------------------------
(* Helpers *)

\* An upsert and a delete make a table equal to the rows of the body.
LEMMA UpsertThenDelete == \A S, T : Retained(Upserted(S, T), T) = T
  BY DEF Retained, Upserted, Ids

\* A body is well formed if its lists are good to their ends.
LEMMA WellFormedByLoops ==
    ASSUME NEW p \in Body
    PROVE  WellFormed(p) <=>
               NodesGood(p, Len(p.nodes)) /\ EdgesGood(p, Len(p.edges))
  <1>1. DOMAIN p.nodes = 1..Len(p.nodes) /\ DOMAIN p.edges = 1..Len(p.edges)
    BY DEF Body
  <1> QED
    BY <1>1 DEF WellFormed, NodesGood, EdgesGood, KeyOf

\* The row of a node and of an edge of a body.
LEMMA RowsTyped ==
    ASSUME NEW p \in Body
    PROVE  /\ \A j \in DOMAIN p.nodes :
                 /\ p.nodes[j] \in Node
                 /\ NodeRow(p.nodes[j]) \in Node
           /\ \A j \in DOMAIN p.edges : p.edges[j] \in Edge
           /\ NodeRowsOf(p) \subseteq Node
  <1>1. /\ \A j \in DOMAIN p.nodes : p.nodes[j] \in Node
        /\ \A j \in DOMAIN p.edges : p.edges[j] \in Edge
    BY DEF Body
  <1>2. \A n \in Node : NodeRow(n) \in Node
    BY ConfigsAssumption DEF NodeRow, ConfigOf, Node
  <1> QED
    BY <1>1, <1>2 DEF NodeRowsOf, Elements

\* What passed the checks satisfies every constraint of the two tables.
LEMMA WellFormedRows ==
    ASSUME NEW p \in Body, WellFormed(p)
    PROVE  /\ \A n \in Elements(p.nodes) : Known(n.type)
           /\ ~RepeatsId(p.nodes) /\ ~RepeatsId(p.edges)
           /\ NamesUnique(NodeRowsOf(p)) /\ LabelsUnique(EdgeRowsOf(p))
           /\ \A e \in EdgeRowsOf(p) :
                 e.label \in Labels /\ {e.from, e.to} \subseteq Ids(NodeRowsOf(p))
           /\ EdgeRowsOf(p) \subseteq EdgeRowSet
           /\ ValidGraph([nodes |-> NodeRowsOf(p), edges |-> EdgeRowsOf(p)])
  <1>1. \A n \in Elements(p.nodes) : Known(n.type)
    BY DEF WellFormed, Elements, Fits
  <1>2. ~RepeatsId(p.nodes) /\ ~RepeatsId(p.edges)
    BY DEF WellFormed, RepeatsId
  <1>3. \A m \in NodeRowsOf(p) : \E j \in DOMAIN p.nodes :
           /\ m = NodeRow(p.nodes[j])
           /\ m.id = p.nodes[j].id /\ m.name = p.nodes[j].name
    BY DEF NodeRowsOf, Elements, NodeRow
  <1>4. \A m, n \in NodeRowsOf(p) : m.id = n.id \/ m.name = n.name => m = n
    BY <1>3 DEF WellFormed
  <1>5. \A e \in EdgeRowsOf(p) : \E j \in DOMAIN p.edges :
           /\ e = EdgeRow(p.edges[j])
           /\ e.id = p.edges[j].id /\ e.from = p.edges[j].from
           /\ e.to = p.edges[j].to /\ e.label = LabelOf(p.edges[j])
    BY DEF EdgeRowsOf, Elements, EdgeRow
  <1>6. \A e, f \in EdgeRowsOf(p) :
           e.id = f.id \/ (e.from = f.from /\ e.label = f.label) => e = f
    BY <1>5 DEF WellFormed
  <1>7. Ids(Elements(p.nodes)) = Ids(NodeRowsOf(p))
    <2>1. \A n : NodeRow(n).id = n.id
      BY DEF NodeRow
    <2>2. \A x : x \in Ids(NodeRowsOf(p)) <=>
             \E n \in Elements(p.nodes) : x = NodeRow(n).id
      BY DEF Ids, NodeRowsOf
    <2>3. \A x : x \in Ids(Elements(p.nodes)) <=>
             \E n \in Elements(p.nodes) : x = n.id
      BY DEF Ids
    <2> QED
      BY <2>1, <2>2, <2>3
  <1>8. \A e \in EdgeRowsOf(p) :
           e.label \in Labels /\ {e.from, e.to} \subseteq Ids(NodeRowsOf(p))
    BY <1>5, <1>7 DEF WellFormed
  <1>9. EdgeRowsOf(p) \subseteq EdgeRowSet
    BY <1>5, <1>8, RowsTyped DEF EdgeRowSet, Edge, EdgeRow
  <1> QED
    BY <1>1, <1>2, <1>4, <1>6, <1>8, <1>9 DEF NamesUnique, LabelsUnique, ValidGraph, Ids

\* The image of a list is finite.
LEMMA FiniteImage ==
    ASSUME NEW n \in Nat, NEW T, NEW f \in [1..n -> T],
           \A x \in T : \E j \in 1..n : f[j] = x
    PROVE  IsFiniteSet(T)
  <1>1. f \in Surjection(1..n, T)
    BY DEF Surjection
  <1> QED
    BY <1>1, FS_Surjection, FS_Interval

\* And it is a graph that publish can read.
LEMMA WellFormedGraph ==
    ASSUME NEW p \in Body, WellFormed(p),
           NEW g, g = [nodes |-> NodeRowsOf(p), edges |-> EdgeRowsOf(p)]
    PROVE  TypedGraph(PublishRows(g), DOMAIN Schemas)
  <1> DEFINE r == PublishRows(g)
  <1>1. /\ r.nodes = Ids(NodeRowsOf(p))
        /\ r.type = [i \in Ids(NodeRowsOf(p)) |->
                        (CHOOSE n \in NodeRowsOf(p) : n.id = i).type]
        /\ r.edges = {[from |-> e.from, to |-> e.to, label |-> e.label] :
                         e \in EdgeRowsOf(p)}
    BY DEF PublishRows
  <1>2. /\ Len(p.nodes) \in Nat /\ DOMAIN p.nodes = 1..Len(p.nodes)
        /\ Len(p.edges) \in Nat /\ DOMAIN p.edges = 1..Len(p.edges)
    BY DEF Body
  <1>3. /\ \A n \in NodeRowsOf(p) : Known(n.type)
        /\ \A e \in EdgeRowsOf(p) :
              e.label \in Labels /\ {e.from, e.to} \subseteq Ids(NodeRowsOf(p))
        /\ LabelsUnique(EdgeRowsOf(p))
    <2>1. \A n \in NodeRowsOf(p) : \E m \in Elements(p.nodes) : n.type = m.type
      BY DEF NodeRowsOf, NodeRow
    <2> QED
      BY <2>1, WellFormedRows
  <1>4. IsFiniteSet(r.nodes)
    <2> DEFINE f == [j \in 1..Len(p.nodes) |-> NodeRow(p.nodes[j]).id]
    <2>1. \A x : x \in r.nodes <=> \E j \in 1..Len(p.nodes) : x = NodeRow(p.nodes[j]).id
      <3>1. \A x : x \in r.nodes <=> \E n \in NodeRowsOf(p) : x = n.id
        BY <1>1 DEF Ids
      <3>2. \A n : n \in NodeRowsOf(p) <=>
                \E j \in 1..Len(p.nodes) : n = NodeRow(p.nodes[j])
        BY <1>2 DEF NodeRowsOf, Elements
      <3> QED
        BY <3>1, <3>2
    <2>2. f \in [1..Len(p.nodes) -> r.nodes]
      BY <2>1
    <2>3. \A x \in r.nodes : \E j \in 1..Len(p.nodes) : f[j] = x
      BY <2>1
    <2> HIDE DEF f
    <2> QED
      BY <1>2, <2>2, <2>3, FiniteImage
  <1>5. IsFiniteSet(r.edges)
    <2> DEFINE row(j) == EdgeRow(p.edges[j])
               cut(e) == [from |-> e.from, to |-> e.to, label |-> e.label]
               f == [j \in 1..Len(p.edges) |-> cut(row(j))]
    <2>1. \A x : x \in r.edges <=> \E j \in 1..Len(p.edges) : x = cut(row(j))
      <3>1. \A x : x \in r.edges <=> \E e \in EdgeRowsOf(p) : x = cut(e)
        BY <1>1
      <3>2. \A e : e \in EdgeRowsOf(p) <=> \E j \in 1..Len(p.edges) : e = row(j)
        BY <1>2 DEF EdgeRowsOf, Elements
      <3> HIDE DEF row, cut
      <3> QED
        BY <3>1, <3>2
    <2>2. f \in [1..Len(p.edges) -> r.edges]
      <3> HIDE DEF row, cut
      <3> QED
        BY <2>1
    <2>3. \A x \in r.edges : \E j \in 1..Len(p.edges) : f[j] = x
      <3> HIDE DEF row, cut
      <3> QED
        BY <2>1
    <2> HIDE DEF f
    <2> QED
      BY <1>2, <2>2, <2>3, FiniteImage
  <1>6. r.type \in [r.nodes -> DOMAIN Schemas]
    <2>1. ASSUME NEW i \in Ids(NodeRowsOf(p))
          PROVE  (CHOOSE n \in NodeRowsOf(p) : n.id = i).type \in DOMAIN Schemas
      <3>1. \E n \in NodeRowsOf(p) : n.id = i
        BY DEF Ids
      <3>2. (CHOOSE n \in NodeRowsOf(p) : n.id = i) \in NodeRowsOf(p)
        BY <3>1
      <3> QED
        BY <1>3, <3>2 DEF Known
    <2> QED
      BY <1>1, <2>1
  <1>7. r.edges \subseteq [from : r.nodes, to : r.nodes, label : Labels]
    BY <1>1, <1>3
  <1>8. \A e, f \in r.edges : e.from = f.from /\ e.label = f.label => e = f
    BY <1>1, <1>3 DEF LabelsUnique
  <1> QED
    BY <1>4, <1>5, <1>6, <1>7, <1>8 DEF TypedGraph

\* The loop over the nodes: one more is good if it is, and differs from those
\* that the maps hold.
LEMMA NextNodeGood ==
    ASSUME NEW p \in Body, NEW i \in 1..Len(p.nodes), NodesGood(p, i - 1)
    PROVE  NodesGood(p, i) <=>
              /\ p.nodes[i].id # Nil /\ p.nodes[i].name \notin Blank /\ Fits(p.nodes[i])
              /\ p.nodes[i].id \notin {p.nodes[k].id : k \in 1..(i - 1)}
              /\ p.nodes[i].name \notin {p.nodes[k].name : k \in 1..(i - 1)}
  <1>1. Len(p.nodes) \in Nat
    BY DEF Body
  <1>2. 1..i = (1..(i - 1)) \cup {i} /\ i \notin 1..(i - 1)
    BY <1>1
  <1> QED
    BY <1>2 DEF NodesGood

\* The loop over the edges, likewise.
LEMMA NextEdgeGood ==
    ASSUME NEW p \in Body, NEW i \in 1..Len(p.edges), EdgesGood(p, i - 1)
    PROVE  EdgesGood(p, i) <=>
              /\ p.edges[i].id # Nil /\ LabelOf(p.edges[i]) \in Labels
              /\ {p.edges[i].from, p.edges[i].to} \subseteq Ids(Elements(p.nodes))
              /\ p.edges[i].id \notin {p.edges[k].id : k \in 1..(i - 1)}
              /\ KeyOf(p.edges[i]) \notin {KeyOf(p.edges[k]) : k \in 1..(i - 1)}
  <1>1. Len(p.edges) \in Nat
    BY DEF Body
  <1>2. 1..i = (1..(i - 1)) \cup {i} /\ i \notin 1..(i - 1)
    BY <1>1
  <1> QED
    BY <1>2 DEF EdgesGood

\* If a list is good to its end, it is good to any index.
LEMMA GoodPrefix ==
    ASSUME NEW p \in Body, WellFormed(p)
    PROVE  /\ \A i \in 1..Len(p.nodes) : NodesGood(p, i)
           /\ \A i \in 1..Len(p.edges) : EdgesGood(p, i)
  <1>1. Len(p.nodes) \in Nat /\ Len(p.edges) \in Nat
    BY DEF Body
  <1>2. NodesGood(p, Len(p.nodes)) /\ EdgesGood(p, Len(p.edges))
    BY WellFormedByLoops
  <1>3. /\ \A i \in 1..Len(p.nodes) : \A j \in 1..i : j \in 1..Len(p.nodes)
        /\ \A i \in 1..Len(p.edges) : \A j \in 1..i : j \in 1..Len(p.edges)
    BY <1>1
  <1> QED
    BY <1>2, <1>3 DEF NodesGood, EdgesGood

-----------------------------------------------------------------------------
(* The invariant *)

LEMMA InvInit == Init => Inv
  <1> SUFFICES ASSUME Init PROVE Inv
    OBVIOUS
  <1>1. payload \in Body /\ payload.nodes = << >> /\ payload.edges = << >>
    <2>1. << >> \in Seq(Node) /\ << >> \in Seq(Edge)
      OBVIOUS
    <2> QED
      BY <2>1, TextsAssumption DEF Init, Body
  <1>2. DOMAIN payload.nodes = {} /\ DOMAIN payload.edges = {}
    BY <1>1
  <1>3. NodeRows = {} /\ EdgeRows = {} /\ WellFormed(payload)
    BY <1>2 DEF NodeRows, EdgeRows, NodeRowsOf, EdgeRowsOf, Elements, WellFormed
  <1>4. TypeOK
    <2>1. pc = "saved" /\ at = 1 /\ seen = NothingSeen
          /\ draft = EmptyGraph /\ stored = EmptyGraph
      BY DEF Init
    <2> QED
      BY <1>1, <2>1 DEF TypeOK, NothingSeen, EmptyGraph, Answers
  <1>5. ChecksExact /\ SavedAsSent /\ FailsOnlyOnText
    BY <1>3 DEF Init, ChecksExact, SavedAsSent, FailsOnlyOnText, EmptyGraph
  <1>6. NodesLoop /\ EdgesLoop /\ Synchronised
    BY DEF Init, NodesLoop, EdgesLoop, Synchronised
  <1>7. DraftSound
    <2>1. stored = [nodes |-> NodeRowsOf(payload), edges |-> EdgeRowsOf(payload)]
      BY <1>3 DEF Init, EmptyGraph, NodeRows, EdgeRows
    <2> QED
      BY <1>1, <1>3, <2>1, WellFormedRows, WellFormedGraph DEF DraftSound
  <1> QED
    BY <1>4, <1>5, <1>6, <1>7 DEF Inv

\* An answer other than 200 leaves everything but pc and the draft alone.
LEMMA AnswerStep ==
    ASSUME Inv, NEW a \in Answers \ {"saved"}, Answer(a),
           a = "rejected" <=> ~WellFormed(payload),
           a = "failed" =>
               \/ payload.name \in Unstorable
               \/ \E n \in Elements(payload.nodes) : HoldsUnstorable(n)
    PROVE  Inv'
  <1> USE DEF Answers
  <1>1. /\ pc' = a /\ draft' = EmptyGraph /\ payload' = payload
        /\ at' = at /\ seen' = seen /\ stored' = stored
    BY DEF Answer
  <1>2. TypeOK'
    BY <1>1 DEF Inv, TypeOK, EmptyGraph
  <1>3. WellFormed(payload') <=> WellFormed(payload)
    BY <1>1
  <1>4. ChecksExact'
    BY <1>1, <1>3 DEF ChecksExact, Statements
  <1>5. FailsOnlyOnText'
    BY <1>1 DEF FailsOnlyOnText
  <1>6. NodesLoop' /\ EdgesLoop' /\ Synchronised' /\ SavedAsSent'
    BY <1>1 DEF NodesLoop, EdgesLoop, Synchronised, SavedAsSent
  <1>7. DraftSound'
    BY <1>1 DEF Inv, DraftSound
  <1> QED
    BY <1>2, <1>4, <1>5, <1>6, <1>7 DEF Inv

LEMMA RequestStep == Inv /\ Request => Inv'
  <1> SUFFICES ASSUME Inv, Request PROVE Inv'
    OBVIOUS
  <1>1. /\ payload' \in Body /\ pc' = "nodes" /\ at' = 1 /\ seen' = NothingSeen
        /\ draft' = draft /\ stored' = stored
    BY PayloadsTyped DEF Request, Body
  <1>2. TypeOK'
    BY <1>1 DEF Inv, TypeOK, NothingSeen, Body
  <1>3. Len(payload'.nodes) \in Nat
    BY <1>1 DEF Body
  <1>4. 1..(at' - 1) = {}
    BY <1>1
  <1>5. NodesLoop'
    BY <1>1, <1>3, <1>4 DEF NodesLoop, NodesGood, NothingSeen
  <1>6. /\ EdgesLoop' /\ Synchronised' /\ SavedAsSent' /\ FailsOnlyOnText'
        /\ ChecksExact'
    BY <1>1 DEF EdgesLoop, Synchronised, SavedAsSent, FailsOnlyOnText, ChecksExact,
                Statements, Answers
  <1>7. DraftSound'
    BY <1>1 DEF Inv, DraftSound
  <1> QED
    BY <1>2, <1>5, <1>6, <1>7 DEF Inv

LEMMA CheckNodeStep == Inv /\ CheckNode => Inv'
  <1> SUFFICES ASSUME Inv, CheckNode PROVE Inv'
    OBVIOUS
  <1> DEFINE n == payload.nodes[at]
  <1>1. /\ payload \in Body /\ pc = "nodes" /\ at \in 1..Len(payload.nodes)
        /\ Len(payload.nodes) \in Nat
    BY DEF Inv, TypeOK, Body, CheckNode
  <1>2. /\ NodesGood(payload, at - 1)
        /\ seen.ids = {payload.nodes[k].id : k \in 1..(at - 1)}
        /\ seen.names = {payload.nodes[k].name : k \in 1..(at - 1)}
        /\ seen.edgeIds = {} /\ seen.keys = {}
    BY <1>1 DEF Inv, NodesLoop
  <1>3. NodeAccepted(n) <=> NodesGood(payload, at)
    <2>1. NodesGood(payload, at) <=>
              /\ n.id # Nil /\ n.name \notin Blank /\ Fits(n)
              /\ n.id \notin {payload.nodes[k].id : k \in 1..(at - 1)}
              /\ n.name \notin {payload.nodes[k].name : k \in 1..(at - 1)}
      BY <1>1, <1>2, NextNodeGood
    <2> QED
      BY <1>2, <2>1 DEF NodeAccepted
  <1>4. CASE NodeAccepted(n)
    <2>1. /\ seen' = [seen EXCEPT !.ids = @ \cup {n.id}, !.names = @ \cup {n.name}]
          /\ at' = at + 1 /\ pc' = pc /\ payload' = payload
          /\ draft' = draft /\ stored' = stored
      BY <1>4 DEF CheckNode
    <2>2. n \in Node /\ n.id # Nil /\ n.name \notin Blank
      BY <1>1, <1>4, RowsTyped DEF NodeAccepted, Body
    <2>3. /\ seen'.ids = seen.ids \cup {n.id} /\ seen'.names = seen.names \cup {n.name}
          /\ seen'.edgeIds = seen.edgeIds /\ seen'.keys = seen.keys
          /\ seen' \in [ids : SUBSET (Uuids \ {Nil}), names : SUBSET (Texts \ Blank),
                        edgeIds : SUBSET (Uuids \ {Nil}),
                        keys : SUBSET (Uuids \X (Labels \cup Texts))]
      BY <2>1, <2>2 DEF Inv, TypeOK, Node
    <2>4. TypeOK'
      BY <2>1, <2>3 DEF Inv, TypeOK
    <2>5. at' - 1 = at /\ 1..at = (1..(at - 1)) \cup {at}
      BY <1>1, <2>1
    <2>6. /\ seen'.ids = {payload.nodes[k].id : k \in 1..at}
          /\ seen'.names = {payload.nodes[k].name : k \in 1..at}
      BY <1>2, <2>3, <2>5
    <2>7. NodesLoop'
      <3>1. NodesGood(payload', at' - 1)
        BY <1>3, <1>4, <2>1, <2>5
      <3>2. /\ seen'.ids = {payload'.nodes[k].id : k \in 1..(at' - 1)}
            /\ seen'.names = {payload'.nodes[k].name : k \in 1..(at' - 1)}
        BY <2>1, <2>5, <2>6
      <3>3. at' <= Len(payload'.nodes) + 1
        BY <1>1, <2>1
      <3> QED
        BY <1>2, <2>3, <3>1, <3>2, <3>3 DEF NodesLoop
    <2>8. /\ EdgesLoop' /\ Synchronised' /\ SavedAsSent' /\ FailsOnlyOnText'
          /\ ChecksExact'
      BY <1>1, <2>1 DEF EdgesLoop, Synchronised, SavedAsSent, FailsOnlyOnText,
                        ChecksExact, Statements, Answers
    <2>9. DraftSound'
      BY <2>1 DEF Inv, DraftSound
    <2> QED
      BY <2>4, <2>7, <2>8, <2>9 DEF Inv
  <1>5. CASE ~NodeAccepted(n)
    <2>1. ~WellFormed(payload)
      BY <1>1, <1>3, <1>5, GoodPrefix
    <2>2. Answer("rejected")
      BY <1>5 DEF CheckNode
    <2> QED
      BY <2>1, <2>2, AnswerStep DEF Answers
  <1> QED
    BY <1>4, <1>5

LEMMA NodesCheckedStep == Inv /\ NodesChecked => Inv'
  <1> SUFFICES ASSUME Inv, NodesChecked PROVE Inv'
    OBVIOUS
  <1>1. /\ payload \in Body /\ pc = "nodes" /\ at > Len(payload.nodes)
        /\ Len(payload.nodes) \in Nat /\ Len(payload.edges) \in Nat /\ at \in Nat
        /\ DOMAIN payload.nodes = 1..Len(payload.nodes)
    BY DEF Inv, TypeOK, Body, NodesChecked
  <1>2. /\ pc' = "edges" /\ at' = 1 /\ payload' = payload /\ seen' = seen
        /\ draft' = draft /\ stored' = stored
    BY DEF NodesChecked
  <1>3. at - 1 = Len(payload.nodes)
    BY <1>1 DEF Inv, NodesLoop
  <1>4. /\ NodesGood(payload, Len(payload.nodes))
        /\ seen.ids = {payload.nodes[k].id : k \in DOMAIN payload.nodes}
        /\ seen.edgeIds = {} /\ seen.keys = {}
    BY <1>1, <1>3 DEF Inv, NodesLoop
  <1>5. seen.ids = Ids(Elements(payload.nodes))
    BY <1>4 DEF Ids, Elements
  <1>6. 1..(at' - 1) = {}
    BY <1>2
  <1>7. EdgesLoop'
    BY <1>1, <1>2, <1>4, <1>5, <1>6 DEF EdgesLoop, EdgesGood
  <1>8. /\ TypeOK' /\ NodesLoop' /\ Synchronised' /\ SavedAsSent'
        /\ FailsOnlyOnText' /\ ChecksExact' /\ DraftSound'
    BY <1>2 DEF Inv, DraftSound, TypeOK, NodesLoop, Synchronised, SavedAsSent,
                FailsOnlyOnText, ChecksExact, Statements, Answers
  <1> QED
    BY <1>7, <1>8 DEF Inv

LEMMA CheckEdgeStep == Inv /\ CheckEdge => Inv'
  <1> SUFFICES ASSUME Inv, CheckEdge PROVE Inv'
    OBVIOUS
  <1> DEFINE e == payload.edges[at]
  <1>1. /\ payload \in Body /\ pc = "edges" /\ at \in 1..Len(payload.edges)
        /\ Len(payload.edges) \in Nat
    BY DEF Inv, TypeOK, Body, CheckEdge
  <1>2. /\ EdgesGood(payload, at - 1) /\ NodesGood(payload, Len(payload.nodes))
        /\ seen.ids = Ids(Elements(payload.nodes))
        /\ seen.edgeIds = {payload.edges[k].id : k \in 1..(at - 1)}
        /\ seen.keys = {KeyOf(payload.edges[k]) : k \in 1..(at - 1)}
    BY <1>1 DEF Inv, EdgesLoop
  <1>3. EdgeAccepted(e) <=> EdgesGood(payload, at)
    <2>1. EdgesGood(payload, at) <=>
              /\ e.id # Nil /\ LabelOf(e) \in Labels
              /\ {e.from, e.to} \subseteq Ids(Elements(payload.nodes))
              /\ e.id \notin {payload.edges[k].id : k \in 1..(at - 1)}
              /\ KeyOf(e) \notin {KeyOf(payload.edges[k]) : k \in 1..(at - 1)}
      BY <1>1, <1>2, NextEdgeGood
    <2> QED
      BY <1>2, <2>1 DEF EdgeAccepted
  <1>4. CASE EdgeAccepted(e)
    <2>1. /\ seen' = [seen EXCEPT !.edgeIds = @ \cup {e.id}, !.keys = @ \cup {KeyOf(e)}]
          /\ at' = at + 1 /\ pc' = pc /\ payload' = payload
          /\ draft' = draft /\ stored' = stored
      BY <1>4 DEF CheckEdge
    <2>2. /\ e.id \in Uuids \ {Nil}
          /\ KeyOf(e) \in Uuids \X (Labels \cup Texts)
      <3>1. e \in Edge /\ e.id # Nil /\ LabelOf(e) \in Labels
        BY <1>1, <1>4, RowsTyped DEF EdgeAccepted, Body
      <3> QED
        BY <3>1 DEF Edge, KeyOf
    <2>3. /\ seen'.edgeIds = seen.edgeIds \cup {e.id}
          /\ seen'.keys = seen.keys \cup {KeyOf(e)} /\ seen'.ids = seen.ids
          /\ seen' \in [ids : SUBSET (Uuids \ {Nil}), names : SUBSET (Texts \ Blank),
                        edgeIds : SUBSET (Uuids \ {Nil}),
                        keys : SUBSET (Uuids \X (Labels \cup Texts))]
      BY <2>1, <2>2 DEF Inv, TypeOK
    <2>4. TypeOK'
      BY <2>1, <2>3 DEF Inv, TypeOK
    <2>5. at' - 1 = at /\ 1..at = (1..(at - 1)) \cup {at}
      BY <1>1, <2>1
    <2>6. /\ seen'.edgeIds = {payload.edges[k].id : k \in 1..at}
          /\ seen'.keys = {KeyOf(payload.edges[k]) : k \in 1..at}
      BY <1>2, <2>3, <2>5
    <2>7. EdgesLoop'
      <3>1. EdgesGood(payload', at' - 1) /\ NodesGood(payload', Len(payload'.nodes))
        BY <1>2, <1>3, <1>4, <2>1, <2>5
      <3>2. /\ seen'.edgeIds = {payload'.edges[k].id : k \in 1..(at' - 1)}
            /\ seen'.keys = {KeyOf(payload'.edges[k]) : k \in 1..(at' - 1)}
        BY <2>1, <2>5, <2>6
      <3>3. seen'.ids = Ids(Elements(payload'.nodes))
        BY <1>2, <2>1, <2>3
      <3>4. at' <= Len(payload'.edges) + 1
        BY <1>1, <2>1
      <3> QED
        BY <3>1, <3>2, <3>3, <3>4 DEF EdgesLoop
    <2>8. /\ NodesLoop' /\ Synchronised' /\ SavedAsSent' /\ FailsOnlyOnText'
          /\ ChecksExact'
      BY <1>1, <2>1 DEF NodesLoop, Synchronised, SavedAsSent, FailsOnlyOnText,
                        ChecksExact, Statements, Answers
    <2>9. DraftSound'
      BY <2>1 DEF Inv, DraftSound
    <2> QED
      BY <2>4, <2>7, <2>8, <2>9 DEF Inv
  <1>5. CASE ~EdgeAccepted(e)
    <2>1. ~WellFormed(payload)
      BY <1>1, <1>3, <1>5, GoodPrefix
    <2>2. Answer("rejected")
      BY <1>5 DEF CheckEdge
    <2> QED
      BY <2>1, <2>2, AnswerStep DEF Answers
  <1> QED
    BY <1>4, <1>5

LEMMA BeginSaveStep == Inv /\ BeginSave => Inv'
  <1> SUFFICES ASSUME Inv, BeginSave PROVE Inv'
    OBVIOUS
  <1>1. /\ payload \in Body /\ pc = "edges" /\ at > Len(payload.edges)
        /\ Len(payload.edges) \in Nat /\ at \in Nat
    BY DEF Inv, TypeOK, Body, BeginSave
  <1>2. /\ pc' = "upsertNodes" /\ draft' \in {stored, EmptyGraph}
        /\ at' = at /\ payload' = payload /\ seen' = seen /\ stored' = stored
    BY DEF BeginSave
  <1>3. at - 1 = Len(payload.edges)
    BY <1>1 DEF Inv, EdgesLoop
  <1>4. WellFormed(payload)
    BY <1>1, <1>3, WellFormedByLoops DEF Inv, EdgesLoop
  <1>5. ChecksExact'
    BY <1>2, <1>4 DEF ChecksExact, Statements
  <1>6. TypeOK'
    BY <1>2 DEF Inv, TypeOK, EmptyGraph, Statements
  <1>7. /\ NodesLoop' /\ EdgesLoop' /\ Synchronised' /\ SavedAsSent'
        /\ FailsOnlyOnText' /\ DraftSound'
    BY <1>2 DEF Inv, DraftSound, NodesLoop, EdgesLoop, Synchronised, SavedAsSent, FailsOnlyOnText
  <1> QED
    BY <1>5, <1>6, <1>7 DEF Inv

-----------------------------------------------------------------------------
(* persistGraph *)

\* A statement that succeeds changes pc and the draft only.
LEMMA StatementStep ==
    ASSUME Inv, pc \in Statements, pc' \in Statements,
           UNCHANGED <<payload, at, seen, stored>>,
           draft' \in [nodes : SUBSET Node, edges : SUBSET EdgeRowSet],
           Synchronised'
    PROVE  Inv'
  <1>1. WellFormed(payload')
    BY DEF Inv, ChecksExact
  <1>2. ChecksExact'
    BY <1>1 DEF ChecksExact, Statements
  <1>3. TypeOK'
    BY DEF Inv, TypeOK, EdgeRowSet
  <1>4. /\ NodesLoop' /\ EdgesLoop' /\ SavedAsSent' /\ FailsOnlyOnText'
        /\ DraftSound'
    BY DEF Inv, DraftSound, NodesLoop, EdgesLoop, SavedAsSent, FailsOnlyOnText, Statements
  <1> QED
    BY <1>2, <1>3, <1>4 DEF Inv

\* What every statement may use.
LEMMA PersistFacts ==
    ASSUME Inv, pc \in Statements
    PROVE  /\ payload \in Body /\ WellFormed(payload)
           /\ NodeRows = NodeRowsOf(payload) /\ EdgeRows = EdgeRowsOf(payload)
           /\ NodeRows \subseteq Node /\ EdgeRows \subseteq EdgeRowSet
           /\ draft \in [nodes : SUBSET Node, edges : SUBSET EdgeRowSet]
  <1>1. payload \in Body /\ WellFormed(payload)
    BY DEF Inv, TypeOK, Body, ChecksExact
  <1>2. draft \in [nodes : SUBSET Node, edges : SUBSET EdgeRowSet]
    BY DEF Inv, TypeOK, EdgeRowSet
  <1> QED
    BY <1>1, <1>2, RowsTyped, WellFormedRows DEF NodeRows, EdgeRows

LEMMA UpsertNodesStep == Inv /\ UpsertNodes => Inv'
  <1> SUFFICES ASSUME Inv, UpsertNodes PROVE Inv'
    OBVIOUS
  <1>1. pc = "upsertNodes" /\ pc \in Statements
    BY DEF UpsertNodes, Statements
  <1>2. /\ payload \in Body /\ WellFormed(payload) /\ NodeRows \subseteq Node
        /\ draft \in [nodes : SUBSET Node, edges : SUBSET EdgeRowSet]
    BY <1>1, PersistFacts
  <1>3. /\ \A n \in Elements(payload.nodes) : Known(n.type)
        /\ ~RepeatsId(payload.nodes)
    BY <1>2, WellFormedRows
  <1>4. CASE \E n \in Elements(payload.nodes) : HoldsUnstorable(n)
    <2>1. Answer("failed")
      BY <1>4 DEF UpsertNodes
    <2> QED
      BY <1>2, <1>4, <2>1, AnswerStep DEF Answers
  <1>5. CASE \A n \in Elements(payload.nodes) : ~HoldsUnstorable(n)
    <2>1. /\ pc' = "deleteNodes" /\ UNCHANGED <<payload, at, seen, stored>>
          /\ draft' = [draft EXCEPT !.nodes = Upserted(@, NodeRows)]
      BY <1>3, <1>5 DEF UpsertNodes
    <2>2. Upserted(draft.nodes, NodeRows) \in SUBSET Node
      BY <1>2 DEF Upserted
    <2>3. draft' \in [nodes : SUBSET Node, edges : SUBSET EdgeRowSet]
      BY <1>2, <2>1, <2>2
    <2>4. draft'.nodes = Upserted(draft.nodes, NodeRows)
      BY <1>2, <2>1
    <2>5. Retained(draft'.nodes, NodeRows) = NodeRows /\ NodeRows' = NodeRows
      BY <2>1, <2>4, UpsertThenDelete DEF NodeRows
    <2>6. Synchronised'
      BY <2>1, <2>5 DEF Synchronised
    <2> QED
      BY <1>1, <2>1, <2>3, <2>6, StatementStep DEF Statements
  <1> QED
    BY <1>4, <1>5

LEMMA DeleteNodesStep == Inv /\ DeleteNodesNotIn => Inv'
  <1> SUFFICES ASSUME Inv, DeleteNodesNotIn PROVE Inv'
    OBVIOUS
  <1>1. pc = "deleteNodes" /\ pc \in Statements
    BY DEF DeleteNodesNotIn, Statements
  <1>2. /\ NodeRows \subseteq Node
        /\ draft \in [nodes : SUBSET Node, edges : SUBSET EdgeRowSet]
        /\ Retained(draft.nodes, NodeRows) = NodeRows
    BY <1>1, PersistFacts DEF Inv, Synchronised
  <1>3. /\ pc' = "upsertEdges" /\ UNCHANGED <<payload, at, seen, stored>>
        /\ draft' = [nodes |-> NodeRows, edges |-> Cascaded(draft.edges, NodeRows)]
    BY <1>2 DEF DeleteNodesNotIn
  <1>4. Cascaded(draft.edges, NodeRows) \subseteq EdgeRowSet
    BY <1>2 DEF Cascaded
  <1>5. draft' \in [nodes : SUBSET Node, edges : SUBSET EdgeRowSet]
    BY <1>2, <1>3, <1>4
  <1>6. NodeRows' = NodeRows /\ draft'.nodes = NodeRows
    BY <1>3 DEF NodeRows
  <1>7. Synchronised'
    BY <1>3, <1>6 DEF Synchronised
  <1> QED
    BY <1>1, <1>3, <1>5, <1>7, StatementStep DEF Statements

LEMMA UpsertEdgesStep == Inv /\ UpsertEdges => Inv'
  <1> SUFFICES ASSUME Inv, UpsertEdges PROVE Inv'
    OBVIOUS
  <1>1. pc = "upsertEdges" /\ pc \in Statements
    BY DEF UpsertEdges, Statements
  <1>2. /\ payload \in Body /\ WellFormed(payload)
        /\ EdgeRows \subseteq EdgeRowSet /\ draft.nodes = NodeRows
        /\ draft \in [nodes : SUBSET Node, edges : SUBSET EdgeRowSet]
    BY <1>1, PersistFacts DEF Inv, Synchronised
  <1>3. /\ \A e \in EdgeRows : e.label \in Labels
        /\ \A e \in EdgeRows : {e.from, e.to} \subseteq Ids(draft.nodes)
        /\ ~RepeatsId(payload.edges)
    BY <1>2, WellFormedRows DEF NodeRows, EdgeRows
  <1>4. /\ pc' = "deleteEdges" /\ UNCHANGED <<payload, at, seen, stored>>
        /\ draft' = [draft EXCEPT !.edges = Upserted(@, EdgeRows)]
    BY <1>3 DEF UpsertEdges
  <1>5. Upserted(draft.edges, EdgeRows) \in SUBSET EdgeRowSet
    BY <1>2 DEF Upserted
  <1>6. /\ draft' \in [nodes : SUBSET Node, edges : SUBSET EdgeRowSet]
        /\ draft'.nodes = NodeRows
        /\ draft'.edges = Upserted(draft.edges, EdgeRows)
    BY <1>2, <1>4, <1>5
  <1>7. /\ NodeRows' = NodeRows /\ EdgeRows' = EdgeRows
        /\ Retained(draft'.edges, EdgeRows) = EdgeRows
    BY <1>4, <1>6, UpsertThenDelete DEF NodeRows, EdgeRows
  <1>8. Synchronised'
    BY <1>4, <1>6, <1>7 DEF Synchronised
  <1> QED
    BY <1>1, <1>4, <1>6, <1>8, StatementStep DEF Statements

LEMMA DeleteEdgesStep == Inv /\ DeleteEdgesNotIn => Inv'
  <1> SUFFICES ASSUME Inv, DeleteEdgesNotIn PROVE Inv'
    OBVIOUS
  <1>1. pc = "deleteEdges" /\ pc \in Statements
    BY DEF DeleteEdgesNotIn, Statements
  <1>2. /\ NodeRows \subseteq Node /\ EdgeRows \subseteq EdgeRowSet
        /\ draft \in [nodes : SUBSET Node, edges : SUBSET EdgeRowSet]
        /\ draft.nodes = NodeRows /\ Retained(draft.edges, EdgeRows) = EdgeRows
    BY <1>1, PersistFacts DEF Inv, Synchronised
  <1>3. /\ pc' = "updateWorkflow" /\ UNCHANGED <<payload, at, seen, stored>>
        /\ draft' = [draft EXCEPT !.edges = EdgeRows]
    BY <1>2 DEF DeleteEdgesNotIn
  <1>4. draft' = [nodes |-> NodeRows, edges |-> EdgeRows]
    BY <1>2, <1>3
  <1>5. NodeRows' = NodeRows /\ EdgeRows' = EdgeRows
    BY <1>3 DEF NodeRows, EdgeRows
  <1>6. Synchronised'
    BY <1>3, <1>4, <1>5 DEF Synchronised
  <1>7. draft' \in [nodes : SUBSET Node, edges : SUBSET EdgeRowSet]
    BY <1>2, <1>4
  <1> QED
    BY <1>1, <1>3, <1>6, <1>7, StatementStep DEF Statements

LEMMA UpdateWorkflowStep == Inv /\ UpdateWorkflow => Inv'
  <1> SUFFICES ASSUME Inv, UpdateWorkflow PROVE Inv'
    OBVIOUS
  <1>1. pc = "updateWorkflow" /\ pc \in Statements
    BY DEF UpdateWorkflow, Statements
  <1>2. WellFormed(payload) /\ draft \in [nodes : SUBSET Node, edges : SUBSET EdgeRowSet]
    BY <1>1, PersistFacts
  <1>3. CASE payload.name \in Unstorable
    <2>1. Answer("failed")
      BY <1>3 DEF UpdateWorkflow
    <2> QED
      BY <1>2, <1>3, <2>1, AnswerStep DEF Answers
  <1>4. CASE payload.name \notin Unstorable
    <2>1. pc' = "commit" /\ UNCHANGED <<payload, at, seen, draft, stored>>
      BY <1>4 DEF UpdateWorkflow
    <2>2. NodeRows' = NodeRows /\ EdgeRows' = EdgeRows
      BY <2>1 DEF NodeRows, EdgeRows
    <2>3. Synchronised'
      BY <1>1, <2>1, <2>2 DEF Inv, Synchronised
    <2> QED
      BY <1>1, <1>2, <2>1, <2>3, StatementStep DEF Statements
  <1> QED
    BY <1>3, <1>4

LEMMA CommitStep == Inv /\ Commit => Inv'
  <1> SUFFICES ASSUME Inv, Commit PROVE Inv'
    OBVIOUS
  <1>1. pc = "commit" /\ pc \in Statements
    BY DEF Commit, Statements
  <1>2. /\ payload \in Body /\ WellFormed(payload)
        /\ draft \in [nodes : SUBSET Node, edges : SUBSET EdgeRowSet]
        /\ draft = [nodes |-> NodeRows, edges |-> EdgeRows]
    BY <1>1, PersistFacts DEF Inv, Synchronised
  <1>3. NamesUnique(draft.nodes) /\ LabelsUnique(draft.edges) /\ ValidGraph(draft)
        /\ TypedGraph(PublishRows(draft), DOMAIN Schemas)
    BY <1>2, WellFormedRows, WellFormedGraph DEF NodeRows, EdgeRows
  <1>4. /\ pc' = "saved" /\ stored' = draft /\ draft' = EmptyGraph
        /\ payload' = payload /\ at' = at /\ seen' = seen
    BY <1>3 DEF Commit
  <1>5. NodeRows' = NodeRows /\ EdgeRows' = EdgeRows
    BY <1>4 DEF NodeRows, EdgeRows
  <1>6. SavedAsSent' /\ DraftSound'
    BY <1>2, <1>3, <1>4, <1>5 DEF SavedAsSent, DraftSound
  <1>7. TypeOK'
    BY <1>2, <1>4 DEF Inv, TypeOK, EmptyGraph, EdgeRowSet, Answers
  <1>8. ChecksExact'
    BY <1>2, <1>4 DEF ChecksExact
  <1>9. NodesLoop' /\ EdgesLoop' /\ Synchronised' /\ FailsOnlyOnText'
    BY <1>4 DEF NodesLoop, EdgesLoop, Synchronised, FailsOnlyOnText
  <1> QED
    BY <1>6, <1>7, <1>8, <1>9 DEF Inv

LEMMA RollbackStep == Inv /\ Rollback => Inv'
  <1> SUFFICES ASSUME Inv, Rollback PROVE Inv'
    OBVIOUS
  <1>1. WellFormed(payload) /\ Answer("aborted")
    BY DEF Rollback, Inv, ChecksExact
  <1> QED
    BY <1>1, AnswerStep DEF Answers

LEMMA StutterStep == Inv /\ UNCHANGED vars => Inv'
  <1> SUFFICES ASSUME Inv, UNCHANGED vars PROVE Inv'
    OBVIOUS
  <1>1. /\ pc' = pc /\ payload' = payload /\ at' = at /\ seen' = seen
        /\ draft' = draft /\ stored' = stored
    BY DEF vars
  <1>2. NodeRows' = NodeRows /\ EdgeRows' = EdgeRows
    BY <1>1 DEF NodeRows, EdgeRows
  <1> QED
    BY <1>1, <1>2 DEF Inv, TypeOK, NodesLoop, EdgesLoop, ChecksExact, Synchronised,
                      FailsOnlyOnText, SavedAsSent, DraftSound

LEMMA Invariance == Spec => []Inv
  <1>1. Inv /\ [Next]_vars => Inv'
    BY RequestStep, CheckNodeStep, NodesCheckedStep, CheckEdgeStep, BeginSaveStep,
       UpsertNodesStep, DeleteNodesStep, UpsertEdgesStep, DeleteEdgesStep,
       UpdateWorkflowStep, CommitStep, RollbackStep, StutterStep
       DEF Next, CheckStep, PersistStep
  <1> QED
    BY InvInit, <1>1, PTL DEF Spec

-----------------------------------------------------------------------------
(* Theorems *)

\* Every reachable state of a save is well typed: a draft holds no nil id, no
\* blank name and no label outside the enum.
THEOREM SavesTyped == Spec => []TypeOK
  <1>1. Inv => TypeOK
    BY DEF Inv
  <1> QED
    BY Invariance, <1>1, PTL

\* uniqueNodes and uniqueEdges refuse exactly the bodies that are not well
\* formed, of whatever length.
THEOREM ChecksAreExact == Spec => []ChecksExact
  <1>1. Inv => ChecksExact
    BY DEF Inv
  <1> QED
    BY Invariance, <1>1, PTL

\* A save whose body passed the checks fails on no constraint of the tables,
\* whatever the draft held.
THEOREM NoConstraintBroken == Spec => []FailsOnlyOnText
  <1>1. Inv => FailsOnlyOnText
    BY DEF Inv
  <1> QED
    BY Invariance, <1>1, PTL

\* A save leaves exactly the body in the draft.
THEOREM StoredAsSent == Spec => []SavedAsSent
  <1>1. Inv => SavedAsSent
    BY DEF Inv
  <1> QED
    BY Invariance, <1>1, PTL

\* Every draft is a valid graph at all times, and one that publish can read:
\* what PayloadsAssumption of WorkflowTables and DraftsAssumption of PublishGraph
\* take for granted.
THEOREM DraftsAreSound == Spec => []DraftSound
  <1>1. Inv => DraftSound
    BY DEF Inv
  <1> QED
    BY Invariance, <1>1, PTL
=============================================================================
