------------------------- MODULE NodeOutputsProofs -------------------------
(***************************************************************************)
(* Theorems about the data side of execution: for every set of versions,   *)
(* payloads, replies and values, of any depth and size, and any number of  *)
(* runs and hops.                                                          *)
(***************************************************************************)
EXTENDS NodeOutputs, JsonValuesProofs

-----------------------------------------------------------------------------
(* The inductive invariant *)

\* What is true of one run's row, whatever the other runs do.  An output whose
\* data is an object is a whole envelope: the sandbox's other answers have no
\* data, and no executor adds a key beside it.
RunInv(r, run) ==
    /\ run = [status |-> run.status, node |-> run.node, output |-> run.output,
              payload |-> run.payload, trail |-> run.trail]
    /\ run.status \in Active \cup {"completed", "failed"}
    /\ run.node \in Versions[r] \cup {StartNode}
    /\ run.payload \in Payloads[r]
    /\ IsJson(run.output) /\ IsObj(run.output) /\ Storable(run.output)
    /\ IsObj(Field(run.output, "data")) => IsEnvelope(run.output)
    /\ run.trail \in Seq(NodeTypes)
    /\ run.node = StartNode => run.trail = <<>>
    /\ run.trail = <<>> =>
          run.output = Envelope(Obj([payload |-> run.payload]))

\* How far a run has come: the nodes before a Response are bounded.
HopsInv(run) ==
    /\ Len(run.trail) <= MaxHops + 2
    /\ run.status \in Active =>
          /\ Len(run.trail) <= MaxHops + 1
          /\ run.node.type # "response" => Len(run.trail) <= MaxHops

EnvelopeInv(run) ==
    ~IsEnvelope(run.output) =>
        run.trail # <<>> /\ run.trail[Len(run.trail)] = "function"

PayloadInv(run) ==
    (\A i \in 1 .. Len(run.trail) : run.trail[i] \in {"start", "conditional"})
        => Field(Field(run.output, "data"), "payload") =
               IF \E i \in 1 .. Len(run.trail) : run.trail[i] = "conditional"
               THEN Decoded(run.payload) ELSE run.payload

RunOK(r, run) == RunInv(r, run) /\ HopsInv(run) /\ EnvelopeInv(run) /\ PayloadInv(run)

RunsInv ==
    /\ runs = [r \in Runs |-> runs[r]]
    /\ \A r \in Runs : runs[r] # NoRun => RunOK(r, runs[r])

\* A job of an active run has come back to the queue, or has been given up, only
\* because of poison: its own or that of a run it shared the worker with.
Explained(r) == MayBePoison(r) \/ \E p \in Started : Kills(p)

JobsInv ==
    /\ receives \in [Runs -> {NoJob} \cup 0 .. MaxReceive]
    /\ batch \subseteq {r \in Runs : receives[r] > 0}
    /\ parked \subseteq Runs
    /\ \A r \in Runs : receives[r] # NoJob => runs[r] # NoRun
    /\ \A r \in parked : receives[r] = NoJob /\ runs[r] # NoRun

PoisonInv ==
    \A r \in Started :
        /\ runs[r].status \in Active
        /\ r \in parked \/ (receives[r] > 0 /\ r \notin batch)
        => Explained(r)

IInv == RunsInv /\ JobsInv /\ PoisonInv
-----------------------------------------------------------------------------
(* The values the executors build *)

\* What a value needs to be stored as an output of a run.
Sound(v) == IsJson(v) /\ IsObj(v) /\ (IsObj(Field(v, "data")) => IsEnvelope(v))

LEMMA EnvelopeOf ==
    ASSUME NEW v, IsJson(v)
    PROVE  /\ IsJson(Envelope(v)) /\ IsObj(Envelope(v))
           /\ Keys(Envelope(v)) = {"data"}
           /\ Field(Envelope(v), "data") = v
           /\ Storable(v) => Storable(Envelope(v))
           /\ IsObj(v) <=> IsEnvelope(Envelope(v))
           /\ Sound(Envelope(v))
    <1> DEFINE f == [data |-> v]
    <1>1. DOMAIN f = {"data"} /\ DOMAIN f \subseteq STRING /\ f["data"] = v
        BY LiteralsAssumption
    <1>2. /\ \A k \in DOMAIN f : IsJson(f[k])
          /\ Storable(v) => \A k \in DOMAIN f : Storable(f[k])
        BY <1>1
    <1>3. Envelope(v) = Obj(f)
        BY DEF Envelope
    <1> HIDE DEF f
    <1>4. /\ IsJson(Obj(f)) /\ IsObj(Obj(f)) /\ Keys(Obj(f)) = {"data"}
          /\ Field(Obj(f), "data") = v
        BY <1>1, <1>2, ObjIsJson, FieldsOfObj
    <1>5. Storable(v) => Storable(Obj(f))
        BY <1>2, StorableObj
    <1> QED
        BY <1>3, <1>4, <1>5 DEF IsEnvelope, Sound

LEMMA EmptyObject ==
    /\ IsJson(Obj(NoFields)) /\ IsObj(Obj(NoFields)) /\ Storable(Obj(NoFields))
    /\ Keys(Obj(NoFields)) = {} /\ Field(Obj(NoFields), "data") = Null
    /\ Sound(Obj(NoFields))
    <1>1. DOMAIN NoFields = {}
        BY DEF NoFields
    <1>2. /\ IsJson(Obj(NoFields)) /\ IsObj(Obj(NoFields)) /\ Storable(Obj(NoFields))
          /\ Keys(Obj(NoFields)) = {} /\ Field(Obj(NoFields), "data") = Null
        BY <1>1, ObjIsJson, FieldsOfObj, StorableObj
    <1> QED
        BY <1>2, ConstantsAreJson DEF Sound

LEMMA TextIsStorable ==
    ASSUME NEW s \in STRING, s # "\\u0000"
    PROVE  IsJson(Str(s)) /\ Storable(Str(s))
    <1>1. [str |-> s] # NulText
        BY DEF NulText
    <1> QED
        BY <1>1, ConstantsAreJson, EntryFields DEF Storable, Str, Leaf

\* One function laid over another.
LEMMA Overlay ==
    ASSUME NEW f, NEW g,
           DOMAIN f \subseteq STRING, \A k \in DOMAIN f : IsJson(f[k]),
           DOMAIN g \subseteq STRING, \A k \in DOMAIN g : IsJson(g[k])
    PROVE  /\ DOMAIN Over(f, g) = DOMAIN f \cup DOMAIN g
           /\ DOMAIN Over(f, g) \subseteq STRING
           /\ \A k \in DOMAIN Over(f, g) :
                 /\ Over(f, g)[k] = IF k \in DOMAIN f THEN f[k] ELSE g[k]
                 /\ IsJson(Over(f, g)[k])
           /\ (/\ \A k \in DOMAIN f : Storable(f[k])
               /\ \A k \in DOMAIN g : Storable(g[k]))
              => \A k \in DOMAIN Over(f, g) : Storable(Over(f, g)[k])
    BY DEF Over

\* A Conditional writes its branch into data and leaves everything else.
LEMMA BranchAdded ==
    ASSUME NEW v, IsJson(v), IsObj(Field(v, "data")), NEW b \in {"true", "false"}
    PROVE  LET w == WithBranch(v, b) IN
           /\ IsJson(w) /\ IsObj(w) /\ Keys(w) = Keys(v) \cup {"data"}
           /\ IsObj(Field(w, "data"))
           /\ \A k : k # "branch" =>
                 Field(Field(w, "data"), k) = Field(Field(v, "data"), k)
           /\ Storable(v) => Storable(w)
    <1> DEFINE d == Field(v, "data")
               a == [branch |-> Str(b)]
               h == Fields(d)
               f == Over(a, h)
               c == [data |-> Obj(f)]
               e == Fields(v)
               g == Over(c, e)
    <1>1. IsJson(d)
        BY FieldIsJson
    <1>2. IsJson(Str(b)) /\ Storable(Str(b))
        BY TextIsStorable, LiteralsAssumption
    <1>3. /\ DOMAIN f = {"branch"} \cup Keys(d) /\ DOMAIN f \subseteq STRING
          /\ \A k \in DOMAIN f : IsJson(f[k])
          /\ \A k \in DOMAIN f : k # "branch" => f[k] = Field(d, k)
          /\ Storable(d) => \A k \in DOMAIN f : Storable(f[k])
        <2>1. /\ DOMAIN a = {"branch"} /\ DOMAIN a \subseteq STRING
              /\ \A k \in DOMAIN a : IsJson(a[k]) /\ Storable(a[k])
            BY <1>2, LiteralsAssumption
        <2>2. /\ DOMAIN h = Keys(d) /\ DOMAIN h \subseteq STRING
              /\ \A k \in DOMAIN h : h[k] = Field(d, k) /\ IsJson(h[k])
            BY <1>1, FieldsAreJson
        <2>3. Storable(d) => \A k \in DOMAIN h : Storable(h[k])
            BY <1>1, <2>2, StorableFields
        <2> HIDE DEF a, h, d
        <2>4. /\ DOMAIN f = DOMAIN a \cup DOMAIN h
              /\ DOMAIN f \subseteq STRING
              /\ \A k \in DOMAIN f :
                    /\ f[k] = IF k \in DOMAIN a THEN a[k] ELSE h[k]
                    /\ IsJson(f[k])
              /\ (/\ \A k \in DOMAIN a : Storable(a[k])
                  /\ \A k \in DOMAIN h : Storable(h[k]))
                 => \A k \in DOMAIN f : Storable(f[k])
            BY <2>1, <2>2, Overlay
        <2> HIDE DEF f
        <2> QED
            BY <2>1, <2>2, <2>3, <2>4
    <1>4. /\ IsJson(Obj(f)) /\ IsObj(Obj(f)) /\ Keys(Obj(f)) = DOMAIN f
          /\ \A k \in DOMAIN f : Field(Obj(f), k) = f[k]
          /\ \A k : k \notin DOMAIN f => Field(Obj(f), k) = Null
          /\ Storable(d) => Storable(Obj(f))
        <2> HIDE DEF f
        <2>1. IsJson(Obj(f)) /\ IsObj(Obj(f))
            BY <1>3, ObjIsJson
        <2>2. /\ Keys(Obj(f)) = DOMAIN f
              /\ \A k \in DOMAIN f : Field(Obj(f), k) = f[k]
              /\ \A k : k \notin DOMAIN f => Field(Obj(f), k) = Null
            BY <1>3, FieldsOfObj
        <2>3. Storable(d) => Storable(Obj(f))
            BY <1>3, StorableObj
        <2> QED
            BY <2>1, <2>2, <2>3
    <1>5. ASSUME NEW k, k # "branch"
          PROVE  Field(Obj(f), k) = Field(d, k)
        <2>1. CASE k \in Keys(d)
            BY <1>3, <1>4, <1>5, <2>1
        <2>2. CASE k \notin Keys(d)
            <3>1. Field(d, k) = Null
                BY <1>1, <2>2, KeyHasEntry DEF Field
            <3> QED
                BY <1>3, <1>4, <1>5, <2>2, <3>1
        <2> QED
            BY <2>1, <2>2
    <1>6. /\ DOMAIN g = {"data"} \cup Keys(v) /\ DOMAIN g \subseteq STRING
          /\ \A k \in DOMAIN g : IsJson(g[k])
          /\ g["data"] = Obj(f)
          /\ Storable(v) => \A k \in DOMAIN g : Storable(g[k])
        <2>1. /\ DOMAIN c = {"data"} /\ DOMAIN c \subseteq STRING
              /\ \A k \in DOMAIN c : IsJson(c[k])
              /\ c["data"] = Obj(f)
              /\ Storable(Obj(f)) => \A k \in DOMAIN c : Storable(c[k])
            BY <1>4, LiteralsAssumption
        <2>2. /\ DOMAIN e = Keys(v) /\ DOMAIN e \subseteq STRING
              /\ \A k \in DOMAIN e : e[k] = Field(v, k) /\ IsJson(e[k])
            BY FieldsAreJson
        <2>3. Storable(v) => /\ \A k \in DOMAIN e : Storable(e[k])
                             /\ Storable(Obj(f))
            BY <1>4, <2>2, StorableFields
        <2> HIDE DEF c, e, f
        <2>4. /\ DOMAIN g = DOMAIN c \cup DOMAIN e
              /\ DOMAIN g \subseteq STRING
              /\ \A k \in DOMAIN g :
                    /\ g[k] = IF k \in DOMAIN c THEN c[k] ELSE e[k]
                    /\ IsJson(g[k])
              /\ (/\ \A k \in DOMAIN c : Storable(c[k])
                  /\ \A k \in DOMAIN e : Storable(e[k]))
                 => \A k \in DOMAIN g : Storable(g[k])
            BY <2>1, <2>2, Overlay
        <2> HIDE DEF g
        <2> QED
            BY <2>1, <2>2, <2>3, <2>4
    <1>7. WithBranch(v, b) = Obj(g)
        BY DEF WithBranch
    <1> HIDE DEF g, f, d, a, c, e, h
    <1>8. /\ IsJson(Obj(g)) /\ IsObj(Obj(g)) /\ Keys(Obj(g)) = Keys(v) \cup {"data"}
          /\ Field(Obj(g), "data") = Obj(f)
        BY <1>6, ObjIsJson, FieldsOfObj
    <1>9. Storable(v) => Storable(Obj(g))
        BY <1>6, StorableObj
    <1> QED
        BY <1>4, <1>5, <1>7, <1>8, <1>9 DEF d
-----------------------------------------------------------------------------
(* What an executor may answer *)

LEMMA OutcomeKinds ==
    /\ Error.kind = "error" /\ Panic.kind = "panic" /\ Error # Panic
    /\ \A v, l : /\ Output(v, l).kind = "output" /\ Output(v, l).output = v
                 /\ Output(v, l).label = l
                 /\ Output(v, l) # Error /\ Output(v, l) # Panic
    /\ \A v : /\ Done(v).kind = "done" /\ Done(v).output = v
              /\ Done(v) # Error /\ Done(v) # Panic
    /\ \A v : Answer(v).output = v /\ Answer(v) # Error
    <1>1. Error.kind = "error" /\ Panic.kind = "panic"
        BY DEF Error, Panic
    <1>2. ASSUME NEW v, NEW l
          PROVE  /\ Output(v, l).kind = "output" /\ Output(v, l).output = v
                 /\ Output(v, l).label = l
        BY DEF Output
    <1>3. ASSUME NEW v
          PROVE  /\ Done(v).kind = "done" /\ Done(v).output = v
                 /\ Answer(v).kind = "answer" /\ Answer(v).output = v
        BY DEF Done, Answer
    <1> QED
        BY <1>1, <1>2, <1>3

\* A Conditional decides a branch on an envelope only, and it panics on
\* everything else that it does not refuse.
LEMMA ConditionalAnswers ==
    ASSUME NEW x, NEW v, Sound(v), NEW o \in ConditionalOutcomes(x, v)
    PROVE  /\ \/ o \in {Error, Panic}
              \/ /\ IsEnvelope(v)
                 /\ \E b \in {"true", "false"} :
                       o = Output(WithBranch(Decoded(v), b), b)
           /\ Panic \in ConditionalOutcomes(x, v) =>
                 ConditionalOutcomes(x, v) = {Panic} /\ ~IsEnvelope(v)
    <1> DEFINE d == Decoded(v)
               value == Resolved(x.path, d)
               b == Branch(x, value)
               refused == \/ ~Decodable(v) \/ x.literal = Malformed
                          \/ value = Malformed
    <1>1. ConditionalOutcomes(x, v) =
              IF refused THEN {Error}
              ELSE IF ~IsObj(Field(d, "data")) THEN {Panic}
              ELSE {Output(WithBranch(d, b), b)}
        BY DEF ConditionalOutcomes
    <1>2. b \in {"true", "false"}
        BY DEF Branch
    <1>3. IsObj(Field(d, "data")) <=> IsEnvelope(v)
        <2>1. Field(d, "data") = Decoded(Field(v, "data"))
            BY FieldOfDecoded DEF Sound
        <2>2. IsJson(Field(v, "data"))
            BY FieldIsJson DEF Sound
        <2>3. IsObj(Field(d, "data")) <=> IsObj(Field(v, "data"))
            BY <2>1, <2>2, DecodedIsJson
        <2> QED
            BY <2>3 DEF Sound, IsEnvelope
    <1> HIDE DEF b, refused, d
    <1>4. CASE refused
        BY <1>1, <1>4, OutcomeKinds
    <1>5. CASE ~refused /\ ~IsObj(Field(d, "data"))
        BY <1>1, <1>3, <1>5
    <1>6. CASE ~refused /\ IsObj(Field(d, "data"))
        <2>1. ConditionalOutcomes(x, v) = {Output(WithBranch(d, b), b)}
            BY <1>1, <1>6
        <2>2. o = Output(WithBranch(Decoded(v), b), b)
            BY <2>1 DEF d
        <2>3. Panic \notin ConditionalOutcomes(x, v)
            BY <2>1, OutcomeKinds
        <2>4. IsEnvelope(v)
            BY <1>3, <1>6
        <2> QED
            BY <1>2, <2>2, <2>3, <2>4
    <1> QED
        BY <1>4, <1>5, <1>6

\* Decoding and annotating an envelope keeps it an envelope; all it does to the
\* payload is to decode it.
LEMMA BranchOfEnvelope ==
    ASSUME NEW v, Sound(v), IsEnvelope(v), NEW b \in {"true", "false"}
    PROVE  LET w == WithBranch(Decoded(v), b) IN
           /\ Sound(w) /\ IsEnvelope(w)
           /\ Field(Field(w, "data"), "payload") =
                  Decoded(Field(Field(v, "data"), "payload"))
           /\ Storable(v) => Storable(w)
    <1> DEFINE d == Decoded(v)
               w == WithBranch(d, b)
    <1>1. /\ IsJson(v) /\ IsJson(Field(v, "data")) /\ IsObj(Field(v, "data"))
          /\ Keys(v) = {"data"}
        BY FieldIsJson DEF Sound, IsEnvelope
    <1>2. /\ IsJson(d) /\ Keys(d) = {"data"}
          /\ Storable(v) => Storable(d)
        BY <1>1, DecodedIsJson
    <1>3. Field(d, "data") = Decoded(Field(v, "data"))
        BY <1>1, FieldOfDecoded
    <1>4. IsObj(Field(d, "data"))
        BY <1>1, <1>3, DecodedIsJson
    <1>5. Field(Field(d, "data"), "payload") =
              Decoded(Field(Field(v, "data"), "payload"))
        BY <1>1, <1>3, FieldOfDecoded
    <1> HIDE DEF d
    <1>6. /\ IsJson(w) /\ IsObj(w) /\ Keys(w) = Keys(d) \cup {"data"}
          /\ IsObj(Field(w, "data"))
          /\ Field(Field(w, "data"), "payload") = Field(Field(d, "data"), "payload")
          /\ Storable(d) => Storable(w)
        BY <1>2, <1>4, BranchAdded
    <1> QED
        BY <1>2, <1>5, <1>6 DEF d, Sound, IsEnvelope

\* The envelope a General API node builds around a reply.
LEMMA ReplySound ==
    ASSUME NEW s, IsJson(s), Storable(s), NEW b, IsJson(b)
    PROVE  /\ Sound(ApiOutput(s, b)) /\ IsEnvelope(ApiOutput(s, b))
           /\ Storable(b) => Storable(ApiOutput(s, b))
    <1> DEFINE body == ReplyBody(b)
               f == [status |-> s, headers |-> Obj(NoFields), body |-> body]
    <1>1. IsJson(body) /\ (Storable(b) => Storable(body))
        BY DecodedIsJson, TextIsStorable, LiteralsAssumption DEF ReplyBody
    <1>2. IsJson(Obj(NoFields)) /\ Storable(Obj(NoFields))
        BY EmptyObject
    <1> HIDE DEF body
    <1>3. /\ DOMAIN f = {"status", "headers", "body"}
          /\ f["status"] = s /\ f["headers"] = Obj(NoFields) /\ f["body"] = body
        OBVIOUS
    <1>4. ApiOutput(s, b) = Envelope(Obj(f))
        BY DEF ApiOutput, body
    <1> HIDE DEF f
    <1>5. /\ DOMAIN f \subseteq STRING
          /\ \A k \in DOMAIN f : IsJson(f[k])
          /\ Storable(b) => \A k \in DOMAIN f : Storable(f[k])
        BY <1>1, <1>2, <1>3, LiteralsAssumption
    <1>6. IsJson(Obj(f)) /\ IsObj(Obj(f)) /\ (Storable(b) => Storable(Obj(f)))
        BY <1>5, ObjIsJson, StorableObj
    <1> QED
        BY <1>4, <1>6, EnvelopeOf

\* A template as published: JSON, none, or a text that is not JSON.
IsTemplate(t) == t \in {NoTemplate, NotJson} \/ IsJson(t)

LEMMA MergeFailsAlone ==
    ASSUME NEW t, NEW v
    PROVE  /\ MergeFailures(t, v) \in {{}, {Error}, {Panic}}
           /\ Panic \in MergeFailures(t, v) =>
                 t = Null /\ MergeFailures(t, v) = {Panic}
    BY OutcomeKinds DEF MergeFailures

LEMMA ApiAnswers ==
    ASSUME NEW c, NEW v, NEW o \in ApiOutcomes(c, v, Statuses, Replies)
    PROVE  /\ \/ o \in {Error, Panic}
              \/ \E s \in Statuses, b \in Replies :
                    o = Output(ApiOutput(s, b), "default")
           /\ Panic \in ApiOutcomes(c, v, Statuses, Replies) =>
                 /\ c.template = Null
                 /\ ApiOutcomes(c, v, Statuses, Replies) = {Panic}
    <1> DEFINE t == c.template
    <1>1. CASE ~c.parses
        BY <1>1, OutcomeKinds DEF ApiOutcomes
    <1>2. CASE c.parses /\ MergeFailures(t, v) # {}
        BY <1>2, MergeFailsAlone DEF ApiOutcomes
    <1>3. CASE c.parses /\ MergeFailures(t, v) = {}
        BY <1>3, OutcomeKinds DEF ApiOutcomes
    <1> QED
        BY <1>1, <1>2, <1>3

LEMMA ResponseAnswers ==
    ASSUME NEW t, NEW v, NEW o \in ResponseOutcomes(t, v)
    PROVE  /\ \/ o \in {Error, Panic}
              \/ /\ MergeFailures(t, v) = {}
                 /\ o = Done(Envelope(Obj([status_code |-> Str("200"),
                                           headers |-> Null,
                                           body |-> MergedBody(t, v)])))
           /\ Panic \in ResponseOutcomes(t, v) =>
                 t = Null /\ ResponseOutcomes(t, v) = {Panic}
    <1>1. CASE MergeFailures(t, v) # {}
        BY <1>1, MergeFailsAlone DEF ResponseOutcomes
    <1>2. CASE MergeFailures(t, v) = {}
        BY <1>2, OutcomeKinds DEF ResponseOutcomes
    <1> QED
        BY <1>1, <1>2

LEMMA NotJsonIsNoObject == ~IsObj(NotJson) /\ ~IsObj(NoTemplate)
    <1>1. [template |-> "none"] # Object /\ [template |-> "not JSON"] # Object
        BY DEF Object
    <1> QED
        BY <1>1 DEF IsObj, NotJson, NoTemplate, Leaf, Entry

\* The body of a Response: the template overlaid with data.
LEMMA MergedBodySound ==
    ASSUME NEW t, IsTemplate(t), NEW v, IsJson(v), MergeFailures(t, v) = {}
    PROVE  /\ IsJson(MergedBody(t, v))
           /\ Storable(t) /\ Storable(v) => Storable(MergedBody(t, v))
    <1> DEFINE d == Decoded(Field(v, "data"))
               u == Decoded(t)
               f == Fields(d)
               g == Fields(u)
    <1>1. CASE t = Null
        BY <1>1, ConstantsAreJson DEF MergedBody
    <1>2. CASE t # Null
        <2>1. IsJson(Field(v, "data")) /\ IsJson(d)
            BY FieldIsJson, DecodedIsJson
        <2>2. Storable(v) => Storable(d)
            BY <2>1, StorableFields, DecodedIsJson
        <2>3. /\ DOMAIN f \subseteq STRING
              /\ \A k \in DOMAIN f : IsJson(f[k])
              /\ Storable(v) => \A k \in DOMAIN f : Storable(f[k])
            <3> HIDE DEF d
            <3> QED
                BY <2>1, <2>2, FieldsAreJson, StorableFields
        <2>4. /\ DOMAIN g \subseteq STRING
              /\ \A k \in DOMAIN g : IsJson(g[k])
              /\ Storable(t) => \A k \in DOMAIN g : Storable(g[k])
            <3>1. CASE t = NoTemplate
                <4>1. Keys(u) = {}
                    BY <3>1, EntryFields
                    DEF NoTemplate, Leaf, Decoded, Keys
                <4>2. DOMAIN g = {}
                    BY <4>1 DEF Fields
                <4> QED
                    BY <4>2
            <3>2. CASE t # NoTemplate
                <4>1. IsObj(t) /\ t # NotJson
                    BY <1>2, <3>2, OutcomeKinds, NotJsonIsNoObject
                    DEF MergeFailures, IsBody
                <4>2. IsJson(t)
                    BY <3>2, <4>1 DEF IsTemplate
                <4>3. IsJson(u) /\ (Storable(t) => Storable(u))
                    BY <4>2, DecodedIsJson
                <4> HIDE DEF u
                <4> QED
                    BY <4>3, FieldsAreJson, StorableFields
            <3> QED
                BY <3>1, <3>2
        <2>5. MergedBody(t, v) = Obj(Over(f, g))
            BY <1>2 DEF MergedBody
        <2> HIDE DEF f, g
        <2>6. /\ DOMAIN Over(f, g) \subseteq STRING
              /\ \A k \in DOMAIN Over(f, g) : IsJson(Over(f, g)[k])
            BY <2>3, <2>4, Overlay
        <2>7. Storable(t) /\ Storable(v) =>
                  \A k \in DOMAIN Over(f, g) : Storable(Over(f, g)[k])
            BY <2>3, <2>4, Overlay
        <2> QED
            BY <2>5, <2>6, <2>7, ObjIsJson, StorableObj
    <1> QED
        BY <1>1, <1>2

LEMMA ResponseSound ==
    ASSUME NEW t, IsTemplate(t), NEW v, IsJson(v), MergeFailures(t, v) = {}
    PROVE  LET w == Envelope(Obj([status_code |-> Str("200"), headers |-> Null,
                                  body |-> MergedBody(t, v)])) IN
           /\ Sound(w) /\ IsEnvelope(w)
           /\ Storable(t) /\ Storable(v) => Storable(w)
    <1> DEFINE body == MergedBody(t, v)
               f == [status_code |-> Str("200"), headers |-> Null, body |-> body]
    <1>1. IsJson(body) /\ (Storable(t) /\ Storable(v) => Storable(body))
        BY MergedBodySound
    <1>2. /\ IsJson(Str("200")) /\ Storable(Str("200"))
          /\ IsJson(Null) /\ Storable(Null)
        BY TextIsStorable, ConstantsAreJson, LiteralsAssumption
    <1> HIDE DEF body
    <1>3. /\ DOMAIN f = {"status_code", "headers", "body"}
          /\ f["status_code"] = Str("200") /\ f["headers"] = Null
          /\ f["body"] = body
        OBVIOUS
    <1> HIDE DEF f
    <1>4. /\ DOMAIN f \subseteq STRING
          /\ \A k \in DOMAIN f : IsJson(f[k])
          /\ Storable(t) /\ Storable(v) => \A k \in DOMAIN f : Storable(f[k])
        BY <1>1, <1>2, <1>3, LiteralsAssumption
    <1>5. /\ IsJson(Obj(f)) /\ IsObj(Obj(f))
          /\ Storable(t) /\ Storable(v) => Storable(Obj(f))
        BY <1>4, ObjIsJson, StorableObj
    <1>6. /\ Sound(Envelope(Obj(f))) /\ IsEnvelope(Envelope(Obj(f)))
          /\ Storable(t) /\ Storable(v) => Storable(Envelope(Obj(f)))
        BY <1>5, EnvelopeOf
    <1> QED
        BY <1>6 DEF f, body

LEMMA ErrorPayloadSound ==
    ASSUME NEW c \in {"RUNTIME_ERROR", "TIMEOUT", "INVALID_INPUT"}
    PROVE  Sound(ErrorPayload(c)) /\ Storable(ErrorPayload(c))
    <1> DEFINE f == [code |-> Str(c)]
               g == [error |-> Obj(f)]
    <1>1. /\ DOMAIN f = {"code"} /\ DOMAIN f \subseteq STRING
          /\ \A k \in DOMAIN f : IsJson(f[k]) /\ Storable(f[k])
        BY TextIsStorable, LiteralsAssumption
    <1> HIDE DEF f
    <1>2. IsJson(Obj(f)) /\ Storable(Obj(f))
        BY <1>1, ObjIsJson, StorableObj
    <1>3. /\ DOMAIN g = {"error"} /\ DOMAIN g \subseteq STRING
          /\ \A k \in DOMAIN g : IsJson(g[k]) /\ Storable(g[k])
        BY <1>2, LiteralsAssumption
    <1> HIDE DEF g
    <1>4. /\ IsJson(Obj(g)) /\ IsObj(Obj(g)) /\ Storable(Obj(g))
          /\ Field(Obj(g), "data") = Null
        BY <1>3, ObjIsJson, StorableObj, FieldsOfObj
    <1> QED
        BY <1>4, ConstantsAreJson DEF Sound, ErrorPayload, f, g

\* Whatever the sandbox answers, and the executor passes on, has either no data
\* or nothing else.
LEMMA FunctionAnswers ==
    ASSUME NEW v, IsJson(v), NEW o \in FunctionOutcomes(v, Values)
    PROVE  /\ \/ o = Error
              \/ \E a : /\ o = Output(a, "default") /\ Sound(a)
                        /\ Storable(v) /\ (\A w \in Values : Storable(w))
                              => Storable(a)
           /\ Panic \notin FunctionOutcomes(v, Values)
    <1>1. ASSUME NEW a \in SandboxAnswers(v, Values)
          PROVE  /\ Sound(a)
                 /\ Storable(v) /\ (\A w \in Values : Storable(w)) => Storable(a)
        <2>1. CASE a \in UserAnswers(v, Values)
            <3>1. CASE a = Obj(NoFields)
                BY <3>1, EmptyObject
            <3>2. ASSUME NEW w \in Values \cup {Field(v, "data")},
                         a = Envelope(Decoded(w))
                  PROVE  /\ Sound(a)
                         /\ Storable(v) /\ (\A x \in Values : Storable(x))
                               => Storable(a)
                <4>1. /\ IsJson(w)
                      /\ Storable(v) /\ (\A x \in Values : Storable(x))
                            => Storable(w)
                    BY FieldIsJson, StorableFields, DataAssumption
                <4>2. IsJson(Decoded(w)) /\ (Storable(w) => Storable(Decoded(w)))
                    BY <4>1, DecodedIsJson
                <4> QED
                    BY <3>2, <4>1, <4>2, EnvelopeOf
            <3> QED
                BY <2>1, <3>1, <3>2 DEF UserAnswers
        <2>2. CASE \E c \in {"RUNTIME_ERROR", "TIMEOUT", "INVALID_INPUT"} :
                       a = ErrorPayload(c)
            BY <2>2, ErrorPayloadSound
        <2> QED
            BY <2>1, <2>2 DEF SandboxAnswers
    <1>2. ASSUME NEW p \in FunctionOutcomes(v, Values)
          PROVE  p = Error \/ \E a \in SandboxAnswers(v, Values) :
                                  p = Output(a, "default")
        BY OutcomeKinds DEF FunctionOutcomes, Invoked
    <1>3. Panic \notin FunctionOutcomes(v, Values)
        BY <1>2, OutcomeKinds
    <1> QED
        BY <1>1, <1>2, <1>3

-----------------------------------------------------------------------------
(* One run *)

\* What a run's node may answer to its input.
LEMMA NodeAnswers ==
    ASSUME NEW r \in Runs, RunInv(r, runs[r]), NEW o \in Outcomes(r)
    PROVE  LET run == runs[r]
               type == run.node.type
           IN  /\ type \in NodeTypes
               /\ type = "start" => run.node = StartNode
               /\ o \in {Error, Panic} \/ o.kind \in {"output", "done"}
               /\ o.kind = "output" => type # "response" /\ Sound(o.output)
               /\ o.kind = "output" /\ type = "start" => o.output = run.output
               /\ o.kind = "output" /\ type = "conditional" =>
                     /\ IsEnvelope(run.output)
                     /\ Field(Field(o.output, "data"), "payload") =
                            Decoded(Field(Field(run.output, "data"), "payload"))
               /\ o.kind = "output" /\ type \in {"conditional", "api"} =>
                     IsEnvelope(o.output)
               /\ o.kind = "done" => /\ type = "response"
                                     /\ Sound(o.output) /\ IsEnvelope(o.output)
               /\ o.kind \in {"output", "done"} /\ ~Persistable(r, o) =>
                     MayBePoison(r)
               /\ Panic \in Outcomes(r) => Outcomes(r) = {Panic} /\ MayBePoison(r)
    <1> DEFINE run == runs[r]
               type == run.node.type
               v == run.output
    <1>1. Sound(v) /\ IsJson(v) /\ Storable(v)
        BY DEF RunInv, Sound
    <1>2. /\ run.node \in Versions[r] \cup {StartNode}
          /\ StartNode.type = "start"
        BY DEF RunInv, StartNode, Node
    <1>3. /\ type \in NodeTypes
          /\ type = "start" => run.node = StartNode
          /\ type \in {"api", "response"} => IsTemplate(run.node.config.template)
        <2>1. CASE run.node = StartNode
            BY <1>2, <2>1 DEF NodeTypes
        <2>2. CASE run.node \in Versions[r]
            BY <2>2, VersionsAssumption DEF NodeTypes, IsTemplate
        <2> QED
            BY <1>2, <2>1, <2>2
    <1> HIDE DEF v
    <1>4. CASE type = "start"
        <2>1. Outcomes(r) = StartOutcomes(v)
            BY <1>4 DEF Outcomes, v
        <2>2. o = Output(v, "default")
            BY <2>1 DEF StartOutcomes
        <2>3. Persistable(r, o)
            BY <1>1, <1>4, <2>2, OutcomeKinds DEF Persistable, Labels
        <2>4. Panic \notin Outcomes(r)
            BY <2>1, OutcomeKinds DEF StartOutcomes
        <2> QED
            BY <1>1, <1>3, <1>4, <2>2, <2>3, <2>4, OutcomeKinds DEF v
    <1>5. CASE type = "conditional"
        <2> DEFINE x == run.node.config
        <2>1. Outcomes(r) = ConditionalOutcomes(x, v)
            BY <1>5 DEF Outcomes, v
        <2> HIDE DEF x
        <2>2. /\ \/ o \in {Error, Panic}
                 \/ /\ IsEnvelope(v)
                    /\ \E b \in {"true", "false"} :
                          o = Output(WithBranch(Decoded(v), b), b)
              /\ Panic \in Outcomes(r) => Outcomes(r) = {Panic} /\ ~IsEnvelope(v)
            BY <1>1, <2>1, ConditionalAnswers
        <2>3. ~IsEnvelope(v) => MayBePoison(r)
            BY <1>5 DEF MayBePoison, v
        <2>4. CASE o \in {Error, Panic}
            BY <1>3, <1>5, <2>2, <2>3, <2>4, OutcomeKinds
        <2>5. ASSUME IsEnvelope(v), NEW b \in {"true", "false"},
                     o = Output(WithBranch(Decoded(v), b), b)
              PROVE  /\ o.kind = "output"
                     /\ Sound(o.output) /\ IsEnvelope(o.output)
                     /\ Field(Field(o.output, "data"), "payload") =
                            Decoded(Field(Field(v, "data"), "payload"))
                     /\ Persistable(r, o)
            <3>1. o.kind = "output" /\ o.label = b
                  /\ o.output = WithBranch(Decoded(v), b)
                BY <2>5, OutcomeKinds
            <3>2. /\ Sound(o.output) /\ IsEnvelope(o.output) /\ Storable(o.output)
                  /\ Field(Field(o.output, "data"), "payload") =
                         Decoded(Field(Field(v, "data"), "payload"))
                BY <1>1, <2>5, <3>1, BranchOfEnvelope
            <3>3. Persistable(r, o)
                BY <1>5, <3>1, <3>2 DEF Persistable, Labels
            <3> QED
                BY <3>1, <3>2, <3>3
        <2> QED
            BY <1>3, <1>5, <2>2, <2>3, <2>4, <2>5 DEF v
    <1>6. CASE type = "api"
        <2> DEFINE c == run.node.config
                   t == c.template
        <2>1. Outcomes(r) = ApiOutcomes(c, v, Statuses, Replies)
            BY <1>6 DEF Outcomes, v
        <2> HIDE DEF c, t
        <2>2. /\ \/ o \in {Error, Panic}
                 \/ \E s \in Statuses, b \in Replies :
                       o = Output(ApiOutput(s, b), "default")
              /\ Panic \in Outcomes(r) => t = Null /\ Outcomes(r) = {Panic}
            BY <2>1, ApiAnswers DEF t
        <2>3. t = Null \/ (\E b \in Replies : ~Storable(b)) => MayBePoison(r)
            BY <1>6 DEF MayBePoison, c, t
        <2>4. CASE o \in {Error, Panic}
            BY <1>3, <1>6, <2>2, <2>3, <2>4, OutcomeKinds
        <2>5. ASSUME NEW s \in Statuses, NEW b \in Replies,
                     o = Output(ApiOutput(s, b), "default")
              PROVE  /\ o.kind = "output"
                     /\ Sound(o.output) /\ IsEnvelope(o.output)
                     /\ ~Persistable(r, o) => MayBePoison(r)
            <3>1. /\ o.kind = "output" /\ o.label = "default"
                  /\ o.output = ApiOutput(s, b)
                BY <2>5, OutcomeKinds
            <3>2. /\ Sound(o.output) /\ IsEnvelope(o.output)
                  /\ Storable(b) => Storable(o.output)
                BY <3>1, DataAssumption, ReplySound
            <3>3. Storable(b) => Persistable(r, o)
                BY <1>6, <3>1, <3>2 DEF Persistable, Labels
            <3> QED
                BY <2>3, <3>1, <3>2, <3>3
        <2> QED
            BY <1>3, <1>6, <2>2, <2>3, <2>4, <2>5
    <1>7. CASE type = "function"
        <2>1. Outcomes(r) = FunctionOutcomes(v, Values)
            BY <1>7 DEF Outcomes, v
        <2>2. /\ \/ o = Error
                 \/ \E a : /\ o = Output(a, "default") /\ Sound(a)
                           /\ Storable(v) /\ (\A w \in Values : Storable(w))
                                 => Storable(a)
              /\ Panic \notin Outcomes(r)
            BY <1>1, <2>1, FunctionAnswers
        <2>3. (\E w \in Values : ~Storable(w)) => MayBePoison(r)
            BY <1>7 DEF MayBePoison
        <2>4. CASE o = Error
            BY <1>3, <1>7, <2>2, <2>4, OutcomeKinds
        <2>5. ASSUME NEW a, o = Output(a, "default"), Sound(a),
                     (\A w \in Values : Storable(w)) => Storable(a)
              PROVE  /\ o.kind = "output" /\ Sound(o.output)
                     /\ ~Persistable(r, o) => MayBePoison(r)
            <3>1. o.kind = "output" /\ o.label = "default" /\ o.output = a
                BY <2>5, OutcomeKinds
            <3>2. Storable(a) => Persistable(r, o)
                BY <1>7, <3>1 DEF Persistable, Labels
            <3> QED
                BY <2>3, <2>5, <3>1, <3>2
        <2> QED
            BY <1>1, <1>3, <1>7, <2>2, <2>4, <2>5
    <1>8. CASE type = "response"
        <2> DEFINE t == run.node.config.template
        <2>1. Outcomes(r) = ResponseOutcomes(t, v)
            BY <1>8 DEF Outcomes, v
        <2>2. IsTemplate(t)
            BY <1>3, <1>8
        <2>3. t = Null \/ ~Storable(t) => MayBePoison(r)
            BY <1>8 DEF MayBePoison
        <2> HIDE DEF t
        <2> DEFINE w == Envelope(Obj([status_code |-> Str("200"), headers |-> Null,
                                      body |-> MergedBody(t, v)]))
        <2>4. /\ o \in {Error, Panic} \/ (MergeFailures(t, v) = {} /\ o = Done(w))
              /\ Panic \in Outcomes(r) => t = Null /\ Outcomes(r) = {Panic}
            BY <2>1, ResponseAnswers
        <2>5. CASE o \in {Error, Panic}
            BY <1>3, <1>8, <2>3, <2>4, <2>5, OutcomeKinds
        <2>6. MergeFailures(t, v) = {} =>
                  /\ Sound(w) /\ IsEnvelope(w)
                  /\ Storable(t) => Storable(w)
            BY <1>1, <2>2, ResponseSound
        <2> HIDE DEF w
        <2>7. ASSUME MergeFailures(t, v) = {}, o = Done(w)
              PROVE  /\ o.kind = "done" /\ Sound(o.output) /\ IsEnvelope(o.output)
                     /\ ~Persistable(r, o) => MayBePoison(r)
            <3>1. o.kind = "done" /\ o.output = w
                BY <2>7, OutcomeKinds
            <3>2. Storable(w) => Persistable(r, o)
                BY <3>1 DEF Persistable
            <3> QED
                BY <2>3, <2>6, <2>7, <3>1, <3>2
        <2> QED
            BY <1>3, <1>8, <2>3, <2>4, <2>5, <2>7
    <1> QED
        BY <1>3, <1>4, <1>5, <1>6, <1>7, <1>8 DEF NodeTypes

\* A payload that is appended to: another Start or Conditional on the trail.
LEMMA PayloadCarried ==
    ASSUME NEW run, NEW w, NEW type, PayloadInv(run),
           run.trail \in Seq(NodeTypes), type \in NodeTypes, IsJson(run.payload),
           type = "start" => run.trail = <<>> /\ w = run.output,
           type = "conditional" =>
               Field(Field(w, "data"), "payload") =
                   Decoded(Field(Field(run.output, "data"), "payload")),
           NEW new, new.output = w, new.payload = run.payload,
           new.trail = Append(run.trail, type)
    PROVE  PayloadInv(new)
    <1> DEFINE n == Len(run.trail)
               kept(v) == Field(Field(v, "data"), "payload")
    <1>1. /\ n \in Nat /\ Len(new.trail) = n + 1 /\ new.trail[n + 1] = type
          /\ \A i \in 1 .. n : new.trail[i] = run.trail[i]
          /\ \A i \in 1 .. n + 1 : i \in 1 .. n \/ i = n + 1
          /\ n + 1 \in 1 .. n + 1 /\ \A i \in 1 .. n : i \in 1 .. n + 1
        OBVIOUS
    <1> HIDE DEF n
    <1> SUFFICES ASSUME \A i \in 1 .. n + 1 : new.trail[i] \in {"start", "conditional"}
                 PROVE  kept(w) = IF \E i \in 1 .. n + 1 : new.trail[i] = "conditional"
                                  THEN Decoded(run.payload) ELSE run.payload
        BY <1>1 DEF PayloadInv
    <1>2. type \in {"start", "conditional"}
        BY <1>1
    <1>3. kept(run.output) = IF \E i \in 1 .. n : run.trail[i] = "conditional"
                             THEN Decoded(run.payload) ELSE run.payload
        BY <1>1 DEF PayloadInv, n
    <1>4. CASE type = "start"
        <2>1. n = 0
            BY <1>4 DEF n
        <2>2. ~\E i \in 1 .. n + 1 : new.trail[i] = "conditional"
            BY <1>1, <1>4, <2>1
        <2>3. ~\E i \in 1 .. n : run.trail[i] = "conditional"
            BY <2>1
        <2> QED
            BY <1>3, <1>4, <2>2, <2>3
    <1>5. CASE type = "conditional"
        <2>1. \E i \in 1 .. n + 1 : new.trail[i] = "conditional"
            BY <1>1, <1>5
        <2>2. kept(run.output) \in {run.payload, Decoded(run.payload)}
            BY <1>3
        <2>3. Decoded(Decoded(run.payload)) = Decoded(run.payload)
            BY DecodedOnce
        <2> QED
            BY <1>5, <2>1, <2>2, <2>3
    <1> QED
        BY <1>2, <1>4, <1>5

LEMMA AdvancedRun ==
    ASSUME NEW r \in Runs, RunOK(r, runs[r]), runs[r].status \in Active,
           NEW o \in Outcomes(r), o.kind = "output", Persistable(r, o),
           NEW next \in Following(r)
    PROVE  RunOK(r, [status |-> "running", node |-> next, output |-> o.output,
                     payload |-> runs[r].payload,
                     trail |-> Append(runs[r].trail, runs[r].node.type)])
    <1> DEFINE run == runs[r]
               type == run.node.type
               new == [status |-> "running", node |-> next, output |-> o.output,
                       payload |-> run.payload, trail |-> Append(run.trail, type)]
               n == Len(run.trail)
    <1>1. /\ new.status = "running" /\ new.node = next /\ new.output = o.output
          /\ new.payload = run.payload /\ new.trail = Append(run.trail, type)
          /\ new = [status |-> new.status, node |-> new.node, output |-> new.output,
                    payload |-> new.payload, trail |-> new.trail]
        OBVIOUS
    <1> HIDE DEF new
    <1>2. /\ RunInv(r, run) /\ HopsInv(run) /\ EnvelopeInv(run) /\ PayloadInv(run)
          /\ run.trail \in Seq(NodeTypes) /\ run.payload \in Payloads[r]
        BY DEF RunOK, RunInv
    <1>3. /\ type \in NodeTypes /\ type # "response"
          /\ type = "start" => run.node = StartNode
          /\ Sound(o.output) /\ Storable(o.output)
          /\ type = "start" => o.output = run.output
          /\ type = "conditional" =>
                Field(Field(o.output, "data"), "payload") =
                    Decoded(Field(Field(run.output, "data"), "payload"))
          /\ type \in {"conditional", "api"} => IsEnvelope(o.output)
        BY <1>2, NodeAnswers DEF Persistable
    <1>4. /\ next \in Versions[r] /\ next # StartNode
          /\ n >= MaxHops => next.type = "response"
        <2>1. next \in Versions[r] /\ (n >= MaxHops => next.type = "response")
            BY DEF Following
        <2>2. next.type # "start" /\ StartNode.type = "start"
            BY <2>1, VersionsAssumption DEF StartNode, Node
        <2> QED
            BY <2>1, <2>2
    <1>5. type = "start" => run.trail = <<>>
        BY <1>2, <1>3 DEF RunInv
    <1>6. /\ n \in Nat /\ Len(new.trail) = n + 1 /\ new.trail[n + 1] = type
          /\ new.trail \in Seq(NodeTypes) /\ new.trail # <<>>
        BY <1>1, <1>2, <1>3
    <1>7. RunInv(r, new)
        BY <1>1, <1>2, <1>3, <1>4, <1>6 DEF RunInv, Sound, Active
    <1>8. HopsInv(new)
        <2>1. n <= MaxHops
            BY <1>2, <1>3 DEF HopsInv
        <2> HIDE DEF n
        <2>2. n < MaxHops \/ next.type = "response"
            BY <1>4, <1>6, BoundsAssumption
        <2> QED
            BY <1>1, <1>6, <2>1, <2>2, BoundsAssumption DEF HopsInv
    <1>9. EnvelopeInv(new)
        <2>1. type = "start" => IsEnvelope(o.output)
            BY <1>2, <1>3, <1>5 DEF EnvelopeInv
        <2>2. IsEnvelope(o.output) \/ type = "function"
            BY <1>3, <2>1 DEF NodeTypes
        <2> QED
            BY <1>1, <1>6, <2>2 DEF EnvelopeInv
    <1>10. PayloadInv(new)
        <2>1. IsJson(run.payload)
            BY <1>2, DataAssumption
        <2> HIDE DEF n
        <2> QED
            BY <1>1, <1>2, <1>3, <1>5, <2>1, PayloadCarried
    <1> QED
        BY <1>7, <1>8, <1>9, <1>10 DEF RunOK, new

LEMMA CompletedRun ==
    ASSUME NEW r \in Runs, RunOK(r, runs[r]), runs[r].status \in Active,
           NEW o \in Outcomes(r), o.kind = "done", Persistable(r, o)
    PROVE  RunOK(r, [status |-> "completed", node |-> runs[r].node,
                     output |-> o.output, payload |-> runs[r].payload,
                     trail |-> Append(runs[r].trail, "response")])
    <1> DEFINE run == runs[r]
               new == [status |-> "completed", node |-> run.node,
                       output |-> o.output, payload |-> run.payload,
                       trail |-> Append(run.trail, "response")]
               n == Len(run.trail)
    <1>1. /\ new.status = "completed" /\ new.node = run.node
          /\ new.output = o.output /\ new.payload = run.payload
          /\ new.trail = Append(run.trail, "response")
          /\ new = [status |-> new.status, node |-> new.node, output |-> new.output,
                    payload |-> new.payload, trail |-> new.trail]
        OBVIOUS
    <1> HIDE DEF new
    <1>2. /\ RunInv(r, run) /\ HopsInv(run) /\ PayloadInv(run)
          /\ run.trail \in Seq(NodeTypes) /\ run.payload \in Payloads[r]
        BY DEF RunOK, RunInv
    <1>3. /\ run.node.type = "response" /\ "response" \in NodeTypes
          /\ Sound(o.output) /\ IsEnvelope(o.output) /\ Storable(o.output)
        BY <1>2, NodeAnswers DEF Persistable
    <1>4. /\ n \in Nat /\ Len(new.trail) = n + 1
          /\ new.trail \in Seq(NodeTypes) /\ new.trail # <<>>
        BY <1>1, <1>2, <1>3
    <1>5. run.node # StartNode
        <2>1. StartNode.type = "start"
            BY DEF StartNode, Node
        <2> QED
            BY <1>3, <2>1
    <1>6. RunInv(r, new)
        BY <1>1, <1>2, <1>3, <1>4, <1>5 DEF RunInv, Sound
    <1>7. HopsInv(new)
        <2>1. n <= MaxHops + 1
            BY <1>2 DEF HopsInv
        <2> HIDE DEF n
        <2> QED
            BY <1>1, <1>4, <2>1, BoundsAssumption DEF HopsInv, Active
    <1>8. EnvelopeInv(new)
        BY <1>1, <1>3 DEF EnvelopeInv
    <1>9. PayloadInv(new)
        <2>1. IsJson(run.payload)
            BY <1>2, DataAssumption
        <2> HIDE DEF n
        <2> QED
            BY <1>1, <1>2, <1>3, <2>1, PayloadCarried
    <1> QED
        BY <1>6, <1>7, <1>8, <1>9 DEF RunOK, new

LEMMA FailedRun ==
    ASSUME NEW r \in Runs, NEW run, RunOK(r, run)
    PROVE  /\ [run EXCEPT !.status = "failed"] =
                  [status |-> "failed", node |-> run.node, output |-> run.output,
                   payload |-> run.payload, trail |-> run.trail]
           /\ RunOK(r, [run EXCEPT !.status = "failed"])
    <1> DEFINE new == [status |-> "failed", node |-> run.node,
                       output |-> run.output, payload |-> run.payload,
                       trail |-> run.trail]
    <1>1. run = [status |-> run.status, node |-> run.node, output |-> run.output,
                 payload |-> run.payload, trail |-> run.trail]
        BY DEF RunOK, RunInv
    <1>2. [run EXCEPT !.status = "failed"] = new
        BY <1>1
    <1>3. /\ new.status = "failed" /\ new.node = run.node
          /\ new.output = run.output /\ new.payload = run.payload
          /\ new.trail = run.trail
          /\ new = [status |-> new.status, node |-> new.node, output |-> new.output,
                    payload |-> new.payload, trail |-> new.trail]
        OBVIOUS
    <1> HIDE DEF new
    <1>4. RunInv(r, new)
        BY <1>3 DEF RunOK, RunInv
    <1>5. HopsInv(new) /\ EnvelopeInv(new)
        BY <1>3 DEF RunOK, HopsInv, EnvelopeInv, Active
    <1>6. PayloadInv(new)
        BY <1>3 DEF RunOK, PayloadInv
    <1> QED
        BY <1>2, <1>4, <1>5, <1>6 DEF RunOK, new

LEMMA StartedRun ==
    ASSUME NEW r \in Runs, NEW p \in Payloads[r], Storable(p)
    PROVE  RunOK(r, [status |-> "pending", node |-> StartNode,
                     output |-> Envelope(Obj([payload |-> p])),
                     payload |-> p, trail |-> <<>>])
    <1> DEFINE f == [payload |-> p]
               w == Envelope(Obj(f))
               new == [status |-> "pending", node |-> StartNode, output |-> w,
                       payload |-> p, trail |-> <<>>]
    <1>1. /\ new.status = "pending" /\ new.node = StartNode /\ new.output = w
          /\ new.payload = p /\ new.trail = <<>>
          /\ new = [status |-> new.status, node |-> new.node, output |-> new.output,
                    payload |-> new.payload, trail |-> new.trail]
        OBVIOUS
    <1>2. IsJson(p)
        BY DataAssumption
    <1>3. /\ DOMAIN f = {"payload"} /\ DOMAIN f \subseteq STRING /\ f["payload"] = p
          /\ \A k \in DOMAIN f : IsJson(f[k]) /\ Storable(f[k])
        BY <1>2, LiteralsAssumption
    <1> HIDE DEF f, new
    <1>4. /\ IsJson(Obj(f)) /\ IsObj(Obj(f)) /\ Storable(Obj(f))
          /\ Field(Obj(f), "payload") = p
        BY <1>3, ObjIsJson, StorableObj, FieldsOfObj
    <1>5. /\ Sound(w) /\ IsEnvelope(w) /\ Storable(w)
          /\ Field(Field(w, "data"), "payload") = p
        BY <1>4, EnvelopeOf
    <1>6. RunInv(r, new)
        <2>1. w = Envelope(Obj([payload |-> new.payload]))
            BY <1>1 DEF f
        <2> HIDE DEF w
        <2>2. new.trail \in Seq(NodeTypes)
            BY <1>1
        <2> QED
            BY <1>1, <1>5, <2>1, <2>2 DEF RunInv, Sound, Active
    <1> HIDE DEF w
    <1>7. HopsInv(new) /\ EnvelopeInv(new)
        <2>1. Len(new.trail) = 0
            BY <1>1
        <2> QED
            BY <1>1, <1>5, <2>1, BoundsAssumption DEF HopsInv, EnvelopeInv
    <1>8. PayloadInv(new)
        <2>1. Len(new.trail) = 0
            BY <1>1
        <2>2. ~\E i \in 1 .. Len(new.trail) : new.trail[i] = "conditional"
            BY <2>1
        <2> QED
            BY <1>1, <1>5, <2>2 DEF PayloadInv
    <1> QED
        BY <1>6, <1>7, <1>8 DEF RunOK, new, w, f

-----------------------------------------------------------------------------
(* All runs *)

LEMMA InitInv == Init => IInv
    <1> SUFFICES ASSUME Init PROVE IInv
        OBVIOUS
    <1>1. runs = [r \in Runs |-> NoRun] /\ \A r \in Runs : runs[r] = NoRun
        BY DEF Init
    <1>2. RunsInv
        BY <1>1 DEF RunsInv
    <1>3. JobsInv
        BY <1>1, BoundsAssumption DEF Init, JobsInv, NoJob
    <1>4. PoisonInv
        BY <1>1 DEF PoisonInv, Started
    <1> QED
        BY <1>2, <1>3, <1>4 DEF IInv

LEMMA RunReplaced ==
    ASSUME RunsInv, NEW r \in Runs, NEW new, RunOK(r, new),
           runs' = [runs EXCEPT ![r] = new]
    PROVE  /\ RunsInv'
           /\ runs'[r] = new /\ \A q \in Runs \ {r} : runs'[q] = runs[q]
    <1>1. /\ runs'[r] = new /\ \A q \in Runs \ {r} : runs'[q] = runs[q]
          /\ runs' = [q \in Runs |-> runs'[q]]
        BY DEF RunsInv
    <1>2. ASSUME NEW q \in Runs, runs'[q] # NoRun
          PROVE  RunOK(q, runs'[q])
        <2>1. CASE q = r
            BY <1>1, <2>1
        <2>2. CASE q # r
            <3>1. runs'[q] = runs[q]
                BY <1>1, <2>2
            <3> QED
                BY <1>2, <3>1 DEF RunsInv
        <2> QED
            BY <2>1, <2>2
    <1> QED
        BY <1>1, <1>2 DEF RunsInv

\* What Advance and Complete make of a row, field by field.
LEMMA RowUpdated ==
    ASSUME NEW run,
           run = [status |-> run.status, node |-> run.node, output |-> run.output,
                  payload |-> run.payload, trail |-> run.trail],
           NEW s, NEW n, NEW o, NEW t, NEW g
    PROVE  /\ g = [run EXCEPT !.status = s, !.node = n, !.output = o, !.trail = t] =>
                  g = [status |-> s, node |-> n, output |-> o,
                       payload |-> run.payload, trail |-> t]
           /\ g = [run EXCEPT !.status = s, !.output = o, !.trail = t] =>
                  g = [status |-> s, node |-> run.node, output |-> o,
                       payload |-> run.payload, trail |-> t]
    <1>0. \E b, c, d, e : /\ b = run.node /\ c = run.output
                          /\ d = run.payload /\ e = run.trail
        OBVIOUS
    <1> PICK b, c, d, e : /\ b = run.node /\ c = run.output
                          /\ d = run.payload /\ e = run.trail
        BY <1>0
    <1> DEFINE old == [status |-> run.status, node |-> b, output |-> c,
                       payload |-> d, trail |-> e]
    <1>10. run = old
        OBVIOUS
    <1> DEFINE row(u, v, w, x) ==
                   [status |-> u, node |-> v, output |-> w, payload |-> d, trail |-> x]
    <1>1. PICK g1 : g1 = [run EXCEPT !.status = s]
        OBVIOUS
    <1>2. g1 = row(s, b, c, e)
        BY <1>1, <1>10
    <1>3. /\ [run EXCEPT !.status = s, !.node = n, !.output = o, !.trail = t] =
                 [g1 EXCEPT !.node = n, !.output = o, !.trail = t]
          /\ [run EXCEPT !.status = s, !.output = o, !.trail = t] =
                 [g1 EXCEPT !.output = o, !.trail = t]
        BY <1>1
    <1>4. PICK g2 : g2 = [g1 EXCEPT !.node = n]
        OBVIOUS
    <1>5. g2 = row(s, n, c, e)
        BY <1>2, <1>4
    <1>6. [g1 EXCEPT !.node = n, !.output = o, !.trail = t] =
              [g2 EXCEPT !.output = o, !.trail = t]
        BY <1>4
    <1>7. ASSUME NEW v, NEW h, h = row(s, v, c, e)
          PROVE  [h EXCEPT !.output = o, !.trail = t] = row(s, v, o, t)
        <2>1. PICK g3 : g3 = [h EXCEPT !.output = o]
            OBVIOUS
        <2>2. g3 = row(s, v, o, e)
            BY <1>7, <2>1
        <2>3. [h EXCEPT !.output = o, !.trail = t] = [g3 EXCEPT !.trail = t]
            BY <2>1
        <2>4. [g3 EXCEPT !.trail = t] = row(s, v, o, t)
            BY <2>2
        <2> QED
            BY <2>3, <2>4
    <1> HIDE DEF row
    <1>8. [g1 EXCEPT !.output = o, !.trail = t] = row(s, b, o, t)
        BY <1>2, <1>7
    <1>9. [g2 EXCEPT !.output = o, !.trail = t] = row(s, n, o, t)
        BY <1>5, <1>7
    <1> QED
        BY <1>3, <1>6, <1>8, <1>9 DEF row

\* A run is a record with five fields; the state before the first is none.
LEMMA RunStatus ==
    /\ NoRun.status \notin Active
    /\ \A r \in Runs : RunsInv /\ runs[r].status \in Active => RunOK(r, runs[r])
    BY DEF NoRun, Active, RunsInv

\* What each handler does to the row of its run, as one update.
LEMMA StartedInv ==
    ASSUME RunsInv, NEW r \in Runs, Start(r)
    PROVE  /\ RunsInv' /\ runs'[r] # NoRun
           /\ \A q \in Runs \ {r} : runs'[q] = runs[q]
    <1>1. PICK p \in Payloads[r] :
              /\ Storable(p)
              /\ runs' = [runs EXCEPT ![r] =
                     [status |-> "pending", node |-> StartNode,
                      output |-> Envelope(Obj([payload |-> p])),
                      payload |-> p, trail |-> <<>>]]
        BY DEF Start
    <1> DEFINE new == [status |-> "pending", node |-> StartNode,
                       output |-> Envelope(Obj([payload |-> p])),
                       payload |-> p, trail |-> <<>>]
    <1>2. RunOK(r, new)
        BY <1>1, StartedRun
    <1>3. new # NoRun
        BY DEF NoRun
    <1> HIDE DEF new
    <1>4. runs' = [runs EXCEPT ![r] = new]
        BY <1>1 DEF new
    <1> QED
        BY <1>2, <1>3, <1>4, RunReplaced

LEMMA AdvancedInv ==
    ASSUME RunsInv, NEW r \in Runs, Advance(r)
    PROVE  /\ RunsInv' /\ runs'[r] # NoRun
           /\ \A q \in Runs \ {r} : runs'[q] = runs[q]
    <1>1. runs[r].status \in Active /\ RunOK(r, runs[r])
        BY RunStatus DEF Advance, Executing
    <1>2. PICK o \in Outcomes(r) :
              /\ o.kind = "output" /\ Persistable(r, o)
              /\ \E next \in Following(r) :
                    runs' = [runs EXCEPT
                        ![r].status = "running",
                        ![r].node = next, ![r].output = o.output,
                        ![r].trail = Append(@, runs[r].node.type)]
        BY DEF Advance
    <1>3. PICK next \in Following(r) :
              runs' = [runs EXCEPT
                  ![r].status = "running",
                  ![r].node = next, ![r].output = o.output,
                  ![r].trail = Append(@, runs[r].node.type)]
        BY <1>2
    <1> DEFINE new == [status |-> "running", node |-> next, output |-> o.output,
                       payload |-> runs[r].payload,
                       trail |-> Append(runs[r].trail, runs[r].node.type)]
    <1>4. RunOK(r, new)
        BY <1>1, <1>2, AdvancedRun
    <1>5. new # NoRun
        BY DEF NoRun
    <1>6. runs' = [runs EXCEPT ![r] = new]
        <2>1. runs[r] = [status |-> runs[r].status, node |-> runs[r].node,
                         output |-> runs[r].output, payload |-> runs[r].payload,
                         trail |-> runs[r].trail]
            BY <1>1 DEF RunOK, RunInv
        <2>2. runs = [q \in Runs |-> runs[q]]
            BY DEF RunsInv
        <2>3. PICK row : row = [runs[r] EXCEPT
                !.status = "running", !.node = next, !.output = o.output,
                !.trail = Append(@, runs[r].node.type)]
            OBVIOUS
        <2>4. runs' = [runs EXCEPT ![r] = row]
            BY <1>3, <2>2, <2>3
        <2>5. row = new
            BY <2>1, <2>3, RowUpdated
        <2> QED
            BY <2>4, <2>5
    <1> HIDE DEF new
    <1> QED
        BY <1>4, <1>5, <1>6, RunReplaced

LEMMA CompletedInv ==
    ASSUME RunsInv, NEW r \in Runs, Complete(r)
    PROVE  /\ RunsInv' /\ runs'[r] # NoRun /\ runs'[r].status \notin Active
           /\ \A q \in Runs \ {r} : runs'[q] = runs[q]
    <1>1. runs[r].status \in Active /\ RunOK(r, runs[r])
        BY RunStatus DEF Complete, Executing
    <1>2. PICK o \in Outcomes(r) :
              /\ o.kind = "done" /\ Persistable(r, o)
              /\ runs' = [runs EXCEPT
                     ![r].status = "completed", ![r].output = o.output,
                     ![r].trail = Append(@, "response")]
        BY DEF Complete
    <1> DEFINE new == [status |-> "completed", node |-> runs[r].node,
                       output |-> o.output, payload |-> runs[r].payload,
                       trail |-> Append(runs[r].trail, "response")]
    <1>3. RunOK(r, new)
        BY <1>1, <1>2, CompletedRun
    <1>4. new # NoRun /\ new.status \notin Active
        BY DEF NoRun, Active
    <1>5. runs' = [runs EXCEPT ![r] = new]
        <2>1. runs[r] = [status |-> runs[r].status, node |-> runs[r].node,
                         output |-> runs[r].output, payload |-> runs[r].payload,
                         trail |-> runs[r].trail]
            BY <1>1 DEF RunOK, RunInv
        <2>2. runs = [q \in Runs |-> runs[q]]
            BY DEF RunsInv
        <2>3. PICK row : row = [runs[r] EXCEPT
                !.status = "completed", !.output = o.output,
                !.trail = Append(@, "response")]
            OBVIOUS
        <2>4. runs' = [runs EXCEPT ![r] = row]
            BY <1>2, <2>2, <2>3
        <2>5. row = new
            BY <2>1, <2>3, RowUpdated
        <2> QED
            BY <2>4, <2>5
    <1> HIDE DEF new
    <1> QED
        BY <1>3, <1>4, <1>5, RunReplaced

LEMMA FailedInv ==
    ASSUME RunsInv, NEW r \in Runs, Fail(r)
    PROVE  /\ RunsInv' /\ runs'[r] # NoRun /\ runs'[r].status \notin Active
           /\ \A q \in Runs \ {r} : runs'[q] = runs[q]
    <1> DEFINE new == [runs[r] EXCEPT !.status = "failed"]
    <1>1. RunOK(r, runs[r])
        BY RunStatus DEF Fail, Executing
    <1>2. /\ RunOK(r, new)
          /\ new = [status |-> "failed", node |-> runs[r].node,
                    output |-> runs[r].output, payload |-> runs[r].payload,
                    trail |-> runs[r].trail]
        BY <1>1, FailedRun
    <1>3. new # NoRun /\ new.status \notin Active
        BY <1>2 DEF NoRun, Active
    <1>4. runs' = [runs EXCEPT ![r] = new]
        BY DEF Fail, RunsInv
    <1> HIDE DEF new
    <1> QED
        BY <1>2, <1>3, <1>4, RunReplaced

\* A job that cannot be stored is poison; one that panics can do nothing else.
LEMMA PoisonedJob ==
    ASSUME RunsInv, NEW r \in Runs, runs[r].status \in Active
    PROVE  /\ Unpersistable(r) => MayBePoison(r)
           /\ Panic \in Outcomes(r) =>
                 /\ MayBePoison(r)
                 /\ \A o \in Outcomes(r) : o = Panic
    <1>1. RunInv(r, runs[r])
        BY RunStatus DEF RunOK
    <1>2. ASSUME NEW o \in Outcomes(r), o.kind \in {"output", "done"},
                 ~Persistable(r, o)
          PROVE  MayBePoison(r)
        BY <1>1, <1>2, NodeAnswers
    <1>3. ASSUME Panic \in Outcomes(r)
          PROVE  MayBePoison(r) /\ Outcomes(r) = {Panic}
        BY <1>1, <1>3, NodeAnswers
    <1> QED
        BY <1>2, <1>3 DEF Unpersistable

LEMMA RunsStep ==
    ASSUME RunsInv, Next
    PROVE  RunsInv'
    <1>1. CASE Receive
        BY <1>1 DEF Receive, RunsInv
    <1>2. ASSUME NEW r \in Runs, Start(r)
          PROVE  RunsInv'
        BY <1>2, StartedInv
    <1>3. ASSUME NEW r \in Runs, HandleNodeJob(r)
          PROVE  RunsInv'
        <2>1. CASE Advance(r)
            BY <2>1, AdvancedInv
        <2>2. CASE Complete(r)
            BY <2>2, CompletedInv
        <2>3. CASE Fail(r)
            BY <2>3, FailedInv
        <2>4. CASE PersistFails(r) \/ PanicKills(r) \/ DropJob(r)
            <3>1. runs' = runs
                BY <2>4 DEF PersistFails, PanicKills, DropJob
            <3> QED
                BY <3>1 DEF RunsInv
        <2> QED
            BY <1>3, <2>1, <2>2, <2>3, <2>4 DEF HandleNodeJob
    <1>4. ASSUME NEW r \in Runs, DeadLetter(r)
          PROVE  RunsInv'
        BY <1>4 DEF DeadLetter, RunsInv
    <1> QED
        BY <1>1, <1>2, <1>3, <1>4 DEF Next

\* A run that is executed, has a message and is not in the dead-letter queue.
LEMMA ExecutedRun ==
    ASSUME RunsInv, JobsInv, NEW r \in Runs, r \in batch
    PROVE  receives[r] > 0 /\ runs[r] # NoRun /\ r \notin parked
    BY DEF JobsInv, NoJob

LEMMA JobsStep ==
    ASSUME RunsInv, JobsInv, Next
    PROVE  JobsInv'
    <1> USE BoundsAssumption DEF NoJob
    <1>1. CASE Receive
        <2>1. /\ runs' = runs /\ parked' = parked
              /\ batch' \subseteq Deliverable
              /\ receives' = [r \in Runs |->
                                 receives[r] + IF r \in batch' THEN 1 ELSE 0]
              /\ batch = {}
            BY <1>1 DEF Receive
        <2>2. /\ receives \in [Runs -> {NoJob} \cup 0 .. MaxReceive]
              /\ parked \subseteq Runs
              /\ \A r \in Runs : receives[r] # NoJob => runs[r] # NoRun
              /\ \A r \in parked : receives[r] = NoJob /\ runs[r] # NoRun
            BY DEF JobsInv
        <2>3. ASSUME NEW r \in Runs
              PROVE  /\ receives'[r] \in {NoJob} \cup 0 .. MaxReceive
                     /\ r \in batch' => receives'[r] > 0
                     /\ r \notin batch' => receives'[r] = receives[r]
                     /\ r \in batch' => receives[r] # NoJob
            <3>1. r \in batch' => receives[r] \in 0 .. MaxReceive - 1
                BY <2>1 DEF Deliverable
            <3> QED
                BY <2>1, <2>2, <3>1
        <2>4. batch' \subseteq Runs
            BY <2>1 DEF Deliverable
        <2> QED
            BY <2>1, <2>2, <2>3, <2>4 DEF JobsInv
    <1>2. ASSUME NEW r \in Runs, Start(r)
          PROVE  JobsInv'
        <2>1. /\ runs'[r] # NoRun /\ \A q \in Runs \ {r} : runs'[q] = runs[q]
              /\ runs[r] = NoRun
              /\ receives' = [receives EXCEPT ![r] = 0]
              /\ batch' = batch /\ parked' = parked
            BY <1>2, StartedInv DEF Start
        <2>2. r \notin batch /\ r \notin parked
            BY <2>1, ExecutedRun DEF JobsInv
        <2> QED
            BY <2>1, <2>2 DEF JobsInv
    <1>3. ASSUME NEW r \in Runs, HandleNodeJob(r)
          PROVE  JobsInv'
        <2>1. /\ r \in batch /\ parked' = parked /\ batch' \subseteq batch
              /\ r \notin batch'
            BY <1>3 DEF HandleNodeJob, Advance, Complete, PersistFails, Fail,
                        PanicKills, DropJob, Executing
        <2>2. runs[r] # NoRun /\ r \notin parked
            BY <2>1, ExecutedRun
        <2>3. /\ runs'[r] # NoRun
              /\ \A q \in Runs \ {r} : runs'[q] = runs[q]
            <3>1. CASE Advance(r)
                BY <3>1, AdvancedInv
            <3>2. CASE Complete(r)
                BY <3>2, CompletedInv
            <3>3. CASE Fail(r)
                BY <3>3, FailedInv
            <3>4. CASE PersistFails(r) \/ PanicKills(r) \/ DropJob(r)
                BY <2>2, <3>4 DEF PersistFails, PanicKills, DropJob
            <3> QED
                BY <1>3, <3>1, <3>2, <3>3, <3>4 DEF HandleNodeJob
        <2>4. \E n \in {0, NoJob, receives[r]} :
                  receives' = [receives EXCEPT ![r] = n]
            <3>1. receives = [receives EXCEPT ![r] = receives[r]]
                BY DEF JobsInv
            <3> QED
                BY <1>3, <3>1
                DEF HandleNodeJob, Advance, Complete, PersistFails, Fail,
                    PanicKills, DropJob
        <2> QED
            BY <2>1, <2>2, <2>3, <2>4 DEF JobsInv
    <1>4. ASSUME NEW r \in Runs, DeadLetter(r)
          PROVE  JobsInv'
        <2>1. runs[r] # NoRun
            BY <1>4 DEF DeadLetter, JobsInv
        <2> QED
            BY <1>4, <2>1 DEF DeadLetter, JobsInv
    <1> QED
        BY <1>1, <1>2, <1>3, <1>4 DEF Next

\* The worker that a job kills leaves no trace of it in the database: the run
\* is where it was.
LEMMA PanickingStays ==
    ASSUME RunsInv, Next, NEW p \in Started, Kills(p)
    PROVE  runs'[p] = runs[p] /\ p \in Started' /\ Kills(p)'
    <1>1. /\ p \in Runs /\ runs[p] # NoRun /\ runs[p].status \in Active
          /\ Panic \in Outcomes(p)
        BY DEF Started, Kills
    <1>2. \A o \in Outcomes(p) : o = Panic
        BY <1>1, PoisonedJob
    <1>3. runs'[p] = runs[p]
        <2>1. ASSUME NEW r \in Runs, Start(r)
              PROVE  runs'[p] = runs[p]
            <3>1. p # r
                BY <1>1, <2>1 DEF Start
            <3> QED
                BY <1>1, <2>1, <3>1, StartedInv
        <2>2. ASSUME NEW r \in Runs, Advance(r)
              PROVE  runs'[p] = runs[p]
            <3>1. p # r
                BY <1>2, <2>2, OutcomeKinds DEF Advance
            <3> QED
                BY <1>1, <2>2, <3>1, AdvancedInv
        <2>3. ASSUME NEW r \in Runs, Complete(r)
              PROVE  runs'[p] = runs[p]
            <3>1. p # r
                BY <1>2, <2>3, OutcomeKinds DEF Complete
            <3> QED
                BY <1>1, <2>3, <3>1, CompletedInv
        <2>4. ASSUME NEW r \in Runs, Fail(r)
              PROVE  runs'[p] = runs[p]
            <3>1. p # r
                BY <1>2, <2>4, OutcomeKinds DEF Fail
            <3> QED
                BY <1>1, <2>4, <3>1, FailedInv
        <2>5. ASSUME NEW r \in Runs,
                     \/ Receive \/ PersistFails(r) \/ PanicKills(r)
                     \/ DropJob(r) \/ DeadLetter(r)
              PROVE  runs'[p] = runs[p]
            BY <2>5 DEF Receive, PersistFails, PanicKills, DropJob, DeadLetter
        <2> QED
            BY <1>1, <2>1, <2>2, <2>3, <2>4, <2>5 DEF Next, HandleNodeJob
    <1>4. p \in Started'
        BY <1>1, <1>3 DEF Started
    <1>5. Outcomes(p)' = Outcomes(p)
        BY <1>3 DEF Outcomes
    <1> QED
        BY <1>1, <1>3, <1>4, <1>5 DEF Kills

LEMMA ExplainedStays ==
    ASSUME RunsInv, Next, NEW r \in Started, runs'[r] = runs[r], Explained(r)
    PROVE  Explained(r)'
    <1>1. CASE MayBePoison(r)
        <2>1. MayBePoison(r)'
            BY <1>1 DEF MayBePoison
        <2> QED
            BY <2>1 DEF Explained
    <1>2. CASE \E p \in Started : Kills(p)
        <2>1. PICK p \in Started : Kills(p)
            BY <1>2
        <2>2. p \in Started' /\ Kills(p)'
            BY <2>1, PanickingStays
        <2> QED
            BY <2>2 DEF Explained
    <1> QED
        BY <1>1, <1>2 DEF Explained

LEMMA PoisonStep ==
    ASSUME RunsInv, JobsInv, PoisonInv, Next
    PROVE  PoisonInv'
    <1> DEFINE idle(q) == q \in parked \/ (receives[q] > 0 /\ q \notin batch)
    <1> SUFFICES ASSUME NEW q \in Started', runs'[q].status \in Active, idle(q)'
                 PROVE  Explained(q)'
        BY DEF PoisonInv
    <1>1. q \in Runs /\ receives[q] \in {NoJob} \cup 0 .. MaxReceive
        BY DEF Started, JobsInv
    <1>2. q \in parked => runs[q] # NoRun /\ receives[q] = NoJob /\ q \notin batch
        BY ExecutedRun, <1>1 DEF JobsInv
    <1>3. ASSUME runs'[q] = runs[q], idle(q) \/ Explained(q)
          PROVE  Explained(q)'
        <2>1. q \in Started
            BY <1>1, <1>3 DEF Started
        <2>2. Explained(q)
            BY <1>3, <2>1 DEF PoisonInv
        <2> QED
            BY <1>3, <2>1, <2>2, ExplainedStays
    <1>4. CASE Receive
        <2>1. /\ batch = {} /\ parked' = parked
              /\ receives'[q] = receives[q] + IF q \in batch' THEN 1 ELSE 0
            BY <1>1, <1>4 DEF Receive
        <2>2. idle(q)
            BY <1>1, <2>1 DEF NoJob
        <2> QED
            BY <1>3, <1>4, <2>2 DEF Receive
    <1>5. ASSUME NEW r \in Runs, Start(r)
          PROVE  Explained(q)'
        <2>1. q # r
            BY <1>1, <1>2, <1>5 DEF Start, JobsInv
        <2>2. idle(q)
            BY <1>1, <1>5, <2>1 DEF Start, JobsInv
        <2> QED
            BY <1>1, <1>3, <1>5, <2>1, <2>2, StartedInv
    <1>6. ASSUME NEW r \in Runs, HandleNodeJob(r)
          PROVE  Explained(q)'
        <2>1. r \in batch /\ parked' = parked
            BY <1>6 DEF HandleNodeJob, Advance, Complete, PersistFails, Fail,
                        PanicKills, DropJob, Executing
        <2>2. CASE Advance(r)
            <3>1. q # r
                BY <1>1, <1>2, <2>1, <2>2 DEF Advance, JobsInv
            <3>2. idle(q)
                BY <1>1, <2>2, <3>1 DEF Advance, JobsInv
            <3> QED
                BY <1>1, <1>3, <2>2, <3>1, <3>2, AdvancedInv
        <2>3. CASE Complete(r)
            <3>1. q # r
                BY <2>3, CompletedInv
            <3>2. idle(q)
                BY <1>1, <2>3, <3>1 DEF Complete, JobsInv
            <3> QED
                BY <1>1, <1>3, <2>3, <3>1, <3>2, CompletedInv
        <2>4. CASE Fail(r)
            <3>1. q # r
                BY <2>4, FailedInv
            <3>2. idle(q)
                BY <1>1, <2>4, <3>1 DEF Fail
            <3> QED
                BY <1>1, <1>3, <2>4, <3>1, <3>2, FailedInv
        <2>5. CASE PersistFails(r)
            <3>1. runs' = runs /\ receives' = receives /\ batch' = batch \ {r}
                BY <2>5 DEF PersistFails
            <3>2. CASE q = r
                <4>1. Explained(q)
                    BY <2>5, <3>2, PoisonedJob DEF PersistFails, Executing, Explained
                <4> QED
                    BY <1>3, <3>1, <4>1
            <3>3. CASE q # r
                <4>1. idle(q)
                    BY <2>1, <3>1, <3>3
                <4> QED
                    BY <1>3, <3>1, <4>1
            <3> QED
                BY <3>2, <3>3
        <2>6. CASE PanicKills(r)
            <3>1. Kills(r) /\ r \in Started
                BY <2>1, <2>6, ExecutedRun DEF PanicKills, Executing, Kills, Started
            <3>2. Explained(q)
                BY <3>1 DEF Explained
            <3> QED
                BY <1>3, <2>6, <3>2 DEF PanicKills
        <2>7. CASE DropJob(r)
            <3>1. q # r
                BY <2>7 DEF DropJob
            <3>2. idle(q)
                BY <1>1, <2>7, <3>1 DEF DropJob, JobsInv
            <3> QED
                BY <1>3, <2>7, <3>2 DEF DropJob
        <2> QED
            BY <1>6, <2>2, <2>3, <2>4, <2>5, <2>6, <2>7 DEF HandleNodeJob
    <1>7. ASSUME NEW r \in Runs, DeadLetter(r)
          PROVE  Explained(q)'
        <2>1. idle(q)
            <3>1. CASE q = r
                BY <1>7, <3>1, BoundsAssumption DEF DeadLetter
            <3>2. CASE q # r
                BY <1>1, <1>7, <3>2 DEF DeadLetter, JobsInv
            <3> QED
                BY <3>1, <3>2
        <2> QED
            BY <1>3, <1>7, <2>1 DEF DeadLetter
    <1> QED
        BY <1>4, <1>5, <1>6, <1>7 DEF Next

LEMMA InvStep == IInv /\ [Next]_vars => IInv'
    <1> SUFFICES ASSUME IInv, [Next]_vars PROVE IInv'
        OBVIOUS
    <1>1. CASE Next
        BY <1>1, RunsStep, JobsStep, PoisonStep DEF IInv
    <1>2. CASE UNCHANGED vars
        <2>1. runs' = runs /\ receives' = receives /\ batch' = batch /\ parked' = parked
            BY <1>2 DEF vars
        <2>2. RunsInv' /\ JobsInv'
            BY <2>1 DEF IInv, RunsInv, JobsInv
        <2>3. PoisonInv'
            BY <2>1 DEF IInv, PoisonInv, Started, Explained, Kills, Outcomes,
                        MayBePoison
        <2> QED
            BY <2>2, <2>3 DEF IInv
    <1> QED
        BY <1>1, <1>2

-----------------------------------------------------------------------------
(* Theorems *)

\* The invariant holds in every state that the executors and the worker reach.
THEOREM Invariance == Spec => []IInv
    BY InitInv, InvStep, PTL DEF Spec

\* Every row and every message is well formed: an output is a JSON object that
\* jsonb takes, at whatever node the run is and whatever the executors, the
\* replies and the user's code put together.
THEOREM Typed == Spec => []TypeOK
    <1>1. IInv => TypeOK
        <2> SUFFICES ASSUME IInv PROVE TypeOK
            OBVIOUS
        <2>1. ASSUME NEW r \in Runs, runs[r] # NoRun
              PROVE  /\ runs[r].status \in Active \cup {"completed", "failed"}
                     /\ runs[r].node \in Versions[r] \cup {StartNode}
                     /\ IsJson(runs[r].output) /\ IsObj(runs[r].output)
                     /\ Storable(runs[r].output)
                     /\ runs[r].trail \in Seq(NodeTypes)
                     /\ Len(runs[r].trail) <= MaxHops + 2
            <3>1. RunInv(r, runs[r]) /\ HopsInv(runs[r])
                BY <2>1 DEF IInv, RunsInv, RunOK
            <3> QED
                BY <3>1 DEF RunInv, HopsInv
        <2> QED
            BY <2>1 DEF IInv, JobsInv, TypeOK
    <1> QED
        BY <1>1, Invariance, PTL

\* What a node hands on is the envelope { data: object } - unless it is a
\* Function, whose executor passes on the sandbox's answer unseen.
THEOREM EnvelopeIsKept == Spec => []EnvelopeKept
    <1>1. IInv => EnvelopeKept
        BY DEF IInv, RunsInv, RunOK, EnvelopeInv, EnvelopeKept, Started
    <1> QED
        BY <1>1, Invariance, PTL

\* The client's payload comes through any number of Conditionals, its numbers
\* rounded to a float64 by the first and by no other.
THEOREM PayloadIsIntact == Spec => []PayloadIntact
    <1>1. IInv => PayloadIntact
        BY DEF IInv, RunsInv, RunOK, PayloadInv, PayloadIntact, Started
    <1> QED
        BY <1>1, Invariance, PTL

\* A job of a run that has not failed is given up only if a template, a reply or
\* the user's code can poison it, or if another run kills the worker - and still
\* does, because nothing in the database tells it from a run that goes on.
THEOREM OnlyPoisonIsParked == Spec => []ParkedByPoison
    <1>1. IInv => ParkedByPoison
        <2> SUFFICES ASSUME IInv, NEW r \in parked, runs[r].status \in Active
                     PROVE  MayBePoison(r) \/ \E p \in Started : Kills(p) /\ MayBePoison(p)
            BY DEF ParkedByPoison
        <2>1. r \in Started
            BY DEF IInv, JobsInv, Started
        <2>2. Explained(r)
            BY <2>1 DEF IInv, PoisonInv
        <2>3. CASE MayBePoison(r)
            BY <2>3
        <2>4. CASE \E p \in Started : Kills(p)
            <3>1. PICK p \in Started : Kills(p)
                BY <2>4
            <3>2. MayBePoison(p)
                BY <3>1, PoisonedJob DEF IInv, Kills, Started
            <3> QED
                BY <3>1, <3>2
        <2> QED
            BY <2>2, <2>3, <2>4 DEF Explained
    <1> QED
        BY <1>1, Invariance, PTL

\* No Conditional writes an output over something that is not an envelope: an
\* error the sandbox reported is never mistaken for data.
THEOREM NoBranchIsTakenOnError == Spec => NoBranchOnError
    <1> DEFINE untouched ==
            \A r \in Started :
                runs[r].node.type = "conditional" /\ ~IsEnvelope(runs[r].output)
                    => runs'[r].output = runs[r].output
    <1>1. ASSUME IInv, [Next]_vars
          PROVE  [untouched]_vars
        <2> SUFFICES ASSUME Next, NEW r \in Started,
                            runs[r].node.type = "conditional",
                            ~IsEnvelope(runs[r].output)
                     PROVE  runs'[r].output = runs[r].output
            BY <1>1
        <2>1. /\ RunsInv /\ r \in Runs /\ runs[r] # NoRun /\ RunInv(r, runs[r])
              /\ RunOK(r, runs[r])
            BY <1>1 DEF IInv, RunsInv, RunOK, Started
        <2>2. ASSUME NEW o \in Outcomes(r)
              PROVE  o.kind # "output" /\ o.kind # "done"
            BY <2>1, <2>2, NodeAnswers, OutcomeKinds
        <2>3. ASSUME NEW q \in Runs, Start(q)
              PROVE  runs'[r] = runs[r]
            <3>1. r # q
                BY <2>1, <2>3 DEF Start
            <3> QED
                BY <2>1, <2>3, <3>1, StartedInv
        <2>4. ASSUME NEW q \in Runs, Advance(q)
              PROVE  runs'[r] = runs[r]
            <3>1. r # q
                BY <2>2, <2>4 DEF Advance
            <3> QED
                BY <2>1, <2>4, <3>1, AdvancedInv
        <2>5. ASSUME NEW q \in Runs, Complete(q)
              PROVE  runs'[r] = runs[r]
            <3>1. r # q
                BY <2>2, <2>5 DEF Complete
            <3> QED
                BY <2>1, <2>5, <3>1, CompletedInv
        <2>6. ASSUME NEW q \in Runs, Fail(q)
              PROVE  runs'[r].output = runs[r].output
            <3>1. CASE r # q
                BY <2>1, <2>6, <3>1, FailedInv
            <3>2. CASE r = q
                <4>1. runs'[r] = [runs[r] EXCEPT !.status = "failed"]
                    BY <2>1, <2>6, <3>2 DEF Fail, RunsInv
                <4>2. [runs[r] EXCEPT !.status = "failed"].output = runs[r].output
                    BY <2>1, FailedRun
                <4> QED
                    BY <4>1, <4>2
            <3> QED
                BY <3>1, <3>2
        <2>7. ASSUME NEW q \in Runs,
                     \/ Receive \/ PersistFails(q) \/ PanicKills(q)
                     \/ DropJob(q) \/ DeadLetter(q)
              PROVE  runs'[r] = runs[r]
            BY <2>7 DEF Receive, PersistFails, PanicKills, DropJob, DeadLetter
        <2> QED
            BY <2>1, <2>3, <2>4, <2>5, <2>6, <2>7 DEF Next, HandleNodeJob
    <1>2. NoBranchOnError <=> [][untouched]_vars
        BY DEF NoBranchOnError
    <1> HIDE DEF untouched
    <1>3. IInv /\ [Next]_vars => [untouched]_vars
        BY <1>1
    <1> QED
        BY <1>2, <1>3, Invariance, PTL DEF Spec
=============================================================================
