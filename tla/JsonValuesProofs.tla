-------------------------- MODULE JsonValuesProofs --------------------------
(***************************************************************************)
(* What the operators of JsonValues promise, for values of any depth.  An  *)
(* operator on values acts on each entry by itself, so that no induction   *)
(* over the structure of a value is needed.                                *)
(***************************************************************************)
EXTENDS JsonValues, TLAPS

-----------------------------------------------------------------------------
(* Paths *)

LEMMA PathUnderKey ==
    ASSUME NEW S, NEW k \in S, NEW p \in Seq(S)
    PROVE  /\ <<k>> \o p \in Seq(S)
           /\ <<k>> \o p # <<>>
           /\ Head(<<k>> \o p) = k
           /\ Tail(<<k>> \o p) = p
           /\ p = <<>> => <<k>> \o p = <<k>>
           /\ p # <<>> => Len(<<k>> \o p) # 1
           /\ p = <<>> => Front(<<k>> \o p) = <<>>
           /\ p # <<>> => /\ Front(<<k>> \o p) = <<k>> \o Front(p)
                          /\ Front(p) \in Seq(S)
    <1>1. /\ <<k>> \o p \in Seq(S)
          /\ <<k>> \o p # <<>>
          /\ Head(<<k>> \o p) = k
          /\ Tail(<<k>> \o p) = p
        OBVIOUS
    <1>2. Len(<<k>> \o p) = Len(p) + 1
        OBVIOUS
    <1>3. ASSUME p = <<>>
          PROVE  <<k>> \o p = <<k>> /\ Front(<<k>> \o p) = <<>>
        BY <1>3 DEF Front
    <1>4. ASSUME p # <<>>
          PROVE  /\ Len(<<k>> \o p) # 1
                 /\ Front(<<k>> \o p) = <<k>> \o Front(p)
                 /\ Front(p) \in Seq(S)
        <2>1. Len(<<k>> \o p) # 1
            BY <1>2, <1>4
        <2>2. Front(<<k>> \o p) = <<k>> \o Front(p) /\ Front(p) \in Seq(S)
            BY <1>4 DEF Front
        <2> QED
            BY <2>1, <2>2
    <1> QED
        BY <1>1, <1>3, <1>4

LEMMA PathSplit ==
    ASSUME NEW S, NEW p \in Seq(S), p # <<>>
    PROVE  /\ Head(p) \in S
           /\ Tail(p) \in Seq(S)
           /\ p = <<Head(p)>> \o Tail(p)
           /\ Len(p) = 1 => p = <<Head(p)>> /\ Tail(p) = <<>>
           /\ Tail(p) = <<>> => Len(p) = 1
           /\ Front(p) \in Seq(S)
           /\ Tail(p) # <<>> => /\ Front(p) # <<>>
                                /\ Head(Front(p)) = Head(p)
                                /\ Tail(Front(p)) = Front(Tail(p))
    <1>1. /\ Head(p) \in S
          /\ Tail(p) \in Seq(S)
          /\ p = <<Head(p)>> \o Tail(p)
        OBVIOUS
    <1>2. ASSUME Len(p) = 1
          PROVE  p = <<Head(p)>> /\ Tail(p) = <<>>
        <2>1. Len(Tail(p)) = 0
            BY <1>2
        <2>2. Tail(p) = <<>>
            BY <2>1, <1>1
        <2>3. <<Head(p)>> \o <<>> = <<Head(p)>>
            BY <1>1
        <2> QED
            BY <1>1, <2>2, <2>3
    <1>5. ASSUME Tail(p) = <<>>
          PROVE  Len(p) = 1
        <2>1. Len(Tail(p)) = Len(p) - 1
            OBVIOUS
        <2>2. Len(<<>>) = 0 /\ Len(p) \in Nat
            OBVIOUS
        <2>3. Len(p) - 1 = Len(<<>>)
            BY <1>5, <2>1, Zenon
        <2> QED
            BY <2>2, <2>3
    <1>3. Front(p) \in Seq(S)
        BY DEF Front
    <1>4. ASSUME Tail(p) # <<>>
          PROVE  /\ Front(p) # <<>>
                 /\ Head(Front(p)) = Head(p)
                 /\ Tail(Front(p)) = Front(Tail(p))
        <2>1. Len(p) > 1
            BY <1>4
        <2>2. Len(Front(p)) = Len(p) - 1 /\ Front(p)[1] = p[1]
            BY <2>1 DEF Front
        <2>4. Front(p) # <<>> /\ Head(Front(p)) = Head(p)
            BY <1>3, <2>1, <2>2
        <2>3. Tail(Front(p)) = Front(Tail(p))
            BY <2>1 DEF Front
        <2> QED
            BY <2>3, <2>4
    <1> QED
        BY <1>1, <1>2, <1>3, <1>4, <1>5

-----------------------------------------------------------------------------
(* Tokens *)

LEMMA RoundedIsNat == \A n \in Nat : Rounded(n) \in Nat
    BY NumberAssumption DEF Rounded

\* What is a float64 already stays as it is, and no number is rounded beyond
\* the largest.
LEMMA RoundedOnce ==
    ASSUME NEW n \in Nat, n <= MaxFloat
    PROVE  Rounded(Rounded(n)) = Rounded(n) /\ Rounded(n) <= MaxFloat
    BY NumberAssumption DEF Rounded

LEMMA TokenFields ==
    /\ DOMAIN Object = {"object"} /\ DOMAIN NullToken = {"null"}
    /\ DOMAIN NulText = {"str"}
    /\ \A n : DOMAIN [num |-> n] = {"num"}
    BY DEF Object, NullToken, NulText

LEMMA DecodedTokenKept ==
    ASSUME NEW t \in Tokens
    PROVE  /\ DecodedToken(t) \in Tokens
           /\ DecodedToken(t) = Object <=> t = Object
           /\ t # NulText => DecodedToken(t) # NulText
           /\ DecodedToken(DecodedToken(t)) = DecodedToken(t)
    <1>1. CASE "num" \notin DOMAIN t
        BY <1>1 DEF DecodedToken
    <1>2. CASE "num" \in DOMAIN t
        <2>1. t \in [num : Nat]
            BY <1>2, TokenFields DEF Tokens
        <2>2. CASE t.num > MaxFloat
            BY <1>2, <2>1, <2>2, TokenFields DEF DecodedToken, Tokens
        <2>3. CASE ~(t.num > MaxFloat)
            <3>1. t.num \in Nat /\ t.num <= MaxFloat
                BY <2>1, <2>3, NumberAssumption
            <3>2. DecodedToken(t) = [num |-> Rounded(t.num)]
                BY <1>2, <2>3 DEF DecodedToken
            <3>3. Rounded(t.num) \in Nat
                BY <3>1, RoundedIsNat
            <3>4. DecodedToken([num |-> Rounded(t.num)]) = [num |-> Rounded(t.num)]
                BY <3>1, <3>3, RoundedOnce, NumberAssumption DEF DecodedToken
            <3> QED
                BY <1>2, <3>2, <3>3, <3>4, TokenFields DEF Tokens
        <2> QED
            BY <2>2, <2>3
    <1> QED
        BY <1>1, <1>2

-----------------------------------------------------------------------------
(* Values *)

LEMMA LeafIsJson ==
    ASSUME NEW t \in Tokens
    PROVE  IsJson(Leaf(t))
    BY DEF IsJson, Leaf, Entry, Entries

LEMMA ConstantsAreJson ==
    /\ IsJson(Null) /\ Storable(Null) /\ ~IsObj(Null) /\ Keys(Null) = {}
    /\ \A s \in STRING : IsJson(Str(s)) /\ ~IsObj(Str(s))
    <1>1. IsJson(Null) /\ \A s \in STRING : IsJson(Str(s))
        BY LeafIsJson DEF Null, Str, Tokens
    <1>2. NullToken # NulText /\ NullToken # Object
        BY TokenFields
    <1>3. \A s : [str |-> s] # Object
        BY TokenFields
    <1>4. Storable(Null) /\ ~IsObj(Null) /\ \A s \in STRING : ~IsObj(Str(s))
        BY <1>2, <1>3 DEF Storable, IsObj, Null, Str, Leaf, Entry
    <1>5. Keys(Null) = {}
        BY DEF Keys, Null, Leaf, Entry
    <1> QED
        BY <1>1, <1>4, <1>5

LEMMA KeysAreStrings ==
    ASSUME NEW v, IsJson(v)
    PROVE  Keys(v) \subseteq STRING
    BY PathSplit DEF Keys, IsJson, Entries

\* A key of a value leads to an entry.
LEMMA KeyHasEntry ==
    ASSUME NEW v, IsJson(v), NEW k
    PROVE  k \in Keys(v) <=> \E e \in v : e.path = <<k>>
    <1>1. ASSUME k \in Keys(v)
          PROVE  \E e \in v : e.path = <<k>>
        <2>1. PICK e \in v : Len(e.path) = 1 /\ k = Head(e.path)
            BY <1>1 DEF Keys
        <2>2. e.path \in Seq(STRING) /\ e.path # <<>>
            BY <2>1 DEF IsJson, Entries
        <2> QED
            BY <2>1, <2>2, PathSplit
    <1>2. ASSUME NEW e \in v, e.path = <<k>>
          PROVE  k \in Keys(v)
        <2>1. Len(<<k>>) = 1 /\ Head(<<k>>) = k
            OBVIOUS
        <2> QED
            BY <1>2, <2>1 DEF Keys
    <1> QED
        BY <1>1, <1>2
-----------------------------------------------------------------------------
(* Entries *)

LEMMA EntryFields ==
    /\ \A e \in Entries : /\ e = Entry(e.path, e.token)
                          /\ e.path \in Seq(STRING) /\ e.token \in Tokens
    /\ \A p \in Seq(STRING), t \in Tokens : Entry(p, t) \in Entries
    /\ \A p, t : Entry(p, t).path = p /\ Entry(p, t).token = t
    /\ Object \in Tokens
    BY DEF Entries, Entry, Tokens

LEMMA SameEntries ==
    ASSUME NEW v \in SUBSET Entries, NEW w \in SUBSET Entries,
           \A p \in Seq(STRING), t \in Tokens :
               Entry(p, t) \in v <=> Entry(p, t) \in w
    PROVE  v = w
    <1>1. ASSUME NEW e \in v PROVE e \in w
        <2>1. e.path \in Seq(STRING) /\ e.token \in Tokens /\ e = Entry(e.path, e.token)
            BY EntryFields
        <2>2. Entry(e.path, e.token) \in v
            BY <2>1
        <2> QED
            BY <2>1, <2>2
    <1>2. ASSUME NEW e \in w PROVE e \in v
        <2>1. e.path \in Seq(STRING) /\ e.token \in Tokens /\ e = Entry(e.path, e.token)
            BY EntryFields
        <2>2. Entry(e.path, e.token) \in w
            BY <2>1
        <2> QED
            BY <2>1, <2>2
    <1> QED
        BY <1>1, <1>2

LEMMA JsonEntries ==
    ASSUME NEW v, IsJson(v)
    PROVE  /\ v \in SUBSET Entries
           /\ \A e \in v : /\ e = Entry(e.path, e.token)
                           /\ e.path \in Seq(STRING) /\ e.token \in Tokens
           /\ \A p, t1, t2 : Entry(p, t1) \in v /\ Entry(p, t2) \in v => t1 = t2
           /\ \E t \in Tokens : Entry(<<>>, t) \in v
           /\ \A p, t : Entry(p, t) \in v /\ p # <<>> => Entry(Front(p), Object) \in v
    <1>1. /\ v \in SUBSET Entries
          /\ \A e \in v : /\ e = Entry(e.path, e.token)
                          /\ e.path \in Seq(STRING) /\ e.token \in Tokens
        BY EntryFields DEF IsJson
    <1>2. ASSUME NEW p, NEW t1, NEW t2, Entry(p, t1) \in v, Entry(p, t2) \in v
          PROVE  t1 = t2
        <2>1. \A e1, e2 \in v : e1.path = e2.path => e1 = e2
            BY DEF IsJson
        <2>2. Entry(p, t1) = Entry(p, t2)
            BY <1>2, <2>1, EntryFields
        <2> QED
            BY <2>2 DEF Entry
    <1>3. \E t \in Tokens : Entry(<<>>, t) \in v
        <2>1. PICK e \in v : e.path = <<>>
            BY DEF IsJson
        <2>2. e = Entry(<<>>, e.token) /\ e.token \in Tokens
            BY <1>1, <2>1
        <2> QED
            BY <2>1, <2>2
    <1>4. ASSUME NEW p, NEW t, Entry(p, t) \in v, p # <<>>
          PROVE  Entry(Front(p), Object) \in v
        BY <1>4, EntryFields DEF IsJson
    <1> QED
        BY <1>1, <1>2, <1>3, <1>4

\* The same conditions are enough.
LEMMA IsJsonFromEntries ==
    ASSUME NEW v \in SUBSET Entries,
           \A p \in Seq(STRING), t1 \in Tokens, t2 \in Tokens :
               Entry(p, t1) \in v /\ Entry(p, t2) \in v => t1 = t2,
           \E t \in Tokens : Entry(<<>>, t) \in v,
           \A p \in Seq(STRING), t \in Tokens :
               Entry(p, t) \in v /\ p # <<>> => Entry(Front(p), Object) \in v
    PROVE  IsJson(v)
    <1>1. \A e \in v : /\ e = Entry(e.path, e.token)
                       /\ e.path \in Seq(STRING) /\ e.token \in Tokens
        BY EntryFields
    <1>2. ASSUME NEW e1 \in v, NEW e2 \in v, e1.path = e2.path
          PROVE  e1 = e2
        <2>1. Entry(e1.path, e1.token) \in v /\ Entry(e1.path, e2.token) \in v
            BY <1>1, <1>2
        <2>2. e1.token = e2.token
            BY <1>1, <2>1
        <2> QED
            BY <1>1, <1>2, <2>2
    <1>3. \E e \in v : e.path = <<>>
        BY EntryFields
    <1>4. ASSUME NEW e \in v, e.path # <<>>
          PROVE  Entry(Front(e.path), Object) \in v
        <2>1. Entry(e.path, e.token) \in v
            BY <1>1
        <2> QED
            BY <1>1, <1>4, <2>1
    <1> QED
        BY <1>2, <1>3, <1>4 DEF IsJson

LEMMA EntriesOfField ==
    ASSUME NEW v, IsJson(v), NEW k \in Keys(v)
    PROVE  /\ Field(v, k) \in SUBSET Entries
           /\ \A p \in Seq(STRING), t \in Tokens :
                 Entry(p, t) \in Field(v, k) <=> Entry(<<k>> \o p, t) \in v
    <1> DEFINE below == {e \in v : e.path # <<>> /\ Head(e.path) = k}
    <1>1. Field(v, k) = {Entry(Tail(e.path), e.token) : e \in below}
        BY KeyHasEntry DEF Field
    <1>2. k \in STRING
        BY KeysAreStrings
    <1>3. ASSUME NEW e \in below
          PROVE  Entry(Tail(e.path), e.token) \in Entries
        BY JsonEntries, EntryFields, PathSplit
    <1>4. ASSUME NEW p \in Seq(STRING), NEW t \in Tokens, Entry(<<k>> \o p, t) \in v
          PROVE  Entry(p, t) \in Field(v, k)
        <2>1. /\ <<k>> \o p # <<>> /\ Head(<<k>> \o p) = k
              /\ Tail(<<k>> \o p) = p
            BY <1>2, PathUnderKey
        <2>2. PICK e \in v : e = Entry(<<k>> \o p, t)
            BY <1>4
        <2>3. e.path = <<k>> \o p /\ e.token = t
            BY <2>2, EntryFields
        <2>4. e \in below /\ Entry(Tail(e.path), e.token) = Entry(p, t)
            BY <2>1, <2>3
        <2> QED
            BY <1>1, <2>4
    <1>5. ASSUME NEW p \in Seq(STRING), NEW t \in Tokens, Entry(p, t) \in Field(v, k)
          PROVE  Entry(<<k>> \o p, t) \in v
        <2>1. PICK e \in below : Entry(p, t) = Entry(Tail(e.path), e.token)
            BY <1>1, <1>5
        <2>2. Tail(e.path) = p /\ e.token = t
            BY <2>1 DEF Entry
        <2>3. /\ e \in v /\ e.path # <<>> /\ Head(e.path) = k
              /\ e.path \in Seq(STRING) /\ e = Entry(e.path, e.token)
            BY JsonEntries
        <2>4. e.path = <<k>> \o p
            BY <2>2, <2>3, PathSplit
        <2> QED
            BY <2>2, <2>3, <2>4
    <1> QED
        BY <1>1, <1>3, <1>4, <1>5

\* A value under a key is a value.
LEMMA FieldIsJson ==
    ASSUME NEW v, IsJson(v), NEW k
    PROVE  IsJson(Field(v, k))
    <1>1. CASE k \notin Keys(v)
        BY <1>1, KeyHasEntry, ConstantsAreJson DEF Field
    <1>2. CASE k \in Keys(v)
        <2>1. k \in STRING
            BY <1>2, KeysAreStrings
        <2>2. ASSUME NEW p \in Seq(STRING), NEW t1 \in Tokens, NEW t2 \in Tokens,
                     Entry(p, t1) \in Field(v, k), Entry(p, t2) \in Field(v, k)
              PROVE  t1 = t2
            <3>1. Entry(<<k>> \o p, t1) \in v /\ Entry(<<k>> \o p, t2) \in v
                BY <1>2, <2>2, EntriesOfField
            <3> QED
                BY <3>1, JsonEntries
        <2>3. \E t \in Tokens : Entry(<<>>, t) \in Field(v, k)
            <3>1. PICK e \in v : e.path = <<k>>
                BY <1>2, KeyHasEntry
            <3>2. e = Entry(<<k>>, e.token) /\ e.token \in Tokens
                BY <3>1, JsonEntries
            <3>3. <<>> \in Seq(STRING) /\ <<k>> \o <<>> = <<k>>
                BY <2>1, PathUnderKey
            <3>4. Entry(<<>>, e.token) \in Field(v, k)
                BY <1>2, <3>2, <3>3, EntriesOfField
            <3> QED
                BY <3>2, <3>4
        <2>4. ASSUME NEW p \in Seq(STRING), NEW t \in Tokens,
                     Entry(p, t) \in Field(v, k), p # <<>>
              PROVE  Entry(Front(p), Object) \in Field(v, k)
            <3>1. Entry(<<k>> \o p, t) \in v
                BY <1>2, <2>4, EntriesOfField
            <3>2. /\ <<k>> \o p # <<>> /\ Front(p) \in Seq(STRING)
                  /\ Front(<<k>> \o p) = <<k>> \o Front(p)
                BY <2>1, <2>4, PathUnderKey
            <3>3. Entry(<<k>> \o Front(p), Object) \in v
                BY <3>1, <3>2, JsonEntries
            <3> QED
                BY <1>2, <3>2, <3>3, EntriesOfField, EntryFields
        <2> QED
            BY <1>2, <2>2, <2>3, <2>4, EntriesOfField, IsJsonFromEntries
    <1> QED
        BY <1>1, <1>2

\* Obj and Field are inverse to each other: an object is determined by what is
\* under its keys.
LEMMA EntriesOfObj ==
    ASSUME NEW f, DOMAIN f \subseteq STRING, \A k \in DOMAIN f : IsJson(f[k])
    PROVE  /\ Obj(f) \in SUBSET Entries
           /\ \A t : Entry(<<>>, t) \in Obj(f) <=> t = Object
           /\ \A k \in STRING, p \in Seq(STRING), t \in Tokens :
                 Entry(<<k>> \o p, t) \in Obj(f) <=>
                     k \in DOMAIN f /\ Entry(p, t) \in f[k]
    <1> DEFINE under(k) == {Entry(<<k>> \o e.path, e.token) : e \in f[k]}
    <1>1. \A e : e \in Obj(f) <=>
                 \/ e = Entry(<<>>, Object)
                 \/ \E k \in DOMAIN f : \E d \in f[k] :
                       e = Entry(<<k>> \o d.path, d.token)
        <2>1. Obj(f) = {Entry(<<>>, Object)} \cup UNION {under(k) : k \in DOMAIN f}
            BY DEF Obj, Leaf
        <2>2. \A k, e : e \in under(k) <=>
                            \E d \in f[k] : e = Entry(<<k>> \o d.path, d.token)
            OBVIOUS
        <2> HIDE DEF under
        <2>3. \A e : e \in UNION {under(k) : k \in DOMAIN f} <=>
                         \E k \in DOMAIN f : e \in under(k)
            OBVIOUS
        <2>4. \A e : e \in Obj(f) <=> \/ e = Entry(<<>>, Object)
                                      \/ \E k \in DOMAIN f : e \in under(k)
            <3> HIDE DEF Obj
            <3> QED
                BY <2>1, <2>3
        <2>5. ASSUME NEW e
              PROVE  (\E k \in DOMAIN f : e \in under(k)) <=>
                     \E k \in DOMAIN f : \E d \in f[k] :
                         e = Entry(<<k>> \o d.path, d.token)
            <3>1. ASSUME NEW k \in DOMAIN f, e \in under(k)
                  PROVE  \E d \in f[k] : e = Entry(<<k>> \o d.path, d.token)
                BY <2>2, <3>1
            <3>2. ASSUME NEW k \in DOMAIN f,
                         \E d \in f[k] : e = Entry(<<k>> \o d.path, d.token)
                  PROVE  e \in under(k)
                BY <2>2, <3>2
            <3> QED
                BY <3>1, <3>2, Zenon
        <2> QED
            BY <2>4, <2>5, Zenon
    <1>2. ASSUME NEW k \in DOMAIN f, NEW d \in f[k]
          PROVE  /\ d.path \in Seq(STRING) /\ d.token \in Tokens
                 /\ d = Entry(d.path, d.token)
                 /\ <<k>> \o d.path \in Seq(STRING)
                 /\ <<k>> \o d.path # <<>>
                 /\ Head(<<k>> \o d.path) = k
                 /\ Tail(<<k>> \o d.path) = d.path
        <2>1. d.path \in Seq(STRING) /\ d.token \in Tokens /\ d = Entry(d.path, d.token)
            BY JsonEntries
        <2>2. k \in STRING
            OBVIOUS
        <2> QED
            BY <2>1, <2>2, PathUnderKey
    <1>3. Obj(f) \in SUBSET Entries
        <2>1. Entry(<<>>, Object) \in Entries
            <3>1. <<>> \in Seq(STRING)
                OBVIOUS
            <3> QED
                BY <3>1, EntryFields
        <2>2. ASSUME NEW k \in DOMAIN f, NEW d \in f[k]
              PROVE  Entry(<<k>> \o d.path, d.token) \in Entries
            BY <1>2, EntryFields
        <2>3. ASSUME NEW e \in Obj(f)
              PROVE  e \in Entries
            <3>1. CASE e = Entry(<<>>, Object)
                BY <2>1, <3>1
            <3>2. CASE \E k \in DOMAIN f : \E d \in f[k] :
                            e = Entry(<<k>> \o d.path, d.token)
                BY <2>2, <3>2, Zenon
            <3> QED
                BY <1>1, <2>3, <3>1, <3>2, Zenon
        <2> QED
            BY <2>3
    <1>4. ASSUME NEW t
          PROVE  Entry(<<>>, t) \in Obj(f) <=> t = Object
        <2>1. \A k \in DOMAIN f : \A d \in f[k] :
                  Entry(<<>>, t) # Entry(<<k>> \o d.path, d.token)
            BY <1>2 DEF Entry
        <2>2. Entry(<<>>, t) = Entry(<<>>, Object) <=> t = Object
            BY DEF Entry
        <2> QED
            BY <1>1, <2>1, <2>2
    <1>5. ASSUME NEW k \in STRING, NEW p \in Seq(STRING), NEW t \in Tokens
          PROVE  Entry(<<k>> \o p, t) \in Obj(f) <=>
                     k \in DOMAIN f /\ Entry(p, t) \in f[k]
        <2>1. /\ <<k>> \o p # <<>> /\ Head(<<k>> \o p) = k
              /\ Tail(<<k>> \o p) = p
            BY PathUnderKey
        <2>2. ASSUME Entry(<<k>> \o p, t) \in Obj(f)
              PROVE  k \in DOMAIN f /\ Entry(p, t) \in f[k]
            <3>1. Entry(<<k>> \o p, t) # Entry(<<>>, Object)
                BY <2>1 DEF Entry
            <3>2. PICK j \in DOMAIN f : \E d \in f[j] :
                      Entry(<<k>> \o p, t) = Entry(<<j>> \o d.path, d.token)
                BY <1>1, <2>2, <3>1
            <3>5. PICK d \in f[j] :
                      Entry(<<k>> \o p, t) = Entry(<<j>> \o d.path, d.token)
                BY <3>2
            <3>3. <<k>> \o p = <<j>> \o d.path /\ t = d.token
                BY <3>5 DEF Entry
            <3>4. j = k /\ d.path = p
                BY <1>2, <2>1, <3>3
            <3> QED
                BY <1>2, <3>3, <3>4
        <2>3. ASSUME k \in DOMAIN f, Entry(p, t) \in f[k]
              PROVE  Entry(<<k>> \o p, t) \in Obj(f)
            <3>1. Entry(<<k>> \o p, t) =
                      Entry(<<k>> \o Entry(p, t).path, Entry(p, t).token)
                BY EntryFields
            <3> QED
                BY <1>1, <2>3, <3>1
        <2> QED
            BY <2>2, <2>3
    <1> QED
        BY <1>3, <1>4, <1>5

LEMMA ObjIsJson ==
    ASSUME NEW f, DOMAIN f \subseteq STRING, \A k \in DOMAIN f : IsJson(f[k])
    PROVE  IsJson(Obj(f)) /\ IsObj(Obj(f))
    <1> DEFINE v == Obj(f)
    <1>1. /\ v \in SUBSET Entries
          /\ \A t : Entry(<<>>, t) \in v <=> t = Object
          /\ \A k \in STRING, p \in Seq(STRING), t \in Tokens :
                Entry(<<k>> \o p, t) \in v <=>
                    k \in DOMAIN f /\ Entry(p, t) \in f[k]
        BY EntriesOfObj
    <1> HIDE DEF v
    <1>2. ASSUME NEW p \in Seq(STRING), NEW t \in Tokens, Entry(p, t) \in v, p # <<>>
          PROVE  /\ Head(p) \in DOMAIN f /\ Head(p) \in STRING
                 /\ Tail(p) \in Seq(STRING) /\ p = <<Head(p)>> \o Tail(p)
                 /\ Entry(Tail(p), t) \in f[Head(p)]
        BY <1>1, <1>2, PathSplit
    <1>3. ASSUME NEW p \in Seq(STRING), NEW t1 \in Tokens, NEW t2 \in Tokens,
                 Entry(p, t1) \in v, Entry(p, t2) \in v
          PROVE  t1 = t2
        <2>1. CASE p = <<>>
            BY <1>1, <1>3, <2>1
        <2>2. CASE p # <<>>
            <3>1. /\ Head(p) \in DOMAIN f
                  /\ Entry(Tail(p), t1) \in f[Head(p)]
                  /\ Entry(Tail(p), t2) \in f[Head(p)]
                BY <1>2, <1>3, <2>2
            <3> QED
                BY <3>1, JsonEntries
        <2> QED
            BY <2>1, <2>2
    <1>4. ASSUME NEW p \in Seq(STRING), NEW t \in Tokens, Entry(p, t) \in v, p # <<>>
          PROVE  Entry(Front(p), Object) \in v
        <2>1. /\ Head(p) \in DOMAIN f /\ Head(p) \in STRING
              /\ Tail(p) \in Seq(STRING) /\ p = <<Head(p)>> \o Tail(p)
              /\ Entry(Tail(p), t) \in f[Head(p)]
            BY <1>2, <1>4
        <2>2. CASE Tail(p) = <<>>
            <3>1. Front(<<Head(p)>> \o Tail(p)) = <<>>
                BY <2>1, <2>2, PathUnderKey
            <3> QED
                BY <1>1, <2>1, <3>1
        <2>3. CASE Tail(p) # <<>>
            <3>1. Entry(Front(Tail(p)), Object) \in f[Head(p)]
                BY <2>1, <2>3, JsonEntries
            <3>2. /\ Front(<<Head(p)>> \o Tail(p)) = <<Head(p)>> \o Front(Tail(p))
                  /\ Front(Tail(p)) \in Seq(STRING)
                BY <2>1, <2>3, PathUnderKey
            <3> QED
                BY <1>1, <2>1, <3>1, <3>2, EntryFields
        <2> QED
            BY <2>2, <2>3
    <1>5. IsJson(v)
        BY <1>1, <1>3, <1>4, EntryFields, IsJsonFromEntries
    <1>6. IsObj(v)
        BY <1>1 DEF IsObj
    <1> QED
        BY <1>5, <1>6 DEF v

LEMMA FieldsOfObj ==
    ASSUME NEW f, DOMAIN f \subseteq STRING, \A k \in DOMAIN f : IsJson(f[k])
    PROVE  /\ Keys(Obj(f)) = DOMAIN f
           /\ \A k \in DOMAIN f : Field(Obj(f), k) = f[k]
           /\ \A k : k \notin DOMAIN f => Field(Obj(f), k) = Null
    <1> DEFINE v == Obj(f)
    <1>1. IsJson(v)
        BY ObjIsJson
    <1>2. \A k \in STRING, p \in Seq(STRING), t \in Tokens :
              Entry(<<k>> \o p, t) \in v <=>
                  k \in DOMAIN f /\ Entry(p, t) \in f[k]
        BY EntriesOfObj
    <1> HIDE DEF v
    <1>3. ASSUME NEW k \in Keys(v)
          PROVE  k \in DOMAIN f
        <2>1. PICK e \in v : e.path = <<k>>
            BY <1>1, KeyHasEntry
        <2>2. e = Entry(<<k>>, e.token) /\ e.token \in Tokens
            BY <1>1, <2>1, JsonEntries
        <2>3. k \in STRING
            BY <1>1, KeysAreStrings
        <2>4. <<>> \in Seq(STRING) /\ <<k>> \o <<>> = <<k>>
            BY <2>3, PathUnderKey
        <2> QED
            BY <1>2, <2>1, <2>2, <2>3, <2>4
    <1>4. ASSUME NEW k \in DOMAIN f
          PROVE  k \in Keys(v)
        <2>1. PICK t \in Tokens : Entry(<<>>, t) \in f[k]
            BY JsonEntries
        <2>2. <<>> \in Seq(STRING) /\ <<k>> \o <<>> = <<k>>
            BY PathUnderKey
        <2>3. Entry(<<k>>, t) \in v
            BY <1>2, <2>1, <2>2
        <2> QED
            BY <1>1, <2>3, KeyHasEntry, EntryFields
    <1>5. ASSUME NEW k \in DOMAIN f
          PROVE  Field(v, k) = f[k]
        <2>1. /\ Field(v, k) \in SUBSET Entries
              /\ \A p \in Seq(STRING), t \in Tokens :
                    Entry(p, t) \in Field(v, k) <=> Entry(<<k>> \o p, t) \in v
            BY <1>1, <1>4, EntriesOfField
        <2>2. f[k] \in SUBSET Entries
            BY JsonEntries
        <2>3. k \in STRING
            OBVIOUS
        <2>4. \A p \in Seq(STRING), t \in Tokens :
                  Entry(p, t) \in Field(v, k) <=> Entry(p, t) \in f[k]
            BY <1>2, <2>1, <2>3
        <2> QED
            BY <2>1, <2>2, <2>4, SameEntries
    <1>6. ASSUME NEW k, k \notin DOMAIN f
          PROVE  Field(v, k) = Null
        BY <1>1, <1>3, <1>6, KeyHasEntry DEF Field
    <1> QED
        BY <1>3, <1>4, <1>5, <1>6 DEF v

LEMMA FieldsAreJson ==
    ASSUME NEW v, IsJson(v)
    PROVE  /\ DOMAIN Fields(v) = Keys(v) /\ DOMAIN Fields(v) \subseteq STRING
           /\ \A k \in DOMAIN Fields(v) : Fields(v)[k] = Field(v, k) /\ IsJson(Fields(v)[k])
    BY KeysAreStrings, FieldIsJson DEF Fields

-----------------------------------------------------------------------------
(* Decoding *)

LEMMA EntriesOfDecoded ==
    ASSUME NEW v, IsJson(v)
    PROVE  /\ Decoded(v) \in SUBSET Entries
           /\ \A p \in Seq(STRING), t \in Tokens :
                 Entry(p, t) \in v => Entry(p, DecodedToken(t)) \in Decoded(v)
           /\ \A p \in Seq(STRING), t \in Tokens :
                 Entry(p, t) \in Decoded(v) =>
                     \E u \in Tokens : Entry(p, u) \in v /\ t = DecodedToken(u)
    <1>1. \A e \in v : /\ e = Entry(e.path, e.token)
                       /\ e.path \in Seq(STRING) /\ e.token \in Tokens
                       /\ DecodedToken(e.token) \in Tokens
        BY JsonEntries, DecodedTokenKept
    <1>2. Decoded(v) \in SUBSET Entries
        BY <1>1, EntryFields DEF Decoded
    <1>3. ASSUME NEW p \in Seq(STRING), NEW t \in Tokens, Entry(p, t) \in v
          PROVE  Entry(p, DecodedToken(t)) \in Decoded(v)
        <2>1. Entry(p, t).path = p /\ Entry(p, t).token = t
            BY EntryFields
        <2> QED
            BY <1>3, <2>1 DEF Decoded
    <1>4. ASSUME NEW p \in Seq(STRING), NEW t \in Tokens, Entry(p, t) \in Decoded(v)
          PROVE  \E u \in Tokens : Entry(p, u) \in v /\ t = DecodedToken(u)
        <2>1. PICK e \in v : Entry(p, t) = Entry(e.path, DecodedToken(e.token))
            BY <1>4 DEF Decoded
        <2>2. p = e.path /\ t = DecodedToken(e.token)
            BY <2>1 DEF Entry
        <2> QED
            BY <1>1, <2>2
    <1> QED
        BY <1>2, <1>3, <1>4

LEMMA DecodedIsJson ==
    ASSUME NEW v, IsJson(v)
    PROVE  /\ IsJson(Decoded(v))
           /\ IsObj(Decoded(v)) <=> IsObj(v)
           /\ Keys(Decoded(v)) = Keys(v)
           /\ Storable(v) => Storable(Decoded(v))
    <1> DEFINE w == Decoded(v)
    <1>1. /\ w \in SUBSET Entries
          /\ \A p \in Seq(STRING), t \in Tokens :
                Entry(p, t) \in v => Entry(p, DecodedToken(t)) \in w
          /\ \A p \in Seq(STRING), t \in Tokens :
                Entry(p, t) \in w =>
                    \E u \in Tokens : Entry(p, u) \in v /\ t = DecodedToken(u)
        BY EntriesOfDecoded
    <1> HIDE DEF w
    <1>2. ASSUME NEW p \in Seq(STRING)
          PROVE  Entry(p, Object) \in w <=> Entry(p, Object) \in v
        <2>1. Object \in Tokens /\ DecodedToken(Object) = Object
            BY EntryFields, DecodedTokenKept
        <2>2. ASSUME Entry(p, Object) \in w
              PROVE  Entry(p, Object) \in v
            <3>1. PICK u \in Tokens : Entry(p, u) \in v /\ Object = DecodedToken(u)
                BY <1>1, <2>1, <2>2
            <3> QED
                BY <3>1, DecodedTokenKept
        <2> QED
            BY <1>1, <2>1, <2>2
    <1>3. IsJson(w)
        <2>1. ASSUME NEW p \in Seq(STRING), NEW t1 \in Tokens, NEW t2 \in Tokens,
                     Entry(p, t1) \in w, Entry(p, t2) \in w
              PROVE  t1 = t2
            <3>1. PICK u1 \in Tokens : Entry(p, u1) \in v /\ t1 = DecodedToken(u1)
                BY <1>1, <2>1
            <3>2. PICK u2 \in Tokens : Entry(p, u2) \in v /\ t2 = DecodedToken(u2)
                BY <1>1, <2>1
            <3>3. u1 = u2
                BY <3>1, <3>2, JsonEntries
            <3> QED
                BY <3>1, <3>2, <3>3
        <2>2. \E t \in Tokens : Entry(<<>>, t) \in w
            <3>1. PICK t \in Tokens : Entry(<<>>, t) \in v
                BY JsonEntries
            <3>2. <<>> \in Seq(STRING) /\ DecodedToken(t) \in Tokens
                BY DecodedTokenKept
            <3> QED
                BY <1>1, <3>1, <3>2
        <2>3. ASSUME NEW p \in Seq(STRING), NEW t \in Tokens, Entry(p, t) \in w, p # <<>>
              PROVE  Entry(Front(p), Object) \in w
            <3>1. PICK u \in Tokens : Entry(p, u) \in v
                BY <1>1, <2>3
            <3>2. Entry(Front(p), Object) \in v
                BY <2>3, <3>1, JsonEntries
            <3>3. Front(p) \in Seq(STRING)
                BY <2>3, PathSplit
            <3> QED
                BY <1>2, <3>2, <3>3
        <2> QED
            BY <1>1, <2>1, <2>2, <2>3, IsJsonFromEntries
    <1>4. IsObj(w) <=> IsObj(v)
        <2>1. <<>> \in Seq(STRING)
            OBVIOUS
        <2> QED
            BY <1>2, <2>1 DEF IsObj
    <1>5. Keys(w) = Keys(v)
        <2>1. Keys(w) = {Head(e.path) : e \in {e \in w : Len(e.path) = 1}}
            BY DEF Keys
        <2>2. ASSUME NEW k \in Keys(w)
              PROVE  k \in Keys(v)
            <3>1. PICK e \in w : e.path = <<k>>
                BY <1>3, KeyHasEntry
            <3>2. e = Entry(<<k>>, e.token) /\ e.path \in Seq(STRING) /\ e.token \in Tokens
                BY <1>3, <3>1, JsonEntries
            <3>3. PICK u \in Tokens : Entry(<<k>>, u) \in v
                BY <1>1, <3>1, <3>2
            <3> QED
                BY <3>3, KeyHasEntry, EntryFields
        <2>3. ASSUME NEW k \in Keys(v)
              PROVE  k \in Keys(w)
            <3>1. PICK e \in v : e.path = <<k>>
                BY KeyHasEntry
            <3>2. e = Entry(<<k>>, e.token) /\ e.path \in Seq(STRING) /\ e.token \in Tokens
                BY <3>1, JsonEntries
            <3>3. Entry(<<k>>, DecodedToken(e.token)) \in w
                BY <1>1, <3>1, <3>2
            <3> QED
                BY <1>3, <3>3, KeyHasEntry, EntryFields
        <2> QED
            BY <2>2, <2>3
    <1>6. ASSUME Storable(v)
          PROVE  Storable(w)
        <2>1. ASSUME NEW e \in w
              PROVE  e.token # NulText
            <3>1. e = Entry(e.path, e.token) /\ e.path \in Seq(STRING) /\ e.token \in Tokens
                BY <1>3, JsonEntries
            <3>2. PICK u \in Tokens : Entry(e.path, u) \in v /\ e.token = DecodedToken(u)
                BY <1>1, <3>1
            <3>3. u # NulText
                BY <1>6, <3>2, EntryFields DEF Storable
            <3> QED
                BY <3>2, <3>3, DecodedTokenKept
        <2> QED
            BY <2>1 DEF Storable
    <1> QED
        BY <1>3, <1>4, <1>5, <1>6 DEF w

\* Decoding a value decodes what is under each of its keys.
LEMMA FieldOfDecoded ==
    ASSUME NEW v, IsJson(v), NEW k
    PROVE  Field(Decoded(v), k) = Decoded(Field(v, k))
    <1>1. Decoded(Null) = Null
        <2>1. NullToken \in Tokens /\ DecodedToken(NullToken) = NullToken
            BY TokenFields DEF Tokens, DecodedToken
        <2> QED
            BY <2>1, EntryFields DEF Decoded, Null, Leaf
    <1>2. CASE k \notin Keys(v)
        <2>1. Field(v, k) = Null
            BY <1>2, KeyHasEntry DEF Field
        <2>2. k \notin Keys(Decoded(v)) /\ IsJson(Decoded(v))
            BY <1>2, DecodedIsJson
        <2>3. Field(Decoded(v), k) = Null
            BY <2>2, KeyHasEntry DEF Field
        <2> QED
            BY <1>1, <2>1, <2>3
    <1>3. CASE k \in Keys(v)
        <2>1. IsJson(Decoded(v)) /\ k \in Keys(Decoded(v))
            BY <1>3, DecodedIsJson
        <2>2. IsJson(Field(v, k))
            BY FieldIsJson
        <2>3. k \in STRING
            BY <1>3, KeysAreStrings
        <2>4. ASSUME NEW p \in Seq(STRING), NEW t \in Tokens
              PROVE  Entry(p, t) \in Field(Decoded(v), k) <=>
                         Entry(p, t) \in Decoded(Field(v, k))
            <3>1. <<k>> \o p \in Seq(STRING)
                BY <2>3, PathUnderKey
            <3>2. Entry(p, t) \in Field(Decoded(v), k) <=> Entry(<<k>> \o p, t) \in Decoded(v)
                BY <2>1, EntriesOfField
            <3>3. Entry(<<k>> \o p, t) \in Decoded(v) <=>
                      \E u \in Tokens : Entry(<<k>> \o p, u) \in v /\ t = DecodedToken(u)
                BY <3>1, EntriesOfDecoded
            <3>4. \A u \in Tokens : Entry(<<k>> \o p, u) \in v <=> Entry(p, u) \in Field(v, k)
                BY <1>3, EntriesOfField
            <3>5. Entry(p, t) \in Decoded(Field(v, k)) <=>
                      \E u \in Tokens : Entry(p, u) \in Field(v, k) /\ t = DecodedToken(u)
                BY <2>2, EntriesOfDecoded
            <3> QED
                BY <3>2, <3>3, <3>4, <3>5
        <2>5. /\ Field(Decoded(v), k) \in SUBSET Entries
              /\ Decoded(Field(v, k)) \in SUBSET Entries
            BY <2>1, <2>2, EntriesOfField, EntriesOfDecoded
        <2> QED
            BY <2>4, <2>5, SameEntries
    <1> QED
        BY <1>2, <1>3

\* A value that has been decoded once comes through every later decoding as it
\* is: the numbers a run's data carries are rounded by the first Conditional and
\* by no other.
THEOREM DecodedOnce ==
    ASSUME NEW v, IsJson(v)
    PROVE  Decoded(Decoded(v)) = Decoded(v)
    <1> DEFINE w == Decoded(v)
    <1>1. IsJson(w)
        BY DecodedIsJson
    <1>2. ASSUME NEW p \in Seq(STRING), NEW t \in Tokens, Entry(p, t) \in w
          PROVE  DecodedToken(t) = t
        <2>1. PICK u \in Tokens : t = DecodedToken(u)
            BY <1>2, EntriesOfDecoded
        <2> QED
            BY <2>1, DecodedTokenKept
    <1> HIDE DEF w
    <1>3. ASSUME NEW p \in Seq(STRING), NEW t \in Tokens
          PROVE  Entry(p, t) \in Decoded(w) <=> Entry(p, t) \in w
        <2>1. Entry(p, t) \in w => Entry(p, t) \in Decoded(w)
            BY <1>1, <1>2, EntriesOfDecoded
        <2>2. ASSUME Entry(p, t) \in Decoded(w)
              PROVE  Entry(p, t) \in w
            <3>1. PICK u \in Tokens : Entry(p, u) \in w /\ t = DecodedToken(u)
                BY <1>1, <2>2, EntriesOfDecoded
            <3> QED
                BY <1>2, <3>1
        <2> QED
            BY <2>1, <2>2
    <1>4. Decoded(w) \in SUBSET Entries /\ w \in SUBSET Entries
        BY <1>1, EntriesOfDecoded, JsonEntries
    <1> QED
        BY <1>3, <1>4, SameEntries DEF w

-----------------------------------------------------------------------------
(* What jsonb takes *)

LEMMA StorableFields ==
    ASSUME NEW v, IsJson(v), Storable(v), NEW k
    PROVE  Storable(Field(v, k))
    <1>1. CASE k \notin Keys(v)
        BY <1>1, KeyHasEntry, ConstantsAreJson DEF Field
    <1>2. CASE k \in Keys(v)
        <2>1. ASSUME NEW e \in Field(v, k)
              PROVE  e.token # NulText
            <3>1. e = Entry(e.path, e.token) /\ e.path \in Seq(STRING) /\ e.token \in Tokens
                BY FieldIsJson, JsonEntries
            <3>2. Entry(<<k>> \o e.path, e.token) \in v
                BY <1>2, <2>1, <3>1, EntriesOfField
            <3> QED
                BY <3>2, EntryFields DEF Storable
        <2> QED
            BY <2>1 DEF Storable
    <1> QED
        BY <1>1, <1>2

LEMMA StorableObj ==
    ASSUME NEW f, \A k \in DOMAIN f : Storable(f[k])
    PROVE  Storable(Obj(f))
    <1> DEFINE under(k) == {Entry(<<k>> \o e.path, e.token) : e \in f[k]}
    <1>1. Obj(f) = Leaf(Object) \cup UNION {under(k) : k \in DOMAIN f}
        BY DEF Obj
    <1>2. \A e \in Leaf(Object) : e.token # NulText
        BY TokenFields, EntryFields DEF Leaf
    <1>3. ASSUME NEW k \in DOMAIN f, NEW e \in under(k)
          PROVE  e.token # NulText
        BY EntryFields DEF Storable
    <1> HIDE DEF under
    <1>4. ASSUME NEW e \in UNION {under(k) : k \in DOMAIN f}
          PROVE  e.token # NulText
        BY <1>3
    <1> QED
        BY <1>1, <1>2, <1>4 DEF Storable
=============================================================================
