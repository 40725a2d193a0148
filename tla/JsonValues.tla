----------------------------- MODULE JsonValues -----------------------------
(***************************************************************************)
(* JSON values, and what encoding/json, jsonb and JavaScript do to them.   *)
(*                                                                         *)
(* A value is the set of its entries: for each of its nodes the path to it, *)
(* a sequence of keys, and a token - the scalar at a leaf, Object          *)
(* elsewhere.  So whatever happens to every scalar of a value, however     *)
(* deep it lies, happens to the elements of a set.  Texts are opaque       *)
(* except for the one with the character U+0000; booleans and arrays       *)
(* behave like texts, negative numbers and fractions like numbers, and are *)
(* left out.                                                               *)
(***************************************************************************)
EXTENDS Integers, SequencesExt

CONSTANTS
    MaxExact,   \* integers up to here are exact as float64 (2^53)
    MaxFloat    \* numbers above are out of float64's range

-----------------------------------------------------------------------------
(* Tokens *)

Object == [object |-> "{}"]
NullToken == [null |-> "null"]
NulText == [str |-> "\\u0000"]

Tokens == {Object, NullToken} \cup [num : Nat] \cup [str : STRING]

\* Round half to even, where the numbers above MaxExact have a spacing of two.
Rounded(n) ==
    IF n <= MaxExact \/ n % 2 = 0 THEN n
    ELSE IF n % 4 = 1 THEN n - 1 ELSE n + 1

\* The largest float64 is a float64.
ASSUME NumberAssumption ==
    /\ MaxExact \in Nat /\ MaxFloat \in Nat
    /\ Rounded(MaxFloat) = MaxFloat

\* Decoding makes every number a float64.  JavaScript reads a number that is
\* out of range as Infinity, which it writes as null.
DecodedToken(t) ==
    IF "num" \notin DOMAIN t THEN t
    ELSE IF t.num > MaxFloat THEN NullToken ELSE [num |-> Rounded(t.num)]

-----------------------------------------------------------------------------
(* Values *)

Entry(p, t) == [path |-> p, token |-> t]

Entries == [path : Seq(STRING), token : Tokens]

\* One token at each path, and an object above each entry but the root.
IsJson(v) ==
    /\ v \subseteq Entries
    /\ \A e1, e2 \in v : e1.path = e2.path => e1 = e2
    /\ \E e \in v : e.path = <<>>
    /\ \A e \in v : e.path # <<>> => Entry(Front(e.path), Object) \in v

Leaf(t) == {Entry(<<>>, t)}

Null == Leaf(NullToken)
Num(n) == Leaf([num |-> n])
Str(s) == Leaf([str |-> s])

IsObj(v) == Entry(<<>>, Object) \in v

Keys(v) == {Head(e.path) : e \in {e \in v : Len(e.path) = 1}}

\* The value under a key.  A missing key reads as nil, like null.
Field(v, k) ==
    IF \E e \in v : e.path = <<k>>
    THEN {Entry(Tail(e.path), e.token) :
             e \in {e \in v : e.path # <<>> /\ Head(e.path) = k}}
    ELSE Null

Fields(v) == [k \in Keys(v) |-> Field(v, k)]

\* The object with the values f under the keys DOMAIN f.
Obj(f) ==
    Leaf(Object) \cup
    UNION {{Entry(<<k>> \o e.path, e.token) : e \in f[k]} : k \in DOMAIN f}

NoFields == [k \in {} |-> Null]

\* The fields f laid over the fields g (@@ of TLC, for the provers to expand).
Over(f, g) ==
    [k \in DOMAIN f \cup DOMAIN g |-> IF k \in DOMAIN f THEN f[k] ELSE g[k]]

\* Unmarshal into any refuses a number that float64 cannot hold.
Decodable(v) ==
    \A e \in v : "num" \in DOMAIN e.token => e.token.num <= MaxFloat

Decoded(v) == {Entry(e.path, DecodedToken(e.token)) : e \in v}

\* jsonb cannot hold U+0000.
Storable(v) == \A e \in v : e.token # NulText
=============================================================================
