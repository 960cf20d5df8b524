----------------------------- MODULE ValuePaths -----------------------------
(***************************************************************************)
(* The numbers inside a value: at which paths they are advertised to the   *)
(* Console (ExtractSchema and NormalizeResultSchema of                     *)
(* src/pkg/tracker/schema.go), and which value a path yields when a call   *)
(* or a response is metered (getValueByPath and toFloat64 of               *)
(* src/pkg/middleware/functions.go).                                       *)
(*                                                                         *)
(* A value is a tree: pointers and interfaces are followed.  A path is the *)
(* sequence of its segments, so that a key with a dot in it, which joins   *)
(* the path as it is, has several.  The limits of ExtractSchema on keys,   *)
(* items and cycles only take paths away, and are left out.                *)
(***************************************************************************)
EXTENDS Integers, Sequences, FiniteSetsExt

\* What json.Marshal makes of a value: what it is, a text, as many types with a
\* MarshalJSON and fields tagged ",string" have it, or nothing but an error.
Encoding == {"same", "text", "none"}

\* A number; toFloat64 knows some Go types only (no unsigned, 8 or 16 bit or
\* named type, and no pointer).  NaN and the infinities have no JSON.
Num(n)       == [t |-> "num", n |-> n, known |-> TRUE, json |-> "same"]
OddNum(n)    == [t |-> "num", n |-> n, known |-> FALSE, json |-> "same"]
QuotedNum(n) == [t |-> "num", n |-> n, known |-> FALSE, json |-> "text"]
NotFinite    == [t |-> "num", n |-> -1, known |-> TRUE, json |-> "none"]
Text         == [t |-> "text", json |-> "same"]
Nil          == [t |-> "nil", json |-> "same"]
NilPointer   == [t |-> "nilPointer", json |-> "same"]   \* not equal to nil in an interface{}
Error        == [t |-> "error", json |-> "same"]
Func         == [t |-> "func", json |-> "none"]         \* or a channel

\* One part without JSON leaves the whole without.
Joint(values) == IF \E v \in values : v.json = "none" THEN "none" ELSE "same"
Array(s)      == [t |-> "array", items |-> s, json |-> Joint({s[i] : i \in DOMAIN s})]

\* A map[string]interface{}.  (A struct, or a map of another type, is a "struct":
\* getValueByPath can walk it only as JSON; see Struct.)
Map(fs)   == [t |-> "map", fields |-> fs, json |-> Joint({f.value : f \in fs})]
Key(k, v) == [key |-> k, value |-> v, omitempty |-> FALSE, embedded |-> FALSE]

Object(v) == v.t \in {"map", "struct"}
Zero(v)   == v.t = "nil" \/ (v.t = "num" /\ v.n = 0)

\* A set of values with all that is inside them.
Closed(V) ==
    \A v \in V :
        /\ v.json \in Encoding
        /\ Object(v) => \A f \in v.fields :
             /\ f.value \in V /\ f.key \in Seq(STRING) \ {<<>>}
             /\ f.embedded \in BOOLEAN /\ (f.embedded => f.value.t = "struct")
        /\ v.t = "array" => \A i \in DOMAIN v.items : v.items[i] \in V

-----------------------------------------------------------------------------
(* What is advertised *)

\* How deep ExtractSchema goes.
SchemaMaxDepth == 10

\* An object and the structs embedded in it, each with the names that lead to it;
\* what is deeper is not advertised.
EmbeddedIn(w) ==
    {[value |-> f.value, names |-> w.names \o f.key] : f \in {g \in w.value.fields : g.embedded}}

Embedding(v) ==
    LET Level[d \in Nat] ==
            IF d = 0 THEN {[value |-> v, names |-> <<>>]}
            ELSE UNION {EmbeddedIn(w) : w \in Level[d - 1]}
    IN  Level

Embedded(v) == UNION {Embedding(v)[d] : d \in 0 .. SchemaMaxDepth}

\* The fields of an object, those of what is embedded in it with their own names.
AllFields(v) ==
    UNION {{[names |-> w.names, field |-> f] : f \in {g \in w.value.fields : ~g.embedded}} :
           w \in Embedded(v)}

\* The fields of a struct that its JSON does not have: all of them if there is no
\* such JSON, empty ones, if they may be left out, and those of embedded structs
\* that others hide.
Lost(v, a) ==
    /\ v.t = "struct"
    /\ \/ v.json # "same"
       \/ a.field.omitempty /\ Zero(a.field.value)
       \/ \E b \in AllFields(v) :
            b # a /\ b.field.key = a.field.key /\ Len(b.names) <= Len(a.names)

Struct(fs) ==
    LET s == [t |-> "struct", fields |-> fs, json |-> "same"]
    IN  [s EXCEPT !.json = Joint({a.field.value : a \in {b \in AllFields(s) : ~Lost(s, b)}})]

\* A struct with a MarshalJSON of its own.
TextStruct(fs) == [t |-> "struct", fields |-> fs, json |-> "text"]

\* The walk goes through JSON at a struct, and what is below it then is from there.
Through(v) == IF v.t = "struct" THEN {"json"} ELSE {}

\* What stands between a number and the end of its path.
Via(v, a) ==
    Through(v)
    \cup (IF Len(a.field.key) > 1 THEN {"dot"} ELSE {})
    \cup (IF Lost(v, a) THEN {"lost"} ELSE {})

\* The field of an item of an array: the segment that is no key ends in [i].
Indexed(path) == IF path = <<>> THEN <<"[i]">> ELSE [path EXCEPT ![Len(path)] = "[i]"]

\* What is directly below a value that was reached: the fields of an object and
\* the items of an array, each with its path, the path it has in JSON, where what
\* is embedded has no name, and its depth.
Below(x) ==
    IF Object(x.value) THEN
        {[value |-> a.field.value,
          path  |-> x.path \o a.names \o a.field.key,
          at    |-> x.at \o a.field.key,
          via   |-> x.via \cup Via(x.value, a),
          depth |-> x.depth + Len(a.names) + 1] : a \in AllFields(x.value)}
    ELSE IF x.value.t = "array" THEN
        {[value |-> x.value.items[i],
          path  |-> Indexed(x.path),
          at    |-> x.at,
          via   |-> x.via \cup {"array"},
          depth |-> x.depth + 1] : i \in DOMAIN x.value.items}
    ELSE {}

\* What is inside a value, by the number of steps to it.
Inside(v) ==
    LET Level[d \in Nat] ==
            IF d = 0 THEN {[value |-> v, path |-> <<>>, at |-> <<>>, via |-> {}, depth |-> 0]}
            ELSE UNION {Below(x) : x \in Level[d - 1]}
    IN  Level

\* The numeric fields of the objects inside a value, up to a number of steps.
\* NormalizeResultSchema gives a bare number the path "return".
Numbers(v, steps) ==
    IF v.t = "num"
    THEN {[value |-> v, path |-> <<"return">>, at |-> <<"return">>, via |-> {}, depth |-> 1]}
    ELSE LET Objects == {x \in UNION {Inside(v)[d] : d \in 0 .. steps} : Object(x.value)}
         IN  {l \in UNION {Below(x) : x \in Objects} : l.value.t = "num"}

Advertised(v) == {l \in Numbers(v, SchemaMaxDepth) : l.depth <= SchemaMaxDepth + 1}

-----------------------------------------------------------------------------
(* What is metered *)

\* The fields one step of the walk can see; those of a struct are what is left
\* after json.Marshal and json.Unmarshal, and nothing if one of the two fails.
Fields(v) ==
    IF Object(v) THEN {a.field : a \in {b \in AllFields(v) : ~Lost(v, b)}} ELSE {}

\* Where a path leads, and whether the walk has gone through JSON: what is below
\* a struct has; it is written here in its Go form, of which Lost and ToFloat64
\* say what there is in JSON.  Keys are taken as they are, dots included.
Step(x, part) ==
    {[value |-> f.value, via |-> x.via \cup Through(x.value)] :
       f \in {g \in Fields(x.value) : g.key = <<part>>}}

Walk(v, path) ==
    LET At[k \in Nat] ==
            IF k = 0 THEN {[value |-> v, via |-> {}]}
            ELSE UNION {Step(x, path[k]) : x \in At[k - 1]}
    IN  At

\* Mutant: a number of zero counts as none.
NonZeroToFloat64(x) ==
    /\ x.value.t = "num" /\ x.value.n # 0
    /\ IF "json" \in x.via THEN x.value.json = "same" ELSE x.value.known

\* Numbers from JSON are float64, unless JSON has them as a text.
ToFloat64(x) ==
    /\ x.value.t = "num"
    /\ IF "json" \in x.via THEN x.value.json = "same" ELSE x.value.known

GetValueByPath(v, path) ==
    LET whole == [value |-> v, via |-> {}]
    IN  IF v.t = "nil" \/ path = <<>> THEN {}
        ELSE IF path = <<"return">> /\ (ToFloat64(whole) \/ v.t = "text") THEN {whole}
        ELSE Walk(v, path)[Len(path)]

\* The amount settled: the number at the path, or else one unit.
Amount(v, path) ==
    LET found == {x \in GetValueByPath(v, path) : ToFloat64(x)}
    IN  IF found = {} THEN 1 ELSE (CHOOSE x \in found : TRUE).value.n

-----------------------------------------------------------------------------
(* The result of a call *)

\* Call.End takes the last value that is neither nil nor an error.
PrimaryResult(results) ==
    LET values == {i \in DOMAIN results : results[i].t \notin {"nil", "error"}}
    IN  IF values = {} THEN Nil ELSE results[Max(values)]

IsError(results) == \E i \in DOMAIN results : results[i].t = "error"
=============================================================================
