------------------------- MODULE MeteredDataProofs --------------------------
(***************************************************************************)
(* Whom a request is charged to and how much, whether its body survives,   *)
(* and whether the body of its response is kept whole, for any policies of *)
(* the route, any results and responses, and any limits.                   *)
(*                                                                         *)
(* What a number is charged rests on two traversals of the same value: the *)
(* walk along a path and the schema from which the path was chosen.  They  *)
(* are compared step by step, by induction on the number of steps; the     *)
(* induction is over sets of numbers, as SetInduction states it.           *)
(*                                                                         *)
(* The inductive invariant of the request has four parts: what the loop of *)
(* GetUserPrefix knows after it looked at the policies before the next,    *)
(* until the handler starts; what the call that ended last was charged;    *)
(* how the copy of the response relates to what was written; and what the  *)
(* response was charged.                                                   *)
(***************************************************************************)
EXTENDS MeteredData, SequenceTheorems, WellFoundedInduction, TLAPS

-----------------------------------------------------------------------------
(* Induction and recursion over the natural numbers *)

LEMMA SetInduction ==
  ASSUME NEW T, T \subseteq Nat, 0 \in T, \A n \in T : n + 1 \in T
  PROVE  T = Nat
<1> DEFINE R == OpToRel(<, Nat)
<1>1. IsWellFoundedOn(R, Nat)
  BY NatLessThanWellFounded
<1>2. \A i, j \in Nat : i < j => <<i, j>> \in R
  BY DEF OpToRel
<1> HIDE DEF R
<1> SUFFICES ASSUME Nat \ T # {} PROVE FALSE
  OBVIOUS
<1>3. PICK x \in Nat \ T : \A y \in Nat \ T : ~ (<<y, x>> \in R)
  <2> DEFINE U == Nat \ T
  <2>1. U \subseteq Nat /\ U # {}
    OBVIOUS
  <2> HIDE DEF U
  <2>2. \E x \in U : \A y \in U : ~ (<<y, x>> \in R)
    BY <1>1, <2>1, WFMin
  <2> QED
    BY <2>2 DEF U
<1>4. x # 0 /\ x - 1 \in Nat /\ x - 1 < x /\ (x - 1) + 1 = x
  BY <1>3
<1>5. <<x - 1, x>> \in R
  BY <1>2, <1>4
<1>6. x - 1 \in T
  BY <1>3, <1>4, <1>5
<1> QED
  BY <1>3, <1>4, <1>6

\* A function that starts with a and goes on as F says.
Follows(g, S, a, F) ==
    /\ g \in [Nat -> S]
    /\ g[0] = a
    /\ \A n \in Nat : g[n + 1] = F[<<n, g[n]>>]

\* There is such a function; so what a recursive definition says is true.
LEMMA Recursion ==
  ASSUME NEW S, NEW a \in S, NEW F, F \in [Nat \X S -> S]
  PROVE  \E g : Follows(g, S, a, F)
<1> DEFINE Good(n, h) == /\ h \in [0 .. n -> S] /\ h[0] = a
                         /\ \A i \in 0 .. n - 1 : h[i + 1] = F[<<i, h[i]>>]
           Known == {n \in Nat : \E h \in [0 .. n -> S] : Good(n, h)}
<1>1. Known = Nat
  <2>1. 0 \in Known
    <3>1. Good(0, [i \in 0 .. 0 |-> a])
      OBVIOUS
    <3> QED
      BY <3>1
  <2>2. ASSUME NEW n \in Known PROVE n + 1 \in Known
    <3>1. PICK h \in [0 .. n -> S] : Good(n, h)
      OBVIOUS
    <3> DEFINE h1 == [i \in 0 .. n + 1 |-> IF i = n + 1 THEN F[<<n, h[n]>>] ELSE h[i]]
    <3>2. h1 \in [0 .. n + 1 -> S]
      BY <3>1
    <3>3. h1[0] = a
      BY <3>1
    <3>4. ASSUME NEW i \in 0 .. n PROVE h1[i + 1] = F[<<i, h1[i]>>]
      <4>1. i \in Nat /\ i \in 0 .. n + 1 /\ i + 1 \in 0 .. n + 1 /\ i # n + 1
        OBVIOUS
      <4>2. h1[i] = h[i]
        BY <4>1
      <4>3. CASE i = n
        BY <4>1, <4>2, <4>3
      <4>4. CASE i # n
        <5>1. i \in 0 .. n - 1 /\ i + 1 # n + 1
          BY <4>4
        <5>2. h1[i + 1] = h[i + 1]
          BY <4>1, <5>1
        <5> QED
          BY <3>1, <4>2, <5>1, <5>2
      <4> QED
        BY <4>3, <4>4
    <3> HIDE DEF h1
    <3>5. Good(n + 1, h1)
      BY <3>2, <3>3, <3>4
    <3>6. n + 1 \in Nat
      OBVIOUS
    <3> QED
      BY <3>2, <3>5, <3>6
  <2> HIDE DEF Known
  <2> QED
    BY <2>1, <2>2, SetInduction DEF Known
<1>2. ASSUME NEW m \in Nat, NEW n \in Nat, m <= n, NEW h, NEW k, Good(m, h), Good(n, k)
      PROVE  h[m] = k[m]
  <2> DEFINE Same == {i \in Nat : i <= m => h[i] = k[i]}
  <2>1. 0 \in Same
    BY <1>2
  <2>2. ASSUME NEW i \in Same PROVE i + 1 \in Same
    <3> SUFFICES ASSUME i + 1 <= m PROVE h[i + 1] = k[i + 1]
      OBVIOUS
    <3>1. i \in 0 .. m - 1 /\ i \in 0 .. n - 1
      BY <1>2
    <3>2. h[i + 1] = F[<<i, h[i]>>] /\ k[i + 1] = F[<<i, k[i]>>]
      BY <1>2, <3>1
    <3>3. h[i] = k[i]
      BY <3>1
    <3> QED
      BY <3>2, <3>3
  <2> HIDE DEF Same
  <2>3. Same = Nat
    BY <2>1, <2>2, SetInduction DEF Same
  <2> QED
    BY <2>3 DEF Same
<1> DEFINE H == [n \in Nat |-> CHOOSE h \in [0 .. n -> S] : Good(n, h)]
           g == [n \in Nat |-> H[n][n]]
<1>3. ASSUME NEW n \in Nat PROVE Good(n, H[n])
  <2>1. \E h \in [0 .. n -> S] : Good(n, h)
    BY <1>1
  <2> QED
    BY <2>1
<1> HIDE DEF H
<1>4. g \in [Nat -> S]
  BY <1>3
<1>5. g[0] = a
  BY <1>3
<1>6. ASSUME NEW n \in Nat PROVE g[n + 1] = F[<<n, g[n]>>]
  <2>3. n \in 0 .. (n + 1) - 1 /\ n + 1 \in Nat /\ n <= n + 1
    OBVIOUS
  <2>2. Good(n, H[n]) /\ Good(n + 1, H[n + 1])
    BY <1>3, <2>3
  <2> HIDE DEF Good
  <2>1. H[n][n] = H[n + 1][n]
    BY <1>2, <2>2, <2>3
  <2> USE DEF Good
  <2>4. H[n + 1][n + 1] = F[<<n, H[n + 1][n]>>]
    BY <2>2, <2>3
  <2> QED
    BY <2>1, <2>3, <2>4
<1> HIDE DEF g
<1> QED
  BY <1>4, <1>5, <1>6 DEF Follows

-----------------------------------------------------------------------------
(* What is inside a value *)

\* The segments of a path: keys, items of arrays, and the name of a bare number.
Segment == STRING \cup {"[i]", "return"}

\* What ExtractSchema may reach among the values of V.
Reach(V) ==
    [value : V, path : Seq(Segment), at : Seq(Segment),
     via : SUBSET {"json", "dot", "lost", "array"}, depth : Nat]

\* A field of a value has a name, and its value is one of the others.
LEMMA Keys == ASSUME NEW V, Closed(V), NEW v \in V, Object(v), NEW f \in v.fields
  PROVE /\ f.value \in V
        /\ f.key \in Seq(Segment) /\ f.key # <<>>
        /\ f.embedded => Object(f.value)
<1>1. f.value \in V /\ f.key \in Seq(STRING) \ {<<>>} /\ (f.embedded => f.value.t = "struct")
  BY Zenon DEF Closed
<1>2. f.key \in Seq(Segment)
  BY <1>1 DEF Segment
<1> QED
  BY <1>1, <1>2 DEF Object

\* What may be embedded, among the values of V.
Nested(V) == {w \in [value : V, names : Seq(Segment)] : Object(w.value)}

LEMMA EmbeddedInNested ==
  ASSUME NEW V, Closed(V), NEW w \in Nested(V)
  PROVE  EmbeddedIn(w) \subseteq Nested(V)
<1> SUFFICES ASSUME NEW f \in w.value.fields, f.embedded
             PROVE  [value |-> f.value, names |-> w.names \o f.key] \in Nested(V)
  BY DEF EmbeddedIn
<1>1. w.value \in V /\ Object(w.value) /\ w.names \in Seq(Segment)
  BY DEF Nested
<1>2. f.value \in V /\ f.key \in Seq(Segment) /\ Object(f.value)
  BY <1>1, Keys
<1>3. w.names \o f.key \in Seq(Segment)
  BY <1>1, <1>2
<1> QED
  BY <1>2, <1>3 DEF Nested

\* The equations of Embedding, Inside and Walk; they hold as there is a function
\* that satisfies them.
LEMMA EmbeddingEq ==
  ASSUME NEW V, Closed(V), NEW v \in V, Object(v)
  PROVE  /\ Embedding(v)[0] = {[value |-> v, names |-> <<>>]}
         /\ \A d \in Nat : Embedding(v)[d + 1] = UNION {EmbeddedIn(w) : w \in Embedding(v)[d]}
<1> DEFINE S == SUBSET Nested(V)
           a == {[value |-> v, names |-> <<>>]}
           F == [x \in Nat \X S |-> UNION {EmbeddedIn(w) : w \in x[2]}]
           E(g) == g = [d \in Nat |-> IF d = 0 THEN a ELSE UNION {EmbeddedIn(w) : w \in g[d - 1]}]
<1>1. a \in S
  BY DEF Nested
<1>2. F \in [Nat \X S -> S]
  <2> SUFFICES ASSUME NEW x \in Nat \X S PROVE UNION {EmbeddedIn(w) : w \in x[2]} \in S
    OBVIOUS
  <2>1. \A w \in x[2] : EmbeddedIn(w) \subseteq Nested(V)
    BY EmbeddedInNested
  <2> QED
    BY <2>1
<1>3. \A n \in Nat, X \in S : F[<<n, X>>] = UNION {EmbeddedIn(w) : w \in X}
  OBVIOUS
<1> HIDE DEF F, a, S
<1>4. PICK g : Follows(g, S, a, F)
  BY <1>1, <1>2, Recursion
<1>5. \A n \in Nat : g[n + 1] = UNION {EmbeddedIn(w) : w \in g[n]}
  BY <1>3, <1>4 DEF Follows
<1>6. E(g)
  <2>1. ASSUME NEW d \in Nat, d # 0 PROVE g[d] = UNION {EmbeddedIn(w) : w \in g[d - 1]}
    <3>1. d - 1 \in Nat /\ (d - 1) + 1 = d
      BY <2>1
    <3> QED
      BY <1>5, <3>1
  <2> QED
    BY <1>4, <2>1 DEF Follows
<1>7. Embedding(v) = CHOOSE g1 : E(g1)
  BY DEF Embedding, a
<1>8. E(Embedding(v))
  <2> HIDE DEF E
  <2> QED
    BY <1>6, <1>7
<1>9. ASSUME NEW d \in Nat
      PROVE Embedding(v)[d + 1] = UNION {EmbeddedIn(w) : w \in Embedding(v)[d]}
  <2>1. d + 1 \in Nat /\ d + 1 # 0 /\ (d + 1) - 1 = d
    OBVIOUS
  <2> QED
    BY <1>8, <2>1
<1>10. Embedding(v)[0] = a
  BY <1>8
<1> QED
  BY <1>9, <1>10 DEF a

LEMMA EmbeddingTypes ==
  ASSUME NEW V, Closed(V), NEW v \in V, Object(v), NEW d \in Nat
  PROVE  Embedding(v)[d] \subseteq Nested(V)
<1> DEFINE T == {n \in Nat : Embedding(v)[n] \subseteq Nested(V)}
<1>1. 0 \in T
  <2>1. [value |-> v, names |-> <<>>] \in Nested(V)
    BY DEF Nested
  <2> QED
    BY <2>1, EmbeddingEq
<1>2. ASSUME NEW n \in T PROVE n + 1 \in T
  <2>1. Embedding(v)[n + 1] = UNION {EmbeddedIn(w) : w \in Embedding(v)[n]}
    BY EmbeddingEq
  <2>2. \A w \in Embedding(v)[n] : EmbeddedIn(w) \subseteq Nested(V)
    BY EmbeddedInNested
  <2> QED
    BY <2>1, <2>2
<1> HIDE DEF T
<1>3. T = Nat
  BY <1>1, <1>2, SetInduction DEF T
<1> QED
  BY <1>3 DEF T

\* The fields of an object with those embedded in it.
LEMMA FieldTypes ==
  ASSUME NEW V, Closed(V), NEW v \in V, Object(v), NEW a \in AllFields(v)
  PROVE  /\ a.names \in Seq(Segment)
         /\ a.field.value \in V
         /\ a.field.key \in Seq(Segment) /\ a.field.key # <<>>
<1>1. PICK w \in Embedded(v) :
        \E f \in {g \in w.value.fields : ~g.embedded} : a = [names |-> w.names, field |-> f]
  BY DEF AllFields
<1>2. PICK f \in w.value.fields : a = [names |-> w.names, field |-> f]
  BY <1>1
<1>3. PICK d \in Nat : w \in Embedding(v)[d]
  BY DEF Embedded, SchemaMaxDepth
<1>4. w \in Nested(V)
  BY <1>3, EmbeddingTypes
<1>5. w.value \in V /\ Object(w.value) /\ w.names \in Seq(Segment)
  BY <1>4 DEF Nested
<1>6. f.value \in V /\ f.key \in Seq(Segment) /\ f.key # <<>>
  BY <1>5, Keys
<1>7. a.names = w.names /\ a.field = f
  BY <1>2
<1> QED
  BY <1>5, <1>6, <1>7

LEMMA IndexedPath == ASSUME NEW path \in Seq(Segment) PROVE Indexed(path) \in Seq(Segment)
<1>1. "[i]" \in Segment
  BY DEF Segment
<1> HIDE DEF Segment
<1>2. CASE path = <<>>
  BY <1>1, <1>2 DEF Indexed
<1>3. CASE path # <<>>
  <2>1. Len(path) \in 1 .. Len(path)
    BY <1>3
  <2> QED
    BY <1>1, <1>3, <2>1, ExceptSeq DEF Indexed
<1> QED
  BY <1>2, <1>3

LEMMA ViaTypes ==
  ASSUME NEW v, NEW a
  PROVE  Via(v, a) \subseteq {"json", "dot", "lost"}
BY DEF Via, Through

\* What is directly below what was reached is reached.
LEMMA BelowTypes ==
  ASSUME NEW V, Closed(V), NEW x \in Reach(V)
  PROVE  Below(x) \subseteq Reach(V)
<1>0. /\ x.value \in V /\ x.path \in Seq(Segment) /\ x.at \in Seq(Segment)
      /\ x.via \subseteq {"json", "dot", "lost", "array"} /\ x.depth \in Nat
  BY DEF Reach
<1>1. ASSUME Object(x.value), NEW a \in AllFields(x.value)
      PROVE  [value |-> a.field.value,
              path  |-> x.path \o a.names \o a.field.key,
              at    |-> x.at \o a.field.key,
              via   |-> x.via \cup Via(x.value, a),
              depth |-> x.depth + Len(a.names) + 1] \in Reach(V)
  <2>1. /\ a.names \in Seq(Segment) /\ a.field.value \in V
        /\ a.field.key \in Seq(Segment)
    BY <1>0, <1>1, FieldTypes
  <2>2. x.path \o a.names \o a.field.key \in Seq(Segment)
    BY <1>0, <2>1
  <2>3. x.at \o a.field.key \in Seq(Segment)
    BY <1>0, <2>1
  <2>4. x.via \cup Via(x.value, a) \in SUBSET {"json", "dot", "lost", "array"}
    BY <1>0, ViaTypes
  <2>5. x.depth + Len(a.names) + 1 \in Nat
    BY <1>0, <2>1, LenProperties
  <2> QED
    BY <2>1, <2>2, <2>3, <2>4, <2>5 DEF Reach
<1>2. ASSUME x.value.t = "array", NEW i \in DOMAIN x.value.items
      PROVE  [value |-> x.value.items[i], path |-> Indexed(x.path), at |-> x.at,
              via |-> x.via \cup {"array"}, depth |-> x.depth + 1] \in Reach(V)
  <2>1. x.value.items[i] \in V
    BY <1>0, <1>2 DEF Closed
  <2>2. Indexed(x.path) \in Seq(Segment)
    BY <1>0, IndexedPath
  <2>3. x.via \cup {"array"} \in SUBSET {"json", "dot", "lost", "array"}
    BY <1>0
  <2>4. x.depth + 1 \in Nat
    BY <1>0
  <2> QED
    BY <1>0, <2>1, <2>2, <2>3, <2>4 DEF Reach
<1> QED
  BY <1>1, <1>2 DEF Below

Root(v) == [value |-> v, path |-> <<>>, at |-> <<>>, via |-> {}, depth |-> 0]

LEMMA InsideEq ==
  ASSUME NEW V, Closed(V), NEW v \in V
  PROVE  /\ Inside(v)[0] = {Root(v)}
         /\ \A d \in Nat : Inside(v)[d + 1] = UNION {Below(x) : x \in Inside(v)[d]}
<1> DEFINE S == SUBSET Reach(V)
           a == {Root(v)}
           F == [y \in Nat \X S |-> UNION {Below(x) : x \in y[2]}]
           E(g) == g = [d \in Nat |-> IF d = 0 THEN a ELSE UNION {Below(x) : x \in g[d - 1]}]
<1>1. a \in S
  BY DEF Reach, Root
<1>2. F \in [Nat \X S -> S]
  <2> SUFFICES ASSUME NEW y \in Nat \X S PROVE UNION {Below(x) : x \in y[2]} \in S
    OBVIOUS
  <2>1. \A x \in y[2] : Below(x) \subseteq Reach(V)
    BY BelowTypes
  <2> QED
    BY <2>1
<1>3. \A n \in Nat, X \in S : F[<<n, X>>] = UNION {Below(x) : x \in X}
  OBVIOUS
<1> HIDE DEF F, a, S
<1>4. PICK g : Follows(g, S, a, F)
  BY <1>1, <1>2, Recursion
<1>5. \A n \in Nat : g[n + 1] = UNION {Below(x) : x \in g[n]}
  BY <1>3, <1>4 DEF Follows
<1>6. E(g)
  <2>1. ASSUME NEW d \in Nat, d # 0 PROVE g[d] = UNION {Below(x) : x \in g[d - 1]}
    <3>1. d - 1 \in Nat /\ (d - 1) + 1 = d
      BY <2>1
    <3> QED
      BY <1>5, <3>1
  <2> QED
    BY <1>4, <2>1 DEF Follows
<1>7. Inside(v) = CHOOSE g1 : E(g1)
  BY DEF Inside, a, Root
<1>8. E(Inside(v))
  <2> HIDE DEF E
  <2> QED
    BY <1>6, <1>7
<1>9. ASSUME NEW d \in Nat PROVE Inside(v)[d + 1] = UNION {Below(x) : x \in Inside(v)[d]}
  <2>1. d + 1 \in Nat /\ d + 1 # 0 /\ (d + 1) - 1 = d
    OBVIOUS
  <2> QED
    BY <1>8, <2>1
<1>10. Inside(v)[0] = a
  BY <1>8
<1> QED
  BY <1>9, <1>10 DEF a

LEMMA InsideTypes ==
  ASSUME NEW V, Closed(V), NEW v \in V, NEW d \in Nat
  PROVE  Inside(v)[d] \subseteq Reach(V)
<1> DEFINE T == {n \in Nat : Inside(v)[n] \subseteq Reach(V)}
<1>1. 0 \in T
  <2>1. Root(v) \in Reach(V)
    BY DEF Reach, Root
  <2> QED
    BY <2>1, InsideEq
<1>2. ASSUME NEW n \in T PROVE n + 1 \in T
  <2>1. Inside(v)[n + 1] = UNION {Below(x) : x \in Inside(v)[n]}
    BY InsideEq
  <2>2. \A x \in Inside(v)[n] : Below(x) \subseteq Reach(V)
    BY BelowTypes
  <2> QED
    BY <2>1, <2>2
<1> HIDE DEF T
<1>3. T = Nat
  BY <1>1, <1>2, SetInduction DEF T
<1> QED
  BY <1>3 DEF T

-----------------------------------------------------------------------------
(* The walk *)

\* What the walk may get to among the values of V.
Passed(V) == [value : V, via : SUBSET {"json"}]
Start(v) == [value |-> v, via |-> {}]

LEMMA StepTypes ==
  ASSUME NEW V, Closed(V), NEW w \in Passed(V), NEW part
  PROVE  Step(w, part) \subseteq Passed(V)
<1> SUFFICES ASSUME NEW f \in Fields(w.value)
             PROVE  [value |-> f.value, via |-> w.via \cup Through(w.value)] \in Passed(V)
  BY DEF Step
<1>0. w.value \in V /\ w.via \cup Through(w.value) \subseteq {"json"}
  BY DEF Passed, Through
<1>1. Object(w.value)
  BY DEF Fields
<1>2. PICK a \in AllFields(w.value) : f = a.field
  BY <1>1 DEF Fields
<1>3. f.value \in V
  BY <1>0, <1>1, <1>2, FieldTypes
<1> QED
  BY <1>0, <1>3 DEF Passed

LEMMA WalkEq ==
  ASSUME NEW V, Closed(V), NEW v \in V, NEW p
  PROVE  /\ Walk(v, p)[0] = {Start(v)}
         /\ \A k \in Nat : Walk(v, p)[k + 1] = UNION {Step(w, p[k + 1]) : w \in Walk(v, p)[k]}
<1> DEFINE S == SUBSET Passed(V)
           a == {Start(v)}
           F == [y \in Nat \X S |-> UNION {Step(w, p[y[1] + 1]) : w \in y[2]}]
           E(g) == g = [k \in Nat |-> IF k = 0 THEN a ELSE UNION {Step(w, p[k]) : w \in g[k - 1]}]
<1>1. a \in S
  BY DEF Passed, Start
<1>2. F \in [Nat \X S -> S]
  <2> SUFFICES ASSUME NEW y \in Nat \X S
               PROVE  UNION {Step(w, p[y[1] + 1]) : w \in y[2]} \in S
    OBVIOUS
  <2>1. \A w \in y[2] : Step(w, p[y[1] + 1]) \subseteq Passed(V)
    BY StepTypes
  <2> QED
    BY <2>1
<1>3. \A n \in Nat, X \in S : F[<<n, X>>] = UNION {Step(w, p[n + 1]) : w \in X}
  OBVIOUS
<1> HIDE DEF F, a, S
<1>4. PICK g : Follows(g, S, a, F)
  BY <1>1, <1>2, Recursion
<1>5. \A n \in Nat : g[n + 1] = UNION {Step(w, p[n + 1]) : w \in g[n]}
  BY <1>3, <1>4 DEF Follows
<1>6. E(g)
  <2>1. ASSUME NEW k \in Nat, k # 0 PROVE g[k] = UNION {Step(w, p[k]) : w \in g[k - 1]}
    <3>1. k - 1 \in Nat /\ (k - 1) + 1 = k
      BY <2>1
    <3> QED
      BY <1>5, <3>1
  <2> QED
    BY <1>4, <2>1 DEF Follows
<1>7. Walk(v, p) = CHOOSE g1 : E(g1)
  BY DEF Walk, a, Start
<1>8. E(Walk(v, p))
  <2> HIDE DEF E
  <2> QED
    BY <1>6, <1>7
<1>9. ASSUME NEW k \in Nat
      PROVE  Walk(v, p)[k + 1] = UNION {Step(w, p[k + 1]) : w \in Walk(v, p)[k]}
  <2>1. k + 1 \in Nat /\ k + 1 # 0 /\ (k + 1) - 1 = k
    OBVIOUS
  <2> QED
    BY <1>8, <2>1
<1>10. Walk(v, p)[0] = a
  BY <1>8
<1> QED
  BY <1>9, <1>10 DEF a

\* Nothing on the way keeps the walk from there.
Clear(x) == x.via \cap {"array", "dot", "lost"} = {}

\* The value of the field a, reached from x.
Leads(x, a, y) ==
    /\ y.value = a.field.value
    /\ y.at = x.at \o a.field.key
    /\ y.via \cap {"json"} = (x.via \cap {"json"}) \cup Through(x.value)

\* What is clear is a field of an object that is clear, and the other way round.
LEMMA ClearField ==
  ASSUME NEW V, Closed(V), NEW x \in Reach(V), NEW y \in Below(x), Clear(y)
  PROVE  /\ Object(x.value) /\ Clear(x)
         /\ \E a \in AllFields(x.value) :
              ~Lost(x.value, a) /\ Len(a.field.key) = 1 /\ Leads(x, a, y)
<1>0. x.value \in V
  BY DEF Reach
<1>1. Object(x.value)
  <2> SUFFICES ASSUME ~Object(x.value) PROVE FALSE
    OBVIOUS
  <2>1. y.via = x.via \cup {"array"}
    BY DEF Below
  <2> QED
    BY <2>1 DEF Clear
<1>2. PICK a \in AllFields(x.value) :
        y = [value |-> a.field.value,
             path  |-> x.path \o a.names \o a.field.key,
             at    |-> x.at \o a.field.key,
             via   |-> x.via \cup Via(x.value, a),
             depth |-> x.depth + Len(a.names) + 1]
  BY <1>1 DEF Below
<1>3. y.value = a.field.value /\ y.at = x.at \o a.field.key /\ y.via = x.via \cup Via(x.value, a)
  BY <1>2
<1>4. Clear(x) /\ "dot" \notin Via(x.value, a) /\ "lost" \notin Via(x.value, a)
  BY <1>3 DEF Clear
<1>5. ~Lost(x.value, a)
  BY <1>4 DEF Via
<1>6. Len(a.field.key) = 1
  <2>1. ~(Len(a.field.key) > 1)
    BY <1>4 DEF Via
  <2>2. a.field.key \in Seq(Segment) /\ a.field.key # <<>>
    BY <1>0, <1>1, FieldTypes
  <2> DEFINE n == Len(a.field.key)
  <2>3. n \in Nat /\ n # 0 /\ ~(n > 1)
    BY <2>1, <2>2, EmptySeq, LenProperties
  <2> HIDE DEF n
  <2>4. n = 1
    BY <2>3
  <2> QED
    BY <2>4 DEF n
<1>7. Via(x.value, a) = Through(x.value) /\ Through(x.value) \subseteq {"json"}
  BY <1>5, <1>6 DEF Via, Through
<1>8. Leads(x, a, y)
  BY <1>3, <1>7 DEF Leads
<1> QED
  BY <1>1, <1>4, <1>5, <1>6, <1>8

LEMMA FieldClear ==
  ASSUME NEW x, Object(x.value), Clear(x),
         NEW a \in AllFields(x.value), ~Lost(x.value, a), Len(a.field.key) = 1
  PROVE  \E y \in Below(x) : Clear(y) /\ Leads(x, a, y)
<1> DEFINE y == [value |-> a.field.value,
                 path  |-> x.path \o a.names \o a.field.key,
                 at    |-> x.at \o a.field.key,
                 via   |-> x.via \cup Via(x.value, a),
                 depth |-> x.depth + Len(a.names) + 1]
<1>1. y \in Below(x)
  BY DEF Below
<1>2. y.value = a.field.value /\ y.at = x.at \o a.field.key /\ y.via = x.via \cup Via(x.value, a)
  OBVIOUS
<1> HIDE DEF y
<1>3. Via(x.value, a) = Through(x.value) /\ Through(x.value) \subseteq {"json"}
  BY DEF Via, Through
<1>4. Clear(y)
  BY <1>2, <1>3 DEF Clear
<1>5. Leads(x, a, y)
  BY <1>2, <1>3 DEF Leads
<1> QED
  BY <1>1, <1>4, <1>5

\* Each step to what is clear is one key of its path in JSON.
LEMMA ClearLength ==
  ASSUME NEW V, Closed(V), NEW v \in V, NEW d \in Nat, NEW x \in Inside(v)[d], Clear(x)
  PROVE  Len(x.at) = d
<1> DEFINE T == {n \in Nat : \A y \in Inside(v)[n] : Clear(y) => Len(y.at) = n}
<1>1. 0 \in T
  <2>1. Len(Root(v).at) = 0
    BY DEF Root
  <2> QED
    BY <2>1, InsideEq
<1>2. ASSUME NEW n \in T PROVE n + 1 \in T
  <2> SUFFICES ASSUME NEW y \in Inside(v)[n + 1], Clear(y) PROVE Len(y.at) = n + 1
    OBVIOUS
  <2>0. n \in Nat /\ Inside(v)[n + 1] = UNION {Below(w) : w \in Inside(v)[n]}
    BY InsideEq
  <2>1. PICK w \in Inside(v)[n] : y \in Below(w)
    BY <2>0
  <2>2. w \in Reach(V)
    BY InsideTypes
  <2>3. PICK a \in AllFields(w.value) : Len(a.field.key) = 1 /\ Leads(w, a, y)
    BY <2>1, <2>2, ClearField
  <2>4. Object(w.value) /\ Clear(w)
    BY <2>1, <2>2, ClearField
  <2>5. w.value \in V /\ w.at \in Seq(Segment)
    BY <2>2 DEF Reach
  <2>6. a.field.key \in Seq(Segment)
    BY <2>4, <2>5, FieldTypes
  <2>7. Len(w.at) = n
    BY <2>4
  <2>8. Len(y.at) = Len(w.at) + Len(a.field.key)
    <3>1. Len(w.at \o a.field.key) = Len(w.at) + Len(a.field.key)
      BY <2>5, <2>6, ConcatProperties
    <3> QED
      BY <2>3, <3>1 DEF Leads
  <2> QED
    BY <2>3, <2>7, <2>8
<1> HIDE DEF T
<1>3. T = Nat
  BY <1>1, <1>2, SetInduction DEF T
<1> QED
  BY <1>3 DEF T

\* What is reached on the first k steps of p, and the walk gets to.
OnPath(x, p, k) == Clear(x) /\ Len(x.at) = k /\ \A i \in 1 .. k : x.at[i] = p[i]
Met(x) == [value |-> x.value, via |-> x.via \cap {"json"}]

\* One more step of the walk is one more level of what is inside.
LEMMA LeadsOn ==
  ASSUME NEW at \in Seq(Segment), NEW key \in Seq(Segment), Len(key) = 1,
         NEW k \in Nat, NEW p
  PROVE  /\ Len(at \o key) = k + 1 <=> Len(at) = k
         /\ Len(at) = k =>
              ((\A i \in 1 .. k + 1 : (at \o key)[i] = p[i])
                 <=> ((\A i \in 1 .. k : at[i] = p[i]) /\ key = <<p[k + 1]>>))
<1>0. Len(at \o key) = Len(at) + Len(key)
  BY ConcatProperties
<1>1. Len(at) \in Nat /\ Len(at \o key) = Len(at) + 1
  BY <1>0, LenProperties
<1>2. ASSUME Len(at) = k
      PROVE  /\ \A i \in 1 .. k : (at \o key)[i] = at[i]
             /\ (at \o key)[k + 1] = key[1]
  <2>1. \A i \in 1 .. Len(at) + Len(key) :
          (at \o key)[i] = IF i <= Len(at) THEN at[i] ELSE key[i - Len(at)]
    BY ConcatProperties
  <2>2. ASSUME NEW i \in 1 .. k PROVE (at \o key)[i] = at[i]
    BY <1>2, <2>1, <2>2
  <2>3. k + 1 \in 1 .. Len(at) + Len(key) /\ ~(k + 1 <= Len(at)) /\ (k + 1) - Len(at) = 1
    BY <1>2
  <2>4. (at \o key)[k + 1] = key[1]
    BY <2>1, <2>3
  <2> QED
    BY <2>2, <2>4
<1>3. \A e : key = <<e>> <=> key[1] = e
  <2>1. key = <<key[1]>>
    <3>1. key \in [1 .. 1 -> Segment]
      BY LenProperties
    <3> QED
      BY <3>1
  <2> QED
    BY <2>1
<1>4. \A i : i \in 1 .. k + 1 <=> i \in 1 .. k \/ i = k + 1
  OBVIOUS
<1>5. ASSUME Len(at) = k
      PROVE (\A i \in 1 .. k + 1 : (at \o key)[i] = p[i])
               <=> ((\A i \in 1 .. k : at[i] = p[i]) /\ key = <<p[k + 1]>>)
  <2>1. (\A i \in 1 .. k + 1 : (at \o key)[i] = p[i])
          <=> ((\A i \in 1 .. k : (at \o key)[i] = p[i]) /\ (at \o key)[k + 1] = p[k + 1])
    BY <1>4
  <2> QED
    BY <1>2, <1>3, <1>5, <2>1
<1>6. Len(at \o key) = k + 1 <=> Len(at) = k
  BY <1>1
<1> QED
  BY <1>5, <1>6

LEMMA StepOnPath ==
  ASSUME NEW V, Closed(V), NEW x \in Reach(V), NEW p, NEW k \in Nat,
         NEW y \in Below(x), OnPath(y, p, k + 1)
  PROVE  OnPath(x, p, k) /\ Met(y) \in Step(Met(x), p[k + 1])
<1>0. Clear(y) /\ Len(y.at) = k + 1 /\ \A i \in 1 .. k + 1 : y.at[i] = p[i]
  BY DEF OnPath
<1>1. Object(x.value) /\ Clear(x)
  BY <1>0, ClearField
<1>2. PICK a \in AllFields(x.value) :
        ~Lost(x.value, a) /\ Len(a.field.key) = 1 /\ Leads(x, a, y)
  BY <1>0, ClearField
<1>3. x.value \in V /\ x.at \in Seq(Segment) /\ a.field.key \in Seq(Segment)
  <2>1. x.value \in V /\ x.at \in Seq(Segment)
    BY DEF Reach
  <2> QED
    BY <1>1, <2>1, FieldTypes
<1>4. y.at = x.at \o a.field.key
  BY <1>2 DEF Leads
<1>5. Len(x.at) = k
  <2> DEFINE at == x.at
             key == a.field.key
  <2>1. at \in Seq(Segment) /\ key \in Seq(Segment) /\ Len(key) = 1
    BY <1>2, <1>3
  <2>2. Len(at \o key) = k + 1
    BY <1>0, <1>4
  <2> HIDE DEF at, key
  <2>3. Len(at) = k
    BY <2>1, <2>2, LeadsOn
  <2> QED
    BY <2>3 DEF at
<1>6. (\A i \in 1 .. k : x.at[i] = p[i]) /\ a.field.key = <<p[k + 1]>>
  <2> DEFINE at == x.at
             key == a.field.key
  <2>1. at \in Seq(Segment) /\ key \in Seq(Segment) /\ Len(key) = 1 /\ Len(at) = k
    BY <1>2, <1>3, <1>5
  <2>2. \A i \in 1 .. k + 1 : (at \o key)[i] = p[i]
    BY <1>0, <1>4
  <2> HIDE DEF at, key
  <2>3. (\A i \in 1 .. k : at[i] = p[i]) /\ key = <<p[k + 1]>>
    BY <2>1, <2>2, LeadsOn
  <2> QED
    BY <2>3 DEF at, key
<1>7. OnPath(x, p, k)
  BY <1>1, <1>5, <1>6 DEF OnPath
<1>8. a.field \in Fields(x.value)
  BY <1>1, <1>2 DEF Fields
<1>9. Met(y) = [value |-> a.field.value, via |-> Met(x).via \cup Through(Met(x).value)]
  BY <1>2 DEF Met, Leads
<1>10. Met(x).value = x.value
  BY DEF Met
<1>11. Met(y) \in Step(Met(x), p[k + 1])
  BY <1>6, <1>8, <1>9, <1>10 DEF Step
<1> QED
  BY <1>7, <1>11

LEMMA PathOnStep ==
  ASSUME NEW V, Closed(V), NEW x \in Reach(V), NEW p, NEW k \in Nat, OnPath(x, p, k),
         NEW e \in Step(Met(x), p[k + 1])
  PROVE  \E y \in Below(x) : OnPath(y, p, k + 1) /\ e = Met(y)
<1>0. Met(x).value = x.value /\ Met(x).via = x.via \cap {"json"}
  BY DEF Met
<1>1. PICK f \in Fields(x.value) :
        /\ f.key = <<p[k + 1]>>
        /\ e = [value |-> f.value, via |-> (x.via \cap {"json"}) \cup Through(x.value)]
  BY <1>0 DEF Step
<1>2. Object(x.value)
  BY DEF Fields
<1>3. PICK a \in AllFields(x.value) : ~Lost(x.value, a) /\ a.field = f
  BY <1>2 DEF Fields
<1>4. Len(a.field.key) = 1
  <2>1. \A part : Len(<<part>>) = 1
    OBVIOUS
  <2>2. a.field.key = <<p[k + 1]>>
    BY <1>1, <1>3
  <2> QED
    BY <2>1, <2>2, Zenon
<1>5. PICK y \in Below(x) : Clear(y) /\ Leads(x, a, y)
  BY <1>2, <1>3, <1>4, FieldClear DEF OnPath
<1>6. x.value \in V /\ x.at \in Seq(Segment) /\ a.field.key \in Seq(Segment)
  <2>1. x.value \in V /\ x.at \in Seq(Segment)
    BY DEF Reach
  <2> QED
    BY <1>2, <2>1, FieldTypes
<1>7. Len(x.at) = k /\ (\A i \in 1 .. k : x.at[i] = p[i]) /\ a.field.key = <<p[k + 1]>>
  BY <1>1, <1>3 DEF OnPath
<1>8. y.at = x.at \o a.field.key
  BY <1>5 DEF Leads
<1>9. Len(y.at) = k + 1 /\ \A i \in 1 .. k + 1 : y.at[i] = p[i]
  BY <1>4, <1>6, <1>7, <1>8, LeadsOn
<1>10. OnPath(y, p, k + 1)
  BY <1>5, <1>9 DEF OnPath
<1>11. e = Met(y)
  BY <1>1, <1>3, <1>5 DEF Met, Leads
<1> QED
  BY <1>10, <1>11

(* The walk of getValueByPath gets where the schema of ExtractSchema       *)
(* leads, as many steps from the top, but for arrays, keys with a dot,     *)
(* fields JSON leaves out and structs that have no JSON of their fields,   *)
(* for an error of json.Marshal or a MarshalJSON.                          *)
THEOREM WalkMeetsSchema ==
  ASSUME NEW V, Closed(V), NEW v \in V, NEW p, NEW k \in Nat
  PROVE  Walk(v, p)[k] = {Met(x) : x \in {y \in Inside(v)[k] : OnPath(y, p, k)}}
<1> DEFINE Good(n) == {y \in Inside(v)[n] : OnPath(y, p, n)}
           T == {n \in Nat : Walk(v, p)[n] = {Met(x) : x \in Good(n)}}
<1>1. 0 \in T
  <2>1. Root(v).via = {} /\ Len(Root(v).at) = 0 /\ Root(v).value = v
    BY DEF Root
  <2>2. OnPath(Root(v), p, 0)
    BY <2>1 DEF OnPath, Clear
  <2>3. Met(Root(v)) = Start(v)
    BY <2>1 DEF Met, Start
  <2>4. Good(0) = {Root(v)}
    BY <2>2, InsideEq
  <2> QED
    BY <2>3, <2>4, WalkEq
<1>2. ASSUME NEW n \in T PROVE n + 1 \in T
  <2>1. n \in Nat /\ Walk(v, p)[n] = {Met(x) : x \in Good(n)}
    OBVIOUS
  <2>2. Walk(v, p)[n + 1] = UNION {Step(w, p[n + 1]) : w \in Walk(v, p)[n]}
    BY <2>1, WalkEq
  <2>3. Inside(v)[n + 1] = UNION {Below(x) : x \in Inside(v)[n]}
    BY <2>1, InsideEq
  <2>4. Inside(v)[n] \subseteq Reach(V)
    BY <2>1, InsideTypes
  <2>5. ASSUME NEW e \in Walk(v, p)[n + 1] PROVE e \in {Met(x) : x \in Good(n + 1)}
    <3>1. PICK x \in Good(n) : e \in Step(Met(x), p[n + 1])
      BY <2>1, <2>2
    <3>2. x \in Reach(V) /\ OnPath(x, p, n)
      BY <2>4
    <3>3. \E y \in Below(x) : OnPath(y, p, n + 1) /\ e = Met(y)
      BY <2>1, <3>1, <3>2, PathOnStep
    <3>4. PICK y \in Below(x) : OnPath(y, p, n + 1) /\ e = Met(y)
      BY <3>3
    <3> QED
      BY <2>3, <3>1, <3>4
  <2>6. ASSUME NEW y \in Good(n + 1) PROVE Met(y) \in Walk(v, p)[n + 1]
    <3>1. PICK x \in Inside(v)[n] : y \in Below(x)
      BY <2>3
    <3>2. OnPath(x, p, n) /\ Met(y) \in Step(Met(x), p[n + 1])
      BY <2>1, <2>4, <3>1, StepOnPath
    <3> QED
      BY <2>1, <2>2, <3>1, <3>2
  <2>7. Walk(v, p)[n + 1] = {Met(x) : x \in Good(n + 1)}
    BY <2>5, <2>6
  <2> QED
    BY <2>1, <2>7
<1> HIDE DEF T
<1>3. T = Nat
  BY <1>1, <1>2, SetInduction DEF T
<1> QED
  BY <1>3 DEF T

\* The numbers there are at a path, as far as the walk gets to them.
Payable(v, p) ==
    {m \in Numbers(v, Len(p)) :
       /\ m.at = p /\ Clear(m)
       /\ IF "json" \in m.via THEN m.value.json = "same" ELSE m.value.known}

\* The numbers at a path are as many steps away as it has segments.
LEMMA NumbersOnPath ==
  ASSUME NEW V, Closed(V), NEW v \in V, v.t # "num", NEW p \in Seq(Segment), p # <<>>
  PROVE  {m \in Numbers(v, Len(p)) : m.at = p /\ Clear(m)}
           = {y \in Inside(v)[Len(p)] : OnPath(y, p, Len(p)) /\ y.value.t = "num"}
<1> DEFINE L == Len(p)
<1>0. L \in Nat /\ L # 0 /\ L - 1 \in Nat /\ (L - 1) + 1 = L /\ L - 1 \in 0 .. L
  <2>1. L \in Nat /\ L # 0
    BY EmptySeq, LenProperties
  <2> HIDE DEF L
  <2> QED
    BY <2>1
<1>1. Numbers(v, L) = {l \in UNION {Below(x) : x \in {y \in UNION {Inside(v)[d] : d \in 0 .. L} :
                                                       Object(y.value)}} : l.value.t = "num"}
  BY DEF Numbers
<1>2. ASSUME NEW m \in Numbers(v, L), m.at = p, Clear(m)
      PROVE  m \in Inside(v)[L] /\ OnPath(m, p, L) /\ m.value.t = "num"
  <2>1. m.value.t = "num"
    BY <1>1
  <2>2. PICK d \in 0 .. L : \E x \in Inside(v)[d] : m \in Below(x)
    BY <1>1
  <2>x. PICK x \in Inside(v)[d] : m \in Below(x)
    BY <2>2
  <2>3. d \in Nat /\ d + 1 \in Nat
    BY <1>0
  <2>4. m \in Inside(v)[d + 1]
    <3>1. Inside(v)[d + 1] = UNION {Below(z) : z \in Inside(v)[d]}
      BY <2>3, InsideEq
    <3> QED
      BY <2>x, <3>1
  <2>5. Len(m.at) = d + 1
    BY <1>2, <2>3, <2>4, ClearLength
  <2>6. d + 1 = L
    BY <1>2, <2>5
  <2>7. OnPath(m, p, L)
    BY <1>2 DEF OnPath
  <2> QED
    BY <2>1, <2>4, <2>6, <2>7
<1>3. ASSUME NEW y \in Inside(v)[L], OnPath(y, p, L), y.value.t = "num"
      PROVE  y \in Numbers(v, L) /\ y.at = p /\ Clear(y)
  <2>1. Inside(v)[L] = UNION {Below(z) : z \in Inside(v)[L - 1]}
    <3>1. \A d \in Nat : Inside(v)[d + 1] = UNION {Below(z) : z \in Inside(v)[d]}
      BY InsideEq
    <3> QED
      BY <1>0, <3>1
  <2>2. PICK x \in Inside(v)[L - 1] : y \in Below(x)
    BY <2>1
  <2>3. x \in Reach(V)
    BY <1>0, InsideTypes
  <2>4. Clear(y)
    BY <1>3 DEF OnPath
  <2>5. Object(x.value)
    BY <2>2, <2>3, <2>4, ClearField
  <2>6. y \in Numbers(v, L)
    BY <1>0, <1>1, <1>3, <2>2, <2>5
  <2>7. y.at \in Seq(Segment)
    <3>1. Inside(v)[L] \subseteq Reach(V)
      BY <1>0, InsideTypes
    <3> QED
      BY <3>1 DEF Reach
  <2>8. y.at = p
    <3>1. Len(y.at) = Len(p) /\ \A i \in 1 .. Len(p) : y.at[i] = p[i]
      BY <1>3 DEF OnPath
    <3> QED
      BY <2>7, <3>1, SeqEqual
  <2> QED
    BY <2>4, <2>6, <2>8
<1> HIDE DEF L
<1>4. {m \in Numbers(v, L) : m.at = p /\ Clear(m)}
        = {y \in Inside(v)[L] : OnPath(y, p, L) /\ y.value.t = "num"}
  BY <1>2, <1>3
<1> QED
  BY <1>4 DEF L

\* Below what is no object the walk finds nothing.
LEMMA WalkNowhere ==
  ASSUME NEW V, Closed(V), NEW v \in V, ~Object(v), NEW p, NEW k \in Nat, k # 0
  PROVE  Walk(v, p)[k] = {}
<1> DEFINE T == {n \in Nat : Walk(v, p)[n + 1] = {}}
<1>1. 0 \in T
  <2>1. Step(Start(v), p[0 + 1]) = {}
    BY DEF Step, Start, Fields
  <2>2. Walk(v, p)[0 + 1] = UNION {Step(w, p[0 + 1]) : w \in {Start(v)}}
    BY WalkEq
  <2> QED
    BY <2>1, <2>2
<1>2. ASSUME NEW n \in T PROVE n + 1 \in T
  <2>1. n + 1 \in Nat /\ Walk(v, p)[n + 1] = {}
    OBVIOUS
  <2>2. Walk(v, p)[(n + 1) + 1] = UNION {Step(w, p[(n + 1) + 1]) : w \in Walk(v, p)[n + 1]}
    BY <2>1, WalkEq
  <2> QED
    BY <2>1, <2>2
<1> HIDE DEF T
<1>3. T = Nat
  BY <1>1, <1>2, SetInduction DEF T
<1>4. k - 1 \in T /\ (k - 1) + 1 = k
  BY <1>3
<1> QED
  BY <1>4 DEF T

(* The amount is one of the numbers there are at the path, one unit if     *)
(* there is none: the walk misses none of them and finds no other.         *)
THEOREM AmountIsThere ==
  ASSUME NEW V, Closed(V), NEW v \in V, NEW p \in Seq(Segment)
  PROVE  LET numbers == {m.value.n : m \in Payable(v, p)}
         IN  Amount(v, p) \in IF numbers = {} THEN {1} ELSE numbers
<1> DEFINE found == {w \in GetValueByPath(v, p) : ToFloat64(w)}
<1>0. Amount(v, p) = IF found = {} THEN 1 ELSE (CHOOSE w \in found : TRUE).value.n
  BY DEF Amount
<1> SUFFICES {w.value.n : w \in found} = {m.value.n : m \in Payable(v, p)}
  <2> HIDE DEF found
  <2> QED
    BY <1>0
<1>1. Len(p) \in Nat /\ (p # <<>> => Len(p) # 0)
  BY EmptySeq, LenProperties
<1>2. ASSUME v.t # "num" PROVE p = <<>> => Payable(v, p) = {}
  <2> SUFFICES ASSUME p = <<>>, NEW m \in Numbers(v, Len(p)), m.at = p, Clear(m) PROVE FALSE
    BY DEF Payable
  <2>0. PICK d \in Nat : \E x \in Inside(v)[d] : m \in Below(x)
    BY <1>1, <1>2 DEF Numbers
  <2>1. PICK x \in Inside(v)[d] : m \in Below(x)
    BY <2>0
  <2>2. x \in Reach(V)
    BY InsideTypes
  <2>3. m \in Inside(v)[d + 1]
    <3>1. Inside(v)[d + 1] = UNION {Below(z) : z \in Inside(v)[d]}
      BY InsideEq
    <3> QED
      BY <2>1, <3>1
  <2>4. Len(m.at) = d + 1
    BY <2>3, ClearLength
  <2>5. Len(<<>>) = 0
    OBVIOUS
  <2> QED
    BY <2>4, <2>5
<1>3. CASE v.t = "num"
  <2>1. Numbers(v, Len(p)) = {[value |-> v, path |-> <<"return">>, at |-> <<"return">>,
                               via |-> {}, depth |-> 1]}
    BY <1>3 DEF Numbers
  <2>2. Payable(v, p) = IF p = <<"return">> /\ v.known
                        THEN Numbers(v, Len(p)) ELSE {}
    BY <2>1 DEF Payable, Clear
  <2>3. ToFloat64(Start(v)) <=> v.known
    BY <1>3 DEF ToFloat64, Start
  <2>4. v.t # "nil" /\ v.t # "text" /\ ~Object(v)
    BY <1>3 DEF Object
  <2>5. CASE p = <<"return">> /\ v.known
    <3>1. p # <<>>
      BY <2>5
    <3>2. GetValueByPath(v, p) = {Start(v)}
      BY <2>3, <2>4, <2>5, <3>1 DEF GetValueByPath, Start
    <3>3. found = {Start(v)} /\ Start(v).value = v
      BY <2>3, <2>5, <3>2 DEF Start
    <3>4. Payable(v, p) = {[value |-> v, path |-> <<"return">>, at |-> <<"return">>,
                            via |-> {}, depth |-> 1]}
      BY <2>1, <2>2, <2>5
    <3> HIDE DEF found
    <3> QED
      BY <3>3, <3>4
  <2>6. CASE ~(p = <<"return">> /\ v.known)
    <3>1. GetValueByPath(v, p) = {}
      <4>1. p # <<>> => Walk(v, p)[Len(p)] = {}
        BY <1>1, <2>4, WalkNowhere
      <4> QED
        BY <2>3, <2>4, <2>6, <4>1 DEF GetValueByPath, Start
    <3> QED
      BY <2>2, <2>6, <3>1
  <2> QED
    BY <2>5, <2>6
<1>4. CASE v.t # "num" /\ p = <<>>
  <2>1. GetValueByPath(v, p) = {}
    BY <1>4 DEF GetValueByPath
  <2> QED
    BY <1>2, <1>4, <2>1
<1>5. CASE v.t # "num" /\ p # <<>>
  <2> DEFINE onPath == {y \in Inside(v)[Len(p)] : OnPath(y, p, Len(p))}
  <2>1. Walk(v, p)[Len(p)] = {Met(y) : y \in onPath}
    BY <1>1, WalkMeetsSchema
  <2>2. Payable(v, p) = {y \in onPath :
                          /\ y.value.t = "num"
                          /\ IF "json" \in y.via THEN y.value.json = "same" ELSE y.value.known}
    <3>1. {m \in Numbers(v, Len(p)) : m.at = p /\ Clear(m)}
            = {y \in Inside(v)[Len(p)] : OnPath(y, p, Len(p)) /\ y.value.t = "num"}
      BY <1>5, NumbersOnPath
    <3>2. Payable(v, p) = {m \in {l \in Numbers(v, Len(p)) : l.at = p /\ Clear(l)} :
                             IF "json" \in m.via THEN m.value.json = "same" ELSE m.value.known}
      BY DEF Payable
    <3> QED
      BY <3>1, <3>2
  <2>3. \A y : /\ Met(y).value = y.value
               /\ ToFloat64(Met(y)) <=> (/\ y.value.t = "num"
                                         /\ IF "json" \in y.via THEN y.value.json = "same"
                                            ELSE y.value.known)
    BY DEF Met, ToFloat64
  <2>4. CASE ~Object(v)
    <3>1. Walk(v, p)[Len(p)] = {}
      BY <1>1, <1>5, <2>4, WalkNowhere
    <3>2. onPath = {}
      BY <2>1, <3>1
    <3>3. Payable(v, p) = {}
      BY <2>2, <3>2
    <3>4. found = {}
      <4>1. ~ToFloat64(Start(v))
        BY <1>5 DEF ToFloat64, Start
      <4> QED
        BY <3>1, <4>1 DEF GetValueByPath, Start
    <3> QED
      BY <3>3, <3>4
  <2>5. CASE Object(v)
    <3>1. v.t # "nil" /\ v.t # "text"
      BY <2>5 DEF Object
    <3>2. ~ToFloat64(Start(v))
      BY <1>5 DEF ToFloat64, Start
    <3>3. GetValueByPath(v, p) = Walk(v, p)[Len(p)]
      BY <1>5, <3>1, <3>2 DEF GetValueByPath, Start
    <3>4. found = {w \in {Met(y) : y \in onPath} : ToFloat64(w)}
      BY <2>1, <3>3
    <3> HIDE DEF found, onPath
    <3>5. found = {Met(y) : y \in Payable(v, p)}
      BY <2>2, <2>3, <3>4
    <3> QED
      BY <2>3, <3>5
  <2> QED
    BY <2>4, <2>5
<1> QED
  BY <1>3, <1>4, <1>5

-----------------------------------------------------------------------------
(* What a call and a response hold *)

\* The last of some positions is one of them.
LEMMA MaxIn ==
  ASSUME NEW n \in Nat, NEW S, S \subseteq 1 .. n, S # {} PROVE Max(S) \in S
<1> DEFINE Has(U) == \E x \in U : \A y \in U : x >= y
           T == {m \in Nat : \A U \in SUBSET (1 .. m) : U # {} => Has(U)}
<1>1. 0 \in T
  <2>1. 1 .. 0 = {}
    OBVIOUS
  <2>2. \A U \in SUBSET (1 .. 0) : U = {}
    BY <2>1
  <2> QED
    BY <2>2
<1>2. ASSUME NEW m \in T PROVE m + 1 \in T
  <2> SUFFICES ASSUME NEW U \in SUBSET (1 .. m + 1), U # {} PROVE Has(U)
    OBVIOUS
  <2>1. CASE m + 1 \in U
    BY <2>1
  <2>2. CASE m + 1 \notin U
    <3>1. U \in SUBSET (1 .. m)
      BY <2>2
    <3> QED
      BY <3>1
  <2> QED
    BY <2>1, <2>2
<1> HIDE DEF T
<1>3. T = Nat
  BY <1>1, <1>2, SetInduction DEF T
<1>4. Has(S)
  BY <1>3 DEF T
<1> QED
  BY <1>4 DEF Max

\* The result of a call is one of its results.
LEMMA PrimaryResultIn ==
  ASSUME NEW V, Nil \in V, NEW rs \in Seq(V) PROVE PrimaryResult(rs) \in V
<1> DEFINE S == {i \in DOMAIN rs : rs[i].t \notin {"nil", "error"}}
<1>1. Len(rs) \in Nat /\ DOMAIN rs = 1 .. Len(rs) /\ \A i \in DOMAIN rs : rs[i] \in V
  BY LenProperties, ElementOfSeq
<1>2. S # {} => Max(S) \in S
  <2>1. S \subseteq 1 .. Len(rs)
    BY <1>1
  <2> HIDE DEF S
  <2> QED
    BY <1>1, <2>1, MaxIn
<1>3. S # {} => rs[Max(S)] \in V
  BY <1>1, <1>2
<1>4. PrimaryResult(rs) = IF S = {} THEN Nil ELSE rs[Max(S)]
  BY DEF PrimaryResult
<1> QED
  BY <1>3, <1>4

LEMMA NumbersTypes ==
  ASSUME NEW V, Closed(V), NEW v \in V, NEW n \in Nat, NEW m \in Numbers(v, n), v.t # "num"
  PROVE  /\ m \in Reach(V) /\ m.value.t = "num"
         /\ \E d \in Nat : m \in Inside(v)[d + 1]
<1>1. PICK d \in 0 .. n : \E x \in Inside(v)[d] : m \in Below(x)
  BY DEF Numbers
<1>2. PICK x \in Inside(v)[d] : m \in Below(x)
  BY <1>1
<1>3. d \in Nat /\ d + 1 \in Nat
  OBVIOUS
<1>4. Inside(v)[d + 1] = UNION {Below(z) : z \in Inside(v)[d]}
  BY <1>3, InsideEq
<1>5. m \in Inside(v)[d + 1]
  BY <1>2, <1>4
<1>6. m \in Reach(V)
  BY <1>3, <1>5, InsideTypes
<1>7. m.value.t = "num"
  BY DEF Numbers
<1> QED
  BY <1>3, <1>5, <1>6, <1>7

\* The Console offers sequences of segments.
LEMMA AdvertisedPath ==
  ASSUME NEW V, Closed(V), NEW v \in V, NEW l \in Advertised(v)
  PROVE  l.path \in Seq(Segment)
<1>1. l \in Numbers(v, SchemaMaxDepth) /\ SchemaMaxDepth \in Nat
  BY DEF Advertised, SchemaMaxDepth
<1>2. CASE v.t = "num"
  <2>1. l.path = <<"return">>
    BY <1>1, <1>2 DEF Numbers
  <2>2. "return" \in Segment
    BY DEF Segment
  <2> QED
    BY <2>1, <2>2
<1>3. CASE v.t # "num"
  <2>1. l \in Reach(V)
    BY <1>1, <1>3, NumbersTypes
  <2> QED
    BY <2>1 DEF Reach
<1> QED
  BY <1>2, <1>3

\* From JSON come maps and float64 numbers only.
LEMMA JsonInside ==
  ASSUME NEW V, Closed(V), \A u \in V : u.t # "struct", NEW v \in V, NEW d \in Nat,
         NEW x \in Inside(v)[d]
  PROVE  x.via \subseteq {"array", "dot"}
<1> DEFINE T == {n \in Nat : \A y \in Inside(v)[n] : y.via \subseteq {"array", "dot"}}
<1>1. 0 \in T
  <2>1. Root(v).via = {}
    BY DEF Root
  <2> QED
    BY <2>1, InsideEq
<1>2. ASSUME NEW n \in T PROVE n + 1 \in T
  <2>1. n \in Nat /\ Inside(v)[n + 1] = UNION {Below(w) : w \in Inside(v)[n]}
    BY InsideEq
  <2>2. ASSUME NEW w \in Inside(v)[n], NEW y \in Below(w) PROVE y.via \subseteq {"array", "dot"}
    <3>1. w \in Reach(V) /\ w.via \subseteq {"array", "dot"}
      BY <2>1, InsideTypes
    <3>2. w.value.t # "struct"
      BY <3>1 DEF Reach
    <3>3. \A a : Via(w.value, a) \subseteq {"dot"}
      BY <3>2 DEF Via, Through, Lost
    <3>4. CASE Object(w.value)
      <4>0. PICK a \in AllFields(w.value) :
              y = [value |-> a.field.value,
                   path  |-> w.path \o a.names \o a.field.key,
                   at    |-> w.at \o a.field.key,
                   via   |-> w.via \cup Via(w.value, a),
                   depth |-> w.depth + Len(a.names) + 1]
        BY <3>4 DEF Below
      <4>1. y.via = w.via \cup Via(w.value, a)
        BY <4>0
      <4> QED
        BY <3>1, <3>3, <4>1
    <3>5. CASE ~Object(w.value)
      BY <3>1, <3>5 DEF Below
    <3> QED
      BY <3>4, <3>5
  <2> QED
    BY <2>1, <2>2
<1> HIDE DEF T
<1>3. T = Nat
  BY <1>1, <1>2, SetInduction DEF T
<1> QED
  BY <1>3 DEF T

\* There are no numbers in what has no parts.
LEMMA NoNumbers ==
  ASSUME NEW V, Closed(V), NEW v \in V, v.t \notin {"num", "map", "struct", "array"},
         NEW n \in Nat
  PROVE  Numbers(v, n) = {}
<1> DEFINE T == {m \in Nat : \A y \in Inside(v)[m] : ~Object(y.value) /\ y.value.t # "array"}
<1>1. 0 \in T
  <2>1. Root(v).value = v
    BY DEF Root
  <2> QED
    BY <2>1, InsideEq DEF Object
<1>2. ASSUME NEW m \in T PROVE m + 1 \in T
  <2>1. m \in Nat /\ Inside(v)[m + 1] = UNION {Below(w) : w \in Inside(v)[m]}
    BY InsideEq
  <2>2. \A w \in Inside(v)[m] : Below(w) = {}
    BY DEF Below
  <2> QED
    BY <2>1, <2>2
<1> HIDE DEF T
<1>3. T = Nat
  BY <1>1, <1>2, SetInduction DEF T
<1>4. \A d \in 0 .. n : \A y \in Inside(v)[d] : ~Object(y.value)
  BY <1>3 DEF T
<1> QED
  BY <1>4 DEF Numbers

\* A placeholder has no number but its length.
LEMMA PlaceholderAmount ==
  ASSUME NEW V, Closed(V), NEW n \in Nat, NEW P, P = Response!Placeholder(n), P \in V,
         NEW p \in Seq(Segment)
  PROVE  Amount(P, p) = IF p = <<"length">> THEN n ELSE 1
<1> DEFINE K1 == Key(<<"_truncated">>, Text)
           K2 == Key(<<"length">>, Num(n))
           R == [value |-> P, names |-> <<>>]
<1>0. /\ P.t = "map" /\ P.fields = {K1, K2} /\ Object(P)
      /\ ~K1.embedded /\ K1.key = <<"_truncated">> /\ K1.value = Text
      /\ ~K2.embedded /\ K2.key = <<"length">> /\ K2.value = Num(n)
  <2>1. P = [t |-> "map", fields |-> {K1, K2},
             json |-> Response!Joint({f.value : f \in {K1, K2}})]
    BY DEF Response!Placeholder, Response!Map, Response!Key, Response!Text, Response!Num,
           Key, Text, Num
  <2>2. /\ ~K1.embedded /\ K1.key = <<"_truncated">> /\ K1.value = Text
        /\ ~K2.embedded /\ K2.key = <<"length">> /\ K2.value = Num(n)
    BY DEF Key
  <2> HIDE DEF K1, K2
  <2> QED
    BY <2>1, <2>2 DEF Object
<1>1. /\ Text.t = "text" /\ ~Object(Text)
      /\ Num(n).t = "num" /\ Num(n).n = n /\ Num(n).known /\ ~Object(Num(n))
  BY DEF Text, Num, Object
<1> HIDE DEF K1, K2
<1>2. Fields(P) = {K1, K2}
  <2>1. EmbeddedIn(R) = {}
    BY <1>0 DEF EmbeddedIn
  <2> DEFINE T == {d \in Nat : Embedding(P)[d] \subseteq {R}}
  <2>2. 0 \in T
    BY <1>0, EmbeddingEq
  <2>3. ASSUME NEW d \in T PROVE d + 1 \in T
    <3>1. d \in Nat /\ Embedding(P)[d + 1] = UNION {EmbeddedIn(w) : w \in Embedding(P)[d]}
      BY <1>0, EmbeddingEq
    <3>2. \A w \in Embedding(P)[d] : EmbeddedIn(w) = {}
      BY <2>1
    <3> QED
      BY <3>1, <3>2
  <2> HIDE DEF T
  <2>4. T = Nat
    BY <2>2, <2>3, SetInduction DEF T
  <2>5. Embedding(P)[0] = {R} /\ 0 \in 0 .. SchemaMaxDepth /\ 0 .. SchemaMaxDepth \subseteq Nat
    BY <1>0, EmbeddingEq DEF SchemaMaxDepth
  <2>6. Embedded(P) = {R}
    BY <2>4, <2>5 DEF Embedded, T
  <2>7. AllFields(P) = {[names |-> <<>>, field |-> K1], [names |-> <<>>, field |-> K2]}
    BY <1>0, <2>6 DEF AllFields
  <2>8. \A a : ~Lost(P, a)
    BY <1>0 DEF Lost
  <2>9. Fields(P) = {a.field : a \in AllFields(P)}
    BY <1>0, <2>8 DEF Fields
  <2> DEFINE A1 == [names |-> <<>>, field |-> K1]
             A2 == [names |-> <<>>, field |-> K2]
  <2>10. AllFields(P) = {A1, A2} /\ A1.field = K1 /\ A2.field = K2
    BY <2>7
  <2> HIDE DEF A1, A2
  <2> QED
    BY <2>9, <2>10
<1>3. Fields(Text) = {} /\ Fields(Num(n)) = {}
  BY <1>1 DEF Fields
<1> DEFINE W == Walk(P, p)
<1>4. W[1] = {[value |-> f.value, via |-> {}] : f \in {g \in {K1, K2} : g.key = <<p[1]>>}}
  <2>1. /\ W[0] = {Start(P)}
        /\ \A k \in Nat : W[k + 1] = UNION {Step(w, p[k + 1]) : w \in W[k]}
    BY WalkEq
  <2> HIDE DEF W
  <2>a. 0 \in Nat /\ 0 + 1 = 1
    OBVIOUS
  <2> DEFINE G(k, i) == UNION {Step(w, p[i]) : w \in W[k]}
  <2>b. \A k \in Nat : W[k + 1] = G(k, k + 1)
    BY <2>1
  <2>c. G(0, 1) = Step(Start(P), p[1])
    BY <2>1
  <2> HIDE DEF G
  <2>2. W[1] = Step(Start(P), p[1])
    BY <2>a, <2>b, <2>c
  <2>3. Start(P).value = P /\ Start(P).via = {} /\ Through(P) = {}
    BY <1>0 DEF Start, Through
  <2>4. Step(Start(P), p[1]) = {[value |-> f.value, via |-> {}] :
                                  f \in {g \in {K1, K2} : g.key = <<p[1]>>}}
    BY <1>2, <2>3 DEF Step
  <2> QED
    BY <2>2, <2>4
<1>5. \A w \in W[1] : w.value \in {Text, Num(n)}
  BY <1>0, <1>4
<1>6. ASSUME NEW k \in Nat, k # 0, k # 1 PROVE W[k] = {}
  <2> DEFINE T == {d \in Nat : W[d + 2] = {}}
  <2>1. 0 \in T
    <3>1. W[1 + 1] = UNION {Step(w, p[1 + 1]) : w \in W[1]}
      BY WalkEq
    <3>2. \A w \in W[1] : Fields(w.value) = {}
      BY <1>3, <1>5
    <3>3. \A w \in W[1] : Step(w, p[1 + 1]) = {}
      BY <3>2 DEF Step
    <3> QED
      BY <3>1, <3>3
  <2>2. ASSUME NEW d \in T PROVE d + 1 \in T
    <3>1. W[(d + 2) + 1] = UNION {Step(w, p[(d + 2) + 1]) : w \in W[d + 2]}
      BY WalkEq
    <3> QED
      BY <3>1
  <2> HIDE DEF T
  <2>3. T = Nat
    BY <2>1, <2>2, SetInduction DEF T
  <2>4. k - 2 \in Nat /\ (k - 2) + 2 = k
    BY <1>6
  <2> QED
    BY <2>3, <2>4 DEF T
<1> HIDE DEF W
<1>7. GetValueByPath(P, p) = IF p = <<>> THEN {} ELSE W[Len(p)]
  BY <1>0 DEF GetValueByPath, ToFloat64, W
<1>8. Len(p) \in Nat /\ (p # <<>> => Len(p) # 0)
  BY EmptySeq, LenProperties
<1> DEFINE found == {w \in GetValueByPath(P, p) : ToFloat64(w)}
<1>9. Amount(P, p) = IF found = {} THEN 1 ELSE (CHOOSE w \in found : TRUE).value.n
  BY DEF Amount
<1>10. CASE p = <<"length">>
  <2>1. Len(p) = 1 /\ p # <<>> /\ p[1] = "length"
    BY <1>10
  <2>2. K1.key # <<p[1]>> /\ K2.key = <<p[1]>>
    BY <1>0, <2>1
  <2>3. W[1] = {[value |-> Num(n), via |-> {}]}
    BY <1>0, <1>4, <2>2
  <2>4. found = {[value |-> Num(n), via |-> {}]}
    BY <1>1, <1>7, <2>1, <2>3 DEF ToFloat64
  <2> HIDE DEF found
  <2>5. found # {} /\ (CHOOSE w \in found : TRUE) = [value |-> Num(n), via |-> {}]
    BY <2>4
  <2>6. (CHOOSE w \in found : TRUE).value = Num(n)
    <3>1. [value |-> Num(n), via |-> {}].value = Num(n)
      OBVIOUS
    <3> QED
      BY <2>5, <3>1, Zenon
  <2>7. Amount(P, p) = Num(n).n
    BY <1>9, <2>5, <2>6
  <2> QED
    BY <1>1, <1>10, <2>7
<1>11. CASE p # <<"length">>
  <2>1. \A w \in W[1] : Len(p) = 1 => w.value = Text
    <3> SUFFICES ASSUME Len(p) = 1, NEW w \in W[1] PROVE w.value = Text
      OBVIOUS
    <3>1. p = <<p[1]>>
      <4>1. p \in [1 .. 1 -> Segment]
        BY LenProperties
      <4> QED
        BY <4>1
    <3>2. K2.key # <<p[1]>>
      BY <1>0, <1>11, <3>1
    <3> QED
      BY <1>0, <1>4, <3>2
  <2>2. \A w : w.value = Text => ~ToFloat64(w)
    BY <1>1 DEF ToFloat64
  <2>3. found = {}
    BY <1>6, <1>7, <1>8, <2>1, <2>2
  <2> HIDE DEF found
  <2> QED
    BY <1>9, <1>11, <2>3
<1> QED
  BY <1>10, <1>11

-----------------------------------------------------------------------------
(* Whom the request is charged to *)

Seen == 1 .. next - 1

\* What the loop has gathered from the policies it has seen.
Gathered ==
    /\ identity \in {0, next - 1}
    /\ identity = 0 => \A i \in Seen : ~Able(i)
    /\ identity # 0 => Able(identity) /\ \A i \in 1 .. identity - 1 : ~Able(i)
    /\ stream = "drained" <=> \E i \in Seen : Binds(i)
    /\ matched <=> \E i \in Seen : Speaks(i)
    /\ rateLimited <=> \E i \in Seen : Speaks(i) /\ policies[i].hasRateLimit

IInv ==
    /\ TypeOK
    /\ Gathered
    /\ step = "metadata" => next = 1
    /\ step # "metadata" => requestBody
    /\ step = "handler" => identity # 0 \/ next > Len(policies)

LEMMA InitInv == Init => IInv
<1> SUFFICES ASSUME Init PROVE IInv
  OBVIOUS
<1>1. policies \in Seq(Policy)
  BY DEF Init
<1>2. Len(policies) \in Nat
  BY <1>1, LenProperties
<1>3. next \in 1 .. Len(policies) + 1 /\ identity \in 0 .. Len(policies)
  BY <1>2 DEF Init
<1>4. TypeOK
  BY <1>1, <1>3 DEF Init, TypeOK
<1>5. Gathered
  BY DEF Init, Gathered, Seen
<1> QED
  BY <1>4, <1>5 DEF Init, IInv

LEMMA NextInv == IInv /\ [Next]_vars => IInv'
<1> SUFFICES ASSUME IInv, [Next]_vars PROVE IInv'
  OBVIOUS
<1>0. /\ Len(policies) \in Nat
      /\ \A i \in 1 .. Len(policies) : policies[i] \in Policy
      /\ DOMAIN policies = 1 .. Len(policies)
  BY LenProperties, ElementOfSeq DEF IInv, TypeOK
<1>1. CASE CollectMetadata
  BY <1>0, <1>1 DEF CollectMetadata, IInv, TypeOK, Gathered, Seen, Able, Binds, Speaks
<1>2. CASE SkipFunction
  <2>1. /\ next \in 1 .. Len(policies) /\ identity = 0 /\ ~Speaks(next)
        /\ next' = next + 1
        /\ UNCHANGED <<policies, sent, stream, requestBody, matched, identity,
                       rateLimited, step>>
    BY <1>0, <1>2 DEF SkipFunction, Looking, Current, Speaks, IInv, TypeOK
  <2>2. TypeOK'
    BY <1>0, <2>1 DEF IInv, TypeOK
  <2>3. ~Binds(next) /\ ~Able(next)
    BY <2>1 DEF Binds, Able
  <2>4. Seen' = Seen \cup {next}
    BY <1>0, <2>1 DEF Seen, IInv, TypeOK
  <2>5. Gathered'
    BY <1>0, <2>1, <2>3, <2>4 DEF IInv, TypeOK, Gathered, Able, Binds, Speaks
  <2> QED
    BY <2>1, <2>2, <2>5, <1>2 DEF IInv, SkipFunction, Looking
<1>3. CASE Try
  <2>1. /\ next \in 1 .. Len(policies) /\ identity = 0 /\ Speaks(next)
        /\ step = "policies"
        /\ matched' = TRUE
        /\ rateLimited' = (rateLimited \/ policies[next].hasRateLimit)
        /\ identity' = IF HasText(policies[next].place) THEN next ELSE 0
        /\ stream' = IF policies[next].place.location = "body" THEN "drained" ELSE stream
        /\ next' = next + 1
        /\ UNCHANGED <<policies, sent, requestBody, step>>
    BY <1>0, <1>3 DEF Try, Looking, Current, Speaks, IInv, TypeOK
  <2>2. TypeOK'
    BY <1>0, <2>1 DEF IInv, TypeOK, Policy
  <2>3. stream = "full" <=> \A j \in 1 .. next - 1 : ~Binds(j)
    BY DEF IInv, TypeOK, Gathered, Seen
  <2>4. HasText(policies[next].place) <=> Able(next)
    BY <2>1, <2>3 DEF HasText, Able
  <2>5. Seen' = Seen \cup {next}
    BY <1>0, <2>1 DEF Seen, IInv, TypeOK
  <2>6. \A i \in 1 .. Len(policies) :
          (Able(i)' <=> Able(i)) /\ (Binds(i)' <=> Binds(i)) /\ (Speaks(i)' <=> Speaks(i))
    BY <2>1 DEF Able, Binds, Speaks
  <2>7. /\ identity' \in {0, next' - 1}
        /\ identity' = 0 => \A i \in Seen' : ~Able(i)'
        /\ identity' # 0 => Able(identity)' /\ \A i \in 1 .. identity' - 1 : ~Able(i)'
    BY <1>0, <2>1, <2>4, <2>5, <2>6 DEF IInv, TypeOK, Gathered, Seen, Able, Binds, Speaks
  <2>8. stream' = "drained" <=> \E i \in Seen' : Binds(i)'
    BY <1>0, <2>1, <2>5 DEF IInv, TypeOK, Gathered, Seen, Binds, Speaks
  <2>9. /\ matched' <=> \E i \in Seen' : Speaks(i)'
        /\ rateLimited' <=> \E i \in Seen' : Speaks(i)' /\ policies'[i].hasRateLimit
    BY <1>0, <2>1, <2>5 DEF IInv, TypeOK, Gathered, Seen, Speaks
  <2> QED
    BY <2>1, <2>2, <2>7, <2>8, <2>9 DEF IInv, Gathered
<1>4. CASE Found
  BY <1>0, <1>4 DEF Found, IInv, TypeOK, Gathered, Seen, Able, Binds, Speaks
<1>5. CASE UNCHANGED vars
  BY <1>5 DEF vars, IInv, TypeOK, Gathered, Seen, Able, Binds, Speaks
<1> QED
  BY <1>1, <1>2, <1>3, <1>4, <1>5 DEF Next

-----------------------------------------------------------------------------
(* The response *)

\* What the copy lacks, the flags tell.
CopyInv ==
    /\ written \in Nat /\ captured \in 0 .. MaxCaptured
    /\ truncated \in BOOLEAN /\ emptyWrite \in BOOLEAN
    /\ captured <= written
    /\ ~truncated => captured = written
    /\ truncated => captured = MaxCaptured
    /\ truncated /\ captured = written => emptyWrite

ResponseInv == CopyInv /\ KeptIsComplete

LEMMA InitResponse == Response!Init => ResponseInv
<1> SUFFICES ASSUME Response!Init PROVE ResponseInv
  OBVIOUS
<1>1. CopyInv
  <2>1. written = 0 /\ captured = 0 /\ ~truncated /\ ~emptyWrite
        /\ truncated \in BOOLEAN /\ emptyWrite \in BOOLEAN
    BY DEF Response!Init
  <2> QED
    BY <2>1, ResponseAssumption DEF CopyInv
<1>2. KeptIsComplete
  BY DEF Response!Init, KeptIsComplete, Response!KeptIsComplete
<1> QED
  BY <1>1, <1>2 DEF ResponseInv

\* A body that is not parsed is known by its kind.
LEMMA Kinds ==
    /\ Response!Nil # Response!Text
    /\ Response!Nil \notin Responses
    /\ \A n : Response!Placeholder(n) \notin {Response!Text, Response!Nil}
BY ResponseAssumption
   DEF Response!Nil, Response!Text, Response!Placeholder, Response!Map, Nil

LEMMA AttachResponse == ASSUME NEW f, ResponseInv, Response!Attach(f) PROVE ResponseInv'
BY DEF Response!Attach, ResponseInv, CopyInv, KeptIsComplete, Response!KeptIsComplete

LEMMA WriteResponse ==
    ASSUME NEW n \in Nat, ResponseInv, Response!Write(n)
    PROVE  ResponseInv'
<1>1. CopyInv'
  <2>1. /\ written' = written + n
        /\ captured' = IF captured + n < MaxCaptured THEN captured + n ELSE MaxCaptured
        /\ truncated' = (truncated \/ captured = MaxCaptured \/ captured + n > MaxCaptured)
        /\ emptyWrite' = (emptyWrite \/ (n = 0 /\ captured = MaxCaptured))
    BY DEF Response!Write, Response!Smaller
  <2>2. /\ written' \in Nat /\ captured' \in 0 .. MaxCaptured
        /\ captured' <= written'
    BY <2>1, ResponseAssumption DEF ResponseInv, CopyInv
  <2>3. truncated' \in BOOLEAN /\ emptyWrite' \in BOOLEAN
    BY <2>1 DEF ResponseInv, CopyInv
  <2>4. ~truncated' => captured' = written'
    <3>1. ~truncated' => ~truncated /\ ~(captured + n > MaxCaptured)
      BY <2>1, Zenon
    <3>2. captured + n \in Nat /\ captured \in Nat
      BY ResponseAssumption DEF ResponseInv, CopyInv
    <3> QED
      BY <2>1, <3>1, <3>2, ResponseAssumption DEF ResponseInv, CopyInv
  <2>5. truncated' => captured' = MaxCaptured
    BY <2>1, ResponseAssumption DEF ResponseInv, CopyInv
  <2>6. truncated' /\ captured' = written' => emptyWrite'
    BY <2>1, ResponseAssumption DEF ResponseInv, CopyInv
  <2> QED
    BY <2>2, <2>3, <2>4, <2>5, <2>6 DEF CopyInv
<1>2. KeptIsComplete'
  BY DEF Response!Write, KeptIsComplete, Response!KeptIsComplete
<1> QED
  BY <1>1, <1>2 DEF ResponseInv

LEMMA FulfilResponse ==
    ASSUME NEW c \in Responses \cup {Response!Text}, written > 0 \/ c = Response!Text,
           ResponseInv, Response!Fulfil(c)
    PROVE  ResponseInv'
<1>1. CopyInv'
  BY DEF Response!Fulfil, ResponseInv, CopyInv
<1>2. /\ content' = c /\ body' = Response!Parsed(c)
      /\ UNCHANGED <<written, captured, truncated, emptyWrite>>
  BY DEF Response!Fulfil
<1>3. CASE captured = 0
  <2>1. written = 0 /\ c = Response!Text
    BY <1>3, ResponseAssumption DEF ResponseInv, CopyInv
  <2>2. body' = Response!Nil
    BY <1>2, <1>3 DEF Response!Parsed
  <2> QED
    BY <1>1, <1>2, <2>1, <2>2, Kinds, ResponseAssumption
       DEF ResponseInv, KeptIsComplete, Response!KeptIsComplete
<1>4. CASE captured # 0 /\ truncated
  <2>1. body' = Response!Placeholder(captured)
    BY <1>2, <1>4 DEF Response!Parsed
  <2>2. captured \in 1 .. MaxCaptured
    BY <1>4, ResponseAssumption DEF ResponseInv, CopyInv
  <2>3. body' \notin Responses \cup {Response!Text}
    BY <2>1, <2>2, Kinds, ResponseAssumption
  <2>4. captured = written => emptyWrite
    BY <1>4 DEF ResponseInv, CopyInv
  <2> QED
    BY <1>1, <1>2, <2>3, <2>4 DEF ResponseInv, KeptIsComplete, Response!KeptIsComplete
<1>5. CASE captured # 0 /\ ~truncated /\ c # Response!Text
  <2>1. body' = c /\ captured = written
    BY <1>2, <1>5 DEF Response!Parsed, ResponseInv, CopyInv
  <2> QED
    BY <1>1, <1>2, <2>1 DEF ResponseInv, KeptIsComplete, Response!KeptIsComplete
<1>6. CASE captured # 0 /\ ~truncated /\ c = Response!Text
  <2>1. captured = written
    BY <1>6 DEF ResponseInv, CopyInv
  <2>2. body' = Response!Text \/ body' = Response!Placeholder(captured)
    BY <1>2, <1>6 DEF Response!Parsed
  <2>3. captured \in 1 .. MaxCaptured
    BY <1>6, ResponseAssumption DEF ResponseInv, CopyInv
  <2>4. body' \in Responses \cup {Response!Text} => body' = content'
    BY <1>2, <1>6, <2>2, <2>3, Kinds, ResponseAssumption
  <2> QED
    BY <1>1, <1>2, <1>6, <2>1, <2>4 DEF ResponseInv, KeptIsComplete, Response!KeptIsComplete
<1> QED
  BY <1>3, <1>4, <1>5, <1>6

\* Without a step of the response nothing is said anew.
LEMMA IdleResponse ==
    ASSUME ResponseInv, UNCHANGED responseVars PROVE ResponseInv'
BY DEF responseVars, ResponseInv, CopyInv, KeptIsComplete, Response!KeptIsComplete

LEMMA NextResponse ==
    ASSUME ResponseInv, Response!Next
    PROVE  ResponseInv'
<1>1. ASSUME NEW n \in 0 .. MaxCaptured + 1, Response!Write(n) PROVE ResponseInv'
  BY <1>1, WriteResponse, ResponseAssumption
<1> QED
  BY <1>1, AttachResponse, FulfilResponse DEF Response!Next

\* The response was charged what its body holds, or what stands for its body.
AmountInv ==
    /\ field \in Seq(Segment)
    /\ phase = "fulfilled" =>
         /\ amount = Amount(body, field)
         /\ content \in Responses \cup {Text}
         /\ \/ body = content
            \/ body = Nil /\ content = Text
            \/ captured \in 1 .. MaxCaptured /\ body = Response!Placeholder(captured)

\* What module ResponseCapture says of values is what is said here.
LEMMA ResponseValues ==
    /\ Response!Nil = Nil /\ Response!Text = Text
    /\ \A v, p : Response!Amount(v, p) = Amount(v, p)
    /\ \A v, n : Response!Numbers(v, n) = Numbers(v, n)
<1>1. Response!Nil = Nil /\ Response!Text = Text
  BY DEF Response!Nil, Nil, Response!Text, Text
<1>2. \A v, p : Response!Amount(v, p) = Amount(v, p)
  BY DEF Response!Amount, Amount, Response!GetValueByPath, GetValueByPath,
         Response!ToFloat64, ToFloat64, Response!Walk, Walk, Response!Step, Step,
         Response!Fields, Fields, Response!AllFields, AllFields, Response!Lost, Lost,
         Response!Zero, Zero, Response!Object, Object, Response!Through, Through,
         Response!Embedded, Embedded, Response!Embedding, Embedding,
         Response!EmbeddedIn, EmbeddedIn, Response!SchemaMaxDepth, SchemaMaxDepth
<1>3. \A v, n : Response!Numbers(v, n) = Numbers(v, n)
  BY DEF Response!Numbers, Numbers, Response!Inside, Inside, Response!Below, Below,
         Response!Via, Via, Response!Indexed, Indexed,
         Response!AllFields, AllFields, Response!Lost, Lost,
         Response!Zero, Zero, Response!Object, Object, Response!Through, Through,
         Response!Embedded, Embedded, Response!Embedding, Embedding,
         Response!EmbeddedIn, EmbeddedIn, Response!SchemaMaxDepth, SchemaMaxDepth
<1> QED
  BY <1>1, <1>2, <1>3

LEMMA InitAmount == Response!Init => AmountInv
BY DEF Response!Init, AmountInv

LEMMA NextAmount == ASSUME AmountInv, ResponseInv, Response!Next PROVE AmountInv'
<1>1. ASSUME NEW f \in TrackedFields, Response!Attach(f) PROVE AmountInv'
  <2>1. f \in Seq(STRING)
    BY ValuesAssumption
  <2>2. f \in Seq(Segment)
    BY <2>1 DEF Segment
  <2> QED
    BY <1>1, <2>2 DEF Response!Attach, AmountInv
<1>2. ASSUME NEW n \in 0 .. MaxCaptured + 1, Response!Write(n) PROVE AmountInv'
  BY <1>2 DEF Response!Write, AmountInv
<1>3. ASSUME NEW c \in Responses \cup {Text}, Response!Fulfil(c), written > 0 \/ c = Text
      PROVE  AmountInv'
  <2>1. /\ content' = c /\ body' = Response!Parsed(c)
        /\ amount' = Response!Amount(body', field)
        /\ UNCHANGED <<captured, field>>
    BY <1>3 DEF Response!Fulfil
  <2>2. amount' = Amount(body', field)
    BY <2>1, ResponseValues
  <2>3. CASE captured = 0
    <3>1. body' = Nil
      BY <2>1, <2>3, ResponseValues DEF Response!Parsed
    <3>2. c = Text
      BY <1>3, <2>3, ResponseAssumption DEF ResponseInv, CopyInv
    <3> QED
      BY <2>1, <2>2, <3>1, <3>2 DEF AmountInv
  <2>4. CASE captured # 0
    <3>1. captured \in 1 .. MaxCaptured
      BY <2>4, ResponseAssumption DEF ResponseInv, CopyInv
    <3>2. body' = c \/ body' = Response!Placeholder(captured)
      BY <2>1, <2>4, ResponseValues DEF Response!Parsed
    <3> QED
      BY <2>1, <2>2, <3>1, <3>2 DEF AmountInv
  <2> QED
    BY <2>3, <2>4
<1> QED
  BY <1>1, <1>2, <1>3, ResponseValues DEF Response!Next

LEMMA IdleAmount == ASSUME AmountInv, UNCHANGED responseVars PROVE AmountInv'
BY DEF responseVars, AmountInv

\* In a body a number is in the way of nothing but arrays and dots.
LEMMA BodyNumbers ==
  ASSUME NEW v \in BodyValues, NEW p \in Seq(Segment)
  PROVE  Payable(v, p) = {m \in Numbers(v, Len(p)) : m.at = p /\ m.via \cap {"array", "dot"} = {}}
<1>0. Closed(BodyValues) /\ \A u \in BodyValues : u.t # "struct" /\ (u.t = "num" => u.known)
  BY ValuesAssumption
<1>1. Len(p) \in Nat
  BY LenProperties
<1>2. ASSUME NEW m \in Numbers(v, Len(p))
      PROVE  m.via \subseteq {"array", "dot"} /\ m.value.known
  <2>1. CASE v.t = "num"
    <3>1. m.via = {} /\ m.value = v
      BY <2>1 DEF Numbers
    <3> QED
      BY <1>0, <2>1, <3>1
  <2>2. CASE v.t # "num"
    <3>1. m \in Reach(BodyValues) /\ m.value.t = "num"
      BY <1>0, <1>1, <2>2, NumbersTypes
    <3>2. PICK d \in Nat : m \in Inside(v)[d + 1]
      BY <1>0, <1>1, <2>2, NumbersTypes
    <3>3. d + 1 \in Nat
      OBVIOUS
    <3>4. m.via \subseteq {"array", "dot"}
      BY <1>0, <3>2, <3>3, JsonInside
    <3>5. m.value \in BodyValues
      BY <3>1 DEF Reach
    <3> QED
      BY <1>0, <3>1, <3>4, <3>5
  <2> QED
    BY <2>1, <2>2
<1>3. ASSUME NEW m \in Numbers(v, Len(p))
      PROVE  /\ m.value.known /\ "json" \notin m.via
             /\ Clear(m) <=> m.via \cap {"array", "dot"} = {}
  BY <1>2 DEF Clear
<1> QED
  BY <1>3 DEF Payable

LEMMA AmountSent == AmountInv => ChargedAsSent
<1> SUFFICES ASSUME AmountInv, phase = "fulfilled" PROVE ChargedAsSent
  BY DEF ChargedAsSent, Response!ChargedAsSent
<1> DEFINE paid == {m \in Numbers(content, Len(field)) :
                      m.at = field /\ m.via \cap {"array", "dot"} = {}}
           numbers == {l.value.n : l \in paid}
           kept == body \in {content, Nil}
<1>0. Closed(BodyValues) /\ Responses \cup {Text} \subseteq BodyValues
  BY ValuesAssumption
<1>1. field \in Seq(Segment) /\ content \in BodyValues /\ amount = Amount(body, field)
  BY <1>0 DEF AmountInv
<1>2. paid = Payable(content, field)
  BY <1>1, BodyNumbers
<1>3. CASE body = content
  <2> DEFINE N == {m.value.n : m \in Payable(content, field)}
  <2>1. amount \in IF N = {} THEN {1} ELSE N
    BY <1>0, <1>1, <1>3, AmountIsThere
  <2>2. N = numbers
    BY <1>2
  <2>3. amount \in IF numbers = {} THEN {1} ELSE numbers
    BY <2>1, <2>2
  <2> HIDE DEF numbers
  <2> QED
    BY <1>3, <2>3, ResponseValues DEF numbers, ChargedAsSent, Response!ChargedAsSent
<1>4. CASE body = Nil /\ content = Text
  <2>1. Amount(Nil, field) = 1
    BY DEF Amount, GetValueByPath, Nil
  <2>2. Numbers(Text, Len(field)) = {}
    <3>1. Text.t \notin {"num", "map", "struct", "array"} /\ Len(field) \in Nat
      BY <1>1, LenProperties DEF Text
    <3>2. Text \in BodyValues
      BY <1>0
    <3> QED
      BY <1>0, <3>1, <3>2, NoNumbers
  <2>3. amount = 1 /\ numbers = {}
    BY <1>1, <1>4, <2>1, <2>2
  <2> HIDE DEF numbers
  <2> QED
    BY <1>4, <2>3, ResponseValues DEF numbers, ChargedAsSent, Response!ChargedAsSent
<1>5. CASE captured \in 1 .. MaxCaptured /\ body = Response!Placeholder(captured)
  <2>1. body # content /\ body # Nil
    <3>1. body \notin Responses /\ body # Text /\ body # Nil
      BY <1>5, Kinds, ResponseAssumption, ResponseValues
    <3> QED
      BY <3>1 DEF AmountInv
  <2>2. Amount(body, field) = IF field = <<"length">> THEN captured ELSE 1
    <3>1. captured \in Nat /\ body \in BodyValues
      BY <1>5, ResponseAssumption, ValuesAssumption
    <3> QED
      BY <1>0, <1>1, <1>5, <3>1, PlaceholderAmount
  <2> QED
    BY <1>1, <2>1, <2>2, ResponseValues DEF ChargedAsSent, Response!ChargedAsSent
<1> QED
  BY <1>3, <1>4, <1>5 DEF AmountInv

-----------------------------------------------------------------------------
(* What a call is charged *)

\* The call that was settled last was charged what it returned.
FunctionInv ==
    /\ fn \subseteq Seq(ResultValues) /\ results \in Seq(ResultValues)
    /\ tracked \in Seq(Segment)
    /\ calls = "settled" =>
         charge = IF IsError(results) THEN 1 ELSE Amount(PrimaryResult(results), tracked)

\* What module FunctionAmount says of values is what is said here.
LEMMA FunctionValues ==
    /\ \A v, p : Function!Amount(v, p) = Amount(v, p)
    /\ \A v, n : Function!Numbers(v, n) = Numbers(v, n)
    /\ \A v : Function!Advertised(v) = Advertised(v)
    /\ \A rs : Function!PrimaryResult(rs) = PrimaryResult(rs)
    /\ \A rs : Function!IsError(rs) = IsError(rs)
<1>1. \A v, p : Function!Amount(v, p) = Amount(v, p)
  BY DEF Function!Amount, Amount, Function!GetValueByPath, GetValueByPath,
         Function!ToFloat64, ToFloat64, Function!Walk, Walk, Function!Step, Step,
         Function!Fields, Fields, Function!AllFields, AllFields, Function!Lost, Lost,
         Function!Zero, Zero, Function!Object, Object, Function!Through, Through,
         Function!Embedded, Embedded, Function!Embedding, Embedding,
         Function!EmbeddedIn, EmbeddedIn, Function!SchemaMaxDepth, SchemaMaxDepth
<1>2. \A v, n : Function!Numbers(v, n) = Numbers(v, n)
  BY DEF Function!Numbers, Numbers, Function!Inside, Inside, Function!Below, Below,
         Function!Via, Via, Function!Indexed, Indexed,
         Function!AllFields, AllFields, Function!Lost, Lost,
         Function!Zero, Zero, Function!Object, Object, Function!Through, Through,
         Function!Embedded, Embedded, Function!Embedding, Embedding,
         Function!EmbeddedIn, EmbeddedIn, Function!SchemaMaxDepth, SchemaMaxDepth
<1>3. \A v : Function!Advertised(v) = Advertised(v)
  BY <1>2 DEF Function!Advertised, Advertised, Function!SchemaMaxDepth, SchemaMaxDepth
<1>4. \A rs : Function!PrimaryResult(rs) = PrimaryResult(rs)
  BY DEF Function!PrimaryResult, PrimaryResult, Function!Nil, Nil, Function!Max, Max
<1>5. \A rs : Function!IsError(rs) = IsError(rs)
  BY DEF Function!IsError, IsError
<1> QED
  BY <1>1, <1>2, <1>3, <1>4, <1>5

LEMMA InitFunction == Function!Init => FunctionInv
BY DEF Function!Init, FunctionInv

LEMMA NextFunction == ASSUME FunctionInv, Function!Next PROVE FunctionInv'
<1>1. CASE Function!Report
  <2>1. fn' \subseteq Seq(ResultValues) /\ results' \in fn'
    BY <1>1, ValuesAssumption DEF Function!Report
  <2> QED
    BY <1>1, <2>1 DEF Function!Report, FunctionInv
<1>2. CASE Function!Configure
  <2>1. PICK l \in Advertised(PrimaryResult(results)) : tracked' = l.path
    BY <1>2, FunctionValues DEF Function!Configure, Function!Offered
  <2>2. PrimaryResult(results) \in ResultValues
    BY PrimaryResultIn, ValuesAssumption DEF FunctionInv
  <2>3. tracked' \in Seq(Segment)
    BY <2>1, <2>2, AdvertisedPath, ValuesAssumption
  <2> QED
    BY <1>2, <2>3 DEF Function!Configure, FunctionInv
<1>3. CASE Function!Settle
  <2>1. results' \in Seq(ResultValues)
    BY <1>3 DEF Function!Settle, FunctionInv
  <2>2. charge' = IF IsError(results') THEN 1 ELSE Amount(PrimaryResult(results'), tracked)
    BY <1>3, FunctionValues DEF Function!Settle
  <2>3. UNCHANGED <<fn, tracked>>
    BY <1>3 DEF Function!Settle
  <2> QED
    BY <2>1, <2>2, <2>3 DEF FunctionInv
<1> QED
  BY <1>1, <1>2, <1>3 DEF Function!Next

LEMMA IdleFunction == ASSUME FunctionInv, UNCHANGED functionVars PROVE FunctionInv'
BY DEF functionVars, FunctionInv

LEMMA ChargeReturned == FunctionInv => ChargedAsReturned
<1> SUFFICES ASSUME FunctionInv, calls = "settled" PROVE ChargedAsReturned
  BY DEF ChargedAsReturned, Function!ChargedAsReturned
<1> DEFINE result == PrimaryResult(results)
           paid == {m \in Numbers(result, Len(tracked)) :
                      m.at = tracked /\ ~Function!Unreachable(m)}
           numbers == {l.value.n : l \in paid}
<1>1. result \in ResultValues
  BY PrimaryResultIn, ValuesAssumption DEF FunctionInv
<1>2. paid = Payable(result, tracked)
  BY DEF Payable, Clear, Function!Unreachable
<1>3. Amount(result, tracked) \in IF numbers = {} THEN {1} ELSE numbers
  <2> DEFINE N == {m.value.n : m \in Payable(result, tracked)}
  <2> HIDE DEF result
  <2>1. Amount(result, tracked) \in IF N = {} THEN {1} ELSE N
    BY <1>1, AmountIsThere, ValuesAssumption DEF FunctionInv
  <2>2. N = numbers
    BY <1>2
  <2> QED
    BY <2>1, <2>2
<1>4. charge \in IF IsError(results) \/ numbers = {} THEN {1} ELSE numbers
  <2> HIDE DEF numbers, result
  <2> QED
    BY <1>3 DEF FunctionInv, result
<1>5. Function!PrimaryResult(results) = result /\ Function!IsError(results) = IsError(results)
  BY FunctionValues
<1>6. \A n : Function!Numbers(result, n) = Numbers(result, n)
  BY FunctionValues
<1> HIDE DEF result
<1> QED
  BY <1>4, <1>5, <1>6 DEF ChargedAsReturned, Function!ChargedAsReturned

-----------------------------------------------------------------------------
(* The composition *)

\* What is known of the policies holds until the handler starts.
DataInv ==
    /\ step \in {"metadata", "policies", "handler"} => IInv
    /\ ResponseInv /\ AmountInv
    /\ FunctionInv

LEMMA InitData == DataInit => DataInv
BY InitInv, InitResponse, InitAmount, InitFunction DEF DataInit, DataInv

LEMMA NextData == DataInv /\ [DataNext]_dataVars => DataInv'
<1> SUFFICES ASSUME DataInv, [DataNext]_dataVars PROVE DataInv'
  OBVIOUS
<1>1. CASE Next /\ UNCHANGED <<functionVars, responseVars>>
  <2>1. IInv
    BY <1>1 DEF DataInv, Next, CollectMetadata, SkipFunction, Try, Found, Looking
  <2> QED
    BY <1>1, <2>1, NextInv, IdleResponse, IdleAmount, IdleFunction DEF DataInv
<1>2. CASE HandlerStarts
  <2>1. PICK f \in TrackedFields : Response!Attach(f)
    BY <1>2 DEF HandlerStarts
  <2>2. Response!Next
    BY <2>1 DEF Response!Next
  <2>3. ResponseInv' /\ AmountInv'
    BY <2>2, NextResponse, NextAmount DEF DataInv
  <2>4. FunctionInv'
    BY <1>2, IdleFunction DEF HandlerStarts, DataInv
  <2> QED
    BY <1>2, <2>3, <2>4 DEF HandlerStarts, DataInv
<1>3. CASE FunctionStep
  <2>1. UNCHANGED <<vars, responseVars>>
    BY <1>3 DEF FunctionStep
  <2>2. step \notin {"metadata", "policies", "handler"} /\ step' = step
    BY <1>3, <2>1 DEF FunctionStep, vars
  <2>3. FunctionInv'
    BY <1>3, NextFunction DEF FunctionStep, DataInv
  <2> QED
    BY <2>1, <2>2, <2>3, IdleResponse, IdleAmount DEF DataInv
<1>4. CASE FunctionDone
  <2>1. FunctionInv'
    BY <1>4 DEF FunctionDone, FunctionInv
  <2> QED
    BY <1>4, <2>1, IdleResponse, IdleAmount DEF FunctionDone, DataInv
<1>5. CASE ResponseStep
  BY <1>5, NextResponse, NextAmount, IdleFunction DEF ResponseStep, DataInv
<1>6. CASE UNCHANGED dataVars
  <2>1. IInv => IInv'
    BY <1>6, NextInv DEF dataVars
  <2>2. step' = step
    BY <1>6 DEF dataVars, vars
  <2>3. ResponseInv' /\ AmountInv' /\ FunctionInv'
    BY <1>6, IdleResponse, IdleAmount, IdleFunction DEF dataVars, DataInv
  <2> QED
    BY <2>1, <2>2, <2>3 DEF DataInv
<1> QED
  BY <1>1, <1>2, <1>3, <1>4, <1>5, <1>6 DEF DataNext

LEMMA Invariance == DataSpec => []DataInv
BY InitData, NextData, PTL DEF DataSpec

-----------------------------------------------------------------------------
(* Every variable of the extraction keeps its type. *)
THEOREM TypeCorrect == Spec => []TypeOK
<1>1. Spec => []IInv
  BY InitInv, NextInv, PTL DEF Spec
<1>2. IInv => TypeOK
  BY DEF IInv
<1> QED
  BY <1>1, <1>2, PTL

(* The handler misses the body only when a policy that was read binds it,  *)
(* and then the metadata has a copy.                                       *)
THEOREM BodyLoss == DataSpec => []BodyLostToBinding
<1>1. DataInv => BodyLostToBinding
  <2> SUFFICES ASSUME DataInv, IInv, step = "handler", stream = "drained"
               PROVE  /\ requestBody
                      /\ \E i \in DOMAIN policies : Binds(i) /\ (identity = 0 \/ i <= identity)
    BY DEF BodyLostToBinding, DataInv
  <2>1. DOMAIN policies = 1 .. Len(policies) /\ Len(policies) \in Nat
    BY LenProperties DEF IInv, TypeOK
  <2>2. PICK i \in Seen : Binds(i)
    BY DEF IInv, Gathered
  <2>3. i \in DOMAIN policies /\ (identity = 0 \/ i <= identity)
    BY <2>1, <2>2 DEF IInv, TypeOK, Gathered, Seen
  <2> QED
    BY <2>2, <2>3 DEF IInv
<1> QED
  BY Invariance, <1>1, PTL

(* The first policy that finds a text identifies, and the limits of the     *)
(* policies up to it count.                                                 *)
THEOREM FirstText == DataSpec => []FirstTextIdentifies
<1>1. DataInv => FirstTextIdentifies
  <2> SUFFICES ASSUME DataInv, IInv, step = "handler"
               PROVE  FirstTextIdentifies
    BY DEF FirstTextIdentifies, DataInv
  <2>1. DOMAIN policies = 1 .. Len(policies) /\ Len(policies) \in Nat
    BY LenProperties DEF IInv, TypeOK
  <2>2. identity = 0 => Seen = DOMAIN policies
    BY <2>1 DEF IInv, TypeOK, Gathered, Seen
  <2>3. \A i \in DOMAIN policies : (identity = 0 \/ i <= identity) <=> i \in Seen
    BY <2>1, <2>2 DEF IInv, TypeOK, Gathered, Seen
  <2>4. Seen \subseteq DOMAIN policies
    BY <2>1 DEF IInv, TypeOK, Seen
  <2> QED
    BY <2>2, <2>3, <2>4 DEF IInv, Gathered, FirstTextIdentifies, Read
<1> QED
  BY Invariance, <1>1, PTL

(* A response body that is kept is the body that was sent, and a complete  *)
(* one in JSON is only replaced after a write of nothing to a full buffer. *)
THEOREM BodyKept == DataSpec => []KeptIsComplete
<1>1. DataInv => KeptIsComplete
  BY DEF DataInv, ResponseInv
<1> QED
  BY Invariance, <1>1, PTL

(* A call is charged a number its own result has in JSON at the path that  *)
(* was chosen from an earlier one, unless the walk cannot get to it; one   *)
(* unit if there is none, or the call failed.                              *)
THEOREM CallCharge == DataSpec => []ChargedAsReturned
<1>1. DataInv => ChargedAsReturned
  BY ChargeReturned DEF DataInv
<1> QED
  BY Invariance, <1>1, PTL

(* A response is charged the number its body has at the tracked path, one  *)
(* unit if there is none, and the length of a body that was not kept if    *)
(* that is the name of the field.                                          *)
THEOREM ResponseCharge == DataSpec => []ChargedAsSent
<1>1. DataInv => ChargedAsSent
  BY AmountSent DEF DataInv
<1> QED
  BY Invariance, <1>1, PTL

=============================================================================
